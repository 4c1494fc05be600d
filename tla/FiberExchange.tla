----------------------------- MODULE FiberExchange -----------------------------
(***************************************************************************)
(* Requests on one connection of a fiber app, one after another, through   *)
(* the middleware of fiberx and of the service: Record answers errors and  *)
(* logs, CorrelationID, Caller and IdempotencyKey store values, in Locals  *)
(* and on the user context, whose strings are views of fiber's header      *)
(* buffer.  Handlers start work that keeps the user context after the      *)
(* request; the next request is parsed into the same buffer.               *)
(*                                                                         *)
(* fiber and fasthttp are external: the handler chain, the error handler,  *)
(* the recover middleware, bodies that are streams.                        *)
(***************************************************************************)
EXTENDS Integers, Sequences, FiniteSets

CONSTANTS
    Chains,          \* the apps' middleware, outermost first
    ErrorHandlers,   \* "default": fiber's; "kit": one that calls Error; "failing"
    Paths,           \* "logged", "quiet" (no bodies), "skipped"
    HeaderSets,      \* what requests carry: [cid, caller, client, key]
    Errors,          \* what handlers return: [name, status, codes],
                     \* codes those of the coded errors of its chain
    MaxChunks,       \* bound: a streamed body
    MaxRequests,     \* bound: requests on the connection
    MaxTasks         \* bound: work started by handlers

Layers == {"Record", "CorrelationID", "Caller", "IdempotencyKey", "recover", "Gate", "Guard"}

None     == 0
NoCaller == [id |-> None, client |-> None]
NoError  == [name |-> "", status |-> 0, codes |-> <<>>]
Refused  == [name |-> "refused", status |-> 401, codes |-> <<>>]
Late     == [name |-> "late", status |-> 503, codes |-> <<>>]
Panicked == [name |-> "panicked", status |-> 500, codes |-> <<>>]

ASSUME ChainsAssumption   == \A ms \in Chains : ms \in Seq(Layers)
ASSUME HandlersAssumption == ErrorHandlers \subseteq {"default", "kit", "failing"}
ASSUME PathsAssumption    == Paths \subseteq {"logged", "quiet", "skipped"}
ASSUME HeadersAssumption  == HeaderSets \subseteq [cid : Nat, caller : Nat, client : Nat, key : Nat]
ASSUME ErrorsAssumption   == Errors \subseteq [name : STRING, status : Nat, codes : Seq(STRING)]
ASSUME BoundsAssumption   == MaxChunks \in Nat /\ MaxRequests \in Nat /\ MaxTasks \in Nat

\* Ids below it are the clients' own.
FirstFresh == 1000
ASSUME FreshAssumption == \A h \in HeaderSets : h.cid < FirstFresh

VARIABLES
    chain, handler,   \* the app's middleware and error handler (never change)
    req,              \* the request: its number, path and headers
    mode,             \* "idle", "down", "handler", "up", "panic", "sending", "crashed"
    at,               \* the innermost layer whose code is running
    err,              \* the error c.Next() returns to layer at
    resp,             \* the response: status, body, Correlation-ID
    locals,           \* Locals: correlation id and caller
    userctx,          \* the user context: values, or views of the header buffer
    stream,           \* a streamed body: bytes so far, and how it ended
    lines,            \* the lines Record wrote for the request
    tasks,            \* work that handlers started, with its user context
    got,              \* the streamed bytes the client has
    plain             \* history: response and error of the same app without Record,
                      \* whether its handler ran or panicked, the Gates that failed late

app  == <<chain, handler>>
ctxs == <<locals, userctx, tasks>>
vars == <<chain, handler, req, mode, at, err, resp, locals, userctx, stream, lines,
          tasks, got, plain>>

Layer(i) == chain[i]
Logs     == req.path = "logged"
Skips    == req.path = "skipped"

-----------------------------------------------------------------------------
(***************************************************************************)
(* Values.  c.Get returns a view of the buffer the request was parsed      *)
(* into: it holds until the next request is.                               *)
(***************************************************************************)
NoView       == [of |-> None, value |-> None]
Own(v)       == [of |-> None, value |-> v]
View(v)      == [of |-> req.number, value |-> v]
Holds(view)  == view.of \in {None, req.number}
FreshId      == FirstFresh + req.number

NoLocals  == [cid |-> None, caller |-> NoCaller]
NoContext == [cid |-> NoView, caller |-> NoView, client |-> NoView, key |-> NoView]

\* log.Logger: what a line is stamped with, from the context Record hands it.
Stamp(l) == [cid |-> l.cid, caller |-> l.caller]

-----------------------------------------------------------------------------
(***************************************************************************)
(* Responses.  A body has a form and what it says.                         *)
(***************************************************************************)
Body(form, says) == [form |-> form, says |-> says]
Empty            == Body("empty", "")
BrokenStream     == Body("text", "stream error")
Fresh            == [status |-> 200, body |-> Empty, cid |-> None]

\* JSON and EmptyJSON; c.JSON fails after the status was set.
JSON(r, status, marshals) ==
    [r EXCEPT !.status = status, !.body = IF marshals THEN Body("data", "") ELSE @]

\* errorsx.Code: of the first coded error of the chain.
Code(e) == IF e.codes = <<>> THEN "" ELSE Head(e.codes)

Error(r, status, e) == [r EXCEPT !.status = status, !.body = Body("error", Code(e))]

\* c.SendStatus: the text of the status, but behind no body.
SendStatus(r, status) ==
    [r EXCEPT !.status = status, !.body = IF @ = Empty THEN Body("text", "status") ELSE @]

\* The app's error handler; "failing" returns an error and changes nothing.
HandlerFails    == handler = "failing"
ErrorHandler(r, e) ==
    CASE handler = "default" -> [r EXCEPT !.status = e.status, !.body = Body("text", e.name)]
      [] handler = "kit"     -> Error(r, e.status, e)
      [] handler = "failing" -> r

\* fiber's own answer to an error that reaches it.
FiberAnswered(r, e) ==
    IF e = NoError THEN r
    ELSE IF HandlerFails THEN SendStatus(r, 500) ELSE ErrorHandler(r, e)

\* Record that trusts the error handler.
AnsweredUnchecked(r, e) == IF e = NoError THEN r ELSE ErrorHandler(r, e)

\* What Record does with an error: the error handler, and a 500 when that fails.
Answered(r, e) ==
    IF e = NoError THEN r
    ELSE IF HandlerFails THEN SendStatus(r, 500) ELSE ErrorHandler(r, e)

\* The service's own middleware that answers errors.
Guarded(r, e) == IF e = NoError THEN r ELSE Error(r, 422, e)

Streamed(r) == r.body.form = "stream"

\* Response.Body() reads a stream to its end; one that breaks is replaced by
\* the text of its error.
Drained(r) ==
    [r EXCEPT !.body = IF stream.ended = "broken" THEN BrokenStream
                       ELSE Body("data", "stream")]

-----------------------------------------------------------------------------
(***************************************************************************)
(* A request arrives.                                                      *)
(***************************************************************************)
NoRequest == [number |-> 0, path |-> "skipped",
              headers |-> [cid |-> None, caller |-> None, client |-> None, key |-> None]]
NoHistory == [resp |-> Fresh, err |-> NoError, handled |-> FALSE, panicked |-> FALSE,
              late |-> {}]
NoStream  == [made |-> 0, ended |-> "no"]

Init ==
    /\ chain \in Chains /\ handler \in ErrorHandlers
    /\ req = NoRequest /\ mode = "idle" /\ at = 0 /\ err = NoError
    /\ resp = Fresh /\ locals = NoLocals /\ userctx = NoContext
    /\ stream = NoStream /\ lines = <<>> /\ tasks = {} /\ got = 0
    /\ plain = NoHistory

\* fiber takes a context whose user values and response are empty; the header
\* buffer is the connection's.
Arrive(path, headers) ==
    /\ mode = "idle" /\ req.number < MaxRequests
    /\ req' = [number |-> req.number + 1, path |-> path, headers |-> headers]
    /\ mode' = "down" /\ at' = 0 /\ err' = NoError /\ resp' = Fresh
    /\ locals' = NoLocals /\ userctx' = NoContext
    /\ stream' = NoStream /\ lines' = <<>> /\ got' = 0
    /\ plain' = NoHistory
    /\ UNCHANGED <<chain, handler, tasks>>

-----------------------------------------------------------------------------
(***************************************************************************)
(* Down through the middleware.                                            *)
(***************************************************************************)
Enters(layer) == mode = "down" /\ at < Len(chain) /\ Layer(at + 1) = layer

Line(what, status, body) ==
    [by |-> what.by, what |-> what.what, status |-> status, body |-> body,
     cid |-> Stamp(locals).cid, caller |-> Stamp(locals).caller]

RequestLine(i)     == Line([by |-> i, what |-> "request"], None, Empty)

\* Written before the error is answered.
ResponseLineEarly(i, r) ==
    Line([by |-> i, what |-> "response"], resp.status, IF Logs THEN resp.body ELSE Empty)

ResponseLine(i, r) ==
    Line([by |-> i, what |-> "response"], r.status, IF Logs THEN r.body ELSE Empty)

\* Record on the way down: a path it skips has no line.
EnterRecord ==
    /\ Enters("Record")
    /\ lines' = IF Skips THEN lines ELSE Append(lines, RequestLine(at + 1))
    /\ at' = at + 1
    /\ UNCHANGED <<app, req, mode, err, resp, ctxs, stream, got, plain>>

\* The id of the header, or a generated one.
HasID         == req.headers.cid # None
CorrelationId == IF HasID THEN req.headers.cid ELSE FreshId

\* Stored on the user context only.
StoreNowhere(id) == locals

StoreLocals(id)  == [locals EXCEPT !.cid = id]

\* The id read back from the request's header.
StoreHeader(id)  == [userctx EXCEPT !.cid = View(id)]

StoreContext(id) == [userctx EXCEPT !.cid = IF HasID THEN View(id) ELSE Own(id)]

\* Echoed on the response, stored in Locals and on the user context.
EnterCorrelationID ==
    /\ Enters("CorrelationID")
    /\ resp'    = [resp EXCEPT !.cid = CorrelationId]
    /\ plain'   = [plain EXCEPT !.resp.cid = CorrelationId]
    /\ locals'  = StoreLocals(CorrelationId)
    /\ userctx' = StoreContext(CorrelationId)
    /\ at' = at + 1
    /\ UNCHANGED <<app, req, mode, err, stream, lines, tasks, got>>

\* No X-Caller, no caller, whatever X-Client says.
EnterCaller ==
    /\ Enters("Caller")
    /\ IF req.headers.caller = None THEN UNCHANGED <<locals, userctx>>
       ELSE /\ locals'  = [locals EXCEPT !.caller = [id     |-> req.headers.caller,
                                                     client |-> req.headers.client]]
            /\ userctx' = [userctx EXCEPT !.caller = View(req.headers.caller),
                                          !.client = View(req.headers.client)]
    /\ at' = at + 1
    /\ UNCHANGED <<app, req, mode, err, resp, stream, lines, tasks, got, plain>>

EnterIdempotencyKey ==
    /\ Enters("IdempotencyKey")
    /\ userctx' = IF req.headers.key = None THEN userctx
                  ELSE [userctx EXCEPT !.key = View(req.headers.key)]
    /\ at' = at + 1
    /\ UNCHANGED <<app, req, mode, err, resp, locals, stream, lines, tasks, got, plain>>

\* What does nothing before c.Next().
EnterOther ==
    /\ \E layer \in {"recover", "Gate", "Guard"} : Enters(layer)
    /\ at' = at + 1
    /\ UNCHANGED <<app, req, mode, err, resp, ctxs, stream, lines, got, plain>>

\* A service's middleware that refuses the request.
Refuse ==
    /\ Enters("Gate")
    /\ mode' = "up" /\ err' = Refused /\ plain' = [plain EXCEPT !.err = Refused]
    /\ UNCHANGED <<app, req, at, resp, ctxs, stream, lines, got>>

CallHandler ==
    /\ mode = "down" /\ at = Len(chain)
    /\ mode' = "handler" /\ plain' = [plain EXCEPT !.handled = TRUE]
    /\ UNCHANGED <<app, req, at, err, resp, ctxs, stream, lines, got>>

-----------------------------------------------------------------------------
(***************************************************************************)
(* The handler.  Its replies change the response of both apps alike.       *)
(***************************************************************************)
Replies(r) ==
    /\ mode = "handler"
    /\ resp' = r /\ plain' = [plain EXCEPT !.resp = r]
    /\ UNCHANGED <<app, req, mode, at, err, ctxs, lines, got>>

HandlerReplies ==
    \/ \E marshals \in BOOLEAN : Replies(JSON(resp, 201, marshals)) /\ UNCHANGED stream
    \/ \E e \in Errors : Replies(Error(resp, 400, e)) /\ UNCHANGED stream
    \/ /\ Replies([resp EXCEPT !.body = Body("stream", "")])
       /\ stream' = NoStream

\* Work that outlives the request keeps the user context; the headers and the
\* id the client was told are what it ought to see there.
HandlerStarts ==
    /\ mode = "handler" /\ Cardinality(tasks) < MaxTasks
    /\ tasks' = tasks \cup {[number |-> req.number, ctx |-> userctx,
                             headers |-> req.headers, echoed |-> resp.cid]}
    /\ UNCHANGED <<app, req, mode, at, err, resp, locals, userctx, stream, lines, got, plain>>

\* ErrNotFound of a request without a route is one of Errors.
HandlerReturns(e) ==
    /\ mode = "handler"
    /\ mode' = "up" /\ err' = e /\ plain' = [plain EXCEPT !.err = e]
    /\ UNCHANGED <<app, req, at, resp, ctxs, stream, lines, got>>

HandlerPanics ==
    /\ mode = "handler"
    /\ mode' = "panic" /\ plain' = [plain EXCEPT !.panicked = TRUE]
    /\ UNCHANGED <<app, req, at, err, resp, ctxs, stream, lines, got>>

-----------------------------------------------------------------------------
(***************************************************************************)
(* Up again.  err is what c.Next() returned to the layer.                  *)
(***************************************************************************)
Up(layer) == mode = "up" /\ at > 0 /\ Layer(at) = layer

\* The step that comes next reads the body: Record logs it, or SendStatus looks
\* whether there is one.
Records == at > 0 /\ Layer(at) = "Record" /\ ~Skips

\* Whether or not it logs bodies.
ReadsBodyAlways ==
    /\ mode = "up" /\ Streamed(resp)
    /\ \/ err = NoError /\ Records
       \/ err # NoError /\ HandlerFails /\ (at = 0 \/ Records)

ReadsBody ==
    /\ mode = "up" /\ Streamed(resp)
    /\ \/ err = NoError /\ Records /\ Logs
       \/ err # NoError /\ HandlerFails /\ (at = 0 \/ Records)

\* Such a read waits for the stream to end.
ReadStream ==
    /\ ReadsBody /\ stream.ended # "no"
    /\ resp' = Drained(resp)
    /\ UNCHANGED <<app, req, mode, at, err, ctxs, stream, lines, got, plain>>

\* Record answers an error, logs the response and returns nil; on a path it
\* skips it returns what it got.
LeaveRecord ==
    /\ Up("Record") /\ ~ReadsBody
    /\ IF Skips THEN UNCHANGED <<resp, err, lines>>
       ELSE LET r == Answered(resp, err) IN
            resp' = r /\ err' = NoError /\ lines' = Append(lines, ResponseLine(at, r))
    /\ at' = at - 1
    /\ UNCHANGED <<app, req, mode, ctxs, stream, got, plain>>

LeaveGuard ==
    /\ Up("Guard")
    /\ resp' = Guarded(resp, err) /\ err' = NoError
    /\ plain' = [plain EXCEPT !.resp = Guarded(@, plain.err), !.err = NoError]
    /\ at' = at - 1
    /\ UNCHANGED <<app, req, mode, ctxs, stream, lines, got>>

\* A service's middleware that fails after c.Next() succeeded.
FailLate ==
    /\ Up("Gate") /\ err = NoError
    /\ err' = Late
    /\ plain' = [plain EXCEPT !.err  = IF @ = NoError THEN Late ELSE @,
                             !.late = @ \cup {at}]
    /\ at' = at - 1
    /\ UNCHANGED <<app, req, mode, resp, ctxs, stream, lines, got>>

\* What returns what it got.
LeaveOther ==
    /\ \E layer \in Layers \ {"Record", "Guard"} : Up(layer)
    /\ at' = at - 1
    /\ UNCHANGED <<app, req, mode, err, resp, ctxs, stream, lines, got, plain>>

\* fiber's recover turns a panic into an error; without one the process ends.
Unwind ==
    /\ mode = "panic"
    /\ IF at = 0 THEN mode' = "crashed" /\ UNCHANGED <<at, err, plain>>
       ELSE /\ at' = at - 1
            /\ IF Layer(at) = "recover"
               THEN mode' = "up" /\ err' = Panicked /\ plain' = [plain EXCEPT !.err = Panicked]
               ELSE UNCHANGED <<mode, err, plain>>
    /\ UNCHANGED <<app, req, resp, ctxs, stream, lines, got>>

\* fiber answers an error that reaches it.
Finish ==
    /\ mode = "up" /\ at = 0 /\ ~ReadsBody
    /\ resp' = FiberAnswered(resp, err) /\ err' = NoError /\ mode' = "sending"
    /\ plain' = [plain EXCEPT !.resp = FiberAnswered(@, plain.err), !.err = NoError]
    /\ UNCHANGED <<app, req, at, ctxs, stream, lines, got>>

-----------------------------------------------------------------------------
(***************************************************************************)
(* The response on its way, and streams.                                   *)
(***************************************************************************)
SendChunk ==
    /\ mode = "sending" /\ Streamed(resp) /\ got < stream.made
    /\ got' = got + 1
    /\ UNCHANGED <<app, req, mode, at, err, resp, ctxs, stream, lines, plain>>

Sent ==
    /\ mode = "sending"
    /\ Streamed(resp) => stream.ended # "no" /\ got = stream.made
    /\ mode' = "idle"
    /\ UNCHANGED <<app, req, at, err, resp, ctxs, stream, lines, got, plain>>

\* The handler's stream goes on after the handler returned.
Produce ==
    /\ Streamed(resp) /\ stream.ended = "no"
    /\ \/ stream.made < MaxChunks /\ stream' = [stream EXCEPT !.made = @ + 1]
       \/ stream.made = MaxChunks /\ stream' = [stream EXCEPT !.ended = "end"]
       \/ stream' = [stream EXCEPT !.ended = "broken"]
    /\ UNCHANGED <<app, req, mode, at, err, resp, ctxs, lines, got, plain>>

-----------------------------------------------------------------------------
\* The goroutine that serves the connection, but for what services' code decides.
Serve ==
    \/ EnterRecord \/ EnterCorrelationID \/ EnterCaller \/ EnterIdempotencyKey
    \/ EnterOther \/ CallHandler
    \/ ReadStream \/ LeaveRecord \/ LeaveGuard \/ LeaveOther \/ Unwind \/ Finish
    \/ SendChunk \/ Sent

Handler ==
    \/ Refuse \/ HandlerReplies \/ HandlerStarts \/ HandlerPanics \/ FailLate
    \/ \E e \in Errors \cup {NoError} : HandlerReturns(e)

Stopped == \/ mode = "crashed"
           \/ mode = "idle" /\ req.number = MaxRequests

Next ==
    \/ \E path \in Paths, headers \in HeaderSets : Arrive(path, headers)
    \/ Serve \/ Handler \/ Produce
    \/ Stopped /\ UNCHANGED vars

Spec == Init /\ [][Next]_vars

\* The serving goroutine runs unless it waits.
ServedSpec == Spec /\ WF_vars(Serve)

-----------------------------------------------------------------------------
Entered(i)   == \E n \in DOMAIN lines : lines[n].by = i /\ lines[n].what = "request"
Responses(i) == {n \in DOMAIN lines : lines[n].by = i /\ lines[n].what = "response"}
RecordLayers == {i \in DOMAIN chain : Layer(i) = "Record"}
Before(i, layer) == \E j \in 1..(i - 1) : Layer(j) = layer

\* Something outside layer i that sees an error Record did not pass on.
MeddledOutside(i) == Before(i, "Guard") \/ \E j \in plain.late : j < i

\* A stream is worth what it delivers.
Content(r) == IF Streamed(r) THEN [r EXCEPT !.body = Body("data", "stream")] ELSE r

\* Record is transparent: the client gets status, body and id as from the same
\* app without it, whoever answers, whatever fails - but for a service's layer
\* outside Record, which does not see the errors Record answered, and a stream
\* that broke while it was being read.
Transparent ==
    (/\ mode = "sending" /\ resp.body # BrokenStream
     /\ \A i \in RecordLayers : ~MeddledOutside(i))
        => Content(resp) = Content(plain.resp)

\* Of every Record that saw the request there is, when the response goes out, one
\* response line with the status and body the client gets, written inside out;
\* none if a panic passed it.  A layer outside that fails later is not on the line.
LinesTell ==
    mode = "sending" =>
        \A i \in RecordLayers :
            /\ Cardinality(Responses(i)) =< 1
            /\ (Entered(i) /\ Responses(i) = {}) => plain.panicked /\ Before(i, "recover")
            /\ \A n \in Responses(i) :
                 /\ Entered(i)
                 /\ (\A j \in plain.late : j > i) =>
                      /\ lines[n].status = resp.status
                      /\ lines[n].body = IF Logs THEN resp.body ELSE Empty
                 /\ \A m \in DOMAIN lines :
                      (lines[m].what = "response" /\ lines[m].by < i) => m > n

\* The id on a request's lines is the one the client is told, and the caller the
\* one of its headers, on each line written after the middleware ran.
Stamped ==
    mode = "sending" =>
        \A n \in DOMAIN lines :
            LET i == lines[n].by
                told == lines[n].what = "response" \/ Before(i, "CorrelationID")
                ran  == Before(i, "Caller") \/ (lines[n].what = "response" /\ plain.handled)
            IN /\ lines[n].cid = IF told THEN resp.cid ELSE None
               /\ (ran /\ Before(Len(chain) + 1, "Caller")) =>
                    lines[n].caller = IF req.headers.caller = None THEN NoCaller
                                      ELSE [id     |-> req.headers.caller,
                                            client |-> req.headers.client]

\* Work started by a handler finds its own request's id, caller and key on the
\* context until the next request is parsed into the buffer, and a generated id
\* ever after.
ContextHolds ==
    \A t \in tasks :
        LET installed(layer) == Before(Len(chain) + 1, layer)
            current == t.number = req.number
            sees(view, v) == view.value = v /\ Holds(view) IN
        /\ (installed("CorrelationID") /\ (current \/ t.headers.cid = None)) =>
             sees(t.ctx.cid, t.echoed)
        /\ (installed("Caller") /\ current) =>
             /\ sees(t.ctx.caller, t.headers.caller)
             /\ sees(t.ctx.client, IF t.headers.caller = None THEN None ELSE t.headers.client)
        /\ (installed("IdempotencyKey") /\ current) => sees(t.ctx.key, t.headers.key)

\* A Record that logs bodies is still on the way of the response.
HeldByRecord == \E i \in RecordLayers : i =< at /\ Logs

\* Streams get through: the client gets the first bytes of a stream no Record
\* logs though it never ends, unless a layer fails late, and the others once they
\* ended.
StreamsThrough ==
    /\ (mode = "up" /\ err = NoError /\ Streamed(resp) /\ stream.made > 0 /\ ~HeldByRecord)
            ~> (got > 0 \/ err # NoError \/ ~Streamed(resp))
    /\ (mode = "up" /\ stream.ended # "no") ~> (mode = "idle")
=============================================================================
