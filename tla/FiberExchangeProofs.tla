-------------------------- MODULE FiberExchangeProofs --------------------------
(***************************************************************************)
(* What holds of every fiber app, chain, error handler and request: Record *)
(* is transparent and its lines tell what the client got, and work that    *)
(* outlives a handler sees the values of its own request.                  *)
(*                                                                         *)
(* IInv, the inductive invariant, adds five parts to Types and Stages, the *)
(* shape of a state.  Values says what the middleware has stored by the    *)
(* time a request is at some layer, and Kept that work took it along.      *)
(* Stamps and Written are of the lines, and Matched compares the app with  *)
(* the one without Record on the way up.                                   *)
(***************************************************************************)
EXTENDS FiberExchange, FiniteSetTheorems, TLAPS

-----------------------------------------------------------------------------
(***************************************************************************)
(* The invariant.                                                          *)
(***************************************************************************)
AllErrors == Errors \cup {NoError, Refused, Late, Panicked}
Forms     == {"empty", "text", "data", "error", "stream"}
Texts     == {"", "status", "stream", "stream error"}
                 \cup {e.name : e \in AllErrors} \cup {Code(e) : e \in AllErrors}

HeaderType  == [cid : Nat, caller : Nat, client : Nat, key : Nat]
CallerType  == [id : Nat, client : Nat]
BodyType    == [form : Forms, says : Texts]
ReplyType   == [status : Nat, body : BodyType, cid : Nat]
LocalsType  == [cid : Nat, caller : CallerType]
ViewType    == [of : Nat, value : Nat]
ContextType == [cid : ViewType, caller : ViewType, client : ViewType, key : ViewType]
RequestType == [number : Nat, path : {"logged", "quiet", "skipped"}, headers : HeaderType]
LineType    == [by : Nat, what : {"request", "response"}, status : Nat, body : BodyType,
                cid : Nat, caller : CallerType]
HistoryType == [resp : ReplyType, err : AllErrors, handled : BOOLEAN, panicked : BOOLEAN,
                late : SUBSET Nat]

Types ==
    /\ chain \in Seq(Layers) /\ handler \in {"default", "kit", "failing"}
    /\ req \in RequestType
    /\ mode \in {"idle", "down", "handler", "up", "panic", "sending", "crashed"}
    /\ at \in 0..Len(chain)
    /\ err \in AllErrors /\ resp \in ReplyType
    /\ locals \in LocalsType /\ userctx \in ContextType
    /\ lines \in Seq(LineType) /\ plain \in HistoryType

\* Where a request is in each mode.
Stages ==
    /\ mode = "handler" => at = Len(chain)
    /\ mode = "sending" => at = 0
    /\ mode \in {"down", "handler", "panic"} => err = NoError
    /\ mode = "down" => ~plain.handled
    /\ mode = "panic" => plain.panicked

Installed(layer) == Before(Len(chain) + 1, layer)
Passed(layer)    == Before(at + 1, layer)

\* What the headers of the request say, and what the context holds of it.
TheCaller ==
    IF req.headers.caller = None THEN NoCaller
    ELSE [id |-> req.headers.caller, client |-> req.headers.client]
Seen(v)  == IF v = None THEN NoView ELSE View(v)
SeenId   == IF HasID THEN View(CorrelationId) ELSE Own(CorrelationId)
SeenClient == IF req.headers.caller = None THEN NoView ELSE View(req.headers.client)

\* What the layers passed so far have stored.
Values ==
    /\ locals.cid = resp.cid
    /\ (Passed("Caller") \/ (plain.handled /\ Installed("Caller"))) => locals.caller = TheCaller
    /\ mode \in {"down", "handler"} =>
         /\ resp.cid = IF Passed("CorrelationID") THEN CorrelationId ELSE None
         /\ Passed("CorrelationID") => userctx.cid = SeenId
         /\ ~Passed("Caller") => locals.caller = NoCaller
         /\ userctx.caller = IF Passed("Caller") THEN Seen(req.headers.caller) ELSE NoView
         /\ userctx.client = IF Passed("Caller") THEN SeenClient ELSE NoView
         /\ userctx.key = IF Passed("IdempotencyKey") THEN Seen(req.headers.key) ELSE NoView

\* What work took along: views of the buffer name the request that started it.
ViewOf(n, v) == [of |-> n, value |-> v]
KeptBy(t) ==
    /\ t.number \in Nat /\ t.number =< req.number
    /\ Installed("CorrelationID") =>
         t.ctx.cid = IF t.headers.cid = None THEN Own(t.echoed) ELSE ViewOf(t.number, t.echoed)
    /\ Installed("Caller") =>
         /\ t.ctx.caller = IF t.headers.caller = None THEN NoView
                           ELSE ViewOf(t.number, t.headers.caller)
         /\ t.ctx.client = IF t.headers.caller = None THEN NoView
                           ELSE ViewOf(t.number, t.headers.client)
    /\ Installed("IdempotencyKey") =>
         t.ctx.key = IF t.headers.key = None THEN NoView ELSE ViewOf(t.number, t.headers.key)

Kept == \A t \in tasks : KeptBy(t)

\* What a line is stamped with.
RequestStamp(l) ==
    /\ l.cid = IF Before(l.by, "CorrelationID") THEN CorrelationId ELSE None
    /\ Before(l.by, "CorrelationID") => resp.cid = CorrelationId
    /\ Before(l.by, "Caller") => l.caller = TheCaller
ResponseStamp(l) ==
    /\ mode \in {"up", "sending", "idle"}
    /\ l.cid = resp.cid
    /\ (Before(l.by, "Caller") \/ (plain.handled /\ Installed("Caller"))) => l.caller = TheCaller

StampRight(l) ==
    /\ l.by \in RecordLayers
    /\ l.what = "request" => RequestStamp(l)
    /\ l.what = "response" => ResponseStamp(l)

Log    == {lines[n] : n \in 1..Len(lines)}
Stamps == \A l \in Log : StampRight(l)

\* What is written when: on the way down by the layers passed, on the way up
\* twice by those left, but for a panic; what a line says stays true until a
\* layer outside fails.
IsRequest(n)  == n \in 1..Len(lines) /\ lines[n].what = "request"
IsResponse(n) == n \in 1..Len(lines) /\ lines[n].what = "response"
Tells(l) ==
    (\A j \in plain.late : j > l.by) =>
        /\ err = NoError
        /\ l.status = resp.status
        /\ l.body = IF Logs THEN resp.body ELSE Empty
        /\ ~(Logs /\ Streamed(resp))

WrittenByRecords == \A n \in 1..Len(lines) : lines[n].by \in RecordLayers
WrittenDown ==
    mode \in {"down", "handler", "panic"} => \A n \in 1..Len(lines) : ~IsResponse(n)
WrittenByPassed ==
    mode \in {"down", "handler"} => \A n \in 1..Len(lines) : lines[n].by =< at
WrittenEntered ==
    (mode \in {"down", "handler", "panic", "up"} /\ ~Skips) =>
        \A i \in RecordLayers : i =< at => \E n \in 1..Len(lines) : IsRequest(n) /\ lines[n].by = i
WrittenUp ==
    mode \in {"up", "sending"} =>
        /\ \A n \in 1..Len(lines) : IsResponse(n) =>
             /\ lines[n].by > at
             /\ \E m \in 1..Len(lines) : IsRequest(m) /\ lines[m].by = lines[n].by
        /\ \A n \in 1..Len(lines) : (IsRequest(n) /\ lines[n].by > at) =>
             \/ \E m \in 1..Len(lines) : IsResponse(m) /\ lines[m].by = lines[n].by
             \/ (plain.panicked /\ Before(lines[n].by, "recover"))
        /\ \A n, m \in 1..Len(lines) : (IsResponse(n) /\ IsResponse(m) /\ m # n) =>
             \/ (lines[m].by < lines[n].by /\ n < m)
             \/ (lines[n].by < lines[m].by /\ m < n)

Telling ==
    mode \in {"up", "sending"} => \A l \in Log : l.what = "response" => Tells(l)

Written ==
    /\ Skips => lines = <<>>
    /\ WrittenByRecords /\ WrittenDown /\ WrittenByPassed /\ WrittenEntered /\ WrittenUp /\ Telling

\* The two apps on the way up, if no layer outside a Record sees what it changed:
\* they agree; or the stream was just read; or a Record answered for fiber.
Meddled == \E i \in RecordLayers : MeddledOutside(i)

\* fiber's answer without Record.
FiberReply == FiberAnswered(plain.resp, plain.err)

AllAgree == err = plain.err /\ resp = plain.resp
JustRead ==
    /\ err = plain.err /\ (at = 0 \/ Records)
    /\ Streamed(plain.resp) /\ resp.status = plain.resp.status /\ resp.cid = plain.resp.cid
    /\ resp.body \in {BrokenStream, Body("data", "stream")}
AnsweredFor ==
    /\ err = NoError /\ \E i \in RecordLayers : i > at
    /\ resp.body # BrokenStream => Content(resp) = Content(FiberReply)

Matched ==
    /\ mode \in {"down", "handler", "panic"} => AllAgree
    /\ (mode = "up" /\ ~Meddled) => AllAgree \/ JustRead \/ AnsweredFor
    /\ (mode = "sending" /\ ~Meddled /\ resp.body # BrokenStream)
            => Content(resp) = Content(plain.resp)

IInv == Types /\ Stages /\ Values /\ Kept /\ Stamps /\ Written /\ Matched

-----------------------------------------------------------------------------
(***************************************************************************)
(* Replies, and the types of the variables.                                *)
(***************************************************************************)
LEMMA ErrorTypes ==
    /\ \A e \in AllErrors : e.status \in Nat /\ e.name \in Texts /\ Code(e) \in Texts
    /\ {"", "status", "stream", "stream error"} \subseteq Texts
<1>1. \A e \in AllErrors : e.status \in Nat
  <2>1. \A e \in Errors : e.status \in Nat
    BY ErrorsAssumption
  <2>2. NoError.status \in Nat /\ Refused.status \in Nat
    BY DEF NoError, Refused
  <2>3. Late.status \in Nat /\ Panicked.status \in Nat
    BY DEF Late, Panicked
  <2> QED BY <2>1, <2>2, <2>3 DEF AllErrors
<1>2. \A e \in AllErrors : e.name \in Texts /\ Code(e) \in Texts
  BY DEF Texts
<1>3. {"", "status", "stream", "stream error"} \subseteq Texts
  BY DEF Texts
<1> QED BY <1>1, <1>2, <1>3

\* Every way to answer gives a reply and keeps the id on it.
LEMMA ReplyTypes ==
    ASSUME NEW r \in ReplyType, NEW e \in AllErrors, NEW status \in Nat, Types
    PROVE  /\ \A marshals \in BOOLEAN :
                JSON(r, status, marshals) \in ReplyType /\ JSON(r, status, marshals).cid = r.cid
           /\ Error(r, status, e) \in ReplyType /\ Error(r, status, e).cid = r.cid
           /\ SendStatus(r, status) \in ReplyType /\ SendStatus(r, status).cid = r.cid
           /\ FiberAnswered(r, e) \in ReplyType /\ FiberAnswered(r, e).cid = r.cid
           /\ Answered(r, e) = FiberAnswered(r, e)
           /\ Guarded(r, e) \in ReplyType /\ Guarded(r, e).cid = r.cid
           /\ Drained(r) \in ReplyType /\ Drained(r).cid = r.cid
<1> USE DEF ReplyType, BodyType, Forms, Body
<1>1. \A s \in Nat : Error(r, s, e) \in ReplyType /\ Error(r, s, e).cid = r.cid
  BY ErrorTypes DEF Error
<1>2. \A s \in Nat : SendStatus(r, s) \in ReplyType /\ SendStatus(r, s).cid = r.cid
  BY ErrorTypes DEF SendStatus, Empty
<1>3. \A marshals \in BOOLEAN :
         JSON(r, status, marshals) \in ReplyType /\ JSON(r, status, marshals).cid = r.cid
  BY ErrorTypes DEF JSON
<1>4. e.status \in Nat /\ e.name \in Texts
  BY ErrorTypes
<1>5. ErrorHandler(r, e) \in ReplyType /\ ErrorHandler(r, e).cid = r.cid
  <2>1. handler \in {"default", "kit", "failing"}
    BY DEF Types
  <2>2. CASE handler = "default"
    BY <1>4, <2>2 DEF ErrorHandler
  <2>3. CASE handler = "kit"
    BY <1>1, <1>4, <2>3 DEF ErrorHandler
  <2>4. CASE handler = "failing"
    BY <2>4 DEF ErrorHandler
  <2> QED BY <2>1, <2>2, <2>3, <2>4
<1>6. FiberAnswered(r, e) \in ReplyType /\ FiberAnswered(r, e).cid = r.cid
  BY <1>2, <1>5 DEF FiberAnswered
<1>7. Answered(r, e) = FiberAnswered(r, e)
  BY DEF Answered, FiberAnswered
<1>8. Guarded(r, e) \in ReplyType /\ Guarded(r, e).cid = r.cid
  BY <1>1 DEF Guarded
<1>9. Drained(r) \in ReplyType /\ Drained(r).cid = r.cid
  BY ErrorTypes DEF Drained, BrokenStream
<1> QED BY <1>1, <1>2, <1>3, <1>6, <1>7, <1>8, <1>9

LEMMA LineTypes ==
    ASSUME Types, NEW i \in Nat
    PROVE  /\ RequestLine(i) \in LineType
           /\ \A r \in ReplyType : ResponseLine(i, r) \in LineType
BY ErrorTypes DEF Types, RequestLine, ResponseLine, Line, LineType, Stamp, LocalsType, ReplyType,
       BodyType, Forms, Empty, Body, None

LEMMA Heading ==
    ASSUME Types
    PROVE  /\ req.headers \in HeaderType /\ req.number \in Nat
           /\ FreshId \in Nat /\ CorrelationId \in Nat /\ CorrelationId # None
           /\ (HasID => CorrelationId = req.headers.cid) /\ (~HasID => CorrelationId = FreshId)
BY DEF Types, RequestType, HeaderType, FreshId, FirstFresh, CorrelationId, HasID, None

-----------------------------------------------------------------------------
(***************************************************************************)
(* Types and stages, step by step.                                         *)
(***************************************************************************)
LEMMA InitBase == Init => Types /\ Stages
<1> SUFFICES ASSUME Init PROVE Types /\ Stages
  OBVIOUS
<1>1. chain \in Seq(Layers) /\ Len(chain) \in Nat /\ handler \in {"default", "kit", "failing"}
  BY ChainsAssumption, HandlersAssumption DEF Init
<1>2. NoRequest \in RequestType /\ NoLocals \in LocalsType /\ NoContext \in ContextType
  BY DEF NoRequest, RequestType, HeaderType, NoLocals, LocalsType, CallerType, NoCaller,
         NoContext, ContextType, ViewType, NoView, None
<1>3. Fresh \in ReplyType
  BY ErrorTypes, ZenonT(40) DEF Fresh, Empty, Body, ReplyType, BodyType, Forms, None
<1>4. NoError \in AllErrors
  BY DEF AllErrors
<1>5. NoHistory \in HistoryType
  BY <1>3, <1>4 DEF NoHistory, HistoryType
<1>6. <<>> \in Seq(LineType)
  OBVIOUS
<1> QED BY <1>1, <1>2, <1>3, <1>4, <1>5, <1>6 DEF Init, Types, Stages

LEMMA ArriveBase ==
    ASSUME Types, NEW path \in Paths, NEW headers \in HeaderSets, Arrive(path, headers)
    PROVE  Types' /\ Stages'
<1>1. req' \in RequestType
  <2>1. path \in {"logged", "quiet", "skipped"} /\ headers \in HeaderType
    BY PathsAssumption, HeadersAssumption DEF HeaderType
  <2> QED BY <2>1 DEF Arrive, Types, RequestType
<1>2. NoLocals \in LocalsType /\ NoContext \in ContextType
  BY DEF NoLocals, LocalsType, CallerType, NoCaller, NoContext, ContextType, ViewType, NoView, None
<1>3. Fresh \in ReplyType
  BY ErrorTypes, ZenonT(40) DEF Fresh, Empty, Body, ReplyType, BodyType, Forms, None
<1>4. NoError \in AllErrors
  BY DEF AllErrors
<1>5. NoHistory \in HistoryType
  BY <1>3, <1>4 DEF NoHistory, HistoryType
<1>6. <<>> \in Seq(LineType)
  OBVIOUS
<1>7. 0 \in 0..Len(chain) /\ ~NoHistory.handled
  BY DEF Types, NoHistory
<1> QED BY <1>1, <1>2, <1>3, <1>4, <1>5, <1>6, <1>7 DEF Arrive, Types, Stages

\* The layers on the way down.
LEMMA DownBase ==
    ASSUME Types, Stages,
           EnterRecord \/ EnterCorrelationID \/ EnterCaller \/ EnterIdempotencyKey \/ EnterOther
    PROVE  Types' /\ Stages'
<1>1. \E layer \in Layers : Enters(layer)
  BY DEF EnterRecord, EnterCorrelationID, EnterCaller, EnterIdempotencyKey, EnterOther, Layers
<1>2. at + 1 \in 0..Len(chain) /\ at + 1 \in Nat /\ mode = "down"
  BY <1>1 DEF Enters, Types
<1>3. CASE EnterRecord
  <2>1. RequestLine(at + 1) \in LineType
    BY <1>2, LineTypes
  <2>2. lines' \in Seq(LineType)
    BY <2>1, <1>3 DEF EnterRecord, Types
  <2> QED BY <2>2, <1>2, <1>3 DEF EnterRecord, app, ctxs, Types, Stages
<1>4. CASE EnterCorrelationID
  <2>1. resp' \in ReplyType /\ locals' \in LocalsType /\ plain' \in HistoryType
    BY <1>4, Heading DEF EnterCorrelationID, StoreLocals, Types, ReplyType, LocalsType, HistoryType
  <2>2. userctx' \in ContextType
    BY <1>4, Heading
    DEF EnterCorrelationID, StoreContext, Types, ContextType, View, Own, ViewType, None
  <2>3. plain'.handled = plain.handled
    BY <1>4 DEF EnterCorrelationID, Types, HistoryType
  <2> QED BY <2>1, <2>2, <2>3, <1>2, <1>4 DEF EnterCorrelationID, app, Types, Stages
<1>5. CASE EnterCaller
  <2>1. locals' \in LocalsType
    BY <1>5, Heading, SMTT(30) DEF EnterCaller, Types, LocalsType, CallerType, HeaderType
  <2>2. userctx' \in ContextType
    <3>1. View(req.headers.caller) \in ViewType /\ View(req.headers.client) \in ViewType
      BY Heading DEF View, ViewType, HeaderType
    <3> QED BY <1>5, <3>1 DEF EnterCaller, Types, ContextType
  <2> QED BY <2>1, <2>2, <1>2, <1>5 DEF EnterCaller, app, Types, Stages
<1>6. CASE EnterIdempotencyKey
  <2>1. userctx' \in ContextType
    BY <1>6, Heading DEF EnterIdempotencyKey, Types, ContextType, View, ViewType, HeaderType
  <2> QED BY <2>1, <1>2, <1>6 DEF EnterIdempotencyKey, app, Types, Stages
<1>7. CASE EnterOther
  BY <1>2, <1>7 DEF EnterOther, app, ctxs, Types, Stages
<1> QED BY <1>3, <1>4, <1>5, <1>6, <1>7

\* What services' code does.
LEMMA HandlerBase ==
    ASSUME Types, Stages, CallHandler \/ Handler
    PROVE  Types' /\ Stages'
<1>1. CASE CallHandler
  BY <1>1 DEF CallHandler, app, ctxs, Types, Stages, HistoryType
<1>2. CASE Refuse
  BY <1>2 DEF Refuse, app, ctxs, Types, Stages, HistoryType, AllErrors
<1>3. CASE HandlerReplies
  <2>1. PICK r \in ReplyType : Replies(r)
    <3>1. \A marshals \in BOOLEAN : JSON(resp, 201, marshals) \in ReplyType
      <4>1. resp \in ReplyType /\ NoError \in AllErrors /\ 201 \in Nat
        BY DEF Types, AllErrors
      <4> QED BY <4>1, ReplyTypes
    <3>2. \A e \in Errors : Error(resp, 400, e) \in ReplyType
      <4>1. resp \in ReplyType /\ Errors \subseteq AllErrors /\ 400 \in Nat
        BY DEF Types, AllErrors
      <4> QED BY <4>1, ReplyTypes
    <3>3. [resp EXCEPT !.body = Body("stream", "")] \in ReplyType
      BY ErrorTypes DEF Types, ReplyType, Body, BodyType, Forms
    <3> QED BY <1>3, <3>1, <3>2, <3>3, ZenonT(40) DEF HandlerReplies
  <2> QED BY <2>1 DEF Replies, app, ctxs, Types, Stages, HistoryType
<1>4. CASE HandlerStarts
  BY <1>4 DEF HandlerStarts, app, Types, Stages
<1>5. CASE \E e \in Errors \cup {NoError} : HandlerReturns(e)
  <2>1. PICK e \in AllErrors : HandlerReturns(e)
    BY <1>5 DEF AllErrors
  <2> QED BY <2>1 DEF HandlerReturns, app, ctxs, Types, Stages, HistoryType
<1>6. CASE HandlerPanics
  BY <1>6 DEF HandlerPanics, app, ctxs, Types, Stages, HistoryType
<1>7. CASE FailLate
  <2>1. Len(chain) \in Nat /\ at \in Nat /\ at > 0 /\ at - 1 \in 0..Len(chain)
    BY <1>7 DEF FailLate, Up, Types
  <2>2. plain' \in HistoryType
    BY <1>7, <2>1 DEF FailLate, Types, HistoryType, AllErrors
  <2> QED BY <1>7, <2>1, <2>2 DEF FailLate, Up, app, ctxs, Types, Stages, AllErrors
<1> QED BY <1>1, <1>2, <1>3, <1>4, <1>5, <1>6, <1>7 DEF Handler

\* The layers on the way up, fiber, and streams.
LEMMA UpBase ==
    ASSUME Types, Stages,
           \/ ReadStream \/ LeaveRecord \/ LeaveGuard \/ LeaveOther \/ Unwind \/ Finish
           \/ SendChunk \/ Sent \/ Produce
    PROVE  Types' /\ Stages'
<1>0. Len(chain) \in Nat /\ at \in Nat /\ resp \in ReplyType /\ err \in AllErrors
      /\ plain.resp \in ReplyType /\ plain.err \in AllErrors /\ 0 \in Nat
      /\ NoError \in AllErrors /\ Panicked \in AllErrors
  BY DEF Types, HistoryType, AllErrors
<1>1. CASE ReadStream
  BY <1>0, <1>1, ReplyTypes DEF ReadStream, ReadsBody, app, ctxs, Types, Stages
<1>2. CASE LeaveRecord
  <2>1. Answered(resp, err) \in ReplyType
    BY <1>0, ReplyTypes
  <2>2. ResponseLine(at, Answered(resp, err)) \in LineType
    BY <1>0, <2>1, LineTypes
  <2>3. lines' \in Seq(LineType) /\ resp' \in ReplyType /\ err' \in AllErrors
    BY <1>0, <1>2, <2>1, <2>2 DEF LeaveRecord, Types
  <2>4. at' \in 0..Len(chain) /\ mode = "up"
    BY <1>0, <1>2 DEF LeaveRecord, Up, Types
  <2> QED BY <1>2, <2>3, <2>4 DEF LeaveRecord, app, ctxs, Types, Stages
<1>3. CASE LeaveGuard
  <2>1. Guarded(resp, err) \in ReplyType /\ Guarded(plain.resp, plain.err) \in ReplyType
    BY <1>0, ReplyTypes
  <2>2. plain' \in HistoryType
    BY <1>0, <1>3, <2>1 DEF LeaveGuard, Types, HistoryType
  <2> QED BY <1>0, <1>3, <2>1, <2>2 DEF LeaveGuard, Up, app, ctxs, Types, Stages
<1>4. CASE LeaveOther
  BY <1>0, <1>4 DEF LeaveOther, Up, app, ctxs, Types, Stages
<1>5. CASE Unwind
  <2>1. plain' \in HistoryType
    BY <1>0, <1>5 DEF Unwind, Types, HistoryType
  <2>2. plain'.panicked = plain.panicked
    BY <1>5 DEF Unwind, Types, HistoryType
  <2> QED BY <1>0, <1>5, <2>1, <2>2 DEF Unwind, app, ctxs, Types, Stages
<1>6. CASE Finish
  <2>1. FiberAnswered(resp, err) \in ReplyType /\ FiberAnswered(plain.resp, plain.err) \in ReplyType
    BY <1>0, ReplyTypes
  <2>2. plain' \in HistoryType
    BY <1>0, <1>6, <2>1 DEF Finish, Types, HistoryType
  <2> QED BY <1>0, <1>6, <2>1, <2>2 DEF Finish, app, ctxs, Types, Stages
<1>7. CASE SendChunk
  BY <1>7 DEF SendChunk, app, ctxs, Types, Stages
<1>8. CASE Sent
  BY <1>8 DEF Sent, app, ctxs, Types, Stages
<1>9. CASE Produce
  BY <1>9 DEF Produce, app, ctxs, Types, Stages
<1> QED BY <1>1, <1>2, <1>3, <1>4, <1>5, <1>6, <1>7, <1>8, <1>9

-----------------------------------------------------------------------------
(***************************************************************************)
(* What the middleware stores.                                             *)
(***************************************************************************)
LEMMA SameChain ==
    ASSUME chain' = chain, NEW layer
    PROVE  /\ \A i : Before(i, layer)' <=> Before(i, layer)
           /\ Installed(layer)' <=> Installed(layer)
           /\ RecordLayers' = RecordLayers
BY DEF Before, Layer, Installed, RecordLayers

LEMMA PassedNext ==
    ASSUME Types, chain' = chain, at' = at + 1, NEW layer
    PROVE  Passed(layer)' <=> (Passed(layer) \/ Layer(at + 1) = layer)
<1>1. at \in Nat /\ (at + 1) - 1 = at /\ (at + 1 + 1) - 1 = at + 1
  BY DEF Types
<1>2. 1..(at + 1) = 1..at \cup {at + 1}
  BY <1>1
<1> QED BY <1>1, <1>2 DEF Passed, Before, Layer

LEMMA PassedBack ==
    ASSUME Types, chain' = chain, at' \in Nat, at' =< at, NEW layer
    PROVE  /\ Passed(layer)' => Passed(layer)
           /\ Passed(layer) => Installed(layer)
           /\ at = Len(chain) => (Passed(layer) <=> Installed(layer))
<1>1. at \in Nat /\ Len(chain) \in Nat /\ at =< Len(chain)
  BY DEF Types
<1>2. \A n \in Nat : (n + 1) - 1 = n
  OBVIOUS
<1>3. 1..at' \subseteq 1..at /\ 1..at \subseteq 1..Len(chain)
  BY <1>1
<1> QED BY <1>1, <1>2, <1>3 DEF Passed, Installed, Before, Layer

LEMMA SameRequest ==
    ASSUME req' = req
    PROVE  /\ TheCaller' = TheCaller /\ SeenId' = SeenId /\ SeenClient' = SeenClient
           /\ CorrelationId' = CorrelationId
           /\ \A v : Seen(v)' = Seen(v)
BY DEF TheCaller, SeenId, SeenClient, CorrelationId, HasID, FreshId, Seen, View, Own

\* Nothing was stored, and no layer that stores was passed.
LEMMA ValuesStay ==
    ASSUME Types, Values, chain' = chain, req' = req, locals' = locals, userctx' = userctx,
           resp'.cid = resp.cid, plain'.handled = plain.handled,
           \A layer \in {"CorrelationID", "Caller", "IdempotencyKey"} :
              /\ Passed(layer)' => Passed(layer)
              /\ mode' \in {"down", "handler"} => (Passed(layer)' <=> Passed(layer)),
           mode' \in {"down", "handler"} => mode \in {"down", "handler"}
    PROVE  Values'
<1>1. TheCaller' = TheCaller /\ SeenId' = SeenId /\ SeenClient' = SeenClient
      /\ CorrelationId' = CorrelationId /\ \A v : Seen(v)' = Seen(v)
  BY SameRequest
<1>2. Installed("Caller")' <=> Installed("Caller")
  BY SameChain
<1>3. locals'.cid = resp'.cid
  BY DEF Values
<1>4. (Passed("Caller")' \/ (plain'.handled /\ Installed("Caller")')) => locals'.caller = TheCaller
  BY <1>2 DEF Values
<1>5. mode' \in {"down", "handler"} =>
        /\ resp'.cid = IF Passed("CorrelationID")' THEN CorrelationId ELSE None
        /\ Passed("CorrelationID")' => userctx'.cid = SeenId
        /\ ~Passed("Caller")' => locals'.caller = NoCaller
        /\ userctx'.caller = IF Passed("Caller")' THEN Seen(req.headers.caller) ELSE NoView
        /\ userctx'.client = IF Passed("Caller")' THEN SeenClient ELSE NoView
        /\ userctx'.key = IF Passed("IdempotencyKey")' THEN Seen(req.headers.key) ELSE NoView
  BY DEF Values
<1> QED BY <1>1, <1>3, <1>4, <1>5 DEF Values

LEMMA EnterStores ==
    ASSUME Types, Stages, Values, EnterCorrelationID \/ EnterCaller \/ EnterIdempotencyKey
    PROVE  Values'
<1>0. /\ chain' = chain /\ req' = req /\ at' = at + 1 /\ mode = "down" /\ mode' = "down"
      /\ ~plain.handled
  BY DEF EnterCorrelationID, EnterCaller, EnterIdempotencyKey, Enters, app, Stages
<1>1. TheCaller' = TheCaller /\ SeenId' = SeenId /\ SeenClient' = SeenClient
      /\ CorrelationId' = CorrelationId /\ \A v : Seen(v)' = Seen(v)
  BY <1>0, SameRequest
<1>2. \A layer : Passed(layer)' <=> (Passed(layer) \/ Layer(at + 1) = layer)
  BY <1>0, PassedNext
<1>3. Installed("Caller")' <=> Installed("Caller")
  BY <1>0, SameChain
<1>a. /\ locals.cid = resp.cid
      /\ Passed("Caller") => locals.caller = TheCaller
      /\ resp.cid = IF Passed("CorrelationID") THEN CorrelationId ELSE None
      /\ Passed("CorrelationID") => userctx.cid = SeenId
      /\ ~Passed("Caller") => locals.caller = NoCaller
      /\ userctx.caller = IF Passed("Caller") THEN Seen(req.headers.caller) ELSE NoView
      /\ userctx.client = IF Passed("Caller") THEN SeenClient ELSE NoView
      /\ userctx.key = IF Passed("IdempotencyKey") THEN Seen(req.headers.key) ELSE NoView
  BY <1>0 DEF Values
<1>4. CASE EnterCorrelationID
  <2>1. Layer(at + 1) = "CorrelationID" /\ ~plain'.handled
    BY <1>0, <1>4 DEF EnterCorrelationID, Enters, Types, HistoryType
  <2>2. resp'.cid = CorrelationId /\ locals'.cid = CorrelationId /\ locals'.caller = locals.caller
    BY <1>4 DEF EnterCorrelationID, StoreLocals, Types, ReplyType, LocalsType
  <2>3. userctx'.cid = SeenId /\ userctx'.caller = userctx.caller
        /\ userctx'.client = userctx.client /\ userctx'.key = userctx.key
    BY <1>4 DEF EnterCorrelationID, StoreContext, SeenId, CorrelationId, Types, ContextType
  <2> QED BY <1>0, <1>1, <1>2, <1>3, <1>a, <2>1, <2>2, <2>3 DEF Values
<1>5. CASE EnterCaller
  <2>1. Layer(at + 1) = "Caller" /\ resp' = resp /\ plain' = plain
    BY <1>5 DEF EnterCaller, Enters
  <2>2. locals'.caller = TheCaller /\ locals'.cid = locals.cid
    <3>1. CASE req.headers.caller = None
      BY <1>5, <1>a, <3>1 DEF EnterCaller, TheCaller
    <3>2. CASE req.headers.caller # None
      BY <1>5, <3>2 DEF EnterCaller, TheCaller, Types, LocalsType
    <3> QED BY <3>1, <3>2
  <2>3. userctx'.caller = Seen(req.headers.caller) /\ userctx'.client = SeenClient
        /\ userctx'.cid = userctx.cid /\ userctx'.key = userctx.key
    <3>1. CASE req.headers.caller = None
      BY <1>5, <1>a, <3>1 DEF EnterCaller, Seen, SeenClient
    <3>2. CASE req.headers.caller # None
      BY <1>5, <3>2 DEF EnterCaller, Seen, SeenClient, Types, ContextType
    <3> QED BY <3>1, <3>2
  <2> QED BY <1>0, <1>1, <1>2, <1>3, <1>a, <2>1, <2>2, <2>3 DEF Values
<1>6. CASE EnterIdempotencyKey
  <2>1. Layer(at + 1) = "IdempotencyKey" /\ resp' = resp /\ plain' = plain /\ locals' = locals
    BY <1>6 DEF EnterIdempotencyKey, Enters
  <2>2. userctx'.key = Seen(req.headers.key)
    BY <1>6, <1>a DEF EnterIdempotencyKey, Seen, Types, ContextType
  <2>3. userctx'.cid = userctx.cid /\ userctx'.caller = userctx.caller
        /\ userctx'.client = userctx.client
    BY <1>6 DEF EnterIdempotencyKey, Types, ContextType
  <2> QED BY <1>0, <1>1, <1>2, <1>3, <1>a, <2>1, <2>2, <2>3 DEF Values
<1> QED BY <1>4, <1>5, <1>6

LEMMA ArriveValues ==
    ASSUME Types, NEW path, NEW headers, Arrive(path, headers)
    PROVE  Values'
<1>1. /\ at' = 0 /\ resp' = Fresh /\ locals' = NoLocals /\ userctx' = NoContext
      /\ plain' = NoHistory /\ chain' = chain
  BY DEF Arrive
<1>2. \A layer : ~Passed(layer)'
  BY <1>1 DEF Passed, Before
<1> QED BY <1>1, <1>2 DEF Values, Fresh, NoLocals, NoContext, NoHistory

LEMMA CallValues ==
    ASSUME Types, Values, CallHandler
    PROVE  Values'
<1>1. /\ chain' = chain /\ req' = req /\ locals' = locals /\ userctx' = userctx /\ resp' = resp
      /\ at' = at /\ at = Len(chain) /\ mode = "down" /\ mode' = "handler"
  BY DEF CallHandler, app, ctxs
<1>2. TheCaller' = TheCaller /\ SeenId' = SeenId /\ SeenClient' = SeenClient
      /\ CorrelationId' = CorrelationId /\ \A v : Seen(v)' = Seen(v)
  BY <1>1, SameRequest
<1>3. \A layer : Passed(layer)' = Passed(layer) /\ Installed(layer)' = Installed(layer)
  BY <1>1 DEF Passed, Installed, Before, Layer
<1>4. Installed("Caller") <=> Passed("Caller")
  BY <1>1 DEF Passed, Installed
<1> QED BY <1>1, <1>2, <1>3, <1>4 DEF Values

\* No answer changes the id that is echoed.
LEMMA IdStays ==
    ASSUME Types,
           \/ EnterRecord \/ EnterOther \/ Handler \/ Produce
           \/ ReadStream \/ LeaveRecord \/ LeaveGuard \/ LeaveOther \/ Unwind \/ Finish
           \/ SendChunk \/ Sent
    PROVE  resp'.cid = resp.cid
<1>0. Len(chain) \in Nat /\ at \in Nat /\ resp \in ReplyType /\ err \in AllErrors
      /\ 201 \in Nat /\ 400 \in Nat /\ NoError \in AllErrors /\ Errors \subseteq AllErrors
  BY DEF Types, AllErrors
<1>1. Drained(resp).cid = resp.cid /\ Answered(resp, err).cid = resp.cid
      /\ Guarded(resp, err).cid = resp.cid /\ FiberAnswered(resp, err).cid = resp.cid
  BY <1>0, ReplyTypes
<1>2. CASE HandlerReplies
  <2>4. \/ \E marshals \in BOOLEAN : Replies(JSON(resp, 201, marshals))
        \/ \E e \in Errors : Replies(Error(resp, 400, e))
        \/ Replies([resp EXCEPT !.body = Body("stream", "")])
    BY <1>2, ZenonT(40) DEF HandlerReplies
  <2>5. \/ \E marshals \in BOOLEAN : resp' = JSON(resp, 201, marshals)
        \/ \E e \in Errors : resp' = Error(resp, 400, e)
        \/ resp' = [resp EXCEPT !.body = Body("stream", "")]
    BY <2>4, ZenonT(30) DEF Replies
  <2>6. ASSUME NEW marshals, resp' = JSON(resp, 201, marshals) PROVE resp'.cid = resp.cid
    BY <1>0, <2>6 DEF JSON, ReplyType
  <2>7. ASSUME NEW e, resp' = Error(resp, 400, e) PROVE resp'.cid = resp.cid
    BY <1>0, <2>7 DEF Error, ReplyType
  <2>8. CASE resp' = [resp EXCEPT !.body = Body("stream", "")]
    BY <1>0, <2>8 DEF ReplyType
  <2> QED BY ONLY <2>5, <2>6, <2>7, <2>8, ZenonT(30)
<1>3. CASE ~HandlerReplies
  BY <1>1, <1>3 DEF EnterRecord, EnterOther, Handler, Produce, ReadStream, LeaveRecord,
     LeaveGuard, LeaveOther, Unwind, Finish, SendChunk, Sent, Refuse, HandlerStarts,
     HandlerPanics, FailLate, HandlerReturns
<1> QED BY <1>2, <1>3

LEMMA OtherValues ==
    ASSUME Types, Stages, Values,
           \/ EnterRecord \/ EnterOther \/ Handler \/ Produce
           \/ ReadStream \/ LeaveRecord \/ LeaveGuard \/ LeaveOther \/ Unwind \/ Finish
           \/ SendChunk \/ Sent
    PROVE  Values'
<1>0. Len(chain) \in Nat /\ at \in Nat /\ resp \in ReplyType /\ err \in AllErrors
      /\ 201 \in Nat /\ 400 \in Nat /\ NoError \in AllErrors /\ Errors \subseteq AllErrors
  BY DEF Types, AllErrors
<1>1. chain' = chain /\ req' = req /\ locals' = locals /\ userctx' = userctx
  BY DEF EnterRecord, EnterOther, Handler, Produce, ReadStream, LeaveRecord, LeaveGuard,
         LeaveOther, Unwind, Finish, SendChunk, Sent, Refuse, HandlerReplies, HandlerStarts,
         HandlerPanics, FailLate, HandlerReturns, Replies, app, ctxs
<1>2. mode' \in {"down", "handler"} => mode \in {"down", "handler"}
  BY DEF EnterRecord, EnterOther, Enters, Handler, Produce, ReadStream, LeaveRecord, LeaveGuard,
         LeaveOther, Unwind, Finish, SendChunk, Sent, Refuse, HandlerReplies, HandlerStarts,
         HandlerPanics, FailLate, HandlerReturns, Replies
<1>3. plain'.handled = plain.handled
  BY ZenonT(40) DEF EnterRecord, EnterOther, Handler, Produce, ReadStream, LeaveRecord, LeaveGuard,
         LeaveOther, Unwind, Finish, SendChunk, Sent, Refuse, HandlerReplies, HandlerStarts,
         HandlerPanics, FailLate, HandlerReturns, Replies, Types, HistoryType
<1>4. resp'.cid = resp.cid
  BY IdStays
<1>5. ASSUME NEW layer \in {"CorrelationID", "Caller", "IdempotencyKey"}
      PROVE  /\ Passed(layer)' => Passed(layer)
             /\ mode' \in {"down", "handler"} => (Passed(layer)' <=> Passed(layer))
  <2>1. CASE EnterRecord \/ EnterOther
    <3>1. at' = at + 1 /\ Layer(at + 1) # layer
      BY <1>5, <2>1 DEF EnterRecord, EnterOther, Enters
    <3> QED BY <1>1, <3>1, PassedNext
  <2>2. CASE ~(EnterRecord \/ EnterOther)
    <3>1. at' = at \/ (at > 0 /\ at' = at - 1 /\ mode' \notin {"down", "handler"})
      <4>1. CASE LeaveRecord \/ LeaveGuard \/ LeaveOther \/ FailLate
        BY <4>1 DEF LeaveRecord, LeaveGuard, LeaveOther, FailLate, Up
      <4>2. CASE Unwind
        BY <1>0, <4>2 DEF Unwind
      <4>3. CASE ~(LeaveRecord \/ LeaveGuard \/ LeaveOther \/ FailLate \/ Unwind)
        BY <2>2, <4>3 DEF Handler, Produce, ReadStream, Finish, SendChunk, Sent, Refuse,
           HandlerReplies, HandlerStarts, HandlerPanics, HandlerReturns, Replies
      <4> QED BY <4>1, <4>2, <4>3
    <3>2. at' \in Nat /\ at' =< at
      BY <1>0, <3>1
    <3>3. at' = at => (Passed(layer)' <=> Passed(layer))
      BY <1>1 DEF Passed, Before, Layer
    <3> QED BY <1>1, <3>1, <3>2, <3>3, PassedBack
  <2> QED BY <2>1, <2>2
<1> QED BY <1>1, <1>2, <1>3, <1>4, <1>5, ValuesStay

\* Work started by a handler, and the number of the request it belongs to.
LEMMA StartsKept ==
    ASSUME Types, Stages, Values, Kept, HandlerStarts
    PROVE  Kept'
<1>1. PICK t : /\ tasks' = tasks \cup {t}
               /\ t = [number |-> req.number, ctx |-> userctx,
                       headers |-> req.headers, echoed |-> resp.cid]
  BY DEF HandlerStarts
<1>2. chain' = chain /\ req' = req /\ mode = "handler" /\ at = Len(chain)
  BY DEF HandlerStarts, app, Stages
<1>3. \A layer : Installed(layer)' <=> Installed(layer)
  BY <1>2, SameChain
<1>4. \A layer : Installed(layer) <=> Passed(layer)
  BY <1>2 DEF Installed, Passed
<1>5. KeptBy(t)'
  <2>1. t.number \in Nat /\ t.number =< req'.number
    BY <1>1, <1>2, Heading
  <2>2. Installed("CorrelationID") =>
          t.ctx.cid = IF t.headers.cid = None THEN Own(t.echoed) ELSE ViewOf(t.number, t.echoed)
    BY <1>1, <1>2, <1>4, Heading DEF Values, SeenId, HasID, View, ViewOf
  <2>3. Installed("Caller") =>
          /\ t.ctx.caller = IF t.headers.caller = None THEN NoView
                            ELSE ViewOf(t.number, t.headers.caller)
          /\ t.ctx.client = IF t.headers.caller = None THEN NoView
                            ELSE ViewOf(t.number, t.headers.client)
    BY <1>1, <1>2, <1>4 DEF Values, Seen, SeenClient, View, ViewOf
  <2>4. Installed("IdempotencyKey") =>
          t.ctx.key = IF t.headers.key = None THEN NoView ELSE ViewOf(t.number, t.headers.key)
    BY <1>1, <1>2, <1>4 DEF Values, Seen, View, ViewOf
  <2> QED BY <1>3, <2>1, <2>2, <2>3, <2>4 DEF KeptBy
<1>6. \A u \in tasks : KeptBy(u)'
  BY <1>2, <1>3 DEF Kept, KeptBy
<1> QED BY <1>1, <1>5, <1>6 DEF Kept

LEMMA OthersKeep ==
    ASSUME Types, Kept, chain' = chain, tasks' = tasks,
           req' = req \/ req'.number = req.number + 1
    PROVE  Kept'
<1>1. req.number \in Nat /\ req'.number >= req.number /\ req'.number \in Nat
  BY Heading
<1>2. \A layer : Installed(layer)' <=> Installed(layer)
  BY SameChain
<1>3. ASSUME NEW t \in tasks PROVE KeptBy(t)'
  <2>1. KeptBy(t)
    BY DEF Kept
  <2>2. t.number \in Nat /\ t.number =< req'.number
    BY <1>1, <2>1 DEF KeptBy
  <2> QED BY <1>2, <2>1, <2>2 DEF KeptBy
<1> QED BY <1>3 DEF Kept

-----------------------------------------------------------------------------
(***************************************************************************)
(* The stamps of the lines.                                                *)
(***************************************************************************)
LEMMA Appended ==
    ASSUME NEW S, NEW s \in Seq(S), NEW x \in S
    PROVE  /\ Len(s) \in Nat /\ Len(Append(s, x)) = Len(s) + 1
           /\ 1..Len(Append(s, x)) = (1..Len(s)) \cup {Len(s) + 1}
           /\ \A n \in 1..Len(s) : Append(s, x)[n] = s[n] /\ n # Len(s) + 1 /\ n < Len(s) + 1
           /\ Append(s, x)[Len(s) + 1] = x
OBVIOUS

LEMMA Logged ==
    ASSUME NEW l \in LineType, lines \in Seq(LineType), lines' = Append(lines, l)
    PROVE  Log' = Log \cup {l}
BY Appended DEF Log

\* What a line that is there is stamped with goes on being right.
LEMMA StampsStay ==
    ASSUME chain' = chain, req' = req,
           resp'.cid = resp.cid \/ (resp'.cid = CorrelationId /\ mode = "down"),
           NEW l, StampRight(l),
           l.what = "response" => /\ resp'.cid = resp.cid /\ plain'.handled = plain.handled
                                  /\ mode' \in {"up", "sending", "idle"}
    PROVE  StampRight(l)'
<1>1. /\ \A layer : Before(l.by, layer)' <=> Before(l.by, layer)
      /\ \A layer : Installed(layer)' <=> Installed(layer)
      /\ RecordLayers' = RecordLayers
  BY SameChain
<1>2. TheCaller' = TheCaller /\ CorrelationId' = CorrelationId
  BY SameRequest
<1>3. l.what = "request" => RequestStamp(l)'
  BY <1>1, <1>2 DEF StampRight, RequestStamp
<1>4. l.what = "response" => ResponseStamp(l)'
  BY <1>1, <1>2 DEF StampRight, ResponseStamp
<1> QED BY <1>1, <1>3, <1>4 DEF StampRight

LEMMA StampsKept ==
    ASSUME Types, Stamps, WrittenDown, chain' = chain, req' = req,
           resp'.cid = resp.cid \/ (resp'.cid = CorrelationId /\ mode = "down"),
           mode \notin {"down", "handler", "panic"} =>
             /\ mode' \in {"up", "sending", "idle"} \/ mode' = mode
             /\ plain'.handled = plain.handled,
           NEW l \in Log
    PROVE  StampRight(l)'
<1>1. StampRight(l)
  BY DEF Stamps
<1>2. l.what = "response" => ResponseStamp(l) /\ mode \notin {"down", "handler", "panic"}
  BY <1>1 DEF StampRight, WrittenDown, IsResponse, Log
<1>3. l.what = "response" => /\ resp'.cid = resp.cid /\ plain'.handled = plain.handled
                             /\ mode' \in {"up", "sending", "idle"}
  BY <1>2 DEF ResponseStamp
<1> QED BY <1>1, <1>3, StampsStay

LEMMA SameLines ==
    ASSUME Types, Stamps, WrittenDown, chain' = chain, req' = req, lines' = lines,
           resp'.cid = resp.cid \/ (resp'.cid = CorrelationId /\ mode = "down"),
           mode \notin {"down", "handler", "panic"} =>
             /\ mode' \in {"up", "sending", "idle"} \/ mode' = mode
             /\ plain'.handled = plain.handled
    PROVE  Stamps'
<1>1. Log' = Log
  BY DEF Log
<1> QED BY <1>1, StampsKept DEF Stamps

LEMMA EnterRecordStamps ==
    ASSUME Types, Values, Stamps, WrittenDown, EnterRecord
    PROVE  Stamps'
<1>1. /\ chain' = chain /\ req' = req /\ resp' = resp /\ mode = "down" /\ at \in Nat
      /\ Layer(at + 1) = "Record" /\ at + 1 =< Len(chain) /\ Len(chain) \in Nat
  BY DEF EnterRecord, Enters, app, Types
<1>2. CASE Skips
  BY <1>1, <1>2, SameLines DEF EnterRecord
<1>3. CASE ~Skips
  <2>1. PICK l : l = RequestLine(at + 1)
    OBVIOUS
  <2>2. l \in LineType /\ lines' = Append(lines, l)
    BY <1>1, <1>3, <2>1, LineTypes DEF EnterRecord
  <2>3. l.by = at + 1 /\ l.what = "request" /\ l.cid = locals.cid /\ l.caller = locals.caller
    BY <2>1 DEF RequestLine, Line, Stamp
  <2>4. l.by \in RecordLayers'
    BY <1>1, <2>3 DEF RecordLayers, Types, Layer
  <2>5. RequestStamp(l)'
    <3>1. \A layer : Before(l.by, layer)' <=> Passed(layer)
      BY <1>1, <2>3, SameChain DEF Passed
    <3>2. TheCaller' = TheCaller /\ CorrelationId' = CorrelationId
      BY <1>1, SameRequest
    <3> QED BY <1>1, <2>3, <3>1, <3>2 DEF RequestStamp, Values
  <2>6. \A k \in Log : StampRight(k)'
    BY <1>1, StampsKept
  <2>7. Log' = Log \cup {l}
    BY <2>2, Logged DEF Types
  <2>8. StampRight(l)'
    BY <2>3, <2>4, <2>5 DEF StampRight
  <2> QED BY <2>6, <2>7, <2>8 DEF Stamps
<1> QED BY <1>2, <1>3

\* The line of a response has the id and the caller that were stored for it.
LEMMA LeaveRecordStamps ==
    ASSUME Types, Values, Stamps, WrittenDown, LeaveRecord
    PROVE  Stamps'
<1>1. /\ chain' = chain /\ req' = req /\ plain' = plain /\ mode = "up" /\ mode' = mode
      /\ at \in Nat /\ at > 0 /\ at =< Len(chain) /\ Len(chain) \in Nat /\ Layer(at) = "Record"
  BY DEF LeaveRecord, Up, app, Types
<1>2. Answered(resp, err) \in ReplyType /\ Answered(resp, err).cid = resp.cid
  BY ReplyTypes, 0 \in Nat, ZenonT(40) DEF Types
<1>3. resp'.cid = resp.cid
  BY <1>2 DEF LeaveRecord
<1>4. CASE Skips
  BY <1>1, <1>3, <1>4, SameLines DEF LeaveRecord
<1>5. CASE ~Skips
  <2>1. PICK l : l = ResponseLine(at, Answered(resp, err))
    OBVIOUS
  <2>2. l \in LineType /\ lines' = Append(lines, l)
    BY <1>1, <1>2, <1>5, <2>1, LineTypes DEF LeaveRecord
  <2>3. l.by = at /\ l.what = "response" /\ l.cid = locals.cid /\ l.caller = locals.caller
    BY <2>1 DEF ResponseLine, Line, Stamp
  <2>4. l.by \in RecordLayers'
    BY <1>1, <2>3 DEF RecordLayers, Types, Layer
  <2>5. ResponseStamp(l)'
    <3>1. \A layer : /\ Before(l.by, layer)' <=> Before(l.by, layer)
                     /\ Installed(layer)' <=> Installed(layer)
      BY <1>1, SameChain
    <3>2. \A layer : Before(l.by, layer) => Passed(layer)
      BY <1>1, <2>3 DEF Passed, Before
    <3>3. TheCaller' = TheCaller
      BY <1>1, SameRequest
    <3>4. l.cid = resp'.cid
      BY <1>3, <2>3 DEF Values
    <3>5. (Before(l.by, "Caller") \/ (plain.handled /\ Installed("Caller")))
              => l.caller = TheCaller
      BY <2>3, <3>2 DEF Values
    <3> QED BY <1>1, <3>1, <3>3, <3>4, <3>5 DEF ResponseStamp
  <2>6. \A k \in Log : StampRight(k)'
    BY <1>1, <1>3, StampsKept
  <2>7. Log' = Log \cup {l}
    BY <2>2, Logged DEF Types
  <2>8. StampRight(l)'
    BY <2>3, <2>4, <2>5 DEF StampRight
  <2> QED BY <2>6, <2>7, <2>8 DEF Stamps
<1> QED BY <1>4, <1>5

LEMMA OtherStamps ==
    ASSUME Types, Stages, Stamps, WrittenDown,
           \/ EnterCorrelationID \/ EnterCaller \/ EnterIdempotencyKey \/ EnterOther
           \/ CallHandler \/ Handler \/ Produce
           \/ ReadStream \/ LeaveGuard \/ LeaveOther \/ Unwind \/ Finish \/ SendChunk \/ Sent
    PROVE  Stamps'
<1>1. chain' = chain /\ req' = req /\ lines' = lines
  BY DEF EnterCorrelationID, EnterCaller, EnterIdempotencyKey, EnterOther, CallHandler, Handler,
         Produce, ReadStream, LeaveGuard, LeaveOther, Unwind, Finish, SendChunk, Sent, Refuse,
         HandlerReplies, HandlerStarts, HandlerPanics, FailLate, HandlerReturns, Replies, app, ctxs
<1>2. resp'.cid = resp.cid \/ (resp'.cid = CorrelationId /\ mode = "down")
  <2>1. CASE EnterCorrelationID
    BY <2>1 DEF EnterCorrelationID, Enters, Types, ReplyType
  <2>2. CASE EnterCaller \/ EnterIdempotencyKey \/ CallHandler
    BY <2>2 DEF EnterCaller, EnterIdempotencyKey, CallHandler
  <2>3. CASE ~(EnterCorrelationID \/ EnterCaller \/ EnterIdempotencyKey \/ CallHandler)
    BY <2>3, IdStays
  <2> QED BY <2>1, <2>2, <2>3
<1>3. mode \notin {"down", "handler", "panic"} =>
        /\ mode' \in {"up", "sending", "idle"} \/ mode' = mode
        /\ plain'.handled = plain.handled
  <2> SUFFICES ASSUME mode \notin {"down", "handler", "panic"}
               PROVE  /\ mode' \in {"up", "sending", "idle"} \/ mode' = mode
                      /\ plain'.handled = plain.handled
    OBVIOUS
  <2>1. FailLate \/ Produce \/ ReadStream \/ LeaveGuard \/ LeaveOther \/ Finish \/ SendChunk \/ Sent
    BY DEF EnterCorrelationID, EnterCaller, EnterIdempotencyKey, EnterOther, Enters, CallHandler,
           Handler, Unwind, Refuse, HandlerReplies, HandlerStarts, HandlerPanics, HandlerReturns,
           Replies
  <2> QED BY <2>1 DEF FailLate, Produce, ReadStream, LeaveGuard, LeaveOther, Finish, SendChunk,
                      Sent, Types, HistoryType
<1> QED BY <1>1, <1>2, <1>3, SameLines

-----------------------------------------------------------------------------
(***************************************************************************)
(* Which lines there are.                                                  *)
(***************************************************************************)
LEMMA LineFacts ==
    ASSUME Types
    PROVE  /\ \A n \in 1..Len(lines) : lines[n].by \in Nat /\ lines[n].what \in {"request", "response"}
           /\ at \in Nat /\ Len(chain) \in Nat
           /\ \A i \in RecordLayers : i \in Nat /\ i >= 1 /\ Layer(i) = "Record"
<1>1. lines \in Seq(LineType) /\ chain \in Seq(Layers) /\ at \in 0..Len(chain)
  BY DEF Types
<1>2. \A n \in 1..Len(lines) : lines[n].by \in Nat /\ lines[n].what \in {"request", "response"}
  <2>1. \A n \in 1..Len(lines) : lines[n] \in LineType
    BY <1>1
  <2>2. \A l \in LineType : l.by \in Nat /\ l.what \in {"request", "response"}
    BY DEF LineType
  <2> QED BY <2>1, <2>2
<1> QED BY <1>1, <1>2 DEF RecordLayers, Layer

\* Down: a layer that is no Record, or a skipped path.
LEMMA DownWritten ==
    ASSUME Types, Written, mode = "down", mode' = "down", chain' = chain, req' = req,
           lines' = lines, at' = at + 1, Layer(at + 1) # "Record" \/ Skips
    PROVE  Written'
<1>1. Skips' <=> Skips
  BY DEF Skips
<1>2. RecordLayers' = RecordLayers
  BY SameChain
<1>3. WrittenDown'
  BY DEF Written, WrittenDown, IsResponse
<1>4. WrittenByPassed'
  BY LineFacts DEF Written, WrittenByPassed
<1>6. WrittenByRecords'
  BY <1>2 DEF Written, WrittenByRecords
<1>5. WrittenEntered'
  <2>1. ASSUME ~Skips, NEW i \in RecordLayers, i =< at + 1
        PROVE  \E n \in 1..Len(lines) : IsRequest(n) /\ lines[n].by = i
    <3>1. i =< at
      BY <2>1, LineFacts
    <3> QED BY <2>1, <3>1 DEF Written, WrittenEntered
  <2> QED BY <1>1, <1>2, <2>1 DEF WrittenEntered, IsRequest
<1> QED BY <1>1, <1>3, <1>4, <1>5, <1>6 DEF Written, WrittenUp, Telling

LEMMA EnterRecordWritten ==
    ASSUME Types, Written, EnterRecord, ~Skips
    PROVE  Written'
<1>1. /\ chain' = chain /\ req' = req /\ mode = "down" /\ mode' = "down" /\ at' = at + 1
      /\ at \in Nat /\ at + 1 \in Nat
  BY DEF EnterRecord, Enters, app, Types
<1>2. PICK l \in LineType : lines' = Append(lines, l) /\ l.by = at + 1 /\ l.what = "request"
  BY <1>1, LineTypes DEF EnterRecord, RequestLine, Line
<1>3. /\ Len(lines) \in Nat
      /\ 1..Len(lines') = (1..Len(lines)) \cup {Len(lines) + 1}
      /\ \A n \in 1..Len(lines) : lines'[n] = lines[n]
      /\ lines'[Len(lines) + 1] = l
  BY <1>2, Appended DEF Types
<1>4. ~Skips' /\ RecordLayers' = RecordLayers
  BY <1>1, SameChain DEF Skips
<1>8. WrittenByRecords'
  <2>1. l.by \in RecordLayers
    BY <1>1, <1>2, LineFacts DEF EnterRecord, Enters, RecordLayers, Layer
  <2> QED BY <1>3, <1>4, <2>1 DEF Written, WrittenByRecords
<1>5. WrittenDown'
  BY <1>1, <1>2, <1>3 DEF Written, WrittenDown, IsResponse
<1>6. WrittenByPassed'
  <2>1. \A n \in 1..Len(lines) : lines[n].by =< at + 1
    BY <1>1, LineFacts DEF Written, WrittenByPassed
  <2>2. l.by =< at + 1
    BY <1>1, <1>2
  <2> QED BY <1>1, <1>3, <2>1, <2>2 DEF WrittenByPassed
<1>7. WrittenEntered'
  <2>1. ASSUME NEW i \in RecordLayers, i =< at + 1
        PROVE  \E n \in 1..Len(lines') : IsRequest(n)' /\ lines'[n].by = i
    <3>1. CASE i =< at
      <4>1. PICK n \in 1..Len(lines) : IsRequest(n) /\ lines[n].by = i
        BY <1>1, <3>1 DEF Written, WrittenEntered
      <4> QED BY <1>3, <4>1 DEF IsRequest
    <3>2. CASE i = at + 1
      BY <1>2, <1>3, <3>2 DEF IsRequest
    <3> QED BY <2>1, <3>1, <3>2, LineFacts
  <2> QED BY <1>1, <1>4, <2>1 DEF WrittenEntered
<1> QED BY <1>1, <1>4, <1>5, <1>6, <1>7, <1>8 DEF Written, WrittenUp, Telling

\* The handler, and the turn after it.
LEMMA TurnWritten ==
    ASSUME Types, Written, mode \in {"down", "handler"}, mode' \in {"handler", "up", "panic"},
           chain' = chain, req' = req, lines' = lines, at' = at
    PROVE  Written'
<1>1. (Skips' <=> Skips) /\ RecordLayers' = RecordLayers
  BY SameChain DEF Skips
<1>2. \A n \in 1..Len(lines) : ~IsResponse(n) /\ lines[n].by =< at
  BY DEF Written, WrittenDown, WrittenByPassed
<1>3. WrittenDown' /\ WrittenByPassed'
  BY <1>2 DEF WrittenDown, WrittenByPassed, IsResponse
<1>4. WrittenEntered' /\ WrittenByRecords'
  BY <1>1 DEF Written, WrittenEntered, WrittenByRecords, IsRequest
<1>5. \A n \in 1..Len(lines) : ~(lines[n].by > at)
  BY <1>2, LineFacts
<1>6. WrittenUp' /\ Telling'
  BY <1>2, <1>5 DEF WrittenUp, Telling, IsResponse, IsRequest, Log
<1> QED BY <1>1, <1>3, <1>4, <1>6 DEF Written

\* A panic on its way out, caught or not.
LEMMA UnwindWritten ==
    ASSUME Types, Stages, Written, Unwind
    PROVE  Written'
<1>0. /\ chain' = chain /\ req' = req /\ lines' = lines /\ mode = "panic" /\ plain.panicked
      /\ plain'.panicked
  BY DEF Unwind, app, Stages, Types, HistoryType
<1>1. (Skips' <=> Skips) /\ RecordLayers' = RecordLayers
  BY <1>0, SameChain DEF Skips
<1>2. \A n \in 1..Len(lines) : ~IsResponse(n)
  BY <1>0 DEF Written, WrittenDown
<1>3. WrittenDown' /\ WrittenByPassed' /\ Telling' /\ WrittenByRecords'
  BY <1>0, <1>1, <1>2 DEF Unwind, Written, WrittenByRecords, WrittenDown, WrittenByPassed, Telling, IsResponse, Log
<1>4. CASE at = 0
  BY <1>0, <1>1, <1>3, <1>4 DEF Unwind, Written, WrittenEntered, WrittenUp
<1>5. CASE at # 0
  <2>1. at' = at - 1 /\ at \in Nat /\ at > 0
    BY <1>5, LineFacts DEF Unwind
  <2>2. WrittenEntered'
    <3>1. ASSUME ~Skips, NEW i \in RecordLayers, i =< at - 1
          PROVE  \E n \in 1..Len(lines) : IsRequest(n) /\ lines[n].by = i
      <4>1. i =< at
        BY <2>1, <3>1, LineFacts
      <4> QED BY <1>0, <3>1, <4>1 DEF Written, WrittenEntered
    <3> QED BY <1>0, <1>1, <2>1, <3>1 DEF WrittenEntered, IsRequest
  <2>3. WrittenUp'
    <3>1. SUFFICES ASSUME mode' = "up", NEW n \in 1..Len(lines), IsRequest(n), lines[n].by > at - 1,
                          lines[n].by \in RecordLayers
                   PROVE  Before(lines[n].by, "recover")'
      <4>1. \A k \in 1..Len(lines) : lines[k].by \in RecordLayers
        BY DEF Written, WrittenByRecords
      <4> QED BY <1>0, <1>2, <2>1, <4>1 DEF WrittenUp, IsResponse, IsRequest, Unwind
    <3>2. Layer(at) = "recover"
      BY <1>0, <1>5, <3>1 DEF Unwind
    <3>3. lines[n].by # at /\ lines[n].by \in Nat
      BY <3>1, <3>2, LineFacts
    <3>4. at \in 1..(lines[n].by - 1)
      BY <2>1, <3>1, <3>3
    <3> QED BY <1>0, <3>2, <3>4 DEF Before, Layer
  <2> QED BY <1>0, <1>1, <1>3, <2>2, <2>3 DEF Written
<1> QED BY <1>4, <1>5

\* What a line tells stays true if no error comes up and the answer stays.
LEMMA TellsStay ==
    ASSUME req' = req, NEW l, Tells(l), plain'.late = plain.late,
           (err = NoError /\ ~(Logs /\ Streamed(resp))) => err' = NoError /\ resp' = resp
    PROVE  Tells(l)'
BY DEF Tells, Logs, Streamed

\* Up past a layer that writes no line.
LEMMA BackWritten ==
    ASSUME Types, Written, mode = "up", mode' = "up", chain' = chain, req' = req,
           lines' = lines, at > 0, at' = at - 1, Layer(at) # "Record" \/ Skips,
           plain'.panicked = plain.panicked,
           \A l \in Log : (l.what = "response" /\ l.by > at /\ Tells(l)) => Tells(l)'
    PROVE  Written'
<1>1. (Skips' <=> Skips) /\ RecordLayers' = RecordLayers /\ Log' = Log
  BY SameChain DEF Skips, Log
<1>2. \A n \in 1..Len(lines) : (lines[n].by > at - 1) => lines[n].by > at
  <2>1. ASSUME NEW n \in 1..Len(lines), lines[n].by > at - 1 PROVE lines[n].by > at
    <3>1. lines[n].by \in RecordLayers /\ ~Skips
      BY DEF Written, WrittenByRecords
    <3>2. lines[n].by # at /\ lines[n].by \in Nat /\ at \in Nat
      BY <3>1, LineFacts
    <3> QED BY <2>1, <3>2
  <2> QED BY <2>1
<1>3. WrittenByRecords' /\ WrittenDown' /\ WrittenByPassed'
  BY <1>1 DEF Written, WrittenByRecords, WrittenDown, WrittenByPassed
<1>4. WrittenEntered'
  <2>1. ASSUME ~Skips, NEW i \in RecordLayers, i =< at - 1
        PROVE  \E n \in 1..Len(lines) : IsRequest(n) /\ lines[n].by = i
    <3>1. i =< at
      BY <2>1, LineFacts
    <3> QED BY <2>1, <3>1 DEF Written, WrittenEntered
  <2> QED BY <1>1, <2>1 DEF WrittenEntered, IsRequest
<1>5. WrittenUp'
  <2>1. \A n \in 1..Len(lines) : lines[n].by > at => lines[n].by > at - 1
    BY LineFacts
  <2>2. \A i, layer : Before(i, layer)' <=> Before(i, layer)
    BY SameChain
  <2> QED BY <1>2, <2>1, <2>2 DEF Written, WrittenUp, IsRequest, IsResponse
<1>6. Telling'
  <2>1. \A l \in Log : l.what = "response" => l.by > at /\ Tells(l)
    BY DEF Written, WrittenUp, Telling, IsResponse, Log
  <2> QED BY <1>1, <2>1 DEF Telling
<1> QED BY <1>1, <1>3, <1>4, <1>5, <1>6 DEF Written

\* Steps after which the request is where it was.
LEMMA StillWritten ==
    ASSUME Types, Written, chain' = chain, req' = req, lines' = lines, at' = at,
           plain'.panicked = plain.panicked,
           mode' = mode \/ (mode = "up" /\ mode' = "sending") \/ mode' = "idle",
           \A l \in Log : (mode \in {"up", "sending"} /\ l.what = "response" /\ Tells(l)) => Tells(l)'
    PROVE  Written'
<1>1. (Skips' <=> Skips) /\ RecordLayers' = RecordLayers /\ Log' = Log
  BY SameChain DEF Skips, Log
<1>2. \A i, layer : Before(i, layer)' <=> Before(i, layer)
  BY SameChain
<1>3. WrittenByRecords' /\ WrittenDown' /\ WrittenByPassed' /\ WrittenEntered'
  BY <1>1
  DEF Written, WrittenByRecords, WrittenDown, WrittenByPassed, WrittenEntered, IsRequest, IsResponse
<1>4. WrittenUp'
  BY <1>2 DEF Written, WrittenUp, IsRequest, IsResponse
<1>5. Telling'
  BY <1>1 DEF Written, Telling
<1> QED BY <1>1, <1>3, <1>4, <1>5 DEF Written

\* A Record that leaves writes what the client is to get, behind every line so far.
LEMMA LeaveRecordWritten ==
    ASSUME Types, Written, LeaveRecord, ~Skips
    PROVE  Written'
<1> DEFINE r == Answered(resp, err)
<1>1. /\ chain' = chain /\ req' = req /\ plain' = plain /\ mode = "up" /\ mode' = "up"
      /\ at' = at - 1 /\ at \in Nat /\ at > 0 /\ at =< Len(chain) /\ Len(chain) \in Nat
      /\ Layer(at) = "Record" /\ resp' = r /\ err' = NoError /\ ~ReadsBody
  BY DEF LeaveRecord, Up, app, Types
<1>2. r \in ReplyType /\ (err = NoError => r = resp)
  <2>1. r \in ReplyType
    BY ReplyTypes, 0 \in Nat DEF Types
  <2> QED BY <2>1 DEF Answered
<1>3. PICK l \in LineType :
        /\ lines' = Append(lines, l) /\ l.by = at /\ l.what = "response"
        /\ l.status = r.status /\ l.body = IF Logs THEN r.body ELSE Empty
  BY <1>1, <1>2, LineTypes DEF LeaveRecord, ResponseLine, Line
<1>4. PICK last \in Nat :
        /\ 1..Len(lines') = (1..Len(lines)) \cup {last}
        /\ \A n \in 1..Len(lines) : lines'[n] = lines[n] /\ n < last /\ n # last
        /\ lines'[last] = l
        /\ Log' = Log \cup {l}
  <2>1. Len(lines) + 1 \in Nat
    BY <1>3, Appended DEF Types
  <2> QED BY <1>3, <2>1, Appended, Logged DEF Types
<1>5. ~Skips' /\ RecordLayers' = RecordLayers /\ at \in RecordLayers
  BY <1>1, SameChain DEF Skips, RecordLayers, Layer
<1>6. WrittenByRecords' /\ WrittenDown' /\ WrittenByPassed'
  BY <1>1, <1>3, <1>4, <1>5 DEF Written, WrittenByRecords, WrittenDown, WrittenByPassed
<1>7. WrittenEntered'
  <2>1. ASSUME NEW i \in RecordLayers, i =< at - 1
        PROVE  \E n \in 1..Len(lines') : IsRequest(n)' /\ lines'[n].by = i
    <3>1. i =< at
      BY <1>1, <2>1, LineFacts
    <3>2. PICK n \in 1..Len(lines) : IsRequest(n) /\ lines[n].by = i
      BY <1>1, <3>1 DEF Written, WrittenEntered
    <3> QED BY <1>4, <3>2 DEF IsRequest
  <2> QED BY <1>1, <1>5, <2>1 DEF WrittenEntered
<1>8. \A n \in 1..Len(lines) :
        /\ IsResponse(n)' <=> IsResponse(n)
        /\ IsRequest(n)' <=> IsRequest(n)
        /\ IsResponse(n) => lines[n].by > at
  BY <1>1, <1>4 DEF Written, WrittenUp, IsRequest, IsResponse
<1>9. IsResponse(last)' /\ ~IsRequest(last)'
  BY <1>3, <1>4 DEF IsRequest, IsResponse
<1>10. WrittenUp'
  <2>1. ASSUME NEW n \in 1..Len(lines'), IsResponse(n)'
        PROVE  /\ lines'[n].by > at - 1
               /\ \E m \in 1..Len(lines') : IsRequest(m)' /\ lines'[m].by = lines'[n].by
    <3>1. CASE n \in 1..Len(lines)
      BY <1>1, <1>4, <1>8, <2>1, <3>1, LineFacts, SMTT(30) DEF Written, WrittenUp
    <3>2. CASE n = last
      <4>1. PICK m \in 1..Len(lines) : IsRequest(m) /\ lines[m].by = at
        BY <1>1, <1>5 DEF Written, WrittenEntered
      <4> QED BY <1>1, <1>3, <1>4, <1>8, <3>2, <4>1
    <3> QED BY <1>4, <3>1, <3>2
  <2>2. ASSUME NEW n \in 1..Len(lines'), IsRequest(n)', lines'[n].by > at - 1
        PROVE  \/ \E m \in 1..Len(lines') : IsResponse(m)' /\ lines'[m].by = lines'[n].by
               \/ plain.panicked /\ Before(lines'[n].by, "recover")
    <3>1. n \in 1..Len(lines) /\ IsRequest(n) /\ lines[n].by > at - 1 /\ lines'[n].by = lines[n].by
      BY <1>4, <1>8, <1>9, <2>2
    <3>2. CASE lines[n].by = at
      BY <1>3, <1>4, <1>9, <3>1, <3>2
    <3>3. CASE lines[n].by > at
      <4>1. \/ \E m \in 1..Len(lines) : IsResponse(m) /\ lines[m].by = lines[n].by
            \/ plain.panicked /\ Before(lines[n].by, "recover")
        BY <1>1, <3>1, <3>3 DEF Written, WrittenUp
      <4> QED BY <1>4, <1>8, <3>1, <4>1
    <3> QED BY <1>1, <3>1, <3>2, <3>3, LineFacts
  <2>3. ASSUME NEW n \in 1..Len(lines'), NEW m \in 1..Len(lines'), IsResponse(n)', IsResponse(m)',
               m # n
        PROVE  \/ (lines'[m].by < lines'[n].by /\ n < m)
               \/ (lines'[n].by < lines'[m].by /\ m < n)
    <3>1. CASE n \in 1..Len(lines) /\ m \in 1..Len(lines)
      BY <1>1, <1>4, <1>8, <2>3, <3>1 DEF Written, WrittenUp
    <3>2. CASE n = last /\ m \in 1..Len(lines)
      BY <1>1, <1>3, <1>4, <1>8, <2>3, <3>2, LineFacts
    <3>3. CASE m = last /\ n \in 1..Len(lines)
      BY <1>1, <1>3, <1>4, <1>8, <2>3, <3>3, LineFacts
    <3> QED BY <1>4, <2>3, <3>1, <3>2, <3>3
  <2>4. \A i, layer : Before(i, layer)' <=> Before(i, layer)
    BY <1>1, SameChain
  <2> QED BY <1>1, <2>1, <2>2, <2>3, <2>4 DEF WrittenUp
<1>11. Telling'
  <2>1. ASSUME NEW k \in Log, k.what = "response" PROVE Tells(k)'
    <3>1. Tells(k)
      BY <1>1, <2>1 DEF Written, Telling
    <3> HIDE DEF r
    <3> QED BY <1>1, <1>2, <3>1, TellsStay
  <2>2. Tells(l)'
    <3>1. ~(Logs /\ Streamed(r))
      <4>1. SUFFICES ASSUME Logs PROVE ~Streamed(r)
        OBVIOUS
      <4>2. CASE err = NoError
        BY <1>1, <1>2, <4>1, <4>2 DEF ReadsBody, Records
      <4>3. CASE err # NoError /\ HandlerFails
        <5>1. ~Streamed(resp)
          BY <1>1, <4>3 DEF ReadsBody, Records
        <5> QED BY <4>3, <5>1 DEF Answered, SendStatus, Streamed, Body, Types, ReplyType
      <4>4. CASE err # NoError /\ ~HandlerFails
        <5>1. handler \in {"default", "kit"} /\ resp \in ReplyType
          BY <4>4 DEF HandlerFails, Types
        <5> QED BY <4>4, <5>1
            DEF Answered, ErrorHandler, Error, Streamed, Body, ReplyType, HandlerFails
      <4> QED BY <4>2, <4>3, <4>4
    <3> HIDE DEF r
    <3> QED BY <1>1, <1>3, <3>1 DEF Tells, Logs, Streamed
  <2> QED BY <1>1, <1>4, <2>1, <2>2 DEF Telling
<1> QED BY <1>5, <1>6, <1>7, <1>10, <1>11 DEF Written

-----------------------------------------------------------------------------
(***************************************************************************)
(* The lines, step by step.                                                *)
(***************************************************************************)
LEMMA ArriveLines ==
    ASSUME Types, NEW path, NEW headers, Arrive(path, headers)
    PROVE  Stamps' /\ Written'
<1>1. lines' = <<>> /\ Len(lines') = 0 /\ mode' = "down" /\ at' = 0 /\ chain' = chain
  BY DEF Arrive
<1>2. Log' = {}
  BY <1>1 DEF Log
<1>3. \A i \in RecordLayers' : ~(i =< 0)
  BY <1>1, SameChain, LineFacts
<1>4. WrittenEntered'
  BY <1>1, <1>3 DEF WrittenEntered
<1>5. WrittenByRecords' /\ WrittenDown' /\ WrittenByPassed' /\ WrittenUp' /\ Telling'
  BY <1>1, <1>2 DEF WrittenByRecords, WrittenDown, WrittenByPassed, WrittenUp, Telling
<1> QED BY <1>1, <1>2, <1>4, <1>5 DEF Stamps, Written

LEMMA DownLines ==
    ASSUME Types, Stages, Written,
           \/ EnterRecord \/ EnterCorrelationID \/ EnterCaller \/ EnterIdempotencyKey \/ EnterOther
    PROVE  Written'
<1>1. CASE EnterRecord /\ ~Skips
  BY <1>1, EnterRecordWritten
<1>2. CASE ~(EnterRecord /\ ~Skips)
  <2>1. /\ mode = "down" /\ mode' = "down" /\ chain' = chain /\ req' = req /\ at' = at + 1
        /\ lines' = lines
    BY <1>2 DEF EnterRecord, EnterCorrelationID, EnterCaller, EnterIdempotencyKey, EnterOther,
                Enters, app
  <2>2. Layer(at + 1) # "Record" \/ Skips
    BY <1>2 DEF EnterRecord, EnterCorrelationID, EnterCaller, EnterIdempotencyKey, EnterOther, Enters
  <2> QED BY <2>1, <2>2, DownWritten
<1> QED BY <1>1, <1>2

LEMMA HandlerLines ==
    ASSUME Types, Stages, Written, CallHandler \/ Handler
    PROVE  Written'
<1>1. CASE FailLate
  <2>1. /\ mode = "up" /\ mode' = "up" /\ chain' = chain /\ req' = req /\ lines' = lines
        /\ at > 0 /\ at' = at - 1 /\ Layer(at) # "Record"
    BY <1>1 DEF FailLate, Up, app
  <2>2. plain'.panicked = plain.panicked /\ plain'.late = plain.late \cup {at}
    BY <1>1 DEF FailLate, Types, HistoryType
  <2>3. ASSUME NEW l \in Log, l.by > at PROVE Tells(l)'
    <3>1. l.by \in Nat /\ at \in Nat
      BY LineFacts DEF Log
    <3>2. ~(at > l.by)
      BY <2>3, <3>1
    <3> QED BY <2>2, <3>2 DEF Tells
  <2> QED BY <2>1, <2>2, <2>3, BackWritten
<1>2. CASE ~FailLate
  <2>1. /\ mode \in {"down", "handler"} /\ mode' \in {"handler", "up", "panic"}
        /\ chain' = chain /\ req' = req /\ lines' = lines /\ at' = at
    BY <1>2 DEF CallHandler, Handler, Refuse, Enters, HandlerReplies, HandlerStarts, HandlerPanics,
                HandlerReturns, Replies, app
  <2> QED BY <2>1, TurnWritten
<1> QED BY <1>1, <1>2

LEMMA UpLines ==
    ASSUME Types, Stages, Written,
           \/ ReadStream \/ LeaveRecord \/ LeaveGuard \/ LeaveOther \/ Unwind \/ Finish
           \/ SendChunk \/ Sent \/ Produce
    PROVE  Written'
<1>1. CASE Unwind
  BY <1>1, UnwindWritten
<1>2. CASE LeaveRecord /\ ~Skips
  BY <1>2, LeaveRecordWritten
<1>3. CASE (LeaveRecord /\ Skips) \/ LeaveGuard \/ LeaveOther
  <2>1. /\ mode = "up" /\ mode' = "up" /\ chain' = chain /\ req' = req /\ lines' = lines
        /\ at > 0 /\ at' = at - 1
    BY <1>3 DEF LeaveRecord, LeaveGuard, LeaveOther, Up, app
  <2>2. Layer(at) # "Record" \/ Skips
    BY <1>3 DEF LeaveRecord, LeaveGuard, LeaveOther, Up
  <2>3. plain'.panicked = plain.panicked /\ plain'.late = plain.late
    BY <1>3 DEF LeaveRecord, LeaveGuard, LeaveOther, Types, HistoryType
  <2>4. err = NoError => err' = NoError /\ resp' = resp
    BY <1>3 DEF LeaveRecord, LeaveGuard, LeaveOther, Guarded
  <2>5. \A l \in Log : Tells(l) => Tells(l)'
    BY <2>1, <2>3, <2>4, TellsStay
  <2> QED BY <2>1, <2>2, <2>3, <2>5, BackWritten
<1>4. CASE ReadStream \/ Finish \/ SendChunk \/ Sent \/ Produce
  <2>1. /\ chain' = chain /\ req' = req /\ lines' = lines /\ at' = at
        /\ mode' = mode \/ (mode = "up" /\ mode' = "sending") \/ mode' = "idle"
    BY <1>4 DEF ReadStream, Finish, SendChunk, Sent, Produce, app
  <2>2. plain'.panicked = plain.panicked /\ plain'.late = plain.late
    BY <1>4 DEF ReadStream, Finish, SendChunk, Sent, Produce, Types, HistoryType
  <2>3. (err = NoError /\ ~(Logs /\ Streamed(resp))) => err' = NoError /\ resp' = resp
    BY <1>4 DEF ReadStream, ReadsBody, Finish, FiberAnswered, SendChunk, Sent, Produce
  <2>4. \A l \in Log : Tells(l) => Tells(l)'
    BY <2>1, <2>2, <2>3, TellsStay
  <2> QED BY <2>1, <2>2, <2>4, StillWritten
<1> QED BY <1>1, <1>2, <1>3, <1>4

-----------------------------------------------------------------------------
(***************************************************************************)
(* The app and the app without Record.                                     *)
(***************************************************************************)
LEMMA SameReply ==
    ASSUME handler' = handler, plain'.resp = plain.resp, plain'.err = plain.err
    PROVE  FiberReply' = FiberReply
BY DEF FiberReply, FiberAnswered, ErrorHandler, HandlerFails, SendStatus, Error

LEMMA MeddledStays ==
    ASSUME chain' = chain, plain.late \subseteq plain'.late
    PROVE  Meddled => Meddled'
BY SameChain DEF Meddled, MeddledOutside

LEMMA Bodies ==
    /\ BrokenStream.form = "text" /\ Body("data", "stream").form = "data"
    /\ Empty.form = "empty"
BY DEF BrokenStream, Body, Empty

\* Reading the stream changes nothing of what is answered.
LEMMA ReadReply ==
    ASSUME Types, JustRead, FiberAnswered(resp, err).body # BrokenStream
    PROVE  Content(FiberAnswered(resp, err)) = Content(FiberReply)
<1>1. PICK r \in ReplyType, p \in ReplyType, e \in AllErrors :
        /\ resp = r /\ plain.resp = p /\ err = e /\ plain.err = e
        /\ Streamed(p) /\ r.status = p.status /\ r.cid = p.cid
        /\ r.body \in {BrokenStream, Body("data", "stream")}
  BY DEF JustRead, Types, HistoryType
<1>2. FiberAnswered(r, e).body # BrokenStream
  BY <1>1
<1>3. ~Streamed(r)
  BY <1>1, Bodies DEF Streamed
<1>4. SUFFICES Content(FiberAnswered(r, e)) = Content(FiberAnswered(p, e))
  BY <1>1 DEF FiberReply
<1>5. CASE e = NoError
  <2>1. r.body = Body("data", "stream")
    BY <1>1, <1>2, <1>5 DEF FiberAnswered
  <2>2. [p EXCEPT !.body = Body("data", "stream")] = r
    BY <1>1, <2>1 DEF ReplyType
  <2> QED BY <1>1, <1>3, <1>5, <2>2 DEF FiberAnswered, Content
<1>6. CASE e # NoError /\ HandlerFails
  <2>1. r.body # Empty /\ p.body # Empty
    BY <1>1, Bodies DEF Streamed
  <2>2. /\ FiberAnswered(r, e) = [r EXCEPT !.status = 500, !.body = r.body]
        /\ FiberAnswered(p, e) = [p EXCEPT !.status = 500, !.body = p.body]
    BY <1>6, <2>1 DEF FiberAnswered, SendStatus
  <2>3. r.body = Body("data", "stream")
    BY <1>1, <1>2, <2>2 DEF ReplyType
  <2>4. /\ ~Streamed(FiberAnswered(r, e)) /\ Streamed(FiberAnswered(p, e))
    BY <1>1, <1>3, <2>2 DEF Streamed, ReplyType
  <2>5. [FiberAnswered(p, e) EXCEPT !.body = Body("data", "stream")] = FiberAnswered(r, e)
    <3> DEFINE with(x, s, b) == [x EXCEPT !.status = s, !.body = b]
    <3>1. \A s, b : with(r, s, b) = with(p, s, b)
      BY <1>1 DEF ReplyType
    <3>2. \A s, b, c : [with(p, s, b) EXCEPT !.body = c] = with(p, s, c)
      BY <1>1 DEF ReplyType
    <3>3. FiberAnswered(r, e) = with(r, 500, Body("data", "stream"))
      BY <2>2, <2>3
    <3>4. FiberAnswered(p, e) = with(p, 500, p.body)
      BY <2>2
    <3> HIDE DEF with
    <3> QED BY <3>1, <3>2, <3>3, <3>4
  <2> QED BY <2>4, <2>5 DEF Content
<1>7. CASE e # NoError /\ ~HandlerFails
  <2>1. handler \in {"default", "kit"}
    BY <1>7 DEF HandlerFails, Types
  <2>2. \A s, b : [r EXCEPT !.status = s, !.body = b] = [p EXCEPT !.status = s, !.body = b]
    BY <1>1 DEF ReplyType
  <2>3. FiberAnswered(r, e) = FiberAnswered(p, e)
    BY <1>7, <2>1, <2>2, ZenonT(40) DEF FiberAnswered, ErrorHandler, Error
  <2> QED BY <2>3
<1> QED BY <1>5, <1>6, <1>7

LEMMA DownMatched ==
    ASSUME Types, Stages, Matched,
           \/ EnterRecord \/ EnterCorrelationID \/ EnterCaller \/ EnterIdempotencyKey \/ EnterOther
           \/ CallHandler \/ Refuse \/ HandlerReplies \/ HandlerStarts \/ HandlerPanics
           \/ Unwind \/ \E e \in Errors \cup {NoError} : HandlerReturns(e)
    PROVE  Matched'
<1>1. mode \in {"down", "handler", "panic"}
  BY DEF EnterRecord, EnterCorrelationID, EnterCaller, EnterIdempotencyKey, EnterOther, Enters,
         CallHandler, Refuse, HandlerReplies, HandlerStarts, HandlerPanics, Unwind, HandlerReturns,
         Replies
<1>2. mode' # "sending"
  BY DEF EnterRecord, EnterCorrelationID, EnterCaller, EnterIdempotencyKey, EnterOther, Enters,
         CallHandler, Refuse, HandlerReplies, HandlerStarts, HandlerPanics, Unwind, HandlerReturns,
         Replies
<1>3. err = plain.err /\ resp = plain.resp
  BY <1>1 DEF Matched, AllAgree
<1>4. resp' = plain'.resp
  <2>1. CASE EnterCorrelationID
    BY <1>3, <2>1 DEF EnterCorrelationID, Types, HistoryType
  <2>2. CASE HandlerReplies
    <3>1. PICK r : Replies(r)
      BY <2>2 DEF HandlerReplies
    <3> QED BY <3>1 DEF Replies, Types, HistoryType
  <2>3. CASE ~(EnterCorrelationID \/ HandlerReplies)
    BY <1>3, <2>3 DEF EnterRecord, EnterCaller, EnterIdempotencyKey, EnterOther, CallHandler, Refuse,
       HandlerStarts, HandlerPanics, Unwind, HandlerReturns, Types, HistoryType
  <2> QED BY <2>1, <2>2, <2>3
<1>5. err' = plain'.err
  <2>1. CASE HandlerReplies
    <3>1. PICK r : Replies(r)
      BY <2>1 DEF HandlerReplies
    <3> QED BY <1>3, <3>1 DEF Replies, Types, HistoryType
  <2>2. CASE ~HandlerReplies
    BY <1>3, <2>2 DEF EnterRecord, EnterCorrelationID, EnterCaller, EnterIdempotencyKey, EnterOther,
       CallHandler, Refuse, HandlerStarts, HandlerPanics, Unwind, HandlerReturns, Types, HistoryType
  <2> QED BY <2>1, <2>2
<1>6. AllAgree'
  BY <1>4, <1>5 DEF AllAgree
<1> QED BY <1>2, <1>6 DEF Matched

LEMMA UpMatched ==
    ASSUME Types, Stages, Matched,
           ReadStream \/ LeaveRecord \/ LeaveGuard \/ LeaveOther \/ FailLate
    PROVE  Matched'
<1>0. /\ mode = "up" /\ mode' = "up" /\ chain' = chain /\ handler' = handler /\ req' = req
      /\ at \in Nat /\ Len(chain) \in Nat /\ at =< Len(chain)
      /\ resp \in ReplyType /\ plain.resp \in ReplyType /\ plain \in HistoryType
  BY DEF ReadStream, ReadsBody, LeaveRecord, LeaveGuard, LeaveOther, FailLate, Up, app, Types,
         HistoryType
<1>1. plain.late \subseteq plain'.late
  BY DEF ReadStream, LeaveRecord, LeaveGuard, LeaveOther, FailLate, Types, HistoryType
<1>2. RecordLayers' = RecordLayers
  BY <1>0, SameChain
<1>3. SUFFICES ASSUME ~Meddled, ~Meddled' PROVE AllAgree' \/ JustRead' \/ AnsweredFor'
  BY <1>0, <1>1, MeddledStays DEF Matched
<1>4. AllAgree \/ JustRead \/ AnsweredFor
  BY <1>0, <1>3 DEF Matched
<1>5. CASE ReadStream
  <2>1. /\ plain' = plain /\ err' = err /\ at' = at /\ Streamed(resp) /\ resp' = Drained(resp)
        /\ (err = NoError => Records) /\ (at = 0 \/ Records)
    BY <1>5 DEF ReadStream, ReadsBody
  <2>2. resp' = [resp EXCEPT !.body = resp'.body] /\ resp'.body \in {BrokenStream, Body("data", "stream")}
    BY <1>0, <2>1 DEF Drained, ReplyType
  <2>3. CASE AllAgree
    <3>1. Records' <=> Records
      BY <1>0, <2>1 DEF Records, Layer, Skips
    <3>2. resp'.status = resp.status /\ resp'.cid = resp.cid
      BY <1>0, <2>2 DEF ReplyType
    <3> QED BY <2>1, <2>2, <2>3, <3>1, <3>2 DEF AllAgree, JustRead
  <2>4. CASE JustRead
    BY <2>1, <2>4, Bodies DEF JustRead, Streamed
  <2>5. CASE AnsweredFor
    <3>1. FiberReply' = FiberReply
      BY <1>0, <2>1, SameReply
    <3>2. Content(resp) = Content(FiberReply)
      BY <2>1, <2>5, Bodies DEF AnsweredFor, Streamed
    <3>3. resp'.body # BrokenStream => resp' = Content(resp) /\ ~Streamed(resp')
      BY <2>1, <2>2 DEF Content, Streamed, Body
    <3>4. resp'.body # BrokenStream => Content(resp') = Content(FiberReply)
      BY <3>2, <3>3 DEF Content
    <3> QED BY <1>2, <2>1, <2>5, <3>1, <3>4 DEF AnsweredFor
  <2> QED BY <1>4, <2>3, <2>4, <2>5
<1>6. CASE LeaveRecord
  <2>1. /\ plain' = plain /\ at > 0 /\ at' = at - 1 /\ Layer(at) = "Record" /\ at \in RecordLayers
    BY <1>0, <1>6 DEF LeaveRecord, Up, RecordLayers, Layer
  <2>2. FiberReply' = FiberReply
    BY <1>0, <2>1, SameReply
  <2>3. CASE Skips
    <3>1. err' = err /\ resp' = resp /\ ~JustRead
      BY <1>6, <2>1, <2>3 DEF LeaveRecord, JustRead, Records
    <3>2. AllAgree => AllAgree'
      BY <2>1, <3>1 DEF AllAgree
    <3>3. AnsweredFor => AnsweredFor'
      <4>1. \A i \in RecordLayers : i > at => i > at - 1
        BY LineFacts
      <4> QED BY <1>2, <2>1, <2>2, <3>1, <4>1 DEF AnsweredFor
    <3> QED BY <1>4, <3>1, <3>2, <3>3
  <2>4. CASE ~Skips
    <3>1. resp' = FiberAnswered(resp, err) /\ err' = NoError
      <4>1. Answered(resp, err) = FiberAnswered(resp, err)
        BY DEF Answered, FiberAnswered
      <4> QED BY <1>6, <2>4, <4>1 DEF LeaveRecord
    <3>2. resp'.body # BrokenStream => Content(resp') = Content(FiberReply)
      <4>1. CASE AllAgree
        BY <3>1, <4>1 DEF AllAgree, FiberReply
      <4>2. CASE JustRead
        BY <3>1, <4>2, ReadReply
      <4>3. CASE AnsweredFor
        BY <3>1, <4>3 DEF AnsweredFor, FiberAnswered
      <4> QED BY <1>4, <4>1, <4>2, <4>3
    <3>3. \E i \in RecordLayers : i > at - 1
      BY <1>0, <2>1
    <3> QED BY <1>2, <2>1, <2>2, <3>1, <3>2, <3>3 DEF AnsweredFor
  <2> QED BY <2>3, <2>4
<1>7. CASE LeaveGuard \/ LeaveOther \/ FailLate
  <2>1. /\ at > 0 /\ at' = at - 1 /\ Layer(at) # "Record" /\ at # 0 /\ ~JustRead
    BY <1>0, <1>7 DEF LeaveGuard, LeaveOther, FailLate, Up, JustRead, Records
  <2>2. CASE LeaveGuard
    <3>1. ~AnsweredFor
      <4>1. ASSUME NEW i \in RecordLayers, i > at PROVE FALSE
        <5>1. i \in Nat /\ at \in 1..(i - 1) /\ Layer(at) = "Guard"
          BY <1>0, <2>1, <2>2, <4>1, LineFacts DEF LeaveGuard, Up
        <5> QED BY <1>3, <5>1 DEF Meddled, MeddledOutside, Before
      <4> QED BY <4>1 DEF AnsweredFor
    <3>2. AllAgree
      BY <1>4, <2>1, <3>1
    <3> QED BY <1>0, <2>2, <3>2 DEF AllAgree, LeaveGuard, HistoryType, Guarded, Error
  <2>3. CASE FailLate
    <3>1. /\ err = NoError /\ err' = Late /\ resp' = resp /\ plain'.late = plain.late \cup {at}
          /\ plain'.resp = plain.resp /\ (plain.err = NoError => plain'.err = Late)
      BY <1>0, <2>3 DEF FailLate, HistoryType
    <3>2. ~AnsweredFor
      <4>1. ASSUME NEW i \in RecordLayers, i > at PROVE FALSE
        <5>1. at < i
          BY <1>0, <4>1, LineFacts
        <5>2. MeddledOutside(i)'
          BY <3>1, <5>1 DEF MeddledOutside
        <5> QED BY <1>2, <1>3, <5>2 DEF Meddled
      <4> QED BY <4>1 DEF AnsweredFor
    <3> QED BY <1>4, <2>1, <3>1, <3>2 DEF AllAgree
  <2>4. CASE LeaveOther
    <3>1. plain' = plain /\ err' = err /\ resp' = resp
      BY <2>4 DEF LeaveOther
    <3>2. AllAgree => AllAgree'
      BY <3>1 DEF AllAgree
    <3>3. AnsweredFor => AnsweredFor'
      <4>1. FiberReply' = FiberReply
        BY <1>0, <3>1, SameReply
      <4>2. \A i \in RecordLayers : i > at => i > at - 1
        BY LineFacts
      <4> QED BY <1>2, <2>1, <3>1, <4>1, <4>2 DEF AnsweredFor
    <3> QED BY <1>4, <2>1, <3>2, <3>3
  <2> QED BY <1>7, <2>2, <2>3, <2>4
<1> QED BY <1>5, <1>6, <1>7

LEMMA EndMatched ==
    ASSUME Types, Stages, Matched, Finish \/ SendChunk \/ Sent \/ Produce
    PROVE  Matched'
<1>1. CASE Finish
  <2>1. /\ mode = "up" /\ mode' = "sending" /\ chain' = chain /\ plain \in HistoryType
        /\ resp' = FiberAnswered(resp, err)
    BY <1>1 DEF Finish, app, Types
  <2>2. plain'.resp = FiberReply /\ plain'.late = plain.late
    BY <1>1, <2>1 DEF Finish, FiberReply, HistoryType
  <2>3. Meddled => Meddled'
    BY <2>1, <2>2, MeddledStays
  <2>4. (~Meddled /\ resp'.body # BrokenStream) => Content(resp') = Content(plain'.resp)
    <3>1. CASE AllAgree
      BY <2>1, <2>2, <3>1 DEF AllAgree, FiberReply
    <3>2. CASE JustRead
      BY <2>1, <2>2, <3>2, ReadReply
    <3>3. CASE AnsweredFor
      BY <2>1, <2>2, <3>3 DEF AnsweredFor, FiberAnswered
    <3> QED BY <2>1, <3>1, <3>2, <3>3 DEF Matched
  <2> QED BY <2>1, <2>3, <2>4 DEF Matched
<1>2. CASE SendChunk \/ Sent \/ Produce
  <2>1. /\ chain' = chain /\ handler' = handler /\ req' = req /\ at' = at /\ err' = err
        /\ resp' = resp /\ plain' = plain /\ (mode' = mode \/ mode' = "idle")
    BY <1>2 DEF SendChunk, Sent, Produce, app
  <2>2. Meddled => Meddled'
    BY <2>1, MeddledStays
  <2>3. /\ RecordLayers' = RecordLayers /\ FiberReply' = FiberReply
        /\ (Records' <=> Records)
    BY <2>1, SameChain, SameReply DEF Records, Layer, Skips
  <2>4. (AllAgree => AllAgree') /\ (JustRead => JustRead') /\ (AnsweredFor => AnsweredFor')
    BY <2>1, <2>3 DEF AllAgree, JustRead, AnsweredFor
  <2> QED BY <2>1, <2>2, <2>4 DEF Matched
<1> QED BY <1>1, <1>2

LEMMA ArriveMatched ==
    ASSUME NEW path, NEW headers, Arrive(path, headers)
    PROVE  Matched'
BY DEF Arrive, Matched, AllAgree, NoHistory

-----------------------------------------------------------------------------
(***************************************************************************)
(* The whole invariant, step by step.                                      *)
(***************************************************************************)
LEMMA InitInvariant == Init => IInv
<1> SUFFICES ASSUME Init PROVE IInv
  OBVIOUS
<1>1. Types /\ Stages
  BY InitBase
<1>2. Values
  BY DEF Init, Values, Passed, Before, Fresh, NoLocals, NoHistory
<1>3. Kept
  BY DEF Init, Kept
<1>4. Stamps
  BY DEF Init, Stamps, Log
<1>5. Written
  BY DEF Init, Written, WrittenByRecords, WrittenDown, WrittenByPassed, WrittenEntered, WrittenUp,
         Telling, Log
<1>6. Matched
  BY DEF Init, Matched
<1> QED BY <1>1, <1>2, <1>3, <1>4, <1>5, <1>6 DEF IInv

LEMMA ArriveInvariant ==
    ASSUME IInv, NEW path \in Paths, NEW headers \in HeaderSets, Arrive(path, headers)
    PROVE  IInv'
<1> USE DEF IInv
<1>1. Types' /\ Stages'
  BY ArriveBase
<1>2. Kept'
  <2>1. chain' = chain /\ tasks' = tasks /\ req'.number = req.number + 1
    BY DEF Arrive
  <2> QED BY <2>1, OthersKeep
<1> QED BY <1>1, <1>2, ArriveValues, ArriveLines, ArriveMatched

LEMMA DownInvariant ==
    ASSUME IInv,
           \/ EnterRecord \/ EnterCorrelationID \/ EnterCaller \/ EnterIdempotencyKey \/ EnterOther
    PROVE  IInv'
<1> USE DEF IInv
<1>1. Types' /\ Stages'
  BY DownBase
<1>2. Values'
  BY EnterStores, OtherValues
<1>3. Kept'
  <2>1. chain' = chain /\ tasks' = tasks /\ req' = req
    BY DEF EnterRecord, EnterCorrelationID, EnterCaller, EnterIdempotencyKey, EnterOther, app, ctxs
  <2> QED BY <2>1, OthersKeep
<1>4. Stamps'
  BY EnterRecordStamps, OtherStamps DEF Written
<1>5. Written'
  BY DownLines
<1>6. Matched'
  BY DownMatched
<1> QED BY <1>1, <1>2, <1>3, <1>4, <1>5, <1>6

LEMMA HandlerInvariant ==
    ASSUME IInv, CallHandler \/ Handler
    PROVE  IInv'
<1> USE DEF IInv
<1>1. Types' /\ Stages'
  BY HandlerBase
<1>2. Values'
  BY CallValues, OtherValues
<1>3. Kept'
  <2>1. CASE HandlerStarts
    BY <2>1, StartsKept
  <2>2. CASE ~HandlerStarts
    <3>1. chain' = chain /\ tasks' = tasks /\ req' = req
      BY <2>2 DEF CallHandler, Handler, Refuse, HandlerReplies, HandlerPanics, FailLate,
                  HandlerReturns, Replies, app, ctxs
    <3> QED BY <3>1, OthersKeep
  <2> QED BY <2>1, <2>2
<1>4. Stamps'
  BY OtherStamps DEF Written
<1>5. Written'
  BY HandlerLines
<1>6. Matched'
  BY DownMatched, UpMatched DEF Handler
<1> QED BY <1>1, <1>2, <1>3, <1>4, <1>5, <1>6

LEMMA UpInvariant ==
    ASSUME IInv,
           \/ ReadStream \/ LeaveRecord \/ LeaveGuard \/ LeaveOther \/ Unwind \/ Finish
           \/ SendChunk \/ Sent \/ Produce
    PROVE  IInv'
<1> USE DEF IInv
<1>1. Types' /\ Stages'
  BY UpBase
<1>2. Values'
  BY OtherValues
<1>3. Kept'
  <2>1. chain' = chain /\ tasks' = tasks /\ req' = req
    BY DEF ReadStream, LeaveRecord, LeaveGuard, LeaveOther, Unwind, Finish, SendChunk, Sent, Produce,
           app, ctxs
  <2> QED BY <2>1, OthersKeep
<1>4. Stamps'
  BY LeaveRecordStamps, OtherStamps DEF Written
<1>5. Written'
  BY UpLines
<1>6. Matched'
  BY DownMatched, UpMatched, EndMatched
<1> QED BY <1>1, <1>2, <1>3, <1>4, <1>5, <1>6

LEMMA IdleInvariant == ASSUME IInv, UNCHANGED vars PROVE IInv'
<1>1. /\ chain' = chain /\ handler' = handler /\ req' = req /\ mode' = mode /\ at' = at
      /\ err' = err /\ resp' = resp /\ locals' = locals /\ userctx' = userctx /\ lines' = lines
      /\ tasks' = tasks /\ plain' = plain
  BY DEF vars
<1>2. Types' /\ Stages'
  BY <1>1 DEF IInv, Types, Stages
<1>3. Values'
  <2>1. \A layer : Passed(layer)' <=> Passed(layer)
    BY <1>1 DEF Passed, Before, Layer
  <2> QED BY <1>1, <2>1, ValuesStay DEF IInv
<1>4. Kept'
  BY <1>1, OthersKeep DEF IInv
<1>5. Stamps'
  BY <1>1, SameLines DEF IInv, Written
<1>6. Written'
  <2>1. \A l : Tells(l) => Tells(l)'
    BY <1>1, TellsStay
  <2> QED BY <1>1, <2>1, StillWritten DEF IInv
<1>7. Matched'
  <2>1. Meddled => Meddled'
    BY <1>1, MeddledStays
  <2>2. /\ RecordLayers' = RecordLayers /\ FiberReply' = FiberReply
        /\ (Records' <=> Records)
    BY <1>1, SameChain, SameReply DEF Records, Layer, Skips
  <2>3. (AllAgree => AllAgree') /\ (JustRead => JustRead') /\ (AnsweredFor => AnsweredFor')
    BY <1>1, <2>2 DEF AllAgree, JustRead, AnsweredFor
  <2> QED BY <1>1, <2>1, <2>3 DEF IInv, Matched
<1> QED BY <1>2, <1>3, <1>4, <1>5, <1>6, <1>7 DEF IInv

LEMMA NextInvariant == IInv /\ [Next]_vars => IInv'
<1> SUFFICES ASSUME IInv, [Next]_vars PROVE IInv'
  OBVIOUS
<1>1. CASE \E path \in Paths, headers \in HeaderSets : Arrive(path, headers)
  BY <1>1, ArriveInvariant
<1>2. CASE Serve
  BY <1>2, DownInvariant, HandlerInvariant, UpInvariant DEF Serve
<1>3. CASE Handler
  BY <1>3, HandlerInvariant
<1>4. CASE Produce
  BY <1>4, UpInvariant
<1>5. CASE UNCHANGED vars
  BY <1>5, IdleInvariant
<1> QED BY <1>1, <1>2, <1>3, <1>4, <1>5 DEF Next

-----------------------------------------------------------------------------
(***************************************************************************)
(* What follows for the properties.                                        *)
(***************************************************************************)

\* In every app, what was stored, kept, stamped, written and answered agrees with
\* how far the request has come.
THEOREM Invariance == Spec => []IInv
<1> QED BY InitInvariant, NextInvariant, PTL DEF Spec

\* For every chain, error handler and error: the client gets what it would without
\* Record, but for a service's layer outside it and a stream that broke.
THEOREM RecordIsTransparent == Spec => []Transparent
<1>1. IInv => Transparent
  <2> SUFFICES ASSUME IInv, mode = "sending", resp.body # BrokenStream,
                      \A i \in RecordLayers : ~MeddledOutside(i)
               PROVE  Content(resp) = Content(plain.resp)
    BY DEF Transparent
  <2> QED BY DEF IInv, Matched, Meddled
<1> QED BY <1>1, Invariance, PTL

\* For every chain: a Record that saw the request has one line that says what the
\* client gets, inner ones first, unless a panic passed it.
THEOREM LinesAreTrue == Spec => []LinesTell
<1>1. IInv => LinesTell
  <2> SUFFICES ASSUME IInv, mode = "sending", NEW i \in RecordLayers
               PROVE  /\ Cardinality(Responses(i)) =< 1
                      /\ (Entered(i) /\ Responses(i) = {}) => plain.panicked /\ Before(i, "recover")
                      /\ \A n \in Responses(i) :
                           /\ Entered(i)
                           /\ (\A j \in plain.late : j > i) =>
                                /\ lines[n].status = resp.status
                                /\ lines[n].body = IF Logs THEN resp.body ELSE Empty
                           /\ \A m \in DOMAIN lines :
                                (lines[m].what = "response" /\ lines[m].by < i) => m > n
    BY DEF LinesTell
  <2>1. /\ DOMAIN lines = 1..Len(lines) /\ at = 0 /\ i \in Nat /\ i >= 1 /\ Len(lines) \in Nat
    BY LineFacts DEF IInv, Types, Stages
  <2>2. \A n \in Responses(i) : n \in 1..Len(lines) /\ IsResponse(n) /\ lines[n].by = i
    BY <2>1 DEF Responses, IsResponse
  <2>3. \A n, m \in 1..Len(lines) : (IsResponse(n) /\ IsResponse(m) /\ m # n) =>
             \/ (lines[m].by < lines[n].by /\ n < m)
             \/ (lines[n].by < lines[m].by /\ m < n)
    BY DEF IInv, Written, WrittenUp
  <2>4. \A n \in 1..Len(lines) : lines[n].by \in Nat
    BY LineFacts DEF IInv
  <2>5. Cardinality(Responses(i)) =< 1
    <3>1. \A n, m \in Responses(i) : n = m
      BY <2>1, <2>2, <2>3
    <3>2. CASE Responses(i) = {}
      BY <3>2, FS_EmptySet
    <3>3. CASE Responses(i) # {}
      <4>1. PICK n : Responses(i) = {n}
        BY <3>1, <3>3
      <4>2. Cardinality(Responses(i)) = 1
        BY <4>1, FS_Singleton, ZenonT(30)
      <4> QED BY <4>2
    <3> QED BY <3>2, <3>3
  <2>6. (Entered(i) /\ Responses(i) = {}) => plain.panicked /\ Before(i, "recover")
    <3>1. SUFFICES ASSUME Entered(i), Responses(i) = {} PROVE plain.panicked /\ Before(i, "recover")
      OBVIOUS
    <3>2. PICK n \in 1..Len(lines) : IsRequest(n) /\ lines[n].by = i
      BY <2>1, <3>1 DEF Entered, IsRequest
    <3>3. ~\E m \in 1..Len(lines) : IsResponse(m) /\ lines[m].by = lines[n].by
      BY <2>1, <3>1, <3>2 DEF Responses, IsResponse
    <3> QED BY <2>1, <3>2, <3>3 DEF IInv, Written, WrittenUp
  <2>7. ASSUME NEW n \in Responses(i)
        PROVE  /\ Entered(i)
               /\ (\A j \in plain.late : j > i) =>
                    /\ lines[n].status = resp.status
                    /\ lines[n].body = IF Logs THEN resp.body ELSE Empty
               /\ \A m \in DOMAIN lines :
                    (lines[m].what = "response" /\ lines[m].by < i) => m > n
    <3>1. n \in 1..Len(lines) /\ IsResponse(n) /\ lines[n].by = i
      BY <2>2
    <3>2. PICK k \in 1..Len(lines) : IsRequest(k) /\ lines[k].by = i
      BY <3>1 DEF IInv, Written, WrittenUp
    <3>3. Entered(i)
      BY <2>1, <3>2 DEF Entered, IsRequest
    <3>4. Tells(lines[n])
      BY <3>1 DEF IInv, Written, Telling, Log, IsResponse
    <3>5. ASSUME NEW m \in DOMAIN lines, lines[m].what = "response", lines[m].by < i PROVE m > n
      <4>1. m \in 1..Len(lines) /\ IsResponse(m) /\ m # n
        BY <2>1, <3>1, <3>5 DEF IsResponse
      <4>2. ~(lines[n].by < lines[m].by)
        BY <2>1, <2>4, <3>1, <3>5, <4>1
      <4> QED BY <2>3, <3>1, <4>1, <4>2
    <3> QED BY <3>1, <3>3, <3>4, <3>5 DEF Tells
  <2> QED BY <2>5, <2>6, <2>7
<1> QED BY <1>1, Invariance, PTL

\* For every order of the middleware: the id on a line is the one on the response,
\* and the caller the one of the request.
THEOREM LinesAreStamped == Spec => []Stamped
<1>1. IInv => Stamped
  <2> SUFFICES ASSUME IInv, mode = "sending", NEW n \in DOMAIN lines, NEW l, l = lines[n]
               PROVE  LET i == l.by
                          told == l.what = "response" \/ Before(i, "CorrelationID")
                          ran  == Before(i, "Caller") \/ (l.what = "response" /\ plain.handled)
                      IN /\ l.cid = IF told THEN resp.cid ELSE None
                         /\ (ran /\ Before(Len(chain) + 1, "Caller")) =>
                              l.caller = IF req.headers.caller = None THEN NoCaller
                                         ELSE [id     |-> req.headers.caller,
                                               client |-> req.headers.client]
    BY DEF Stamped
  <2>1. l \in Log /\ l.what \in {"request", "response"}
    BY LineFacts DEF Log, IInv, Types
  <2>2. StampRight(l)
    BY <2>1 DEF IInv, Stamps
  <2>3. CASE l.what = "request"
    BY <2>2, <2>3 DEF StampRight, RequestStamp, TheCaller
  <2>4. CASE l.what = "response"
    BY <2>2, <2>4 DEF StampRight, ResponseStamp, TheCaller, Installed
  <2> QED BY <2>1, <2>3, <2>4
<1> QED BY <1>1, Invariance, PTL

\* For every chain and however many requests follow: work that outlives a handler
\* finds its own request's values until the next request, its own id for good.
THEOREM ContextIsItsOwn == Spec => []ContextHolds
<1>1. IInv => ContextHolds
  <2> SUFFICES ASSUME IInv, NEW t \in tasks
               PROVE  LET installed(layer) == Before(Len(chain) + 1, layer)
                          current == t.number = req.number
                          sees(view, v) == view.value = v /\ Holds(view) IN
                      /\ (installed("CorrelationID") /\ (current \/ t.headers.cid = None)) =>
                           sees(t.ctx.cid, t.echoed)
                      /\ (installed("Caller") /\ current) =>
                           /\ sees(t.ctx.caller, t.headers.caller)
                           /\ sees(t.ctx.client,
                                   IF t.headers.caller = None THEN None ELSE t.headers.client)
                      /\ (installed("IdempotencyKey") /\ current) => sees(t.ctx.key, t.headers.key)
    BY DEF ContextHolds
  <2>1. KeptBy(t)
    BY DEF IInv, Kept
  <2>2. \A v : /\ Own(v).value = v /\ Holds(Own(v))
               /\ NoView.value = None /\ Holds(NoView)
               /\ ViewOf(t.number, v).value = v
               /\ t.number = req.number => Holds(ViewOf(t.number, v))
    BY DEF Own, Holds, NoView, ViewOf
  <2> QED BY <2>1, <2>2 DEF KeptBy, Installed
<1> QED BY <1>1, Invariance, PTL
==============================================================================
