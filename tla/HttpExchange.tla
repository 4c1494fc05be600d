----------------------------- MODULE HttpExchange -----------------------------
(***************************************************************************)
(* One request through httpx.Chain(h, ms...): the middleware of httpx on   *)
(* the way down, the application's handler, the way back up, and a panic   *)
(* on its way out.                                                         *)
(*                                                                         *)
(* The handler's calls reach net/http through the wrappers the middleware  *)
(* put around the ResponseWriter: Recover's commitWriter, Record's         *)
(* recorder.  Who may still answer the request, and what Record logs of    *)
(* the answer, is decided from what those wrappers believe they saw, never *)
(* from net/http itself: the properties relate the two.                    *)
(*                                                                         *)
(* Request and response bodies are byte counts, a header map is the two    *)
(* headers that matter here, a log line is the layer and what it reports.  *)
(***************************************************************************)
EXTENDS Integers, Sequences, NetHttp

CONSTANTS
    Chains,        \* the ms of Chain(h, ms...), outermost first
    Codes,         \* what handlers pass to WriteHeader, invalid codes included
    Lengths,       \* what handlers put in Content-Length
    Chunks,        \* the sizes of a handler's writes
    EnvelopeSize,  \* bytes of a marshalled envelope
    BodyLimit,     \* RecordConfig.MaxBodyBytes
    MaxOps         \* bound: calls a handler makes on its ResponseWriter

Kinds == {"Recover", "Record", "MaxBody", "CorrelationID", "IdempotencyKey"}

ASSUME ChainsAssumption  == Chains \subseteq Seq(Kinds)
ASSUME CodesAssumption   == Codes \subseteq Nat
ASSUME LengthsAssumption == Lengths \subseteq Nat
ASSUME ChunksAssumption  == Chunks \subseteq Nat
ASSUME SizesAssumption   == EnvelopeSize \in Nat \ {0} /\ BodyLimit \in Nat \ {0}
ASSUME OpsAssumption     == MaxOps \in Nat

VARIABLES
    chain,      \* the middleware of this server (never changes)
    supports,   \* what its writer can do beyond http.ResponseWriter (never changes)
    mode,       \* the control: down, run, up, panic; done and aborted are final
    at,         \* the layer that runs next, Len(chain) + 1 for the handler
    live,       \* layers whose wrapper is on the path of the handler's calls
    committed,  \* layers whose commitWriter.committed is set
    rec,        \* the recorder of each layer
    resp,       \* net/http's side of the response (see NetHttp)
    panicVal,   \* the value of the panic in flight, or of the last one
    log,        \* the lines servicekit logged, oldest first
    ops         \* calls the handler has made so far

config == <<chain, supports>>
path   == <<live, committed, rec>>
vars   == <<chain, supports, mode, at, live, committed, rec, resp, panicVal, log, ops>>

Layers == 1..Len(chain)
Modes  == {"down", "run", "up", "panic", "done", "aborted"}
Panics == {"error", "badcode", "abort"}
Lines  == [kind : {"in", "out", "panic"}, layer : Nat, status : Nat, body : Nat,
           value : Panics \cup {"none"}]

NewRecorder(logBody) ==
    [status |-> 200, captured |-> 0, capture |-> logBody, hijacked |-> FALSE,
     logBody |-> logBody]

Recorders ==
    [status : Nat, captured : Nat, capture : BOOLEAN, hijacked : BOOLEAN,
     logBody : BOOLEAN]

Init ==
    /\ chain \in Chains
    /\ supports \in SUBSET {"flush", "hijack"}
    /\ mode = "down" /\ at = 1
    /\ live = {} /\ committed = {}
    /\ rec = [i \in Layers |-> NewRecorder(FALSE)]
    /\ resp = NewResponse
    /\ panicVal = "none" /\ log = <<>> /\ ops = 0

-----------------------------------------------------------------------------
(***************************************************************************)
(* The wrappers.  A call made at depth d passes every wrapper of a layer   *)
(* at or above d before net/http sees it.                                  *)
(***************************************************************************)
Through(kind, d) == {i \in live : i =< d /\ chain[i] = kind}

\* commitWriter.WriteHeader and Write; FlushError and Hijack once they succeed.
MarkCommitted(d) == committed' = committed \cup Through("Recover", d)

\* A recorder that forgets the status.
RecorderHeaderForgotten(r, code) == [r EXCEPT !.capture = @ /\ code # 101]

RecorderHeader(r, code) ==
    [r EXCEPT !.status = code, !.capture = @ /\ code # 101]

\* A recorder that keeps the whole of the write that passes its limit.
RecorderWriteWhole(r, n) ==
    [r EXCEPT !.captured = IF ~r.capture \/ @ >= BodyLimit THEN @ ELSE @ + n]

RecorderWrite(r, n) ==
    [r EXCEPT !.captured = IF ~r.capture \/ @ >= BodyLimit THEN @
                           ELSE IF @ + n =< BodyLimit THEN @ + n ELSE BodyLimit]

RecorderHijack(r) == [r EXCEPT !.hijacked = TRUE, !.capture = FALSE]

PassHeader(d, code) ==
    /\ MarkCommitted(d)
    /\ rec' = [i \in Layers |-> IF i \in Through("Record", d)
                                THEN RecorderHeader(rec[i], code) ELSE rec[i]]

\* A commitWriter that only notes headers.
PassWriteUnnoted(d, n) ==
    /\ committed' = committed
    /\ rec' = [i \in Layers |-> IF i \in Through("Record", d)
                                THEN RecorderWrite(rec[i], n) ELSE rec[i]]

PassWrite(d, n) ==
    /\ MarkCommitted(d)
    /\ rec' = [i \in Layers |-> IF i \in Through("Record", d)
                                THEN RecorderWrite(rec[i], n) ELSE rec[i]]

PassHijack(d) ==
    /\ MarkCommitted(d)
    /\ rec' = [i \in Layers |-> IF i \in Through("Record", d)
                                THEN RecorderHijack(rec[i]) ELSE rec[i]]

\* httpx.write: the body is marshalled before anything is committed, so the
\* status line and the whole envelope always follow each other.
SendEnvelope(d, code, a) ==
    /\ MarkCommitted(d)
    /\ rec' = [i \in Layers |->
                 IF i \in Through("Record", d)
                 THEN RecorderWrite(RecorderHeader(rec[i], code), EnvelopeSize)
                 ELSE rec[i]]
    /\ resp' = BodyWritten(HeaderWritten(resp, code, a), EnvelopeSize, a)

-----------------------------------------------------------------------------
(***************************************************************************)
(* The application's handler: any sequence of at most MaxOps calls on its  *)
(* ResponseWriter, then a return or a panic.                               *)
(***************************************************************************)
Call == mode = "run" /\ ops < MaxOps /\ ops' = ops + 1

Raise(v) == mode' = "panic" /\ at' = Len(chain) /\ panicVal' = v

\* After the commit the header map has no effect on the response.
SetContentLength(n) ==
    /\ Call /\ ~Taken(resp)
    /\ resp' = [resp EXCEPT !.declared = n]
    /\ UNCHANGED <<config, mode, at, path, panicVal, log>>

WriteHeader(code) ==
    /\ Call
    /\ PassHeader(Len(chain), code)
    /\ \/ /\ ~HeaderPanics(resp, code)
          /\ resp' = HeaderWritten(resp, code, "app")
          /\ UNCHANGED <<mode, at, panicVal>>
       \/ /\ HeaderPanics(resp, code)
          /\ Raise("badcode")
          /\ UNCHANGED resp
    /\ UNCHANGED <<config, live, log>>

Write(n) ==
    /\ Call
    /\ PassWrite(Len(chain), n)
    /\ resp' = BodyWritten(resp, n, "app")
    /\ UNCHANGED <<config, mode, at, live, panicVal, log>>

\* JSON, EmptyJSON, Error and the handlers made of them.  A value that fails to
\* marshal is answered with the internal error envelope instead.  (A code that
\* net/http rejects panics as in WriteHeader, before the body.)
Reply(code, marshals) ==
    /\ Call
    /\ ~HeaderPanics(resp, IF marshals THEN code ELSE 500)
    /\ SendEnvelope(Len(chain), IF marshals THEN code ELSE 500, "app")
    /\ UNCHANGED <<config, mode, at, live, panicVal, log>>

\* A commitWriter without FlushError: the flush passes it by.
FlushUnnoted ==
    /\ Call /\ ~resp.hijacked
    /\ resp' = IF "flush" \in supports THEN ImplicitHeader(resp, "app") ELSE resp
    /\ UNCHANGED <<config, mode, at, path, panicVal, log>>

\* http.NewResponseController(w).Flush(): the recorder is unwrapped, the
\* commitWriter notes a flush that succeeded.  No handler flushes a connection
\* it has hijacked.
Flush ==
    /\ Call /\ ~resp.hijacked
    /\ IF "flush" \in supports
       THEN /\ MarkCommitted(Len(chain))
            /\ resp' = ImplicitHeader(resp, "app")
       ELSE UNCHANGED <<committed, resp>>
    /\ UNCHANGED <<config, mode, at, live, rec, panicVal, log>>

Hijack ==
    /\ Call
    /\ IF "hijack" \in supports /\ HijackAccepted(resp)
       THEN PassHijack(Len(chain)) /\ resp' = Hijacked(resp)
       ELSE UNCHANGED <<committed, rec, resp>>
    /\ UNCHANGED <<config, mode, at, live, panicVal, log>>

Return ==
    /\ mode = "run"
    /\ mode' = "up" /\ at' = Len(chain)
    /\ UNCHANGED <<config, path, resp, panicVal, log, ops>>

\* "abort" is http.ErrAbortHandler, wrapped or not.
Panic(v) ==
    /\ mode = "run"
    /\ Raise(v)
    /\ UNCHANGED <<config, path, resp, log, ops>>

HandlerCall ==
    \/ \E n \in Lengths : SetContentLength(n)
    \/ \E code \in Codes : WriteHeader(code)
    \/ \E n \in Chunks : Write(n)
    \/ \E code \in Codes, marshals \in BOOLEAN : Reply(code, marshals)
    \/ Flush
    \/ Hijack

Handler == HandlerCall \/ Return \/ \E v \in {"error", "abort"} : Panic(v)

-----------------------------------------------------------------------------
(***************************************************************************)
(* The middleware, on the way down.                                        *)
(***************************************************************************)
Entering(kind) == mode = "down" /\ at \in Layers /\ chain[at] = kind

Line(kind, i, status, body, v) ==
    [kind |-> kind, layer |-> i, status |-> status, body |-> body, value |-> v]

EnterRecover ==
    /\ Entering("Recover")
    /\ live' = live \cup {at} /\ at' = at + 1
    /\ UNCHANGED <<config, mode, committed, rec, resp, panicVal, log, ops>>

\* A path of SkipPaths is neither logged nor recorded.
SkipRecord ==
    /\ Entering("Record")
    /\ at' = at + 1
    /\ UNCHANGED <<config, mode, path, resp, panicVal, log, ops>>

EnterRecord(logBody) ==
    /\ Entering("Record")
    /\ log' = Append(log, Line("in", at, 0, 0, "none"))
    /\ rec' = [rec EXCEPT ![at] = NewRecorder(logBody)]
    /\ live' = live \cup {at} /\ at' = at + 1
    /\ UNCHANGED <<config, mode, committed, resp, panicVal, ops>>

PassMaxBody ==
    /\ Entering("MaxBody")
    /\ at' = at + 1
    /\ UNCHANGED <<config, mode, path, resp, panicVal, log, ops>>

\* A rejection that leaves out the layer outside it.
RejectBodyPast ==
    /\ Entering("MaxBody")
    /\ SendEnvelope(at - 1, 413, "kit")
    /\ mode' = "up" /\ at' = at - 2
    /\ UNCHANGED <<config, live, panicVal, log, ops>>

\* The declared length is over the limit: answered here, next never runs.
RejectBody ==
    /\ Entering("MaxBody")
    /\ SendEnvelope(at - 1, 413, "kit")
    /\ mode' = "up" /\ at' = at - 1
    /\ UNCHANGED <<config, live, panicVal, log, ops>>

\* The correlation id only on the request.
EnterCorrelationIDUnechoed ==
    /\ Entering("CorrelationID")
    /\ at' = at + 1
    /\ UNCHANGED <<config, mode, path, resp, panicVal, log, ops>>

EnterCorrelationID ==
    /\ Entering("CorrelationID")
    /\ resp' = [resp EXCEPT !.correlation = TRUE]
    /\ at' = at + 1
    /\ UNCHANGED <<config, mode, path, panicVal, log, ops>>

EnterIdempotencyKey ==
    /\ Entering("IdempotencyKey")
    /\ at' = at + 1
    /\ UNCHANGED <<config, mode, path, resp, panicVal, log, ops>>

StartHandler ==
    /\ mode = "down" /\ at = Len(chain) + 1
    /\ mode' = "run"
    /\ UNCHANGED <<config, at, path, resp, panicVal, log, ops>>

-----------------------------------------------------------------------------
(***************************************************************************)
(* The middleware, on the way up, and a panic on its way out.              *)
(***************************************************************************)
LoggedStatus(r) == IF r.hijacked THEN 101 ELSE r.status
LoggedBody(r)   == IF r.logBody /\ LoggedStatus(r) # 101 THEN r.captured ELSE 0

\* No response line for a connection that was taken over.
ReturnRecordQuiet ==
    /\ mode = "up" /\ at \in live /\ chain[at] = "Record"
    /\ log' = IF rec[at].hijacked THEN log
              ELSE Append(log, Line("out", at, rec[at].status, LoggedBody(rec[at]), "none"))
    /\ live' = live \ {at} /\ at' = at - 1
    /\ UNCHANGED <<config, mode, committed, rec, resp, panicVal, ops>>

ReturnRecord ==
    /\ mode = "up" /\ at \in live /\ chain[at] = "Record"
    /\ log' = Append(log, Line("out", at, LoggedStatus(rec[at]), LoggedBody(rec[at]), "none"))
    /\ live' = live \ {at} /\ at' = at - 1
    /\ UNCHANGED <<config, mode, committed, rec, resp, panicVal, ops>>

\* Every other layer only returns; a skipped Record does too.
ReturnOther ==
    /\ mode = "up" /\ at \in Layers
    /\ ~(at \in live /\ chain[at] = "Record")
    /\ live' = live \ {at} /\ at' = at - 1
    /\ UNCHANGED <<config, mode, committed, rec, resp, panicVal, log, ops>>

\* http.ErrAbortHandler treated as any other panic.
RepanicAbortAnswered ==
    /\ mode = "panic" /\ at \in live /\ chain[at] = "Recover"
    /\ panicVal = "abort"
    /\ log' = Append(log, Line("panic", at, 0, 0, panicVal))
    /\ IF at \in committed THEN UNCHANGED <<committed, rec, resp>>
       ELSE SendEnvelope(at, 500, "kit")
    /\ mode' = "up" /\ live' = live \ {at} /\ at' = at - 1
    /\ UNCHANGED <<config, panicVal, ops>>

\* Recover's deferred function: http.ErrAbortHandler goes on untouched.
RepanicAbort ==
    /\ mode = "panic" /\ at \in live /\ chain[at] = "Recover"
    /\ panicVal = "abort"
    /\ live' = live \ {at} /\ at' = at - 1
    /\ UNCHANGED <<config, mode, committed, rec, resp, panicVal, log, ops>>

\* A panic answered whatever was committed.
RecoverPanicAlways ==
    /\ mode = "panic" /\ at \in live /\ chain[at] = "Recover"
    /\ panicVal # "abort"
    /\ log' = Append(log, Line("panic", at, 0, 0, panicVal))
    /\ SendEnvelope(at, 500, "kit")
    /\ mode' = "up" /\ live' = live \ {at} /\ at' = at - 1
    /\ UNCHANGED <<config, panicVal, ops>>

\* A panic that is only logged.
RecoverPanicSilent ==
    /\ mode = "panic" /\ at \in live /\ chain[at] = "Recover"
    /\ panicVal # "abort"
    /\ log' = Append(log, Line("panic", at, 0, 0, panicVal))
    /\ mode' = "up" /\ live' = live \ {at} /\ at' = at - 1
    /\ UNCHANGED <<config, committed, rec, resp, panicVal, ops>>

\* Any other panic ends here, answered only while nothing was committed.
RecoverPanic ==
    /\ mode = "panic" /\ at \in live /\ chain[at] = "Recover"
    /\ panicVal # "abort"
    /\ log' = Append(log, Line("panic", at, 0, 0, panicVal))
    /\ IF at \in committed THEN UNCHANGED <<committed, rec, resp>>
       ELSE SendEnvelope(at, 500, "kit")
    /\ mode' = "up" /\ live' = live \ {at} /\ at' = at - 1
    /\ UNCHANGED <<config, panicVal, ops>>

\* No other layer defers anything.  Record logs no response line then.
UnwindOther ==
    /\ mode = "panic" /\ at \in Layers /\ ~(at \in live /\ chain[at] = "Recover")
    /\ live' = live \ {at} /\ at' = at - 1
    /\ UNCHANGED <<config, mode, committed, rec, resp, panicVal, log, ops>>

\* The outermost handler returned to net/http.
Finish ==
    /\ mode = "up" /\ at = 0
    /\ mode' = "done" /\ resp' = Finished(resp)
    /\ UNCHANGED <<config, at, path, panicVal, log, ops>>

\* The panic reached net/http, which closes the connection.
ServerAbort ==
    /\ mode = "panic" /\ at = 0
    /\ mode' = "aborted"
    /\ UNCHANGED <<config, at, path, resp, panicVal, log, ops>>

Over == mode \in {"done", "aborted"}

Terminated == Over /\ UNCHANGED vars

Down == \/ EnterRecover \/ SkipRecord \/ \E logBody \in BOOLEAN : EnterRecord(logBody)
        \/ PassMaxBody \/ RejectBody \/ EnterCorrelationID \/ EnterIdempotencyKey
        \/ StartHandler

Up == ReturnRecord \/ ReturnOther \/ RepanicAbort \/ RecoverPanic \/ UnwindOther

Next == Down \/ Handler \/ Up \/ Finish \/ ServerAbort \/ Terminated

Spec == Init /\ [][Next]_vars

-----------------------------------------------------------------------------
(***************************************************************************)
(* What must be true of every exchange.                                    *)
(***************************************************************************)
Logged(kind, i)  == \E k \in DOMAIN log : log[k].kind = kind /\ log[k].layer = i
OutLines         == {log[k] : k \in {j \in DOMAIN log : log[j].kind = "out"}}
PanicLines       == {log[k] : k \in {j \in DOMAIN log : log[j].kind = "panic"}}
HasLayer(kind)   == \E i \in Layers : chain[i] = kind

\* The values of the variables.
TypeOK ==
    /\ chain \in Chains /\ supports \in SUBSET {"flush", "hijack"}
    /\ mode \in Modes /\ at \in 0..(Len(chain) + 1)
    /\ live \in SUBSET Layers /\ committed \in SUBSET Layers
    /\ rec \in [Layers -> Recorders]
    /\ resp \in Responses
    /\ panicVal \in Panics \cup {"none"}
    /\ log \in Seq(Lines) /\ ops \in 0..MaxOps

\* Once the response is out of the handler's hands, every commitWriter still on
\* the path knows it: whatever took it (a header, a write, a flush or a hijack
\* that succeeded) went through all of them.
CommitTracking ==
    Taken(resp) => \A i \in live : chain[i] = "Recover" => i \in committed

\* The wrappers on the path belong to layers that were entered and not left.
PathShape ==
    /\ mode = "down" => at >= 1 /\ live \subseteq 1..(at - 1)
    /\ mode = "run" => at = Len(chain) + 1
    /\ mode \in {"up", "panic"} => at =< Len(chain) /\ live \subseteq 1..at
    /\ Over => at = 0

\* Who can have answered by now: an envelope of servicekit ends the handler's
\* part and any panic, net/http answers last.
OwnerByMode ==
    /\ resp.author = "nobody" <=> ~Taken(resp)
    /\ resp.author = "kit" => mode \in {"up", "done"}
    /\ resp.author = "server" => mode = "done"
    /\ mode = "down" => ~Taken(resp)

\* The bytes of a response are all of one author: an envelope is never appended
\* to what a handler wrote, and nothing is appended to an envelope.
SingleAuthor == \A a \in Authors : resp.sent[a] > 0 => resp.author = a

\* A panic that Recover contained is answered by an envelope or was answered
\* already.  net/http's empty 200 goes out only when the handler's last header
\* set commitWriter.committed and committed nothing: an informational one, or
\* the invalid one that was the panic.
PanicAnswered ==
    (mode = "done" /\ PanicLines # {} /\ resp.author = "server")
        => resp.early \/ \E l \in PanicLines : l.value = "badcode"

\* A panic reaches net/http only if it is http.ErrAbortHandler or nobody
\* recovers: an abort is never logged nor answered by Recover, whatever the
\* number of Recovers it passes, and no other panic passes one.
PanicFate ==
    /\ Over => (mode = "aborted" <=> \/ panicVal = "abort"
                                     \/ panicVal # "none" /\ ~HasLayer("Recover"))
    /\ panicVal = "abort" => PanicLines = {} /\ resp.author # "kit"

\* Every request line is followed by its response line, unless a panic passed
\* that Record on its way out.
LinesPaired ==
    Over => \A i \in Layers :
        Logged("in", i) =>
            (Logged("out", i) <=> ~ \/ mode = "aborted"
                                    \/ \E l \in PanicLines : l.layer < i)

\* The status Record logs is the status the client got, unless the handler gave
\* several (the recorder keeps the last, net/http the first that is final) or one
\* that net/http refused.  A hijacked connection is logged as an upgrade without a
\* body by every Record, whatever the handler wrote before it.
StatusFaithful ==
    mode = "done" =>
        \A l \in OutLines :
            IF resp.hijacked THEN l.status = 101 /\ l.body = 0
            ELSE \/ l.status = resp.status
                 \/ resp.superfluous \/ resp.early
                 \/ \E p \in PanicLines : p.value = "badcode"

AllSent == resp.sent["app"] + resp.sent["kit"]

\* A body that Record logs is the prefix of the body that was sent: nothing the
\* client did not get, nothing but what is over the limit left out.
BodyFaithful ==
    (mode = "done" /\ ~resp.rejected)
        => \A l \in OutLines :
              (rec[l.layer].logBody /\ l.status # 101 /\ ~resp.superfluous)
                => l.body = IF AllSent < BodyLimit THEN AllSent ELSE BodyLimit

\* Behind CorrelationID every response carries the header, whatever answers: the
\* handler, an envelope of a Recover inside or outside it, net/http's own 200.
\* Only a MaxBody outside it answers without.
EchoedOnResponse ==
    (mode = "done" /\ resp.committed) =>
        \A i \in Layers : chain[i] = "CorrelationID" =>
            \/ resp.correlated
            \/ resp.status = 413 /\ \E j \in 1..(i - 1) : chain[j] = "MaxBody"

\* The inductive invariant of the proofs.
IInv == TypeOK /\ PathShape /\ OwnerByMode /\ CommitTracking /\ SingleAuthor

-----------------------------------------------------------------------------
\* The response as its readers see it: who answers, with how many bytes.
Ownership == INSTANCE ResponseOwnership WITH
                 owner  <- resp.author,
                 bytes  <- resp.sent,
                 closed <- Over

\* The chain implements it: the first author to commit the response is the only
\* one, and nothing reaches the client after the exchange is over.
OwnershipSpec == Ownership!Spec
=============================================================================
