------------------------------- MODULE BodyRelay -------------------------------
(***************************************************************************)
(* A body on its way from the wire to whoever reads it, through the        *)
(* readers that httpx puts in between: MaxBody's http.MaxBytesReader and   *)
(* the readers of readAndRestoreBody, which Record and LoggerTransport use *)
(* to log a body's first bytes and put them back.                          *)
(*                                                                         *)
(* The peer sends, ends or breaks the body while it is being read; a       *)
(* duplex peer sends on only when what it sent was received.  Bytes are    *)
(* their positions in the stream, so their order and loss are visible.     *)
(* The reader is the application's handler for an incoming request, the    *)
(* next transport or the caller for LoggerTransport.                       *)
(***************************************************************************)
EXTENDS Integers, Sequences, FiniteSets, FiniteSetsExt

CONSTANTS
    Pipelines,   \* the layers between the wire and the reader, nearest the wire first
    Lengths,     \* what a peer declares, Unknown for a chunked body
    DuplexPeers, \* which of FALSE, TRUE a peer's duplex can be
    MaxSent      \* bound: bytes of a body

Unknown == -1

\* "log": readAndRestoreBody with that limit; "cap": MaxBody with that limit.
Layer == [kind : {"log", "cap"}, limit : Nat]

ASSUME PipelinesAssumption ==
    /\ Pipelines \subseteq Seq(Layer)
    /\ \A p \in Pipelines : \A i, j \in DOMAIN p : p[i].kind = "cap" /\ p[j].kind = "cap" => i = j
ASSUME BoundsAssumption ==
    /\ MaxSent \in Nat /\ Lengths \subseteq (0..MaxSent) \cup {Unknown}
    /\ DuplexPeers \subseteq BOOLEAN

VARIABLES
    pipe,      \* the layers of this body (never changes)
    declared,  \* its Content-Length (never changes)
    duplex,    \* the peer waits for what it sent to be received (never changes)
    sent,      \* bytes that arrived
    peer,      \* "open", "closed" after a clean end, "broken"
    pos,       \* bytes taken off the wire
    at,        \* the layer being set up, Len(pipe) + 1 once the reader runs
    head,      \* the bytes each layer holds for whoever reads it
    logged,    \* the bytes each layer logged
    left,      \* what MaxBytesReader still lets through
    capErr,    \* its sticky error
    rejected,  \* MaxBody answered 413 for the declared length
    got,       \* the bytes the reader received
    seen       \* how the body ended for the reader, "none" before

config == <<pipe, declared, duplex>>
wire   == <<sent, peer>>
vars   == <<pipe, declared, duplex, sent, peer, pos, at, head, logged, left, capErr,
            rejected, got, seen>>

Layers == DOMAIN pipe
Caps   == {i \in Layers : pipe[i].kind = "cap"}
Cap    == CHOOSE i \in Caps : TRUE
Ends   == {"none", "eof", "broken", "toolarge"}

Init ==
    /\ pipe \in Pipelines /\ declared \in Lengths /\ duplex \in DuplexPeers
    /\ sent = 0 /\ peer = "open" /\ pos = 0 /\ at = 1
    /\ head = [i \in Layers |-> <<>>] /\ logged = [i \in Layers |-> <<>>]
    /\ left = 0 /\ capErr = "none" /\ rejected = FALSE
    /\ got = <<>> /\ seen = "none"

-----------------------------------------------------------------------------
(***************************************************************************)
(* The peer (net/http's connection, or the body of an outgoing request).   *)
(***************************************************************************)
Served == ~duplex \/ Len(got) = sent

PeerSends ==
    /\ peer = "open" /\ Served
    /\ sent < IF declared = Unknown THEN MaxSent ELSE declared
    /\ sent' = sent + 1
    /\ UNCHANGED <<config, peer, pos, at, head, logged, left, capErr, rejected, got, seen>>

\* A body shorter than its declared length does not end cleanly.
PeerEnds ==
    /\ peer = "open" /\ Served
    /\ peer' = IF declared \in {Unknown, sent} THEN "closed" ELSE "broken"
    /\ UNCHANGED <<config, sent, pos, at, head, logged, left, capErr, rejected, got, seen>>

PeerBreaks ==
    /\ peer = "open"
    /\ peer' = "broken"
    /\ UNCHANGED <<config, sent, pos, at, head, logged, left, capErr, rejected, got, seen>>

-----------------------------------------------------------------------------
(***************************************************************************)
(* Reading one byte through the first k layers: io.MultiReader serves a    *)
(* layer's head first, then what is below; MaxBytesReader counts what      *)
(* passes and fails for good on the first byte over its limit.             *)
(***************************************************************************)
Holders(k) == {i \in Layers : i =< k /\ head[i] # <<>>}
Source(k)  == Max(Holders(k) \cup {0})
Capped(k)  == \E c \in Caps : Source(k) < c /\ c =< k

\* What the wire gives next; a declared length ends the body by itself, and an
\* ended body keeps ending the same way.
Wire == IF pos < sent THEN "byte"
        ELSE IF sent = declared \/ peer = "closed" THEN "eof"
        ELSE IF peer = "broken" THEN "broken"
        ELSE "wait"

Offer(k) == IF Source(k) > 0 THEN "byte" ELSE Wire

\* A limit that stops the reader without an error.
ResultStuck(k) ==
    IF Capped(k) /\ Offer(k) = "byte" /\ left = 0 THEN "wait" ELSE Offer(k)

Result(k) ==
    IF Capped(k) /\ capErr # "none" THEN capErr
    ELSE IF Capped(k) /\ Offer(k) = "byte" /\ left = 0 THEN "toolarge"
    ELSE Offer(k)

Byte(k) == IF Source(k) > 0 THEN Head(head[Source(k)]) ELSE pos + 1

\* The read takes a byte below, also the one over the limit.
Takes(k) == Offer(k) = "byte" /\ ~(Capped(k) /\ capErr # "none")

\* A reader that gives up what is left of the head it served.
HeadAfterLossy(k) ==
    IF Takes(k) /\ Source(k) > 0 THEN [head EXCEPT ![Source(k)] = <<>>] ELSE head

HeadAfter(k) ==
    IF Takes(k) /\ Source(k) > 0 THEN [head EXCEPT ![Source(k)] = Tail(@)] ELSE head

\* The rest of its effect; a read that must wait does not happen.
Consume(k) ==
    /\ Result(k) # "wait"
    /\ pos'    = IF Takes(k) /\ Source(k) = 0 THEN pos + 1 ELSE pos
    /\ left'   = IF Capped(k) /\ Result(k) = "byte" THEN left - 1 ELSE left
    /\ capErr' = IF Capped(k) /\ Result(k) # "byte" THEN Result(k) ELSE capErr

-----------------------------------------------------------------------------
(***************************************************************************)
(* The layers, one after the other, before the reader runs.                *)
(***************************************************************************)
SettingUp(kind) == ~rejected /\ at \in Layers /\ pipe[at].kind = kind

\* io.ReadAll(io.LimitReader(body, limit)) takes one more byte.
Buffer ==
    /\ SettingUp("log") /\ Len(logged[at]) < pipe[at].limit
    /\ Result(at - 1) = "byte"
    /\ Consume(at - 1)
    /\ head' = HeadAfter(at - 1)
    /\ logged' = [logged EXCEPT ![at] = Append(@, Byte(at - 1))]
    /\ UNCHANGED <<config, wire, at, rejected, got, seen>>

\* The bytes dropped with the error.
RestoreDropping ==
    /\ SettingUp("log")
    /\ IF Len(logged[at]) < pipe[at].limit
       THEN /\ Result(at - 1) # "byte" /\ Consume(at - 1)
            /\ head' = HeadAfter(at - 1)
       ELSE /\ head' = [head EXCEPT ![at] = logged[at]]
            /\ UNCHANGED <<pos, left, capErr>>
    /\ at' = at + 1
    /\ UNCHANGED <<config, wire, logged, rejected, got, seen>>

\* One Read, which may stop short, instead of io.ReadAll.
RestoreShort ==
    /\ SettingUp("log")
    /\ head' = [head EXCEPT ![at] = logged[at]]
    /\ at' = at + 1
    /\ UNCHANGED <<config, wire, pos, left, capErr, logged, rejected, got, seen>>

\* The body awaited to its end, limit or not.
RestoreAtEnd ==
    /\ SettingUp("log") /\ peer # "open"
    /\ head' = [head EXCEPT ![at] = logged[at]]
    /\ at' = at + 1
    /\ UNCHANGED <<config, wire, pos, left, capErr, logged, rejected, got, seen>>

\* Limit reached, body ended or failed: the error is dropped, the bytes are put
\* back in front of the rest of the body.  Nothing is read below a limit that is
\* reached.
Restore ==
    /\ SettingUp("log")
    /\ IF Len(logged[at]) < pipe[at].limit
       THEN /\ Result(at - 1) # "byte" /\ Consume(at - 1)
            /\ head' = [HeadAfter(at - 1) EXCEPT ![at] = logged[at]]
       ELSE /\ head' = [head EXCEPT ![at] = logged[at]]
            /\ UNCHANGED <<pos, left, capErr>>
    /\ at' = at + 1
    /\ UNCHANGED <<config, wire, logged, rejected, got, seen>>

\* A limit that is off by one.
CapBodyLoose ==
    /\ SettingUp("cap") /\ declared =< pipe[at].limit
    /\ left' = pipe[at].limit + 1
    /\ at' = at + 1
    /\ UNCHANGED <<config, wire, pos, head, logged, capErr, rejected, got, seen>>

\* MaxBody: a declared length over the limit is answered without reading.
CapBody ==
    /\ SettingUp("cap") /\ declared =< pipe[at].limit
    /\ left' = pipe[at].limit
    /\ at' = at + 1
    /\ UNCHANGED <<config, wire, pos, head, logged, capErr, rejected, got, seen>>

RejectBody ==
    /\ SettingUp("cap") /\ declared > pipe[at].limit
    /\ rejected' = TRUE
    /\ UNCHANGED <<config, wire, pos, at, head, logged, left, capErr, got, seen>>

-----------------------------------------------------------------------------
Running == ~rejected /\ at = Len(pipe) + 1

\* The reader reads to the end, or stops anywhere (no fairness).
ReadByte ==
    /\ Running /\ seen = "none" /\ Result(Len(pipe)) = "byte"
    /\ Consume(Len(pipe))
    /\ head' = HeadAfter(Len(pipe))
    /\ got' = Append(got, Byte(Len(pipe)))
    /\ UNCHANGED <<config, wire, at, logged, rejected, seen>>

ReadEnd ==
    /\ Running /\ seen = "none" /\ Result(Len(pipe)) \notin {"byte", "wait"}
    /\ Consume(Len(pipe))
    /\ head' = HeadAfter(Len(pipe))
    /\ seen' = Result(Len(pipe))
    /\ UNCHANGED <<config, wire, at, logged, rejected, got>>

Over == rejected \/ seen # "none"

Peer       == PeerSends \/ PeerEnds \/ PeerBreaks
Middleware == Buffer \/ Restore \/ CapBody \/ RejectBody
Reader     == ReadByte \/ ReadEnd

Next == Peer \/ Middleware \/ Reader \/ (Over /\ UNCHANGED vars)

Spec == Init /\ [][Next]_vars

\* The goroutine that serves the request runs; nothing is assumed of the peer.
ServedSpec == Spec /\ WF_vars(Middleware)

\* The peer keeps talking as long as it is answered.
TalkingSpec == ServedSpec /\ WF_vars(Reader) /\ WF_vars(PeerSends)

-----------------------------------------------------------------------------
(***************************************************************************)
(* What must be true of every body.                                        *)
(***************************************************************************)
FromStart(s) == \A i \in DOMAIN s : s[i] = i

\* The values of the variables.
TypeOK ==
    /\ pipe \in Pipelines /\ declared \in Lengths /\ duplex \in DuplexPeers
    /\ sent \in 0..MaxSent /\ pos \in 0..sent /\ peer \in {"open", "closed", "broken"}
    /\ at \in 1..(Len(pipe) + 1) /\ rejected \in BOOLEAN
    /\ DOMAIN head = Layers /\ DOMAIN logged = Layers
    /\ \A i \in Layers : /\ head[i] \in Seq(1..MaxSent) /\ logged[i] \in Seq(1..MaxSent)
                         /\ Len(logged[i]) =< pipe[i].limit
    /\ left \in Nat /\ capErr \in Ends
    /\ got \in Seq(1..MaxSent) /\ seen \in Ends

In(n, s) == \E j \in DOMAIN s : s[j] = n

\* Every byte taken off the wire was received, is held for the reader or is being
\* buffered, also when a layer's read failed; only the byte over MaxBody's limit is
\* gone.
NothingLost ==
    \A n \in 1..pos :
        \/ In(n, got) \/ \E i \in Layers : In(n, head[i])
        \/ at \in Layers /\ In(n, logged[at])
        \/ capErr = "toolarge" /\ \E c \in Caps : n = pipe[c].limit + 1

\* Behind MaxBody nobody receives more than its limit, the layers that log
\* included, and the end of a body over it is always MaxBody's error.
CapHolds ==
    \A c \in Caps :
        /\ Len(got) =< pipe[c].limit
        /\ \A i \in Layers : c < i => Len(logged[i]) =< pipe[c].limit
        /\ (seen # "none" /\ sent > pipe[c].limit) => seen = "toolarge"

\* A log shows the first bytes of the body in order, however many layers took
\* bytes off the stream before, and one that stops short of its limit shows all
\* that the reader ever receives.
LogIsWhole ==
    \A i \in Layers :
        /\ FromStart(logged[i])
        /\ (pipe[i].kind = "log" /\ i < at /\ Len(logged[i]) < pipe[i].limit)
             => Len(got) =< Len(logged[i])

\* The reader starts as soon as the largest log limit has arrived: a large
\* upload is not held up by the layers, even if the peer never ends it.
Started   == rejected \/ at = Len(pipe) + 1
StartsEarly ==
    (\A i \in Layers : pipe[i].kind = "log" => sent >= pipe[i].limit) ~> Started

\* A body reaches its reader to the end, provided the reader goes on reading and
\* the peer ends the body or is timed out.
ReadsToTheEnd == (WF_vars(Reader) /\ WF_vars(PeerEnds \/ PeerBreaks)) => <>Over

-----------------------------------------------------------------------------
\* The layers are transparent: with them in between, the reader finds the body
\* that it would find without any that logs.
Stream == INSTANCE BodyStream WITH
              limit <- IF Caps = {} THEN Unknown ELSE pipe[Cap].limit

StreamSpec == Stream!Spec
=============================================================================
