--------------------------- MODULE OutboundExchange ---------------------------
(***************************************************************************)
(* A client's request through a stack of transports: LoggerTransport,      *)
(* which reads ahead of the body and puts a reader in its place, and       *)
(* CorrelationTransport and CallerTransport, which clone the request.  The *)
(* client keeps its request and sends it again when an attempt fails.      *)
(*                                                                         *)
(* A body is a reader.  Requests share readers; a reader put in place of   *)
(* another has a head of its own, then reads the one below, and lets go of *)
(* it for good where that ends (io.MultiReader).  net/http is external: it *)
(* sends what the body of the request it is handed yields, as far as a     *)
(* declared length goes.                                                   *)
(***************************************************************************)
EXTENDS Integers, Sequences, FiniteSets, SequencesExt

CONSTANTS
    Stacks,        \* transports, outermost first: "log" and "clone"
    Payloads,      \* the client's bodies: [kind, bytes]
    Resends,       \* how a client sends again: a "fresh" body, or "seek" in the old
    Limit,         \* what LoggerTransport reads ahead
    MaxAttempts    \* bound: sends of the request

Kinds == {"nil", "NoBody", "reader"}

ASSUME StacksAssumption   == \A st \in Stacks : st \in Seq({"log", "clone"})
ASSUME PayloadsAssumption ==
    /\ Payloads \subseteq [kind : Kinds, bytes : Nat]
    /\ \A p \in Payloads : p.kind # "reader" => p.bytes = 0
ASSUME ResendsAssumption  == Resends \subseteq {"fresh", "seek"}
ASSUME BoundsAssumption   == Limit \in Nat /\ MaxAttempts \in Nat

VARIABLES
    stack, payload, declared, resend,   \* the client and its transports (never change)
    mode,      \* "ready", "down", "up"
    at,        \* the transport whose code is running
    attempt,   \* sends so far
    pos,       \* the bytes taken from the payload
    heads,     \* the readers put in place, oldest first: what each still holds
    drained,   \* the readers up to this one have seen the end of the one below
    body,      \* per request object its Body: its kind, and a reader's number
    obj,       \* the request object the running code was called with
    onwire,    \* what the peer has of this attempt: its framing and the bytes
    outcome,   \* "none", "failed" or "answered"
    lines,     \* the lines of this attempt
    given      \* history: what the client's request yields when it is sent

client == <<stack, payload, declared, resend>>
vars   == <<stack, payload, declared, resend, mode, at, attempt, pos, heads, drained, body,
            obj, onwire, outcome, lines, given>>

\* Request objects: the client's own, and the clone of each transport.
Own == 0

Bytes == [i \in 1..payload.bytes |-> i]

-----------------------------------------------------------------------------
(***************************************************************************)
(* Readers.  Reader 0 is the payload; reader k its head, then reader k - 1.*)
(***************************************************************************)
HeadsDown(k, i) == FlattenSeq([j \in 1..(k - i) |-> heads[k + 1 - j]])

Drop(s, n) == SubSeq(s, n + 1, Len(s))

\* What reader k still has of the payload: one that saw its end has let go of it,
\* even if it is rewound below.
Payload(k, from) == IF k = 0 \/ drained = 0 THEN Drop(Bytes, from) ELSE <<>>

\* What reader k yields: the heads from k down, then the payload.
Yields(k) == HeadsDown(k, 0) \o Payload(k, pos)

\* Reading n bytes through reader k empties the heads from k down, then moves
\* on in the payload.
HeadsAfter(k, n) ==
    [i \in DOMAIN heads |->
        LET before == Len(HeadsDown(k, i))
        IN IF i > k \/ n =< before THEN heads[i] ELSE Drop(heads[i], n - before)]

PosAfter(k, n) ==
    LET held == Len(HeadsDown(k, 0)) IN IF n > held THEN pos + n - held ELSE pos

\* Reading on behind the last byte, readers see the end from the payload up to k.
DrainedAfter(k, eof) == IF eof /\ k > drained THEN k ELSE drained

Body(kind, reader) == [kind |-> kind, reader |-> reader]
View(o)            == IF body[o].kind = "reader" THEN Yields(body[o].reader) ELSE <<>>

\* net/http: neither nil nor NoBody has a length or is framed; of any other body
\* a length of zero says that it is not known.
Framing(kind) ==
    IF kind # "reader" THEN "none"
    ELSE IF declared /\ payload.bytes > 0 THEN "declared" ELSE "chunked"

\* What goes into a declared length; the rest is read and thrown away.
Fits(n) == IF Framing(body[obj].kind) = "declared" /\ n > payload.bytes THEN payload.bytes ELSE n

-----------------------------------------------------------------------------
NothingSent == [framing |-> "none", bytes |-> <<>>]

Init ==
    /\ stack \in Stacks /\ payload \in Payloads /\ declared \in BOOLEAN /\ resend \in Resends
    /\ mode = "ready" /\ at = 0 /\ attempt = 0
    /\ pos = 0 /\ heads = <<>> /\ drained = 0 /\ obj = Own
    /\ body = [o \in 0..Len(stack) |-> Body(payload.kind, 0)]
    /\ onwire = NothingSent /\ outcome = "none" /\ lines = <<>> /\ given = <<>>

\* The client calls RoundTrip.
Start ==
    /\ mode' = "down" /\ at' = 0 /\ attempt' = attempt + 1 /\ obj' = Own
    /\ onwire' = NothingSent /\ outcome' = "none" /\ lines' = <<>>
    /\ UNCHANGED client

Send ==
    /\ mode = "ready" /\ attempt = 0
    /\ Start
    /\ given' = Bytes
    /\ UNCHANGED <<pos, heads, drained, body>>

\* The same request again, with a new body,
SendFresh ==
    /\ mode = "ready" /\ outcome = "failed" /\ attempt < MaxAttempts /\ resend = "fresh"
    /\ Start
    /\ pos' = 0 /\ heads' = <<>> /\ drained' = 0 /\ given' = Bytes
    /\ body' = [body EXCEPT ![Own] = Body(payload.kind, 0)]

\* or with the one it holds, rewound: in the request is the reader a logger put
\* there.  No one else has a request any more.
SendSeek ==
    /\ mode = "ready" /\ outcome = "failed" /\ attempt < MaxAttempts /\ resend = "seek"
    /\ Start
    /\ LET k == body[Own].reader IN
       /\ pos' = 0 /\ heads' = SubSeq(heads, 1, k)
       /\ drained' = IF drained > k THEN k ELSE drained
       /\ given' = HeadsDown(k, 0) \o Payload(k, 0)
    /\ UNCHANGED body

-----------------------------------------------------------------------------
(***************************************************************************)
(* Down through the transports.                                            *)
(***************************************************************************)
Reaches(transport) == mode = "down" /\ at < Len(stack) /\ stack[at + 1] = transport

Line(i, what, shown) == [by |-> i, what |-> what, body |-> shown]

ReadAhead(o) == LET v == View(o) IN SubSeq(v, 1, IF Len(v) < Limit THEN Len(v) ELSE Limit)

\* The reader that was read ahead of, without its head.
RestoredShort(o) == body[o]

\* readAndRestoreBody: a nil body stays nil, any other is replaced.
Restored(o) == IF body[o].kind = "nil" THEN body[o] ELSE Body("reader", Len(heads) + 1)

\* Whether the end is seen by one who asks for so many bytes: the last of them may
\* come with it.
EndSeen(left, asked) == {eof \in BOOLEAN : (left < asked => eof) /\ (left > asked => ~eof)}

\* RoundTrip of LoggerTransport up to the next transport: the body of the
\* request it was given is replaced.
LogRequest ==
    /\ Reaches("log")
    /\ LET k == body[obj].reader
           n == Len(ReadAhead(obj)) IN
       /\ \E eof \in EndSeen(Len(View(obj)), Limit) : drained' = DrainedAfter(k, eof)
       /\ heads' = IF body[obj].kind = "nil" THEN heads
                   ELSE Append(HeadsAfter(k, n), ReadAhead(obj))
       /\ pos'   = PosAfter(k, n)
       /\ body'  = [body EXCEPT ![obj] = Restored(obj)]
       /\ lines' = Append(lines, Line(at + 1, "out", ReadAhead(obj)))
    /\ at' = at + 1
    /\ UNCHANGED <<client, mode, attempt, obj, onwire, outcome, given>>

\* CorrelationTransport and CallerTransport: a clone with a header more, when
\* there is something to add.
Clone ==
    /\ Reaches("clone")
    /\ obj' = at + 1 /\ body' = [body EXCEPT ![at + 1] = body[obj]]
    /\ at' = at + 1
    /\ UNCHANGED <<client, mode, attempt, pos, heads, drained, onwire, outcome, lines, given>>

PassOn ==
    /\ Reaches("clone")
    /\ at' = at + 1
    /\ UNCHANGED <<client, mode, attempt, pos, heads, drained, body, obj, onwire, outcome,
                   lines, given>>

-----------------------------------------------------------------------------
(***************************************************************************)
(* net/http.                                                               *)
(***************************************************************************)
\* Of the n bytes read the peer has those that fit; what a body has too much or
\* lacks of a declared length makes the write fail, unless an answer is there
\* first.
Transmit(n, eof, result) ==
    /\ mode = "down" /\ at = Len(stack)
    /\ onwire' = [framing |-> Framing(body[obj].kind), bytes |-> SubSeq(View(obj), 1, Fits(n))]
    /\ LET k == body[obj].reader IN
       heads' = HeadsAfter(k, n) /\ pos' = PosAfter(k, n) /\ drained' = DrainedAfter(k, eof)
    /\ outcome' = result /\ mode' = "up"
    /\ UNCHANGED <<client, at, attempt, body, obj, lines, given>>

\* The connection fails, before the request is sent, while it is or behind it.
Break == \E n \in 0..Len(View(obj)), eof \in BOOLEAN :
            /\ eof => n = Len(View(obj))
            /\ Transmit(n, eof, "failed")

\* A response, to the whole request or to a part of it.
Respond == \E n \in 0..Len(View(obj)), eof \in BOOLEAN :
              /\ eof => n = Len(View(obj))
              /\ Transmit(n, eof, "answered")

-----------------------------------------------------------------------------
(***************************************************************************)
(* Up again.                                                               *)
(***************************************************************************)
\* A RoundTrip that returns the error with nothing said.
ResultLinesQuiet(i) ==
    IF outcome = "failed" THEN <<>> ELSE <<Line(i, "received", <<>>)>>

\* The end of RoundTrip: an error is logged and returned, a response logged.
ResultLines(i) ==
    IF outcome = "failed" THEN <<Line(i, "failed", <<>>)>> ELSE <<Line(i, "received", <<>>)>>

LogResult ==
    /\ mode = "up" /\ at > 0 /\ stack[at] = "log"
    /\ lines' = lines \o ResultLines(at)
    /\ at' = at - 1
    /\ UNCHANGED <<client, mode, attempt, pos, heads, drained, body, obj, onwire, outcome, given>>

ReturnClone ==
    /\ mode = "up" /\ at > 0 /\ stack[at] = "clone"
    /\ at' = at - 1
    /\ UNCHANGED <<client, mode, attempt, pos, heads, drained, body, obj, onwire, outcome,
                   lines, given>>

Return ==
    /\ mode = "up" /\ at = 0
    /\ mode' = "ready"
    /\ UNCHANGED <<client, at, attempt, pos, heads, drained, body, obj, onwire, outcome,
                   lines, given>>

Ended == mode = "ready" /\ (outcome = "answered" \/ attempt = MaxAttempts)

Next ==
    \/ Send \/ SendFresh \/ SendSeek
    \/ LogRequest \/ Clone \/ PassOn
    \/ Break \/ Respond
    \/ LogResult \/ ReturnClone \/ Return
    \/ Ended /\ UNCHANGED vars

Spec == Init /\ [][Next]_vars

-----------------------------------------------------------------------------
LogLayers == {i \in DOMAIN stack : stack[i] = "log"}

\* What the client's request yields is what the peer gets: in every attempt a
\* beginning of it - all of it, up to a declared length, if net/http read it out -,
\* framed as the client declared it; only a NoBody is framed as an unknown length
\* once a logger has wrapped it.  And that is the client's payload, except where a
\* logger changed the request it was given (logger.go:64-65) and the client sends
\* it again with its own body rewound: then what the logger's reader still held
\* comes in front of the payload, or, if a reader had seen the payload end, comes
\* alone - nothing at all, if the body was read out.
WireAsGiven ==
    mode = "up" =>
        /\ IsPrefix(onwire.bytes, given)
        /\ View(obj) = <<>> => onwire.bytes = SubSeq(given, 1, Fits(Len(given)))
        /\ \/ onwire.framing = Framing(payload.kind)
           \/ payload.kind = "NoBody" /\ LogLayers # {} /\ onwire.framing = "chunked"
        /\ given # Bytes =>
              /\ resend = "seek" /\ attempt > 1 /\ body[Own].reader > 0
              /\ drained > 0 \/ \E n \in 0..Len(given) : Drop(given, n) = Bytes

\* Each LoggerTransport says of each attempt what is sent in it - the first bytes of
\* what the client's request yields, whoever read ahead before and whether or not
\* that is the payload any more - and then, once, what came of it; inner ones
\* between the two lines of outer ones.
AttemptLogged ==
    (mode = "ready" /\ attempt > 0) =>
        \A i \in LogLayers :
            \E m \in DOMAIN lines, n \in DOMAIN lines :
                /\ lines[m].what = "out"
                /\ lines[m].body
                     = SubSeq(given, 1, IF Len(given) < Limit THEN Len(given) ELSE Limit)
                /\ lines[n].what = IF outcome = "failed" THEN "failed" ELSE "received"
                /\ {x \in DOMAIN lines : lines[x].by = i} = {m, n}
                /\ {x \in DOMAIN lines : lines[x].by > i} = (m + 1)..(n - 1)
=============================================================================
