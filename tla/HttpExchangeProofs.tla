-------------------------- MODULE HttpExchangeProofs --------------------------
(***************************************************************************)
(* Proofs about HttpExchange, for every set of chains and of handler       *)
(* inputs: the inductive invariant IInv, the invariants it implies, the    *)
(* refinement of ResponseOwnership, and then LogInv, with what is logged.  *)
(***************************************************************************)
EXTENDS HttpExchange, TLAPS

-----------------------------------------------------------------------------
(***************************************************************************)
(* net/http's operators.                                                   *)
(***************************************************************************)

\* h is r after a header of a: it commits the response in a's name or leaves
\* the author alone, and never moves a byte.
HeaderEffect(r, h, a) ==
    /\ h \in Responses
    /\ h.sent = r.sent
    /\ Taken(r) => Taken(h) /\ h.author = r.author
    /\ ~Taken(r) => \/ Taken(h) /\ h.author = a
                    \/ ~Taken(h) /\ h.author = r.author

\* w is r after a body of a: it is taken, in a's name unless it was before, and
\* only a's bytes grow.
BodyEffect(r, w, a) ==
    /\ w \in Responses
    /\ Taken(w)
    /\ w.author = IF Taken(r) THEN r.author ELSE a
    /\ \A b \in Authors \ {a} : w.sent[b] = r.sent[b]
    /\ w.sent[a] >= r.sent[a]

\* Every WriteHeader has that effect; one with a final code takes the response.
LEMMA HeaderLemma ==
    ASSUME NEW r \in Responses, NEW code \in Nat, NEW a \in Authors
    PROVE  /\ HeaderEffect(r, HeaderWritten(r, code, a), a)
           /\ ~Informational(code) => Taken(HeaderWritten(r, code, a))
<1> DEFINE h == HeaderWritten(r, code, a)
<1>1. CASE r.hijacked
  <2>1. h = r
    BY <1>1 DEF HeaderWritten
  <2> QED BY <2>1, <1>1 DEF Taken, HeaderEffect
<1>2. CASE r.committed /\ ~r.hijacked
  <2>1. h = [r EXCEPT !.superfluous = TRUE]
    BY <1>2 DEF HeaderWritten
  <2> QED BY <2>1, <1>2 DEF Taken, Responses, HeaderEffect
<1>3. CASE ~Taken(r) /\ Informational(code)
  <2>1. h = [r EXCEPT !.early = TRUE]
    BY <1>3 DEF HeaderWritten, Taken
  <2> QED BY <2>1, <1>3 DEF Taken, Responses, HeaderEffect
<1>4. CASE ~Taken(r) /\ ~Informational(code)
  <2>1. h = [r EXCEPT !.committed = TRUE, !.status = code, !.author = a,
                      !.length = r.declared, !.correlated = r.correlation]
    BY <1>4 DEF HeaderWritten, Taken
  <2> QED BY <2>1, <1>4 DEF Taken, Responses, HeaderEffect
<1> QED BY <1>1, <1>2, <1>3, <1>4 DEF Taken

\* Every Write has the effect of a body, refused or not.
LEMMA WriteLemma ==
    ASSUME NEW r \in Responses, NEW n \in Nat, NEW a \in Authors
    PROVE  BodyEffect(r, BodyWritten(r, n, a), a)
<1> DEFINE h == ImplicitHeader(r, a)
           w == BodyWritten(r, n, a)
           taken == n > 0 /\ Accepts(h, n)
           count == n > 0 /\ ~h.hijacked /\ BodyAllowed(h.status)
<1>1. /\ h \in Responses /\ Taken(h)
      /\ h.sent = r.sent
      /\ h.author = IF Taken(r) THEN r.author ELSE a
  <2>1. CASE Taken(r)
    BY <2>1 DEF ImplicitHeader
  <2>2. CASE ~Taken(r)
    <3>1. h = HeaderWritten(r, 200, a)
      BY <2>2 DEF ImplicitHeader
    <3>2. ~Informational(200)
      BY DEF Informational
    <3>4. h.author = a
      BY <3>1, <3>2, <2>2 DEF HeaderWritten, Taken, Responses
    <3> QED BY <3>1, <3>2, <3>4, <2>2, HeaderLemma DEF HeaderEffect
  <2> QED BY <2>1, <2>2
<1>2. w = [h EXCEPT !.sent[a]  = IF taken THEN @ + n ELSE @,
                    !.written  = IF count THEN @ + n ELSE @,
                    !.rejected = @ \/ (IF n > 0 THEN ~taken ELSE h.hijacked)]
  BY DEF BodyWritten
<1> HIDE DEF h, w
<1>3. /\ h.sent \in [Authors -> Nat] /\ h.written \in Nat
      /\ h.hijacked \in BOOLEAN /\ h.rejected \in BOOLEAN
  BY <1>1 DEF Responses
<1>4. h.sent[a] \in Nat
  BY <1>3
<1>5. /\ (IF taken THEN h.sent[a] + n ELSE h.sent[a]) \in Nat
      /\ (IF taken THEN h.sent[a] + n ELSE h.sent[a]) >= h.sent[a]
      /\ (IF count THEN h.written + n ELSE h.written) \in Nat
  BY <1>3, <1>4
<1> DEFINE s == IF taken THEN h.sent[a] + n ELSE h.sent[a]
           k == IF count THEN h.written + n ELSE h.written
           j == h.rejected \/ (IF n > 0 THEN ~taken ELSE h.hijacked)
<1>6. w = [h EXCEPT !.sent = [h.sent EXCEPT ![a] = s], !.written = k, !.rejected = j]
  BY <1>2
<1>7. j \in BOOLEAN
  OBVIOUS
<1>8. s \in Nat /\ k \in Nat /\ s >= h.sent[a]
  BY <1>5
<1> HIDE DEF s, k, j
<1>9. [h.sent EXCEPT ![a] = s] \in [Authors -> Nat]
  BY <1>3, <1>8
<1>10. w \in Responses
  BY <1>1, <1>6, <1>7, <1>8, <1>9 DEF Responses
<1>11. /\ w.sent = [h.sent EXCEPT ![a] = s] /\ w.author = h.author
       /\ w.committed = h.committed /\ w.hijacked = h.hijacked
  BY <1>1, <1>6 DEF Responses
<1>12. w.sent[a] = s
  BY <1>3, <1>11
<1> QED BY <1>1, <1>8, <1>10, <1>11, <1>12 DEF Taken, w, BodyEffect

\* An envelope is a header and a write of the same author.
LEMMA EnvelopeLemma ==
    ASSUME NEW r \in Responses, NEW code \in Nat, NEW n \in Nat, NEW a \in Authors
    PROVE  BodyEffect(r, BodyWritten(HeaderWritten(r, code, a), n, a), a)
<1> DEFINE h == HeaderWritten(r, code, a)
           w == BodyWritten(h, n, a)
<1>1. HeaderEffect(r, h, a)
  BY HeaderLemma
<1>2. BodyEffect(h, w, a)
  BY <1>1, WriteLemma DEF HeaderEffect
<1> HIDE DEF h, w
<1>3. BodyEffect(r, w, a)
  BY <1>1, <1>2 DEF HeaderEffect, BodyEffect
<1> QED BY <1>3 DEF h, w

-----------------------------------------------------------------------------
(***************************************************************************)
(* The wrappers.                                                           *)
(***************************************************************************)

\* Whatever passes the whole path marks every commitWriter on it and leaves the
\* recorders recorders.
LEMMA ThroughLemma ==
    ASSUME live \in SUBSET Layers, NEW d \in Int, live \subseteq 1..d
    PROVE  \A i \in live : chain[i] = "Recover" => i \in Through("Recover", d)
BY DEF Through, Layers

LEMMA RecorderLemma ==
    ASSUME NEW r \in Recorders, NEW code \in Nat, NEW n \in Nat
    PROVE  /\ RecorderHeader(r, code) \in Recorders
           /\ RecorderWrite(r, n) \in Recorders
           /\ RecorderHijack(r) \in Recorders
<1>1. RecorderHeader(r, code) \in Recorders
  BY DEF RecorderHeader, Recorders
<1>2. RecorderWrite(r, n) \in Recorders
  <2> DEFINE c == IF ~r.capture \/ r.captured >= BodyLimit THEN r.captured
                  ELSE IF r.captured + n =< BodyLimit THEN r.captured + n ELSE BodyLimit
  <2>1. r.captured \in Nat
    BY DEF Recorders
  <2>2. c \in Nat
    BY <2>1, SizesAssumption
  <2>3. RecorderWrite(r, n) = [r EXCEPT !.captured = c]
    BY DEF RecorderWrite
  <2> HIDE DEF c
  <2> QED BY <2>2, <2>3 DEF Recorders
<1>3. RecorderHijack(r) \in Recorders
  BY DEF RecorderHijack, Recorders
<1> QED BY <1>1, <1>2, <1>3

\* The three ways a call passes the wrappers, seen from the invariant.
LEMMA PassLemma ==
    ASSUME TypeOK, NEW d \in Int,
           \/ \E code \in Nat : PassHeader(d, code)
           \/ \E n \in Nat : PassWrite(d, n)
           \/ PassHijack(d)
           \/ \E code \in Nat, a \in Authors : SendEnvelope(d, code, a)
    PROVE  /\ committed' = committed \cup Through("Recover", d)
           /\ committed' \in SUBSET Layers
           /\ rec' \in [Layers -> Recorders]
<1>1. committed' = committed \cup Through("Recover", d)
  BY DEF PassHeader, PassWrite, PassHijack, SendEnvelope, MarkCommitted
<1>2. Through("Recover", d) \in SUBSET Layers
  BY DEF Through, TypeOK
<1>3. rec \in [Layers -> Recorders]
  BY DEF TypeOK
<1>4. rec' \in [Layers -> Recorders]
  <2>1. ASSUME NEW code \in Nat, PassHeader(d, code)
        PROVE  rec' \in [Layers -> Recorders]
    BY <1>3, <2>1, RecorderLemma DEF PassHeader
  <2>2. ASSUME NEW n \in Nat, PassWrite(d, n)
        PROVE  rec' \in [Layers -> Recorders]
    BY <1>3, <2>2, RecorderLemma DEF PassWrite
  <2>3. CASE PassHijack(d)
    BY <1>3, <2>3, RecorderLemma DEF PassHijack
  <2>4. ASSUME NEW code \in Nat, NEW a \in Authors, SendEnvelope(d, code, a)
        PROVE  rec' \in [Layers -> Recorders]
    <3>1. \A r \in Recorders : RecorderWrite(RecorderHeader(r, code), EnvelopeSize) \in Recorders
      BY RecorderLemma, SizesAssumption
    <3> QED BY <1>3, <2>4, <3>1 DEF SendEnvelope
  <2> QED BY <2>1, <2>2, <2>3, <2>4
<1> QED BY <1>1, <1>2, <1>4 DEF TypeOK

-----------------------------------------------------------------------------
(***************************************************************************)
(* The handler's calls all disturb the invariant in one way.               *)
(***************************************************************************)
LiveRecovers == {i \in live : chain[i] = "Recover"}

CallEffect ==
    /\ chain' = chain /\ supports' = supports /\ live' = live /\ log' = log
    /\ ops' \in 0..MaxOps
    /\ \/ mode' = mode /\ at' = at /\ panicVal' = panicVal
       \/ mode' = "panic" /\ at' = Len(chain) /\ panicVal' = "badcode"
    /\ rec' \in [Layers -> Recorders] /\ committed' \in SUBSET Layers
    /\ resp' \in Responses
    /\ Taken(resp) => Taken(resp')
    /\ Taken(resp') => LiveRecovers \subseteq committed'
    /\ resp'.author = IF Taken(resp') THEN "app" ELSE "nobody"
    /\ \A a \in Authors \ {"app"} : resp'.sent[a] = resp.sent[a]
    /\ resp'.sent["app"] >= resp.sent["app"]
    /\ resp'.sent["app"] > 0 => Taken(resp')

\* What the invariant says while the handler runs.
LEMMA RunLemma ==
    ASSUME IInv, mode = "run"
    PROVE  /\ at = Len(chain) + 1 /\ Len(chain) \in Nat /\ live \subseteq 1..Len(chain)
           /\ resp \in Responses /\ resp.sent \in [Authors -> Nat] /\ resp.sent["app"] \in Nat
           /\ resp.author = IF Taken(resp) THEN "app" ELSE "nobody"
           /\ Taken(resp) => LiveRecovers \subseteq committed
           /\ resp.sent["app"] > 0 => Taken(resp)
           /\ committed \in SUBSET Layers /\ rec \in [Layers -> Recorders]
<1>1. Len(chain) \in Nat
  BY ChainsAssumption DEF IInv, TypeOK
<1>2. /\ at = Len(chain) + 1 /\ live \subseteq 1..Len(chain)
      /\ resp \in Responses /\ committed \in SUBSET Layers /\ rec \in [Layers -> Recorders]
  BY DEF IInv, TypeOK, PathShape, Layers
<1>3. resp.sent \in [Authors -> Nat] /\ resp.author \in Authors \cup {"nobody"}
  BY <1>2 DEF Responses
<1>4. resp.author = IF Taken(resp) THEN "app" ELSE "nobody"
  BY <1>3 DEF IInv, OwnerByMode, Authors
<1>5. Taken(resp) => LiveRecovers \subseteq committed
  BY DEF IInv, CommitTracking, LiveRecovers
<1>6. resp.sent["app"] > 0 => Taken(resp)
  BY <1>4 DEF IInv, SingleAuthor, Authors
<1>7. resp.sent["app"] \in Nat
  BY <1>3 DEF Authors
<1> QED BY <1>1, <1>2, <1>3, <1>4, <1>5, <1>6, <1>7

LEMMA CallLemma ==
    ASSUME IInv, HandlerCall
    PROVE  CallEffect
<1>0. mode = "run" /\ ops' \in 0..MaxOps
  BY OpsAssumption DEF HandlerCall, SetContentLength, WriteHeader, Write, Reply, Flush, Hijack,
                       Call, IInv, TypeOK
<1>1. /\ at = Len(chain) + 1 /\ Len(chain) \in Nat /\ live \subseteq 1..Len(chain)
      /\ resp \in Responses /\ resp.sent \in [Authors -> Nat] /\ resp.sent["app"] \in Nat
      /\ resp.author = IF Taken(resp) THEN "app" ELSE "nobody"
      /\ Taken(resp) => LiveRecovers \subseteq committed
      /\ resp.sent["app"] > 0 => Taken(resp)
      /\ committed \in SUBSET Layers /\ rec \in [Layers -> Recorders]
  BY <1>0, RunLemma
<1>2. LiveRecovers \subseteq Through("Recover", Len(chain))
  <2> SUFFICES ASSUME NEW i \in LiveRecovers
               PROVE  i \in Through("Recover", Len(chain))
    OBVIOUS
  <2>1. i \in live /\ chain[i] = "Recover"
    BY DEF LiveRecovers
  <2>2. i =< Len(chain)
    BY <1>1, <2>1
  <2> QED BY <2>1, <2>2 DEF Through
<1>3. "app" \in Authors /\ resp \in Responses /\ TypeOK /\ Len(chain) \in Int
  BY <1>1 DEF Authors, IInv
<1>4. ASSUME NEW n \in Lengths, SetContentLength(n)
      PROVE  CallEffect
  <2>1. n \in Int
    BY LengthsAssumption
  <2>2. resp' = [resp EXCEPT !.declared = n] /\ ~Taken(resp)
    BY <1>4 DEF SetContentLength
  <2>3. resp' \in Responses /\ ~Taken(resp') /\ resp'.author = resp.author /\ resp'.sent = resp.sent
    BY <1>1, <2>1, <2>2 DEF Responses, Taken
  <2> QED BY <1>0, <1>1, <1>4, <2>2, <2>3 DEF SetContentLength, CallEffect, config, path
<1>5. ASSUME NEW code \in Codes, WriteHeader(code)
      PROVE  CallEffect
  <2>1. code \in Nat /\ PassHeader(Len(chain), code)
    BY <1>5, CodesAssumption DEF WriteHeader
  <2>2. /\ committed' = committed \cup Through("Recover", Len(chain))
        /\ committed' \in SUBSET Layers /\ rec' \in [Layers -> Recorders]
    BY <1>3, <2>1, PassLemma
  <2>3. /\ resp' \in Responses /\ resp'.sent = resp.sent
        /\ resp'.author = IF Taken(resp') THEN "app" ELSE "nobody"
        /\ Taken(resp) => Taken(resp')
    <3>1. CASE resp' = resp
      BY <1>1, <3>1
    <3>2. CASE resp' = HeaderWritten(resp, code, "app")
      <4>1. HeaderEffect(resp, resp', "app")
        BY <1>3, <2>1, <3>2, HeaderLemma
      <4> QED BY <1>1, <4>1 DEF HeaderEffect
    <3> QED BY <1>5, <3>1, <3>2 DEF WriteHeader
  <2> QED BY <1>0, <1>1, <1>2, <1>5, <2>2, <2>3 DEF WriteHeader, Raise, CallEffect, config
<1>6. ASSUME NEW n \in Chunks, Write(n)
      PROVE  CallEffect
  <2>1. n \in Nat /\ PassWrite(Len(chain), n) /\ resp' = BodyWritten(resp, n, "app")
    BY <1>6, ChunksAssumption DEF Write
  <2>2. /\ committed' = committed \cup Through("Recover", Len(chain))
        /\ committed' \in SUBSET Layers /\ rec' \in [Layers -> Recorders]
    BY <1>3, <2>1, PassLemma
  <2>3. /\ resp' \in Responses /\ Taken(resp') /\ resp'.author = "app"
        /\ \A a \in Authors \ {"app"} : resp'.sent[a] = resp.sent[a]
        /\ resp'.sent["app"] >= resp.sent["app"]
    <3>1. BodyEffect(resp, resp', "app")
      BY <1>3, <2>1, WriteLemma
    <3> QED BY <1>1, <3>1 DEF BodyEffect
  <2> QED BY <1>0, <1>1, <1>2, <1>6, <2>2, <2>3 DEF Write, CallEffect, config
<1>7. ASSUME NEW code \in Codes, NEW marshals \in BOOLEAN, Reply(code, marshals)
      PROVE  CallEffect
  <2> DEFINE c == IF marshals THEN code ELSE 500
  <2>1. c \in Nat /\ SendEnvelope(Len(chain), c, "app")
    BY <1>7, CodesAssumption DEF Reply
  <2> HIDE DEF c
  <2>2. /\ committed' = committed \cup Through("Recover", Len(chain))
        /\ committed' \in SUBSET Layers /\ rec' \in [Layers -> Recorders]
    BY <1>3, <2>1, PassLemma
  <2>3. /\ resp' \in Responses /\ Taken(resp') /\ resp'.author = "app"
        /\ \A a \in Authors \ {"app"} : resp'.sent[a] = resp.sent[a]
        /\ resp'.sent["app"] >= resp.sent["app"]
    <3>1. BodyEffect(resp, resp', "app")
      BY <1>3, <2>1, SizesAssumption, EnvelopeLemma DEF SendEnvelope
    <3> QED BY <1>1, <3>1 DEF BodyEffect
  <2> QED BY <1>0, <1>1, <1>2, <1>7, <2>2, <2>3 DEF Reply, CallEffect, config
<1>8. CASE Flush
  <2>1. CASE "flush" \in supports
    <3>1. /\ committed' = committed \cup Through("Recover", Len(chain)) /\ rec' = rec
          /\ resp' = ImplicitHeader(resp, "app")
      BY <1>8, <2>1 DEF Flush, MarkCommitted
    <3>2. committed' \in SUBSET Layers
      BY <1>1, <1>3, <3>1 DEF Through, TypeOK
    <3>3. 200 \in Nat /\ ~Informational(200)
      BY DEF Informational
    <3>4. resp' \in Responses /\ Taken(resp') /\ resp'.author = "app" /\ resp'.sent = resp.sent
      <4>1. CASE Taken(resp)
        BY <1>1, <3>1, <4>1 DEF ImplicitHeader
      <4>2. CASE ~Taken(resp)
        BY <1>1, <1>3, <3>1, <3>3, <4>2, HeaderLemma, SMTT(30) DEF ImplicitHeader, HeaderEffect
      <4> QED BY <4>1, <4>2
    <3> QED BY <1>0, <1>1, <1>2, <1>8, <3>1, <3>2, <3>4 DEF Flush, CallEffect, config
  <2>2. CASE "flush" \notin supports
    BY <1>0, <1>1, <1>8, <2>2 DEF Flush, CallEffect, config
  <2> QED BY <2>1, <2>2
<1>9. CASE Hijack
  <2>1. CASE "hijack" \in supports /\ HijackAccepted(resp)
    <3>1. PassHijack(Len(chain)) /\ resp' = Hijacked(resp)
      BY <1>9, <2>1 DEF Hijack
    <3>2. /\ committed' = committed \cup Through("Recover", Len(chain))
          /\ committed' \in SUBSET Layers /\ rec' \in [Layers -> Recorders]
      BY <1>3, <3>1, PassLemma
    <3>3. resp' \in Responses /\ Taken(resp') /\ resp'.sent = resp.sent
      BY <1>1, <1>3, <3>1 DEF Hijacked, Responses, Taken
    <3>4. resp'.author = "app"
      BY <1>1, <2>1, <3>1 DEF Hijacked, Responses, Taken, HijackAccepted
    <3> QED BY <1>0, <1>1, <1>2, <1>9, <3>2, <3>3, <3>4 DEF Hijack, CallEffect, config
  <2>2. CASE ~("hijack" \in supports /\ HijackAccepted(resp))
    BY <1>0, <1>1, <1>9, <2>2 DEF Hijack, CallEffect, config
  <2> QED BY <2>1, <2>2
<1> QED BY <1>4, <1>5, <1>6, <1>7, <1>8, <1>9 DEF HandlerCall

\* A call with that effect keeps the invariant.
LEMMA CallInvariant ==
    ASSUME IInv, HandlerCall
    PROVE  IInv'
<1>1. CallEffect
  BY CallLemma
<1>2. mode = "run"
  BY DEF HandlerCall, SetContentLength, WriteHeader, Write, Reply, Flush, Hijack, Call
<1>3. /\ at = Len(chain) + 1 /\ Len(chain) \in Nat /\ live \subseteq 1..Len(chain)
      /\ resp.sent \in [Authors -> Nat]
      /\ resp.author = IF Taken(resp) THEN "app" ELSE "nobody"
  BY <1>2, RunLemma
<1>4. TypeOK'
  <2>1. chain' \in Chains /\ supports' \in SUBSET {"flush", "hijack"} /\ Layers' = Layers
    BY <1>1 DEF CallEffect, IInv, TypeOK, Layers
  <2>2. mode' \in Modes /\ at' \in 0..(Len(chain') + 1) /\ panicVal' \in Panics \cup {"none"}
    BY <1>1, <1>2, <1>3 DEF CallEffect, IInv, TypeOK, Modes, Panics
  <2>3. live' \in SUBSET Layers' /\ log' \in Seq(Lines)
    BY <1>1, <2>1 DEF CallEffect, IInv, TypeOK
  <2> QED BY <1>1, <2>1, <2>2, <2>3 DEF CallEffect, TypeOK
<1>5. PathShape'
  BY <1>1, <1>2, <1>3 DEF CallEffect, PathShape, Over
<1>6. OwnerByMode'
  <2>1. mode' \in {"run", "panic"} /\ resp'.author = IF Taken(resp') THEN "app" ELSE "nobody"
    BY <1>1, <1>2 DEF CallEffect
  <2> QED BY <2>1 DEF OwnerByMode
<1>7. CommitTracking'
  BY <1>1 DEF CallEffect, CommitTracking, LiveRecovers
<1>8. SingleAuthor'
  <2> SUFFICES ASSUME NEW a \in Authors, resp'.sent[a] > 0
               PROVE  resp'.author = a
    BY DEF SingleAuthor
  <2>1. CASE a = "app"
    BY <1>1, <2>1 DEF CallEffect
  <2>2. CASE a # "app"
    <3>1. resp.sent[a] > 0
      BY <1>1, <2>2 DEF CallEffect
    <3>2. resp.author = a
      BY <3>1 DEF IInv, SingleAuthor
    <3> QED BY <1>3, <2>2, <3>2 DEF Authors
  <2> QED BY <2>1, <2>2
<1> QED BY <1>4, <1>5, <1>6, <1>7, <1>8 DEF IInv

-----------------------------------------------------------------------------
(***************************************************************************)
(* The steps that leave the response to others only move the control.      *)
(***************************************************************************)

\* A step of the control that neither answers nor widens the path.
Moves ==
    /\ chain' = chain /\ supports' = supports
    /\ committed' = committed /\ ops' = ops
    /\ mode' \in Modes /\ at' \in 0..(Len(chain) + 1) /\ live' \in SUBSET Layers
    /\ rec' \in [Layers -> Recorders]
    /\ panicVal' \in Panics \cup {"none"} /\ log' \in Seq(Lines)
    /\ resp' \in Responses /\ Taken(resp') = Taken(resp)
    /\ resp'.author = resp.author /\ resp'.sent = resp.sent
    /\ \/ mode' = mode
       \/ mode = "down" /\ mode' = "run"
       \/ mode = "run" /\ mode' \in {"up", "panic"}
       \/ mode = "panic" /\ mode' = "aborted"
    /\ PathShape'
    /\ \A i \in live' : i \in live \/ ~Taken(resp)

LEMMA MovesInvariant ==
    ASSUME IInv, Moves
    PROVE  IInv'
<1>1. TypeOK' /\ PathShape'
  BY DEF Moves, IInv, TypeOK, Layers
<1>2. OwnerByMode'
  BY DEF Moves, IInv, TypeOK, Modes, OwnerByMode
<1>3. CommitTracking'
  BY DEF Moves, IInv, CommitTracking
<1>4. SingleAuthor'
  BY DEF Moves, IInv, SingleAuthor
<1> QED BY <1>1, <1>2, <1>3, <1>4 DEF IInv

\* Seq is closed under logging a line of a layer.
LEMMA LogLemma ==
    ASSUME IInv, NEW k \in {"in", "out", "panic"}, NEW i \in Nat, NEW c \in Nat,
           NEW b \in Nat, NEW v \in Panics \cup {"none"}
    PROVE  Append(log, Line(k, i, c, b, v)) \in Seq(Lines)
<1>1. Line(k, i, c, b, v) \in Lines
  BY DEF Line, Lines
<1>2. log \in Seq(Lines)
  BY DEF IInv, TypeOK
<1> QED BY <1>1, <1>2

\* The middleware on the way down, but for the 413 of MaxBody.
LEMMA DownMoves ==
    ASSUME IInv, Down, ~RejectBody
    PROVE  Moves
<1>1. /\ Len(chain) \in Nat /\ Layers = 1..Len(chain) /\ TypeOK /\ PathShape
      /\ resp \in Responses
  BY ChainsAssumption DEF IInv, TypeOK, Layers
<1>2. mode = "down" /\ at \in 1..(Len(chain) + 1) /\ live \subseteq 1..(at - 1) /\ ~Taken(resp)
  BY <1>1 DEF Down, EnterRecover, SkipRecord, EnterRecord, PassMaxBody, RejectBody,
              EnterCorrelationID, EnterIdempotencyKey, StartHandler, Entering, TypeOK, PathShape,
              IInv, OwnerByMode
<1>3. NewRecorder(TRUE) \in Recorders /\ NewRecorder(FALSE) \in Recorders
  BY DEF NewRecorder, Recorders
<1>4. CASE EnterRecover
  <2>1. /\ at \in Layers /\ live' = live \cup {at} /\ at' = at + 1 /\ mode' = mode
        /\ UNCHANGED <<config, committed, rec, resp, panicVal, log, ops>>
    BY <1>4 DEF EnterRecover, Entering
  <2>2. live' \in SUBSET Layers /\ live' \subseteq 1..(at' - 1) /\ at' \in 0..(Len(chain) + 1)
    BY <1>1, <1>2, <2>1
  <2>3. PathShape'
    BY <1>1, <1>2, <2>1, <2>2 DEF PathShape, Over
  <2> QED BY <1>1, <1>2, <2>1, <2>2, <2>3 DEF Moves, TypeOK, config
<1>5. CASE SkipRecord \/ PassMaxBody \/ EnterIdempotencyKey
  <2>1. /\ at \in Layers /\ at' = at + 1 /\ mode' = mode
        /\ UNCHANGED <<config, path, resp, panicVal, log, ops>>
    BY <1>5 DEF SkipRecord, PassMaxBody, EnterIdempotencyKey, Entering
  <2>2. live' \in SUBSET Layers /\ live' \subseteq 1..(at' - 1) /\ at' \in 0..(Len(chain) + 1)
    BY <1>1, <1>2, <2>1 DEF path, TypeOK
  <2>3. PathShape'
    BY <1>1, <1>2, <2>1, <2>2 DEF PathShape, Over
  <2> QED BY <1>1, <1>2, <2>1, <2>2, <2>3 DEF Moves, TypeOK, config, path
<1>6. ASSUME NEW logBody \in BOOLEAN, EnterRecord(logBody)
      PROVE  Moves
  <2>1. log' \in Seq(Lines)
    BY <1>1, <1>2, <1>6, LogLemma DEF EnterRecord
  <2>2. rec' \in [Layers -> Recorders]
    BY <1>1, <1>3, <1>6 DEF EnterRecord, TypeOK
  <2> QED BY <1>1, <1>2, <1>6, <2>1, <2>2 DEF EnterRecord, Entering, Moves, TypeOK, PathShape,
                                              Over, config
<1>7. CASE EnterCorrelationID
  <2>1. resp' \in Responses /\ Taken(resp') = Taken(resp) /\ resp'.author = resp.author
        /\ resp'.sent = resp.sent
    BY <1>1, <1>7 DEF EnterCorrelationID, Responses, Taken
  <2> QED BY <1>1, <1>2, <1>7, <2>1 DEF EnterCorrelationID, Entering, Moves, TypeOK, PathShape,
                                        Over, config, path
<1>8. CASE StartHandler
  BY <1>1, <1>2, <1>8 DEF StartHandler, Moves, TypeOK, Modes, PathShape, Over, config, path
<1> QED BY <1>4, <1>5, <1>6, <1>7, <1>8 DEF Down

\* The handler's return and its panics.
LEMMA LeaveMoves ==
    ASSUME IInv, Return \/ \E v \in {"error", "abort"} : Panic(v)
    PROVE  Moves
<1>1. /\ mode = "run" /\ mode' \in {"up", "panic"} /\ at' = Len(chain)
      /\ panicVal' \in Panics \cup {"none"}
      /\ UNCHANGED <<config, path, resp, log, ops>>
  BY DEF Return, Panic, Raise, Panics, IInv, TypeOK
<1>2. /\ at = Len(chain) + 1 /\ Len(chain) \in Nat /\ live \subseteq 1..Len(chain)
  BY <1>1, RunLemma
<1> QED BY <1>1, <1>2 DEF Moves, IInv, TypeOK, Modes, PathShape, Over, config, path

\* The way up and out, but for an answer of Recover or of net/http.
LEMMA UpMoves ==
    ASSUME IInv, ReturnRecord \/ ReturnOther \/ RepanicAbort \/ UnwindOther \/ ServerAbort
    PROVE  Moves
<1>1. /\ Len(chain) \in Nat /\ Layers = 1..Len(chain) /\ TypeOK /\ PathShape
      /\ live \subseteq 1..at /\ at \in 0..Len(chain)
  BY ChainsAssumption DEF IInv, TypeOK, Layers, PathShape, ReturnRecord, ReturnOther,
                          RepanicAbort, UnwindOther, ServerAbort
<1>2. CASE ReturnRecord
  <2>1. LoggedStatus(rec[at]) \in Nat /\ LoggedBody(rec[at]) \in Nat /\ at \in Nat
    BY <1>1, <1>2, SMTT(30) DEF ReturnRecord, TypeOK, Recorders, LoggedStatus, LoggedBody
  <2>2. log' \in Seq(Lines)
    BY <1>2, <2>1, LogLemma DEF ReturnRecord
  <2> QED BY <1>1, <1>2, <2>2 DEF ReturnRecord, Moves, TypeOK, PathShape, Over, config
<1>3. CASE ReturnOther \/ RepanicAbort \/ UnwindOther
  <2>1. /\ at \in Layers /\ live' = live \ {at} /\ at' = at - 1 /\ mode' = mode
        /\ mode \in {"up", "panic"}
        /\ UNCHANGED <<config, committed, rec, resp, panicVal, log, ops>>
    BY <1>1, <1>3 DEF ReturnOther, RepanicAbort, UnwindOther
  <2>2. live' \in SUBSET Layers /\ live' \subseteq 1..at' /\ at' \in 0..(Len(chain) + 1)
    BY <1>1, <2>1
  <2>3. PathShape'
    BY <1>1, <2>1, <2>2 DEF PathShape, Over, config
  <2> QED BY <1>1, <2>1, <2>2, <2>3 DEF Moves, TypeOK, config
<1>4. CASE ServerAbort
  BY <1>1, <1>4 DEF ServerAbort, Moves, TypeOK, Modes, PathShape, Over, config, path
<1> QED BY <1>2, <1>3, <1>4

-----------------------------------------------------------------------------
(***************************************************************************)
(* The steps that answer: MaxBody, Recover, net/http.                      *)
(***************************************************************************)

\* An answer to a response nobody took keeps what the invariant says of it.
LEMMA AnswerLemma ==
    ASSUME NEW r \in Responses, NEW w \in Responses, NEW a \in Authors,
           ~Taken(r), r.author = "nobody", \A b \in Authors : r.sent[b] > 0 => r.author = b,
           BodyEffect(r, w, a) \/ (HeaderEffect(r, w, a) /\ Taken(w))
    PROVE  /\ w.author = a /\ Taken(w)
           /\ \A b \in Authors : w.sent[b] > 0 => w.author = b
<1>1. w.author = a /\ Taken(w)
  BY DEF BodyEffect, HeaderEffect
<1>2. ASSUME NEW b \in Authors, b # a
      PROVE  ~(w.sent[b] > 0)
  <2>1. w.sent[b] = r.sent[b]
    BY <1>2 DEF BodyEffect, HeaderEffect
  <2>2. r.author # b
    BY DEF Authors
  <2> QED BY <2>1, <2>2
<1> QED BY <1>1, <1>2

LEMMA RejectInvariant ==
    ASSUME IInv, RejectBody
    PROVE  IInv'
<1>1. /\ Len(chain) \in Nat /\ Layers = 1..Len(chain) /\ TypeOK /\ PathShape
      /\ resp \in Responses /\ 413 \in Nat /\ "kit" \in Authors
      /\ mode = "down" /\ at \in Layers /\ live \subseteq 1..(at - 1)
      /\ ~Taken(resp) /\ resp.author = "nobody"
      /\ \A b \in Authors : resp.sent[b] > 0 => resp.author = b
  BY ChainsAssumption DEF IInv, TypeOK, Layers, RejectBody, Entering, PathShape, OwnerByMode,
                          SingleAuthor, Authors
<1>2. /\ SendEnvelope(at - 1, 413, "kit") /\ mode' = "up" /\ at' = at - 1
      /\ UNCHANGED <<config, live, panicVal, log, ops>>
  BY DEF RejectBody
<1>3. BodyEffect(resp, resp', "kit")
  BY <1>1, <1>2, SizesAssumption, EnvelopeLemma DEF SendEnvelope
<1>4. /\ resp' \in Responses /\ resp'.author = "kit" /\ Taken(resp')
      /\ \A b \in Authors : resp'.sent[b] > 0 => resp'.author = b
  <2>1. resp' \in Responses
    BY <1>3 DEF BodyEffect
  <2> QED BY <1>1, <1>3, <2>1, AnswerLemma
<1>5. at - 1 \in Int
  BY <1>1
<1>6. /\ committed' = committed \cup Through("Recover", at - 1)
      /\ committed' \in SUBSET Layers /\ rec' \in [Layers -> Recorders]
  BY <1>1, <1>2, <1>5, PassLemma
<1>7. TypeOK'
  <2>1. at' \in 0..(Len(chain) + 1)
    BY <1>1, <1>2
  <2> QED BY <1>1, <1>2, <1>4, <1>6, <2>1 DEF TypeOK, Modes, Layers, config
<1>8. PathShape'
  BY <1>1, <1>2 DEF PathShape, Over, config
<1>9. OwnerByMode'
  BY <1>2, <1>4 DEF OwnerByMode
<1>10. CommitTracking'
  <2>1. \A i \in live : chain[i] = "Recover" => i \in Through("Recover", at - 1)
    BY <1>1, <1>5, ThroughLemma DEF TypeOK
  <2> QED BY <1>2, <1>6, <2>1 DEF CommitTracking, config
<1>11. SingleAuthor'
  BY <1>4 DEF SingleAuthor
<1> QED BY <1>7, <1>8, <1>9, <1>10, <1>11 DEF IInv

LEMMA RecoverInvariant ==
    ASSUME IInv, RecoverPanic
    PROVE  IInv'
<1>1. /\ Len(chain) \in Nat /\ Layers = 1..Len(chain) /\ TypeOK /\ PathShape
      /\ resp \in Responses /\ 500 \in Nat /\ "kit" \in Authors
      /\ mode = "panic" /\ at \in live /\ at \in Layers /\ live \subseteq 1..at
      /\ chain[at] = "Recover" /\ panicVal # "abort"
      /\ \A b \in Authors : resp.sent[b] > 0 => resp.author = b
  BY ChainsAssumption DEF IInv, TypeOK, Layers, RecoverPanic, PathShape, SingleAuthor, Authors
<1>2. /\ mode' = "up" /\ at' = at - 1 /\ live' = live \ {at}
      /\ log' = Append(log, Line("panic", at, 0, 0, panicVal))
      /\ UNCHANGED <<config, panicVal, ops>>
  BY DEF RecoverPanic
<1>3. log' \in Seq(Lines)
  <2>1. panicVal \in Panics \cup {"none"} /\ at \in Nat
    BY <1>1 DEF TypeOK
  <2> QED BY <1>2, <2>1, LogLemma
<1>4. PathShape'
  <2>1. live' \subseteq 1..at' /\ at' =< Len(chain)
    BY <1>1, <1>2
  <2> QED BY <1>2, <2>1 DEF PathShape, Over, config
<1>5. at' \in 0..(Len(chain) + 1) /\ live' \in SUBSET Layers
  BY <1>1, <1>2 DEF TypeOK
<1>6. CASE at \in committed
  <2>1. UNCHANGED <<committed, rec, resp>>
    BY <1>6 DEF RecoverPanic
  <2>2. TypeOK'
    BY <1>1, <1>2, <1>3, <1>5, <2>1 DEF TypeOK, Modes, Layers, config
  <2>3. OwnerByMode'
    BY <1>1, <1>2, <2>1 DEF IInv, OwnerByMode
  <2>4. CommitTracking' /\ SingleAuthor'
    BY <1>1, <1>2, <2>1 DEF IInv, CommitTracking, SingleAuthor, config
  <2> QED BY <1>4, <2>2, <2>3, <2>4 DEF IInv
<1>7. CASE at \notin committed
  <2>1. SendEnvelope(at, 500, "kit")
    BY <1>7 DEF RecoverPanic
  <2>2. ~Taken(resp) /\ resp.author = "nobody"
    BY <1>1, <1>7 DEF IInv, CommitTracking, OwnerByMode
  <2>3. BodyEffect(resp, resp', "kit")
    BY <1>1, <2>1, SizesAssumption, EnvelopeLemma DEF SendEnvelope
  <2>4. /\ resp' \in Responses /\ resp'.author = "kit" /\ Taken(resp')
        /\ \A b \in Authors : resp'.sent[b] > 0 => resp'.author = b
    <3>1. resp' \in Responses
      BY <2>3 DEF BodyEffect
    <3> QED BY <1>1, <2>2, <2>3, <3>1, AnswerLemma
  <2>5. at \in Int
    BY <1>1
  <2>6. /\ committed' = committed \cup Through("Recover", at)
        /\ committed' \in SUBSET Layers /\ rec' \in [Layers -> Recorders]
    BY <1>1, <2>1, <2>5, PassLemma, ZenonT(40)
  <2>7. TypeOK'
    BY <1>1, <1>2, <1>3, <1>5, <2>4, <2>6 DEF TypeOK, Modes, Layers, config
  <2>8. OwnerByMode'
    BY <1>2, <2>4 DEF OwnerByMode
  <2>9. CommitTracking'
    <3>1. \A i \in live : chain[i] = "Recover" => i \in Through("Recover", at)
      BY <1>1, <2>5, ThroughLemma DEF TypeOK
    <3> QED BY <1>2, <2>6, <3>1 DEF CommitTracking, config
  <2>10. SingleAuthor'
    BY <2>4 DEF SingleAuthor
  <2> QED BY <1>4, <2>7, <2>8, <2>9, <2>10 DEF IInv
<1> QED BY <1>6, <1>7

LEMMA FinishInvariant ==
    ASSUME IInv, Finish
    PROVE  /\ IInv'
           /\ resp'.sent = resp.sent
           /\ resp'.author = IF Taken(resp) THEN resp.author ELSE "server"
<1>1. /\ Len(chain) \in Nat /\ Layers = 1..Len(chain) /\ TypeOK /\ PathShape
      /\ resp \in Responses /\ 200 \in Nat /\ ~Informational(200) /\ "server" \in Authors
      /\ mode = "up" /\ at = 0 /\ live \subseteq 1..at
      /\ \A b \in Authors : resp.sent[b] > 0 => resp.author = b
  BY ChainsAssumption DEF IInv, TypeOK, Layers, Finish, PathShape, SingleAuthor, Authors,
                          Informational
<1>2. /\ mode' = "done" /\ resp' = Finished(resp)
      /\ UNCHANGED <<config, at, path, panicVal, log, ops>>
  BY DEF Finish
<1>3. /\ resp' \in Responses /\ Taken(resp') /\ resp'.sent = resp.sent
      /\ resp'.author = IF Taken(resp) THEN resp.author ELSE "server"
      /\ \A b \in Authors : resp'.sent[b] > 0 => resp'.author = b
  <2>1. CASE Taken(resp)
    BY <1>1, <1>2, <2>1 DEF Finished, ImplicitHeader
  <2>2. CASE ~Taken(resp)
    <3>1. HeaderEffect(resp, resp', "server") /\ Taken(resp')
      BY <1>1, <1>2, <2>2, HeaderLemma DEF Finished, ImplicitHeader
    <3>2. resp.author = "nobody"
      BY <2>2 DEF IInv, OwnerByMode
    <3>3. resp' \in Responses
      BY <3>1 DEF HeaderEffect
    <3>4. /\ resp'.author = "server"
          /\ \A b \in Authors : resp'.sent[b] > 0 => resp'.author = b
      BY <1>1, <2>2, <3>1, <3>2, <3>3, AnswerLemma
    <3> QED BY <2>2, <3>1, <3>3, <3>4 DEF HeaderEffect
  <2> QED BY <2>1, <2>2
<1>4. live = {}
  BY <1>1
<1>5. TypeOK'
  BY <1>1, <1>2, <1>3 DEF TypeOK, Modes, Layers, config, path
<1>6. PathShape' /\ CommitTracking'
  BY <1>1, <1>2, <1>4 DEF PathShape, CommitTracking, Over, config, path
<1>7. resp'.author # "nobody"
  BY <1>1, <1>3 DEF IInv, OwnerByMode
<1>8. OwnerByMode' /\ SingleAuthor'
  BY <1>2, <1>3, <1>7 DEF OwnerByMode, SingleAuthor
<1> QED BY <1>3, <1>5, <1>6, <1>8 DEF IInv

-----------------------------------------------------------------------------
(***************************************************************************)
(* The invariant and what follows from it.                                 *)
(***************************************************************************)
LEMMA InitInvariant ==
    ASSUME Init
    PROVE  IInv
<1>1. Len(chain) \in Nat /\ chain \in Chains
  BY ChainsAssumption DEF Init
<1>2. NewRecorder(FALSE) \in Recorders /\ NewResponse \in Responses
  BY DEF NewRecorder, Recorders, NewResponse, Responses, NoLength, Authors
<1>3. TypeOK
  <2>1. /\ supports \in SUBSET {"flush", "hijack"} /\ mode \in Modes
        /\ at \in 0..(Len(chain) + 1) /\ ops \in 0..MaxOps
    BY <1>1, OpsAssumption DEF Init, Modes
  <2>2. live \in SUBSET Layers /\ committed \in SUBSET Layers /\ rec \in [Layers -> Recorders]
    BY <1>2 DEF Init
  <2>3. resp \in Responses /\ panicVal \in Panics \cup {"none"} /\ log \in Seq(Lines)
    BY <1>2 DEF Init
  <2> QED BY <1>1, <2>1, <2>2, <2>3 DEF TypeOK
<1>4. ~Taken(resp) /\ resp.author = "nobody"
  BY DEF Init, NewResponse, Taken
<1>5. \A a \in Authors : resp.sent[a] = 0
  BY DEF Init, NewResponse
<1>6. SingleAuthor
  BY <1>5 DEF SingleAuthor
<1> QED BY <1>3, <1>4, <1>6 DEF IInv, Init, PathShape, OwnerByMode, CommitTracking, Over

LEMMA NextInvariant ==
    ASSUME IInv, [Next]_vars
    PROVE  IInv'
<1>1. CASE HandlerCall
  BY <1>1, CallInvariant
<1>2. CASE Return \/ \E v \in {"error", "abort"} : Panic(v)
  BY <1>2, LeaveMoves, MovesInvariant
<1>3. CASE Down /\ ~RejectBody
  BY <1>3, DownMoves, MovesInvariant
<1>4. CASE RejectBody
  BY <1>4, RejectInvariant
<1>5. CASE ReturnRecord \/ ReturnOther \/ RepanicAbort \/ UnwindOther \/ ServerAbort
  BY <1>5, UpMoves, MovesInvariant
<1>6. CASE RecoverPanic
  BY <1>6, RecoverInvariant
<1>7. CASE Finish
  BY <1>7, FinishInvariant
<1>8. CASE UNCHANGED vars
  BY <1>8 DEF vars, IInv, TypeOK, PathShape, OwnerByMode, CommitTracking, SingleAuthor,
              Layers, Over
<1> QED BY <1>1, <1>2, <1>3, <1>4, <1>5, <1>6, <1>7, <1>8 DEF Next, Handler, Up, Terminated

\* The inductive invariant holds of every exchange, for every set of chains,
\* status codes, lengths, chunks, sizes and number of calls.
THEOREM Invariance == Spec => []IInv
<1>1. Init => IInv
  BY InitInvariant
<1>2. IInv /\ [Next]_vars => IInv'
  BY NextInvariant
<1> QED BY <1>1, <1>2, PTL DEF Spec

\* The variables keep their types: no layer is left twice, no wrapper outlives
\* its layer's call, whatever the order of the middleware.
THEOREM TypeCorrectness == Spec => []TypeOK
<1>1. IInv => TypeOK
  BY DEF IInv
<1> QED BY <1>1, Invariance, PTL

\* Every commitWriter on the path knows of a response that is out of the
\* handler's hands: a Recover never takes a started response for an open one.
THEOREM CommitIsSeen == Spec => []CommitTracking
<1>1. IInv => CommitTracking
  BY DEF IInv
<1> QED BY <1>1, Invariance, PTL

\* No chain of middleware and no handler makes a body of two authors: the
\* envelope of Recover or MaxBody is never appended to the handler's bytes.
THEOREM EnvelopeNeverMixed == Spec => []SingleAuthor
<1>1. IInv => SingleAuthor
  BY DEF IInv
<1> QED BY <1>1, Invariance, PTL

-----------------------------------------------------------------------------
(***************************************************************************)
(* The refinement: every step of an exchange is a step of ResponseOwnership *)
(* or leaves the answer alone.                                             *)
(***************************************************************************)
LEMMA OneGrows ==
    ASSUME NEW a \in Authors, resp.sent \in [Authors -> Nat], resp'.sent \in [Authors -> Nat],
           \A b \in Authors \ {a} : resp'.sent[b] = resp.sent[b],
           resp'.sent[a] >= resp.sent[a]
    PROVE  Ownership!Grows(a)
<1>1. resp'.sent = [resp.sent EXCEPT ![a] = resp'.sent[a]]
  OBVIOUS
<1> QED BY <1>1 DEF Ownership!Grows

LEMMA StepRefines ==
    ASSUME IInv, [Next]_vars
    PROVE  [Ownership!Next]_<<resp.author, resp.sent, Over>>
<1>0. /\ resp \in Responses /\ resp' \in Responses
      /\ resp.sent \in [Authors -> Nat] /\ resp'.sent \in [Authors -> Nat]
      /\ resp.author \in Authors \cup {"nobody"}
  <2>1. IInv'
    BY NextInvariant
  <2> QED BY <2>1 DEF IInv, TypeOK, Responses
<1>1. CASE HandlerCall
  <2>1. CallEffect
    BY <1>1, CallLemma
  <2>2. mode = "run" /\ ~Over /\ ~Over'
    BY <1>1, <2>1 DEF HandlerCall, SetContentLength, WriteHeader, Write, Reply, Flush, Hijack,
                      Call, CallEffect, Over
  <2>3. resp.author = IF Taken(resp) THEN "app" ELSE "nobody"
    BY <2>2, RunLemma
  <2>4. Ownership!Grows("app")
    BY <1>0, <2>1, OneGrows DEF CallEffect, Authors
  <2>5. CASE Taken(resp')
    <3>1. resp'.author = "app"
      BY <2>1, <2>5 DEF CallEffect
    <3>2. Ownership!Claim("app") \/ Ownership!Extend("app")
      BY <2>2, <2>3, <2>4, <3>1 DEF Ownership!Claim, Ownership!Extend, Over
    <3> QED BY <3>2 DEF Ownership!Next, Authors, Ownership!Authors
  <2>6. CASE ~Taken(resp')
    <3>1. resp'.sent["app"] = 0 /\ resp.sent["app"] = 0
      BY <1>0, <2>1, <2>6 DEF CallEffect, Authors
    <3>2. \A b \in Authors : resp'.sent[b] = resp.sent[b]
      BY <2>1, <3>1 DEF CallEffect
    <3>3. resp'.sent = resp.sent
      BY <1>0, <3>2
    <3>4. ~Taken(resp)
      BY <2>1, <2>6 DEF CallEffect
    <3> QED BY <2>1, <2>2, <2>3, <2>6, <3>3, <3>4 DEF CallEffect, Over
  <2> QED BY <2>5, <2>6
<1>2. ASSUME Moves
      PROVE  [Ownership!Next]_<<resp.author, resp.sent, Over>>
  <2>1. resp'.author = resp.author /\ resp'.sent = resp.sent
    BY <1>2 DEF Moves
  <2>2. Over' = Over \/ (~Over /\ Over')
    BY <1>2 DEF Moves, Over
  <2>3. CASE Over' = Over
    BY <2>1, <2>3
  <2>4. CASE ~Over /\ Over'
    <3>1. Ownership!Close
      BY <2>1, <2>4 DEF Ownership!Close, Over
    <3> QED BY <3>1 DEF Ownership!Next
  <2> QED BY <2>2, <2>3, <2>4
<1>3. CASE RejectBody \/ (RecoverPanic /\ at \notin committed)
  <2>1. /\ ~Over /\ ~Over' /\ ~Taken(resp) /\ resp.author = "nobody"
        /\ \E d \in Int, code \in Nat : SendEnvelope(d, code, "kit")
    <3>1. CASE RejectBody
      <4>1. SendEnvelope(at - 1, 413, "kit") /\ mode = "down" /\ mode' = "up" /\ at - 1 \in Int
        BY <3>1 DEF RejectBody, Entering, Layers
      <4> QED BY <4>1 DEF IInv, OwnerByMode, Over
    <3>2. CASE RecoverPanic /\ at \notin committed
      <4>1. /\ SendEnvelope(at, 500, "kit") /\ mode = "panic" /\ mode' = "up"
            /\ at \in live /\ chain[at] = "Recover" /\ at \in Int
        BY <3>2 DEF RecoverPanic, IInv, TypeOK
      <4> QED BY <3>2, <4>1 DEF IInv, OwnerByMode, CommitTracking, Over
    <3> QED BY <1>3, <3>1, <3>2
  <2>2. "kit" \in Authors
    BY DEF Authors
  <2>3. BodyEffect(resp, resp', "kit")
    BY <1>0, <2>1, <2>2, SizesAssumption, EnvelopeLemma DEF SendEnvelope
  <2>4. resp'.author = "kit" /\ Ownership!Grows("kit")
    BY <1>0, <2>1, <2>2, <2>3, OneGrows DEF BodyEffect
  <2>5. Ownership!Claim("kit")
    BY <2>1, <2>4 DEF Ownership!Claim, Over
  <2> QED BY <2>2, <2>5 DEF Ownership!Next, Authors, Ownership!Authors
<1>4. CASE RecoverPanic /\ at \in committed
  BY <1>4 DEF RecoverPanic, Over
<1>5. CASE Finish
  <2>1. /\ ~Over /\ Over' /\ resp'.sent = resp.sent
        /\ resp'.author = IF Taken(resp) THEN resp.author ELSE "server"
    BY <1>5, FinishInvariant DEF Finish, Over
  <2>2. \/ resp'.author = resp.author
        \/ resp.author = "nobody" /\ resp'.author = "server"
    BY <2>1 DEF IInv, OwnerByMode
  <2>3. Ownership!Close
    BY <2>1, <2>2 DEF Ownership!Close, Over
  <2> QED BY <2>3 DEF Ownership!Next
<1>6. CASE UNCHANGED vars
  BY <1>6 DEF vars, Over
<1>7. CASE Down /\ ~RejectBody
  BY <1>2, <1>7, DownMoves
<1>8. CASE Return \/ \E v \in {"error", "abort"} : Panic(v)
  BY <1>2, <1>8, LeaveMoves
<1>9. CASE ReturnRecord \/ ReturnOther \/ RepanicAbort \/ UnwindOther \/ ServerAbort
  BY <1>2, <1>9, UpMoves
<1> QED BY <1>1, <1>3, <1>4, <1>5, <1>6, <1>7, <1>8, <1>9 DEF Next, Handler, Up, Terminated

\* Every exchange, seen from the client, is one of ResponseOwnership: one author
\* answers, its bytes only grow, and nothing follows the end.
THEOREM RefinesOwnership == Spec => OwnershipSpec
<1>1. Init => Ownership!Init
  BY DEF Init, Ownership!Init, NewResponse, Over, Authors, Ownership!Authors
<1>2. IInv /\ [Next]_vars => [Ownership!Next]_<<resp.author, resp.sent, Over>>
  BY StepRefines
<1> QED BY <1>1, <1>2, Invariance, PTL DEF Spec, OwnershipSpec, Ownership!Spec

-----------------------------------------------------------------------------
(***************************************************************************)
(* What is logged and how an exchange ends: the fate of a panic, the lines *)
(* of a request, the status and the body they report, the correlation id   *)
(* of the response.  LogInv adds to IInv what the recorders know of the    *)
(* response.                                                               *)
(***************************************************************************)

\* A Recover that is still to be passed on the way out is on the path.
Ahead(i) ==
    \/ mode = "down" /\ i < at
    \/ mode = "run"
    \/ mode \in {"panic", "up"} /\ i =< at

RecoversLive == \A i \in Layers : (chain[i] = "Recover" /\ Ahead(i)) => i \in live

\* The one panic of an exchange: in flight it has passed no Recover unless it is
\* an abort, contained it is logged, and an abort is never contained.
PanicKnown ==
    /\ mode \in {"down", "run"} => panicVal = "none"
    /\ mode \in {"panic", "aborted"} =>
         /\ panicVal # "none"
         /\ panicVal = "abort" \/ \A i \in Layers : i > at => chain[i] # "Recover"
    /\ mode \in {"up", "done"} => panicVal # "abort" /\ (panicVal # "none" => PanicLines # {})
    /\ \A l \in PanicLines : l.value = panicVal /\ l.layer \in Layers /\ chain[l.layer] = "Recover"

\* The header map has the correlation id once CorrelationID was passed, and the
\* header goes out with what the map has; a MaxBody further out answers 413.
Rejected(i) ==
    resp.committed /\ resp.status = 413 /\ \E j \in 1..(i - 1) : chain[j] = "MaxBody"

Correlations ==
    /\ resp.committed => resp.correlated = resp.correlation
    /\ \A i \in Layers : chain[i] = "CorrelationID" =>
         /\ mode = "down" /\ i < at => resp.correlation
         /\ mode \in {"run", "panic"} => resp.correlation
         /\ mode \in {"up", "done"} => resp.correlation \/ Rejected(i)

\* A request line is owed a response line while its Record is on the path; those
\* inside the Recover that contained a panic never get theirs.
LinesKnown ==
    /\ mode \notin {"up", "done"} => OutLines = {} /\ PanicLines = {}
    /\ mode = "up" => \A l \in PanicLines : l.layer > at
    /\ mode \in {"done", "aborted"} => live = {}
    /\ \A i \in Layers : Logged("in", i) =>
         /\ chain[i] = "Record"
         /\ i \in live => ~Logged("out", i)
         /\ i \notin live =>
              /\ mode \notin {"down", "run"}
              /\ mode \in {"panic", "up"} => i > at
              /\ mode \in {"up", "done"} =>
                   (Logged("out", i) <=> ~ \E l \in PanicLines : l.layer < i)

\* A commitWriter believes in a commit for a reason.
Reason == Taken(resp) \/ resp.early \/ panicVal = "badcode"

CommitReasons ==
    /\ committed # {} => Reason
    /\ mode = "up" /\ PanicLines # {} => Reason
    /\ mode = "done" => Taken(resp)
    /\ mode = "done" /\ PanicLines # {}
         => resp.author # "server" \/ resp.early \/ panicVal = "badcode"

\* What a recorder knows of a response w, with p the panic: whether it was hijacked,
\* its status, its first bytes; or an excuse for knowing better or worse.
Excused(w, p) == w.superfluous \/ w.early \/ p = "badcode"

StatusOf(w) == IF w.committed THEN w.status ELSE 200

BodyOf(w) == w.sent["app"] + w.sent["kit"]

Kept(n) == IF n < BodyLimit THEN n ELSE BodyLimit

Tracks(r, w, p) ==
    /\ r.hijacked = w.hijacked
    /\ ~w.hijacked =>
         /\ Excused(w, p) \/ r.status = StatusOf(w)
         /\ r.status = 101 => w.committed
         /\ (r.logBody /\ ~w.superfluous /\ ~w.rejected /\ r.status # 101)
              => r.capture /\ r.captured = Kept(BodyOf(w))

RecordersTrack == \A i \in live : chain[i] = "Record" => Tracks(rec[i], resp, panicVal)

\* The same of a response line once it is written.
LineTracks(l, w, p) ==
    /\ l.layer \in Layers
    /\ w.hijacked => l.status = 101 /\ l.body = 0
    /\ ~w.hijacked =>
         /\ Excused(w, p) \/ l.status = StatusOf(w)
         /\ (rec[l.layer].logBody /\ ~w.superfluous /\ ~w.rejected /\ l.status # 101)
              => l.body = Kept(BodyOf(w))

LinesTrack == \A l \in OutLines : LineTracks(l, resp, panicVal)

LogInv ==
    /\ RecoversLive /\ PanicKnown /\ Correlations /\ LinesKnown /\ CommitReasons
    /\ RecordersTrack /\ LinesTrack

-----------------------------------------------------------------------------
(***************************************************************************)
(* net/http's operators again: the fields that the log depends on.         *)
(***************************************************************************)

\* x is w after any call: what was settled stays settled.
Keeps(w, x) ==
    /\ x.correlation = w.correlation
    /\ x.committed => x.correlated = IF w.committed THEN w.correlated ELSE w.correlation
    /\ w.committed => x.committed /\ x.status = w.status
    /\ w.early => x.early

\* A header that net/http accepts.
LEMMA HeaderFields ==
    ASSUME NEW r \in Responses, NEW code \in Nat, NEW a \in Authors
    PROVE  LET w == HeaderWritten(r, code, a)
           IN  /\ Keeps(r, w)
               /\ w.hijacked = r.hijacked /\ w.sent = r.sent /\ w.rejected = r.rejected
               /\ w.superfluous = (r.superfluous \/ (r.committed /\ ~r.hijacked))
               /\ ~Taken(r) /\ Informational(code) => w.early /\ ~w.committed
               /\ ~Taken(r) /\ ~Informational(code) => w.committed /\ w.status = code
<1> DEFINE w == HeaderWritten(r, code, a)
<1>1. CASE r.hijacked
  BY <1>1 DEF HeaderWritten, Taken, Keeps, Responses
<1>2. CASE r.committed /\ ~r.hijacked
  <2>1. w = [r EXCEPT !.superfluous = TRUE]
    BY <1>2 DEF HeaderWritten
  <2> HIDE DEF w
  <2> QED BY <1>2, <2>1 DEF Taken, Keeps, Responses, w
<1>3. CASE ~Taken(r) /\ Informational(code)
  <2>1. w = [r EXCEPT !.early = TRUE]
    BY <1>3 DEF HeaderWritten, Taken
  <2> HIDE DEF w
  <2> QED BY <1>3, <2>1 DEF Taken, Keeps, Responses, w
<1>4. CASE ~Taken(r) /\ ~Informational(code)
  <2>1. w = [r EXCEPT !.committed = TRUE, !.status = code, !.author = a,
                      !.length = r.declared, !.correlated = r.correlation]
    BY <1>4 DEF HeaderWritten, Taken
  <2> HIDE DEF w
  <2>2. /\ w.committed /\ w.status = code /\ w.correlated = r.correlation
        /\ w.correlation = r.correlation /\ w.early = r.early /\ w.hijacked = r.hijacked
        /\ w.sent = r.sent /\ w.rejected = r.rejected /\ w.superfluous = r.superfluous
    BY <2>1 DEF Responses
  <2> QED BY <1>4, <2>2 DEF Taken, Keeps, Responses, w
<1> QED BY <1>1, <1>2, <1>3, <1>4 DEF Taken

\* The header that a Write, a Flush or the end of the handler implies.
LEMMA ImplicitFields ==
    ASSUME NEW r \in Responses, NEW a \in Authors
    PROVE  LET w == ImplicitHeader(r, a)
           IN  /\ Keeps(r, w) /\ w \in Responses /\ Taken(w)
               /\ w.hijacked = r.hijacked /\ w.sent = r.sent /\ w.rejected = r.rejected
               /\ w.superfluous = r.superfluous /\ w.early = r.early
               /\ ~w.hijacked => w.committed /\ w.status = StatusOf(r)
<1>1. CASE Taken(r)
  BY <1>1 DEF ImplicitHeader, Taken, Keeps, StatusOf
<1>2. CASE ~Taken(r)
  <2> DEFINE w == HeaderWritten(r, 200, a)
  <2>1. 200 \in Nat /\ ~Informational(200)
    BY DEF Informational
  <2>2. w = [r EXCEPT !.committed = TRUE, !.status = 200, !.author = a,
                      !.length = r.declared, !.correlated = r.correlation]
    BY <1>2, <2>1 DEF HeaderWritten, Taken
  <2>3. w \in Responses
    BY <2>1, HeaderLemma DEF HeaderEffect
  <2>4. /\ Keeps(r, w) /\ w.hijacked = r.hijacked /\ w.sent = r.sent
        /\ w.rejected = r.rejected /\ w.committed /\ w.status = 200
    BY <1>2, <2>1, HeaderFields
  <2> HIDE DEF w
  <2>5. ImplicitHeader(r, a) = w
    BY <1>2 DEF ImplicitHeader, w
  <2>6. w.early = r.early /\ w.superfluous = r.superfluous
    BY <2>2 DEF Responses
  <2> QED BY <1>2, <2>3, <2>4, <2>5, <2>6 DEF Taken, StatusOf
<1> QED BY <1>1, <1>2

\* A Write: unless it is refused, all its bytes are added to the body.
LEMMA WriteFields ==
    ASSUME NEW r \in Responses, NEW n \in Nat, NEW a \in {"app", "kit"}
    PROVE  LET w == BodyWritten(r, n, a)
           IN  /\ Keeps(r, w)
               /\ w.hijacked = r.hijacked /\ w.superfluous = r.superfluous /\ w.early = r.early
               /\ ~w.hijacked => w.committed /\ w.status = StatusOf(r)
               /\ ~w.rejected => /\ ~r.rejected
                                 /\ BodyOf(w) = BodyOf(r) + n
                                 /\ n > 0 => w.status # 101
<1> DEFINE h == ImplicitHeader(r, a)
           w == BodyWritten(r, n, a)
           taken == n > 0 /\ Accepts(h, n)
           count == n > 0 /\ ~h.hijacked /\ BodyAllowed(h.status)
           s == IF taken THEN h.sent[a] + n ELSE h.sent[a]
           k == IF count THEN h.written + n ELSE h.written
           j == h.rejected \/ (IF n > 0 THEN ~taken ELSE h.hijacked)
<1>1. a \in Authors
  BY DEF Authors
<1>2. /\ Keeps(r, h) /\ h \in Responses /\ Taken(h)
      /\ h.hijacked = r.hijacked /\ h.sent = r.sent /\ h.rejected = r.rejected
      /\ h.superfluous = r.superfluous /\ h.early = r.early
      /\ ~h.hijacked => h.committed /\ h.status = StatusOf(r)
  BY <1>1, ImplicitFields
<1>3. w = [h EXCEPT !.sent[a]  = IF taken THEN @ + n ELSE @,
                    !.written  = IF count THEN @ + n ELSE @,
                    !.rejected = @ \/ (IF n > 0 THEN ~taken ELSE h.hijacked)]
  BY DEF BodyWritten
<1> HIDE DEF h, w
<1>4. w = [h EXCEPT !.sent = [h.sent EXCEPT ![a] = s], !.written = k, !.rejected = j]
  BY <1>3
<1>5. taken => Accepts(h, n)
  OBVIOUS
<1>6. ~j => ~h.rejected /\ (n > 0 => taken) /\ (n = 0 => ~taken)
  OBVIOUS
<1>7. s = IF taken THEN h.sent[a] + n ELSE h.sent[a]
  OBVIOUS
<1> HIDE DEF s, k, j, taken
<1>8. /\ w.sent = [h.sent EXCEPT ![a] = s] /\ w.rejected = j
      /\ w.committed = h.committed /\ w.status = h.status /\ w.hijacked = h.hijacked
      /\ w.superfluous = h.superfluous /\ w.early = h.early
      /\ w.correlation = h.correlation /\ w.correlated = h.correlated
  BY <1>2, <1>4 DEF Responses
<1>9. Keeps(r, w)
  BY <1>2, <1>8 DEF Keeps
<1>10. ASSUME ~w.rejected
       PROVE  BodyOf(w) = BodyOf(r) + n /\ (n > 0 => w.status # 101)
  <2>1. (n > 0 => taken) /\ (n = 0 => ~taken)
    BY <1>6, <1>8, <1>10
  <2>2. r.sent \in [Authors -> Nat] /\ r.sent["app"] \in Nat /\ r.sent["kit"] \in Nat
    BY DEF Responses, Authors
  <2>3. s = r.sent[a] + n
    BY <1>1, <1>2, <1>7, <2>1, <2>2
  <2>4. w.sent = [r.sent EXCEPT ![a] = r.sent[a] + n]
    BY <1>2, <1>8, <2>3
  <2>5. BodyOf(w) = BodyOf(r) + n
    <3>1. CASE a = "app"
      BY <2>2, <2>4, <3>1 DEF BodyOf, Authors
    <3>2. CASE a = "kit"
      BY <2>2, <2>4, <3>2 DEF BodyOf, Authors
    <3> QED BY <3>1, <3>2
  <2>6. n > 0 => w.status # 101
    BY <1>5, <1>8, <2>1 DEF Accepts, BodyAllowed
  <2> QED BY <2>5, <2>6
<1>11. w.rejected = j /\ (~j => ~r.rejected)
  BY <1>2, <1>6, <1>8
<1> QED BY <1>2, <1>8, <1>9, <1>10, <1>11 DEF w

-----------------------------------------------------------------------------
(***************************************************************************)
(* A recorder and the response behind it, through the same call.           *)
(***************************************************************************)

\* The recorder keeps at most BodyLimit bytes, and all of them below that.
LEMMA KeptLemma ==
    ASSUME NEW m \in Nat, NEW n \in Nat, NEW r \in Recorders, r.capture, r.captured = Kept(m)
    PROVE  RecorderWrite(r, n).captured = Kept(m + n)
<1> DEFINE c == IF r.captured >= BodyLimit THEN r.captured
                ELSE IF r.captured + n =< BodyLimit THEN r.captured + n ELSE BodyLimit
<1>1. c = Kept(m + n)
  BY SizesAssumption DEF Kept
<1>2. RecorderWrite(r, n) = [r EXCEPT !.captured = c]
  BY DEF RecorderWrite
<1> HIDE DEF c
<1> QED BY <1>1, <1>2 DEF Recorders

LEMMA HeaderTracks ==
    ASSUME NEW r \in Recorders, NEW w \in Responses, NEW p, NEW code \in Nat, NEW a \in Authors,
           Tracks(r, w, p)
    PROVE  Tracks(RecorderHeader(r, code), HeaderWritten(w, code, a), p)
<1> DEFINE s == RecorderHeader(r, code)
           x == HeaderWritten(w, code, a)
<1> SUFFICES Tracks(s, x, p)
  OBVIOUS
<1>1. /\ s.status = code /\ s.capture = (r.capture /\ code # 101)
      /\ s.captured = r.captured /\ s.hijacked = r.hijacked /\ s.logBody = r.logBody
  BY DEF RecorderHeader, Recorders
<1>2. /\ Keeps(w, x)
      /\ x.hijacked = w.hijacked /\ x.sent = w.sent /\ x.rejected = w.rejected
      /\ x.superfluous = (w.superfluous \/ (w.committed /\ ~w.hijacked))
      /\ ~Taken(w) /\ Informational(code) => x.early /\ ~x.committed
      /\ ~Taken(w) /\ ~Informational(code) => x.committed /\ x.status = code
  BY HeaderFields
<1> HIDE DEF s, x
<1>3. CASE w.hijacked
  BY <1>1, <1>2, <1>3 DEF Tracks
<1>4. CASE ~w.hijacked /\ w.committed
  BY <1>1, <1>2, <1>4 DEF Tracks, Keeps, Excused
<1>5. CASE ~Taken(w) /\ Informational(code)
  BY <1>1, <1>2, <1>5 DEF Tracks, Taken, Excused, Informational, BodyOf
<1>6. CASE ~Taken(w) /\ ~Informational(code)
  BY <1>1, <1>2, <1>6 DEF Tracks, Taken, Excused, StatusOf, BodyOf
<1> QED BY <1>3, <1>4, <1>5, <1>6 DEF Taken

\* The header that panics reaches the recorders and not the client.
LEMMA BadHeaderTracks ==
    ASSUME NEW r \in Recorders, NEW w \in Responses, NEW p, NEW code \in Nat,
           Tracks(r, w, p), HeaderPanics(w, code)
    PROVE  Tracks(RecorderHeader(r, code), w, "badcode")
<1> DEFINE s == RecorderHeader(r, code)
<1>1. /\ s.status = code /\ s.capture = (r.capture /\ code # 101)
      /\ s.captured = r.captured /\ s.hijacked = r.hijacked /\ s.logBody = r.logBody
  BY DEF RecorderHeader, Recorders
<1>2. code # 101 /\ ~w.hijacked /\ ~w.committed
  BY DEF HeaderPanics, ValidCode, Taken
<1> HIDE DEF s
<1> QED BY <1>1, <1>2 DEF Tracks, Excused, s

LEMMA WriteTracks ==
    ASSUME NEW r \in Recorders, NEW w \in Responses, NEW p, NEW n \in Nat,
           NEW a \in {"app", "kit"}, Tracks(r, w, p)
    PROVE  Tracks(RecorderWrite(r, n), BodyWritten(w, n, a), p)
<1> DEFINE s == RecorderWrite(r, n)
           x == BodyWritten(w, n, a)
<1> SUFFICES Tracks(s, x, p)
  OBVIOUS
<1>1. /\ s.status = r.status /\ s.capture = r.capture
      /\ s.hijacked = r.hijacked /\ s.logBody = r.logBody
  BY DEF RecorderWrite, Recorders
<1>2. /\ Keeps(w, x)
      /\ x.hijacked = w.hijacked /\ x.superfluous = w.superfluous /\ x.early = w.early
      /\ ~x.hijacked => x.committed /\ x.status = StatusOf(w)
      /\ ~x.rejected => ~w.rejected /\ BodyOf(x) = BodyOf(w) + n
  BY WriteFields
<1>3. BodyOf(w) \in Nat
  BY DEF BodyOf, Responses, Authors
<1>4. r.capture /\ r.captured = Kept(BodyOf(w)) => s.captured = Kept(BodyOf(w) + n)
  BY <1>3, KeptLemma
<1> HIDE DEF s, x
<1>5. CASE w.hijacked
  BY <1>1, <1>2, <1>5 DEF Tracks
<1>6. CASE ~w.hijacked
  <2>1. Excused(w, p) = Excused(x, p) /\ StatusOf(x) = StatusOf(w) /\ x.committed
    BY <1>2, <1>6 DEF Excused, StatusOf
  <2>2. ASSUME s.logBody, ~x.superfluous, ~x.rejected, s.status # 101
        PROVE  s.capture /\ s.captured = Kept(BodyOf(x))
    BY <1>1, <1>2, <1>4, <1>6, <2>2 DEF Tracks
  <2> QED BY <1>1, <1>2, <1>6, <2>1, <2>2 DEF Tracks
<1> QED BY <1>5, <1>6

\* A flush, or the end of the handler: a status nobody gave is net/http's 200.
LEMMA ImplicitTracks ==
    ASSUME NEW r, NEW w \in Responses, NEW p, NEW a \in Authors, Tracks(r, w, p)
    PROVE  Tracks(r, ImplicitHeader(w, a), p)
<1> DEFINE x == ImplicitHeader(w, a)
<1>1. /\ Keeps(w, x)
      /\ x.hijacked = w.hijacked /\ x.sent = w.sent /\ x.rejected = w.rejected
      /\ x.superfluous = w.superfluous /\ x.early = w.early
      /\ ~x.hijacked => x.committed /\ x.status = StatusOf(w)
  BY ImplicitFields
<1> HIDE DEF x
<1>2. BodyOf(x) = BodyOf(w) /\ Excused(x, p) = Excused(w, p)
  BY <1>1 DEF BodyOf, Excused
<1>3. ~x.hijacked => StatusOf(x) = StatusOf(w)
  BY <1>1 DEF StatusOf
<1> QED BY <1>1, <1>2, <1>3 DEF Tracks, x

LEMMA HijackTracks ==
    ASSUME NEW r \in Recorders, NEW w \in Responses, NEW p
    PROVE  /\ Tracks(RecorderHijack(r), Hijacked(w), p)
           /\ Keeps(w, Hijacked(w))
<1>1. RecorderHijack(r).hijacked
  BY DEF RecorderHijack, Recorders
<1>2. /\ Hijacked(w).hijacked /\ Hijacked(w).committed = w.committed
      /\ Hijacked(w).status = w.status /\ Hijacked(w).early = w.early
      /\ Hijacked(w).correlated = w.correlated /\ Hijacked(w).correlation = w.correlation
  BY DEF Hijacked, Responses
<1> QED BY <1>1, <1>2 DEF Tracks, Keeps

\* An envelope: its status and the whole of it.
LEMMA EnvelopeTracks ==
    ASSUME NEW r \in Recorders, NEW w \in Responses, NEW p, NEW code \in Nat,
           NEW a \in {"app", "kit"}, Tracks(r, w, p)
    PROVE  Tracks(RecorderWrite(RecorderHeader(r, code), EnvelopeSize),
                  BodyWritten(HeaderWritten(w, code, a), EnvelopeSize, a), p)
<1>1. a \in Authors /\ EnvelopeSize \in Nat
  BY SizesAssumption DEF Authors
<1>2. /\ RecorderHeader(r, code) \in Recorders /\ HeaderWritten(w, code, a) \in Responses
      /\ Tracks(RecorderHeader(r, code), HeaderWritten(w, code, a), p)
  BY <1>1, RecorderLemma, HeaderLemma, HeaderTracks DEF HeaderEffect
<1> QED BY <1>1, <1>2, WriteTracks

\* And what it settles: the status is its own if it took the response.
LEMMA EnvelopeKeeps ==
    ASSUME NEW w \in Responses, NEW code \in Nat, NEW n \in Nat, NEW a \in {"app", "kit"}
    PROVE  LET x == BodyWritten(HeaderWritten(w, code, a), n, a)
           IN  /\ Keeps(w, x)
               /\ ~Taken(w) /\ ~Informational(code) => x.committed /\ x.status = code
<1> DEFINE h == HeaderWritten(w, code, a)
           x == BodyWritten(h, n, a)
<1>1. a \in Authors
  BY DEF Authors
<1>2. /\ Keeps(w, h) /\ h \in Responses /\ h.hijacked = w.hijacked
      /\ ~Taken(w) /\ ~Informational(code) => h.committed /\ h.status = code
  BY <1>1, HeaderFields, HeaderLemma DEF HeaderEffect
<1>3. Keeps(h, x)
  BY <1>2, WriteFields
<1> HIDE DEF h, x
<1> QED BY <1>2, <1>3 DEF Keeps, h, x

\* A response that differs in none of the fields a recorder knows of.
Alike(w, x) ==
    /\ x.committed = w.committed /\ x.status = w.status /\ x.hijacked = w.hijacked
    /\ x.early = w.early /\ x.superfluous = w.superfluous /\ x.rejected = w.rejected
    /\ x.sent = w.sent

LEMMA AlikeTracks ==
    ASSUME NEW r, NEW w, NEW x, NEW p, Alike(w, x), Tracks(r, w, p)
    PROVE  Tracks(r, x, p)
BY DEF Alike, Tracks, Excused, StatusOf, BodyOf

\* A new recorder knows all there is of a response that nobody has taken.
LEMMA NewTracks ==
    ASSUME NEW b \in BOOLEAN, NEW w \in Responses, NEW p,
           ~Taken(w), w.sent["app"] = 0, w.sent["kit"] = 0
    PROVE  Tracks(NewRecorder(b), w, p)
<1>1. /\ NewRecorder(b).status = 200 /\ NewRecorder(b).captured = 0
      /\ NewRecorder(b).hijacked = FALSE
      /\ NewRecorder(b).logBody => NewRecorder(b).capture
  BY DEF NewRecorder
<1>2. ~w.committed /\ ~w.hijacked /\ NewRecorder(b).hijacked = w.hijacked
  BY <1>1 DEF Taken, Responses
<1>3. Kept(BodyOf(w)) = 0
  BY SizesAssumption DEF Kept, BodyOf
<1>4. StatusOf(w) = 200
  BY <1>2 DEF StatusOf
<1> QED BY <1>1, <1>2, <1>3, <1>4 DEF Tracks

-----------------------------------------------------------------------------
(***************************************************************************)
(* The log.                                                                *)
(***************************************************************************)

\* What one more line adds to the lines of its kind.
LEMMA AppendLines ==
    ASSUME log \in Seq(Lines), NEW l \in Lines, log' = Append(log, l)
    PROVE  /\ OutLines' = OutLines \cup (IF l.kind = "out" THEN {l} ELSE {})
           /\ PanicLines' = PanicLines \cup (IF l.kind = "panic" THEN {l} ELSE {})
           /\ \A k, i : Logged(k, i)' <=> Logged(k, i) \/ (l.kind = k /\ l.layer = i)
<1>1. /\ Len(log) \in Nat /\ DOMAIN log = 1..Len(log)
      /\ DOMAIN log' = DOMAIN log \cup {Len(log) + 1}
      /\ log'[Len(log) + 1] = l /\ \A j \in DOMAIN log : log'[j] = log[j]
  OBVIOUS
<1>2. OutLines' = OutLines \cup (IF l.kind = "out" THEN {l} ELSE {})
  BY <1>1 DEF OutLines
<1>3. PanicLines' = PanicLines \cup (IF l.kind = "panic" THEN {l} ELSE {})
  BY <1>1 DEF PanicLines
<1>4. ASSUME NEW k, NEW i
      PROVE  Logged(k, i)' <=> Logged(k, i) \/ (l.kind = k /\ l.layer = i)
  BY <1>1 DEF Logged
<1> QED BY <1>2, <1>3, <1>4

LEMMA SameLines ==
    ASSUME log' = log
    PROVE  /\ OutLines' = OutLines /\ PanicLines' = PanicLines
           /\ \A k, i : Logged(k, i)' <=> Logged(k, i)
BY DEF OutLines, PanicLines, Logged

\* A layer logged a response line if one of them is its.
LEMMA LoggedOut == \A i : Logged("out", i) <=> \E l \in OutLines : l.layer = i
BY DEF Logged, OutLines

\* The types the steps below use, and that a path never widens past the control.
LEMMA Shape ==
    ASSUME IInv
    PROVE  /\ Len(chain) \in Nat /\ Layers = 1..Len(chain)
           /\ at \in 0..(Len(chain) + 1) /\ live \subseteq Layers
           /\ mode \in Modes /\ resp \in Responses /\ rec \in [Layers -> Recorders]
           /\ log \in Seq(Lines) /\ panicVal \in Panics \cup {"none"}
           /\ committed \subseteq Layers
           /\ mode = "down" => /\ live \subseteq 1..(at - 1) /\ ~Taken(resp)
                               /\ resp.sent["app"] = 0 /\ resp.sent["kit"] = 0
           /\ mode = "run" => at = Len(chain) + 1
           /\ mode \in {"up", "panic"} => at =< Len(chain) /\ live \subseteq 1..at
           /\ mode \in {"done", "aborted"} => at = 0
<1>1. /\ Len(chain) \in Nat /\ Layers = 1..Len(chain)
      /\ at \in 0..(Len(chain) + 1) /\ live \subseteq Layers
      /\ mode \in Modes /\ resp \in Responses /\ rec \in [Layers -> Recorders]
      /\ log \in Seq(Lines) /\ panicVal \in Panics \cup {"none"} /\ committed \subseteq Layers
  BY ChainsAssumption DEF IInv, TypeOK, Layers
<1>2. ASSUME mode = "down"
      PROVE  ~Taken(resp) /\ resp.sent["app"] = 0 /\ resp.sent["kit"] = 0
  <2>1. ~Taken(resp) /\ resp.author = "nobody"
    BY <1>2 DEF IInv, OwnerByMode
  <2>2. resp.sent["app"] \in Nat /\ resp.sent["kit"] \in Nat
    BY <1>1 DEF Responses, Authors
  <2> QED BY <2>1, <2>2 DEF IInv, SingleAuthor, Authors
<1> QED BY <1>1, <1>2 DEF IInv, PathShape, Over

-----------------------------------------------------------------------------
(***************************************************************************)
(* The way down.                                                           *)
(***************************************************************************)

\* A layer passes the request on: it may join the path, log a request line and put
\* the correlation id in the header map.
Descends ==
    /\ mode = "down" /\ mode' = "down" /\ at \in Layers /\ at' = at + 1
    /\ chain' = chain /\ committed' = committed /\ panicVal' = panicVal
    /\ live \subseteq live' /\ live' \subseteq live \cup {at}
    /\ chain[at] = "Recover" => at \in live'
    /\ chain[at] = "CorrelationID" => resp'.correlation
    /\ resp.correlation => resp'.correlation
    /\ Alike(resp, resp') /\ resp'.correlated = resp.correlated
    /\ \A i \in live : rec'[i] = rec[i]
    /\ (at \in live' /\ chain[at] = "Record") => \E b \in BOOLEAN : rec'[at] = NewRecorder(b)
    /\ \/ log' = log
       \/ /\ log' = Append(log, Line("in", at, 0, 0, "none"))
          /\ chain[at] = "Record" /\ at \in live'

LEMMA DownDescends ==
    ASSUME IInv, Down, ~RejectBody, ~StartHandler
    PROVE  Descends
<1>1. /\ Layers = 1..Len(chain) /\ live \subseteq Layers /\ resp \in Responses
      /\ rec \in [Layers -> Recorders] /\ (mode = "down" => live \subseteq 1..(at - 1))
      /\ Len(chain) \in Nat
  BY Shape
<1>2. Alike(resp, resp)
  BY DEF Alike
<1>3. CASE EnterRecover
  BY <1>1, <1>2, <1>3 DEF EnterRecover, Entering, Descends, config
<1>4. CASE SkipRecord \/ PassMaxBody \/ EnterIdempotencyKey
  <2>1. /\ mode = "down" /\ mode' = "down" /\ at \in Layers /\ at' = at + 1
        /\ chain[at] \in {"Record", "MaxBody", "IdempotencyKey"}
        /\ UNCHANGED <<config, path, resp, panicVal, log, ops>>
    BY <1>4 DEF SkipRecord, PassMaxBody, EnterIdempotencyKey, Entering
  <2>2. at \notin live
    BY <1>1, <2>1
  <2> QED BY <1>2, <2>1, <2>2 DEF Descends, config, path
<1>5. ASSUME NEW logBody \in BOOLEAN, EnterRecord(logBody)
      PROVE  Descends
  <2>1. /\ mode = "down" /\ at \in Layers /\ chain[at] = "Record"
        /\ rec' = [rec EXCEPT ![at] = NewRecorder(logBody)]
    BY <1>5 DEF EnterRecord, Entering
  <2>2. at \notin live
    BY <1>1, <2>1
  <2>3. rec'[at] = NewRecorder(logBody) /\ \A i \in live : rec'[i] = rec[i]
    BY <1>1, <2>1, <2>2
  <2> QED BY <1>2, <1>5, <2>1, <2>3 DEF EnterRecord, Descends, config
<1>6. CASE EnterCorrelationID
  <2>1. resp' = [resp EXCEPT !.correlation = TRUE]
    BY <1>6 DEF EnterCorrelationID
  <2>2. Alike(resp, resp') /\ resp'.correlation /\ resp'.correlated = resp.correlated
    BY <1>1, <2>1 DEF Alike, Responses
  <2> QED BY <1>1, <1>6, <2>2 DEF EnterCorrelationID, Entering, Descends, config, path
<1> QED BY <1>3, <1>4, <1>5, <1>6 DEF Down

LEMMA DescendsLog ==
    ASSUME IInv, LogInv, Descends
    PROVE  LogInv'
<1>1. /\ Len(chain) \in Nat /\ Layers = 1..Len(chain) /\ Layers' = Layers
      /\ live \subseteq 1..(at - 1) /\ ~Taken(resp) /\ ~Taken(resp') /\ at \in Layers
      /\ resp.sent["app"] = 0 /\ resp.sent["kit"] = 0
      /\ resp \in Responses /\ log \in Seq(Lines) /\ mode = "down" /\ mode' = "down"
  BY Shape DEF Descends, Alike, Taken, Layers
<1>2. /\ OutLines' = {} /\ PanicLines' = {}
      /\ \A i : Logged("in", i)' => Logged("in", i) \/ (i = at /\ chain[at] = "Record" /\ i \in live')
  <2>1. OutLines = {} /\ PanicLines = {}
    BY <1>1 DEF LogInv, LinesKnown
  <2>2. CASE log' = log
    BY <2>1, <2>2, SameLines
  <2>3. CASE /\ log' = Append(log, Line("in", at, 0, 0, "none"))
             /\ chain[at] = "Record" /\ at \in live'
    <3>1. /\ Line("in", at, 0, 0, "none") \in Lines /\ Line("in", at, 0, 0, "none").kind = "in"
          /\ Line("in", at, 0, 0, "none").layer = at
      BY <1>1 DEF Line, Lines
    <3> QED BY <1>1, <2>1, <2>3, <3>1, AppendLines
  <2> QED BY <2>2, <2>3 DEF Descends
<1>3. RecoversLive'
  BY <1>1 DEF LogInv, RecoversLive, Ahead, Descends
<1>4. PanicKnown'
  BY <1>1, <1>2 DEF LogInv, PanicKnown, Descends
<1>5. Correlations'
  BY <1>1 DEF LogInv, Correlations, Descends, Taken
<1>6. LinesKnown'
  <2>1. \A i : ~Logged("out", i)'
    BY <1>2 DEF Logged, OutLines
  <2>2. ASSUME NEW i \in Layers', Logged("in", i)'
        PROVE  chain'[i] = "Record" /\ i \in live'
    BY <1>1, <1>2, <2>2 DEF LogInv, LinesKnown, Descends
  <2> QED BY <1>1, <1>2, <2>1, <2>2 DEF LinesKnown
<1>7. CommitReasons'
  BY <1>1, <1>2 DEF LogInv, CommitReasons, Reason, Descends, Alike
<1>8. RecordersTrack'
  <2> SUFFICES ASSUME NEW i \in live', chain'[i] = "Record"
               PROVE  Tracks(rec'[i], resp', panicVal')
    BY DEF RecordersTrack
  <2>1. CASE i \in live
    BY <2>1, AlikeTracks DEF LogInv, RecordersTrack, Descends
  <2>2. CASE i \notin live
    <3>1. i = at /\ \E b \in BOOLEAN : rec'[i] = NewRecorder(b)
      BY <2>2 DEF Descends
    <3>2. Tracks(rec'[i], resp, panicVal)
      BY <1>1, <3>1, NewTracks
    <3> QED BY <3>2, AlikeTracks DEF Descends
  <2> QED BY <2>1, <2>2
<1>9. LinesTrack'
  BY <1>2 DEF LinesTrack
<1> QED BY <1>3, <1>4, <1>5, <1>6, <1>7, <1>8, <1>9 DEF LogInv

-----------------------------------------------------------------------------
(***************************************************************************)
(* The handler.                                                            *)
(***************************************************************************)

\* What any call of the handler does to what is logged of it.
CallLog ==
    /\ Keeps(resp, resp')
    /\ \A i \in live : chain[i] = "Record" => Tracks(rec'[i], resp', panicVal')
    /\ committed' # {} => Reason'

\* A call at the handler's depth passes every recorder on the path.
LEMMA RecordsThrough ==
    ASSUME IInv, mode = "run"
    PROVE  \A i \in live : chain[i] = "Record" => i \in Layers /\ i \in Through("Record", Len(chain))
BY Shape, RunLemma DEF Through

\* A body takes the response, so a commitWriter that believes in it is right.
LEMMA TakenReason == Taken(resp') => Reason'
BY DEF Reason, Taken

\* The envelopes of JSON, Error, MaxBody and Recover.
LEMMA EnvelopeLog ==
    ASSUME IInv, NEW d \in Int, NEW code \in Nat, NEW a \in {"app", "kit"},
           SendEnvelope(d, code, a), RecordersTrack
    PROVE  /\ Keeps(resp, resp') /\ Taken(resp')
           /\ ~Taken(resp) /\ ~Informational(code) => resp'.committed /\ resp'.status = code
           /\ \A i \in Through("Record", d) : Tracks(rec'[i], resp', panicVal)
<1>1. /\ resp \in Responses /\ rec \in [Layers -> Recorders] /\ live \subseteq Layers
      /\ EnvelopeSize \in Nat /\ a \in Authors
  BY Shape, SizesAssumption DEF Authors
<1>2. /\ resp' = BodyWritten(HeaderWritten(resp, code, a), EnvelopeSize, a)
      /\ rec' = [i \in Layers |->
                   IF i \in Through("Record", d)
                   THEN RecorderWrite(RecorderHeader(rec[i], code), EnvelopeSize)
                   ELSE rec[i]]
  BY DEF SendEnvelope
<1>3. Keeps(resp, resp') /\ (~Taken(resp) /\ ~Informational(code)
                               => resp'.committed /\ resp'.status = code)
  BY <1>1, <1>2, EnvelopeKeeps
<1>4. Taken(resp')
  BY <1>1, <1>2, EnvelopeLemma DEF BodyEffect
<1>5. ASSUME NEW i \in Through("Record", d)
      PROVE  Tracks(rec'[i], resp', panicVal)
  <2>1. i \in live /\ i \in Layers /\ chain[i] = "Record" /\ rec[i] \in Recorders
    BY <1>1 DEF Through
  <2>2. Tracks(rec[i], resp, panicVal)
    BY <2>1 DEF RecordersTrack
  <2>3. rec'[i] = RecorderWrite(RecorderHeader(rec[i], code), EnvelopeSize)
    BY <1>2, <2>1
  <2> QED BY <1>1, <1>2, <2>1, <2>2, <2>3, EnvelopeTracks
<1> QED BY <1>3, <1>4, <1>5

LEMMA CallsLog ==
    ASSUME IInv, LogInv, HandlerCall
    PROVE  CallLog
<1>1. /\ mode = "run" /\ resp \in Responses /\ rec \in [Layers -> Recorders]
      /\ Len(chain) \in Int /\ panicVal = "none" /\ "app" \in Authors
      /\ RecordersTrack /\ live \subseteq Layers /\ (committed # {} => Reason)
  BY Shape DEF HandlerCall, SetContentLength, WriteHeader, Write, Reply, Flush, Hijack, Call,
               LogInv, PanicKnown, CommitReasons, Authors
<1>2. \A i \in live : chain[i] = "Record"
        => /\ i \in Layers /\ i \in Through("Record", Len(chain)) /\ rec[i] \in Recorders
           /\ Tracks(rec[i], resp, panicVal)
  BY <1>1, RecordsThrough DEF RecordersTrack
<1>3. Keeps(resp, resp)
  BY DEF Keeps
<1>4. ASSUME NEW n \in Lengths, SetContentLength(n)
      PROVE  CallLog
  <2>1. /\ resp' = [resp EXCEPT !.declared = n] /\ ~Taken(resp)
        /\ committed' = committed /\ rec' = rec /\ panicVal' = panicVal
    BY <1>4 DEF SetContentLength, path
  <2>2. Alike(resp, resp') /\ resp'.correlation = resp.correlation /\ ~resp.committed
    BY <1>1, <2>1 DEF Alike, Responses, Taken
  <2>3. Keeps(resp, resp')
    BY <2>2 DEF Keeps, Alike
  <2>4. committed' # {} => Reason'
    BY <1>1, <2>1, <2>2 DEF Reason, Taken, Alike
  <2> QED BY <1>2, <2>1, <2>2, <2>3, <2>4, AlikeTracks DEF CallLog
<1>5. ASSUME NEW code \in Codes, WriteHeader(code)
      PROVE  CallLog
  <2>1. /\ code \in Nat
        /\ rec' = [i \in Layers |-> IF i \in Through("Record", Len(chain))
                                    THEN RecorderHeader(rec[i], code) ELSE rec[i]]
    BY <1>5, CodesAssumption DEF WriteHeader, PassHeader
  <2>2. CASE ~HeaderPanics(resp, code)
    <3>1. resp' = HeaderWritten(resp, code, "app") /\ panicVal' = panicVal
      BY <1>5, <2>2 DEF WriteHeader
    <3>2. /\ Keeps(resp, resp')
          /\ resp'.hijacked = resp.hijacked
          /\ ~Taken(resp) /\ Informational(code) => resp'.early
          /\ ~Taken(resp) /\ ~Informational(code) => resp'.committed
      BY <1>1, <2>1, <3>1, HeaderFields
    <3>3. Reason'
      BY <3>2 DEF Reason, Taken, Keeps
    <3>4. ASSUME NEW i \in live, chain[i] = "Record"
          PROVE  Tracks(rec'[i], resp', panicVal')
      BY <1>1, <1>2, <2>1, <3>1, <3>4, HeaderTracks
    <3> QED BY <3>2, <3>3, <3>4 DEF CallLog
  <2>3. CASE HeaderPanics(resp, code)
    <3>1. resp' = resp /\ panicVal' = "badcode"
      BY <1>5, <2>3 DEF WriteHeader, Raise
    <3>2. ASSUME NEW i \in live, chain[i] = "Record"
          PROVE  Tracks(rec'[i], resp', panicVal')
      BY <1>1, <1>2, <2>1, <2>3, <3>1, <3>2, BadHeaderTracks
    <3> QED BY <1>3, <3>1, <3>2 DEF CallLog, Reason
  <2> QED BY <2>2, <2>3
<1>6. ASSUME NEW n \in Chunks, Write(n)
      PROVE  CallLog
  <2>1. /\ n \in Nat /\ resp' = BodyWritten(resp, n, "app") /\ panicVal' = panicVal
        /\ rec' = [i \in Layers |-> IF i \in Through("Record", Len(chain))
                                    THEN RecorderWrite(rec[i], n) ELSE rec[i]]
    BY <1>6, ChunksAssumption DEF Write, PassWrite
  <2>2. Keeps(resp, resp')
    BY <1>1, <2>1, WriteFields
  <2>3. Taken(resp')
    BY <1>1, <2>1, WriteLemma DEF BodyEffect
  <2>4. ASSUME NEW i \in live, chain[i] = "Record"
        PROVE  Tracks(rec'[i], resp', panicVal')
    BY <1>1, <1>2, <2>1, <2>4, WriteTracks
  <2> QED BY <2>2, <2>3, <2>4, TakenReason DEF CallLog
<1>7. ASSUME NEW code \in Codes, NEW marshals \in BOOLEAN, Reply(code, marshals)
      PROVE  CallLog
  <2> DEFINE c == IF marshals THEN code ELSE 500
  <2>1. c \in Nat /\ SendEnvelope(Len(chain), c, "app") /\ panicVal' = panicVal
    BY <1>7, CodesAssumption DEF Reply
  <2> HIDE DEF c
  <2>2. /\ Keeps(resp, resp') /\ Taken(resp')
        /\ \A i \in Through("Record", Len(chain)) : Tracks(rec'[i], resp', panicVal)
    BY <1>1, <2>1, EnvelopeLog
  <2> QED BY <1>2, <2>1, <2>2, TakenReason DEF CallLog
<1>8. CASE Flush
  <2>1. rec' = rec /\ panicVal' = panicVal
    BY <1>8 DEF Flush
  <2>2. CASE "flush" \in supports
    <3>1. resp' = ImplicitHeader(resp, "app")
      BY <1>8, <2>2 DEF Flush
    <3>2. Keeps(resp, resp') /\ Taken(resp')
      BY <1>1, <3>1, ImplicitFields
    <3>3. ASSUME NEW i \in live, chain[i] = "Record"
          PROVE  Tracks(rec'[i], resp', panicVal')
      BY <1>1, <1>2, <2>1, <3>1, <3>3, ImplicitTracks
    <3> QED BY <3>2, <3>3, TakenReason DEF CallLog
  <2>3. CASE "flush" \notin supports
    <3>1. committed' = committed /\ resp' = resp
      BY <1>8, <2>3 DEF Flush
    <3> QED BY <1>1, <1>2, <1>3, <2>1, <3>1 DEF CallLog, Reason
  <2> QED BY <2>2, <2>3
<1>9. CASE Hijack
  <2>1. panicVal' = panicVal
    BY <1>9 DEF Hijack
  <2>2. CASE "hijack" \in supports /\ HijackAccepted(resp)
    <3>1. /\ resp' = Hijacked(resp)
          /\ rec' = [i \in Layers |-> IF i \in Through("Record", Len(chain))
                                      THEN RecorderHijack(rec[i]) ELSE rec[i]]
      BY <1>9, <2>2 DEF Hijack, PassHijack
    <3>2. Taken(resp')
      BY <1>1, <3>1 DEF Hijacked, Responses, Taken
    <3>3. ASSUME NEW i \in live, chain[i] = "Record"
          PROVE  Tracks(rec'[i], resp', panicVal')
      BY <1>1, <1>2, <3>1, <3>3, HijackTracks
    <3>4. Keeps(resp, resp')
      <4>1. NewRecorder(FALSE) \in Recorders
        BY DEF NewRecorder, Recorders
      <4> QED BY <1>1, <3>1, <4>1, HijackTracks
    <3> QED BY <3>2, <3>3, <3>4, TakenReason DEF CallLog
  <2>3. CASE ~("hijack" \in supports /\ HijackAccepted(resp))
    <3>1. committed' = committed /\ resp' = resp /\ rec' = rec
      BY <1>9, <2>3 DEF Hijack
    <3> QED BY <1>1, <1>2, <1>3, <2>1, <3>1 DEF CallLog, Reason
  <2> QED BY <2>2, <2>3
<1> QED BY <1>4, <1>5, <1>6, <1>7, <1>8, <1>9 DEF HandlerCall

\* A panic excuses more, never less.
LEMMA PanicTracks ==
    ASSUME NEW r, NEW w, NEW p, Tracks(r, w, "none")
    PROVE  Tracks(r, w, p)
BY DEF Tracks, Excused

LEMMA CallsKeepLog ==
    ASSUME IInv, LogInv, HandlerCall
    PROVE  LogInv'
<1>1. CallEffect /\ CallLog
  BY CallLemma, CallsLog
<1>2. /\ mode = "run" /\ Layers = 1..Len(chain) /\ Layers' = Layers /\ chain' = chain
      /\ Len(chain) \in Nat /\ live' = live /\ at = Len(chain) + 1 /\ live \subseteq Layers
      /\ \/ mode' = "run" /\ at' = at /\ panicVal' = panicVal
         \/ mode' = "panic" /\ at' = Len(chain) /\ panicVal' = "badcode"
  BY <1>1, Shape DEF HandlerCall, SetContentLength, WriteHeader, Write, Reply, Flush, Hijack,
                     Call, CallEffect, Layers
<1>3. /\ OutLines' = {} /\ PanicLines' = {} /\ \A k, i : Logged(k, i)' <=> Logged(k, i)
      /\ panicVal = "none" /\ \A i : ~Logged("out", i)
  BY <1>1, <1>2, SameLines, LoggedOut DEF CallEffect, LogInv, LinesKnown, PanicKnown
<1>4. RecoversLive'
  BY <1>2 DEF LogInv, RecoversLive, Ahead
<1>5. PanicKnown'
  BY <1>2, <1>3 DEF LogInv, PanicKnown
<1>6. Correlations'
  BY <1>1, <1>2 DEF LogInv, Correlations, CallLog, Keeps
<1>7. LinesKnown'
  BY <1>2, <1>3 DEF LogInv, LinesKnown
<1>8. CommitReasons'
  BY <1>1, <1>2, <1>3 DEF CommitReasons, CallLog
<1>9. RecordersTrack'
  BY <1>1, <1>2 DEF RecordersTrack, CallLog
<1>10. LinesTrack'
  BY <1>3 DEF LinesTrack
<1> QED BY <1>4, <1>5, <1>6, <1>7, <1>8, <1>9, <1>10 DEF LogInv

\* The handler starts, returns or panics: only the control and the panic change.
LEMMA ControlKeepsLog ==
    ASSUME IInv, LogInv, StartHandler \/ Return \/ \E v \in {"error", "abort"} : Panic(v)
    PROVE  LogInv'
<1>1. /\ UNCHANGED <<config, path, resp, log, ops>>
      /\ \/ mode = "down" /\ at = Len(chain) + 1 /\ mode' = "run" /\ at' = at
            /\ panicVal' = panicVal
         \/ mode = "run" /\ mode' = "up" /\ at' = Len(chain) /\ panicVal' = panicVal
         \/ mode = "run" /\ mode' = "panic" /\ at' = Len(chain) /\ panicVal' \in {"error", "abort"}
  BY DEF StartHandler, Return, Panic, Raise
<1>2. /\ Layers = 1..Len(chain) /\ Layers' = Layers /\ chain' = chain /\ Len(chain) \in Nat
      /\ live' = live /\ committed' = committed /\ rec' = rec /\ resp' = resp /\ live \subseteq Layers
  BY <1>1, Shape DEF Layers, config, path
<1>3. /\ OutLines' = {} /\ PanicLines' = {} /\ \A k, i : Logged(k, i)' <=> Logged(k, i)
      /\ panicVal = "none" /\ \A i : ~Logged("out", i)
  BY <1>1, SameLines, LoggedOut DEF LogInv, LinesKnown, PanicKnown
<1>4. RecoversLive'
  BY <1>1, <1>2 DEF LogInv, RecoversLive, Ahead
<1>5. PanicKnown'
  BY <1>1, <1>2, <1>3 DEF LogInv, PanicKnown
<1>6. Correlations'
  BY <1>1, <1>2 DEF LogInv, Correlations
<1>7. LinesKnown'
  BY <1>1, <1>2, <1>3 DEF LogInv, LinesKnown
<1>8. CommitReasons'
  BY <1>1, <1>2, <1>3 DEF LogInv, CommitReasons, Reason
<1>9. RecordersTrack'
  BY <1>2, <1>3, PanicTracks DEF LogInv, RecordersTrack
<1>10. LinesTrack'
  BY <1>3 DEF LinesTrack
<1> QED BY <1>4, <1>5, <1>6, <1>7, <1>8, <1>9, <1>10 DEF LogInv

\* MaxBody's 413: the only answer that can miss a correlation id.
LEMMA RejectKeepsLog ==
    ASSUME IInv, LogInv, RejectBody
    PROVE  LogInv'
<1>1. /\ mode = "down" /\ mode' = "up" /\ at \in Layers /\ chain[at] = "MaxBody"
      /\ at' = at - 1 /\ SendEnvelope(at - 1, 413, "kit")
      /\ UNCHANGED <<config, live, panicVal, log, ops>>
  BY DEF RejectBody, Entering
<1>2. /\ Layers = 1..Len(chain) /\ Layers' = Layers /\ chain' = chain /\ Len(chain) \in Nat
      /\ live \subseteq 1..(at - 1) /\ live' = live /\ at - 1 \in Int /\ ~Taken(resp)
  BY <1>1, Shape DEF Layers, config
<1>3. /\ OutLines' = {} /\ PanicLines' = {} /\ \A k, i : Logged(k, i)' <=> Logged(k, i)
      /\ panicVal = "none" /\ panicVal' = "none" /\ \A i : ~Logged("out", i)
  BY <1>1, SameLines, LoggedOut DEF LogInv, LinesKnown, PanicKnown
<1>4. /\ Keeps(resp, resp') /\ resp'.committed /\ resp'.status = 413
      /\ \A i \in Through("Record", at - 1) : Tracks(rec'[i], resp', panicVal')
  <2>1. 413 \in Nat /\ ~Informational(413) /\ "kit" \in {"app", "kit"} /\ RecordersTrack
    BY DEF Informational, LogInv
  <2> QED BY <1>1, <1>2, <2>1, EnvelopeLog
<1>5. RecoversLive'
  BY <1>1, <1>2 DEF LogInv, RecoversLive, Ahead
<1>6. PanicKnown'
  BY <1>1, <1>2, <1>3 DEF LogInv, PanicKnown
<1>7. Correlations'
  <2>1. ASSUME NEW i \in Layers, chain[i] = "CorrelationID"
        PROVE  resp'.correlation \/ Rejected(i)'
    <3>1. CASE i < at
      BY <1>1, <1>4, <2>1, <3>1 DEF LogInv, Correlations, Keeps
    <3>2. CASE i > at
      BY <1>1, <1>2, <1>4, <3>2 DEF Rejected
    <3> QED BY <1>1, <1>2, <2>1, <3>1, <3>2
  <2> QED BY <1>1, <1>2, <1>4, <2>1 DEF LogInv, Correlations, Keeps
<1>8. LinesKnown'
  BY <1>1, <1>2, <1>3 DEF LogInv, LinesKnown
<1>9. CommitReasons'
  BY <1>1, <1>4 DEF CommitReasons, Reason, Taken
<1>10. RecordersTrack'
  <2>1. \A i \in live : chain[i] = "Record" => i \in Through("Record", at - 1)
    BY <1>1, <1>2 DEF Through
  <2> QED BY <1>2, <1>4, <2>1 DEF RecordersTrack
<1>11. LinesTrack'
  BY <1>3 DEF LinesTrack
<1> QED BY <1>5, <1>6, <1>7, <1>8, <1>9, <1>10, <1>11 DEF LogInv

-----------------------------------------------------------------------------
(***************************************************************************)
(* The way up and out.                                                     *)
(***************************************************************************)

\* A layer that is left without a line.
Ascends ==
    /\ mode \in {"up", "panic"} /\ mode' = mode /\ at \in Layers /\ at' = at - 1
    /\ live' = live \ {at}
    /\ UNCHANGED <<chain, committed, rec, resp, panicVal, log>>
    /\ mode = "up" => ~(at \in live /\ chain[at] = "Record")
    /\ (mode = "panic" /\ panicVal # "abort") => chain[at] # "Recover"

LEMMA UpAscends ==
    ASSUME IInv, LogInv, ReturnOther \/ RepanicAbort \/ UnwindOther
    PROVE  Ascends
<1>1. CASE ReturnOther
  BY <1>1 DEF ReturnOther, Ascends, config
<1>2. CASE RepanicAbort
  BY <1>2, Shape DEF RepanicAbort, Ascends, config
<1>3. CASE UnwindOther
  <2>1. mode = "panic" /\ at \in Layers /\ ~(at \in live /\ chain[at] = "Recover")
    BY <1>3 DEF UnwindOther
  <2>2. chain[at] # "Recover"
    BY <2>1, Shape DEF LogInv, RecoversLive, Ahead
  <2> QED BY <1>3, <2>1, <2>2 DEF UnwindOther, Ascends, config
<1> QED BY <1>1, <1>2, <1>3

LEMMA AscendsLog ==
    ASSUME IInv, LogInv, Ascends
    PROVE  LogInv'
<1>1. /\ Layers = 1..Len(chain) /\ Layers' = Layers /\ chain' = chain /\ Len(chain) \in Nat
      /\ live \subseteq 1..at /\ at \in Layers /\ at' = at - 1 /\ live' = live \ {at}
      /\ mode \in {"up", "panic"} /\ mode' = mode
      /\ UNCHANGED <<committed, rec, resp, panicVal, log>>
  BY Shape DEF Ascends, Layers
<1>2. /\ OutLines' = OutLines /\ PanicLines' = PanicLines
      /\ \A k, i : Logged(k, i)' <=> Logged(k, i)
  BY <1>1, SameLines
<1>3. \A l \in PanicLines : l.layer \in Layers
  BY DEF LogInv, PanicKnown
<1>4. RecoversLive'
  BY <1>1 DEF LogInv, RecoversLive, Ahead
<1>5. PanicKnown'
  BY <1>1, <1>2 DEF LogInv, PanicKnown, Ascends
<1>6. Correlations'
  BY <1>1 DEF LogInv, Correlations, Rejected
<1>7. LinesKnown'
  <2>1. mode = "up" => \A l \in PanicLines : l.layer > at'
    BY <1>1, <1>3 DEF LogInv, LinesKnown
  <2>2. ASSUME NEW i \in Layers, Logged("in", i), i \notin live'
        PROVE  /\ i > at'
               /\ mode = "up" => (Logged("out", i) <=> ~ \E l \in PanicLines : l.layer < i)
    <3>1. i \notin live \/ (i = at /\ mode = "panic")
      BY <1>1, <2>2 DEF LogInv, LinesKnown, Ascends
    <3> QED BY <1>1, <2>2, <3>1 DEF LogInv, LinesKnown
  <2> QED BY <1>1, <1>2, <2>1, <2>2 DEF LogInv, LinesKnown
<1>8. CommitReasons'
  BY <1>1, <1>2 DEF LogInv, CommitReasons, Reason
<1>9. RecordersTrack'
  BY <1>1 DEF LogInv, RecordersTrack
<1>10. LinesTrack'
  BY <1>1, <1>2 DEF LogInv, LinesTrack, LineTracks
<1> QED BY <1>4, <1>5, <1>6, <1>7, <1>8, <1>9, <1>10 DEF LogInv

\* A recorder's line says what it knows.
LEMMA LineOfRecorder ==
    ASSUME NEW i \in Layers, NEW w \in Responses, rec[i] \in Recorders, NEW p,
           Tracks(rec[i], w, p)
    PROVE  LineTracks(Line("out", i, LoggedStatus(rec[i]), LoggedBody(rec[i]), "none"), w, p)
<1> DEFINE l == Line("out", i, LoggedStatus(rec[i]), LoggedBody(rec[i]), "none")
<1>1. /\ l.layer = i /\ l.status = LoggedStatus(rec[i]) /\ l.body = LoggedBody(rec[i])
  BY DEF Line
<1> SUFFICES LineTracks(l, w, p)
  OBVIOUS
<1> HIDE DEF l
<1>2. CASE w.hijacked
  BY <1>1, <1>2 DEF Tracks, LineTracks, LoggedStatus, LoggedBody
<1>3. CASE ~w.hijacked
  <2>1. LoggedStatus(rec[i]) = rec[i].status
    BY <1>3 DEF Tracks, LoggedStatus
  <2>2. rec[i].logBody /\ l.status # 101 => l.body = rec[i].captured
    BY <1>1, <2>1 DEF LoggedBody
  <2> QED BY <1>1, <1>3, <2>1, <2>2 DEF Tracks, LineTracks
<1> QED BY <1>2, <1>3

LEMMA ReturnKeepsLog ==
    ASSUME IInv, LogInv, ReturnRecord
    PROVE  LogInv'
<1> DEFINE l == Line("out", at, LoggedStatus(rec[at]), LoggedBody(rec[at]), "none")
<1>1. /\ mode = "up" /\ mode' = "up" /\ at \in live /\ chain[at] = "Record"
      /\ live' = live \ {at} /\ at' = at - 1 /\ log' = Append(log, l)
      /\ UNCHANGED <<config, committed, rec, resp, panicVal>>
  BY DEF ReturnRecord
<1>2. /\ Layers = 1..Len(chain) /\ Layers' = Layers /\ chain' = chain /\ Len(chain) \in Nat
      /\ live \subseteq 1..at /\ at \in Layers /\ rec[at] \in Recorders /\ resp \in Responses
      /\ log \in Seq(Lines)
  BY <1>1, Shape DEF Layers, config
<1>3. l \in Lines /\ l.kind = "out" /\ l.layer = at
  BY <1>2 DEF Line, Lines, LoggedStatus, LoggedBody, Recorders
<1>4. LineTracks(l, resp, panicVal)
  BY <1>1, <1>2, LineOfRecorder DEF LogInv, RecordersTrack
<1> HIDE DEF l
<1>5. /\ OutLines' = OutLines \cup {l} /\ PanicLines' = PanicLines
      /\ \A i : Logged("in", i)' <=> Logged("in", i)
      /\ \A i : Logged("out", i)' <=> Logged("out", i) \/ i = at
  <2>1. /\ OutLines' = OutLines \cup {l} /\ PanicLines' = PanicLines
        /\ \A k, i : Logged(k, i)' <=> Logged(k, i) \/ (k = "out" /\ i = at)
    BY <1>1, <1>2, <1>3, AppendLines
  <2> QED BY <2>1
<1>6. \A p \in PanicLines : p.layer \in Layers
  BY DEF LogInv, PanicKnown
<1>7. RecoversLive'
  BY <1>1, <1>2 DEF LogInv, RecoversLive, Ahead
<1>8. PanicKnown'
  BY <1>1, <1>2, <1>5 DEF LogInv, PanicKnown
<1>9. Correlations'
  BY <1>1, <1>2 DEF LogInv, Correlations, Rejected
<1>10. LinesKnown'
  <2>1. \A p \in PanicLines : p.layer > at /\ p.layer > at'
    BY <1>1, <1>2, <1>6 DEF LogInv, LinesKnown
  <2>2. ASSUME NEW i \in Layers, Logged("in", i)
        PROVE  /\ chain[i] = "Record"
               /\ i \in live' => ~(Logged("out", i) \/ i = at)
               /\ i \notin live' =>
                    /\ i > at'
                    /\ (Logged("out", i) \/ i = at) <=> ~ \E p \in PanicLines : p.layer < i
    <3>1. CASE i = at
      BY <1>1, <1>2, <1>6, <2>1, <3>1
    <3>2. CASE i # at
      BY <1>1, <1>2, <2>2, <3>2 DEF LogInv, LinesKnown
    <3> QED BY <3>1, <3>2, <2>2 DEF LogInv, LinesKnown
  <2> QED BY <1>1, <1>2, <1>5, <2>1, <2>2 DEF LinesKnown
<1>11. CommitReasons'
  BY <1>1, <1>2, <1>5 DEF LogInv, CommitReasons, Reason
<1>12. RecordersTrack'
  BY <1>1, <1>2 DEF LogInv, RecordersTrack
<1>13. LinesTrack'
  <2>1. \A k \in OutLines \cup {l} : LineTracks(k, resp, panicVal)
    BY <1>4 DEF LogInv, LinesTrack
  <2> QED BY <1>1, <1>2, <1>5, <2>1 DEF LinesTrack, LineTracks
<1> QED BY <1>7, <1>8, <1>9, <1>10, <1>11, <1>12, <1>13 DEF LogInv

LEMMA RecoverKeepsLog ==
    ASSUME IInv, LogInv, RecoverPanic
    PROVE  LogInv'
<1> DEFINE l == Line("panic", at, 0, 0, panicVal)
<1>1. /\ mode = "panic" /\ mode' = "up" /\ at \in live /\ chain[at] = "Recover"
      /\ panicVal # "abort" /\ live' = live \ {at} /\ at' = at - 1 /\ log' = Append(log, l)
      /\ UNCHANGED <<config, panicVal>>
      /\ IF at \in committed THEN UNCHANGED <<committed, rec, resp>>
         ELSE SendEnvelope(at, 500, "kit")
  BY DEF RecoverPanic
<1>2. /\ Layers = 1..Len(chain) /\ Layers' = Layers /\ chain' = chain /\ Len(chain) \in Nat
      /\ live \subseteq 1..at /\ at \in Layers /\ log \in Seq(Lines)
      /\ panicVal \in Panics \cup {"none"}
  BY <1>1, Shape DEF Layers, config
<1>3. l \in Lines /\ l.kind = "panic" /\ l.layer = at /\ l.value = panicVal
  BY <1>2 DEF Line, Lines
<1> HIDE DEF l
<1>4. /\ OutLines' = {} /\ PanicLines' = {l}
      /\ \A i : Logged("in", i)' <=> Logged("in", i)
      /\ \A i : ~Logged("out", i) /\ ~Logged("out", i)'
  <2>1. OutLines = {} /\ PanicLines = {}
    BY <1>1 DEF LogInv, LinesKnown
  <2> QED BY <1>1, <1>2, <1>3, <2>1, AppendLines, LoggedOut
<1>5. /\ Keeps(resp, resp')
      /\ \A i \in live : chain[i] = "Record" => Tracks(rec'[i], resp', panicVal')
      /\ Reason'
  <2>1. CASE at \in committed
    <3>1. UNCHANGED <<committed, rec, resp>> /\ panicVal' = panicVal
      BY <1>1, <2>1
    <3> QED BY <2>1, <3>1 DEF Keeps, Reason, LogInv, RecordersTrack, CommitReasons
  <2>2. CASE at \notin committed
    <3>1. /\ SendEnvelope(at, 500, "kit") /\ 500 \in Nat /\ at \in Int /\ RecordersTrack
          /\ "kit" \in {"app", "kit"} /\ panicVal' = panicVal
      BY <1>1, <1>2, <2>2 DEF LogInv
    <3>2. /\ Keeps(resp, resp') /\ Taken(resp')
          /\ \A i \in Through("Record", at) : Tracks(rec'[i], resp', panicVal)
      BY <3>1, EnvelopeLog
    <3>3. \A i \in live : chain[i] = "Record" => i \in Through("Record", at)
      BY <1>2 DEF Through
    <3> QED BY <3>1, <3>2, <3>3, TakenReason
  <2> QED BY <2>1, <2>2
<1>6. RecoversLive'
  BY <1>1, <1>2 DEF LogInv, RecoversLive, Ahead
<1>7. PanicKnown'
  BY <1>1, <1>2, <1>3, <1>4 DEF LogInv, PanicKnown
<1>8. Correlations'
  BY <1>1, <1>2, <1>5 DEF LogInv, Correlations, Keeps
<1>9. LinesKnown'
  <2>1. ASSUME NEW i \in Layers, Logged("in", i)
        PROVE  chain[i] = "Record" /\ i # at /\ (i \notin live' => i > at)
    BY <1>1, <2>1 DEF LogInv, LinesKnown
  <2> QED BY <1>1, <1>2, <1>3, <1>4, <2>1 DEF LinesKnown
<1>10. CommitReasons'
  BY <1>1, <1>5 DEF CommitReasons
<1>11. RecordersTrack'
  BY <1>1, <1>2, <1>5 DEF RecordersTrack
<1>12. LinesTrack'
  BY <1>4 DEF LinesTrack
<1> QED BY <1>6, <1>7, <1>8, <1>9, <1>10, <1>11, <1>12 DEF LogInv

\* The end: net/http's header changes no line that is true of the response.
LEMMA FinishKeepsLog ==
    ASSUME IInv, LogInv, Finish
    PROVE  LogInv'
<1>1. /\ mode = "up" /\ mode' = "done" /\ at = 0 /\ at' = 0 /\ "server" \in Authors
      /\ resp' = ImplicitHeader(resp, "server")
      /\ chain' = chain /\ live' = live /\ committed' = committed /\ rec' = rec
      /\ panicVal' = panicVal /\ log' = log
  BY DEF Finish, Finished, config, path, Authors
<1>2. /\ Layers = 1..Len(chain) /\ Layers' = Layers /\ Len(chain) \in Nat /\ live = {}
      /\ resp \in Responses
  BY <1>1, Shape DEF Layers
<1>3. /\ OutLines' = OutLines /\ PanicLines' = PanicLines
      /\ \A k, i : Logged(k, i)' <=> Logged(k, i)
  BY <1>1, SameLines
<1>4. /\ Keeps(resp, resp') /\ Taken(resp')
      /\ resp'.hijacked = resp.hijacked /\ resp'.sent = resp.sent
      /\ resp'.rejected = resp.rejected /\ resp'.superfluous = resp.superfluous
      /\ resp'.early = resp.early
      /\ ~resp'.hijacked => resp'.committed /\ resp'.status = StatusOf(resp)
  BY <1>1, <1>2, ImplicitFields
<1>5. RecoversLive'
  BY <1>1 DEF RecoversLive, Ahead
<1>6. PanicKnown'
  BY <1>1, <1>2, <1>3 DEF LogInv, PanicKnown
<1>7. Correlations'
  BY <1>1, <1>2, <1>4 DEF LogInv, Correlations, Keeps, Rejected
<1>8. LinesKnown'
  BY <1>1, <1>2, <1>3 DEF LogInv, LinesKnown
<1>9. CommitReasons'
  <2>1. Reason => resp'.author # "server" \/ resp'.early \/ panicVal' = "badcode"
    BY <1>1, <1>4, FinishInvariant DEF Reason, IInv, OwnerByMode
  <2>2. committed' # {} => Reason'
    BY <1>4, TakenReason
  <2> QED BY <1>1, <1>3, <1>4, <2>1, <2>2 DEF LogInv, CommitReasons
<1>10. RecordersTrack'
  BY <1>1, <1>2 DEF RecordersTrack
<1>11. LinesTrack'
  <2> SUFFICES ASSUME NEW l \in OutLines
               PROVE  LineTracks(l, resp, panicVal)'
    BY <1>3 DEF LinesTrack
  <2>1. LineTracks(l, resp, panicVal)
    BY DEF LogInv, LinesTrack
  <2>2. /\ BodyOf(resp') = BodyOf(resp) /\ Excused(resp', panicVal') = Excused(resp, panicVal)
        /\ ~resp'.hijacked => StatusOf(resp') = StatusOf(resp)
    BY <1>1, <1>4 DEF BodyOf, Excused, StatusOf
  <2> QED BY <1>1, <1>2, <1>4, <2>1, <2>2 DEF LineTracks
<1> QED BY <1>5, <1>6, <1>7, <1>8, <1>9, <1>10, <1>11 DEF LogInv

LEMMA AbortKeepsLog ==
    ASSUME IInv, LogInv, ServerAbort
    PROVE  LogInv'
<1>1. /\ mode = "panic" /\ mode' = "aborted" /\ at = 0 /\ at' = 0
      /\ chain' = chain /\ live' = live /\ committed' = committed /\ rec' = rec
      /\ panicVal' = panicVal /\ log' = log /\ resp' = resp
  BY DEF ServerAbort, config, path
<1>2. Layers' = Layers /\ live = {}
  BY <1>1, Shape DEF Layers
<1>3. /\ OutLines' = OutLines /\ PanicLines' = PanicLines
      /\ \A k, i : Logged(k, i)' <=> Logged(k, i)
  BY <1>1, SameLines
<1>4. RecoversLive' /\ RecordersTrack'
  BY <1>1, <1>2 DEF RecoversLive, Ahead, RecordersTrack
<1>5. PanicKnown' /\ LinesKnown'
  BY <1>1, <1>2, <1>3 DEF LogInv, PanicKnown, LinesKnown
<1>6. Correlations' /\ CommitReasons'
  BY <1>1, <1>2 DEF LogInv, Correlations, CommitReasons, Reason
<1>7. LinesTrack'
  BY <1>1, <1>2, <1>3 DEF LogInv, LinesTrack, LineTracks
<1> QED BY <1>4, <1>5, <1>6, <1>7 DEF LogInv

-----------------------------------------------------------------------------
(***************************************************************************)
(* The invariant and what follows from it.                                 *)
(***************************************************************************)
LEMMA InitLog ==
    ASSUME Init
    PROVE  LogInv
<1>1. /\ mode = "down" /\ at = 1 /\ live = {} /\ committed = {} /\ panicVal = "none"
      /\ log = <<>> /\ resp = NewResponse /\ Layers = 1..Len(chain) /\ Len(chain) \in Nat
  BY ChainsAssumption DEF Init, Layers
<1>2. OutLines = {} /\ PanicLines = {} /\ \A k, i : ~Logged(k, i)
  BY <1>1 DEF OutLines, PanicLines, Logged
<1>3. ~resp.committed
  BY <1>1 DEF NewResponse
<1> QED BY <1>1, <1>2, <1>3 DEF LogInv, RecoversLive, Ahead, PanicKnown, Correlations, LinesKnown,
                                CommitReasons, RecordersTrack, LinesTrack

LEMMA NextLog ==
    ASSUME IInv, LogInv, [Next]_vars
    PROVE  LogInv'
<1>1. CASE HandlerCall
  BY <1>1, CallsKeepLog
<1>2. CASE StartHandler \/ Return \/ \E v \in {"error", "abort"} : Panic(v)
  BY <1>2, ControlKeepsLog
<1>3. CASE Down /\ ~RejectBody /\ ~StartHandler
  BY <1>3, DownDescends, DescendsLog
<1>4. CASE RejectBody
  BY <1>4, RejectKeepsLog
<1>5. CASE ReturnOther \/ RepanicAbort \/ UnwindOther
  BY <1>5, UpAscends, AscendsLog
<1>6. CASE ReturnRecord
  BY <1>6, ReturnKeepsLog
<1>7. CASE RecoverPanic
  BY <1>7, RecoverKeepsLog
<1>8. CASE Finish
  BY <1>8, FinishKeepsLog
<1>9. CASE ServerAbort
  BY <1>9, AbortKeepsLog
<1>10. CASE UNCHANGED vars
  BY <1>10 DEF vars, LogInv, RecoversLive, Ahead, PanicKnown, Correlations, Rejected, LinesKnown,
               CommitReasons, Reason, RecordersTrack, LinesTrack, LineTracks, Layers, OutLines,
               PanicLines, Logged
<1> QED BY <1>1, <1>2, <1>3, <1>4, <1>5, <1>6, <1>7, <1>8, <1>9, <1>10
        DEF Next, Handler, Up, Terminated

\* In every exchange the recorders, the log and the fate of a panic are what the
\* response and the way the request took make them.
THEOREM LogInvariance == Spec => []LogInv
<1>1. IInv /\ LogInv /\ [Next]_vars => LogInv'
  BY NextLog
<1>2. Init => LogInv
  BY InitLog
<1> QED BY <1>1, <1>2, Invariance, PTL DEF Spec

\* For every chain: net/http sees a panic only if it is an abort or nobody recovers,
\* and an abort passes every Recover without a line or an answer.
THEOREM PanicsEnd == Spec => []PanicFate
<1>1. ASSUME IInv, LogInv
      PROVE  PanicFate
  <2>1. /\ Layers = 1..Len(chain) /\ mode \in Modes
        /\ mode \in {"done", "aborted"} => at = 0
        /\ panicVal \in Panics \cup {"none"}
    BY <1>1, Shape
  <2>2. PanicKnown /\ LinesKnown
    BY <1>1 DEF LogInv
  <2>3. mode = "aborted" => \/ panicVal = "abort"
                            \/ panicVal # "none" /\ ~HasLayer("Recover")
    BY <2>1, <2>2 DEF PanicKnown, HasLayer
  <2>4. mode = "done" => panicVal # "abort" /\ (panicVal # "none" => HasLayer("Recover"))
    BY <2>2 DEF PanicKnown, HasLayer
  <2>5. panicVal = "abort" => mode \notin {"up", "done"}
    BY <2>2 DEF PanicKnown
  <2>6. panicVal = "abort" => PanicLines = {} /\ resp.author # "kit"
    BY <1>1, <2>2, <2>5 DEF LinesKnown, IInv, OwnerByMode
  <2> QED BY <2>3, <2>4, <2>6 DEF PanicFate, Over
<1> QED BY <1>1, Invariance, LogInvariance, PTL

\* For every chain and handler: a contained panic is answered by an envelope or was
\* answered before, but for the two headers that commit nothing.
THEOREM PanicsAreAnswered == Spec => []PanicAnswered
<1>1. ASSUME IInv, LogInv
      PROVE  PanicAnswered
  <2>1. \A l \in PanicLines : l.value = panicVal
    BY <1>1 DEF LogInv, PanicKnown
  <2> QED BY <1>1, <2>1 DEF LogInv, CommitReasons, PanicAnswered
<1> QED BY <1>1, Invariance, LogInvariance, PTL

\* For every chain: a request line without its response line means that a panic
\* passed its Record.
THEOREM LinesArePaired == Spec => []LinesPaired
<1>1. ASSUME IInv, LogInv
      PROVE  LinesPaired
  <2> SUFFICES ASSUME Over, NEW i \in Layers, Logged("in", i)
               PROVE  Logged("out", i) <=> ~ \/ mode = "aborted"
                                             \/ \E l \in PanicLines : l.layer < i
    BY DEF LinesPaired
  <2>1. mode \in {"done", "aborted"} /\ i \notin live
    BY <1>1 DEF Over, LogInv, LinesKnown
  <2>2. CASE mode = "done"
    BY <1>1, <2>1, <2>2 DEF LogInv, LinesKnown
  <2>3. CASE mode = "aborted"
    BY <1>1, <2>3, LoggedOut DEF LogInv, LinesKnown
  <2> QED BY <2>1, <2>2, <2>3
<1> QED BY <1>1, Invariance, LogInvariance, PTL

\* For every chain and handler: the status that a Record logs is the client's, with
\* only the excuses of a handler that gave several or an invalid one.
THEOREM StatusIsTheClients == Spec => []StatusFaithful
<1>1. ASSUME IInv, LogInv
      PROVE  StatusFaithful
  <2> SUFFICES ASSUME mode = "done", NEW l \in OutLines
               PROVE  IF resp.hijacked THEN l.status = 101 /\ l.body = 0
                      ELSE \/ l.status = resp.status
                           \/ resp.superfluous \/ resp.early
                           \/ \E p \in PanicLines : p.value = "badcode"
    BY DEF StatusFaithful
  <2>1. LineTracks(l, resp, panicVal)
    BY <1>1 DEF LogInv, LinesTrack
  <2>2. Taken(resp)
    BY <1>1 DEF LogInv, CommitReasons
  <2>3. panicVal = "badcode" => \E p \in PanicLines : p.value = "badcode"
    BY <1>1 DEF LogInv, PanicKnown
  <2> QED BY <2>1, <2>2, <2>3 DEF LineTracks, Excused, StatusOf, Taken
<1> QED BY <1>1, Invariance, LogInvariance, PTL

\* For every chain, handler and limit: the body that a Record logs is the body that
\* was sent, up to the limit.
THEOREM BodyIsTheClients == Spec => []BodyFaithful
<1>1. ASSUME IInv, LogInv
      PROVE  BodyFaithful
  <2> SUFFICES ASSUME mode = "done", ~resp.rejected, NEW l \in OutLines,
                      rec[l.layer].logBody, l.status # 101, ~resp.superfluous
               PROVE  l.body = IF AllSent < BodyLimit THEN AllSent ELSE BodyLimit
    BY DEF BodyFaithful
  <2>1. LineTracks(l, resp, panicVal)
    BY <1>1 DEF LogInv, LinesTrack
  <2> QED BY <2>1 DEF LineTracks, Kept, BodyOf, AllSent
<1> QED BY <1>1, Invariance, LogInvariance, PTL

\* For every chain with CorrelationID in it: whoever answers, the response carries
\* the id, unless a MaxBody further out answered.
THEOREM CorrelationIsEchoed == Spec => []EchoedOnResponse
<1>1. LogInv => EchoedOnResponse
  BY DEF LogInv, Correlations, Rejected, EchoedOnResponse
<1> QED BY <1>1, LogInvariance, PTL
==============================================================================
