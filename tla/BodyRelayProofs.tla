---------------------------- MODULE BodyRelayProofs ----------------------------
(***************************************************************************)
(* Proofs about BodyRelay: for every pipeline of layers, every declared    *)
(* length and every peer, the layers lose nothing, MaxBody's limit holds   *)
(* for whoever reads behind it, and the reader finds BodyStream's body.    *)
(***************************************************************************)
EXTENDS BodyRelay, FiniteSetTheorems, NaturalsInduction, WellFoundedInduction, TLAPS

-----------------------------------------------------------------------------
(***************************************************************************)
(* Natural numbers: a set has a least element, a bounded one a greatest.   *)
(***************************************************************************)
LEMMA LeastLemma ==
    ASSUME NEW S, S \subseteq Nat, S # {}
    PROVE  \E m \in S : \A k \in S : m =< k
<1> DEFINE R == OpToRel(<, Nat)
<1>1. IsWellFoundedOn(R, Nat)
  BY NatLessThanWellFounded
<1>2. \A x, y \in Nat : <<x, y>> \in R <=> x < y
  BY DEF OpToRel
<1> HIDE DEF R
<1>3. PICK m \in S : \A k \in S : ~ (<<k, m>> \in R)
  BY <1>1, WFMin
<1>4. \A k \in S : k \in Nat /\ m \in Nat /\ ~ (k < m)
  BY <1>2, <1>3
<1>5. \A k \in S : m =< k
  BY <1>4
<1> QED BY <1>5

LEMMA MaxLemma ==
    ASSUME NEW n \in Nat, NEW S, S \subseteq 0..n, S # {}
    PROVE  Max(S) \in S /\ \A k \in S : k =< Max(S)
<1> DEFINE T == {n - k : k \in S}
<1>1. T \subseteq Nat
  OBVIOUS
<1>2. PICK s : s \in S
  OBVIOUS
<1>3. n - s \in T
  BY <1>2
<1>4. PICK t \in T : \A k \in T : t =< k
  <2> HIDE DEF T
  <2> QED BY <1>1, <1>3, LeastLemma
<1>5. PICK m \in S : t = n - m
  OBVIOUS
<1>6. \A k \in S : n - k \in T /\ k \in 0..n
  OBVIOUS
<1>7. \A k \in S : m >= k
  <2> HIDE DEF T
  <2> QED BY <1>4, <1>5, <1>6
<1> QED BY <1>5, <1>6, <1>7 DEF Max

LEMMA TailLemma ==
    ASSUME NEW S, NEW q \in Seq(S), q # <<>>
    PROVE  /\ Tail(q) \in Seq(S) /\ Len(q) > 0 /\ Len(q) \in Nat /\ Head(q) = q[1]
           /\ Len(Tail(q)) = Len(q) - 1
           /\ \A j \in 1..(Len(q) - 1) : Tail(q)[j] = q[j + 1]
OBVIOUS

-----------------------------------------------------------------------------
(***************************************************************************)
(* The inductive invariant.  nxt[i] is the position of the next byte that  *)
(* a read through the first i layers gives: one more than what came        *)
(* through them.  A layer holds what came through those below it and not   *)
(* yet through itself.  p, h, e and l stand for pos, head, capErr and      *)
(* left, so that the same is said of a state and of one after a read.      *)
(***************************************************************************)
Levels == 0..Len(pipe)

\* The byte that MaxBody took and did not pass on.
Lost(i, e) == IF i \in Caps /\ e = "toolarge" THEN 1 ELSE 0

Chain(nxt, p, h, e) ==
    /\ nxt \in [Levels -> Nat] /\ nxt[0] = p + 1
    /\ \A i \in Layers : /\ Len(h[i]) = nxt[i - 1] - nxt[i] - Lost(i, e)
                         /\ \A j \in DOMAIN h[i] : h[i][j] = nxt[i] + j - 1
    /\ \A i, j \in Levels : i =< j => nxt[j] =< nxt[i]

\* MaxBytesReader counts what came through it.
Counted(nxt, l, a) == \A c \in Caps : c < a => l = pipe[c].limit + 1 - nxt[c]

Stopped == peer # "open" \/ sent = declared

\* Nothing more will come through the first i layers.
Exhausted(i, p, h, e) ==
    \/ p = sent /\ Stopped /\ \A j \in 1..i : h[j] = <<>>
    \/ e = "toolarge" /\ \E c \in Caps : c =< i /\ \A j \in (c + 1)..i : h[j] = <<>>

Short(i) == pipe[i].kind = "log" /\ Len(logged[i]) < pipe[i].limit

\* A log that stopped short of its limit had all there was.
Complete(nxt, p, h, e, a) ==
    \A i \in Layers : (i < a /\ Short(i))
        => nxt[i - 1] = Len(logged[i]) + 1 /\ Exhausted(i - 1, p, h, e)

\* MaxBody's error is final: the end of the body below it, or its limit.
Final(p, h, e, l, a) ==
    /\ e # "none" => \E c \in Caps : c < a
    /\ e = "toolarge" => l = 0
    /\ e \in {"eof", "broken"} => p = sent /\ \A c \in Caps : \A j \in 1..c : h[j] = <<>>
    /\ e = "eof" => peer = "closed" \/ sent = declared
    /\ e = "broken" => peer = "broken"

\* What the layer that is being set up, or the reader, received so far.
Front == IF at \in Layers THEN Len(logged[at]) ELSE Len(got)

Flow(nxt, p, h, e, l, a) ==
    Chain(nxt, p, h, e) /\ Counted(nxt, l, a) /\ Complete(nxt, p, h, e, a)

Flows == \E nxt : Flow(nxt, pos, head, capErr, left, at) /\ nxt[at - 1] = Front + 1

\* The layers are set up one after the other, before the reader runs.
Stages ==
    /\ \A i \in Layers : i >= at => head[i] = <<>>
    /\ \A i \in Layers : i > at => logged[i] = <<>>
    /\ \A c \in Caps : head[c] = <<>> /\ logged[c] = <<>>
    /\ at \in Layers => got = <<>> /\ seen = "none"
    /\ rejected => at \in Layers

\* What is read is the start of the body, and what is behind MaxBody fits its limit.
Readings ==
    /\ FromStart(got) /\ \A i \in Layers : FromStart(logged[i])
    /\ \A c \in Caps : \A i \in Layers : c < i => Len(logged[i]) =< pipe[c].limit

\* The reader's end of the body stays the end.
Endings ==
    /\ Final(pos, head, capErr, left, at)
    /\ seen \in {"eof", "broken"} => Len(got) = sent
    /\ seen = "eof" => peer = "closed" \/ sent = declared
    /\ seen = "broken" => peer = "broken"

IInv == TypeOK /\ Stages /\ Readings /\ Endings /\ Flows

-----------------------------------------------------------------------------
(***************************************************************************)
(* Layers that hold nothing, and where a read is served.                   *)
(***************************************************************************)

\* The configuration.
LEMMA ConfigLemma ==
    ASSUME TypeOK
    PROVE  /\ Len(pipe) \in Nat /\ Layers = 1..Len(pipe)
           /\ \A i \in Layers : pipe[i].kind \in {"log", "cap"} /\ pipe[i].limit \in Nat
           /\ Caps \subseteq Layers /\ \A c, d \in Caps : c = d
           /\ \A i \in Layers : i \notin Caps => pipe[i].kind = "log"
           /\ MaxSent \in Nat /\ declared \in (0..MaxSent) \cup {Unknown}
<1>1. pipe \in Seq(Layer) /\ pipe \in Pipelines
  BY PipelinesAssumption DEF TypeOK
<1>2. \A i \in Layers : pipe[i] \in Layer
  BY <1>1 DEF Layers
<1>3. \A c, d \in Caps : c = d
  BY <1>1, PipelinesAssumption DEF Caps, Layers
<1> QED BY <1>1, <1>2, <1>3, BoundsAssumption DEF TypeOK, Layer, Layers, Caps

\* A read through layers that hold and lose nothing goes on as one below them.
LEMMA FlatLemma ==
    ASSUME TypeOK, NEW nxt, NEW p, NEW h, NEW e, Chain(nxt, p, h, e),
           NEW a \in Levels, NEW b \in Levels, a =< b,
           \A i \in (a + 1)..b : Len(h[i]) = 0 /\ Lost(i, e) = 0
    PROVE  \A i \in a..b : nxt[i] = nxt[a]
<1> DEFINE S == {i \in a..b : nxt[i] # nxt[a]}
<1>1. Len(pipe) \in Nat /\ Layers = 1..Len(pipe)
  BY ConfigLemma
<1> SUFFICES ASSUME S # {}
             PROVE  FALSE
  OBVIOUS
<1>2. S \subseteq Nat
  BY <1>1 DEF Levels
<1>3. PICK m \in S : \A k \in S : m =< k
  <2> HIDE DEF S
  <2> QED BY <1>2, LeastLemma
<1>4. m \in a..b /\ nxt[m] # nxt[a] /\ m # a
  BY <1>3
<1>5. m - 1 \in a..b /\ m \in (a + 1)..b /\ m \in Layers /\ m - 1 \notin S
  BY <1>1, <1>3, <1>4 DEF Levels
<1>6. nxt[m - 1] = nxt[a]
  BY <1>5
<1>7. /\ nxt[m] \in Nat /\ nxt[m - 1] \in Nat
      /\ Len(h[m]) = nxt[m - 1] - nxt[m] - Lost(m, e) /\ Len(h[m]) = 0 /\ Lost(m, e) = 0
  BY <1>1, <1>5 DEF Chain, Levels
<1> QED BY <1>4, <1>6, <1>7

\* A read is served by the last layer that holds something, or the wire.
LEMMA SourceLemma ==
    ASSUME TypeOK, NEW k \in Levels
    PROVE  /\ Source(k) \in 0..k
           /\ Source(k) # 0 => Source(k) \in Layers /\ head[Source(k)] # <<>>
           /\ \A i \in (Source(k) + 1)..k : head[i] = <<>>
<1> DEFINE S == Holders(k) \cup {0}
<1>1. Len(pipe) \in Nat /\ Layers = 1..Len(pipe) /\ k \in Nat /\ k =< Len(pipe)
  BY ConfigLemma DEF Levels
<1>2. S \subseteq 0..k /\ S # {}
  BY <1>1 DEF Holders
<1>3. Source(k) \in S /\ \A i \in S : i =< Source(k)
  <2> HIDE DEF S
  <2>1. Max(S) \in S /\ \A i \in S : i =< Max(S)
    BY <1>1, <1>2, MaxLemma
  <2> QED BY <2>1 DEF Source, S
<1>4. \A i \in (Source(k) + 1)..k : i \notin S
  BY <1>1, <1>2, <1>3
<1>5. \A i \in (Source(k) + 1)..k : head[i] = <<>>
  BY <1>1, <1>2, <1>3, <1>4 DEF Holders
<1> QED BY <1>1, <1>2, <1>3, <1>5 DEF Holders

\* Flat is what the read finds between its source and its level, unless MaxBody
\* lost a byte there.
LEMMA LevelLemma ==
    ASSUME TypeOK, NEW nxt, Chain(nxt, pos, head, capErr), NEW k \in Levels
    PROVE  /\ \A i \in Source(k)..k :
                (\A c \in Caps : capErr = "toolarge" /\ Source(k) < c => i < c)
                  => nxt[i] = nxt[Source(k)]
           /\ \A c \in Caps : \A i \in c..k : Source(k) < c => nxt[i] = nxt[c]
<1> DEFINE s == Source(k)
<1>1. /\ Len(pipe) \in Nat /\ Layers = 1..Len(pipe) /\ k \in Nat /\ k =< Len(pipe)
      /\ Caps \subseteq Layers /\ \A c, d \in Caps : c = d
  BY ConfigLemma DEF Levels
<1>2. s \in 0..k /\ \A i \in (s + 1)..k : head[i] = <<>>
  BY SourceLemma
<1> HIDE DEF s
<1>3. ASSUME NEW i \in s..k, \A c \in Caps : capErr = "toolarge" /\ s < c => i < c
      PROVE  nxt[i] = nxt[s]
  <2>1. \A j \in (s + 1)..i : Len(head[j]) = 0 /\ Lost(j, capErr) = 0
    BY <1>1, <1>2, <1>3 DEF Lost
  <2>2. s \in Levels /\ i \in Levels /\ s =< i /\ i \in s..i
    BY <1>1, <1>2 DEF Levels
  <2> QED BY <2>1, <2>2, FlatLemma
<1>4. ASSUME NEW c \in Caps, NEW i \in c..k, s < c
      PROVE  nxt[i] = nxt[c]
  <2>1. \A j \in (c + 1)..i : Len(head[j]) = 0 /\ Lost(j, capErr) = 0
    BY <1>1, <1>2, <1>4 DEF Lost
  <2>2. c \in Levels /\ i \in Levels /\ c =< i /\ i \in c..i
    BY <1>1, <1>2 DEF Levels
  <2> QED BY <2>1, <2>2, FlatLemma
<1> QED BY <1>3, <1>4 DEF s

-----------------------------------------------------------------------------
(***************************************************************************)
(* A read of one byte through the layers below the one that runs.          *)
(***************************************************************************)

\* What a read finds when it takes a byte: all that is known of its source.
LEMMA TakeLemma ==
    ASSUME TypeOK, Stages, Endings, NEW nxt, Flow(nxt, pos, head, capErr, left, at),
           nxt[at - 1] = Front + 1, NEW k, k = at - 1, Takes(k)
    PROVE  LET s == Source(k)
           IN  /\ s \in 0..k /\ k \in Levels
               /\ \A i \in s..Len(pipe) : nxt[i] = nxt[s]
               /\ \A j \in Layers : s < j => head[j] = <<>>
               /\ capErr # "none" => \A c \in Caps : c < s
               /\ Byte(k) = nxt[s] /\ nxt[s] \in 1..sent
               /\ s = 0 => pos < sent
               /\ s # 0 => /\ s \in Layers /\ s \notin Caps /\ head[s] # <<>>
                           /\ nxt[s] < nxt[s - 1]
<1> DEFINE s == Source(k)
<1>1. /\ Len(pipe) \in Nat /\ Layers = 1..Len(pipe) /\ at \in 1..(Len(pipe) + 1)
      /\ Caps \subseteq Layers /\ \A c, d \in Caps : c = d
      /\ pos \in 0..sent /\ sent \in Nat
      /\ \A i \in Layers : head[i] \in Seq(1..MaxSent)
  BY ConfigLemma DEF TypeOK
<1>2. k \in Levels /\ k \in Nat
  BY <1>1 DEF Levels
<1>3. Chain(nxt, pos, head, capErr)
  BY DEF Flow
<1>15. \A i \in Levels : nxt[i] \in Nat
  BY <1>3 DEF Chain
<1>4. /\ s \in 0..k /\ (s # 0 => s \in Layers /\ head[s] # <<>>)
      /\ \A i \in (s + 1)..k : head[i] = <<>>
  BY <1>2, SourceLemma
<1>5. Offer(k) = "byte" /\ ~(Capped(k) /\ capErr # "none")
  BY DEF Takes
<1>6. /\ s = 0 => pos < sent /\ Byte(k) = pos + 1
      /\ s # 0 => Byte(k) = Head(head[s])
  BY <1>1, <1>4, <1>5 DEF Offer, Wire, Byte
<1>7. \A c \in Caps : s < c /\ c =< k => capErr = "none"
  BY <1>5 DEF Capped
<1>8. \A j \in Layers : s < j => head[j] = <<>>
  BY <1>1, <1>2, <1>4 DEF Stages
<1>9. \A c \in Caps : head[c] = <<>>
  BY DEF Stages
<1> HIDE DEF s
<1>10. capErr # "none" => \A c \in Caps : c < s
  <2>1. capErr # "none" => \A c \in Caps : c =< k
    BY <1>1 DEF Endings, Final
  <2> QED BY <1>1, <1>2, <1>4, <1>7, <1>9, <2>1
<1>11. \A i \in s..Len(pipe) : nxt[i] = nxt[s]
  <2>1. \A i \in (s + 1)..Len(pipe) : Len(head[i]) = 0 /\ Lost(i, capErr) = 0
    BY <1>1, <1>4, <1>8, <1>10 DEF Lost
  <2>2. s \in Levels /\ Len(pipe) \in Levels /\ s =< Len(pipe)
    BY <1>1, <1>2, <1>4 DEF Levels
  <2> QED BY <1>3, <2>1, <2>2, FlatLemma
<1>12. nxt[s] \in Nat /\ nxt[0] = pos + 1 /\ nxt[s] =< nxt[0] /\ nxt[s] > 0
  <2>1. nxt[k] = nxt[s] /\ Front \in Nat
    <3>1. k \in s..Len(pipe)
      BY <1>1, <1>2, <1>4 DEF Levels
    <3>2. nxt[k] = nxt[s]
      BY <1>11, <3>1
    <3>3. got \in Seq(1..MaxSent) /\ \A i \in Layers : logged[i] \in Seq(1..MaxSent)
      BY DEF TypeOK
    <3>4. Front \in Nat
      BY <3>3 DEF Front
    <3> QED BY <3>2, <3>4
  <2> QED BY <1>1, <1>2, <1>3, <1>4, <2>1 DEF Chain, Levels
<1>13. s # 0 => /\ s \notin Caps /\ nxt[s] < nxt[s - 1] /\ nxt[s - 1] =< nxt[0]
                /\ Head(head[s]) = nxt[s]
  <2> SUFFICES ASSUME s # 0
               PROVE  /\ s \notin Caps /\ nxt[s] < nxt[s - 1] /\ nxt[s - 1] =< nxt[0]
                      /\ Head(head[s]) = nxt[s]
    OBVIOUS
  <2>1. s \in Layers /\ s \notin Caps /\ s - 1 \in Levels /\ s \in Levels /\ 0 \in Levels
    BY <1>1, <1>4, <1>9 DEF Levels
  <2>2. Len(head[s]) > 0 /\ Head(head[s]) = head[s][1] /\ 1 \in DOMAIN head[s]
    BY <1>1, <1>4, <2>1
  <2>3. Len(head[s]) = nxt[s - 1] - nxt[s] /\ head[s][1] = nxt[s] + 1 - 1
    BY <1>3, <2>1, <2>2 DEF Chain, Lost
  <2>4. nxt[s - 1] \in Nat /\ nxt[s - 1] =< nxt[0]
    <3>1. 0 =< s - 1
      BY <1>1, <2>1
    <3> QED BY <1>3, <1>15, <2>1, <3>1 DEF Chain
  <2> QED BY <1>12, <2>1, <2>2, <2>3, <2>4
<1>14. Byte(k) = nxt[s] /\ nxt[s] \in 1..sent
  <2>1. CASE s = 0
    BY <1>1, <1>6, <1>12, <2>1
  <2>2. CASE s # 0
    <3>1. s - 1 \in Levels
      BY <1>1, <1>4, <2>2 DEF Levels
    <3>2. nxt[s - 1] \in Nat
      BY <1>15, <3>1
    <3> QED BY <1>1, <1>6, <1>12, <1>13, <2>2, <3>2
  <2> QED BY <2>1, <2>2
<1> QED BY <1>2, <1>4, <1>6, <1>8, <1>10, <1>11, <1>13, <1>14 DEF s

\* What is left of the heads.
LEMMA HeadLemma ==
    ASSUME TypeOK, NEW k \in Levels
    PROVE  LET h == HeadAfter(k)
           IN  /\ DOMAIN h = Layers
               /\ \A i \in Layers : h[i] \in Seq(1..MaxSent) /\ (head[i] = <<>> => h[i] = <<>>)
               /\ \A i \in Layers : ~(Takes(k) /\ i = Source(k)) => h[i] = head[i]
               /\ Takes(k) /\ Source(k) # 0 => h[Source(k)] = Tail(head[Source(k)])
<1>1. /\ Source(k) \in Nat
      /\ Source(k) # 0 => Source(k) \in Layers /\ head[Source(k)] # <<>>
  BY ConfigLemma, SourceLemma DEF Levels
<1>2. DOMAIN head = Layers /\ \A i \in Layers : head[i] \in Seq(1..MaxSent)
  BY DEF TypeOK
<1>3. CASE Takes(k) /\ Source(k) > 0
  <2>1. HeadAfter(k) = [head EXCEPT ![Source(k)] = Tail(@)]
    BY <1>3 DEF HeadAfter
  <2>2. head[Source(k)] \in Seq(1..MaxSent) /\ head[Source(k)] # <<>>
    BY <1>1, <1>2, <1>3
  <2>3. Tail(head[Source(k)]) \in Seq(1..MaxSent)
    BY <2>2, TailLemma
  <2> QED BY <1>1, <1>2, <1>3, <2>1, <2>3
<1>4. CASE ~(Takes(k) /\ Source(k) > 0)
  <2>1. HeadAfter(k) = head
    BY <1>4 DEF HeadAfter
  <2> QED BY <1>1, <1>2, <1>4, <2>1
<1> QED BY <1>3, <1>4

\* What a read leaves, with nxt before it.
ReadEffect(k, nxt) ==
    /\ pos' \in 0..sent /\ left' \in Nat /\ capErr' \in Ends
    /\ Final(pos', HeadAfter(k), capErr', left', at)
    /\ \E m : /\ Flow(m, pos', HeadAfter(k), capErr', left', at)
              /\ m[k] = IF Result(k) = "byte" THEN nxt[k] + 1 ELSE nxt[k]

\* Taking a byte moves the levels from its source up to b, the reader's or that of
\* MaxBody when it is the byte over the limit.
LEMMA AdvanceLemma ==
    ASSUME TypeOK, Stages, Endings, NEW nxt, Flow(nxt, pos, head, capErr, left, at),
           nxt[at - 1] = Front + 1, NEW k, k = at - 1, Takes(k), NEW b \in Nat, NEW e,
           b > Source(k),
           \/ b = Len(pipe) + 1 /\ e = capErr
           \/ b \in Caps /\ e = "toolarge" /\ capErr = "none"
    PROVE  LET m == [i \in Levels |->
                        IF Source(k) =< i /\ i < b THEN nxt[i] + 1 ELSE nxt[i]]
               p == IF Source(k) = 0 THEN pos + 1 ELSE pos
           IN  Chain(m, p, HeadAfter(k), e) /\ Complete(m, p, HeadAfter(k), e, at)
<1> DEFINE s == Source(k)
           h == HeadAfter(k)
           m == [i \in Levels |-> IF s =< i /\ i < b THEN nxt[i] + 1 ELSE nxt[i]]
           p == IF s = 0 THEN pos + 1 ELSE pos
<1>1. /\ Len(pipe) \in Nat /\ Layers = 1..Len(pipe) /\ at \in 1..(Len(pipe) + 1)
      /\ Caps \subseteq Layers /\ \A c, d \in Caps : c = d
      /\ pos \in 0..sent /\ sent \in Nat /\ Levels = 0..Len(pipe)
      /\ \A i \in Layers : head[i] \in Seq(1..MaxSent)
  BY ConfigLemma DEF TypeOK, Levels
<1>2. /\ nxt \in [Levels -> Nat] /\ nxt[0] = pos + 1
      /\ \A i \in Layers : /\ Len(head[i]) = nxt[i - 1] - nxt[i] - Lost(i, capErr)
                           /\ \A j \in DOMAIN head[i] : head[i][j] = nxt[i] + j - 1
      /\ \A i, j \in Levels : i =< j => nxt[j] =< nxt[i]
      /\ \A i \in Levels : nxt[i] \in Nat
  BY DEF Flow, Chain
<1>3. /\ s \in 0..k /\ k \in Levels
      /\ \A i \in s..Len(pipe) : nxt[i] = nxt[s]
      /\ \A j \in Layers : s < j => head[j] = <<>>
      /\ capErr # "none" => \A c \in Caps : c < s
      /\ s = 0 => pos < sent
      /\ s # 0 => s \in Layers /\ s \notin Caps /\ head[s] # <<>> /\ nxt[s] < nxt[s - 1]
  BY TakeLemma
<1>4. /\ \A i \in Layers : i # s => h[i] = head[i]
      /\ s # 0 => h[s] = Tail(head[s])
  BY <1>3, HeadLemma
<1>5. /\ m \in [Levels -> Nat]
      /\ \A i \in Levels : m[i] = IF s =< i /\ i < b THEN nxt[i] + 1 ELSE nxt[i]
  BY <1>2
<1>6. /\ \/ b = Len(pipe) + 1 /\ e = capErr
         \/ b \in Caps /\ e = "toolarge" /\ capErr = "none"
      /\ b > s /\ p = IF s = 0 THEN pos + 1 ELSE pos
  OBVIOUS
<1> SUFFICES Chain(m, p, h, e) /\ Complete(m, p, h, e, at)
  OBVIOUS
<1> HIDE DEF s, h, m, p
<1>7. m[0] = p + 1
  <2>1. 0 \in Levels /\ s \in Nat
    BY <1>1, <1>3
  <2>2. CASE s = 0
    <3>1. s =< 0 /\ 0 < b
      BY <1>6, <2>2
    <3>2. m[0] = nxt[0] + 1
      BY <1>5, <2>1, <3>1
    <3>3. p = pos + 1
      BY <1>6, <2>2
    <3> QED BY <1>2, <3>2, <3>3
  <2>3. CASE s # 0
    <3>1. ~(s =< 0)
      BY <2>1, <2>3
    <3>2. m[0] = nxt[0] /\ p = pos
      BY <1>5, <1>6, <2>1, <2>3, <3>1
    <3> QED BY <1>2, <3>2
  <2> QED BY <2>2, <2>3
<1>8. ASSUME NEW i \in Layers
      PROVE  /\ Len(h[i]) = m[i - 1] - m[i] - Lost(i, e)
             /\ \A j \in DOMAIN h[i] : h[i][j] = m[i] + j - 1
  <2>1. /\ i \in Levels /\ i - 1 \in Levels /\ nxt[i] \in Nat /\ nxt[i - 1] \in Nat
        /\ Len(head[i]) = nxt[i - 1] - nxt[i] - Lost(i, capErr)
        /\ \A j \in DOMAIN head[i] : head[i][j] = nxt[i] + j - 1
    BY <1>1, <1>2
  <2>2. CASE i = s
    <3>1. Lost(i, capErr) = 0 /\ Lost(i, e) = 0
      BY <1>1, <1>3, <2>2 DEF Lost
    <3>2. m[i] = nxt[i] + 1 /\ m[i - 1] = nxt[i - 1]
      BY <1>1, <1>5, <1>6, <2>1, <2>2
    <3>3. /\ h[i] = Tail(head[i]) /\ head[i] # <<>> /\ head[i] \in Seq(1..MaxSent)
      BY <1>1, <1>3, <1>4, <2>2
    <3>4. /\ Len(h[i]) = Len(head[i]) - 1 /\ Len(head[i]) \in Nat
          /\ \A j \in 1..(Len(head[i]) - 1) : h[i][j] = head[i][j + 1]
          /\ DOMAIN h[i] = 1..(Len(head[i]) - 1) /\ DOMAIN head[i] = 1..Len(head[i])
      BY <3>3, TailLemma
    <3>5. Len(h[i]) = m[i - 1] - m[i] - Lost(i, e)
      BY <2>1, <3>1, <3>2, <3>4
    <3>6. ASSUME NEW j \in DOMAIN h[i]
          PROVE  h[i][j] = m[i] + j - 1
      <4>1. j \in Int /\ j + 1 \in DOMAIN head[i] /\ h[i][j] = head[i][j + 1]
        BY <3>4
      <4>2. head[i][j + 1] = nxt[i] + (j + 1) - 1
        BY <2>1, <4>1
      <4>3. nxt[i] \in Nat /\ m[i] = nxt[i] + 1 /\ j \in Int
        BY <2>1, <3>2, <4>1
      <4>4. nxt[i] + (j + 1) - 1 = m[i] + j - 1
        BY <4>3
      <4> QED BY <4>1, <4>2, <4>4
    <3> QED BY <3>5, <3>6
  <2>3. CASE i < s
    <3>1. m[i] = nxt[i] /\ m[i - 1] = nxt[i - 1] /\ h[i] = head[i]
      <4>1. i \in Nat /\ s \in Int /\ ~(s =< i) /\ ~(s =< i - 1) /\ i # s
        BY <1>1, <1>3, <2>3
      <4>2. m[i] = nxt[i]
        BY <1>5, <2>1, <4>1
      <4>3. m[i - 1] = nxt[i - 1]
        BY <1>5, <2>1, <4>1
      <4> QED BY <1>4, <4>1, <4>2, <4>3
    <3>2. Lost(i, e) = Lost(i, capErr)
      BY <1>1, <1>3, <1>6, <2>3 DEF Lost
    <3> QED BY <2>1, <3>1, <3>2
  <2>4. CASE s < i
    <3>1. h[i] = <<>> /\ head[i] = <<>> /\ nxt[i] = nxt[i - 1]
      BY <1>1, <1>3, <1>4, <2>1, <2>4
    <3>2. m[i - 1] = (IF i - 1 < b THEN nxt[i] + 1 ELSE nxt[i])
          /\ m[i] = (IF i < b THEN nxt[i] + 1 ELSE nxt[i])
      <4>1. s =< i /\ s =< i - 1
        BY <1>1, <1>3, <2>4
      <4>2. m[i - 1] = IF i - 1 < b THEN nxt[i - 1] + 1 ELSE nxt[i - 1]
        BY <1>5, <2>1, <4>1
      <4>3. m[i] = IF i < b THEN nxt[i] + 1 ELSE nxt[i]
        BY <1>5, <2>1, <4>1
      <4> QED BY <3>1, <4>2, <4>3
    <3>3. Lost(i, e) = IF i = b THEN 1 ELSE 0
      BY <1>1, <1>3, <1>6, <2>4 DEF Lost
    <3>4. m[i - 1] - m[i] = Lost(i, e) /\ m[i] \in Nat
      <4>1. i \in Int /\ b \in Int /\ nxt[i] \in Nat
        BY <1>1, <2>1
      <4> QED BY <3>2, <3>3, <4>1
    <3> QED BY <2>1, <3>1, <3>3, <3>4
  <2> QED BY <1>1, <1>3, <2>2, <2>3, <2>4
<1>9. ASSUME NEW i \in Levels, NEW j \in Levels, i =< j
      PROVE  m[j] =< m[i]
  <2>1. nxt[j] =< nxt[i] /\ nxt[i] \in Nat /\ nxt[j] \in Nat
    BY <1>2, <1>9
  <2>2. CASE s =< j /\ j < b /\ i < s
    <3>1. s - 1 \in Levels /\ s \in Levels /\ i =< s - 1 /\ s # 0 /\ j \in s..Len(pipe)
      BY <1>1, <1>3, <2>2
    <3>2. /\ nxt[s - 1] =< nxt[i] /\ nxt[j] = nxt[s] /\ nxt[s] < nxt[s - 1]
          /\ nxt[s - 1] \in Nat /\ nxt[s] \in Nat
      BY <1>2, <1>3, <3>1
    <3>3. m[j] = nxt[j] + 1 /\ m[i] = nxt[i]
      BY <1>1, <1>5, <2>2, <3>1
    <3> QED BY <2>1, <3>2, <3>3
  <2>3. CASE ~(s =< j /\ j < b /\ i < s)
    <3>1. i \in Int /\ j \in Int /\ s \in Int /\ (m[j] = nxt[j] \/ m[i] = nxt[i] + 1)
          /\ m[j] =< nxt[j] + 1 /\ nxt[i] =< m[i] /\ m[i] \in Nat /\ m[j] \in Nat
      <4>1. i \in Int /\ j \in Int /\ s \in Int /\ b \in Int
        BY <1>1, <1>3
      <4>2. /\ m[i] = IF s =< i /\ i < b THEN nxt[i] + 1 ELSE nxt[i]
            /\ m[j] = IF s =< j /\ j < b THEN nxt[j] + 1 ELSE nxt[j]
        BY <1>5
      <4>3. i =< j
        BY <1>9
      <4>4. (s =< j /\ j < b) => (s =< i /\ i < b)
        BY <2>3, <4>1, <4>3
      <4> QED BY <2>1, <4>1, <4>2, <4>4
    <3> QED BY <2>1, <3>1
  <2> QED BY <2>2, <2>3
<1>10. ASSUME NEW i \in Layers, i < at, Short(i)
       PROVE  m[i - 1] = Len(logged[i]) + 1 /\ Exhausted(i - 1, p, h, e)
  <2>1. nxt[i - 1] = Len(logged[i]) + 1 /\ Exhausted(i - 1, pos, head, capErr)
    BY <1>10 DEF Flow, Complete
  <2>2. i =< s
    <3> SUFFICES ASSUME s < i
                 PROVE  FALSE
      BY <1>1, <1>3
    <3>1. CASE pos = sent /\ \A j \in 1..(i - 1) : head[j] = <<>>
      BY <1>1, <1>3, <3>1
    <3>2. CASE capErr = "toolarge" /\ \E c \in Caps : c =< i - 1 /\ \A j \in (c + 1)..(i - 1) : head[j] = <<>>
      BY <1>1, <1>3, <3>2
    <3> QED BY <2>1, <3>1, <3>2 DEF Exhausted
  <2>3. m[i - 1] = nxt[i - 1] /\ p = pos /\ \A j \in 1..(i - 1) : h[j] = head[j]
    <3>1. i \in 1..Len(pipe) /\ s \in Nat /\ s # 0 /\ i - 1 \in Levels /\ ~(s =< i - 1)
      BY <1>1, <1>3, <2>2
    <3>2. \A j \in 1..(i - 1) : j \in Layers /\ j # s
      BY <1>1, <1>3, <2>2, <3>1
    <3> QED BY <1>4, <1>5, <1>6, <3>1, <3>2
  <2>4. CASE pos = sent /\ Stopped /\ \A j \in 1..(i - 1) : head[j] = <<>>
    BY <2>1, <2>3, <2>4 DEF Exhausted
  <2>5. CASE capErr = "toolarge" /\ \E c \in Caps : c =< i - 1 /\ \A j \in (c + 1)..(i - 1) : head[j] = <<>>
    <3>1. PICK c \in Caps : c =< i - 1 /\ \A j \in (c + 1)..(i - 1) : head[j] = <<>>
      BY <2>5
    <3>2. e = "toolarge"
      BY <1>6, <2>5
    <3>3. \A j \in (c + 1)..(i - 1) : h[j] = <<>>
      <4>1. \A j \in (c + 1)..(i - 1) : j \in 1..(i - 1)
        BY <1>1
      <4> QED BY <2>3, <3>1, <4>1
    <3> QED BY <2>1, <2>3, <3>1, <3>2, <3>3 DEF Exhausted
  <2> QED BY <2>1, <2>4, <2>5 DEF Exhausted
<1> QED BY <1>5, <1>7, <1>8, <1>9, <1>10 DEF Chain, Complete

\* A byte that passes: the level that asked moves on by one.
LEMMA PassLemma ==
    ASSUME TypeOK, Stages, Endings, NEW nxt, Flow(nxt, pos, head, capErr, left, at),
           nxt[at - 1] = Front + 1, NEW k, k = at - 1, Result(k) = "byte", Consume(k)
    PROVE  /\ ReadEffect(k, nxt)
           /\ Byte(k) = nxt[k] /\ nxt[k] \in 1..sent
           /\ \A c \in Caps : c =< k => nxt[k] =< pipe[c].limit
<1> DEFINE s == Source(k)
           b == Len(pipe) + 1
           h == HeadAfter(k)
           m == [i \in Levels |-> IF s =< i /\ i < b THEN nxt[i] + 1 ELSE nxt[i]]
<1>1. /\ Len(pipe) \in Nat /\ Layers = 1..Len(pipe) /\ at \in 1..(Len(pipe) + 1)
      /\ Caps \subseteq Layers /\ \A c, d \in Caps : c = d
      /\ \A c \in Caps : pipe[c].limit \in Nat
      /\ pos \in 0..sent /\ sent \in Nat /\ left \in Nat /\ Levels = 0..Len(pipe)
  BY ConfigLemma DEF TypeOK, Levels
<1>2. /\ \A i, j \in Levels : i =< j => nxt[j] =< nxt[i]
      /\ \A i \in Levels : nxt[i] \in Nat
      /\ \A c \in Caps : c < at => left = pipe[c].limit + 1 - nxt[c]
  BY DEF Flow, Chain, Counted
<1>3. Takes(k) /\ ~(Capped(k) /\ (capErr # "none" \/ left = 0))
  <2>1. Offer(k) = "byte" /\ ~(Capped(k) /\ (capErr # "none" \/ left = 0))
    BY DEF Result, Ends, Endings, TypeOK
  <2> QED BY <2>1 DEF Takes
<1>4. /\ s \in 0..k /\ k \in Levels
      /\ \A i \in s..Len(pipe) : nxt[i] = nxt[s]
      /\ \A j \in Layers : s < j => head[j] = <<>>
      /\ capErr # "none" => \A c \in Caps : c < s
      /\ Byte(k) = nxt[s] /\ nxt[s] \in 1..sent
      /\ s = 0 => pos < sent
      /\ s # 0 => s \in Layers /\ s \notin Caps /\ head[s] # <<>> /\ nxt[s] < nxt[s - 1]
  BY <1>3, TakeLemma
<1>5. /\ pos' = (IF s = 0 THEN pos + 1 ELSE pos) /\ capErr' = capErr
      /\ left' = IF Capped(k) THEN left - 1 ELSE left
  BY <1>3 DEF Consume
<1>6. Chain(m, pos', h, capErr') /\ Complete(m, pos', h, capErr', at)
  <2>1. b \in Nat /\ b > Source(k)
    BY <1>1, <1>4
  <2> QED BY <1>3, <1>5, <2>1, AdvanceLemma
<1>7. \A i \in Layers : i # s => h[i] = head[i]
  BY <1>4, HeadLemma
<1>8. \A c \in Caps : c =< k => (Capped(k) <=> s < c) /\ c # s /\ c \in Levels
  BY <1>1, <1>4 DEF Capped
<1>9. \A i \in Levels : m[i] = IF s =< i /\ i < b THEN nxt[i] + 1 ELSE nxt[i]
  OBVIOUS
<1>10. k = at - 1 /\ b = Len(pipe) + 1
  OBVIOUS
<1> HIDE DEF s, h, m, b
<1>11. m[k] = nxt[k] + 1 /\ nxt[k] = nxt[s]
  BY <1>1, <1>4, <1>9, <1>10
<1>12. Counted(m, left', at)
  <2> SUFFICES ASSUME NEW c \in Caps, c < at
               PROVE  left' = pipe[c].limit + 1 - m[c]
    BY DEF Counted
  <2>1. c =< k /\ c \in Levels /\ c \in 0..Len(pipe) /\ left = pipe[c].limit + 1 - nxt[c]
    BY <1>1, <1>2, <1>10
  <2>2. CASE s < c
    <3>1. m[c] = nxt[c] + 1 /\ nxt[c] \in Nat /\ pipe[c].limit \in Nat
      BY <1>1, <1>2, <1>4, <1>9, <1>10, <2>1, <2>2
    <3>2. left' = left - 1
      BY <1>5, <1>8, <2>1, <2>2
    <3>3. left - 1 = pipe[c].limit + 1 - (nxt[c] + 1)
      <4>1. left = pipe[c].limit + 1 - nxt[c] /\ nxt[c] \in Nat /\ pipe[c].limit \in Nat
        BY <2>1, <3>1
      <4> QED BY <4>1
    <3> QED BY <3>1, <3>2, <3>3
  <2>3. CASE ~(s < c)
    <3>1. ~(s =< c)
      BY <1>1, <1>4, <1>8, <2>1, <2>3
    <3>2. m[c] = nxt[c]
      BY <1>9, <2>1, <3>1
    <3>3. ~Capped(k)
      BY <1>8, <2>1, <2>3
    <3> QED BY <1>5, <2>1, <3>2, <3>3
  <2> QED BY <2>2, <2>3
<1>13. Final(pos', h, capErr', left', at)
  <2>1. CASE capErr = "none"
    BY <1>5, <2>1 DEF Final
  <2>2. CASE capErr # "none"
    <3>1. left' = left /\ (\E c \in Caps : c < at) /\ \A c \in Caps : c < s
      BY <1>3, <1>4, <1>5, <2>2 DEF Endings, Final
    <3>2. pos' = pos
      BY <1>1, <1>5, <3>1
    <3>3. \A c \in Caps : \A j \in 1..c : j \in Layers /\ j # s
      BY <1>1, <1>4, <3>1
    <3> QED BY <1>5, <1>7, <3>1, <3>2, <3>3 DEF Endings, Final
  <2> QED BY <2>1, <2>2
<1>14. pos' \in 0..sent /\ left' \in Nat /\ capErr' \in Ends
  BY <1>1, <1>3, <1>4, <1>5 DEF TypeOK
<1>15. \A c \in Caps : c =< k => nxt[k] =< pipe[c].limit
  <2> SUFFICES ASSUME NEW c \in Caps, c =< k
               PROVE  nxt[k] =< pipe[c].limit
    OBVIOUS
  <2>1. /\ c \in Levels /\ c \in 0..Len(pipe) /\ left = pipe[c].limit + 1 - nxt[c]
        /\ nxt[c] \in Nat
    BY <1>1, <1>2, <1>8, <1>10
  <2>2. CASE s < c
    <3>1. nxt[c] = nxt[s] /\ left > 0
      BY <1>1, <1>3, <1>4, <1>8, <2>1, <2>2
    <3> QED BY <1>1, <1>11, <2>1, <3>1
  <2>3. CASE ~(s < c)
    <3>1. s # 0 /\ c =< s - 1 /\ s - 1 \in Levels
      BY <1>1, <1>4, <1>8, <2>3
    <3>2. nxt[s] < nxt[s - 1] /\ nxt[s - 1] =< nxt[c] /\ nxt[s - 1] \in Nat /\ nxt[s] \in Nat
      BY <1>2, <1>4, <2>1, <3>1
    <3>3. nxt[k] < nxt[c]
      BY <1>11, <2>1, <3>2
    <3>4. left \in Nat /\ pipe[c].limit \in Nat
      BY <1>1
    <3>5. nxt[c] =< pipe[c].limit + 1
      <4>1. left = pipe[c].limit + 1 - nxt[c] /\ nxt[c] \in Nat
        BY <2>1
      <4> QED BY <3>4, <4>1
    <3>6. nxt[k] \in Nat
      BY <1>11, <3>2
    <3> QED BY <2>1, <3>3, <3>4, <3>5, <3>6
  <2> QED BY <2>2, <2>3
<1>16. ReadEffect(k, nxt)
  <2>1. Flow(m, pos', h, capErr', left', at) /\ m[k] = nxt[k] + 1
    BY <1>6, <1>11, <1>12 DEF Flow
  <2> QED BY <1>13, <1>14, <2>1 DEF ReadEffect, h
<1> QED BY <1>4, <1>11, <1>15, <1>16

\* The byte over MaxBody's limit is lost between its layer and the one below.
LEMMA LoseLemma ==
    ASSUME TypeOK, Stages, Endings, NEW nxt, Flow(nxt, pos, head, capErr, left, at),
           nxt[at - 1] = Front + 1, NEW k, k = at - 1, Takes(k), Result(k) # "byte",
           Consume(k)
    PROVE  /\ ReadEffect(k, nxt)
           /\ Result(k) = "toolarge" /\ capErr' = "toolarge"
           /\ \A j \in Layers : head[j] # <<>> => j =< Source(k)
           /\ \E c \in Caps : /\ Source(k) < c /\ c =< k /\ nxt[k] = pipe[c].limit + 1
                              /\ nxt[k] =< sent
<1> DEFINE s == Source(k)
           h == HeadAfter(k)
<1>1. /\ Len(pipe) \in Nat /\ Layers = 1..Len(pipe) /\ at \in 1..(Len(pipe) + 1)
      /\ Caps \subseteq Layers /\ \A c, d \in Caps : c = d
      /\ \A c \in Caps : pipe[c].limit \in Nat
      /\ pos \in 0..sent /\ sent \in Nat /\ Levels = 0..Len(pipe)
  BY ConfigLemma DEF TypeOK, Levels
<1>2. /\ \A i \in Levels : nxt[i] \in Nat
      /\ \A c \in Caps : c < at => left = pipe[c].limit + 1 - nxt[c]
  BY DEF Flow, Chain, Counted
<1>3. Capped(k) /\ capErr = "none" /\ left = 0 /\ Result(k) = "toolarge"
  BY DEF Takes, Result
<1>4. /\ s \in 0..k /\ k \in Levels
      /\ \A i \in s..Len(pipe) : nxt[i] = nxt[s]
      /\ \A j \in Layers : s < j => head[j] = <<>>
      /\ nxt[s] \in 1..sent
      /\ s = 0 => pos < sent
  BY TakeLemma
<1>5. /\ pos' = (IF s = 0 THEN pos + 1 ELSE pos) /\ capErr' = "toolarge" /\ left' = 0
  BY <1>3 DEF Consume
<1>6. PICK c \in Caps : s < c /\ c =< k
  BY <1>3 DEF Capped
<1> DEFINE m == [i \in Levels |-> IF s =< i /\ i < c THEN nxt[i] + 1 ELSE nxt[i]]
<1>7. Chain(m, pos', h, capErr') /\ Complete(m, pos', h, capErr', at)
  <2>1. c \in Nat /\ c > Source(k)
    BY <1>1, <1>6
  <2> QED BY <1>3, <1>5, <1>6, <2>1, AdvanceLemma
<1>8. \A i \in Levels : m[i] = IF s =< i /\ i < c THEN nxt[i] + 1 ELSE nxt[i]
  OBVIOUS
<1>9. k = at - 1
  OBVIOUS
<1> HIDE DEF s, h, m
<1>10. /\ c \in Levels /\ c \in s..Len(pipe) /\ k \in s..Len(pipe) /\ ~(k < c) /\ ~(c < c)
       /\ c < at
  BY <1>1, <1>4, <1>6, <1>9
<1>11. /\ m[k] = nxt[k] /\ m[c] = nxt[c] /\ nxt[k] = nxt[c] /\ nxt[k] = nxt[s]
       /\ nxt[c] \in Nat
  BY <1>2, <1>4, <1>8, <1>10
<1>12. nxt[c] = pipe[c].limit + 1
  <2>1. 0 = pipe[c].limit + 1 - nxt[c] /\ pipe[c].limit \in Nat
    BY <1>1, <1>2, <1>3, <1>10
  <2> QED BY <1>11, <2>1
<1>13. Counted(m, left', at)
  <2>1. left' = 0 /\ m[c] = pipe[c].limit + 1 /\ pipe[c].limit \in Nat
    BY <1>1, <1>5, <1>11, <1>12
  <2>2. left' = pipe[c].limit + 1 - m[c]
    BY <2>1
  <2> QED BY <1>1, <2>2 DEF Counted
<1>14. Final(pos', h, capErr', left', at)
  BY <1>5, <1>10 DEF Final
<1>15. pos' \in 0..sent /\ left' \in Nat /\ capErr' \in Ends
  BY <1>1, <1>4, <1>5 DEF Ends
<1>16. ReadEffect(k, nxt)
  <2>1. Flow(m, pos', h, capErr', left', at) /\ m[k] = nxt[k]
    BY <1>7, <1>11, <1>13 DEF Flow
  <2> QED BY <1>3, <1>14, <1>15, <2>1 DEF ReadEffect, h
<1>17. \A j \in Layers : head[j] # <<>> => j =< s
  BY <1>1, <1>4
<1>18. nxt[k] = pipe[c].limit + 1 /\ nxt[k] =< sent
  <2>1. nxt[s] \in 1..sent /\ sent \in Nat /\ nxt[k] = nxt[s] /\ nxt[k] = nxt[c]
    BY <1>1, <1>4, <1>11
  <2> QED BY <1>12, <2>1
<1> QED BY <1>3, <1>5, <1>6, <1>16, <1>17, <1>18 DEF s

\* A read that takes no byte: the end, found now or before.
LEMMA EndLemma ==
    ASSUME TypeOK, Stages, Endings, NEW nxt, Flow(nxt, pos, head, capErr, left, at),
           NEW k, k = at - 1, ~Takes(k), Consume(k)
    PROVE  /\ ReadEffect(k, nxt) /\ Result(k) # "byte" /\ pos' = pos /\ HeadAfter(k) = head
           /\ capErr' = IF Capped(k) THEN Result(k) ELSE capErr
<1>1. /\ Len(pipe) \in Nat /\ Layers = 1..Len(pipe) /\ at \in 1..(Len(pipe) + 1)
      /\ Caps \subseteq Layers /\ pos \in 0..sent /\ sent \in Nat /\ left \in Nat
      /\ capErr \in Ends /\ k \in Levels
  BY ConfigLemma DEF TypeOK, Levels
<1>2. \/ Capped(k) /\ capErr # "none" /\ Result(k) = capErr
      \/ ~(Capped(k) /\ capErr # "none") /\ Offer(k) # "byte" /\ Result(k) = Offer(k)
  BY DEF Takes, Result
<1>3. Result(k) # "byte" /\ Result(k) # "wait"
  BY <1>1, <1>2 DEF Consume, Ends
<1>4. /\ pos' = pos /\ left' = left /\ HeadAfter(k) = head
      /\ capErr' = IF Capped(k) THEN Result(k) ELSE capErr
  BY <1>3 DEF Consume, HeadAfter
<1>5. CASE capErr' = capErr
  <2>1. Final(pos', HeadAfter(k), capErr', left', at)
    BY <1>4, <1>5 DEF Endings
  <2>2. Flow(nxt, pos', HeadAfter(k), capErr', left', at)
    BY <1>4, <1>5
  <2> QED BY <1>1, <1>3, <1>4, <1>5, <2>1, <2>2 DEF ReadEffect
<1>6. CASE capErr' # capErr
  <2>1. Capped(k) /\ capErr = "none" /\ capErr' = Result(k) /\ Offer(k) # "byte"
        /\ Result(k) = Offer(k)
    BY <1>2, <1>4, <1>6
  <2>2. Source(k) = 0 /\ Offer(k) = Wire
    BY <1>1, <2>1, SourceLemma DEF Offer, Levels
  <2>3. /\ capErr' \in {"eof", "broken"} /\ pos = sent
        /\ capErr' = "eof" => peer = "closed" \/ sent = declared
        /\ capErr' = "broken" => peer = "broken"
    BY <1>1, <1>3, <2>1, <2>2 DEF Wire
  <2>4. \A i \in 1..k : head[i] = <<>>
    BY <1>1, <2>2, SourceLemma DEF Levels
  <2>5. PICK c \in Caps : c =< k
    BY <2>1 DEF Capped
  <2>6. Final(pos', HeadAfter(k), capErr', left', at)
    <3>1. \A d \in Caps : d = c
      BY ConfigLemma
    <3>2. c < at /\ \A j \in 1..c : j \in 1..k
      BY <1>1, <2>5 DEF Levels
    <3> QED BY <1>4, <2>3, <2>4, <3>1, <3>2 DEF Final
  <2>7. Chain(nxt, pos', HeadAfter(k), capErr')
    <3>1. \A i \in Layers : Lost(i, capErr') = Lost(i, capErr)
      BY <2>1, <2>3 DEF Lost
    <3> QED BY <1>4, <3>1 DEF Flow, Chain
  <2>8. Counted(nxt, left', at) /\ Complete(nxt, pos', HeadAfter(k), capErr', at)
    BY <1>4, <2>1 DEF Flow, Complete, Exhausted
  <2>9. Flow(nxt, pos', HeadAfter(k), capErr', left', at)
    BY <2>7, <2>8 DEF Flow
  <2>10. pos' \in 0..sent /\ left' \in Nat /\ capErr' \in Ends
    BY <1>1, <1>4, <2>3 DEF Ends
  <2> QED BY <1>3, <1>4, <2>6, <2>9, <2>10 DEF ReadEffect
<1> QED BY <1>5, <1>6

\* A read that ends: nothing more will come, and what came is the whole body, or
\* what MaxBody lets through of a longer one.
LEMMA StopLemma ==
    ASSUME TypeOK, Stages, Endings, NEW nxt, Flow(nxt, pos, head, capErr, left, at),
           nxt[at - 1] = Front + 1, NEW k, k = at - 1, Consume(k), Result(k) # "byte"
    PROVE  /\ ReadEffect(k, nxt) /\ Exhausted(k, pos', HeadAfter(k), capErr')
           /\ Result(k) \in {"eof", "broken", "toolarge"}
           /\ Result(k) \in {"eof", "broken"} => nxt[k] = sent + 1
           /\ Result(k) = "eof" => peer = "closed" \/ sent = declared
           /\ Result(k) = "broken" => peer = "broken"
           /\ Result(k) = "toolarge" =>
                \E c \in Caps : nxt[k] = pipe[c].limit + 1 /\ pipe[c].limit < sent
<1>1. /\ Len(pipe) \in Nat /\ Layers = 1..Len(pipe) /\ at \in 1..(Len(pipe) + 1)
      /\ Caps \subseteq Layers /\ \A c, d \in Caps : c = d
      /\ \A c \in Caps : pipe[c].limit \in Nat /\ head[c] = <<>>
      /\ pos \in 0..sent /\ sent \in Nat /\ Levels = 0..Len(pipe) /\ k \in Levels
      /\ capErr \in Ends /\ k \in Nat /\ k =< Len(pipe) /\ peer \in {"open", "closed", "broken"}
  BY ConfigLemma DEF TypeOK, Levels, Stages
<1>2. /\ Chain(nxt, pos, head, capErr) /\ nxt[0] = pos + 1
      /\ \A i \in Levels : nxt[i] \in Nat
      /\ \A i, j \in Levels : i =< j => nxt[j] =< nxt[i]
      /\ \A c \in Caps : Len(head[c]) = nxt[c - 1] - nxt[c] - Lost(c, capErr)
      /\ \A c \in Caps : c < at => left = pipe[c].limit + 1 - nxt[c]
  BY <1>1 DEF Flow, Chain, Counted
<1>3. /\ Source(k) \in 0..k /\ (Source(k) # 0 => Source(k) \in Layers)
      /\ \A i \in (Source(k) + 1)..k : head[i] = <<>>
  BY <1>1, SourceLemma
<1>4. \A i \in Layers : head[i] = <<>> => HeadAfter(k)[i] = <<>>
  BY <1>1, HeadLemma
<1>5. CASE Takes(k)
  <2>1. /\ ReadEffect(k, nxt) /\ Result(k) = "toolarge" /\ capErr' = "toolarge"
        /\ \A j \in Layers : head[j] # <<>> => j =< Source(k)
    BY <1>5, LoseLemma
  <2>2. PICK c \in Caps : Source(k) < c /\ c =< k /\ nxt[k] = pipe[c].limit + 1 /\ nxt[k] =< sent
    BY <1>5, LoseLemma
  <2>3. \A j \in (c + 1)..k : HeadAfter(k)[j] = <<>>
    BY <1>1, <1>3, <1>4, <2>1, <2>2
  <2>4. pipe[c].limit < sent
    BY <1>1, <2>2
  <2> QED BY <2>1, <2>2, <2>3, <2>4 DEF Exhausted
<1>6. CASE ~Takes(k)
  <2>1. /\ ReadEffect(k, nxt) /\ pos' = pos /\ HeadAfter(k) = head
        /\ capErr' = IF Capped(k) THEN Result(k) ELSE capErr
    BY <1>6, EndLemma
  <2>2. CASE Capped(k) /\ capErr # "none"
    <3>1. Result(k) = capErr /\ capErr' = capErr
      BY <2>1, <2>2 DEF Result
    <3>2. PICK c \in Caps : Source(k) < c /\ c =< k
      BY <2>2 DEF Capped
    <3>3. CASE capErr = "toolarge"
      <4>1. nxt[k] = nxt[c]
        <5>1. k \in c..k
          BY <1>1, <3>2
        <5> QED BY <1>1, <1>2, <3>2, <5>1, LevelLemma
      <4>2. /\ 0 = pipe[c].limit + 1 - nxt[c] /\ nxt[c] \in Nat /\ nxt[c - 1] \in Nat
            /\ pipe[c].limit \in Nat /\ nxt[c - 1] =< nxt[0]
            /\ 0 = nxt[c - 1] - nxt[c] - 1
        <5>1. c \in Levels /\ c - 1 \in Levels /\ 0 \in Levels /\ 0 =< c - 1 /\ c < at
          BY <1>1, <3>2
        <5>2. left = 0 /\ Len(head[c]) = 0 /\ Lost(c, capErr) = 1
          BY <1>1, <3>3 DEF Endings, Final, Lost
        <5> QED BY <1>1, <1>2, <5>1, <5>2
      <4>3. nxt[k] = pipe[c].limit + 1 /\ pipe[c].limit < sent
        <5>1. nxt[c] = pipe[c].limit + 1
          <6>1. 0 = pipe[c].limit + 1 - nxt[c] /\ nxt[c] \in Nat /\ pipe[c].limit \in Nat
            BY <4>2
          <6> QED BY <6>1
        <5>2. nxt[c] < pos + 1
          BY <1>1, <1>2, <4>2
        <5> QED BY <1>1, <4>1, <4>2, <5>1, <5>2
      <4>4. \A j \in (c + 1)..k : head[j] = <<>>
        BY <1>1, <1>3, <3>2
      <4> QED BY <2>1, <3>1, <3>2, <3>3, <4>3, <4>4 DEF Exhausted
    <3>4. CASE capErr # "toolarge"
      <4>1. /\ capErr \in {"eof", "broken"} /\ pos = sent /\ \A j \in 1..c : head[j] = <<>>
            /\ capErr = "eof" => peer = "closed" \/ sent = declared
            /\ capErr = "broken" => peer = "broken"
        BY <1>1, <2>2, <3>4 DEF Ends, Endings, Final
      <4>2. \A j \in 1..k : head[j] = <<>>
        BY <1>1, <1>3, <3>2, <4>1
      <4>3. nxt[k] = sent + 1
        <5>1. \A i \in (0 + 1)..k : Len(head[i]) = 0 /\ Lost(i, capErr) = 0
          BY <3>4, <4>2 DEF Lost
        <5>2. 0 \in Levels /\ 0 =< k /\ k \in 0..k
          BY <1>1
        <5>3. nxt[k] = nxt[0]
          BY <1>1, <1>2, <5>1, <5>2, FlatLemma
        <5> QED BY <1>2, <4>1, <5>3
      <4>4. Stopped
        BY <4>1 DEF Stopped
      <4> QED BY <2>1, <3>1, <4>1, <4>2, <4>3, <4>4 DEF Exhausted
    <3> QED BY <3>3, <3>4
  <2>3. CASE ~(Capped(k) /\ capErr # "none")
    <3>1. Offer(k) # "byte" /\ Result(k) = Offer(k)
      BY <1>6, <2>3 DEF Takes, Result
    <3>2. Source(k) = 0 /\ Offer(k) = Wire
      BY <1>1, <1>3, <3>1 DEF Offer
    <3>3. /\ Result(k) \in {"eof", "broken"} /\ pos = sent
          /\ Result(k) = "eof" => peer = "closed" \/ sent = declared
          /\ Result(k) = "broken" => peer = "broken"
      BY <1>1, <3>1, <3>2 DEF Wire, Consume
    <3>4. \A j \in 1..k : head[j] = <<>>
      BY <1>1, <1>3, <3>2
    <3>5. capErr # "toolarge"
      <4> SUFFICES ASSUME capErr = "toolarge"
                   PROVE  FALSE
        OBVIOUS
      <4>1. PICK c \in Caps : c < at
        BY DEF Endings, Final
      <4>2. Capped(k)
        BY <1>1, <3>2, <4>1 DEF Capped
      <4> QED BY <2>3, <4>2
    <3>6. nxt[k] = sent + 1
      <4>1. \A i \in (0 + 1)..k : Len(head[i]) = 0 /\ Lost(i, capErr) = 0
        BY <3>4, <3>5 DEF Lost
      <4>2. 0 \in Levels /\ 0 =< k /\ k \in 0..k
        BY <1>1
      <4> QED BY <1>1, <1>2, <3>3, <4>1, <4>2, FlatLemma
    <3>7. Stopped
      BY <3>3 DEF Stopped
    <3> QED BY <2>1, <3>3, <3>4, <3>6, <3>7 DEF Exhausted
  <2> QED BY <2>2, <2>3
<1> QED BY <1>5, <1>6

-----------------------------------------------------------------------------
(***************************************************************************)
(* Every step keeps the invariant.                                         *)
(***************************************************************************)
LEMMA InitInvariant ==
    ASSUME Init
    PROVE  IInv
<1>1. /\ pipe \in Seq(Layer) /\ pipe \in Pipelines /\ Len(pipe) \in Nat /\ Layers = 1..Len(pipe)
      /\ Caps \subseteq Layers /\ MaxSent \in Nat
  BY PipelinesAssumption, BoundsAssumption DEF Init, Layers, Caps
<1>2. /\ sent = 0 /\ peer = "open" /\ pos = 0 /\ at = 1 /\ left = 0 /\ capErr = "none"
      /\ rejected = FALSE /\ got = <<>> /\ seen = "none"
      /\ head = [i \in Layers |-> <<>>] /\ logged = [i \in Layers |-> <<>>]
  BY DEF Init
<1>3. \A i \in Layers : pipe[i].limit \in Nat
  <2>1. \A i \in Layers : pipe[i] \in Layer
    BY <1>1
  <2> QED BY <2>1 DEF Layer
<1>4. TypeOK
  <2>1. <<>> \in Seq(1..MaxSent) /\ Len(<<>>) = 0
    OBVIOUS
  <2>2. \A i \in Layers : Len(logged[i]) =< pipe[i].limit
    BY <1>2, <1>3, <2>1
  <2>3. /\ sent \in 0..MaxSent /\ pos \in 0..sent /\ at \in 1..(Len(pipe) + 1)
        /\ declared \in Lengths /\ duplex \in DuplexPeers
    BY <1>1, <1>2 DEF Init
  <2>4. /\ DOMAIN head = Layers /\ DOMAIN logged = Layers
        /\ \A i \in Layers : head[i] = <<>> /\ logged[i] = <<>>
    BY <1>2
  <2> QED BY <1>1, <1>2, <2>1, <2>2, <2>3, <2>4 DEF TypeOK, Ends
<1>5. Stages /\ Readings /\ Endings
  BY <1>1, <1>2, <1>3 DEF Stages, Readings, Endings, Final, FromStart
<1>6. Flows
  <2> DEFINE nxt == [i \in Levels |-> 1]
  <2>1. Chain(nxt, pos, head, capErr)
    BY <1>1, <1>2 DEF Chain, Levels, Lost
  <2>2. Counted(nxt, left, at) /\ Complete(nxt, pos, head, capErr, at)
    BY <1>1, <1>2 DEF Counted, Complete
  <2>3. nxt[at - 1] = 1 /\ Front = 0
    BY <1>1, <1>2 DEF Levels, Front
  <2> HIDE DEF nxt
  <2> QED BY <2>1, <2>2, <2>3 DEF Flows, Flow
<1> QED BY <1>4, <1>5, <1>6 DEF IInv

\* The peer: what is exhausted or final stays so, because an ended body gets no more.
LEMMA PeerInvariant ==
    ASSUME IInv, Peer
    PROVE  IInv'
<1>1. /\ UNCHANGED <<config, pos, at, head, logged, left, capErr, rejected, got, seen>>
      /\ peer = "open" /\ sent \in Nat /\ pos \in 0..sent
  BY DEF Peer, PeerSends, PeerEnds, PeerBreaks, IInv, TypeOK
<1>2. \/ /\ sent # declared /\ sent' \in 0..MaxSent /\ sent' = sent + 1 /\ peer' = peer
      \/ sent' = sent /\ peer' \in {"closed", "broken"}
  <2>1. CASE PeerSends
    <3>1. /\ sent' = sent + 1 /\ peer' = peer
          /\ sent < IF declared = Unknown THEN MaxSent ELSE declared
      BY <2>1 DEF PeerSends
    <3>2. MaxSent \in Nat /\ declared \in (0..MaxSent) \cup {Unknown}
      BY ConfigLemma DEF IInv
    <3> QED BY <1>1, <3>1, <3>2 DEF Unknown
  <2>2. CASE PeerEnds \/ PeerBreaks
    BY <2>2 DEF PeerEnds, PeerBreaks
  <2> QED BY <2>1, <2>2 DEF Peer
<1>3. Layers' = Layers /\ Caps' = Caps /\ Levels' = Levels /\ pipe' = pipe
  BY <1>1 DEF config, Layers, Caps, Levels
<1>4. TypeOK'
  <2>1. sent' \in 0..MaxSent /\ pos \in 0..sent' /\ peer' \in {"open", "closed", "broken"}
    BY <1>1, <1>2 DEF IInv, TypeOK
  <2> QED BY <1>1, <1>3, <2>1 DEF IInv, TypeOK, config
<1>5. Stages' /\ Readings'
  BY <1>1, <1>3 DEF IInv, Stages, Readings, FromStart
<1>6. Endings'
  <2>1. CASE sent # declared /\ peer' = peer
    BY <1>1, <1>3, <2>1 DEF IInv, Endings, Final
  <2>2. CASE sent' = sent
    BY <1>1, <1>3, <2>2 DEF IInv, Endings, Final, config
  <2> QED BY <1>2, <2>1, <2>2
<1>7. Flows'
  <2>1. PICK nxt : Flow(nxt, pos, head, capErr, left, at) /\ nxt[at - 1] = Front + 1
    BY DEF IInv, Flows
  <2>2. ASSUME NEW i, Exhausted(i, pos, head, capErr)
        PROVE  Exhausted(i, pos, head, capErr)'
    <3>1. CASE sent # declared /\ peer' = peer
      BY <1>1, <1>3, <2>2, <3>1 DEF Exhausted, Stopped
    <3>2. CASE sent' = sent /\ peer' # "open"
      BY <1>1, <1>3, <2>2, <3>2 DEF Exhausted, Stopped
    <3> QED BY <1>2, <3>1, <3>2
  <2>3. Complete(nxt, pos, head, capErr, at)'
    BY <1>1, <1>3, <2>1, <2>2 DEF Flow, Complete, Short
  <2>4. Chain(nxt, pos, head, capErr)' /\ Counted(nxt, left, at)' /\ Front' = Front
    BY <1>1, <1>3, <2>1 DEF Flow, Chain, Counted, Lost, Front
  <2> QED BY <1>1, <2>1, <2>3, <2>4 DEF Flows, Flow
<1> QED BY <1>4, <1>5, <1>6, <1>7 DEF IInv

LEMMA BufferInvariant ==
    ASSUME IInv, Buffer
    PROVE  IInv'
<1> DEFINE k == at - 1
<1>1. /\ ~rejected /\ at \in Layers /\ pipe[at].kind = "log"
      /\ Len(logged[at]) < pipe[at].limit /\ Result(k) = "byte" /\ Consume(k)
      /\ head' = HeadAfter(k) /\ logged' = [logged EXCEPT ![at] = Append(@, Byte(k))]
      /\ pipe' = pipe /\ declared' = declared /\ duplex' = duplex /\ sent' = sent /\ peer' = peer
      /\ at' = at /\ rejected' = rejected /\ got' = got /\ seen' = seen
  BY DEF Buffer, SettingUp, config, wire
<1>2. /\ TypeOK /\ Stages /\ Readings /\ Endings /\ Len(pipe) \in Nat
      /\ Layers = 1..Len(pipe) /\ MaxSent \in Nat /\ Caps \subseteq Layers
      /\ \A i \in Layers : pipe[i].limit \in Nat
  BY ConfigLemma DEF IInv
<1>3. PICK nxt : Flow(nxt, pos, head, capErr, left, at) /\ nxt[at - 1] = Front + 1
  BY DEF IInv, Flows
<1>4. /\ ReadEffect(k, nxt) /\ Byte(k) = nxt[k] /\ nxt[k] \in 1..sent
      /\ \A c \in Caps : c =< k => nxt[k] =< pipe[c].limit
  BY <1>1, <1>2, <1>3, PassLemma
<1>5. Byte(k) = Len(logged[at]) + 1 /\ Len(logged[at]) \in Nat /\ logged[at] \in Seq(1..MaxSent)
  BY <1>1, <1>2, <1>3, <1>4 DEF Front, TypeOK
<1>6. k \in Levels /\ at \in Nat
  BY <1>1, <1>2 DEF Levels
<1>7. /\ DOMAIN head' = Layers
      /\ \A i \in Layers : head'[i] \in Seq(1..MaxSent) /\ (head[i] = <<>> => head'[i] = <<>>)
  BY <1>1, <1>2, <1>6, HeadLemma
<1>8. /\ DOMAIN logged' = Layers /\ \A i \in Layers : i # at => logged'[i] = logged[i]
      /\ logged'[at] = Append(logged[at], Byte(k))
  BY <1>1, <1>2 DEF TypeOK
<1>9. Byte(k) \in 1..MaxSent
  <2>1. sent \in 0..MaxSent
    BY <1>2 DEF TypeOK
  <2> QED BY <1>2, <1>4, <2>1
<1>10. /\ logged'[at] \in Seq(1..MaxSent) /\ Len(logged'[at]) = Len(logged[at]) + 1
       /\ \A j \in DOMAIN logged'[at] : logged'[at][j] =
             IF j = Len(logged[at]) + 1 THEN Byte(k) ELSE logged[at][j]
       /\ DOMAIN logged'[at] = 1..(Len(logged[at]) + 1) /\ DOMAIN logged[at] = 1..Len(logged[at])
  BY <1>5, <1>8, <1>9
<1>11. Layers' = Layers /\ Caps' = Caps /\ Levels' = Levels
  BY <1>1 DEF Layers, Caps, Levels
<1> HIDE DEF k
<1>12. TypeOK'
  <2>1. pos' \in 0..sent /\ left' \in Nat /\ capErr' \in Ends
    BY <1>4 DEF ReadEffect
  <2>2. Len(logged'[at]) =< pipe[at].limit
    BY <1>1, <1>2, <1>5, <1>10
  <2>3. \A i \in Layers : logged'[i] \in Seq(1..MaxSent) /\ Len(logged'[i]) =< pipe[i].limit
    BY <1>2, <1>8, <1>10, <2>2 DEF TypeOK
  <2> QED BY <1>1, <1>2, <1>7, <1>8, <1>11, <2>1, <2>3 DEF TypeOK
<1>13. Stages'
  <2>1. at \notin Caps
    BY <1>1 DEF Caps
  <2> QED BY <1>1, <1>2, <1>7, <1>8, <1>11, <2>1 DEF Stages
<1>14. Readings'
  <2>1. FromStart(logged'[at])
    BY <1>1, <1>2, <1>5, <1>10 DEF Readings, FromStart
  <2>2. \A i \in Layers : FromStart(logged'[i])
    BY <1>2, <1>8, <2>1 DEF Readings
  <2>3. \A c \in Caps : c < at => Len(logged'[at]) =< pipe[c].limit
    <3>1. \A c \in Caps : c < at => c =< k
      BY <1>2, <1>6 DEF k
    <3> QED BY <1>4, <1>5, <1>10, <3>1
  <2>4. \A c \in Caps : \A i \in Layers : c < i => Len(logged'[i]) =< pipe[c].limit
    BY <1>2, <1>8, <2>3 DEF Readings
  <2> QED BY <1>1, <1>2, <1>11, <2>2, <2>4 DEF Readings, FromStart
<1>15. Endings'
  BY <1>1, <1>2, <1>4, <1>11 DEF Endings, ReadEffect, Final
<1>16. Flows'
  <2>1. PICK m : Flow(m, pos', head', capErr', left', at) /\ m[k] = nxt[k] + 1
    BY <1>1, <1>4 DEF ReadEffect
  <2>2. Complete(m, pos, head, capErr, at)'
    BY <1>1, <1>2, <1>8, <1>11, <2>1 DEF Flow, Complete, Short, Exhausted, Stopped
  <2>3. Chain(m, pos, head, capErr)' /\ Counted(m, left, at)'
    BY <1>1, <1>11, <2>1 DEF Flow, Chain, Counted, Lost
  <2>4. m[at' - 1] = Front' + 1
    <3>1. Front' = Len(logged[at]) + 1 /\ m[at' - 1] = Byte(k) + 1
      BY <1>1, <1>4, <1>10, <1>11, <2>1 DEF Front, k
    <3> QED BY <1>5, <3>1
  <2> QED BY <1>1, <2>2, <2>3, <2>4 DEF Flows, Flow
<1> QED BY <1>12, <1>13, <1>14, <1>15, <1>16 DEF IInv

\* A log puts its bytes back in front of h, what its reads left of the layers below.
LEMMA PutBackLemma ==
    ASSUME IInv, SettingUp("log"), NEW h, NEW m, NEW p, NEW e, NEW l,
           Flow(m, p, h, e, l, at), Final(p, h, e, l, at), m[at - 1] = Len(logged[at]) + 1,
           p \in 0..sent, l \in Nat, e \in Ends, DOMAIN h = Layers,
           \A i \in Layers : h[i] \in Seq(1..MaxSent) /\ (head[i] = <<>> => h[i] = <<>>),
           Short(at) => Exhausted(at - 1, p, h, e),
           pos' = p, capErr' = e, left' = l, head' = [h EXCEPT ![at] = logged[at]],
           at' = at + 1, UNCHANGED <<config, wire, logged, rejected, got, seen>>
    PROVE  IInv'
<1>1. /\ ~rejected /\ at \in Layers /\ pipe[at].kind = "log" /\ at \notin Caps
      /\ pipe' = pipe /\ declared' = declared /\ duplex' = duplex /\ sent' = sent /\ peer' = peer
      /\ logged' = logged /\ rejected' = rejected /\ got' = got /\ seen' = seen
  BY DEF SettingUp, config, wire, Caps
<1>2. /\ TypeOK /\ Stages /\ Readings /\ Endings /\ Len(pipe) \in Nat
      /\ Layers = 1..Len(pipe) /\ Caps \subseteq Layers /\ Levels = 0..Len(pipe)
      /\ \A c, d \in Caps : c = d
  BY ConfigLemma DEF IInv, Levels
<1>3. Layers' = Layers /\ Caps' = Caps /\ Levels' = Levels
  BY <1>1 DEF Layers, Caps, Levels
<1>4. /\ DOMAIN head' = Layers /\ head'[at] = logged[at]
      /\ \A i \in Layers : i # at => head'[i] = h[i]
  BY <1>1, <1>2
<1>5. /\ logged[at] \in Seq(1..MaxSent) /\ Len(logged[at]) \in Nat /\ at \in 1..Len(pipe)
      /\ DOMAIN logged[at] = 1..Len(logged[at])
  BY <1>1, <1>2 DEF TypeOK
<1>6. TypeOK'
  <2>1. \A i \in Layers : head'[i] \in Seq(1..MaxSent)
    BY <1>4, <1>5
  <2>2. at' \in 1..(Len(pipe) + 1)
    BY <1>2, <1>5
  <2> QED BY <1>1, <1>2, <1>3, <1>4, <2>1, <2>2 DEF TypeOK
<1>7. Stages'
  <2>1. \A i \in Layers : i >= at' => i > at /\ i # at /\ i >= at
    BY <1>2, <1>5
  <2>2. \A i \in Layers : i > at' => i > at
    BY <1>2, <1>5
  <2>3. \A c \in Caps : c # at /\ c \in Layers
    BY <1>1, <1>2
  <2> QED BY <1>1, <1>2, <1>3, <1>4, <2>1, <2>2, <2>3 DEF Stages
<1>8. Readings'
  BY <1>1, <1>2, <1>3 DEF Readings, FromStart
<1>9. \A i \in 1..(at - 1) : i \in Layers /\ head'[i] = h[i]
  BY <1>2, <1>4, <1>5
<1>10. e # "none" => \E c \in Caps : c < at
  BY DEF Final
<1>11. Endings'
  <2>1. Final(pos', head', capErr', left', at')
    <3>1. e # "none" => \E c \in Caps : c < at + 1
      BY <1>2, <1>5, <1>10
    <3>2. e # "none" => \A c \in Caps : \A j \in 1..c : head'[j] = h[j]
      BY <1>2, <1>5, <1>9, <1>10
    <3> QED BY <3>1, <3>2 DEF Final
  <2> QED BY <1>1, <1>2, <1>3, <2>1 DEF Endings, Final
<1>12. Flows'
  <2>1. /\ m[0] = p + 1 /\ \A i \in Levels : m[i] \in Nat
        /\ \A i \in Layers : /\ Len(h[i]) = m[i - 1] - m[i] - Lost(i, e)
                             /\ \A j \in DOMAIN h[i] : h[i][j] = m[i] + j - 1
        /\ \A i, j \in Levels : i =< j => m[j] =< m[i]
        /\ \A c \in Caps : c < at => l = pipe[c].limit + 1 - m[c]
    BY DEF Flow, Chain, Counted
  <2>2. PICK n : /\ n \in [Levels -> Nat]
                 /\ \A i \in Levels : n[i] = IF i < at THEN m[i] ELSE 1
    <3> DEFINE f == [i \in Levels |-> IF i < at THEN m[i] ELSE 1]
    <3>1. f \in [Levels -> Nat] /\ \A i \in Levels : f[i] = IF i < at THEN m[i] ELSE 1
      BY <2>1
    <3> HIDE DEF f
    <3> QED BY <3>1
  <2>4. ASSUME NEW i \in Layers
        PROVE  /\ Len(head'[i]) = n[i - 1] - n[i] - Lost(i, e)
               /\ \A j \in DOMAIN head'[i] : head'[i][j] = n[i] + j - 1
    <3>1. i \in Levels /\ i - 1 \in Levels /\ i \in Nat /\ at \in Nat
      BY <1>2, <1>5 DEF Levels
    <3>2. CASE i < at
      <4>1. head'[i] = h[i] /\ n[i] = m[i] /\ n[i - 1] = m[i - 1]
        BY <1>4, <2>2, <3>1, <3>2
      <4> QED BY <2>1, <4>1
    <3>3. CASE i = at
      <4>1. n[i] = 1 /\ n[i - 1] = Len(logged[at]) + 1 /\ Lost(i, e) = 0
        BY <1>1, <2>2, <3>1, <3>3 DEF Lost
      <4>2. \A j \in DOMAIN logged[at] : logged[at][j] = j /\ j \in Nat
        BY <1>1, <1>2, <1>5 DEF Readings, FromStart
      <4>3. Len(head'[i]) = n[i - 1] - n[i] - Lost(i, e)
        BY <1>4, <1>5, <3>3, <4>1
      <4>4. \A j \in DOMAIN head'[i] : head'[i][j] = j /\ j \in Nat
        BY <1>4, <3>3, <4>2
      <4> QED BY <4>1, <4>3, <4>4
    <3>4. CASE i > at
      <4>1. n[i] = 1 /\ n[i - 1] = 1
        BY <2>2, <3>1, <3>4
      <4>2. Lost(i, e) = 0
        BY <1>2, <1>5, <1>10, <3>1, <3>4 DEF Lost
      <4>3. head'[i] = <<>>
        BY <1>2, <1>4, <3>1, <3>4 DEF Stages
      <4> QED BY <4>1, <4>2, <4>3
    <3> QED BY <3>1, <3>2, <3>3, <3>4
  <2>5. ASSUME NEW i \in Levels, NEW j \in Levels, i =< j
        PROVE  n[j] =< n[i]
    <3>1. i \in Int /\ j \in Int /\ at \in Int /\ at - 1 \in Levels
      BY <1>2, <1>5
    <3>2. m[i] \in Nat /\ m[j] \in Nat /\ m[j] =< m[i]
      BY <2>1, <2>5
    <3>3. /\ n[i] = IF i < at THEN m[i] ELSE 1
          /\ n[j] = IF j < at THEN m[j] ELSE 1
      BY <2>2
    <3>4. i < at => 1 =< m[i]
      <4>1. i < at => i =< at - 1
        BY <3>1
      <4>2. i < at => m[at - 1] =< m[i]
        BY <2>1, <3>1, <4>1
      <4> QED BY <1>5, <3>2, <4>2
    <3>5. j < at => i < at
      BY <2>5, <3>1
    <3> QED BY <3>2, <3>3, <3>4, <3>5
  <2>6. Chain(n, pos, head, capErr)'
    <3>1. n[0] = m[0]
      BY <1>2, <1>5, <2>2
    <3> QED BY <1>3, <2>1, <2>2, <2>4, <2>5, <3>1 DEF Chain, Lost
  <2>7. \A c \in Caps : c < at' => l = pipe[c].limit + 1 - n[c]
    <3>1. \A c \in Caps : c < at' => c < at /\ c \in Levels
      BY <1>1, <1>2, <1>5
    <3> QED BY <2>1, <2>2, <3>1
  <2>8. ASSUME NEW i \in Layers, i < at', Short(i)
        PROVE  n[i - 1] = Len(logged[i]) + 1 /\ Exhausted(i - 1, p, head', e)
    <3>1. i \in Nat /\ at \in Nat /\ i =< at /\ i - 1 \in Levels /\ i - 1 < at
      BY <1>2, <1>5, <2>8
    <3>2. m[i - 1] = Len(logged[i]) + 1 /\ Exhausted(i - 1, p, h, e)
      <4>1. CASE i = at
        BY <2>8, <4>1
      <4>2. CASE i # at
        BY <2>8, <3>1, <4>2 DEF Flow, Complete
      <4> QED BY <4>1, <4>2
    <3>3. n[i - 1] = m[i - 1]
      BY <2>2, <3>1
    <3>4. \A j \in 1..(i - 1) : head'[j] = h[j]
      BY <1>9, <3>1
    <3>5. \A c \in Caps : \A j \in (c + 1)..(i - 1) : head'[j] = h[j]
      BY <1>2, <3>1, <3>4
    <3>6. Exhausted(i - 1, p, head', e)
      BY <3>2, <3>4, <3>5 DEF Exhausted
    <3> QED BY <3>2, <3>3, <3>6
  <2>9. Complete(n, pos, head, capErr, at)'
    BY <1>1, <1>3, <2>8 DEF Complete, Short, Exhausted, Stopped
  <2>10. n[at' - 1] = Front' + 1
    <3>1. Front' = 0
      <4>1. \A i \in Layers : i > at => logged[i] = <<>>
        BY <1>2 DEF Stages
      <4>2. got = <<>>
        BY <1>1, <1>2 DEF Stages
      <4>3. at' > at
        BY <1>5
      <4> QED BY <1>1, <1>3, <4>1, <4>2, <4>3 DEF Front
    <3>2. n[at' - 1] = 1
      <4>1. at' - 1 = at /\ at \in Levels /\ ~(at < at)
        BY <1>2, <1>5
      <4> QED BY <2>2, <4>1
    <3> QED BY <3>1, <3>2
  <2> QED BY <1>1, <1>3, <2>6, <2>7, <2>9, <2>10 DEF Flows, Flow, Counted
<1> QED BY <1>6, <1>7, <1>8, <1>11, <1>12 DEF IInv

LEMMA RestoreInvariant ==
    ASSUME IInv, Restore
    PROVE  IInv'
<1> DEFINE k == at - 1
<1>1. /\ TypeOK /\ Stages /\ Readings /\ Endings /\ Len(pipe) \in Nat
      /\ Layers = 1..Len(pipe) /\ SettingUp("log") /\ at \in Layers /\ DOMAIN head = Layers
      /\ at' = at + 1 /\ UNCHANGED <<config, wire, logged, rejected, got, seen>>
      /\ \A i \in Layers : head[i] \in Seq(1..MaxSent)
  BY ConfigLemma DEF IInv, Restore, SettingUp, TypeOK
<1>2. k \in Levels
  BY <1>1 DEF Levels
<1>3. PICK nxt : Flow(nxt, pos, head, capErr, left, at) /\ nxt[at - 1] = Len(logged[at]) + 1
  BY <1>1 DEF IInv, Flows, Front
<1>4. nxt[at - 1] = Front + 1
  BY <1>1, <1>3 DEF Front
<1>5. CASE Len(logged[at]) < pipe[at].limit
  <2>1. /\ Result(k) # "byte" /\ Consume(k)
        /\ head' = [HeadAfter(k) EXCEPT ![at] = logged[at]]
    BY <1>5 DEF Restore
  <2>2. ReadEffect(k, nxt) /\ Exhausted(k, pos', HeadAfter(k), capErr')
    BY <1>1, <1>3, <1>4, <2>1, StopLemma
  <2>3. PICK m : Flow(m, pos', HeadAfter(k), capErr', left', at) /\ m[k] = nxt[k]
    BY <2>1, <2>2 DEF ReadEffect
  <2>4. /\ DOMAIN HeadAfter(k) = Layers
        /\ \A i \in Layers : /\ HeadAfter(k)[i] \in Seq(1..MaxSent)
                             /\ head[i] = <<>> => HeadAfter(k)[i] = <<>>
    BY <1>1, <1>2, HeadLemma
  <2>5. PICK h, x, p, e, l :
           /\ Flow(x, p, h, e, l, at) /\ Final(p, h, e, l, at) /\ x[at - 1] = Len(logged[at]) + 1
           /\ p \in 0..sent /\ l \in Nat /\ e \in Ends /\ DOMAIN h = Layers
           /\ \A i \in Layers : h[i] \in Seq(1..MaxSent) /\ (head[i] = <<>> => h[i] = <<>>)
           /\ Short(at) => Exhausted(at - 1, p, h, e)
           /\ pos' = p /\ capErr' = e /\ left' = l /\ head' = [h EXCEPT ![at] = logged[at]]
    <3>1. /\ Flow(m, pos', HeadAfter(k), capErr', left', at)
          /\ Final(pos', HeadAfter(k), capErr', left', at) /\ m[at - 1] = Len(logged[at]) + 1
          /\ pos' \in 0..sent /\ left' \in Nat /\ capErr' \in Ends
          /\ Exhausted(at - 1, pos', HeadAfter(k), capErr')
      BY <1>3, <2>2, <2>3 DEF ReadEffect
    <3> HIDE DEF k
    <3> QED BY <2>1, <2>4, <3>1
  <2> QED BY <1>1, <2>5, PutBackLemma
<1>6. CASE ~(Len(logged[at]) < pipe[at].limit)
  <2>1. head' = [head EXCEPT ![at] = logged[at]] /\ UNCHANGED <<pos, left, capErr>>
    BY <1>6 DEF Restore
  <2>2. Final(pos, head, capErr, left, at) /\ pos \in 0..sent /\ left \in Nat /\ capErr \in Ends
    BY <1>1 DEF Endings, TypeOK
  <2>3. ~Short(at)
    BY <1>6 DEF Short
  <2> QED BY <1>1, <1>3, <2>1, <2>2, <2>3, PutBackLemma
<1> QED BY <1>5, <1>6

LEMMA CapInvariant ==
    ASSUME IInv, CapBody
    PROVE  IInv'
<1>1. /\ ~rejected /\ at \in Layers /\ at \in Caps
      /\ left' = pipe[at].limit /\ at' = at + 1
      /\ pipe' = pipe /\ declared' = declared /\ duplex' = duplex /\ sent' = sent /\ peer' = peer
      /\ pos' = pos /\ head' = head /\ logged' = logged /\ capErr' = capErr
      /\ rejected' = rejected /\ got' = got /\ seen' = seen
  BY DEF CapBody, SettingUp, config, wire, Caps
<1>2. /\ TypeOK /\ Stages /\ Readings /\ Endings /\ Len(pipe) \in Nat
      /\ Layers = 1..Len(pipe) /\ Caps \subseteq Layers /\ Levels = 0..Len(pipe)
      /\ \A c, d \in Caps : c = d
      /\ \A i \in Layers : pipe[i].limit \in Nat
  BY ConfigLemma DEF IInv, Levels
<1>3. Layers' = Layers /\ Caps' = Caps /\ Levels' = Levels
  BY <1>1 DEF Layers, Caps, Levels
<1>4. at \in 1..Len(pipe) /\ at' \in 1..(Len(pipe) + 1) /\ at \in Nat /\ \A c \in Caps : c = at
  BY <1>1, <1>2
<1>5. capErr = "none" /\ Lost(at, capErr) = 0
  <2>1. capErr = "none"
    BY <1>2, <1>4 DEF Endings, Final
  <2> QED BY <2>1 DEF Lost
<1>6. TypeOK'
  BY <1>1, <1>2, <1>3, <1>4 DEF TypeOK
<1>7. Stages'
  <2>1. \A i \in Layers : (i >= at' => i >= at) /\ (i > at' => i > at)
    BY <1>1, <1>2, <1>4
  <2> QED BY <1>1, <1>2, <1>3, <2>1 DEF Stages
<1>8. Readings'
  BY <1>1, <1>2, <1>3 DEF Readings, FromStart
<1>9. Endings'
  BY <1>1, <1>2, <1>3, <1>5 DEF Endings, Final
<1>10. Flows'
  <2>1. PICK nxt : Flow(nxt, pos, head, capErr, left, at) /\ nxt[at - 1] = Front + 1
    BY DEF IInv, Flows
  <2>2. /\ Len(head[at]) = nxt[at - 1] - nxt[at] - Lost(at, capErr)
        /\ nxt[at] \in Nat /\ nxt[at - 1] = 1 /\ Len(head[at]) = 0
    <3>1. Front = 0
      BY <1>1, <1>2 DEF Front, Stages
    <3>2. Len(head[at]) = 0
      BY <1>1, <1>2 DEF Stages
    <3>3. at \in Levels
      BY <1>2, <1>4
    <3> QED BY <1>1, <2>1, <3>1, <3>2, <3>3 DEF Flow, Chain
  <2>3. nxt[at] = 1
    BY <1>5, <2>2
  <2>4. Chain(nxt, pos, head, capErr)'
    BY <1>1, <1>3, <2>1 DEF Flow, Chain, Lost
  <2>5. Counted(nxt, left, at)'
    <3>1. \A c \in Caps : pipe[at].limit = pipe[c].limit + 1 - nxt[c]
      BY <1>1, <1>2, <1>4, <2>3
    <3> QED BY <1>1, <1>3, <3>1 DEF Counted
  <2>6. Complete(nxt, pos, head, capErr, at)'
    <3>1. \A i \in Layers : i < at' /\ Short(i) => i < at
      BY <1>1, <1>2, <1>4 DEF Short, Caps
    <3>2. \A i \in Layers : Short(i)' <=> Short(i)
      BY <1>1 DEF Short
    <3>3. \A i : Exhausted(i, pos, head, capErr)' <=> Exhausted(i, pos, head, capErr)
      BY <1>1, <1>3 DEF Exhausted, Stopped
    <3> QED BY <1>1, <1>3, <2>1, <3>1, <3>2, <3>3 DEF Flow, Complete
  <2>7. Front' = 0
    <3>1. got = <<>> /\ \A i \in Layers : i > at => logged[i] = <<>>
      BY <1>1, <1>2 DEF Stages
    <3>2. at' > at
      BY <1>1, <1>4
    <3> QED BY <1>1, <1>3, <3>1, <3>2 DEF Front
  <2>8. at' - 1 = at
    BY <1>1, <1>4
  <2> QED BY <2>3, <2>4, <2>5, <2>6, <2>7, <2>8 DEF Flows, Flow
<1> QED BY <1>6, <1>7, <1>8, <1>9, <1>10 DEF IInv

LEMMA RejectInvariant ==
    ASSUME IInv, RejectBody
    PROVE  IInv'
<1>1. /\ at \in Layers /\ rejected' = TRUE
      /\ UNCHANGED <<pipe, declared, duplex, sent, peer, pos, at, head, logged, left, capErr,
                     got, seen>>
  BY DEF RejectBody, SettingUp, config, wire
<1>2. Layers' = Layers /\ Caps' = Caps /\ Levels' = Levels
  BY <1>1 DEF Layers, Caps, Levels
<1>3. TypeOK' /\ Stages' /\ Readings' /\ Endings'
  BY <1>1, <1>2 DEF IInv, TypeOK, Stages, Readings, Endings, Final, FromStart
<1>4. Flows'
  BY <1>1, <1>2 DEF IInv, Flows, Flow, Chain, Lost, Counted, Complete, Short, Exhausted,
                    Stopped, Front
<1> QED BY <1>3, <1>4 DEF IInv

LEMMA ReadByteInvariant ==
    ASSUME IInv, ReadByte
    PROVE  /\ IInv'
           /\ got' = Append(got, Len(got) + 1) /\ Len(got) < sent
           /\ \A c \in Caps : Len(got) < pipe[c].limit
<1> DEFINE k == at - 1
<1>1. /\ ~rejected /\ at = Len(pipe) + 1 /\ seen = "none" /\ Result(k) = "byte" /\ Consume(k)
      /\ head' = HeadAfter(k) /\ got' = Append(got, Byte(k))
      /\ pipe' = pipe /\ declared' = declared /\ duplex' = duplex /\ sent' = sent /\ peer' = peer
      /\ at' = at /\ logged' = logged /\ rejected' = rejected /\ seen' = seen
  <2>1. Len(pipe) \in Nat /\ at = Len(pipe) + 1
    BY ConfigLemma DEF IInv, ReadByte, Running
  <2>2. Len(pipe) = k
    BY <2>1
  <2> QED BY <2>1, <2>2 DEF ReadByte, Running, config, wire
<1>2. /\ TypeOK /\ Stages /\ Readings /\ Endings /\ Len(pipe) \in Nat
      /\ Layers = 1..Len(pipe) /\ MaxSent \in Nat /\ Caps \subseteq Layers
      /\ \A i \in Layers : pipe[i].limit \in Nat
  BY ConfigLemma DEF IInv
<1>3. PICK nxt : Flow(nxt, pos, head, capErr, left, at) /\ nxt[at - 1] = Front + 1
  BY DEF IInv, Flows
<1>4. /\ ReadEffect(k, nxt) /\ Byte(k) = nxt[k] /\ nxt[k] \in 1..sent
      /\ \A c \in Caps : c =< k => nxt[k] =< pipe[c].limit
  BY <1>1, <1>2, <1>3, PassLemma
<1>5. k \in Levels /\ at \notin Layers /\ k = Len(pipe)
  BY <1>1, <1>2 DEF Levels
<1>6. /\ Byte(k) = Len(got) + 1 /\ Len(got) \in Nat /\ got \in Seq(1..MaxSent)
      /\ nxt[k] = Len(got) + 1 /\ sent \in 0..MaxSent
  BY <1>1, <1>2, <1>3, <1>4, <1>5 DEF Front, TypeOK
<1>7. /\ DOMAIN head' = Layers
      /\ \A i \in Layers : head'[i] \in Seq(1..MaxSent) /\ (head[i] = <<>> => head'[i] = <<>>)
  BY <1>1, <1>2, <1>5, HeadLemma
<1>8. Byte(k) \in 1..MaxSent
  BY <1>2, <1>4, <1>6
<1>9. /\ got' \in Seq(1..MaxSent) /\ Len(got') = Len(got) + 1
      /\ \A j \in DOMAIN got' : got'[j] = IF j = Len(got) + 1 THEN Byte(k) ELSE got[j]
      /\ DOMAIN got' = 1..(Len(got) + 1) /\ DOMAIN got = 1..Len(got)
  BY <1>1, <1>6, <1>8
<1>10. Layers' = Layers /\ Caps' = Caps /\ Levels' = Levels
  BY <1>1 DEF Layers, Caps, Levels
<1>11. TypeOK'
  <2>1. pos' \in 0..sent /\ left' \in Nat /\ capErr' \in Ends
    BY <1>4 DEF ReadEffect
  <2> QED BY <1>1, <1>2, <1>7, <1>9, <1>10, <2>1 DEF TypeOK
<1>12. Stages'
  BY <1>1, <1>2, <1>5, <1>7, <1>10 DEF Stages
<1>13. Readings'
  <2>1. FromStart(got')
    <3>1. \A j \in DOMAIN got : got[j] = j
      BY <1>2 DEF Readings, FromStart
    <3>2. \A j \in DOMAIN got' : j # Len(got) + 1 => j \in DOMAIN got
      BY <1>6, <1>9
    <3> QED BY <1>6, <1>9, <3>1, <3>2 DEF FromStart
  <2> QED BY <1>1, <1>2, <1>10, <2>1 DEF Readings, FromStart
<1>14. Endings'
  BY <1>1, <1>2, <1>4, <1>10 DEF Endings, ReadEffect, Final
<1>15. Flows'
  <2>1. PICK m : Flow(m, pos', head', capErr', left', at) /\ m[k] = nxt[k] + 1
    BY <1>1, <1>4 DEF ReadEffect
  <2>2. Complete(m, pos, head, capErr, at)'
    BY <1>1, <1>10, <2>1 DEF Flow, Complete, Short, Exhausted, Stopped
  <2>3. Chain(m, pos, head, capErr)' /\ Counted(m, left, at)'
    BY <1>1, <1>10, <2>1 DEF Flow, Chain, Counted, Lost
  <2>4. m[at' - 1] = Front' + 1
    <3>1. Front' = Len(got) + 1 /\ m[at' - 1] = Byte(k) + 1
      BY <1>1, <1>4, <1>5, <1>9, <1>10, <2>1 DEF Front
    <3> QED BY <1>6, <3>1
  <2> QED BY <1>1, <2>2, <2>3, <2>4 DEF Flows, Flow
<1>16. got' = Append(got, Len(got) + 1) /\ Len(got) < sent
  BY <1>1, <1>4, <1>6
<1>17. \A c \in Caps : Len(got) < pipe[c].limit
  <2> SUFFICES ASSUME NEW c \in Caps
               PROVE  Len(got) < pipe[c].limit
    OBVIOUS
  <2>1. nxt[k] =< pipe[c].limit /\ pipe[c].limit \in Nat
    BY <1>2, <1>4, <1>5
  <2> QED BY <1>6, <2>1
<1> QED BY <1>11, <1>12, <1>13, <1>14, <1>15, <1>16, <1>17 DEF IInv

LEMMA ReadEndInvariant ==
    ASSUME IInv, ReadEnd
    PROVE  /\ IInv'
           /\ seen' \in {"eof", "broken", "toolarge"}
           /\ seen' = "eof" => Len(got) = sent /\ (peer = "closed" \/ sent = declared)
           /\ seen' = "broken" => Len(got) = sent /\ peer = "broken"
           /\ seen' = "toolarge" => \E c \in Caps : Len(got) = pipe[c].limit /\ pipe[c].limit < sent
<1> DEFINE k == at - 1
<1>1. /\ ~rejected /\ at = Len(pipe) + 1 /\ seen = "none" /\ Result(k) # "byte" /\ Consume(k)
      /\ head' = HeadAfter(k) /\ seen' = Result(k)
      /\ pipe' = pipe /\ declared' = declared /\ duplex' = duplex /\ sent' = sent /\ peer' = peer
      /\ at' = at /\ logged' = logged /\ rejected' = rejected /\ got' = got
  <2>1. Len(pipe) \in Nat /\ at = Len(pipe) + 1
    BY ConfigLemma DEF IInv, ReadEnd, Running
  <2>2. Len(pipe) = k
    BY <2>1
  <2> QED BY <2>1, <2>2 DEF ReadEnd, Running, config, wire
<1>2. /\ TypeOK /\ Stages /\ Readings /\ Endings /\ Len(pipe) \in Nat
      /\ Layers = 1..Len(pipe) /\ Caps \subseteq Layers
      /\ \A i \in Layers : pipe[i].limit \in Nat
  BY ConfigLemma DEF IInv
<1>3. PICK nxt : Flow(nxt, pos, head, capErr, left, at) /\ nxt[at - 1] = Front + 1
  BY DEF IInv, Flows
<1>4. /\ ReadEffect(k, nxt)
      /\ Result(k) \in {"eof", "broken", "toolarge"}
      /\ Result(k) \in {"eof", "broken"} => nxt[k] = sent + 1
      /\ Result(k) = "eof" => peer = "closed" \/ sent = declared
      /\ Result(k) = "broken" => peer = "broken"
      /\ Result(k) = "toolarge" =>
           \E c \in Caps : nxt[k] = pipe[c].limit + 1 /\ pipe[c].limit < sent
  BY <1>1, <1>2, <1>3, StopLemma
<1>5. k \in Levels /\ at \notin Layers /\ k = Len(pipe)
  BY <1>1, <1>2 DEF Levels
<1>6. nxt[k] = Len(got) + 1 /\ Len(got) \in Nat /\ sent \in Nat
  BY <1>1, <1>2, <1>3, <1>5 DEF Front, TypeOK
<1>7. /\ DOMAIN head' = Layers
      /\ \A i \in Layers : head'[i] \in Seq(1..MaxSent) /\ (head[i] = <<>> => head'[i] = <<>>)
  BY <1>1, <1>2, <1>5, HeadLemma
<1>8. Layers' = Layers /\ Caps' = Caps /\ Levels' = Levels
  BY <1>1 DEF Layers, Caps, Levels
<1>9. TypeOK'
  <2>1. pos' \in 0..sent /\ left' \in Nat /\ capErr' \in Ends
    BY <1>4 DEF ReadEffect
  <2>2. seen' \in Ends
    BY <1>1, <1>4 DEF Ends
  <2> QED BY <1>1, <1>2, <1>7, <1>8, <2>1, <2>2 DEF TypeOK
<1>10. Stages' /\ Readings'
  BY <1>1, <1>2, <1>5, <1>7, <1>8 DEF Stages, Readings, FromStart
<1>11. /\ seen' \in {"eof", "broken"} => Len(got) = sent
       /\ seen' = "toolarge" => \E c \in Caps : Len(got) = pipe[c].limit /\ pipe[c].limit < sent
  <2>1. seen' \in {"eof", "broken"} => Len(got) = sent
    BY <1>1, <1>4, <1>6
  <2>2. \A c \in Caps : nxt[k] = pipe[c].limit + 1 => Len(got) = pipe[c].limit
    BY <1>2, <1>6
  <2> QED BY <1>1, <1>4, <2>1, <2>2
<1>12. Endings'
  BY <1>1, <1>2, <1>4, <1>8, <1>11 DEF Endings, ReadEffect, Final
<1>13. Flows'
  <2>1. PICK m : Flow(m, pos', head', capErr', left', at) /\ m[k] = nxt[k]
    BY <1>1, <1>4 DEF ReadEffect
  <2>2. Complete(m, pos, head, capErr, at)'
    BY <1>1, <1>8, <2>1 DEF Flow, Complete, Short, Exhausted, Stopped
  <2>3. Chain(m, pos, head, capErr)' /\ Counted(m, left, at)'
    BY <1>1, <1>8, <2>1 DEF Flow, Chain, Counted, Lost
  <2>4. m[at' - 1] = Front' + 1
    BY <1>1, <1>5, <1>6, <1>8, <2>1 DEF Front
  <2> QED BY <1>1, <2>2, <2>3, <2>4 DEF Flows, Flow
<1> QED BY <1>1, <1>4, <1>9, <1>10, <1>11, <1>12, <1>13 DEF IInv

LEMMA NextInvariant ==
    ASSUME IInv, [Next]_vars
    PROVE  IInv'
<1>1. CASE Peer
  BY <1>1, PeerInvariant
<1>2. CASE Buffer
  BY <1>2, BufferInvariant
<1>3. CASE Restore
  BY <1>3, RestoreInvariant
<1>4. CASE CapBody
  BY <1>4, CapInvariant
<1>5. CASE RejectBody
  BY <1>5, RejectInvariant
<1>6. CASE ReadByte
  BY <1>6, ReadByteInvariant
<1>7. CASE ReadEnd
  BY <1>7, ReadEndInvariant
<1>8. CASE UNCHANGED vars
  <2>1. Layers' = Layers /\ Caps' = Caps /\ Levels' = Levels
    BY <1>8 DEF vars, Layers, Caps, Levels
  <2>2. TypeOK' /\ Stages' /\ Readings' /\ Endings'
    BY <1>8, <2>1 DEF vars, IInv, TypeOK, Stages, Readings, Endings, Final, FromStart
  <2>3. Flows'
    BY <1>8, <2>1 DEF vars, IInv, Flows, Flow, Chain, Lost, Counted, Complete, Short,
                      Exhausted, Stopped, Front
  <2> QED BY <2>2, <2>3 DEF IInv
<1> QED BY <1>1, <1>2, <1>3, <1>4, <1>5, <1>6, <1>7, <1>8 DEF Next, Middleware, Reader

-----------------------------------------------------------------------------
(***************************************************************************)
(* What follows for the properties.                                        *)
(***************************************************************************)

\* In every relay the layers hold, in order, the bytes between their readers.
THEOREM Invariance == Spec => []IInv
<1>1. IInv /\ [Next]_vars => IInv'
  BY NextInvariant
<1>2. Init => IInv
  BY InitInvariant
<1> QED BY <1>1, <1>2, PTL DEF Spec

\* For every pipeline, length and peer the variables have their values.
THEOREM TypeCorrectness == Spec => []TypeOK
<1>1. IInv => TypeOK
  BY DEF IInv
<1> QED BY <1>1, Invariance, PTL

LEMMA NothingLostLemma ==
    ASSUME IInv
    PROVE  NothingLost
<1>1. /\ Len(pipe) \in Nat /\ Layers = 1..Len(pipe) /\ at \in 1..(Len(pipe) + 1)
      /\ Caps \subseteq Layers /\ \A c, d \in Caps : c = d
      /\ \A i \in Layers : pipe[i].limit \in Nat /\ logged[i] \in Seq(1..MaxSent)
                           /\ head[i] \in Seq(1..MaxSent)
      /\ pos \in Nat /\ got \in Seq(1..MaxSent)
  BY ConfigLemma DEF IInv, TypeOK
<1>2. PICK nxt : Flow(nxt, pos, head, capErr, left, at) /\ nxt[at - 1] = Front + 1
  BY DEF IInv, Flows
<1>3. /\ nxt[0] = pos + 1 /\ \A i \in Levels : nxt[i] \in Nat
      /\ \A i \in Layers : /\ Len(head[i]) = nxt[i - 1] - nxt[i] - Lost(i, capErr)
                           /\ \A j \in DOMAIN head[i] : head[i][j] = nxt[i] + j - 1
      /\ \A c \in Caps : c < at => left = pipe[c].limit + 1 - nxt[c]
  BY <1>2 DEF Flow, Chain, Counted
<1> SUFFICES ASSUME NEW n \in 1..pos
             PROVE  \/ In(n, got) \/ \E i \in Layers : In(n, head[i])
                    \/ at \in Layers /\ In(n, logged[at])
                    \/ capErr = "toolarge" /\ \E c \in Caps : n = pipe[c].limit + 1
  BY DEF NothingLost
<1>4. CASE n =< Front
  <2>1. CASE at \in Layers
    <3>1. n \in DOMAIN logged[at]
      BY <1>1, <1>4, <2>1 DEF Front
    <3>2. logged[at][n] = n
      BY <2>1, <3>1 DEF IInv, Readings, FromStart
    <3> QED BY <2>1, <3>1, <3>2 DEF In
  <2>2. CASE at \notin Layers
    <3>1. n \in DOMAIN got
      BY <1>1, <1>4, <2>2 DEF Front
    <3>2. got[n] = n
      BY <3>1 DEF IInv, Readings, FromStart
    <3> QED BY <3>1, <3>2 DEF In
  <2> QED BY <2>1, <2>2
<1>5. CASE ~(n =< Front)
  <2> DEFINE S == {i \in Levels : nxt[i] =< n}
  <2>1. Front \in Nat /\ at - 1 \in Levels
    BY <1>1 DEF Front, Levels
  <2>2. at - 1 \in S /\ S \subseteq Nat /\ 0 \notin S
    BY <1>1, <1>2, <1>3, <1>5, <2>1 DEF Levels
  <2>3. PICK i \in S : \A j \in S : i =< j
    <3> HIDE DEF S
    <3> QED BY <2>2, LeastLemma
  <2>4. i \in Layers /\ i \in Levels /\ i - 1 \in Levels /\ i - 1 \notin S
    BY <1>1, <2>2, <2>3 DEF Levels
  <2>5. nxt[i] =< n /\ n < nxt[i - 1] /\ nxt[i] \in Nat /\ nxt[i - 1] \in Nat
    BY <1>3, <2>3, <2>4
  <2>6. CASE Lost(i, capErr) = 0
    <3>1. Len(head[i]) = nxt[i - 1] - nxt[i]
      BY <1>3, <2>4, <2>5, <2>6
    <3> DEFINE j == n - nxt[i] + 1
    <3>2. j \in 1..Len(head[i]) /\ nxt[i] + j - 1 = n
      BY <2>5, <3>1
    <3>3. j \in DOMAIN head[i]
      BY <1>1, <2>4, <3>2
    <3> HIDE DEF j
    <3>4. head[i][j] = n
      BY <1>3, <2>4, <3>2, <3>3
    <3> QED BY <2>4, <3>3, <3>4 DEF In
  <2>7. CASE Lost(i, capErr) # 0
    <3>1. i \in Caps /\ capErr = "toolarge" /\ Lost(i, capErr) = 1
      BY <2>7 DEF Lost
    <3>2. i < at /\ left = 0 /\ Len(head[i]) = 0
      BY <1>1, <3>1 DEF IInv, Endings, Final, Stages
    <3>3. 0 = nxt[i - 1] - nxt[i] - 1
      BY <1>3, <2>4, <3>1, <3>2
    <3>4. 0 = pipe[i].limit + 1 - nxt[i] /\ pipe[i].limit \in Nat
      BY <1>1, <1>3, <3>1, <3>2
    <3>5. nxt[i] = pipe[i].limit + 1
      BY <2>5, <3>4
    <3>6. n = nxt[i]
      BY <2>5, <3>3
    <3> QED BY <3>1, <3>5, <3>6
  <2> QED BY <2>6, <2>7
<1> QED BY <1>4, <1>5

\* For every pipeline and every peer, whatever read failed: a byte off the wire is
\* received or held for the reader, but for the one over MaxBody's limit.
THEOREM NothingIsLost == Spec => []NothingLost
BY NothingLostLemma, Invariance, PTL

\* How far the reader is.
LEMMA ReceivedLemma ==
    ASSUME IInv, NEW nxt, Flow(nxt, pos, head, capErr, left, at), nxt[at - 1] = Front + 1,
           NEW i \in Levels, i < at
    PROVE  Len(got) < nxt[i] /\ nxt[i] \in Nat
<1>1. /\ Len(pipe) \in Nat /\ Layers = 1..Len(pipe) /\ at \in 1..(Len(pipe) + 1)
      /\ Len(got) \in Nat /\ Front \in Nat
  BY ConfigLemma DEF IInv, TypeOK, Front
<1>2. /\ \A j \in Levels : nxt[j] \in Nat
      /\ \A a, b \in Levels : a =< b => nxt[b] =< nxt[a]
  BY DEF Flow, Chain
<1>3. at - 1 \in Levels /\ i =< at - 1
  BY <1>1 DEF Levels
<1>4. Len(got) =< Front
  BY <1>1 DEF Front, IInv, Stages
<1>5. nxt[at - 1] =< nxt[i] /\ nxt[i] \in Nat
  BY <1>2, <1>3
<1> QED BY <1>1, <1>4, <1>5

\* For every pipeline with a MaxBody, and every peer: nobody behind it receives more
\* than its limit, and a longer body ends in its error.
THEOREM LimitHolds == Spec => []CapHolds
<1>1. ASSUME IInv
      PROVE  CapHolds
  <2> SUFFICES ASSUME NEW c \in Caps
               PROVE  /\ Len(got) =< pipe[c].limit
                      /\ \A i \in Layers : c < i => Len(logged[i]) =< pipe[c].limit
                      /\ (seen # "none" /\ sent > pipe[c].limit) => seen = "toolarge"
    BY DEF CapHolds
  <2>1. /\ Len(pipe) \in Nat /\ Layers = 1..Len(pipe) /\ at \in 1..(Len(pipe) + 1)
        /\ c \in Layers /\ pipe[c].limit \in Nat /\ Len(got) \in Nat /\ left \in Nat
        /\ seen \in Ends /\ sent \in Nat
    BY <1>1, ConfigLemma DEF IInv, TypeOK
  <2>2. Len(got) =< pipe[c].limit
    <3>1. CASE at \in Layers
      BY <1>1, <2>1, <3>1 DEF IInv, Stages
    <3>2. CASE at \notin Layers
      <4>1. PICK nxt : Flow(nxt, pos, head, capErr, left, at) /\ nxt[at - 1] = Front + 1
        BY <1>1 DEF IInv, Flows
      <4>2. c \in Levels /\ c < at
        BY <2>1, <3>2 DEF Levels
      <4>3. Len(got) < nxt[c] /\ nxt[c] \in Nat
        BY <1>1, <4>1, <4>2, ReceivedLemma
      <4>4. left = pipe[c].limit + 1 - nxt[c]
        BY <4>1, <4>2 DEF Flow, Counted
      <4> QED BY <2>1, <4>3, <4>4
    <3> QED BY <3>1, <3>2
  <2>3. (seen # "none" /\ sent > pipe[c].limit) => seen = "toolarge"
    <3>1. seen \in {"eof", "broken"} => Len(got) = sent
      BY <1>1 DEF IInv, Endings
    <3> QED BY <2>1, <2>2, <3>1 DEF Ends
  <2> QED BY <1>1, <2>2, <2>3 DEF IInv, Readings
<1> QED BY <1>1, Invariance, PTL

\* For every pipeline and peer: a log is a prefix of the body, and one that stops
\* short of its limit is all that the reader receives.
THEOREM LogsAreWhole == Spec => []LogIsWhole
<1>1. ASSUME IInv
      PROVE  LogIsWhole
  <2> SUFFICES ASSUME NEW i \in Layers
               PROVE  /\ FromStart(logged[i])
                      /\ (pipe[i].kind = "log" /\ i < at /\ Len(logged[i]) < pipe[i].limit)
                            => Len(got) =< Len(logged[i])
    BY DEF LogIsWhole
  <2>1. FromStart(logged[i])
    BY <1>1 DEF IInv, Readings
  <2>2. ASSUME Short(i), i < at
        PROVE  Len(got) =< Len(logged[i])
    <3>1. PICK nxt : Flow(nxt, pos, head, capErr, left, at) /\ nxt[at - 1] = Front + 1
      BY <1>1 DEF IInv, Flows
    <3>2. nxt[i - 1] = Len(logged[i]) + 1
      BY <2>2, <3>1 DEF Flow, Complete
    <3>3. /\ i - 1 \in Levels /\ i - 1 < at /\ Len(logged[i]) \in Nat /\ Len(got) \in Nat
      BY <1>1, <2>2, ConfigLemma DEF IInv, TypeOK, Levels
    <3>4. Len(got) < nxt[i - 1]
      BY <1>1, <3>1, <3>3, ReceivedLemma
    <3> QED BY <3>2, <3>3, <3>4
  <2> QED BY <2>1, <2>2 DEF Short
<1> QED BY <1>1, Invariance, PTL

\* For every pipeline, length and peer: with any logs in between, the reader finds
\* the body that BodyStream promises, in order and with its end.
THEOREM RefinesStream == Spec => StreamSpec
<1>1. Init => Stream!Init
  BY DEF Init, Stream!Init
<1>2. ASSUME IInv, [Next]_vars
      PROVE  [Stream!Next]_(Stream!vars)
  <2> DEFINE bound == IF Caps = {} THEN Unknown ELSE pipe[Cap].limit
  <2>1. /\ Caps \subseteq Layers /\ \A c, d \in Caps : c = d
        /\ \A i \in Layers : pipe[i].limit \in Nat
        /\ Len(got) \in Nat
    BY <1>2, ConfigLemma DEF IInv, TypeOK
  <2>2. Caps # {} => Cap \in Caps /\ \A c \in Caps : c = Cap
    BY <2>1 DEF Cap
  <2>3. bound' = bound /\ declared' = declared
    <3>1. pipe' = pipe /\ declared' = declared
      BY <1>2 DEF Next, Peer, PeerSends, PeerEnds, PeerBreaks, Middleware, Buffer, Restore,
                  CapBody, RejectBody, Reader, ReadByte, ReadEnd, config, vars
    <3>2. Caps' = Caps
      BY <3>1 DEF Caps, Layers
    <3>3. Cap' = Cap
      BY <3>2 DEF Cap
    <3> QED BY <3>1, <3>2, <3>3
  <2> HIDE DEF bound
  <2>4. CASE PeerSends
    <3>1. Stream!Arrive
      BY <2>3, <2>4 DEF PeerSends, Stream!Arrive, bound
    <3> QED BY <3>1 DEF Stream!Next
  <2>5. CASE PeerEnds \/ PeerBreaks
    <3>1. Stream!End
      BY <2>3, <2>5 DEF PeerEnds, PeerBreaks, Stream!End, bound
    <3> QED BY <3>1 DEF Stream!Next
  <2>6. CASE Middleware \/ UNCHANGED vars
    <3>1. UNCHANGED <<sent, peer, got, seen>>
      BY <2>6 DEF Middleware, Buffer, Restore, CapBody, RejectBody, wire, vars
    <3> QED BY <2>3, <3>1 DEF Stream!vars, bound
  <2>7. CASE ReadByte
    <3>1. /\ got' = Append(got, Len(got) + 1) /\ Len(got) < sent
          /\ \A c \in Caps : Len(got) < pipe[c].limit
      BY <1>2, <2>7, ReadByteInvariant
    <3>2. Len(got) # bound
      BY <2>1, <2>2, <3>1 DEF bound, Unknown
    <3>3. Stream!Read
      BY <2>3, <2>7, <3>1, <3>2 DEF ReadByte, wire, Stream!Read, bound
    <3> QED BY <3>3 DEF Stream!Next
  <2>8. CASE ReadEnd
    <3>1. /\ seen' \in {"eof", "broken", "toolarge"}
          /\ seen' = "eof" => Len(got) = sent /\ (peer = "closed" \/ sent = declared)
          /\ seen' = "broken" => Len(got) = sent /\ peer = "broken"
          /\ seen' = "toolarge" => \E c \in Caps : Len(got) = pipe[c].limit /\ pipe[c].limit < sent
      BY <1>2, <2>8, ReadEndInvariant
    <3>2. seen' = "toolarge" => Len(got) = bound /\ bound < sent
      BY <2>2, <3>1 DEF bound
    <3>3. Stream!ReadEnd
      BY <2>3, <2>8, <3>1, <3>2 DEF ReadEnd, wire, Stream!ReadEnd, bound
    <3> QED BY <3>3 DEF Stream!Next
  <2> QED BY <1>2, <2>4, <2>5, <2>6, <2>7, <2>8 DEF Next, Peer, Reader
<1> QED BY <1>1, <1>2, Invariance, PTL DEF Spec, StreamSpec, Stream!Spec
==============================================================================
