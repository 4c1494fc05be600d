------------------------ MODULE OutboundExchangeProofs ------------------------
(***************************************************************************)
(* That what a client's request yields reaches its peer, in every attempt  *)
(* and through every stack of loggers and clones, when that is no longer   *)
(* the client's payload, and that every LoggerTransport says what is sent  *)
(* and what came of it.                                                    *)
(*                                                                         *)
(* The first needs that reading through a reader and the readers below it  *)
(* takes what it yields from the front, however much is read, wherever it  *)
(* lies and whoever sees the end of it: shown by the highest reader at     *)
(* which it would fail.                                                    *)
(***************************************************************************)
EXTENDS OutboundExchange, Flattening, TLAPS

-----------------------------------------------------------------------------
(***************************************************************************)
(* Taking from the front of a sequence.                                    *)
(***************************************************************************)

LEMMA DropLemma ==
    ASSUME NEW S, NEW s \in Seq(S), NEW n \in Nat
    PROVE  /\ Drop(s, n) \in Seq(S)
           /\ Len(Drop(s, n)) = IF n =< Len(s) THEN Len(s) - n ELSE 0
           /\ \A i \in 1..(Len(s) - n) : Drop(s, n)[i] = s[n + i]
           /\ n >= Len(s) => Drop(s, n) = <<>>
           /\ n = 0 => Drop(s, n) = s
<1>1. /\ Len(s) \in Nat /\ n + 1 \in Int /\ Len(s) \in Int
      /\ \A i \in (n + 1)..Len(s) : s[i] \in S
  OBVIOUS
<1>2. /\ SubSeq(s, n + 1, Len(s)) \in Seq(S)
      /\ Len(SubSeq(s, n + 1, Len(s))) = IF n + 1 =< Len(s) THEN Len(s) - (n + 1) + 1 ELSE 0
      /\ \A i \in 1..(Len(s) - (n + 1) + 1) : SubSeq(s, n + 1, Len(s))[i] = s[(n + 1) + i - 1]
  BY <1>1, SubSeqProperties
<1> DEFINE d == SubSeq(s, n + 1, Len(s))
<1>3. d = Drop(s, n)
  BY DEF Drop
<1> HIDE DEF d
<1>4. d \in Seq(S) /\ Len(d) = IF n =< Len(s) THEN Len(s) - n ELSE 0
  BY <1>1, <1>2 DEF d
<1>5. \A i \in 1..(Len(s) - n) : d[i] = s[n + i]
  <2> SUFFICES ASSUME NEW i \in 1..(Len(s) - n)
               PROVE  d[i] = s[n + i]
    OBVIOUS
  <2>1. i \in 1..(Len(s) - (n + 1) + 1) /\ (n + 1) + i - 1 = n + i
    BY <1>1
  <2> QED BY <1>2, <2>1 DEF d
<1>6. n >= Len(s) => d = <<>>
  <2> SUFFICES ASSUME n >= Len(s)
               PROVE  d = <<>>
    OBVIOUS
  <2>1. Len(d) = 0
    BY <1>1, <1>4
  <2> QED BY <1>4, <2>1
<1>7. n = 0 => d = s
  <2> SUFFICES ASSUME n = 0
               PROVE  d = s
    OBVIOUS
  <2>1. Len(d) = Len(s)
    BY <1>1, <1>4
  <2>2. \A i \in 1..Len(d) : d[i] = s[i]
    <3> SUFFICES ASSUME NEW i \in 1..Len(d)
                 PROVE  d[i] = s[i]
      OBVIOUS
    <3>1. i \in 1..(Len(s) - n) /\ n + i = i
      BY <1>1, <2>1
    <3> QED BY <1>5, <3>1
  <2> QED BY <1>4, <2>1, <2>2, SeqEqual
<1> QED BY <1>3, <1>4, <1>5, <1>6, <1>7

\* Taking from two sequences, one behind the other.
LEMMA DropConcat ==
    ASSUME NEW S, NEW s \in Seq(S), NEW t \in Seq(S), NEW n \in Nat
    PROVE  Drop(s \o t, n) = IF n =< Len(s) THEN Drop(s, n) \o t ELSE Drop(t, n - Len(s))
<1> DEFINE st == s \o t
           d  == Drop(st, n)
<1>1. /\ Len(s) \in Nat /\ Len(t) \in Nat /\ st \in Seq(S) /\ Len(st) = Len(s) + Len(t)
      /\ \A i \in 1..(Len(s) + Len(t)) : st[i] = IF i =< Len(s) THEN s[i] ELSE t[i - Len(s)]
  BY ConcatProperties
<1> HIDE DEF st
<1>2. /\ d \in Seq(S) /\ Len(d) = IF n =< Len(st) THEN Len(st) - n ELSE 0
      /\ \A i \in 1..(Len(st) - n) : d[i] = st[n + i]
  <2>1. st \in Seq(S)
    BY <1>1
  <2> QED BY ONLY <2>1, n \in Nat, DropLemma
<1> HIDE DEF d
<1>3. CASE n =< Len(s)
  <2> DEFINE u == Drop(s, n)
             v == u \o t
  <2>1. u \in Seq(S) /\ Len(u) = Len(s) - n /\ \A i \in 1..(Len(s) - n) : u[i] = s[n + i]
    BY <1>1, <1>3, DropLemma
  <2> HIDE DEF u
  <2>2. /\ v \in Seq(S) /\ Len(v) = Len(u) + Len(t)
        /\ \A i \in 1..(Len(u) + Len(t)) : v[i] = IF i =< Len(u) THEN u[i] ELSE t[i - Len(u)]
    BY <2>1, ConcatProperties
  <2> HIDE DEF v
  <2>3. Len(d) = Len(v) /\ Len(v) = Len(s) - n + Len(t)
    BY <1>1, <1>2, <1>3, <2>1, <2>2
  <2>4. ASSUME NEW i \in 1..Len(d)
        PROVE  d[i] = v[i]
    <3>1. i \in 1..(Len(st) - n) /\ n + i \in 1..(Len(s) + Len(t)) /\ i \in 1..(Len(u) + Len(t))
      BY <1>1, <1>2, <1>3, <2>1, <2>2, <2>3
    <3>2. d[i] = IF n + i =< Len(s) THEN s[n + i] ELSE t[n + i - Len(s)]
      <4>1. d[i] = st[n + i]
        BY <1>2, <3>1
      <4>2. st[n + i] = IF n + i =< Len(s) THEN s[n + i] ELSE t[n + i - Len(s)]
        BY <1>1, <3>1
      <4> QED BY <4>1, <4>2
    <3>3. CASE n + i =< Len(s)
      <4>1. i \in 1..(Len(s) - n) /\ i =< Len(u)
        BY <1>1, <2>1, <3>3
      <4> QED BY <2>1, <2>2, <3>1, <3>2, <3>3, <4>1
    <3>4. CASE ~(n + i =< Len(s))
      <4>1. ~(i =< Len(u)) /\ n + i - Len(s) = i - Len(u)
        BY <1>1, <2>1, <3>4
      <4> QED BY <2>2, <3>1, <3>2, <3>4, <4>1
    <3> QED BY <3>3, <3>4
  <2>5. d = v
    BY <1>2, <2>2, <2>3, <2>4, SeqEqual
  <2> QED BY <1>3, <2>5 DEF d, st, u, v
<1>4. CASE ~(n =< Len(s))
  <2>1. PICK m \in Nat : m = n - Len(s)
    <3>1. Len(s) \in Nat
      BY <1>1
    <3>2. n - Len(s) \in Nat
      BY <1>4, <3>1
    <3> QED BY <3>2
  <2> DEFINE v == Drop(t, m)
  <2>2. /\ v \in Seq(S) /\ Len(v) = IF m =< Len(t) THEN Len(t) - m ELSE 0
        /\ \A i \in 1..(Len(t) - m) : v[i] = t[m + i]
    BY DropLemma
  <2> HIDE DEF v
  <2>3. Len(d) = Len(v)
    BY <1>1, <1>2, <1>4, <2>1, <2>2
  <2>4. ASSUME NEW i \in 1..Len(d)
        PROVE  d[i] = v[i]
    <3>1. /\ i \in 1..(Len(st) - n) /\ n + i \in 1..(Len(s) + Len(t)) /\ ~(n + i =< Len(s))
          /\ i \in 1..(Len(t) - m) /\ n + i - Len(s) = m + i
      BY <1>1, <1>2, <1>4, <2>1, <2>2, <2>3
    <3>2. d[i] = t[n + i - Len(s)]
      BY <1>1, <1>2, <3>1
    <3> QED BY <2>2, <3>1, <3>2
  <2>5. d = v
    BY <1>2, <2>2, <2>3, <2>4, SeqEqual
  <2> QED BY <1>4, <2>1, <2>5 DEF d, st, v
<1> QED BY <1>3, <1>4

\* Taking twice is taking the sum.
LEMMA DropDrop ==
    ASSUME NEW S, NEW s \in Seq(S), NEW m \in Nat, NEW n \in Nat
    PROVE  Drop(Drop(s, m), n) = Drop(s, m + n)
<1> DEFINE d == Drop(s, m)
           e == Drop(d, n)
           f == Drop(s, m + n)
<1>1. Len(s) \in Nat /\ m + n \in Nat
  OBVIOUS
<1>2. /\ d \in Seq(S) /\ Len(d) = IF m =< Len(s) THEN Len(s) - m ELSE 0
      /\ \A i \in 1..(Len(s) - m) : d[i] = s[m + i]
  BY DropLemma
<1>3. /\ f \in Seq(S) /\ Len(f) = IF m + n =< Len(s) THEN Len(s) - (m + n) ELSE 0
      /\ \A i \in 1..(Len(s) - (m + n)) : f[i] = s[(m + n) + i]
  BY <1>1, DropLemma
<1> HIDE DEF d, f
<1>4. /\ e \in Seq(S) /\ Len(e) = IF n =< Len(d) THEN Len(d) - n ELSE 0
      /\ \A i \in 1..(Len(d) - n) : e[i] = d[n + i]
  BY <1>2, DropLemma
<1> HIDE DEF e
<1>5. Len(e) = Len(f)
  BY <1>1, <1>2, <1>3, <1>4
<1>6. ASSUME NEW i \in 1..Len(e)
      PROVE  e[i] = f[i]
  <2>1. /\ i \in 1..(Len(d) - n) /\ n + i \in 1..(Len(s) - m) /\ i \in 1..(Len(s) - (m + n))
        /\ m + (n + i) = (m + n) + i
    BY <1>1, <1>2, <1>3, <1>4, <1>5
  <2> QED BY <1>2, <1>3, <1>4, <2>1
<1>7. e = f
  BY <1>3, <1>4, <1>5, <1>6, SeqEqual
<1> QED BY <1>7 DEF d, e, f

\* What is taken and what is left are the whole.
LEMMA TakeDrop ==
    ASSUME NEW S, NEW s \in Seq(S), NEW n \in 0..Len(s)
    PROVE  /\ SubSeq(s, 1, n) \in Seq(S) /\ Len(SubSeq(s, 1, n)) = n
           /\ SubSeq(s, 1, n) \o Drop(s, n) = s
<1> DEFINE h == SubSeq(s, 1, n)
           d == Drop(s, n)
           w == h \o d
<1>1. /\ Len(s) \in Nat /\ n \in Nat /\ n =< Len(s) /\ \A i \in 1..n : s[i] \in S
  OBVIOUS
<1>2. h \in Seq(S) /\ Len(h) = n /\ \A i \in 1..n : h[i] = s[i]
  <2>1. /\ h \in Seq(S) /\ Len(h) = IF 1 =< n THEN n - 1 + 1 ELSE 0
        /\ \A i \in 1..(n - 1 + 1) : h[i] = s[1 + i - 1]
    BY <1>1, SubSeqProperties
  <2> QED BY <1>1, <2>1
<1>3. d \in Seq(S) /\ Len(d) = Len(s) - n /\ \A i \in 1..(Len(s) - n) : d[i] = s[n + i]
  BY <1>1, DropLemma
<1> HIDE DEF h, d
<1>4. /\ w \in Seq(S) /\ Len(w) = Len(h) + Len(d)
      /\ \A i \in 1..(Len(h) + Len(d)) : w[i] = IF i =< Len(h) THEN h[i] ELSE d[i - Len(h)]
  BY <1>2, <1>3, ConcatProperties
<1> HIDE DEF w
<1>5. Len(w) = Len(s)
  BY <1>1, <1>2, <1>3, <1>4
<1>6. ASSUME NEW i \in 1..Len(w)
      PROVE  w[i] = s[i]
  <2>1. CASE i =< n
    <3>1. i \in 1..n /\ i \in 1..(Len(h) + Len(d)) /\ i =< Len(h)
      BY <1>1, <1>2, <1>3, <1>4, <2>1
    <3> QED BY <1>2, <1>4, <3>1
  <2>2. CASE ~(i =< n)
    <3>1. /\ i \in 1..(Len(h) + Len(d)) /\ ~(i =< Len(h)) /\ i - Len(h) \in 1..(Len(s) - n)
          /\ n + (i - Len(h)) = i
      BY <1>1, <1>2, <1>3, <1>4, <1>5, <2>2
    <3> QED BY <1>3, <1>4, <3>1
  <2> QED BY <2>1, <2>2
<1>7. w = s
  BY <1>4, <1>5, <1>6, SeqEqual
<1> QED BY <1>2, <1>7 DEF h, d, w

-----------------------------------------------------------------------------
(***************************************************************************)
(* Readers, of any heads hs in front of any bytes bs.                      *)
(***************************************************************************)

\* What holds at k and below whatever it holds at, holds down to 0.
LEMMA Downward ==
    ASSUME NEW k \in Nat, NEW T, k \in T, \A i \in 1..k : i \in T => i - 1 \in T
    PROVE  \A i \in 0..k : i \in T
<1> DEFINE U == {j \in 0..k : k - j \notin T}
<1>1. SUFFICES ASSUME U # {} PROVE FALSE
  <2>1. ASSUME U = {}, NEW i \in 0..k
        PROVE  i \in T
    <3>1. k - i \in 0..k /\ k - (k - i) = i
      OBVIOUS
    <3>2. k - i \notin U
      BY <2>1
    <3> QED BY <3>1, <3>2
  <2> QED BY <2>1
<1>2. U \in SUBSET Nat
  OBVIOUS
<1>3. PICK j \in U : \A m \in U : j =< m
  <2> HIDE DEF U
  <2> QED BY <1>1, <1>2, Least
<1>4. j \in 0..k /\ k - j \notin T
  OBVIOUS
<1>5. j # 0
  BY <1>4
<1>6. j - 1 \in 0..k /\ ~(j =< j - 1) /\ k - (j - 1) \in 1..k /\ (k - (j - 1)) - 1 = k - j
  BY <1>4, <1>5
<1>7. j - 1 \notin U
  <2> HIDE DEF U
  <2> QED BY <1>3, <1>6
<1>8. k - (j - 1) \in T
  BY <1>6, <1>7
<1> QED BY <1>4, <1>6, <1>8

Downs(hs, k, i) == FlattenSeq([j \in 1..(k - i) |-> hs[k + 1 - j]])

\* What reader k yields.
Rest(hs, k, p, bs) == Downs(hs, k, 0) \o Drop(bs, p)

\* The heads after n bytes were read through reader k.
Reads(hs, k, n) ==
    [i \in DOMAIN hs |->
        IF i > k \/ n =< Len(Downs(hs, k, i)) THEN hs[i] ELSE Drop(hs[i], n - Len(Downs(hs, k, i)))]

LEMMA DownsLemma ==
    ASSUME NEW S, NEW hs \in Seq(Seq(S)), NEW k \in 0..Len(hs)
    PROVE  /\ Downs(hs, k, k) = <<>>
           /\ \A i \in 0..k : Downs(hs, k, i) \in Seq(S)
           /\ \A i \in 1..k : Downs(hs, k, i - 1) = Downs(hs, k, i) \o hs[i]
<1>0. k \in Nat /\ Len(hs) \in Nat /\ k =< Len(hs)
  OBVIOUS
<1> DEFINE row(i) == [j \in 1..(k - i) |-> hs[k + 1 - j]]
<1>1. ASSUME NEW i \in 0..k
      PROVE  row(i) \in Seq(Seq(S)) /\ Len(row(i)) = k - i
  <2>1. k - i \in Nat
    BY <1>0
  <2>2. ASSUME NEW j \in 1..(k - i)
        PROVE  hs[k + 1 - j] \in Seq(S)
    <3>1. k + 1 - j \in 1..Len(hs)
      BY <1>0
    <3> QED BY <3>1
  <2> QED BY <2>1, <2>2
<1>2. row(k) = <<>>
  <2>1. k - k = 0 /\ k \in 0..k
    BY <1>0
  <2>2. row(k) \in Seq(Seq(S)) /\ Len(row(k)) = 0
    BY <1>1, <2>1
  <2> QED BY <2>2
<1>3. ASSUME NEW i \in 1..k
      PROVE  row(i - 1) = Append(row(i), hs[i])
  <2>1. /\ i \in 0..k /\ i - 1 \in 0..k /\ k - (i - 1) = (k - i) + 1 /\ i \in 1..Len(hs)
        /\ k - i \in Nat
    BY <1>0
  <2>2. hs[i] \in Seq(S)
    BY <2>1
  <2> DEFINE a == row(i)
             b == row(i - 1)
             c == Append(a, hs[i])
  <2>3. /\ a \in Seq(Seq(S)) /\ Len(a) = k - i /\ \A j \in 1..(k - i) : a[j] = hs[k + 1 - j]
    BY <1>1, <2>1
  <2>4. /\ b \in Seq(Seq(S)) /\ Len(b) = (k - i) + 1
        /\ \A j \in 1..((k - i) + 1) : b[j] = hs[k + 1 - j]
    BY <1>1, <2>1
  <2> HIDE DEF a, b, row
  <2>5. /\ c \in Seq(Seq(S)) /\ Len(c) = (k - i) + 1 /\ c[(k - i) + 1] = hs[i]
        /\ \A j \in 1..(k - i) : c[j] = a[j]
    BY <2>2, <2>3, Appends
  <2> HIDE DEF c
  <2>6. ASSUME NEW j \in 1..Len(b)
        PROVE  b[j] = c[j]
    <3>1. CASE j = (k - i) + 1
      <4>1. k + 1 - j = i
        BY <1>0, <3>1
      <4> QED BY <2>4, <2>5, <3>1, <4>1
    <3>2. CASE j # (k - i) + 1
      <4>1. j \in 1..(k - i)
        BY <2>1, <2>4, <3>2
      <4> QED BY <2>3, <2>4, <2>5, <4>1
    <3> QED BY <3>1, <3>2
  <2>7. b = c
    BY <2>4, <2>5, <2>6, SeqEqual
  <2> QED BY <2>7 DEF a, b, c
<1>4. \A i \in 0..k : Downs(hs, k, i) = FlattenSeq(row(i))
  BY DEF Downs
<1> HIDE DEF row
<1>5. Downs(hs, k, k) = <<>>
  BY <1>0, <1>2, <1>4, FlattenEmpty
<1>6. ASSUME NEW i \in 0..k
      PROVE  Downs(hs, k, i) \in Seq(S)
  BY <1>1, <1>4, FlattenType
<1>7. ASSUME NEW i \in 1..k
      PROVE  Downs(hs, k, i - 1) = Downs(hs, k, i) \o hs[i]
  <2>1. i \in 0..k /\ i - 1 \in 0..k /\ i \in 1..Len(hs)
    BY <1>0
  <2>2. hs[i] \in Seq(S) /\ row(i) \in Seq(Seq(S))
    BY <1>1, <2>1
  <2>3. FlattenSeq(Append(row(i), hs[i])) = FlattenSeq(row(i)) \o hs[i]
    BY <2>2, FlattenAppend
  <2> QED BY <1>3, <1>4, <2>1, <2>3
<1> QED BY <1>5, <1>6, <1>7

\* Only the heads from k down matter.
LEMMA DownsAgree ==
    ASSUME NEW hs, NEW gs, NEW k \in Nat, \A i \in 1..k : hs[i] = gs[i]
    PROVE  Downs(hs, k, 0) = Downs(gs, k, 0)
<1>1. \A j \in 1..(k - 0) : k + 1 - j \in 1..k
  OBVIOUS
<1>2. [j \in 1..(k - 0) |-> hs[k + 1 - j]] = [j \in 1..(k - 0) |-> gs[k + 1 - j]]
  BY <1>1
<1> QED BY <1>2 DEF Downs

\* A reader with a head of its own yields that head first.
LEMMA RestPut ==
    ASSUME NEW S, NEW hs \in Seq(Seq(S)), NEW x \in Seq(S), NEW p \in Nat, NEW bs \in Seq(S)
    PROVE  Rest(Append(hs, x), Len(hs) + 1, p, bs) = x \o Rest(hs, Len(hs), p, bs)
<1> DEFINE l  == Len(hs)
           gs == Append(hs, x)
           T  == {i \in 0..l : Downs(gs, l + 1, i) = x \o Downs(hs, l, i)}
<1>1. /\ l \in Nat /\ l \in 0..l /\ gs \in Seq(Seq(S)) /\ Len(gs) = l + 1 /\ gs[l + 1] = x
      /\ \A i \in 1..l : gs[i] = hs[i]
  BY Appends
<1> HIDE DEF gs, l
<1>2. l + 1 \in 0..Len(gs) /\ l \in 0..Len(hs) /\ l + 1 \in 1..(l + 1) /\ (l + 1) - 1 = l
  BY <1>1 DEF l
<1>3. /\ Downs(hs, l, l) = <<>> /\ \A i \in 0..l : Downs(hs, l, i) \in Seq(S)
      /\ \A i \in 1..l : Downs(hs, l, i - 1) = Downs(hs, l, i) \o hs[i]
  BY <1>2, DownsLemma
<1>4. /\ Downs(gs, l + 1, l + 1) = <<>>
      /\ \A i \in 1..(l + 1) : Downs(gs, l + 1, i - 1) = Downs(gs, l + 1, i) \o gs[i]
  BY <1>1, <1>2, DownsLemma
<1>5. l \in T
  <2>1. Downs(gs, l + 1, l) = <<>> \o x
    BY <1>1, <1>2, <1>4
  <2>2. <<>> \o x = x /\ x \o <<>> = x
    BY ConcatEmptySeq
  <2> QED BY <1>1, <1>3, <2>1, <2>2
<1>6. ASSUME NEW i \in 1..l, i \in T
      PROVE  i - 1 \in T
  <2>1. i \in 1..(l + 1) /\ i \in 0..l /\ i - 1 \in 0..l
    BY <1>1
  <2>2. Downs(gs, l + 1, i - 1) = (x \o Downs(hs, l, i)) \o hs[i]
    BY <1>1, <1>4, <1>6, <2>1
  <2>3. Downs(hs, l, i) \in Seq(S) /\ hs[i] \in Seq(S)
    BY <1>3, <2>1 DEF l
  <2>4. (x \o Downs(hs, l, i)) \o hs[i] = x \o (Downs(hs, l, i) \o hs[i])
    <3>1. PICK d \in Seq(S), h \in Seq(S) : d = Downs(hs, l, i) /\ h = hs[i]
      BY <2>3
    <3>2. (x \o d) \o h = x \o (d \o h)
      BY ConcatAssociative, SMTT(30)
    <3> QED BY <3>1, <3>2
  <2> QED BY <1>3, <2>1, <2>2, <2>4
<1>7. \A i \in 0..l : i \in T
  <2> HIDE DEF T
  <2> QED BY <1>1, <1>5, <1>6, Downward
<1>8. Downs(gs, l + 1, 0) = x \o Downs(hs, l, 0) /\ Downs(hs, l, 0) \in Seq(S)
  <2>1. 0 \in 0..l
    BY <1>1
  <2> QED BY <1>3, <1>7, <2>1
<1>9. Drop(bs, p) \in Seq(S)
  BY DropLemma
<1>10. (x \o Downs(hs, l, 0)) \o Drop(bs, p) = x \o (Downs(hs, l, 0) \o Drop(bs, p))
  BY <1>8, <1>9, ConcatAssociative, SMTT(30)
<1> QED BY <1>8, <1>10 DEF Rest, gs, l

\* Reading n bytes through reader k takes them from what it yields.
LEMMA ReadsLemma ==
    ASSUME NEW S, NEW hs \in Seq(Seq(S)), NEW k \in 0..Len(hs), NEW n \in Nat
    PROVE  /\ Reads(hs, k, n) \in Seq(Seq(S)) /\ Len(Reads(hs, k, n)) = Len(hs)
           /\ Downs(Reads(hs, k, n), k, 0) = Drop(Downs(hs, k, 0), n)
<1> DEFINE gs == Reads(hs, k, n)
<1>1. /\ k \in Nat /\ Len(hs) \in Nat /\ k =< Len(hs) /\ DOMAIN hs = 1..Len(hs)
      /\ \A i \in 1..Len(hs) : hs[i] \in Seq(S)
  OBVIOUS
<1>2. /\ Downs(hs, k, k) = <<>> /\ \A i \in 0..k : Downs(hs, k, i) \in Seq(S)
      /\ \A i \in 1..k : Downs(hs, k, i - 1) = Downs(hs, k, i) \o hs[i]
  BY DownsLemma
<1>3. ASSUME NEW i \in 1..Len(hs)
      PROVE  /\ gs[i] = IF i > k \/ n =< Len(Downs(hs, k, i)) THEN hs[i]
                        ELSE Drop(hs[i], n - Len(Downs(hs, k, i)))
             /\ gs[i] \in Seq(S)
  <2>1. gs[i] = IF i > k \/ n =< Len(Downs(hs, k, i)) THEN hs[i]
                ELSE Drop(hs[i], n - Len(Downs(hs, k, i)))
    BY <1>1 DEF Reads
  <2>2. CASE i > k \/ n =< Len(Downs(hs, k, i))
    BY <1>1, <2>1, <2>2
  <2>3. CASE ~(i > k \/ n =< Len(Downs(hs, k, i)))
    <3>1. i \in 0..k
      BY <1>1, <2>3
    <3>2. Len(Downs(hs, k, i)) \in Nat
      BY <1>2, <3>1
    <3>3. n - Len(Downs(hs, k, i)) \in Nat
      BY <2>3, <3>2
    <3>4. Drop(hs[i], n - Len(Downs(hs, k, i))) \in Seq(S)
      BY <1>1, <3>3, DropLemma
    <3> QED BY <2>1, <2>3, <3>4
  <2> QED BY <2>1, <2>2, <2>3
<1>4. gs \in Seq(Seq(S)) /\ Len(gs) = Len(hs)
  <2>1. DOMAIN gs = 1..Len(hs)
    BY <1>1 DEF Reads
  <2>2. gs = [i \in 1..Len(hs) |-> gs[i]]
    BY <1>1 DEF Reads
  <2> HIDE DEF gs
  <2>3. gs \in [1..Len(hs) -> Seq(S)]
    BY <1>3, <2>2
  <2>4. gs \in Seq(Seq(S))
    <3>1. gs \in UNION {[1..m -> Seq(S)] : m \in Nat}
      BY <1>1, <2>3, Zenon
    <3>2. Seq(Seq(S)) = UNION {[1..m -> Seq(S)] : m \in Nat}
      BY SeqDef, Zenon
    <3> QED BY <3>1, <3>2, Zenon
  <2>5. Len(gs) = Len(hs)
    <3>1. DOMAIN gs = 1..Len(gs) /\ Len(gs) \in Nat
      BY <2>4, LenProperties
    <3>2. PICK a \in Nat, b \in Nat : a = Len(gs) /\ b = Len(hs) /\ 1..a = 1..b
      BY <1>1, <2>1, <3>1
    <3>3. a \in 1..a \/ a = 0
      OBVIOUS
    <3>4. b \in 1..b \/ b = 0
      OBVIOUS
    <3> QED BY <3>2, <3>3, <3>4
  <2> QED BY <2>4, <2>5
<1> HIDE DEF gs
<1>5. k \in 0..Len(gs)
  BY <1>4
<1>6. /\ Downs(gs, k, k) = <<>>
      /\ \A i \in 1..k : Downs(gs, k, i - 1) = Downs(gs, k, i) \o gs[i]
  BY <1>4, <1>5, DownsLemma
<1> DEFINE T == {i \in 0..k : Downs(gs, k, i) = Drop(Downs(hs, k, i), n)}
<1>7. k \in T
  <2>1. <<>> \in Seq(S) /\ Len(<<>>) = 0
    OBVIOUS
  <2>2. Drop(<<>>, n) = <<>>
    BY <2>1, DropLemma
  <2>3. k \in 0..k
    BY <1>1
  <2> QED BY <1>2, <1>6, <2>2, <2>3
<1>8. ASSUME NEW i \in 1..k, i \in T
      PROVE  i - 1 \in T
  <2> DEFINE d == Downs(hs, k, i)
  <2>1. i \in 0..k /\ i - 1 \in 0..k /\ i \in 1..Len(hs) /\ ~(i > k)
    BY <1>1
  <2>2. d \in Seq(S) /\ hs[i] \in Seq(S) /\ Len(d) \in Nat
    BY <1>1, <1>2, <2>1
  <2>3. /\ Downs(gs, k, i - 1) = Drop(d, n) \o gs[i] /\ Downs(hs, k, i - 1) = d \o hs[i]
        /\ gs[i] = IF n =< Len(d) THEN hs[i] ELSE Drop(hs[i], n - Len(d))
        /\ gs[i] \in Seq(S)
    BY <1>2, <1>3, <1>6, <1>8, <2>1
  <2> HIDE DEF d
  <2>4. Drop(d \o hs[i], n) = IF n =< Len(d) THEN Drop(d, n) \o hs[i] ELSE Drop(hs[i], n - Len(d))
    BY <2>2, DropConcat
  <2>5. CASE n =< Len(d)
    BY <2>1, <2>3, <2>4, <2>5
  <2>6. CASE ~(n =< Len(d))
    <3>1. Drop(d, n) = <<>>
      BY <2>2, <2>6, DropLemma
    <3>2. <<>> \o gs[i] = gs[i]
      BY <2>3, ConcatEmptySeq
    <3> QED BY <2>1, <2>3, <2>4, <2>6, <3>1, <3>2
  <2> QED BY <2>5, <2>6
<1>9. \A i \in 0..k : i \in T
  <2> HIDE DEF T
  <2> QED BY <1>1, <1>7, <1>8, Downward
<1>10. Downs(gs, k, 0) = Drop(Downs(hs, k, 0), n)
  <2>1. 0 \in 0..k
    BY <1>1
  <2> QED BY <1>9, <2>1
<1> QED BY <1>4, <1>10 DEF gs

LEMMA RestRead ==
    ASSUME NEW S, NEW hs \in Seq(Seq(S)), NEW k \in 0..Len(hs), NEW bs \in Seq(S),
           NEW p \in 0..Len(bs), NEW n \in 0..Len(Rest(hs, k, p, bs)), NEW q,
           q = IF n > Len(Downs(hs, k, 0)) THEN p + n - Len(Downs(hs, k, 0)) ELSE p
    PROVE  /\ q \in 0..Len(bs)
           /\ Rest(Reads(hs, k, n), k, q, bs) = Drop(Rest(hs, k, p, bs), n)
<1> DEFINE d == Downs(hs, k, 0)
           e == Drop(bs, p)
<1>1. p \in Nat /\ Len(bs) \in Nat /\ p =< Len(bs) /\ k \in Nat /\ 0 \in 0..k
  OBVIOUS
<1>2. d \in Seq(S) /\ Len(d) \in Nat
  <2>1. d \in Seq(S)
    BY <1>1, DownsLemma
  <2> QED BY <2>1
<1>3. e \in Seq(S) /\ Len(e) = Len(bs) - p
  BY <1>1, DropLemma
<1>4. Rest(hs, k, p, bs) = d \o e
  BY DEF Rest
<1> HIDE DEF d, e
<1>5. Len(d \o e) = Len(d) + Len(e)
  BY <1>2, <1>3, ConcatProperties
<1>6. n \in Nat /\ n =< Len(d) + (Len(bs) - p)
  BY <1>1, <1>2, <1>3, <1>4, <1>5
<1>7. q = IF n > Len(d) THEN p + n - Len(d) ELSE p
  BY DEF d
<1>8. q \in 0..Len(bs)
  BY <1>1, <1>2, <1>6, <1>7
<1>9. Drop(d \o e, n) = IF n =< Len(d) THEN Drop(d, n) \o e ELSE Drop(e, n - Len(d))
  BY <1>2, <1>3, <1>6, DropConcat
<1>10. Downs(Reads(hs, k, n), k, 0) = Drop(d, n)
  BY <1>6, ReadsLemma DEF d
<1>11. CASE n =< Len(d)
  <2>1. q = p
    BY <1>2, <1>6, <1>7, <1>11
  <2> QED BY <1>4, <1>8, <1>9, <1>10, <1>11, <2>1 DEF Rest, e
<1>12. CASE ~(n =< Len(d))
  <2>1. PICK m \in Nat : m = n - Len(d)
    <3>1. n - Len(d) \in Nat
      BY <1>2, <1>6, <1>12
    <3> QED BY <3>1
  <2>2. q = p + m
    <3>1. n \in Nat /\ Len(d) \in Nat /\ n > Len(d) /\ p \in Nat
      BY <1>1, <1>2, <1>6, <1>12
    <3>2. q = p + n - Len(d)
      BY <1>7, <3>1
    <3> QED BY <2>1, <3>1, <3>2
  <2>3. Drop(e, m) = Drop(bs, q)
    <3>1. p \in Nat
      OBVIOUS
    <3>2. Drop(Drop(bs, p), m) = Drop(bs, p + m)
      BY <3>1, DropDrop
    <3> QED BY <2>2, <3>2 DEF e
  <2>4. Drop(d, n) = <<>>
    BY <1>2, <1>6, <1>12, DropLemma
  <2>5. Drop(bs, q) \in Seq(S)
    <3>1. q \in Nat
      BY <1>8
    <3> QED BY <3>1, DropLemma
  <2>6. <<>> \o Drop(bs, q) = Drop(bs, q)
    BY <2>5, ConcatEmptySeq
  <2> QED BY <1>4, <1>8, <1>9, <1>10, <1>12, <2>1, <2>3, <2>4, <2>6 DEF Rest
<1> QED BY <1>11, <1>12

\* The same of a reader that may have let go of the payload, d readers having seen
\* the end.
Held(hs, k, p, bs, d) == Downs(hs, k, 0) \o (IF k = 0 \/ d = 0 THEN Drop(bs, p) ELSE <<>>)

LEMMA HeldIsRest ==
    ASSUME NEW hs, NEW k, NEW p, NEW bs, NEW d
    PROVE  /\ (k = 0 \/ d = 0) => Held(hs, k, p, bs, d) = Rest(hs, k, p, bs)
           /\ ~(k = 0 \/ d = 0) => Held(hs, k, p, bs, d) = Rest(hs, k, 0, <<>>)
<1>1. Drop(<<>>, 0) = <<>>
  <2>1. <<>> \in Seq(Nat) /\ 0 \in Nat
    OBVIOUS
  <2> QED BY <2>1, DropLemma
<1> QED BY <1>1 DEF Held, Rest

\* Without a payload below.
LEMMA RestPutAlone ==
    ASSUME NEW S, NEW hs \in Seq(Seq(S)), NEW x \in Seq(S)
    PROVE  Rest(Append(hs, x), Len(hs) + 1, 0, <<>>) = x \o Rest(hs, Len(hs), 0, <<>>)
<1>1. <<>> \in Seq(S) /\ 0 \in Nat
  OBVIOUS
<1>2. ASSUME NEW q \in Nat, NEW cs \in Seq(S)
      PROVE  Rest(Append(hs, x), Len(hs) + 1, q, cs) = x \o Rest(hs, Len(hs), q, cs)
  BY RestPut, Zenon
<1> QED BY <1>1, <1>2, Zenon

LEMMA HeldPut ==
    ASSUME NEW S, NEW hs \in Seq(Seq(S)), NEW x \in Seq(S), NEW p \in Nat, NEW bs \in Seq(S),
           NEW d \in 0..Len(hs)
    PROVE  Held(Append(hs, x), Len(hs) + 1, p, bs, d) = x \o Held(hs, Len(hs), p, bs, d)
<1>1. Len(hs) \in Nat /\ Len(hs) + 1 # 0 /\ d \in Nat /\ <<>> \in Seq(S) /\ 0 \in Nat
  OBVIOUS
<1>2. CASE d = 0
  <2>1. Rest(Append(hs, x), Len(hs) + 1, p, bs) = x \o Rest(hs, Len(hs), p, bs)
    BY RestPut, Zenon
  <2> QED BY <1>2, <2>1, HeldIsRest, Zenon
<1>3. CASE d # 0
  <2>1. ~(Len(hs) = 0 \/ d = 0) /\ ~(Len(hs) + 1 = 0 \/ d = 0)
    BY <1>1, <1>3
  <2>2. Rest(Append(hs, x), Len(hs) + 1, 0, <<>>) = x \o Rest(hs, Len(hs), 0, <<>>)
    BY RestPutAlone, Zenon
  <2> QED BY <2>1, <2>2, HeldIsRest, Zenon
<1> QED BY <1>2, <1>3

\* What is read comes off the front, and who sees the end has read it all.
LEMMA HeldRead ==
    ASSUME NEW S, NEW hs \in Seq(Seq(S)), NEW k \in 0..Len(hs), NEW bs \in Seq(S),
           NEW p \in 0..Len(bs), NEW d \in Nat, NEW e \in Nat,
           NEW n \in 0..Len(Held(hs, k, p, bs, d)),
           e = d \/ (d =< e /\ n = Len(Held(hs, k, p, bs, d))),
           NEW q, q = IF n > Len(Downs(hs, k, 0)) THEN p + n - Len(Downs(hs, k, 0)) ELSE p
    PROVE  /\ q \in 0..Len(bs)
           /\ Held(Reads(hs, k, n), k, q, bs, e) = Drop(Held(hs, k, p, bs, d), n)
<1> DEFINE gs == Reads(hs, k, n)
<1>1. k \in Nat /\ p \in Nat /\ Downs(hs, k, 0) \in Seq(S) /\ Len(bs) \in Nat
  <2>1. k \in Nat /\ 0 \in 0..k
    OBVIOUS
  <2> QED BY <2>1, DownsLemma
<1>2. CASE k = 0 \/ d = 0
  <2>1. Held(hs, k, p, bs, d) = Rest(hs, k, p, bs)
    BY <1>2, HeldIsRest
  <2>2. n \in 0..Len(Rest(hs, k, p, bs))
    BY <2>1
  <2>3. q \in 0..Len(bs) /\ Rest(gs, k, q, bs) = Drop(Rest(hs, k, p, bs), n)
    BY <2>2, RestRead
  <2> HIDE DEF gs
  <2>4. CASE k = 0 \/ e = 0
    <3>1. Held(gs, k, q, bs, e) = Rest(gs, k, q, bs)
      BY <2>4, HeldIsRest
    <3> QED BY <2>1, <2>3, <3>1 DEF gs
  <2>5. CASE ~(k = 0 \/ e = 0)
    <3>1. n = Len(Rest(hs, k, p, bs))
      BY <1>2, <2>1, <2>5
    <3>2. Rest(hs, k, p, bs) \in Seq(S)
      <4>1. Drop(bs, p) \in Seq(S)
        BY <1>1, DropLemma
      <4> QED BY <1>1, <4>1, ConcatProperties DEF Rest
    <3>3. Drop(Rest(hs, k, p, bs), n) = <<>>
      <4> DEFINE r == Rest(hs, k, p, bs)
      <4>1. r \in Seq(S) /\ n = Len(r) /\ n \in Nat /\ n >= Len(r)
        <5>1. r \in Seq(S) /\ n = Len(r)
          BY <3>1, <3>2
        <5> HIDE DEF r
        <5> QED BY <5>1
      <4> HIDE DEF r
      <4>2. Drop(r, n) = <<>>
        BY <4>1, DropLemma
      <4> QED BY <4>2 DEF r
    <3>4. Rest(gs, k, q, bs) = <<>>
      BY <2>3, <3>3
    <3>5. Downs(gs, k, 0) = <<>>
      <4>1. n \in Nat
        BY <3>1, <3>2
      <4>2. gs \in Seq(Seq(S)) /\ Len(gs) = Len(hs)
        BY <4>1, ReadsLemma DEF gs
      <4>3. Downs(gs, k, 0) \in Seq(S)
        <5>1. k \in 0..Len(gs) /\ 0 \in 0..k
          BY <1>1, <4>2
        <5> QED BY <4>2, <5>1, DownsLemma
      <4>4. Drop(bs, q) \in Seq(S)
        <5>1. q \in Nat
          BY <1>1, <2>3
        <5> QED BY <5>1, DropLemma
      <4>5. PICK a \in Seq(S), b \in Seq(S) : a = Downs(gs, k, 0) /\ b = Drop(bs, q)
        BY <4>3, <4>4
      <4>6. Len(a \o b) = Len(a) + Len(b) /\ a \o b = <<>>
        BY <3>4, <4>5, ConcatProperties DEF Rest
      <4>7. Len(a) \in Nat /\ Len(b) \in Nat /\ Len(a \o b) = 0
        BY <4>6
      <4>8. Len(a) = 0
        BY <4>6, <4>7
      <4> QED BY <4>5, <4>8
    <3>6. <<>> \o <<>> = <<>>
      OBVIOUS
    <3>7. Held(gs, k, q, bs, e) = <<>>
      BY <2>5, <3>5, <3>6 DEF Held
    <3> QED BY <2>1, <2>3, <3>3, <3>7 DEF gs
  <2> QED BY <2>4, <2>5
<1>3. CASE ~(k = 0 \/ d = 0)
  <2>1. ~(k = 0 \/ e = 0)
    BY <1>3
  <2>2. Held(hs, k, p, bs, d) = Rest(hs, k, 0, <<>>) /\ Held(gs, k, q, bs, e) = Rest(gs, k, 0, <<>>)
    BY <1>3, <2>1, HeldIsRest, Zenon
  <2>3. Rest(hs, k, 0, <<>>) = Downs(hs, k, 0)
    <3>1. Downs(hs, k, 0) \o <<>> = Downs(hs, k, 0)
      BY <1>1, ConcatEmptySeq
    <3> QED BY <1>3, <2>2, <3>1 DEF Held
  <2>4. n \in 0..Len(Downs(hs, k, 0))
    BY <2>2, <2>3
  <2>5. ~(n > Len(Downs(hs, k, 0)))
    <3>1. Len(Downs(hs, k, 0)) \in Nat
      BY <1>1
    <3> QED BY <2>4, <3>1
  <2>6. q = p
    BY <2>5
  <2> DEFINE no == <<>>
             z  == 0
  <2>7. no \in Seq(S) /\ z \in 0..Len(no) /\ n \in 0..Len(Rest(hs, k, z, no))
    <3>1. <<>> \in Seq(S) /\ 0 \in 0..Len(<<>>)
      OBVIOUS
    <3> QED BY <2>3, <2>4, <3>1
  <2>8. z = IF n > Len(Downs(hs, k, 0)) THEN z + n - Len(Downs(hs, k, 0)) ELSE z
    BY <2>5
  <2> HIDE DEF no, z
  <2>9. Rest(Reads(hs, k, n), k, z, no) = Drop(Rest(hs, k, z, no), n)
    BY <2>7, <2>8, RestRead
  <2> QED BY <2>2, <2>6, <2>9 DEF no, z
<1> QED BY <1>2, <1>3

-----------------------------------------------------------------------------
(***************************************************************************)
(* The inductive invariant.                                                *)
(***************************************************************************)
Outcomes == {"none", "failed", "answered"}
LineType == [by : Nat, what : {"out", "failed", "received"}, body : Seq(Nat)]
BodyType == [kind : Kinds, reader : Nat]

Types ==
    /\ stack \in Stacks /\ payload \in Payloads /\ declared \in BOOLEAN
    /\ mode \in {"ready", "down", "up"} /\ at \in 0..Len(stack) /\ attempt \in Nat
    /\ pos \in 0..payload.bytes /\ heads \in Seq(Seq(Nat)) /\ drained \in Nat
    /\ body \in [0..Len(stack) -> BodyType] /\ obj \in 0..Len(stack)
    /\ given \in Seq(Nat) /\ outcome \in Outcomes /\ lines \in Seq(LineType)

\* A body is of the client's kind, unless a logger replaced its NoBody; only
\* readers are put in front of others.
OfKind(b) ==
    /\ \/ b.kind = payload.kind
       \/ payload.kind = "NoBody" /\ LogLayers # {} /\ b.kind = "reader"
    /\ b.kind # "reader" => b.reader = 0

\* The request at hand has the newest reader; the client's own has one that is
\* still there.
Readers ==
    /\ body[Own].reader =< Len(heads) /\ OfKind(body[Own]) /\ OfKind(body[obj])
    /\ mode # "ready" => body[obj].reader = Len(heads)
    /\ drained =< Len(heads)
    /\ attempt = 0 => mode = "ready" /\ outcome = "none" /\ heads = <<>> /\ pos = 0

\* What the client's request yields is its payload, or a logger changed it.
Excused ==
    attempt > 0 => \/ given = Bytes
                   \/ /\ resend = "seek" /\ attempt > 1 /\ body[Own].reader > 0
                      /\ drained > 0 \/ \E n \in 0..Len(given) : Drop(given, n) = Bytes

\* View of a body.
ViewOf(b, hs, p, bs, d) == IF b.kind = "reader" THEN Held(hs, b.reader, p, bs, d) ELSE <<>>

\* On its way down the newest reader yields what the client's request did; what
\* WireAsGiven says on the way up.
Whole ==
    /\ mode = "down" => Held(heads, Len(heads), pos, Bytes, drained) = given
    /\ mode = "up" =>
         /\ IsPrefix(onwire.bytes, given)
         /\ ViewOf(body[obj], heads, pos, Bytes, drained) = <<>> =>
              onwire.bytes = SubSeq(given, 1, Fits(Len(given)))
         /\ \/ onwire.framing = Framing(payload.kind)
            \/ payload.kind = "NoBody" /\ LogLayers # {} /\ onwire.framing = "chunked"

\* What LoggerTransport says of what is sent.
Told(l, bs) ==
    /\ l.what = "out"
    /\ l.body = SubSeq(bs, 1, IF Len(bs) < Limit THEN Len(bs) ELSE Limit)

\* Transport i has said what it sends, and only transports inside it since.
Pending(ls, i, bs) ==
    \E m \in DOMAIN ls :
        /\ Told(ls[m], bs)
        /\ {x \in DOMAIN ls : ls[x].by = i} = {m}
        /\ {x \in DOMAIN ls : ls[x].by > i} = (m + 1)..Len(ls)

\* It has said both, and those inside it everything in between.
Done(ls, i, bs, result) ==
    \E m \in DOMAIN ls, n \in DOMAIN ls :
        /\ Told(ls[m], bs)
        /\ ls[n].what = IF result = "failed" THEN "failed" ELSE "received"
        /\ {x \in DOMAIN ls : ls[x].by = i} = {m, n}
        /\ {x \in DOMAIN ls : ls[x].by > i} = (m + 1)..(n - 1)

Logged ==
    /\ mode = "down" => \A x \in DOMAIN lines : lines[x].by =< at
    /\ mode # "ready" => \A i \in LogLayers : i =< at => Pending(lines, i, given)
    /\ mode = "up" => \A i \in LogLayers : i > at => Done(lines, i, given, outcome)
    /\ (mode = "ready" /\ attempt > 0) =>
          \A i \in LogLayers : Done(lines, i, given, outcome)

IInv == Types /\ Readers /\ Excused /\ Whole /\ Logged

LEMMA ConfigLemma ==
    ASSUME Types
    PROVE  /\ Len(stack) \in Nat /\ DOMAIN stack = 1..Len(stack) /\ LogLayers \subseteq 1..Len(stack)
           /\ payload.bytes \in Nat /\ payload.kind \in Kinds
           /\ Bytes \in Seq(Nat) /\ Len(Bytes) = payload.bytes
           /\ payload.kind # "reader" => Bytes = <<>>
           /\ Limit \in Nat
<1>1. stack \in Seq({"log", "clone"})
  BY StacksAssumption DEF Types
<1>2. Len(stack) \in Nat /\ DOMAIN stack = 1..Len(stack)
  BY <1>1
<1>3. payload \in [kind : Kinds, bytes : Nat] /\ (payload.kind # "reader" => payload.bytes = 0)
  BY PayloadsAssumption DEF Types
<1>4. Bytes \in Seq(Nat) /\ Len(Bytes) = payload.bytes
  BY <1>3 DEF Bytes
<1>5. payload.kind # "reader" => Bytes = <<>>
  BY <1>3, <1>4
<1> QED BY <1>2, <1>3, <1>4, <1>5, BoundsAssumption DEF LogLayers

LEMMA HeldType ==
    ASSUME Types, NEW k \in 0..Len(heads)
    PROVE  Held(heads, k, pos, Bytes, drained) \in Seq(Nat)
<1>1. heads \in Seq(Seq(Nat)) /\ Bytes \in Seq(Nat) /\ pos \in Nat
  BY ConfigLemma DEF Types
<1>2. k \in Nat /\ 0 \in 0..k
  BY <1>1
<1>3. Downs(heads, k, 0) \in Seq(Nat)
  BY <1>1, <1>2, DownsLemma
<1>4. Drop(Bytes, pos) \in Seq(Nat) /\ <<>> \in Seq(Nat)
  BY <1>1, DropLemma
<1> QED BY <1>3, <1>4, ConcatProperties DEF Held

\* What the model says of readers is what the lemmas say of them.
LEMMA ReadLemma ==
    ASSUME Types, NEW k \in 0..Len(heads), NEW n \in Nat, NEW e \in Nat,
           n =< Len(Held(heads, k, pos, Bytes, drained)),
           e = drained \/ (drained =< e /\ n = Len(Held(heads, k, pos, Bytes, drained)))
    PROVE  /\ HeadsAfter(k, n) \in Seq(Seq(Nat)) /\ Len(HeadsAfter(k, n)) = Len(heads)
           /\ PosAfter(k, n) \in 0..payload.bytes
           /\ Held(HeadsAfter(k, n), k, PosAfter(k, n), Bytes, e)
                = Drop(Held(heads, k, pos, Bytes, drained), n)
<1>1. /\ heads \in Seq(Seq(Nat)) /\ Bytes \in Seq(Nat) /\ Len(Bytes) = payload.bytes
      /\ pos \in 0..Len(Bytes) /\ pos \in Nat /\ drained \in Nat
  <2>1. heads \in Seq(Seq(Nat)) /\ pos \in 0..payload.bytes /\ drained \in Nat
    BY DEF Types
  <2>2. Bytes \in Seq(Nat) /\ Len(Bytes) = payload.bytes /\ payload.bytes \in Nat
    BY ConfigLemma
  <2>3. pos \in Nat
    BY <2>1, <2>2
  <2> QED BY <2>1, <2>2, <2>3
<1>2. HeadsAfter(k, n) = Reads(heads, k, n)
  BY Zenon DEF HeadsAfter, Reads, HeadsDown, Downs
<1>3. PosAfter(k, n) = IF n > Len(Downs(heads, k, 0)) THEN pos + n - Len(Downs(heads, k, 0)) ELSE pos
  BY Zenon DEF PosAfter, HeadsDown, Downs
<1>4. Held(heads, k, pos, Bytes, drained) \in Seq(Nat)
  BY HeldType
<1>5. n \in 0..Len(Held(heads, k, pos, Bytes, drained))
  BY <1>4
<1>6. PICK q : q = PosAfter(k, n)
  OBVIOUS
<1>7. q = IF n > Len(Downs(heads, k, 0)) THEN pos + n - Len(Downs(heads, k, 0)) ELSE pos
  BY <1>3, <1>6
<1>8. /\ q \in 0..Len(Bytes)
      /\ Held(Reads(heads, k, n), k, q, Bytes, e) = Drop(Held(heads, k, pos, Bytes, drained), n)
  <2>1. k \in 0..Len(heads) /\ e \in Nat
        /\ (e = drained \/ (drained =< e /\ n = Len(Held(heads, k, pos, Bytes, drained))))
    OBVIOUS
  <2> QED BY ONLY <1>1, <1>5, <1>7, <2>1, HeldRead, SMTT(30)
<1>9. Reads(heads, k, n) \in Seq(Seq(Nat)) /\ Len(Reads(heads, k, n)) = Len(heads)
  BY <1>1, ReadsLemma
<1> QED BY <1>1, <1>2, <1>6, <1>8, <1>9

\* Who sees the end of a body has read it all.
LEMMA DrainedLemma ==
    ASSUME Types, Readers, NEW k \in 0..Len(heads), NEW eof \in BOOLEAN
    PROVE  /\ DrainedAfter(k, eof) \in Nat /\ DrainedAfter(k, eof) =< Len(heads)
           /\ drained =< DrainedAfter(k, eof)
           /\ ~eof \/ k = 0 => DrainedAfter(k, eof) = drained
<1>1. drained \in Nat /\ drained =< Len(heads) /\ Len(heads) \in Nat
  BY DEF Types, Readers
<1> QED BY <1>1 DEF DrainedAfter

LEMMA ViewLemma ==
    ASSUME Types, Readers, Whole
    PROVE  /\ \A o \in 0..Len(stack) : View(o) = ViewOf(body[o], heads, pos, Bytes, drained)
           /\ mode = "down" => View(obj) = given
<1>1. ASSUME NEW o \in 0..Len(stack)
      PROVE  View(o) = ViewOf(body[o], heads, pos, Bytes, drained)
  BY Zenon DEF View, Yields, Payload, ViewOf, Held, HeadsDown, Downs
<1>2. ASSUME mode = "down"
      PROVE  View(obj) = given
  <2>1. obj \in 0..Len(stack) /\ heads \in Seq(Seq(Nat)) /\ pos \in Nat
    BY ConfigLemma DEF Types
  <2>2. body[obj].reader = Len(heads) /\ OfKind(body[obj])
    BY <1>2 DEF Readers
  <2>3. Held(heads, Len(heads), pos, Bytes, drained) = given
    BY <1>2 DEF Whole
  <2>4. View(obj) = IF body[obj].kind = "reader" THEN given ELSE <<>>
    BY <1>1, <2>1, <2>2, <2>3 DEF ViewOf
  <2>5. ASSUME body[obj].kind # "reader"
        PROVE  given = <<>>
    <3>1. Bytes = <<>> /\ Len(heads) = 0
      BY <2>2, <2>5, ConfigLemma DEF OfKind
    <3>2. given = Downs(heads, 0, 0) \o Drop(Bytes, pos)
      BY <2>3, <3>1 DEF Held
    <3>3. Downs(heads, 0, 0) = <<>>
      <4>1. 0 \in 0..Len(heads)
        BY <3>1
      <4> QED BY <2>1, <4>1, DownsLemma
    <3>4. Drop(<<>>, pos) = <<>>
      <4>1. <<>> \in Seq(Nat) /\ Len(<<>>) = 0
        OBVIOUS
      <4>2. pos >= Len(<<>>)
        BY <2>1, <4>1
      <4> QED BY <2>1, <4>1, <4>2, DropLemma
    <3>5. <<>> \o <<>> = <<>>
      OBVIOUS
    <3> QED BY <3>1, <3>2, <3>3, <3>4, <3>5
  <2> QED BY <2>4, <2>5
<1> QED BY <1>1, <1>2

-----------------------------------------------------------------------------
(***************************************************************************)
(* A line more.                                                            *)
(***************************************************************************)

LEMMA BySets ==
    ASSUME NEW ls \in Seq(LineType), NEW l \in LineType, NEW i \in Nat, NEW ms, ms = Append(ls, l)
    PROVE  /\ Len(ls) \in Nat /\ DOMAIN ls = 1..Len(ls) /\ ms \in Seq(LineType)
           /\ Len(ms) = Len(ls) + 1 /\ DOMAIN ms = 1..(Len(ls) + 1)
           /\ ms[Len(ls) + 1] = l /\ \A x \in 1..Len(ls) : ms[x] = ls[x]
           /\ {x \in DOMAIN ms : ms[x].by = i} =
                {x \in DOMAIN ls : ls[x].by = i} \cup (IF l.by = i THEN {Len(ls) + 1} ELSE {})
           /\ {x \in DOMAIN ms : ms[x].by > i} =
                {x \in DOMAIN ls : ls[x].by > i} \cup (IF l.by > i THEN {Len(ls) + 1} ELSE {})
<1>1. /\ Len(ls) \in Nat /\ DOMAIN ls = 1..Len(ls) /\ ms \in Seq(LineType) /\ Len(ms) = Len(ls) + 1
      /\ ms[Len(ls) + 1] = l /\ \A x \in 1..Len(ls) : ms[x] = ls[x]
  BY Appends
<1>2. DOMAIN ms = 1..(Len(ls) + 1)
  BY <1>1
<1>3. \A x \in DOMAIN ms : x \in DOMAIN ls \/ x = Len(ls) + 1
  BY <1>1, <1>2
<1>4. DOMAIN ls \subseteq DOMAIN ms /\ Len(ls) + 1 \in DOMAIN ms
  BY <1>1, <1>2
<1>5. \A x \in DOMAIN ls : ms[x] = ls[x]
  BY <1>1
<1>6. {x \in DOMAIN ms : ms[x].by = i} =
        {x \in DOMAIN ls : ls[x].by = i} \cup (IF l.by = i THEN {Len(ls) + 1} ELSE {})
  BY <1>1, <1>3, <1>4, <1>5
<1>7. {x \in DOMAIN ms : ms[x].by > i} =
        {x \in DOMAIN ls : ls[x].by > i} \cup (IF l.by > i THEN {Len(ls) + 1} ELSE {})
  BY <1>1, <1>3, <1>4, <1>5
<1> QED BY <1>1, <1>2, <1>6, <1>7

LEMMA PendingNew ==
    ASSUME NEW ls \in Seq(LineType), NEW l \in LineType, NEW bs, NEW ms, ms = Append(ls, l),
           \A x \in DOMAIN ls : ls[x].by < l.by, Told(l, bs)
    PROVE  Pending(ms, l.by, bs)
<1> DEFINE i == l.by
           m == Len(ls) + 1
<1>1. i \in Nat /\ \A x \in DOMAIN ls : ls[x].by \in Nat
  <2>1. \A x \in DOMAIN ls : ls[x] \in LineType
    OBVIOUS
  <2> QED BY <2>1 DEF LineType
<1>2. /\ Len(ls) \in Nat /\ Len(ms) = Len(ls) + 1 /\ DOMAIN ms = 1..(Len(ls) + 1) /\ ms[m] = l
      /\ {x \in DOMAIN ms : ms[x].by = i} =
           {x \in DOMAIN ls : ls[x].by = i} \cup (IF l.by = i THEN {Len(ls) + 1} ELSE {})
      /\ {x \in DOMAIN ms : ms[x].by > i} =
           {x \in DOMAIN ls : ls[x].by > i} \cup (IF l.by > i THEN {Len(ls) + 1} ELSE {})
  BY <1>1, BySets
<1>3. {x \in DOMAIN ls : ls[x].by = i} = {} /\ {x \in DOMAIN ls : ls[x].by > i} = {}
  BY <1>1
<1>4. ~(l.by > i)
  BY <1>1
<1>5. {x \in DOMAIN ms : ms[x].by = i} = {m} /\ {x \in DOMAIN ms : ms[x].by > i} = {}
  BY <1>2, <1>3, <1>4
<1>6. (m + 1)..Len(ms) = {} /\ m \in DOMAIN ms
  BY <1>2
<1> QED BY <1>2, <1>5, <1>6 DEF Pending

LEMMA PendingKept ==
    ASSUME NEW ls \in Seq(LineType), NEW l \in LineType, NEW i \in Nat, NEW bs,
           NEW ms, ms = Append(ls, l), l.by > i, Pending(ls, i, bs)
    PROVE  Pending(ms, i, bs)
<1>1. PICK m \in DOMAIN ls : /\ Told(ls[m], bs)
                             /\ {x \in DOMAIN ls : ls[x].by = i} = {m}
                             /\ {x \in DOMAIN ls : ls[x].by > i} = (m + 1)..Len(ls)
  BY DEF Pending
<1>2. /\ Len(ls) \in Nat /\ DOMAIN ls = 1..Len(ls) /\ Len(ms) = Len(ls) + 1
      /\ DOMAIN ms = 1..(Len(ls) + 1) /\ \A x \in 1..Len(ls) : ms[x] = ls[x]
      /\ {x \in DOMAIN ms : ms[x].by = i} =
           {x \in DOMAIN ls : ls[x].by = i} \cup (IF l.by = i THEN {Len(ls) + 1} ELSE {})
      /\ {x \in DOMAIN ms : ms[x].by > i} =
           {x \in DOMAIN ls : ls[x].by > i} \cup (IF l.by > i THEN {Len(ls) + 1} ELSE {})
  BY BySets
<1>3. l.by # i /\ l.by > i
  BY DEF LineType
<1>4. {x \in DOMAIN ms : ms[x].by = i} = {m}
  BY <1>1, <1>2, <1>3
<1>5. {x \in DOMAIN ms : ms[x].by > i} = ((m + 1)..Len(ls)) \cup {Len(ls) + 1}
  BY <1>1, <1>2, <1>3
<1>6. ((m + 1)..Len(ls)) \cup {Len(ls) + 1} = (m + 1)..Len(ms) /\ m \in DOMAIN ms
  BY <1>2
<1>7. Told(ms[m], bs)
  BY <1>1, <1>2
<1> QED BY <1>4, <1>5, <1>6, <1>7 DEF Pending

LEMMA PendingDone ==
    ASSUME NEW ls \in Seq(LineType), NEW l \in LineType, NEW bs, NEW result,
           NEW ms, ms = Append(ls, l), Pending(ls, l.by, bs),
           l.what = IF result = "failed" THEN "failed" ELSE "received"
    PROVE  Done(ms, l.by, bs, result)
<1> DEFINE i == l.by
           n == Len(ls) + 1
<1>0. i \in Nat
  BY DEF LineType
<1>1. PICK m \in DOMAIN ls : /\ Told(ls[m], bs)
                             /\ {x \in DOMAIN ls : ls[x].by = i} = {m}
                             /\ {x \in DOMAIN ls : ls[x].by > i} = (m + 1)..Len(ls)
  BY DEF Pending
<1>2. /\ Len(ls) \in Nat /\ DOMAIN ls = 1..Len(ls)
      /\ DOMAIN ms = 1..(Len(ls) + 1) /\ \A x \in 1..Len(ls) : ms[x] = ls[x]
      /\ ms[n] = l
      /\ {x \in DOMAIN ms : ms[x].by = i} =
           {x \in DOMAIN ls : ls[x].by = i} \cup (IF l.by = i THEN {Len(ls) + 1} ELSE {})
      /\ {x \in DOMAIN ms : ms[x].by > i} =
           {x \in DOMAIN ls : ls[x].by > i} \cup (IF l.by > i THEN {Len(ls) + 1} ELSE {})
  BY <1>0, BySets
<1>3. ~(l.by > i)
  BY <1>0
<1>4. {x \in DOMAIN ms : ms[x].by = i} = {m, n}
  BY <1>1, <1>2
<1>5. n - 1 = Len(ls) /\ m \in DOMAIN ms /\ n \in DOMAIN ms
  BY <1>2
<1>6. {x \in DOMAIN ms : ms[x].by > i} = (m + 1)..(n - 1)
  BY <1>1, <1>2, <1>3, <1>5
<1>7. Told(ms[m], bs)
  BY <1>1, <1>2
<1> HIDE DEF n, i
<1> QED BY <1>2, <1>4, <1>5, <1>6, <1>7 DEF Done, i

LEMMA DoneKept ==
    ASSUME NEW ls \in Seq(LineType), NEW l \in LineType, NEW i \in Nat, NEW bs,
           NEW result, NEW ms, ms = Append(ls, l), l.by < i, Done(ls, i, bs, result)
    PROVE  Done(ms, i, bs, result)
<1>1. PICK m \in DOMAIN ls, n \in DOMAIN ls :
         /\ Told(ls[m], bs)
         /\ ls[n].what = IF result = "failed" THEN "failed" ELSE "received"
         /\ {x \in DOMAIN ls : ls[x].by = i} = {m, n}
         /\ {x \in DOMAIN ls : ls[x].by > i} = (m + 1)..(n - 1)
  BY Zenon DEF Done
<1>2. /\ Len(ls) \in Nat /\ DOMAIN ls = 1..Len(ls)
      /\ DOMAIN ms = 1..(Len(ls) + 1) /\ \A x \in 1..Len(ls) : ms[x] = ls[x]
      /\ {x \in DOMAIN ms : ms[x].by = i} =
           {x \in DOMAIN ls : ls[x].by = i} \cup (IF l.by = i THEN {Len(ls) + 1} ELSE {})
      /\ {x \in DOMAIN ms : ms[x].by > i} =
           {x \in DOMAIN ls : ls[x].by > i} \cup (IF l.by > i THEN {Len(ls) + 1} ELSE {})
  BY BySets
<1>3. l.by # i /\ ~(l.by > i)
  <2>1. PICK by \in Nat : by = l.by
    BY DEF LineType
  <2>2. by < i
    BY <2>1
  <2>3. by # i /\ ~(by > i)
    BY ONLY by \in Nat, i \in Nat, <2>2
  <2> QED BY <2>1, <2>3
<1>4. {x \in DOMAIN ms : ms[x].by = i} = {m, n} /\ {x \in DOMAIN ms : ms[x].by > i} = (m + 1)..(n - 1)
  BY <1>1, <1>2, <1>3
<1>5. m \in DOMAIN ms /\ n \in DOMAIN ms /\ ms[m] = ls[m] /\ ms[n] = ls[n]
  BY <1>2
<1> QED BY <1>1, <1>4, <1>5 DEF Done

-----------------------------------------------------------------------------
(***************************************************************************)
(* The steps.                                                              *)
(***************************************************************************)

LEMMA StartLemma ==
    ASSUME IInv, Start, heads' \in Seq(Seq(Nat)), pos' = 0, drained' \in 0..Len(heads'),
           body' \in [0..Len(stack) -> BodyType], body'[Own].reader = Len(heads'),
           OfKind(body'[Own]),
           given' \in Seq(Nat), given' = Held(heads', Len(heads'), 0, Bytes, drained'),
           \/ given' = Bytes
           \/ /\ resend = "seek" /\ attempt > 0 /\ body'[Own].reader > 0
              /\ drained' > 0 \/ \E n \in 0..Len(given') : Drop(given', n) = Bytes
    PROVE  IInv'
<1>1. /\ mode' = "down" /\ at' = 0 /\ attempt' = attempt + 1 /\ obj' = Own /\ outcome' = "none"
      /\ lines' = <<>> /\ stack' = stack /\ payload' = payload /\ declared' = declared
      /\ resend' = resend
  BY DEF Start, client
<1>2. /\ Types /\ Len(stack) \in Nat /\ Bytes \in Seq(Nat) /\ payload.bytes \in Nat
      /\ LogLayers \subseteq 1..Len(stack) /\ attempt \in Nat
  BY ConfigLemma DEF IInv, Types
<1>3. Bytes' = Bytes /\ LogLayers' = LogLayers
  BY <1>1 DEF Bytes, LogLayers
<1>4. Types'
  <2>1. <<>> \in Seq(LineType) /\ attempt + 1 \in Nat /\ 0 \in 0..Len(stack) /\ 0 \in 0..payload.bytes
    BY <1>2
  <2>2. Len(heads') \in Nat /\ drained' \in Nat
    OBVIOUS
  <2> QED BY <1>1, <1>2, <2>1, <2>2 DEF Types, Own, Outcomes
<1>5. Readers'
  <2>1. Len(heads') \in Nat /\ drained' =< Len(heads')
    OBVIOUS
  <2>2. attempt' # 0
    BY <1>1, <1>2
  <2>3. OfKind(body[Own])' /\ OfKind(body[obj])'
    BY <1>1, <1>3 DEF OfKind
  <2> QED BY <1>1, <2>1, <2>2, <2>3 DEF Readers
<1>6. Excused'
  <2>1. attempt > 0 => attempt' > 1
    BY <1>1, <1>2
  <2>2. CASE given' = Bytes
    BY <1>3, <2>2 DEF Excused
  <2>3. CASE /\ resend = "seek" /\ attempt > 0 /\ body'[Own].reader > 0
             /\ drained' > 0 \/ \E n \in 0..Len(given') : Drop(given', n) = Bytes
    <3>1. drained' > 0 \/ (\E n \in 0..Len(given) : Drop(given, n) = Bytes)'
      BY <1>3, <2>3 DEF Drop
    <3> QED BY <1>1, <2>1, <2>3, <3>1 DEF Excused, Own
  <2> QED BY <2>2, <2>3
<1>7. Whole'
  <2>1. Held(heads, Len(heads), pos, Bytes, drained)' = Held(heads', Len(heads'), 0, Bytes, drained')
    BY <1>3 DEF Held, Downs, Drop
  <2> QED BY <1>1, <2>1 DEF Whole
<1>8. Logged'
  <2>1. \A i \in LogLayers' : ~(i =< at')
    BY <1>1, <1>2, <1>3
  <2>2. DOMAIN lines' = {}
    BY <1>1
  <2> QED BY <1>1, <2>1, <2>2 DEF Logged
<1> QED BY <1>4, <1>5, <1>6, <1>7, <1>8 DEF IInv

\* Without a head, a payload that was not begun is yielded whole.
LEMMA HeldWhole ==
    ASSUME NEW bs \in Seq(Nat), NEW d
    PROVE  Held(<<>>, 0, 0, bs, d) = bs
<1>1. <<>> \in Seq(Seq(Nat)) /\ 0 \in 0..Len(<<>>)
  OBVIOUS
<1>2. Downs(<<>>, 0, 0) = <<>>
  BY <1>1, DownsLemma
<1>3. Drop(bs, 0) = bs
  BY DropLemma
<1>4. <<>> \o bs = bs
  BY ConcatEmptySeq
<1> QED BY <1>2, <1>3, <1>4 DEF Held

\* A step that leaves the client's request and its readers alone.
LEMMA SameRequest ==
    ASSUME Excused, attempt' = attempt, resend' = resend, given' = given, Bytes' = Bytes,
           drained' = drained, body'[Own] = body[Own]
    PROVE  Excused'
<1>1. (\E n \in 0..Len(given) : Drop(given, n) = Bytes)' = \E n \in 0..Len(given) : Drop(given, n) = Bytes
  BY DEF Drop
<1> QED BY <1>1 DEF Excused, Own

LEMMA SendStep == IInv /\ Send => IInv'
<1> SUFFICES ASSUME IInv, Send
             PROVE  IInv'
  OBVIOUS
<1>1. /\ Start /\ pos' = pos /\ heads' = heads /\ body' = body /\ drained' = drained /\ attempt = 0
      /\ given' = Bytes
  BY DEF Send
<1>2. /\ heads = <<>> /\ pos = 0 /\ body[Own].reader =< Len(heads) /\ OfKind(body[Own])
      /\ body \in [0..Len(stack) -> BodyType] /\ Own \in 0..Len(stack)
      /\ heads \in Seq(Seq(Nat)) /\ Bytes \in Seq(Nat) /\ drained \in Nat /\ drained =< Len(heads)
  BY <1>1, ConfigLemma DEF IInv, Readers, Types, Own
<1>3. body[Own].reader \in Nat /\ Len(heads) = 0
  BY <1>2 DEF BodyType
<1>4. body[Own].reader = Len(heads) /\ drained \in 0..Len(heads)
  BY <1>2, <1>3
<1>5. Held(heads', Len(heads'), 0, Bytes, drained') = Bytes
  BY <1>1, <1>2, <1>3, HeldWhole
<1> QED BY <1>1, <1>2, <1>3, <1>4, <1>5, StartLemma

LEMMA SendFreshStep == IInv /\ SendFresh => IInv'
<1> SUFFICES ASSUME IInv, SendFresh
             PROVE  IInv'
  OBVIOUS
<1>1. /\ Start /\ pos' = 0 /\ heads' = <<>> /\ drained' = 0 /\ given' = Bytes
      /\ body' = [body EXCEPT ![Own] = Body(payload.kind, 0)]
  BY DEF SendFresh
<1>2. /\ body \in [0..Len(stack) -> BodyType] /\ Own \in 0..Len(stack)
      /\ payload.kind \in Kinds /\ Bytes \in Seq(Nat)
  BY ConfigLemma DEF IInv, Types, Own
<1>3. Body(payload.kind, 0) \in BodyType /\ Body(payload.kind, 0).reader = 0
      /\ OfKind(Body(payload.kind, 0))
  BY <1>2 DEF Body, BodyType, OfKind
<1>4. body' \in [0..Len(stack) -> BodyType] /\ body'[Own] = Body(payload.kind, 0)
  BY <1>1, <1>2, <1>3
<1>5. <<>> \in Seq(Seq(Nat)) /\ Len(<<>>) = 0 /\ 0 \in 0..Len(<<>>)
  OBVIOUS
<1>6. Held(heads', Len(heads'), 0, Bytes, drained') = Bytes
  BY <1>1, <1>2, <1>5, HeldWhole
<1> QED BY <1>1, <1>2, <1>3, <1>4, <1>5, <1>6, StartLemma

LEMMA SendSeekStep == IInv /\ SendSeek => IInv'
<1> SUFFICES ASSUME IInv, SendSeek
             PROVE  IInv'
  OBVIOUS
<1> DEFINE r == body[Own].reader
           h == SubSeq(heads, 1, r)
           d == IF drained > r THEN r ELSE drained
           g == HeadsDown(r, 0) \o Payload(r, 0)
           t == Downs(heads, r, 0)
<1>1. /\ Start /\ pos' = 0 /\ heads' = h /\ drained' = d /\ given' = g /\ body' = body
      /\ resend = "seek" /\ outcome = "failed"
  BY DEF SendSeek
<1>2. /\ heads \in Seq(Seq(Nat)) /\ r =< Len(heads) /\ OfKind(body[Own]) /\ drained \in Nat
      /\ body \in [0..Len(stack) -> BodyType] /\ Own \in 0..Len(stack) /\ Bytes \in Seq(Nat)
      /\ attempt \in Nat /\ attempt # 0
  BY <1>1, ConfigLemma DEF IInv, Readers, Types, Own
<1>3. r \in Nat /\ Len(heads) \in Nat /\ r \in 0..Len(heads) /\ attempt > 0
  <2>1. r \in Nat
    BY <1>2 DEF BodyType
  <2> QED BY <1>2, <2>1
<1> HIDE DEF r
<1>4. h \in Seq(Seq(Nat)) /\ Len(h) = r /\ \A i \in 1..r : h[i] = heads[i]
  BY <1>2, <1>3
<1> HIDE DEF h
<1>5. d \in 0..r /\ (drained = 0 => d = 0) /\ (drained # 0 /\ r # 0 => d # 0)
  BY <1>2, <1>3
<1> HIDE DEF d
<1>6. HeadsDown(r, 0) = t
  BY Zenon DEF HeadsDown, Downs
<1>7. Drop(Bytes, 0) = Bytes
  BY <1>2, DropLemma
<1>8. Payload(r, 0) = IF r = 0 \/ drained = 0 THEN Bytes ELSE <<>>
  BY <1>7 DEF Payload
<1>9. t \in Seq(Nat) /\ t = Downs(h, r, 0)
  <2>1. 0 \in 0..r
    BY <1>3
  <2> QED BY <1>2, <1>3, <1>4, <2>1, DownsLemma, DownsAgree
<1> HIDE DEF t
<1>10. g = t \o (IF r = 0 \/ drained = 0 THEN Bytes ELSE <<>>)
  BY <1>6, <1>8
<1> HIDE DEF g
<1>11. g \in Seq(Nat)
  BY <1>2, <1>9, <1>10, ConcatProperties
<1>12. g = Held(h, r, 0, Bytes, d)
  BY <1>5, <1>7, <1>9, <1>10 DEF Held
<1>13. \/ g = Bytes
       \/ r > 0 /\ (d > 0 \/ \E n \in 0..Len(g) : Drop(g, n) = Bytes)
  <2>1. CASE r = 0
    <3>1. t = <<>>
      BY <1>2, <1>3, <2>1, DownsLemma DEF t
    <3>2. <<>> \o Bytes = Bytes
      BY <1>2, ConcatEmptySeq
    <3> QED BY <1>10, <2>1, <3>1, <3>2
  <2>2. CASE r # 0 /\ drained # 0
    BY <1>3, <1>5, <2>2
  <2>3. CASE r # 0 /\ drained = 0
    <3>1. g = t \o Bytes /\ r > 0
      BY <1>3, <1>10, <2>3
    <3>2. Len(t) \in Nat /\ Len(Bytes) \in Nat /\ Len(t \o Bytes) = Len(t) + Len(Bytes)
      BY <1>2, <1>9, ConcatProperties
    <3>3. Len(t) \in 0..Len(g)
      BY <3>1, <3>2
    <3>4. Drop(t \o Bytes, Len(t)) = Drop(t, Len(t)) \o Bytes
      <4>1. PICK m \in Nat : m = Len(t)
        BY <3>2
      <4>2. Drop(t \o Bytes, m) = IF m =< Len(t) THEN Drop(t, m) \o Bytes ELSE Drop(Bytes, m - Len(t))
        BY <1>2, <1>9, DropConcat
      <4> QED BY <3>2, <4>1, <4>2
    <3>5. Drop(t, Len(t)) = <<>>
      BY <1>9, <3>2, DropLemma
    <3>6. <<>> \o Bytes = Bytes
      BY <1>2, ConcatEmptySeq
    <3>7. Drop(g, Len(t)) = Bytes
      BY <3>1, <3>4, <3>5, <3>6
    <3> QED BY <3>1, <3>3, <3>7
  <2> QED BY <2>1, <2>2, <2>3
<1>14. body'[Own].reader = r /\ OfKind(body'[Own])
  BY <1>1, <1>2 DEF r
<1>15. Len(heads') = r /\ heads' \in Seq(Seq(Nat)) /\ drained' \in 0..Len(heads')
  BY <1>1, <1>4, <1>5
<1>16. given' \in Seq(Nat) /\ given' = Held(heads', Len(heads'), 0, Bytes, drained')
  BY <1>1, <1>4, <1>11, <1>12
<1>17. \/ given' = Bytes
       \/ /\ resend = "seek" /\ attempt > 0 /\ body'[Own].reader > 0
          /\ drained' > 0 \/ \E n \in 0..Len(given') : Drop(given', n) = Bytes
  BY <1>1, <1>3, <1>13, <1>14
<1> QED BY <1>1, <1>2, <1>14, <1>15, <1>16, <1>17, StartLemma

\* What a request yields stays what it was while it is under way.
LEMMA ExcusedKept ==
    ASSUME Excused, Types, Readers, mode # "ready", resend' = resend, attempt' = attempt,
           given' = given, Bytes' = Bytes, drained' \in Nat, drained =< drained',
           body'[Own].reader \in Nat, body[Own].reader =< body'[Own].reader
    PROVE  Excused'
<1>1. drained \in Nat /\ attempt > 0 /\ body[Own].reader \in Nat
  <2>1. drained \in Nat /\ attempt \in Nat /\ attempt # 0
    BY DEF Types, Readers
  <2>2. Own \in 0..Len(stack)
    BY ConfigLemma DEF Own
  <2>3. body[Own] \in BodyType
    BY <2>2 DEF Types
  <2> QED BY <2>1, <2>3 DEF BodyType
<1>2. CASE given = Bytes
  BY <1>2 DEF Excused
<1>3. CASE given # Bytes
  <2>1. /\ resend = "seek" /\ attempt > 1 /\ body[Own].reader > 0
        /\ drained > 0 \/ \E n \in 0..Len(given) : Drop(given, n) = Bytes
    BY <1>1, <1>3 DEF Excused
  <2>2. body'[Own].reader > 0 /\ (drained > 0 => drained' > 0)
    BY <1>1, <2>1
  <2>3. (\E n \in 0..Len(given) : Drop(given, n) = Bytes)' = \E n \in 0..Len(given) : Drop(given, n) = Bytes
    BY DEF Drop
  <2> QED BY <2>1, <2>2, <2>3 DEF Excused, Own
<1> QED BY <1>2, <1>3

LEMMA LogRequestStep == IInv /\ LogRequest => IInv'
<1> SUFFICES ASSUME IInv, LogRequest
             PROVE  IInv'
  OBVIOUS
<1> DEFINE k == body[obj].reader
           n == Len(ReadAhead(obj))
           t == ReadAhead(obj)
           l == Line(at + 1, "out", t)
           y == Held(heads, k, pos, Bytes, drained)
<1>1. /\ mode = "down" /\ at < Len(stack) /\ stack[at + 1] = "log"
      /\ heads' = IF body[obj].kind = "nil" THEN heads ELSE Append(HeadsAfter(k, n), t)
      /\ pos' = PosAfter(k, n) /\ body' = [body EXCEPT ![obj] = Restored(obj)]
      /\ lines' = Append(lines, l) /\ at' = at + 1
      /\ stack' = stack /\ payload' = payload /\ declared' = declared /\ mode' = mode
      /\ attempt' = attempt /\ obj' = obj /\ outcome' = outcome /\ given' = given
      /\ resend' = resend
  BY DEF LogRequest, Reaches, client
<1>2. /\ Types /\ Readers /\ Excused /\ Whole /\ Logged /\ heads \in Seq(Seq(Nat)) /\ Len(heads) \in Nat
      /\ body \in [0..Len(stack) -> BodyType] /\ obj \in 0..Len(stack) /\ at \in 0..Len(stack)
      /\ lines \in Seq(LineType) /\ given \in Seq(Nat) /\ Own \in 0..Len(stack)
      /\ Len(stack) \in Nat /\ DOMAIN stack = 1..Len(stack) /\ LogLayers \subseteq 1..Len(stack)
      /\ Bytes \in Seq(Nat) /\ Limit \in Nat /\ at \in Nat /\ Len(given) \in Nat
  <2>1. Types /\ Readers /\ Excused /\ Whole /\ Logged
    BY DEF IInv
  <2>2. /\ stack \in Stacks /\ heads \in Seq(Seq(Nat)) /\ body \in [0..Len(stack) -> BodyType]
        /\ obj \in 0..Len(stack) /\ at \in 0..Len(stack)
        /\ lines \in Seq(LineType) /\ given \in Seq(Nat) /\ payload \in Payloads
    BY <2>1 DEF Types
  <2>3. /\ Len(stack) \in Nat /\ DOMAIN stack = 1..Len(stack) /\ LogLayers \subseteq 1..Len(stack)
        /\ Bytes \in Seq(Nat) /\ Limit \in Nat
    BY <2>1, ConfigLemma
  <2>4. at \in Nat /\ Own \in 0..Len(stack)
    BY <2>2, <2>3 DEF Own
  <2>5. Len(heads) \in Nat /\ Len(given) \in Nat
    BY ONLY <2>2
  <2> QED BY <2>1, <2>2, <2>3, <2>4, <2>5
<1>3. k = Len(heads) /\ OfKind(body[obj]) /\ OfKind(body[Own]) /\ body[Own].reader =< Len(heads)
      /\ attempt # 0 /\ k \in 0..Len(heads) /\ k \in Nat
  BY <1>1, <1>2 DEF Readers
<1>4. View(obj) = given /\ y = given
  BY <1>1, <1>2, <1>3, ViewLemma DEF Whole
<1>5. Bytes' = Bytes /\ LogLayers' = LogLayers
  BY <1>1 DEF Bytes, LogLayers
<1>6. at + 1 \in LogLayers /\ at + 1 \in 0..Len(stack)
  BY <1>1, <1>2 DEF LogLayers
<1> DEFINE c == IF Len(given) < Limit THEN Len(given) ELSE Limit
<1>7. t = SubSeq(given, 1, c)
  BY <1>4 DEF ReadAhead
<1>8. PICK eof \in EndSeen(Len(given), Limit) : drained' = DrainedAfter(k, eof)
  BY <1>4 DEF LogRequest
<1> HIDE DEF t, k
<1>9. c \in 0..Len(given) /\ (eof => c = Len(given)) /\ eof \in BOOLEAN
  BY <1>2, <1>8 DEF EndSeen
<1> HIDE DEF c
<1>10. t \in Seq(Nat) /\ Len(t) = c /\ t \o Drop(given, c) = given
  BY <1>2, <1>7, <1>9, TakeDrop
<1>11. n = c
  BY <1>10 DEF t
<1> HIDE DEF n
<1>12. /\ drained' \in Nat /\ drained' =< Len(heads) /\ drained =< drained'
       /\ drained' = drained \/ n = Len(given)
       /\ k = 0 => drained' = drained
  BY <1>2, <1>3, <1>8, <1>9, <1>11, DrainedLemma
<1>13. n \in Nat /\ n =< Len(y) /\ (drained' = drained \/ (drained =< drained' /\ n = Len(y)))
  BY <1>2, <1>4, <1>9, <1>11, <1>12
<1>14. /\ HeadsAfter(k, n) \in Seq(Seq(Nat)) /\ Len(HeadsAfter(k, n)) = Len(heads)
       /\ PosAfter(k, n) \in 0..payload.bytes
       /\ Held(HeadsAfter(k, n), k, PosAfter(k, n), Bytes, drained') = Drop(y, n)
  <2>1. PICK e \in Nat : e = drained'
    BY <1>12
  <2>2. e = drained \/ (drained =< e /\ n = Len(Held(heads, k, pos, Bytes, drained)))
    BY <1>13, <2>1
  <2>3. /\ HeadsAfter(k, n) \in Seq(Seq(Nat)) /\ Len(HeadsAfter(k, n)) = Len(heads)
        /\ PosAfter(k, n) \in 0..payload.bytes
        /\ Held(HeadsAfter(k, n), k, PosAfter(k, n), Bytes, e) = Drop(y, n)
    BY <1>2, <1>3, <1>13, <2>2, ReadLemma
  <2> QED BY <2>1, <2>3
<1> HIDE DEF y
<1>15. PICK h, p, b, e : h = heads' /\ p = pos' /\ b = body'[obj] /\ e = drained'
  OBVIOUS
<1>16. /\ h \in Seq(Seq(Nat)) /\ Len(heads) =< Len(h) /\ b \in BodyType
       /\ OfKind(b) /\ b.reader = Len(h) /\ p \in 0..payload.bytes /\ e \in Nat /\ e =< Len(h)
       /\ drained =< e
       /\ Held(h, Len(h), p, Bytes, e) = given
  <2>1. b = Restored(obj)
    BY <1>1, <1>2, <1>15
  <2>2. CASE body[obj].kind = "nil"
    <3>1. h = heads /\ b = body[obj]
      BY <1>1, <1>15, <2>1, <2>2 DEF Restored
    <3>2. given = <<>> /\ k = 0
      <4>1. View(obj) = <<>>
        BY <2>2 DEF View
      <4> QED BY <1>3, <1>4, <2>2, <4>1 DEF OfKind, k
    <3>3. n = 0 /\ e = drained
      BY <1>9, <1>11, <1>12, <1>15, <3>2
    <3>4. p = pos
      <4>1. Len(HeadsDown(k, 0)) \in Nat
        <5>1. HeadsDown(k, 0) = Downs(heads, k, 0)
          BY Zenon DEF HeadsDown, Downs
        <5>2. 0 \in 0..k
          BY <1>3
        <5>3. Downs(heads, k, 0) \in Seq(Nat)
          BY <1>2, <1>3, <5>2, DownsLemma
        <5> QED BY <5>1, <5>3
      <4>2. ~(n > Len(HeadsDown(k, 0)))
        BY <3>3, <4>1
      <4> QED BY <1>1, <1>15, <4>2 DEF PosAfter
    <3>5. b \in BodyType /\ OfKind(b) /\ b.reader = Len(h)
      BY <1>2, <1>3, <3>1 DEF k
    <3>6. p \in 0..payload.bytes
      BY <1>2, <3>4 DEF Types
    <3>7. Held(h, Len(h), p, Bytes, e) = given
      BY <1>3, <1>4, <3>1, <3>3, <3>4 DEF y
    <3>8. h \in Seq(Seq(Nat)) /\ Len(heads) =< Len(h)
      BY <1>2, <3>1
    <3> QED BY <1>12, <1>15, <3>1, <3>5, <3>6, <3>7, <3>8
  <2>3. CASE body[obj].kind # "nil"
    <3> DEFINE g == HeadsAfter(k, n)
    <3>1. h = Append(g, t) /\ b = Body("reader", Len(heads) + 1)
      BY <1>1, <1>15, <2>1, <2>3 DEF Restored
    <3>2. p = PosAfter(k, n)
      BY <1>1, <1>15
    <3>3. g \in Seq(Seq(Nat)) /\ Len(g) = Len(heads) /\ Held(g, k, p, Bytes, e) = Drop(given, n)
      BY <1>4, <1>14, <1>15, <3>2
    <3> HIDE DEF g
    <3>4. h \in Seq(Seq(Nat)) /\ Len(h) = Len(heads) + 1
      BY <1>10, <3>1, <3>3
    <3>5. b \in BodyType /\ b.kind = "reader" /\ b.reader = Len(h)
      BY <1>2, <3>1, <3>4 DEF Body, BodyType, Kinds
    <3>6. OfKind(b)
      BY <1>3, <1>6, <2>3, <3>5, ConfigLemma, <1>2 DEF OfKind, Kinds
    <3>7. p \in 0..payload.bytes /\ p \in Nat
      BY <1>2, <1>14, <3>2, ConfigLemma
    <3>8. Held(h, Len(h), p, Bytes, e) = given
      <4>1. Held(h, Len(g) + 1, p, Bytes, e) = t \o Held(g, Len(g), p, Bytes, e)
        <5>1. /\ t \in Seq(Nat) /\ g \in Seq(Seq(Nat)) /\ p \in Nat /\ Bytes \in Seq(Nat)
              /\ e \in 0..Len(g)
          BY <1>2, <1>10, <1>12, <1>15, <3>3, <3>7
        <5>2. Held(Append(g, t), Len(g) + 1, p, Bytes, e) = t \o Held(g, Len(g), p, Bytes, e)
          BY ONLY <5>1, HeldPut
        <5> QED BY <3>1, <5>2
      <4>2. Held(g, Len(g), p, Bytes, e) = Drop(given, c)
        BY <1>3, <1>11, <3>3
      <4> QED BY <1>10, <3>3, <3>4, <4>1, <4>2
    <3>9. Len(heads) =< Len(h) /\ e \in Nat /\ e =< Len(h) /\ drained =< e
      <4>1. PICK m \in Nat, f \in Nat : m = Len(heads) /\ f = e /\ f =< m
        BY <1>2, <1>12, <1>15
      <4>2. m =< m + 1 /\ f =< m + 1
        BY <4>1
      <4> QED BY <1>12, <1>15, <3>4, <4>1, <4>2, Zenon
    <3> QED BY <3>4, <3>5, <3>6, <3>7, <3>8, <3>9, Zenon
  <2> QED BY <2>2, <2>3
<1>17. l \in LineType /\ l.by = at + 1 /\ Told(l, given)
  <2>1. l \in LineType /\ l.by = at + 1 /\ l.what = "out" /\ l.body = t
    BY <1>2, <1>10 DEF Line, LineType
  <2>2. t = SubSeq(given, 1, IF Len(given) < Limit THEN Len(given) ELSE Limit)
    BY <1>7 DEF c
  <2> QED BY <2>1, <2>2 DEF Told
<1> HIDE DEF l
<1>18. Types'
  <2>1. body' \in [0..Len(stack) -> BodyType]
    BY <1>1, <1>2, <1>15, <1>16
  <2>2. lines' \in Seq(LineType)
    BY <1>1, <1>2, <1>17
  <2> QED BY <1>1, <1>2, <1>6, <1>15, <1>16, <2>1, <2>2 DEF Types
<1>19. Readers'
  <2>1. body'[Own] = body[Own] \/ body'[Own] = b
    BY <1>1, <1>2, <1>15
  <2>2. body[Own].reader \in Nat /\ Len(h) \in Nat
    BY <1>2, <1>16 DEF BodyType
  <2>3. body'[Own].reader =< Len(h) /\ OfKind(body'[Own])
    <3>1. body[Own].reader =< Len(h) /\ Len(h) =< Len(h)
      <4>1. body[Own].reader =< Len(heads) /\ Len(heads) =< Len(h) /\ Len(heads) \in Nat
        BY <1>2, <1>3, <1>16
      <4> QED BY <2>2, <4>1
    <3> QED BY <1>3, <1>16, <2>1, <3>1, Zenon
  <2>4. OfKind(body[Own])' /\ OfKind(body[obj])'
    BY <1>1, <1>5, <1>15, <1>16, <2>3 DEF OfKind
  <2> QED BY <1>1, <1>3, <1>15, <1>16, <2>3, <2>4 DEF Readers
<1>20. Whole'
  <2>1. Held(heads, Len(heads), pos, Bytes, drained)' = Held(h, Len(h), p, Bytes, e)
    BY <1>5, <1>15 DEF Held, Downs, Drop
  <2> QED BY <1>1, <1>16, <2>1 DEF Whole
<1>21. Logged'
  <2>1. PICK ms : ms = lines' /\ ms = Append(lines, l)
    BY <1>1
  <2>2. \A x \in DOMAIN lines : lines[x].by =< at /\ lines[x] \in LineType
    BY <1>1, <1>2 DEF Logged
  <2>3. \A x \in DOMAIN lines : lines[x].by < l.by
    BY <1>2, <1>17, <2>2 DEF LineType
  <2>4. Pending(ms, at + 1, given)
    BY <1>2, <1>17, <2>1, <2>3, PendingNew
  <2>5. ASSUME NEW i \in LogLayers, i =< at + 1
        PROVE  Pending(ms, i, given)
    <3>1. i \in Nat
      BY <1>2
    <3>2. CASE i = at + 1
      BY <2>4, <3>2
    <3>3. CASE i # at + 1
      <4>1. i =< at /\ l.by > i
        BY <1>2, <1>17, <2>5, <3>1, <3>3
      <4>2. Pending(lines, i, given)
        BY <1>1, <1>2, <4>1 DEF Logged
      <4> QED BY <1>2, <1>17, <2>1, <3>1, <4>1, <4>2, PendingKept
    <3> QED BY <3>2, <3>3
  <2>6. \A x \in DOMAIN ms : ms[x].by =< at + 1
    <3>1. /\ DOMAIN ms = 1..(Len(lines) + 1) /\ Len(lines) \in Nat /\ DOMAIN lines = 1..Len(lines)
          /\ ms[Len(lines) + 1] = l /\ \A x \in 1..Len(lines) : ms[x] = lines[x]
      BY <1>2, <1>17, <2>1, BySets
    <3> SUFFICES ASSUME NEW x \in DOMAIN ms
                 PROVE  ms[x].by =< at + 1
      OBVIOUS
    <3>2. CASE x = Len(lines) + 1
      BY <1>2, <1>17, <3>1, <3>2
    <3>3. CASE x # Len(lines) + 1
      <4>1. x \in DOMAIN lines /\ ms[x] = lines[x]
        BY <3>1, <3>3
      <4>2. lines[x].by =< at /\ lines[x].by \in Nat
        BY <2>2, <4>1 DEF LineType
      <4> QED BY <1>2, <4>1, <4>2
    <3> QED BY <3>2, <3>3
  <2> QED BY <1>1, <1>5, <2>1, <2>5, <2>6 DEF Logged
<1>22. Excused'
  <2>1. body'[Own].reader \in Nat /\ body[Own].reader =< body'[Own].reader
    <3>1. body'[Own] = body[Own] \/ body'[Own] = b
      BY <1>1, <1>2, <1>15
    <3>2. body[Own].reader \in Nat /\ b.reader \in Nat
      BY <1>2, <1>16 DEF BodyType
    <3>3. body[Own].reader =< b.reader
      <4>1. body[Own].reader =< Len(heads) /\ Len(heads) =< b.reader /\ Len(heads) \in Nat
        BY <1>2, <1>3, <1>16
      <4> QED BY <3>2, <4>1
    <3>4. body[Own].reader =< body[Own].reader
      BY <3>2
    <3> QED BY <3>1, <3>2, <3>3, <3>4, Zenon
  <2> QED BY <1>1, <1>2, <1>5, <1>12, <2>1, ExcusedKept
<1> QED BY <1>18, <1>19, <1>20, <1>21, <1>22 DEF IInv

\* A transport that is no logger says nothing on the way down.
LEMMA ClosedLayer ==
    ASSUME Types, Logged, mode = "down", mode' = "down", at' = at + 1, at + 1 \notin LogLayers,
           lines' = lines, given' = given, Bytes' = Bytes, LogLayers' = LogLayers
    PROVE  Logged'
<1>1. /\ at \in Nat /\ LogLayers \subseteq Nat
      /\ \A x \in DOMAIN lines : lines[x].by \in Nat /\ lines[x].by =< at
  <2>1. at \in Nat /\ LogLayers \subseteq Nat
    BY ConfigLemma DEF Types
  <2>2. \A x \in DOMAIN lines : lines[x] \in LineType
    BY DEF Types
  <2> QED BY <2>1, <2>2 DEF LineType, Logged
<1>2. \A x \in DOMAIN lines : lines[x].by =< at + 1
  BY <1>1
<1>3. ASSUME NEW i \in LogLayers, i =< at + 1
      PROVE  Pending(lines, i, given)
  <2>1. i =< at
    BY <1>1, <1>3
  <2> QED BY <2>1 DEF Logged
<1> QED BY <1>2, <1>3 DEF Logged

LEMMA CloneStep == IInv /\ Clone => IInv'
<1> SUFFICES ASSUME IInv, Clone
             PROVE  IInv'
  OBVIOUS
<1>1. /\ mode = "down" /\ at < Len(stack) /\ stack[at + 1] = "clone"
      /\ obj' = at + 1 /\ body' = [body EXCEPT ![at + 1] = body[obj]] /\ at' = at + 1
      /\ stack' = stack /\ payload' = payload /\ declared' = declared /\ mode' = mode
      /\ attempt' = attempt /\ pos' = pos /\ heads' = heads /\ outcome' = outcome
      /\ lines' = lines /\ given' = given /\ drained' = drained /\ resend' = resend
  BY DEF Clone, Reaches, client
<1>2. /\ Types /\ Readers /\ Excused /\ Whole /\ Logged
      /\ body \in [0..Len(stack) -> BodyType] /\ obj \in 0..Len(stack) /\ at \in 0..Len(stack)
      /\ Len(stack) \in Nat /\ DOMAIN stack = 1..Len(stack) /\ LogLayers \subseteq 1..Len(stack)
      /\ lines \in Seq(LineType)
  BY ConfigLemma DEF IInv, Types
<1>3. /\ Bytes' = Bytes /\ LogLayers' = LogLayers /\ at \in Nat
      /\ at + 1 \in 0..Len(stack) /\ at + 1 # Own /\ Own \in 0..Len(stack)
  BY <1>1, <1>2 DEF Bytes, LogLayers, Own
<1>4. /\ body' \in [0..Len(stack) -> BodyType] /\ body'[at + 1] = body[obj]
      /\ body'[Own] = body[Own]
  BY <1>1, <1>2, <1>3
<1>5. Types'
  BY <1>1, <1>2, <1>3, <1>4 DEF Types
<1>6. Readers'
  <2>1. body'[obj'] = body[obj]
    BY <1>1, <1>4
  <2>2. OfKind(body[Own])' /\ OfKind(body[obj])'
    BY <1>1, <1>2, <1>3, <1>4, <2>1 DEF Readers, OfKind
  <2> QED BY <1>1, <1>2, <1>4, <2>1, <2>2 DEF Readers
<1>7. Whole'
  <2>1. Held(heads, Len(heads), pos, Bytes, drained)' = Held(heads, Len(heads), pos, Bytes, drained)
    BY <1>1, <1>3 DEF Held, Downs, Drop
  <2> QED BY <1>1, <1>2, <2>1 DEF Whole
<1>8. at + 1 \notin LogLayers
  BY <1>1 DEF LogLayers
<1>9. Logged'
  BY <1>1, <1>2, <1>3, <1>8, ClosedLayer
<1>10. Excused'
  BY <1>1, <1>2, <1>3, <1>4, SameRequest
<1> QED BY <1>5, <1>6, <1>7, <1>9, <1>10 DEF IInv

LEMMA PassOnStep == IInv /\ PassOn => IInv'
<1> SUFFICES ASSUME IInv, PassOn
             PROVE  IInv'
  OBVIOUS
<1>1. /\ mode = "down" /\ at < Len(stack) /\ stack[at + 1] = "clone"
      /\ obj' = obj /\ body' = body /\ at' = at + 1
      /\ stack' = stack /\ payload' = payload /\ declared' = declared /\ mode' = mode
      /\ attempt' = attempt /\ pos' = pos /\ heads' = heads /\ outcome' = outcome
      /\ lines' = lines /\ given' = given /\ drained' = drained /\ resend' = resend
  BY DEF PassOn, Reaches, client
<1>2. /\ Types /\ Readers /\ Excused /\ Whole /\ Logged /\ at \in 0..Len(stack)
      /\ Len(stack) \in Nat /\ DOMAIN stack = 1..Len(stack) /\ LogLayers \subseteq 1..Len(stack)
      /\ lines \in Seq(LineType)
  BY ConfigLemma DEF IInv, Types
<1>3. /\ Bytes' = Bytes /\ LogLayers' = LogLayers /\ at \in Nat /\ at + 1 \in 0..Len(stack)
  BY <1>1, <1>2 DEF Bytes, LogLayers
<1>4. Types'
  BY <1>1, <1>2, <1>3 DEF Types
<1>5. Readers'
  <2>1. OfKind(body[Own])' /\ OfKind(body[obj])'
    BY <1>1, <1>2, <1>3 DEF Readers, OfKind
  <2> QED BY <1>1, <1>2, <2>1 DEF Readers
<1>6. Whole'
  <2>1. Held(heads, Len(heads), pos, Bytes, drained)' = Held(heads, Len(heads), pos, Bytes, drained)
    BY <1>1, <1>3 DEF Held, Downs, Drop
  <2> QED BY <1>1, <1>2, <2>1 DEF Whole
<1>7. at + 1 \notin LogLayers
  BY <1>1 DEF LogLayers
<1>8. Logged'
  BY <1>1, <1>2, <1>3, <1>7, ClosedLayer
<1>9. Excused'
  BY <1>1, <1>2, <1>3, SameRequest
<1> QED BY <1>4, <1>5, <1>6, <1>8, <1>9 DEF IInv

\* A beginning of a sequence.
LEMMA PrefixLemma ==
    ASSUME NEW s \in Seq(Nat), NEW n \in 0..Len(s)
    PROVE  /\ IsPrefix(SubSeq(s, 1, n), s)
           /\ Drop(s, n) = <<>> => SubSeq(s, 1, n) = s
<1> DEFINE h == SubSeq(s, 1, n)
<1>1. h \in Seq(Nat) /\ Len(h) = n /\ h \o Drop(s, n) = s
  BY TakeDrop
<1>2. h = SubSeq(s, 1, n)
  OBVIOUS
<1> HIDE DEF h
<1>3. n \in Nat /\ Len(s) \in Nat /\ n =< Len(s)
  OBVIOUS
<1>4. SubSeq(h, 1, Len(h)) = h
  BY <1>1
<1>5. IsPrefix(h, s)
  BY <1>1, <1>2, <1>3, <1>4 DEF IsPrefix
<1>6. ASSUME Drop(s, n) = <<>>
      PROVE  h = s
  <2>1. h \o <<>> = h
    BY <1>1, ConcatEmptySeq
  <2> QED BY <1>1, <1>6, <2>1
<1> QED BY <1>5, <1>6 DEF h

\* What fits of a beginning of a body is one.
LEMMA FitsLemma ==
    ASSUME Types, NEW n \in Nat
    PROVE  Fits(n) \in Nat /\ Fits(n) =< n
<1>1. payload.bytes \in Nat
  BY ConfigLemma
<1> QED BY <1>1 DEF Fits

\* Whatever the network does: the peer has those of the n bytes read that fit.
LEMMA TransmitLemma ==
    ASSUME IInv, NEW n \in Nat, NEW eof \in BOOLEAN, NEW result \in Outcomes,
           Transmit(n, eof, result), n =< Len(View(obj)), eof => n = Len(View(obj))
    PROVE  IInv'
<1> DEFINE k == body[obj].reader
           y == Held(heads, k, pos, Bytes, drained)
<1>1. /\ mode = "down" /\ at = Len(stack)
      /\ onwire' = [framing |-> Framing(body[obj].kind), bytes |-> SubSeq(View(obj), 1, Fits(n))]
      /\ heads' = HeadsAfter(k, n) /\ pos' = PosAfter(k, n) /\ drained' = DrainedAfter(k, eof)
      /\ outcome' = result /\ mode' = "up"
      /\ stack' = stack /\ payload' = payload /\ declared' = declared /\ at' = at
      /\ attempt' = attempt /\ body' = body /\ obj' = obj /\ lines' = lines /\ given' = given
      /\ resend' = resend
  BY DEF Transmit, client
<1>2. /\ Types /\ Readers /\ Excused /\ Whole /\ Logged /\ obj \in 0..Len(stack) /\ at \in 0..Len(stack)
      /\ Len(stack) \in Nat /\ LogLayers \subseteq 1..Len(stack) /\ Len(heads) \in Nat
      /\ given \in Seq(Nat) /\ Len(given) \in Nat
      /\ lines \in Seq(LineType) /\ body \in [0..Len(stack) -> BodyType] /\ heads \in Seq(Seq(Nat))
  <2>1. Types /\ Readers /\ Excused /\ Whole /\ Logged
    BY DEF IInv
  <2>2. /\ obj \in 0..Len(stack) /\ at \in 0..Len(stack) /\ lines \in Seq(LineType)
        /\ body \in [0..Len(stack) -> BodyType] /\ heads \in Seq(Seq(Nat)) /\ Len(heads) \in Nat
        /\ given \in Seq(Nat) /\ Len(given) \in Nat
    BY <2>1 DEF Types
  <2>3. /\ Len(stack) \in Nat /\ LogLayers \subseteq 1..Len(stack)
    BY <2>1, ConfigLemma
  <2> QED BY <2>1, <2>2, <2>3
<1>3. k = Len(heads) /\ OfKind(body[obj]) /\ OfKind(body[Own]) /\ body[Own].reader =< Len(heads)
      /\ attempt # 0 /\ k \in 0..Len(heads)
  BY <1>1, <1>2 DEF Readers
<1>4. View(obj) = given /\ y = given
  BY <1>1, <1>2, <1>3, ViewLemma DEF Whole
<1> HIDE DEF k, y
<1>5. n =< Len(given) /\ (eof => n = Len(given))
  BY <1>4
<1>6. PICK e : e = drained'
  OBVIOUS
<1>7. e \in Nat /\ e =< Len(heads) /\ drained =< e /\ (e = drained \/ (drained =< e /\ n = Len(y)))
  BY <1>1, <1>2, <1>3, <1>4, <1>5, <1>6, DrainedLemma
<1>8. /\ HeadsAfter(k, n) \in Seq(Seq(Nat)) /\ Len(HeadsAfter(k, n)) = Len(heads)
      /\ PosAfter(k, n) \in 0..payload.bytes
      /\ Held(HeadsAfter(k, n), k, PosAfter(k, n), Bytes, e) = Drop(y, n)
  <2>1. n =< Len(y)
    BY <1>4, <1>5
  <2>2. n =< Len(Held(heads, k, pos, Bytes, drained))
    BY <2>1 DEF y
  <2>3. e = drained \/ (drained =< e /\ n = Len(Held(heads, k, pos, Bytes, drained)))
    BY <1>7 DEF y
  <2>4. /\ HeadsAfter(k, n) \in Seq(Seq(Nat)) /\ Len(HeadsAfter(k, n)) = Len(heads)
        /\ PosAfter(k, n) \in 0..payload.bytes
        /\ Held(HeadsAfter(k, n), k, PosAfter(k, n), Bytes, e)
             = Drop(Held(heads, k, pos, Bytes, drained), n)
    BY <1>2, <1>3, <1>7, <2>2, <2>3, ReadLemma
  <2> QED BY <2>4 DEF y
<1>9. PICK h, p : h = heads' /\ p = pos'
  OBVIOUS
<1>10. /\ h \in Seq(Seq(Nat)) /\ Len(h) = Len(heads) /\ p \in 0..payload.bytes
       /\ Held(h, k, p, Bytes, e) = Drop(given, n)
  BY <1>1, <1>4, <1>8, <1>9
<1>11. Bytes' = Bytes /\ LogLayers' = LogLayers
  BY <1>1 DEF Bytes, LogLayers
<1>12. Framing(payload.kind)' = Framing(payload.kind) /\ Fits(Len(given))' = Fits(Len(given))
  BY <1>1 DEF Framing, Fits
<1>13. Types'
  BY <1>1, <1>2, <1>6, <1>7, <1>9, <1>10 DEF Types
<1>14. Readers'
  <2>1. OfKind(body[Own])' /\ OfKind(body[obj])'
    BY <1>1, <1>3, <1>11 DEF OfKind
  <2>2. body'[obj'].reader = Len(heads')
    BY <1>1, <1>3, <1>9, <1>10 DEF k
  <2> QED BY <1>1, <1>3, <1>6, <1>7, <1>9, <1>10, <2>1, <2>2 DEF Readers
<1>15. Excused'
  <2>1. body'[Own].reader \in Nat /\ body[Own].reader =< body'[Own].reader
    <3>1. Own \in 0..Len(stack)
      BY <1>2 DEF Own
    <3>2. body[Own].reader \in Nat
      BY <1>2, <3>1 DEF BodyType
    <3> QED BY <1>1, <3>2
  <2>2. drained' \in Nat /\ drained =< drained'
    BY <1>6, <1>7
  <2> QED BY <1>1, <1>2, <1>11, <2>1, <2>2, ExcusedKept
<1>16. Whole'
  <2>1. onwire'.bytes = SubSeq(given, 1, Fits(n))
    BY <1>1, <1>4
  <2>2. Fits(n) \in 0..Len(given)
    <3>1. PICK f : f = Fits(n)
      OBVIOUS
    <3>2. f \in Nat /\ f =< n
      BY <1>2, <3>1, FitsLemma
    <3> QED BY <1>2, <1>5, <3>1, <3>2
  <2>3. IsPrefix(onwire'.bytes, given)
    BY <1>2, <2>1, <2>2, PrefixLemma
  <2>4. ASSUME ViewOf(body[obj], h, p, Bytes, e) = <<>>
        PROVE  n = Len(given)
    <3>1. CASE body[obj].kind = "reader"
      <4>1. Drop(given, n) = <<>>
        BY <1>10, <2>4, <3>1 DEF ViewOf, k
      <4>2. Len(Drop(given, n)) = Len(given) - n
        BY <1>2, <1>5, DropLemma
      <4>3. Len(<<>>) = 0
        OBVIOUS
      <4> QED BY <1>2, <4>1, <4>2, <4>3
    <3>2. CASE body[obj].kind # "reader"
      <4>1. given = <<>>
        BY <1>4, <3>2 DEF View
      <4>2. Len(<<>>) = 0
        OBVIOUS
      <4> QED BY <1>5, <4>1, <4>2
    <3> QED BY <3>1, <3>2
  <2>5. \/ onwire'.framing = Framing(payload.kind)
        \/ payload.kind = "NoBody" /\ LogLayers # {} /\ onwire'.framing = "chunked"
    <3>1. onwire'.framing = Framing(body[obj].kind)
      BY <1>1
    <3>2. CASE body[obj].kind = payload.kind
      BY <3>1, <3>2
    <3>3. CASE body[obj].kind # payload.kind
      <4>1. payload.kind = "NoBody" /\ LogLayers # {} /\ body[obj].kind = "reader"
        BY <1>3, <3>3 DEF OfKind
      <4>2. payload.bytes = 0
        BY <1>2, <4>1, PayloadsAssumption DEF Types
      <4> QED BY <3>1, <4>1, <4>2 DEF Framing
    <3> QED BY <3>2, <3>3
  <2>6. ViewOf(body[obj], heads, pos, Bytes, drained)' = ViewOf(body[obj], h, p, Bytes, e)
    BY <1>1, <1>6, <1>9, <1>11 DEF ViewOf, Held, Downs, Drop
  <2>7. IsPrefix(onwire.bytes, given)'
    BY <1>1, <2>3 DEF IsPrefix
  <2>8. ViewOf(body[obj], h, p, Bytes, e) = <<>> => onwire'.bytes = SubSeq(given, 1, Fits(Len(given)))
    BY <2>1, <2>4
  <2> QED BY <1>1, <1>11, <1>12, <2>5, <2>6, <2>7, <2>8 DEF Whole
<1>17. Logged'
  <2>1. \A i \in LogLayers : i =< at /\ ~(i > at)
    BY <1>1, <1>2
  <2>2. \A i \in LogLayers : Pending(lines, i, given)
    BY <1>1, <1>2, <2>1 DEF Logged
  <2> QED BY <1>1, <1>11, <2>1, <2>2 DEF Logged
<1> QED BY <1>13, <1>14, <1>15, <1>16, <1>17 DEF IInv

LEMMA BreakStep == IInv /\ Break => IInv'
<1> SUFFICES ASSUME IInv, NEW n \in 0..Len(View(obj)), NEW eof \in BOOLEAN,
                    eof => n = Len(View(obj)), Transmit(n, eof, "failed")
             PROVE  IInv'
  BY DEF Break
<1>1. n \in Nat /\ n =< Len(View(obj))
  <2>1. Len(View(obj)) \in Nat
    BY ViewLemma DEF IInv, Transmit, Types
  <2> QED BY <2>1
<1> QED BY <1>1, TransmitLemma DEF Outcomes

LEMMA RespondStep == IInv /\ Respond => IInv'
<1> SUFFICES ASSUME IInv, NEW n \in 0..Len(View(obj)), NEW eof \in BOOLEAN,
                    eof => n = Len(View(obj)), Transmit(n, eof, "answered")
             PROVE  IInv'
  BY DEF Respond
<1>1. n \in Nat /\ n =< Len(View(obj))
  <2>1. Len(View(obj)) \in Nat
    BY ViewLemma DEF IInv, Transmit, Types
  <2> QED BY <2>1
<1> QED BY <1>1, TransmitLemma DEF Outcomes

LEMMA WholeKept ==
    ASSUME Whole, mode = "up", mode' = "up", payload' = payload, declared' = declared,
           pos' = pos, heads' = heads, drained' = drained, body' = body, obj' = obj,
           onwire' = onwire, given' = given, Bytes' = Bytes, LogLayers' = LogLayers
    PROVE  Whole'
<1>1. ViewOf(body[obj], heads, pos, Bytes, drained)' = ViewOf(body[obj], heads, pos, Bytes, drained)
  BY DEF ViewOf, Held, Downs, Drop
<1>2. Framing(payload.kind)' = Framing(payload.kind) /\ Fits(Len(given))' = Fits(Len(given))
  BY DEF Framing, Fits
<1>3. IsPrefix(onwire.bytes, given)' = IsPrefix(onwire.bytes, given)
  BY DEF IsPrefix
<1> QED BY <1>1, <1>2, <1>3 DEF Whole

LEMMA LogResultStep == IInv /\ LogResult => IInv'
<1> SUFFICES ASSUME IInv, LogResult
             PROVE  IInv'
  OBVIOUS
<1> DEFINE what == IF outcome = "failed" THEN "failed" ELSE "received"
           l    == Line(at, what, <<>>)
<1>1. /\ mode = "up" /\ at > 0 /\ stack[at] = "log" /\ lines' = lines \o ResultLines(at)
      /\ at' = at - 1
      /\ stack' = stack /\ payload' = payload /\ declared' = declared /\ mode' = mode
      /\ attempt' = attempt /\ pos' = pos /\ heads' = heads /\ body' = body /\ obj' = obj
      /\ onwire' = onwire /\ outcome' = outcome /\ given' = given
      /\ drained' = drained /\ resend' = resend
  BY DEF LogResult, client
<1>2. /\ Types /\ Readers /\ Excused /\ Whole /\ Logged /\ at \in 0..Len(stack)
      /\ Len(stack) \in Nat /\ DOMAIN stack = 1..Len(stack) /\ LogLayers \subseteq 1..Len(stack)
      /\ lines \in Seq(LineType)
  BY ConfigLemma DEF IInv, Types
<1>3. /\ Bytes' = Bytes /\ LogLayers' = LogLayers /\ at \in Nat /\ at - 1 \in 0..Len(stack)
      /\ at \in LogLayers
  BY <1>1, <1>2 DEF Bytes, LogLayers
<1>4. l \in LineType /\ l.by = at /\ l.what = what
  <2>1. <<>> \in Seq(Nat)
    OBVIOUS
  <2> QED BY <1>3, <2>1 DEF Line, LineType
<1>5. lines' = Append(lines, l)
  <2>1. ResultLines(at) = <<l>>
    BY Zenon DEF ResultLines
  <2> HIDE DEF l
  <2> QED BY <1>1, <1>2, <1>4, <2>1, AppendIsConcat
<1> HIDE DEF l
<1>6. lines' \in Seq(LineType)
  BY <1>2, <1>4, <1>5
<1>7. Types'
  BY <1>1, <1>2, <1>3, <1>6 DEF Types
<1>8. Readers'
  <2>1. OfKind(body[Own])' /\ OfKind(body[obj])'
    BY <1>1, <1>2, <1>3 DEF Readers, OfKind
  <2> QED BY <1>1, <1>2, <2>1 DEF Readers
<1>9. Whole'
  BY <1>1, <1>2, <1>3, WholeKept
<1>10. Logged'
  <2>1. PICK ms : ms = lines' /\ ms = Append(lines, l)
    BY <1>5
  <2>2. ASSUME NEW i \in LogLayers, i =< at - 1
        PROVE  Pending(ms, i, given)
    <3>1. i \in Nat /\ i =< at /\ l.by > i
      BY <1>2, <1>3, <1>4, <2>2
    <3>2. Pending(lines, i, given)
      BY <1>1, <1>2, <3>1 DEF Logged
    <3> QED BY <1>2, <1>4, <2>1, <3>1, <3>2, PendingKept
  <2>3. ASSUME NEW i \in LogLayers, i > at - 1
        PROVE  Done(ms, i, given, outcome)
    <3>1. i \in Nat
      BY <1>2
    <3>2. CASE i = at
      <4>1. Pending(lines, l.by, given)
        BY <1>1, <1>2, <1>3, <1>4, <3>2 DEF Logged
      <4> QED BY <1>2, <1>4, <2>1, <3>2, <4>1, PendingDone
    <3>3. CASE i # at
      <4>1. i > at /\ l.by < i
        BY <1>3, <1>4, <2>3, <3>1, <3>3
      <4>2. Done(lines, i, given, outcome)
        BY <1>1, <1>2, <4>1 DEF Logged
      <4> QED BY <1>2, <1>4, <2>1, <3>1, <4>1, <4>2, DoneKept
    <3> QED BY <3>2, <3>3
  <2> QED BY <1>1, <1>3, <2>1, <2>2, <2>3 DEF Logged
<1>11. Excused'
  BY <1>1, <1>2, <1>3, SameRequest
<1> QED BY <1>7, <1>8, <1>9, <1>10, <1>11 DEF IInv

LEMMA ReturnCloneStep == IInv /\ ReturnClone => IInv'
<1> SUFFICES ASSUME IInv, ReturnClone
             PROVE  IInv'
  OBVIOUS
<1>1. /\ mode = "up" /\ at > 0 /\ stack[at] = "clone" /\ at' = at - 1
      /\ stack' = stack /\ payload' = payload /\ declared' = declared /\ mode' = mode
      /\ attempt' = attempt /\ pos' = pos /\ heads' = heads /\ body' = body /\ obj' = obj
      /\ onwire' = onwire /\ outcome' = outcome /\ given' = given /\ lines' = lines
      /\ drained' = drained /\ resend' = resend
  BY DEF ReturnClone, client
<1>2. /\ Types /\ Readers /\ Excused /\ Whole /\ Logged /\ at \in 0..Len(stack)
      /\ Len(stack) \in Nat /\ LogLayers \subseteq 1..Len(stack)
  BY ConfigLemma DEF IInv, Types
<1>3. /\ Bytes' = Bytes /\ LogLayers' = LogLayers /\ at \in Nat /\ at - 1 \in 0..Len(stack)
      /\ at \notin LogLayers
  BY <1>1, <1>2 DEF Bytes, LogLayers
<1>4. Types'
  BY <1>1, <1>2, <1>3 DEF Types
<1>5. Readers'
  <2>1. OfKind(body[Own])' /\ OfKind(body[obj])'
    BY <1>1, <1>2, <1>3 DEF Readers, OfKind
  <2> QED BY <1>1, <1>2, <2>1 DEF Readers
<1>6. Whole'
  BY <1>1, <1>2, <1>3, WholeKept
<1>7. Logged'
  <2>1. ASSUME NEW i \in LogLayers
        PROVE  (i =< at - 1 => i =< at) /\ (i > at - 1 => i > at)
    BY <1>2, <1>3
  <2> QED BY <1>1, <1>2, <1>3, <2>1 DEF Logged
<1>8. Excused'
  BY <1>1, <1>2, <1>3, SameRequest
<1> QED BY <1>4, <1>5, <1>6, <1>7, <1>8 DEF IInv

LEMMA ReturnStep == IInv /\ Return => IInv'
<1> SUFFICES ASSUME IInv, Return
             PROVE  IInv'
  OBVIOUS
<1>1. /\ mode = "up" /\ at = 0 /\ mode' = "ready" /\ at' = at
      /\ stack' = stack /\ payload' = payload /\ declared' = declared
      /\ attempt' = attempt /\ pos' = pos /\ heads' = heads /\ body' = body /\ obj' = obj
      /\ onwire' = onwire /\ outcome' = outcome /\ given' = given /\ lines' = lines
      /\ drained' = drained /\ resend' = resend
  BY DEF Return, client
<1>2. Types /\ Readers /\ Excused /\ Whole /\ Logged /\ LogLayers \subseteq 1..Len(stack) /\ Len(stack) \in Nat
  BY ConfigLemma DEF IInv
<1>3. Bytes' = Bytes /\ LogLayers' = LogLayers
  BY <1>1 DEF Bytes, LogLayers
<1>4. Types'
  BY <1>1, <1>2 DEF Types
<1>5. Readers'
  <2>1. OfKind(body[Own])' /\ OfKind(body[obj])'
    BY <1>1, <1>2, <1>3 DEF Readers, OfKind
  <2> QED BY <1>1, <1>2, <2>1 DEF Readers
<1>6. Whole'
  BY <1>1 DEF Whole
<1>7. Logged'
  <2>1. \A i \in LogLayers : i > at
    BY <1>1, <1>2
  <2> QED BY <1>1, <1>2, <1>3, <2>1 DEF Logged
<1>8. Excused'
  BY <1>1, <1>2, <1>3, SameRequest
<1> QED BY <1>4, <1>5, <1>6, <1>7, <1>8 DEF IInv

LEMMA StutterStep == IInv /\ UNCHANGED vars => IInv'
<1> SUFFICES ASSUME IInv, UNCHANGED vars
             PROVE  IInv'
  OBVIOUS
<1>1. /\ mode' = mode /\ at' = at
      /\ stack' = stack /\ payload' = payload /\ declared' = declared
      /\ attempt' = attempt /\ pos' = pos /\ heads' = heads /\ body' = body /\ obj' = obj
      /\ onwire' = onwire /\ outcome' = outcome /\ given' = given /\ lines' = lines
      /\ drained' = drained /\ resend' = resend
  BY DEF vars
<1>2. Types /\ Readers /\ Excused /\ Whole /\ Logged
  BY DEF IInv
<1>3. Bytes' = Bytes /\ LogLayers' = LogLayers
  BY <1>1 DEF Bytes, LogLayers
<1>4. Types'
  BY <1>1, <1>2 DEF Types
<1>5. Readers'
  <2>1. OfKind(body[Own])' /\ OfKind(body[obj])'
    BY <1>1, <1>2, <1>3 DEF Readers, OfKind
  <2> QED BY <1>1, <1>2, <2>1 DEF Readers
<1>6. Whole'
  <2>1. CASE mode = "up"
    BY <1>1, <1>2, <1>3, <2>1, WholeKept
  <2>2. CASE mode # "up"
    <3>1. Held(heads, Len(heads), pos, Bytes, drained)' = Held(heads, Len(heads), pos, Bytes, drained)
      BY <1>1, <1>3 DEF Held, Downs, Drop
    <3> QED BY <1>1, <1>2, <2>2, <3>1 DEF Whole
  <2> QED BY <2>1, <2>2
<1>7. Logged'
  BY <1>1, <1>2, <1>3 DEF Logged
<1>8. Excused'
  BY <1>1, <1>2, <1>3, SameRequest
<1> QED BY <1>4, <1>5, <1>6, <1>7, <1>8 DEF IInv

LEMMA InitInvariant == Init => IInv
<1> SUFFICES ASSUME Init
             PROVE  IInv
  OBVIOUS
<1>1. /\ stack \in Stacks /\ payload \in Payloads /\ declared \in BOOLEAN
      /\ mode = "ready" /\ at = 0 /\ attempt = 0 /\ pos = 0 /\ heads = <<>> /\ obj = Own
      /\ body = [o \in 0..Len(stack) |-> Body(payload.kind, 0)]
      /\ outcome = "none" /\ lines = <<>> /\ drained = 0 /\ given = <<>>
  BY DEF Init
<1>2. Len(stack) \in Nat /\ payload.kind \in Kinds /\ payload.bytes \in Nat
  BY <1>1, StacksAssumption, PayloadsAssumption
<1>3. Body(payload.kind, 0) \in BodyType /\ Body(payload.kind, 0).reader = 0
      /\ OfKind(Body(payload.kind, 0))
  BY <1>2 DEF Body, BodyType, OfKind
<1>4. Own \in 0..Len(stack) /\ Len(heads) = 0
  BY <1>1, <1>2 DEF Own
<1>5. body \in [0..Len(stack) -> BodyType] /\ body[Own] = Body(payload.kind, 0) /\ body[obj] = body[Own]
  BY <1>1, <1>3, <1>4
<1>6. Types
  <2>1. heads \in Seq(Seq(Nat)) /\ lines \in Seq(LineType)
    BY <1>1
  <2>2. at \in 0..Len(stack) /\ pos \in 0..payload.bytes /\ attempt \in Nat
    BY <1>1, <1>2
  <2>3. obj \in 0..Len(stack) /\ outcome \in Outcomes /\ given \in Seq(Nat) /\ drained \in Nat
    BY <1>1, <1>4 DEF Outcomes
  <2> QED BY <1>1, <1>5, <2>1, <2>2, <2>3 DEF Types
<1>7. Readers
  BY <1>1, <1>3, <1>4, <1>5 DEF Readers
<1>8. Excused /\ Whole /\ Logged
  BY <1>1 DEF Excused, Whole, Logged
<1> QED BY <1>6, <1>7, <1>8 DEF IInv

LEMMA StepInvariant == IInv /\ [Next]_vars => IInv'
BY SendStep, SendFreshStep, SendSeekStep, LogRequestStep, CloneStep, PassOnStep, BreakStep,
   RespondStep, LogResultStep, ReturnCloneStep, ReturnStep, StutterStep DEF Next

-----------------------------------------------------------------------------
(***************************************************************************)
(* What follows.                                                           *)
(***************************************************************************)

\* The invariant holds of every run: for every stack of transports, payload, bound
\* of what a logger reads ahead, and number of attempts.
THEOREM Invariance == Spec => []IInv
<1>1. Init => IInv
  BY InitInvariant
<1>2. IInv /\ [Next]_vars => IInv'
  BY StepInvariant
<1> QED BY <1>1, <1>2, PTL DEF Spec

\* In every attempt the peer gets a beginning of what the client's request yields,
\* all of it that fits a declared length if the body was read out, framed as the
\* client declared it.  That is the client's payload unless a logger put its reader
\* into the client's own request and the client sends this again, rewound
\* (LoggerTransport, CorrelationTransport and CallerTransport).
THEOREM RequestArrivesAsGiven == Spec => []WireAsGiven
<1>1. ASSUME IInv
      PROVE  WireAsGiven
  <2>1. Types /\ Readers /\ Excused /\ Whole /\ obj \in 0..Len(stack)
    BY <1>1 DEF IInv, Types
  <2>2. View(obj) = ViewOf(body[obj], heads, pos, Bytes, drained)
    BY <2>1, ViewLemma
  <2>3. mode = "up" => attempt > 0
    BY <2>1 DEF Readers, Types
  <2> QED BY <2>1, <2>2, <2>3 DEF WireAsGiven, Whole, Excused
<1> QED BY <1>1, Invariance, PTL

\* Each LoggerTransport says of each attempt what the client's request yields and,
\* once, what came of it; what loggers inside it say lies in between.
THEOREM AttemptsAreLogged == Spec => []AttemptLogged
<1>1. ASSUME IInv
      PROVE  AttemptLogged
  <2> SUFFICES ASSUME mode = "ready", attempt > 0, NEW i \in LogLayers
               PROVE  \E m \in DOMAIN lines, n \in DOMAIN lines :
                         /\ lines[m].what = "out"
                         /\ lines[m].body
                              = SubSeq(given, 1, IF Len(given) < Limit THEN Len(given) ELSE Limit)
                         /\ lines[n].what = IF outcome = "failed" THEN "failed" ELSE "received"
                         /\ {x \in DOMAIN lines : lines[x].by = i} = {m, n}
                         /\ {x \in DOMAIN lines : lines[x].by > i} = (m + 1)..(n - 1)
    BY Zenon DEF AttemptLogged
  <2>1. Done(lines, i, given, outcome)
    BY <1>1 DEF IInv, Logged
  <2> QED BY <2>1, Zenon DEF Done, Told
<1> QED BY <1>1, Invariance, PTL
==============================================================================
