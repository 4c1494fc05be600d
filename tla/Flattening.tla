------------------------------ MODULE Flattening ------------------------------
(***************************************************************************)
(* What FlattenSeq of the community modules computes: facts the proofs     *)
(* about header fields and readers share.  Flatten is defined by recursion *)
(* on a position; that there is such a function, and only one, is shown    *)
(* with the least position at which it would fail.                         *)
(***************************************************************************)
EXTENDS Integers, Sequences, SequencesExt, NaturalsInduction, WellFoundedInduction,
        SequenceTheorems, TLAPS

\* A set of naturals that is not empty has a least element.
LEMMA Least ==
    ASSUME NEW T \in SUBSET Nat, T # {}
    PROVE  \E n \in T : \A m \in T : n =< m
<1>1. PICK n \in T : \A m \in Nat : <<m, n>> \in OpToRel(<, Nat) => m \notin T
  BY NatLessThanWellFounded, WFMin, Zenon
<1>2. ASSUME NEW m \in T, ~(n =< m) PROVE FALSE
  <2>1. m < n /\ m \in Nat /\ n \in Nat
    BY <1>2
  <2>2. <<m, n>> \in OpToRel(<, Nat)
    BY <2>1 DEF OpToRel
  <2> QED BY <1>1, <2>1, <2>2
<1> QED BY <1>2

LEMMA Appends ==
    ASSUME NEW S, NEW s \in Seq(S), NEW x \in S
    PROVE  /\ Append(s, x) \in Seq(S) /\ Append(s, x) # <<>>
           /\ Len(s) \in Nat /\ Len(Append(s, x)) = Len(s) + 1 /\ Append(s, x)[Len(s) + 1] = x
           /\ \A i \in 1..Len(s) : Append(s, x)[i] = s[i]
OBVIOUS

\* s with y for its last element.
LastPut(s, y) == [s EXCEPT ![Len(s)] = y]

LEMMA LastReplaced ==
    ASSUME NEW S, NEW s \in Seq(S), NEW x \in S, NEW y \in S
    PROVE  LastPut(Append(s, x), y) = Append(s, y)
<1> DEFINE t == Append(s, x)
           u == [t EXCEPT ![Len(t)] = y]
           v == Append(s, y)
<1>1. /\ t \in Seq(S) /\ Len(t) = Len(s) + 1 /\ Len(s) \in Nat
      /\ \A i \in 1..Len(s) : t[i] = s[i]
  BY Appends
<1>2. /\ v \in Seq(S) /\ Len(v) = Len(s) + 1 /\ v[Len(s) + 1] = y
      /\ \A i \in 1..Len(s) : v[i] = s[i]
  BY Appends
<1> HIDE DEF t, v
<1>3. Len(t) \in 1..Len(t)
  BY <1>1
<1>4. u \in Seq(S) /\ Len(u) = Len(t) /\ \A i \in 1..Len(t) : u[i] = IF i = Len(t) THEN y ELSE t[i]
  BY <1>1, <1>3, ExceptSeq
<1> HIDE DEF u
<1>5. ASSUME NEW i \in 1..Len(u) PROVE u[i] = v[i]
  <2>1. CASE i = Len(s) + 1
    BY <1>1, <1>2, <1>4, <2>1
  <2>2. CASE i # Len(s) + 1
    BY <1>1, <1>2, <1>4, <2>2
  <2> QED BY <2>1, <2>2
<1>6. u = v
  BY <1>1, <1>2, <1>4, <1>5, SeqEqual
<1> QED BY <1>6 DEF t, u, v, LastPut

LEMMA LastTaken ==
    ASSUME NEW S, NEW s \in Seq(S), s # <<>>
    PROVE  /\ Len(s) \in Nat /\ Len(s) # 0
           /\ \E front \in Seq(S), x \in S : s = Append(front, x)
<1>1. Len(s) \in Nat /\ Len(s) # 0
  OBVIOUS
<1>2. PICK k \in Nat : k + 1 = Len(s)
  <2>1. Len(s) - 1 \in Nat /\ (Len(s) - 1) + 1 = Len(s)
    BY <1>1
  <2> QED BY <2>1
<1>3. SubSeq(s, 1, k) \in Seq(S) /\ s[k + 1] \in S
  BY <1>2
<1>4. s = Append(SubSeq(s, 1, k), s[k + 1])
  BY <1>2
<1> QED BY <1>1, <1>3, <1>4

\* f is what FlattenSeq builds up from the first k sequences of ls.
Flattens(f, ls, k) ==
    f = [i \in 1..k |-> IF i = 1 THEN ls[i] ELSE f[i - 1] \o ls[i]]

LEMMA FlattensExists ==
    ASSUME NEW ls, NEW k \in Nat
    PROVE  \E f : Flattens(f, ls, k)
<1> DEFINE T == {n \in Nat : ~\E f : Flattens(f, ls, n)}
<1>1. SUFFICES ASSUME T # {} PROVE FALSE
  OBVIOUS
<1>2. PICK n \in T : \A m \in T : n =< m
  BY <1>1, Least
<1>3. n # 0
  <2>1. Flattens([i \in 1..0 |-> <<>>], ls, 0)
    BY DEF Flattens
  <2> QED BY <2>1
<1>4. n \in Nat /\ n - 1 \in Nat /\ n - 1 \notin T
  BY <1>2, <1>3
<1>5. PICK f : Flattens(f, ls, n - 1)
  BY <1>4
<1> DEFINE g == [i \in 1..n |-> IF i < n THEN f[i] ELSE IF n = 1 THEN ls[1] ELSE f[n - 1] \o ls[n]]
<1>6. ASSUME NEW i \in 1..n PROVE g[i] = IF i = 1 THEN ls[i] ELSE g[i - 1] \o ls[i]
  <2>1. CASE i = n
    BY <1>4, <2>1
  <2>2. CASE i < n
    <3>1. i \in 1..(n - 1)
      BY <1>4, <2>2
    <3>2. f[i] = IF i = 1 THEN ls[i] ELSE f[i - 1] \o ls[i]
      BY <1>5, <3>1, Zenon DEF Flattens
    <3>3. g[i] = f[i] /\ (i # 1 => g[i - 1] = f[i - 1])
      BY <1>4, <2>2
    <3> QED BY <3>2, <3>3
  <2> QED BY <1>4, <2>1, <2>2
<1>7. g = [i \in 1..n |-> IF i = 1 THEN ls[i] ELSE g[i - 1] \o ls[i]]
  <2> HIDE DEF g
  <2>1. g = [i \in 1..n |-> g[i]]
    BY DEF g
  <2> QED BY <1>6, <2>1
<1> HIDE DEF g
<1>8. Flattens(g, ls, n)
  BY <1>7 DEF Flattens
<1> QED BY <1>8

LEMMA FlattenIs ==
    ASSUME NEW S, NEW ls \in Seq(Seq(S)), ls # <<>>
    PROVE  \E f : Flattens(f, ls, Len(ls)) /\ FlattenSeq(ls) = f[Len(ls)]
<1>1. Len(ls) \in Nat /\ Len(ls) # 0
  BY LastTaken
<1> DEFINE f == CHOOSE f : f = [i \in 1..Len(ls) |-> IF i = 1 THEN ls[i] ELSE f[i - 1] \o ls[i]]
<1>2. FlattenSeq(ls) = f[Len(ls)]
  BY <1>1, Zenon DEF FlattenSeq
<1>3. Flattens(f, ls, Len(ls))
  <2>1. \E h : h = [i \in 1..Len(ls) |-> IF i = 1 THEN ls[i] ELSE h[i - 1] \o ls[i]]
    BY <1>1, FlattensExists DEF Flattens
  <2>2. f = [i \in 1..Len(ls) |-> IF i = 1 THEN ls[i] ELSE f[i - 1] \o ls[i]]
    BY <2>1, Zenon
  <2> HIDE DEF f
  <2> QED BY <2>2 DEF Flattens
<1> HIDE DEF f
<1> QED BY <1>2, <1>3

LEMMA FlattenEmpty == FlattenSeq(<<>>) = <<>>
BY DEF FlattenSeq

\* The flattening of sequences is one.
LEMMA FlattenType ==
    ASSUME NEW S, NEW ls \in Seq(Seq(S))
    PROVE  FlattenSeq(ls) \in Seq(S)
<1>1. CASE ls = <<>>
  <2>1. <<>> \in Seq(S)
    OBVIOUS
  <2> QED BY <1>1, <2>1, FlattenEmpty
<1>2. CASE ls # <<>>
  <2>1. PICK f : Flattens(f, ls, Len(ls)) /\ FlattenSeq(ls) = f[Len(ls)]
    BY <1>2, FlattenIs
  <2> DEFINE T == {i \in 1..Len(ls) : f[i] \notin Seq(S)}
  <2>2. SUFFICES ASSUME T # {} PROVE FALSE
    BY <1>2, <2>1
  <2>0. T \in SUBSET Nat
    OBVIOUS
  <2>3. PICK i \in T : \A j \in T : i =< j
    BY <2>0, <2>2, Least
  <2>4. i \in 1..Len(ls) /\ f[i] \notin Seq(S) /\ i - 1 \notin T
    BY <2>3
  <2>5. f[i] = IF i = 1 THEN ls[i] ELSE f[i - 1] \o ls[i]
    BY <2>1, <2>4, Zenon DEF Flattens
  <2>6. ls[i] \in Seq(S)
    BY <2>4
  <2>7. i # 1 => f[i - 1] \in Seq(S)
    BY <2>4
  <2> QED BY <2>4, <2>5, <2>6, <2>7
<1> QED BY <1>1, <1>2

\* The last sequence comes last.
LEMMA FlattenAppend ==
    ASSUME NEW S, NEW ls \in Seq(Seq(S)), NEW x \in Seq(S)
    PROVE  FlattenSeq(Append(ls, x)) = FlattenSeq(ls) \o x
<1> DEFINE ms == Append(ls, x)
<1>1. /\ ms \in Seq(Seq(S)) /\ ms # <<>> /\ Len(ms) = Len(ls) + 1 /\ ms[Len(ls) + 1] = x
      /\ \A i \in 1..Len(ls) : ms[i] = ls[i]
      /\ Len(ls) \in Nat /\ Len(ls) + 1 \in Nat
  BY Appends
<1> HIDE DEF ms
<1>2. PICK f : Flattens(f, ms, Len(ls) + 1) /\ FlattenSeq(ms) = f[Len(ls) + 1]
  BY <1>1, FlattenIs
<1>3. f[Len(ls) + 1] = IF Len(ls) + 1 = 1 THEN x ELSE f[Len(ls)] \o x
  <2>1. Len(ls) + 1 \in 1..(Len(ls) + 1) /\ (Len(ls) + 1) - 1 = Len(ls)
    BY <1>1
  <2> QED BY <1>1, <1>2, <2>1, Zenon DEF Flattens
<1>4. CASE ls = <<>>
  <2>1. f[Len(ls) + 1] = x
    BY <1>3, <1>4
  <2>2. <<>> \o x = x
    OBVIOUS
  <2> QED BY <1>2, <1>4, <2>1, <2>2, FlattenEmpty DEF ms
<1>5. CASE ls # <<>>
  <2>1. PICK g : Flattens(g, ls, Len(ls)) /\ FlattenSeq(ls) = g[Len(ls)]
    BY <1>5, FlattenIs
  <2>2. \A i \in 1..Len(ls) : g[i] = f[i]
    <3> DEFINE T == {i \in 1..Len(ls) : g[i] # f[i]}
    <3>1. SUFFICES ASSUME T # {} PROVE FALSE
      OBVIOUS
    <3>2. T \in SUBSET Nat
      OBVIOUS
    <3>3. PICK i \in T : \A j \in T : i =< j
      BY <3>1, <3>2, Least
    <3>4. /\ i \in 1..Len(ls) /\ i \in 1..(Len(ls) + 1) /\ g[i] # f[i] /\ i - 1 \notin T
      BY <1>1, <3>3
    <3>5. g[i] = IF i = 1 THEN ls[i] ELSE g[i - 1] \o ls[i]
      BY <2>1, <3>4, Zenon DEF Flattens
    <3>6. f[i] = IF i = 1 THEN ms[i] ELSE f[i - 1] \o ms[i]
      BY <1>2, <3>4, Zenon DEF Flattens
    <3>7. i # 1 => g[i - 1] = f[i - 1]
      BY <1>1, <3>4
    <3> QED BY <1>1, <3>4, <3>5, <3>6, <3>7
  <2>3. Len(ls) \in 1..Len(ls) /\ Len(ls) + 1 # 1
    BY <1>1, <1>5
  <2>4. f[Len(ls) + 1] = g[Len(ls)] \o x
    BY <1>3, <2>2, <2>3
  <2> QED BY <1>2, <2>1, <2>4 DEF ms
<1> QED BY <1>4, <1>5

\* What is put behind the last sequence comes behind the flattening.
LEMMA FlattenExtend ==
    ASSUME NEW S, NEW ls \in Seq(Seq(S)), ls # <<>>, NEW e \in S
    PROVE  FlattenSeq([ls EXCEPT ![Len(ls)] = Append(@, e)]) = Append(FlattenSeq(ls), e)
<1>2. PICK front \in Seq(Seq(S)), x \in Seq(S) : ls = Append(front, x)
  BY LastTaken
<1>5. Append(x, e) \in Seq(S)
  OBVIOUS
<1>3. [ls EXCEPT ![Len(ls)] = Append(@, e)] = Append(front, Append(x, e))
  <2>1. ls[Len(ls)] = x
    BY <1>2, Appends
  <2>2. LastPut(ls, Append(x, e)) = Append(front, Append(x, e))
    BY <1>2, <1>5, LastReplaced
  <2> QED BY <2>1, <2>2 DEF LastPut
<1>4. FlattenSeq(ls) = FlattenSeq(front) \o x
  BY <1>2, FlattenAppend
<1>6. FlattenSeq(Append(front, Append(x, e))) = FlattenSeq(front) \o Append(x, e)
  BY <1>2, <1>5, FlattenAppend
<1>7. FlattenSeq(front) \in Seq(S)
  BY FlattenType
<1>8. FlattenSeq(front) \o Append(x, e) = Append(FlattenSeq(front) \o x, e)
  BY <1>7
<1> QED BY <1>3, <1>4, <1>6, <1>8

LEMMA SetOfConcat ==
    ASSUME NEW S, NEW s \in Seq(S), NEW t \in Seq(S)
    PROVE  \A x : x \in ToSet(s \o t) <=> x \in ToSet(s) \/ x \in ToSet(t)
<1>1. /\ s \o t \in Seq(S) /\ Len(s \o t) = Len(s) + Len(t) /\ Len(s) \in Nat /\ Len(t) \in Nat
      /\ \A i \in 1..(Len(s) + Len(t)) : (s \o t)[i] = IF i =< Len(s) THEN s[i] ELSE t[i - Len(s)]
  BY ConcatProperties
<1>2. DOMAIN s = 1..Len(s) /\ DOMAIN t = 1..Len(t) /\ DOMAIN (s \o t) = 1..(Len(s) + Len(t))
  BY <1>1
<1>3. ASSUME NEW i \in 1..(Len(s) + Len(t))
      PROVE  (\E j \in 1..Len(s) : (s \o t)[i] = s[j]) \/ (\E j \in 1..Len(t) : (s \o t)[i] = t[j])
  <2>1. CASE i =< Len(s)
    BY <1>1, <2>1
  <2>2. CASE ~(i =< Len(s))
    <3>1. i - Len(s) \in 1..Len(t) /\ (s \o t)[i] = t[i - Len(s)]
      BY <1>1, <2>2
    <3> QED BY <3>1
  <2> QED BY <2>1, <2>2
<1>4. ASSUME NEW j \in 1..Len(s) PROVE \E i \in 1..(Len(s) + Len(t)) : (s \o t)[i] = s[j]
  <2>1. j \in 1..(Len(s) + Len(t)) /\ j =< Len(s)
    BY <1>1
  <2> QED BY <1>1, <2>1
<1>5. ASSUME NEW j \in 1..Len(t) PROVE \E i \in 1..(Len(s) + Len(t)) : (s \o t)[i] = t[j]
  <2>1. PICK i \in 1..(Len(s) + Len(t)) : i = j + Len(s) /\ ~(i =< Len(s)) /\ i - Len(s) = j
    <3>1. j + Len(s) \in 1..(Len(s) + Len(t)) /\ ~(j + Len(s) =< Len(s)) /\ (j + Len(s)) - Len(s) = j
      BY <1>1
    <3> QED BY <3>1
  <2> QED BY <1>1, <2>1
<1>6. /\ ToSet(s) = {s[i] : i \in 1..Len(s)} /\ ToSet(t) = {t[i] : i \in 1..Len(t)}
      /\ ToSet(s \o t) = {(s \o t)[i] : i \in 1..(Len(s) + Len(t))}
  BY <1>2, Zenon DEF ToSet
<1> DEFINE c == s \o t
<1> HIDE DEF c
<1>7. \A x : x \in {c[i] : i \in 1..(Len(s) + Len(t))} <=>
                x \in {s[i] : i \in 1..Len(s)} \/ x \in {t[i] : i \in 1..Len(t)}
  <2>1. \A i \in 1..(Len(s) + Len(t)) :
           (\E j \in 1..Len(s) : c[i] = s[j]) \/ (\E j \in 1..Len(t) : c[i] = t[j])
    BY <1>3, Zenon DEF c
  <2>2. \A j \in 1..Len(s) : \E i \in 1..(Len(s) + Len(t)) : c[i] = s[j]
    BY <1>4, Zenon DEF c
  <2>3. \A j \in 1..Len(t) : \E i \in 1..(Len(s) + Len(t)) : c[i] = t[j]
    BY <1>5, Zenon DEF c
  <2>4. ASSUME NEW x, x \in {c[i] : i \in 1..(Len(s) + Len(t))}
        PROVE  x \in {s[i] : i \in 1..Len(s)} \/ x \in {t[i] : i \in 1..Len(t)}
    BY <2>1, <2>4, Zenon
  <2>5. ASSUME NEW j \in 1..Len(s) PROVE s[j] \in {c[i] : i \in 1..(Len(s) + Len(t))}
    BY <2>2, Zenon
  <2>6. ASSUME NEW j \in 1..Len(t) PROVE t[j] \in {c[i] : i \in 1..(Len(s) + Len(t))}
    BY <2>3, Zenon
  <2> QED BY <2>4, <2>5, <2>6, Zenon
<1> QED BY <1>6, <1>7, Zenon DEF c

\* The flattening holds what the sequences do.
Gathers(ls) ==
    \A x : x \in ToSet(FlattenSeq(ls)) <=> \E i \in DOMAIN ls : x \in ToSet(ls[i])

LEMMA FlattenMembers ==
    ASSUME NEW S, NEW seq \in Seq(Seq(S))
    PROVE  Gathers(seq)
<1> DEFINE T == {n \in Nat : \E ls \in Seq(Seq(S)) : Len(ls) = n /\ ~Gathers(ls)}
<1>1. SUFFICES ASSUME T # {} PROVE FALSE
  BY LenProperties
<1>2. PICK n \in T : \A m \in T : n =< m
  BY <1>1, Least
<1>3. PICK ls \in Seq(Seq(S)) : Len(ls) = n /\ ~Gathers(ls)
  BY <1>2
<1>4. ls # <<>>
  <2>1. ToSet(<<>>) = {}
    BY DEF ToSet
  <2>2. Gathers(<<>>)
    BY <2>1, FlattenEmpty DEF Gathers
  <2> QED BY <1>3, <2>2
<1>5. PICK front \in Seq(Seq(S)), x \in Seq(S) : ls = Append(front, x)
  BY <1>4, LastTaken
<1>6. /\ Len(front) \in Nat /\ Len(ls) = Len(front) + 1 /\ ls[Len(front) + 1] = x
      /\ \A i \in 1..Len(front) : ls[i] = front[i]
  BY <1>5, Appends
<1>7. Gathers(front)
  <2>1. n \in Nat /\ ~(n =< Len(front))
    BY <1>2, <1>3, <1>6
  <2>2. Len(front) \notin T
    BY <1>2, <2>1, Zenon
  <2> QED BY <1>6, <2>2, Zenon
<1>8. \A y : y \in ToSet(FlattenSeq(ls)) <=> y \in ToSet(FlattenSeq(front)) \/ y \in ToSet(x)
  <2>1. FlattenSeq(ls) = FlattenSeq(front) \o x
    BY <1>5, FlattenAppend
  <2>2. FlattenSeq(front) \in Seq(S)
    BY FlattenType
  <2> QED BY <2>1, <2>2, SetOfConcat
<1>9. \A y : (\E i \in DOMAIN ls : y \in ToSet(ls[i])) <=>
                (\E i \in DOMAIN front : y \in ToSet(front[i])) \/ y \in ToSet(x)
  <2>1. DOMAIN ls = 1..(Len(front) + 1) /\ DOMAIN front = 1..Len(front)
    BY <1>6
  <2>2. 1..(Len(front) + 1) = 1..Len(front) \cup {Len(front) + 1}
    BY <1>6
  <2> QED BY <1>6, <2>1, <2>2
<1>10. Gathers(ls)
  BY <1>7, <1>8, <1>9, Zenon DEF Gathers
<1> QED BY <1>3, <1>10
==============================================================================
