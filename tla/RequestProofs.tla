---------------------------- MODULE RequestProofs ----------------------------
(***************************************************************************)
(* What the middleware makes of a request.                                 *)
(*                                                                         *)
(* That the address httpx reports is the last one on the real route that   *)
(* is no trusted proxy, and that fiber behind proxies reports the client,  *)
(* for every set of addresses, of spellings and of trusted proxies, every  *)
(* header a client sends, every route and every split into field lines.    *)
(* The inductive invariant says that the header ends with the route: what  *)
(* proxies wrote cannot be changed by what the client wrote before.  Where *)
(* the walk over that header stops is found with the least position it     *)
(* reaches.                                                                *)
(*                                                                         *)
(* That no line shows what stands under a listed name, but for the bodies  *)
(* on httpx's, and every line the rest, and that httpx holds back the      *)
(* paths a rule names, for every set of names, every query, header, path   *)
(* and body.  A line is computed from the request alone, so the inductive  *)
(* invariant is what a request can be, and the work is in what the         *)
(* operators compute: that the recursive functions over JSON values exist  *)
(* and what they give, level by level, and that redaction and the leaves   *)
(* of a body agree from the parts to the whole.                            *)
(***************************************************************************)
EXTENDS ClientIP, Redaction, Flattening, TLAPS

\* A header's field lines joined, when it ends with the route without its last
\* address; the first hop is that of the first line.
Carried(ls, rt) ==
    /\ Len(FlattenSeq(ls)) >= Len(rt) - 1
    /\ \A i \in 1..(Len(rt) - 1) :
          LET hop == FlattenSeq(ls)[Len(FlattenSeq(ls)) - (Len(rt) - 1) + i]
          IN  hop.addr = rt[i] /\ hop.spelling # "garbage"
    /\ ls # <<>> => ls[1] # <<>> /\ FlattenSeq(ls) # <<>> /\ FlattenSeq(ls)[1] = ls[1][1]

IInv ==
    /\ TypeOK /\ Len(route) > 0
    /\ Carried(lines, route)
    /\ NearestUntrusted

-----------------------------------------------------------------------------
(***************************************************************************)
(* The header.                                                             *)
(***************************************************************************)

LEMMA HopLemma ==
    /\ \A hop \in Hops : Parses(hop) => ParseHop(hop) \in Addresses
    /\ \A a \in Addresses, p \in Spellings :
          LET hop == [addr |-> a, spelling |-> p]
          IN  hop \in Hops /\ hop.addr = a /\ hop.spelling # "garbage"
BY AddressesAssumption DEF Hops, Garbage, Parses, ParseHop, NoAddress

OneMore(ls, hop, l) ==
    \/ l = Append(ls, <<hop>>)
    \/ ls # <<>> /\ l = [ls EXCEPT ![Len(ls)] = Append(@, hop)]

\* One hop more, on a field line of its own or at the end of the last: it is the
\* last of the list, and the first stays the first.
LEMMA HopAdded ==
    ASSUME NEW ls \in Seq(Seq(Hops)), NEW hop \in Hops, NEW l,
           OneMore(ls, hop, l),
           ls # <<>> => ls[1] # <<>>
    PROVE  /\ l \in Seq(Seq(Hops)) /\ l # <<>> /\ l[1] # <<>>
           /\ FlattenSeq(l) = Append(FlattenSeq(ls), hop)
           /\ ls # <<>> => l[1][1] = ls[1][1]
           /\ ls = <<>> => l[1][1] = hop
<1>0. Len(ls) \in Nat /\ (ls = <<>> <=> Len(ls) = 0)
  OBVIOUS
<1>1. CASE l = Append(ls, <<hop>>)
  <2>1. <<hop>> \in Seq(Hops) /\ <<hop>> # <<>> /\ <<hop>>[1] = hop
    OBVIOUS
  <2>2. /\ l \in Seq(Seq(Hops)) /\ l # <<>> /\ l[Len(ls) + 1] = <<hop>>
        /\ \A i \in 1..Len(ls) : l[i] = ls[i]
    BY <1>1, <2>1, Appends
  <2>3. FlattenSeq(l) = FlattenSeq(ls) \o <<hop>>
    BY <1>1, <2>1, FlattenAppend
  <2>4. FlattenSeq(l) = Append(FlattenSeq(ls), hop)
    <3>1. FlattenSeq(ls) \in Seq(Hops)
      BY FlattenType
    <3> QED BY <2>3, <3>1, AppendIsConcat
  <2>5. ls # <<>> => l[1] = ls[1]
    BY <1>0, <2>2
  <2>6. ls = <<>> => l[1] = <<hop>>
    BY <1>0, <2>2
  <2> QED BY <2>1, <2>2, <2>4, <2>5, <2>6
<1>2. CASE ls # <<>> /\ l = [ls EXCEPT ![Len(ls)] = Append(@, hop)]
  <2>1. Len(ls) \in 1..Len(ls) /\ 1 \in 1..Len(ls)
    BY <1>0, <1>2
  <2>2. ls[Len(ls)] \in Seq(Hops) /\ ls[1] \in Seq(Hops)
    BY <2>1
  <2>3. Append(ls[Len(ls)], hop) \in Seq(Hops)
    BY <2>2
  <2>4. /\ l \in Seq(Seq(Hops)) /\ Len(l) = Len(ls)
        /\ l[1] = IF 1 = Len(ls) THEN Append(ls[Len(ls)], hop) ELSE ls[1]
    BY <1>2, <2>1, <2>3, ExceptSeq
  <2>5. FlattenSeq(l) = Append(FlattenSeq(ls), hop)
    BY <1>2, FlattenExtend
  <2>6. l[1] = ls[1] \/ l[1] = Append(ls[1], hop)
    BY <2>4
  <2>7. Append(ls[1], hop) # <<>> /\ Append(ls[1], hop)[1] = ls[1][1]
    <3>1. ls[1] # <<>>
      BY <1>2
    <3>2. Len(ls[1]) \in Nat /\ Len(ls[1]) # 0
      BY <2>2, <3>1
    <3>3. 1 \in 1..Len(ls[1])
      BY <3>2
    <3> QED BY <2>2, <3>3, Appends
  <2>8. l # <<>>
    BY <1>0, <1>2, <2>4
  <2> QED BY <1>2, <2>4, <2>5, <2>6, <2>7, <2>8
<1> QED BY <1>1, <1>2 DEF OneMore

\* What the client adds itself, before any proxy, leaves the header carrying the
\* route, which is the client alone.
LEMMA ForgedCarries ==
    ASSUME NEW ls \in Seq(Seq(Hops)), NEW rt \in Seq(Addresses), Len(rt) = 1,
           Carried(ls, rt), NEW hop \in Hops, NEW l,
           OneMore(ls, hop, l)
    PROVE  l \in Seq(Seq(Hops)) /\ Carried(l, rt)
<1> DEFINE J == FlattenSeq(ls)
           K == FlattenSeq(l)
<1>1. /\ ls # <<>> => ls[1] # <<>> /\ J # <<>> /\ J[1] = ls[1][1]
      /\ J \in Seq(Hops)
  BY FlattenType DEF Carried
<1>2. /\ l \in Seq(Seq(Hops)) /\ l # <<>> /\ l[1] # <<>> /\ K = Append(J, hop)
      /\ ls # <<>> => l[1][1] = ls[1][1]
      /\ ls = <<>> => l[1][1] = hop
  BY <1>1, HopAdded
<1>3. ls = <<>> => J = <<>>
  BY FlattenEmpty
<1> HIDE DEF J, K
<1>4. /\ K \in Seq(Hops) /\ K # <<>> /\ Len(J) \in Nat /\ Len(K) = Len(J) + 1
      /\ K[Len(J) + 1] = hop /\ \A i \in 1..Len(J) : K[i] = J[i]
  <2>1. J \in Seq(Hops) /\ K = Append(J, hop)
    BY <1>1, <1>2
  <2> QED BY <2>1, Appends
<1>5. K[1] = l[1][1]
  <2>1. CASE ls = <<>>
    <3>1. Len(J) = 0
      BY <1>3, <2>1
    <3> QED BY <1>2, <1>4, <2>1, <3>1
  <2>2. CASE ls # <<>>
    <3>1. 1 \in 1..Len(J)
      BY <1>1, <1>4, <2>2
    <3> QED BY <1>1, <1>2, <1>4, <2>2, <3>1
  <2> QED BY <2>1, <2>2
<1>6. Len(rt) - 1 = 0 /\ 1..(Len(rt) - 1) = {}
  OBVIOUS
<1>7. Len(K) >= Len(rt) - 1
  BY <1>4, <1>6
<1> QED BY <1>2, <1>4, <1>5, <1>6, <1>7 DEF Carried, K

\* A proxy appends the address it was called from: one address more of the route.
LEMMA ForwardedCarries ==
    ASSUME NEW ls \in Seq(Seq(Hops)), NEW rt \in Seq(Addresses), Len(rt) > 0,
           Carried(ls, rt), NEW a \in Addresses, NEW hop \in Hops,
           hop.addr = rt[Len(rt)], hop.spelling # "garbage", NEW l,
           OneMore(ls, hop, l)
    PROVE  l \in Seq(Seq(Hops)) /\ Carried(l, Append(rt, a))
<1> DEFINE J == FlattenSeq(ls)
           K == FlattenSeq(l)
           r == Append(rt, a)
<1>1. /\ ls # <<>> => ls[1] # <<>> /\ J # <<>> /\ J[1] = ls[1][1]
      /\ J \in Seq(Hops) /\ Len(J) >= Len(rt) - 1
      /\ \A i \in 1..(Len(rt) - 1) : /\ J[Len(J) - (Len(rt) - 1) + i].addr = rt[i]
                                     /\ J[Len(J) - (Len(rt) - 1) + i].spelling # "garbage"
  BY FlattenType DEF Carried
<1>2. /\ l \in Seq(Seq(Hops)) /\ l # <<>> /\ l[1] # <<>> /\ K = Append(J, hop)
      /\ ls # <<>> => l[1][1] = ls[1][1]
      /\ ls = <<>> => l[1][1] = hop
  BY <1>1, HopAdded
<1>3. ls = <<>> => J = <<>>
  BY FlattenEmpty
<1>4. /\ Len(rt) \in Nat /\ Len(r) = Len(rt) + 1
      /\ \A i \in 1..Len(rt) : r[i] = rt[i]
  BY Appends
<1> HIDE DEF J, K, r
<1>5. /\ K \in Seq(Hops) /\ K # <<>> /\ Len(J) \in Nat /\ Len(K) = Len(J) + 1
      /\ K[Len(J) + 1] = hop /\ \A i \in 1..Len(J) : K[i] = J[i]
  <2>1. J \in Seq(Hops) /\ K = Append(J, hop)
    BY <1>1, <1>2
  <2> QED BY <2>1, Appends
<1>6. K[1] = l[1][1]
  <2>1. CASE ls = <<>>
    <3>1. Len(J) = 0
      BY <1>3, <2>1
    <3> QED BY <1>2, <1>5, <2>1, <3>1
  <2>2. CASE ls # <<>>
    <3>1. 1 \in 1..Len(J)
      BY <1>1, <1>5, <2>2
    <3> QED BY <1>1, <1>2, <1>5, <2>2, <3>1
  <2> QED BY <2>1, <2>2
<1>7. ASSUME NEW i \in 1..(Len(r) - 1)
      PROVE  /\ K[Len(K) - (Len(r) - 1) + i].addr = r[i]
             /\ K[Len(K) - (Len(r) - 1) + i].spelling # "garbage"
  <2>1. i \in 1..Len(rt) /\ r[i] = rt[i]
    BY <1>4
  <2>2. PICK q \in Int : q = Len(K) - (Len(r) - 1) + i
    <3>1. Len(K) \in Nat /\ Len(r) \in Nat /\ i \in Nat
      BY <1>4, <1>5, <2>1
    <3>2. Len(K) - (Len(r) - 1) + i \in Int
      BY <3>1
    <3> QED BY <3>2
  <2>3. CASE i = Len(rt)
    <3>1. q = Len(J) + 1
      BY <1>4, <1>5, <2>2, <2>3
    <3>2. K[q] = hop
      BY <1>5, <3>1
    <3> QED BY <2>1, <2>2, <2>3, <3>2
  <2>4. CASE i # Len(rt)
    <3>1. i \in 1..(Len(rt) - 1)
      BY <1>4, <2>1, <2>4
    <3>2. /\ Len(K) = Len(J) + 1 /\ Len(J) \in Nat /\ Len(r) = Len(rt) + 1 /\ Len(rt) \in Nat
          /\ Len(J) >= Len(rt) - 1 /\ i \in Int
      BY <1>1, <1>4, <1>5, <3>1
    <3>3. q = Len(J) - (Len(rt) - 1) + i
      BY <2>2, <3>2
    <3>4. q \in 1..Len(J)
      BY <3>2, <3>1, <3>3
    <3>5. K[q] = J[q]
      BY <1>5, <3>4
    <3>6. J[q].addr = rt[i] /\ J[q].spelling # "garbage"
      BY <1>1, <3>1, <3>3
    <3> QED BY <2>1, <2>2, <3>5, <3>6
  <2> QED BY <2>3, <2>4
<1>8. Len(K) >= Len(r) - 1
  BY <1>1, <1>4, <1>5
<1> QED BY <1>2, <1>5, <1>6, <1>7, <1>8 DEF Carried, K, r

-----------------------------------------------------------------------------
(***************************************************************************)
(* The walk from the right end.                                            *)
(***************************************************************************)

\* w is what the walk computes of the first k hops.
Walks(w, hops, k) ==
    w = [i \in 0..k |->
          IF i = 0 \/ ~Parses(hops[i]) THEN Peer
          ELSE IF ~Trusts(ParseHop(hops[i])) THEN ParseHop(hops[i])
          ELSE w[i - 1]]

LEMMA WalksExists ==
    ASSUME NEW hops, NEW k \in Nat
    PROVE  \E w : Walks(w, hops, k)
<1> DEFINE T == {n \in Nat : ~\E w : Walks(w, hops, n)}
<1>1. SUFFICES ASSUME T # {} PROVE FALSE
  OBVIOUS
<1>2. PICK n \in T : \A m \in T : n =< m
  BY <1>1, Least
<1>3. n # 0
  <2> DEFINE w == [i \in 0..0 |-> Peer]
  <2>1. w = [i \in 0..0 |->
              IF i = 0 \/ ~Parses(hops[i]) THEN Peer
              ELSE IF ~Trusts(ParseHop(hops[i])) THEN ParseHop(hops[i])
              ELSE w[i - 1]]
    OBVIOUS
  <2> HIDE DEF w
  <2>2. Walks(w, hops, 0)
    BY <2>1 DEF Walks
  <2> QED BY <2>2
<1>4. n \in Nat /\ n - 1 \in Nat /\ n - 1 \notin T
  BY <1>2, <1>3
<1>5. PICK v : Walks(v, hops, n - 1)
  BY <1>4
<1> DEFINE w == [i \in 0..n |->
                  IF i < n THEN v[i]
                  ELSE IF ~Parses(hops[i]) THEN Peer
                  ELSE IF ~Trusts(ParseHop(hops[i])) THEN ParseHop(hops[i])
                  ELSE v[i - 1]]
<1>6. ASSUME NEW i \in 0..n
      PROVE  w[i] = IF i = 0 \/ ~Parses(hops[i]) THEN Peer
                    ELSE IF ~Trusts(ParseHop(hops[i])) THEN ParseHop(hops[i])
                    ELSE w[i - 1]
  <2>1. CASE i = n
    <3>1. i # 0 /\ ~(i < n) /\ i - 1 \in 0..n /\ i - 1 < n
      BY <1>3, <1>4, <2>1
    <3>2. w[i - 1] = v[i - 1]
      BY <3>1
    <3>3. w[i] = IF ~Parses(hops[i]) THEN Peer
                 ELSE IF ~Trusts(ParseHop(hops[i])) THEN ParseHop(hops[i])
                 ELSE v[i - 1]
      BY <3>1
    <3> HIDE DEF w
    <3> QED BY <3>1, <3>2, <3>3
  <2>2. CASE i < n
    <3>1. i \in 0..(n - 1)
      BY <1>4, <2>2
    <3>2. v[i] = IF i = 0 \/ ~Parses(hops[i]) THEN Peer
                 ELSE IF ~Trusts(ParseHop(hops[i])) THEN ParseHop(hops[i])
                 ELSE v[i - 1]
      BY <1>5, <3>1, Zenon DEF Walks
    <3>3. w[i] = v[i] /\ (i # 0 => w[i - 1] = v[i - 1])
      BY <1>4, <2>2
    <3> HIDE DEF w
    <3> QED BY <3>2, <3>3
  <2> QED BY <1>4, <2>1, <2>2
<1>7. w = [i \in 0..n |-> w[i]]
  OBVIOUS
<1> HIDE DEF w
<1>8. Walks(w, hops, n)
  BY <1>6, <1>7, Zenon DEF Walks
<1> QED BY <1>2, <1>8

LEMMA WalkIs ==
    ASSUME NEW hops \in Seq(Hops)
    PROVE  \E w : Walks(w, hops, Len(hops)) /\ Walk(hops) = w[Len(hops)]
<1> DEFINE w == CHOOSE w : w = [i \in 0..Len(hops) |->
                             IF i = 0 \/ ~Parses(hops[i]) THEN Peer
                             ELSE IF ~Trusts(ParseHop(hops[i])) THEN ParseHop(hops[i])
                             ELSE w[i - 1]]
<1>1. Walk(hops) = w[Len(hops)]
  BY Zenon DEF Walk
<1>2. Walks(w, hops, Len(hops))
  <2>0. Len(hops) \in Nat
    OBVIOUS
  <2>1. \E v : v = [i \in 0..Len(hops) |->
                     IF i = 0 \/ ~Parses(hops[i]) THEN Peer
                     ELSE IF ~Trusts(ParseHop(hops[i])) THEN ParseHop(hops[i])
                     ELSE v[i - 1]]
    BY <2>0, WalksExists DEF Walks
  <2>2. w = [i \in 0..Len(hops) |->
              IF i = 0 \/ ~Parses(hops[i]) THEN Peer
              ELSE IF ~Trusts(ParseHop(hops[i])) THEN ParseHop(hops[i])
              ELSE w[i - 1]]
    BY <2>1, Zenon
  <2> HIDE DEF w
  <2> QED BY <2>2 DEF Walks
<1> HIDE DEF w
<1> QED BY <1>1, <1>2

\* Where the walk stops: every hop right of that parses and is trusted; what is
\* reported is the hop there if it is an address, and the peer otherwise.
LEMMA WalkStops ==
    ASSUME NEW hops \in Seq(Hops)
    PROVE  \E k \in 0..Len(hops) :
              /\ \A j \in (k + 1)..Len(hops) : Parses(hops[j]) /\ hops[j].addr \in trusted
              /\ \/ (k = 0 \/ ~Parses(hops[k])) /\ Walk(hops) = Peer
                 \/ /\ k # 0 /\ Parses(hops[k]) /\ hops[k].addr \notin trusted
                    /\ Walk(hops) = hops[k].addr
<1> DEFINE n == Len(hops)
<1>0. n \in Nat
  OBVIOUS
<1> HIDE DEF n
<1>1. PICK w : Walks(w, hops, n) /\ Walk(hops) = w[n]
  BY WalkIs DEF n
<1> DEFINE T == {k \in 0..n : /\ w[k] = w[n]
                              /\ \A j \in (k + 1)..n : Parses(hops[j]) /\ hops[j].addr \in trusted}
<1>2. n \in T /\ T \in SUBSET Nat
  BY <1>0
<1>3. PICK k \in T : \A m \in T : k =< m
  <2> HIDE DEF T
  <2>1. T # {}
    BY <1>2
  <2> QED BY <1>2, <2>1, Least
<1>4. /\ k \in 0..n /\ w[k] = w[n]
      /\ \A j \in (k + 1)..n : Parses(hops[j]) /\ hops[j].addr \in trusted
  OBVIOUS
<1>5. w[k] = IF k = 0 \/ ~Parses(hops[k]) THEN Peer
             ELSE IF ~Trusts(ParseHop(hops[k])) THEN ParseHop(hops[k])
             ELSE w[k - 1]
  BY <1>1, <1>4, Zenon DEF Walks
<1>6. CASE k = 0 \/ ~Parses(hops[k])
  BY <1>1, <1>4, <1>5, <1>6 DEF n
<1>7. CASE ~(k = 0 \/ ~Parses(hops[k])) /\ hops[k].addr \notin trusted
  BY <1>1, <1>4, <1>5, <1>7 DEF n, Trusts, ParseHop
<1>8. CASE ~(k = 0 \/ ~Parses(hops[k])) /\ hops[k].addr \in trusted
  <2>1. w[k - 1] = w[n]
    BY <1>4, <1>5, <1>8 DEF Trusts, ParseHop
  <2>2. k - 1 \in 0..n /\ k - 1 < k
    BY <1>0, <1>4, <1>8
  <2>3. ASSUME NEW j \in ((k - 1) + 1)..n
        PROVE  Parses(hops[j]) /\ hops[j].addr \in trusted
    <3>1. j = k \/ j \in (k + 1)..n
      BY <1>0, <1>4
    <3> QED BY <1>4, <1>8, <3>1
  <2>4. k - 1 \in T
    BY <2>1, <2>2, <2>3
  <2>5. k =< k - 1
    BY <1>3, <2>4
  <2> QED BY <1>4, <2>5
<1> QED BY <1>6, <1>7, <1>8

-----------------------------------------------------------------------------
(***************************************************************************)
(* What the resolver reports.                                              *)
(***************************************************************************)

\* NearestUntrusted of an address the resolver would report.
Nearest(a) ==
    \/ \E i \in Untrusted : a = route[i] /\ \A j \in Untrusted : j =< i
    \/ /\ Untrusted = {}
       /\ \/ a = Peer
          \/ \E i \in DOMAIN Joined :
               /\ Joined[i].addr = a /\ a \notin trusted
               /\ \A j \in (i + 1)..Len(Joined) : Joined[j].addr \in trusted

LEMMA PeerLemma ==
    ASSUME TypeOK, Len(route) > 0
    PROVE  /\ Len(route) \in Nat /\ DOMAIN route = 1..Len(route) /\ Len(route) \in DOMAIN route
           /\ Peer = route[Len(route)] /\ Peer \in Addresses
           /\ \A i \in DOMAIN route : route[i] \in Addresses
<1>1. /\ Len(route) \in Nat /\ DOMAIN route = 1..Len(route)
      /\ \A i \in DOMAIN route : route[i] \in Addresses
  BY DEF TypeOK
<1>2. Len(route) \in DOMAIN route
  BY <1>1
<1> QED BY <1>1, <1>2 DEF Peer, Last

LEMMA JoinedLemma ==
    ASSUME TypeOK
    PROVE  /\ Joined \in Seq(Hops) /\ Len(Joined) \in Nat /\ DOMAIN Joined = 1..Len(Joined)
           /\ \A i \in DOMAIN Joined : Joined[i] \in Hops
<1>1. Joined \in Seq(Hops)
  BY FlattenType DEF TypeOK, Joined
<1> QED BY <1>1

LEMMA ResolvedLemma ==
    ASSUME TypeOK, Len(route) > 0, Carried(lines, route)
    PROVE  Resolved \in Addresses /\ Nearest(Resolved)
<1> DEFINE n == Len(route)
           m == Len(Joined)
<1>1. /\ n \in Nat /\ DOMAIN route = 1..n /\ n \in DOMAIN route /\ n > 0
      /\ Peer = route[n] /\ Peer \in Addresses
      /\ Joined \in Seq(Hops) /\ m \in Nat /\ DOMAIN Joined = 1..m
      /\ \A i \in DOMAIN Joined : Joined[i] \in Hops
  BY PeerLemma, JoinedLemma
<1>2. /\ m >= n - 1
      /\ \A i \in 1..(n - 1) : /\ Joined[m - (n - 1) + i].addr = route[i]
                               /\ Parses(Joined[m - (n - 1) + i])
  BY DEF Carried, Joined, Parses
<1> HIDE DEF n, m
<1>3. CASE Peer \notin trusted
  <2>1. Resolved = Peer
    BY <1>3 DEF Resolved, Trusts
  <2>2. n \in Untrusted /\ \A j \in Untrusted : j =< n
    BY <1>1, <1>3 DEF Untrusted
  <2> QED BY <1>1, <2>1, <2>2 DEF Nearest
<1>4. CASE Peer \in trusted
  <2>1. Resolved = Walk(Joined)
    BY <1>4 DEF Resolved, Trusts
  <2>2. PICK k \in 0..m :
           /\ \A j \in (k + 1)..m : Parses(Joined[j]) /\ Joined[j].addr \in trusted
           /\ \/ (k = 0 \/ ~Parses(Joined[k])) /\ Walk(Joined) = Peer
              \/ /\ k # 0 /\ Parses(Joined[k]) /\ Joined[k].addr \notin trusted
                 /\ Walk(Joined) = Joined[k].addr
    BY <1>1, WalkStops DEF m
  <2>3. Resolved \in Addresses
    <3>1. CASE Walk(Joined) = Peer
      BY <1>1, <2>1, <3>1
    <3>2. CASE k # 0 /\ Parses(Joined[k]) /\ Walk(Joined) = Joined[k].addr
      <4>1. Joined[k] \in Hops
        BY <1>1, <3>2
      <4> QED BY <2>1, <3>2, <4>1, HopLemma DEF ParseHop
    <3> QED BY <2>2, <3>1, <3>2
  <2>4. CASE k =< m - (n - 1)
    <3>1. ASSUME NEW i \in DOMAIN route
          PROVE  route[i] \in trusted
      <4>1. CASE i = n
        BY <1>1, <1>4, <4>1
      <4>2. CASE i # n
        <5>1. i \in 1..(n - 1)
          BY <1>1, <4>2
        <5>2. m - (n - 1) + i \in (k + 1)..m
          BY <1>1, <1>2, <2>4, <5>1
        <5> QED BY <1>2, <2>2, <5>1, <5>2
      <4> QED BY <4>1, <4>2
    <3>2. Untrusted = {}
      BY <3>1 DEF Untrusted
    <3>3. CASE Walk(Joined) = Peer
      BY <2>1, <2>3, <3>2, <3>3 DEF Nearest
    <3>4. CASE k # 0 /\ Joined[k].addr \notin trusted /\ Walk(Joined) = Joined[k].addr
      <4>1. k \in DOMAIN Joined
        BY <1>1, <3>4
      <4>2. \A j \in (k + 1)..m : Joined[j].addr \in trusted
        BY <2>2
      <4> QED BY <2>1, <2>3, <3>2, <3>4, <4>1, <4>2 DEF Nearest, m
    <3> QED BY <2>2, <3>3, <3>4
  <2>5. CASE k > m - (n - 1)
    <3>1. PICK i \in 1..(n - 1) : k = m - (n - 1) + i
      <4>1. k - (m - (n - 1)) \in 1..(n - 1)
        BY <1>1, <1>2, <2>5
      <4>2. k = m - (n - 1) + (k - (m - (n - 1)))
        BY <1>1
      <4> QED BY <4>1, <4>2
    <3>2. Joined[k].addr = route[i] /\ Parses(Joined[k])
      BY <1>2, <3>1
    <3>3. k # 0
      BY <1>1, <1>2, <2>5
    <3>4. route[i] \notin trusted /\ Resolved = route[i]
      BY <2>1, <2>2, <3>2, <3>3
    <3>5. i \in Untrusted
      BY <1>1, <3>4 DEF Untrusted
    <3>6. ASSUME NEW j \in Untrusted, ~(j =< i)
          PROVE  FALSE
      <4>1. j \in 1..n /\ route[j] \notin trusted
        BY <1>1 DEF Untrusted
      <4>2. j # n
        BY <1>1, <1>4, <4>1
      <4>3. j \in 1..(n - 1)
        BY <1>1, <4>1, <4>2
      <4>4. m - (n - 1) + j \in (k + 1)..m
        BY <1>1, <1>2, <3>1, <3>6, <4>3
      <4> QED BY <1>2, <2>2, <4>1, <4>3, <4>4
    <3> QED BY <2>3, <3>4, <3>5, <3>6 DEF Nearest
  <2> QED BY <1>1, <2>4, <2>5
<1> QED BY <1>3, <1>4

-----------------------------------------------------------------------------
(***************************************************************************)
(* The invariant.                                                          *)
(***************************************************************************)

LEMMA InitInvariant == Init => IInv
<1> SUFFICES ASSUME Init
             PROVE  IInv
  OBVIOUS
<1>1. PICK a \in Addresses : route = <<a>>
  BY DEF Init
<1>2. route \in Seq(Addresses) /\ Len(route) = 1
  BY <1>1
<1>3. lines = <<>> /\ lines \in Seq(Seq(Hops)) /\ result = NoAddress /\ trusted \subseteq Addresses
  BY DEF Init
<1>4. TypeOK
  BY <1>2, <1>3 DEF TypeOK
<1>5. Carried(<<>>, route)
  <2>1. Len(FlattenSeq(<<>>)) = 0
    BY FlattenEmpty
  <2>2. 1..(Len(route) - 1) = {}
    BY <1>2
  <2> QED BY <1>2, <2>1, <2>2 DEF Carried
<1> QED BY <1>2, <1>3, <1>4, <1>5 DEF IInv, NearestUntrusted

LEMMA StepInvariant == IInv /\ [Next]_vars => IInv'
<1> SUFFICES ASSUME IInv, [Next]_vars
             PROVE  IInv'
  OBVIOUS
<1>1. /\ TypeOK /\ Len(route) > 0 /\ Carried(lines, route) /\ NearestUntrusted
      /\ trusted \subseteq Addresses /\ route \in Seq(Addresses) /\ lines \in Seq(Seq(Hops))
  BY DEF IInv, TypeOK
<1>2. ASSUME NEW hop \in Hops, Forge(hop)
      PROVE  IInv'
  <2>1. PICK l : l = lines'
    OBVIOUS
  <2>2. /\ OneMore(lines, hop, l) /\ Len(route) = 1
        /\ trusted' = trusted /\ route' = route /\ result' = result /\ result = NoAddress
    BY <1>2, <2>1 DEF Forge, OneMore
  <2>3. l \in Seq(Seq(Hops)) /\ Carried(l, route)
    BY <1>1, <2>2, ForgedCarries
  <2> QED BY <1>1, <2>1, <2>2, <2>3 DEF IInv, TypeOK, NearestUntrusted
<1>3. ASSUME NEW a \in Addresses, NEW p \in Spellings, Forward(a, p)
      PROVE  IInv'
  <2> DEFINE hop == [addr |-> Peer, spelling |-> p]
  <2>1. PICK l, r : l = lines' /\ r = route'
    OBVIOUS
  <2>2. /\ OneMore(lines, hop, l) /\ r = Append(route, a)
        /\ trusted' = trusted /\ result' = result /\ result = NoAddress
    BY <1>3, <2>1 DEF Forward, OneMore
  <2>3. hop \in Hops /\ hop.addr = route[Len(route)] /\ hop.spelling # "garbage"
    BY <1>1, PeerLemma, HopLemma
  <2> HIDE DEF hop
  <2>4. l \in Seq(Seq(Hops)) /\ Carried(l, r)
    BY <1>1, <2>2, <2>3, ForwardedCarries
  <2>5. r \in Seq(Addresses) /\ Len(r) > 0
    BY <1>1, <2>2
  <2> QED BY <1>1, <2>1, <2>2, <2>4, <2>5 DEF IInv, TypeOK, NearestUntrusted
<1>4. CASE Resolve
  <2>1. /\ result' = Resolved /\ trusted' = trusted /\ route' = route /\ lines' = lines
    BY <1>4 DEF Resolve
  <2>2. result' \in Addresses /\ Nearest(result')
    BY <1>1, <2>1, ResolvedLemma
  <2>3. NearestUntrusted'
    BY <2>1, <2>2 DEF NearestUntrusted, Nearest, Untrusted, Joined, Peer
  <2> QED BY <1>1, <2>1, <2>2, <2>3 DEF IInv, TypeOK
<1>5. CASE UNCHANGED vars
  BY <1>1, <1>5 DEF vars, IInv, TypeOK, NearestUntrusted, Untrusted, Joined, Peer
<1> QED BY <1>2, <1>3, <1>4, <1>5 DEF Next

\* The invariant: the header ends with what the proxies wrote, and the address
\* reported is the nearest that is not trusted.
THEOREM Invariance == Spec => []IInv
BY InitInvariant, StepInvariant, PTL DEF Spec

\* IPResolver.ClientIP cannot be deceived: whatever the client wrote into
\* X-Forwarded-For, the address reported is the last one on the real route that is
\* no trusted proxy.
THEOREM ClientIsNearestUntrusted == Spec => []NearestUntrusted
<1>1. IInv => NearestUntrusted
  BY DEF IInv
<1> QED BY <1>1, Invariance, PTL

\* c.IP() under TrustedProxyConfig: the peer when it is no trusted proxy, and the
\* client that forged nothing behind any number of proxies, where the resolver of
\* httpx agrees.
THEOREM FiberReportsTheClient == Spec => []FiberClient
<1>1. IInv => FiberClient
  <2> SUFFICES ASSUME IInv, result # NoAddress
               PROVE  FiberClient
    BY DEF FiberClient
  <2>1. Peer \notin trusted => FiberIP = Peer
    BY DEF FiberIP, Trusts
  <2>2. ASSUME Peer \in trusted, Unforged, lines # <<>>, IsIP(lines[1][1])
        PROVE  FiberIP = route[1] /\ (Untrusted = {1} => FiberIP = result)
    <3>1. /\ Len(route) \in Nat /\ Len(route) > 0 /\ Len(Joined) = Len(route) - 1
          /\ lines[1] # <<>> /\ Joined # <<>> /\ Joined[1] = lines[1][1]
          /\ Joined \in Seq(Hops) /\ Len(Joined) \in Nat
          /\ \A i \in 1..(Len(route) - 1) :
                Joined[Len(Joined) - (Len(route) - 1) + i].addr = route[i]
      BY <2>2, PeerLemma, JoinedLemma DEF IInv, Carried, Joined, Unforged
    <3>2. 1 \in 1..(Len(route) - 1) /\ Len(Joined) - (Len(route) - 1) + 1 = 1
      <4>1. Len(Joined) # 0
        BY <3>1
      <4> QED BY <3>1, <4>1
    <3>3. lines[1][1].addr = route[1]
      BY <3>1, <3>2
    <3>4. FirstLine = lines[1] /\ lines[1] \in Seq(Hops) /\ 1 \in DOMAIN FirstLine
      <4>1. lines \in Seq(Seq(Hops)) /\ 1 \in DOMAIN lines
        BY <2>2 DEF IInv, TypeOK
      <4>2. lines[1] \in Seq(Hops)
        BY <4>1
      <4>3. FirstLine = lines[1]
        BY <2>2 DEF FirstLine
      <4> QED BY <3>1, <4>2, <4>3
    <3>5. 1 \in IPs /\ \A i \in IPs : i \in Nat /\ 1 =< i
      BY <2>2, <3>4 DEF IPs
    <3>6. Min(IPs) = 1
      BY <3>5 DEF Min
    <3>7. FiberIP = route[1]
      BY <2>2, <3>3, <3>4, <3>5, <3>6 DEF FiberIP, Trusts, ParseHop
    <3>8. Untrusted = {1} => result = route[1]
      BY DEF IInv, NearestUntrusted
    <3> QED BY <3>7, <3>8
  <2> QED BY <2>1, <2>2 DEF FiberClient
<1> QED BY <1>1, Invariance, PTL

-----------------------------------------------------------------------------
(* JSON values. *)

Singles == [t : {"leaf"}, v : Nat]

\* f is JsonTo on the first levels.
Grows(f, n) ==
    f = [m \in 0..n |-> IF m = 0 THEN Singles ELSE Over(f[m - 1]) \cup f[m - 1]]

LEMMA GrowsExists ==
    ASSUME NEW k \in Nat
    PROVE  \E f : Grows(f, k)
<1> DEFINE T == {n \in Nat : ~\E f : Grows(f, n)}
<1>1. SUFFICES ASSUME T # {} PROVE FALSE
  OBVIOUS
<1>2. PICK n \in T : \A m \in T : n =< m
  BY <1>1, Least
<1>3. n # 0
  <2> DEFINE f == [m \in 0..0 |-> Singles]
  <2>1. f = [m \in 0..0 |-> IF m = 0 THEN Singles ELSE Over(f[m - 1]) \cup f[m - 1]]
    OBVIOUS
  <2> HIDE DEF f
  <2>2. Grows(f, 0)
    BY <2>1 DEF Grows
  <2> QED BY <2>2
<1>4. n \in Nat /\ n - 1 \in Nat /\ n - 1 \notin T
  BY <1>2, <1>3
<1>5. PICK f : Grows(f, n - 1)
  BY <1>4
<1> DEFINE g == [m \in 0..n |-> IF m < n THEN f[m] ELSE Over(f[n - 1]) \cup f[n - 1]]
<1>6. ASSUME NEW m \in 0..n
      PROVE  g[m] = IF m = 0 THEN Singles ELSE Over(g[m - 1]) \cup g[m - 1]
  <2>1. CASE m = n
    BY <1>3, <1>4, <2>1
  <2>2. CASE m < n
    <3>1. m \in 0..(n - 1)
      BY <1>4, <2>2
    <3>2. f[m] = IF m = 0 THEN Singles ELSE Over(f[m - 1]) \cup f[m - 1]
      BY <1>5, <3>1, Zenon DEF Grows
    <3>3. g[m] = f[m] /\ (m # 0 => g[m - 1] = f[m - 1])
      BY <1>4, <2>2
    <3> QED BY <3>2, <3>3
  <2> QED BY <1>4, <2>1, <2>2
<1>7. g = [m \in 0..n |-> IF m = 0 THEN Singles ELSE Over(g[m - 1]) \cup g[m - 1]]
  <2> HIDE DEF g
  <2>1. g = [m \in 0..n |-> g[m]]
    BY DEF g
  <2> QED BY <1>6, <2>1
<1> HIDE DEF g
<1>8. Grows(g, n)
  BY <1>7 DEF Grows
<1> QED BY <1>8

LEMMA GrowsOnce ==
    ASSUME NEW f, NEW g, NEW a \in Nat, NEW b \in Nat, a =< b, Grows(f, a), Grows(g, b)
    PROVE  \A m \in 0..a : f[m] = g[m]
<1> DEFINE T == {m \in 0..a : f[m] # g[m]}
<1>1. SUFFICES ASSUME T # {} PROVE FALSE
  OBVIOUS
<1>2. T \in SUBSET Nat
  OBVIOUS
<1>3. PICK m \in T : \A j \in T : m =< j
  BY <1>1, <1>2, Least
<1>4. m \in 0..a /\ m \in 0..b /\ f[m] # g[m] /\ m - 1 \notin T
  BY <1>3
<1>5. f[m] = IF m = 0 THEN Singles ELSE Over(f[m - 1]) \cup f[m - 1]
  BY <1>4, Zenon DEF Grows
<1>6. g[m] = IF m = 0 THEN Singles ELSE Over(g[m - 1]) \cup g[m - 1]
  BY <1>4, Zenon DEF Grows
<1>7. m # 0 => f[m - 1] = g[m - 1]
  BY <1>4
<1> QED BY <1>4, <1>5, <1>6, <1>7

LEMMA JsonToIs ==
    ASSUME NEW n \in Nat
    PROVE  JsonTo[n] = IF n = 0 THEN Singles ELSE Over(JsonTo[n - 1]) \cup JsonTo[n - 1]
<1> DEFINE Chosen(k) == CHOOSE f : Grows(f, k)
           F == [k \in Nat |-> Chosen(k)[k]]
<1>1. \A k \in Nat : Grows(Chosen(k), k)
  BY GrowsExists
<1> HIDE DEF Chosen
<1>2. ASSUME NEW k \in Nat
      PROVE  F[k] = IF k = 0 THEN Singles ELSE Over(F[k - 1]) \cup F[k - 1]
  <2>1. Grows(Chosen(k), k) /\ k \in 0..k
    BY <1>1
  <2>2. Chosen(k)[k] = IF k = 0 THEN Singles ELSE Over(Chosen(k)[k - 1]) \cup Chosen(k)[k - 1]
    BY <2>1, Zenon DEF Grows
  <2>3. CASE k = 0
    BY <2>2, <2>3
  <2>4. CASE k # 0
    <3>1. k - 1 \in Nat /\ k - 1 =< k /\ k - 1 \in 0..(k - 1)
      BY <2>4
    <3>2. PICK p \in Nat : p = k - 1
      BY <3>1
    <3>3. Grows(Chosen(p), p) /\ p =< k /\ p \in 0..p
      BY <1>1, <3>1, <3>2
    <3>4. Chosen(p)[p] = Chosen(k)[p]
      BY <2>1, <3>3, GrowsOnce
    <3> QED BY <2>2, <2>4, <3>2, <3>4
  <2> QED BY <2>3, <2>4
<1>3. F = [k \in Nat |-> IF k = 0 THEN Singles ELSE Over(F[k - 1]) \cup F[k - 1]]
  <2> HIDE DEF F
  <2>1. F = [k \in Nat |-> F[k]]
    BY DEF F
  <2> QED BY <1>2, <2>1
<1> HIDE DEF F
<1>4. JsonTo = [k \in Nat |-> IF k = 0 THEN Singles ELSE Over(JsonTo[k - 1]) \cup JsonTo[k - 1]]
  <2>1. \E f : f = [k \in Nat |-> IF k = 0 THEN Singles ELSE Over(f[k - 1]) \cup f[k - 1]]
    BY <1>3
  <2>2. JsonTo = CHOOSE f : f = [k \in Nat |-> IF k = 0 THEN Singles
                                  ELSE Over(f[k - 1]) \cup f[k - 1]]
    BY Zenon DEF JsonTo, Singles
  <2> QED BY <2>1, <2>2, Zenon
<1> QED BY <1>4, Zenon

LEMMA JsonToNext ==
    /\ JsonTo[0] = Singles
    /\ \A n \in Nat : JsonTo[n + 1] = Over(JsonTo[n]) \cup JsonTo[n]
<1>1. JsonTo[0] = Singles
  BY JsonToIs
<1>2. ASSUME NEW n \in Nat PROVE JsonTo[n + 1] = Over(JsonTo[n]) \cup JsonTo[n]
  <2>1. n + 1 \in Nat /\ n + 1 # 0 /\ (n + 1) - 1 = n
    OBVIOUS
  <2>2. PICK m \in Nat : m = n + 1 /\ m # 0 /\ m - 1 = n
    BY <2>1
  <2>3. JsonTo[m] = Over(JsonTo[m - 1]) \cup JsonTo[m - 1]
    BY <2>2, JsonToIs
  <2> QED BY <2>2, <2>3
<1> QED BY <1>1, <1>2

LEMMA JsonToGrow ==
    ASSUME NEW m \in Nat, NEW n \in Nat, m =< n
    PROVE  JsonTo[m] \subseteq JsonTo[n]
<1> DEFINE T == {k \in Nat : m =< k /\ ~(JsonTo[m] \subseteq JsonTo[k])}
<1>1. SUFFICES ASSUME T # {} PROVE FALSE
  OBVIOUS
<1>2. PICK k \in T : \A j \in T : k =< j
  BY <1>1, Least
<1>3. k # m
  BY <1>2
<1>4. PICK j \in Nat : k = j + 1 /\ m =< j /\ j \notin T
  <2>1. k - 1 \in Nat /\ k = (k - 1) + 1 /\ m =< k - 1 /\ k - 1 \notin T
    BY <1>2, <1>3
  <2> QED BY <2>1
<1>5. JsonTo[k] = Over(JsonTo[j]) \cup JsonTo[j]
  BY <1>4, JsonToNext
<1> QED BY <1>2, <1>4, <1>5

\* An object or an array of the parts ps.
Node(tag, ps) == [t |-> tag, parts |-> ps]

Tags == {"object", "array"}

\* Where the parts of each are.
Labels(tag) == IF tag = "object" THEN Keys ELSE Nat

LEMMA SingleIs == \A c : c \in Singles <=> \E x \in Nat : c = Leaf(x)
<1>1. ASSUME NEW c \in Singles PROVE \E x \in Nat : c = Leaf(x)
  <2>1. c = [t |-> "leaf", v |-> c.v] /\ c.v \in Nat
    BY DEF Singles
  <2> QED BY <2>1 DEF Leaf
<1>2. ASSUME NEW x \in Nat PROVE Leaf(x) \in Singles
  BY DEF Singles, Leaf
<1> QED BY <1>1, <1>2

LEMMA OverIs ==
    ASSUME NEW T
    PROVE  \A c : c \in Over(T) <=>
                    \E tag \in Tags : \E ps \in SUBSET [at : Labels(tag), v : T] : c = Node(tag, ps)
<1>1. ASSUME NEW c \in Over(T)
      PROVE  \E tag \in Tags : \E ps \in SUBSET [at : Labels(tag), v : T] : c = Node(tag, ps)
  <2>1. CASE c \in [t : {"object"}, parts : SUBSET [at : Keys, v : T]]
    <3>1. c = Node("object", c.parts) /\ c.parts \in SUBSET [at : Keys, v : T]
      BY <2>1, Zenon DEF Node
    <3> QED BY <3>1, Zenon DEF Tags, Labels
  <2>2. CASE c \in [t : {"array"}, parts : SUBSET [at : Nat, v : T]]
    <3>1. c = Node("array", c.parts) /\ c.parts \in SUBSET [at : Nat, v : T]
      BY <2>2, Zenon DEF Node
    <3>2. "array" \in Tags /\ Labels("array") = Nat
      BY DEF Tags, Labels
    <3> QED BY <3>1, <3>2, Zenon
  <2> QED BY <2>1, <2>2, Zenon DEF Over
<1>2. ASSUME NEW tag \in Tags, NEW ps \in SUBSET [at : Labels(tag), v : T]
      PROVE  Node(tag, ps) \in Over(T)
  <2>1. CASE tag = "object"
    BY <2>1, Zenon DEF Over, Node, Labels
  <2>2. CASE tag = "array"
    <3>1. Labels(tag) = Nat
      BY <2>2 DEF Labels
    <3> QED BY <2>2, <3>1, Zenon DEF Over, Node
  <2> QED BY <2>1, <2>2 DEF Tags
<1> QED BY <1>1, <1>2, Zenon

\* Which of the two a value is.
LEMMA KindIs ==
    /\ \A x : Leaf(x).t = "leaf" /\ Leaf(x).v = x
    /\ \A ps : \A tag \in Tags : Node(tag, ps).t = tag /\ tag # "leaf" /\ Node(tag, ps).parts = ps
BY DEF Leaf, Node, Tags

\* A value is a leaf or is made of values with a level less.
LEMMA JsonIs ==
    ASSUME NEW n \in Nat, NEW c \in JsonTo[n]
    PROVE  \/ \E x \in Nat : c = Leaf(x)
           \/ \E m \in Nat : m + 1 = n /\ c \in Over(JsonTo[m])
<1> DEFINE T == {m \in Nat : m =< n /\ c \in JsonTo[m]}
<1>1. PICK m \in T : \A j \in T : m =< j
  <2>1. n \in T
    OBVIOUS
  <2> QED BY <2>1, Least
<1>2. m \in Nat /\ m =< n /\ c \in JsonTo[m]
  BY <1>1
<1>3. CASE m = 0
  BY <1>2, <1>3, JsonToNext, SingleIs
<1>4. CASE m # 0
  <2>1. PICK j \in Nat : m = j + 1 /\ j \notin T
    <3>1. m - 1 \in Nat /\ m = (m - 1) + 1 /\ m - 1 \notin T
      BY <1>1, <1>2, <1>4
    <3> QED BY <3>1
  <2>2. PICK i \in Nat : i + 1 = n /\ j =< i
    <3>1. n - 1 \in Nat /\ (n - 1) + 1 = n /\ j =< n - 1
      BY <1>2, <2>1
    <3> QED BY <3>1
  <2>3. c \in Over(JsonTo[j])
    <3>1. c \notin JsonTo[j]
      BY <1>2, <2>1
    <3>2. JsonTo[m] = Over(JsonTo[j]) \cup JsonTo[j]
      BY <2>1, JsonToNext
    <3> QED BY <1>2, <3>1, <3>2
  <2>4. JsonTo[j] \subseteq JsonTo[i]
    BY <2>2, JsonToGrow
  <2> HIDE DEF T
  <2>5. c \in Over(JsonTo[i])
    BY <2>3, <2>4 DEF Over
  <2> QED BY <2>2, <2>5
<1> QED BY <1>3, <1>4

LEMMA LeafIsJson ==
    ASSUME NEW n \in Nat, NEW x \in Nat
    PROVE  Leaf(x) \in JsonTo[n]
<1>1. Leaf(x) \in JsonTo[0]
  BY JsonToNext, SingleIs
<1>2. JsonTo[0] \subseteq JsonTo[n]
  BY JsonToGrow
<1> QED BY <1>1, <1>2

\* What is not a leaf has a tag and parts, and those have a level less.
LEMMA PartsSmaller ==
    ASSUME NEW n \in Nat, NEW c \in JsonTo[n], c.t # "leaf"
    PROVE  \E m \in Nat : /\ m + 1 = n /\ c.t \in Tags
                          /\ c.parts \in SUBSET [at : Labels(c.t), v : JsonTo[m]]
                          /\ c = Node(c.t, c.parts)
<1>1. ~\E x \in Nat : c = Leaf(x)
  BY KindIs, Zenon
<1>2. PICK m \in Nat : m + 1 = n /\ c \in Over(JsonTo[m])
  BY <1>1, JsonIs, Zenon
<1>3. PICK tag \in Tags : \E ps \in SUBSET [at : Labels(tag), v : JsonTo[m]] : c = Node(tag, ps)
  <2> DEFINE T == JsonTo[m]
  <2> HIDE DEF T
  <2>1. \A d : d \in Over(T) <=>
                \E tag \in Tags : \E ps \in SUBSET [at : Labels(tag), v : T] : d = Node(tag, ps)
    BY OverIs
  <2>2. c \in Over(T)
    BY <1>2 DEF T
  <2>3. \E tag \in Tags : \E ps \in SUBSET [at : Labels(tag), v : T] : c = Node(tag, ps)
    BY ONLY <2>1, <2>2, Zenon
  <2> QED BY <2>3 DEF T
<1>4. PICK ps \in SUBSET [at : Labels(tag), v : JsonTo[m]] : c = Node(tag, ps)
  BY <1>3, Zenon
<1>5. c.t = tag /\ c.parts = ps
  <2>1. Node(tag, ps).t = tag /\ Node(tag, ps).parts = ps
    BY KindIs, Zenon
  <2> QED BY <1>4, <2>1, Zenon
<1>6. /\ c.t \in Tags /\ c.parts \in SUBSET [at : Labels(c.t), v : JsonTo[m]]
      /\ c = Node(c.t, c.parts)
  BY ONLY <1>3, <1>4, <1>5, Zenon
<1> QED BY <1>2, <1>6, Zenon

-----------------------------------------------------------------------------
(* The recursive operators. *)

\* What RedactTree and Leaves give for c, f being what they give for its parts.
Step(op, c, f) ==
    IF op = "RedactTree"
    THEN IF c.t = "leaf" THEN c
         ELSE [t |-> c.t,
               parts |-> {[at |-> p.at, v |-> IF Under(c, p) THEN Leaf(Redacted) ELSE f[p.v]]
                            : p \in c.parts}]
    ELSE IF c.t = "leaf" THEN {[way |-> <<>>, v |-> c.v, hidden |-> FALSE]}
         ELSE UNION {{Within(c, p, leaf) : leaf \in f[p.v]} : p \in c.parts}

Computes(f, op, n) == f = [c \in JsonTo[n] |-> Step(op, c, f)]

LEMMA StepLocal ==
    ASSUME NEW op, NEW c, NEW f, NEW g,
           c.t # "leaf" => \A p \in c.parts : f[p.v] = g[p.v]
    PROVE  Step(op, c, f) = Step(op, c, g)
<1>1. CASE c.t # "leaf"
  <2>1. {[at |-> p.at, v |-> IF Under(c, p) THEN Leaf(Redacted) ELSE f[p.v]] : p \in c.parts}
          = {[at |-> p.at, v |-> IF Under(c, p) THEN Leaf(Redacted) ELSE g[p.v]] : p \in c.parts}
    BY <1>1
  <2>2. {{Within(c, p, leaf) : leaf \in f[p.v]} : p \in c.parts}
          = {{Within(c, p, leaf) : leaf \in g[p.v]} : p \in c.parts}
    BY <1>1
  <2>3. CASE op = "RedactTree"
    BY <1>1, <2>1, <2>3, Zenon DEF Step
  <2>4. CASE op # "RedactTree"
    BY <1>1, <2>2, <2>4, Zenon DEF Step
  <2> QED BY <2>3, <2>4
<1>2. CASE c.t = "leaf"
  BY <1>2, Zenon DEF Step
<1> QED BY <1>1, <1>2

LEMMA ComputesExists ==
    ASSUME NEW op, NEW k \in Nat
    PROVE  \E f : Computes(f, op, k)
<1> DEFINE T == {n \in Nat : ~\E f : Computes(f, op, n)}
<1>1. SUFFICES ASSUME T # {} PROVE FALSE
  OBVIOUS
<1>2. PICK n \in T : \A m \in T : n =< m
  BY <1>1, Least
<1>3. \E g : \A c \in JsonTo[n] :
         c.t # "leaf" => \A p \in c.parts : g[p.v] = Step(op, p.v, g) /\ p.v \in JsonTo[n]
  <2>1. CASE n = 0
    <3>1. \A c \in JsonTo[n] : c.t = "leaf"
      BY <2>1, PartsSmaller
    <3> QED BY <3>1
  <2>2. CASE n # 0
    <3>1. PICK j \in Nat : j + 1 = n /\ j \notin T
      <4>1. n - 1 \in Nat /\ (n - 1) + 1 = n /\ n - 1 \notin T
        BY <1>2, <2>2
      <4> QED BY <4>1
    <3>2. PICK g : Computes(g, op, j)
      BY <3>1
    <3>3. ASSUME NEW c \in JsonTo[n], c.t # "leaf", NEW p \in c.parts
          PROVE  g[p.v] = Step(op, p.v, g) /\ p.v \in JsonTo[n]
      <4>1. PICK m \in Nat : m + 1 = n /\ c.parts \in SUBSET [at : Labels(c.t), v : JsonTo[m]]
        BY <1>2, <3>3, PartsSmaller
      <4>2. m = j
        BY <3>1, <4>1
      <4>3. p.v \in JsonTo[j]
        BY <4>1, <4>2
      <4>4. JsonTo[j] \subseteq JsonTo[n]
        BY <1>2, <3>1, JsonToGrow
      <4>5. g[p.v] = Step(op, p.v, g)
        BY <3>2, <4>3, Zenon DEF Computes
      <4> QED BY <4>3, <4>4, <4>5
    <3> QED BY <3>3
  <2> QED BY <2>1, <2>2
<1>4. PICK g : \A c \in JsonTo[n] :
         c.t # "leaf" => \A p \in c.parts : g[p.v] = Step(op, p.v, g) /\ p.v \in JsonTo[n]
  BY <1>3
<1> DEFINE h == [c \in JsonTo[n] |-> Step(op, c, g)]
<1>5. ASSUME NEW c \in JsonTo[n] PROVE Step(op, c, g) = Step(op, c, h)
  <2>1. c.t # "leaf" => \A p \in c.parts : g[p.v] = h[p.v]
    BY <1>4, Zenon
  <2> HIDE DEF h
  <2> QED BY <2>1, StepLocal
<1>6. h = [c \in JsonTo[n] |-> Step(op, c, h)]
  <2>1. \A c \in JsonTo[n] : h[c] = Step(op, c, h)
    BY <1>5, Zenon
  <2>2. h = [c \in JsonTo[n] |-> h[c]]
    BY Zenon
  <2> HIDE DEF h
  <2> QED BY <2>1, <2>2
<1> HIDE DEF h
<1>7. Computes(h, op, n)
  BY <1>6 DEF Computes
<1> QED BY <1>2, <1>7

LEMMA RedactComputes ==
    \E f : Computes(f, "RedactTree", Levels) /\ \A c \in Json : RedactTree(c) = f[c]
<1> DEFINE B(c, f) == IF c.t = "leaf" THEN c
                      ELSE [t |-> c.t,
                            parts |-> {[at |-> p.at,
                                        v |-> IF Under(c, p) THEN Leaf(Redacted) ELSE f[p.v]]
                                         : p \in c.parts}]
           f == CHOOSE f : f = [c \in Json |-> B(c, f)]
<1>1. \E g : g = [c \in Json |-> B(c, g)]
  <2>1. PICK g : Computes(g, "RedactTree", Levels)
    BY DocsAssumption, ComputesExists
  <2>2. g = [c \in Json |-> Step("RedactTree", c, g)]
    BY <2>1, Zenon DEF Computes, Json
  <2>3. g = [c \in Json |-> B(c, g)]
    BY <2>2, Zenon DEF Step
  <2> QED BY <2>3
<1>2. f = [c \in Json |-> B(c, f)]
  BY <1>1, Zenon
<1>3. \A c \in Json : RedactTree(c) = f[c]
  BY Zenon DEF RedactTree
<1> HIDE DEF f
<1>4. Computes(f, "RedactTree", Levels)
  BY <1>2, Zenon DEF Computes, Step, Json
<1> QED BY <1>3, <1>4

LEMMA LeavesComputes ==
    \E f : Computes(f, "Leaves", Levels) /\ \A c \in Json : Leaves(c) = f[c]
<1> DEFINE B(c, f) == IF c.t = "leaf" THEN {[way |-> <<>>, v |-> c.v, hidden |-> FALSE]}
                      ELSE UNION {{Within(c, p, leaf) : leaf \in f[p.v]} : p \in c.parts}
           f == CHOOSE f : f = [c \in Json |-> B(c, f)]
<1>1. \E g : g = [c \in Json |-> B(c, g)]
  <2>1. PICK g : Computes(g, "Leaves", Levels)
    BY DocsAssumption, ComputesExists
  <2>2. g = [c \in Json |-> Step("Leaves", c, g)]
    BY <2>1, Zenon DEF Computes, Json
  <2>3. g = [c \in Json |-> B(c, g)]
    BY <2>2 DEF Step
  <2> QED BY <2>3
<1>2. f = [c \in Json |-> B(c, f)]
  BY <1>1, Zenon
<1>3. \A c \in Json : Leaves(c) = f[c]
  BY Zenon DEF Leaves
<1> HIDE DEF f
<1>4. Computes(f, "Leaves", Levels)
  BY <1>2 DEF Computes, Step, Json
<1> QED BY <1>3, <1>4

\* The parts of a value are values.
LEMMA PartsJson == \A c \in Json : c.t # "leaf" => \A p \in c.parts : p.v \in Json
<1>1. SUFFICES ASSUME NEW c \in Json, c.t # "leaf", NEW p \in c.parts PROVE p.v \in Json
  OBVIOUS
<1>2. c \in JsonTo[Levels] /\ Levels \in Nat
  BY DocsAssumption DEF Json
<1>3. PICK m \in Nat : m + 1 = Levels /\ c.parts \in SUBSET [at : Labels(c.t), v : JsonTo[m]]
  BY <1>1, <1>2, PartsSmaller
<1>4. JsonTo[m] \subseteq JsonTo[Levels]
  BY <1>2, <1>3, JsonToGrow
<1> QED BY <1>3, <1>4 DEF Json

\* What they give for a leaf, and for what has parts.
LEMMA RedactIs ==
    \A c \in Json :
        /\ c.t = "leaf" => RedactTree(c) = c
        /\ c.t # "leaf" =>
              RedactTree(c) =
                [t |-> c.t,
                 parts |-> {[at |-> p.at,
                             v |-> IF Under(c, p) THEN Leaf(Redacted) ELSE RedactTree(p.v)]
                              : p \in c.parts}]
<1>1. PICK f : Computes(f, "RedactTree", Levels) /\ \A c \in Json : RedactTree(c) = f[c]
  BY RedactComputes
<1>2. \A c \in Json : f[c] = Step("RedactTree", c, f)
  BY <1>1, Zenon DEF Computes, Json
<1>3. \A c \in Json : c.t # "leaf" => \A p \in c.parts : p.v \in Json
  BY PartsJson
<1>4. ASSUME NEW c \in Json, c.t # "leaf"
      PROVE  {[at |-> p.at, v |-> IF Under(c, p) THEN Leaf(Redacted) ELSE RedactTree(p.v)]
                : p \in c.parts}
               = {[at |-> p.at, v |-> IF Under(c, p) THEN Leaf(Redacted) ELSE f[p.v]]
                    : p \in c.parts}
  BY <1>1, <1>3, <1>4
<1>5. ASSUME NEW c \in Json, c.t = "leaf" PROVE RedactTree(c) = c
  BY <1>1, <1>2, <1>5, Zenon DEF Step
<1>6. ASSUME NEW c \in Json, c.t # "leaf"
      PROVE  RedactTree(c) =
               [t |-> c.t,
                parts |-> {[at |-> p.at,
                            v |-> IF Under(c, p) THEN Leaf(Redacted) ELSE RedactTree(p.v)]
                             : p \in c.parts}]
  BY <1>1, <1>2, <1>4, <1>6, Zenon DEF Step
<1> QED BY <1>5, <1>6

LEMMA LeavesIs ==
    \A c \in Json :
        /\ c.t = "leaf" => Leaves(c) = {[way |-> <<>>, v |-> c.v, hidden |-> FALSE]}
        /\ c.t # "leaf" =>
              Leaves(c) = UNION {{Within(c, p, leaf) : leaf \in Leaves(p.v)} : p \in c.parts}
<1>1. PICK f : Computes(f, "Leaves", Levels) /\ \A c \in Json : Leaves(c) = f[c]
  BY LeavesComputes
<1>2. \A c \in Json : f[c] = Step("Leaves", c, f)
  BY <1>1, Zenon DEF Computes, Json
<1>3. \A c \in Json : c.t # "leaf" => \A p \in c.parts : p.v \in Json
  BY PartsJson
<1>4. ASSUME NEW c \in Json, c.t # "leaf"
      PROVE  {{Within(c, p, leaf) : leaf \in Leaves(p.v)} : p \in c.parts}
               = {{Within(c, p, leaf) : leaf \in f[p.v]} : p \in c.parts}
  BY <1>1, <1>3, <1>4
<1>5. ASSUME NEW c \in Json, c.t = "leaf"
      PROVE  Leaves(c) = {[way |-> <<>>, v |-> c.v, hidden |-> FALSE]}
  BY <1>1, <1>2, <1>5 DEF Step
<1>6. ASSUME NEW c \in Json, c.t # "leaf"
      PROVE  Leaves(c) = UNION {{Within(c, p, leaf) : leaf \in Leaves(p.v)} : p \in c.parts}
  BY <1>1, <1>2, <1>4, <1>6 DEF Step
<1> QED BY <1>5, <1>6

-----------------------------------------------------------------------------
(* Bodies. *)

\* What holds of leaves, and of a value when of its parts, holds of all values.
LEMMA JsonInduction ==
    ASSUME NEW S, \A x \in Nat : Leaf(x) \in Json => Leaf(x) \in S,
           \A c \in Json : (c.t # "leaf" /\ \A p \in c.parts : p.v \in S) => c \in S
    PROVE  Json \subseteq S
<1> DEFINE T == {m \in Nat : m =< Levels /\ ~(JsonTo[m] \subseteq S)}
<1>0. Levels \in Nat /\ Json = JsonTo[Levels]
  BY DocsAssumption DEF Json
<1>1. SUFFICES ASSUME T # {} PROVE FALSE
  BY <1>0
<1>2. PICK m \in T : \A j \in T : m =< j
  BY <1>1, Least
<1>3. m \in Nat /\ m =< Levels /\ JsonTo[m] \subseteq Json
  BY <1>0, JsonToGrow
<1>4. PICK c \in JsonTo[m] : c \notin S
  BY <1>2
<1>5. c.t # "leaf"
  <2>1. ASSUME c.t = "leaf" PROVE \E x \in Nat : c = Leaf(x)
    <3>1. ~\E l \in Nat : c \in Over(JsonTo[l])
      <4>1. ASSUME NEW l \in Nat, c \in Over(JsonTo[l]) PROVE FALSE
        <5>1. c.t \in {"object", "array"}
          BY <4>1 DEF Over
        <5> QED BY <2>1, <5>1
      <4> QED BY <4>1
    <3> QED BY <1>3, <3>1, JsonIs
  <2> QED BY <1>3, <1>4, <2>1
<1>6. PICK l \in Nat : l + 1 = m /\ c.parts \in SUBSET [at : Labels(c.t), v : JsonTo[l]]
  BY <1>3, <1>4, <1>5, PartsSmaller
<1>7. l \notin T /\ l =< Levels
  BY <1>0, <1>2, <1>3, <1>6
<1>8. JsonTo[l] \subseteq S
  BY <1>6, <1>7
<1>9. \A p \in c.parts : p.v \in S
  BY <1>6, <1>8
<1> QED BY <1>3, <1>4, <1>5, <1>9

\* A redacted value is a value, of no more levels.
LEMMA RedactType ==
    ASSUME NEW n \in Nat, n =< Levels, NEW b \in JsonTo[n]
    PROVE  RedactTree(b) \in JsonTo[n]
<1> DEFINE T == {m \in Nat : m =< Levels /\ \E c \in JsonTo[m] : RedactTree(c) \notin JsonTo[m]}
<1>0. Levels \in Nat /\ Json = JsonTo[Levels]
  BY DocsAssumption DEF Json
<1>1. SUFFICES ASSUME T # {} PROVE FALSE
  OBVIOUS
<1>2. PICK m \in T : \A j \in T : m =< j
  BY <1>1, Least
<1>3. m \in Nat /\ m =< Levels /\ JsonTo[m] \subseteq Json
  BY <1>0, JsonToGrow
<1>4. PICK c \in JsonTo[m] : RedactTree(c) \notin JsonTo[m]
  BY <1>2
<1>5. c.t # "leaf"
  BY <1>3, <1>4, RedactIs
<1>6. PICK l \in Nat : /\ l + 1 = m /\ c.t \in Tags
                       /\ c.parts \in SUBSET [at : Labels(c.t), v : JsonTo[l]]
  BY <1>3, <1>4, <1>5, PartsSmaller
<1>7. l \notin T /\ l =< Levels
  BY <1>0, <1>2, <1>3, <1>6
<1>8. \A d \in JsonTo[l] : RedactTree(d) \in JsonTo[l]
  BY <1>6, <1>7
<1> DEFINE ps == {[at |-> p.at, v |-> IF Under(c, p) THEN Leaf(Redacted) ELSE RedactTree(p.v)]
                    : p \in c.parts}
<1>9. RedactTree(c) = Node(c.t, ps)
  BY <1>3, <1>4, <1>5, RedactIs, Zenon DEF Node
<1>10. ps \in SUBSET [at : Labels(c.t), v : JsonTo[l]]
  <2>1. Leaf(Redacted) \in JsonTo[l]
    BY LeafIsJson DEF Redacted
  <2>2. ASSUME NEW p \in c.parts
        PROVE  [at |-> p.at, v |-> IF Under(c, p) THEN Leaf(Redacted) ELSE RedactTree(p.v)]
                 \in [at : Labels(c.t), v : JsonTo[l]]
    <3>1. p.at \in Labels(c.t) /\ p.v \in JsonTo[l]
      BY <1>6
    <3>2. (IF Under(c, p) THEN Leaf(Redacted) ELSE RedactTree(p.v)) \in JsonTo[l]
      BY <1>8, <2>1, <3>1
    <3> QED BY <3>1, <3>2
  <2> QED BY <2>2
<1> HIDE DEF ps
<1>11. Node(c.t, ps) \in Over(JsonTo[l])
  <2> DEFINE U == JsonTo[l]
  <2> HIDE DEF U
  <2>1. \A d : d \in Over(U) <=>
                \E tag \in Tags : \E qs \in SUBSET [at : Labels(tag), v : U] : d = Node(tag, qs)
    BY OverIs
  <2>2. c.t \in Tags /\ ps \in SUBSET [at : Labels(c.t), v : U]
    BY <1>6, <1>10 DEF U
  <2>3. Node(c.t, ps) \in Over(U)
    BY ONLY <2>1, <2>2, Zenon
  <2> QED BY <2>3 DEF U
<1>12. Over(JsonTo[l]) \subseteq JsonTo[m]
  BY <1>6, JsonToNext
<1> QED BY <1>4, <1>9, <1>11, <1>12

\* No leaf under a listed key is left, and every other one is.
RedactsWell(c) ==
    /\ \A leaf \in Leaves(RedactTree(c)) : leaf.v # Redacted => ~leaf.hidden
    /\ \A leaf \in Leaves(c) : ~leaf.hidden => leaf \in Leaves(RedactTree(c))

LEMMA RedactLeaves == \A c \in Json : RedactsWell(c)
<1> DEFINE S == {c \in Json : RedactsWell(c)}
<1>0. \A c : c \in S <=> c \in Json /\ RedactsWell(c)
  OBVIOUS
<1> HIDE DEF S
<1>1. ASSUME NEW x \in Nat, Leaf(x) \in Json PROVE Leaf(x) \in S
  <2>1. Leaf(x).t = "leaf" /\ Leaf(x).v = x
    BY KindIs
  <2>2. RedactTree(Leaf(x)) = Leaf(x)
    BY <1>1, <2>1, RedactIs
  <2>3. Leaves(Leaf(x)) = {[way |-> <<>>, v |-> x, hidden |-> FALSE]}
    BY <1>1, <2>1, LeavesIs
  <2>4. \A leaf \in Leaves(Leaf(x)) : ~leaf.hidden
    BY <2>3
  <2> QED BY <1>0, <1>1, <2>2, <2>4, Zenon DEF RedactsWell
<1>2. ASSUME NEW c \in Json, c.t # "leaf", \A p \in c.parts : p.v \in S PROVE c \in S
  <2> DEFINE put(p) == [at |-> p.at, v |-> IF Under(c, p) THEN Leaf(Redacted) ELSE RedactTree(p.v)]
             d == RedactTree(c)
  <2>1. d = [t |-> c.t, parts |-> {put(p) : p \in c.parts}]
    BY <1>2, RedactIs, Zenon
  <2>2. d.t = c.t /\ d.parts = {put(p) : p \in c.parts}
    BY <2>1
  <2>3. d \in Json
    <3>1. Levels \in Nat /\ Levels =< Levels
      BY DocsAssumption
    <3> QED BY <3>1, RedactType DEF Json
  <2> HIDE DEF d
  <2>4. Leaves(d) = UNION {{Within(d, q, leaf) : leaf \in Leaves(q.v)} : q \in d.parts}
    BY <1>2, <2>2, <2>3, LeavesIs
  <2>5. Leaves(c) = UNION {{Within(c, p, leaf) : leaf \in Leaves(p.v)} : p \in c.parts}
    BY <1>2, LeavesIs
  <2>6. \A p \in c.parts : RedactsWell(p.v)
    BY <1>0, <1>2
  <2>7. ASSUME NEW p \in c.parts, NEW leaf
        PROVE  /\ put(p) \in d.parts
               /\ Under(d, put(p)) = Under(c, p)
               /\ Within(d, put(p), leaf) = Within(c, p, leaf)
               /\ Within(c, p, leaf).v = leaf.v
               /\ Within(c, p, leaf).hidden = (leaf.hidden \/ Under(c, p))
    <3>1. put(p) \in d.parts
      BY <2>2
    <3>2. put(p).at = p.at
      OBVIOUS
    <3>3. Under(d, put(p)) = Under(c, p)
      BY <2>2, <3>2, Zenon DEF Under
    <3>4. Within(d, put(p), leaf) = Within(c, p, leaf)
      BY <3>2, <3>3, Zenon DEF Within
    <3>5. Within(c, p, leaf).v = leaf.v /\ Within(c, p, leaf).hidden = (leaf.hidden \/ Under(c, p))
      BY DEF Within
    <3> QED BY <3>1, <3>3, <3>4, <3>5
  <2>8. ASSUME NEW p \in c.parts, Under(c, p)
        PROVE  Leaves(put(p).v) = {[way |-> <<>>, v |-> Redacted, hidden |-> FALSE]}
    <3>1. put(p).v = Leaf(Redacted)
      BY <2>8
    <3>2. Leaf(Redacted) \in Json
      BY DocsAssumption, LeafIsJson DEF Json, Redacted
    <3>3. Leaf(Redacted).t = "leaf" /\ Leaf(Redacted).v = Redacted
      BY KindIs
    <3>4. Leaves(Leaf(Redacted)) = {[way |-> <<>>, v |-> Redacted, hidden |-> FALSE]}
      BY <3>2, <3>3, LeavesIs
    <3> QED BY <3>1, <3>4
  <2>9. ASSUME NEW p \in c.parts, ~Under(c, p) PROVE put(p).v = RedactTree(p.v)
    BY <2>9
  <2> HIDE DEF put
  <2>10. ASSUME NEW leaf \in Leaves(d), leaf.v # Redacted PROVE ~leaf.hidden
    <3>1. PICK p \in c.parts : \E l \in Leaves(put(p).v) : leaf = Within(d, put(p), l)
      BY <2>2, <2>4, Zenon
    <3>2. PICK l \in Leaves(put(p).v) : leaf = Within(d, put(p), l)
      BY <3>1
    <3>3. leaf.v = l.v /\ leaf.hidden = (l.hidden \/ Under(c, p))
      BY <2>7, <3>2
    <3>4. ~Under(c, p)
      <4>1. ASSUME Under(c, p) PROVE FALSE
        <5>1. l = [way |-> <<>>, v |-> Redacted, hidden |-> FALSE]
          BY <2>8, <3>2, <4>1
        <5> QED BY <2>10, <3>3, <5>1
      <4> QED BY <4>1
    <3>5. l \in Leaves(RedactTree(p.v)) /\ l.v # Redacted
      BY <2>9, <2>10, <3>2, <3>3, <3>4
    <3>6. ~l.hidden
      BY <2>6, <3>5, Zenon DEF RedactsWell
    <3> QED BY <3>3, <3>4, <3>6
  <2>11. ASSUME NEW leaf \in Leaves(c), ~leaf.hidden PROVE leaf \in Leaves(d)
    <3>1. PICK p \in c.parts : \E l \in Leaves(p.v) : leaf = Within(c, p, l)
      BY <2>5, Zenon
    <3>2. PICK l \in Leaves(p.v) : leaf = Within(c, p, l)
      BY <3>1
    <3>3. ~l.hidden /\ ~Under(c, p)
      BY <2>7, <2>11, <3>2
    <3>4. l \in Leaves(put(p).v)
      BY <2>6, <2>9, <3>3, Zenon DEF RedactsWell
    <3>5. put(p) \in d.parts /\ leaf = Within(d, put(p), l)
      BY <2>7, <3>2
    <3>6. leaf \in {Within(d, put(p), k) : k \in Leaves(put(p).v)}
      BY <3>4, <3>5
    <3> QED BY <2>4, <3>5, <3>6
  <2>12. RedactsWell(c)
    BY <2>10, <2>11, Zenon DEF RedactsWell, d
  <2> QED BY <1>0, <2>12
<1>3. Json \subseteq S
  BY <1>1, <1>2, JsonInduction
<1> QED BY <1>0, <1>3

-----------------------------------------------------------------------------
(* Queries and headers. *)

\* The places in order: those asked for, each once.
Orders(places, n) ==
    /\ InOrder(places, n) \in Seq(1..n)
    /\ ToSet(InOrder(places, n)) = places \cap (1..n)
    /\ \A i, j \in DOMAIN InOrder(places, n) :
          i < j => InOrder(places, n)[i] < InOrder(places, n)[j]

LEMMA InOrderNext ==
    ASSUME NEW places, NEW m \in Nat
    PROVE  InOrder(places, m + 1) =
             InOrder(places, m) \o (IF m + 1 \in places THEN <<m + 1>> ELSE <<>>)
<1> DEFINE row == [i \in 1..m |-> IF i \in places THEN <<i>> ELSE <<>>]
           longer == [i \in 1..(m + 1) |-> IF i \in places THEN <<i>> ELSE <<>>]
           x == IF m + 1 \in places THEN <<m + 1>> ELSE <<>>
<1>1. row \in Seq(Seq(Nat)) /\ Len(row) = m
  <2>1. \A i \in 1..m : row[i] \in Seq(Nat)
    OBVIOUS
  <2> HIDE DEF row
  <2>2. row = [i \in 1..m |-> row[i]]
    BY DEF row
  <2> QED BY <2>1, <2>2, IsASeq
<1>2. x \in Seq(Nat)
  OBVIOUS
<1>3. longer = Append(row, x)
  <2>1. Append(row, x) \in Seq(Seq(Nat)) /\ Len(Append(row, x)) = m + 1
        /\ Append(row, x)[m + 1] = x /\ \A i \in 1..m : Append(row, x)[i] = row[i]
    <3> HIDE DEF row, x
    <3> QED BY <1>1, <1>2, Appends
  <2>2. longer \in Seq(Seq(Nat)) /\ Len(longer) = m + 1
    <3>1. \A i \in 1..(m + 1) : longer[i] \in Seq(Nat)
      OBVIOUS
    <3> HIDE DEF longer
    <3>2. longer = [i \in 1..(m + 1) |-> longer[i]]
      BY DEF longer
    <3> QED BY <3>1, <3>2, IsASeq
  <2>3. ASSUME NEW i \in 1..(m + 1) PROVE longer[i] = Append(row, x)[i]
    <3>1. CASE i = m + 1
      BY <2>1, <3>1
    <3>2. CASE i # m + 1
      <4>1. i \in 1..m
        BY <3>2
      <4>2. longer[i] = row[i]
        BY <4>1
      <4> QED BY <2>1, <4>1, <4>2
    <3> QED BY <3>1, <3>2
  <2> DEFINE ap == Append(row, x)
  <2> HIDE DEF ap, longer
  <2> QED BY <2>1, <2>2, <2>3, SeqEqual DEF ap
<1> HIDE DEF row, x, longer
<1>4. FlattenSeq(longer) = FlattenSeq(row) \o x
  BY <1>1, <1>2, <1>3, FlattenAppend
<1> QED BY <1>4 DEF InOrder, row, x, longer

LEMMA InOrderIs ==
    ASSUME NEW places, NEW n \in Nat
    PROVE  Orders(places, n)
<1> DEFINE T == {m \in Nat : ~Orders(places, m)}
<1>0. \A m \in Nat : m \in T <=> ~Orders(places, m)
  OBVIOUS
<1>1. SUFFICES ASSUME T # {} PROVE FALSE
  OBVIOUS
<1>2. PICK m \in T : \A j \in T : m =< j
  BY <1>1, Least
<1> HIDE DEF T
<1>3. m \in Nat /\ ~Orders(places, m)
  BY <1>2 DEF T
<1>4. CASE m = 0
  <2>1. InOrder(places, 0) = <<>>
    <3>1. [i \in 1..0 |-> IF i \in places THEN <<i>> ELSE <<>>] = <<>>
      OBVIOUS
    <3> QED BY <3>1, FlattenEmpty DEF InOrder
  <2>2. ToSet(<<>>) = {} /\ DOMAIN <<>> = {} /\ <<>> \in Seq(1..0)
    BY DEF ToSet
  <2>3. /\ InOrder(places, 0) \in Seq(1..0) /\ DOMAIN InOrder(places, 0) = {}
        /\ ToSet(InOrder(places, 0)) = places \cap (1..0)
    <3>1. places \cap (1..0) = {}
      OBVIOUS
    <3> QED BY <2>1, <2>2, <3>1, Zenon
  <2>4. Orders(places, 0)
    BY <2>3, Zenon DEF Orders
  <2> QED BY <1>3, <1>4, <2>4
<1>5. CASE m # 0
  <2>1. PICK k \in Nat : k + 1 = m /\ Orders(places, k)
    <3>1. m - 1 \in Nat /\ (m - 1) + 1 = m /\ ~(m =< m - 1)
      BY <1>3, <1>5
    <3>2. m - 1 \notin T
      BY <1>2, <3>1
    <3> QED BY <1>0, <3>1, <3>2
  <2> DEFINE s == InOrder(places, k)
             x == IF k + 1 \in places THEN <<k + 1>> ELSE <<>>
             t == InOrder(places, k + 1)
  <2>2. t = s \o x
    BY InOrderNext
  <2>3. /\ s \in Seq(1..k) /\ ToSet(s) = places \cap (1..k)
        /\ \A i, j \in DOMAIN s : i < j => s[i] < s[j]
    BY <2>1 DEF Orders
  <2> HIDE DEF s, t
  <2>4. CASE k + 1 \in places
    <3>1. t = s \o <<k + 1>>
      BY <2>2, <2>4
    <3>2. s \in Seq(1..(k + 1)) /\ <<k + 1>> \in Seq(1..(k + 1))
      <4>1. 1..k \subseteq 1..(k + 1)
        OBVIOUS
      <4> QED BY <2>3, <4>1, SeqMonotonic
    <3>3. t \in Seq(1..(k + 1)) /\ Len(t) = Len(s) + 1 /\ Len(s) \in Nat
          /\ t[Len(s) + 1] = k + 1 /\ \A i \in 1..Len(s) : t[i] = s[i]
      BY <3>1, <3>2
    <3>4. ToSet(t) = places \cap (1..(k + 1))
      <4>1. ToSet(<<k + 1>>) = {k + 1}
        BY DEF ToSet
      <4>2. \A y : y \in ToSet(t) <=> y \in ToSet(s) \/ y \in ToSet(<<k + 1>>)
        <5> DEFINE S == 1..(k + 1)
                   r == <<k + 1>>
        <5>1. s \in Seq(S) /\ r \in Seq(S)
          BY <3>2
        <5> HIDE DEF S, r
        <5>2. \A y : y \in ToSet(s \o r) <=> y \in ToSet(s) \/ y \in ToSet(r)
          BY <5>1, SetOfConcat
        <5> QED BY <3>1, <5>2 DEF r
      <4>3. 1..(k + 1) = 1..k \cup {k + 1}
        OBVIOUS
      <4> QED BY <2>3, <2>4, <4>1, <4>2, <4>3
    <3>5. ASSUME NEW i \in DOMAIN t, NEW j \in DOMAIN t, i < j PROVE t[i] < t[j]
      <4>1. i \in 1..(Len(s) + 1) /\ j \in 1..(Len(s) + 1) /\ DOMAIN s = 1..Len(s)
        BY <2>3, <3>3
      <4>2. i \in 1..Len(s) /\ t[i] = s[i] /\ s[i] \in 1..k
        BY <2>3, <3>3, <3>5, <4>1
      <4>3. CASE j = Len(s) + 1
        BY <3>3, <4>2, <4>3
      <4>4. CASE j # Len(s) + 1
        <5>1. j \in 1..Len(s) /\ t[j] = s[j]
          BY <3>3, <4>1, <4>4
        <5> QED BY <2>3, <3>5, <4>1, <4>2, <5>1
      <4> QED BY <4>3, <4>4
    <3>6. Orders(places, k + 1)
      BY <3>3, <3>4, <3>5 DEF Orders, t
    <3> QED BY <1>3, <2>1, <3>6
  <2>5. CASE k + 1 \notin places
    <3>1. t = s
      <4>1. x = <<>>
        BY <2>5
      <4> HIDE DEF x
      <4>2. s \o <<>> = s
        BY <2>3
      <4> QED BY <2>2, <4>1, <4>2
    <3>2. s \in Seq(1..(k + 1))
      <4>1. 1..k \subseteq 1..(k + 1)
        OBVIOUS
      <4> QED BY <2>3, <4>1, SeqMonotonic
    <3>3. places \cap (1..(k + 1)) = places \cap (1..k)
      <4>1. 1..(k + 1) = 1..k \cup {k + 1}
        OBVIOUS
      <4> QED BY <2>5, <4>1
    <3>4. Orders(places, k + 1)
      BY <2>3, <3>1, <3>2, <3>3, Zenon DEF Orders, t
    <3> QED BY <1>3, <2>1, <3>4
  <2> QED BY <2>4, <2>5
<1> QED BY <1>4, <1>5

\* What Redaction says of a query it is in terms of the places under a key.
Pairs == [name : Names, spelled : Forms, parses : BOOLEAN]

LEMMA PlacesIs ==
    ASSUME NEW places, NEW n \in Nat
    PROVE  /\ \A i : i \in ToSet(InOrder(places, n)) <=> i \in places /\ i \in 1..n
           /\ \A i, j \in DOMAIN InOrder(places, n) :
                 i < j => InOrder(places, n)[i] < InOrder(places, n)[j]
<1>1. Orders(places, n)
  BY InOrderIs
<1> QED BY <1>1 DEF Orders

LEMMA KeyIs == \A a, b : Key(a, b).name = a /\ Key(a, b).spelled = b
BY DEF Key

LEMMA ParseIs ==
    ASSUME NEW q \in Seq(Pairs)
    PROVE  /\ \A k : k \in DOMAIN ParseQuery(q) <=>
                        \E i \in DOMAIN q : q[i].parses /\ Unescaped(q[i]) = k
           /\ \A k \in DOMAIN ParseQuery(q) : \A i :
                 i \in ToSet(ParseQuery(q)[k]) <=>
                    i \in DOMAIN q /\ q[i].parses /\ Unescaped(q[i]) = k
           /\ \A i \in DOMAIN q : i # Redacted /\ Unescaped(q[i]).name = q[i].name
<1> DEFINE parsed == {i \in DOMAIN q : q[i].parses}
           under(k) == {i \in parsed : Unescaped(q[i]) = k}
<1>0. Len(q) \in Nat /\ DOMAIN q = 1..Len(q)
  OBVIOUS
<1>1. ParseQuery(q) = [k \in {Unescaped(q[i]) : i \in parsed} |-> InOrder(under(k), Len(q))]
  BY Zenon DEF ParseQuery
<1>2. \A k : k \in DOMAIN ParseQuery(q) <=> \E i \in DOMAIN q : q[i].parses /\ Unescaped(q[i]) = k
  <2>1. DOMAIN ParseQuery(q) = {Unescaped(q[i]) : i \in parsed}
    BY <1>1
  <2> QED BY <2>1
<1>3. ASSUME NEW k \in DOMAIN ParseQuery(q), NEW i
      PROVE  i \in ToSet(ParseQuery(q)[k]) <=>
                i \in DOMAIN q /\ q[i].parses /\ Unescaped(q[i]) = k
  <2>1. ParseQuery(q)[k] = InOrder(under(k), Len(q))
    BY <1>1
  <2>2. i \in ToSet(InOrder(under(k), Len(q))) <=> i \in under(k) /\ i \in 1..Len(q)
    <3> DEFINE U == under(k)
    <3> HIDE DEF U
    <3>1. i \in ToSet(InOrder(U, Len(q))) <=> i \in U /\ i \in 1..Len(q)
      BY <1>0, PlacesIs
    <3> QED BY <3>1 DEF U
  <2>3. i \in under(k) <=> i \in DOMAIN q /\ q[i].parses /\ Unescaped(q[i]) = k
    OBVIOUS
  <2> HIDE DEF under
  <2> QED BY <1>0, <2>1, <2>2, <2>3
<1>4. ASSUME NEW i \in DOMAIN q PROVE i # Redacted /\ Unescaped(q[i]).name = q[i].name
  <2>1. i # Redacted
    BY <1>0 DEF Redacted
  <2> QED BY <2>1, KeyIs, Zenon DEF Unescaped
<1> QED BY <1>2, <1>3, <1>4

LEMMA ShownIs ==
    ASSUME NEW l, NEW i
    PROVE  i \in ShownQuery(l) <=> i \in l.loose \/ \E k \in DOMAIN l.values : i \in ToSet(l.values[k])
BY DEF ShownQuery

LEMMA LineIs ==
    /\ \A q : /\ AsSent(q).values = ParseQuery(q) /\ AsSent(q).raw
              /\ AsSent(q).loose = {i \in DOMAIN q : ~q[i].parses}
    /\ \A values : /\ Encoded(values).values = values /\ Encoded(values).loose = {}
BY DEF AsSent, Encoded

\* Values with those of some keys put away.
Put(values, P) == [k \in DOMAIN values |-> IF k \in P THEN <<Redacted>> ELSE values[k]]

IsPut(values, P, put) ==
    /\ DOMAIN put = DOMAIN values
    /\ \A k \in DOMAIN values : IF k \in P THEN ToSet(put[k]) = {Redacted} ELSE put[k] = values[k]

LEMMA PutIs ==
    ASSUME NEW values, NEW P
    PROVE  IsPut(values, P, Put(values, P))
<1>1. ToSet(<<Redacted>>) = {Redacted}
  BY DEF ToSet
<1>2. /\ DOMAIN Put(values, P) = DOMAIN values
      /\ \A k \in DOMAIN values :
            Put(values, P)[k] = IF k \in P THEN <<Redacted>> ELSE values[k]
  BY DEF Put
<1> QED BY <1>1, <1>2 DEF IsPut

LEMMA RedactQueryIs ==
    ASSUME NEW q \in Seq(Pairs)
    PROVE  \/ /\ RedactQuery(q) = AsSent(q) /\ WellFormed(q)
              /\ \A k \in DOMAIN ParseQuery(q) : k.name \notin Listed
           \/ \E P : /\ RedactQuery(q) = Encoded(Put(ParseQuery(q), P))
                     /\ \A k \in DOMAIN ParseQuery(q) : k \in P <=> k.name \in Listed
                     /\ ~WellFormed(q) \/ \E k \in DOMAIN ParseQuery(q) : k.name \in Listed
<1> DEFINE values == ParseQuery(q)
           P == {k \in DOMAIN values : IsRedacted(k)}
<1>1. Put(values, P) = [k \in DOMAIN values |-> IF IsRedacted(k) THEN <<Redacted>> ELSE values[k]]
  BY DEF Put
<1>2. \A k \in DOMAIN values : k \in P <=> k.name \in Listed
  BY DEF IsRedacted
<1> HIDE DEF P
<1>3. CASE WellFormed(q) /\ \A k \in DOMAIN values : ~IsRedacted(k)
  BY <1>3, Zenon DEF RedactQuery, IsRedacted
<1>4. CASE ~(WellFormed(q) /\ \A k \in DOMAIN values : ~IsRedacted(k))
  <2>1. RedactQuery(q) = Encoded(Put(values, P))
    BY <1>1, <1>4, Zenon DEF RedactQuery
  <2> QED BY <1>2, <1>4, <2>1, Zenon DEF IsRedacted
<1> QED BY <1>3, <1>4

LEMMA RedactQueryHides ==
    ASSUME NEW q \in Seq(Pairs), NEW i \in DOMAIN q, q[i].name \in Listed
    PROVE  i \notin ShownQuery(RedactQuery(q))
<1> DEFINE values == ParseQuery(q)
<1>0. i # Redacted /\ Unescaped(q[i]).name \in Listed
  BY ParseIs
<1>1. CASE /\ RedactQuery(q) = AsSent(q) /\ WellFormed(q)
           /\ \A k \in DOMAIN values : k.name \notin Listed
  <2>1. q[i].parses
    BY <1>1 DEF WellFormed
  <2>2. Unescaped(q[i]) \in DOMAIN values
    BY <2>1, ParseIs
  <2> QED BY <1>0, <1>1, <2>2
<1>2. CASE \E P : /\ RedactQuery(q) = Encoded(Put(values, P))
                  /\ \A k \in DOMAIN values : k \in P <=> k.name \in Listed
  <2>1. PICK P : /\ RedactQuery(q) = Encoded(Put(values, P))
                 /\ \A k \in DOMAIN values : k \in P <=> k.name \in Listed
    BY <1>2
  <2>2. ASSUME NEW k \in DOMAIN values, i \in ToSet(Put(values, P)[k]) PROVE FALSE
    <3>1. CASE k \in P
      <4>1. ToSet(Put(values, P)[k]) = {Redacted}
        BY <3>1, PutIs DEF IsPut
      <4> QED BY <1>0, <2>2, <4>1
    <3>2. CASE k \notin P
      <4>1. Put(values, P)[k] = values[k]
        BY <3>2, PutIs DEF IsPut
      <4>2. Unescaped(q[i]) = k
        BY <2>2, <4>1, ParseIs
      <4> QED BY <1>0, <2>1, <3>2, <4>2
    <3> QED BY <3>1, <3>2
  <2>3. RedactQuery(q).loose = {} /\ RedactQuery(q).values = Put(values, P)
    BY <2>1, LineIs
  <2>4. DOMAIN Put(values, P) = DOMAIN values
    BY PutIs DEF IsPut
  <2> HIDE DEF values
  <2> QED BY <2>2, <2>3, <2>4, ShownIs
<1> QED BY <1>1, <1>2, RedactQueryIs, Zenon

LEMMA OutboundIs ==
    ASSUME NEW q \in Seq(Pairs)
    PROVE  \/ OutboundURL(q) = AsSent(q) /\ (exact = {} \/ q = <<>>)
           \/ OutboundURL(q) = Encoded(Put(ParseQuery(q), exact))
BY Zenon DEF OutboundURL, Put

LEMMA OutboundHides ==
    ASSUME NEW q \in Seq(Pairs), NEW i \in DOMAIN q
    PROVE  /\ Unescaped(q[i]) \in exact => i \notin ShownQuery(OutboundURL(q))
           /\ (q[i].parses /\ Unescaped(q[i]) \notin exact) => i \in ShownQuery(OutboundURL(q))
<1> DEFINE values == ParseQuery(q)
           key == Unescaped(q[i])
<1>0. i # Redacted /\ q # <<>>
  BY ParseIs
<1>9. PICK listed : listed = exact
  OBVIOUS
<1>8. /\ \A k \in DOMAIN values : k \notin listed => Put(values, listed)[k] = values[k]
      /\ \A k \in DOMAIN values : k \in listed => ToSet(Put(values, listed)[k]) = {Redacted}
  <2>1. IsPut(values, listed, Put(values, listed))
    BY PutIs
  <2>2. ASSUME NEW k \in DOMAIN values, k \in listed
        PROVE  ToSet(Put(values, listed)[k]) = {Redacted}
    BY <2>1, <2>2 DEF IsPut
  <2>3. ASSUME NEW k \in DOMAIN values, k \notin listed
        PROVE  Put(values, listed)[k] = values[k]
    BY <2>1, <2>3 DEF IsPut
  <2> QED BY <2>2, <2>3
<1>1. DOMAIN Put(values, listed) = DOMAIN values
  BY PutIs DEF IsPut
<1>2. ASSUME key \in listed PROVE i \notin ShownQuery(OutboundURL(q))
  <2>1. OutboundURL(q) = Encoded(Put(values, listed))
    BY <1>0, <1>2, <1>9, OutboundIs
  <2>2. ASSUME NEW k \in DOMAIN values, i \in ToSet(Put(values, listed)[k]) PROVE FALSE
    <3>1. CASE k \in listed
      <4>1. ToSet(Put(values, listed)[k]) = {Redacted}
        BY <1>8, <3>1
      <4> QED BY <1>0, <2>2, <4>1
    <3>2. CASE k \notin listed
      <4>1. Put(values, listed)[k] = values[k]
        BY <1>8, <3>2
      <4>2. key = k
        BY <2>2, <4>1, ParseIs
      <4> QED BY <1>2, <3>2, <4>2
    <3> QED BY <3>1, <3>2
  <2>3. OutboundURL(q).loose = {} /\ OutboundURL(q).values = Put(values, listed)
    BY <2>1, LineIs
  <2> HIDE DEF values
  <2> QED BY <1>1, <2>2, <2>3, ShownIs
<1>3. ASSUME q[i].parses, key \notin listed PROVE i \in ShownQuery(OutboundURL(q))
  <2>1. key \in DOMAIN values /\ i \in ToSet(values[key])
    BY <1>3, ParseIs
  <2>2. key \in DOMAIN OutboundURL(q).values /\ i \in ToSet(OutboundURL(q).values[key])
    <3>1. CASE OutboundURL(q) = AsSent(q)
      BY <2>1, <3>1, LineIs
    <3>2. CASE OutboundURL(q) = Encoded(Put(values, listed))
      <4>1. Put(values, listed)[key] = values[key]
        BY <1>3, <2>1, PutIs DEF IsPut
      <4>2. OutboundURL(q).values = Put(values, listed)
        BY <3>2, LineIs
      <4> HIDE DEF values, key
      <4> QED BY <1>1, <2>1, <4>1, <4>2
    <3> QED BY <1>9, <3>1, <3>2, OutboundIs
  <2> QED BY <2>2, ShownIs
<1> QED BY <1>2, <1>3, <1>9

LEMMA HeadersIs ==
    ASSUME NEW fs \in Seq(Keys)
    PROVE  /\ \A k : k \in DOMAIN Headers(fs) <=> \E i \in DOMAIN fs : Canonical(fs[i]) = k
           /\ \A k \in DOMAIN Headers(fs) :
                 IF HeaderListed(k) THEN ToSet(Headers(fs)[k]) = {Redacted}
                 ELSE /\ \A i : i \in ToSet(Headers(fs)[k]) <=> i \in DOMAIN fs /\ Canonical(fs[i]) = k
                      /\ \A m, n \in DOMAIN Headers(fs)[k] :
                            m < n => Headers(fs)[k][m] < Headers(fs)[k][n]
           /\ \A i \in DOMAIN fs :
                 /\ i # Redacted /\ Canonical(fs[i]).name = fs[i].name
                 /\ Canonical(fs[i]).spelled = "plain" <=> fs[i].spelled # "separated"
<1> DEFINE at(k) == {i \in DOMAIN fs : Canonical(fs[i]) = k}
           row(k) == InOrder(at(k), Len(fs))
<1>0. Len(fs) \in Nat /\ DOMAIN fs = 1..Len(fs)
  OBVIOUS
<1>1. Headers(fs) = [k \in {Canonical(fs[i]) : i \in DOMAIN fs} |->
                       IF HeaderListed(k) THEN <<Redacted>> ELSE row(k)]
  BY Zenon DEF Headers
<1>2. /\ \A k : \A i : i \in ToSet(row(k)) <=> i \in at(k) /\ i \in 1..Len(fs)
      /\ \A k : \A i, j \in DOMAIN row(k) : i < j => row(k)[i] < row(k)[j]
  <2>1. ASSUME NEW k
        PROVE  /\ \A i : i \in ToSet(row(k)) <=> i \in at(k) /\ i \in 1..Len(fs)
               /\ \A i, j \in DOMAIN row(k) : i < j => row(k)[i] < row(k)[j]
    <3> DEFINE U == at(k)
    <3> HIDE DEF U
    <3>1. /\ \A i : i \in ToSet(InOrder(U, Len(fs))) <=> i \in U /\ i \in 1..Len(fs)
          /\ \A i, j \in DOMAIN InOrder(U, Len(fs)) :
                i < j => InOrder(U, Len(fs))[i] < InOrder(U, Len(fs))[j]
      BY <1>0, PlacesIs
    <3> QED BY <3>1 DEF U
  <2> HIDE DEF row, at
  <2> QED BY <2>1
<1>3. \A k, i : i \in at(k) <=> i \in DOMAIN fs /\ Canonical(fs[i]) = k
  OBVIOUS
<1> HIDE DEF row, at
<1>4. \A k : k \in DOMAIN Headers(fs) <=> \E i \in DOMAIN fs : Canonical(fs[i]) = k
  <2>1. DOMAIN Headers(fs) = {Canonical(fs[i]) : i \in DOMAIN fs}
    BY <1>1
  <2> QED BY <2>1
<1>5. ASSUME NEW k \in DOMAIN Headers(fs)
      PROVE  Headers(fs)[k] = IF HeaderListed(k) THEN <<Redacted>> ELSE row(k)
  BY <1>1
<1>6. ToSet(<<Redacted>>) = {Redacted}
  BY DEF ToSet
<1>7. ASSUME NEW k \in DOMAIN Headers(fs)
      PROVE  IF HeaderListed(k) THEN ToSet(Headers(fs)[k]) = {Redacted}
             ELSE /\ \A i : i \in ToSet(Headers(fs)[k]) <=> i \in DOMAIN fs /\ Canonical(fs[i]) = k
                  /\ \A m, n \in DOMAIN Headers(fs)[k] :
                        m < n => Headers(fs)[k][m] < Headers(fs)[k][n]
  <2>1. CASE HeaderListed(k)
    BY <1>5, <1>6, <2>1
  <2>2. CASE ~HeaderListed(k)
    <3>1. Headers(fs)[k] = row(k)
      BY <1>5, <2>2
    <3> QED BY <1>0, <1>2, <1>3, <2>2, <3>1
  <2> QED BY <2>1, <2>2
<1>8. ASSUME NEW i \in DOMAIN fs
      PROVE  /\ i # Redacted /\ Canonical(fs[i]).name = fs[i].name
             /\ Canonical(fs[i]).spelled = "plain" <=> fs[i].spelled # "separated"
  <2>1. i # Redacted
    BY <1>0 DEF Redacted
  <2> QED BY <2>1, KeyIs DEF Canonical
<1> QED BY <1>4, <1>7, <1>8

LEMMA HeadersHide ==
    ASSUME NEW fs \in Seq(Keys), NEW i \in DOMAIN fs, fs[i].name \in Listed,
           fs[i].spelled # "separated"
    PROVE  i \notin ShownHeaders(Headers(fs))
<1>1. i # Redacted /\ HeaderListed(Canonical(fs[i]))
  BY HeadersIs DEF HeaderListed
<1>2. ASSUME NEW k \in DOMAIN Headers(fs), i \in ToSet(Headers(fs)[k]) PROVE FALSE
  <2>1. ~HeaderListed(k)
    <3>1. ASSUME HeaderListed(k) PROVE FALSE
      <4>1. ToSet(Headers(fs)[k]) = {Redacted}
        BY <3>1, HeadersIs
      <4> QED BY <1>1, <1>2, <4>1
    <3> QED BY <3>1
  <2>2. Canonical(fs[i]) = k
    BY <1>2, <2>1, HeadersIs
  <2> QED BY <1>1, <2>1, <2>2
<1> QED BY <1>2 DEF ShownHeaders

LEMMA HeadersKeep ==
    ASSUME NEW fs \in Seq(Keys), NEW i \in DOMAIN fs, fs[i].name \notin Listed
    PROVE  LET at == Headers(fs)[Canonical(fs[i])]
           IN  i \in ToSet(at) /\ \A m, n \in DOMAIN at : m < n => at[m] < at[n]
<1> DEFINE k == Canonical(fs[i])
<1>1. k \in DOMAIN Headers(fs) /\ k.name = fs[i].name
  BY HeadersIs
<1>2. ~HeaderListed(k)
  BY <1>1 DEF HeaderListed
<1> QED BY <1>1, <1>2, HeadersIs

-----------------------------------------------------------------------------
(* Paths. *)

\* f holds the words kept of p so far.
Keeps(f, p, n) == f = [i \in 0..n |-> IF i = 0 THEN <<>> ELSE Onto(f[i - 1], p[i])]

LEMMA KeepsExists ==
    ASSUME NEW p, NEW k \in Nat
    PROVE  \E f : Keeps(f, p, k)
<1> DEFINE T == {n \in Nat : ~\E f : Keeps(f, p, n)}
<1>1. SUFFICES ASSUME T # {} PROVE FALSE
  OBVIOUS
<1>2. PICK n \in T : \A m \in T : n =< m
  BY <1>1, Least
<1>3. n # 0
  <2> DEFINE f == [i \in 0..0 |-> <<>>]
  <2>1. f = [i \in 0..0 |-> IF i = 0 THEN <<>> ELSE Onto(f[i - 1], p[i])]
    OBVIOUS
  <2> HIDE DEF f
  <2>2. Keeps(f, p, 0)
    BY <2>1 DEF Keeps
  <2> QED BY <2>2
<1>4. n \in Nat /\ n - 1 \in Nat /\ n - 1 \notin T
  BY <1>2, <1>3
<1>5. PICK f : Keeps(f, p, n - 1)
  BY <1>4
<1> DEFINE g == [i \in 0..n |-> IF i < n THEN f[i] ELSE Onto(f[n - 1], p[n])]
<1>6. ASSUME NEW i \in 0..n PROVE g[i] = IF i = 0 THEN <<>> ELSE Onto(g[i - 1], p[i])
  <2>1. CASE i = n
    BY <1>3, <1>4, <2>1
  <2>2. CASE i < n
    <3>1. i \in 0..(n - 1)
      BY <1>4, <2>2
    <3>2. f[i] = IF i = 0 THEN <<>> ELSE Onto(f[i - 1], p[i])
      BY <1>5, <3>1, Zenon DEF Keeps
    <3>3. g[i] = f[i] /\ (i # 0 => g[i - 1] = f[i - 1])
      BY <1>4, <2>2
    <3> QED BY <3>2, <3>3
  <2> QED BY <1>4, <2>1, <2>2
<1>7. g = [i \in 0..n |-> IF i = 0 THEN <<>> ELSE Onto(g[i - 1], p[i])]
  <2> HIDE DEF g
  <2>1. g = [i \in 0..n |-> g[i]]
    BY DEF g
  <2> QED BY <1>6, <2>1
<1> HIDE DEF g
<1>8. Keeps(g, p, n)
  BY <1>7 DEF Keeps
<1> QED BY <1>8

\* A cleaned path is one.
LEMMA CleanType ==
    ASSUME NEW p \in Seq(Pieces)
    PROVE  Clean(p) \in Seq(Pieces)
<1>0. Len(p) \in Nat
  OBVIOUS
<1> DEFINE f == CHOOSE f : f = [i \in 0..Len(p) |-> IF i = 0 THEN <<>> ELSE Onto(f[i - 1], p[i])]
<1>1. Clean(p) = Join(f[Len(p)])
  BY Zenon DEF Clean
<1>2. Keeps(f, p, Len(p))
  <2>1. \E h : h = [i \in 0..Len(p) |-> IF i = 0 THEN <<>> ELSE Onto(h[i - 1], p[i])]
    BY <1>0, KeepsExists DEF Keeps
  <2>2. f = [i \in 0..Len(p) |-> IF i = 0 THEN <<>> ELSE Onto(f[i - 1], p[i])]
    BY <2>1, Zenon
  <2> HIDE DEF f
  <2> QED BY <2>2 DEF Keeps
<1> HIDE DEF f
<1>3. f[Len(p)] \in Seq(Pieces)
  <2> DEFINE T == {i \in 0..Len(p) : f[i] \notin Seq(Pieces)}
  <2>1. SUFFICES ASSUME T # {} PROVE FALSE
    BY <1>0
  <2>2. T \in SUBSET Nat
    OBVIOUS
  <2>3. PICK i \in T : \A j \in T : i =< j
    BY <2>1, <2>2, Least
  <2>4. i \in 0..Len(p) /\ f[i] \notin Seq(Pieces) /\ i - 1 \notin T
    BY <2>3
  <2>5. f[i] = IF i = 0 THEN <<>> ELSE Onto(f[i - 1], p[i])
    BY <1>2, <2>4, Zenon DEF Keeps
  <2>6. i # 0
    BY <2>4, <2>5
  <2>7. f[i - 1] \in Seq(Pieces) /\ p[i] \in Pieces
    BY <1>0, <2>4, <2>6
  <2> DEFINE words == f[i - 1]
             piece == p[i]
  <2> HIDE DEF words, piece, T
  <2>8. words \in Seq(Pieces) /\ piece \in Pieces
    BY <2>7 DEF words, piece
  <2>9. Onto(words, piece) \in Seq(Pieces)
    <3>1. Append(words, piece) \in Seq(Pieces)
      BY <2>8
    <3>2. words # <<>> => Front(words) \in Seq(Pieces)
      BY <2>8 DEF Front
    <3> QED BY <2>8, <3>1, <3>2, Zenon DEF Onto
  <2> QED BY <2>4, <2>5, <2>6, <2>9 DEF words, piece
<1>4. ASSUME NEW words \in Seq(Pieces) PROVE Join(words) \in Seq(Pieces)
  <2>1. CASE words = <<>>
    <3>1. <<"/">> \in Seq(Pieces)
      BY DEF Pieces
    <3> QED BY <2>1, <3>1 DEF Join
  <2>2. CASE words # <<>>
    <3> DEFINE ls == [i \in DOMAIN words |-> <<"/", words[i]>>]
    <3>1. \A i \in DOMAIN words : <<"/", words[i]>> \in Seq(Pieces)
      <4>1. ASSUME NEW i \in DOMAIN words PROVE <<"/", words[i]>> \in Seq(Pieces)
        <5>1. "/" \in Pieces /\ words[i] \in Pieces
          BY DEF Pieces
        <5> QED BY <5>1
      <4> QED BY <4>1
    <3>2. ls \in Seq(Seq(Pieces))
      <4>1. DOMAIN words = 1..Len(words) /\ Len(words) \in Nat
        OBVIOUS
      <4>2. \A i \in 1..Len(words) : <<"/", words[i]>> \in Seq(Pieces)
        BY <3>1, <4>1
      <4>3. [i \in 1..Len(words) |-> <<"/", words[i]>>] \in Seq(Seq(Pieces))
        BY <4>1, <4>2, IsASeq
      <4> QED BY <4>1, <4>3
    <3>3. Join(words) = FlattenSeq(ls)
      BY <2>2 DEF Join
    <3> HIDE DEF ls
    <3> QED BY <3>2, <3>3, FlattenType
  <2> QED BY <2>1, <2>2
<1> QED BY <1>1, <1>3, <1>4

\* A rule's prefix of a path with a slash put at its end is that path, or a prefix
\* of the path without the slash.
LEMMA PrefixWithoutSlash ==
    ASSUME NEW pre \in Seq(Pieces), NEW p \in Seq(Pieces), NEW x \in Pieces,
           IsPrefix(pre, Append(p, x))
    PROVE  pre = Append(p, x) \/ IsPrefix(pre, p)
<1> DEFINE q == Append(p, x)
<1>1. /\ q \in Seq(Pieces) /\ Len(q) = Len(p) + 1 /\ Len(p) \in Nat /\ Len(pre) \in Nat
      /\ \A i \in 1..Len(p) : q[i] = p[i]
  OBVIOUS
<1>2. Len(pre) =< Len(q) /\ SubSeq(pre, 1, Len(pre)) = SubSeq(q, 1, Len(pre))
  BY DEF IsPrefix
<1> HIDE DEF q
<1>3. \A i \in 1..Len(pre) : pre[i] = q[i]
  <2>1. ASSUME NEW i \in 1..Len(pre) PROVE pre[i] = q[i]
    <3>1. SubSeq(pre, 1, Len(pre))[i] = pre[i] /\ SubSeq(q, 1, Len(pre))[i] = q[i]
      BY <1>1, <1>2
    <3> QED BY <1>2, <3>1
  <2> QED BY <2>1
<1>4. CASE Len(pre) = Len(q)
  <2>1. pre = q
    BY <1>1, <1>3, <1>4, SeqEqual
  <2> QED BY <2>1 DEF q
<1>5. CASE Len(pre) # Len(q)
  <2>1. Len(pre) =< Len(p)
    BY <1>1, <1>2, <1>5
  <2>2. SubSeq(pre, 1, Len(pre)) = SubSeq(p, 1, Len(pre))
    <3>1. /\ SubSeq(pre, 1, Len(pre)) \in Seq(Pieces) /\ Len(SubSeq(pre, 1, Len(pre))) = Len(pre)
          /\ SubSeq(p, 1, Len(pre)) \in Seq(Pieces) /\ Len(SubSeq(p, 1, Len(pre))) = Len(pre)
      BY <1>1, <2>1
    <3>2. \A i \in 1..Len(pre) : SubSeq(pre, 1, Len(pre))[i] = SubSeq(p, 1, Len(pre))[i]
      BY <1>1, <1>3, <2>1
    <3> DEFINE a == SubSeq(pre, 1, Len(pre))
               b == SubSeq(p, 1, Len(pre))
    <3> HIDE DEF a, b
    <3> QED BY <3>1, <3>2, SeqEqual DEF a, b
  <2> QED BY <2>1, <2>2 DEF IsPrefix
<1> QED BY <1>4, <1>5

-----------------------------------------------------------------------------
(* The theorems. *)

\* What a request can be; the properties follow, as what a line shows is computed
\* from the request alone.
Request ==
    /\ query \in Seq(Pairs) /\ fields \in Seq(Keys) /\ path \in Seq(Pieces)
    /\ rules \in SkipRules \cup {NoRules}
    /\ doc.tree \in Json

LEMMA OmittedIs == Omitted \in Json /\ Leaves(Omitted) = {[way |-> <<>>, v |-> Redacted, hidden |-> FALSE]}
<1>1. Leaf(Redacted) \in Json
  BY DocsAssumption, LeafIsJson DEF Json, Redacted
<1>2. Leaf(Redacted).t = "leaf" /\ Leaf(Redacted).v = Redacted
  BY KindIs
<1>3. Leaves(Leaf(Redacted)) = {[way |-> <<>>, v |-> Redacted, hidden |-> FALSE]}
  BY <1>1, <1>2, LeavesIs
<1> QED BY <1>1, <1>3 DEF Omitted

LEMMA RequestBegins == RedactionInit => Request
<1>1. SUFFICES ASSUME RedactionInit PROVE Request
  OBVIOUS
<1>2. query \in Seq(Pairs) /\ fields \in Seq(Keys)
  BY <1>1 DEF RedactionInit
<1>3. path \in Seq(Pieces)
  <2>1. <<"/">> \in Seq(Pieces)
    BY DEF Pieces
  <2> QED BY <1>1, <2>1 DEF RedactionInit
<1>4. rules \in SkipRules \cup {NoRules}
  BY <1>1 DEF RedactionInit
<1>5. doc.tree \in Json
  <2>1. doc = [comes |-> "none", tree |-> Omitted]
    BY <1>1 DEF RedactionInit
  <2> QED BY <2>1, OmittedIs
<1> QED BY <1>2, <1>3, <1>4, <1>5 DEF Request

LEMMA RequestKept == Request /\ [RedactionNext]_redactionVars => Request'
<1> SUFFICES ASSUME Request, [RedactionNext]_redactionVars PROVE Request'
  OBVIOUS
<1> USE DEF Request
<1>1. ASSUME NEW name \in Names, NEW spelled \in Forms, NEW parses \in BOOLEAN,
             AddParameter(name, spelled, parses)
      PROVE  Request'
  <2>1. [name |-> name, spelled |-> spelled, parses |-> parses] \in Pairs
    BY DEF Pairs
  <2>2. query' \in Seq(Pairs)
    BY <1>1, <2>1 DEF AddParameter
  <2> QED BY <1>1, <2>2 DEF AddParameter
<1>2. ASSUME NEW name \in Names, NEW spelled \in Forms, AddField(name, spelled) PROVE Request'
  <2>1. Key(name, spelled) \in Keys
    BY DEF Key, Keys
  <2>2. fields' \in Seq(Keys)
    BY <1>2, <2>1 DEF AddField
  <2> QED BY <1>2, <2>2 DEF AddField
<1>3. ASSUME NEW tree \in Docs, NEW comes, SetBody(tree, comes) PROVE Request'
  <2>1. doc' = [comes |-> comes, tree |-> tree] /\ tree \in Json
    BY <1>3, DocsAssumption DEF SetBody
  <2>2. doc'.tree \in Json
    BY <2>1
  <2> QED BY <1>3, <2>2 DEF SetBody
<1>4. ASSUME NEW piece \in Pieces, AddToPath(piece) PROVE Request'
  <2>1. path' \in Seq(Pieces)
    BY <1>4 DEF AddToPath
  <2> QED BY <1>4, <2>1 DEF AddToPath
<1>5. CASE UNCHANGED redactionVars
  BY <1>5 DEF redactionVars
<1> QED BY <1>1, <1>2, <1>3, <1>4, <1>5 DEF RedactionNext

LEMMA NothingListed == Request => ListedNeverLogged
<1> SUFFICES ASSUME Request PROVE ListedNeverLogged
  OBVIOUS
<1>1. ASSUME NEW i \in DOMAIN query, query[i].name \in Listed
      PROVE  /\ i \notin ShownQuery(HttpxURL(query))
             /\ uriParses => i \notin ShownQuery(FiberURL(query))
  <2>1. i \notin ShownQuery(RedactQuery(query))
    BY <1>1, RedactQueryHides DEF Request
  <2> QED BY <2>1, Zenon DEF HttpxURL, FiberURL
<1>2. ASSUME NEW i \in DOMAIN query, Unescaped(query[i]) \in exact
      PROVE  i \notin ShownQuery(OutboundURL(query))
  BY <1>2, OutboundHides DEF Request
<1>3. ASSUME NEW i \in DOMAIN fields, fields[i].name \in Listed, fields[i].spelled # "separated"
      PROVE  i \notin ShownHeaders(Headers(fields))
  BY <1>3, HeadersHide DEF Request
<1>4. ASSUME NEW leaf \in Leaves(RedactedBody(doc)), leaf.v # Redacted PROVE ~leaf.hidden
  <2>1. CASE doc.comes = "whole"
    <3>1. RedactsWell(doc.tree)
      BY RedactLeaves DEF Request
    <3> QED BY <1>4, <2>1, <3>1, Zenon DEF RedactedBody, RedactsWell
  <2>2. CASE doc.comes # "whole"
    <3>1. leaf = [way |-> <<>>, v |-> Redacted, hidden |-> FALSE]
      BY <1>4, <2>2, OmittedIs DEF RedactedBody
    <3> QED BY <3>1
  <2> QED BY <2>1, <2>2
<1>5. ASSUME NEW package \in {"httpx", "fiberx"}, NEW leaf \in Leaves(LoggedBody(package, doc)),
             leaf.hidden, leaf.v # Redacted
      PROVE  package = "httpx" /\ leaf \in Leaves(doc.tree)
  <2>1. package = "httpx"
    BY <1>4, <1>5, Zenon DEF LoggedBody
  <2> QED BY <2>1, Zenon DEF LoggedBody, DecodedBody
<1> QED BY <1>1, <1>2, <1>3, <1>5, Zenon DEF ListedNeverLogged

LEMMA NothingLost == Request => RestKept
<1> SUFFICES ASSUME Request PROVE RestKept
  OBVIOUS
<1> DEFINE kept(l) ==
             /\ \A k \in DOMAIN ParseQuery(query) :
                   k.name \notin Listed => l.values[k] = ParseQuery(query)[k]
             /\ (WellFormed(query) /\ \A i \in DOMAIN query : query[i].name \notin Listed) => l.raw
<1>1. kept(AsSent(query))
  BY LineIs
<1>2. kept(RedactQuery(query))
  <2>1. query \in Seq(Pairs)
    BY DEF Request
  <2>2. PICK q \in Seq(Pairs) : q = query
    BY <2>1
  <2> DEFINE values == ParseQuery(q)
  <2>3. CASE RedactQuery(q) = AsSent(q)
    BY <1>1, <2>2, <2>3
  <2>4. CASE \E P : /\ RedactQuery(q) = Encoded(Put(values, P))
                    /\ \A k \in DOMAIN values : k \in P <=> k.name \in Listed
                    /\ ~WellFormed(q) \/ \E k \in DOMAIN values : k.name \in Listed
    <3>1. PICK P : /\ RedactQuery(q) = Encoded(Put(values, P))
                   /\ \A k \in DOMAIN values : k \in P <=> k.name \in Listed
                   /\ ~WellFormed(q) \/ \E k \in DOMAIN values : k.name \in Listed
      BY <2>4
    <3>2. RedactQuery(q).values = Put(values, P)
      BY <3>1, LineIs
    <3>3. \A k \in DOMAIN values : k \notin P => Put(values, P)[k] = values[k]
      BY PutIs DEF IsPut
    <3>4. ASSUME WellFormed(q), \A i \in DOMAIN q : q[i].name \notin Listed PROVE FALSE
      <4>1. PICK k \in DOMAIN values : k.name \in Listed
        BY <3>1, <3>4
      <4>2. PICK i \in DOMAIN q : Unescaped(q[i]) = k
        BY ParseIs
      <4>3. q[i].name = k.name
        BY <4>2, ParseIs
      <4> QED BY <3>4, <4>1, <4>3
    <3> HIDE DEF values
    <3>5. \A k \in DOMAIN values : k.name \notin Listed => RedactQuery(q).values[k] = values[k]
      BY <3>1, <3>2, <3>3
    <3> QED BY <2>2, <3>4, <3>5, Zenon DEF values
  <2> QED BY <2>3, <2>4, RedactQueryIs, Zenon
<1>3. \A l \in {HttpxURL(query), FiberURL(query)} : kept(l)
  <2> HIDE DEF kept
  <2>1. kept(HttpxURL(query)) /\ kept(FiberURL(query))
    BY <1>1, <1>2, Zenon DEF HttpxURL, FiberURL
  <2> QED BY <2>1, Zenon
<1>4. ASSUME NEW i \in DOMAIN query, query[i].parses, Unescaped(query[i]) \notin exact
      PROVE  i \in ShownQuery(OutboundURL(query))
  BY <1>4, OutboundHides DEF Request
<1>5. ASSUME NEW i \in DOMAIN fields, fields[i].name \notin Listed
      PROVE  LET at == Headers(fields)[Canonical(fields[i])]
             IN  i \in ToSet(at) /\ \A m, n \in DOMAIN at : m < n => at[m] < at[n]
  BY <1>5, HeadersKeep DEF Request
<1>6. ASSUME doc.comes = "whole", NEW package \in {"httpx", "fiberx"}
      PROVE  {leaf \in Leaves(doc.tree) : ~leaf.hidden} \subseteq Leaves(LoggedBody(package, doc))
  <2>1. RedactsWell(doc.tree) /\ RedactedBody(doc) = RedactTree(doc.tree)
    BY <1>6, RedactLeaves, Zenon DEF Request, RedactedBody
  <2>2. LoggedBody(package, doc) \in {doc.tree, RedactTree(doc.tree)}
    BY <2>1 DEF LoggedBody, DecodedBody
  <2> QED BY <2>1, <2>2 DEF RedactsWell
<1> QED BY <1>3, <1>4, <1>5, <1>6, Zenon DEF RestKept

LEMMA PathHeldBack == Request => HeldBack
<1> SUFFICES ASSUME Request PROVE HeldBack
  OBVIOUS
<1> DEFINE r == Routed(path)
<1>1. PICK p \in Seq(Pieces) : p = path
  BY DEF Request
<1>2. Clean(p) \in Seq(Pieces) /\ "/" \in Pieces
  BY CleanType DEF Pieces
<1>3. PICK c \in Seq(Pieces) : c = Clean(p)
  BY <1>2
<1>4. r = c \/ r = Append(c, "/")
  BY <1>1, <1>3, Zenon DEF Routed
<1>5. ASSUME NEW s, s = p \/ s = c
      PROVE  /\ Matches(method, s) => ~LogsBody(method, path)
             /\ s \in rules.paths => IsSkipped(path)
  BY <1>1, <1>3, <1>5 DEF LogsBody, IsSkipped, SpellingsOf
<1>6. ASSUME NEW pre \in rules.prefixes PROVE pre \in Seq(Pieces)
  <2>1. NoRules.prefixes = {}
    BY DEF NoRules
  <2> QED BY <1>6, <2>1, RulesAssumption DEF Request
<1>7. ASSUME path # r => ~EndsRule(r)
      PROVE  /\ Matches(method, r) => ~LogsBody(method, path)
             /\ r \in rules.paths => IsSkipped(path)
  <2>1. CASE r = p \/ r = c
    BY <1>5, <2>1
  <2>2. CASE r # p /\ r # c
    <3>1. r = Append(c, "/") /\ path # r
      BY <1>1, <1>4, <2>2
    <3>2. Last(r) = "/"
      <4>1. Append(c, "/")[Len(Append(c, "/"))] = "/"
        BY <1>2
      <4> QED BY <3>1, <4>1 DEF Last
    <3>3. r \notin rules.paths \cup rules.prefixes \cup {rt.path : rt \in rules.routes}
      BY <1>7, <3>1, <3>2 DEF EndsRule
    <3>4. ASSUME Matches(method, r) PROVE ~LogsBody(method, path)
      <4>1. \A rt \in rules.routes : rt.path # r
        BY <3>3
      <4>2. PICK pre \in rules.prefixes : IsPrefix(pre, r)
        BY <3>4, <4>1, Zenon DEF Matches
      <4>3. pre \in Seq(Pieces) /\ pre # r
        BY <1>6, <3>3, <4>2
      <4>4. IsPrefix(pre, c)
        BY <1>2, <3>1, <4>2, <4>3, PrefixWithoutSlash
      <4>5. Matches(method, c)
        BY <4>2, <4>4, Zenon DEF Matches
      <4> QED BY <1>5, <4>5
    <3> QED BY <3>3, <3>4
  <2> QED BY <2>1, <2>2
<1> QED BY <1>7, Zenon DEF HeldBack

\* A request is made of what the services are given; for all names, listed names,
\* keys, bodies, rules and bounds.
THEOREM RequestInvariance == RedactionSpec => []Request
BY RequestBegins, RequestKept, PTL DEF RedactionSpec

\* Nothing that stands under a listed name is on a line, in a query, a header or, on
\* fiberx's lines, a body of any depth; httpx's lines have bodies as they came.
THEOREM ListedIsNeverLogged == RedactionSpec => []ListedNeverLogged
BY RequestInvariance, NothingListed, PTL

\* Everything else is.
THEOREM RestIsKept == RedactionSpec => []RestKept
BY RequestInvariance, NothingLost, PTL

\* A request that ServeMux routes to a path a rule of httpx's Record names is held
\* back, however it spells the path.
THEOREM RuledPathsAreHeldBack == RedactionSpec => []HeldBack
BY RequestInvariance, PathHeldBack, PTL
==============================================================================
