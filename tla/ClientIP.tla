------------------------------- MODULE ClientIP -------------------------------
(***************************************************************************)
(* The client address httpx.IPResolver reports for a request that came     *)
(* through proxies, and the one fiber reports under TrustedProxyConfig of  *)
(* fiberx.  The client fills X-Forwarded-For as it likes; every proxy      *)
(* appends the address it was called from, on the same field line or on a  *)
(* new one, and calls the next with its own address.                       *)
(*                                                                         *)
(* A hop is an address in one of the spellings that proxies use, or text   *)
(* that is no address; parsing brings the spellings of one address to the  *)
(* same value.                                                             *)
(***************************************************************************)
EXTENDS Integers, Sequences, SequencesExt

CONSTANTS
    Addresses,   \* addresses of clients and proxies
    Spellings,   \* how an address is written: plain, with a port, 4-in-6, zoned
    MaxForged,   \* bound: hops in the header the client sends
    MaxProxies   \* bound: proxies on the route

\* "none" and "garbage" stand for what is no address and what does not parse.
ASSUME AddressesAssumption ==
    /\ Addresses # {} /\ "none" \notin Addresses
    /\ Spellings # {} /\ "garbage" \notin Spellings
ASSUME BoundsAssumption    == MaxForged \in Nat /\ MaxProxies \in Nat

VARIABLES
    trusted,   \* the resolver's trusted proxies (never changes)
    route,     \* the addresses the request really came through, client first
    lines,     \* X-Forwarded-For: a sequence of field lines, each of hops
    result     \* what ClientIP reported, NoAddress before

vars == <<trusted, route, lines, result>>

NoAddress == "none"
Garbage   == [addr |-> NoAddress, spelling |-> "garbage"]
Hops      == [addr : Addresses, spelling : Spellings] \cup {Garbage}

\* RemoteAddr: the last one who forwarded.
Peer == Last(route)

-----------------------------------------------------------------------------
\* parseHop: port, 4-in-6 mapping and zone are dropped, the rest must be an
\* address.
Parses(hop)   == hop.spelling # "garbage"

ParseHop(hop) == hop.addr

\* trusts, on a parsed address; a resolver with no proxies trusts nothing.
Trusts(a) == a \in trusted

\* Header.Get: the first field line.
FirstLine == IF lines = <<>> THEN <<>> ELSE lines[1]

\* Repeated field lines are one list.
Joined == FlattenSeq(lines)

\* The walk from the left end, where the client writes.
WalkLeft(hops) ==
    IF hops = <<>> \/ ~Parses(hops[1]) THEN Peer
    ELSE IF ~Trusts(ParseHop(hops[1])) THEN ParseHop(hops[1])
    ELSE Peer

\* The walk of ClientIP from the right end of the list, i hops left.
Walk(hops) ==
    LET walk[i \in 0..Len(hops)] ==
          IF i = 0 \/ ~Parses(hops[i]) THEN Peer
          ELSE IF ~Trusts(ParseHop(hops[i])) THEN ParseHop(hops[i])
          ELSE walk[i - 1]
    IN walk[Len(hops)]

Resolved == IF Trusts(Peer) THEN Walk(Joined) ELSE Peer

\* fiber's validation: an address and nothing else.
IsIP(hop) == hop.spelling = "plain"

\* Where the first field line has one.
IPs == {i \in DOMAIN FirstLine : IsIP(FirstLine[i])}

\* Without the proxy check: anyone's header is honoured.
FiberIPUnchecked == IF IPs = {} THEN Peer ELSE ParseHop(FirstLine[Min(IPs)])

\* c.IP() with the header, the proxy check and the validation that
\* TrustedProxyConfig turns on: of the first field line the leftmost address.
FiberIP == IF ~Trusts(Peer) \/ IPs = {} THEN Peer ELSE ParseHop(FirstLine[Min(IPs)])

-----------------------------------------------------------------------------
Init ==
    /\ trusted \in SUBSET Addresses
    /\ route \in {<<a>> : a \in Addresses}
    /\ lines = <<>> /\ result = NoAddress

\* The client's own field line, before any proxy saw the request.
Forge(hop) ==
    /\ result = NoAddress /\ Len(route) = 1
    /\ Len(Joined) < MaxForged
    /\ \/ lines' = Append(lines, <<hop>>)
       \/ lines # <<>> /\ lines' = [lines EXCEPT ![Len(lines)] = Append(@, hop)]
    /\ UNCHANGED <<trusted, route, result>>

\* A proxy at address a forwards the request.
Forward(a, spelling) ==
    /\ result = NoAddress /\ Len(route) =< MaxProxies
    /\ LET hop == [addr |-> Peer, spelling |-> spelling] IN
       \/ lines' = Append(lines, <<hop>>)
       \/ lines # <<>> /\ lines' = [lines EXCEPT ![Len(lines)] = Append(@, hop)]
    /\ route' = Append(route, a)
    /\ UNCHANGED <<trusted, result>>

\* The service asks the resolver.
Resolve ==
    /\ result = NoAddress
    /\ result' = Resolved
    /\ UNCHANGED <<trusted, route, lines>>

Next ==
    \/ \E hop \in Hops : Forge(hop)
    \/ \E a \in Addresses, spelling \in Spellings : Forward(a, spelling)
    \/ Resolve
    \/ result # NoAddress /\ UNCHANGED vars

Spec == Init /\ [][Next]_vars

-----------------------------------------------------------------------------
\* The values of the variables; what is reported is an address.
TypeOK ==
    /\ trusted \subseteq Addresses /\ route \in Seq(Addresses)
    /\ lines \in Seq(Seq(Hops)) /\ result \in Addresses \cup {NoAddress}

Untrusted == {i \in DOMAIN route : route[i] \notin trusted}

\* Whatever the client put in the header: the address reported is the last one
\* on the real route that is not a trusted proxy - the client, when every proxy
\* is trusted.  On a route of trusted addresses only, the header of a trusted
\* client is believed hop by hop, and a chain without an untrusted hop reports
\* the peer.
NearestUntrusted ==
    result # NoAddress =>
        \/ \E i \in Untrusted : result = route[i] /\ \A j \in Untrusted : j =< i
        \/ /\ Untrusted = {}
           /\ \/ result = Peer
              \/ \E i \in DOMAIN Joined :
                   /\ Joined[i].addr = result /\ result \notin trusted
                   /\ \A j \in (i + 1)..Len(Joined) : Joined[j].addr \in trusted

\* Every hop of the header is a proxy's.
Unforged == Len(Joined) = Len(route) - 1

\* fiber behind proxies: a peer that is no trusted proxy is reported whatever its
\* header says; a client who sent no header of its own is reported from behind
\* any number of proxies, trusted or not, if the first of them wrote a plain
\* address, and is then the one the resolver of httpx reports when all are trusted.
FiberClient ==
    result # NoAddress =>
        /\ (Peer \notin trusted => FiberIP = Peer)
        /\ (Peer \in trusted /\ Unforged /\ lines # <<>> /\ IsIP(lines[1][1]))
             => /\ FiberIP = route[1]
                /\ Untrusted = {1} => FiberIP = result
=============================================================================
