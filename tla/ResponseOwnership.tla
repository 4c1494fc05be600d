-------------------------- MODULE ResponseOwnership --------------------------
(***************************************************************************)
(* What httpx promises about an answer, whatever the middleware in front   *)
(* of the handler: one author answers, its bytes only grow, and when the   *)
(* exchange is over nothing changes any more.                              *)
(***************************************************************************)
EXTENDS Integers, NetHttp

VARIABLES
    owner,   \* who answers the request, "nobody" as long as it is open
    bytes,   \* body bytes accepted for the client, per author
    closed   \* the exchange is over

Init == owner = "nobody" /\ bytes = [a \in Authors |-> 0] /\ closed = FALSE

\* Only a's bytes grow.
Grows(a) ==
    /\ bytes' = [bytes EXCEPT ![a] = bytes'[a]]
    /\ bytes'[a] >= bytes[a]

\* The first commit decides who answers; bytes may go out with it.
Claim(a) ==
    /\ ~closed /\ owner = "nobody"
    /\ owner' = a /\ Grows(a)
    /\ UNCHANGED closed

Extend(a) ==
    /\ ~closed /\ owner = a
    /\ Grows(a)
    /\ UNCHANGED <<owner, closed>>

\* net/http answers for whoever did not, or drops the connection.
Close ==
    /\ ~closed /\ closed' = TRUE
    /\ \/ owner' = owner
       \/ owner = "nobody" /\ owner' = "server"
    /\ UNCHANGED bytes

Next == Close \/ \E a \in Authors : Claim(a) \/ Extend(a)

Spec == Init /\ [][Next]_<<owner, bytes, closed>>
=============================================================================
