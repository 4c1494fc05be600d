------------------------------ MODULE BodyStream ------------------------------
(***************************************************************************)
(* A body as its reader should find it, whatever logs it on the way: the   *)
(* bytes that arrived, in order, then the end the peer gave it, or the     *)
(* error of MaxBody once its limit is passed.                              *)
(***************************************************************************)
EXTENDS Integers, Sequences

VARIABLES
    limit,     \* MaxBody's limit, negative without one (never changes)
    declared,  \* the Content-Length, negative if unknown (never changes)
    sent,      \* bytes that arrived
    peer,      \* "open", "closed", "broken"
    got,       \* what the reader received
    seen       \* how the body ended for the reader, "none" before

vars == <<limit, declared, sent, peer, got, seen>>

Init == sent = 0 /\ peer = "open" /\ got = <<>> /\ seen = "none"

Arrive ==
    /\ peer = "open" /\ sent' = sent + 1
    /\ UNCHANGED <<limit, declared, peer, got, seen>>

End ==
    /\ peer = "open" /\ peer' \in {"closed", "broken"}
    /\ UNCHANGED <<limit, declared, sent, got, seen>>

Read ==
    /\ seen = "none" /\ Len(got) < sent /\ Len(got) # limit
    /\ got' = Append(got, Len(got) + 1)
    /\ UNCHANGED <<limit, declared, sent, peer, seen>>

ReadEnd ==
    /\ seen = "none"
    /\ \/ Len(got) = sent /\ (peer = "closed" \/ sent = declared) /\ seen' = "eof"
       \/ Len(got) = sent /\ peer = "broken" /\ seen' = "broken"
       \/ Len(got) = limit /\ limit < sent /\ seen' = "toolarge"
    /\ UNCHANGED <<limit, declared, sent, peer, got>>

Next == Arrive \/ End \/ Read \/ ReadEnd

Spec == Init /\ [][Next]_vars
=============================================================================
