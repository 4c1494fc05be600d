---------------------------- MODULE MCPropagation ----------------------------
(***************************************************************************)
(* Propagation between a gateway built on httpx and a service built on     *)
(* fiberx.                                                                 *)
(***************************************************************************)
EXTENDS Propagation

MCServices == {"gateway", "core"}
MCStack    == [s \in MCServices |-> IF s = "gateway" THEN "httpx" ELSE "fiberx"]

Header(cid, who, client, key) == [cid |-> cid, caller |-> who, client |-> client, key |-> key]

\* Staff with a client and an idempotency key; a fan, who sends a correlation id, a key
\* and an X-Client, but no X-Caller.
MCRoots == { Header(None, 11, 21, 31), Header(1, None, 22, 32) }

\* A plain request; one the handler makes in the name of other staff, who have no
\* client, and under a correlation id of its own; and one on which it sets an X-Client only.
MCPresets == { NoValues, Header(2, 12, None, None), Header(None, None, 23, None) }
=============================================================================
