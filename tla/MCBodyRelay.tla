----------------------------- MODULE MCBodyRelay -----------------------------
(***************************************************************************)
(* BodyRelay on small instances.                                           *)
(***************************************************************************)
EXTENDS BodyRelayClaims

Log(n) == [kind |-> "log", limit |-> n]
CapAt(n) == [kind |-> "cap", limit |-> n]

\* Record alone; Record inside MaxBody with the larger and the smaller limit;
\* Record outside MaxBody; Record, MaxBody and LoggerTransport; two logs.
MCPipelines ==
    { <<Log(2)>>, <<CapAt(2), Log(3)>>, <<CapAt(3), Log(2)>>, <<Log(2), CapAt(2)>>,
      <<Log(2), CapAt(3), Log(4)>>, <<Log(1), Log(3)>>, <<Log(3), Log(2), CapAt(3)>> }

\* What a service that only logs builds.
MCLogOnly == { <<Log(3)>> }

MCLengths == 0..MaxSent \cup {Unknown}
MCChunked == {Unknown}
MCAnyPeer == BOOLEAN
MCPlain   == {FALSE}
MCDuplex  == {TRUE}
=============================================================================
