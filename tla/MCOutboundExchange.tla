------------------------- MODULE MCOutboundExchange -------------------------
(***************************************************************************)
(* OutboundExchange with the logger outside, inside and on both sides of   *)
(* what clones the request, alone and twice, and with bodies on both sides *)
(* of its limit.                                                           *)
(***************************************************************************)
EXTENDS OutboundExchange

MCStacks ==
    {<<>>, <<"log">>, <<"log", "log">>, <<"clone", "log">>, <<"log", "clone">>,
     <<"log", "clone", "log">>, <<"clone", "log", "clone", "log">>}
MCPayloads ==
    {[kind |-> "nil", bytes |-> 0], [kind |-> "NoBody", bytes |-> 0]}
    \cup {[kind |-> "reader", bytes |-> n] : n \in 1..4}
MCResends == {"fresh", "seek"}
=============================================================================
