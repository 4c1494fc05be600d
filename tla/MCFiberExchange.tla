--------------------------- MODULE MCFiberExchange ---------------------------
(***************************************************************************)
(* FiberExchange with five apps: Record outside and inside of what answers *)
(* errors, refuses requests or recovers panics, one Record and two, an id  *)
(* that is stored before and after the first line.                         *)
(***************************************************************************)
EXTENDS FiberExchange

MCChains ==
    {<<"recover", "CorrelationID", "Caller", "IdempotencyKey", "Record">>,
     <<"CorrelationID", "Record", "Guard", "Record">>,
     <<"Guard", "Record", "Gate">>,
     <<"Gate", "Record", "CorrelationID", "Caller", "IdempotencyKey">>,
     <<"Record", "Gate", "recover", "Record", "CorrelationID", "Caller">>}
MCErrorHandlers == {"default", "kit", "failing"}
MCPaths         == {"logged", "quiet", "skipped"}
MCHeaderSets ==
    {[cid |-> 0, caller |-> 0, client |-> 1, key |-> 0],
     [cid |-> 3, caller |-> 4, client |-> 5, key |-> 6]}
MCErrors ==
    {[name |-> "coded", status |-> 500, codes |-> <<"c", "d">>],
     [name |-> "not found", status |-> 404, codes |-> <<>>]}
=============================================================================
