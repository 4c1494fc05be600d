---------------------------- MODULE MCHttpExchange ----------------------------
(***************************************************************************)
(* HttpExchange on small instances: the chains and the handler's inputs.   *)
(***************************************************************************)
EXTENDS HttpExchange

\* Every position Recover and Record can have to each other and to the
\* middleware that answers by itself or sets a header; two Recovers; two
\* Records; no Recover.
MCChains ==
    { <<"Recover", "Record", "MaxBody", "CorrelationID">>,
      <<"CorrelationID", "Record", "Recover", "MaxBody">>,
      <<"Record", "MaxBody", "Recover">>,
      <<"MaxBody", "Recover", "CorrelationID", "Record">>,
      <<"Recover", "CorrelationID", "Recover">>,
      <<"Record", "Recover", "Record">>,
      <<"Record", "IdempotencyKey">> }

\* An invalid code, the two that commit nothing a client can use, a status
\* without a body, two with one.
MCCodes   == {0, 101, 103, 204, 200, 404}
MCLengths == {2}
MCChunks  == {0, 1, 2}
=============================================================================
