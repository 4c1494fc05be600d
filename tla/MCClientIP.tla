------------------------------ MODULE MCClientIP ------------------------------
(***************************************************************************)
(* ClientIP with three addresses, so that every split into trusted and     *)
(* untrusted occurs along a route and in what a client forges.             *)
(***************************************************************************)
EXTENDS ClientIP

MCAddresses == {"a", "b", "c"}
MCSpellings == {"plain", "port"}
=============================================================================
