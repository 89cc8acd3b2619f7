------------------------------ MODULE MCApiKeys ------------------------------
(***************************************************************************)
(* An instance of ApiKeys for TLC: the keys of one tenant.                 *)
(***************************************************************************)
EXTENDS ApiKeys

CONSTANTS t1, chat
=============================================================================
