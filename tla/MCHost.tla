------------------------------- MODULE MCHost -------------------------------
(***************************************************************************)
(* An instance of Host for TLC.                                            *)
(***************************************************************************)
EXTENDS Host, TLC

CONSTANTS r1, r2

\* The second release brings a migration and a unit of its own.
MCSchema == r1 :> 0 @@ r2 :> 1
MCUnit   == r1 :> "a" @@ r2 :> "b"
=============================================================================
