------------------------------ MODULE MCRunner ------------------------------
(***************************************************************************)
(* Instances of Runner for TLC.                                             *)
(***************************************************************************)
EXTENDS Runner
=============================================================================
