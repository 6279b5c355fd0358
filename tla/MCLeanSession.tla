--------------------------- MODULE MCLeanSession ---------------------------
(***************************************************************************)
(* Instances of LeanSession for TLC.                                        *)
(***************************************************************************)
EXTENDS LeanSession
=============================================================================
