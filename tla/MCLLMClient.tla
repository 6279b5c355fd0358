---------------------------- MODULE MCLLMClient ----------------------------
(***************************************************************************)
(* Instances of LLMClient for TLC.                                          *)
(***************************************************************************)
EXTENDS LLMClient, FiniteSets, Functions

\* Total is the fold it stands for, on every function of a small domain.
ASSUME TotalIsSum ==
  \A n \in 0..3 : \A f \in [1..n -> 0..2] :
    Total(f, n) = FoldFunction(+, 0, f)
=============================================================================
