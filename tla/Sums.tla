-------------------------------- MODULE Sums --------------------------------
(***************************************************************************)
(* The sum of a function over 1..n, what Python's sum(d.values()) adds up   *)
(* over a dictionary whose keys are numbered 1..n (an absent key counts 0). *)
(* It is a recursive function rather than a fold, so that its recurrence    *)
(* can be proved; SumsProofs proves the facts about it that the ledger's    *)
(* invariants rest on, for every n.                                         *)
(***************************************************************************)
EXTENDS Integers

\* PrefixSums(f, n)[k] is f[1] + ... + f[k].
PrefixSums(f, n) ==
  LET upTo[k \in 0..n] == IF k = 0 THEN 0 ELSE upTo[k - 1] + f[k]
  IN  upTo

\* f[1] + ... + f[n].
Total(f, n) == PrefixSums(f, n)[n]
=============================================================================
