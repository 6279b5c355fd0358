---------------------------- MODULE TargetedRepair ----------------------------
(*****************************************************************************)
(* One search by proposal and repair (experiments_agents/repair.py).         *)
(*                                                                           *)
(* A candidate is known by what the checks make of it: Lean refuses it; or   *)
(* Lean accepts it and it keeps the names of the challenge, but it changed a *)
(* signature ("resigned") or its answer is circular; or it is sound.  Its    *)
(* rank is the position of candidate_rank; the highest is for a candidate    *)
(* the search ends with.                                                     *)
(*****************************************************************************)
EXTENDS Integers, Sequences, FiniteSets

CONSTANTS MaxPropose,   \* max_propose_turns
          MaxRepair,    \* max_repair_turns
          TopRank       \* ranks the model tells apart

ASSUME RepairAssumption == /\ MaxPropose \in Nat \ {0}
                           /\ MaxRepair \in Nat
                           /\ TopRank \in Nat \ {0}

VARIABLES
  seed,       \* initial_candidate, or "none"
  plan,       \* the turns left
  best,       \* best_candidate
  bestRank,   \* best_rank; -1 for None
  last,       \* last_candidate
  stalled,    \* consecutive_no_improve
  ending,     \* "off", "running", "accepted", "stalled", "exhausted" or "raised"
  gains       \* for each repair turn, whether it improved on all before (history)

repairVars == <<seed, plan, best, bestRank, last, stalled, ending, gains>>

Verdicts == {"refused", "resigned", "circular", "sound"}

\* candidate_guard.validate_solution_candidate may accept a circular answer, when its probe
\* cannot be run, and may refuse a sound candidate, when a complete definition of the
\* challenge is taken for an answer.  A changed signature it always refuses.
MayPass(kind) == kind \in {"circular", "sound"}

Turns(stage, n) == [k \in 1..n |-> stage]

RepairInit ==
  /\ seed = "none" /\ plan = <<>> /\ best = "none" /\ bestRank = -1 /\ last = "none"
  /\ stalled = 0 /\ ending = "off" /\ gains = <<>>

\* solve() from a seed: the seed is checked and ranked first, and ends the search when it
\* is accepted.
RepairStartsSeeded(from) ==
  /\ seed' = from
  /\ plan' = Turns("repair", MaxRepair)
  /\ best' = from /\ last' = from
  /\ stalled' = 0 /\ gains' = <<>>
  /\ \/ MayPass(from) /\ ending' = "accepted" /\ bestRank' = TopRank
     \/ ending' = "running" /\ bestRank' \in 0..TopRank-1
     \/ ending' = "raised" /\ bestRank' = -1

\* solve() from the challenge.
RepairStarts ==
  /\ seed' = "none"
  /\ plan' = Turns("propose", MaxPropose) \o Turns("repair", MaxRepair)
  /\ best' = "none" /\ bestRank' = -1 /\ last' = "none"
  /\ stalled' = 0 /\ gains' = <<>> /\ ending' = "running"

\* The best candidate so far, the first of its rank.
Keep(kind, rank) ==
  IF rank > bestRank THEN best' = kind /\ bestRank' = rank
                     ELSE UNCHANGED <<best, bestRank>>

\* Mutant: the search ends at the first repair that does not improve.
OverAtOnce(misses) == Head(plan) = "repair" /\ misses > 0

\* After this many turns in a row that did not improve, a repair turn ends the search.
Over(misses) == Head(plan) = "repair" /\ misses >= 2

\* A turn: the model's answer is extracted (or the last candidate stays), checked by Lean
\* and by the guard, ranked, and seeds the next turn.
Turn ==
  /\ ending = "running" /\ plan # <<>>
  /\ \E kind \in Verdicts : \E rank \in 0..TopRank :
       /\ rank = TopRank => MayPass(kind)
       /\ last' = kind
       /\ Keep(kind, rank)
       /\ stalled' = IF rank > bestRank THEN 0 ELSE stalled + 1
       /\ gains' = IF Head(plan) = "repair" THEN Append(gains, rank > bestRank) ELSE gains
       /\ ending' = IF rank = TopRank THEN "accepted"
                    ELSE IF Over(stalled') THEN "stalled" ELSE "running"
  /\ plan' = Tail(plan)
  /\ UNCHANGED seed

\* A model call or a check raises, and nothing of the search is left to the caller.
TurnRaises ==
  /\ ending = "running" /\ plan # <<>>
  /\ ending' = "raised"
  /\ UNCHANGED <<seed, plan, best, bestRank, last, stalled, gains>>

OutOfTurns ==
  /\ ending = "running" /\ plan = <<>>
  /\ ending' = "exhausted"
  /\ UNCHANGED <<seed, plan, best, bestRank, last, stalled, gains>>

RepairStep == Turn \/ TurnRaises \/ OutOfTurns

RepairOver == ending \in {"accepted", "stalled", "exhausted", "raised"}

\* The caller has taken the result.
RepairForgotten ==
  /\ seed' = "none" /\ plan' = <<>> /\ best' = "none" /\ bestRank' = -1 /\ last' = "none"
  /\ stalled' = 0 /\ ending' = "off" /\ gains' = <<>>

-----------------------------------------------------------------------------
(* Properties. *)

\* repair.py:11-12, 322: a search stalls only after two repairs in a row that improved on
\* nothing before them.
StallsAfterTwoRepairs ==
  ending = "stalled" =>
    /\ Len(gains) >= 2
    /\ ~gains[Len(gains)] /\ ~gains[Len(gains) - 1]

=============================================================================
