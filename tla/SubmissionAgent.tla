--------------------------- MODULE SubmissionAgent ---------------------------
(*****************************************************************************)
(* The submitted agent's ladder (submission/agent.py): a sweep of tactics,   *)
(* the champions and their hand-offs (searches of TargetedRepair), the       *)
(* fallback by slots and whole, the experiment, and the residual rounds.     *)
(*                                                                           *)
(* The program portfolio is ProgramPortfolio, whose challenge this one       *)
(* shares.  A bridge portfolio is one step that finds a candidate or not:    *)
(* BridgePortfolio is its module.  The agent is one task whose stages follow *)
(* each other, so a stage and the guard after it are one step.  A test of a  *)
(* stage's clock may go either way.                                          *)
(*****************************************************************************)
EXTENDS TargetedRepair, ProgramPortfolio

CONSTANTS MaxRounds,    \* SUBMISSION_RESIDUAL_ROUNDS
          StallLimit    \* SUBMISSION_RESIDUAL_STALL

ASSUME AgentAssumption == MaxRounds \in Nat \ {0} /\ StallLimit \in Nat \ {0}

VARIABLES
  stage,      \* where solve() is
  answers,    \* problem_looks_answer_shaped
  arm,        \* the champion or hand-off at work: 1 is Qwen's, 2 is GPT-OSS's
  heirs,      \* failed_candidates of the two arms, or "none"
  slot,       \* the slot at work in the fallback
  tier,       \* the tier of _solve_slot
  near,       \* near_all
  won,        \* winners
  rounds,     \* residual rounds run
  firstRoute, \* route_mode when the rounds began
  route,      \* route_mode
  flat,       \* stall_rounds
  paths,      \* portfolios the rounds used (history)
  file,       \* what is checkpointed
  answer      \* what solve() returned

ladder == <<decls, answers, arm, heirs>>
fallback == <<slot, tier, near, won>>
residual == <<rounds, firstRoute, route, flat, paths>>
outcome == <<file, answer>>
portfolios == <<repairVars, programVars>>
agentVars == <<stage, ladder, fallback, residual, outcome, portfolios>>

Open == Theorems \cup Definitions   \* open_blocks
Many == Cardinality(Open) >= 2

Arms == 1..2
Found == {"resigned", "circular", "sound"}   \* what Lean and integrity_check let through
Routes == {"program", "bridge", "either"}

NoHeirs == [a \in Arms |-> "none"]

\* A hole of a definition makes the problem look answer-shaped, and so may a complete
\* definition that stands close to some other hole.
AgentInit ==
  /\ stage = "sweep"
  /\ decls \in Challenges
  /\ answers \in (IF Definitions # {} THEN {TRUE} ELSE IF Given # {} THEN BOOLEAN ELSE {FALSE})
  /\ arm = 1 /\ heirs = NoHeirs
  /\ slot = 1 /\ tier = "sweep" /\ near = FALSE /\ won = {}
  /\ rounds = 0 /\ firstRoute = "either" /\ route = "either" /\ flat = 0
  /\ paths = {}
  /\ file = "none" /\ answer = "none"
  /\ RepairInit /\ ProgramIdle

-----------------------------------------------------------------------------
(* What reaches the disk. *)

\* finish(), and the stages that guard for themselves: a candidate the guard lets pass is
\* checkpointed and returned.
Submit(kind) ==
  /\ MayPass(kind)
  /\ file' = kind /\ answer' = kind
  /\ stage' = "done"

\* Mutant: the inner agents share the checkpoint of the run.
SharedCheckpoint(kind) == kind

\* _inner_services: a checkpoint of an inner agent goes nowhere.
InnerCheckpoint(kind) == file

\* A stage finds a candidate that is submitted, or not, and the next stage begins.
StageOver(candidates, following) ==
  \/ \E kind \in candidates : Submit(kind)
  \/ stage' = following /\ UNCHANGED outcome

-----------------------------------------------------------------------------
(* The ladder. *)

\* T0: the challenge with each closing tactic.  It keeps every signature.
Sweep ==
  /\ stage = "sweep"
  /\ StageOver({"circular", "sound"}, "champion")
  /\ UNCHANGED <<ladder, fallback, residual, portfolios>>

FallbackStage == IF Many THEN "slots" ELSE "whole"

\* The fallback begins, and nothing of the champions is used again.
ChampionsOver == stage' = FallbackStage /\ arm' = 1 /\ heirs' = NoHeirs

\* The next champion or hand-off; after the second, the next stage.
NextArm(left) ==
  CASE arm = 1            -> UNCHANGED stage /\ arm' = 2 /\ heirs' = left
    [] stage = "champion" -> stage' = "handoff" /\ arm' = 1 /\ heirs' = left
    [] OTHER              -> ChampionsOver

\* The next champion starts from the challenge.
StartChampion ==
  /\ stage = "champion" /\ ending = "off"
  /\ RepairStarts
  /\ UNCHANGED <<stage, ladder, fallback, residual, outcome, programVars>>

\* The next hand-off: the other model repairs what a champion left.
StartHandoff ==
  /\ stage = "handoff" /\ ending = "off" /\ heirs[arm] # "none"
  /\ RepairStartsSeeded(heirs[arm])
  /\ UNCHANGED <<stage, ladder, fallback, residual, outcome, programVars>>

\* No seed, or the champions' window is used up.  A champion without time ends them all.
SkipArm ==
  /\ stage \in {"champion", "handoff"} /\ ending = "off"
  /\ IF stage = "champion" THEN stage' = "handoff" /\ arm' = 1 /\ UNCHANGED heirs
                           ELSE NextArm(heirs)
  /\ UNCHANGED <<decls, answers, fallback, residual, outcome, portfolios>>

\* The search goes on; it checkpoints each candidate before it is checked.
Repairing ==
  /\ RepairStep
  /\ file' = InnerCheckpoint(last')
  /\ UNCHANGED <<stage, ladder, fallback, residual, answer, programVars>>

\* A champion's or a hand-off's result: an accepted one is guarded again and finished; the
\* candidate of a champion that failed is kept for the hand-off.  One the final guard
\* refuses ends the champions.
ArmEnds ==
  /\ RepairOver
  /\ RepairForgotten
  /\ \/ ending = "accepted" /\ Submit(best) /\ UNCHANGED <<arm, heirs>>
     \/ ending = "accepted" /\ ChampionsOver /\ UNCHANGED outcome
     \/ /\ NextArm(IF stage = "champion" /\ ending # "raised"
                   THEN [heirs EXCEPT ![arm] = best] ELSE heirs)
        /\ UNCHANGED outcome
  /\ UNCHANGED <<decls, answers, fallback, residual, programVars>>

-----------------------------------------------------------------------------
(* The fallback: _solve_slot for each open declaration, then for the whole. *)

InSlot == stage \in {"slots", "whole"}
NextTier == CASE tier = "sweep" -> "one"
              [] tier = "one"   -> "batch"
              [] tier = "batch" -> "large"
              [] OTHER          -> "rescue"

\* A slot is over: the next one, then the slots are combined.
SlotOver(winners) ==
  /\ won' = winners /\ tier' = "sweep" /\ near' = FALSE
  /\ IF slot < Cardinality(Open) THEN slot' = slot + 1 /\ UNCHANGED stage
                    ELSE slot' = 1 /\ stage' = "combine"

\* A tier proves the slot: a tactic, a sample of a batch, or the rescue of a near miss.
SlotWon ==
  /\ InSlot
  /\ tier = "rescue" => near
  /\ IF stage = "slots" THEN SlotOver(won \cup {slot}) /\ UNCHANGED outcome
     ELSE /\ StageOver(Found, "experiment")
          /\ tier' = "sweep" /\ near' = FALSE /\ UNCHANGED <<slot, won>>
  /\ UNCHANGED <<ladder, residual, portfolios>>

\* It does not, or has no time; only the larger batches leave a near miss.
TierMissed ==
  /\ InSlot /\ tier # "rescue"
  /\ tier' = NextTier
  /\ near' \in IF tier \in {"batch", "large"} THEN {near, TRUE} ELSE {near}
  /\ UNCHANGED <<stage, slot, won, ladder, residual, outcome, portfolios>>

\* Nor does the last.
SlotLost ==
  /\ InSlot /\ tier = "rescue"
  /\ IF stage = "slots" THEN SlotOver(won)
     ELSE stage' = "experiment" /\ tier' = "sweep" /\ near' = FALSE /\ UNCHANGED <<slot, won>>
  /\ UNCHANGED <<ladder, residual, outcome, portfolios>>

\* No time to begin the next slot.
SlotsOutOfTime ==
  /\ stage = "slots" /\ tier = "sweep"
  /\ stage' = "combine"
  /\ UNCHANGED <<ladder, fallback, residual, outcome, portfolios>>

\* All slots won: their bodies go under the original headers, so the signatures are kept,
\* and Lean checks the file.  Otherwise, or if that fails, the whole problem is tried.
Combine ==
  /\ stage = "combine"
  /\ StageOver(IF won = 1..Cardinality(Open) THEN {"circular", "sound"} ELSE {}, "whole")
  /\ slot' = 1 /\ tier' = "sweep" /\ near' = FALSE /\ won' = {}
  /\ UNCHANGED <<ladder, residual, portfolios>>

-----------------------------------------------------------------------------
(* The experiment, and the portfolios of a round. *)

InRound == stage = "round" /\ rounds < MaxRounds
AfterPortfolio == IF stage = "round" THEN "greedy" ELSE "residual"

\* The first part of a round or of the experiment: which portfolio it uses.
Begun(portfolio) ==
  IF stage = "round" THEN paths' = paths \cup {portfolio} ELSE UNCHANGED paths

-----------------------------------------------------------------------------
(* Residual recursion. *)

GiveUp == stage' = "done" /\ answer' = "exhausted" /\ UNCHANGED file

\* The route is read off the reports of the stages before.
BeginRounds ==
  /\ stage = "residual"
  /\ \/ GiveUp /\ UNCHANGED residual
     \/ /\ stage' = "round"
        /\ firstRoute' \in Routes /\ route' = firstRoute'
        /\ UNCHANGED <<rounds, flat, paths, outcome>>
  /\ UNCHANGED <<ladder, fallback, portfolios>>

Prefers == Many \/ answers \/ firstRoute = "program"   \* prefer_program
Leans == firstRoute = "bridge" /\ ~answers             \* prefer_bridge

\* Mutant: a problem that leans to the bridge stays with it.
UseProgramUnlessLeaning ==
  /\ Many \/ answers
  /\ ~Leans
  /\ Prefers

\* use_program of a round, numbered from 0: by the first route and by the present one.
UseProgram ==
  /\ Many \/ answers
  /\ IF Many /\ Leans /\ rounds > 0 THEN rounds % 2 = 1
     ELSE \/ answers
          \/ Prefers /\ route = "program"
          \/ Many /\ route # "bridge"
          \/ ~Leans /\ Prefers /\ (route = "either" => Many)

\* The experiment's portfolio, or the round's.
Chosen == IF stage = "round" THEN UseProgram ELSE Many

Ready == phase = "off" /\ (InRound \/ stage = "experiment")

StartProgram ==
  /\ Ready /\ Chosen
  /\ ProgramStarts
  /\ Begun("program")
  /\ UNCHANGED <<stage, ladder, fallback, rounds, firstRoute, route, flat, outcome,
                 repairVars>>

\* The portfolio goes on; its checkpoints go nowhere.
RunProgram ==
  /\ ProgramStep
  /\ UNCHANGED <<stage, ladder, fallback, residual, outcome, repairVars>>

\* Its result.  When the guard refuses a program Lean accepted, a round reads its route off
\* the guard's errors.
ProgramReturns ==
  /\ \/ phase = "solved" /\ Submit(ProgramKind) /\ UNCHANGED route
     \/ /\ stage' = AfterPortfolio /\ UNCHANGED outcome
        /\ route' \in IF phase = "solved" /\ stage = "round" THEN Routes ELSE {route}
  /\ ProgramForgotten
  /\ UNCHANGED <<ladder, fallback, rounds, firstRoute, flat, paths, repairVars>>

\* The bridge portfolio, whole.
Bridge ==
  /\ Ready /\ ~Chosen
  /\ StageOver({"circular", "sound"}, AfterPortfolio)
  /\ Begun("bridge")
  /\ UNCHANGED <<ladder, fallback, rounds, firstRoute, route, flat, portfolios>>

\* The experiment has no time.
NoExperiment ==
  /\ stage = "experiment" /\ phase = "off"
  /\ stage' = "residual"
  /\ UNCHANGED <<ladder, fallback, residual, outcome, portfolios>>

\* After the last round, or when less than two minutes are left.
RoundsOver ==
  /\ stage = "round" /\ phase = "off"
  /\ GiveUp
  /\ UNCHANGED <<ladder, fallback, residual, portfolios>>

\* Mutant: a round that gained something is not counted.
CountedIfFlat(gain) == IF gain THEN rounds ELSE rounds + 1

\* The loop counts every round.
Counted(gain) == rounds + 1

\* stall_rounds
FlatRounds(gain) == IF gain THEN 0 ELSE flat + 1

\* The round's end: the greedy close over the whole bank, unless its window is used up, and
\* the test for a stall.
Greedy ==
  /\ stage = "greedy"
  /\ \/ /\ \E kind \in {"circular", "sound"} : Submit(kind)
        /\ UNCHANGED <<rounds, flat>>
     \/ \E gain \in BOOLEAN :
          /\ flat' = FlatRounds(gain)
          /\ rounds' = Counted(gain)
          /\ IF flat' >= StallLimit THEN GiveUp ELSE stage' = "round" /\ UNCHANGED outcome
  /\ UNCHANGED <<ladder, fallback, firstRoute, route, paths, portfolios>>

AgentNext ==
  \/ Sweep \/ StartChampion \/ StartHandoff \/ SkipArm \/ Repairing \/ ArmEnds
  \/ SlotWon \/ TierMissed \/ SlotLost \/ SlotsOutOfTime \/ Combine
  \/ StartProgram \/ RunProgram \/ ProgramReturns \/ Bridge \/ NoExperiment
  \/ BeginRounds \/ RoundsOver \/ Greedy

\* One task, whose model calls and checks all have deadlines.
AgentSpec == AgentInit /\ [][AgentNext]_agentVars /\ WF_agentVars(AgentNext)

-----------------------------------------------------------------------------
(* Properties. *)

AgentTypeOK ==
  /\ ProgramTypeOK
  /\ stage \in {"sweep", "champion", "handoff", "slots", "combine", "whole", "experiment",
                "residual", "round", "greedy", "done"}
  /\ ending # "off" => stage \in {"champion", "handoff"}
  /\ phase # "off" => stage \in {"experiment", "round"}
  /\ best \in Verdicts \cup {"none"} /\ bestRank \in -1..TopRank
  /\ rounds \in 0..MaxRounds
  /\ flat <= StallLimit
  /\ stage = "done" <=> answer # "none"

\* Whenever the agent is cut off, what it checkpointed kept the challenge's signatures and
\* passed the guard; and what it returns as solved is what it checkpointed.
CheckpointIsSubstantive ==
  /\ file \in {"none", "circular", "sound"}
  /\ answer \in {"none", "exhausted"} => file = "none"
  /\ answer \notin {"none", "exhausted"} => file = answer

\* An answer-shaped problem has no round of the bridge alone, and one of several open
\* declarations gets the program portfolio in one of its first two rounds, whatever the
\* router read into the failures.
ProgramGetsARound ==
  /\ answers => "bridge" \notin paths
  /\ Many /\ rounds >= 2 => "program" \in paths

\* The agent ends.
AgentEnds == <>(stage = "done")

=============================================================================
