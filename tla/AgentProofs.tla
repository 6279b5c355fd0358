----------------------------- MODULE AgentProofs -----------------------------
(*****************************************************************************)
(* What holds of the agent's ladder for any challenges, answers, windows and *)
(* numbers of turns, calls, states, passes and rounds.                       *)
(*****************************************************************************)
EXTENDS SubmissionAgent, SumsProofs, SequenceTheorems, TLAPS

-----------------------------------------------------------------------------
(* What is checkpointed.                                                     *)

\* A search runs only in the stages of the champions, a portfolio only in a round or the
\* experiment, and what is on disk is what the agent returned.
StageInv ==
  /\ stage = "done" <=> answer # "none"
  /\ ending # "off" => stage \in {"champion", "handoff"}
  /\ phase # "off" => stage \in {"experiment", "round"}
  /\ CheckpointIsSubstantive

LEMMA SubmitKeeps ==
  ASSUME NEW kind, Submit(kind)
  PROVE  /\ stage' = "done" /\ answer' # "none"
         /\ CheckpointIsSubstantive'
BY DEF Submit, MayPass, CheckpointIsSubstantive

\* A stage that neither submits nor gives up leaves the outcome as it is.
LEMMA GoesOn ==
  ASSUME StageInv, UNCHANGED outcome, stage # "done", stage' # "done",
         ending' # "off" => stage' \in {"champion", "handoff"},
         phase' # "off" => stage' \in {"experiment", "round"}
  PROVE  StageInv'
BY DEF StageInv, CheckpointIsSubstantive, outcome

LEMMA Finishes ==
  ASSUME StageInv, NEW kind, Submit(kind), ending' = "off", phase' = "off"
  PROVE  StageInv'
BY SubmitKeeps DEF StageInv

LEMMA GivesUp ==
  ASSUME StageInv, stage # "done", GiveUp, ending' = "off", phase' = "off"
  PROVE  StageInv'
BY DEF StageInv, GiveUp, CheckpointIsSubstantive

LEMMA PortfolioRuns ==
  ASSUME ProgramStep
  PROVE  phase # "off"
BY DEF ProgramStep, Propose, Checking, RoundOver, Slots, PassOver, CandidateRefused,
       CandidateCircular, CandidateAccepted, StopChecking, Repair, CanonicalRetry, Branch,
       DefinitionsOutOfTime, SlotSolved, SlotMissed, NextPass, StateGivenUp, Assemble

LEMMA StageStep == StageInv /\ [AgentNext]_agentVars => StageInv'
<1> SUFFICES ASSUME StageInv, [AgentNext]_agentVars
             PROVE  StageInv'
  OBVIOUS
<1> USE DEF ladder, portfolios, repairVars, programVars
<1>1. CASE Sweep
  BY <1>1, Finishes, GoesOn DEF Sweep, StageOver, StageInv
<1>2. CASE StartChampion
  BY <1>2, GoesOn DEF StartChampion, StageInv
<1>3. CASE StartHandoff
  BY <1>3, GoesOn DEF StartHandoff, StageInv
<1>4. CASE SkipArm
  <2>1. /\ stage \in {"champion", "handoff"} /\ ending' = "off" /\ phase' = "off"
        /\ UNCHANGED outcome
    BY <1>4 DEF SkipArm, StageInv
  <2>2. stage' \in {"champion", "handoff", "slots", "whole"}
    BY <1>4, <2>1 DEF SkipArm, NextArm, ChampionsOver, FallbackStage
  <2>3. QED
    BY <2>1, <2>2, GoesOn
<1>5. CASE Repairing
  <2>1. ending # "off" /\ UNCHANGED <<stage, phase, answer, file>>
    BY <1>5 DEF Repairing, RepairStep, Turn, TurnRaises, OutOfTurns, InnerCheckpoint
  <2>2. QED
    BY <2>1, GoesOn DEF StageInv, outcome
<1>6. CASE ArmEnds
  <2>1. /\ stage \in {"champion", "handoff"} /\ ending' = "off" /\ phase' = "off"
    BY <1>6 DEF ArmEnds, RepairOver, RepairForgotten, StageInv
  <2>2. CASE Submit(best)
    BY <2>1, <2>2, Finishes
  <2>3. ASSUME ~Submit(best)
        PROVE  StageInv'
    <3>1. UNCHANGED outcome /\ stage' \in {"champion", "handoff", "slots", "whole"}
      BY <1>6, <2>1, <2>3 DEF ArmEnds, NextArm, ChampionsOver, FallbackStage
    <3>2. QED
      BY <2>1, <3>1, GoesOn
  <2>4. QED
    BY <2>2, <2>3
<1>7. CASE SlotWon
  <2>1. /\ stage \in {"slots", "whole"} /\ ending' = "off" /\ phase' = "off"
    BY <1>7 DEF SlotWon, InSlot, StageInv
  <2>2. \/ \E kind \in Found : Submit(kind)
        \/ UNCHANGED outcome /\ stage' \in {"slots", "combine", "experiment"}
    BY <1>7, <2>1 DEF SlotWon, SlotOver, StageOver
  <2>3. QED
    BY <2>1, <2>2, Finishes, GoesOn
<1>8. CASE TierMissed
  BY <1>8, GoesOn DEF TierMissed, InSlot, StageInv
<1>9. CASE SlotLost
  <2>1. /\ stage \in {"slots", "whole"} /\ ending' = "off" /\ phase' = "off"
    BY <1>9 DEF SlotLost, InSlot, StageInv
  <2>2. UNCHANGED outcome /\ stage' \in {"slots", "combine", "experiment"}
    BY <1>9, <2>1 DEF SlotLost, SlotOver
  <2>3. QED
    BY <2>1, <2>2, GoesOn
<1>10. CASE SlotsOutOfTime
  BY <1>10, GoesOn DEF SlotsOutOfTime, StageInv
<1>11. CASE Combine
  <2>1. /\ stage = "combine" /\ ending' = "off" /\ phase' = "off"
    BY <1>11 DEF Combine, StageInv
  <2>2. \/ \E kind : Submit(kind)
        \/ stage' = "whole" /\ UNCHANGED outcome
    BY <1>11 DEF Combine, StageOver
  <2>3. QED
    BY <2>1, <2>2, Finishes, GoesOn
<1>12. CASE StartProgram
  BY <1>12, GoesOn DEF StartProgram, Ready, InRound, StageInv
<1>13. CASE RunProgram
  <2>1. stage \in {"experiment", "round"} /\ UNCHANGED <<stage, outcome, ending>>
    BY <1>13, PortfolioRuns DEF RunProgram, StageInv
  <2>2. QED
    BY <2>1, GoesOn DEF StageInv
<1>14. CASE ProgramReturns
  <2>1. /\ stage \in {"experiment", "round"} /\ ending' = "off" /\ phase' = "off"
    BY <1>14 DEF ProgramReturns, ProgramForgotten, StageInv
  <2>2. \/ Submit(ProgramKind)
        \/ stage' \in {"greedy", "residual"} /\ UNCHANGED outcome
    BY <1>14 DEF ProgramReturns, AfterPortfolio
  <2>3. QED
    BY <2>1, <2>2, Finishes, GoesOn
<1>15. CASE Bridge
  <2>1. /\ stage \in {"experiment", "round"} /\ ending' = "off" /\ phase' = "off"
    BY <1>15 DEF Bridge, Ready, InRound, StageInv
  <2>2. \/ \E kind \in {"circular", "sound"} : Submit(kind)
        \/ stage' \in {"greedy", "residual"} /\ UNCHANGED outcome
    BY <1>15 DEF Bridge, StageOver, AfterPortfolio
  <2>3. QED
    BY <2>1, <2>2, Finishes, GoesOn
<1>16. CASE NoExperiment
  BY <1>16, GoesOn DEF NoExperiment, StageInv
<1>17. CASE BeginRounds
  <2>1. /\ stage = "residual" /\ ending' = "off" /\ phase' = "off"
    BY <1>17 DEF BeginRounds, StageInv
  <2>2. GiveUp \/ (stage' = "round" /\ UNCHANGED outcome)
    BY <1>17 DEF BeginRounds
  <2>3. QED
    BY <2>1, <2>2, GivesUp, GoesOn
<1>18. CASE RoundsOver
  BY <1>18, GivesUp DEF RoundsOver, StageInv
<1>19. CASE Greedy
  <2>1. /\ stage = "greedy" /\ ending' = "off" /\ phase' = "off"
    BY <1>19 DEF Greedy, StageInv
  <2>2. \/ \E kind \in {"circular", "sound"} : Submit(kind)
        \/ GiveUp
        \/ stage' = "round" /\ UNCHANGED outcome
    BY <1>19 DEF Greedy
  <2>3. QED
    BY <2>1, <2>2, Finishes, GivesUp, GoesOn
<1>20. CASE UNCHANGED agentVars
  BY <1>20 DEF agentVars, StageInv, CheckpointIsSubstantive, outcome
<1>21. QED
  BY <1>1, <1>2, <1>3, <1>4, <1>5, <1>6, <1>7, <1>8, <1>9, <1>10, <1>11, <1>12, <1>13, <1>14,
     <1>15, <1>16, <1>17, <1>18, <1>19, <1>20 DEF AgentNext

\* For any challenges and whatever the stages find, what the agent leaves on disk when it is
\* cut off passed the guard, and what it returns as solved is on disk.
THEOREM CheckpointsAreSubstantive == AgentSpec => []CheckpointIsSubstantive
<1>1. AgentInit => StageInv
  BY DEF AgentInit, RepairInit, ProgramIdle, StageInv, CheckpointIsSubstantive
<1>2. StageInv => CheckpointIsSubstantive
  BY DEF StageInv
<1>3. QED
  BY <1>1, <1>2, StageStep, PTL DEF AgentSpec

-----------------------------------------------------------------------------
(* What is proved in one state of the definitions.                           *)

\* No slot is proved before the states are complete.
SlotInv ==
  /\ phase \in {"off", "propose", "check"} => slots = NoSlots
  /\ SlotsFitTheirState

LEMMA NoSlotsFit ==
  ASSUME slots' = NoSlots
  PROVE  SlotInv'
BY DEF SlotInv, SlotsFitTheirState, NoSlots

LEMMA SlotsStay ==
  ASSUME SlotInv, phase \notin {"off", "propose", "check"},
         phase' \notin {"off", "propose", "check"}, UNCHANGED <<slots, states, current>>
  PROVE  SlotInv'
BY DEF SlotInv, SlotsFitTheirState

LEMMA NextStateFits ==
  ASSUME SlotInv, phase = "slots", NextState, UNCHANGED states
  PROVE  SlotInv'
<1>1. CASE slots' = NoSlots
  BY <1>1, NoSlotsFit
<1>2. CASE slots' # NoSlots
  BY <1>2, SlotsStay DEF NextState, theorems
<1>3. QED
  BY <1>1, <1>2

LEMMA ProgramStepFits ==
  ASSUME SlotInv, ProgramStep
  PROVE  SlotInv'
<1>1. CASE Propose \/ CandidateRefused \/ CandidateCircular \/ CandidateAccepted
             \/ StopChecking \/ Repair \/ CanonicalRetry \/ Branch \/ DefinitionsOutOfTime
  <2>1. phase \in {"propose", "check"} /\ UNCHANGED slots
    BY <1>1 DEF Propose, Checking, RoundOver, CandidateRefused, CandidateCircular,
         CandidateAccepted, StopChecking, Repair, CanonicalRetry, Branch,
         DefinitionsOutOfTime, theorems
  <2>2. QED
    BY <2>1, NoSlotsFit DEF SlotInv
<1>2. CASE SlotSolved
  <2>1. /\ phase = "slots" /\ UNCHANGED <<phase, states, current>>
        /\ \E i, uses :
             slots' = [j \in DOMAIN slots \cup {i} |->
                         IF j = i THEN [answers |-> states[current], uses |-> uses, pass |-> pass]
                                  ELSE slots[j]]
    BY <1>2 DEF SlotSolved, Slots
  <2>2. QED
    BY <2>1 DEF SlotInv, SlotsFitTheirState
<1>3. CASE SlotMissed
  BY <1>3, SlotsStay DEF SlotMissed, Slots
<1>4. CASE NextPass
  BY <1>4, SlotsStay DEF NextPass, PassOver
<1>5. CASE StateGivenUp
  BY <1>5, NextStateFits DEF StateGivenUp, PassOver
<1>6. CASE Assemble
  <2>1. CASE NextState
    BY <1>6, <2>1, NextStateFits DEF Assemble, PassOver
  <2>2. CASE phase' = "solved" /\ UNCHANGED <<current, theorems>>
    BY <1>6, <2>2, SlotsStay DEF Assemble, PassOver, theorems
  <2>3. QED
    BY <1>6, <2>1, <2>2 DEF Assemble
<1>7. QED
  BY <1>1, <1>2, <1>3, <1>4, <1>5, <1>6 DEF ProgramStep

LEMMA SlotStep == SlotInv /\ [AgentNext]_agentVars => SlotInv'
<1> SUFFICES ASSUME SlotInv, [AgentNext]_agentVars
             PROVE  SlotInv'
  OBVIOUS
<1>1. CASE StartProgram
  BY <1>1, NoSlotsFit DEF StartProgram, ProgramStarts, SlotInv
<1>2. CASE RunProgram
  BY <1>2, ProgramStepFits DEF RunProgram
<1>3. CASE ProgramReturns
  BY <1>3, NoSlotsFit DEF ProgramReturns, ProgramForgotten
<1>4. CASE UNCHANGED programVars
  BY <1>4 DEF programVars, theorems, SlotInv, SlotsFitTheirState
<1>5. QED
  BY <1>1, <1>2, <1>3, <1>4 DEF AgentNext, agentVars, portfolios, Sweep, StartChampion,
     StartHandoff, SkipArm, Repairing, ArmEnds, SlotWon, TierMissed, SlotLost,
     SlotsOutOfTime, Combine, Bridge, NoExperiment, BeginRounds, RoundsOver, Greedy

\* For any number of definitions, answers, states and passes, a theorem of one state is never
\* carried over to another, whose answers it was not proved with.
THEOREM SlotsAlwaysFit == AgentSpec => []SlotsFitTheirState
<1>1. AgentInit => SlotInv
  BY DEF AgentInit, ProgramIdle, SlotInv, SlotsFitTheirState, NoSlots
<1>2. SlotInv => SlotsFitTheirState
  BY DEF SlotInv
<1>3. QED
  BY <1>1, <1>2, SlotStep, PTL DEF AgentSpec

-----------------------------------------------------------------------------
(* When a search stalls.                                                     *)

Misses(n) ==
  /\ Len(gains) >= n
  /\ n >= 1 => ~gains[Len(gains)]
  /\ n >= 2 => ~gains[Len(gains) - 1]

\* A search begins with its only proposal, which cannot fail to improve on nothing; so the
\* turns the stall counter counts are repairs.
StallInv ==
  /\ gains \in Seq(BOOLEAN)
  /\ plan \in Seq({"propose", "repair"})
  /\ \A k \in 2..Len(plan) : plan[k] = "repair"
  /\ bestRank \in Int /\ stalled \in Nat
  /\ ending = "running" /\ plan # <<>> /\ plan[1] = "propose" => bestRank < 0 /\ stalled = 0
  /\ ending = "running" => /\ stalled = 1 => Misses(1)
                           /\ stalled >= 2 => Misses(2)
  /\ StallsAfterTwoRepairs

LEMMA PlanTypes ==
  ASSUME MaxPropose = 1
  PROVE  /\ Turns("repair", MaxRepair) \in Seq({"propose", "repair"})
         /\ \A k \in 1..Len(Turns("repair", MaxRepair)) : Turns("repair", MaxRepair)[k] = "repair"
         /\ Turns("propose", MaxPropose) \o Turns("repair", MaxRepair)
              \in Seq({"propose", "repair"})
         /\ \A k \in 2..Len(Turns("propose", MaxPropose) \o Turns("repair", MaxRepair)) :
              (Turns("propose", MaxPropose) \o Turns("repair", MaxRepair))[k] = "repair"
<1> DEFINE r == Turns("repair", MaxRepair)
           p == Turns("propose", MaxPropose)
<1>1. MaxRepair \in Nat /\ 1 \in Nat
  BY RepairAssumption
<1>2. r \in [1..MaxRepair -> {"propose", "repair"}] /\ p \in [1..1 -> {"propose", "repair"}]
  BY DEF Turns
<1>3. r \in Seq({"propose", "repair"}) /\ p \in Seq({"propose", "repair"})
  BY <1>1, <1>2, SeqDef
<1>4. \A k \in 1..MaxRepair : r[k] = "repair"
  BY DEF Turns
<1>5. Len(r) = MaxRepair /\ Len(p) = 1
  BY <1>1, <1>2, <1>3, LenProperties
<1> HIDE DEF r, p
<1>6. /\ p \o r \in Seq({"propose", "repair"})
      /\ Len(p \o r) = 1 + MaxRepair
      /\ \A k \in 1..(1 + MaxRepair) : (p \o r)[k] = IF k <= 1 THEN p[k] ELSE r[k - 1]
  <2>1. /\ p \o r \in Seq({"propose", "repair"})
        /\ Len(p \o r) = Len(p) + Len(r)
        /\ \A k \in 1..(Len(p) + Len(r)) : (p \o r)[k] = IF k <= Len(p) THEN p[k] ELSE r[k - Len(p)]
    BY <1>3, ConcatProperties
  <2>2. QED
    BY <1>5, <2>1
<1>7. \A k \in 2..Len(p \o r) : (p \o r)[k] = "repair"
  <2>1. \A k \in 2..(1 + MaxRepair) : k \in 1..(1 + MaxRepair) /\ ~(k <= 1) /\ k - 1 \in 1..MaxRepair
    BY <1>1
  <2>2. QED
    BY <1>4, <1>6, <2>1
<1>8. QED
  BY <1>3, <1>4, <1>5, <1>6, <1>7 DEF r, p

LEMMA TurnStalls ==
  ASSUME StallInv, Turn
  PROVE  StallInv'
<1>1. PICK kind \in Verdicts, rank \in 0..TopRank :
        /\ bestRank' = IF rank > bestRank THEN rank ELSE bestRank
        /\ stalled' = IF rank > bestRank THEN 0 ELSE stalled + 1
        /\ gains' = IF Head(plan) = "repair" THEN Append(gains, rank > bestRank) ELSE gains
        /\ ending' = IF rank = TopRank THEN "accepted"
                     ELSE IF Over(stalled') THEN "stalled" ELSE "running"
  BY DEF Turn, Keep
<1>2. /\ ending = "running" /\ plan # <<>> /\ plan' = Tail(plan)
      /\ gains \in Seq(BOOLEAN) /\ plan \in Seq({"propose", "repair"})
      /\ bestRank \in Int /\ stalled \in Nat /\ rank \in Nat /\ TopRank \in Nat
  BY RepairAssumption DEF Turn, StallInv
<1>3. /\ Head(plan) = plan[1] /\ plan' \in Seq({"propose", "repair"})
      /\ Head(plan) \in {"propose", "repair"}
      /\ Len(plan') = Len(plan) - 1 /\ Len(plan) \in Nat \ {0}
      /\ \A k \in 1..Len(plan') : plan'[k] = plan[k + 1]
  BY <1>2, HeadTailProperties, EmptySeq
<1>4. \A k \in 1..Len(plan') : plan'[k] = "repair"
  <2>1. \A k \in 1..Len(plan') : k + 1 \in 2..Len(plan)
    BY <1>3
  <2>2. QED
    BY <1>3, <2>1 DEF StallInv
<1>5. plan' # <<>> => plan'[1] # "propose"
  <2>1. plan' # <<>> => 1 \in 1..Len(plan')
    BY <1>3, EmptySeq
  <2>2. QED
    BY <1>4, <2>1
<1>6. bestRank' \in Int /\ stalled' \in Nat
  BY <1>1, <1>2
<1>7. CASE Head(plan) = "repair"
  <2>1. /\ gains' \in Seq(BOOLEAN) /\ Len(gains') = Len(gains) + 1 /\ Len(gains) \in Nat
        /\ \A k \in 1..Len(gains) : gains'[k] = gains[k]
        /\ gains'[Len(gains) + 1] = (rank > bestRank)
    <3>1. (rank > bestRank) \in BOOLEAN
      OBVIOUS
    <3>2. gains' = Append(gains, rank > bestRank)
      BY <1>1, <1>7
    <3>3. QED
      BY <1>2, <3>1, <3>2, AppendProperties, LenProperties
  <2>2. stalled' = 1 => Misses(1)'
    <3>1. SUFFICES ASSUME stalled' = 1
                   PROVE  Misses(1)'
      OBVIOUS
    <3>2. ~(rank > bestRank)
      BY <1>1, <3>1
    <3>3. QED
      BY <2>1, <3>2 DEF Misses
  <2>3. stalled' >= 2 => Misses(2)'
    <3>1. SUFFICES ASSUME stalled' >= 2
                   PROVE  Misses(2)'
      OBVIOUS
    <3>2. stalled >= 1 /\ ~(rank > bestRank)
      BY <1>1, <1>2, <3>1
    <3>3. Len(gains) >= 1 /\ ~gains[Len(gains)]
      <4>1. stalled = 1 \/ stalled >= 2
        BY <1>2, <3>2
      <4>2. QED
        BY <1>2, <2>1, <4>1 DEF StallInv, Misses
    <3>4. gains'[Len(gains)] = gains[Len(gains)]
      BY <2>1, <3>3
    <3>5. QED
      BY <2>1, <3>2, <3>3, <3>4 DEF Misses
  <2>4. StallsAfterTwoRepairs'
    <3>1. ending' = "stalled" => Misses(2)'
      BY <1>1, <1>6, <2>3 DEF Over
    <3>2. QED
      BY <3>1 DEF StallsAfterTwoRepairs, Misses
  <2>5. QED
    BY <1>3, <1>4, <1>5, <1>6, <2>1, <2>2, <2>3, <2>4 DEF StallInv
<1>8. CASE Head(plan) = "propose"
  <2>1. bestRank < 0 /\ rank > bestRank /\ stalled' = 0 /\ gains' = gains
    BY <1>1, <1>2, <1>3, <1>8 DEF StallInv
  <2>2. ending' # "stalled"
    BY <1>1, <1>8 DEF Over
  <2>3. QED
    BY <1>2, <1>3, <1>4, <1>5, <1>6, <2>1, <2>2 DEF StallInv, StallsAfterTwoRepairs
<1>9. QED
  BY <1>3, <1>7, <1>8

LEMMA StallStep ==
  ASSUME MaxPropose = 1
  PROVE  StallInv /\ [AgentNext]_agentVars => StallInv'
<1> SUFFICES ASSUME StallInv, [AgentNext]_agentVars
             PROVE  StallInv'
  OBVIOUS
<1>1. CASE RepairStarts
  <2>1. /\ gains' = <<>> /\ bestRank' = -1 /\ stalled' = 0 /\ ending' = "running"
        /\ plan' = Turns("propose", MaxPropose) \o Turns("repair", MaxRepair)
    BY <1>1 DEF RepairStarts
  <2>2. <<>> \in Seq(BOOLEAN)
    BY EmptySeq
  <2>3. plan' \in Seq({"propose", "repair"}) /\ \A k \in 2..Len(plan') : plan'[k] = "repair"
    BY <2>1, PlanTypes
  <2>4. QED
    BY <2>1, <2>2, <2>3 DEF StallInv, StallsAfterTwoRepairs
<1>2. ASSUME NEW from, RepairStartsSeeded(from)
      PROVE  StallInv'
  <2>1. /\ gains' = <<>> /\ bestRank' \in Int /\ stalled' = 0 /\ ending' # "stalled"
        /\ plan' = Turns("repair", MaxRepair)
    BY <1>2, RepairAssumption DEF RepairStartsSeeded
  <2>2. <<>> \in Seq(BOOLEAN)
    BY EmptySeq
  <2>3. plan' \in Seq({"propose", "repair"}) /\ \A k \in 1..Len(plan') : plan'[k] = "repair"
    BY <2>1, PlanTypes
  <2>4. plan' # <<>> => plan'[1] # "propose"
    BY <2>3, EmptySeq
  <2>5. \A k \in 2..Len(plan') : plan'[k] = "repair"
    <3>1. Len(plan') \in Nat
      BY <2>3, LenProperties
    <3>2. QED
      BY <2>3, <3>1
  <2>6. QED
    BY <2>1, <2>2, <2>3, <2>4, <2>5 DEF StallInv, StallsAfterTwoRepairs
<1>3. CASE Turn
  BY <1>3, TurnStalls
<1>4. CASE TurnRaises \/ OutOfTurns
  BY <1>4 DEF TurnRaises, OutOfTurns, StallInv, StallsAfterTwoRepairs
<1>5. CASE RepairForgotten
  <2>1. <<>> \in Seq(BOOLEAN) /\ <<>> \in Seq({"propose", "repair"})
    BY EmptySeq
  <2>2. QED
    BY <1>5, <2>1 DEF RepairForgotten, StallInv, StallsAfterTwoRepairs
<1>6. CASE UNCHANGED repairVars
  BY <1>6 DEF repairVars, StallInv, Misses, StallsAfterTwoRepairs
<1>7. QED
  BY <1>1, <1>2, <1>3, <1>4, <1>5, <1>6 DEF AgentNext, agentVars, portfolios, Sweep,
     StartChampion, StartHandoff, SkipArm, Repairing, RepairStep, ArmEnds, SlotWon, TierMissed,
     SlotLost, SlotsOutOfTime, Combine, StartProgram, RunProgram, ProgramReturns, Bridge,
     NoExperiment, BeginRounds, RoundsOver, Greedy

\* With one proposal, the submission's setting, and any number of repairs and ranks, a
\* search stalls only after two repairs in a row without progress.  With more proposals it
\* need not: they count as well.
THEOREM StallsOnlyAfterTwoRepairs ==
  ASSUME MaxPropose = 1
  PROVE  AgentSpec => []StallsAfterTwoRepairs
<1>1. AgentInit => StallInv
  <2>1. <<>> \in Seq(BOOLEAN) /\ <<>> \in Seq({"propose", "repair"})
    BY EmptySeq
  <2>2. QED
    BY <2>1 DEF AgentInit, RepairInit, StallInv, StallsAfterTwoRepairs
<1>2. StallInv => StallsAfterTwoRepairs
  BY DEF StallInv
<1>3. StallInv /\ [AgentNext]_agentVars => StallInv'
  BY StallStep
<1>4. QED
  BY <1>1, <1>2, <1>3, PTL DEF AgentSpec

-----------------------------------------------------------------------------
(* Which portfolio the rounds use.                                           *)

RoundInv ==
  /\ StageInv
  /\ rounds \in Nat
  /\ stage \notin {"round", "greedy", "done"} => rounds = 0 /\ paths = {}
  /\ answers => "bridge" \notin paths
  /\ stage = "round" /\ phase # "off" => "program" \in paths
  /\ Many /\ ~Leans /\ (stage = "greedy" \/ rounds >= 1) => "program" \in paths
  /\ Many /\ rounds = 1 /\ stage = "greedy" => "program" \in paths
  /\ Many /\ rounds >= 2 => "program" \in paths

\* When a round must use the program portfolio.
LEMMA WhenProgram ==
  ASSUME RoundInv
  PROVE  /\ answers => UseProgram
         /\ Many /\ ~Leans => UseProgram
         /\ Many /\ rounds = 1 => UseProgram
<1>1. answers => UseProgram
  BY DEF UseProgram, Leans
<1>2. Many /\ ~Leans => UseProgram
  BY DEF UseProgram, Prefers
<1>3. Many /\ rounds = 1 => UseProgram
  <2>1. SUFFICES ASSUME Many, rounds = 1, Leans
                 PROVE  UseProgram
    BY <1>2
  <2>2. rounds > 0 /\ rounds % 2 = 1
    BY <2>1
  <2>3. QED
    BY <2>1, <2>2 DEF UseProgram
<1>4. QED
  BY <1>1, <1>2, <1>3

\* A step that is not a round's leaves the books of the rounds alone.
LEMMA BooksStay ==
  ASSUME RoundInv, StageInv', UNCHANGED <<decls, answers, rounds, firstRoute, paths>>,
         \/ stage' \notin {"round", "greedy"} /\ stage \notin {"round", "greedy", "done"}
         \/ stage' = "done"
         \/ UNCHANGED stage /\ (phase' # "off" => phase # "off" \/ stage # "round")
  PROVE  RoundInv'
BY DEF RoundInv, Many, Open, Theorems, Definitions, Given, Indices, Leans

LEMMA RoundStep == RoundInv /\ [AgentNext]_agentVars => RoundInv'
<1> SUFFICES ASSUME RoundInv, [AgentNext]_agentVars
             PROVE  RoundInv'
  OBVIOUS
<1>0. StageInv /\ StageInv'
  BY StageStep DEF RoundInv
<1> USE DEF ladder, residual, programVars
<1>1. CASE Sweep
  BY <1>0, <1>1, BooksStay DEF Sweep, StageOver, Submit
<1>2. CASE StartChampion \/ StartHandoff \/ Repairing
  BY <1>0, <1>2, BooksStay DEF StartChampion, StartHandoff, Repairing
<1>3. CASE SkipArm
  BY <1>0, <1>3, BooksStay DEF SkipArm, NextArm, ChampionsOver, FallbackStage
<1>4. CASE ArmEnds
  <2>1. /\ stage \in {"champion", "handoff"}
        /\ UNCHANGED <<decls, answers, rounds, firstRoute, paths>>
    BY <1>0, <1>4 DEF ArmEnds, RepairOver, StageInv
  <2>2. stage' \in {"champion", "handoff", "slots", "whole", "done"}
    BY <1>4, <2>1 DEF ArmEnds, NextArm, ChampionsOver, FallbackStage, Submit
  <2>3. QED
    BY <1>0, <2>1, <2>2, BooksStay
<1>5. CASE SlotWon \/ TierMissed \/ SlotLost \/ SlotsOutOfTime
  <2>1. /\ stage \in {"slots", "whole"}
        /\ UNCHANGED <<decls, answers, rounds, firstRoute, paths>>
    BY <1>5 DEF SlotWon, TierMissed, SlotLost, SlotsOutOfTime, InSlot
  <2>2. stage' \in {"slots", "whole", "combine", "experiment", "done"}
    BY <1>5, <2>1 DEF SlotWon, TierMissed, SlotLost, SlotsOutOfTime, SlotOver, StageOver, Submit
  <2>3. QED
    BY <1>0, <2>1, <2>2, BooksStay
<1>6. CASE Combine
  BY <1>0, <1>6, BooksStay DEF Combine, StageOver, Submit
<1>7. CASE StartProgram
  <2>1. /\ phase = "off" /\ UNCHANGED <<decls, answers, rounds, firstRoute, stage>>
        /\ stage \in {"round", "experiment"}
        /\ paths' = IF stage = "round" THEN paths \cup {"program"} ELSE paths
    BY <1>7 DEF StartProgram, Ready, InRound, Begun
  <2>2. QED
    BY <1>0, <2>1 DEF RoundInv, Many, Open, Theorems, Definitions, Given, Indices, Leans
<1>8. CASE RunProgram
  BY <1>0, <1>8, PortfolioRuns, BooksStay DEF RunProgram
<1>9. CASE ProgramReturns
  <2>1. /\ phase # "off" /\ UNCHANGED <<decls, answers, rounds, firstRoute, paths>>
        /\ stage \in {"experiment", "round"}
        /\ stage' \in {"done", IF stage = "round" THEN "greedy" ELSE "residual"}
    BY <1>0, <1>9 DEF ProgramReturns, ProgramForgotten, AfterPortfolio, Submit, StageInv
  <2>2. QED
    BY <1>0, <2>1 DEF RoundInv, Many, Open, Theorems, Definitions, Given, Indices, Leans
<1>10. CASE Bridge
  <2>1. /\ ~Chosen /\ UNCHANGED <<decls, answers, rounds, firstRoute>>
        /\ stage \in {"experiment", "round"}
        /\ stage' \in {"done", IF stage = "round" THEN "greedy" ELSE "residual"}
        /\ paths' = IF stage = "round" THEN paths \cup {"bridge"} ELSE paths
    BY <1>10 DEF Bridge, Ready, InRound, Begun, AfterPortfolio, StageOver, Submit
  <2>2. CASE stage = "experiment"
    BY <1>0, <2>1, <2>2, BooksStay
  <2>3. CASE stage = "round"
    <3>1. ~answers /\ ~(Many /\ ~Leans) /\ ~(Many /\ rounds = 1)
      BY <2>1, <2>3, WhenProgram DEF Chosen
    <3>2. QED
      BY <1>0, <2>1, <2>3, <3>1
         DEF RoundInv, Many, Open, Theorems, Definitions, Given, Indices, Leans
  <2>4. QED
    BY <2>1, <2>2, <2>3
<1>11. CASE NoExperiment
  BY <1>0, <1>11, BooksStay DEF NoExperiment
<1>12. CASE BeginRounds
  <2>1. stage = "residual" /\ rounds = 0 /\ paths = {} /\ UNCHANGED <<decls, answers, rounds, paths>>
    BY <1>12 DEF BeginRounds, RoundInv
  <2>2. stage' \in {"round", "done"} /\ phase' = "off"
    BY <1>0, <1>12, <2>1 DEF BeginRounds, GiveUp, StageInv, portfolios
  <2>3. QED
    BY <1>0, <2>1, <2>2 DEF RoundInv
<1>13. CASE RoundsOver
  BY <1>0, <1>13, BooksStay DEF RoundsOver, GiveUp
<1>14. CASE Greedy
  <2>1. /\ stage = "greedy" /\ UNCHANGED <<decls, answers, firstRoute, paths>> /\ phase' = "off"
    BY <1>0, <1>14 DEF Greedy, StageInv, portfolios
  <2>2. \/ stage' = "done" /\ UNCHANGED rounds
        \/ stage' \in {"round", "done"} /\ rounds' = rounds + 1
    BY <1>14 DEF Greedy, Submit, GiveUp, Counted
  <2>3. QED
    BY <1>0, <2>1, <2>2 DEF RoundInv, Many, Open, Theorems, Definitions, Given, Indices, Leans
<1>15. CASE UNCHANGED agentVars
  BY <1>0, <1>15, BooksStay DEF agentVars, portfolios
<1>16. QED
  BY <1>1, <1>2, <1>3, <1>4, <1>5, <1>6, <1>7, <1>8, <1>9, <1>10, <1>11, <1>12, <1>13, <1>14,
     <1>15 DEF AgentNext

\* Whatever the router reads into the failures and for any number of rounds, an answer-shaped
\* problem never spends a round on the bridge alone, and one of several open declarations has
\* had the program portfolio after two rounds.
THEOREM ProgramAlwaysGetsARound == AgentSpec => []ProgramGetsARound
<1>1. AgentInit => RoundInv
  BY DEF AgentInit, RepairInit, ProgramIdle, StageInv, CheckpointIsSubstantive, RoundInv
<1>2. RoundInv => ProgramGetsARound
  BY DEF RoundInv, ProgramGetsARound
<1>3. QED
  BY <1>1, <1>2, RoundStep, PTL DEF AgentSpec

-----------------------------------------------------------------------------
(* Circular answers.                                                         *)

IsSeq(s) == \E S : s \in Seq(S)

LEMMA SeqGrows ==
  ASSUME NEW S, NEW T, S \subseteq T, NEW s \in Seq(S)
  PROVE  s \in Seq(T)
<1>1. PICK n \in Nat : s \in [1..n -> S]
  BY SeqDef
<1>2. s \in [1..n -> T]
  BY <1>1
<1>3. QED
  BY <1>2, SeqDef

LEMMA SeqFacts ==
  ASSUME NEW s, IsSeq(s)
  PROVE  Len(s) \in Nat /\ DOMAIN s = 1..Len(s)
<1>1. PICK S : s \in Seq(S)
  BY DEF IsSeq
<1>2. QED
  BY <1>1, LenProperties

LEMMA SeqAppend ==
  ASSUME NEW s, NEW e, IsSeq(s)
  PROVE  /\ IsSeq(Append(s, e))
         /\ Len(Append(s, e)) = Len(s) + 1
         /\ \A k \in 1..Len(s) : Append(s, e)[k] = s[k]
         /\ Append(s, e)[Len(s) + 1] = e
<1>1. PICK S : s \in Seq(S)
  BY DEF IsSeq
<1>2. s \in Seq(S \cup {e}) /\ e \in S \cup {e}
  BY <1>1, SeqGrows
<1>3. QED
  BY <1>2, AppendProperties DEF IsSeq

LEMMA SeqCut ==
  ASSUME NEW s, IsSeq(s), NEW n \in Int, n <= Len(s)
  PROVE  /\ IsSeq(SubSeq(s, 1, n))
         /\ Len(SubSeq(s, 1, n)) = IF 1 <= n THEN n ELSE 0
         /\ \A k \in 1..Len(SubSeq(s, 1, n)) : \E j \in 1..Len(s) : SubSeq(s, 1, n)[k] = s[j]
<1>1. PICK S : s \in Seq(S)
  BY DEF IsSeq
<1>2. Len(s) \in Nat /\ \A k \in 1..Len(s) : s[k] \in S
  BY <1>1, LenProperties, ElementOfSeq
<1>3. 1 \in Int /\ \A k \in 1..n : s[k] \in S
  BY <1>2
<1>4. /\ SubSeq(s, 1, n) \in Seq(S)
      /\ Len(SubSeq(s, 1, n)) = IF 1 <= n THEN n - 1 + 1 ELSE 0
      /\ \A i \in 1..(n - 1 + 1) : SubSeq(s, 1, n)[i] = s[1 + i - 1]
  BY <1>3, SubSeqProperties
<1>5. ASSUME NEW k \in 1..Len(SubSeq(s, 1, n))
      PROVE  \E j \in 1..Len(s) : SubSeq(s, 1, n)[k] = s[j]
  <2>1. k \in 1..Len(s) /\ k \in 1..(n - 1 + 1) /\ 1 + k - 1 = k
    BY <1>2, <1>4
  <2>2. QED
    BY <1>4, <2>1
<1>6. n - 1 + 1 = n
  OBVIOUS
<1>7. IsSeq(SubSeq(s, 1, n)) /\ Len(SubSeq(s, 1, n)) = IF 1 <= n THEN n ELSE 0
  BY <1>4, <1>6 DEF IsSeq
<1>8. QED
  BY <1>5, <1>7

LEMMA SeqJoin ==
  ASSUME NEW s, NEW t, IsSeq(s), IsSeq(t)
  PROVE  /\ IsSeq(s \o t)
         /\ Len(s \o t) = Len(s) + Len(t)
         /\ \A k \in 1..Len(s \o t) : \/ \E j \in 1..Len(s) : (s \o t)[k] = s[j]
                                      \/ \E j \in 1..Len(t) : (s \o t)[k] = t[j]
<1>1. PICK S : s \in Seq(S)
  BY DEF IsSeq
<1>2. PICK T : t \in Seq(T)
  BY DEF IsSeq
<1>3. s \in Seq(S \cup T) /\ t \in Seq(S \cup T)
  BY <1>1, <1>2, SeqGrows
<1>4. /\ s \o t \in Seq(S \cup T)
      /\ Len(s \o t) = Len(s) + Len(t)
      /\ \A i \in 1..(Len(s) + Len(t)) : (s \o t)[i] = IF i <= Len(s) THEN s[i] ELSE t[i - Len(s)]
      /\ Len(s) \in Nat /\ Len(t) \in Nat
  BY <1>3, ConcatProperties, LenProperties
<1>5. ASSUME NEW k \in 1..Len(s \o t)
      PROVE  \/ \E j \in 1..Len(s) : (s \o t)[k] = s[j]
             \/ \E j \in 1..Len(t) : (s \o t)[k] = t[j]
  <2>1. k \in 1..Len(s) \/ (k - Len(s) \in 1..Len(t) /\ ~(k <= Len(s)))
    BY <1>4
  <2>2. (s \o t)[k] = IF k <= Len(s) THEN s[k] ELSE t[k - Len(s)]
    BY <1>4
  <2>3. k \in 1..Len(s) => k <= Len(s)
    BY <1>4
  <2>4. QED
    BY <2>1, <2>2, <2>3
<1>6. QED
  BY <1>4, <1>5 DEF IsSeq

\* An answer that would make a theorem circular is one the probe could not be run on.
Probed(i, a) == a \in Circular /\ decls[i] # "numeric" => <<i, a>> \in unprobed
Honest(state) == \A i \in DOMAIN state : Probed(i, state[i])

CircularInv ==
  /\ IsSeq(accepted) /\ IsSeq(next) /\ IsSeq(states)
  /\ current \in Nat
  /\ phase = "off" => current = 1
  /\ phase \in {"off", "propose"} => accepted = <<>>
  /\ phase \in {"propose", "check"} => current \in 1..Len(states)
  /\ \A k \in 1..Len(accepted) : Probed(index, accepted[k])
  /\ \A k \in 1..Len(next) : Honest(next[k])
  /\ \A k \in 1..Len(states) : Honest(states[k])

LEMMA EmptyIsSeq == IsSeq(<<>>) /\ Len(<<>>) = 0
BY EmptySeq DEF IsSeq

\* A step that leaves answers and states alone.
LEMMA AnswersStay ==
  ASSUME CircularInv, UNCHANGED <<decls, index, states, next, current, accepted, unprobed>>,
         \/ phase' = phase
         \/ phase = "propose" /\ phase' = "check"
  PROVE  CircularInv'
<1>1. \A i, a : Probed(i, a)' <=> Probed(i, a)
  BY DEF Probed
<1>2. \A state : Honest(state)' <=> Honest(state)
  BY DEF Honest, Probed
<1>3. QED
  BY DEF CircularInv, Honest, Probed, IsSeq

LEMMA StatesDoneKeeps ==
  ASSUME CircularInv, NEW list, IsSeq(list), \A k \in 1..Len(list) : Honest(list[k]),
         StatesDone(list), accepted' = <<>>, UNCHANGED <<decls, unprobed>>
  PROVE  CircularInv'
<1>1. /\ states' = list /\ next' = <<>> /\ current' = 1
      /\ phase' \notin {"off", "check"} /\ (list = <<>> => phase' = "failed")
  BY DEF StatesDone
<1>2. phase' = "propose" => 1 \in 1..Len(list)
  <2>1. Len(list) \in Nat
    BY SeqFacts
  <2>2. list # <<>> => Len(list) # 0
    BY EmptySeq DEF IsSeq
  <2>3. QED
    BY <1>1, <2>1, <2>2
<1>3. (\A k \in 1..Len(states) : Honest(states[k]))'
  BY <1>1 DEF Honest, Probed
<1>4. QED
  BY <1>1, <1>2, <1>3, EmptyIsSeq DEF CircularInv

LEMMA BranchKeeps ==
  ASSUME CircularInv, Branch, UNCHANGED decls
  PROVE  CircularInv'
<1> DEFINE with(a) == [i \in DOMAIN states[current] \cup {index} |->
                         IF i = index THEN a ELSE states[current][i]]
           list == [k \in DOMAIN accepted |-> with(accepted[k])]
           all  == Branches(list)
<1>1. /\ phase = "check" /\ accepted' = <<>> /\ UNCHANGED unprobed
      /\ IF current < Len(states) /\ Len(all) < MaxStates
         THEN /\ next' = all /\ current' = current + 1 /\ phase' = "propose"
              /\ UNCHANGED <<index, states>>
         ELSE StatesDone(all)
  BY DEF Branch, RoundOver
<1>2. /\ Len(accepted) \in Nat /\ DOMAIN accepted = 1..Len(accepted)
      /\ Len(states) \in Nat /\ Len(next) \in Nat /\ current \in 1..Len(states)
      /\ MaxStates \in Nat
  BY <1>1, SeqFacts, ProgramAssumption DEF CircularInv
<1>3. \A k \in 1..Len(accepted) : Honest(with(accepted[k]))
  BY <1>2 DEF CircularInv, Honest, Probed
<1>4. IsSeq(list) /\ Len(list) = Len(accepted)
  <2>1. list \in [1..Len(accepted) -> {with(accepted[k]) : k \in 1..Len(accepted)}]
    BY <1>2
  <2> HIDE DEF list
  <2>2. list \in Seq({with(accepted[k]) : k \in 1..Len(accepted)})
    BY <1>2, <2>1, SeqDef
  <2>3. QED
    BY <1>2, <2>1, <2>2, LenProperties DEF IsSeq
<1>5. \A k \in 1..Len(list) : Honest(list[k])
  BY <1>2, <1>3, <1>4
<1> HIDE DEF list
<1>6. IsSeq(all) /\ \A k \in 1..Len(all) : Honest(all[k])
  <2> DEFINE room == IF Len(list) < MaxStates - Len(next) THEN Len(list)
                                                          ELSE MaxStates - Len(next)
             cut  == SubSeq(list, 1, room)
  <2>1. room \in Int /\ room <= Len(list)
    BY <1>2, <1>4
  <2>2. all = next \o cut
    BY DEF Branches
  <2> HIDE DEF room
  <2>3. IsSeq(cut) /\ \A k \in 1..Len(cut) : \E j \in 1..Len(list) : cut[k] = list[j]
    BY <1>4, <2>1, SeqCut
  <2>4. \A k \in 1..Len(cut) : Honest(cut[k])
    BY <1>5, <2>3
  <2> HIDE DEF cut, all
  <2>5. /\ IsSeq(all)
        /\ \A k \in 1..Len(all) : \/ \E j \in 1..Len(next) : all[k] = next[j]
                                  \/ \E j \in 1..Len(cut) : all[k] = cut[j]
    BY <2>2, <2>3, SeqJoin DEF CircularInv
  <2>6. QED
    BY <2>4, <2>5 DEF CircularInv
<1> HIDE DEF all
<1>7. CASE StatesDone(all)
  BY <1>1, <1>6, <1>7, StatesDoneKeeps
<1>8. ASSUME current < Len(states), next' = all, current' = current + 1, phase' = "propose",
             UNCHANGED <<index, states>>
      PROVE  CircularInv'
  <2>1. current' \in 1..Len(states)
    BY <1>2, <1>8
  <2>2. \A state : Honest(state)' <=> Honest(state)
    BY <1>1 DEF Honest, Probed
  <2>3. (\A k \in 1..Len(next) : Honest(next[k]))' /\ (\A k \in 1..Len(states) : Honest(states[k]))'
    BY <1>1, <1>6, <1>8 DEF CircularInv, Honest, Probed
  <2>4. QED
    BY <1>1, <1>6, <1>8, <2>1, <2>3, EmptyIsSeq DEF CircularInv, IsSeq
<1>9. QED
  BY <1>1, <1>7, <1>8

LEMMA AcceptedKeeps ==
  ASSUME CircularInv, CandidateAccepted, UNCHANGED decls
  PROVE  CircularInv'
<1>0. PICK a : a = Head(cands)
  OBVIOUS
<1>1. /\ phase = "check" /\ UNCHANGED <<phase, index, states, next, current>>
      /\ accepted' = Append(accepted, a)
      /\ unprobed' = IF a \in Circular /\ ~Numeric THEN unprobed \cup {<<index, a>>} ELSE unprobed
  BY <1>0 DEF CandidateAccepted, Checking
<1>2. /\ IsSeq(accepted') /\ Len(accepted') = Len(accepted) + 1 /\ Len(accepted) \in Nat
      /\ \A k \in 1..Len(accepted) : accepted'[k] = accepted[k]
      /\ accepted'[Len(accepted) + 1] = a
  BY <1>1, SeqAppend, SeqFacts DEF CircularInv
<1>3. unprobed \subseteq unprobed' /\ Probed(index, a)'
  <2>1. a \in Circular /\ decls[index] # "numeric" => <<index, a>> \in unprobed'
    BY <1>1 DEF Numeric
  <2>2. QED
    BY <1>1, <2>1 DEF Probed
<1>4. \A k \in 1..Len(accepted') : k \in 1..Len(accepted) \/ k = Len(accepted) + 1
  BY <1>2
<1>5. (\A k \in 1..Len(accepted) : Probed(index, accepted[k]))'
  <2>1. ASSUME NEW k \in 1..Len(accepted')
        PROVE  accepted'[k] \in Circular /\ decls'[index'] # "numeric"
                 => <<index', accepted'[k]>> \in unprobed'
    <3>1. CASE k \in 1..Len(accepted)
      <4>1. accepted'[k] = accepted[k] /\ Probed(index, accepted[k])
        BY <1>2, <3>1 DEF CircularInv
      <4>2. QED
        BY <1>1, <1>3, <4>1 DEF Probed
    <3>2. CASE k = Len(accepted) + 1
      <4>1. accepted'[k] = a
        BY <1>2, <3>2
      <4>2. QED
        BY <1>1, <1>3, <4>1 DEF Probed
    <3>3. QED
      BY <1>4, <3>1, <3>2
  <2>2. QED
    BY <2>1 DEF Probed
<1>6. (\A k \in 1..Len(next) : Honest(next[k]))' /\ (\A k \in 1..Len(states) : Honest(states[k]))'
  BY <1>1, <1>3 DEF CircularInv, Honest, Probed
<1>7. QED
  BY <1>1, <1>2, <1>5, <1>6 DEF CircularInv, IsSeq

LEMMA CircularStep == CircularInv /\ [AgentNext]_agentVars => CircularInv'
<1> SUFFICES ASSUME CircularInv, [AgentNext]_agentVars
             PROVE  CircularInv'
  OBVIOUS
<1>0. UNCHANGED decls
  BY DEF AgentNext, agentVars, ladder, Sweep, StartChampion, StartHandoff, SkipArm, Repairing,
     ArmEnds, SlotWon, TierMissed, SlotLost, SlotsOutOfTime, Combine, StartProgram, RunProgram,
     ProgramReturns, Bridge, NoExperiment, BeginRounds, RoundsOver, Greedy
<1>1. CASE ProgramStarts
  <2> DEFINE start == [i \in {} |-> 0]
  <2>1. /\ phase = "off" /\ states' = <<start>>
        /\ phase' \in {"slots", "propose"}
        /\ UNCHANGED <<next, current, accepted, unprobed>>
    BY <1>1 DEF ProgramStarts, definitions
  <2>2. Honest(start)' /\ IsSeq(<<start>>) /\ Len(<<start>>) = 1 /\ <<start>>[1] = start
    <3>1. Honest(start)'
      BY DEF Honest
    <3> HIDE DEF start
    <3>2. <<start>> \in Seq({start})
      OBVIOUS
    <3>3. QED
      BY <3>1, <3>2 DEF IsSeq
  <2> HIDE DEF start
  <2>3. accepted = <<>> /\ current = 1
    BY <2>1 DEF CircularInv
  <2>4. (\A k \in 1..Len(next) : Honest(next[k]))'
    BY <1>0, <2>1 DEF CircularInv, Honest, Probed
  <2>5. (\A k \in 1..Len(states) : Honest(states[k]))'
    BY <2>1, <2>2 DEF Honest, Probed
  <2>6. QED
    BY <2>1, <2>2, <2>3, <2>4, <2>5, EmptyIsSeq DEF CircularInv, IsSeq
<1>2. CASE Propose
  <2>1. /\ phase' = "check" /\ phase = "propose" /\ accepted' = <<>>
        /\ UNCHANGED <<index, states, next, current, unprobed>>
    BY <1>2 DEF Propose
  <2>2. accepted = <<>>
    BY <2>1 DEF CircularInv
  <2>3. QED
    BY <1>0, <2>1, <2>2, AnswersStay
<1>3. CASE CandidateRefused \/ CandidateCircular \/ StopChecking \/ Repair \/ CanonicalRetry
             \/ SlotSolved \/ SlotMissed \/ NextPass
  <2>1. UNCHANGED <<phase, index, states, next, current, accepted, unprobed>>
    BY <1>3 DEF CandidateRefused, CandidateCircular, StopChecking, Repair, CanonicalRetry,
         SlotSolved, SlotMissed, NextPass, definitions
  <2>2. phase' = phase /\ UNCHANGED <<index, states, next, current, accepted, unprobed>>
    BY <2>1
  <2>3. QED
    BY <1>0, <2>2, AnswersStay
<1>4. CASE CandidateAccepted
  BY <1>0, <1>4, AcceptedKeeps
<1>5. CASE Branch
  BY <1>0, <1>5, BranchKeeps
<1>6. CASE DefinitionsOutOfTime
  <2>1. phase = "propose" /\ StatesDone(next) /\ UNCHANGED <<accepted, unprobed>>
    BY <1>6 DEF DefinitionsOutOfTime, definitions
  <2>2. accepted' = <<>> /\ IsSeq(next) /\ \A k \in 1..Len(next) : Honest(next[k])
    BY <2>1 DEF CircularInv
  <2>3. QED
    BY <1>0, <2>1, <2>2, StatesDoneKeeps
<1>7. CASE StateGivenUp \/ Assemble
  <2>1. /\ UNCHANGED <<index, states, next, accepted, unprobed>>
        /\ phase = "slots" /\ phase' \in {"slots", "solved", "failed"}
        /\ current' \in {current, current + 1}
    BY <1>7 DEF StateGivenUp, Assemble, PassOver, NextState, definitions
  <2>2. current' \in Nat
    BY <2>1 DEF CircularInv
  <2>3. /\ (\A k \in 1..Len(accepted) : Probed(index, accepted[k]))'
        /\ (\A k \in 1..Len(next) : Honest(next[k]))'
        /\ (\A k \in 1..Len(states) : Honest(states[k]))'
    BY <1>0, <2>1 DEF CircularInv, Honest, Probed
  <2>4. QED
    BY <2>1, <2>2, <2>3 DEF CircularInv, IsSeq
<1>8. CASE ProgramForgotten
  <2>1. states' = <<>> /\ next' = <<>> /\ accepted' = <<>> /\ current' = 1 /\ phase' = "off"
    BY <1>8 DEF ProgramForgotten
  <2>2. QED
    BY <2>1, EmptyIsSeq DEF CircularInv
<1>9. CASE UNCHANGED programVars
  <2>1. UNCHANGED <<phase, index, states, next, current, accepted, unprobed>>
    BY <1>9 DEF programVars, definitions
  <2>2. phase' = phase /\ UNCHANGED <<index, states, next, current, accepted, unprobed>>
    BY <2>1
  <2>3. QED
    BY <1>0, <2>2, AnswersStay
<1>10. QED
  BY <1>1, <1>2, <1>3, <1>4, <1>5, <1>6, <1>7, <1>8, <1>9
     DEF AgentNext, agentVars, portfolios, ProgramStep, Sweep, StartChampion, StartHandoff,
     SkipArm, Repairing, ArmEnds, SlotWon, TierMissed, SlotLost, SlotsOutOfTime, Combine,
     StartProgram, RunProgram, ProgramReturns, Bridge, NoExperiment, BeginRounds, RoundsOver,
     Greedy

\* For any answers, calls, limits and rounds of candidates, a circular answer gets into a state
\* only where the probe could not be run on it.
THEOREM CircularAlwaysUnprobed == AgentSpec => []CircularOnlyUnprobed
<1>1. AgentInit => CircularInv
  BY EmptyIsSeq DEF AgentInit, ProgramIdle, CircularInv
<1>2. CircularInv => CircularOnlyUnprobed
  BY SeqFacts DEF CircularInv, CircularOnlyUnprobed, Honest, Probed
<1>3. QED
  BY <1>1, <1>2, CircularStep, PTL DEF AgentSpec

-----------------------------------------------------------------------------
(* The order of the slots.                                                   *)

\* What a step of the agent is to the program portfolio.
LEMMA ProgramMoves ==
  ASSUME [AgentNext]_agentVars
  PROVE  /\ UNCHANGED decls
         /\ ProgramStarts \/ ProgramStep \/ ProgramForgotten \/ UNCHANGED programVars
BY DEF AgentNext, agentVars, portfolios, ladder, Sweep, StartChampion, StartHandoff, SkipArm,
   Repairing, ArmEnds, SlotWon, TierMissed, SlotLost, SlotsOutOfTime, Combine, StartProgram,
   RunProgram, ProgramReturns, Bridge, NoExperiment, BeginRounds, RoundsOver, Greedy

\* A slot still to come in this pass stands after every slot proved in it.  That is what makes
\* a later slot an earlier pass's work.
OrderInv ==
  /\ decls \in Seq({"def", "numeric", "thm", "given"})
  /\ pass \in 1..Passes
  /\ phase = "off" => slots = NoSlots /\ missed = {}
  /\ todo \subseteq Theorems /\ missed \subseteq Theorems /\ DOMAIN slots \subseteq Theorems
  /\ todo \cap (missed \cup DOMAIN slots) = {} /\ missed \cap DOMAIN slots = {}
  /\ \A i \in DOMAIN slots : /\ slots[i].pass \in 1..pass
                             /\ slots[i].uses \subseteq DOMAIN slots \cup Given
  /\ \A i \in todo, j \in DOMAIN slots : slots[j].pass = pass => j < i
  /\ OrderLostOnRetryOnly

\* The first declaration of some is one of them, and none of them is before it.
LEMMA FirstIsLeast ==
  ASSUME NEW S \in SUBSET Nat, S # {}
  PROVE  First(S) \in S /\ \A i \in S : First(S) <= i
<1>1. \E m \in S : \A k \in S : m <= k
  BY LeastElement
<1>2. QED
  BY <1>1 DEF First

LEMMA TheoremsAreNumbers ==
  ASSUME OrderInv
  PROVE  /\ Indices \subseteq Nat /\ Theorems \subseteq Nat /\ Given \subseteq Nat
         /\ Theorems \cap Given = {}
<1>1. Len(decls) \in Nat /\ DOMAIN decls = 1..Len(decls)
  BY LenProperties DEF OrderInv
<1>2. QED
  BY <1>1 DEF Indices, Theorems, Given

LEMMA SlotSolvedInOrder ==
  ASSUME OrderInv, SlotSolved, UNCHANGED decls
  PROVE  OrderInv'
<1> DEFINE i == First(todo)
<1>1. PICK uses \in SUBSET (DOMAIN slots \cup Given) :
        slots' = [j \in DOMAIN slots \cup {i} |->
                    IF j = i THEN [answers |-> states[current], uses |-> uses, pass |-> pass]
                             ELSE slots[j]]
  BY DEF SlotSolved
<1>2. /\ phase = "slots" /\ todo # {} /\ todo' = todo \ {i}
      /\ UNCHANGED <<phase, missed, pass>>
  BY DEF SlotSolved, Slots
<1>3. todo \in SUBSET Nat
  BY TheoremsAreNumbers DEF OrderInv
<1>4. i \in todo /\ \A k \in todo : i <= k
  BY <1>2, <1>3, FirstIsLeast
<1> HIDE DEF i
<1>5. /\ i \in Theorems /\ i \notin missed /\ i \notin DOMAIN slots /\ i \notin Given
      /\ Theorems \subseteq Nat /\ Given \subseteq Nat
  BY <1>4, TheoremsAreNumbers DEF OrderInv
<1>6. /\ DOMAIN slots' = DOMAIN slots \cup {i}
      /\ slots'[i].uses = uses /\ slots'[i].pass = pass
      /\ \A j \in DOMAIN slots : slots'[j] = slots[j]
  BY <1>1, <1>5
<1>7. Theorems' = Theorems /\ Given' = Given
  BY DEF Theorems, Given, Indices
<1>8. pass \in Nat /\ pass \in 1..pass
  BY DEF OrderInv
<1>9. \A k \in DOMAIN slots' : /\ slots'[k].pass \in 1..pass
                               /\ slots'[k].uses \subseteq DOMAIN slots' \cup Given
  BY <1>6, <1>8 DEF OrderInv
<1>10. ASSUME NEW k \in todo', NEW j \in DOMAIN slots', slots'[j].pass = pass
       PROVE  j < k
  <2>1. k \in todo /\ k # i /\ i <= k /\ k \in Nat /\ i \in Nat
    BY <1>2, <1>3, <1>4
  <2>2. QED
    BY <1>6, <1>10, <2>1 DEF OrderInv
<1>11. OrderLostOnRetryOnly'
  <2>1. ASSUME NEW k \in DOMAIN slots', NEW j \in slots'[k].uses, j > k
        PROVE  decls[j] = "given" \/ slots'[k].pass > slots'[j].pass
    <3>1. CASE k \in DOMAIN slots
      <4>1. slots'[k] = slots[k] /\ j \in DOMAIN slots \cup Given
        BY <1>6, <3>1 DEF OrderInv
      <4>2. decls[j] = "given" \/ slots[k].pass > slots[j].pass
        BY <2>1, <3>1, <4>1 DEF OrderInv, OrderLostOnRetryOnly
      <4>3. j \in Given => decls[j] = "given"
        BY DEF Given
      <4>4. QED
        BY <1>6, <4>1, <4>2, <4>3
    <3>2. CASE k = i
      <4>1. j \in DOMAIN slots \cup Given /\ slots'[k].pass = pass
        BY <1>6, <3>2
      <4>2. CASE j \in Given
        BY <4>2 DEF Given
      <4>3. CASE j \in DOMAIN slots
        <5>1. /\ slots[j].pass \in 1..pass /\ j \in Nat /\ i \in Nat
              /\ slots[j].pass = pass => j < i
          BY <1>4, <1>5, <4>3 DEF OrderInv
        <5>2. slots[j].pass # pass
          BY <2>1, <3>2, <5>1
        <5>3. QED
          BY <1>6, <1>8, <4>1, <4>3, <5>1, <5>2
      <4>4. QED
        BY <4>1, <4>2, <4>3
    <3>3. QED
      BY <1>6, <3>1, <3>2
  <2>2. QED
    BY <2>1 DEF OrderLostOnRetryOnly
<1>12. /\ todo' \subseteq Theorems /\ missed' \subseteq Theorems /\ DOMAIN slots' \subseteq Theorems
       /\ todo' \cap (missed' \cup DOMAIN slots') = {} /\ missed' \cap DOMAIN slots' = {}
  BY <1>2, <1>5, <1>6 DEF OrderInv
<1>13. QED
  BY <1>2, <1>7, <1>9, <1>10, <1>11, <1>12 DEF OrderInv

LEMMA SlotMissedInOrder ==
  ASSUME OrderInv, SlotMissed, UNCHANGED decls
  PROVE  OrderInv'
<1>1. /\ phase = "slots" /\ todo # {} /\ todo' = todo \ {First(todo)}
      /\ missed' = missed \cup {First(todo)} /\ UNCHANGED <<phase, slots, pass>>
  BY DEF SlotMissed, Slots
<1>2. todo \in SUBSET Nat
  BY TheoremsAreNumbers DEF OrderInv
<1>3. First(todo) \in todo
  BY <1>1, <1>2, FirstIsLeast
<1>4. QED
  BY <1>1, <1>3 DEF OrderInv, OrderLostOnRetryOnly, Theorems, Given, Indices

LEMMA NextPassInOrder ==
  ASSUME OrderInv, NextPass, UNCHANGED decls
  PROVE  OrderInv'
<1>1. /\ phase = "slots" /\ pass < Passes /\ UNCHANGED <<phase, slots>>
      /\ todo' = missed /\ missed' = {} /\ pass' = pass + 1
  BY DEF NextPass, PassOver
<1>2. /\ pass \in 1..Passes /\ Passes \in Nat
  BY ProgramAssumption DEF OrderInv
<1>3. pass' \in 1..Passes
  BY <1>1, <1>2
<1>4. \A j \in DOMAIN slots' : slots'[j].pass \in 1..pass' /\ slots'[j].pass # pass'
  BY <1>1, <1>2 DEF OrderInv
<1>5. QED
  BY <1>1, <1>3, <1>4 DEF OrderInv, OrderLostOnRetryOnly, Theorems, Given, Indices

\* The theorems of a state are begun.
LEMMA BegunInOrder ==
  ASSUME OrderInv, UNCHANGED decls, slots' = NoSlots, missed' = {}, pass' \in 1..Passes,
         todo' \subseteq Theorems
  PROVE  OrderInv'
BY DEF OrderInv, OrderLostOnRetryOnly, Theorems, Given, Indices, NoSlots

LEMMA OrderStays ==
  ASSUME OrderInv, UNCHANGED <<decls, slots, todo, missed, pass>>,
         phase' = "off" => phase = "off"
  PROVE  OrderInv'
BY DEF OrderInv, OrderLostOnRetryOnly, Theorems, Given, Indices

LEMMA OrderStep == OrderInv /\ [AgentNext]_agentVars => OrderInv'
<1> SUFFICES ASSUME OrderInv, [AgentNext]_agentVars
             PROVE  OrderInv'
  OBVIOUS
<1>1. /\ UNCHANGED decls
      /\ ProgramStarts \/ ProgramStep \/ ProgramForgotten \/ UNCHANGED programVars
  BY ProgramMoves
<1>2. 1 \in 1..Passes
  BY ProgramAssumption
<1>3. CASE ProgramStarts
  <2>1. slots' = NoSlots /\ missed' = {} /\ pass' \in 1..Passes /\ todo' = Theorems
    BY <1>3 DEF ProgramStarts, OrderInv
  <2>2. QED
    BY <1>1, <2>1, BegunInOrder
<1>4. CASE Propose \/ CandidateRefused \/ CandidateCircular \/ CandidateAccepted
             \/ StopChecking \/ Repair \/ CanonicalRetry \/ Branch \/ DefinitionsOutOfTime
  <2>1. UNCHANGED <<slots, todo, missed, pass>>
    BY <1>4 DEF Propose, CandidateRefused, CandidateCircular, CandidateAccepted, StopChecking,
         Repair, CanonicalRetry, Branch, DefinitionsOutOfTime, theorems
  <2>2. phase' = "off" => phase = "off"
    BY <1>4 DEF Propose, CandidateRefused, CandidateCircular, CandidateAccepted, StopChecking,
         Repair, CanonicalRetry, Branch, DefinitionsOutOfTime, StatesDone
  <2>3. QED
    BY <1>1, <2>1, <2>2, OrderStays
<1>5. CASE SlotSolved
  BY <1>1, <1>5, SlotSolvedInOrder
<1>6. CASE SlotMissed
  BY <1>1, <1>6, SlotMissedInOrder
<1>7. CASE NextPass
  BY <1>1, <1>7, NextPassInOrder
<1>8. CASE StateGivenUp \/ Assemble
  <2>1. \/ UNCHANGED <<slots, todo, missed, pass>> /\ phase' # "off"
        \/ slots' = NoSlots /\ missed' = {} /\ pass' = 1 /\ todo' = Theorems
    BY <1>8 DEF StateGivenUp, Assemble, NextState, theorems
  <2>2. QED
    BY <1>1, <1>2, <2>1, OrderStays, BegunInOrder
<1>9. CASE ProgramForgotten
  <2>1. slots' = NoSlots /\ missed' = {} /\ pass' = 1 /\ todo' = {}
    BY <1>9 DEF ProgramForgotten
  <2>2. QED
    BY <1>1, <1>2, <2>1, BegunInOrder
<1>10. CASE UNCHANGED programVars
  BY <1>1, <1>10, OrderStays DEF programVars, theorems
<1>11. QED
  BY <1>1, <1>3, <1>4, <1>5, <1>6, <1>7, <1>8, <1>9, <1>10 DEF ProgramStep

LEMMA OrderInit == AgentInit => OrderInv
<1>1. 1 \in 1..Passes
  BY ProgramAssumption
<1>2. QED
  BY <1>1, ProgramAssumption DEF AgentInit, ProgramIdle, OrderInv, OrderLostOnRetryOnly, NoSlots

\* For any challenge and any number of passes, a proved slot leans on a later one only if that
\* one was given, or was proved on an earlier pass: what comes of a first pass can be assembled
\* in the challenge's order.
THEOREM OrderIsLostOnRetryOnly == AgentSpec => []OrderLostOnRetryOnly
<1>1. OrderInv => OrderLostOnRetryOnly
  BY DEF OrderInv
<1>2. QED
  BY <1>1, OrderInit, OrderStep, PTL DEF AgentSpec

-----------------------------------------------------------------------------
(* How much a round of candidates can hold.                                  *)

\* A text's candidates are answers, and not more than MaxCandidates.
LEMMA TextsAreLists ==
  ASSUME NEW text \in Texts
  PROVE  text \in Seq(Answers) /\ Len(text) \in 0..MaxCandidates
<1>1. PICK k \in 0..MaxCandidates : text \in [1..k -> Answers]
  BY DEF Texts
<1>2. k \in Nat
  OBVIOUS
<1>3. text \in Seq(Answers)
  BY <1>1, <1>2, SeqDef
<1>4. Len(text) = k
  BY <1>1, <1>2, <1>3, LenProperties
<1>5. QED
  BY <1>3, <1>4

\* A list is full at MaxCandidates, and one candidate gets in before that is asked.
Fits(start, now) ==
  /\ Len(now.list) <= MaxCandidates \/ Len(now.list) <= Len(start) + 1
  /\ now.full \/ now.list = start \/ Len(now.list) < MaxCandidates

\* What the loop over a text has at hand.
Tray == [list : Seq(Answers), full : BOOLEAN]

\* The loop's body keeps to that.
LEMMA TakeOneFits ==
  ASSUME NEW start \in Seq(Answers), NEW before \in Tray, NEW a \in Answers,
         NEW retry \in BOOLEAN
  PROVE  /\ TakeOne(before, a, retry) \in Tray
         /\ Fits(start, before) => Fits(start, TakeOne(before, a, retry))
<1> DEFINE list == IF a \in Range(before.list) THEN before.list ELSE Append(before.list, a)
           now  == [list |-> list, full |-> Len(list) >= MaxCandidates]
<1>1. /\ before.list \in Seq(Answers) /\ before.full \in BOOLEAN
      /\ Len(before.list) \in Nat /\ Len(start) \in Nat /\ MaxCandidates \in Nat
  BY LenProperties, ProgramAssumption DEF Tray
<1>2. /\ list \in Seq(Answers)
      /\ list = before.list \/ Len(list) = Len(before.list) + 1
      /\ Len(list) \in Nat
  BY <1>1, AppendProperties, LenProperties
<1> HIDE DEF list
<1>3. now \in Tray /\ now.list = list /\ now.full = (Len(list) >= MaxCandidates)
  BY <1>2 DEF Tray
<1>4. Fits(start, before) /\ ~before.full => Fits(start, now)
  <2>1. SUFFICES ASSUME Fits(start, before), ~before.full
                 PROVE  Fits(start, now)
    OBVIOUS
  <2>2. before.list = start \/ Len(before.list) < MaxCandidates
    BY <2>1 DEF Fits
  <2>3. Len(list) <= MaxCandidates \/ Len(list) <= Len(start) + 1
    BY <1>1, <1>2, <2>2
  <2> HIDE DEF now
  <2>4. now.full \/ Len(list) < MaxCandidates
    <3>1. Len(list) >= MaxCandidates \/ Len(list) < MaxCandidates
      BY <1>1, <1>2
    <3>2. QED
      BY <1>3, <3>1
  <2>5. QED
    BY <1>3, <2>3, <2>4 DEF Fits
<1>5. TakeOne(before, a, retry) = before \/ (~before.full /\ TakeOne(before, a, retry) = now)
  BY <1>1 DEF TakeOne, list
<1> HIDE DEF now
<1>6. QED
  BY <1>3, <1>4, <1>5

\* So does the loop: a text puts the list over MaxCandidates by one at most.
LEMMA TakeFits ==
  ASSUME NEW start \in Seq(Answers), NEW text \in Seq(Answers), NEW retry \in BOOLEAN
  PROVE  /\ Take(start, text, retry) \in Seq(Answers)
         /\ \/ Len(Take(start, text, retry)) <= MaxCandidates
            \/ Len(Take(start, text, retry)) <= Len(start) + 1
<1> DEFINE n == Len(text)
           empty == [list |-> start, full |-> FALSE]
           turn == [k \in 1..n |-> [before \in Tray |-> TakeOne(before, text[k], retry)]]
           Step(g) == [k \in 0..n |-> IF k = 0 THEN empty ELSE TakeOne(g[k-1], text[k], retry)]
<1>1. n \in Nat /\ \A k \in 1..n : text[k] \in Answers
  BY LenProperties, ElementOfSeq
<1>2. empty \in Tray /\ empty.list = start /\ Fits(start, empty)
  BY DEF Tray, Fits
<1>3. turn \in Loops(n, Tray)
  BY <1>1, TakeOneFits DEF Loops
<1>4. \A k \in 1..n, before \in Tray : turn[k][before] = TakeOne(before, text[k], retry)
  OBVIOUS
<1> HIDE DEF n, empty, turn
<1>5. PICK g \in [0..n -> Tray] : RunsThrough(g, turn, n, empty)
  BY <1>1, <1>2, <1>3, LoopRuns
<1>6. g = Step(g)
  <2>1. ASSUME NEW k \in 0..n
        PROVE  g[k] = IF k = 0 THEN empty ELSE TakeOne(g[k-1], text[k], retry)
    <3>1. CASE k = 0
      BY <1>5, <3>1 DEF RunsThrough
    <3>2. CASE k # 0
      <4>1. k \in 1..n /\ k - 1 \in 0..n
        BY <1>1, <3>2
      <4>2. g[k-1] \in Tray /\ g[k] = turn[k][g[k-1]]
        BY <1>5, <4>1 DEF RunsThrough
      <4>3. QED
        BY <1>4, <3>2, <4>1, <4>2
    <3>3. QED
      BY <3>1, <3>2
  <2>2. QED
    BY <2>1
<1> DEFINE after == CHOOSE h : h = Step(h)
<1>7. after = Step(after)
  BY <1>6
<1>8. Take(start, text, retry) = after[n].list
  BY DEF Take, n, empty
<1> HIDE DEF after
<1>9. after[0] = empty /\ \A k \in 1..n : after[k] = TakeOne(after[k-1], text[k], retry)
  <2>1. \A k \in 0..n : after[k] = IF k = 0 THEN empty ELSE TakeOne(after[k-1], text[k], retry)
    BY <1>7
  <2>2. 0 \in 0..n /\ \A k \in 1..n : k \in 0..n /\ k # 0
    BY <1>1
  <2>3. QED
    BY <2>1, <2>2
<1> DEFINE Good == {k \in 0..n : after[k] \in Tray /\ Fits(start, after[k])}
<1>10. 0 \in Good
  BY <1>1, <1>2, <1>9
<1>11. ASSUME NEW k \in 1..n, k - 1 \in Good
       PROVE  k \in Good
  <2>1. k \in 0..n /\ text[k] \in Answers
    BY <1>1
  <2>2. after[k-1] \in Tray /\ Fits(start, after[k-1])
    BY <1>11
  <2>3. after[k] \in Tray /\ Fits(start, after[k])
    BY <1>9, <2>1, <2>2, TakeOneFits
  <2>4. QED
    BY <2>1, <2>3
<1> HIDE DEF Good
<1>12. n \in Good
  <2>1. n \in 0..n
    BY <1>1
  <2>2. QED
    BY <1>1, <1>10, <1>11, <2>1, InductionUpTo
<1>13. after[n] \in Tray /\ Fits(start, after[n])
  BY <1>12 DEF Good
<1>14. QED
  BY <1>8, <1>13 DEF Tray, Fits

\* And n texts by n - 1.
LEMMA CollectFits ==
  ASSUME NEW n \in Nat \ {0}, NEW retry \in BOOLEAN, NEW list \in Collect(n, retry)
  PROVE  list \in Seq(Answers) /\ Len(list) <= MaxCandidates + n - 1
<1> DEFINE More(lists) == {Take(from, text, retry) : from \in lists, text \in Texts}
           none == {<<>>}
           S == SUBSET Seq(Answers)
           turn == [k \in 1..n |-> [lists \in S |-> More(lists)]]
           Step(g) == [k \in 0..n |-> IF k = 0 THEN none ELSE More(g[k-1])]
<1>1. n \in Nat /\ MaxCandidates \in Nat \ {0}
  BY ProgramAssumption
<1>2. none \in S
  OBVIOUS
<1>3. ASSUME NEW lists \in S
      PROVE  More(lists) \in S
  BY TakeFits, TextsAreLists
<1>4. turn \in Loops(n, S) /\ \A k \in 1..n, lists \in S : turn[k][lists] = More(lists)
  <2> HIDE DEF More, S
  <2>1. QED
    BY <1>3 DEF Loops
<1>5. Collect(n, retry) = (CHOOSE h : h = Step(h))[n]
  BY DEF Collect
<1> HIDE DEF More, none, turn, S
<1>6. PICK g \in [0..n -> S] : RunsThrough(g, turn, n, none)
  BY <1>1, <1>2, <1>4, LoopRuns
<1>7. g = Step(g)
  <2>1. ASSUME NEW k \in 0..n
        PROVE  g[k] = IF k = 0 THEN none ELSE More(g[k-1])
    <3>1. CASE k = 0
      BY <1>6, <3>1 DEF RunsThrough
    <3>2. CASE k # 0
      <4>1. k \in 1..n /\ k - 1 \in 0..n
        BY <1>1, <3>2
      <4>2. g[k-1] \in S /\ g[k] = turn[k][g[k-1]]
        BY <1>6, <4>1 DEF RunsThrough
      <4>3. QED
        BY <1>4, <3>2, <4>1, <4>2
    <3>3. QED
      BY <3>1, <3>2
  <2>2. QED
    BY <2>1
<1> DEFINE lists == CHOOSE h : h = Step(h)
<1>8. lists = Step(lists)
  BY <1>7
<1>9. list \in lists[n]
  BY <1>5
<1> HIDE DEF lists
<1>10. lists[0] = none /\ \A k \in 1..n : lists[k] = More(lists[k-1])
  <2>1. \A k \in 0..n : lists[k] = IF k = 0 THEN none ELSE More(lists[k-1])
    BY <1>8
  <2>2. 0 \in 0..n /\ \A k \in 1..n : k \in 0..n /\ k # 0
    BY <1>1
  <2>3. QED
    BY <2>1, <2>2
<1> DEFINE Good == {k \in 0..n : \A l \in lists[k] :
                                   l \in Seq(Answers) /\ Len(l) <= MaxCandidates + k - 1}
<1>11. 0 \in Good
  <2>1. 0 \in 0..n /\ 0 <= MaxCandidates + 0 - 1
    BY <1>1
  <2>2. \A l \in lists[0] : l \in Seq(Answers) /\ Len(l) = 0
    BY <1>10 DEF none
  <2>3. QED
    BY <2>1, <2>2
<1>12. ASSUME NEW k \in 1..n, k - 1 \in Good
       PROVE  k \in Good
  <2>1. ASSUME NEW l \in lists[k]
        PROVE  l \in Seq(Answers) /\ Len(l) <= MaxCandidates + k - 1
    <3>1. PICK from \in lists[k-1], text \in Texts : l = Take(from, text, retry)
      BY <1>10 DEF More
    <3>2. from \in Seq(Answers) /\ Len(from) <= MaxCandidates + (k - 1) - 1
      BY <1>12
    <3>3. /\ l \in Seq(Answers)
          /\ Len(l) <= MaxCandidates \/ Len(l) <= Len(from) + 1
      BY <3>1, <3>2, TakeFits, TextsAreLists
    <3>4. Len(l) \in Nat /\ Len(from) \in Nat
      BY <3>2, <3>3, LenProperties
    <3>5. QED
      BY <1>1, <3>2, <3>3, <3>4
  <2>2. QED
    BY <1>1, <2>1
<1> HIDE DEF Good
<1>13. n \in Good
  <2>1. n \in 0..n
    BY <1>1
  <2>2. QED
    BY <1>1, <1>11, <1>12, <2>1, InductionUpTo
<1>14. QED
  BY <1>9, <1>13 DEF Good

-----------------------------------------------------------------------------
(* The work of a portfolio is bounded.                                       *)

\* The most candidates a round can have left.
Most(r) == CASE r = "first"  -> MaxCandidates + Calls - 1
             [] r = "repair" -> MaxCandidates
             [] OTHER        -> MaxCandidates + RetryCalls - 1

\* A candidate is left only while more may be accepted, and no list outgrows its limit.
WorkInv ==
  /\ phase \in {"off", "propose", "check", "slots", "solved", "failed"}
  /\ cands \in Seq(Answers) /\ Len(cands) <= Most(round)
  /\ Len(accepted) <= MaxAccepted
  /\ phase = "check" /\ cands # <<>> => Len(accepted) < Enough
  /\ Len(states) <= MaxStates /\ Len(next) <= MaxStates
  /\ current \in 1..Len(states) \/ phase \in {"off", "failed"}

LEMMA MostIsMore ==
  /\ Most("first") \in Nat /\ Most("repair") \in Nat /\ Most("canonical") \in Nat
  /\ \A r : Most(r) \in Nat
BY ProgramAssumption DEF Most

LEMMA EnoughIsPositive ==
  Enough \in Nat \ {0} /\ Enough <= MaxAccepted
BY ProgramAssumption DEF Enough

LEMMA WorkIdle ==
  ASSUME phase' = "off" , cands' = <<>>, accepted' = <<>>, states' = <<>>, next' = <<>>
  PROVE  WorkInv'
<1>1. <<>> \in Seq(Answers) /\ Len(<<>>) = 0
  OBVIOUS
<1>2. Most(round') \in Nat /\ MaxAccepted \in Nat /\ MaxStates \in Nat
  BY MostIsMore, ProgramAssumption
<1>3. Len(cands') <= Most(round')
  BY <1>1, <1>2
<1>4. Len(accepted') <= MaxAccepted /\ Len(states') <= MaxStates /\ Len(next') <= MaxStates
  BY <1>1, <1>2
<1>5. QED
  BY <1>1, <1>3, <1>4 DEF WorkInv, Most

\* New candidates come when nothing is accepted.
LEMMA NewCandidates ==
  ASSUME WorkInv, phase' = "check", cands' \in Seq(Answers), Len(cands') <= Most(round'),
         accepted' = <<>>, UNCHANGED <<states, next, current>>, phase \in {"propose", "check"}
  PROVE  WorkInv'
<1>1. Len(<<>>) = 0
  OBVIOUS
<1>2. Enough' \in Nat \ {0} /\ MaxAccepted \in Nat
  BY ProgramAssumption DEF Enough
<1>3. Len(accepted') <= MaxAccepted /\ Len(accepted') < Enough'
  BY <1>1, <1>2
<1>4. QED
  BY <1>3 DEF WorkInv, Most

\* One candidate less.
LEMMA OneChecked ==
  ASSUME WorkInv, CircularInv, Checking, cands' = Tail(cands) \/ cands' = <<>>,
         UNCHANGED <<phase, states, next, current, round, accepted>>
  PROVE  WorkInv'
<1>1. cands \in Seq(Answers) /\ cands # <<>> /\ phase = "check"
  BY DEF WorkInv, Checking
<1>2. cands' \in Seq(Answers) /\ Len(cands') <= Len(cands) /\ Len(cands) \in Nat /\ Len(cands') \in Nat
  <2>1. Len(cands) \in Nat /\ Len(<<>>) = 0 /\ <<>> \in Seq(Answers)
    BY <1>1, LenProperties
  <2>2. Tail(cands) \in Seq(Answers) /\ Len(Tail(cands)) = Len(cands) - 1 /\ Len(cands) # 0
    BY <1>1, HeadTailProperties, EmptySeq
  <2>3. CASE cands' = Tail(cands)
    BY <2>1, <2>2, <2>3
  <2>4. CASE cands' = <<>>
    <3>1. Len(cands') = 0 /\ cands' \in Seq(Answers)
      BY <2>1, <2>4
    <3>2. QED
      BY <2>1, <3>1
  <2>5. QED
    BY <2>3, <2>4
<1>3. Most(round) \in Nat /\ Len(cands) <= Most(round)
  BY MostIsMore DEF WorkInv
<1>4. Len(cands') <= Most(round')
  BY <1>2, <1>3
<1>5. Enough' = Enough /\ Len(accepted) < Enough
  BY <1>1 DEF Enough, WorkInv
<1>6. QED
  BY <1>1, <1>2, <1>4, <1>5 DEF WorkInv

LEMMA OneAccepted ==
  ASSUME WorkInv, CircularInv, CandidateAccepted
  PROVE  WorkInv'
<1>0. PICK a : a = Head(cands)
  OBVIOUS
<1>1. /\ Checking /\ accepted' = Append(accepted, a)
      /\ cands' = IF Len(accepted) + 1 >= Enough THEN <<>> ELSE Tail(cands)
      /\ UNCHANGED <<phase, states, next, current, round>>
  BY <1>0 DEF CandidateAccepted
<1>2. cands \in Seq(Answers) /\ cands # <<>> /\ phase = "check" /\ Len(accepted) < Enough
  BY <1>1 DEF WorkInv, Checking
<1>3. cands' \in Seq(Answers) /\ Len(cands') <= Len(cands) /\ Len(cands) \in Nat /\ Len(cands') \in Nat
  <2>1. Len(cands) \in Nat /\ Len(<<>>) = 0 /\ <<>> \in Seq(Answers)
    BY <1>2, LenProperties
  <2>2. Tail(cands) \in Seq(Answers) /\ Len(Tail(cands)) = Len(cands) - 1 /\ Len(cands) # 0
    BY <1>2, HeadTailProperties, EmptySeq
  <2>3. QED
    BY <1>1, <2>1, <2>2
<1>4. Most(round) \in Nat /\ Len(cands) <= Most(round)
  BY MostIsMore DEF WorkInv
<1>5. Len(cands') <= Most(round')
  BY <1>1, <1>3, <1>4
<1>6. Len(accepted') = Len(accepted) + 1 /\ Len(accepted) \in Nat
  BY <1>1, SeqAppend, SeqFacts DEF CircularInv
<1>7. Enough' = Enough /\ Enough \in Nat /\ Enough <= MaxAccepted /\ MaxAccepted \in Nat
  BY <1>1, EnoughIsPositive, ProgramAssumption DEF Enough
<1>8. Len(accepted') <= MaxAccepted /\ (cands' # <<>> => Len(accepted') < Enough')
  BY <1>1, <1>2, <1>6, <1>7
<1>9. QED
  BY <1>1, <1>2, <1>3, <1>5, <1>8 DEF WorkInv

\* A list of states within the limit becomes the states.
LEMMA StatesDoneFit ==
  ASSUME WorkInv, NEW list, IsSeq(list), Len(list) <= MaxStates, StatesDone(list),
         cands' \in Seq(Answers), Len(cands') <= Most(round'), Len(accepted') <= MaxAccepted
  PROVE  WorkInv'
<1>1. /\ states' = list /\ next' = <<>> /\ current' = 1
      /\ phase' = IF list = <<>> THEN "failed"
                  ELSE IF {i \in Definitions : i > index} # {} THEN "propose" ELSE "slots"
  BY DEF StatesDone
<1>2. current' \in 1..Len(states') \/ phase' = "failed"
  <2>1. Len(list) \in Nat /\ (list # <<>> => Len(list) # 0)
    BY SeqFacts, EmptySeq DEF IsSeq
  <2>2. QED
    BY <1>1, <2>1
<1>3. Len(next') <= MaxStates
  <2>1. Len(<<>>) = 0 /\ MaxStates \in Nat
    BY ProgramAssumption
  <2>2. QED
    BY <1>1, <2>1
<1>4. phase' \in {"failed", "propose", "slots"}
  BY <1>1
<1>5. QED
  BY <1>1, <1>2, <1>3, <1>4 DEF WorkInv

LEMMA BranchFits ==
  ASSUME WorkInv, CircularInv, Branch
  PROVE  WorkInv'
<1> DEFINE with(a) == [i \in DOMAIN states[current] \cup {index} |->
                         IF i = index THEN a ELSE states[current][i]]
           list == [k \in DOMAIN accepted |-> with(accepted[k])]
           all  == Branches(list)
<1>1. /\ phase = "check" /\ accepted' = <<>> /\ cands' = <<>> /\ round' = "first"
      /\ IF current < Len(states) /\ Len(all) < MaxStates
         THEN /\ next' = all /\ current' = current + 1 /\ phase' = "propose"
              /\ UNCHANGED <<index, states>>
         ELSE StatesDone(all)
  BY DEF Branch, RoundOver
<1>2. /\ Len(accepted) \in Nat /\ DOMAIN accepted = 1..Len(accepted)
      /\ Len(states) \in Nat /\ Len(next) \in Nat /\ current \in 1..Len(states)
      /\ MaxStates \in Nat /\ Len(next) <= MaxStates /\ MaxAccepted \in Nat
  BY <1>1, SeqFacts, ProgramAssumption DEF CircularInv, WorkInv
<1>3. IsSeq(list) /\ Len(list) = Len(accepted)
  <2>1. list \in [1..Len(accepted) -> {with(accepted[k]) : k \in 1..Len(accepted)}]
    BY <1>2
  <2> HIDE DEF list
  <2>2. list \in Seq({with(accepted[k]) : k \in 1..Len(accepted)})
    BY <1>2, <2>1, SeqDef
  <2>3. QED
    BY <1>2, <2>1, <2>2, LenProperties DEF IsSeq
<1> HIDE DEF list
<1>4. IsSeq(all) /\ Len(all) <= MaxStates
  <2> DEFINE room == IF Len(list) < MaxStates - Len(next) THEN Len(list)
                                                          ELSE MaxStates - Len(next)
             cut  == SubSeq(list, 1, room)
  <2>1. room \in Int /\ room <= Len(list) /\ 0 <= room /\ room <= MaxStates - Len(next)
    BY <1>2, <1>3
  <2>2. all = next \o cut
    BY DEF Branches
  <2> HIDE DEF room
  <2>3. IsSeq(cut) /\ Len(cut) = IF 1 <= room THEN room ELSE 0
    BY <1>3, <2>1, SeqCut
  <2> HIDE DEF cut, all
  <2>4. IsSeq(all) /\ Len(all) = Len(next) + Len(cut)
    BY <2>2, <2>3, SeqJoin DEF CircularInv
  <2>5. QED
    BY <1>2, <2>1, <2>3, <2>4
<1> HIDE DEF all
<1>5. cands' \in Seq(Answers) /\ Len(cands') <= Most(round') /\ Len(accepted') <= MaxAccepted
  <2>1. <<>> \in Seq(Answers) /\ Len(<<>>) = 0 /\ Most("first") \in Nat
    BY MostIsMore
  <2>2. QED
    BY <1>1, <1>2, <2>1
<1>6. CASE StatesDone(all)
  BY <1>4, <1>5, <1>6, StatesDoneFit
<1>7. ASSUME current < Len(states), next' = all, current' = current + 1, phase' = "propose",
             UNCHANGED <<index, states>>
      PROVE  WorkInv'
  <2>1. current' \in 1..Len(states')
    BY <1>2, <1>7
  <2>2. QED
    BY <1>4, <1>5, <1>7, <2>1 DEF WorkInv
<1>8. QED
  BY <1>1, <1>6, <1>7

\* A step among the theorems.
LEMMA WorkStays ==
  ASSUME WorkInv, UNCHANGED <<states, next, cands, accepted, round>>,
         \/ UNCHANGED <<phase, current>>
         \/ phase = "slots" /\ phase' \in {"slots", "solved", "failed"}
              /\ (phase' = "failed" \/ current' \in 1..Len(states))
  PROVE  WorkInv'
<1>1. Enough' = Enough
  BY DEF Enough
<1>2. QED
  BY <1>1 DEF WorkInv

LEMMA NextStateCounts ==
  ASSUME WorkInv, CircularInv, phase = "slots", NextState
  PROVE  phase' \in {"slots", "failed"} /\ (phase' = "failed" \/ current' \in 1..Len(states))
<1>1. current \in 1..Len(states) /\ Len(states) \in Nat
  BY SeqFacts DEF WorkInv, CircularInv
<1>2. QED
  BY <1>1 DEF NextState

LEMMA WorkStep == WorkInv /\ CircularInv /\ [AgentNext]_agentVars => WorkInv'
<1> SUFFICES ASSUME WorkInv, CircularInv, [AgentNext]_agentVars
             PROVE  WorkInv'
  OBVIOUS
<1>1. ProgramStarts \/ ProgramStep \/ ProgramForgotten \/ UNCHANGED programVars
  BY ProgramMoves
<1>2. CASE ProgramStarts
  <2>1. /\ phase = "off" /\ phase' \in {"slots", "propose"} /\ states' = <<[i \in {} |-> 0]>>
        /\ UNCHANGED <<next, current, cands, accepted, round>>
    BY <1>2 DEF ProgramStarts, definitions
  <2>2. current = 1
    BY <2>1 DEF CircularInv
  <2>3. Len(states') = 1 /\ MaxStates \in Nat \ {0}
    BY <2>1, ProgramAssumption
  <2>4. QED
    BY <2>1, <2>2, <2>3 DEF WorkInv
<1>3. CASE Propose
  <2>1. PICK list \in Collect(Calls, FALSE) : cands' = list
    BY <1>3 DEF Propose
  <2>2. Calls \in Nat \ {0}
    BY ProgramAssumption
  <2>3. list \in Seq(Answers) /\ Len(list) <= MaxCandidates + Calls - 1
    BY <2>2, CollectFits
  <2>4. /\ phase = "propose" /\ phase' = "check" /\ round' = "first" /\ accepted' = <<>>
        /\ UNCHANGED <<states, next, current>>
    BY <1>3 DEF Propose
  <2>5. Len(cands') <= Most(round')
    BY <2>1, <2>3, <2>4 DEF Most
  <2>6. QED
    BY <2>1, <2>3, <2>4, <2>5, NewCandidates
<1>4. CASE CandidateRefused \/ CandidateCircular \/ StopChecking
  <2>1. /\ Checking /\ (cands' = Tail(cands) \/ cands' = <<>>)
        /\ UNCHANGED <<phase, states, next, current, round, accepted>>
    BY <1>4 DEF CandidateRefused, CandidateCircular, StopChecking
  <2>2. QED
    BY <2>1, OneChecked
<1>5. CASE CandidateAccepted
  BY <1>5, OneAccepted
<1>6. CASE Repair
  <2>1. PICK text \in Texts : cands' = text
    BY <1>6 DEF Repair
  <2>2. cands' \in Seq(Answers) /\ Len(cands') \in 0..MaxCandidates
    BY <2>1, TextsAreLists
  <2>3. /\ phase = "check" /\ phase' = "check" /\ round' = "repair" /\ accepted' = <<>>
        /\ UNCHANGED <<states, next, current>>
    BY <1>6 DEF Repair, RoundOver
  <2>4. Len(cands') <= Most(round')
    BY <2>2, <2>3 DEF Most
  <2>5. QED
    BY <2>2, <2>3, <2>4, NewCandidates
<1>7. CASE CanonicalRetry
  <2>1. PICK list \in Collect(RetryCalls, TRUE) : cands' = list
    BY <1>7 DEF CanonicalRetry
  <2>2. RetryCalls \in Nat \ {0}
    BY <1>7, ProgramAssumption DEF CanonicalRetry
  <2>3. list \in Seq(Answers) /\ Len(list) <= MaxCandidates + RetryCalls - 1
    BY <2>2, CollectFits
  <2>4. /\ phase = "check" /\ phase' = "check" /\ round' = "canonical" /\ accepted' = <<>>
        /\ UNCHANGED <<states, next, current>>
    BY <1>7 DEF CanonicalRetry, RoundOver
  <2>5. Len(cands') <= Most(round')
    BY <2>1, <2>3, <2>4 DEF Most
  <2>6. QED
    BY <2>1, <2>3, <2>4, <2>5, NewCandidates
<1>8. CASE Branch
  BY <1>8, BranchFits
<1>9. CASE DefinitionsOutOfTime
  <2>1. StatesDone(next) /\ UNCHANGED <<cands, round, accepted>>
    BY <1>9 DEF DefinitionsOutOfTime, definitions
  <2>2. IsSeq(next)
    BY DEF CircularInv
  <2>3. QED
    BY <2>1, <2>2, StatesDoneFit DEF WorkInv
<1>10. CASE SlotSolved \/ SlotMissed \/ NextPass
  BY <1>10, WorkStays DEF SlotSolved, SlotMissed, NextPass, definitions
<1>11. CASE StateGivenUp \/ Assemble
  <2>1. phase = "slots" /\ UNCHANGED <<states, next, cands, accepted, round>>
    BY <1>11 DEF StateGivenUp, Assemble, PassOver, definitions
  <2>2. NextState \/ (phase' = "solved" /\ UNCHANGED current)
    BY <1>11 DEF StateGivenUp, Assemble
  <2>3. phase' \in {"slots", "solved", "failed"} /\ (phase' = "failed" \/ current' \in 1..Len(states))
    BY <2>1, <2>2, NextStateCounts DEF WorkInv
  <2>4. QED
    BY <2>1, <2>3, WorkStays
<1>12. CASE ProgramForgotten
  BY <1>12, WorkIdle DEF ProgramForgotten
<1>13. CASE UNCHANGED programVars
  BY <1>13, WorkStays DEF programVars, definitions
<1>14. QED
  BY <1>1, <1>2, <1>3, <1>4, <1>5, <1>6, <1>7, <1>8, <1>9, <1>10, <1>11, <1>12, <1>13
     DEF ProgramStep

LEMMA WorkInit == AgentInit => WorkInv
<1>1. <<>> \in Seq(Answers) /\ Len(<<>>) = 0
  OBVIOUS
<1>2. Most("first") \in Nat /\ MaxAccepted \in Nat /\ MaxStates \in Nat
  BY MostIsMore, ProgramAssumption
<1>3. QED
  BY <1>1, <1>2 DEF AgentInit, ProgramIdle, WorkInv

-----------------------------------------------------------------------------
(* The agent's types.                                                        *)

Kinds == Verdicts \cup {"none"}

\* A round is begun only while the window has rounds left, and the agent goes on only while
\* it has not stalled.
LadderInv ==
  /\ stage \in {"sweep", "champion", "handoff", "slots", "combine", "whole", "experiment",
                "residual", "round", "greedy", "done"}
  /\ arm \in Arms /\ heirs \in [Arms -> Kinds]
  /\ best \in Kinds /\ bestRank \in -1..TopRank
  /\ rounds \in 0..MaxRounds
  /\ stage = "greedy" \/ (stage = "round" /\ phase # "off") => rounds < MaxRounds
  /\ flat \in 0..StallLimit
  /\ stage # "done" => flat < StallLimit

LEMMA NoHeirsYet == NoHeirs \in [Arms -> Kinds]
BY DEF NoHeirs, Kinds, Arms

\* A step that leaves the counters of the rounds alone.
LEMMA CountersStay ==
  ASSUME LadderInv, UNCHANGED <<rounds, flat>>, stage # "done",
         stage' \in {"sweep", "champion", "handoff", "slots", "combine", "whole", "experiment",
                     "residual", "round", "done"},
         stage' = "round" => phase' = "off",
         arm' \in Arms, heirs' \in [Arms -> Kinds], best' \in Kinds, bestRank' \in -1..TopRank
  PROVE  LadderInv'
BY DEF LadderInv

\* A step that leaves the champions alone, too.
LEMMA StageMoves ==
  ASSUME LadderInv, UNCHANGED <<rounds, flat, arm, heirs, best, bestRank>>, stage # "done",
         stage' \in {"sweep", "champion", "handoff", "slots", "combine", "whole", "experiment",
                     "residual", "round", "done"},
         stage' = "round" => phase' = "off"
  PROVE  LadderInv'
BY CountersStay DEF LadderInv

\* The search of an arm.
LEMMA ArmStep ==
  ASSUME LadderInv, StageInv, StartChampion \/ StartHandoff \/ Repairing
  PROVE  LadderInv'
<1>1. /\ stage \in {"champion", "handoff"}
      /\ UNCHANGED <<stage, arm, heirs, rounds, flat>>
  BY DEF StartChampion, StartHandoff, Repairing, RepairStep, Turn, TurnRaises, OutOfTurns,
     StageInv, ladder, residual
<1>2. TopRank \in Nat \ {0} /\ arm \in Arms /\ heirs[arm] \in Kinds
  BY RepairAssumption DEF LadderInv
<1>3. best' \in Kinds /\ bestRank' \in -1..TopRank
  <2>1. CASE StartChampion
    BY <1>2, <2>1 DEF StartChampion, RepairStarts, Kinds
  <2>2. CASE StartHandoff
    <3>1. best' = heirs[arm] /\ bestRank' \in {TopRank, -1} \cup 0..TopRank-1
      BY <2>2 DEF StartHandoff, RepairStartsSeeded
    <3>2. QED
      BY <1>2, <3>1
  <2>3. CASE Turn
    <3>1. PICK kind \in Verdicts, rank \in 0..TopRank : Keep(kind, rank)
      BY <2>3 DEF Turn
    <3>2. QED
      BY <1>2, <3>1 DEF Keep, LadderInv, Kinds
  <2>4. CASE TurnRaises \/ OutOfTurns
    BY <2>4 DEF TurnRaises, OutOfTurns, LadderInv
  <2>5. QED
    BY <2>1, <2>2, <2>3, <2>4 DEF Repairing, RepairStep
<1>4. QED
  BY <1>1, <1>3, CountersStay DEF LadderInv

\* Another arm, or none.
LEMMA ArmChanges ==
  ASSUME LadderInv, StageInv, SkipArm \/ ArmEnds
  PROVE  LadderInv'
<1>1. /\ stage \in {"champion", "handoff"} /\ UNCHANGED <<rounds, flat>>
      /\ best' \in Kinds /\ bestRank' \in -1..TopRank
  <2>1. TopRank \in Nat
    BY RepairAssumption
  <2>2. CASE SkipArm
    BY <2>2 DEF SkipArm, LadderInv, residual, portfolios, repairVars
  <2>3. CASE ArmEnds
    BY <2>1, <2>3 DEF ArmEnds, StageInv, RepairOver, RepairForgotten, residual, Kinds
  <2>4. QED
    BY <2>2, <2>3
<1>2. [heirs EXCEPT ![arm] = best] \in [Arms -> Kinds]
  BY DEF LadderInv
<1>3. ASSUME NEW left \in [Arms -> Kinds], NextArm(left)
      PROVE  /\ stage' \in {"champion", "handoff", "slots", "whole"}
             /\ arm' \in Arms /\ heirs' \in [Arms -> Kinds]
  BY <1>1, <1>3, NoHeirsYet DEF NextArm, ChampionsOver, FallbackStage, Arms, LadderInv
<1>4. /\ stage' \in {"champion", "handoff", "slots", "whole", "done"}
      /\ arm' \in Arms /\ heirs' \in [Arms -> Kinds]
  <2>1. CASE SkipArm
    <3>1. \/ stage' = "handoff" /\ arm' = 1 /\ UNCHANGED heirs
          \/ NextArm(heirs)
      BY <2>1 DEF SkipArm
    <3>2. QED
      BY <1>3, <3>1 DEF LadderInv, Arms
  <2>2. CASE ArmEnds
    <3>1. \/ Submit(best) /\ UNCHANGED <<arm, heirs>>
          \/ ChampionsOver
          \/ NextArm([heirs EXCEPT ![arm] = best])
          \/ NextArm(heirs)
      BY <2>2 DEF ArmEnds
    <3>2. CASE Submit(best) /\ UNCHANGED <<arm, heirs>>
      BY <3>2 DEF LadderInv, Submit
    <3>3. CASE ChampionsOver
      BY <3>3, NoHeirsYet DEF ChampionsOver, FallbackStage, Arms
    <3>4. CASE NextArm([heirs EXCEPT ![arm] = best])
      BY <1>2, <1>3, <3>4
    <3>5. CASE NextArm(heirs)
      BY <1>3, <3>5 DEF LadderInv
    <3>6. QED
      BY <3>1, <3>2, <3>3, <3>4, <3>5
  <2>3. QED
    BY <2>1, <2>2
<1>5. QED
  BY <1>1, <1>4, CountersStay

\* The round's end.
LEMMA GreedyCounts ==
  ASSUME LadderInv, StageInv, Greedy
  PROVE  LadderInv'
<1>1. /\ stage = "greedy" /\ UNCHANGED <<arm, heirs, best, bestRank, phase>>
      /\ \/ stage' = "done" /\ UNCHANGED <<rounds, flat>>
         \/ /\ flat' \in {0, flat + 1} /\ rounds' = rounds + 1
            /\ IF flat' >= StallLimit THEN stage' = "done" ELSE stage' = "round"
  BY DEF Greedy, Submit, GiveUp, Counted, FlatRounds, ladder, portfolios, repairVars, programVars
<1>2. /\ rounds \in 0..MaxRounds /\ rounds < MaxRounds /\ flat \in 0..StallLimit
      /\ flat < StallLimit /\ MaxRounds \in Nat /\ StallLimit \in Nat \ {0}
  BY <1>1, AgentAssumption DEF LadderInv
<1>3. phase' = "off"
  BY <1>1 DEF StageInv
<1>4. /\ rounds' \in 0..MaxRounds /\ flat' \in 0..StallLimit
      /\ stage' # "done" => flat' < StallLimit
      /\ stage' \in {"done", "round"}
  BY <1>1, <1>2
<1>5. QED
  BY <1>1, <1>3, <1>4 DEF LadderInv

LEMMA LadderStep == LadderInv /\ StageInv /\ [AgentNext]_agentVars => LadderInv'
<1> SUFFICES ASSUME LadderInv, StageInv, [AgentNext]_agentVars
             PROVE  LadderInv'
  OBVIOUS
<1> USE DEF ladder, residual, portfolios, repairVars, programVars
<1>1. CASE Sweep
  BY <1>1, StageMoves DEF Sweep, StageOver, Submit
<1>2. CASE StartChampion \/ StartHandoff \/ Repairing
  BY <1>2, ArmStep
<1>3. CASE SkipArm \/ ArmEnds
  BY <1>3, ArmChanges
<1>4. CASE SlotWon \/ TierMissed \/ SlotLost
  <2>1. /\ stage \in {"slots", "whole"}
        /\ UNCHANGED <<rounds, flat, arm, heirs, best, bestRank>>
    BY <1>4 DEF SlotWon, TierMissed, SlotLost, InSlot
  <2>2. stage' \in {"slots", "whole", "combine", "experiment", "done"}
    BY <1>4, <2>1 DEF SlotWon, TierMissed, SlotLost, SlotOver, StageOver, Submit
  <2>3. QED
    BY <2>1, <2>2, StageMoves
<1>5. CASE SlotsOutOfTime
  BY <1>5, StageMoves DEF SlotsOutOfTime
<1>6. CASE Combine
  BY <1>6, StageMoves DEF Combine, StageOver, Submit
<1>7. CASE StartProgram
  <2>1. /\ InRound \/ stage = "experiment"
        /\ UNCHANGED <<stage, arm, heirs, best, bestRank, rounds, flat>>
    BY <1>7 DEF StartProgram, Ready
  <2>2. QED
    BY <2>1 DEF LadderInv, InRound
<1>8. CASE RunProgram
  <2>1. phase # "off" /\ UNCHANGED <<stage, arm, heirs, best, bestRank, rounds, flat>>
    BY <1>8, PortfolioRuns DEF RunProgram
  <2>2. QED
    BY <2>1 DEF LadderInv
<1>9. CASE ProgramReturns
  <2>1. /\ phase # "off" /\ stage \in {"experiment", "round"}
        /\ UNCHANGED <<arm, heirs, best, bestRank, rounds, flat>>
        /\ stage' = "done" \/ stage' = AfterPortfolio
    BY <1>9 DEF ProgramReturns, ProgramForgotten, StageInv, Submit
  <2>2. QED
    BY <2>1 DEF LadderInv, AfterPortfolio
<1>10. CASE Bridge
  <2>1. /\ InRound \/ stage = "experiment"
        /\ UNCHANGED <<arm, heirs, best, bestRank, rounds, flat, phase>>
        /\ stage' = "done" \/ stage' = AfterPortfolio
    BY <1>10 DEF Bridge, Ready, StageOver, Submit
  <2>2. QED
    BY <2>1 DEF LadderInv, AfterPortfolio, InRound
<1>11. CASE NoExperiment
  BY <1>11, StageMoves DEF NoExperiment
<1>12. CASE BeginRounds
  <2>1. /\ stage = "residual" /\ stage' \in {"round", "done"} /\ phase' = "off"
        /\ UNCHANGED <<arm, heirs, best, bestRank, rounds, flat>>
    BY <1>12 DEF BeginRounds, GiveUp, StageInv
  <2>2. QED
    BY <2>1, StageMoves
<1>13. CASE RoundsOver
  BY <1>13, StageMoves DEF RoundsOver, GiveUp
<1>14. CASE Greedy
  BY <1>14, GreedyCounts
<1>15. CASE UNCHANGED agentVars
  BY <1>15 DEF agentVars, LadderInv
<1>16. QED
  BY <1>1, <1>2, <1>3, <1>4, <1>5, <1>6, <1>7, <1>8, <1>9, <1>10, <1>11, <1>12, <1>13, <1>14,
     <1>15 DEF AgentNext

\* What the agent's types rest on.
BoundsInv == StageInv /\ CircularInv /\ OrderInv /\ WorkInv /\ LadderInv

LEMMA BoundsAreTypes == BoundsInv => AgentTypeOK
<1> SUFFICES ASSUME BoundsInv
             PROVE  AgentTypeOK
  OBVIOUS
<1>1. ProgramTypeOK
  BY DEF BoundsInv, ProgramTypeOK, WorkInv, OrderInv, Most
<1>2. rounds \in 0..MaxRounds /\ flat <= StallLimit
  BY DEF BoundsInv, LadderInv
<1>3. QED
  BY <1>1, <1>2 DEF BoundsInv, AgentTypeOK, StageInv, LadderInv, Kinds

\* For any limits, the agent keeps within them: the candidates of a round, the answers
\* accepted, the states, the passes, the rounds and the flat rounds.
THEOREM AgentTypesCorrect == AgentSpec => []AgentTypeOK
<1>1. AgentInit => BoundsInv
  <2>1. AgentInit => StageInv
    BY DEF AgentInit, RepairInit, ProgramIdle, StageInv, CheckpointIsSubstantive
  <2>2. AgentInit => CircularInv
    BY EmptyIsSeq DEF AgentInit, ProgramIdle, CircularInv
  <2>3. AgentInit => LadderInv
    <3>1. /\ MaxRounds \in Nat \ {0} /\ StallLimit \in Nat \ {0} /\ TopRank \in Nat
          /\ 1 \in Arms /\ "none" \in Kinds
      BY AgentAssumption, RepairAssumption DEF Arms, Kinds
    <3>2. QED
      BY <3>1, NoHeirsYet DEF AgentInit, RepairInit, ProgramIdle, LadderInv
  <2>4. QED
    BY <2>1, <2>2, <2>3, OrderInit, WorkInit DEF BoundsInv
<1>2. BoundsInv /\ [AgentNext]_agentVars => BoundsInv'
  BY StageStep, CircularStep, OrderStep, WorkStep, LadderStep DEF BoundsInv
<1>3. QED
  BY <1>1, <1>2, BoundsAreTypes, PTL DEF AgentSpec

=============================================================================
