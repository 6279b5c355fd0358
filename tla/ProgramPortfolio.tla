-------------------------- MODULE ProgramPortfolio --------------------------
(*****************************************************************************)
(* A problem of several open declarations (experiments_agents/               *)
(* programportfolio.py): answers for the definitions first, in a few         *)
(* alternative states, then the theorems of each state, slot by slot.        *)
(*                                                                           *)
(* An answer is a name.  Some answers are circular: they make a theorem      *)
(* after them hold by unfolding.  The probe of candidate_guard.py finds that *)
(* out unless its Lean check fails.  Each test of the clock may go either    *)
(* way, and a model call that fails proposes nothing.                        *)
(*****************************************************************************)
EXTENDS Integers, Sequences, FiniteSets, Functions

CONSTANTS Challenges,     \* sequences of "def", "numeric", "thm" and "given" (complete)
          Answers,        \* replacements for the hole of a definition
          Circular,       \* those that make a dependent theorem tautological
          Calls,          \* portfolio_calls
          RetryCalls,     \* canonical_retry_calls
          MaxCandidates,  \* max_candidates
          MaxAccepted,    \* max_accepted
          MaxStates,      \* max_definition_states
          Passes          \* theorem_passes

ASSUME ProgramAssumption == /\ Challenges \subseteq Seq({"def", "numeric", "thm", "given"})
                            /\ Circular \subseteq Answers
                            /\ {Calls, MaxCandidates, MaxAccepted, MaxStates, Passes} \subseteq Nat \ {0}
                            /\ RetryCalls \in Nat

VARIABLES
  decls,     \* the declarations of the challenge
  phase,     \* "off", "propose", "check", "slots", "solved" or "failed"
  index,     \* the definition being answered
  states,    \* definition states: the answers chosen so far
  next,      \* next_states
  current,   \* the state being extended, or whose theorems are being proved
  round,     \* of DefinitionPortfolio.solve: "first", "repair" or "canonical"
  cands,     \* candidates left to check
  seen,      \* seen
  accepted,  \* accepted
  failed,    \* some candidate is there to repair
  circular,  \* some candidate was found circular
  unprobed,  \* answers accepted although the probe could not be run (history)
  slots,     \* the theorems proved in this state
  todo,      \* open theorems this pass has not come to
  missed,    \* next_pending
  pass       \* pass_number

definitions == <<round, cands, seen, accepted, failed, circular, unprobed>>
theorems == <<slots, todo, missed, pass>>
programVars == <<phase, index, states, next, current, definitions, theorems>>


Indices == DOMAIN decls
Theorems == {i \in Indices : decls[i] = "thm"}
Given == {i \in Indices : decls[i] = "given"}
Definitions == Indices \ (Theorems \cup Given)

\* Mutant: slots are taken from the end.
FromTheEnd(S) == CHOOSE i \in S : \A j \in S : i >= j

\* Declarations are taken in the challenge's order.
First(S) == CHOOSE i \in S : \A j \in S : i <= j

NoSlots == [i \in {} |-> 0]

-----------------------------------------------------------------------------
(* Texts of candidates. *)

\* parse_definition_candidates: distinct replacements, at most MaxCandidates of a text.
Texts == {t \in UNION {[1..k -> Answers] : k \in 0..MaxCandidates} : IsInjective(t)}

\* The inner loop over one text, a candidate at a time: one not seen is kept, and the loop
\* stops once there are enough.  It stops after a candidate, not before; and a retry passes
\* over what was seen without asking.
TakeOne(before, a, retry) ==
  IF before.full \/ (retry /\ a \in seen \cup Range(before.list)) THEN before
  ELSE LET list == IF a \in Range(before.list) THEN before.list ELSE Append(before.list, a)
       IN  [list |-> list, full |-> Len(list) >= MaxCandidates]

Take(list, text, retry) ==
  LET after[k \in 0..Len(text)] ==
        IF k = 0 THEN [list |-> list, full |-> FALSE] ELSE TakeOne(after[k-1], text[k], retry)
  IN  after[Len(text)].list

\* The candidates of n texts.
Collect(n, retry) ==
  LET lists[k \in 0..n] ==
        IF k = 0 THEN {<<>>} ELSE {Take(list, text, retry) : list \in lists[k-1], text \in Texts}
  IN  lists[n]

-----------------------------------------------------------------------------
(* DefinitionPortfolio.solve for one definition in one state. *)

ProgramIdle ==
  /\ phase = "off" /\ index = 0 /\ states = <<>> /\ next = <<>> /\ current = 1
  /\ round = "first" /\ cands = <<>> /\ seen = {} /\ accepted = <<>>
  /\ failed = FALSE /\ circular = FALSE /\ unprobed = {}
  /\ slots = NoSlots /\ todo = {} /\ missed = {} /\ pass = 1

\* ProgramPortfolioAgent.solve begins.
ProgramStarts ==
  /\ phase = "off"
  /\ phase' = IF Definitions = {} THEN "slots" ELSE "propose"
  /\ index' = IF Definitions = {} THEN 0 ELSE First(Definitions)
  /\ states' = <<[i \in {} |-> 0]>>
  /\ todo' = Theorems
  /\ UNCHANGED <<next, current, definitions, slots, missed, pass>>

\* The first round of candidates, unless time is short.
Propose ==
  /\ phase = "propose"
  /\ \E list \in Collect(Calls, FALSE) :
       /\ cands' = list
       /\ seen' = Range(list)
  /\ phase' = "check"
  /\ round' = "first" /\ accepted' = <<>> /\ failed' = FALSE /\ circular' = FALSE
  /\ UNCHANGED <<index, states, next, current, unprobed, theorems>>

\* How many accepted candidates end a round.
Enough == IF round = "repair" THEN 1 ELSE MaxAccepted
Checking == phase = "check" /\ cands # <<>>
Numeric == decls[index] = "numeric"

\* Lean refuses the candidate, or fails; only the first round keeps one to repair.
CandidateRefused ==
  /\ Checking
  /\ cands' = Tail(cands)
  /\ failed' \in IF round = "first" THEN {failed, TRUE} ELSE {failed}
  /\ UNCHANGED <<phase, index, states, next, current, round, seen, accepted, circular,
                 unprobed, theorems>>

\* definition_is_circular: Lean proves a later theorem by the probe.
CandidateCircular ==
  /\ Checking /\ ~Numeric /\ Head(cands) \in Circular
  /\ cands' = Tail(cands)
  /\ failed' = (failed \/ round = "first")
  /\ circular' = TRUE
  /\ UNCHANGED <<phase, index, states, next, current, round, seen, accepted, unprobed, theorems>>

\* Accepted by Lean, and the probe did not succeed.
CandidateAccepted ==
  /\ Checking
  /\ LET a == Head(cands) IN
     /\ accepted' = Append(accepted, a)
     /\ unprobed' = IF a \in Circular /\ ~Numeric THEN unprobed \cup {<<index, a>>} ELSE unprobed
  /\ cands' = IF Len(accepted) + 1 >= Enough THEN <<>> ELSE Tail(cands)
  /\ UNCHANGED <<phase, index, states, next, current, round, seen, failed, circular, theorems>>

\* No time for the next candidate; the repair round does not ask.
StopChecking ==
  /\ Checking /\ round # "repair"
  /\ cands' = <<>>
  /\ UNCHANGED <<phase, index, states, next, current, round, seen, accepted, failed,
                 circular, unprobed, theorems>>

RoundOver == phase = "check" /\ cands = <<>>

\* Mutant: the repaired answer is not probed.
RepairUnprobed ==
  /\ RoundOver /\ round = "first"
  /\ accepted = <<>> /\ failed /\ ~Numeric
  /\ \E a \in Answers : accepted' = <<a>> /\ seen' = seen \cup {a}
  /\ round' = "repair"
  /\ UNCHANGED <<phase, index, states, next, current, cands, failed, circular, unprobed, theorems>>

\* One call to repair the first candidate that failed.  Its candidates may be old ones.
Repair ==
  /\ RoundOver /\ round = "first"
  /\ accepted = <<>> /\ failed /\ ~Numeric
  /\ \E text \in Texts : cands' = text /\ seen' = seen \cup Range(text)
  /\ round' = "repair"
  /\ UNCHANGED <<phase, index, states, next, current, accepted, failed, circular, unprobed, theorems>>

\* Circular answers only: a last round of candidates never seen before.
CanonicalRetry ==
  /\ RoundOver /\ round # "canonical"
  /\ accepted = <<>> /\ circular /\ ~Numeric /\ RetryCalls > 0
  /\ \E list \in Collect(RetryCalls, TRUE) :
       cands' = list /\ seen' = seen \cup Range(list)
  /\ round' = "canonical"
  /\ UNCHANGED <<phase, index, states, next, current, accepted, failed, circular, unprobed, theorems>>

-----------------------------------------------------------------------------
(* Definition states. *)

\* Mutant: the cap on states is not applied to the answers of one state.
BranchesUncut(list) == next \o [k \in DOMAIN list |-> list[k]]

\* A branch for each accepted answer, until there are enough.
Branches(list) ==
  LET room == IF Len(list) < MaxStates - Len(next) THEN Len(list) ELSE MaxStates - Len(next)
  IN  next \o SubSeq(list, 1, room)

\* The list becomes the states of the next definition, or of the theorems.
StatesDone(list) ==
  LET later == {i \in Definitions : i > index}
  IN  /\ states' = list /\ next' = <<>> /\ current' = 1
      /\ phase' = IF list = <<>> THEN "failed" ELSE IF later # {} THEN "propose" ELSE "slots"
      /\ index' = IF later = {} THEN index ELSE First(later)

\* This state is extended by its answers; then the next one is, or they are done.
Branch ==
  /\ RoundOver
  /\ LET with(a) == [i \in DOMAIN states[current] \cup {index} |->
                       IF i = index THEN a ELSE states[current][i]]
         all     == Branches([k \in DOMAIN accepted |-> with(accepted[k])])
     IN  IF current < Len(states) /\ Len(all) < MaxStates
         THEN /\ next' = all /\ current' = current + 1 /\ phase' = "propose"
              /\ UNCHANGED <<index, states>>
         ELSE StatesDone(all)
  /\ cands' = <<>> /\ accepted' = <<>> /\ seen' = {} /\ failed' = FALSE /\ circular' = FALSE
  /\ round' = "first"
  /\ UNCHANGED <<unprobed, theorems>>

\* No time for the next state: those not extended are dropped.
DefinitionsOutOfTime ==
  /\ phase = "propose"
  /\ StatesDone(next)
  /\ UNCHANGED <<definitions, theorems>>

-----------------------------------------------------------------------------
(* The theorem slots of one state. *)

Slots == phase = "slots" /\ todo # {}

\* The theorem solver proves the slot over all that is solved in this state, wherever it
\* stands in the challenge.
SlotSolved ==
  /\ Slots
  /\ \E uses \in SUBSET (DOMAIN slots \cup Given) :
       LET i == First(todo)
           proof == [answers |-> states[current], uses |-> uses, pass |-> pass]
       IN slots' = [j \in DOMAIN slots \cup {i} |-> IF j = i THEN proof ELSE slots[j]]
  /\ todo' = todo \ {First(todo)}
  /\ UNCHANGED <<phase, index, states, next, current, definitions, missed, pass>>

\* It does not, or there is no time.
SlotMissed ==
  /\ Slots
  /\ missed' = missed \cup {First(todo)}
  /\ todo' = todo \ {First(todo)}
  /\ UNCHANGED <<phase, index, states, next, current, definitions, slots, pass>>

PassOver == phase = "slots" /\ todo = {}
Progress == \E i \in DOMAIN slots : slots[i].pass = pass

\* Another pass over the slots missed, when a sibling was proved.
NextPass ==
  /\ PassOver /\ missed # {} /\ Progress /\ pass < Passes
  /\ todo' = missed /\ missed' = {} /\ pass' = pass + 1
  /\ UNCHANGED <<phase, index, states, next, current, definitions, slots>>

\* Mutant: the next state goes on with what this one proved.
NextStateKeepsSlots ==
  /\ IF current < Len(states)
     THEN /\ current' = current + 1 /\ phase' = "slots"
          /\ todo' = Theorems \ DOMAIN slots
     ELSE phase' = "failed" /\ UNCHANGED <<current, todo>>
  /\ missed' = {} /\ pass' = 1
  /\ UNCHANGED slots

\* The theorems of the next state, from its own definitions.
NextState ==
  /\ IF current < Len(states)
     THEN /\ current' = current + 1 /\ phase' = "slots"
          /\ slots' = NoSlots /\ todo' = Theorems /\ missed' = {} /\ pass' = 1
     ELSE phase' = "failed" /\ UNCHANGED <<current, theorems>>

StateGivenUp ==
  /\ PassOver /\ missed # {}
  /\ NextState
  /\ UNCHANGED <<index, states, next, definitions>>

\* All slots proved: Lean checks the program, in the challenge's order.  A declaration
\* cannot use a later one.
InOrder == \A i \in DOMAIN slots : \A j \in slots[i].uses : j < i

Assemble ==
  /\ PassOver /\ missed = {}
  /\ \/ InOrder /\ phase' = "solved" /\ UNCHANGED <<current, theorems>>
     \/ NextState
  /\ UNCHANGED <<index, states, next, definitions>>

ProgramStep ==
  \/ Propose \/ CandidateRefused \/ CandidateCircular \/ CandidateAccepted \/ StopChecking
  \/ Repair \/ CanonicalRetry \/ Branch \/ DefinitionsOutOfTime
  \/ SlotSolved \/ SlotMissed \/ NextPass \/ StateGivenUp \/ Assemble

\* What the program that was accepted is worth.
ProgramKind ==
  IF \E i \in DOMAIN states[current] : states[current][i] \in Circular /\ decls[i] # "numeric"
  THEN "circular" ELSE "sound"

\* The caller has taken the result.
ProgramForgotten ==
  /\ phase \in {"solved", "failed"}
  /\ phase' = "off" /\ index' = 0 /\ states' = <<>> /\ next' = <<>> /\ current' = 1
  /\ round' = "first" /\ cands' = <<>> /\ seen' = {} /\ accepted' = <<>>
  /\ failed' = FALSE /\ circular' = FALSE /\ unprobed' = {}
  /\ slots' = NoSlots /\ todo' = {} /\ missed' = {} /\ pass' = 1

-----------------------------------------------------------------------------
(* Properties. *)

\* The work is bounded: max_candidates is passed by at most one candidate for each
\* further call, and the states by none.
ProgramTypeOK ==
  /\ phase \in {"off", "propose", "check", "slots", "solved", "failed"}
  /\ Len(cands) <= CASE round = "first"  -> MaxCandidates + Calls - 1
                      [] round = "repair" -> MaxCandidates
                      [] OTHER            -> MaxCandidates + RetryCalls - 1
  /\ Len(accepted) <= MaxAccepted
  /\ Len(states) <= MaxStates /\ Len(next) <= MaxStates
  /\ current \in 1..Len(states) \/ phase \in {"off", "failed"}
  /\ pass \in 1..Passes
  /\ todo \cap (missed \cup DOMAIN slots) = {}

\* A circular answer gets into a state only where the probe itself failed, in whichever
\* of the three rounds it was accepted.
CircularOnlyUnprobed ==
  \A k \in DOMAIN states : \A i \in DOMAIN states[k] :
    states[k][i] \in Circular /\ decls[i] # "numeric" => <<i, states[k][i]>> \in unprobed

\* What is proved in one state rests on the answers of that state.
SlotsFitTheirState ==
  \A i \in DOMAIN slots : slots[i].answers = states[current]

\* A slot that cannot stand in the challenge's order rests on a given declaration after it
\* or was proved on a later pass; so a program whose slots all came on the first pass, with
\* no given declaration after a hole, assembles.
OrderLostOnRetryOnly ==
  \A i \in DOMAIN slots : \A j \in slots[i].uses :
    j > i => decls[j] = "given" \/ slots[i].pass > slots[j].pass

=============================================================================
