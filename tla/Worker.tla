-------------------------------- MODULE Worker --------------------------------
(***************************************************************************)
(* One problem's worker, re_harness/worker.py: the agent solves under a     *)
(* deadline with the LLM client of module LLMClient, whatever is on disk    *)
(* when it is over goes to the Comparator, and the verdict is combined with *)
(* the state of the ledger at that moment.                                  *)
(*                                                                          *)
(* The Comparator runs in a thread, so the event loop is free meanwhile: a  *)
(* task the agent left running (a sibling in a gather() whose first         *)
(* exception ended it) goes on calling the provider and checkpointing.      *)
(***************************************************************************)
EXTENDS LLMClient

VARIABLES
  work,        \* where _run is
  outcome,     \* status, until the grading
  badMeta,     \* agent_metadata cannot be written as JSON
  stragglers,  \* the agent left tasks running behind it
  solution,    \* solution.lean
  submitted,   \* the source the Comparator was given
  status,      \* status, from the grading on
  passed,      \* passed
  result       \* result.json: "none", "passed" or "not passed"

workerVars == <<work, outcome, badMeta, stragglers, solution, submitted, status,
                passed, result>>
allVars == <<vars, workerVars>>

WorkerInit ==
  /\ Init
  /\ work = "solving"
  /\ outcome = "failed"
  /\ badMeta = FALSE
  /\ stragglers = FALSE
  /\ solution = "none"
  /\ submitted = "none"
  /\ status = "none"
  /\ passed = FALSE
  /\ result = "none"

\* solve() has not ended: a cancelled agent may catch its cancellation and go on.
InSolve == work \in {"solving", "cancelling"}

\* Agent code runs: in solve(), and in tasks it left behind until the last await
\* of _run.
AgentRuns ==
  /\ alive
  /\ InSolve \/ (stragglers /\ work \in {"collected", "verifying"})

\* solve() is over.  Calls still in flight are those of tasks it left behind.
LeavesTasks ==
  /\ stragglers' \in BOOLEAN
  /\ ~stragglers' => \A c \in Calls : pc[c] # "posted"

-----------------------------------------------------------------------------
(* The agent. *)

\* A step of one of its calls.
Call(c) ==
  /\ AgentRuns
  /\ ClientStep(c)
  /\ UNCHANGED workerVars

\* Mutant: the agent checkpoints until the process exits.
CheckpointAnytime(source) ==
  /\ alive
  /\ solution' = source
  /\ UNCHANGED <<vars, work, outcome, badMeta, stragglers, submitted, status, passed, result>>

\* services.checkpoint with metadata that is JSON.
Checkpoint(source) ==
  /\ AgentRuns
  /\ solution' = source
  /\ UNCHANGED <<vars, work, outcome, badMeta, stragglers, submitted, status, passed, result>>

\* It returns a solution, even when cancelled, which is checkpointed, unless its
\* metadata is not JSON: agent_metadata holds it by then, and the check's
\* exception is the agent's error.
Return(source) ==
  /\ alive /\ InSolve
  /\ LeavesTasks
  /\ work' = "collected"
  /\ \/ /\ outcome' = "completed"
        /\ solution' = source
        /\ UNCHANGED badMeta
     \/ /\ outcome' = "harness_error"
        /\ badMeta' = TRUE
        /\ UNCHANGED solution
  /\ UNCHANGED <<vars, submitted, status, passed, result>>

\* It raises, or returns something that is not a solution.
Fail ==
  /\ alive /\ InSolve
  /\ LeavesTasks
  /\ work' = "collected"
  /\ outcome' = "harness_error"
  /\ UNCHANGED <<vars, badMeta, solution, submitted, status, passed, result>>

\* wait_for runs out and cancels it.
TimeOut ==
  /\ alive /\ work = "solving"
  /\ work' = "cancelling"
  /\ UNCHANGED <<vars, outcome, badMeta, stragglers, solution, submitted, status, passed, result>>

\* Mutant: a cancelled call hands its reservation back.
CancelReleases(c) ==
  /\ work = "cancelling"
  /\ alive /\ pc[c] = "posted"
  /\ Release(c)
  /\ Move(c, "released")
  /\ Emit(c, "free")
  /\ UNCHANGED <<asked, net, billed, alive, recovered, workerVars>>

\* The cancellation reaches a call that waits for the provider.
Cancel(c) ==
  /\ work = "cancelling"
  /\ Interrupted(c)
  /\ UNCHANGED workerVars

\* wait_for raises TimeoutError once the task ended by its cancellation.
Cancelled ==
  /\ alive /\ work = "cancelling"
  /\ LeavesTasks
  /\ work' = "collected"
  /\ outcome' = "agent_timeout"
  /\ UNCHANGED <<vars, badMeta, solution, submitted, status, passed, result>>

-----------------------------------------------------------------------------
(* Grading. *)

\* The challenge stands in for a missing solution; the source is read once.
Submit ==
  /\ alive /\ work = "collected"
  /\ solution' = IF solution = "none" THEN "challenge" ELSE solution
  /\ submitted' = solution'
  /\ work' = "verifying"
  /\ UNCHANGED <<vars, outcome, badMeta, stragglers, status, passed, result>>

\* Mutant: a completed attempt without a point keeps the agent's status.
StatusKept(point, inTime, raised) ==
  CASE spent > Limit -> "over_budget"
    [] spent <= Limit /\ ~complete -> "cost_unknown"
    [] spent <= Limit /\ complete /\ ~inTime -> "timed_out"
    [] OTHER -> IF point THEN "passed" ELSE outcome

\* The statuses in the order worker._run asks for them.
StatusFor(point, inTime, raised) ==
  CASE spent > Limit -> "over_budget"
    [] spent <= Limit /\ ~complete -> "cost_unknown"
    [] spent <= Limit /\ complete /\ ~inTime -> "timed_out"
    [] OTHER ->
         IF point THEN "passed"
         ELSE IF outcome # "completed" THEN outcome
         ELSE IF raised THEN "harness_error" ELSE "failed"

\* Mutant: reservations still held do not count (as evaluator._rescore_one).
GradeIgnoringHeld ==
  /\ alive /\ work = "verifying"
  /\ \E accepted \in BOOLEAN :
       /\ accepted => submitted = "proof"
       /\ passed' = (accepted /\ complete /\ spent <= Limit)
       /\ status' = IF passed' THEN "passed" ELSE "failed"
  /\ work' = "graded"
  /\ UNCHANGED <<vars, outcome, badMeta, stragglers, solution, submitted, result>>

\* The Comparator's verdict is in (or it raised), the client is closed, and the
\* snapshot of the ledger is taken with no await in between; the verdict is
\* logged as problem_finished.
Grade ==
  /\ alive /\ work = "verifying"
  /\ \E accepted, inTime, answerOk, raised \in BOOLEAN :
       /\ accepted => submitted = "proof" /\ ~raised
       /\ LET point == accepted /\ answerOk /\ WithinLimit /\ inTime
          IN /\ passed' = point
             /\ status' = StatusFor(point, inTime, raised)
  /\ work' = "graded"
  /\ UNCHANGED <<vars, outcome, badMeta, stragglers, solution, submitted, result>>

\* result.json, then the transcript and the end of the process; metadata that
\* is not JSON makes the write raise instead.
Record ==
  /\ alive /\ work = "graded"
  /\ IF badMeta
     THEN UNCHANGED result
     ELSE result' = IF passed THEN "passed" ELSE "not passed"
  /\ work' = "exited"
  /\ UNCHANGED <<vars, outcome, badMeta, stragglers, solution, submitted, status, passed>>

-----------------------------------------------------------------------------
(* Rescoring, once the process has exited.  The books in result.json are the *)
(* ledger's last, which nothing changes any more.                            *)

\* Mutant: a result whose accounting is incomplete can get a point.
BudgetOkUnlessOver == result # "none" /\ spent <= Limit

\* budget_ok: the ledger was closed with every bill known, within the limit.  The
\* reservations then held are not asked for; a result that is not there has no books.
BudgetOk == result # "none" /\ complete /\ spent <= Limit

\* evaluator._rescore_one: the Comparator judges what is on disk once more, and the books
\* and the time are the recorded ones.
Rescore ==
  /\ alive /\ work = "exited"
  /\ \E accepted, answerOk, inTime \in BOOLEAN :
       /\ accepted => solution = "proof"
       /\ IF passed THEN inTime ELSE inTime => status # "timed_out"
       /\ result' = IF accepted /\ answerOk /\ BudgetOk /\ inTime THEN "passed" ELSE "not passed"
  /\ UNCHANGED <<vars, work, outcome, badMeta, stragglers, solution, submitted, status, passed>>

WorkerNext ==
  \/ \E c \in Calls : Call(c) \/ Cancel(c)
  \/ \E c \in Calls : Serve(c) /\ UNCHANGED workerVars
  \/ work # "exited" /\ KillAndRecover /\ UNCHANGED workerVars
  \/ \E source \in {"candidate", "proof"} : Checkpoint(source) \/ Return(source)
  \/ Fail \/ TimeOut \/ Cancelled
  \/ Submit \/ Grade \/ Record \/ Rescore

WorkerSpec == WorkerInit /\ [][WorkerNext]_allVars

-----------------------------------------------------------------------------
(* Properties. *)

WorkerTypeOK ==
  /\ TypeOK
  /\ work \in {"solving", "cancelling", "collected", "verifying", "graded", "exited"}
  /\ outcome \in {"failed", "completed", "agent_timeout", "harness_error"}
  /\ badMeta \in BOOLEAN
  /\ stragglers \in BOOLEAN
  /\ solution \in {"none", "challenge", "candidate", "proof"}
  /\ submitted \in {"none", "challenge", "candidate", "proof"}
  /\ status \in {"none", "passed", "failed", "agent_timeout", "timed_out", "over_budget",
                 "cost_unknown", "harness_error"}
  /\ passed \in BOOLEAN
  /\ result \in {"none", "passed", "not passed"}

\* RULES.md:34-42: a point once given stands.  The provider's total for the
\* problem is the ledger's, within the limit, and stays so: no call of this
\* worker, cancelled, left behind or never answered, can still be billed.
PointsStayWithinLimit ==
  passed => TrueSpend = spent /\ TrueSpend <= Limit

\* RULES.md:32-33: a point is for the solution.lean that is on disk, although
\* the agent may be cut off at any moment, as long as it left no task behind.
PointsAreForSolution == passed /\ ~stragglers => solution = "proof"

\* The same of a point that a rescore gives, as long as no call was out when the
\* process ended: only then can a rescored point turn out to have cost more than the
\* limit, which the grading itself refuses.
RescoredOverrunWasHeld ==
  result = "passed" /\ TrueSpend > Limit => Held # 0 /\ ~passed

\* A deadline, a straggler or the grading never does to the ledger what a call
\* would not do by itself: seen from the client, the worker is Spec, so all that
\* holds of the client holds in the worker.
DrivesClient == Spec
=============================================================================
