----------------------------- MODULE WorkerProofs -----------------------------
(***************************************************************************)
(* What holds of every worker.  The worker drives its client by the         *)
(* client's own steps (DrivesTheClient), so the theorems of LLMClientProofs *)
(* carry over; from the truth of a ledger found within its limit follows    *)
(* that a point given never turns out to have been over budget.             *)
(***************************************************************************)
EXTENDS Worker, LLMClientProofs

\* Seen from the client, a worker behaves as module LLMClient says: deadlines,
\* stragglers and grading add no step to the ledger, the calls or the log.
THEOREM DrivesTheClient == WorkerSpec => DrivesClient
<1>1. WorkerInit => Init
  BY DEF WorkerInit
<1>2. [WorkerNext]_allVars => [Next]_vars
  <2> SUFFICES ASSUME [WorkerNext]_allVars
               PROVE  Next \/ UNCHANGED vars
    OBVIOUS
  <2>1. ASSUME NEW c \in Calls, Call(c)
        PROVE  Next
    BY <2>1 DEF Call, Next
  <2>2. ASSUME NEW c \in Calls, Cancel(c)
        PROVE  Next
    BY <2>2 DEF Cancel, Next, ClientStep
  <2>3. ASSUME NEW c \in Calls, Serve(c)
        PROVE  Next
    BY <2>3 DEF Next
  <2>4. ASSUME KillAndRecover
        PROVE  Next
    BY <2>4 DEF Next
  <2>5. ASSUME NEW source \in {"candidate", "proof"}, Checkpoint(source) \/ Return(source)
        PROVE  UNCHANGED vars
    BY <2>5 DEF Checkpoint, Return
  <2>6. ASSUME Fail \/ TimeOut \/ Cancelled \/ Submit \/ Grade \/ Record \/ Rescore
        PROVE  UNCHANGED vars
    BY <2>6 DEF Fail, TimeOut, Cancelled, Submit, Grade, Record, Rescore
  <2>7. CASE UNCHANGED allVars
    BY <2>7 DEF allVars
  <2>8. QED
    BY <2>1, <2>2, <2>3, <2>4, <2>5, <2>6, <2>7 DEF WorkerNext
<1>3. QED
  BY <1>1, <1>2, PTL DEF WorkerSpec, DrivesClient, Spec

-----------------------------------------------------------------------------
(* The strengthening: once a point is given the ledger is within its limit  *)
(* and the worker past the last step that could change that.                *)

Settled == passed => WithinLimit /\ work \in {"graded", "exited"}

LEMMA PointsAreGivenOnce == WorkerSpec => []Settled
<1>1. WorkerInit => Settled
  BY DEF WorkerInit, Settled
<1>2. Settled /\ [WorkerNext]_allVars => Settled'
  <2> SUFFICES ASSUME Settled, [WorkerNext]_allVars
               PROVE  Settled'
    OBVIOUS
  <2> DEFINE Still == UNCHANGED <<spent, reservations, complete, work, passed>>
  <2>0. Still => Settled'
    BY DEF Settled, WithinLimit, Held
  <2>1. ASSUME NEW c \in Calls, Call(c) \/ Cancel(c)
        PROVE  Settled'
    BY <2>1 DEF Call, Cancel, AgentRuns, InSolve, workerVars, Settled
  <2>2. ASSUME NEW c \in Calls, Serve(c), UNCHANGED workerVars
        PROVE  Settled'
    BY <2>0, <2>2 DEF Serve, ledgerVars, workerVars
  <2>3. ASSUME KillAndRecover, UNCHANGED workerVars
        PROVE  Settled'
    BY <2>0, <2>3 DEF KillAndRecover, ledgerVars, workerVars
  <2>4. ASSUME NEW source \in {"candidate", "proof"}, Checkpoint(source)
        PROVE  Settled'
    BY <2>0, <2>4 DEF Checkpoint, vars
  <2>5. ASSUME NEW source \in {"candidate", "proof"}, Return(source)
        PROVE  Settled'
    BY <2>5 DEF Return, InSolve, Settled
  <2>6. ASSUME Fail \/ TimeOut \/ Cancelled \/ Submit
        PROVE  Settled'
    BY <2>6 DEF Fail, TimeOut, Cancelled, Submit, InSolve, Settled
  <2>7. ASSUME Grade
        PROVE  Settled'
    <3>1. /\ passed' => WithinLimit
          /\ work' = "graded"
          /\ UNCHANGED vars
      BY <2>7 DEF Grade
    <3>2. QED
      BY <3>1 DEF Settled, WithinLimit, Held, vars
  <2>8. ASSUME Record \/ Rescore
        PROVE  Settled'
    <3>1. /\ UNCHANGED <<vars, passed>>
          /\ work' \in {work, "exited"}
      BY <2>8 DEF Record, Rescore
    <3>2. QED
      BY <3>1 DEF Settled, WithinLimit, Held, vars
  <2>9. CASE UNCHANGED allVars
    BY <2>0, <2>9 DEF allVars, vars, workerVars
  <2>10. QED
    BY <2>1, <2>2, <2>3, <2>4, <2>5, <2>6, <2>7, <2>8, <2>9 DEF WorkerNext
<1>3. QED
  BY <1>1, <1>2, PTL DEF WorkerSpec

\* A point once given stands: the provider's total is what the ledger booked,
\* within the limit, and no call of the worker can raise it any more; for any
\* number of calls, any bills, and whatever tasks the agent left running.
THEOREM PointsKeepTheLimit == WorkerSpec => []PointsStayWithinLimit
<1>1. WithinLimitIsTruthful /\ Settled => PointsStayWithinLimit
  BY DEF WithinLimitIsTruthful, Settled, PointsStayWithinLimit
<1>2. QED
  BY <1>1, DrivesTheClient, GradedSpendIsTheProviders, PointsAreGivenOnce, PTL
     DEF DrivesClient

\* What a point in result.json was given on, by the grading or by a rescore: the books of
\* a process that has exited.
RecordedBooks ==
  result = "passed" => work = "exited" /\ complete /\ spent <= Limit

LEMMA PointsHaveBooks == WorkerSpec => []RecordedBooks
<1>1. WorkerInit => RecordedBooks
  BY DEF WorkerInit, RecordedBooks
<1>2. Settled /\ RecordedBooks /\ [WorkerNext]_allVars => RecordedBooks'
  <2> SUFFICES ASSUME Settled, RecordedBooks, [WorkerNext]_allVars
               PROVE  RecordedBooks'
    OBVIOUS
  <2>0. ASSUME UNCHANGED <<spent, complete, result>>, work' = work
        PROVE  RecordedBooks'
    BY <2>0 DEF RecordedBooks
  <2>1. ASSUME NEW c \in Calls, Call(c) \/ Cancel(c)
        PROVE  RecordedBooks'
    <3>1. work # "exited" /\ UNCHANGED workerVars
      BY <2>1 DEF Call, Cancel, AgentRuns, InSolve
    <3>2. QED
      BY <3>1 DEF workerVars, RecordedBooks
  <2>2. ASSUME NEW c \in Calls, Serve(c), UNCHANGED workerVars
        PROVE  RecordedBooks'
    BY <2>0, <2>2 DEF Serve, ledgerVars, workerVars
  <2>3. ASSUME KillAndRecover, UNCHANGED workerVars
        PROVE  RecordedBooks'
    BY <2>0, <2>3 DEF KillAndRecover, ledgerVars, workerVars
  <2>4. ASSUME NEW source \in {"candidate", "proof"}, Checkpoint(source)
        PROVE  RecordedBooks'
    BY <2>0, <2>4 DEF Checkpoint, vars, ledgerVars
  <2>5. ASSUME \/ \E source \in {"candidate", "proof"} : Return(source)
               \/ Fail \/ TimeOut \/ Cancelled \/ Submit \/ Grade
        PROVE  RecordedBooks'
    <3>1. work # "exited" /\ result' = result
      BY <2>5 DEF Return, Fail, TimeOut, Cancelled, Submit, Grade, InSolve
    <3>2. QED
      BY <3>1 DEF RecordedBooks
  <2>6. ASSUME Record
        PROVE  RecordedBooks'
    <3>1. /\ work = "graded" /\ work' = "exited"
          /\ result' = "passed" => passed \/ result = "passed"
          /\ UNCHANGED <<spent, complete>>
      BY <2>6 DEF Record, vars, ledgerVars
    <3>2. QED
      BY <3>1 DEF RecordedBooks, Settled, WithinLimit
  <2>7. ASSUME Rescore
        PROVE  RecordedBooks'
    <3>1. /\ work = "exited" /\ work' = "exited"
          /\ result' = "passed" => BudgetOk
          /\ UNCHANGED <<spent, complete>>
      BY <2>7 DEF Rescore, vars, ledgerVars
    <3>2. QED
      BY <3>1 DEF RecordedBooks, BudgetOk
  <2>8. CASE UNCHANGED allVars
    BY <2>0, <2>8 DEF allVars, vars, workerVars, ledgerVars
  <2>9. QED
    BY <2>1, <2>2, <2>3, <2>4, <2>5, <2>6, <2>7, <2>8 DEF WorkerNext
<1>3. QED
  BY <1>1, <1>2, PointsAreGivenOnce, PTL DEF WorkerSpec

\* A rescored point that cost more than the limit was given while a call was out; with
\* none out, a rescore keeps the limit as the grading does.
THEOREM RescoredPointsKeepTheLimit == WorkerSpec => []RescoredOverrunWasHeld
<1>1. WithinLimitIsTruthful /\ RecordedBooks /\ PointsStayWithinLimit /\ TypeOK
        => RescoredOverrunWasHeld
  <2> SUFFICES ASSUME WithinLimitIsTruthful, RecordedBooks, PointsStayWithinLimit, TypeOK,
                      result = "passed", TrueSpend > Limit
               PROVE  Held # 0 /\ ~passed
    BY DEF RescoredOverrunWasHeld
  <2>1. ~(TrueSpend <= Limit)
    <3>1. billed \in [1..NumCalls -> Int] /\ NumCalls \in Nat /\ Limit \in Nat
      BY LedgerAssumption DEF TypeOK, Calls
    <3>2. TrueSpend \in Int
      BY <3>1, TotalType DEF TrueSpend
    <3>3. QED
      BY <3>1, <3>2
  <2>2. ~WithinLimit /\ ~passed
    BY <2>1 DEF WithinLimitIsTruthful, PointsStayWithinLimit
  <2>3. QED
    BY <2>2 DEF WithinLimit, RecordedBooks
<1>2. QED
  BY <1>1, DrivesTheClient, GradedSpendIsTheProviders, TypeCorrect, PointsHaveBooks,
     PointsKeepTheLimit, PTL DEF DrivesClient

-----------------------------------------------------------------------------
(* The point and the file.                                                  *)

\* From the submission on, with no task left behind, the file is the one the
\* Comparator was given, and a point is for a proof it accepted.
FileIsSubmitted ==
  /\ work \in {"verifying", "graded", "exited"} /\ ~stragglers => solution = submitted
  /\ passed => work \in {"graded", "exited"} /\ submitted = "proof"

\* If the agent leaves no task behind, a point is for the solution.lean on disk,
\* wherever the deadline cut the agent off.
THEOREM PointsMatchTheFile == WorkerSpec => []PointsAreForSolution
<1>1. WorkerInit => FileIsSubmitted
  BY DEF WorkerInit, FileIsSubmitted
<1>2. FileIsSubmitted /\ [WorkerNext]_allVars => FileIsSubmitted'
  <2> SUFFICES ASSUME FileIsSubmitted, [WorkerNext]_allVars
               PROVE  FileIsSubmitted'
    OBVIOUS
  <2> USE DEF FileIsSubmitted
  <2>1. CASE UNCHANGED workerVars
    BY <2>1 DEF workerVars
  <2>2. ASSUME NEW source \in {"candidate", "proof"}, Checkpoint(source) \/ Return(source)
        PROVE  FileIsSubmitted'
    BY <2>2 DEF Checkpoint, Return, AgentRuns, InSolve
  <2>3. ASSUME Fail \/ TimeOut \/ Cancelled \/ Submit
        PROVE  FileIsSubmitted'
    BY <2>3 DEF Fail, TimeOut, Cancelled, Submit, LeavesTasks, InSolve
  <2>4. ASSUME Grade
        PROVE  FileIsSubmitted'
    BY <2>4 DEF Grade
  <2>5. ASSUME Record \/ Rescore
        PROVE  FileIsSubmitted'
    <3>1. /\ work \in {"graded", "exited"} /\ work' \in {"graded", "exited"}
          /\ UNCHANGED <<stragglers, solution, submitted, passed>>
      BY <2>5 DEF Record, Rescore
    <3>2. QED
      BY <3>1
  <2>6. QED
    BY <2>1, <2>2, <2>3, <2>4, <2>5 DEF WorkerNext, Call, Cancel, allVars
<1>3. FileIsSubmitted => PointsAreForSolution
  BY DEF FileIsSubmitted, PointsAreForSolution
<1>4. QED
  BY <1>1, <1>2, <1>3, PTL DEF WorkerSpec

-----------------------------------------------------------------------------
(* The worker's types.                                                      *)

\* The worker's own part of them.
WorkTypes ==
  /\ work \in {"solving", "cancelling", "collected", "verifying", "graded", "exited"}
  /\ outcome \in {"failed", "completed", "agent_timeout", "harness_error"}
  /\ badMeta \in BOOLEAN
  /\ stragglers \in BOOLEAN
  /\ solution \in {"none", "challenge", "candidate", "proof"}
  /\ submitted \in {"none", "challenge", "candidate", "proof"}
  /\ status \in {"none", "passed", "failed", "agent_timeout", "timed_out", "over_budget",
                 "cost_unknown", "harness_error"}
  /\ passed \in BOOLEAN
  /\ result \in {"none", "passed", "not passed"}

\* The client's variables keep their types in the worker, and whatever cuts the agent off,
\* the worker's statuses are those its result may carry.
THEOREM WorkerTypesCorrect == WorkerSpec => []WorkerTypeOK
<1>1. WorkerInit => WorkTypes
  BY DEF WorkerInit, WorkTypes
<1>2. WorkTypes /\ [WorkerNext]_allVars => WorkTypes'
  <2> SUFFICES ASSUME WorkTypes, [WorkerNext]_allVars
               PROVE  WorkTypes'
    OBVIOUS
  <2> USE DEF WorkTypes
  <2>1. ASSUME UNCHANGED workerVars
        PROVE  WorkTypes'
    <3>1. /\ work' = work /\ outcome' = outcome /\ badMeta' = badMeta
          /\ stragglers' = stragglers /\ solution' = solution /\ submitted' = submitted
          /\ status' = status /\ passed' = passed /\ result' = result
      BY <2>1 DEF workerVars
    <3>2. /\ work' \in {"solving", "cancelling", "collected", "verifying", "graded", "exited"}
          /\ outcome' \in {"failed", "completed", "agent_timeout", "harness_error"}
          /\ solution' \in {"none", "challenge", "candidate", "proof"}
          /\ submitted' \in {"none", "challenge", "candidate", "proof"}
          /\ result' \in {"none", "passed", "not passed"}
      BY <3>1
    <3>3. badMeta' \in BOOLEAN /\ stragglers' \in BOOLEAN /\ passed' \in BOOLEAN
      BY <3>1
    <3>4. status' \in {"none", "passed", "failed", "agent_timeout", "timed_out",
                       "over_budget", "cost_unknown", "harness_error"}
      BY <3>1
    <3>5. QED
      BY <3>2, <3>3, <3>4, Zenon
  <2>2. ASSUME NEW c \in Calls, Cancel(c)
        PROVE  WorkTypes'
    BY <2>1, <2>2 DEF Cancel
  <2>3. ASSUME NEW source \in {"candidate", "proof"}, Checkpoint(source) \/ Return(source)
        PROVE  WorkTypes'
    BY <2>3 DEF Checkpoint, Return, LeavesTasks
  <2>4. ASSUME Fail \/ TimeOut \/ Cancelled \/ Submit
        PROVE  WorkTypes'
    BY <2>4 DEF Fail, TimeOut, Cancelled, Submit, LeavesTasks
  <2>5. ASSUME Grade
        PROVE  WorkTypes'
    <3>1. PICK accepted, inTime, answerOk, raised \in BOOLEAN :
            LET point == accepted /\ answerOk /\ WithinLimit /\ inTime
            IN  passed' = point /\ status' = StatusFor(point, inTime, raised)
      BY <2>5 DEF Grade
    <3>2. passed' \in BOOLEAN
      BY <3>1 DEF WithinLimit
    <3>3. status' \in {"passed", "failed", "agent_timeout", "timed_out", "over_budget",
                       "cost_unknown", "harness_error"}
      BY <3>1 DEF StatusFor
    <3>4. /\ work' = "graded" /\ outcome' = outcome /\ badMeta' = badMeta
          /\ stragglers' = stragglers /\ solution' = solution /\ submitted' = submitted
          /\ result' = result
      BY <2>5 DEF Grade
    <3>5. QED
      BY <3>2, <3>3, <3>4, Zenon
  <2>6. ASSUME Record \/ Rescore
        PROVE  WorkTypes'
    BY <2>6 DEF Record, Rescore
  <2>7. QED
    BY <2>1, <2>2, <2>3, <2>4, <2>5, <2>6 DEF WorkerNext, Call, allVars
<1>3. TypeOK /\ WorkTypes => WorkerTypeOK
  BY DEF WorkTypes, WorkerTypeOK
<1>4. QED
  BY <1>1, <1>2, <1>3, DrivesTheClient, TypeCorrect, PTL DEF WorkerSpec, DrivesClient
=============================================================================
