-------------------------------- MODULE Runner --------------------------------
(***************************************************************************)
(* The outer scheduler of re_harness/runner.py, the worker processes it     *)
(* launches (re_harness/worker.py, seen from outside: its process and the   *)
(* files it leaves), and the problem directories they share.                *)
(*                                                                          *)
(* A run launches the problems in order, NWorkers at a time, each in its    *)
(* own directory emptied first; polls the processes; kills the one past its *)
(* deadline and writes a result in its place; and finally aggregates the    *)
(* results.  A signal stops a run and its workers; --resume starts another  *)
(* over the same directories and skips what already has a result.  A worker *)
(* is named by its problem and by the run that launched it.                 *)
(***************************************************************************)
EXTENDS Integers, FiniteSets

CONSTANTS
  NumProblems,
  NWorkers,     \* --n-workers
  MaxRuns,      \* the first run and its resumptions (bound of the model)
  Abandons      \* TRUE: the runner of the last run may die and leave workers running

ASSUME RunnerAssumption ==
  /\ NumProblems \in Nat \ {0}
  /\ NWorkers \in Nat \ {0}
  /\ MaxRuns \in Nat \ {0}
  /\ Abandons \in BOOLEAN

Problems == 1..NumProblems
Workers == Problems \X (1..MaxRuns)
ProblemOf(w) == w[1]
Nobody == <<0, 0>>

VARIABLES
  run,         \* runs started so far; the last is the current one
  phase,       \* where the runner is
  hand,        \* the worker it is launching, killing or recovering
  pending,     \* problems still to launch
  running,     \* workers it knows of: running, and _ACTIVE_WORKERS
  proc,        \* stage of each worker process
  overdue,     \* workers past the runner's deadline
  passes,      \* workers whose grading came out passed
  solution,    \* solution.lean of each problem
  torn,        \* problems whose events.jsonl a killed writer left undecodable
  result,      \* result.json of each problem
  transcript,  \* problems with a transcript.json
  summary      \* problems with a point in summary.json

vars == <<run, phase, hand, pending, running, proc, overdue, passes,
          solution, torn, result, transcript, summary>>
control == <<run, phase, hand, pending, running>>
files == <<solution, torn, result, transcript>>

NoResult == [by |-> Nobody, status |-> "none", passed |-> FALSE]
Verdict(w, status, passed) == [by |-> w, status |-> status, passed |-> passed]

Init ==
  /\ run = 0
  /\ phase = "off"
  /\ hand = Nobody
  /\ pending = {}
  /\ running = {}
  /\ proc = [w \in Workers |-> "none"]
  /\ overdue = {}
  /\ passes = {}
  /\ solution = [p \in Problems |-> "none"]
  /\ torn = {}
  /\ result = [p \in Problems |-> NoResult]
  /\ transcript = {}
  /\ summary = {}

\* A process that has not exited.
Alive(w) == proc[w] \in {"solving", "graded", "recorded"}

\* The processes in ws are killed; a kill may cut the line that is being written
\* inside a multi-byte character, and the log can then not be decoded.  (A line
\* cut elsewhere is skipped by read_events: module EventLog.)
Kill(ws) ==
  LET dying == {w \in ws : Alive(w)}
  IN /\ proc' = [w \in Workers |-> IF w \in dying THEN "dead" ELSE proc[w]]
     /\ \E cut \in SUBSET {ProblemOf(w) : w \in dying} : torn' = torn \cup cut

-----------------------------------------------------------------------------
(* The worker process, between its start and its exit. *)

\* Mutant: a task the agent left behind checkpoints while the Comparator runs.
CheckpointLate(w, source) ==
  /\ proc[w] \in {"solving", "graded"}
  /\ solution' = [solution EXCEPT ![ProblemOf(w)] = source]
  /\ UNCHANGED <<control, proc, overdue, passes, torn, result, transcript, summary>>

\* services.checkpoint, called by the agent or with its result: a candidate the
\* Comparator will reject or one it will accept.
Checkpoint(w, source) ==
  /\ proc[w] = "solving"
  /\ solution' = [solution EXCEPT ![ProblemOf(w)] = source]
  /\ UNCHANGED <<control, proc, overdue, passes, torn, result, transcript, summary>>

\* The agent is over: what is on disk (the challenge if nothing is) goes to the
\* Comparator; budget, time and answer shape can only take the point away.
Grade(w) ==
  LET p == ProblemOf(w) IN
  /\ proc[w] = "solving"
  /\ solution' = [solution EXCEPT ![p] = IF @ = "none" THEN "challenge" ELSE @]
  /\ \/ passes' = passes
     \/ solution[p] = "proof" /\ passes' = passes \cup {w}
  /\ proc' = [proc EXCEPT ![w] = IF p \in torn THEN "dead" ELSE "graded"]
  /\ UNCHANGED <<control, overdue, torn, result, transcript, summary>>

\* problem_finished is logged, then result.json; or it cannot be written (an AgentResult.metadata that failed
\* its own check is still in agent_metadata), and the worker exits with 1.
Record(w) ==
  /\ proc[w] = "graded"
  /\ \/ /\ proc' = [proc EXCEPT ![w] = "recorded"]
        /\ result' = [result EXCEPT ![ProblemOf(w)] =
             Verdict(w, IF w \in passes THEN "passed" ELSE "failed", w \in passes)]
     \/ /\ proc' = [proc EXCEPT ![w] = "dead"]
        /\ UNCHANGED result
  /\ UNCHANGED <<control, overdue, passes, solution, torn, transcript, summary>>

\* transcript.json, and exit with 0.
Transcribe(w) ==
  LET p == ProblemOf(w) IN
  /\ proc[w] = "recorded"
  /\ IF p \in torn
     THEN /\ proc' = [proc EXCEPT ![w] = "dead"]
          /\ UNCHANGED transcript
     ELSE /\ proc' = [proc EXCEPT ![w] = "ended"]
          /\ transcript' = transcript \cup {p}
  /\ UNCHANGED <<control, overdue, passes, solution, torn, result, summary>>

\* The process is killed from outside (out of memory) or an exception leaves _run.
Die(w) ==
  /\ Alive(w)
  /\ Kill({w})
  /\ UNCHANGED <<control, overdue, passes, solution, result, transcript, summary>>

\* The problem's wall-clock limit runs out.
PassDeadline(w) ==
  /\ Alive(w) /\ w \notin overdue
  /\ overdue' = overdue \cup {w}
  /\ UNCHANGED <<control, proc, passes, files, summary>>

-----------------------------------------------------------------------------
(* The runner. *)

\* Mutant: a resumed run launches every problem again.
StartOver ==
  /\ phase \in {"off", "stopped", "crashed", "done"} /\ run < MaxRuns
  /\ run' = run + 1
  /\ phase' = "looping"
  /\ pending' = Problems
  /\ running' = {}
  /\ UNCHANGED <<hand, proc, overdue, passes, files, summary>>

\* run(): a first run finds empty directories, a resumed one skips the
\* problems that have a result.
Start ==
  /\ phase \in {"off", "stopped", "crashed", "done"} /\ run < MaxRuns
  /\ run' = run + 1
  /\ phase' = "looping"
  /\ pending' = {p \in Problems : result[p] = NoResult}
  /\ running' = {}
  /\ UNCHANGED <<hand, proc, overdue, passes, files, summary>>

\* Empty the directory of the next problem and start its process.
Launch ==
  /\ phase = "looping" /\ pending # {}
  /\ Cardinality(running) < NWorkers
  /\ \E p \in pending :
       /\ \A q \in pending : p <= q
       /\ hand' = <<p, run>>
       /\ pending' = pending \ {p}
       /\ proc' = [proc EXCEPT ![<<p, run>>] = "solving"]
       /\ solution' = [solution EXCEPT ![p] = "none"]
       /\ torn' = torn \ {p}
       /\ result' = [result EXCEPT ![p] = NoResult]
       /\ transcript' = transcript \ {p}
  /\ phase' = "launching"
  /\ UNCHANGED <<run, running, overdue, passes, summary>>

\* Mutant: the process is not put on the list of running workers.
EnlistNobody ==
  /\ phase = "launching"
  /\ hand' = Nobody
  /\ phase' = "looping"
  /\ UNCHANGED <<run, pending, running, proc, overdue, passes, files, summary>>

\* Mutant: the list gets the handle after it was reset.
EnlistReset ==
  /\ phase = "launching"
  /\ running' = running \cup {Nobody}
  /\ hand' = Nobody
  /\ phase' = "looping"
  /\ UNCHANGED <<run, pending, proc, overdue, passes, files, summary>>

\* running.append, a statement later.
Enlist ==
  /\ phase = "launching"
  /\ running' = running \cup {hand}
  /\ hand' = Nobody
  /\ phase' = "looping"
  /\ UNCHANGED <<run, pending, proc, overdue, passes, files, summary>>

\* Mutant: a process that exited is collected without looking for its result.
CollectAny(w) ==
  /\ phase = "looping" /\ w \in running
  /\ proc[w] \in {"ended", "dead"}
  /\ running' = running \ {w}
  /\ UNCHANGED <<run, phase, hand, pending, proc, overdue, passes, files, summary>>

\* poll() finds a process that ended well, or badly but with a result on disk.
Collect(w) ==
  /\ phase = "looping" /\ w \in running
  /\ \/ proc[w] = "ended"
     \/ proc[w] = "dead" /\ result[ProblemOf(w)] # NoResult
  /\ running' = running \ {w}
  /\ UNCHANGED <<run, phase, hand, pending, proc, overdue, passes, files, summary>>

\* poll() finds a process that failed before writing a result.
FindDead(w) ==
  /\ phase = "looping" /\ w \in running
  /\ proc[w] = "dead" /\ result[ProblemOf(w)] = NoResult
  /\ hand' = w
  /\ phase' = "salvaging"
  /\ UNCHANGED <<run, pending, running, proc, overdue, passes, files, summary>>

\* Mutant: the deadline is looked at only when there is room for another worker.
FindOverdueWithRoom(w) ==
  /\ phase = "looping" /\ w \in running
  /\ Cardinality(running) < NWorkers
  /\ Alive(w) /\ w \in overdue
  /\ hand' = w
  /\ phase' = "expiring"
  /\ UNCHANGED <<run, pending, running, proc, overdue, passes, files, summary>>

\* poll() finds a process still running past its deadline.
FindOverdue(w) ==
  /\ phase = "looping" /\ w \in running
  /\ Alive(w) /\ w \in overdue
  /\ hand' = w
  /\ phase' = "expiring"
  /\ UNCHANGED <<run, pending, running, proc, overdue, passes, files, summary>>

\* terminate() and wait(): the process may have ended by itself since the poll.
Terminate ==
  /\ phase = "expiring"
  /\ Kill({hand})
  /\ phase' = "timing_out"
  /\ UNCHANGED <<run, hand, pending, running, overdue, passes, solution, result, transcript, summary>>

\* _recover_worker: a result without a point, whatever result was there.
Recover ==
  LET p == ProblemOf(hand) IN
  /\ phase \in {"salvaging", "timing_out"}
  /\ p \notin torn
  /\ solution' = [solution EXCEPT ![p] = IF @ = "none" THEN "challenge" ELSE @]
  /\ result' = [result EXCEPT ![p] =
       Verdict(hand, IF phase = "timing_out" THEN "timed_out" ELSE "harness_error", FALSE)]
  /\ transcript' = transcript \cup {p}
  /\ running' = running \ {hand}
  /\ hand' = Nobody
  /\ phase' = "looping"
  /\ UNCHANGED <<run, pending, proc, overdue, passes, torn, summary>>

\* _recover_worker reads an events.jsonl that is not UTF-8: the exception ends
\* run(), and the interpreter's exit handler takes every other worker down.
RecoverRaises ==
  LET p == ProblemOf(hand) IN
  /\ phase \in {"salvaging", "timing_out"}
  /\ p \in torn
  /\ solution' = [solution EXCEPT ![p] = IF @ = "none" THEN "challenge" ELSE @]
  /\ Kill(running)
  /\ running' = {}
  /\ hand' = Nobody
  /\ phase' = "crashed"
  /\ UNCHANGED <<run, pending, overdue, passes, result, transcript, summary>>

\* Everything is collected: aggregate_results and summary.json.
Finish ==
  /\ phase = "looping" /\ pending = {} /\ running = {}
  /\ summary' = {p \in Problems : result[p].passed}
  /\ phase' = "done"
  /\ UNCHANGED <<run, hand, pending, running, proc, overdue, passes, files>>

\* SIGINT, SIGTERM or SIGHUP: the handler stops the workers it knows of.
Interrupt ==
  /\ phase \in {"looping", "launching", "salvaging", "expiring", "timing_out"}
  /\ phase = "launching" => Abandons /\ run = MaxRuns
  /\ Kill(running)
  /\ running' = {}
  /\ hand' = Nobody
  /\ phase' = "stopped"
  /\ UNCHANGED <<run, pending, overdue, passes, solution, result,
                 transcript, summary>>

\* SIGKILL, or the machine's out-of-memory killer, takes the runner alone.
Vanish ==
  /\ Abandons /\ run = MaxRuns
  /\ phase \in {"looping", "launching", "salvaging", "expiring", "timing_out"}
  /\ running' = {}
  /\ hand' = Nobody
  /\ phase' = "stopped"
  /\ UNCHANGED <<run, pending, proc, overdue, passes, files, summary>>

WorkerStep(w) ==
  \/ \E source \in {"candidate", "proof"} : Checkpoint(w, source)
  \/ Grade(w) \/ Record(w) \/ Transcribe(w)

RunnerStep ==
  \/ Launch \/ Enlist
  \/ \E w \in Workers : Collect(w) \/ FindDead(w) \/ FindOverdue(w)
  \/ Terminate \/ Recover \/ RecoverRaises \/ Finish

Next ==
  \/ \E w \in Workers : WorkerStep(w) \/ Die(w) \/ PassDeadline(w)
  \/ RunnerStep
  \/ Start \/ Interrupt \/ Vanish

\* The runner keeps polling and the clock keeps running; a worker owes nothing.
Fairness ==
  /\ WF_vars(RunnerStep)
  /\ \A w \in Workers : WF_vars(PassDeadline(w))

Spec == Init /\ [][Next]_vars /\ Fairness

-----------------------------------------------------------------------------
(* Properties. *)

TypeOK ==
  /\ run \in 0..MaxRuns
  /\ phase \in {"off", "looping", "launching", "salvaging", "expiring", "timing_out",
                "done", "stopped", "crashed"}
  /\ hand \in Workers \cup {Nobody}
  /\ pending \subseteq Problems
  /\ running \subseteq Workers
  /\ proc \in [Workers -> {"none", "solving", "graded", "recorded", "ended", "dead"}]
  /\ overdue \subseteq Workers
  /\ passes \subseteq Workers
  /\ solution \in [Problems -> {"none", "challenge", "candidate", "proof"}]
  /\ torn \subseteq Problems
  /\ result \in [Problems ->
       [by : Workers \cup {Nobody}, passed : BOOLEAN,
        status : {"none", "passed", "failed", "timed_out", "harness_error"}]]
  /\ transcript \subseteq Problems
  /\ summary \subseteq Problems

\* docs/AGENT_API.md:78-80: each problem has an isolated agent process, and
\* --n-workers bounds how many run.
WorkersContained ==
  LET living == {w \in Workers : Alive(w)} IN
  /\ Cardinality(living) <= NWorkers
  /\ \A v, w \in living : ProblemOf(v) = ProblemOf(w) => v = w

\* A point on disk is for the solution on disk, through kills, recoveries and
\* resumptions: result.json never outlives the solution.lean it was given for.
PointsAreForSolutionOnDisk ==
  \A p \in Problems : result[p].passed => solution[p] = "proof"

\* A run that finishes accounts for every problem: each has a result and a
\* solution of its own, a transcript unless its worker died between its last two
\* artifacts, and in the summary the point its result gives.
FinishedRunIsComplete ==
  phase = "done" =>
    \A p \in Problems :
      /\ result[p] # NoResult /\ solution[p] # "none"
      /\ p \in transcript \/ proc[result[p].by] = "dead"
      /\ p \in summary <=> result[p].passed

\* docs/OUTPUTS.md:32-33: a resumed run leaves the results it finds as they are.
ResultsSurviveResume ==
  [][\A p \in Problems :
       result[p] # NoResult /\ result[p].by[2] < run => result'[p] = result[p]]_vars

\* Whatever the agents do, hang included, a run that is let run comes to its
\* end: every worker ends or is killed at its deadline and collected.
RunEnds == (phase = "looping") ~> (phase \in {"done", "stopped", "crashed"})

\* RULES.md:62-63: "a crash on one problem zeroes only that problem".
CrashIsContained ==
  phase = "crashed" => Cardinality({p \in Problems : result[p] = NoResult}) <= 1
=============================================================================
