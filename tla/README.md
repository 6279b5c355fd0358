# A TLA+ development of the proving harness and its agent

This directory holds TLA+ modules that model the harness of this repository (the
code that runs a proving agent on a set of Lean problems, meters what it spends,
and grades what it leaves) and the submitted agent with its libraries, TLC
configurations that check them, and TLAPS proofs of what matters most. Paths
below are relative to the repository's root; `harness` stands for
`src/re_harness`, `agents` for `experiments_agents`.

    tlc -workers 2 -config MCRunner_resume.cfg MCRunner     # one run
    tlapm RunnerProofs.tla                                  # one proof module

`PROJECT.json` lists the runs, the mutants that show each property can fail, the
source lines each definition models, the findings, the hazards and the theorems.

## 1. Inventory

A *runner* process launches one *worker* process per problem. A worker loads the
agent, gives it an LLM client, a Lean client and a `checkpoint` function, and when
the agent is over runs a separate Comparator container on the `solution.lean`
that is on disk. Everything meets in the problem's directory (`events.jsonl`,
`solution.lean`, `checkpoint.json`, `result.json`, `transcript.json`), which the
worker writes, the runner reads, repairs or empties, and a resumed run inherits.
Inside the worker the agent is one task: a ladder of stages that share a bank of
verified lemmas and hand candidates to each other.

| Component | State | Operations | Talks to |
|---|---|---|---|
| Budget ledger, `harness/budget.py` | `_spent`, `_reservations`, `_complete` | reserve, settle, release, mark_unknown, snapshot | LLM client (calls); worker (snapshot) |
| LLM client, `harness/llm.py` | calls in flight | complete: reserve, log, post, settle or give up | ledger, event log, provider |
| Event log, `harness/events.py` | `_seq`, `events.jsonl` | emit, read_events | every thread of the worker; runner after a kill |
| Artifacts, `harness/artifacts.py` | transcript and summary files | build_transcript, aggregate_results, atomic writes | worker, runner |
| Lean session, `harness/lean.py` | lock, attached process, base environment, containers | check_file, start, close, force-remove, compare_solution | agent (awaits), docker (shared label) |
| Worker, `harness/worker.py` | solution, metadata, status, verdict | solve under a deadline, checkpoint, submit, grade, record | all of the above |
| Runner, `harness/runner.py` | pending, running, `_ACTIVE_WORKERS` | launch, poll, kill, recover, interrupt, resume, aggregate | worker processes, directories, signals |
| Evaluator, `harness/evaluator.py` | none of its own | rescore a finished directory | directories, Comparator |
| Submission agent, `submission/agent.py` | stage, candidates handed on, residual rounds, route | sweep, champions, hand-offs, slots, experiment, rounds, greedy close, guard | the libraries below |
| Verified progress, `agents/verified_progress.py` | bank of lemmas and their dependencies | add_verified, promote, candidates | agent, bridge portfolio |
| Targeted repair, `agents/repair.py` | best and last candidate, stall counter | propose, repair, stop | LLM and Lean clients |
| Bridge portfolio, `agents/bridgeportfolio.py` | recursive calls, routes, memo, bank | plan, verify, prove milestones, recurse, retry, assemble | LLM and Lean clients, bank |
| Program portfolio, `agents/programportfolio.py` | definition states, candidates, slots, passes | propose, check, repair, retry, branch, prove slots, assemble | LLM and Lean clients, guard |
| Candidate guard, `agents/candidate_guard.py` | none | circularity and substance checks | agent, portfolios |

The rest (configuration and manifest loading, single-prover loops, ablation arms,
the baseline agent, the Lean image, scripts) keeps no state that the behaviours
below depend on; `PROJECT.json` lists each with the reason it is left out.

What is hard, and what must hold in spite of it:

- *Budget.* Calls run concurrently, are cancelled or time out, and are billed
  after the client has stopped listening. A verdict must rest on what the provider
  really metered. Where bills stay in their reservations the total must never
  pass the limit, at any moment.
- *Log.* A kill can stop a line at any byte, a write may fail, and content may
  not be encodable. What was acknowledged must be read back; a call sent must be
  in the transcript.
- *Lean session.* Cancelling a coroutine does not stop its thread. A check must
  never be answered from another container's environment or by an earlier check's
  reply; the lock must always come back; the Comparator must be left alone.
- *Worker and evaluator.* The deadline may fall anywhere; tasks the agent spawned
  may outlive it. A point must be for the file on disk, within the limit, for good,
  and a rescore must judge by the same books.
- *Runner.* Workers hang, die between two files, finish while being killed; the
  runner is interrupted or killed and resumed from the files alone. Points must
  stay with their solutions, nothing be lost, nothing run twice at once, and a
  run must end.
- *Agent.* It may be cut off at any await, and its inner agents checkpoint what
  nobody has judged. Only what the guard has seen may reach the disk. Its loops
  nest; each must stop for the reason it gives.
- *Bank and bridge search.* Lemmas are verified in one context and assembled in
  another, while nested calls replace certificates. What is used must fit where it
  is used; the bank must not become circular or turn away what was proved.
- *Program portfolio.* Answers are chosen in alternative states, theorems proved in
  several passes. States must not mix, a circular answer must not slip through one
  of the three rounds, and a program whose parts were proved should assemble.

## 2. Modules

    Sums              Total(f, n), a recursive function
    BudgetLedger      EXTENDS Sums
    SpendCap          the abstract credit line
    LLMClient         EXTENDS BudgetLedger; INSTANCE SpendCap (refinement)
    Worker            EXTENDS LLMClient, whose Spec is a property of Worker; the evaluator
    EventLog, LeanSession, Runner      stand alone
    VerifiedProgress  the bank
    BridgePortfolio   EXTENDS VerifiedProgress
    TargetedRepair    one search
    ProgramPortfolio  definitions and slots, with the guard's probe
    SubmissionAgent   EXTENDS TargetedRepair, ProgramPortfolio; the ladder
    SumsProofs, LLMClientProofs, WorkerProofs, EventLogProofs, LeanSessionProofs,
    RunnerProofs, BridgeProofs, AgentProofs       theorems
    MC*               what TLC runs

**BudgetLedger.** The four operations and the snapshot's `within_limit`. Each
runs under the ledger's lock and is one operator on `spent`, `reservations`,
`complete`. A reservation is named by its call and is 0 when there is none; the
code never reserves 0.

**LLMClient.** `complete()` yields only at the HTTP post, so it is two atomic
stretches: `Send` / `Refuse` / `RequestLogFails` before it, and one action for each
way a post ends (`Succeed`, `RefusedAtACost`, `RefusedForFree`, `Uncertain`,
`Interrupted`, `MalformedChoice`). `Serve` is the provider, which bills at a time
of its own; `KillAndRecover` is the runner's kill and the spend it rebuilds.

**SpendCap.** A credit line: an exposure that grows only while the line is open
and has room, and a line that never reopens. `LLMClient` implements it with
`exposure` as the worst the calls made so far can still turn out to cost.

**Worker.** `worker._run`: the agent's calls and checkpoints, its end in each of
the three ways, the cancellation that has to reach every call in flight,
submission, grading and `result.json`. `stragglers` says that tasks outlived
`solve()` (siblings in an `asyncio.gather` whose first exception ended it); they go
on until the last await of `_run`. `Rescore` is `evaluator._rescore_one` on the
files a worker left, with the evaluator's own budget rule (`BudgetOk`).

**EventLog.** The file as a sequence of pieces: whole lines, and the beginnings
of lines that a kill or a failing disk left, to which the next line is glued.
`read_events` (`Records`) and `build_transcript` (`Transcribed`) are operators on it.

**LeanSession.** Each check is a coroutine and a thread. Containers are numbered;
`live`, `proc`, `baseEnv` and `abandoned` say which runs, which the client is
attached to, which the environment number came from, and which still owes an
answer nobody waits for. `work` is the worker's order: solve, close, compare,
clean up.

**Runner.** A worker is named by its problem and the run that launched it;
`proc` is its stage seen from outside. Files are functions on problems. `hand` is
the worker the runner is busy with between two statements, so that a signal may
come in between.

**VerifiedProgress.** A lemma is a statement in a context (a goal and the
hypotheses its header declares), numbered in order of insertion. The text of its
certificate is abstracted to the hypotheses it needs: a context gives it a meaning
only when it declares them all. `AddVerified` is `add_verified` with its four
refusals, the replacement by a shorter certificate and the limit.

**BridgePortfolio.** `_decompose_goal` is recursive, so the state is a stack of
frames, one for each call, with the bank it replayed, the ranked routes, the route
at work and the milestones it has proved. A proof body, like a certificate, is the set of
names it needs; `LeftOpen` is what remains undeclared after `_certificate_body` has
stated the bank and the milestones before it. `LemmaName` carries the depth, the
wave and the position, as the code's names do. The search is one task, so a step may
stand for several model calls and checks with nothing in between.

**TargetedRepair.** One search: the turns left, the best candidate with its rank,
the stall counter, and how it ended. A candidate is known by what Lean and the guard
make of it (`Verdicts`, `MayPass`); the model chooses verdict and rank of each turn.
`gains` is a history variable for the property.

**ProgramPortfolio.** The three rounds of `DefinitionPortfolio.solve` (first,
repair, canonical) with the loops that collect, check and cut off candidates, the
definition states they branch into, and the passes over theorem slots of each
state. A slot records the answers it was proved under, the declarations it uses and
its pass; whether the program assembles follows from the order of the challenge.

**SubmissionAgent.** The ladder: `stage` is where `solve()` is, `arm` the champion
or hand-off, `slot` and `tier` the fallback of `_solve_slot`, `rounds`, `route` and
`flat` the residual recursion. Each search of the champions is one of
`TargetedRepair`; each program portfolio one of `ProgramPortfolio`, whose challenge
the agent shares. A bridge portfolio is one step with either outcome here.

## 3. Runs

| Run | Checks | Bounds, and why they are enough |
|---|---|---|
| `llm_margin` | `SpendIsCapped`, `BookedSpendIsLogged`, `KeepsSpendCap` | 3 calls, limit 4, reservations 1-3, bills 0, 1, 3, log may fail: two calls fit and the third does not, in several combinations; a bill may equal its reservation and its event may be lost |
| `worker` | `WorkerTypeOK`, `BooksAgree`, `WithinLimitIsTruthful`, `OpenLedgerCoversRequests`, `PointsStayWithinLimit`, `PointsAreForSolution`, `RescoredOverrunWasHeld`, `DrivesClient` | 2 calls, limit 3, bills up to 3 over reservations up to 2, log may fail: one call in flight at the deadline, or left behind by it, while another is booked; the spend can pass the limit by a bill above its reservation; a finished worker may be rescored |
| `log_file` | `AckedEventsAreRead`, `SentCallsAreTranscribed`, `RecordsAreOrdered` | 2 calls and 2 check events, so that a torn line has whole lines of both kinds before and after it; any write may fail or be killed at any byte |
| `lean_safety` | `TypeOK`, `ChecksUseOwnEnvironment`, `NoStaleReply`, `OneRepl`, `VerificationCompletes` | 3 checks: one holding the lock, one cancelled, one to restart after it; a check launches at most one container |
| `runner_resume` | `TypeOK`, `WorkersContained`, `PointsAreForSolutionOnDisk`, `FinishedRunIsComplete`, `ResultsSurviveResume`, `RunEnds` | 2 problems, 2 workers, 2 runs, the last of which may be abandoned: one problem is finished while the other is killed, interrupted or resumed; both may hang |
| `bridge` | `SearchTypeOK`, `BankIsAcyclic`, `CertificatesStayReplayed`, `MilestonesInScope`, `ReturnedProofFits`, `NothingProvedIsLost`, `SearchEnds` | 2 statements, routes of up to 2 milestones, 2 waves, one nested call, a bank of 2 nodes of which 1 is offered, 1 remembered proof: the second milestone uses the first, a nested call meets the node its caller holds and can replace it, and a bank offers less than it has |
| `agent` | `AgentTypeOK`, `StallsAfterTwoRepairs`, `CheckpointIsSubstantive`, `ProgramGetsARound`, `CircularOnlyUnprobed`, `SlotsFitTheirState`, `OrderLostOnRetryOnly`, `AgentEnds` | the submission's settings (1 proposal, 3 repairs, 3 rounds, stall after 2) on six challenges: theorem alone, after or around a complete declaration, after a numeric answer, two theorems on one answer, one on two; 3 answers of which 1 is circular, 2 states, 2 passes, 4 ranks |

The other five runs have `expect: violation`: they show the findings of section
6, each on the smallest instance that has it. Every property of a passing run has
a mutant in `PROJECT.json`: an operator (marked *Mutant* in the modules) that
changes one mapped definition the way a plausible bug would, and with which the
same run refutes the property.

Deadlock checking is off everywhere: a worker that has exited, a run that is over,
a session that is done, a search that has ended and a spent bound on calls are
legitimate ends. Symmetry is not used: the instances are small, and calls, problems
and declarations are numbers the code orders.

Between them the passing runs take every action. `RequestLogFails` needs the
failing log of `llm_margin` and `worker`; `Vanish` and an `Interrupt` in the middle
of a launch need the `Abandons` of `runner_resume`.

Type invariants are stated where they say more than types: `SearchTypeOK` that a
lemma is banked once for its context and that depth and waves are bounded,
`ProgramTypeOK` by how much `max_candidates` can be passed, `AgentTypeOK` in which
stages a search or portfolio may be open.

## 4. Assumptions of the models

- Amounts are whole micro-dollars; rounding of floats is not modelled. The
  provider's `usage.cost`, where reported, is what it billed, and a 429 without a
  cost was not billed (the code's own premise).
- `LogMayFail` stands for a full disk and for an event without a UTF-8 form. A
  kill between a ledger update and its event is covered by `KillAndRecover` before
  that step: the in-memory update dies with the process.
- Docker commands (`rm -f`, the cleanup by label) are atomic; starting the client
  process creates the container at once, and killing the client ends it. The
  thread pool has a thread for each check. The race in `_force_remove` that ends
  in `AttributeError` and the one that does not both end the handler.
- The runner's polls are not ordered after its launches, which admits more
  interleavings than the loop has. Recovery's two files are one step, and so are
  emptying a directory, writing its config and starting the process. A runner that
  dies without its workers, or is stopped between start and bookkeeping, leaves an
  orphan; the model lets it in the last run only, because a resumption would start
  a second worker in the orphan's directory.
- In `Worker`, from the ledger's snapshot to the end there is no await, so tasks
  left behind do nothing more; that they are cancelled at exit is not modelled.
- `AckedEventsAreRead` and `SentCallsAreTranscribed` are claimed for an `Intact`
  log, one whose only incomplete line is the last and which can be decoded. After
  a write that failed part of the way the next event is lost with it, and
  `RecordsAreOrdered` is what remains; a log that cannot be decoded is finding 5.
- A cancelled agent may catch its cancellation, go on calling and even return: the
  worker waits for it, and the runner's deadline is what ends it.
- In the agent's modules every test of the clock may go either way, and what a model
  proposes and whether Lean accepts it is the environment's choice, limited by what a
  text needs from its context. A check that fails and one that refuses end alike,
  as in the code. The model's certificates therefore cover more than Lean would accept.
- A memo keeps `MemoLimit` proofs in `bridge` and may forget any: one that is
  forgotten is found again. The theorems need no such bound.
- Every challenge has an open declaration; the theorem solver of a slot and, in
  `SubmissionAgent`, the bridge portfolio are one step each.

## 5. Fairness

Safety needs none. Four specifications state fairness, because four components
promise to end:

- `LeanSession`: weak fairness for each thread and each cancellation handler (the
  system schedules them and every wait of theirs has a timeout), for the agent's
  deadline (`wait_for`), and for the worker's own steps, whose waits are bounded
  likewise. Nothing obliges the agent to call or to return. `VerificationCompletes`
  needs no fairness of the Comparator beyond its timeout, which `compare_solution`
  enforces.
- `Runner`: weak fairness for the polling loop and for each worker's deadline (the
  clock). A worker owes nothing: it may hang in any stage, which is what `RunEnds`
  is about. `Start`, `Interrupt` and `Vanish` are not fair.
- `BridgeSpec` and `AgentSpec`: weak fairness of the whole next-state relation. Each
  is one task of one event loop, and every model call and every check has a
  deadline of its own, so something always happens; what happens is free. `SearchEnds`
  and `AgentEnds` then rest on the counters of the loops alone, not on the clock.

## 6. Findings

Each is a run that TLC refutes; `PROJECT.json` quotes the sentence of the
documentation beside the line of code.

1. `llm_malformed`: a success body whose first choice is not an object raises
   `AttributeError`, which no handler names; the ledger stays open. (The
   reservation stays too, so the verdict is safe: `WithinLimitIsTruthful` holds.)
2. `llm_recovered`: the spend rebuilt for a killed worker misses errors that
   reported a cost.
3. `log_separator`: a call whose text holds U+2028, U+2029 or U+0085 is missing
   from the transcript: the writer does not escape what the reader splits at.
4. `lean_comparator`: a check cancelled while its thread waits for the lock may
   start a REPL later and remove the running Comparator.
5. `runner_crash`: a log cut inside a multi-byte character makes recovery raise
   and takes the whole run down.

Further limits of the harness show in the models as the hypotheses of properties
that hold, and are listed as hazards:

- a task the agent left behind may replace `solution.lean` while the Comparator
  judges the previous one (`~stragglers` in `PointsAreForSolution`);
- abandoned workers followed by a resumption would run two in one directory;
- a worker killed between `result.json` and `transcript.json` is never recovered
  (the exception in `FinishedRunIsComplete`);
- the verdict `problem_finished` logs may differ from the one in `result.json`:
  the write may raise on metadata that is not JSON, and a worker that ends while
  it is being killed has its result replaced;
- a resumed problem gets a new budget, and nothing remembers what the interrupted
  attempt spent;
- a rescore forgets reservations still held when the process ended, and may give a
  point that the worker refused (`RescoredOverrunWasHeld` says in which case only).

And of the agent, where no sentence of the documentation is contradicted by a run:

- `repair.py` seeds each turn from the latest candidate, while its opening comment
  speaks of the best (`repair.py:4-8`, `209-210`). With two or more proposals the
  stall counter mixes turns, and one failed repair may end a search;
  `StallsAfterTwoRepairs` is checked and proved for one proposal.
- The greedy close counts as attempted when its window is used up
  (`agent.py:548-552`), and the branch that would run it before a stall
  (`agent.py:859-884`) cannot be reached.
- A slot proved on a later pass with a sibling after it, or with a given declaration
  after it, cannot be assembled in the challenge's order; the work of that state is
  lost (`OrderLostOnRetryOnly` bounds where this comes from).
- The cap on candidates breaks only the inner loop: it is passed by at most one for
  each further call.
- Facts promoted from failed candidates are banked without a Lean check of their own,
  against `verified_progress.py:3-4`, and may shadow a later valid certificate. Every
  use replays the certificate, so `CertificatesStayReplayed` holds nonetheless.
- The guard judges the challenge's own complete definitions as answers when it is
  given no names, and the structural test for an answer-shaped problem matches a
  complete definition near another hole.
- The probe for circular answers lets an answer through when it cannot be run
  (`CircularOnlyUnprobed` says that this is the only way).
- The leaning to the bridge, fixed before the rounds, overrides the router in the
  second round (`ProgramGetsARound` is what remains true).

## 7. Proofs

Every invariant that a passing run checks is a theorem. All hold for every value of
the constants. The named assumptions on constants (`LedgerAssumption`,
`ClientAssumption`, `EventLogAssumption`, `SessionAssumption`, `RunnerAssumption`,
`BankAssumption`, `SearchAssumption`, `RepairAssumption`, `ProgramAssumption`,
`AgentAssumption`) are the only ones unless stated, and TLC evaluates them on its
instances. Of these, `SessionAssumption` says that a problem makes finitely many checks
and `ProgramAssumption` that a challenge is a sequence of declarations.

**Budget.** `SumsProofs` has the arithmetic of `Total` that the rest needs: it is natural,
changes in one argument as a sum should, is monotone, and is zero only where every
term is. `Total` is a recursive *function*, so that its defining equation is
available to the provers; what it computes is compared with the library's fold by
`MCLLMClient!TotalIsSum`. The module also has the two facts every loop of the code
needs: `InductionUpTo` (a set of numbers that holds 0 and, with each number, the next
one up to `n`, holds all of them; it stands in for the induction rules that take a
predicate) and `LoopRuns` (a loop of `n` turns over a state is a recursive function that
exists). In `LLMClientProofs`:

- `TypeCorrect`, then `BooksAlwaysAgree`: `BooksAgree` is the inductive
  invariant. The promise "a ledger within its limit tells the provider's total" is
  not inductive: it says nothing of a call in flight. `BooksAgree` adds what each
  stage of a call implies for its reservation, request and bill (`CallInv`), and
  that `spent` is the sum over *settled* calls. `Held = 0` then leaves no call posted
  or stranded, an open ledger none unknown, so every bill is a booked one.
- `OpenLedgerCovers` and `GradedSpendIsTheProviders` follow from it.
- `SpendIsExplained`: each call's last event tells its bill or was lost
  (`EventMatches`), so the sum over logged events differs from the spend by the lost
  ones alone.
- `ExposureCapped`: with bills inside reservations `Exposure <= Limit`, a second
  invariant on top: a call is admitted against spend and reservations, which cover
  everything a still open ledger is exposed to. `SpendNeverExceedsLimit` compares
  the two sums term by term.
- `ImplementsSpendCap`: initial states map to initial states and every step to
  `Commit`, `Resolve`, `Close` or a stutter.

**Worker.** `DrivesTheClient` (each step of the worker is a step of the client
or leaves it alone) transports those theorems to the worker. For
`PointsKeepTheLimit` the moment of grading is not enough: `Settled` says that once
a point is given the ledger is still within its limit and the worker past every
step that could change it; with `WithinLimitIsTruthful`, which holds at every
later moment too, the provider's total is the ledger's for good.
`PointsMatchTheFile` follows from `FileIsSubmitted`: from the submission on, without
stragglers, the file is the one the Comparator was given.
`RescoredPointsKeepTheLimit`: a result on disk has its books closed
(`PointsHaveBooks`, `RecordedBooks`), so a rescored point is beyond the limit only
with a reservation held. `WorkerTypesCorrect` takes the client's types through
`DrivesTheClient` and adds the worker's own.

**Event log.** `SentCallsAlwaysTranscribed` assumes that no content can hold a
character that splits lines (with one, it is finding 3). `LogInv`: a request that
`emit()` returned for has a whole line; lines are only added; and in an intact log a
whole line is not glued to anything. `AckedEventsAlwaysRead`, under the same assumption,
needs to know where the acknowledged events stand. `FileInv`: the numbers on the
lines rise and none is beyond the counter while the process lives; and as long as no line
but the last is torn, the file is the acknowledged events in their order and at most
one line more, which is torn unless the process is dead. Each step adds nothing or
one line with the next number (`AddsLine`). `Records` is the reader's loop, so what it
returns after `i` lines is shown by induction on `i`: the first acknowledged events in
their places (`AckedInPlace`) and, without the assumption, rising numbers each taken from
an earlier line (`ReadInOrder`), which is `RecordsStayOrdered`.

**Lean session.** `LeanInv` ties the lock to the working thread (`Holds`), lets only
the attached container run, under a name that removes it (`Attached`), keeps an
attached container from owing an answer (`Fresh`) and gives each usable container
its own base environment (`Based`). The three safety properties follow. The
cancellation handler, which runs without the lock, only removes containers, and
every conjunct survives that. `SessionTypesCorrect` bounds the containers by the
checks: `LaunchInv` counts those launched and the checks that may still launch one, and
a launch moves a check from the second to the first.

**Runner.** None of the promises is inductive. `RunnerInv` adds the runner's books
(whom it answers for, and that nobody's problem is also pending), the lives of
workers (one lives only in the run that launched it and, while the runner runs, on
its list), the room left, who wrote a result and over what (a worker that has not
recorded finds none; a result is by a worker of its problem, whose solution is
there), and that between pending problems, the list and the results no problem is
lost. `WorkersAlwaysContained`, `PointsStayWithSolutions`, `FinishedRunsAreComplete`
and, for steps, `ResultsAlwaysSurvive` follow.

**Bridge search.** `SearchInvariant`: the frames are typed; a caller's bank is
declared in the header its nested calls work under; a node certified under a header
needs and depends on older names only, so that what a nested call replaces is never
a node its callers hold; the milestones of a route fit in order; and what a call
returns fits its caller. `CertificatesAlwaysReplayed`, `MilestonesAlwaysInScope` and
`ReturnedProofsFit` are its consequences, for any depth, number of waves, routes,
milestones and any limits.

`ShapeInvariant` is a second induction on top. Its part on the bank, `BankInv`, says that
the bank is within its limit, holds a lemma of a context once and is acyclic. That a
replaced certificate closes no cycle cannot be had by following edges one at a time, so
`DependsOn` is the least set that holds a node and is closed under dependencies
(`ReachIsLeast`), and a node is out of reach of another when some closed set holds the
one without the other (`OutOfReach`). A new node depends on old ones, and they are such
a set (`AppendAcyclic`); a replaced node's dependencies have, by the guard of
`_reachable`, closures without it (`ReplaceAcyclic`). The part on the calls says where a
call stands in the recursion, how much of the bank it holds, how far it is on its route,
and that no milestone is the goal of its call. `SearchTypesCorrect` and `BankAlwaysAcyclic`
follow from it; `NothingProvedEverLost` needs both invariants: a milestone is no
restatement of its call's goal and its dependencies are in the bank, so the one reason
left to refuse an accepted certificate is a path back to a node of the same lemma.

**Agent.** One small invariant each: `StageInv` for `CheckpointsAreSubstantive` (what
is on disk follows from the stage, and an inner checkpoint never gets there),
`SlotInv` for `SlotsAlwaysFit`, `RoundInv` for `ProgramAlwaysGetsARound` (which
portfolio each of the first two rounds must have used), `CircularInv` for
`CircularAlwaysUnprobed` (candidates and answers are sequences whose circular members
were let through unprobed), and `StallInv` for `StallsOnlyAfterTwoRepairs`, under
`MaxPropose = 1` (the turns are proposals before repairs, and the stall counter
counts the repairs since the last gain). `OrderInv` is for `OrderIsLostOnRetryOnly`: a
slot still to come in a pass stands after every slot proved in it, so a proof can use
the name of a later theorem only when that one is an earlier pass's work.

`AgentTypesCorrect` bounds the agent's work and rests on all of them but `StallInv`,
`SlotInv` and `RoundInv`. `WorkInv` bounds the lists: the inner loop over one text adds
candidates up to the limit, and one more for each further text, because it stops after a
candidate and not before (`TakeFits`, by induction over the candidates of a text;
`CollectFits`, over the texts); a candidate waits only while more may be accepted.
`LadderInv` bounds the outer loop: a round is begun only while the window has
rounds left, and no stage but the last has the stall counter at its limit.

Only model-checked: the liveness properties (`SearchEnds`, `AgentEnds` and the others of
section 5), which are out of this prover's reach; the runs that expect a violation,
which are about instances; and the relation of `Total` to the library's fold.

## 8. Not modelled

- Wording, prompts, parsing of answers, redaction, prices and byte counts behind a
  reservation, the summary's columns other than points, input validation, and
  `numeric_answers_are_literals`, which is a test on text.
- The Lean kernel, the Comparator and the provider, except for what the code in
  `src/` relies on.
- The structural regular expressions of the candidate guard (their outcomes are free);
  whether a disguise of the goal is recognised.
- In the bank: use counters, route records and the notebook, which only prompts and
  reports read, and `add_dependency`, which has no caller.
- Durations of the agent's windows (a test of the clock may go either way), the
  unused `_solve_regressed_legacy_order`, ablation arms and single-prover loops.
- Amounts in `Runner`: a resumed problem's new budget is described in section 6.

What could be added: a composition of `Worker` with `SubmissionAgent` in place of its
free agent, and of `Runner` with the amounts of `BudgetLedger`.
