----------------------------- MODULE RunnerProofs -----------------------------
(*****************************************************************************)
(* What holds of the runner for any number of problems, workers and runs,    *)
(* whether or not its last run may be abandoned.                             *)
(*****************************************************************************)
EXTENDS Runner, FiniteSetTheorems, TLAPS

-----------------------------------------------------------------------------
(* The inductive invariant.                                                  *)

Active == phase \in {"looping", "launching", "salvaging", "expiring", "timing_out"}

\* The workers the runner answers for: those on its list, and the one it is launching.
Mine == running \cup (IF phase = "launching" THEN {hand} ELSE {})

Living == {w \in Workers : Alive(w)}

\* The runner's own books.
Books ==
  /\ Active => run >= 1
  /\ ~Active => running = {}
  /\ phase = "launching" => hand \in Workers
  /\ phase \in {"salvaging", "expiring", "timing_out"} => hand \in running
  /\ phase \in {"salvaging", "timing_out"} => ~Alive(hand)
  /\ \A w \in Mine : w[2] = run /\ ProblemOf(w) \notin pending

\* A worker runs only in the run that launched it, under its runner's eyes unless that
\* runner was the last and is gone; and has not run before.
Lives ==
  /\ \A w \in Workers : Alive(w) => w[2] = run
  /\ Active => Living \subseteq Mine
  /\ ~Active /\ (run < MaxRuns \/ phase = "done") => Living = {}
  /\ \A w \in Workers : w[2] > run => proc[w] = "none"
  /\ Active => \A p \in pending : proc[<<p, run>>] = "none"
  /\ \A w \in passes : proc[w] \notin {"none", "solving"}

Room ==
  /\ Cardinality(Living) <= NWorkers
  /\ Cardinality(running) <= NWorkers
  /\ phase = "launching" => Cardinality(running) < NWorkers

\* Who wrote a result, and over what.
Papers ==
  /\ \A w \in Workers : proc[w] \in {"solving", "graded"} => result[ProblemOf(w)] = NoResult
  /\ \A w \in Workers : proc[w] \in {"graded", "recorded"} => solution[ProblemOf(w)] # "none"
  /\ \A w \in passes : proc[w] = "graded" => solution[ProblemOf(w)] = "proof"
  /\ \A p \in Problems : result[p] # NoResult =>
       /\ result[p].by \in Workers /\ ProblemOf(result[p].by) = p
       /\ solution[p] # "none"
       /\ p \in transcript \/ proc[result[p].by] \in {"dead", "recorded"}
  /\ \A w \in Mine : result[ProblemOf(w)] # NoResult => result[ProblemOf(w)].by = w
  /\ Active => \A p \in pending : result[p] = NoResult
  /\ PointsAreForSolutionOnDisk

\* No problem is lost between the list of pending problems, the workers and the results.
Ends ==
  /\ \A w \in Mine : proc[w] \in {"recorded", "ended"} => result[ProblemOf(w)] # NoResult
  /\ Active => \A p \in Problems : \/ p \in pending
                                   \/ \E w \in Mine : ProblemOf(w) = p
                                   \/ result[p] # NoResult
  /\ FinishedRunIsComplete

RunnerInv == TypeOK /\ Books /\ Lives /\ Room /\ Papers /\ Ends

-----------------------------------------------------------------------------
(* Workers and sets of them.                                                 *)

LEMMA WorkerFacts ==
  /\ \A w \in Workers : /\ ProblemOf(w) \in Problems
                        /\ w[2] \in 1..MaxRuns
                        /\ w = <<ProblemOf(w), w[2]>>
  /\ \A v, w \in Workers : ProblemOf(v) = ProblemOf(w) /\ v[2] = w[2] => v = w
  /\ Nobody \notin Workers
  /\ IsFiniteSet(Workers)
<1>1. IsFiniteSet(Problems) /\ IsFiniteSet(1..MaxRuns)
  BY FS_Interval, RunnerAssumption DEF Problems
<1>2. IsFiniteSet(Workers)
  BY <1>1, FS_Product DEF Workers
<1>3. Nobody \notin Workers
  BY DEF Nobody, Workers
<1>4. QED
  BY <1>2, <1>3 DEF Workers, ProblemOf

LEMMA SetsOfWorkers ==
  ASSUME NEW S \in SUBSET Workers
  PROVE  /\ IsFiniteSet(S) /\ Cardinality(S) \in Nat
         /\ \A T \in SUBSET S : Cardinality(T) <= Cardinality(S)
         /\ \A w : Cardinality(S \cup {w}) <= Cardinality(S) + 1
<1>1. IsFiniteSet(S)
  BY WorkerFacts, FS_Subset
<1>2. Cardinality(S) \in Nat
  BY <1>1, FS_CardinalityType
<1>3. \A T \in SUBSET S : Cardinality(T) <= Cardinality(S)
  BY <1>1, FS_Subset
<1>4. ASSUME NEW w
      PROVE  Cardinality(S \cup {w}) <= Cardinality(S) + 1
  <2>1. Cardinality(S \cup {w}) = IF w \in S THEN Cardinality(S) ELSE Cardinality(S) + 1
    BY <1>1, FS_AddElement
  <2>2. QED
    BY <1>2, <2>1
<1>5. QED
  BY <1>1, <1>2, <1>3, <1>4

\* Those who lived may have died, and the list may be shorter.
LEMMA RoomStays ==
  ASSUME RunnerInv, TypeOK', Living' \subseteq Living, running' \subseteq running,
         phase' = "launching" => phase = "launching"
  PROVE  Room'
<1>1. Living \in SUBSET Workers /\ running \in SUBSET Workers
  BY DEF Living, RunnerInv, TypeOK
<1>2. /\ Cardinality(Living') <= Cardinality(Living) /\ Cardinality(Living) \in Nat
      /\ Cardinality(running') <= Cardinality(running) /\ Cardinality(running) \in Nat
  BY <1>1, SetsOfWorkers
<1>3. Cardinality(Living') \in Nat /\ Cardinality(running') \in Nat /\ NWorkers \in Nat
  <2>1. Living' \in SUBSET Workers /\ running' \in SUBSET Workers
    BY <1>1
  <2>2. QED
    BY <2>1, SetsOfWorkers, RunnerAssumption
<1>4. QED
  BY <1>2, <1>3 DEF RunnerInv, Room

\* The same when nothing but the workers has changed.
LEMMA LivesStay ==
  ASSUME RunnerInv, run' = run, pending' = pending, Mine' = Mine,
         Active' <=> Active, phase' = "done" <=> phase = "done",
         \A v \in Workers :
           /\ proc'[v] \in {"solving", "graded", "recorded"} => Alive(v)
           /\ proc[v] = "none" => proc'[v] = "none",
         \A v \in passes' : proc'[v] \notin {"none", "solving"}
  PROVE  Lives'
<1>1. \A v \in Workers : (Alive(v) => v[2] = run) /\ (v[2] > run => proc[v] = "none")
  BY DEF RunnerInv, Lives
<1>2. Active => Living \subseteq Mine /\ \A p \in pending : proc[<<p, run>>] = "none"
  BY DEF RunnerInv, Lives
<1>3. ~Active /\ (run < MaxRuns \/ phase = "done") => Living = {}
  BY DEF RunnerInv, Lives
<1>4. Living' \subseteq Living
  BY DEF Living, Alive
<1>5. Active => \A p \in pending : <<p, run>> \in Workers
  BY DEF RunnerInv, Books, TypeOK, Workers
<1>6. Active' => \A p \in pending' : proc'[<<p, run'>>] = "none"
  BY <1>2, <1>5
<1>7. QED
  BY <1>1, <1>2, <1>3, <1>4, <1>6 DEF Lives, Alive

\* A living worker is its problem's only one, and no result was written for it yet
\* but its own.
LEMMA LivingAlone ==
  ASSUME RunnerInv, NEW w \in Workers, Alive(w)
  PROVE  /\ w[2] = run
         /\ \A v \in Workers : Alive(v) /\ ProblemOf(v) = ProblemOf(w) => v = w
         /\ \A v \in Mine : ProblemOf(v) = ProblemOf(w) => v = w
         /\ Active => w \in Mine /\ ProblemOf(w) \notin pending
         /\ phase # "done"
<1>1. Mine \subseteq Workers
  BY DEF Mine, RunnerInv, Books, TypeOK
<1>2. \A v \in Workers : Alive(v) => v[2] = run
  BY DEF RunnerInv, Lives
<1>3. \A v \in Mine : v[2] = run /\ ProblemOf(v) \notin pending
  BY DEF RunnerInv, Books
<1>4. Active => w \in Mine
  BY DEF RunnerInv, Lives, Living
<1>5. phase # "done"
  BY DEF RunnerInv, Lives, Living, Active
<1>6. \A v \in Workers : v[2] = run /\ ProblemOf(v) = ProblemOf(w) => v = w
  BY <1>2, WorkerFacts
<1>7. QED
  BY <1>1, <1>2, <1>3, <1>4, <1>5, <1>6

-----------------------------------------------------------------------------
(* One lemma for each step.                                                  *)

LEMMA CheckpointKeeps ==
  ASSUME RunnerInv, NEW w \in Workers, NEW source \in {"candidate", "proof"}, Checkpoint(w, source)
  PROVE  RunnerInv'
<1>1. TypeOK'
  BY DEF Checkpoint, control, RunnerInv, TypeOK
<1>2. Books'
  BY DEF Checkpoint, control, RunnerInv, Books, Active, Mine, Alive
<1>3. Lives'
  BY DEF Checkpoint, control, RunnerInv, Lives, Active, Mine, Living, Alive
<1>4. Room'
  <2>1. Living' \subseteq Living
    BY DEF Checkpoint, Living, Alive
  <2>2. QED
    BY <1>1, <2>1, RoomStays DEF Checkpoint, control
<1>5. Papers'
  <2>1. /\ Alive(w) /\ proc[w] = "solving" /\ ProblemOf(w) \in Problems
        /\ result[ProblemOf(w)] = NoResult
    BY WorkerFacts DEF Checkpoint, Alive, RunnerInv, Papers
  <2>2. \A v \in Workers : proc[v] \in {"graded", "recorded"} => ProblemOf(v) # ProblemOf(w)
    BY <2>1, LivingAlone DEF Alive
  <2>3. /\ solution'[ProblemOf(w)] # "none"
        /\ \A p \in Problems : p # ProblemOf(w) => solution'[p] = solution[p]
    BY <2>1 DEF Checkpoint, RunnerInv, TypeOK
  <2>4. Mine' = Mine /\ (Active' <=> Active)
    BY DEF Checkpoint, control, Mine, Active
  <2>5. \A v \in Workers : ProblemOf(v) \in Problems
    BY WorkerFacts
  <2>6. /\ \A v \in Workers : proc[v] \in {"graded", "recorded"} => solution'[ProblemOf(v)] # "none"
        /\ \A v \in passes : proc[v] = "graded" => solution'[ProblemOf(v)] = "proof"
    BY <2>2, <2>3, <2>5 DEF RunnerInv, TypeOK, Papers
  <2>7. ~result[ProblemOf(w)].passed
    BY <2>1 DEF NoResult
  <2>8. \A p \in Problems : result[p].passed => solution'[p] = "proof"
    BY <2>3, <2>7 DEF RunnerInv, Papers, PointsAreForSolutionOnDisk
  <2>9. QED
    BY <2>4, <2>6, <2>8 DEF Checkpoint, control, RunnerInv, Papers, PointsAreForSolutionOnDisk
<1>6. Ends'
  BY DEF Checkpoint, control, RunnerInv, Ends, Active, Mine, FinishedRunIsComplete
<1>7. QED
  BY <1>1, <1>2, <1>3, <1>4, <1>5, <1>6 DEF RunnerInv

LEMMA GradeKeeps ==
  ASSUME RunnerInv, NEW w \in Workers, Grade(w)
  PROVE  RunnerInv'
<1>1. TypeOK'
  BY DEF Grade, control, RunnerInv, TypeOK
<1>2. Books'
  BY DEF Grade, control, RunnerInv, Books, Active, Mine, Alive
<1>3. Lives'
  BY DEF Grade, control, RunnerInv, TypeOK, Lives, Active, Mine, Living, Alive
<1>4. Room'
  <2>1. Living' \subseteq Living
    BY DEF Grade, Living, Alive
  <2>2. QED
    BY <1>1, <2>1, RoomStays DEF Grade, control
<1>5. Papers'
  BY WorkerFacts
     DEF Grade, control, RunnerInv, TypeOK, Lives, Papers, Active, Mine,
         PointsAreForSolutionOnDisk
<1>6. Ends'
  BY DEF Grade, control, RunnerInv, Ends, Active, Mine, FinishedRunIsComplete
<1>7. QED
  BY <1>1, <1>2, <1>3, <1>4, <1>5, <1>6 DEF RunnerInv

LEMMA RecordKeeps ==
  ASSUME RunnerInv, NEW w \in Workers, Record(w)
  PROVE  RunnerInv'
<1>1. TypeOK'
  <2>1. w \in Workers /\ ProblemOf(w) \in Problems
    BY WorkerFacts
  <2>2. /\ proc' \in [Workers -> {"none", "solving", "graded", "recorded", "ended", "dead"}]
        /\ solution' \in [Problems -> {"none", "challenge", "candidate", "proof"}]
    BY DEF Record, RunnerInv, TypeOK
  <2>3. result' \in [Problems ->
          [by : Workers \cup {Nobody}, passed : BOOLEAN,
           status : {"none", "passed", "failed", "timed_out", "harness_error"}]]
    <3> DEFINE V == [by : Workers \cup {Nobody}, passed : BOOLEAN,
                     status : {"none", "passed", "failed", "timed_out", "harness_error"}]
    <3>1. Verdict(w, IF w \in passes THEN "passed" ELSE "failed", w \in passes) \in V
      BY <2>1 DEF Verdict
    <3>2. result \in [Problems -> V]
      BY DEF RunnerInv, TypeOK
    <3>3. \/ result' = result
          \/ \E v \in V : result' = [result EXCEPT ![ProblemOf(w)] = v]
      BY <3>1 DEF Record
    <3> HIDE DEF V
    <3>4. result' \in [Problems -> V]
      BY <3>2, <3>3
    <3>5. QED
      BY <3>4 DEF V
  <2>4. QED
    BY <2>3 DEF Record, control, RunnerInv, TypeOK
<1>2. Books'
  BY DEF Record, control, RunnerInv, TypeOK, Books, Active, Mine, Alive
<1>3. Lives'
  <2>1. \A v \in Workers :
          /\ proc'[v] \in {"solving", "graded", "recorded"} => Alive(v)
          /\ proc[v] = "none" => proc'[v] = "none"
    BY DEF Record, RunnerInv, TypeOK, Alive
  <2>2. \A v \in passes' : proc'[v] \notin {"none", "solving"}
    BY DEF Record, RunnerInv, TypeOK, Lives
  <2>3. /\ run' = run /\ pending' = pending /\ Mine' = Mine
        /\ Active' <=> Active
        /\ phase' = "done" <=> phase = "done"
    BY DEF Record, control, Mine, Active
  <2>4. QED
    BY <2>1, <2>2, <2>3, LivesStay
<1>4. Room'
  <2>1. Living' \subseteq Living
    BY DEF Record, RunnerInv, TypeOK, Living, Alive
  <2>2. QED
    BY <1>1, <2>1, RoomStays DEF Record, control
<1>5. Papers'
  <2>1. /\ Alive(w) /\ proc[w] = "graded" /\ ProblemOf(w) \in Problems
        /\ solution[ProblemOf(w)] # "none"
        /\ w \in passes => solution[ProblemOf(w)] = "proof"
    BY WorkerFacts DEF Record, Alive, RunnerInv, Papers
  <2>2. \A v \in Workers : Alive(v) /\ ProblemOf(v) = ProblemOf(w) => v = w
    BY <2>1, LivingAlone
  <2>3. \A v \in Mine : ProblemOf(v) = ProblemOf(w) => v = w
    BY <2>1, LivingAlone
  <2>4. Active => ProblemOf(w) \notin pending
    BY <2>1, LivingAlone
  <2>5. /\ \A v \in Workers : v # w => proc'[v] = proc[v]
        /\ proc'[w] \in {"recorded", "dead"}
        /\ \A p \in Problems : p # ProblemOf(w) => result'[p] = result[p]
        /\ proc'[w] = "recorded" => /\ result'[ProblemOf(w)].by = w
                                    /\ result'[ProblemOf(w)].passed => w \in passes
        /\ proc'[w] # "recorded" => result'[ProblemOf(w)] = result[ProblemOf(w)]
    <3> DEFINE V == Verdict(w, IF w \in passes THEN "passed" ELSE "failed", w \in passes)
    <3>1. V.by = w /\ (V.passed => w \in passes)
      BY DEF Verdict
    <3>2. \/ /\ proc' = [proc EXCEPT ![w] = "recorded"]
             /\ result' = [result EXCEPT ![ProblemOf(w)] = V]
          \/ proc' = [proc EXCEPT ![w] = "dead"] /\ result' = result
      BY DEF Record
    <3>3. DOMAIN proc = Workers /\ DOMAIN result = Problems
      BY DEF RunnerInv, TypeOK
    <3>4. /\ proc' = [v \in Workers |-> IF v = w THEN proc'[w] ELSE proc[v]]
          /\ proc'[w] \in {"recorded", "dead"}
      BY <3>2, <3>3
    <3> HIDE DEF V
    <3>5. /\ \A p \in Problems : p # ProblemOf(w) => result'[p] = result[p]
          /\ proc'[w] = "recorded" => result'[ProblemOf(w)] = V
          /\ proc'[w] # "recorded" => result'[ProblemOf(w)] = result[ProblemOf(w)]
      BY <2>1, <3>2, <3>3
    <3>6. QED
      BY <3>1, <3>4, <3>5
  <2>6. Mine' = Mine /\ (Active' <=> Active)
    BY DEF Record, control, Mine, Active
  <2>7. \A v \in Workers : ProblemOf(v) \in Problems
    BY WorkerFacts
  <2>8. result[ProblemOf(w)] = NoResult
    BY <2>1 DEF RunnerInv, Papers
  <2>9. \A v \in Workers : proc'[v] \in {"solving", "graded"} => result'[ProblemOf(v)] = NoResult
    BY <2>2, <2>5, <2>7 DEF RunnerInv, Papers, Alive
  <2>10. \A v \in Workers : proc'[v] \in {"graded", "recorded"} => solution[ProblemOf(v)] # "none"
    BY <2>1, <2>5 DEF RunnerInv, Papers
  <2>11. \A v \in passes : proc'[v] = "graded" => solution[ProblemOf(v)] = "proof"
    BY <2>5 DEF RunnerInv, TypeOK, Papers
  <2>12. \A p \in Problems : result'[p] # NoResult =>
           /\ result'[p].by \in Workers /\ ProblemOf(result'[p].by) = p
           /\ solution[p] # "none"
           /\ p \in transcript \/ proc'[result'[p].by] \in {"dead", "recorded"}
    <3> SUFFICES ASSUME NEW p \in Problems, result'[p] # NoResult
                 PROVE  /\ result'[p].by \in Workers /\ ProblemOf(result'[p].by) = p
                        /\ solution[p] # "none"
                        /\ p \in transcript \/ proc'[result'[p].by] \in {"dead", "recorded"}
      OBVIOUS
    <3>1. CASE p = ProblemOf(w)
      BY <2>1, <2>5, <2>8, <3>1
    <3>2. CASE p # ProblemOf(w)
      <4>1. /\ result'[p] = result[p] /\ result[p].by \in Workers /\ ProblemOf(result[p].by) = p
            /\ solution[p] # "none"
            /\ p \in transcript \/ proc[result[p].by] \in {"dead", "recorded"}
        BY <2>5, <3>2 DEF RunnerInv, Papers
      <4>2. result[p].by # w
        BY <3>2, <4>1
      <4>3. QED
        BY <2>5, <4>1
    <3>3. QED
      BY <3>1, <3>2
  <2>13. \A v \in Mine : result'[ProblemOf(v)] # NoResult => result'[ProblemOf(v)].by = v
    <3>1. Mine \subseteq Workers
      BY DEF Mine, RunnerInv, TypeOK, Books
    <3>2. QED
      BY <2>3, <2>5, <2>7, <3>1 DEF RunnerInv, Papers
  <2>14. Active => \A p \in pending : result'[p] = NoResult
    BY <2>4, <2>5 DEF RunnerInv, TypeOK, Papers
  <2>15. \A p \in Problems : result'[p].passed => solution[p] = "proof"
    <3>1. ~result[ProblemOf(w)].passed
      BY <2>8 DEF NoResult
    <3>2. QED
      BY <2>1, <2>5 DEF RunnerInv, Papers, PointsAreForSolutionOnDisk
  <2>16. /\ solution' = solution /\ passes' = passes /\ transcript' = transcript
         /\ pending' = pending
    BY DEF Record, control
  <2>17. QED
    BY <2>6, <2>9, <2>10, <2>11, <2>12, <2>13, <2>14, <2>15, <2>16
       DEF Papers, PointsAreForSolutionOnDisk
<1>6. Ends'
  <2>1. /\ Alive(w) /\ ProblemOf(w) \in Problems /\ phase # "done"
    BY WorkerFacts, LivingAlone DEF Record, Alive
  <2>2. /\ \A v \in Workers : v # w => proc'[v] = proc[v]
        /\ proc'[w] = "recorded" => result'[ProblemOf(w)] # NoResult
        /\ proc'[w] \in {"recorded", "dead"}
        /\ \A p \in Problems : result[p] # NoResult => result'[p] # NoResult
    <3>1. Verdict(w, IF w \in passes THEN "passed" ELSE "failed", w \in passes) # NoResult
      BY DEF Verdict, NoResult
    <3> DEFINE V == Verdict(w, IF w \in passes THEN "passed" ELSE "failed", w \in passes)
    <3>2. /\ proc' \in {[proc EXCEPT ![w] = "recorded"], [proc EXCEPT ![w] = "dead"]}
          /\ \/ result' = [result EXCEPT ![ProblemOf(w)] = V]
             \/ result' = result /\ proc' = [proc EXCEPT ![w] = "dead"]
      BY DEF Record
    <3>3. /\ proc \in [Workers -> {"none", "solving", "graded", "recorded", "ended", "dead"}]
          /\ DOMAIN result = Problems
      BY DEF RunnerInv, TypeOK
    <3>4. V # NoResult
      BY <3>1
    <3> HIDE DEF V
    <3>5. QED
      BY <2>1, <3>2, <3>3, <3>4
  <2>3. UNCHANGED <<Mine, pending>> /\ (Active' <=> Active) /\ phase' = phase
    BY DEF Record, control, Mine, Active
  <2>4. Mine \subseteq Workers /\ \A v \in Workers : ProblemOf(v) \in Problems
    BY WorkerFacts DEF Mine, RunnerInv, TypeOK, Books
  <2>5. \A v \in Mine : proc'[v] \in {"recorded", "ended"} => result'[ProblemOf(v)] # NoResult
    BY <2>2, <2>4 DEF RunnerInv, Ends
  <2>6. Active => \A p \in Problems : \/ p \in pending
                                      \/ \E v \in Mine : ProblemOf(v) = p
                                      \/ result'[p] # NoResult
    BY <2>2 DEF RunnerInv, Ends
  <2>7. FinishedRunIsComplete'
    BY <2>1, <2>3 DEF FinishedRunIsComplete
  <2>8. QED
    BY <2>3, <2>5, <2>6, <2>7 DEF Ends
<1>7. QED
  BY <1>1, <1>2, <1>3, <1>4, <1>5, <1>6 DEF RunnerInv

LEMMA TranscribeKeeps ==
  ASSUME RunnerInv, NEW w \in Workers, Transcribe(w)
  PROVE  RunnerInv'
<1>1. TypeOK'
  <2>1. proc' \in [Workers -> {"none", "solving", "graded", "recorded", "ended", "dead"}]
    BY DEF Transcribe, RunnerInv, TypeOK
  <2>2. transcript' \subseteq Problems
    BY WorkerFacts DEF Transcribe, RunnerInv, TypeOK
  <2>3. QED
    BY <2>1, <2>2 DEF Transcribe, control, RunnerInv, TypeOK
<1>2. Books'
  BY DEF Transcribe, control, RunnerInv, TypeOK, Books, Active, Mine, Alive
<1>3. Lives'
  <2>1. \A v \in Workers :
          /\ proc'[v] \in {"solving", "graded", "recorded"} => Alive(v)
          /\ proc[v] = "none" => proc'[v] = "none"
    BY DEF Transcribe, RunnerInv, TypeOK, Alive
  <2>2. \A v \in passes' : proc'[v] \notin {"none", "solving"}
    BY DEF Transcribe, RunnerInv, TypeOK, Lives
  <2>3. /\ run' = run /\ pending' = pending /\ Mine' = Mine
        /\ Active' <=> Active
        /\ phase' = "done" <=> phase = "done"
    BY DEF Transcribe, control, Mine, Active
  <2>4. QED
    BY <2>1, <2>2, <2>3, LivesStay
<1>4. Room'
  <2>1. Living' \subseteq Living
    BY DEF Transcribe, RunnerInv, TypeOK, Living, Alive
  <2>2. QED
    BY <1>1, <2>1, RoomStays DEF Transcribe, control
<1>5. Papers'
  <2>1. /\ Mine' = Mine /\ (Active' <=> Active) /\ transcript \subseteq transcript'
        /\ UNCHANGED <<solution, passes, result, pending>>
        /\ \A v \in Workers : v # w => proc'[v] = proc[v]
        /\ proc'[w] \in {"dead", "ended"}
        /\ proc'[w] = "ended" => ProblemOf(w) \in transcript'
    BY DEF Transcribe, control, RunnerInv, TypeOK, Mine, Active
  <2>2. \A p \in Problems : result[p] # NoResult =>
          p \in transcript' \/ proc'[result[p].by] \in {"dead", "recorded"}
    BY <2>1 DEF RunnerInv, Papers
  <2>3. \A v \in Workers : proc'[v] \in {"solving", "graded", "recorded"} => proc'[v] = proc[v]
    BY <2>1
  <2>4. passes \subseteq Workers
    BY DEF RunnerInv, TypeOK
  <2>5. QED
    BY <2>1, <2>2, <2>3, <2>4 DEF RunnerInv, Papers, PointsAreForSolutionOnDisk
<1>6. Ends'
  BY LivingAlone
     DEF Transcribe, control, RunnerInv, TypeOK, Books, Ends, Active, Mine, Alive,
         FinishedRunIsComplete
<1>7. QED
  BY <1>1, <1>2, <1>3, <1>4, <1>5, <1>6 DEF RunnerInv

LEMMA DieKeeps ==
  ASSUME RunnerInv, NEW w \in Workers, Die(w)
  PROVE  RunnerInv'
<1>1. TypeOK'
  BY WorkerFacts DEF Die, Kill, control, RunnerInv, TypeOK
<1>2. Books'
  BY DEF Die, Kill, control, RunnerInv, TypeOK, Books, Active, Mine, Alive
<1>3. Lives'
  <2>1. \A v \in Workers :
          /\ proc'[v] \in {"solving", "graded", "recorded"} => Alive(v)
          /\ proc[v] = "none" => proc'[v] = "none"
    BY DEF Die, Kill, Alive
  <2>2. \A v \in passes' : proc'[v] \notin {"none", "solving"}
    BY DEF Die, Kill, RunnerInv, TypeOK, Lives
  <2>3. /\ run' = run /\ pending' = pending /\ Mine' = Mine
        /\ Active' <=> Active
        /\ phase' = "done" <=> phase = "done"
    BY DEF Die, control, Mine, Active
  <2>4. QED
    BY <2>1, <2>2, <2>3, LivesStay
<1>4. Room'
  <2>1. Living' \subseteq Living
    BY DEF Die, Kill, Living, Alive
  <2>2. QED
    BY <1>1, <2>1, RoomStays DEF Die, control
<1>5. Papers'
  BY DEF Die, Kill, control, RunnerInv, TypeOK, Papers, Active, Mine, PointsAreForSolutionOnDisk
<1>6. Ends'
  BY LivingAlone
     DEF Die, Kill, control, RunnerInv, TypeOK, Books, Ends, Active, Mine,
         FinishedRunIsComplete
<1>7. QED
  BY <1>1, <1>2, <1>3, <1>4, <1>5, <1>6 DEF RunnerInv

LEMMA PassDeadlineKeeps ==
  ASSUME RunnerInv, NEW w \in Workers, PassDeadline(w)
  PROVE  RunnerInv'
<1>1. TypeOK'
  BY DEF PassDeadline, control, files, RunnerInv, TypeOK
<1>2. Books'
  BY DEF PassDeadline, control, RunnerInv, Books, Active, Mine, Alive
<1>3. Lives'
  BY DEF PassDeadline, control, RunnerInv, Lives, Active, Mine, Living, Alive
<1>4. Room'
  <2>1. Living' \subseteq Living
    BY DEF PassDeadline, Living, Alive
  <2>2. QED
    BY <1>1, <2>1, RoomStays DEF PassDeadline, control
<1>5. Papers'
  BY DEF PassDeadline, control, files, RunnerInv, Papers, Active, Mine,
         PointsAreForSolutionOnDisk
<1>6. Ends'
  BY DEF PassDeadline, control, files, RunnerInv, Ends, Active, Mine, FinishedRunIsComplete
<1>7. QED
  BY <1>1, <1>2, <1>3, <1>4, <1>5, <1>6 DEF RunnerInv

LEMMA LaunchKeeps ==
  ASSUME RunnerInv, Launch
  PROVE  RunnerInv'
<1> PICK p \in pending :
      /\ hand' = <<p, run>>
      /\ pending' = pending \ {p}
      /\ proc' = [proc EXCEPT ![<<p, run>>] = "solving"]
      /\ solution' = [solution EXCEPT ![p] = "none"]
      /\ torn' = torn \ {p}
      /\ result' = [result EXCEPT ![p] = NoResult]
      /\ transcript' = transcript \ {p}
  BY DEF Launch
<1> DEFINE w == <<p, run>>
<1>1. /\ phase = "looping" /\ phase' = "launching" /\ Active /\ Active'
      /\ UNCHANGED <<run, running, overdue, passes, summary>>
      /\ Cardinality(running) < NWorkers
  BY DEF Launch, Active
<1>2. /\ p \in Problems /\ w \in Workers /\ ProblemOf(w) = p /\ w[2] = run
      /\ running \subseteq Workers /\ Mine = running
  BY <1>1 DEF RunnerInv, TypeOK, Books, Workers, ProblemOf, Mine
<1>3. /\ proc[w] = "none" /\ result[p] = NoResult
      /\ \A v \in running : ProblemOf(v) # p
      /\ \A v \in Workers : Alive(v) => ProblemOf(v) # p
  BY <1>1, <1>2 DEF RunnerInv, Books, Lives, Papers, Living
<1> HIDE DEF w
<1>4. /\ hand' = w /\ proc' = [proc EXCEPT ![w] = "solving"]
      /\ Mine' = running \cup {w}
  BY <1>1 DEF w, Mine
<1>5. TypeOK'
  <2>1. NoResult \in [by : Workers \cup {Nobody}, passed : BOOLEAN,
                      status : {"none", "passed", "failed", "timed_out", "harness_error"}]
    BY DEF NoResult
  <2>2. proc' \in [Workers -> {"none", "solving", "graded", "recorded", "ended", "dead"}]
    BY DEF RunnerInv, TypeOK
  <2>3. result' \in [Problems ->
          [by : Workers \cup {Nobody}, passed : BOOLEAN,
           status : {"none", "passed", "failed", "timed_out", "harness_error"}]]
    <3>1. result' = result
      BY <1>3 DEF RunnerInv, TypeOK
    <3>2. QED
      BY <3>1 DEF RunnerInv, TypeOK
  <2>4. QED
    BY <1>1, <2>2, <2>3 DEF RunnerInv, TypeOK
<1>6. result' = result
  BY <1>3 DEF RunnerInv, TypeOK
<1>7. /\ proc'[w] = "solving"
      /\ \A v \in Workers : v # w => proc'[v] = proc[v]
      /\ solution'[p] = "none"
      /\ \A q \in Problems : q # p => solution'[q] = solution[q]
  BY <1>2, <1>4 DEF RunnerInv, TypeOK
<1>8. Books'
  <2>1. \A v \in Mine' : v[2] = run /\ ProblemOf(v) \notin pending'
    BY <1>2, <1>4 DEF RunnerInv, Books
  <2>2. QED
    BY <1>1, <1>2, <1>4 DEF RunnerInv, Books
<1>9. Living' = Living \cup {w}
  BY <1>2, <1>7 DEF Living, Alive
<1>10. Lives'
  <2>1. \A v \in Workers : Alive(v)' => v[2] = run
    BY DEF RunnerInv, Lives, Alive
  <2>2. Living' \subseteq Mine'
    BY <1>1, <1>2, <1>4, <1>9 DEF RunnerInv, Lives
  <2>3. \A v \in Workers : v[2] > run => proc'[v] = "none"
    <3>1. ~(w[2] > run)
      BY <1>2 DEF RunnerInv, TypeOK
    <3>2. QED
      BY <1>7, <3>1 DEF RunnerInv, Lives
  <2>4. \A q \in pending' : proc'[<<q, run>>] = "none"
    <3>1. \A q \in pending : <<q, run>> \in Workers
      BY <1>1 DEF RunnerInv, TypeOK, Books, Workers
    <3>2. QED
      BY <1>1 DEF RunnerInv, Lives
  <2>5. \A v \in passes : v \in Workers /\ proc'[v] \notin {"none", "solving"}
    BY <1>3, <1>7 DEF RunnerInv, TypeOK, Lives
  <2>6. QED
    BY <1>1, <2>1, <2>2, <2>3, <2>4, <2>5 DEF Lives
<1>11. Room'
  <2>1. Living \subseteq running
    BY <1>1, <1>2 DEF RunnerInv, Lives
  <2>2. Living \in SUBSET Workers /\ Living' \in SUBSET Workers /\ running \in SUBSET Workers
    BY <1>2, <1>9, <2>1
  <2>3. /\ Cardinality(Living') <= Cardinality(Living) + 1
        /\ Cardinality(Living) <= Cardinality(running)
        /\ Cardinality(Living) \in Nat /\ Cardinality(Living') \in Nat
        /\ Cardinality(running) \in Nat
    BY <1>9, <2>1, <2>2, SetsOfWorkers
  <2>4. QED
    BY <1>1, <2>3, RunnerAssumption DEF Room
<1>12. Papers'
  <2>1. \A v \in Workers : proc'[v] \in {"graded", "recorded"} =>
          v # w /\ Alive(v) /\ proc[v] = proc'[v] /\ ProblemOf(v) # p /\ ProblemOf(v) \in Problems
    BY <1>3, WorkerFacts DEF Alive
  <2>2. \A v \in Workers : proc'[v] \in {"solving", "graded"} => result[ProblemOf(v)] = NoResult
    BY <1>2, <1>3, <1>7 DEF RunnerInv, Papers
  <2>3. \A v \in Workers : proc'[v] \in {"graded", "recorded"} => solution'[ProblemOf(v)] # "none"
    BY <2>1 DEF RunnerInv, Papers
  <2>4. \A v \in passes : proc'[v] = "graded" => solution'[ProblemOf(v)] = "proof"
    BY <2>1 DEF RunnerInv, TypeOK, Papers
  <2>5. \A q \in Problems : result[q] # NoResult =>
          /\ result[q].by \in Workers /\ ProblemOf(result[q].by) = q
          /\ solution'[q] # "none"
          /\ q \in transcript' \/ proc'[result[q].by] \in {"dead", "recorded"}
    <3> SUFFICES ASSUME NEW q \in Problems, result[q] # NoResult
                 PROVE  /\ result[q].by \in Workers /\ ProblemOf(result[q].by) = q
                        /\ solution'[q] # "none"
                        /\ q \in transcript' \/ proc'[result[q].by] \in {"dead", "recorded"}
      OBVIOUS
    <3>1. /\ result[q].by \in Workers /\ ProblemOf(result[q].by) = q
          /\ solution[q] # "none"
          /\ q \in transcript \/ proc[result[q].by] \in {"dead", "recorded"}
      BY DEF RunnerInv, Papers
    <3>2. q # p /\ result[q].by # w
      BY <1>2, <1>3, <3>1
    <3>3. QED
      BY <1>7, <3>1, <3>2
  <2>6. \A v \in Mine' : result[ProblemOf(v)] # NoResult => result[ProblemOf(v)].by = v
    BY <1>2, <1>3, <1>4 DEF RunnerInv, Papers
  <2>7. \A q \in pending' : result[q] = NoResult
    BY <1>1 DEF RunnerInv, Papers
  <2>8. \A q \in Problems : result[q].passed => solution'[q] = "proof"
    <3>1. ~result[p].passed
      BY <1>3 DEF NoResult
    <3>2. QED
      BY <3>1 DEF RunnerInv, Papers, PointsAreForSolutionOnDisk
  <2>9. QED
    BY <1>1, <1>6, <2>2, <2>3, <2>4, <2>5, <2>6, <2>7, <2>8
       DEF Papers, PointsAreForSolutionOnDisk
<1>13. Ends'
  <2>1. \A v \in Mine' : proc'[v] \in {"recorded", "ended"} => result[ProblemOf(v)] # NoResult
    BY <1>2, <1>4, <1>7 DEF RunnerInv, Ends
  <2>2. \A q \in Problems : \/ q \in pending'
                            \/ \E v \in Mine' : ProblemOf(v) = q
                            \/ result[q] # NoResult
    BY <1>1, <1>2, <1>4 DEF RunnerInv, Ends
  <2>3. QED
    BY <1>1, <1>6, <2>1, <2>2 DEF Ends, FinishedRunIsComplete
<1>14. QED
  BY <1>5, <1>8, <1>10, <1>11, <1>12, <1>13 DEF RunnerInv

LEMMA EnlistKeeps ==
  ASSUME RunnerInv, Enlist
  PROVE  RunnerInv'
<1>1. TypeOK'
  <2>1. hand \in Workers
    BY DEF Enlist, RunnerInv, Books
  <2>2. running' \subseteq Workers
    BY <2>1 DEF Enlist, RunnerInv, TypeOK
  <2>3. QED
    BY <2>2 DEF Enlist, files, RunnerInv, TypeOK
<1>2. Books'
  BY DEF Enlist, RunnerInv, Books, Active, Mine
<1>3. Lives'
  BY DEF Enlist, RunnerInv, Lives, Active, Mine, Living, Alive
<1>4. Room'
  <2>1. Living' = Living
    BY DEF Enlist, Living, Alive
  <2>2. /\ Cardinality(running') <= Cardinality(running) + 1
        /\ Cardinality(running) \in Nat /\ Cardinality(running') \in Nat
    <3>1. running \in SUBSET Workers /\ running' \in SUBSET Workers
      BY <1>1 DEF RunnerInv, TypeOK
    <3>2. QED
      BY <3>1, SetsOfWorkers DEF Enlist
  <2>3. Cardinality(running) < NWorkers /\ Cardinality(Living) <= NWorkers /\ NWorkers \in Nat
    BY RunnerAssumption DEF Enlist, RunnerInv, Room
  <2>4. QED
    BY <2>1, <2>2, <2>3 DEF Enlist, Room
<1>5. Papers'
  BY DEF Enlist, files, RunnerInv, Papers, Active, Mine, PointsAreForSolutionOnDisk
<1>6. Ends'
  BY DEF Enlist, files, RunnerInv, Ends, Active, Mine, FinishedRunIsComplete
<1>7. QED
  BY <1>1, <1>2, <1>3, <1>4, <1>5, <1>6 DEF RunnerInv

LEMMA CollectKeeps ==
  ASSUME RunnerInv, NEW w \in Workers, Collect(w)
  PROVE  RunnerInv'
<1>1. TypeOK'
  BY DEF Collect, files, RunnerInv, TypeOK
<1>2. Books'
  BY DEF Collect, RunnerInv, Books, Active, Mine
<1>3. Lives'
  BY DEF Collect, RunnerInv, Lives, Active, Mine, Living, Alive
<1>4. Room'
  <2>1. Living' \subseteq Living
    BY DEF Collect, Living, Alive
  <2>2. QED
    BY <1>1, <2>1, RoomStays DEF Collect
<1>5. Papers'
  BY DEF Collect, files, RunnerInv, Papers, Active, Mine, PointsAreForSolutionOnDisk
<1>6. Ends'
  BY DEF Collect, files, RunnerInv, Ends, Active, Mine, FinishedRunIsComplete
<1>7. QED
  BY <1>1, <1>2, <1>3, <1>4, <1>5, <1>6 DEF RunnerInv

LEMMA FindDeadKeeps ==
  ASSUME RunnerInv, NEW w \in Workers, FindDead(w)
  PROVE  RunnerInv'
<1>1. TypeOK'
  BY DEF FindDead, files, RunnerInv, TypeOK
<1>2. Books'
  BY DEF FindDead, RunnerInv, Books, Active, Mine, Alive
<1>3. Lives'
  BY DEF FindDead, RunnerInv, Lives, Active, Mine, Living, Alive
<1>4. Room'
  <2>1. Living' \subseteq Living
    BY DEF FindDead, Living, Alive
  <2>2. QED
    BY <1>1, <2>1, RoomStays DEF FindDead
<1>5. Papers'
  BY DEF FindDead, files, RunnerInv, Papers, Active, Mine, PointsAreForSolutionOnDisk
<1>6. Ends'
  BY DEF FindDead, files, RunnerInv, Ends, Active, Mine, FinishedRunIsComplete
<1>7. QED
  BY <1>1, <1>2, <1>3, <1>4, <1>5, <1>6 DEF RunnerInv

LEMMA FindOverdueKeeps ==
  ASSUME RunnerInv, NEW w \in Workers, FindOverdue(w)
  PROVE  RunnerInv'
<1>1. TypeOK'
  BY DEF FindOverdue, files, RunnerInv, TypeOK
<1>2. Books'
  BY DEF FindOverdue, RunnerInv, Books, Active, Mine
<1>3. Lives'
  BY DEF FindOverdue, RunnerInv, Lives, Active, Mine, Living, Alive
<1>4. Room'
  <2>1. Living' \subseteq Living
    BY DEF FindOverdue, Living, Alive
  <2>2. QED
    BY <1>1, <2>1, RoomStays DEF FindOverdue
<1>5. Papers'
  BY DEF FindOverdue, files, RunnerInv, Papers, Active, Mine, PointsAreForSolutionOnDisk
<1>6. Ends'
  BY DEF FindOverdue, files, RunnerInv, Ends, Active, Mine, FinishedRunIsComplete
<1>7. QED
  BY <1>1, <1>2, <1>3, <1>4, <1>5, <1>6 DEF RunnerInv

LEMMA TerminateKeeps ==
  ASSUME RunnerInv, Terminate
  PROVE  RunnerInv'
<1>1. TypeOK'
  <2>1. hand \in Workers /\ ProblemOf(hand) \in Problems
    BY WorkerFacts DEF Terminate, RunnerInv, TypeOK, Books
  <2>2. torn' \subseteq Problems
    BY <2>1 DEF Terminate, Kill, RunnerInv, TypeOK
  <2>3. QED
    BY <2>2 DEF Terminate, Kill, RunnerInv, TypeOK
<1>2. Books'
  BY DEF Terminate, Kill, RunnerInv, TypeOK, Books, Active, Mine, Alive
<1>3. Lives'
  <2>1. \A v \in Workers :
          /\ proc'[v] \in {"solving", "graded", "recorded"} => Alive(v)
          /\ proc[v] = "none" => proc'[v] = "none"
    BY DEF Terminate, Kill, Alive
  <2>2. \A v \in passes' : proc'[v] \notin {"none", "solving"}
    BY DEF Terminate, Kill, RunnerInv, TypeOK, Lives
  <2>3. /\ run' = run /\ pending' = pending /\ Mine' = Mine
        /\ Active' <=> Active
        /\ phase' = "done" <=> phase = "done"
    BY DEF Terminate, Mine, Active
  <2>4. QED
    BY <2>1, <2>2, <2>3, LivesStay
<1>4. Room'
  <2>1. Living' \subseteq Living
    BY DEF Terminate, Kill, Living, Alive
  <2>2. QED
    BY <1>1, <2>1, RoomStays DEF Terminate
<1>5. Papers'
  BY DEF Terminate, Kill, RunnerInv, TypeOK, Papers, Active, Mine, PointsAreForSolutionOnDisk
<1>6. Ends'
  BY DEF Terminate, Kill, RunnerInv, TypeOK, Ends, Active, Mine, FinishedRunIsComplete
<1>7. QED
  BY <1>1, <1>2, <1>3, <1>4, <1>5, <1>6 DEF RunnerInv

LEMMA RecoverKeeps ==
  ASSUME RunnerInv, Recover
  PROVE  RunnerInv'
<1>1. TypeOK'
  <2>1. hand \in Workers /\ ProblemOf(hand) \in Problems
    BY WorkerFacts DEF Recover, RunnerInv, TypeOK, Books
  <2>2. /\ proc' \in [Workers -> {"none", "solving", "graded", "recorded", "ended", "dead"}]
        /\ solution' \in [Problems -> {"none", "challenge", "candidate", "proof"}]
    BY DEF Recover, RunnerInv, TypeOK
  <2>3. result' \in [Problems ->
          [by : Workers \cup {Nobody}, passed : BOOLEAN,
           status : {"none", "passed", "failed", "timed_out", "harness_error"}]]
    <3> DEFINE V == [by : Workers \cup {Nobody}, passed : BOOLEAN,
                     status : {"none", "passed", "failed", "timed_out", "harness_error"}]
    <3>1. \A st \in {"passed", "failed", "timed_out", "harness_error"}, b \in BOOLEAN :
            Verdict(hand, st, b) \in V
      BY <2>1 DEF Verdict
    <3>2. result \in [Problems -> V]
      BY DEF RunnerInv, TypeOK
    <3>3. \/ result' = result
          \/ \E v \in V : result' = [result EXCEPT ![ProblemOf(hand)] = v]
      BY <3>1 DEF Recover
    <3> HIDE DEF V
    <3>4. result' \in [Problems -> V]
      BY <3>2, <3>3
    <3>5. QED
      BY <3>4 DEF V
  <2>4. QED
    BY <2>1, <2>3 DEF Recover, RunnerInv, TypeOK
<1>2. Books'
  BY DEF Recover, RunnerInv, Books, Active, Mine
<1>3. Lives'
  BY DEF Recover, RunnerInv, Books, Lives, Active, Mine, Living, Alive
<1>4. Room'
  <2>1. Living' \subseteq Living
    BY DEF Recover, Living, Alive
  <2>2. QED
    BY <1>1, <2>1, RoomStays DEF Recover
<1>5. Papers'
  BY WorkerFacts
     DEF Recover, Verdict, RunnerInv, TypeOK, Books, Lives, Papers, Mine, Alive,
         PointsAreForSolutionOnDisk
<1>6. Ends'
  <2>1. /\ Active /\ Active' /\ hand \in Workers /\ ProblemOf(hand) \in Problems
        /\ Mine = running /\ Mine' = running \ {hand} /\ running \subseteq Workers
    BY WorkerFacts DEF Recover, Active, Mine, RunnerInv, TypeOK, Books
  <2>2. /\ result'[ProblemOf(hand)] # NoResult
        /\ \A p \in Problems : p # ProblemOf(hand) => result'[p] = result[p]
    <3>1. \A st, b : Verdict(hand, st, b) # NoResult
      BY <2>1, WorkerFacts DEF Verdict, NoResult
    <3> DEFINE V == Verdict(hand,
                            IF phase = "timing_out" THEN "timed_out" ELSE "harness_error", FALSE)
    <3>2. result' = [result EXCEPT ![ProblemOf(hand)] = V] /\ DOMAIN result = Problems
      BY DEF Recover, RunnerInv, TypeOK
    <3>3. V # NoResult
      BY <3>1
    <3> HIDE DEF V
    <3>4. QED
      BY <2>1, <3>2, <3>3
  <2>3. \A p \in Problems : result[p] # NoResult => result'[p] # NoResult
    BY <2>2
  <2>4. \A v \in Mine' : proc'[v] \in {"recorded", "ended"} => result'[ProblemOf(v)] # NoResult
    BY <2>1, <2>3, WorkerFacts DEF Recover, RunnerInv, Ends
  <2>5. \A p \in Problems : \/ p \in pending
                            \/ \E v \in Mine' : ProblemOf(v) = p
                            \/ result'[p] # NoResult
    BY <2>1, <2>2 DEF RunnerInv, Ends
  <2>6. phase' # "done" /\ pending' = pending
    BY DEF Recover
  <2>7. QED
    BY <2>4, <2>5, <2>6 DEF Ends, FinishedRunIsComplete
<1>7. QED
  BY <1>1, <1>2, <1>3, <1>4, <1>5, <1>6 DEF RunnerInv

LEMMA RecoverRaisesKeeps ==
  ASSUME RunnerInv, RecoverRaises
  PROVE  RunnerInv'
<1>1. TypeOK'
  BY WorkerFacts DEF RecoverRaises, Kill, RunnerInv, TypeOK
<1>2. Books'
  BY DEF RecoverRaises, Books, Active, Mine
<1>3. Lives'
  BY DEF RecoverRaises, Kill, RunnerInv, TypeOK, Lives, Active, Mine, Living, Alive
<1>4. Room'
  <2>1. Living' \subseteq Living
    BY DEF RecoverRaises, Kill, Living, Alive
  <2>2. QED
    BY <1>1, <2>1, RoomStays DEF RecoverRaises
<1>5. Papers'
  BY DEF RecoverRaises, Kill, RunnerInv, TypeOK, Papers, Active, Mine,
         PointsAreForSolutionOnDisk
<1>6. Ends'
  BY DEF RecoverRaises, Ends, Active, Mine, FinishedRunIsComplete
<1>7. QED
  BY <1>1, <1>2, <1>3, <1>4, <1>5, <1>6 DEF RunnerInv

LEMMA FinishKeeps ==
  ASSUME RunnerInv, Finish
  PROVE  RunnerInv'
<1>1. TypeOK'
  BY DEF Finish, files, RunnerInv, TypeOK
<1>2. Books'
  BY DEF Finish, Books, Active, Mine
<1>3. Lives'
  BY DEF Finish, RunnerInv, Lives, Active, Mine, Living, Alive
<1>4. Room'
  <2>1. Living' \subseteq Living
    BY DEF Finish, Living, Alive
  <2>2. QED
    BY <1>1, <2>1, RoomStays DEF Finish
<1>5. Papers'
  BY DEF Finish, files, RunnerInv, Papers, Mine, PointsAreForSolutionOnDisk
<1>6. Ends'
  <2>1. /\ Active /\ ~Active' /\ Mine = {} /\ Mine' = {} /\ pending = {}
        /\ UNCHANGED <<result, solution, transcript, proc>>
    BY DEF Finish, files, Active, Mine
  <2>2. \A p \in Problems : result[p] # NoResult
    BY <2>1 DEF RunnerInv, Ends
  <2>3. \A p \in Problems : /\ solution[p] # "none" /\ result[p].by \in Workers
                            /\ p \in transcript \/ proc[result[p].by] \in {"dead", "recorded"}
    BY <2>2 DEF RunnerInv, Papers
  <2>4. \A v \in Workers : proc[v] # "recorded"
    BY <2>1 DEF RunnerInv, Lives, Living, Alive
  <2>5. summary' = {p \in Problems : result[p].passed}
    BY DEF Finish
  <2>6. FinishedRunIsComplete'
    BY <2>1, <2>2, <2>3, <2>4, <2>5 DEF FinishedRunIsComplete
  <2>7. QED
    BY <2>1, <2>6 DEF Ends
<1>7. QED
  BY <1>1, <1>2, <1>3, <1>4, <1>5, <1>6 DEF RunnerInv

LEMMA StartKeeps ==
  ASSUME RunnerInv, Start
  PROVE  RunnerInv'
<1>1. TypeOK'
  <2>1. run' \in 0..MaxRuns
    BY RunnerAssumption DEF Start, RunnerInv, TypeOK
  <2>2. pending' \subseteq Problems
    BY DEF Start
  <2>3. QED
    BY <2>1 DEF Start, files, RunnerInv, TypeOK
<1>2. Books'
  BY DEF Start, RunnerInv, TypeOK, Books, Mine
<1>3. Lives'
  <2>1. Living = {} /\ run \in Nat /\ run' = run + 1
    BY DEF Start, RunnerInv, TypeOK, Lives, Active
  <2>2. \A v \in Workers : ~Alive(v)'
    BY <2>1 DEF Start, Living, Alive
  <2>3. \A v \in Workers : v[2] > run => proc'[v] = "none"
    BY DEF Start, RunnerInv, Lives
  <2>4. \A v \in Workers : v[2] > run' => proc'[v] = "none"
    BY <2>1, <2>3, WorkerFacts
  <2>5. \A p \in pending' : proc'[<<p, run'>>] = "none"
    <3>1. \A p \in pending' : <<p, run'>> \in Workers
      BY <1>1, <2>1 DEF TypeOK, Workers
    <3>2. run' > run
      BY <2>1
    <3>3. QED
      BY <2>3, <3>1, <3>2
  <2>6. \A v \in passes' : proc'[v] \notin {"none", "solving"}
    BY DEF Start, RunnerInv, Lives
  <2>7. QED
    BY <2>2, <2>4, <2>5, <2>6 DEF Lives, Living
<1>4. Room'
  <2>1. Living' \subseteq Living
    BY DEF Start, Living, Alive
  <2>2. QED
    BY <1>1, <2>1, RoomStays DEF Start
<1>5. Papers'
  BY DEF Start, files, RunnerInv, Papers, Mine, PointsAreForSolutionOnDisk
<1>6. Ends'
  BY DEF Start, files, Ends, Mine, FinishedRunIsComplete
<1>7. QED
  BY <1>1, <1>2, <1>3, <1>4, <1>5, <1>6 DEF RunnerInv

LEMMA InterruptKeeps ==
  ASSUME RunnerInv, Interrupt
  PROVE  RunnerInv'
<1>1. TypeOK'
  BY WorkerFacts DEF Interrupt, Kill, RunnerInv, TypeOK
<1>2. Books'
  BY DEF Interrupt, Books, Active, Mine
<1>3. Lives'
  BY DEF Interrupt, Kill, RunnerInv, TypeOK, Lives, Active, Mine, Living, Alive
<1>4. Room'
  <2>1. Living' \subseteq Living
    BY DEF Interrupt, Kill, Living, Alive
  <2>2. QED
    BY <1>1, <2>1, RoomStays DEF Interrupt
<1>5. Papers'
  BY DEF Interrupt, Kill, RunnerInv, TypeOK, Papers, Active, Mine, PointsAreForSolutionOnDisk
<1>6. Ends'
  BY DEF Interrupt, Ends, Active, Mine, FinishedRunIsComplete
<1>7. QED
  BY <1>1, <1>2, <1>3, <1>4, <1>5, <1>6 DEF RunnerInv

LEMMA VanishKeeps ==
  ASSUME RunnerInv, Vanish
  PROVE  RunnerInv'
<1>1. TypeOK'
  BY DEF Vanish, files, RunnerInv, TypeOK
<1>2. Books'
  BY DEF Vanish, Books, Active, Mine
<1>3. Lives'
  BY DEF Vanish, RunnerInv, Lives, Active, Living, Alive
<1>4. Room'
  <2>1. Living' \subseteq Living
    BY DEF Vanish, Living, Alive
  <2>2. QED
    BY <1>1, <2>1, RoomStays DEF Vanish
<1>5. Papers'
  BY DEF Vanish, files, RunnerInv, Papers, Active, Mine, PointsAreForSolutionOnDisk
<1>6. Ends'
  BY DEF Vanish, Ends, Active, Mine, FinishedRunIsComplete
<1>7. QED
  BY <1>1, <1>2, <1>3, <1>4, <1>5, <1>6 DEF RunnerInv

LEMMA InitHolds == Init => RunnerInv
<1> SUFFICES ASSUME Init PROVE RunnerInv
  OBVIOUS
<1>1. TypeOK
  <2>1. NoResult \in [by : Workers \cup {Nobody}, passed : BOOLEAN,
                      status : {"none", "passed", "failed", "timed_out", "harness_error"}]
    BY DEF NoResult
  <2>2. result \in [Problems ->
          [by : Workers \cup {Nobody}, passed : BOOLEAN,
           status : {"none", "passed", "failed", "timed_out", "harness_error"}]]
    BY <2>1 DEF Init
  <2>3. QED
    BY <2>2, RunnerAssumption DEF Init, TypeOK
<1>2. Mine = {} /\ Living = {} /\ ~Active
  BY DEF Init, Mine, Living, Alive, Active
<1>3. Books /\ Lives
  BY <1>2 DEF Init, Books, Lives, Living
<1>4. Room
  <2>1. Cardinality({}) = 0
    BY FS_EmptySet
  <2>2. QED
    BY <1>2, <2>1, RunnerAssumption DEF Init, Room
<1>5. Papers /\ Ends
  BY <1>2 DEF Init, Papers, Ends, PointsAreForSolutionOnDisk, FinishedRunIsComplete, NoResult
<1>6. QED
  BY <1>1, <1>3, <1>4, <1>5 DEF RunnerInv

LEMMA UnchangedKeeps ==
  ASSUME RunnerInv, UNCHANGED vars
  PROVE  RunnerInv'
BY DEF vars, RunnerInv, TypeOK, Books, Lives, Room, Papers, Ends, Active, Mine, Living, Alive,
       PointsAreForSolutionOnDisk, FinishedRunIsComplete

LEMMA StepHolds == RunnerInv /\ [Next]_vars => RunnerInv'
<1> SUFFICES ASSUME RunnerInv, [Next]_vars PROVE RunnerInv'
  OBVIOUS
<1>1. ASSUME NEW w \in Workers, WorkerStep(w) \/ Die(w) \/ PassDeadline(w)
      PROVE  RunnerInv'
  BY <1>1, CheckpointKeeps, GradeKeeps, RecordKeeps, TranscribeKeeps, DieKeeps,
     PassDeadlineKeeps
     DEF WorkerStep
<1>2. ASSUME RunnerStep
      PROVE  RunnerInv'
  BY <1>2, LaunchKeeps, EnlistKeeps, CollectKeeps, FindDeadKeeps, FindOverdueKeeps,
     TerminateKeeps, RecoverKeeps, RecoverRaisesKeeps, FinishKeeps
     DEF RunnerStep
<1>3. QED
  BY <1>1, <1>2, StartKeeps, InterruptKeeps, VanishKeeps, UnchangedKeeps DEF Next

-----------------------------------------------------------------------------
(* The theorems.                                                             *)

LEMMA InvariantHolds == Spec => []RunnerInv
<1>1. RunnerInv /\ [Next]_vars => RunnerInv'
  BY StepHolds
<1>2. QED
  BY <1>1, InitHolds, PTL DEF Spec

\* The runner's variables have their types.
THEOREM RunnerTypes == Spec => []TypeOK
<1>1. RunnerInv => TypeOK
  BY DEF RunnerInv
<1>2. QED
  BY <1>1, InvariantHolds, PTL

\* docs/AGENT_API.md:78-80: never more workers than --n-workers, and never two of
\* one problem, for any number of problems, interruptions and resumptions.
THEOREM WorkersAlwaysContained == Spec => []WorkersContained
<1>1. RunnerInv => WorkersContained
  <2> SUFFICES ASSUME RunnerInv PROVE WorkersContained
    OBVIOUS
  <2>1. Cardinality(Living) <= NWorkers
    BY DEF RunnerInv, Room
  <2>2. \A v, w \in Living : ProblemOf(v) = ProblemOf(w) => v = w
    BY LivingAlone DEF Living
  <2>3. QED
    BY <2>1, <2>2 DEF WorkersContained, Living
<1>2. QED
  BY <1>1, InvariantHolds, PTL

\* A point on disk is always for the solution on disk.
THEOREM PointsStayWithSolutions == Spec => []PointsAreForSolutionOnDisk
<1>1. RunnerInv => PointsAreForSolutionOnDisk
  BY DEF RunnerInv, Papers
<1>2. QED
  BY <1>1, InvariantHolds, PTL

\* A run that finishes has accounted for every problem.
THEOREM FinishedRunsAreComplete == Spec => []FinishedRunIsComplete
<1>1. RunnerInv => FinishedRunIsComplete
  BY DEF RunnerInv, Ends
<1>2. QED
  BY <1>1, InvariantHolds, PTL

\* docs/OUTPUTS.md:32-33: a result that a run finds on disk is there when it ends.
THEOREM ResultsAlwaysSurvive == Spec => ResultsSurviveResume
<1> DEFINE Kept == \A p \in Problems :
                     result[p] # NoResult /\ result[p].by[2] < run => result'[p] = result[p]
<1>1. RunnerInv /\ [Next]_vars => [Kept]_vars
  <2> SUFFICES ASSUME RunnerInv, Next,
                      NEW p \in Problems, result[p] # NoResult, result[p].by[2] < run
               PROVE  result'[p] = result[p]
    OBVIOUS
  <2>1. run \in Nat /\ DOMAIN result = Problems
    BY DEF RunnerInv, TypeOK
  <2>2. ASSUME NEW w \in Workers, Record(w)
        PROVE  result'[p] = result[p]
    <3>1. result[ProblemOf(w)] = NoResult
      BY <2>2 DEF Record, RunnerInv, Papers
    <3>2. QED
      BY <2>1, <2>2, <3>1 DEF Record
  <2>3. CASE Launch
    <3>1. \A q \in pending : result[q] = NoResult
      BY <2>3 DEF Launch, Active, RunnerInv, Papers
    <3>2. QED
      BY <2>3, <3>1 DEF Launch
  <2>4. CASE Recover
    <3>1. hand \in Mine /\ hand[2] = run
      BY <2>4 DEF Recover, Mine, RunnerInv, Books
    <3>2. ProblemOf(hand) # p
      <4>1. result[ProblemOf(hand)] # NoResult => result[ProblemOf(hand)].by = hand
        BY <3>1 DEF RunnerInv, Papers
      <4>2. QED
        BY <2>1, <3>1, <4>1
    <3>3. QED
      BY <2>1, <2>4, <3>2 DEF Recover
  <2>5. \/ \E w \in Workers : Record(w)
        \/ Launch \/ Recover
        \/ result' = result
    BY DEF Next, WorkerStep, RunnerStep, Checkpoint, Grade, Transcribe, Die, PassDeadline,
           Enlist, Collect, FindDead, FindOverdue, Terminate, RecoverRaises, Finish, Start,
           Interrupt, Vanish, files
  <2>6. QED
    BY <2>2, <2>3, <2>4, <2>5
<1>2. [][Kept]_vars => ResultsSurviveResume
  BY PTL DEF ResultsSurviveResume
<1>3. QED
  BY <1>1, <1>2, InvariantHolds, PTL DEF Spec
=============================================================================
