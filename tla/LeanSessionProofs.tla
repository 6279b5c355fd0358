--------------------------- MODULE LeanSessionProofs ---------------------------
(*****************************************************************************)
(* What holds of the Lean session for any number of checks.                  *)
(*****************************************************************************)
EXTENDS LeanSession, FiniteSetTheorems, TLAPS

-----------------------------------------------------------------------------
(* The inductive invariant.                                                  *)

Working == {"starting", "importing", "sending"}

\* Types, without the bound on launches that only the number of checks gives.
Types ==
  /\ co \in [Checks -> {"idle", "awaiting", "removing", "killing", "ended"}]
  /\ th \in [Checks -> {"idle", "queued", "done"} \cup Working]
  /\ lock \in {{}} \cup {{k} : k \in Checks}
  /\ gen \in Nat
  /\ proc \in Nat
  /\ named \in BOOLEAN

\* The thread that works is the one that holds the lock, and one that was called.
Holds ==
  \A k \in Checks : /\ th[k] \in Working <=> lock = {k}
                    /\ co[k] = "idle" => th[k] = "idle"

\* Only the container the client is attached to may run, and under a name that
\* removes it; none does while one is being started.
Attached ==
  /\ live \subseteq {proc} \ {0}
  /\ live # {} => named
  /\ \A k \in Checks : th[k] \in Working => named
  /\ \A k \in Checks : th[k] = "starting" => live = {}

\* A number is given to one container; one that owes an answer is not attached.
Fresh ==
  /\ proc <= gen
  /\ \A g \in abandoned : g \in 1..gen /\ g # proc

\* A container that can be used has given its environment number.
Based ==
  /\ lock = {} /\ proc \in live => baseEnv = proc
  /\ \A k \in Checks : th[k] = "importing" => proc # 0
  /\ \A k \in Checks : th[k] = "sending" => proc # 0 /\ baseEnv = proc

LeanInv == Types /\ Holds /\ Attached /\ Fresh /\ Based

-----------------------------------------------------------------------------
(* One lemma for each step.                                                  *)

\* A thread that works is the only one.
LEMMA OneWorks ==
  ASSUME LeanInv, NEW k \in Checks, th[k] \in Working
  PROVE  lock = {k} /\ \A j \in Checks : j # k => th[j] \notin Working
BY DEF LeanInv, Holds

LEMMA CallCheckKeeps ==
  ASSUME LeanInv, NEW k \in Checks, CallCheck(k)
  PROVE  LeanInv'
<1>1. Types'
  BY DEF CallCheck, Coroutine, Thread, repl, LeanInv, Types
<1>2. Holds'
  BY DEF CallCheck, Coroutine, Thread, LeanInv, Types, Working, Holds
<1>3. Attached'
  BY DEF CallCheck, Thread, repl, LeanInv, Working, Attached
<1>4. Fresh'
  BY DEF CallCheck, repl, LeanInv, Fresh
<1>5. Based'
  BY DEF CallCheck, Thread, repl, LeanInv, Based
<1>6. QED
  BY <1>1, <1>2, <1>3, <1>4, <1>5 DEF LeanInv

LEMMA RefuseSourceKeeps ==
  ASSUME LeanInv, NEW k \in Checks, RefuseSource(k)
  PROVE  LeanInv'
<1>1. Types'
  BY DEF RefuseSource, Thread, repl, LeanInv, Types
<1>2. Holds'
  BY DEF RefuseSource, Thread, LeanInv, Working, Holds
<1>3. Attached'
  BY DEF RefuseSource, Thread, repl, LeanInv, Working, Attached
<1>4. Fresh'
  BY DEF RefuseSource, repl, LeanInv, Fresh
<1>5. Based'
  BY DEF RefuseSource, Thread, repl, LeanInv, Based
<1>6. QED
  BY <1>1, <1>2, <1>3, <1>4, <1>5 DEF LeanInv

LEMMA UseReplKeeps ==
  ASSUME LeanInv, NEW k \in Checks, UseRepl(k)
  PROVE  LeanInv'
<1>1. Types'
  BY DEF UseRepl, Thread, repl, LeanInv, Types, Working
<1>2. Holds'
  BY DEF UseRepl, Thread, LeanInv, Types, Working, Holds
<1>3. Attached'
  BY DEF UseRepl, Thread, repl, LeanInv, Attached
<1>4. Fresh'
  BY DEF UseRepl, repl, LeanInv, Fresh
<1>5. Based'
  BY DEF UseRepl, repl, LeanInv, Based
<1>6. QED
  BY <1>1, <1>2, <1>3, <1>4, <1>5 DEF LeanInv

LEMMA BeginStartKeeps ==
  ASSUME LeanInv, NEW k \in Checks, BeginStart(k)
  PROVE  LeanInv'
<1>1. Types'
  BY DEF BeginStart, Thread, LeanInv, Types, Working
<1>2. Holds'
  BY DEF BeginStart, Thread, LeanInv, Types, Working, Holds
<1>3. Attached'
  BY DEF BeginStart, CleanupSession, Attached
<1>4. Fresh'
  BY DEF BeginStart, LeanInv, Fresh
<1>5. Based'
  BY DEF BeginStart, Thread, LeanInv, Based
<1>6. QED
  BY <1>1, <1>2, <1>3, <1>4, <1>5 DEF LeanInv

LEMMA DockerMissingKeeps ==
  ASSUME LeanInv, NEW k \in Checks, DockerMissing(k)
  PROVE  LeanInv'
<1>1. Types'
  BY DEF DockerMissing, Thread, repl, LeanInv, Types
<1>2. Holds'
  BY DEF DockerMissing, Thread, LeanInv, Working, Holds
<1>3. Attached'
  BY DEF DockerMissing, Thread, repl, LeanInv, Working, Attached
<1>4. Fresh'
  BY DEF DockerMissing, repl, LeanInv, Fresh
<1>5. Based'
  BY DEF DockerMissing, Thread, repl, LeanInv, Based
<1>6. QED
  BY <1>1, <1>2, <1>3, <1>4, <1>5 DEF LeanInv

LEMMA LaunchKeeps ==
  ASSUME LeanInv, NEW k \in Checks, Launch(k)
  PROVE  LeanInv'
<1>1. Types'
  BY DEF Launch, Thread, LeanInv, Types, Working
<1>2. Holds'
  BY DEF Launch, Thread, LeanInv, Working, Holds
<1>3. Attached'
  BY OneWorks DEF Launch, Thread, LeanInv, Types, Attached
<1>4. Fresh'
  BY DEF Launch, LeanInv, Types, Fresh
<1>5. Based'
  BY OneWorks DEF Launch, Thread, LeanInv, Types, Based
<1>6. QED
  BY <1>1, <1>2, <1>3, <1>4, <1>5 DEF LeanInv

LEMMA ImportedKeeps ==
  ASSUME LeanInv, NEW k \in Checks, Imported(k)
  PROVE  LeanInv'
<1>1. Types'
  BY DEF Imported, Thread, LeanInv, Types, Working
<1>2. Holds'
  BY DEF Imported, Thread, LeanInv, Working, Holds
<1>3. Attached'
  BY DEF Imported, Thread, LeanInv, Attached
<1>4. Fresh'
  BY DEF Imported, LeanInv, Fresh
<1>5. Based'
  BY DEF Imported, LeanInv, Based
<1>6. QED
  BY <1>1, <1>2, <1>3, <1>4, <1>5 DEF LeanInv

LEMMA ImportFailedKeeps ==
  ASSUME LeanInv, NEW k \in Checks, ImportFailed(k)
  PROVE  LeanInv'
<1>1. Types'
  BY DEF ImportFailed, CloseSession, Thread, LeanInv, Types
<1>2. Holds'
  BY DEF ImportFailed, Thread, LeanInv, Types, Working, Holds
<1>3. Attached'
  BY OneWorks
     DEF ImportFailed, CloseSession, CleanupSession, Thread, LeanInv, Types, Working, Attached
<1>4. Fresh'
  BY DEF ImportFailed, CloseSession, LeanInv, Types, Fresh
<1>5. Based'
  BY OneWorks DEF ImportFailed, CloseSession, Thread, LeanInv, Types, Based
<1>6. QED
  BY <1>1, <1>2, <1>3, <1>4, <1>5 DEF LeanInv

LEMMA ReplyKeeps ==
  ASSUME LeanInv, NEW k \in Checks, Reply(k)
  PROVE  LeanInv'
<1>1. Types'
  BY DEF Reply, Thread, repl, LeanInv, Types
<1>2. Holds'
  BY DEF Reply, Thread, LeanInv, Types, Working, Holds
<1>3. Attached'
  BY DEF Reply, Thread, repl, LeanInv, Attached
<1>4. Fresh'
  BY DEF Reply, repl, LeanInv, Fresh
<1>5. Based'
  BY DEF Reply, repl, LeanInv, Based
<1>6. QED
  BY <1>1, <1>2, <1>3, <1>4, <1>5 DEF LeanInv

LEMMA ReplDiedKeeps ==
  ASSUME LeanInv, NEW k \in Checks, ReplDied(k)
  PROVE  LeanInv'
<1>1. Types'
  BY DEF ReplDied, Thread, LeanInv, Types
<1>2. Holds'
  BY DEF ReplDied, Thread, LeanInv, Types, Working, Holds
<1>3. Attached'
  BY DEF ReplDied, LeanInv, Working, Attached
<1>4. Fresh'
  BY DEF ReplDied, LeanInv, Types, Fresh
<1>5. Based'
  BY OneWorks DEF ReplDied, Thread, LeanInv, Types, Attached, Based
<1>6. QED
  BY <1>1, <1>2, <1>3, <1>4, <1>5 DEF LeanInv

LEMMA GiveUpOnReplyKeeps ==
  ASSUME LeanInv, NEW k \in Checks, GiveUpOnReply(k)
  PROVE  LeanInv'
<1>1. Types'
  BY DEF GiveUpOnReply, Thread, LeanInv, Types
<1>2. Holds'
  BY DEF GiveUpOnReply, Thread, LeanInv, Types, Working, Holds
<1>3. Attached'
  BY DEF GiveUpOnReply, RemoveNamed, LeanInv, Attached
<1>4. Fresh'
  BY DEF GiveUpOnReply, LeanInv, Types, Attached, Fresh
<1>5. Based'
  BY OneWorks DEF GiveUpOnReply, RemoveNamed, Thread, LeanInv, Types, Attached, Based
<1>6. QED
  BY <1>1, <1>2, <1>3, <1>4, <1>5 DEF LeanInv

LEMMA CheckReturnsKeeps ==
  ASSUME LeanInv, NEW k \in Checks, CheckReturns(k)
  PROVE  LeanInv'
<1>1. Types'
  BY DEF CheckReturns, Coroutine, repl, LeanInv, Types
<1>2. Holds'
  BY DEF CheckReturns, Coroutine, LeanInv, Holds
<1>3. Attached'
  BY DEF CheckReturns, repl, LeanInv, Attached
<1>4. Fresh'
  BY DEF CheckReturns, repl, LeanInv, Fresh
<1>5. Based'
  BY DEF CheckReturns, repl, LeanInv, Based
<1>6. QED
  BY <1>1, <1>2, <1>3, <1>4, <1>5 DEF LeanInv

LEMMA ForceRemoveKeeps ==
  ASSUME LeanInv, NEW k \in Checks, ForceRemove(k)
  PROVE  LeanInv'
<1>1. Types'
  BY DEF ForceRemove, Coroutine, LeanInv, Types
<1>2. Holds'
  BY DEF ForceRemove, Coroutine, LeanInv, Holds
<1>3. Attached'
  BY DEF ForceRemove, RemoveNamed, LeanInv, Attached
<1>4. Fresh'
  BY DEF ForceRemove, LeanInv, Fresh
<1>5. Based'
  BY DEF ForceRemove, RemoveNamed, LeanInv, Based
<1>6. QED
  BY <1>1, <1>2, <1>3, <1>4, <1>5 DEF LeanInv

LEMMA ForceKillKeeps ==
  ASSUME LeanInv, NEW k \in Checks, ForceKill(k)
  PROVE  LeanInv'
<1>1. Types'
  BY DEF ForceKill, Coroutine, LeanInv, Types
<1>2. Holds'
  BY DEF ForceKill, Coroutine, LeanInv, Holds
<1>3. Attached'
  BY DEF ForceKill, LeanInv, Attached
<1>4. Fresh'
  BY DEF ForceKill, LeanInv, Fresh
<1>5. Based'
  BY DEF ForceKill, LeanInv, Based
<1>6. QED
  BY <1>1, <1>2, <1>3, <1>4, <1>5 DEF LeanInv

LEMMA AgentTimesOutKeeps ==
  ASSUME LeanInv, AgentTimesOut
  PROVE  LeanInv'
<1>1. Types'
  BY DEF AgentTimesOut, repl, LeanInv, Types
<1>2. Holds'
  BY DEF AgentTimesOut, LeanInv, Holds
<1>3. Attached'
  BY DEF AgentTimesOut, repl, LeanInv, Attached
<1>4. Fresh'
  BY DEF AgentTimesOut, repl, LeanInv, Fresh
<1>5. Based'
  BY DEF AgentTimesOut, repl, LeanInv, Based
<1>6. QED
  BY <1>1, <1>2, <1>3, <1>4, <1>5 DEF LeanInv

LEMMA SolveEndsKeeps ==
  ASSUME LeanInv, SolveEnds
  PROVE  LeanInv'
<1>1. Types'
  BY DEF SolveEnds, repl, LeanInv, Types
<1>2. Holds'
  BY DEF SolveEnds, LeanInv, Holds
<1>3. Attached'
  BY DEF SolveEnds, repl, LeanInv, Attached
<1>4. Fresh'
  BY DEF SolveEnds, repl, LeanInv, Fresh
<1>5. Based'
  BY DEF SolveEnds, repl, LeanInv, Based
<1>6. QED
  BY <1>1, <1>2, <1>3, <1>4, <1>5 DEF LeanInv

LEMMA CloseReplKeeps ==
  ASSUME LeanInv, CloseRepl
  PROVE  LeanInv'
<1>1. Types'
  BY DEF CloseRepl, CloseSession, LeanInv, Types
<1>2. Holds'
  BY DEF CloseRepl, LeanInv, Holds
<1>3. Attached'
  BY DEF CloseRepl, CloseSession, CleanupSession, LeanInv, Holds, Attached
<1>4. Fresh'
  BY DEF CloseRepl, CloseSession, LeanInv, Types, Fresh
<1>5. Based'
  BY DEF CloseRepl, CloseSession, LeanInv, Working, Holds, Based
<1>6. QED
  BY <1>1, <1>2, <1>3, <1>4, <1>5 DEF LeanInv

LEMMA StartComparatorKeeps ==
  ASSUME LeanInv, StartComparator
  PROVE  LeanInv'
<1>1. Types'
  BY DEF StartComparator, repl, LeanInv, Types
<1>2. Holds'
  BY DEF StartComparator, LeanInv, Holds
<1>3. Attached'
  BY DEF StartComparator, repl, LeanInv, Attached
<1>4. Fresh'
  BY DEF StartComparator, repl, LeanInv, Fresh
<1>5. Based'
  BY DEF StartComparator, repl, LeanInv, Based
<1>6. QED
  BY <1>1, <1>2, <1>3, <1>4, <1>5 DEF LeanInv

LEMMA ComparatorEndsKeeps ==
  ASSUME LeanInv, ComparatorEnds
  PROVE  LeanInv'
<1>1. Types'
  BY DEF ComparatorEnds, LeanInv, Types
<1>2. Holds'
  BY DEF ComparatorEnds, LeanInv, Holds
<1>3. Attached'
  BY DEF ComparatorEnds, LeanInv, Attached
<1>4. Fresh'
  BY DEF ComparatorEnds, LeanInv, Fresh
<1>5. Based'
  BY DEF ComparatorEnds, LeanInv, Based
<1>6. QED
  BY <1>1, <1>2, <1>3, <1>4, <1>5 DEF LeanInv

LEMMA FinishKeeps ==
  ASSUME LeanInv, Finish
  PROVE  LeanInv'
<1>1. Types'
  BY DEF Finish, CloseSession, LeanInv, Types
<1>2. Holds'
  BY DEF Finish, LeanInv, Holds
<1>3. Attached'
  BY DEF Finish, CloseSession, CleanupSession, LeanInv, Holds, Attached
<1>4. Fresh'
  BY DEF Finish, CloseSession, LeanInv, Types, Fresh
<1>5. Based'
  BY DEF Finish, CloseSession, LeanInv, Working, Holds, Based
<1>6. QED
  BY <1>1, <1>2, <1>3, <1>4, <1>5 DEF LeanInv

LEMMA InitHolds == Init => LeanInv
<1> SUFFICES ASSUME Init PROVE LeanInv
  OBVIOUS
<1>1. Types
  BY DEF Init, Types
<1>2. Holds
  BY DEF Init, Holds, Working
<1>3. Attached /\ Fresh /\ Based
  BY DEF Init, Attached, Fresh, Based, Working
<1>4. QED
  BY <1>1, <1>2, <1>3 DEF LeanInv

LEMMA StepHolds == LeanInv /\ [Next]_vars => LeanInv'
<1> SUFFICES ASSUME LeanInv, [Next]_vars PROVE LeanInv'
  OBVIOUS
<1>1. ASSUME NEW k \in Checks, CallCheck(k) \/ ThreadStep(k) \/ HandlerStep(k)
      PROVE  LeanInv'
  BY <1>1, CallCheckKeeps, RefuseSourceKeeps, UseReplKeeps, BeginStartKeeps,
     DockerMissingKeeps, LaunchKeeps, ImportedKeeps, ImportFailedKeeps, ReplyKeeps,
     ReplDiedKeeps, GiveUpOnReplyKeeps, CheckReturnsKeeps, ForceRemoveKeeps, ForceKillKeeps
     DEF ThreadStep, HandlerStep
<1>2. ASSUME WorkerStep
      PROVE  LeanInv'
  BY <1>2, SolveEndsKeeps, CloseReplKeeps, StartComparatorKeeps, ComparatorEndsKeeps,
     FinishKeeps
     DEF WorkerStep
<1>3. CASE UNCHANGED vars
  BY <1>3 DEF vars, LeanInv, Types, Holds, Attached, Fresh, Based
<1>4. QED
  BY <1>1, <1>2, <1>3, AgentTimesOutKeeps DEF Next

LEMMA InvariantHolds == Spec => []LeanInv
BY InitHolds, StepHolds, PTL DEF Spec

-----------------------------------------------------------------------------
(* The theorems.                                                             *)

\* Every check branches from the environment of the container it is sent to.
THEOREM ChecksAlwaysUseOwnEnvironment == Spec => []ChecksUseOwnEnvironment
<1>1. LeanInv => ChecksUseOwnEnvironment
  BY DEF LeanInv, Based, ChecksUseOwnEnvironment
<1>2. QED
  BY <1>1, InvariantHolds, PTL

\* No check is sent to a container that still owes an answer.
THEOREM NoReplyIsStale == Spec => []NoStaleReply
<1>1. LeanInv => NoStaleReply
  BY DEF LeanInv, Fresh, NoStaleReply
<1>2. QED
  BY <1>1, InvariantHolds, PTL

\* Never two REPL containers, and none that the client has lost track of.
THEOREM AtMostOneRepl == Spec => []OneRepl
<1>1. LeanInv => OneRepl
  <2> SUFFICES ASSUME LeanInv PROVE OneRepl
    OBVIOUS
  <2>1. live \subseteq {proc}
    BY DEF LeanInv, Attached
  <2>2. live = {} \/ live = {proc}
    BY <2>1
  <2>3. Cardinality(live) <= 1
    <3>1. Cardinality({}) = 0 /\ Cardinality({proc}) = 1
      BY FS_EmptySet, FS_Singleton
    <3>2. QED
      BY <2>2, <3>1
  <2>4. QED
    BY <2>1, <2>3 DEF OneRepl
<1>2. QED
  BY <1>1, InvariantHolds, PTL

-----------------------------------------------------------------------------
(* The number of containers.                                                 *)

\* The checks that may still launch a container.
Unlaunched == {k \in Checks : th[k] \in {"idle", "queued", "starting"}}

\* Each container launched used up one of them.
LaunchInv ==
  /\ gen + Cardinality(Unlaunched) <= Cardinality(Checks)
  /\ baseEnv \in 0..gen
  /\ work \in {"solving", "stopping", "closing", "closed", "comparing", "finishing", "done"}
  /\ cmp \in {"none", "running", "removed", "verdict", "timeout"}

LEMMA UnlaunchedIsFinite ==
  /\ IsFiniteSet(Unlaunched) /\ Cardinality(Unlaunched) \in Nat
  /\ Cardinality(Checks) \in Nat /\ Cardinality(Unlaunched) <= Cardinality(Checks)
<1>1. IsFiniteSet(Checks) /\ Unlaunched \subseteq Checks
  BY SessionAssumption DEF Unlaunched
<1>2. /\ IsFiniteSet(Unlaunched)
      /\ Cardinality(Unlaunched) <= Cardinality(Checks)
  BY <1>1, FS_Subset
<1>3. QED
  BY <1>1, <1>2, FS_CardinalityType

\* No check takes back a launch.
LEMMA LaunchIsOnce ==
  ASSUME LeanInv, NEW k \in Checks, Launch(k)
  PROVE  gen' = gen + 1 /\ k \in Unlaunched /\ Unlaunched' = Unlaunched \ {k}
<1>1. th[k] = "starting" /\ gen' = gen + 1 /\ th' = [th EXCEPT ![k] = "importing"]
  BY DEF Launch, Thread
<1>2. th'[k] = "importing" /\ \A j \in Checks : j # k => th'[j] = th[j]
  BY <1>1 DEF LeanInv, Types
<1>3. QED
  BY <1>1, <1>2 DEF Unlaunched

LEMMA OthersLaunchNothing ==
  ASSUME LeanInv, [Next]_vars, ~(\E k \in Checks : Launch(k))
  PROVE  gen' = gen /\ Unlaunched' \subseteq Unlaunched
<1> DEFINE Goal == gen' = gen /\ Unlaunched' \subseteq Unlaunched
<1>1. ASSUME NEW k \in Checks, NEW stage \in {"queued", "importing", "sending", "done"},
             gen' = gen, Thread(k, stage), stage = "queued" => th[k] = "idle"
      PROVE  Goal
  <2>1. /\ th'[k] = stage /\ \A j \in Checks : j # k => th'[j] = th[j]
    BY <1>1 DEF Thread, LeanInv, Types
  <2>2. QED
    BY <1>1, <2>1 DEF Unlaunched
<1>2. ASSUME NEW k \in Checks, gen' = gen, Thread(k, "starting"), th[k] = "queued"
      PROVE  Goal
  <2>1. /\ th'[k] = "starting" /\ \A j \in Checks : j # k => th'[j] = th[j]
    BY <1>2 DEF Thread, LeanInv, Types
  <2>2. QED
    BY <1>2, <2>1 DEF Unlaunched
<1>3. ASSUME gen' = gen, th' = th
      PROVE  Goal
  BY <1>3 DEF Unlaunched
<1>4. ASSUME NEW k \in Checks, CallCheck(k)
      PROVE  Goal
  <2>1. gen' = gen /\ Thread(k, "queued") /\ th[k] = "idle"
    BY <1>4 DEF CallCheck, repl, LeanInv, Holds
  <2> HIDE DEF Goal
  <2>2. QED
    BY <1>1, <2>1
<1>5. ASSUME NEW k \in Checks, ThreadStep(k)
      PROVE  Goal
  <2>1. CASE BeginStart(k)
    BY <1>2, <2>1 DEF BeginStart
  <2>2. CASE ~BeginStart(k)
    <3>1. gen' = gen /\ (Thread(k, "done") \/ Thread(k, "sending"))
      BY <1>5, <2>2 DEF ThreadStep, RefuseSource, UseRepl, DockerMissing, Imported,
           ImportFailed, CloseSession, Reply, ReplDied, GiveUpOnReply, repl
    <3> HIDE DEF Goal
    <3>2. QED
      BY <1>1, <3>1
  <2>3. QED
    BY <2>1, <2>2
<1>6. ASSUME NEW k \in Checks, HandlerStep(k)
      PROVE  Goal
  <2>1. gen' = gen /\ th' = th
    BY <1>6 DEF HandlerStep, CheckReturns, ForceRemove, ForceKill, repl
  <2>2. QED
    BY <1>3, <2>1
<1>7. CASE AgentTimesOut \/ WorkerStep \/ UNCHANGED vars
  <2>1. gen' = gen /\ th' = th
    BY <1>7 DEF AgentTimesOut, WorkerStep, SolveEnds, CloseRepl, CloseSession,
         StartComparator, ComparatorEnds, Finish, repl, vars
  <2>2. QED
    BY <1>3, <2>1
<1>8. QED
  BY <1>4, <1>5, <1>6, <1>7 DEF Next

LEMMA BaseStays ==
  ASSUME LeanInv, LaunchInv, [Next]_vars
  PROVE  /\ baseEnv' \in {baseEnv, proc, 0}
         /\ work' \in {"solving", "stopping", "closing", "closed", "comparing", "finishing",
                       "done"}
         /\ cmp' \in {"none", "running", "removed", "verdict", "timeout"}
<1>1. ASSUME NEW k \in Checks, CallCheck(k) \/ ThreadStep(k)
      PROVE  /\ baseEnv' \in {baseEnv, proc, 0} /\ work' = work
             /\ cmp' \in {cmp, "removed"}
  BY <1>1 DEF CallCheck, ThreadStep, RefuseSource, UseRepl, BeginStart, DockerMissing, Launch,
     Imported, ImportFailed, CloseSession, CleanupSession, Reply, ReplDied, GiveUpOnReply, repl
<1>2. ASSUME NEW k \in Checks, HandlerStep(k)
      PROVE  baseEnv' = baseEnv /\ work' = work /\ cmp' = cmp
  BY <1>2 DEF HandlerStep, CheckReturns, ForceRemove, ForceKill, repl
<1>3. CASE AgentTimesOut
  BY <1>3 DEF AgentTimesOut, repl, LaunchInv
<1>4. CASE WorkerStep
  BY <1>4 DEF WorkerStep, SolveEnds, CloseRepl, CloseSession, CleanupSession,
     StartComparator, ComparatorEnds, Finish, repl, LaunchInv
<1>5. CASE UNCHANGED vars
  BY <1>5 DEF vars, LaunchInv
<1>6. QED
  BY <1>1, <1>2, <1>3, <1>4, <1>5 DEF Next, LaunchInv

LEMMA LaunchStep == LeanInv /\ LaunchInv /\ [Next]_vars => LaunchInv'
<1> SUFFICES ASSUME LeanInv, LaunchInv, [Next]_vars
             PROVE  LaunchInv'
  OBVIOUS
<1>1. /\ gen \in Nat /\ proc \in 0..gen /\ baseEnv \in 0..gen
      /\ gen + Cardinality(Unlaunched) <= Cardinality(Checks)
  BY DEF LeanInv, Types, Fresh, LaunchInv
<1>2. gen' + Cardinality(Unlaunched') <= Cardinality(Checks) /\ gen' \in {gen, gen + 1}
  <2>1. /\ IsFiniteSet(Unlaunched) /\ Cardinality(Unlaunched) \in Nat
        /\ Cardinality(Checks) \in Nat
    BY UnlaunchedIsFinite
  <2>2. ASSUME NEW k \in Checks, Launch(k)
        PROVE  gen' + Cardinality(Unlaunched') <= Cardinality(Checks) /\ gen' = gen + 1
    <3>1. gen' = gen + 1 /\ k \in Unlaunched /\ Unlaunched' = Unlaunched \ {k}
      BY <2>2, LaunchIsOnce
    <3>2. Cardinality(Unlaunched \ {k}) = Cardinality(Unlaunched) - 1
      BY <2>1, <3>1, FS_RemoveElement
    <3>3. QED
      BY <1>1, <2>1, <3>1, <3>2
  <2>3. ASSUME ~(\E k \in Checks : Launch(k))
        PROVE  gen' + Cardinality(Unlaunched') <= Cardinality(Checks) /\ gen' = gen
    <3>1. gen' = gen /\ Unlaunched' \subseteq Unlaunched
      BY <2>3, OthersLaunchNothing
    <3>2. Cardinality(Unlaunched') <= Cardinality(Unlaunched) /\ Cardinality(Unlaunched') \in Nat
      BY <2>1, <3>1, FS_Subset, FS_CardinalityType
    <3>3. QED
      BY <1>1, <2>1, <3>1, <3>2
  <2>4. QED
    BY <2>2, <2>3
<1>3. baseEnv' \in 0..gen'
  <2>1. baseEnv' \in {baseEnv, proc, 0}
    BY BaseStays
  <2>2. QED
    BY <1>1, <1>2, <2>1
<1>4. QED
  BY <1>2, <1>3, BaseStays DEF LaunchInv

\* However often the REPL dies or is removed, the session launches no more containers than
\* the agent makes checks; and every variable keeps its type.
THEOREM SessionTypesCorrect == Spec => []TypeOK
<1>1. Init => LaunchInv
  <2> SUFFICES ASSUME Init
               PROVE  LaunchInv
    OBVIOUS
  <2>1. gen = 0 /\ baseEnv = 0 /\ work = "solving" /\ cmp = "none"
    BY DEF Init
  <2>2. Cardinality(Unlaunched) \in Nat /\ Cardinality(Unlaunched) <= Cardinality(Checks)
    BY UnlaunchedIsFinite
  <2>3. QED
    BY <2>1, <2>2 DEF LaunchInv
<1>2. LeanInv /\ LaunchInv => TypeOK
  <2> SUFFICES ASSUME LeanInv, LaunchInv
               PROVE  TypeOK
    OBVIOUS
  <2>1. /\ gen \in Nat /\ Cardinality(Checks) \in Nat /\ Cardinality(Unlaunched) \in Nat
        /\ gen + Cardinality(Unlaunched) <= Cardinality(Checks)
        /\ proc \in 0..gen /\ baseEnv \in 0..gen
        /\ live \subseteq {proc} \ {0} /\ \A g \in abandoned : g \in 1..gen
    BY UnlaunchedIsFinite DEF LeanInv, Types, Fresh, Attached, LaunchInv
  <2>2. gen <= Cardinality(Checks)
    BY <2>1
  <2>3. gen \in Gens /\ proc \in Gens /\ baseEnv \in Gens
    BY <2>1, <2>2 DEF Gens
  <2>4. live \subseteq Gens \ {0} /\ abandoned \subseteq Gens \ {0}
    BY <2>1, <2>2 DEF Gens
  <2>5. QED
    BY <2>3, <2>4 DEF TypeOK, LeanInv, Types, LaunchInv, Working
<1>3. QED
  BY <1>1, <1>2, LaunchStep, InvariantHolds, PTL DEF Spec
=============================================================================
