----------------------------- MODULE LeanSession -----------------------------
(***************************************************************************)
(* The warm Lean REPL of one problem and the Comparator run that follows:   *)
(* LeanClient and compare_solution of re_harness/lean.py, driven by the     *)
(* solve-then-verify order of re_harness/worker.py.                         *)
(*                                                                          *)
(* A check is two things: the coroutine the agent awaits (co) and the OS    *)
(* thread that asyncio.to_thread gave it (th).  Threads take the client's   *)
(* RLock one at a time, restart the container if it is gone, send the body  *)
(* and wait for the reply.  Cancelling the coroutine does not stop the      *)
(* thread: the handler removes the container from outside the lock.  All    *)
(* containers of the problem, the Comparator's too, carry one session       *)
(* label, and cleanup_session_containers removes whatever carries it.       *)
(***************************************************************************)
EXTENDS Integers, FiniteSets

CONSTANT Checks   \* the check_file calls the agent may make

ASSUME SessionAssumption == IsFiniteSet(Checks)

Gens == 0..Cardinality(Checks)   \* containers ever launched, 0 for none: each
                                 \* check launches at most one

VARIABLES
  co,          \* coroutine of each check
  th,          \* thread of each check
  lock,        \* holder of _lock: {} or one check (the worker holds it for one step)
  gen,         \* number of REPL containers launched
  live,        \* REPL containers that run
  proc,        \* _proc: the container the client is attached to, or 0
  named,       \* _container_name is set
  baseEnv,     \* _base_env: the container its environment number came from, or 0
  abandoned,   \* containers that still owe the reply to a request given up
  work,        \* stage of worker._run
  cmp          \* the Comparator's container

vars == <<co, th, lock, gen, live, proc, named, baseEnv, abandoned, work, cmp>>
repl == <<gen, live, proc, named, baseEnv, abandoned>>

Init ==
  /\ co = [k \in Checks |-> "idle"]
  /\ th = [k \in Checks |-> "idle"]
  /\ lock = {}
  /\ gen = 0
  /\ live = {}
  /\ proc = 0
  /\ named = FALSE
  /\ baseEnv = 0
  /\ abandoned = {}
  /\ work = "solving"
  /\ cmp = "none"

Thread(k, stage) == th' = [th EXCEPT ![k] = stage]
Coroutine(k, stage) == co' = [co EXCEPT ![k] = stage]

\* cleanup_session_containers(session_id): the label does not tell a REPL from
\* a Comparator.
CleanupSession ==
  /\ live' = {}
  /\ cmp' = IF cmp = "running" THEN "removed" ELSE cmp

\* close(), the lock taken: detach, let the container go, clean up.
CloseSession ==
  /\ CleanupSession
  /\ proc' = 0
  /\ named' = FALSE
  /\ baseEnv' = 0
  /\ UNCHANGED <<gen, abandoned>>

\* docker rm -f by name: whichever container runs under it.
RemoveNamed == live' = IF named THEN {} ELSE live

-----------------------------------------------------------------------------
(* A check: check_file submits _check_file_sync to a thread. *)

CallCheck(k) ==
  /\ work = "solving" /\ co[k] = "idle"
  /\ Coroutine(k, "awaiting")
  /\ Thread(k, "queued")
  /\ UNCHANGED <<lock, repl, work, cmp>>

\* The source is over the size limit, refused before the lock is asked for.
RefuseSource(k) ==
  /\ th[k] = "queued"
  /\ Thread(k, "done")
  /\ UNCHANGED <<co, lock, repl, work, cmp>>

\* _ensure_alive finds the process running: the body goes to it.
UseRepl(k) ==
  /\ th[k] = "queued" /\ lock = {}
  /\ proc # 0 /\ proc \in live
  /\ lock' = {k}
  /\ Thread(k, "sending")
  /\ UNCHANGED <<co, repl, work, cmp>>

\* Mutant: start() does not wait for the lock.
BeginStartUnlocked(k) ==
  /\ th[k] = "queued"
  /\ proc \notin live
  /\ lock' = {k}
  /\ CleanupSession
  /\ named' = TRUE
  /\ Thread(k, "starting")
  /\ UNCHANGED <<co, gen, proc, baseEnv, abandoned, work>>

\* _ensure_alive finds none: start() removes what is left of the session.
BeginStart(k) ==
  /\ th[k] = "queued" /\ lock = {}
  /\ proc \notin live
  /\ lock' = {k}
  /\ CleanupSession
  /\ named' = TRUE
  /\ Thread(k, "starting")
  /\ UNCHANGED <<co, gen, proc, baseEnv, abandoned, work>>

\* start() finds no docker and raises before touching anything.
DockerMissing(k) ==
  /\ th[k] = "queued" /\ lock = {}
  /\ proc \notin live
  /\ Thread(k, "done")
  /\ UNCHANGED <<co, lock, repl, work, cmp>>

\* start() launches the container and asks it to import Mathlib.
Launch(k) ==
  /\ th[k] = "starting"
  /\ gen' = gen + 1
  /\ live' = live \cup {gen + 1}
  /\ proc' = gen + 1
  /\ Thread(k, "importing")
  /\ UNCHANGED <<co, lock, named, baseEnv, abandoned, work, cmp>>

\* Mutant: the base environment of the first container is kept for all.
ImportedKeepsBase(k) ==
  /\ th[k] = "importing" /\ proc \in live
  /\ baseEnv' = IF baseEnv = 0 THEN proc ELSE baseEnv
  /\ Thread(k, "sending")
  /\ UNCHANGED <<co, lock, gen, live, proc, named, abandoned, work, cmp>>

\* The import succeeded: its environment is the base of every later check, and
\* the body is sent.
Imported(k) ==
  /\ th[k] = "importing" /\ proc \in live
  /\ baseEnv' = proc
  /\ Thread(k, "sending")
  /\ UNCHANGED <<co, lock, gen, live, proc, named, abandoned, work, cmp>>

\* Mutant: a failed import is tried again, without end.
ImportFailedRetries(k) ==
  /\ th[k] = "importing"
  /\ CloseSession
  /\ Thread(k, "starting")
  /\ UNCHANGED <<co, lock, work>>

\* The import failed, timed out or lost its container: start() closes the
\* session (the lock is re-entrant) and raises.
ImportFailed(k) ==
  /\ th[k] = "importing"
  /\ CloseSession
  /\ lock' = {}
  /\ Thread(k, "done")
  /\ UNCHANGED <<co, work>>

\* _send returns the reply.
Reply(k) ==
  /\ th[k] = "sending" /\ proc \in live
  /\ lock' = {}
  /\ Thread(k, "done")
  /\ UNCHANGED <<co, repl, work, cmp>>

\* Mutant: the lock is not given back when the process is found dead.
ReplDiedHoldingLock(k) ==
  /\ th[k] = "sending" /\ proc \notin live
  /\ proc' = 0
  /\ Thread(k, "done")
  /\ UNCHANGED <<co, lock, gen, live, named, baseEnv, abandoned, work, cmp>>

\* Mutant: a reply that is late is given up and the container kept.
GiveUpOnReplyKeepsRepl(k) ==
  /\ th[k] = "sending" /\ proc \in live
  /\ abandoned' = abandoned \cup {proc}
  /\ lock' = {}
  /\ Thread(k, "done")
  /\ UNCHANGED <<co, gen, live, proc, named, baseEnv, work, cmp>>

\* _send finds the pipe closed or reads end of file.
ReplDied(k) ==
  /\ th[k] = "sending" /\ proc \notin live
  /\ proc' = 0
  /\ lock' = {}
  /\ Thread(k, "done")
  /\ UNCHANGED <<co, gen, live, named, baseEnv, abandoned, work, cmp>>

\* _send gives up on a reply that is late, too long or not of the protocol: the
\* container goes, and its late answer with it.
GiveUpOnReply(k) ==
  /\ th[k] = "sending" /\ proc \in live
  /\ RemoveNamed
  /\ proc' = 0
  /\ abandoned' = abandoned \cup {proc}
  /\ lock' = {}
  /\ Thread(k, "done")
  /\ UNCHANGED <<co, gen, named, baseEnv, work, cmp>>

\* The thread's result reaches the coroutine.
CheckReturns(k) ==
  /\ co[k] = "awaiting" /\ th[k] = "done"
  /\ Coroutine(k, "ended")
  /\ UNCHANGED <<th, lock, repl, work, cmp>>

-----------------------------------------------------------------------------
(* Cancellation: check_file's handler, _force_remove in a thread of its own. *)

\* wait_for runs out: every check in flight is cancelled.
AgentTimesOut ==
  /\ work = "solving"
  /\ work' = "stopping"
  /\ co' = [k \in Checks |-> IF co[k] = "awaiting" THEN "removing" ELSE co[k]]
  /\ UNCHANGED <<th, lock, repl, cmp>>

\* _force_remove, first half: docker rm -f, without the lock.
ForceRemove(k) ==
  /\ co[k] = "removing"
  /\ RemoveNamed
  /\ Coroutine(k, "killing")
  /\ UNCHANGED <<th, lock, gen, proc, named, baseEnv, abandoned, work, cmp>>

\* _force_remove, second half: kill the attached client, if there is one.  The
\* reader thread may have cleared _proc between the test and the kill, in which
\* case the handler ends with an AttributeError; either way it is over.
ForceKill(k) ==
  /\ co[k] = "killing"
  /\ live' = live \ {proc}
  /\ Coroutine(k, "ended")
  /\ UNCHANGED <<th, lock, gen, proc, named, baseEnv, abandoned, work, cmp>>

-----------------------------------------------------------------------------
(* The worker: solve, close the REPL, run the Comparator, close again. *)

Quiet == \A k \in Checks : co[k] \in {"idle", "ended"}

\* The agent returned, or wait_for has collected the cancelled agent.
SolveEnds ==
  /\ work \in {"solving", "stopping"} /\ Quiet
  /\ work' = "closing"
  /\ UNCHANGED <<co, th, lock, repl, cmp>>

\* lean.close(), first call.
CloseRepl ==
  /\ work = "closing" /\ lock = {}
  /\ CloseSession
  /\ work' = "closed"
  /\ UNCHANGED <<co, th, lock>>

\* compare_solution starts its container under the same label.
StartComparator ==
  /\ work = "closed"
  /\ cmp' = "running"
  /\ work' = "comparing"
  /\ UNCHANGED <<co, th, lock, repl>>

\* The Comparator exits by itself, or its container was removed under it, or it
\* times out; compare_solution cleans up in every case.
ComparatorEnds ==
  /\ work = "comparing"
  /\ cmp' \in IF cmp = "running" THEN {"verdict", "timeout"} ELSE {cmp}
  /\ live' = {}
  /\ work' = "finishing"
  /\ UNCHANGED <<co, th, lock, gen, proc, named, baseEnv, abandoned>>

\* The finally clause: lean.close() again, then the label once more.
Finish ==
  /\ work = "finishing" /\ lock = {}
  /\ CloseSession
  /\ work' = "done"
  /\ UNCHANGED <<co, th, lock>>

ThreadStep(k) ==
  \/ RefuseSource(k) \/ UseRepl(k) \/ BeginStart(k) \/ DockerMissing(k) \/ Launch(k)
  \/ Imported(k) \/ ImportFailed(k) \/ Reply(k) \/ ReplDied(k) \/ GiveUpOnReply(k)

HandlerStep(k) == CheckReturns(k) \/ ForceRemove(k) \/ ForceKill(k)

WorkerStep ==
  SolveEnds \/ CloseRepl \/ StartComparator \/ ComparatorEnds \/ Finish

Next ==
  \/ \E k \in Checks : CallCheck(k) \/ ThreadStep(k) \/ HandlerStep(k)
  \/ AgentTimesOut
  \/ WorkerStep

\* Threads are scheduled by the system and every wait of theirs is bounded by a
\* timeout; the agent is bounded by wait_for.
Fairness ==
  /\ \A k \in Checks : WF_vars(ThreadStep(k)) /\ WF_vars(HandlerStep(k))
  /\ WF_vars(AgentTimesOut)
  /\ WF_vars(WorkerStep)

Spec == Init /\ [][Next]_vars /\ Fairness

-----------------------------------------------------------------------------
(* Properties. *)

TypeOK ==
  /\ co \in [Checks -> {"idle", "awaiting", "removing", "killing", "ended"}]
  /\ th \in [Checks -> {"idle", "queued", "starting", "importing", "sending", "done"}]
  /\ lock \in {{}} \cup {{k} : k \in Checks}
  /\ gen \in Gens
  /\ live \subseteq Gens \ {0}
  /\ proc \in Gens
  /\ named \in BOOLEAN
  /\ baseEnv \in Gens
  /\ abandoned \subseteq Gens \ {0}
  /\ work \in {"solving", "stopping", "closing", "closed", "comparing", "finishing", "done"}
  /\ cmp \in {"none", "running", "removed", "verdict", "timeout"}

\* docs/AGENT_API.md:62-63: every check branches from the clean Mathlib
\* environment of the container it is sent to, never from an environment number
\* a removed container handed out.
ChecksUseOwnEnvironment ==
  \A k \in Checks : th[k] = "sending" => proc # 0 /\ baseEnv = proc

\* No check reads the late reply of an earlier one: a request that was given up
\* takes its container with it before the next body is sent.
NoStaleReply ==
  \A k \in Checks : th[k] = "sending" => proc \notin abandoned

\* Cancellations, restarts and cleanups never leave two REPL containers of one
\* problem running, nor one the client has lost track of while no thread works.
OneRepl ==
  /\ Cardinality(live) <= 1
  /\ lock = {} => live \subseteq {proc}

\* However checks and cancellations interleave, the worker gets past close()
\* and the Comparator: the lock is always given back.
VerificationCompletes == (work # "solving") ~> (work = "done")

\* docs/SECURITY.md:32-34: the warm REPL "cannot affect ... the final verdict",
\* and lean.py:119-121: the reader returns "before final verification can begin".
ComparatorUndisturbed == cmp # "removed"
=============================================================================
