------------------------------ MODULE LLMClient ------------------------------
(***************************************************************************)
(* LLMClient.complete() of re_harness/llm.py against one ledger, one event  *)
(* log and one metered provider, with the calls of an agent in flight at    *)
(* the same time.                                                           *)
(*                                                                          *)
(* complete() runs on the agent's event loop and gives up control only at   *)
(* the HTTP post, so the stretch before the post and the stretch after it   *)
(* are one action each.  A call's pc says where its reservation is:         *)
(*   idle      not made yet                                                 *)
(*   refused   reserve() raised; nothing was sent                           *)
(*   posted    reserved, logged, waiting for the provider                   *)
(*   settled   booked at the reported cost                                  *)
(*   released  a 429 that reported no cost                                  *)
(*   unknown   given up; the ledger is closed                               *)
(*   stranded  complete() raised past every handler and kept the            *)
(*             reservation                                                  *)
(* The provider serves a request at a time of its own, also after the       *)
(* client stopped waiting, and meters billed[c] for it.  The runner may     *)
(* kill the process at any point and then rebuilds the spend from the log.  *)
(***************************************************************************)
EXTENDS BudgetLedger

CONSTANTS
  Bills,         \* the costs the provider may meter for a request
  MarginHolds,   \* TRUE: a bill never exceeds the call's own reservation
  LogMayFail     \* TRUE: an append to events.jsonl may raise

ASSUME ClientAssumption ==
  /\ Bills \subseteq Nat
  /\ MarginHolds \in BOOLEAN
  /\ LogMayFail \in BOOLEAN

Stages == {"idle", "refused", "posted", "settled", "released", "unknown", "stranded"}

VARIABLES
  pc,         \* stage of each call
  asked,      \* reserve_usd of each admitted call, as in its llm_request event
  net,        \* the request at the provider: absent, sent or served
  billed,     \* what the provider has metered for each call
  log,        \* the last llm_* event of each call in events.jsonl
  alive,      \* the worker process runs
  recovered   \* -1, or the spend the runner rebuilt from the log of a killed worker

vars == <<spent, reservations, complete, pc, asked, net, billed, log, alive, recovered>>

LogEntries == {"nothing", "request", "response", "billed", "free", "unknown"}

Init ==
  /\ LedgerInit
  /\ pc = [c \in Calls |-> "idle"]
  /\ asked = [c \in Calls |-> 0]
  /\ net = [c \in Calls |-> "absent"]
  /\ billed = [c \in Calls |-> 0]
  /\ log = [c \in Calls |-> "nothing"]
  /\ alive = TRUE
  /\ recovered = -1

\* EventLogger.emit: the entry is on disk, or emit raised and it is not.
Emit(c, entry) ==
  \/ log' = [log EXCEPT ![c] = entry]
  \/ LogMayFail /\ UNCHANGED log

Move(c, stage) == pc' = [pc EXCEPT ![c] = stage]

-----------------------------------------------------------------------------
(* The client. *)

\* reserve() raises BudgetExceeded or BudgetAccountingError.
Refuse(c, amount) ==
  /\ alive /\ pc[c] = "idle"
  /\ ~CanReserve(amount)
  /\ Move(c, "refused")
  /\ UNCHANGED <<ledgerVars, asked, net, billed, log, alive, recovered>>

\* Reserve, log the request, post it.
Send(c, amount) ==
  /\ alive /\ pc[c] = "idle"
  /\ Reserve(c, amount)
  /\ asked' = [asked EXCEPT ![c] = amount]
  /\ Move(c, "posted")
  /\ net' = [net EXCEPT ![c] = "sent"]
  /\ log' = [log EXCEPT ![c] = "request"]
  /\ UNCHANGED <<billed, alive, recovered>>

\* The llm_request event cannot be written.  emit() is called between
\* reserve() and the try block, so nothing takes the reservation back.
RequestLogFails(c, amount) ==
  /\ LogMayFail
  /\ alive /\ pc[c] = "idle"
  /\ Reserve(c, amount)
  /\ asked' = [asked EXCEPT ![c] = amount]
  /\ Move(c, "stranded")
  /\ UNCHANGED <<net, billed, log, alive, recovered>>

Answered(c) == alive /\ pc[c] = "posted" /\ net[c] = "served"

\* A success response with usage and a first choice.
Succeed(c) ==
  /\ Answered(c)
  /\ Settle(c, billed[c])
  /\ Move(c, "settled")
  /\ Emit(c, "response")
  /\ UNCHANGED <<asked, net, billed, alive, recovered>>

\* Mutant: the refusal's cost is booked and not written down.
RefusedAtACostUnlogged(c) ==
  /\ Answered(c)
  /\ Settle(c, billed[c])
  /\ Move(c, "settled")
  /\ Emit(c, "free")
  /\ UNCHANGED <<asked, net, billed, alive, recovered>>

\* A 429 whose body reports a cost.
RefusedAtACost(c) ==
  /\ Answered(c)
  /\ Settle(c, billed[c])
  /\ Move(c, "settled")
  /\ Emit(c, "billed")
  /\ UNCHANGED <<asked, net, billed, alive, recovered>>

\* A 429 that reports no cost: the provider refused before generating.
RefusedForFree(c) ==
  /\ Answered(c) /\ billed[c] = 0
  /\ Release(c)
  /\ Move(c, "released")
  /\ Emit(c, "free")
  /\ UNCHANGED <<asked, net, billed, alive, recovered>>

GiveUp(c) ==
  /\ MarkUnknown(c)
  /\ Move(c, "unknown")
  /\ Emit(c, "unknown")
  /\ UNCHANGED <<asked, net, billed, alive, recovered>>

\* Mutant: every error status is taken for a refusal before generation.
UncertainReleased(c) ==
  /\ Answered(c)
  /\ Release(c)
  /\ Move(c, "released")
  /\ Emit(c, "free")
  /\ UNCHANGED <<asked, net, billed, alive, recovered>>

\* Any other error status, or a success body the parser's except clause
\* (ValueError, KeyError, IndexError, TypeError) catches.
Uncertain(c) == Answered(c) /\ GiveUp(c)

\* Mutant: a cancelled post hands its reservation back.
InterruptedReleases(c) ==
  /\ alive /\ pc[c] = "posted"
  /\ Release(c)
  /\ Move(c, "unknown")
  /\ Emit(c, "unknown")
  /\ UNCHANGED <<asked, net, billed, alive, recovered>>

\* The post itself raises: a transport error, a timeout, or the agent's
\* cancellation.  The provider may or may not have the request.
Interrupted(c) == alive /\ pc[c] = "posted" /\ GiveUp(c)

\* A success body whose first choice is not an object: choice.get raises
\* AttributeError, which the except clause does not name.
MalformedChoice(c) ==
  /\ Answered(c)
  /\ Move(c, "stranded")
  /\ UNCHANGED <<ledgerVars, asked, net, billed, log, alive, recovered>>

-----------------------------------------------------------------------------
(* The provider, and the runner's kill. *)

\* The provider finishes a request and meters it, whether or not anyone waits.
Serve(c) ==
  /\ net[c] = "sent"
  /\ \E b \in Bills :
       /\ MarginHolds => b <= asked[c]
       /\ billed' = [billed EXCEPT ![c] = b]
  /\ net' = [net EXCEPT ![c] = "served"]
  /\ UNCHANGED <<ledgerVars, pc, asked, log, alive, recovered>>

\* What the log attributes to calls whose last event is one of kinds.
Logged(kinds) ==
  Total([c \in Calls |-> IF log[c] \in kinds THEN billed[c] ELSE 0], NumCalls)

\* The worker is killed (runner deadline, interruption, out of memory) and
\* _recover_worker rebuilds spent_usd from the llm_response events.
KillAndRecover ==
  /\ alive
  /\ alive' = FALSE
  /\ recovered' = Logged({"response"})
  /\ UNCHANGED <<ledgerVars, pc, asked, net, billed, log>>

ClientStep(c) ==
  \/ \E amount \in Amounts :
       Refuse(c, amount) \/ Send(c, amount) \/ RequestLogFails(c, amount)
  \/ Succeed(c)
  \/ RefusedAtACost(c)
  \/ RefusedForFree(c)
  \/ Uncertain(c)
  \/ Interrupted(c)
  \/ MalformedChoice(c)

Next ==
  \/ \E c \in Calls : ClientStep(c) \/ Serve(c)
  \/ KillAndRecover

Spec == Init /\ [][Next]_vars

-----------------------------------------------------------------------------
(* Properties. *)

TypeOK ==
  /\ spent \in Nat
  /\ reservations \in [Calls -> Nat]
  /\ complete \in BOOLEAN
  /\ pc \in [Calls -> Stages]
  /\ asked \in [Calls -> Nat]
  /\ net \in [Calls -> {"absent", "sent", "served"}]
  /\ billed \in [Calls -> Nat]
  /\ log \in [Calls -> LogEntries]
  /\ alive \in BOOLEAN
  /\ recovered \in Nat \cup {-1}

TrueSpend == Total(billed, NumCalls)

\* Whenever grading would find the ledger within its limit, the ledger's
\* figure is the provider's: every dollar metered for any call ever sent has
\* been booked, none is still outstanding, and the total is within the limit.
\* This is what entitles worker._run to score a problem by its own snapshot,
\* whatever calls were cancelled, refused, malformed or never logged.
WithinLimitIsTruthful ==
  WithinLimit => TrueSpend = spent /\ TrueSpend <= Limit

\* If a bill never exceeds its call's reservation, the provider's total never
\* exceeds the problem budget: not with calls in flight, not after cancelled
\* calls are billed late, not after the ledger closed or the worker was killed
\* (RULES.md:38-39, "to avoid a final-call overshoot").
SpendIsCapped == MarginHolds => TrueSpend <= Limit

\* What the ledger booked is what events.jsonl explains, and the bills of calls that were
\* settled when their last event could not be written: nothing else parts spend and log.
LastEventLost(c) == LogMayFail /\ pc[c] = "settled" /\ log[c] = "request"

BookedSpendIsLogged ==
  spent = Total([c \in Calls |-> IF log[c] \in {"response", "billed"} \/ LastEventLost(c)
                                 THEN billed[c] ELSE 0], NumCalls)

\* A ledger that may still admit a call knows of every outstanding request:
\* each request that could still be billed, or was billed and not booked, has
\* its reservation in place.
OpenLedgerCoversRequests ==
  complete => \A c \in Calls :
    net[c] # "absent" /\ pc[c] \notin {"settled", "released"} => reservations[c] = asked[c]

\* docs/AGENT_API.md:47-49: "malformed success responses ... close the ledger".
MalformedSuccessClosesLedger ==
  \A c \in Calls : pc[c] = "stranded" /\ net[c] = "served" => ~complete

\* RULES.md:40-41: "If an error response reports usage.cost, that cost is
\* counted", in the spend the runner reports for a killed worker too.
RecoveredSpendCountsBilledErrors ==
  recovered >= 0 => recovered = Logged({"response", "billed"})

-----------------------------------------------------------------------------
(* The inductive invariant behind them: what a call's stage says about its  *)
(* reservation, its request and its bill, and what the ledger has booked.   *)

CallInv(c) ==
  /\ pc[c] \in {"posted", "stranded"} => reservations[c] = asked[c] /\ asked[c] > 0
  /\ pc[c] \notin {"posted", "stranded"} => reservations[c] = 0
  /\ pc[c] \in {"idle", "refused"} => net[c] = "absent"
  /\ pc[c] \in {"settled", "released"} => net[c] = "served"
  /\ pc[c] = "released" => billed[c] = 0
  /\ pc[c] = "unknown" => ~complete
  /\ net[c] # "served" => billed[c] = 0
  /\ MarginHolds => billed[c] <= asked[c]

Booked == [c \in Calls |-> IF pc[c] = "settled" THEN billed[c] ELSE 0]

\* Each call's stage, reservation, request and bill agree, and the ledger's
\* spend is the sum of the bills of the calls it settled.
BooksAgree ==
  /\ \A c \in Calls : CallInv(c)
  /\ spent = Total(Booked, NumCalls)

-----------------------------------------------------------------------------
(* The promise implemented. *)

\* The most call c can still turn out to have cost: what it asked for until
\* its cost is known, and what it was billed from then on.
Worst(c) ==
  CASE pc[c] \in {"posted", "stranded", "unknown"} -> asked[c]
    [] pc[c] = "settled" -> billed[c]
    [] OTHER -> 0

Worsts == [c \in Calls |-> Worst(c)]

Exposure == Total(Worsts, NumCalls)

Cap == INSTANCE SpendCap WITH exposure <- Exposure, open <- complete

\* With bills inside their reservations the client keeps the credit line's
\* promise: only an open ledger with room admits a call, and a closed ledger
\* never admits one again, however the calls in flight end.
KeepsSpendCap == Cap!CapSpec
=============================================================================
