---------------------------- MODULE BudgetLedger ----------------------------
(***************************************************************************)
(* The per-problem dollar ledger of re_harness/budget.py.  A call reserves  *)
(* a conservative maximum before it is sent; the reservation later leaves   *)
(* the ledger in exactly one of three ways: settled at the provider's       *)
(* reported cost, released because nothing was billed, or given up because  *)
(* the cost is unknown, which closes the ledger for good.                   *)
(*                                                                          *)
(* Every operation runs under the ledger's lock, so each is one action.     *)
(* Amounts are whole micro-dollars.  A reservation is named by its call and *)
(* is 0 when there is none: the client never reserves 0, its request having *)
(* at least one byte and max_tokens >= 1 at positive price ceilings.        *)
(***************************************************************************)
EXTENDS Integers, Sums

CONSTANTS
  NumCalls,   \* calls to complete() an agent may make (bound of the model)
  Limit,      \* limit_usd
  Amounts     \* the amounts a call may ask to reserve

ASSUME LedgerAssumption ==
  /\ NumCalls \in Nat
  /\ Limit \in Nat \ {0}
  /\ Amounts \subseteq Nat \ {0}

Calls == 1..NumCalls

VARIABLES
  spent,          \* _spent
  reservations,   \* _reservations: the amount reserved by each call, or 0
  complete        \* _complete: no cost has been lost track of

ledgerVars == <<spent, reservations, complete>>

LedgerInit ==
  /\ spent = 0
  /\ reservations = [c \in Calls |-> 0]
  /\ complete = TRUE

\* reserved_usd: sum(self._reservations.values())
Held == Total(reservations, NumCalls)

\* Mutant: calls in flight are not counted against the limit.
CanReserveIgnoringHeld(amount) ==
  /\ complete
  /\ spent + amount <= Limit

\* The guard of reserve(): an open ledger with room for the whole amount.
CanReserve(amount) ==
  /\ complete
  /\ spent + Held + amount <= Limit

\* reserve()
Reserve(c, amount) ==
  /\ CanReserve(amount)
  /\ reservations' = [reservations EXCEPT ![c] = amount]
  /\ UNCHANGED <<spent, complete>>

\* Mutant: a settled reservation stays in the ledger.
SettleKeepsReservation(c, cost) ==
  /\ reservations[c] > 0
  /\ spent' = spent + cost
  /\ UNCHANGED <<reservations, complete>>

\* settle(): the reported cost is booked as it is, even above the reservation.
Settle(c, cost) ==
  /\ reservations[c] > 0
  /\ reservations' = [reservations EXCEPT ![c] = 0]
  /\ spent' = spent + cost
  /\ UNCHANGED complete

\* release()
Release(c) ==
  /\ reservations' = [reservations EXCEPT ![c] = 0]
  /\ UNCHANGED <<spent, complete>>

\* Mutant: an unknown cost leaves the ledger open.
MarkUnknownStaysOpen(c) ==
  /\ reservations' = [reservations EXCEPT ![c] = 0]
  /\ UNCHANGED <<spent, complete>>

\* mark_unknown()
MarkUnknown(c) ==
  /\ reservations' = [reservations EXCEPT ![c] = 0]
  /\ complete' = FALSE
  /\ UNCHANGED spent

\* BudgetSnapshot.within_limit: what grading asks of the ledger.
WithinLimit ==
  /\ complete
  /\ Held = 0
  /\ spent <= Limit
=============================================================================
