------------------------------ MODULE SpendCap ------------------------------
(***************************************************************************)
(* What the ledger promises, with no calls in it: a line of credit of       *)
(* Limit.  exposure is the most that may ever be charged for what has been  *)
(* started so far.  Starting something new needs an open line with room for *)
(* it; whatever is learnt later can only lower the exposure; and once the   *)
(* line is closed nothing is started any more.                              *)
(***************************************************************************)
EXTENDS Integers

CONSTANT Limit

VARIABLES
  exposure,   \* the most the calls made so far can end up costing
  open        \* calls are still admitted

capVars == <<exposure, open>>

CapInit ==
  /\ exposure = 0
  /\ open = TRUE

Commit ==
  /\ open
  /\ exposure' > exposure
  /\ exposure' <= Limit
  /\ UNCHANGED open

Resolve ==
  /\ exposure' \in 0..exposure
  /\ UNCHANGED open

Close ==
  /\ open
  /\ open' = FALSE
  /\ UNCHANGED exposure

CapNext == Commit \/ Resolve \/ Close

CapSpec == CapInit /\ [][CapNext]_capVars
=============================================================================
