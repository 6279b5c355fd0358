--------------------------- MODULE LLMClientProofs ---------------------------
(***************************************************************************)
(* What LLMClient guarantees for any number of calls, any limit and any     *)
(* reservations and bills.                                                  *)
(***************************************************************************)
EXTENDS LLMClient, SumsProofs

USE LedgerAssumption, ClientAssumption DEF Calls

-----------------------------------------------------------------------------
(* Type correctness. *)

LEMMA HeldNat ==
  ASSUME NEW r \in [Calls -> Nat]
  PROVE  Total(r, NumCalls) \in Nat /\ \A c \in Calls : r[c] <= Total(r, NumCalls)
BY TotalNat

\* Every variable keeps its type: amounts stay natural numbers, and a call is
\* always in one of the stages.
THEOREM TypeCorrect == Spec => []TypeOK
<1>1. Init => TypeOK
  BY DEF Init, LedgerInit, TypeOK, Stages, LogEntries
<1>2. TypeOK /\ [Next]_vars => TypeOK'
  <2> SUFFICES ASSUME TypeOK, [Next]_vars
               PROVE  TypeOK'
    OBVIOUS
  <2> USE DEF TypeOK, Stages, LogEntries, Move, Emit
  <2>1. ASSUME NEW c \in Calls, NEW amount \in Amounts, Refuse(c, amount)
        PROVE  TypeOK'
    BY <2>1 DEF Refuse, ledgerVars
  <2>2. ASSUME NEW c \in Calls, NEW amount \in Amounts, Send(c, amount)
        PROVE  TypeOK'
    BY <2>2 DEF Send, Reserve
  <2>3. ASSUME NEW c \in Calls, NEW amount \in Amounts, RequestLogFails(c, amount)
        PROVE  TypeOK'
    BY <2>3 DEF RequestLogFails, Reserve
  <2>4. ASSUME NEW c \in Calls, Succeed(c) \/ RefusedAtACost(c)
        PROVE  TypeOK'
    <3>1. Settle(c, billed[c]) /\ billed[c] \in Nat
      BY <2>4 DEF Succeed, RefusedAtACost
    <3>2. spent' \in Nat /\ reservations' \in [Calls -> Nat] /\ complete' \in BOOLEAN
      BY <3>1 DEF Settle
    <3>3. pc' \in [Calls -> Stages] /\ log' \in [Calls -> LogEntries]
      BY <2>4 DEF Succeed, RefusedAtACost
    <3>4. UNCHANGED <<asked, net, billed, alive, recovered>>
      BY <2>4 DEF Succeed, RefusedAtACost
    <3>5. QED
      BY <3>2, <3>3, <3>4
  <2>5. ASSUME NEW c \in Calls, RefusedForFree(c)
        PROVE  TypeOK'
    BY <2>5 DEF RefusedForFree, Release
  <2>6. ASSUME NEW c \in Calls, GiveUp(c)
        PROVE  TypeOK'
    BY <2>6 DEF GiveUp, MarkUnknown
  <2>7. ASSUME NEW c \in Calls, MalformedChoice(c)
        PROVE  TypeOK'
    BY <2>7 DEF MalformedChoice, ledgerVars
  <2>8. ASSUME NEW c \in Calls, Serve(c)
        PROVE  TypeOK'
    BY <2>8 DEF Serve, ledgerVars
  <2>9. ASSUME KillAndRecover
        PROVE  TypeOK'
    <3>1. [c \in Calls |-> IF log[c] \in {"response"} THEN billed[c] ELSE 0]
            \in [Calls -> Nat]
      OBVIOUS
    <3>2. Logged({"response"}) \in Nat
      BY <3>1, HeldNat DEF Logged
    <3>3. QED
      BY <2>9, <3>2 DEF KillAndRecover, ledgerVars
  <2>10. CASE UNCHANGED vars
    BY <2>10 DEF vars
  <2>11. QED
    BY <2>1, <2>2, <2>3, <2>4, <2>5, <2>6, <2>7, <2>8, <2>9, <2>10
       DEF Next, ClientStep, Uncertain, Interrupted
<1>3. QED
  BY <1>1, <1>2, PTL DEF Spec

-----------------------------------------------------------------------------
(* The books. *)

\* Spending in step with one settled call: Booked changes at that call only.
LEMMA BookedUpdate ==
  ASSUME TypeOK, TypeOK', NEW c \in Calls, UNCHANGED billed,
         pc' = [pc EXCEPT ![c] = "settled"], pc[c] # "settled"
  PROVE  Total(Booked, NumCalls)' = Total(Booked, NumCalls) + billed[c]
<1>1. Booked \in [Calls -> Int] /\ billed[c] \in Int /\ Booked[c] = 0
  BY DEF TypeOK, Booked
<1>2. Booked' = [Booked EXCEPT ![c] = billed[c]]
  BY DEF TypeOK, Booked
<1>3. Total([Booked EXCEPT ![c] = billed[c]], NumCalls)
        = Total(Booked, NumCalls) + billed[c] - Booked[c]
  <2> HIDE DEF Booked
  <2>1. NumCalls \in Nat
    OBVIOUS
  <2>2. QED
    BY ONLY <1>1, <2>1, c \in Calls, TotalUpdate DEF Calls
<1>4. Total(Booked, NumCalls) \in Int
  BY <1>1, TotalType
<1>5. QED
  BY <1>1, <1>2, <1>3, <1>4

\* The books agree at every moment: in particular nothing is booked for a
\* call that was given up or stranded, and its reservation says so.
THEOREM BooksAlwaysAgree == Spec => []BooksAgree
<1>1. Init => BooksAgree
  <2> SUFFICES ASSUME Init
               PROVE  BooksAgree
    OBVIOUS
  <2>1. \A c \in Calls : CallInv(c)
    BY DEF Init, LedgerInit, CallInv
  <2>2. Booked \in [Calls -> Int] /\ \A c \in Calls : Booked[c] = 0
    BY DEF Init, Booked
  <2>3. Total(Booked, NumCalls) = 0
    <3> HIDE DEF Booked
    <3>1. QED
      BY <2>2, TotalZero
  <2>4. QED
    BY <2>1, <2>3 DEF BooksAgree, Init, LedgerInit
<1>2. TypeOK /\ TypeOK' /\ BooksAgree /\ [Next]_vars => BooksAgree'
  <2> SUFFICES ASSUME TypeOK, TypeOK', BooksAgree, [Next]_vars
               PROVE  BooksAgree'
    OBVIOUS
  <2> USE DEF BooksAgree
  <2>1. ASSUME NEW c \in Calls, NEW amount \in Amounts, Refuse(c, amount)
        PROVE  BooksAgree'
    <3>1. \A d \in Calls : CallInv(d)'
      BY <2>1 DEF TypeOK, CallInv, Refuse, Move, ledgerVars
    <3>2. Booked' = Booked
      BY <2>1 DEF TypeOK, Booked, Refuse, Move
    <3>3. QED
      BY <2>1, <3>1, <3>2 DEF Refuse, ledgerVars
  <2>2. ASSUME NEW c \in Calls, NEW amount \in Amounts, Send(c, amount)
        PROVE  BooksAgree'
    <3>1. \A d \in Calls : CallInv(d)'
      BY <2>2 DEF TypeOK, CallInv, Send, Reserve, Move
    <3>2. Booked' = Booked
      BY <2>2 DEF TypeOK, Booked, Send, Move
    <3>3. QED
      BY <2>2, <3>1, <3>2 DEF Send, Reserve
  <2>3. ASSUME NEW c \in Calls, NEW amount \in Amounts, RequestLogFails(c, amount)
        PROVE  BooksAgree'
    <3>1. /\ pc' = [pc EXCEPT ![c] = "stranded"]
          /\ reservations' = [reservations EXCEPT ![c] = amount]
          /\ asked' = [asked EXCEPT ![c] = amount]
          /\ UNCHANGED <<complete, net, billed>>
          /\ pc[c] = "idle" /\ amount \in Nat /\ amount > 0
      BY <2>3 DEF RequestLogFails, Reserve, Move
    <3>11. ASSUME NEW d \in Calls
           PROVE  CallInv(d)'
      <4>1. CallInv(c) /\ CallInv(d)
        OBVIOUS
      <4>2. CASE d = c
        BY <3>1, <4>1, <4>2 DEF TypeOK, CallInv
      <4>3. CASE d # c
        BY <3>1, <4>1, <4>3 DEF TypeOK, CallInv
      <4>4. QED
        BY <4>2, <4>3
    <3>2. Booked' = Booked
      BY <2>3 DEF TypeOK, Booked, RequestLogFails, Move
    <3>3. QED
      BY <2>3, <3>11, <3>2 DEF RequestLogFails, Reserve
  <2>4. ASSUME NEW c \in Calls, Succeed(c) \/ RefusedAtACost(c)
        PROVE  BooksAgree'
    <3>1. /\ Settle(c, billed[c]) /\ Answered(c) /\ Move(c, "settled")
          /\ UNCHANGED <<asked, net, billed>>
      BY <2>4 DEF Succeed, RefusedAtACost
    <3>2. \A d \in Calls : CallInv(d)'
      BY <3>1 DEF TypeOK, CallInv, Settle, Answered, Move
    <3>3. Total(Booked, NumCalls)' = Total(Booked, NumCalls) + billed[c]
      BY <3>1, BookedUpdate DEF Answered, Move
    <3>4. QED
      BY <3>1, <3>2, <3>3 DEF Settle
  <2>5. ASSUME NEW c \in Calls, RefusedForFree(c)
        PROVE  BooksAgree'
    <3>1. \A d \in Calls : CallInv(d)'
      BY <2>5 DEF TypeOK, CallInv, RefusedForFree, Answered, Release, Move
    <3>2. Booked' = Booked
      BY <2>5 DEF TypeOK, Booked, RefusedForFree, Answered, Move
    <3>3. QED
      BY <2>5, <3>1, <3>2 DEF RefusedForFree, Release
  <2>6. ASSUME NEW c \in Calls, pc[c] = "posted", GiveUp(c)
        PROVE  BooksAgree'
    <3>1. \A d \in Calls : CallInv(d)'
      BY <2>6 DEF TypeOK, CallInv, GiveUp, MarkUnknown, Move
    <3>2. Booked' = Booked
      BY <2>6 DEF TypeOK, Booked, GiveUp, Move
    <3>3. QED
      BY <2>6, <3>1, <3>2 DEF GiveUp, MarkUnknown
  <2>7. ASSUME NEW c \in Calls, MalformedChoice(c)
        PROVE  BooksAgree'
    <3>1. \A d \in Calls : CallInv(d)'
      BY <2>7 DEF TypeOK, CallInv, MalformedChoice, Answered, Move, ledgerVars
    <3>2. Booked' = Booked
      BY <2>7 DEF TypeOK, Booked, MalformedChoice, Answered, Move
    <3>3. QED
      BY <2>7, <3>1, <3>2 DEF MalformedChoice, ledgerVars
  <2>8. ASSUME NEW c \in Calls, Serve(c)
        PROVE  BooksAgree'
    <3>1. \A d \in Calls : CallInv(d)'
      BY <2>8 DEF TypeOK, CallInv, Serve, ledgerVars
    <3>2. Booked' = Booked
      BY <2>8 DEF TypeOK, Booked, CallInv, Serve
    <3>3. QED
      BY <2>8, <3>1, <3>2 DEF Serve, ledgerVars
  <2>9. CASE KillAndRecover \/ UNCHANGED vars
    <3>1. UNCHANGED <<spent, reservations, complete, pc, asked, net, billed>>
      BY <2>9 DEF KillAndRecover, ledgerVars, vars
    <3>2. QED
      BY <3>1 DEF CallInv, Booked
  <2>10. QED
    BY <2>1, <2>2, <2>3, <2>4, <2>5, <2>6, <2>7, <2>8, <2>9
       DEF Next, ClientStep, Uncertain, Interrupted, Answered
<1>3. QED
  BY <1>1, <1>2, TypeCorrect, PTL DEF Spec

\* An open ledger has the reservation of every request it does not know the
\* cost of.
THEOREM OpenLedgerCovers == Spec => []OpenLedgerCoversRequests
<1>1. TypeOK /\ BooksAgree => OpenLedgerCoversRequests
  BY DEF TypeOK, BooksAgree, CallInv, OpenLedgerCoversRequests, Stages
<1>2. QED
  BY <1>1, TypeCorrect, BooksAlwaysAgree, PTL

-----------------------------------------------------------------------------
(* The score's premise, and the cap on the provider's total. *)

\* Whatever happened to the calls, a ledger that grading finds within its
\* limit shows the provider's own total: with no reservation outstanding and
\* the ledger open, every call was either settled or never billed.
THEOREM GradedSpendIsTheProviders == Spec => []WithinLimitIsTruthful
<1>1. TypeOK /\ BooksAgree => WithinLimitIsTruthful
  <2> SUFFICES ASSUME TypeOK, BooksAgree, WithinLimit
               PROVE  TrueSpend = spent /\ TrueSpend <= Limit
    BY DEF WithinLimitIsTruthful
  <2>1. \A c \in Calls : reservations[c] = 0
    <3>1. reservations \in [Calls -> Nat] /\ Total(reservations, NumCalls) = 0
      BY DEF TypeOK, WithinLimit, Held
    <3>2. QED
      BY <3>1, HeldNat
  <2>2. ASSUME NEW c \in Calls
        PROVE  billed[c] = Booked[c]
    <3>1. CallInv(c) /\ pc[c] \in Stages /\ complete
      BY DEF BooksAgree, TypeOK, WithinLimit
    <3>2. pc[c] \in {"idle", "refused", "settled", "released"}
      BY <2>1, <3>1 DEF CallInv, Stages
    <3>3. QED
      BY <3>1, <3>2 DEF CallInv, Booked
  <2>3. billed = Booked
    BY <2>2 DEF TypeOK, Booked
  <2>4. QED
    BY <2>3 DEF BooksAgree, TrueSpend, WithinLimit
<1>2. QED
  BY <1>1, TypeCorrect, BooksAlwaysAgree, PTL

\* What the stage of a call says of its last event on disk.
EventMatches(c) ==
  /\ pc[c] = "idle" => log[c] = "nothing"
  /\ pc[c] = "posted" => log[c] = "request"
  /\ log[c] \in {"response", "billed"} => pc[c] = "settled"
  /\ pc[c] = "settled" => log[c] \in {"response", "billed"} \/ LastEventLost(c)

LEMMA EventsMatch == Spec => [](\A c \in Calls : EventMatches(c))
<1>1. Init => \A c \in Calls : EventMatches(c)
  BY DEF Init, EventMatches
<1>2. TypeOK /\ (\A c \in Calls : EventMatches(c)) /\ [Next]_vars
        => (\A c \in Calls : EventMatches(c))'
  <2> SUFFICES ASSUME TypeOK, \A c \in Calls : EventMatches(c), [Next]_vars,
                      NEW d \in Calls
               PROVE  EventMatches(d)'
    OBVIOUS
  <2> USE DEF TypeOK, EventMatches, LastEventLost, Move, Emit
  <2>0. EventMatches(d)
    OBVIOUS
  <2>1. ASSUME NEW c \in Calls, NEW amount \in Amounts,
               Refuse(c, amount) \/ Send(c, amount) \/ RequestLogFails(c, amount)
        PROVE  EventMatches(d)'
    BY <2>0, <2>1 DEF Refuse, Send, RequestLogFails
  <2>2. ASSUME NEW c \in Calls, Succeed(c) \/ RefusedAtACost(c)
        PROVE  EventMatches(d)'
    BY <2>0, <2>2 DEF Succeed, RefusedAtACost, Answered
  <2>3. ASSUME NEW c \in Calls, RefusedForFree(c)
        PROVE  EventMatches(d)'
    BY <2>0, <2>3 DEF RefusedForFree, Answered
  <2>4. ASSUME NEW c \in Calls, GiveUp(c), pc[c] = "posted"
        PROVE  EventMatches(d)'
    BY <2>0, <2>4 DEF GiveUp
  <2>5. ASSUME NEW c \in Calls, MalformedChoice(c)
        PROVE  EventMatches(d)'
    BY <2>0, <2>5 DEF MalformedChoice, Answered
  <2>6. ASSUME NEW c \in Calls, Serve(c)
        PROVE  EventMatches(d)'
    BY <2>0, <2>6 DEF Serve
  <2>7. CASE KillAndRecover
    BY <2>0, <2>7 DEF KillAndRecover
  <2>8. CASE UNCHANGED vars
    BY <2>0, <2>8 DEF vars
  <2>9. QED
    BY <2>1, <2>2, <2>3, <2>4, <2>5, <2>6, <2>7, <2>8
       DEF Next, ClientStep, Uncertain, Interrupted, Answered
<1>3. QED
  BY <1>1, <1>2, TypeCorrect, PTL DEF Spec

\* Spend and log part ways only by a write that failed: every settled call is explained by
\* its last event on disk, or that event was lost, and no other call is taken for settled.
THEOREM SpendIsExplained == Spec => []BookedSpendIsLogged
<1>1. TypeOK /\ BooksAgree /\ (\A c \in Calls : EventMatches(c)) => BookedSpendIsLogged
  <2> SUFFICES ASSUME BooksAgree, \A c \in Calls : EventMatches(c)
               PROVE  BookedSpendIsLogged
    OBVIOUS
  <2>1. ASSUME NEW c \in Calls
        PROVE  log[c] \in {"response", "billed"} \/ LastEventLost(c) <=> pc[c] = "settled"
    BY DEF EventMatches, LastEventLost
  <2>2. Booked = [c \in Calls |-> IF log[c] \in {"response", "billed"} \/ LastEventLost(c)
                                  THEN billed[c] ELSE 0]
    BY <2>1 DEF Booked
  <2>3. QED
    BY <2>2 DEF BooksAgree, BookedSpendIsLogged
<1>2. QED
  BY <1>1, TypeCorrect, BooksAlwaysAgree, EventsMatch, PTL

\* While the ledger is open, the worst case is what it has spent and holds.
LEMMA OpenExposure ==
  ASSUME TypeOK, BooksAgree, complete
  PROVE  Exposure = spent + Held
<1>1. Booked \in [Calls -> Int] /\ reservations \in [Calls -> Int]
  BY DEF TypeOK, Booked
<1>2. ASSUME NEW c \in Calls
      PROVE  Worst(c) = Booked[c] + reservations[c]
  <2>1. CallInv(c) /\ pc[c] \in Stages /\ billed[c] \in Nat /\ asked[c] \in Nat
    BY DEF BooksAgree, TypeOK
  <2>2. pc[c] # "unknown"
    BY <2>1 DEF CallInv
  <2>3. CASE pc[c] \in {"posted", "stranded"}
    <3>1. Worst(c) = asked[c] /\ Booked[c] = 0 /\ reservations[c] = asked[c]
      BY <2>1, <2>3 DEF CallInv, Worst, Booked
    <3>2. QED
      BY <2>1, <3>1
  <2>4. CASE pc[c] = "settled"
    <3>1. Worst(c) = billed[c] /\ Booked[c] = billed[c] /\ reservations[c] = 0
      BY <2>1, <2>4 DEF CallInv, Worst, Booked
    <3>2. QED
      BY <2>1, <3>1
  <2>5. CASE pc[c] \in {"idle", "refused", "released"}
    <3>1. Worst(c) = 0 /\ Booked[c] = 0 /\ reservations[c] = 0
      BY <2>1, <2>5 DEF CallInv, Worst, Booked
    <3>2. QED
      BY <3>1
  <2>6. QED
    BY <2>1, <2>2, <2>3, <2>4, <2>5 DEF Stages
<1>3. Worsts = [c \in 1..NumCalls |-> Booked[c] + reservations[c]]
  BY <1>2 DEF Worsts
<1>4. NumCalls \in Nat
  OBVIOUS
<1>5. Total([c \in 1..NumCalls |-> Booked[c] + reservations[c]], NumCalls)
        = Total(Booked, NumCalls) + Total(reservations, NumCalls)
  <2> HIDE DEF Booked
  <2>1. QED
    BY ONLY <1>1, <1>4, TotalAdd DEF Calls
<1>6. QED
  BY <1>3, <1>5 DEF Exposure, Held, BooksAgree

\* The worst case of each call is a natural number.
LEMMA WorstsType ==
  ASSUME TypeOK
  PROVE  Worsts \in [Calls -> Nat] /\ Exposure \in Nat
<1>1. ASSUME NEW c \in Calls
      PROVE  Worst(c) \in Nat
  BY DEF TypeOK, Worst
<1>2. Worsts \in [Calls -> Nat]
  BY <1>1 DEF Worsts
<1>3. QED
  BY <1>2, HeldNat DEF Exposure

\* A step that changes the worst case of one call only.
LEMMA ExposureUpdate ==
  ASSUME TypeOK, TypeOK', NEW c \in Calls,
         \A d \in Calls : d # c => Worst(d)' = Worst(d)
  PROVE  Exposure' = Exposure + Worst(c)' - Worst(c)
<1>1. Worsts \in [Calls -> Int] /\ Worsts' \in [Calls -> Int]
  <2>1. ASSUME NEW d \in Calls
        PROVE  Worst(d) \in Nat /\ Worst(d)' \in Nat
    BY DEF TypeOK, Worst
  <2>2. QED
    BY <2>1 DEF Worsts
<1>2. Worsts' = [Worsts EXCEPT ![c] = Worsts'[c]]
  BY DEF Worsts
<1>3. Total([Worsts EXCEPT ![c] = Worsts'[c]], NumCalls)
        = Total(Worsts, NumCalls) + Worsts'[c] - Worsts[c]
  <2>1. NumCalls \in Nat /\ Worsts'[c] \in Int
    BY <1>1
  <2> HIDE DEF Worsts
  <2>2. QED
    BY ONLY <1>1, <2>1, c \in Calls, TotalUpdate DEF Calls
<1>4. Worsts[c] = Worst(c) /\ Worsts'[c] = Worst(c)'
  BY DEF Worsts
<1>5. QED
  BY <1>2, <1>3, <1>4 DEF Exposure

\* No step raises the worst case except an admission by an open ledger with
\* room, and that one keeps it within the limit.
LEMMA ExposureStep ==
  ASSUME MarginHolds, TypeOK, TypeOK', BooksAgree, BooksAgree', [Next]_vars
  PROVE  /\ \/ Exposure' <= Exposure /\ (complete' = complete \/ complete' = FALSE)
            \/ complete /\ UNCHANGED complete /\ Exposure' > Exposure /\ Exposure' <= Limit
         /\ complete' # complete => Exposure' = Exposure
<1> DEFINE Goal ==
             /\ \/ Exposure' <= Exposure /\ (complete' = complete \/ complete' = FALSE)
                \/ complete /\ UNCHANGED complete /\ Exposure' > Exposure /\ Exposure' <= Limit
             /\ complete' # complete => Exposure' = Exposure
<1>1. Exposure \in Nat
  BY WorstsType
<1>2. ASSUME UNCHANGED <<complete, pc, asked, billed>>
      PROVE  Goal
  <2>1. Exposure' = Exposure
    BY <1>2 DEF Exposure, Worsts, Worst
  <2>2. QED
    BY <1>1, <1>2, <2>1
<1>3. ASSUME NEW c \in Calls, NEW amount \in Amounts, Reserve(c, amount), pc[c] = "idle",
             asked' = [asked EXCEPT ![c] = amount], UNCHANGED billed,
             Move(c, "posted") \/ Move(c, "stranded")
      PROVE  Goal
  <2>1. \A d \in Calls : d # c => Worst(d)' = Worst(d)
    BY <1>3 DEF TypeOK, Worst, Move
  <2>2. Worst(c) = 0 /\ Worst(c)' = amount
    BY <1>3 DEF TypeOK, Worst, Move
  <2>3. Exposure' = Exposure + amount
    BY <1>1, <2>1, <2>2, ExposureUpdate
  <2>4. Exposure = spent + Held /\ complete /\ spent + Held + amount <= Limit
    BY <1>3, OpenExposure DEF Reserve, CanReserve
  <2>5. QED
    BY <1>1, <1>3, <2>3, <2>4 DEF Reserve
<1>4. ASSUME NEW c \in Calls, pc[c] = "posted",
             UNCHANGED <<complete, asked, billed>>,
             Move(c, "settled") \/ (Move(c, "released") /\ billed[c] = 0)
      PROVE  Goal
  <2>1. \A d \in Calls : d # c => Worst(d)' = Worst(d)
    BY <1>4 DEF TypeOK, Worst, Move
  <2>2. Worst(c) = asked[c] /\ Worst(c)' = billed[c]
    BY <1>4 DEF TypeOK, Worst, Move
  <2>3. asked[c] \in Nat /\ billed[c] \in Nat /\ billed[c] <= asked[c]
    BY DEF TypeOK, BooksAgree, CallInv
  <2>4. QED
    BY <1>1, <1>4, <2>1, <2>2, <2>3, ExposureUpdate
<1>5. ASSUME NEW c \in Calls, pc[c] = "posted", UNCHANGED <<asked, billed>>,
             Move(c, "unknown") \/ Move(c, "stranded"),
             complete' = complete \/ complete' = FALSE
      PROVE  Goal
  <2>1. \A d \in Calls : Worst(d)' = Worst(d)
    BY <1>5 DEF TypeOK, Worst, Move
  <2>2. Exposure' = Exposure
    BY <2>1 DEF Exposure, Worsts
  <2>3. QED
    BY <1>1, <1>5, <2>2
<1>6. ASSUME NEW c \in Calls, Serve(c)
      PROVE  Goal
  <2>1. \A d \in Calls : Worst(d)' = Worst(d)
    BY <1>6 DEF TypeOK, BooksAgree, CallInv, Worst, Serve
  <2>2. Exposure' = Exposure
    BY <2>1 DEF Exposure, Worsts
  <2>3. QED
    BY <1>1, <1>6, <2>2 DEF Serve, ledgerVars
<1>7. ASSUME NEW c \in Calls, ClientStep(c)
      PROVE  Goal
  <2> HIDE DEF Goal
  <2>1. ASSUME NEW amount \in Amounts, Refuse(c, amount)
        PROVE  Goal
    <3>1. \A d \in Calls : Worst(d)' = Worst(d)
      BY <2>1 DEF TypeOK, Worst, Refuse, Move
    <3>2. Exposure' = Exposure /\ complete' = complete
      BY <2>1, <3>1 DEF Exposure, Worsts, Refuse, ledgerVars
    <3>3. QED
      BY <1>1, <3>2 DEF Goal
  <2>2. ASSUME NEW amount \in Amounts, Send(c, amount) \/ RequestLogFails(c, amount)
        PROVE  Goal
    BY <1>3, <2>2 DEF Send, RequestLogFails
  <2>3. ASSUME Succeed(c) \/ RefusedAtACost(c) \/ RefusedForFree(c)
        PROVE  Goal
    BY <1>4, <2>3
       DEF Succeed, RefusedAtACost, RefusedForFree, Answered, Settle, Release
  <2>4. ASSUME Uncertain(c) \/ Interrupted(c) \/ MalformedChoice(c)
        PROVE  Goal
    BY <1>5, <2>4
       DEF Uncertain, Interrupted, MalformedChoice, Answered, GiveUp, MarkUnknown, ledgerVars
  <2>5. QED
    BY <1>7, <2>1, <2>2, <2>3, <2>4 DEF ClientStep
<1>8. CASE KillAndRecover \/ UNCHANGED vars
  BY <1>2, <1>8 DEF KillAndRecover, ledgerVars, vars
<1>9. QED
  BY <1>6, <1>7, <1>8 DEF Next

\* With bills inside their reservations, the worst case stays in the budget.
THEOREM ExposureCapped == Spec => [](MarginHolds => Exposure <= Limit)
<1> DEFINE Inv == MarginHolds => Exposure <= Limit
<1>1. Init => Inv
  <2> SUFFICES ASSUME Init
               PROVE  Exposure = 0
    OBVIOUS
  <2>1. Worsts \in [Calls -> Int] /\ \A c \in Calls : Worsts[c] = 0
    BY DEF Init, Worsts, Worst
  <2>2. QED
    <3> HIDE DEF Worsts
    <3>1. QED
      BY <2>1, TotalZero DEF Exposure
<1>2. TypeOK /\ TypeOK' /\ BooksAgree /\ BooksAgree' /\ Inv /\ [Next]_vars => Inv'
  <2> SUFFICES ASSUME MarginHolds, TypeOK, TypeOK', BooksAgree, BooksAgree',
                      Exposure <= Limit, [Next]_vars
               PROVE  Exposure' <= Limit
    OBVIOUS
  <2>1. Exposure \in Nat
    BY WorstsType
  <2>2. Exposure' <= Exposure \/ Exposure' <= Limit
    BY ExposureStep
  <2>3. Exposure' \in Nat
    <3>1. ASSUME NEW d \in Calls
          PROVE  Worst(d)' \in Nat
      BY DEF TypeOK, Worst
    <3>2. Worsts' \in [Calls -> Nat]
      BY <3>1 DEF Worsts
    <3>3. QED
      BY <3>2, HeldNat DEF Exposure
  <2>4. QED
    BY <2>1, <2>2, <2>3
<1>3. QED
  BY <1>1, <1>2, TypeCorrect, BooksAlwaysAgree, PTL DEF Spec

\* With bills inside their reservations the provider's total never exceeds the
\* problem budget, whether or not the ledger is still open or the worker alive.
THEOREM SpendNeverExceedsLimit == Spec => []SpendIsCapped
<1>1. TypeOK /\ BooksAgree /\ (MarginHolds => Exposure <= Limit) => SpendIsCapped
  <2> SUFFICES ASSUME TypeOK, BooksAgree, MarginHolds, Exposure <= Limit
               PROVE  TrueSpend <= Limit
    BY DEF SpendIsCapped
  <2>1. ASSUME NEW c \in Calls
        PROVE  billed[c] <= Worsts[c]
    <3>1. CallInv(c) /\ billed[c] \in Nat /\ asked[c] \in Nat /\ pc[c] \in Stages
      BY DEF BooksAgree, TypeOK
    <3>2. billed[c] <= Worst(c)
      BY <3>1 DEF CallInv, Worst, Stages
    <3>3. QED
      BY <3>2 DEF Worsts
  <2>2. billed \in [Calls -> Int] /\ Worsts \in [Calls -> Int]
    <3>1. billed \in [Calls -> Nat] /\ Worsts \in [Calls -> Nat]
      BY WorstsType DEF TypeOK
    <3> HIDE DEF Worsts
    <3>2. QED
      BY <3>1
  <2>3. TrueSpend <= Exposure
    <3>1. NumCalls \in Nat
      OBVIOUS
    <3> HIDE DEF Worsts
    <3>2. QED
      BY <2>1, <2>2, <3>1, TotalMonotone DEF TrueSpend, Exposure
  <2>4. TrueSpend \in Int /\ Exposure \in Int
    <3> HIDE DEF Worsts
    <3>1. QED
      BY <2>2, TotalType DEF TrueSpend, Exposure
  <2>5. QED
    BY <2>3, <2>4
<1>2. QED
  BY <1>1, TypeCorrect, BooksAlwaysAgree, ExposureCapped, PTL

\* With bills inside their reservations the client implements the credit line:
\* the initial ledger is an unused open line, and every step commits within
\* the limit while open, resolves, closes, or leaves the line as it is.
THEOREM ImplementsSpendCap == ASSUME MarginHolds PROVE Spec => KeepsSpendCap
<1>1. Init => Cap!CapInit
  <2> SUFFICES ASSUME Init
               PROVE  Exposure = 0
    BY DEF Init, LedgerInit, Cap!CapInit
  <2>1. Worsts \in [Calls -> Int] /\ \A c \in Calls : Worsts[c] = 0
    BY DEF Init, Worsts, Worst
  <2>2. QED
    <3> HIDE DEF Worsts
    <3>1. QED
      BY <2>1, TotalZero DEF Exposure
<1>2. TypeOK /\ TypeOK' /\ BooksAgree /\ BooksAgree' /\ [Next]_vars
        => [Cap!CapNext]_(Cap!capVars)
  <2> SUFFICES ASSUME TypeOK, TypeOK', BooksAgree, BooksAgree', [Next]_vars
               PROVE  [Cap!CapNext]_(Cap!capVars)
    OBVIOUS
  <2>1. Exposure \in Nat /\ complete \in BOOLEAN /\ complete' \in BOOLEAN
    BY WorstsType DEF TypeOK
  <2>2. Exposure' \in Nat
    <3>1. ASSUME NEW d \in Calls
          PROVE  Worst(d)' \in Nat
      BY DEF TypeOK, Worst
    <3>2. Worsts' \in [Calls -> Nat]
      BY <3>1 DEF Worsts
    <3>3. QED
      BY <3>2, HeldNat DEF Exposure
  <2>3. CASE complete' # complete
    <3>1. Exposure' = Exposure /\ complete' = FALSE /\ complete = TRUE
      BY <2>1, <2>3, ExposureStep
    <3>2. Cap!Close
      BY <3>1 DEF Cap!Close
    <3>3. QED
      BY <3>2 DEF Cap!CapNext
  <2>4. CASE complete' = complete /\ Exposure' <= Exposure
    <3>1. Cap!Resolve
      BY <2>1, <2>2, <2>4 DEF Cap!Resolve
    <3>2. QED
      BY <3>1 DEF Cap!CapNext
  <2>5. CASE complete' = complete /\ ~ (Exposure' <= Exposure)
    <3>1. complete /\ Exposure' > Exposure /\ Exposure' <= Limit
      BY <2>5, ExposureStep
    <3>2. Cap!Commit
      BY <2>5, <3>1 DEF Cap!Commit
    <3>3. QED
      BY <3>2 DEF Cap!CapNext
  <2>6. QED
    BY <2>3, <2>4, <2>5
<1>3. QED
  BY <1>1, <1>2, TypeCorrect, BooksAlwaysAgree, PTL DEF Spec, KeepsSpendCap, Cap!CapSpec
=============================================================================
