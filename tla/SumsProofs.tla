----------------------------- MODULE SumsProofs -----------------------------
(***************************************************************************)
(* Facts about loops, and about Total.  Each one is an induction, carried   *)
(* out without an induction schema: the set of counterexamples, were it not *)
(* empty, would have a least element (LeastElement), which is refuted.      *)
(* LoopRuns gives every recursive function on 0..n its recurrence.          *)
(***************************************************************************)
EXTENDS Sums, WellFoundedInduction, TLAPS

\* Every non-empty set of naturals has a least element.
LEMMA LeastElement ==
  ASSUME NEW T \in SUBSET Nat, T # {}
  PROVE  \E m \in T : \A k \in T : m <= k
<1> DEFINE R == {ss \in Nat \X Nat : ss[1] < ss[2]}
<1>1. OpToRel(<, Nat) = R
  BY DEF OpToRel
<1>2. IsWellFoundedOn(R, Nat)
  BY <1>1, NatLessThanWellFounded
<1>3. PICK m \in T : \A k \in T : ~(<<k, m>> \in R)
  <2> HIDE DEF R
  <2>1. QED
    BY <1>2, WFMin
<1>4. ASSUME NEW k \in T, k < m
      PROVE  FALSE
  <2>1. <<k, m>> \in R
    BY <1>4
  <2>2. QED
    BY <1>3, <2>1
<1>5. QED
  BY <1>4

\* Induction up to n, with the set of the numbers the claim holds of.
LEMMA InductionUpTo ==
  ASSUME NEW n \in Nat, NEW Good, 0 \in Good, \A k \in 1..n : k - 1 \in Good => k \in Good
  PROVE  \A k \in 0..n : k \in Good
<1> DEFINE Bad == {k \in 0..n : k \notin Good}
<1>1. SUFFICES ASSUME Bad # {}
               PROVE  FALSE
  OBVIOUS
<1>2. PICK m \in Bad : \A k \in Bad : m <= k
  <2>1. Bad \in SUBSET Nat
    OBVIOUS
  <2> HIDE DEF Bad
  <2>2. QED
    BY <1>1, <2>1, LeastElement
<1>3. m \in 1..n /\ m - 1 \in 0..n /\ m - 1 \notin Bad
  BY <1>2
<1>4. QED
  BY <1>2, <1>3

\* The turns of a loop over the elements of S, and the states it goes through.
Loops(n, S) == [1..n -> [S -> S]]
RunsThrough(g, turn, n, x) == g[0] = x /\ \A k \in 1..n : g[k] = turn[k][g[k - 1]]

\* Every loop of n turns has a run.
LEMMA LoopRuns ==
  ASSUME NEW n \in Nat, NEW S, NEW x \in S, NEW turn \in Loops(n, S)
  PROVE  \E g \in [0..n -> S] : RunsThrough(g, turn, n, x)
<1> USE DEF Loops, RunsThrough
<1> DEFINE Run(g, m) == g[0] = x /\ \A k \in 1..m : g[k] = turn[k][g[k - 1]]
           Bad == {m \in 0..n : ~ \E g \in [0..m -> S] : Run(g, m)}
<1>1. SUFFICES ASSUME Bad # {}
               PROVE  FALSE
  BY n \in 0..n
<1>2. PICK m \in Bad : \A k \in Bad : m <= k
  <2>1. Bad \in SUBSET Nat
    OBVIOUS
  <2> HIDE DEF Bad
  <2>2. QED
    BY <1>1, <2>1, LeastElement
<1>3. CASE m = 0
  <2>1. [k \in 0..0 |-> x] \in [0..0 -> S] /\ Run([k \in 0..0 |-> x], 0)
    OBVIOUS
  <2>2. QED
    BY <1>2, <1>3, <2>1
<1>4. CASE m # 0
  <2>1. m - 1 \in 0..n /\ m - 1 \notin Bad /\ m \in 1..n
    BY <1>2, <1>4
  <2>2. PICK g \in [0..(m - 1) -> S] : Run(g, m - 1)
    BY <2>1
  <2> DEFINE h == [k \in 0..m |-> IF k = m THEN turn[m][g[m - 1]] ELSE g[k]]
  <2>3. turn[m][g[m - 1]] \in S
    BY <2>1
  <2>4. h \in [0..m -> S]
    BY <2>1, <2>3
  <2>5. h[0] = x
    BY <2>1, <2>2
  <2>6. ASSUME NEW k \in 1..m
        PROVE  h[k] = turn[k][h[k - 1]]
    <3>1. k \in 0..m /\ k - 1 \in 0..m /\ k - 1 # m
      BY <2>1
    <3>2. h[k - 1] = g[k - 1]
      BY <3>1
    <3>3. CASE k = m
      BY <3>1, <3>2, <3>3
    <3>4. CASE k # m
      <4>1. k \in 1..(m - 1)
        BY <2>1, <3>4
      <4>2. h[k] = g[k]
        BY <3>1, <3>4
      <4>3. QED
        BY <2>2, <3>2, <4>1, <4>2
    <3>5. QED
      BY <3>3, <3>4
  <2> HIDE DEF h
  <2>7. QED
    BY <1>2, <2>4, <2>5, <2>6
<1>5. QED
  BY <1>3, <1>4

\* What the definition of PrefixSums says of g when it has a solution.
IsPrefixSums(g, f, n) ==
  /\ g \in [0..n -> Int]
  /\ g[0] = 0
  /\ \A k \in 1..n : g[k] = g[k - 1] + f[k]

\* The recurrence has a solution for every n.
LEMMA PrefixSumsExist ==
  ASSUME NEW n \in Nat, NEW f \in [1..n -> Int]
  PROVE  \E g : IsPrefixSums(g, f, n)
<1> DEFINE turn == [k \in 1..n |-> [sum \in Int |-> sum + f[k]]]
<1>1. turn \in [1..n -> [Int -> Int]]
  OBVIOUS
<1>2. \A k \in 1..n, sum \in Int : turn[k][sum] = sum + f[k]
  OBVIOUS
<1> HIDE DEF turn
<1>3. PICK g \in [0..n -> Int] : RunsThrough(g, turn, n, 0)
  <2>1. 0 \in Int /\ turn \in Loops(n, Int)
    BY <1>1 DEF Loops
  <2>2. QED
    BY <2>1, LoopRuns
<1>4. ASSUME NEW k \in 1..n
      PROVE  g[k] = g[k - 1] + f[k]
  <2>1. k - 1 \in 0..n
    OBVIOUS
  <2>2. g[k - 1] \in Int
    BY <2>1
  <2>3. QED
    BY <1>2, <1>3, <2>2 DEF RunsThrough
<1>5. QED
  BY <1>3, <1>4 DEF IsPrefixSums, RunsThrough

\* PrefixSums is that solution.
LEMMA PrefixSumsDef ==
  ASSUME NEW n \in Nat, NEW f \in [1..n -> Int]
  PROVE  IsPrefixSums(PrefixSums(f, n), f, n)
<1> DEFINE Step(g) == [k \in 0..n |-> IF k = 0 THEN 0 ELSE g[k - 1] + f[k]]
<1>1. PICK g : IsPrefixSums(g, f, n)
  BY PrefixSumsExist
<1>2. g = Step(g)
  BY <1>1 DEF IsPrefixSums
<1>3. PrefixSums(f, n) = CHOOSE h : h = Step(h)
  BY DEF PrefixSums
<1>4. PrefixSums(f, n) = Step(PrefixSums(f, n))
  BY <1>2, <1>3
<1> DEFINE p == PrefixSums(f, n)
<1>5. /\ p = [k \in 0..n |-> p[k]]
      /\ p[0] = 0
      /\ \A k \in 1..n : p[k] = p[k - 1] + f[k]
  <2> HIDE DEF p
  <2>1. p = Step(p)
    BY <1>4 DEF p
  <2>2. p[0] = 0
    BY <2>1
  <2>3. ASSUME NEW k \in 1..n
        PROVE  p[k] = p[k - 1] + f[k]
    <3>1. k \in 0..n /\ k # 0
      OBVIOUS
    <3>2. QED
      BY <2>1, <3>1
  <2>4. p = [k \in 0..n |-> p[k]]
    BY <2>1
  <2>5. QED
    BY <2>2, <2>3, <2>4
<1> DEFINE Bad == {k \in 0..n : p[k] # g[k]}
<1>6. Bad = {}
  <2> HIDE DEF p
  <2>1. SUFFICES ASSUME Bad # {}
                 PROVE  FALSE
    OBVIOUS
  <2>2. PICK m \in Bad : \A k \in Bad : m <= k
    <3>1. Bad \in SUBSET Nat
      OBVIOUS
    <3>2. QED
      BY <2>1, <3>1, LeastElement
  <2>3. m # 0
    BY <1>1, <1>5 DEF IsPrefixSums
  <2>4. m - 1 \in 0..n /\ m - 1 \notin Bad /\ m \in 1..n
    BY <2>2, <2>3
  <2>5. QED
    BY <1>1, <1>5, <2>4 DEF IsPrefixSums
<1>7. p = g
  <2> HIDE DEF p
  <2>1. \A k \in 0..n : p[k] = g[k]
    BY <1>6
  <2>2. g = [k \in 0..n |-> g[k]]
    BY <1>1 DEF IsPrefixSums
  <2>3. QED
    BY <1>5, <2>1, <2>2
<1>8. QED
  BY <1>1, <1>7

\* A sum is an integer.
LEMMA TotalType ==
  ASSUME NEW n \in Nat, NEW f \in [1..n -> Int]
  PROVE  Total(f, n) \in Int
BY PrefixSumsDef DEF IsPrefixSums, Total

\* The sum of nothing but zeros is zero: an empty dictionary sums to 0.
LEMMA TotalZero ==
  ASSUME NEW n \in Nat, NEW f \in [1..n -> Int], \A k \in 1..n : f[k] = 0
  PROVE  Total(f, n) = 0
<1> DEFINE g == PrefixSums(f, n)
           Bad == {k \in 0..n : g[k] # 0}
<1>1. IsPrefixSums(g, f, n)
  BY PrefixSumsDef
<1> HIDE DEF g
<1>2. Bad = {}
  <2>1. SUFFICES ASSUME Bad # {}
                 PROVE  FALSE
    OBVIOUS
  <2>2. PICK m \in Bad : \A k \in Bad : m <= k
    <3>1. Bad \in SUBSET Nat
      OBVIOUS
    <3>2. QED
      BY <2>1, <3>1, LeastElement
  <2>3. m \in 1..n
    BY <1>1 DEF IsPrefixSums
  <2>4. m - 1 \in 0..n /\ m - 1 \notin Bad
    BY <2>2, <2>3
  <2>5. QED
    BY <1>1, <2>3, <2>4 DEF IsPrefixSums
<1>3. QED
  BY <1>2 DEF Total, g

\* Pointwise larger terms have a larger sum.
LEMMA TotalMonotone ==
  ASSUME NEW n \in Nat, NEW f \in [1..n -> Int], NEW h \in [1..n -> Int],
         \A k \in 1..n : f[k] <= h[k]
  PROVE  Total(f, n) <= Total(h, n)
<1> DEFINE gf == PrefixSums(f, n)
           gh == PrefixSums(h, n)
           Bad == {k \in 0..n : ~ (gf[k] <= gh[k])}
<1>1. IsPrefixSums(gf, f, n) /\ IsPrefixSums(gh, h, n)
  BY PrefixSumsDef
<1> HIDE DEF gf, gh
<1>2. Bad = {}
  <2>1. SUFFICES ASSUME Bad # {}
                 PROVE  FALSE
    OBVIOUS
  <2>2. PICK m \in Bad : \A k \in Bad : m <= k
    <3>1. Bad \in SUBSET Nat
      OBVIOUS
    <3>2. QED
      BY <2>1, <3>1, LeastElement
  <2>3. m \in 1..n
    BY <1>1 DEF IsPrefixSums
  <2>4. m - 1 \in 0..n /\ m - 1 \notin Bad
    BY <2>2, <2>3
  <2>5. QED
    BY <1>1, <2>3, <2>4 DEF IsPrefixSums
<1>3. QED
  BY <1>2 DEF Total, gf, gh

\* Sums add up term by term.
LEMMA TotalAdd ==
  ASSUME NEW n \in Nat, NEW f \in [1..n -> Int], NEW h \in [1..n -> Int]
  PROVE  Total([k \in 1..n |-> f[k] + h[k]], n) = Total(f, n) + Total(h, n)
<1> DEFINE s == [k \in 1..n |-> f[k] + h[k]]
           gf == PrefixSums(f, n)
           gh == PrefixSums(h, n)
           gs == PrefixSums(s, n)
           Bad == {k \in 0..n : gs[k] # gf[k] + gh[k]}
<1>1. s \in [1..n -> Int] /\ \A k \in 1..n : s[k] = f[k] + h[k]
  OBVIOUS
<1> HIDE DEF s
<1>2. IsPrefixSums(gf, f, n) /\ IsPrefixSums(gh, h, n) /\ IsPrefixSums(gs, s, n)
  BY <1>1, PrefixSumsDef
<1> HIDE DEF gf, gh, gs
<1>3. Bad = {}
  <2>1. SUFFICES ASSUME Bad # {}
                 PROVE  FALSE
    OBVIOUS
  <2>2. PICK m \in Bad : \A k \in Bad : m <= k
    <3>1. Bad \in SUBSET Nat
      OBVIOUS
    <3>2. QED
      BY <2>1, <3>1, LeastElement
  <2>3. m \in 1..n
    BY <1>2 DEF IsPrefixSums
  <2>4. m - 1 \in 0..n /\ gs[m - 1] = gf[m - 1] + gh[m - 1]
    BY <2>2, <2>3
  <2>5. /\ gf[m] = gf[m - 1] + f[m]
        /\ gh[m] = gh[m - 1] + h[m]
        /\ gs[m] = gs[m - 1] + f[m] + h[m]
    <3>1. f[m] \in Int /\ h[m] \in Int /\ gs[m - 1] \in Int
      BY <1>2, <2>3, <2>4 DEF IsPrefixSums
    <3>2. QED
      BY <1>1, <1>2, <2>3, <3>1 DEF IsPrefixSums
  <2>6. /\ gf[m - 1] \in Int /\ gh[m - 1] \in Int
        /\ f[m] \in Int /\ h[m] \in Int
    BY <1>2, <2>3, <2>4 DEF IsPrefixSums
  <2>7. QED
    BY <2>2, <2>4, <2>5, <2>6
<1>4. gs[n] = gf[n] + gh[n]
  <2>1. n \in 0..n
    OBVIOUS
  <2>2. QED
    BY <1>3, <2>1
<1>5. QED
  BY <1>4 DEF Total, gf, gh, gs, s

\* Changing one term changes the sum by the difference.
LEMMA TotalUpdate ==
  ASSUME NEW n \in Nat, NEW f \in [1..n -> Int], NEW c \in 1..n, NEW x \in Int
  PROVE  Total([f EXCEPT ![c] = x], n) = Total(f, n) + x - f[c]
<1> DEFINE h == [f EXCEPT ![c] = x]
           gf == PrefixSums(f, n)
           gh == PrefixSums(h, n)
           Shift(k) == IF c <= k THEN x - f[c] ELSE 0
           Bad == {k \in 0..n : gh[k] # gf[k] + Shift(k)}
<1>1. h \in [1..n -> Int] /\ h[c] = x /\ \A k \in 1..n : k # c => h[k] = f[k]
  OBVIOUS
<1> HIDE DEF h
<1>2. IsPrefixSums(gf, f, n) /\ IsPrefixSums(gh, h, n)
  BY <1>1, PrefixSumsDef
<1> HIDE DEF gf, gh
<1>3. Bad = {}
  <2>1. SUFFICES ASSUME Bad # {}
                 PROVE  FALSE
    OBVIOUS
  <2>2. PICK m \in Bad : \A k \in Bad : m <= k
    <3>1. Bad \in SUBSET Nat
      OBVIOUS
    <3>2. QED
      BY <2>1, <3>1, LeastElement
  <2>3. m \in 1..n
    BY <1>2 DEF IsPrefixSums
  <2>4. m - 1 \in 0..n /\ m - 1 \notin Bad
    BY <2>2, <2>3
  <2>5. gh[m - 1] = gf[m - 1] + Shift(m - 1)
    BY <2>4
  <2>6. gf[m] = gf[m - 1] + f[m] /\ gh[m] = gh[m - 1] + h[m]
    BY <1>2, <2>3 DEF IsPrefixSums
  <2>7. /\ gf[m - 1] \in Int /\ gh[m - 1] \in Int
        /\ f[m] \in Int /\ f[c] \in Int /\ h[m] \in Int
    BY <1>1, <1>2, <2>3, <2>4 DEF IsPrefixSums
  <2>8. CASE m = c
    BY <1>1, <2>2, <2>3, <2>5, <2>6, <2>7, <2>8
  <2>9. CASE m # c
    BY <1>1, <2>2, <2>3, <2>5, <2>6, <2>7, <2>9
  <2>10. QED
    BY <2>8, <2>9
<1>4. gh[n] = gf[n] + x - f[c]
  <2>1. n \in 0..n /\ c <= n
    OBVIOUS
  <2>2. gh[n] = gf[n] + Shift(n)
    BY <1>3, <2>1
  <2>3. gf[n] \in Int /\ f[c] \in Int
    BY <1>2, <2>1 DEF IsPrefixSums
  <2>4. QED
    BY <2>1, <2>2, <2>3
<1>5. QED
  BY <1>4 DEF Total, gf, gh, h

\* A sum of naturals is a natural no smaller than any of its terms.
LEMMA TotalNat ==
  ASSUME NEW n \in Nat, NEW f \in [1..n -> Nat]
  PROVE  Total(f, n) \in Nat /\ \A c \in 1..n : f[c] <= Total(f, n)
<1>1. ASSUME NEW h \in [1..n -> Nat]
      PROVE  Total(h, n) \in Nat
  <2> DEFINE zero == [k \in 1..n |-> 0]
  <2>1. Total(zero, n) = 0
    BY TotalZero
  <2>2. Total(zero, n) <= Total(h, n)
    <3>1. /\ zero \in [1..n -> Int]
          /\ h \in [1..n -> Int]
          /\ \A k \in 1..n : zero[k] <= h[k]
      OBVIOUS
    <3> HIDE DEF zero
    <3>2. QED
      BY <3>1, TotalMonotone
  <2>3. Total(h, n) \in Int
    BY TotalType
  <2>4. QED
    BY <2>1, <2>2, <2>3
<1>2. ASSUME NEW c \in 1..n
      PROVE  f[c] <= Total(f, n)
  <2>1. Total([f EXCEPT ![c] = 0], n) = Total(f, n) + 0 - f[c]
    <3>1. f \in [1..n -> Int] /\ 0 \in Int
      OBVIOUS
    <3>2. QED
      BY <3>1, TotalUpdate
  <2>2. Total([f EXCEPT ![c] = 0], n) \in Nat
    BY <1>1
  <2>3. Total(f, n) \in Nat /\ f[c] \in Nat
    BY <1>1
  <2>4. QED
    BY <2>1, <2>2, <2>3
<1>3. QED
  BY <1>1, <1>2
=============================================================================
