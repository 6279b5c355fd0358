----------------------------- MODULE BridgeProofs -----------------------------
(*****************************************************************************)
(* What holds of every bridge search, for any statements, limits, depth and  *)
(* number of waves: a certificate replayed in a context still fits it when   *)
(* it is used, although calls in between may replace it; what a route has    *)
(* proved is in scope; and what a call returns fits its caller's header.     *)
(*****************************************************************************)
EXTENDS BridgePortfolio, SequenceTheorems, FiniteSetTheorems, TLAPS

-----------------------------------------------------------------------------
(* Types.  A name is a milestone's, a banked node's, or local to a candidate.  *)

Goals == Stmts \cup {Root}

Names == {<<"bp", d, w, i, s>> : d \in Nat, w \in Nat, i \in Nat, s \in Stmts}
           \cup {<<"vp", n>> : n \in Nat} \cup {<<"local">>}

Contexts == [goal : Goals, hyps : SUBSET Names]
Nodes == [stmt : Stmts, ctx : Contexts, needs : SUBSET Names, deps : SUBSET Nat]
RouteRecords == [lemmas : Seq(Stmts), bridge : SUBSET Names]
Proofs == [stmt : Stmts, needs : SUBSET Names, node : SUBSET Nat]

Calls == [ctx : Contexts, depth : Nat, wave : Nat,
          pc : {"enter", "plan", "routes", "lemmas", "await"}, bank : SUBSET Nat,
          todo : Seq(RouteRecords), tried : Nat, route : Seq(Stmts),
          bridge : SUBSET Names, solved : Seq(Proofs)]

Types ==
  /\ nodes \in Seq(Nodes)
  /\ stack \in Seq(Calls)
  /\ memo \subseteq Contexts \X SUBSET Names
  /\ body \subseteq SUBSET Names
  /\ phase \in {"battery", "search", "final", "solved", "failed"}

LEMMA AliasFacts ==
  /\ \A m \in Nat : Alias(m) \in Names
  /\ \A m, n \in Nat : Alias(m) = Alias(n) => m = n
  /\ \A d, w, i \in Nat, s \in Stmts, m \in Nat : <<"bp", d, w, i, s>> # Alias(m)
BY DEF Alias, Names

LEMMA LemmaNameTypes ==
  ASSUME NEW f \in Calls, NEW i \in Nat, NEW s \in Stmts
  PROVE  LemmaName(f, i, s) \in Names
BY DEF LemmaName, Names, Calls

-----------------------------------------------------------------------------
(* Sequences, and the stack of calls.                                        *)

LEMMA SeqElements ==
  ASSUME NEW S, NEW s \in Seq(S)
  PROVE  /\ Len(s) \in Nat
         /\ DOMAIN s = 1..Len(s)
         /\ \A i \in DOMAIN s : i \in Nat /\ s[i] \in S
BY LenProperties, ElementOfSeq

LEMMA StackTop ==
  ASSUME stack \in Seq(Calls), stack # <<>>
  PROVE  /\ Len(stack) \in Nat \ {0}
         /\ Top \in Calls
         /\ Callers \in Seq(Calls)
         /\ Len(Callers) = Len(stack) - 1
         /\ \A k \in 1..(Len(stack) - 1) : Callers[k] = stack[k]
<1>1. Len(stack) \in Nat \ {0}
  BY EmptySeq
<1>2. \A i \in 1..Len(stack) : stack[i] \in Calls
  BY ElementOfSeq
<1>3. /\ SubSeq(stack, 1, Len(stack) - 1) \in Seq(Calls)
      /\ Len(SubSeq(stack, 1, Len(stack) - 1)) =
           IF 1 <= Len(stack) - 1 THEN (Len(stack) - 1) - 1 + 1 ELSE 0
      /\ \A i \in 1..((Len(stack) - 1) - 1 + 1) :
           SubSeq(stack, 1, Len(stack) - 1)[i] = stack[1 + i - 1]
  <2>1. /\ 1 \in Int /\ Len(stack) - 1 \in Int
        /\ \A i \in 1..(Len(stack) - 1) : stack[i] \in Calls
    BY <1>1, <1>2
  <2>2. QED
    BY <2>1, SubSeqProperties
<1>4. /\ Callers \in Seq(Calls)
      /\ Len(Callers) = Len(stack) - 1
      /\ \A k \in 1..(Len(stack) - 1) : Callers[k] = stack[k]
  <2>1. Callers \in Seq(Calls)
    BY <1>3 DEF Callers
  <2>2. Len(Callers) = IF 1 <= Len(stack) - 1 THEN (Len(stack) - 1) - 1 + 1 ELSE 0
    BY <1>3 DEF Callers
  <2>3. Len(Callers) = Len(stack) - 1
    BY <1>1, <2>2
  <2>4. ASSUME NEW k \in 1..(Len(stack) - 1)
        PROVE  Callers[k] = stack[k]
    <3>1. k \in 1..((Len(stack) - 1) - 1 + 1) /\ 1 + k - 1 = k
      BY <1>1
    <3>2. QED
      BY <1>3, <3>1 DEF Callers
  <2>5. QED
    BY <2>1, <2>3, <2>4
<1>5. Top \in Calls
  BY <1>1, <1>2 DEF Top
<1>6. QED
  BY <1>1, <1>4, <1>5

LEMMA TopSet ==
  ASSUME stack \in Seq(Calls), stack # <<>>, NEW f \in Calls, SetTop(f)
  PROVE  /\ stack' \in Seq(Calls)
         /\ Len(stack') = Len(stack)
         /\ stack'[Len(stack)] = f
         /\ \A k \in 1..(Len(stack) - 1) : stack'[k] = stack[k]
<1>1. /\ Append(Callers, f) \in Seq(Calls)
      /\ Len(Append(Callers, f)) = Len(Callers) + 1
      /\ \A i \in 1..Len(Callers) : Append(Callers, f)[i] = Callers[i]
      /\ Append(Callers, f)[Len(Callers) + 1] = f
  BY StackTop, AppendProperties
<1>2. QED
  BY <1>1, StackTop DEF SetTop

-----------------------------------------------------------------------------
(* The inductive invariant.                                                  *)

\* What stands before the i-th milestone of a route when it is assembled.
Before(f, i) ==
  f.ctx.hyps \cup Aliases(f.bank) \cup {LemmaName(f, j, f.solved[j].stmt) : j \in 1..(i-1)}

\* A call and a bank: what the call knows of is there, and fits.
Fits(f, bank) ==
  /\ f.bank \subseteq 1..Len(bank)
  /\ \A m \in Nat : Alias(m) \in f.ctx.hyps => m \in 1..Len(bank)
  /\ \A n \in f.bank : bank[n].needs \subseteq f.ctx.hyps
  /\ \A i \in DOMAIN f.solved : f.solved[i].needs \subseteq Before(f, i)
  /\ f.pc \in {"enter", "plan", "routes"} => f.solved = <<>>
  /\ f.pc = "await" => Len(f.solved) < Len(f.route)

\* The header a node was certified under names only nodes older than it.
OlderOnly(bank) ==
  \A n \in 1..Len(bank) : \A m \in Nat : Alias(m) \in bank[n].ctx.hyps => m < n

\* A call works on the milestone its caller waits for, and the header of a call declares
\* the banks of all that wait for it.
Chained ==
  /\ stack # <<>> => stack[1].ctx.hyps = {}
  /\ \A k \in 1..(Len(stack) - 1) :
       stack[k].pc = "await" /\ stack[k+1].ctx = MilestoneChallenge(stack[k])
  /\ \A j, k \in 1..Len(stack) : j < k => Aliases(stack[j].bank) \subseteq stack[k].ctx.hyps

\* A search has a call, and a proof is returned only to a call that waits for it.
Returns ==
  /\ phase = "battery" => stack = <<>> /\ body = {}
  /\ phase = "search" => stack # <<>>
  /\ phase = "search" /\ body # {} => Top.pc = "await"
  /\ ReturnedProofFits

SearchInv ==
  /\ Types
  /\ OlderOnly(nodes)
  /\ \A k \in 1..Len(stack) : Fits(stack[k], nodes)
  /\ \A m \in memo : m[2] \subseteq m[1].hyps
  /\ Chained
  /\ Returns

-----------------------------------------------------------------------------
(* What the parts of a step make of it.                                      *)

LEMMA SolvedNamesTypes ==
  ASSUME NEW f \in Calls
  PROVE  /\ SolvedNames(f) \subseteq Names
         /\ \A m \in Nat : Alias(m) \notin SolvedNames(f)
<1>1. f.solved \in Seq(Proofs) /\ f.depth \in Nat /\ f.wave \in Nat
  BY DEF Calls
<1>2. \A i \in DOMAIN f.solved : i \in Nat /\ f.solved[i].stmt \in Stmts
  <2>1. \A i \in DOMAIN f.solved : i \in Nat /\ f.solved[i] \in Proofs
    BY <1>1, SeqElements
  <2>2. QED
    BY <2>1 DEF Proofs
<1>3. ASSUME NEW i \in DOMAIN f.solved
      PROVE  /\ LemmaName(f, i, f.solved[i].stmt) \in Names
             /\ \A m \in Nat : LemmaName(f, i, f.solved[i].stmt) # Alias(m)
  <2>1. i \in Nat /\ f.solved[i].stmt \in Stmts
    BY <1>2
  <2>2. LemmaName(f, i, f.solved[i].stmt) \in Names
    BY <2>1, LemmaNameTypes
  <2>3. \A m \in Nat : LemmaName(f, i, f.solved[i].stmt) # Alias(m)
    BY <1>1, <2>1, AliasFacts DEF LemmaName
  <2>4. QED
    BY <2>2, <2>3
<1>4. QED
  BY <1>3 DEF SolvedNames

LEMMA AliasesTypes ==
  ASSUME NEW bank \in SUBSET Nat
  PROVE  /\ Aliases(bank) \subseteq Names
         /\ \A m \in Nat : Alias(m) \in Aliases(bank) => m \in bank
BY AliasFacts DEF Aliases

LEMMA MilestoneTypes ==
  ASSUME NEW f \in Calls, Len(f.solved) < Len(f.route)
  PROVE  /\ f.route[Len(f.solved) + 1] \in Stmts
         /\ MilestoneChallenge(f) \in Contexts
         /\ MilestoneChallenge(f).hyps = f.ctx.hyps \cup Aliases(f.bank) \cup SolvedNames(f)
         /\ \A m \in Nat : Alias(m) \in MilestoneChallenge(f).hyps =>
              Alias(m) \in f.ctx.hyps \/ m \in f.bank
<1>1. /\ f.solved \in Seq(Proofs) /\ f.route \in Seq(Stmts) /\ f.ctx \in Contexts
      /\ f.bank \in SUBSET Nat
  BY DEF Calls
<1>2. Len(f.solved) + 1 \in 1..Len(f.route)
  BY <1>1, SeqElements
<1>3. f.route[Len(f.solved) + 1] \in Stmts
  BY <1>1, <1>2, ElementOfSeq
<1>4. f.ctx.hyps \cup Aliases(f.bank) \cup SolvedNames(f) \subseteq Names
  BY <1>1, SolvedNamesTypes, AliasesTypes DEF Contexts
<1>5. MilestoneChallenge(f).hyps = f.ctx.hyps \cup Aliases(f.bank) \cup SolvedNames(f)
  BY DEF MilestoneChallenge, Challenge
<1>6. MilestoneChallenge(f) \in Contexts
  BY <1>3, <1>4 DEF MilestoneChallenge, Challenge, Contexts, Goals
<1>7. QED
  BY <1>1, <1>3, <1>5, <1>6, SolvedNamesTypes, AliasesTypes

\* add_verified names a node of the very context, or the next place in the bank.
LEMMA AddedFacts ==
  ASSUME nodes \in Seq(Nodes), NEW s, NEW ctx, NEW deps, NEW accepted \in BOOLEAN
  PROVE  /\ ~accepted => Added(s, ctx, deps, accepted) = {}
         /\ \A n \in Added(s, ctx, deps, accepted) :
              n \in Nat /\ (n \in 1..Len(nodes) => nodes[n].ctx = ctx)
<1>1. Len(nodes) \in Nat
  BY LenProperties
<1>2. ~accepted => Added(s, ctx, deps, accepted) = {}
  BY DEF Added, Refused
<1>3. \A n \in Added(s, ctx, deps, accepted) :
        n \in Nat /\ (n \in 1..Len(nodes) => nodes[n].ctx = ctx)
  BY <1>1 DEF Added, Existing, NodeIds
<1>4. QED
  BY <1>2, <1>3

\* A replaced certificate is of the context it was proved in and fits it; the others stay.
LEMMA BankKept ==
  ASSUME nodes \in Seq(Nodes), OlderOnly(nodes),
         NEW ctx \in Contexts, NEW id, NEW node,
         \A m \in Nat : Alias(m) \in ctx.hyps => m \in 1..Len(nodes),
         id # {} => node \in Nodes /\ node.ctx = ctx /\ node.needs \subseteq ctx.hyps,
         \A n \in id : n \in 1..Len(nodes) => nodes[n].ctx = ctx,
         \/ UNCHANGED nodes
         \/ \E n \in id : n \in 1..Len(nodes) /\ nodes' = [nodes EXCEPT ![n] = node]
         \/ id = {Len(nodes) + 1} /\ nodes' = Append(nodes, node)
  PROVE  /\ nodes' \in Seq(Nodes)
         /\ OlderOnly(nodes')
         /\ Len(nodes') >= Len(nodes)
         /\ \A n \in 1..Len(nodes) :
              \/ nodes'[n] = nodes[n]
              \/ nodes[n].ctx = ctx /\ nodes'[n].needs \subseteq ctx.hyps
<1>1. /\ Len(nodes) \in Nat
      /\ \A n \in 1..Len(nodes) : nodes[n] \in Nodes
  BY LenProperties, ElementOfSeq
<1>2. CASE UNCHANGED nodes
  BY <1>1, <1>2
<1>3. ASSUME NEW n \in id, n \in 1..Len(nodes), nodes' = [nodes EXCEPT ![n] = node]
      PROVE  /\ nodes' \in Seq(Nodes)
             /\ OlderOnly(nodes')
             /\ Len(nodes') >= Len(nodes)
             /\ \A k \in 1..Len(nodes) :
                  \/ nodes'[k] = nodes[k]
                  \/ nodes[k].ctx = ctx /\ nodes'[k].needs \subseteq ctx.hyps
  <2>1. node \in Nodes /\ node.ctx = ctx /\ node.needs \subseteq ctx.hyps /\ nodes[n].ctx = ctx
    BY <1>3
  <2>2. /\ nodes' \in Seq(Nodes)
        /\ Len(nodes') = Len(nodes)
        /\ \A k \in 1..Len(nodes) : nodes'[k] = IF k = n THEN node ELSE nodes[k]
    BY <1>3, <2>1, ExceptSeq
  <2>3. \A k \in 1..Len(nodes) : nodes'[k].ctx = nodes[k].ctx
    BY <2>1, <2>2
  <2>4. OlderOnly(nodes')
    BY <2>2, <2>3 DEF OlderOnly
  <2>5. QED
    BY <1>1, <2>1, <2>2, <2>4
<1>4. ASSUME id = {Len(nodes) + 1}, nodes' = Append(nodes, node)
      PROVE  /\ nodes' \in Seq(Nodes)
             /\ OlderOnly(nodes')
             /\ Len(nodes') >= Len(nodes)
             /\ \A k \in 1..Len(nodes) : nodes'[k] = nodes[k]
  <2>1. node \in Nodes /\ node.ctx = ctx
    BY <1>4
  <2>2. /\ nodes' \in Seq(Nodes)
        /\ Len(nodes') = Len(nodes) + 1
        /\ \A k \in 1..Len(nodes) : nodes'[k] = nodes[k]
        /\ nodes'[Len(nodes) + 1] = node
    BY <1>4, <2>1, AppendProperties
  <2>3. \A m \in Nat : Alias(m) \in nodes'[Len(nodes) + 1].ctx.hyps => m < Len(nodes) + 1
    BY <1>1, <2>1, <2>2
  <2>4. OlderOnly(nodes')
    BY <1>1, <2>2, <2>3 DEF OlderOnly
  <2>5. QED
    BY <1>1, <2>2, <2>4
<1>5. QED
  BY <1>2, <1>3, <1>4

\* The callers' banks are declared in the header of the running call.  A node certified
\* under that header is younger than they are, so no caller holds it: what the running call
\* replaces is not theirs.
LEMMA CallersFit ==
  ASSUME SearchInv, stack # <<>>,
         nodes' \in Seq(Nodes), Len(nodes') >= Len(nodes),
         \A n \in 1..Len(nodes) :
           \/ nodes'[n] = nodes[n]
           \/ nodes[n].ctx = Top.ctx /\ nodes'[n].needs \subseteq Top.ctx.hyps
  PROVE  /\ \A k \in 1..(Len(stack) - 1) : Fits(stack[k], nodes')
         /\ Fits(Top, nodes')
<1>1. /\ Len(stack) \in Nat \ {0}
      /\ Len(nodes) \in Nat /\ Len(nodes') \in Nat
      /\ 1..Len(nodes) \subseteq 1..Len(nodes')
      /\ Len(stack) \in 1..Len(stack)
  BY StackTop, LenProperties DEF SearchInv, Types
<1>2. ASSUME NEW k \in 1..(Len(stack) - 1)
      PROVE  Fits(stack[k], nodes')
  <2>1. k \in 1..Len(stack) /\ k < Len(stack)
    BY <1>1
  <2>2. Fits(stack[k], nodes) /\ Aliases(stack[k].bank) \subseteq Top.ctx.hyps
    BY <1>1, <2>1 DEF SearchInv, Chained, Top
  <2>3. ASSUME NEW n \in stack[k].bank
        PROVE  nodes'[n] = nodes[n]
    <3>1. n \in 1..Len(nodes) /\ n \in Nat /\ Alias(n) \in Top.ctx.hyps
      BY <1>1, <2>2 DEF Fits, Aliases
    <3>2. nodes[n].ctx # Top.ctx
      BY <3>1 DEF SearchInv, OlderOnly
    <3>3. QED
      BY <3>1, <3>2
  <2>4. QED
    BY <1>1, <2>2, <2>3 DEF Fits
<1>3. Fits(Top, nodes')
  <2>1. Fits(Top, nodes)
    BY <1>1 DEF SearchInv, Top
  <2>2. ASSUME NEW n \in Top.bank
        PROVE  nodes'[n].needs \subseteq Top.ctx.hyps
    BY <2>1 DEF Fits
  <2>3. QED
    BY <1>1, <2>1, <2>2 DEF Fits
<1>4. QED
  BY <1>2, <1>3

\* The running call goes on in its context.
LEMMA TopMoves ==
  ASSUME SearchInv, phase = "search", phase' = "search", body' = {},
         NEW f \in Calls, f.ctx = Top.ctx, SetTop(f), Fits(f, nodes'),
         \A k \in 1..(Len(stack) - 1) : Fits(stack[k], nodes'),
         nodes' \in Seq(Nodes), OlderOnly(nodes'),
         memo' \subseteq Contexts \X SUBSET Names,
         \A m \in memo' : m[2] \subseteq m[1].hyps
  PROVE  SearchInv'
<1>0. stack \in Seq(Calls) /\ stack # <<>>
  BY DEF SearchInv, Types, Returns
<1>1. /\ Len(stack) \in Nat \ {0}
      /\ stack' \in Seq(Calls)
      /\ Len(stack') = Len(stack)
      /\ stack'[Len(stack)] = f
      /\ \A k \in 1..(Len(stack) - 1) : stack'[k] = stack[k]
  BY <1>0, StackTop, TopSet
<1>2. stack' # <<>>
  BY <1>1, EmptySeq
<1>3. \A k \in 1..Len(stack) : k # Len(stack) => k \in 1..(Len(stack) - 1)
  BY <1>1
<1>4. \A k \in 1..Len(stack) : stack'[k].ctx = stack[k].ctx
  BY <1>1, <1>3 DEF Top
<1>5. \A k \in 1..Len(stack') : Fits(stack'[k], nodes')
  BY <1>1, <1>3
<1>6. Chained'
  <2>1. stack'[1].ctx.hyps = {}
    BY <1>0, <1>1, <1>4 DEF SearchInv, Chained
  <2>2. ASSUME NEW k \in 1..(Len(stack') - 1)
        PROVE  stack'[k].pc = "await" /\ stack'[k+1].ctx = MilestoneChallenge(stack'[k])
    <3>1. k \in 1..(Len(stack) - 1) /\ k + 1 \in 1..Len(stack)
      BY <1>1
    <3>2. stack[k].pc = "await" /\ stack[k+1].ctx = MilestoneChallenge(stack[k])
      BY <3>1 DEF SearchInv, Chained
    <3>3. QED
      BY <1>1, <1>4, <3>1, <3>2
  <2>3. ASSUME NEW j \in 1..Len(stack'), NEW k \in 1..Len(stack'), j < k
        PROVE  Aliases(stack'[j].bank) \subseteq stack'[k].ctx.hyps
    <3>1. j \in 1..(Len(stack) - 1) /\ k \in 1..Len(stack) /\ j \in 1..Len(stack)
      BY <1>1, <2>3
    <3>2. Aliases(stack[j].bank) \subseteq stack[k].ctx.hyps
      BY <2>3, <3>1 DEF SearchInv, Chained
    <3>3. QED
      BY <1>1, <1>4, <3>1, <3>2
  <2>4. QED
    BY <2>1, <2>2, <2>3 DEF Chained, MilestoneChallenge, Aliases, SolvedNames
<1>7. Returns'
  BY <1>2 DEF Returns, ReturnedProofFits
<1>8. Types'
  BY <1>1 DEF Types
<1>9. QED
  BY <1>5, <1>6, <1>7, <1>8 DEF SearchInv

\* The running call returns nothing, or a proof that fits its own header, which is the one
\* its caller asked about.
LEMMA Returned ==
  ASSUME SearchInv, phase = "search", NEW b \in SUBSET SUBSET Names,
         \A needs \in b : needs \subseteq Top.ctx.hyps,
         Return(b), UNCHANGED <<nodes, memo>>
  PROVE  SearchInv'
<1>0. stack \in Seq(Calls) /\ stack # <<>>
  BY DEF SearchInv, Types, Returns
<1>1. /\ Len(stack) \in Nat \ {0}
      /\ stack' \in Seq(Calls)
      /\ Len(stack') = Len(stack) - 1
      /\ \A k \in 1..(Len(stack) - 1) : stack'[k] = stack[k]
      /\ Len(stack) \in 1..Len(stack)
  BY <1>0, StackTop DEF Return
<1>2. /\ body' = b
      /\ phase' = IF stack' # <<>> THEN phase ELSE IF b = {} THEN "failed" ELSE "final"
  BY DEF Return
<1>3. Types'
  BY <1>1, <1>2 DEF SearchInv, Types
<1>4. \A k \in 1..Len(stack') : stack'[k] = stack[k] /\ k \in 1..Len(stack)
  BY <1>1
<1>5. \A k \in 1..Len(stack') : Fits(stack'[k], nodes')
  BY <1>4 DEF SearchInv
<1>6. Chained'
  <2>1. stack' # <<>> => stack'[1].ctx.hyps = {}
    <3>1. stack' # <<>> => 1 \in 1..Len(stack')
      BY <1>1, EmptySeq
    <3>2. QED
      BY <1>0, <1>4, <3>1 DEF SearchInv, Chained
  <2>2. ASSUME NEW k \in 1..(Len(stack') - 1)
        PROVE  stack'[k].pc = "await" /\ stack'[k+1].ctx = MilestoneChallenge(stack'[k])
    <3>1. k \in 1..Len(stack') /\ k + 1 \in 1..Len(stack') /\ k \in 1..(Len(stack) - 1)
      BY <1>1
    <3>2. QED
      BY <1>4, <3>1 DEF SearchInv, Chained
  <2>3. \A j, k \in 1..Len(stack') :
          j < k => Aliases(stack'[j].bank) \subseteq stack'[k].ctx.hyps
    BY <1>4 DEF SearchInv, Chained
  <2>4. QED
    BY <2>1, <2>2, <2>3 DEF Chained, MilestoneChallenge, Aliases, SolvedNames
<1>7. Returns'
  <2>1. CASE stack' = <<>>
    <3>1. Len(stack) = 1
      BY <1>1, <2>1, EmptySeq
    <3>2. Top.ctx.hyps = {}
      BY <1>0, <3>1 DEF SearchInv, Chained, Top
    <3>3. \A needs \in b : needs = {}
      BY <3>2
    <3>4. QED
      BY <1>2, <2>1, <3>3 DEF Returns, ReturnedProofFits
  <2>2. CASE stack' # <<>>
    <3>1. Len(stack') \in 1..(Len(stack) - 1) /\ Len(stack') + 1 = Len(stack)
      BY <1>1, <2>2, EmptySeq
    <3>2. /\ stack[Len(stack')].pc = "await"
          /\ Top.ctx = MilestoneChallenge(stack[Len(stack')])
      BY <3>1 DEF SearchInv, Chained, Top
    <3>3. stack'[Len(stack')].pc = "await" /\ MilestoneChallenge(stack'[Len(stack')]) = Top.ctx
      BY <1>1, <3>1, <3>2
    <3>4. phase' = "search" /\ Top'.pc = "await" /\ MilestoneChallenge(Top)' = Top.ctx
      BY <1>2, <2>2, <3>3 DEF Top, MilestoneChallenge, Aliases, SolvedNames
    <3>5. QED
      BY <1>2, <2>2, <3>4 DEF Returns, ReturnedProofFits
  <2>3. QED
    BY <2>1, <2>2
<1>8. OlderOnly(nodes') /\ \A m \in memo' : m[2] \subseteq m[1].hyps
  BY DEF SearchInv
<1>9. QED
  BY <1>3, <1>5, <1>6, <1>7, <1>8 DEF SearchInv

\* A call that goes on without a new lemma in the bank.
LEMMA TopGoesOn ==
  ASSUME SearchInv, phase = "search", body = {} \/ Top.pc = "await",
         body' = {}, UNCHANGED <<phase, nodes, memo>>,
         NEW f \in Calls, f.ctx = Top.ctx, SetTop(f), Fits(f, nodes)
  PROVE  SearchInv'
<1>1. \A k \in 1..(Len(stack) - 1) : Fits(stack[k], nodes)
  <2>1. stack \in Seq(Calls)
    BY DEF SearchInv, Types
  <2>2. \A k \in 1..(Len(stack) - 1) : k \in 1..Len(stack)
    BY <2>1, LenProperties
  <2>3. QED
    BY <2>2 DEF SearchInv
<1>2. QED
  BY <1>1, TopMoves DEF SearchInv, Types

LEMMA FrameType ==
  ASSUME NEW ctx \in Contexts, NEW depth \in Nat, NEW wave \in Nat
  PROVE  Frame(ctx, depth, wave) \in Calls
<1>1. <<>> \in Seq(RouteRecords) /\ <<>> \in Seq(Stmts) /\ <<>> \in Seq(Proofs)
  BY EmptySeq
<1>2. {} \in SUBSET Nat /\ {} \in SUBSET Names /\ 0 \in Nat
  OBVIOUS
<1>3. QED
  BY <1>1, <1>2 DEF Frame, Calls

\* What the running call is.
LEMMA TopFacts ==
  ASSUME SearchInv, phase = "search"
  PROVE  /\ stack \in Seq(Calls) /\ stack # <<>>
         /\ Top \in Calls
         /\ Fits(Top, nodes)
         /\ Top.pc # "await" => body = {}
<1>1. stack \in Seq(Calls) /\ stack # <<>>
  BY DEF SearchInv, Types, Returns
<1>2. Len(stack) \in 1..Len(stack) /\ Top \in Calls
  BY <1>1, StackTop
<1>3. QED
  BY <1>1, <1>2 DEF SearchInv, Returns, Top

LEMMA RetryWaveKeeps ==
  ASSUME SearchInv, phase = "search", Top.pc # "await", RetryWave, UNCHANGED <<nodes, memo>>
  PROVE  SearchInv'
<1>1. CASE Return({})
  BY <1>1, Returned
<1>2. ASSUME Top.wave + 1 < Waves, SetTop(Frame(Top.ctx, Top.depth, Top.wave + 1)),
             UNCHANGED <<body, phase>>
      PROVE  SearchInv'
  <2> DEFINE f == Frame(Top.ctx, Top.depth, Top.wave + 1)
  <2>1. f \in Calls /\ f.ctx = Top.ctx
    <3>1. Top \in Calls
      BY TopFacts
    <3>2. Top.ctx \in Contexts /\ Top.depth \in Nat /\ Top.wave \in Nat
      BY <3>1 DEF Calls
    <3>3. Top.wave + 1 \in Nat
      BY <3>2
    <3>4. QED
      BY <3>2, <3>3, FrameType DEF Frame
  <2>2. Fits(f, nodes)
    BY TopFacts DEF Frame, Fits
  <2>3. QED
    BY <1>2, <2>1, <2>2, TopFacts, TopGoesOn
<1>3. QED
  BY <1>1, <1>2 DEF RetryWave

LEMMA RouteFailsKeeps ==
  ASSUME SearchInv, phase = "search", body' = {}, RouteFails, UNCHANGED <<phase, nodes, memo>>
  PROVE  SearchInv'
<1>1. RouteOver \in Calls /\ RouteOver.ctx = Top.ctx
  <2>1. <<>> \in Seq(Stmts) /\ <<>> \in Seq(Proofs)
    BY EmptySeq
  <2>2. QED
    BY <2>1, TopFacts DEF RouteOver, Calls
<1>2. Fits(RouteOver, nodes)
  <2>1. /\ RouteOver.bank = {} /\ RouteOver.solved = <<>> /\ RouteOver.pc = "routes"
    BY TopFacts DEF RouteOver, Calls
  <2>2. QED
    BY <1>1, <2>1, TopFacts DEF Fits
<1>3. QED
  BY <1>1, <1>2, TopFacts, TopGoesOn DEF RouteFails

-----------------------------------------------------------------------------
(* The steps.                                                                *)

\* A milestone proved by a body in scope.
LEMMA MilestoneKeeps ==
  ASSUME SearchInv, phase = "search", body' = {}, UNCHANGED phase,
         Len(Top.solved) < Len(Top.route), Top.pc \in {"lemmas", "await"},
         NEW needs, needs \subseteq MilestoneChallenge(Top).hyps, MilestoneProved(Top, needs)
  PROVE  SearchInv'
<1>1. PICK accepted \in BOOLEAN :
        LET s    == Top.route[Len(Top.solved) + 1]
            open == LeftOpen(Top, Top.bank, needs)
            deps == Top.bank \cup UNION {Top.solved[i].node : i \in DOMAIN Top.solved}
        IN  /\ accepted => open \subseteq Top.ctx.hyps
            /\ Remember(MilestoneChallenge(Top), needs)
            /\ AddVerified(s, Top.ctx, open, deps, accepted)
            /\ SetTop([Top EXCEPT !.pc = "lemmas",
                                  !.solved = Append(@, [stmt |-> s, needs |-> needs,
                                      node |-> Added(s, Top.ctx, deps, accepted)])])
  BY DEF MilestoneProved
<1> DEFINE s    == Top.route[Len(Top.solved) + 1]
           open == LeftOpen(Top, Top.bank, needs)
           deps == Top.bank \cup UNION {Top.solved[i].node : i \in DOMAIN Top.solved}
           node == Added(s, Top.ctx, deps, accepted)
           last == [stmt |-> s, needs |-> needs, node |-> node]
           f    == [Top EXCEPT !.pc = "lemmas", !.solved = Append(@, last)]
<1>2. /\ Top \in Calls /\ stack \in Seq(Calls) /\ stack # <<>> /\ Fits(Top, nodes)
      /\ Top.ctx \in Contexts /\ Top.bank \in SUBSET Nat /\ Top.solved \in Seq(Proofs)
  BY TopFacts DEF Calls
<1>3. /\ s \in Stmts
      /\ MilestoneChallenge(Top) \in Contexts
      /\ MilestoneChallenge(Top).hyps = Top.ctx.hyps \cup Aliases(Top.bank) \cup SolvedNames(Top)
  BY <1>2, MilestoneTypes
<1>4. deps \in SUBSET Nat
  <2>1. \A i \in DOMAIN Top.solved : Top.solved[i] \in Proofs
    BY <1>2, SeqElements
  <2>2. \A i \in DOMAIN Top.solved : Top.solved[i].node \subseteq Nat
    BY <2>1 DEF Proofs
  <2>3. QED
    BY <1>2, <2>2
<1>5. /\ nodes' \in Seq(Nodes)
      /\ OlderOnly(nodes')
      /\ Len(nodes') >= Len(nodes)
      /\ \A n \in 1..Len(nodes) :
           \/ nodes'[n] = nodes[n]
           \/ nodes[n].ctx = Top.ctx /\ nodes'[n].needs \subseteq Top.ctx.hyps
      /\ node \subseteq Nat
  <2> DEFINE cert == [stmt |-> s, ctx |-> Top.ctx, needs |-> open, deps |-> deps]
  <2>1. nodes \in Seq(Nodes) /\ OlderOnly(nodes)
    BY DEF SearchInv, Types
  <2>2. \A m \in Nat : Alias(m) \in Top.ctx.hyps => m \in 1..Len(nodes)
    BY <1>2 DEF Fits
  <2>3. /\ accepted => open \subseteq Top.ctx.hyps
        /\ \/ UNCHANGED nodes
           \/ \E n \in node : n \in 1..Len(nodes) /\ nodes' = [nodes EXCEPT ![n] = cert]
           \/ node = {Len(nodes) + 1} /\ nodes' = Append(nodes, cert)
    BY <1>1 DEF AddVerified, NodeIds
  <2> HIDE DEF s, open, deps
  <2>4. /\ ~accepted => node = {}
        /\ \A n \in node : n \in Nat /\ (n \in 1..Len(nodes) => nodes[n].ctx = Top.ctx)
    BY <2>1, AddedFacts
  <2>5. node # {} => cert \in Nodes /\ cert.ctx = Top.ctx /\ cert.needs \subseteq Top.ctx.hyps
    BY <1>2, <1>3, <1>4, <2>3, <2>4 DEF Nodes, Contexts
  <2> HIDE DEF node, cert
  <2>6. QED
    BY <1>2, <2>1, <2>2, <2>3, <2>4, <2>5, BankKept
<1>6. /\ \A k \in 1..(Len(stack) - 1) : Fits(stack[k], nodes')
      /\ Fits(Top, nodes')
  BY <1>2, <1>5, CallersFit
<1>7. needs \subseteq Names
  BY <1>3 DEF Contexts
<1>8. /\ f.ctx = Top.ctx /\ f.bank = Top.bank /\ f.pc = "lemmas"
      /\ f.depth = Top.depth /\ f.wave = Top.wave
      /\ f.solved = Append(Top.solved, last)
  BY <1>2 DEF Calls
<1>9. /\ Append(Top.solved, last) \in Seq(Proofs)
      /\ Len(Append(Top.solved, last)) = Len(Top.solved) + 1
      /\ \A i \in 1..Len(Top.solved) : Append(Top.solved, last)[i] = Top.solved[i]
      /\ Append(Top.solved, last)[Len(Top.solved) + 1] = last
      /\ Len(Top.solved) \in Nat
      /\ DOMAIN Top.solved = 1..Len(Top.solved)
      /\ DOMAIN Append(Top.solved, last) = 1..(Len(Top.solved) + 1)
  <2>1. last \in Proofs
    BY <1>3, <1>5, <1>7 DEF Proofs
  <2> HIDE DEF last
  <2>2. QED
    BY <1>2, <2>1, AppendProperties, SeqElements
<1>10. f \in Calls
  BY <1>2, <1>9 DEF Calls
<1>11. \A i \in DOMAIN f.solved : f.solved[i].needs \subseteq Before(f, i)
  <2> SUFFICES ASSUME NEW i \in DOMAIN f.solved
               PROVE  f.solved[i].needs \subseteq Before(f, i)
    OBVIOUS
  <2>1. i \in 1..(Len(Top.solved) + 1)
    BY <1>8, <1>9
  <2>2. \A j \in 1..(i-1) : j \in 1..Len(Top.solved) /\ f.solved[j] = Top.solved[j]
    BY <1>8, <1>9, <2>1
  <2>3. Before(f, i) = Before(Top, i)
    BY <1>8, <2>2 DEF Before, LemmaName
  <2>4. CASE i \in 1..Len(Top.solved)
    <3>1. f.solved[i] = Top.solved[i] /\ i \in DOMAIN Top.solved
      BY <1>8, <1>9, <2>4
    <3>2. Top.solved[i].needs \subseteq Before(Top, i)
      BY <1>2, <3>1 DEF Fits
    <3>3. QED
      BY <2>3, <3>1, <3>2
  <2>5. CASE i = Len(Top.solved) + 1
    <3>1. f.solved[i].needs = needs /\ i - 1 = Len(Top.solved)
      BY <1>8, <1>9, <2>5
    <3>2. SolvedNames(Top) = {LemmaName(Top, j, Top.solved[j].stmt) : j \in 1..(i-1)}
      BY <1>9, <3>1 DEF SolvedNames
    <3>3. Before(Top, i) = MilestoneChallenge(Top).hyps
      BY <1>3, <3>2 DEF Before
    <3>4. QED
      BY <2>3, <3>1, <3>3
  <2>6. i \in 1..Len(Top.solved) \/ i = Len(Top.solved) + 1
    BY <1>9, <2>1
  <2> HIDE DEF f
  <2>7. QED
    BY <2>4, <2>5, <2>6
<1>12. Fits(f, nodes')
  BY <1>6, <1>8, <1>11 DEF Fits
<1>13. /\ memo' \subseteq Contexts \X SUBSET Names
       /\ \A m \in memo' : m[2] \subseteq m[1].hyps
  <2>1. memo' = memo \/ memo' = memo \cup {<<MilestoneChallenge(Top), needs>>}
    BY <1>1 DEF Remember
  <2>2. QED
    BY <1>3, <1>7, <2>1 DEF SearchInv, Types
<1>14. SetTop(f)
  BY <1>1
<1> HIDE DEF f
<1>15. QED
  BY <1>5, <1>6, <1>8, <1>10, <1>12, <1>13, <1>14, TopMoves

LEMMA BatteryKeeps ==
  ASSUME SearchInv, Battery
  PROVE  SearchInv'
<1>1. /\ phase = "battery" /\ stack = <<>> /\ body = {}
      /\ UNCHANGED <<nodes, memo>>
  BY DEF SearchInv, Returns, Battery
<1>2. /\ nodes \in Seq(Nodes) /\ OlderOnly(nodes)
      /\ memo \subseteq Contexts \X SUBSET Names
      /\ \A m \in memo : m[2] \subseteq m[1].hyps
  BY DEF SearchInv, Types
<1>3. ASSUME stack' = <<>>, phase' \in {"failed", "final"}, body' \in {{}, {{}}}
      PROVE  SearchInv'
  <2>1. stack' \in Seq(Calls) /\ Len(stack') = 0
    BY <1>3, EmptySeq
  <2>2. Types'
    BY <1>1, <1>2, <1>3, <2>1 DEF Types
  <2>3. \A k \in 1..Len(stack') : Fits(stack'[k], nodes')
    BY <2>1
  <2>4. Chained'
    BY <1>3, <2>1 DEF Chained
  <2>5. Returns'
    BY <1>3 DEF Returns, ReturnedProofFits
  <2>6. QED
    BY <1>1, <1>2, <2>2, <2>3, <2>4, <2>5 DEF SearchInv
<1>4. ASSUME phase' = "search", stack' = <<Frame(Challenge(Root, {}), 0, 0)>>, UNCHANGED body
      PROVE  SearchInv'
  <2> DEFINE f == Frame(Challenge(Root, {}), 0, 0)
  <2>1. f \in Calls
    <3>1. Challenge(Root, {}) \in Contexts
      BY DEF Challenge, Contexts, Goals
    <3>2. QED
      BY <3>1, FrameType
  <2>2. f.ctx.hyps = {} /\ f.bank = {} /\ f.solved = <<>> /\ f.pc = "enter"
    BY DEF Frame, Challenge
  <2> HIDE DEF f
  <2>3. stack' = <<f>>
    BY <1>4 DEF f
  <2>4. /\ stack' \in Seq(Calls) /\ Len(stack') = 1 /\ stack'[1] = f /\ stack' # <<>>
    BY <2>1, <2>3
  <2>5. Types'
    BY <1>1, <1>2, <1>4, <2>4 DEF Types
  <2>6. Fits(f, nodes')
    BY <2>2 DEF Fits
  <2>7. \A k \in 1..Len(stack') : Fits(stack'[k], nodes')
    BY <2>4, <2>6
  <2>8. Chained'
    BY <2>2, <2>4 DEF Chained
  <2>9. Returns'
    BY <1>1, <1>4, <2>4 DEF Returns, ReturnedProofFits
  <2>10. QED
    BY <1>1, <1>2, <2>5, <2>7, <2>8, <2>9 DEF SearchInv
<1>5. QED
  BY <1>1, <1>3, <1>4 DEF Battery

\* A replayed bank fits the context it was replayed in.
LEMMA CompatibleFits ==
  ASSUME NEW ctx, NEW bank \in CompatibleBanks(ctx)
  PROVE  bank \subseteq 1..Len(nodes) /\ \A n \in bank : nodes[n].needs \subseteq ctx.hyps
<1>1. CASE bank = {}
  BY <1>1
<1>2. ASSUME NEW c \in Candidates, bank \in SUBSET {n \in c : nodes[n].needs \subseteq ctx.hyps}
      PROVE  bank \subseteq 1..Len(nodes) /\ \A n \in bank : nodes[n].needs \subseteq ctx.hyps
  BY <1>2 DEF Candidates, NodeIds
<1>3. QED
  BY <1>1, <1>2 DEF CompatibleBanks

LEMMA EnterKeeps ==
  ASSUME SearchInv, Enter
  PROVE  SearchInv'
<1>1. phase = "search" /\ Top.pc = "enter" /\ UNCHANGED <<nodes, memo>>
  BY DEF Enter, Running
<1>2. PICK bank \in CompatibleBanks(Top.ctx) :
        \/ Return({})
        \/ ClosedByBank(bank)
        \/ /\ SetTop([Top EXCEPT !.pc = "plan", !.bank = bank])
           /\ UNCHANGED <<body, phase>>
  BY DEF Enter
<1>3. /\ Top \in Calls /\ Fits(Top, nodes) /\ body = {} /\ stack \in Seq(Calls) /\ stack # <<>>
      /\ Top.ctx \in Contexts
  BY <1>1, TopFacts DEF Calls
<1>4. CASE Return({})
  BY <1>1, <1>4, Returned
<1>5. CASE ClosedByBank(bank)
  <2>1. PICK part \in SUBSET bank : /\ LeftOpen(Top, part, {}) \subseteq Top.ctx.hyps
                                    /\ Return({LeftOpen(Top, part, {})})
    BY <1>5 DEF ClosedByBank
  <2>2. LeftOpen(Top, part, {}) \in SUBSET Names
    BY <1>3, <2>1 DEF Contexts
  <2> DEFINE b == {LeftOpen(Top, part, {})}
  <2>3. b \in SUBSET SUBSET Names /\ \A needs \in b : needs \subseteq Top.ctx.hyps
    BY <2>1, <2>2
  <2>4. Return(b)
    BY <2>1
  <2> HIDE DEF b
  <2>5. QED
    BY <1>1, <2>3, <2>4, Returned
<1>6. ASSUME SetTop([Top EXCEPT !.pc = "plan", !.bank = bank]), UNCHANGED <<body, phase>>
      PROVE  SearchInv'
  <2> DEFINE f == [Top EXCEPT !.pc = "plan", !.bank = bank]
  <2>1. bank \subseteq 1..Len(nodes) /\ \A n \in bank : nodes[n].needs \subseteq Top.ctx.hyps
    BY CompatibleFits
  <2>2. Len(nodes) \in Nat
    BY LenProperties DEF SearchInv, Types
  <2>3. bank \in SUBSET Nat
    BY <2>1, <2>2
  <2>4. /\ f \in Calls /\ f.ctx = Top.ctx /\ f.bank = bank /\ f.pc = "plan"
        /\ f.solved = Top.solved /\ f.depth = Top.depth /\ f.wave = Top.wave
    BY <1>3, <2>3 DEF Calls
  <2>5. SetTop(f)
    BY <1>6
  <2> HIDE DEF f
  <2>6. Top.solved = <<>>
    BY <1>1, <1>3 DEF Fits
  <2>7. Fits(f, nodes)
    <3>1. \A m \in Nat : Alias(m) \in f.ctx.hyps => m \in 1..Len(nodes)
      BY <1>3, <2>4 DEF Fits
    <3>2. f.bank \subseteq 1..Len(nodes) /\ \A n \in f.bank : nodes[n].needs \subseteq f.ctx.hyps
      BY <2>1, <2>4
    <3>3. f.solved = <<>> /\ f.pc = "plan"
      BY <2>4, <2>6
    <3>4. \A i \in DOMAIN f.solved : f.solved[i].needs \subseteq Before(f, i)
      BY <3>3
    <3> HIDE DEF f
    <3>5. QED
      BY <3>1, <3>2, <3>3, <3>4 DEF Fits
  <2>8. QED
    BY <1>1, <1>3, <1>6, <2>4, <2>5, <2>7, TopGoesOn
<1>7. QED
  BY <1>2, <1>4, <1>5, <1>6

\* A ranking is a list of routes: milestones to prove, and the names a bridge uses.
LEMMA RankingsTypes ==
  ASSUME NEW f \in Calls, NEW q \in Rankings(f, f.bank)
  PROVE  q \in Seq(RouteRecords)
<1>1. f.bank \in SUBSET Nat /\ MaxRoutes \in Nat /\ MaxLemmas \in Nat
  BY SearchAssumption DEF Calls
<1>2. ASSUME NEW l \in Proposed(f)
      PROVE  /\ l \in Seq(Stmts)
             /\ \A b \in Bridges(f, f.bank, l) : b \subseteq Names
  <2>1. PICK k \in 1..MaxLemmas : l \in [1..k -> Stmts \ {f.ctx.goal}]
    BY DEF Proposed
  <2>2. k \in Nat /\ l \in [1..k -> Stmts] /\ DOMAIN l = 1..k /\ k \in 1..k
    BY <1>1, <2>1
  <2>3. l \in Seq(Stmts)
    BY <2>2, SeqDef
  <2>4. Len(l) = k
    BY <2>2, <2>3, LenProperties
  <2>5. \A i \in DOMAIN l : LemmaName(f, i, l[i]) \in Names
    BY <2>2, LemmaNameTypes
  <2>6. Aliases(f.bank) \subseteq Names
    BY <1>1, AliasesTypes
  <2>7. QED
    BY <2>2, <2>3, <2>4, <2>5, <2>6 DEF Bridges
<1>3. Routes(f, f.bank) \subseteq RouteRecords
  <2>1. \A l \in RouteLists(f, f.bank) : l \in Proposed(f)
    BY DEF RouteLists
  <2>2. QED
    BY <1>2, <2>1 DEF Routes, RouteRecords
<1>4. PICK k \in 0..MaxRoutes : q \in [1..k -> Routes(f, f.bank)]
  BY DEF Rankings
<1>5. k \in Nat /\ q \in [1..k -> RouteRecords]
  BY <1>1, <1>3, <1>4
<1>6. QED
  BY <1>5, SeqDef

LEMMA PlanKeeps ==
  ASSUME SearchInv, Plan
  PROVE  SearchInv'
<1>1. phase = "search" /\ Top.pc = "plan" /\ UNCHANGED <<nodes, memo>>
  BY DEF Plan, Running
<1>2. CASE RetryWave
  BY <1>1, <1>2, RetryWaveKeeps
<1>3. ASSUME NEW q \in Rankings(Top, Top.bank), UNCHANGED <<body, phase>>,
             SetTop([Top EXCEPT !.pc = "routes", !.bank = {}, !.todo = q])
      PROVE  SearchInv'
  <2> DEFINE f == [Top EXCEPT !.pc = "routes", !.bank = {}, !.todo = q]
  <2>1. Top \in Calls /\ Fits(Top, nodes) /\ body = {} /\ Top.bank \in SUBSET Nat
    BY <1>1, TopFacts DEF Calls
  <2>2. q \in Seq(RouteRecords)
    BY <1>1, TopFacts, RankingsTypes
  <2>4. /\ f \in Calls /\ f.ctx = Top.ctx /\ f.bank = {} /\ f.pc = "routes"
        /\ f.solved = Top.solved
    BY <2>1, <2>2 DEF Calls
  <2>5. SetTop(f)
    BY <1>3
  <2> HIDE DEF f
  <2>6. Top.solved = <<>>
    BY <1>1, <2>1 DEF Fits
  <2>7. Fits(f, nodes)
    BY <2>1, <2>4, <2>6 DEF Fits
  <2>8. QED
    BY <1>1, <1>3, <2>1, <2>4, <2>5, <2>7, TopGoesOn
<1>4. QED
  BY <1>1, <1>2, <1>3 DEF Plan

LEMMA NextRouteKeeps ==
  ASSUME SearchInv, NextRoute
  PROVE  SearchInv'
<1>1. phase = "search" /\ Top.pc = "routes" /\ UNCHANGED <<nodes, memo>>
  BY DEF NextRoute, Running
<1>2. CASE RetryWave
  BY <1>1, <1>2, RetryWaveKeeps
<1>3. CASE Return({})
  BY <1>1, <1>3, Returned
<1>4. ASSUME Top.todo # <<>>, NEW bank \in CompatibleBanks(Top.ctx), UNCHANGED <<body, phase>>,
             SetTop([Top EXCEPT !.pc = "lemmas", !.bank = bank, !.tried = @ + 1,
                                !.route = Head(Top.todo).lemmas,
                                !.bridge = Head(Top.todo).bridge, !.todo = Tail(@)])
      PROVE  SearchInv'
  <2> DEFINE f == [Top EXCEPT !.pc = "lemmas", !.bank = bank, !.tried = @ + 1,
                              !.route = Head(Top.todo).lemmas,
                              !.bridge = Head(Top.todo).bridge, !.todo = Tail(@)]
  <2>1. /\ Top \in Calls /\ Fits(Top, nodes) /\ body = {} /\ Top.solved = <<>>
        /\ Top.todo \in Seq(RouteRecords) /\ Top.tried \in Nat
    BY <1>1, TopFacts DEF Calls, Fits
  <2>2. bank \subseteq 1..Len(nodes) /\ \A n \in bank : nodes[n].needs \subseteq Top.ctx.hyps
    BY <1>4, CompatibleFits
  <2>3. bank \in SUBSET Nat
    <3>1. Len(nodes) \in Nat
      BY LenProperties DEF SearchInv, Types
    <3>2. QED
      BY <2>2, <3>1
  <2>4. Head(Top.todo) \in RouteRecords /\ Tail(Top.todo) \in Seq(RouteRecords)
    BY <1>4, <2>1, HeadTailProperties
  <2>5. Head(Top.todo).lemmas \in Seq(Stmts) /\ Head(Top.todo).bridge \in SUBSET Names
    BY <2>4 DEF RouteRecords
  <2>6. /\ f \in Calls /\ f.ctx = Top.ctx /\ f.bank = bank /\ f.pc = "lemmas"
        /\ f.solved = <<>>
    <3>1. Top.tried + 1 \in Nat
      BY <2>1
    <3> DEFINE n == Top.tried + 1
               h == Head(Top.todo)
               r == Tail(Top.todo)
    <3>2. /\ n \in Nat /\ h.lemmas \in Seq(Stmts) /\ h.bridge \in SUBSET Names
          /\ r \in Seq(RouteRecords)
      BY <2>4, <2>5, <3>1
    <3>3. f = [Top EXCEPT !.pc = "lemmas", !.bank = bank, !.tried = n, !.route = h.lemmas,
                          !.bridge = h.bridge, !.todo = r]
      OBVIOUS
    <3> HIDE DEF f, n, h, r
    <3>4. QED
      BY <2>1, <2>3, <3>2, <3>3 DEF Calls
  <2>7. SetTop(f)
    BY <1>4
  <2> HIDE DEF f
  <2>8. Fits(f, nodes)
    <3>1. \A m \in Nat : Alias(m) \in f.ctx.hyps => m \in 1..Len(nodes)
      BY <2>1, <2>6 DEF Fits
    <3>2. f.bank \subseteq 1..Len(nodes) /\ \A n \in f.bank : nodes[n].needs \subseteq f.ctx.hyps
      BY <2>2, <2>6
    <3>3. \A i \in DOMAIN f.solved : f.solved[i].needs \subseteq Before(f, i)
      BY <2>6
    <3>4. QED
      BY <2>6, <3>1, <3>2, <3>3 DEF Fits
  <2>9. QED
    BY <1>1, <1>4, <2>1, <2>6, <2>7, <2>8, TopGoesOn
<1>5. QED
  BY <1>1, <1>2, <1>3, <1>4 DEF NextRoute

LEMMA OutOfTimeKeeps ==
  ASSUME SearchInv, OutOfTime
  PROVE  SearchInv'
<1>1. phase = "search" /\ Top.pc = "lemmas" /\ RouteFails /\ UNCHANGED <<nodes, memo, body, phase>>
  BY DEF OutOfTime, MilestoneLeft, Running
<1>2. body' = {}
  BY <1>1, TopFacts
<1>3. QED
  BY <1>1, <1>2, RouteFailsKeeps

\* What is proved of a milestone fits the header it was asked under.
LEMMA KnownFits ==
  ASSUME SearchInv, Milestone
  PROVE  \E needs \in SUBSET MilestoneChallenge(Top).hyps : MilestoneProved(Top, needs)
<1>1. phase = "search" /\ Top.pc = "lemmas" /\ Len(Top.solved) < Len(Top.route)
  BY DEF Milestone, MilestoneLeft, Running
<1>2. PICK needs \in IF Known # {} THEN Known ELSE {{}, MilestoneChallenge(Top).hyps} :
        MilestoneProved(Top, needs)
  BY DEF Milestone
<1>3. /\ Top \in Calls /\ Fits(Top, nodes) /\ body = {}
      /\ MilestoneChallenge(Top).hyps = Top.ctx.hyps \cup Aliases(Top.bank) \cup SolvedNames(Top)
  BY <1>1, TopFacts, MilestoneTypes
<1>4. \A k \in Remembered : k \subseteq MilestoneChallenge(Top).hyps
  BY DEF Remembered, SearchInv
<1>5. \A k \in Banked : k \subseteq MilestoneChallenge(Top).hyps
  BY <1>3 DEF Banked, Fits
<1>6. needs \subseteq MilestoneChallenge(Top).hyps
  <2>1. Known # {} => needs \in Remembered \/ needs \in Banked
    BY <1>2 DEF Known
  <2>2. QED
    BY <1>2, <1>4, <1>5, <2>1
<1>7. QED
  BY <1>2, <1>6

LEMMA MilestoneStepKeeps ==
  ASSUME SearchInv, Milestone
  PROVE  SearchInv'
<1>1. /\ phase = "search" /\ Top.pc = "lemmas" /\ Len(Top.solved) < Len(Top.route)
      /\ UNCHANGED <<body, phase>>
  BY DEF Milestone, MilestoneLeft, Running
<1>2. PICK needs \in SUBSET MilestoneChallenge(Top).hyps : MilestoneProved(Top, needs)
  BY KnownFits
<1>3. body = {}
  BY <1>1, TopFacts
<1>4. QED
  BY <1>1, <1>2, <1>3, MilestoneKeeps

\* A blocked milestone becomes the goal of a call of its own.
LEMMA BlockedKeeps ==
  ASSUME SearchInv, Blocked
  PROVE  SearchInv'
<1>1. /\ phase = "search" /\ Top.pc = "lemmas" /\ Len(Top.solved) < Len(Top.route)
      /\ UNCHANGED <<nodes, memo, body, phase>>
  BY DEF Blocked, MilestoneLeft, Running
<1>2. /\ stack \in Seq(Calls) /\ stack # <<>> /\ Top \in Calls /\ Fits(Top, nodes) /\ body = {}
      /\ body' = {}
  BY <1>1, TopFacts
<1>3. CASE RouteFails
  BY <1>1, <1>2, <1>3, RouteFailsKeeps
<1>4. ASSUME stack' = Append(Append(Callers, [Top EXCEPT !.pc = "await"]),
                             Frame(MilestoneChallenge(Top), Top.depth + 1, 0))
      PROVE  SearchInv'
  <2> DEFINE f == [Top EXCEPT !.pc = "await"]
             g == Frame(MilestoneChallenge(Top), Top.depth + 1, 0)
  <2>1. /\ f \in Calls /\ f.ctx = Top.ctx /\ f.bank = Top.bank /\ f.pc = "await"
        /\ f.solved = Top.solved /\ f.route = Top.route /\ f.depth = Top.depth
        /\ f.wave = Top.wave
    BY <1>2 DEF Calls
  <2>2. /\ MilestoneChallenge(Top) \in Contexts
        /\ MilestoneChallenge(Top).hyps = Top.ctx.hyps \cup Aliases(Top.bank) \cup SolvedNames(Top)
        /\ \A m \in Nat : Alias(m) \in MilestoneChallenge(Top).hyps =>
             Alias(m) \in Top.ctx.hyps \/ m \in Top.bank
    BY <1>1, <1>2, MilestoneTypes
  <2>3. g \in Calls
    <3>1. Top.depth \in Nat
      BY <1>2 DEF Calls
    <3>2. Top.depth + 1 \in Nat /\ 0 \in Nat
      BY <3>1
    <3>3. QED
      BY <2>2, <3>2, FrameType
  <2>4. g.ctx = MilestoneChallenge(Top) /\ g.bank = {} /\ g.solved = <<>> /\ g.pc = "enter"
    BY DEF Frame
  <2>5. stack' = Append(Append(Callers, f), g)
    BY <1>4
  <2>6. MilestoneChallenge(f) = MilestoneChallenge(Top)
    BY <2>1 DEF MilestoneChallenge, SolvedNames, LemmaName
  <2> HIDE DEF f, g
  <2>7. /\ Len(stack) \in Nat \ {0}
        /\ Callers \in Seq(Calls)
        /\ Len(Callers) = Len(stack) - 1
        /\ \A k \in 1..(Len(stack) - 1) : Callers[k] = stack[k]
    BY <1>2, StackTop
  <2>8. /\ Append(Callers, f) \in Seq(Calls)
        /\ Len(Append(Callers, f)) = Len(stack)
        /\ \A k \in 1..(Len(stack) - 1) : Append(Callers, f)[k] = stack[k]
        /\ Append(Callers, f)[Len(stack)] = f
    BY <2>1, <2>7, AppendProperties
  <2>9. /\ stack' \in Seq(Calls)
        /\ Len(stack') = Len(stack) + 1
        /\ \A k \in 1..Len(stack) : stack'[k] = Append(Callers, f)[k]
        /\ stack'[Len(stack) + 1] = g
    BY <2>3, <2>5, <2>8, AppendProperties
  <2>10. /\ \A k \in 1..(Len(stack) - 1) : stack'[k] = stack[k]
         /\ stack'[Len(stack)] = f
         /\ stack' # <<>>
    BY <2>7, <2>8, <2>9, EmptySeq
  <2>11. \A k \in 1..Len(stack) : stack'[k].ctx = stack[k].ctx /\ stack'[k].bank = stack[k].bank
    <3>1. \A k \in 1..Len(stack) : k \in 1..(Len(stack) - 1) \/ k = Len(stack)
      BY <2>7
    <3>2. QED
      BY <2>1, <2>10, <3>1 DEF Top
  <2>12. \A k \in 1..Len(stack') : Fits(stack'[k], nodes')
    <3>1. Fits(f, nodes)
      <4>1. \A i \in DOMAIN f.solved : f.solved[i].needs \subseteq Before(f, i)
        BY <1>2, <2>1 DEF Fits, Before, LemmaName
      <4>2. QED
        BY <1>1, <1>2, <2>1, <4>1 DEF Fits
    <3>2. Fits(g, nodes)
      BY <1>2, <2>2, <2>4 DEF Fits
    <3>3. \A k \in 1..(Len(stack) - 1) : Fits(stack'[k], nodes)
      <4>1. \A k \in 1..(Len(stack) - 1) : k \in 1..Len(stack)
        BY <2>7
      <4>2. QED
        BY <2>10, <4>1 DEF SearchInv
    <3>4. \A k \in 1..Len(stack') :
            k \in 1..(Len(stack) - 1) \/ k = Len(stack) \/ k = Len(stack) + 1
      BY <2>7, <2>9
    <3>5. QED
      BY <1>1, <2>9, <2>10, <3>1, <3>2, <3>3, <3>4
  <2>13. Chained'
    <3>1. stack'[1].ctx.hyps = {}
      BY <1>2, <2>7, <2>11 DEF SearchInv, Chained
    <3>2. ASSUME NEW k \in 1..(Len(stack') - 1)
          PROVE  stack'[k].pc = "await" /\ stack'[k+1].ctx = MilestoneChallenge(stack'[k])
      <4>1. CASE k = Len(stack)
        BY <2>1, <2>4, <2>6, <2>9, <2>10, <4>1
      <4>2. CASE k # Len(stack)
        <5>1. k \in 1..(Len(stack) - 1) /\ k + 1 \in 1..Len(stack)
          BY <2>7, <2>9, <4>2
        <5>2. stack[k].pc = "await" /\ stack[k+1].ctx = MilestoneChallenge(stack[k])
          BY <5>1 DEF SearchInv, Chained
        <5>3. QED
          BY <2>10, <2>11, <5>1, <5>2
      <4>3. QED
        BY <4>1, <4>2
    <3>3. ASSUME NEW j \in 1..Len(stack'), NEW k \in 1..Len(stack'), j < k
          PROVE  Aliases(stack'[j].bank) \subseteq stack'[k].ctx.hyps
      <4>1. j \in 1..Len(stack)
        BY <2>7, <2>9, <3>3
      <4>2. CASE k = Len(stack) + 1
        <5>1. Aliases(stack[j].bank) \subseteq Top.ctx.hyps \cup Aliases(Top.bank)
          <6>1. CASE j = Len(stack)
            BY <6>1 DEF Top
          <6>2. CASE j # Len(stack)
            <7>1. j < Len(stack) /\ Len(stack) \in 1..Len(stack)
              BY <2>7, <4>1, <6>2
            <7>2. QED
              BY <4>1, <7>1 DEF SearchInv, Chained, Top
          <6>3. QED
            BY <6>1, <6>2
        <5>2. QED
          BY <2>2, <2>4, <2>9, <2>11, <4>1, <4>2, <5>1 DEF Aliases
      <4>3. CASE k # Len(stack) + 1
        <5>1. k \in 1..Len(stack)
          BY <2>7, <2>9, <4>3
        <5>2. Aliases(stack[j].bank) \subseteq stack[k].ctx.hyps
          BY <3>3, <4>1, <5>1 DEF SearchInv, Chained
        <5>3. QED
          BY <2>11, <4>1, <5>1, <5>2
      <4>4. QED
        BY <4>2, <4>3
    <3>4. QED
      BY <3>1, <3>2, <3>3 DEF Chained, MilestoneChallenge, Aliases, SolvedNames
  <2>14. Returns'
    BY <1>1, <1>2, <2>10 DEF Returns, ReturnedProofFits
  <2>15. Types'
    BY <1>1, <2>9 DEF SearchInv, Types
  <2>16. QED
    BY <1>1, <2>12, <2>13, <2>14, <2>15 DEF SearchInv
<1>5. QED
  BY <1>3, <1>4 DEF Blocked

LEMMA ResumeKeeps ==
  ASSUME SearchInv, Resume
  PROVE  SearchInv'
<1>1. phase = "search" /\ Top.pc = "await" /\ body' = {} /\ UNCHANGED phase
  BY DEF Resume, Running
<1>2. Fits(Top, nodes) /\ Len(Top.solved) < Len(Top.route)
  BY <1>1, TopFacts DEF Fits
<1>3. ASSUME RouteFails, UNCHANGED <<nodes, memo>>
      PROVE  SearchInv'
  BY <1>1, <1>3, RouteFailsKeeps
<1>4. ASSUME NEW needs \in body, MilestoneProved(Top, needs)
      PROVE  SearchInv'
  <2>1. needs \subseteq MilestoneChallenge(Top).hyps
    BY <1>1, <1>4 DEF SearchInv, Returns, ReturnedProofFits
  <2>2. QED
    BY <1>1, <1>2, <1>4, <2>1, MilestoneKeeps
<1>5. QED
  BY <1>3, <1>4 DEF Resume

LEMMA AssembleKeeps ==
  ASSUME SearchInv, Assemble
  PROVE  SearchInv'
<1>1. phase = "search" /\ Top.pc = "lemmas" /\ UNCHANGED <<nodes, memo>>
  BY DEF Assemble, Running
<1>2. Top \in Calls /\ body = {}
  BY <1>1, TopFacts
<1>3. CASE SetTop(RouteOver) /\ UNCHANGED <<body, phase>>
  BY <1>1, <1>2, <1>3, RouteFailsKeeps DEF RouteFails
<1>4. ASSUME LeftOpen(Top, Top.bank, Top.bridge) \subseteq Top.ctx.hyps,
             Return({LeftOpen(Top, Top.bank, Top.bridge)})
      PROVE  SearchInv'
  <2> DEFINE b == {LeftOpen(Top, Top.bank, Top.bridge)}
  <2>1. Top.ctx \in Contexts
    BY <1>2 DEF Calls
  <2>2. b \in SUBSET SUBSET Names /\ \A needs \in b : needs \subseteq Top.ctx.hyps
    BY <1>4, <2>1 DEF Contexts
  <2>3. Return(b)
    BY <1>4
  <2> HIDE DEF b
  <2>4. QED
    BY <1>1, <2>2, <2>3, Returned
<1>5. QED
  BY <1>3, <1>4 DEF Assemble

LEMMA ChainKept ==
  ASSUME Chained, UNCHANGED stack
  PROVE  Chained'
<1>1. stack' # <<>> => stack'[1].ctx.hyps = {}
  BY DEF Chained
<1>2. ASSUME NEW k \in 1..(Len(stack') - 1)
      PROVE  stack'[k].pc = "await" /\ stack'[k+1].ctx = MilestoneChallenge(stack'[k])
  BY DEF Chained
<1>3. \A j, k \in 1..Len(stack') :
        j < k => Aliases(stack'[j].bank) \subseteq stack'[k].ctx.hyps
  BY DEF Chained
<1>4. QED
  BY <1>1, <1>2, <1>3 DEF Chained, MilestoneChallenge, Aliases, SolvedNames

LEMMA FinalCheckKeeps ==
  ASSUME SearchInv, FinalCheck
  PROVE  SearchInv'
<1>1. phase = "final" /\ phase' \in {"solved", "failed"} /\ UNCHANGED <<nodes, stack, memo, body>>
  BY DEF FinalCheck
<1>2. Types'
  BY <1>1 DEF SearchInv, Types
<1>3. Chained'
  BY <1>1, ChainKept DEF SearchInv
<1>4. Returns'
  BY <1>1 DEF SearchInv, Returns, ReturnedProofFits
<1>5. \A k \in 1..Len(stack') : Fits(stack'[k], nodes')
  BY <1>1 DEF SearchInv
<1>6. QED
  BY <1>1, <1>2, <1>3, <1>4, <1>5 DEF SearchInv

-----------------------------------------------------------------------------
(* The bank.                                                                 *)

ClosedIn(bank, S) == \A m \in S : bank[m].deps \subseteq S

\* DependsOn, of any bank.
Reach(bank, n) ==
  {m \in 1..Len(bank) :
     \A S \in SUBSET (1..Len(bank)) : ClosedIn(bank, S) => (n \in S => m \in S)}

Acyclic(bank) ==
  \A n \in 1..Len(bank) : /\ bank[n].deps \subseteq 1..Len(bank)
                          /\ \A d \in bank[n].deps : n \notin Reach(bank, d)

\* No two nodes are the same lemma of the same context.
Distinct(bank) ==
  \A m, n \in 1..Len(bank) : bank[m].stmt = bank[n].stmt /\ bank[m].ctx = bank[n].ctx => m = n

BankInv(bank) == Len(bank) <= MaxNodes /\ Distinct(bank) /\ Acyclic(bank)

LEMMA DependsOnReach ==
  /\ \A n : DependsOn(n) = Reach(nodes, n)
  /\ BankIsAcyclic <=> Acyclic(nodes)
<1>1. \A n : DependsOn(n) = Reach(nodes, n)
  BY DEF DependsOn, ClosedSets, NodeIds, Reach, ClosedIn
<1>2. QED
  BY <1>1 DEF BankIsAcyclic, Acyclic, NodeIds

\* What a node depends on is the least closed set around it.
LEMMA ReachIsLeast ==
  ASSUME NEW bank, NEW n \in 1..Len(bank),
         \A k \in 1..Len(bank) : bank[k].deps \subseteq 1..Len(bank)
  PROVE  /\ n \in Reach(bank, n)
         /\ Reach(bank, n) \subseteq 1..Len(bank)
         /\ ClosedIn(bank, Reach(bank, n))
         /\ \A S \in SUBSET (1..Len(bank)) :
              ClosedIn(bank, S) /\ n \in S => Reach(bank, n) \subseteq S
<1>1. n \in Reach(bank, n) /\ Reach(bank, n) \subseteq 1..Len(bank)
  BY DEF Reach
<1>2. \A S \in SUBSET (1..Len(bank)) :
        ClosedIn(bank, S) /\ n \in S => Reach(bank, n) \subseteq S
  BY DEF Reach
<1>3. ASSUME NEW m \in Reach(bank, n), NEW d \in bank[m].deps
      PROVE  d \in Reach(bank, n)
  <2>1. m \in 1..Len(bank) /\ d \in 1..Len(bank)
    BY <1>1, <1>3
  <2>2. ASSUME NEW S \in SUBSET (1..Len(bank)), ClosedIn(bank, S), n \in S
        PROVE  d \in S
    <3>1. m \in S
      BY <1>2, <2>2
    <3>2. QED
      BY <2>2, <3>1 DEF ClosedIn
  <2>3. QED
    BY <2>1, <2>2 DEF Reach
<1>4. QED
  BY <1>1, <1>2, <1>3 DEF ClosedIn

\* A closed set around one node and without another keeps the other out of reach.
LEMMA OutOfReach ==
  ASSUME NEW bank, NEW d, NEW n, NEW S \in SUBSET (1..Len(bank)),
         ClosedIn(bank, S), d \in S, n \notin S
  PROVE  n \notin Reach(bank, d)
BY DEF Reach

\* A new node depends on old ones, which do not depend on it.
LEMMA AppendAcyclic ==
  ASSUME nodes \in Seq(Nodes), Acyclic(nodes), NEW node \in Nodes,
         node.deps \subseteq 1..Len(nodes), NEW bank, bank = Append(nodes, node)
  PROVE  Acyclic(bank)
<1>1. /\ Len(nodes) \in Nat
      /\ Len(bank) = Len(nodes) + 1
      /\ \A k \in 1..Len(nodes) : bank[k] = nodes[k]
      /\ bank[Len(nodes) + 1] = node
  BY AppendProperties, LenProperties
<1>2. 1..Len(nodes) \subseteq 1..Len(bank)
  BY <1>1
<1>3. \A S \in SUBSET (1..Len(nodes)) : ClosedIn(nodes, S) => ClosedIn(bank, S)
  BY <1>1 DEF ClosedIn
<1>4. ASSUME NEW n \in 1..Len(bank)
      PROVE  bank[n].deps \subseteq 1..Len(nodes)
  <2>1. n \in 1..Len(nodes) \/ n = Len(nodes) + 1
    BY <1>1
  <2>2. QED
    BY <1>1, <2>1 DEF Acyclic
<1>5. ASSUME NEW n \in 1..Len(bank), NEW d \in bank[n].deps
      PROVE  n \notin Reach(bank, d)
  <2>1. d \in 1..Len(nodes)
    BY <1>4
  <2>2. \A k \in 1..Len(nodes) : nodes[k].deps \subseteq 1..Len(nodes)
    BY DEF Acyclic
  <2>3. CASE n \in 1..Len(nodes)
    <3>1. n \notin Reach(nodes, d) /\ Reach(nodes, d) \in SUBSET (1..Len(nodes))
          /\ ClosedIn(nodes, Reach(nodes, d)) /\ d \in Reach(nodes, d)
      BY <1>1, <1>5, <2>1, <2>2, <2>3, ReachIsLeast DEF Acyclic
    <3>2. Reach(nodes, d) \in SUBSET (1..Len(bank))
      BY <1>2, <3>1
    <3>3. QED
      BY <1>3, <3>1, <3>2, OutOfReach
  <2>4. CASE n = Len(nodes) + 1
    <3> DEFINE S == 1..Len(nodes)
    <3>1. S \in SUBSET (1..Len(bank)) /\ n \notin S /\ d \in S
      BY <1>1, <1>2, <2>1, <2>4
    <3>2. ClosedIn(bank, S)
      BY <1>2, <1>4 DEF ClosedIn
    <3>3. QED
      BY <3>1, <3>2, OutOfReach
  <2>5. QED
    BY <1>1, <2>3, <2>4
<1>6. QED
  BY <1>2, <1>4, <1>5 DEF Acyclic

\* A node takes new dependencies, none of which depends on it: a cycle through the new
\* edges would have led from one of them back to the node before.
LEMMA ReplaceAcyclic ==
  ASSUME nodes \in Seq(Nodes), Acyclic(nodes), NEW p \in 1..Len(nodes), NEW node \in Nodes,
         node.deps \subseteq 1..Len(nodes),
         \A d \in node.deps : p \notin Reach(nodes, d),
         NEW bank, bank = [nodes EXCEPT ![p] = node]
  PROVE  Acyclic(bank)
<1>1. /\ Len(nodes) \in Nat
      /\ Len(bank) = Len(nodes)
      /\ \A k \in 1..Len(nodes) : bank[k] = IF k = p THEN node ELSE nodes[k]
  BY ExceptSeq, LenProperties
<1>2. \A k \in 1..Len(nodes) : nodes[k].deps \subseteq 1..Len(nodes)
  BY DEF Acyclic
<1>3. \A k \in 1..Len(bank) : bank[k].deps \subseteq 1..Len(bank)
  BY <1>1, <1>2
<1>4. \A S \in SUBSET (1..Len(nodes)) : ClosedIn(nodes, S) /\ p \notin S => ClosedIn(bank, S)
  BY <1>1 DEF ClosedIn
<1>5. \A d \in 1..Len(nodes) : /\ d \in Reach(nodes, d)
                               /\ Reach(nodes, d) \in SUBSET (1..Len(nodes))
                               /\ ClosedIn(nodes, Reach(nodes, d))
  BY <1>2, ReachIsLeast
<1>6. ASSUME NEW n \in 1..Len(bank), NEW d \in bank[n].deps
      PROVE  n \notin Reach(bank, d)
  <2>1. d \in 1..Len(nodes) /\ n \in 1..Len(nodes)
    BY <1>1, <1>3, <1>6
  <2>2. CASE n = p
    <3>1. p \notin Reach(nodes, d)
      BY <1>1, <1>6, <2>2
    <3>2. ClosedIn(bank, Reach(nodes, d))
      BY <1>4, <1>5, <2>1, <3>1
    <3>3. QED
      BY <1>1, <1>5, <2>1, <2>2, <3>1, <3>2, OutOfReach
  <2>3. CASE n # p
    <3>1. d \in nodes[n].deps /\ n \notin Reach(nodes, d)
      BY <1>1, <1>6, <2>1, <2>3 DEF Acyclic
    <3>2. CASE p \notin Reach(nodes, d)
      <4>1. ClosedIn(bank, Reach(nodes, d))
        BY <1>4, <1>5, <2>1, <3>2
      <4>2. QED
        BY <1>1, <1>5, <2>1, <3>1, <4>1, OutOfReach
    <3>3. CASE p \in Reach(nodes, d)
      <4> DEFINE S == Reach(nodes, d) \cup UNION {Reach(nodes, e) : e \in node.deps}
      <4>1. S \in SUBSET (1..Len(bank)) /\ d \in S
        BY <1>1, <1>5, <2>1
      <4>2. ASSUME NEW m \in S
            PROVE  bank[m].deps \subseteq S
        <5>1. CASE m = p
          <6>1. bank[m].deps = node.deps
            BY <1>1, <5>1
          <6>2. \A e \in node.deps : e \in Reach(nodes, e)
            BY <1>5
          <6>3. QED
            BY <6>1, <6>2
        <5>2. CASE m # p
          <6>1. m \in 1..Len(nodes) /\ bank[m] = nodes[m]
            BY <1>1, <4>1, <5>2
          <6>2. m \in Reach(nodes, d) => nodes[m].deps \subseteq Reach(nodes, d)
            BY <1>5, <2>1 DEF ClosedIn
          <6>3. \A e \in node.deps :
                  m \in Reach(nodes, e) => nodes[m].deps \subseteq Reach(nodes, e)
            BY <1>5 DEF ClosedIn
          <6>4. QED
            BY <6>1, <6>2, <6>3
        <5>3. QED
          BY <5>1, <5>2
      <4>3. n \notin S
        <5>1. ASSUME NEW e \in node.deps, n \in Reach(nodes, e)
              PROVE  FALSE
          <6>1. e \in 1..Len(nodes)
            OBVIOUS
          <6>2. d \in Reach(nodes, e)
            BY <1>5, <3>1, <5>1, <6>1 DEF ClosedIn
          <6>3. Reach(nodes, d) \subseteq Reach(nodes, e)
            BY <1>2, <1>5, <2>1, <6>1, <6>2, ReachIsLeast
          <6>4. QED
            BY <3>3, <6>3
        <5>2. QED
          BY <3>1, <5>1
      <4> HIDE DEF S
      <4>4. ClosedIn(bank, S)
        BY <4>2 DEF ClosedIn
      <4>5. QED
        BY <4>1, <4>3, <4>4, OutOfReach
    <3>4. QED
      BY <3>2, <3>3
  <2>4. QED
    BY <2>2, <2>3
<1>7. QED
  BY <1>3, <1>6 DEF Acyclic

\* add_verified keeps the bank within its limit, without duplicates and without cycles.
LEMMA AddVerifiedKeeps ==
  ASSUME nodes \in Seq(Nodes), BankInv(nodes),
         NEW stmt, NEW ctx, NEW needs, NEW deps, NEW accepted \in BOOLEAN,
         Added(stmt, ctx, deps, accepted) # {} =>
           [stmt |-> stmt, ctx |-> ctx, needs |-> needs, deps |-> deps] \in Nodes,
         AddVerified(stmt, ctx, needs, deps, accepted)
  PROVE  /\ BankInv(nodes')
         /\ Len(nodes') >= Len(nodes)
         /\ Added(stmt, ctx, deps, accepted) \subseteq 1..Len(nodes')
<1> DEFINE node == [stmt |-> stmt, ctx |-> ctx, needs |-> needs, deps |-> deps]
           id   == Added(stmt, ctx, deps, accepted)
<1>0. /\ Len(nodes) \in Nat
      /\ node.deps = deps /\ node.stmt = stmt /\ node.ctx = ctx
      /\ id # {} => node \in Nodes
  BY LenProperties
<1>1. id # {} => ~Refused(stmt, ctx, deps, accepted)
  BY DEF Added
<1>2. id # {} => /\ deps \subseteq 1..Len(nodes)
                 /\ \A d \in deps : Reach(nodes, d) \cap Existing(stmt, ctx) = {}
  BY <1>1, DependsOnReach DEF Refused, NodeIds
<1>3. \/ id \subseteq 1..Len(nodes) /\ UNCHANGED nodes
      \/ \E n \in id : n \in 1..Len(nodes) /\ nodes' = [nodes EXCEPT ![n] = node]
      \/ id = {Len(nodes) + 1} /\ nodes' = Append(nodes, node)
  BY DEF AddVerified, NodeIds
<1>4. CASE id \subseteq 1..Len(nodes) /\ UNCHANGED nodes
  BY <1>0, <1>4
<1>5. ASSUME NEW n \in id, n \in 1..Len(nodes), nodes' = [nodes EXCEPT ![n] = node]
      PROVE  /\ BankInv(nodes')
             /\ Len(nodes') >= Len(nodes)
             /\ id \subseteq 1..Len(nodes')
  <2>1. n \in Existing(stmt, ctx) /\ id = Existing(stmt, ctx)
    BY <1>0, <1>5 DEF Added
  <2>2. /\ Len(nodes') = Len(nodes)
        /\ \A k \in 1..Len(nodes) : nodes'[k] = IF k = n THEN node ELSE nodes[k]
    BY <1>0, <1>5, ExceptSeq
  <2>3. nodes[n].stmt = stmt /\ nodes[n].ctx = ctx /\ id \subseteq 1..Len(nodes)
    BY <2>1 DEF Existing, NodeIds
  <2>4. Distinct(nodes')
    BY <1>0, <2>2, <2>3 DEF BankInv, Distinct
  <2>5. \A d \in deps : n \notin Reach(nodes, d)
    BY <1>2, <2>1
  <2>6. Acyclic(nodes')
    BY <1>0, <1>2, <1>5, <2>5, ReplaceAcyclic DEF BankInv
  <2>7. QED
    BY <1>0, <2>2, <2>3, <2>4, <2>6 DEF BankInv
<1>6. CASE id = {Len(nodes) + 1} /\ nodes' = Append(nodes, node)
  <2>1. Existing(stmt, ctx) = {} /\ Len(nodes) < MaxNodes
    <3>1. Len(nodes) + 1 \notin Existing(stmt, ctx)
      BY <1>0 DEF Existing, NodeIds
    <3>2. Len(nodes) + 1 \in id
      BY <1>6
    <3>3. QED
      BY <3>1, <3>2 DEF Added
  <2>2. /\ Len(nodes') = Len(nodes) + 1
        /\ \A k \in 1..Len(nodes) : nodes'[k] = nodes[k]
        /\ nodes'[Len(nodes) + 1] = node
    BY <1>0, <1>6, AppendProperties
  <2>3. \A k \in 1..Len(nodes) : ~(nodes[k].stmt = stmt /\ nodes[k].ctx = ctx)
    BY <2>1 DEF Existing, NodeIds
  <2>4. Distinct(nodes')
    <3>1. \A k \in 1..Len(nodes') : k \in 1..Len(nodes) \/ k = Len(nodes) + 1
      BY <1>0, <2>2
    <3>2. QED
      BY <1>0, <2>2, <2>3, <3>1 DEF BankInv, Distinct
  <2>5. Acyclic(nodes')
    BY <1>0, <1>2, <1>6, AppendAcyclic DEF BankInv
  <2>6. QED
    BY <1>0, <1>6, <2>1, <2>2, <2>4, <2>5, BankAssumption DEF BankInv
<1>7. QED
  BY <1>3, <1>4, <1>5, <1>6

-----------------------------------------------------------------------------
(* The calls.                                                                *)

\* The k-th call: where it stands in the recursion and in its waves, how much of the bank it
\* holds, and what it has proved of its route, none of whose milestones is its goal.
Shape(f, k, bank) ==
  /\ f.depth = k - 1 /\ k <= MaxDepth + 1 /\ f.wave < Waves
  /\ Cardinality(f.bank) <= BankLimit
  /\ Len(f.solved) <= Len(f.route)
  /\ \A i \in DOMAIN f.solved : f.solved[i].node \subseteq 1..Len(bank)
  /\ \A i \in DOMAIN f.route : f.route[i] # f.ctx.goal
  /\ \A q \in DOMAIN f.todo :
       \A i \in DOMAIN f.todo[q].lemmas : f.todo[q].lemmas[i] # f.ctx.goal

ShapeInv ==
  /\ BankInv(nodes)
  /\ \A k \in 1..Len(stack) : Shape(stack[k], k, nodes)
  /\ body = {} \/ \E b : body = {b}

LEMMA TopShape ==
  ASSUME SearchInv, ShapeInv, phase = "search"
  PROVE  /\ Len(stack) \in Nat \ {0}
         /\ Shape(Top, Len(stack), nodes)
         /\ \A k \in 1..(Len(stack) - 1) : Shape(stack[k], k, nodes)
<1>1. Len(stack) \in Nat \ {0}
  BY TopFacts, StackTop
<1>2. QED
  BY <1>1 DEF ShapeInv, Top

LEMMA ShapeOfLonger ==
  ASSUME nodes \in Seq(Nodes), nodes' \in Seq(Nodes), Len(nodes') >= Len(nodes),
         NEW f, NEW k, Shape(f, k, nodes)
  PROVE  Shape(f, k, nodes')
<1>1. 1..Len(nodes) \subseteq 1..Len(nodes')
  BY LenProperties
<1>2. QED
  BY <1>1 DEF Shape

\* The running call goes on.
LEMMA TopKeepsShape ==
  ASSUME SearchInv, ShapeInv, phase = "search", NEW f \in Calls, SetTop(f),
         nodes' \in Seq(Nodes), Len(nodes') >= Len(nodes), BankInv(nodes'),
         Shape(f, Len(stack), nodes'), body' = {} \/ body' = body
  PROVE  ShapeInv'
<1>1. /\ Len(stack) \in Nat \ {0}
      /\ Len(stack') = Len(stack)
      /\ stack'[Len(stack)] = f
      /\ \A k \in 1..(Len(stack) - 1) : stack'[k] = stack[k]
  BY TopFacts, TopShape, TopSet
<1>2. \A k \in 1..(Len(stack) - 1) : Shape(stack'[k], k, nodes')
  <2>1. nodes \in Seq(Nodes)
    BY DEF SearchInv, Types
  <2>2. \A k \in 1..(Len(stack) - 1) : Shape(stack[k], k, nodes)
    BY TopShape
  <2>3. QED
    BY <1>1, <2>1, <2>2, ShapeOfLonger
<1>3. \A k \in 1..Len(stack') : k \in 1..(Len(stack) - 1) \/ k = Len(stack)
  BY <1>1
<1>4. \A k \in 1..Len(stack') : Shape(stack'[k], k, nodes')
  BY <1>1, <1>2, <1>3
<1>5. QED
  BY <1>4 DEF ShapeInv

\* The same, with the bank as it was.
LEMMA TopKeepsShapeHere ==
  ASSUME SearchInv, ShapeInv, phase = "search", NEW f \in Calls, SetTop(f),
         UNCHANGED nodes, Shape(f, Len(stack), nodes), body' = {} \/ body' = body
  PROVE  ShapeInv'
<1>1. nodes' \in Seq(Nodes) /\ Len(nodes') >= Len(nodes) /\ BankInv(nodes')
  BY LenProperties DEF SearchInv, Types, ShapeInv
<1>2. QED
  BY <1>1, TopKeepsShape

LEMMA ReturnKeepsShape ==
  ASSUME SearchInv, ShapeInv, phase = "search", NEW b, b = {} \/ \E c : b = {c},
         Return(b), UNCHANGED nodes
  PROVE  ShapeInv'
<1>1. /\ Len(stack) \in Nat \ {0}
      /\ Len(stack') = Len(stack) - 1
      /\ \A k \in 1..(Len(stack) - 1) : stack'[k] = stack[k]
  BY TopFacts, StackTop DEF Return
<1>2. \A k \in 1..Len(stack') : Shape(stack'[k], k, nodes')
  BY <1>1, TopShape
<1>3. QED
  BY <1>2 DEF ShapeInv, Return

LEMMA RouteFailsKeepsShape ==
  ASSUME SearchInv, ShapeInv, phase = "search", RouteFails, UNCHANGED nodes,
         body' = {} \/ body' = body
  PROVE  ShapeInv'
<1>1. Top \in Calls /\ Shape(Top, Len(stack), nodes)
  BY TopFacts, TopShape
<1>2. RouteOver \in Calls
  <2>1. <<>> \in Seq(Stmts) /\ <<>> \in Seq(Proofs)
    BY EmptySeq
  <2>2. QED
    BY <1>1, <2>1 DEF RouteOver, Calls
<1>3. /\ RouteOver.ctx = Top.ctx /\ RouteOver.depth = Top.depth /\ RouteOver.wave = Top.wave
      /\ RouteOver.bank = {} /\ RouteOver.route = <<>> /\ RouteOver.solved = <<>>
      /\ RouteOver.todo = Top.todo
  BY <1>1 DEF RouteOver, Calls
<1>4. Cardinality({}) = 0 /\ BankLimit \in Nat
  BY FS_EmptySet, BankAssumption
<1>5. Shape(RouteOver, Len(stack), nodes)
  BY <1>1, <1>3, <1>4 DEF Shape
<1>6. QED
  BY <1>2, <1>5, TopKeepsShapeHere DEF RouteFails

LEMMA RetryWaveKeepsShape ==
  ASSUME SearchInv, ShapeInv, phase = "search", RetryWave, UNCHANGED nodes
  PROVE  ShapeInv'
<1>1. CASE Return({})
  BY <1>1, ReturnKeepsShape
<1>2. ASSUME Top.wave + 1 < Waves, SetTop(Frame(Top.ctx, Top.depth, Top.wave + 1)),
             UNCHANGED <<body, phase>>
      PROVE  ShapeInv'
  <2> DEFINE f == Frame(Top.ctx, Top.depth, Top.wave + 1)
  <2>1. Shape(Top, Len(stack), nodes) /\ f \in Calls
    <3>1. Top \in Calls
      BY TopFacts
    <3>2. Top.ctx \in Contexts /\ Top.depth \in Nat /\ Top.wave \in Nat
      BY <3>1 DEF Calls
    <3>3. Top.wave + 1 \in Nat
      BY <3>2
    <3>4. QED
      BY <3>2, <3>3, FrameType, TopShape
  <2>2. Cardinality({}) = 0 /\ BankLimit \in Nat
    BY FS_EmptySet, BankAssumption
  <2>3. Shape(f, Len(stack), nodes)
    BY <1>2, <2>1, <2>2 DEF Frame, Shape
  <2> HIDE DEF f
  <2>4. SetTop(f)
    BY <1>2 DEF f
  <2>5. QED
    BY <1>2, <2>1, <2>3, <2>4, TopKeepsShapeHere
<1>3. QED
  BY <1>1, <1>2 DEF RetryWave

\* A replayed bank is within the limit of what is offered for replay.
LEMMA CompatibleWithin ==
  ASSUME nodes \in Seq(Nodes), NEW ctx, NEW bank \in CompatibleBanks(ctx)
  PROVE  Cardinality(bank) <= BankLimit
<1>1. Len(nodes) \in Nat /\ BankLimit \in Nat
  BY LenProperties, BankAssumption
<1>2. CASE bank = {}
  BY <1>1, <1>2, FS_EmptySet
<1>3. ASSUME NEW c \in Candidates, bank \subseteq c
      PROVE  Cardinality(bank) <= BankLimit
  <2>1. c \subseteq 1..Len(nodes)
        /\ Cardinality(c) = IF Len(nodes) < BankLimit THEN Len(nodes) ELSE BankLimit
    BY DEF Candidates, NodeIds
  <2>2. IsFiniteSet(c)
    <3>1. IsFiniteSet(1..Len(nodes))
      BY <1>1, FS_Interval
    <3>2. QED
      BY <2>1, <3>1, FS_Subset
  <2>3. IsFiniteSet(bank) /\ Cardinality(bank) <= Cardinality(c)
    BY <1>3, <2>2, FS_Subset
  <2>4. Cardinality(bank) \in Nat /\ Cardinality(c) <= BankLimit
    BY <1>1, <2>1, <2>3, FS_CardinalityType
  <2>5. QED
    BY <1>1, <2>1, <2>3, <2>4
<1>4. QED
  BY <1>2, <1>3 DEF CompatibleBanks

\* No milestone of a ranked route is the goal.
LEMMA RankingsGoals ==
  ASSUME NEW f, NEW bank, NEW q \in Rankings(f, bank)
  PROVE  \A k \in DOMAIN q : \A i \in DOMAIN q[k].lemmas : q[k].lemmas[i] # f.ctx.goal
<1>1. PICK n \in 0..MaxRoutes : q \in [1..n -> Routes(f, bank)]
  BY DEF Rankings
<1>2. ASSUME NEW r \in Routes(f, bank)
      PROVE  \A i \in DOMAIN r.lemmas : r.lemmas[i] # f.ctx.goal
  <2>1. PICK l \in RouteLists(f, bank) : r.lemmas = l
    BY DEF Routes
  <2>2. PICK k \in 1..MaxLemmas : l \in [1..k -> Stmts \ {f.ctx.goal}]
    BY DEF RouteLists, Proposed
  <2>3. QED
    BY <2>1, <2>2
<1>3. QED
  BY <1>1, <1>2

-----------------------------------------------------------------------------
(* The steps again. *)

LEMMA MilestoneKeepsShape ==
  ASSUME SearchInv, ShapeInv, phase = "search", body' = {} \/ body' = body,
         Len(Top.solved) < Len(Top.route),
         NEW needs, needs \subseteq MilestoneChallenge(Top).hyps, MilestoneProved(Top, needs),
         nodes' \in Seq(Nodes)
  PROVE  ShapeInv'
<1>1. PICK accepted \in BOOLEAN :
        LET s    == Top.route[Len(Top.solved) + 1]
            open == LeftOpen(Top, Top.bank, needs)
            deps == Top.bank \cup UNION {Top.solved[i].node : i \in DOMAIN Top.solved}
        IN  /\ accepted => open \subseteq Top.ctx.hyps
            /\ Remember(MilestoneChallenge(Top), needs)
            /\ AddVerified(s, Top.ctx, open, deps, accepted)
            /\ SetTop([Top EXCEPT !.pc = "lemmas",
                                  !.solved = Append(@, [stmt |-> s, needs |-> needs,
                                      node |-> Added(s, Top.ctx, deps, accepted)])])
  BY DEF MilestoneProved
<1> DEFINE s    == Top.route[Len(Top.solved) + 1]
           open == LeftOpen(Top, Top.bank, needs)
           deps == Top.bank \cup UNION {Top.solved[i].node : i \in DOMAIN Top.solved}
           node == Added(s, Top.ctx, deps, accepted)
           last == [stmt |-> s, needs |-> needs, node |-> node]
           f    == [Top EXCEPT !.pc = "lemmas", !.solved = Append(@, last)]
<1>2. /\ Top \in Calls /\ Fits(Top, nodes) /\ Shape(Top, Len(stack), nodes)
      /\ Top.ctx \in Contexts /\ Top.bank \in SUBSET Nat /\ Top.solved \in Seq(Proofs)
      /\ nodes \in Seq(Nodes) /\ Len(nodes) \in Nat /\ Top.route \in Seq(Stmts)
  BY TopFacts, TopShape, LenProperties DEF Calls, SearchInv, Types
<1>3. /\ s \in Stmts
      /\ MilestoneChallenge(Top).hyps \subseteq Names
  BY <1>2, MilestoneTypes DEF Contexts
<1>4. deps \subseteq 1..Len(nodes)
  BY <1>2 DEF Fits, Shape
<1>5. /\ BankInv(nodes')
      /\ Len(nodes') >= Len(nodes)
      /\ node \subseteq 1..Len(nodes')
  <2> DEFINE cert == [stmt |-> s, ctx |-> Top.ctx, needs |-> open, deps |-> deps]
  <2>1. AddVerified(s, Top.ctx, open, deps, accepted)
    BY <1>1
  <2>2. node # {} => accepted
    BY DEF Added, Refused
  <2>3. accepted => open \subseteq Top.ctx.hyps
    BY <1>1
  <2>4. deps \subseteq Nat
    BY <1>2, <1>4
  <2>5. node # {} => cert \in Nodes
    <3> HIDE DEF s, open, deps, node
    <3>1. QED
      BY <1>2, <1>3, <2>2, <2>3, <2>4 DEF Nodes, Contexts
  <2> HIDE DEF s, open, deps
  <2>6. QED
    BY <1>2, <2>1, <2>5, AddVerifiedKeeps DEF ShapeInv
<1>6. last \in Proofs /\ last.node = node
  BY <1>2, <1>3, <1>5, LenProperties DEF Proofs
<1>7. /\ f.ctx = Top.ctx /\ f.bank = Top.bank /\ f.depth = Top.depth /\ f.wave = Top.wave
      /\ f.route = Top.route /\ f.todo = Top.todo
      /\ f.solved = Append(Top.solved, last)
  BY <1>2 DEF Calls
<1> HIDE DEF last
<1>8. /\ Append(Top.solved, last) \in Seq(Proofs)
      /\ Len(Append(Top.solved, last)) = Len(Top.solved) + 1
      /\ \A i \in 1..Len(Top.solved) : Append(Top.solved, last)[i] = Top.solved[i]
      /\ Append(Top.solved, last)[Len(Top.solved) + 1] = last
      /\ Len(Top.solved) \in Nat /\ Len(Top.route) \in Nat
      /\ DOMAIN Top.solved = 1..Len(Top.solved)
      /\ DOMAIN Append(Top.solved, last) = 1..(Len(Top.solved) + 1)
  BY <1>2, <1>6, AppendProperties, SeqElements, LenProperties
<1>9. f \in Calls
  BY <1>2, <1>8 DEF Calls
<1>10. Shape(f, Len(stack), nodes')
  <2>1. Shape(Top, Len(stack), nodes')
    BY <1>2, <1>5, ShapeOfLonger
  <2>2. \A i \in DOMAIN f.solved : f.solved[i].node \subseteq 1..Len(nodes')
    <3>1. \A i \in DOMAIN f.solved : i \in 1..Len(Top.solved) \/ i = Len(Top.solved) + 1
      BY <1>7, <1>8
    <3> HIDE DEF f, node
    <3>2. QED
      BY <1>5, <1>6, <1>7, <1>8, <2>1, <3>1 DEF Shape
  <2>3. Len(f.solved) <= Len(f.route)
    BY <1>7, <1>8
  <2> HIDE DEF f
  <2>4. QED
    BY <1>7, <2>1, <2>2, <2>3 DEF Shape
<1>11. SetTop(f)
  BY <1>1 DEF last
<1> HIDE DEF f
<1>12. QED
  BY <1>5, <1>9, <1>10, <1>11, TopKeepsShape

LEMMA ShapeStart == BridgeInit => ShapeInv
<1> SUFFICES ASSUME BridgeInit
             PROVE  ShapeInv
  OBVIOUS
<1>1. stack = <<>> /\ body = {} /\ Len(nodes) <= MaxNodes /\ Len(stack) = 0
  BY EmptySeq DEF BridgeInit
<1>2. Distinct(nodes) /\ Acyclic(nodes)
  <2>1. CASE nodes = <<>>
    <3>1. Len(nodes) = 0
      BY <2>1, EmptySeq
    <3>2. QED
      BY <3>1 DEF Distinct, Acyclic
  <2>2. ASSUME NEW s \in Stmts, nodes = <<Promoted(s)>>
        PROVE  Distinct(nodes) /\ Acyclic(nodes)
    <3>1. Len(nodes) = 1 /\ nodes[1].deps = {}
      BY <2>2 DEF Promoted
    <3>2. QED
      BY <3>1 DEF Distinct, Acyclic
  <2>3. QED
    BY <2>1, <2>2 DEF BridgeInit
<1>3. QED
  BY <1>1, <1>2 DEF ShapeInv, BankInv

LEMMA ShapeStep ==
  ASSUME SearchInv, SearchInv', ShapeInv, [BridgeNext]_bridgeVars
  PROVE  ShapeInv'
<1>0. nodes \in Seq(Nodes) /\ nodes' \in Seq(Nodes) /\ Cardinality({}) = 0 /\ BankLimit \in Nat
  BY FS_EmptySet, BankAssumption DEF SearchInv, Types
<1>1. CASE Battery
  <2>1. phase = "battery" /\ stack = <<>> /\ body = {} /\ UNCHANGED nodes
    BY <1>1 DEF Battery, SearchInv, Returns
  <2>2. ASSUME stack' = <<>>, body' \in {{}, {{}}}
        PROVE  ShapeInv'
    <3>1. Len(stack') = 0
      BY <2>2, EmptySeq
    <3>2. QED
      BY <2>1, <2>2, <3>1 DEF ShapeInv
  <2>3. ASSUME stack' = <<Frame(Challenge(Root, {}), 0, 0)>>, body' = {}
        PROVE  ShapeInv'
    <3> DEFINE f == Frame(Challenge(Root, {}), 0, 0)
    <3>1. Shape(f, 1, nodes')
      BY <1>0, SearchAssumption DEF Frame, Shape
    <3> HIDE DEF f
    <3>2. Len(stack') = 1 /\ stack'[1] = f
      BY <2>3 DEF f
    <3>3. QED
      BY <2>1, <2>3, <3>1, <3>2 DEF ShapeInv
  <2>4. QED
    BY <1>1, <2>1, <2>2, <2>3 DEF Battery
<1>2. CASE Enter
  <2>1. phase = "search" /\ Top.pc = "enter" /\ UNCHANGED nodes
    BY <1>2 DEF Enter, Running
  <2>2. PICK bank \in CompatibleBanks(Top.ctx) :
          \/ Return({})
          \/ ClosedByBank(bank)
          \/ /\ SetTop([Top EXCEPT !.pc = "plan", !.bank = bank])
             /\ UNCHANGED <<body, phase>>
    BY <1>2 DEF Enter
  <2>3. CASE Return({})
    BY <2>1, <2>3, ReturnKeepsShape
  <2>4. CASE ClosedByBank(bank)
    BY <2>1, <2>4, ReturnKeepsShape DEF ClosedByBank
  <2>5. CASE SetTop([Top EXCEPT !.pc = "plan", !.bank = bank]) /\ UNCHANGED body
    <3> DEFINE f == [Top EXCEPT !.pc = "plan", !.bank = bank]
    <3>1. Top \in Calls /\ Shape(Top, Len(stack), nodes)
      BY <2>1, TopFacts, TopShape
    <3>2. Cardinality(bank) <= BankLimit /\ bank \in SUBSET Nat
      <4>1. bank \subseteq 1..Len(nodes) /\ Len(nodes) \in Nat
        BY <1>0, CompatibleFits, LenProperties
      <4>2. QED
        BY <1>0, <4>1, CompatibleWithin
    <3>3. f \in Calls /\ Shape(f, Len(stack), nodes)
      BY <3>1, <3>2 DEF Calls, Shape
    <3> HIDE DEF f
    <3>4. SetTop(f)
      BY <2>5 DEF f
    <3>5. QED
      BY <2>1, <2>5, <3>3, <3>4, TopKeepsShapeHere
  <2>6. QED
    BY <2>2, <2>3, <2>4, <2>5
<1>3. CASE Plan
  <2>1. phase = "search" /\ UNCHANGED nodes
    BY <1>3 DEF Plan, Running
  <2>2. CASE RetryWave
    BY <2>1, <2>2, RetryWaveKeepsShape
  <2>3. ASSUME NEW q \in Rankings(Top, Top.bank), UNCHANGED body,
               SetTop([Top EXCEPT !.pc = "routes", !.bank = {}, !.todo = q])
        PROVE  ShapeInv'
    <3> DEFINE f == [Top EXCEPT !.pc = "routes", !.bank = {}, !.todo = q]
    <3>1. Top \in Calls /\ Shape(Top, Len(stack), nodes)
      BY <2>1, TopFacts, TopShape
    <3>2. q \in Seq(RouteRecords)
      BY <3>1, RankingsTypes
    <3>3. \A k \in DOMAIN q : \A i \in DOMAIN q[k].lemmas : q[k].lemmas[i] # Top.ctx.goal
      BY RankingsGoals
    <3>4. /\ f \in Calls /\ f.ctx = Top.ctx /\ f.depth = Top.depth /\ f.wave = Top.wave
          /\ f.bank = {} /\ f.route = Top.route /\ f.solved = Top.solved /\ f.todo = q
      BY <3>1, <3>2 DEF Calls
    <3>5. SetTop(f)
      BY <2>3
    <3> HIDE DEF f
    <3>6. Shape(f, Len(stack), nodes)
      BY <1>0, <3>1, <3>3, <3>4 DEF Shape
    <3>7. QED
      BY <2>1, <2>3, <3>4, <3>5, <3>6, TopKeepsShapeHere
  <2>4. QED
    BY <1>3, <2>2, <2>3 DEF Plan
<1>4. CASE NextRoute
  <2>1. phase = "search" /\ Top.pc = "routes" /\ UNCHANGED nodes
    BY <1>4 DEF NextRoute, Running
  <2>2. CASE RetryWave
    BY <2>1, <2>2, RetryWaveKeepsShape
  <2>3. CASE Return({})
    BY <2>1, <2>3, ReturnKeepsShape
  <2>4. ASSUME Top.todo # <<>>, NEW bank \in CompatibleBanks(Top.ctx), UNCHANGED body,
               SetTop([Top EXCEPT !.pc = "lemmas", !.bank = bank, !.tried = @ + 1,
                                  !.route = Head(Top.todo).lemmas,
                                  !.bridge = Head(Top.todo).bridge, !.todo = Tail(@)])
        PROVE  ShapeInv'
    <3> DEFINE n == Top.tried + 1
               h == Head(Top.todo)
               r == Tail(Top.todo)
               f == [Top EXCEPT !.pc = "lemmas", !.bank = bank, !.tried = n,
                                !.route = h.lemmas, !.bridge = h.bridge, !.todo = r]
    <3>1. /\ Top \in Calls /\ Shape(Top, Len(stack), nodes) /\ Top.solved = <<>>
          /\ Top.todo \in Seq(RouteRecords) /\ Top.tried \in Nat
      BY <2>1, TopFacts, TopShape DEF Calls, Fits
    <3>2. Cardinality(bank) <= BankLimit /\ bank \in SUBSET Nat
      <4>1. bank \subseteq 1..Len(nodes) /\ Len(nodes) \in Nat
        BY <1>0, CompatibleFits, LenProperties
      <4>2. QED
        BY <1>0, <4>1, CompatibleWithin
    <3>3. /\ h \in RouteRecords /\ r \in Seq(RouteRecords) /\ n \in Nat
          /\ h = Top.todo[1] /\ 1 \in DOMAIN Top.todo
          /\ \A k \in DOMAIN r : k + 1 \in DOMAIN Top.todo /\ r[k] = Top.todo[k + 1]
      <4>1. h \in RouteRecords /\ r \in Seq(RouteRecords) /\ n \in Nat
        BY <2>4, <3>1, HeadTailProperties
      <4>2. /\ Len(r) = Len(Top.todo) - 1 /\ \A k \in 1..Len(r) : r[k] = Top.todo[k + 1]
            /\ h = Top.todo[1]
        BY <2>4, <3>1, HeadTailProperties
      <4>3. /\ DOMAIN r = 1..Len(r) /\ DOMAIN Top.todo = 1..Len(Top.todo)
            /\ Len(Top.todo) \in Nat \ {0}
        BY <2>4, <3>1, <4>1, SeqElements, EmptySeq
      <4> HIDE DEF r, h, n
      <4>4. QED
        BY <4>1, <4>2, <4>3
    <3>4. SetTop(f)
      BY <2>4
    <3> HIDE DEF n, h, r
    <3>5. /\ f \in Calls /\ f.ctx = Top.ctx /\ f.depth = Top.depth /\ f.wave = Top.wave
          /\ f.bank = bank /\ f.route = h.lemmas /\ f.solved = <<>> /\ f.todo = r
      BY <3>1, <3>2, <3>3 DEF Calls, RouteRecords
    <3> HIDE DEF f
    <3>6. Shape(f, Len(stack), nodes)
      <4>1. Len(f.solved) = 0 /\ DOMAIN f.solved = {} /\ Len(f.route) \in Nat
        BY <3>3, <3>5, EmptySeq, LenProperties DEF RouteRecords
      <4>2. \A i \in DOMAIN f.route : f.route[i] # f.ctx.goal
        BY <3>1, <3>3, <3>5 DEF Shape
      <4>3. \A q \in DOMAIN f.todo :
              \A i \in DOMAIN f.todo[q].lemmas : f.todo[q].lemmas[i] # f.ctx.goal
        BY <3>1, <3>3, <3>5 DEF Shape
      <4>4. QED
        BY <3>1, <3>2, <3>5, <4>1, <4>2, <4>3 DEF Shape
    <3>7. QED
      BY <2>1, <2>4, <3>4, <3>5, <3>6, TopKeepsShapeHere
  <2>5. QED
    BY <1>4, <2>2, <2>3, <2>4 DEF NextRoute
<1>5. CASE OutOfTime
  BY <1>5, RouteFailsKeepsShape DEF OutOfTime, MilestoneLeft, Running
<1>6. CASE Milestone
  <2>1. PICK needs \in SUBSET MilestoneChallenge(Top).hyps : MilestoneProved(Top, needs)
    BY <1>6, KnownFits
  <2>2. phase = "search" /\ Len(Top.solved) < Len(Top.route) /\ UNCHANGED body
    BY <1>6 DEF Milestone, MilestoneLeft, Running
  <2>3. QED
    BY <1>0, <2>1, <2>2, MilestoneKeepsShape
<1>7. CASE Blocked
  <2>1. /\ phase = "search" /\ Len(Top.solved) < Len(Top.route) /\ UNCHANGED <<nodes, body>>
    BY <1>7 DEF Blocked, MilestoneLeft, Running
  <2>2. CASE RouteFails
    BY <2>1, <2>2, RouteFailsKeepsShape
  <2>3. ASSUME Top.depth < MaxDepth,
               stack' = Append(Append(Callers, [Top EXCEPT !.pc = "await"]),
                               Frame(MilestoneChallenge(Top), Top.depth + 1, 0))
        PROVE  ShapeInv'
    <3> DEFINE f == [Top EXCEPT !.pc = "await"]
               g == Frame(MilestoneChallenge(Top), Top.depth + 1, 0)
    <3>1. /\ Top \in Calls /\ Shape(Top, Len(stack), nodes)
          /\ stack \in Seq(Calls) /\ stack # <<>>
      BY <2>1, TopFacts, TopShape
    <3>2. f \in Calls /\ Shape(f, Len(stack), nodes)
      BY <3>1 DEF Calls, Shape
    <3>3. g \in Calls
      <4>1. Top.depth \in Nat
        BY <3>1 DEF Calls
      <4>2. MilestoneChallenge(Top) \in Contexts /\ Top.depth + 1 \in Nat /\ 0 \in Nat
        BY <2>1, <3>1, <4>1, MilestoneTypes
      <4>3. QED
        BY <4>2, FrameType
    <3>4. Shape(g, Len(stack) + 1, nodes)
      <4>1. Top.depth = Len(stack) - 1 /\ Len(stack) \in Nat /\ MaxDepth \in Nat /\ 0 < Waves
        BY <3>1, LenProperties, SearchAssumption DEF Shape
      <4>2. /\ g.depth = Top.depth + 1 /\ g.wave = 0 /\ g.bank = {} /\ g.solved = <<>>
            /\ g.route = <<>> /\ g.todo = <<>>
        BY DEF Frame
      <4> HIDE DEF g
      <4>3. QED
        BY <1>0, <2>3, <4>1, <4>2 DEF Shape
    <3>5. stack' = Append(Append(Callers, f), g)
      BY <2>3
    <3> HIDE DEF f, g
    <3>6. /\ Len(stack) \in Nat \ {0}
          /\ Callers \in Seq(Calls)
          /\ Len(Callers) = Len(stack) - 1
          /\ \A k \in 1..(Len(stack) - 1) : Callers[k] = stack[k]
      BY <3>1, StackTop
    <3>7. /\ Append(Callers, f) \in Seq(Calls)
          /\ Len(Append(Callers, f)) = Len(stack)
          /\ \A k \in 1..(Len(stack) - 1) : Append(Callers, f)[k] = stack[k]
          /\ Append(Callers, f)[Len(stack)] = f
      BY <3>2, <3>6, AppendProperties
    <3>8. /\ Len(stack') = Len(stack) + 1
          /\ \A k \in 1..Len(stack) : stack'[k] = Append(Callers, f)[k]
          /\ stack'[Len(stack) + 1] = g
      BY <3>3, <3>5, <3>7, AppendProperties
    <3>9. \A k \in 1..Len(stack') : Shape(stack'[k], k, nodes')
      <4>1. \A k \in 1..Len(stack') :
              k \in 1..(Len(stack) - 1) \/ k = Len(stack) \/ k = Len(stack) + 1
        BY <3>6, <3>8
      <4>2. \A k \in 1..(Len(stack) - 1) : stack'[k] = stack[k] /\ Shape(stack[k], k, nodes)
        BY <2>1, <3>6, <3>7, <3>8, TopShape
      <4>3. stack'[Len(stack)] = f
        BY <3>6, <3>7, <3>8
      <4>4. QED
        BY <2>1, <3>2, <3>4, <3>8, <4>1, <4>2, <4>3
    <3>10. QED
      BY <2>1, <3>9 DEF ShapeInv
  <2>4. QED
    BY <1>7, <2>2, <2>3 DEF Blocked
<1>8. CASE Resume
  <2>1. phase = "search" /\ Top.pc = "await" /\ body' = {}
    BY <1>8 DEF Resume, Running
  <2>2. Len(Top.solved) < Len(Top.route)
    BY <2>1, TopFacts DEF Fits
  <2>3. ASSUME RouteFails, UNCHANGED nodes
        PROVE  ShapeInv'
    BY <2>1, <2>3, RouteFailsKeepsShape
  <2>4. ASSUME NEW needs \in body, MilestoneProved(Top, needs)
        PROVE  ShapeInv'
    <3>1. needs \subseteq MilestoneChallenge(Top).hyps
      BY <2>1, <2>4 DEF SearchInv, Returns, ReturnedProofFits
    <3>2. QED
      BY <1>0, <2>1, <2>2, <2>4, <3>1, MilestoneKeepsShape
  <2>5. QED
    BY <1>8, <2>3, <2>4 DEF Resume
<1>9. CASE Assemble
  <2>1. phase = "search" /\ UNCHANGED nodes
    BY <1>9 DEF Assemble, Running
  <2>2. CASE SetTop(RouteOver) /\ UNCHANGED body
    BY <2>1, <2>2, RouteFailsKeepsShape DEF RouteFails
  <2>3. CASE Return({LeftOpen(Top, Top.bank, Top.bridge)})
    BY <2>1, <2>3, ReturnKeepsShape
  <2>4. QED
    BY <1>9, <2>2, <2>3 DEF Assemble
<1>10. CASE FinalCheck \/ UNCHANGED bridgeVars
  BY <1>10 DEF FinalCheck, bridgeVars, ShapeInv
<1>11. QED
  BY <1>1, <1>2, <1>3, <1>4, <1>5, <1>6, <1>7, <1>8, <1>9, <1>10 DEF BridgeNext

-----------------------------------------------------------------------------
(* The theorems. *)

LEMMA SearchInit == BridgeInit => SearchInv
<1> SUFFICES ASSUME BridgeInit
             PROVE  SearchInv
  OBVIOUS
<1>1. stack = <<>> /\ memo = {} /\ body = {} /\ phase = "battery"
  BY DEF BridgeInit
<1>2. stack \in Seq(Calls) /\ Len(stack) = 0
  BY <1>1, EmptySeq
<1>3. nodes \in Seq(Nodes) /\ OlderOnly(nodes)
  <2>1. CASE nodes = <<>>
    <3>1. nodes \in Seq(Nodes) /\ Len(nodes) = 0
      BY <2>1, EmptySeq
    <3>2. QED
      BY <3>1 DEF OlderOnly
  <2>2. ASSUME NEW s \in Stmts, nodes = <<Promoted(s)>>
        PROVE  nodes \in Seq(Nodes) /\ OlderOnly(nodes)
    <3>1. Promoted(s) \in Nodes /\ Promoted(s).ctx.hyps = {}
      BY DEF Promoted, Nodes, Contexts, Challenge, Goals, Names
    <3>2. nodes \in Seq(Nodes) /\ Len(nodes) = 1 /\ nodes[1] = Promoted(s)
      BY <2>2, <3>1
    <3>3. QED
      BY <3>1, <3>2 DEF OlderOnly
  <2>3. QED
    BY <2>1, <2>2 DEF BridgeInit
<1>4. QED
  BY <1>1, <1>2, <1>3 DEF SearchInv, Types, Chained, Returns, ReturnedProofFits

LEMMA SearchStep == SearchInv /\ [BridgeNext]_bridgeVars => SearchInv'
<1> SUFFICES ASSUME SearchInv, [BridgeNext]_bridgeVars
             PROVE  SearchInv'
  OBVIOUS
<1>1. CASE BridgeNext
  BY <1>1, BatteryKeeps, EnterKeeps, PlanKeeps, NextRouteKeeps, OutOfTimeKeeps,
     MilestoneStepKeeps, BlockedKeeps, ResumeKeeps, AssembleKeeps, FinalCheckKeeps
     DEF BridgeNext
<1>2. CASE UNCHANGED bridgeVars
  <2>1. UNCHANGED <<nodes, stack, memo, body, phase>>
    BY <1>2 DEF bridgeVars
  <2>2. Types'
    BY <2>1 DEF SearchInv, Types
  <2>3. Chained'
    BY <2>1, ChainKept DEF SearchInv
  <2>4. Returns'
    BY <2>1 DEF SearchInv, Returns, ReturnedProofFits, Top, MilestoneChallenge, Aliases,
                SolvedNames
  <2>5. \A k \in 1..Len(stack') : Fits(stack'[k], nodes')
    BY <2>1 DEF SearchInv
  <2>6. QED
    BY <2>1, <2>2, <2>3, <2>4, <2>5 DEF SearchInv
<1>3. QED
  BY <1>1, <1>2

\* A reachable state satisfies the inductive invariant.
THEOREM SearchInvariant == BridgeSpec => []SearchInv
BY SearchInit, SearchStep, PTL DEF BridgeSpec

LEMMA FramesFit ==
  ASSUME SearchInv
  PROVE  \A f \in Frames : Fits(f, nodes)
<1>1. DOMAIN stack = 1..Len(stack)
  BY SeqElements DEF SearchInv, Types
<1>2. QED
  BY <1>1 DEF Frames, SearchInv

\* For any statements, limits, depth and number of waves, a certificate replayed in a context
\* still fits that context when it is used: what a nested call may replace in the bank was
\* certified under its own header, which is younger than all its callers hold.
THEOREM CertificatesAlwaysReplayed == BridgeSpec => []CertificatesStayReplayed
<1>1. SearchInv => CertificatesStayReplayed
  BY FramesFit DEF CertificatesStayReplayed, Fits
<1>2. QED
  BY <1>1, SearchInvariant, PTL

\* Likewise what a route has proved needs only the header, the bank of the route and the
\* milestones before it, whether it was proved here, in a nested call, remembered or banked.
THEOREM MilestonesAlwaysInScope == BridgeSpec => []MilestonesInScope
<1>1. SearchInv => MilestonesInScope
  BY FramesFit DEF MilestonesInScope, Fits, Before
<1>2. QED
  BY <1>1, SearchInvariant, PTL

\* And the body a call returns fits the header its caller puts it under.
THEOREM ReturnedProofsFit == BridgeSpec => []ReturnedProofFits
<1>1. SearchInv => ReturnedProofFits
  BY DEF SearchInv, Returns
<1>2. QED
  BY <1>1, SearchInvariant, PTL

\* Any search keeps its stack, its bank and its routes in shape as well.
THEOREM ShapeInvariant == BridgeSpec => []ShapeInv
<1>1. SearchInv /\ ShapeInv /\ [BridgeNext]_bridgeVars => (SearchInv /\ ShapeInv)'
  BY SearchStep, ShapeStep
<1>2. BridgeInit => SearchInv /\ ShapeInv
  BY SearchInit, ShapeStart
<1>3. QED
  BY <1>1, <1>2, PTL DEF BridgeSpec

\* For any limits, the bank stays within its own and holds a lemma of a context once; calls
\* nest to the allowed depth, no wave is beyond the last, and a call never holds more of the
\* bank than was offered to it.
THEOREM SearchTypesCorrect == BridgeSpec => []SearchTypeOK
<1>1. SearchInv /\ ShapeInv => SearchTypeOK
  <2> SUFFICES ASSUME SearchInv, ShapeInv
               PROVE  SearchTypeOK
    OBVIOUS
  <2>1. DOMAIN stack = 1..Len(stack)
    BY SeqElements DEF SearchInv, Types
  <2>2. /\ Len(nodes) <= MaxNodes
        /\ \A m, n \in NodeIds :
             nodes[m].stmt = nodes[n].stmt /\ nodes[m].ctx = nodes[n].ctx => m = n
    BY DEF ShapeInv, BankInv, Distinct, NodeIds
  <2>3. \A k \in DOMAIN stack :
          stack[k].depth = k - 1 /\ k <= MaxDepth + 1 /\ stack[k].wave < Waves
    BY <2>1 DEF ShapeInv, Shape
  <2>4. \A f \in Frames : /\ f.bank \subseteq NodeIds /\ Cardinality(f.bank) <= BankLimit
                          /\ Len(f.solved) <= Len(f.route)
    BY <2>1 DEF SearchInv, Fits, ShapeInv, Shape, Frames, NodeIds
  <2>5. Cardinality(body) <= 1
    <3>1. CASE body = {}
      BY <3>1, FS_EmptySet
    <3>2. ASSUME NEW b, body = {b}
          PROVE  Cardinality(body) <= 1
      <4>1. Cardinality({b}) = 1
        BY FS_Singleton
      <4>2. QED
        BY <3>2, <4>1
    <3>3. QED
      BY <3>1, <3>2 DEF ShapeInv
  <2>6. QED
    BY <2>2, <2>3, <2>4, <2>5 DEF SearchTypeOK
<1>2. QED
  BY <1>1, SearchInvariant, ShapeInvariant, PTL

\* For a bank of any size, however certificates are replaced by shorter ones and lemmas proved
\* from one another's consequences, no lemma ever depends on itself.
THEOREM BankAlwaysAcyclic == BridgeSpec => []BankIsAcyclic
<1>1. ShapeInv => BankIsAcyclic
  BY DependsOnReach DEF ShapeInv, BankInv
<1>2. QED
  BY <1>1, ShapeInvariant, PTL

\* And no accepted certificate is turned away for a cycle: when add_verified refuses one, its
\* lemma is in the bank of that context already.
THEOREM NothingProvedEverLost == BridgeSpec => []NothingProvedIsLost
<1>1. SearchInv /\ ShapeInv => NothingProvedIsLost
  <2> SUFFICES ASSUME SearchInv, ShapeInv, NEW f \in Frames, Len(f.solved) < Len(f.route)
               PROVE  LET s    == f.route[Len(f.solved) + 1]
                          deps == f.bank \cup UNION {f.solved[i].node : i \in DOMAIN f.solved}
                      IN  Refused(s, f.ctx, deps, TRUE) =>
                            \E n \in NodeIds : nodes[n].stmt = s /\ nodes[n].ctx = f.ctx
    BY DEF NothingProvedIsLost
  <2> DEFINE s    == f.route[Len(f.solved) + 1]
             deps == f.bank \cup UNION {f.solved[i].node : i \in DOMAIN f.solved}
  <2>1. PICK k \in 1..Len(stack) : f = stack[k]
    BY SeqElements DEF SearchInv, Types, Frames
  <2>2. f \in Calls /\ Fits(f, nodes) /\ Shape(f, k, nodes)
    BY <2>1, ElementOfSeq DEF SearchInv, ShapeInv, Types
  <2>3. deps \subseteq NodeIds
    BY <2>2 DEF Fits, Shape, NodeIds
  <2>4. s # f.ctx.goal
    <3>1. Len(f.solved) + 1 \in DOMAIN f.route
      BY <2>2, SeqElements DEF Calls
    <3>2. QED
      BY <2>2, <3>1 DEF Shape
  <2>5. Refused(s, f.ctx, deps, TRUE) => Existing(s, f.ctx) # {}
    BY <2>3, <2>4 DEF Refused
  <2>6. QED
    BY <2>5 DEF Existing
<1>2. QED
  BY <1>1, SearchInvariant, ShapeInvariant, PTL

=============================================================================
