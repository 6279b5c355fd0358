--------------------------- MODULE BridgePortfolio ---------------------------
(*****************************************************************************)
(* Bridge-first search for a proof of one goal                               *)
(* (experiments_agents/bridgeportfolio.py) over the bank of VerifiedProgress.*)
(*                                                                           *)
(* A proof body is abstracted to the names it needs from its context: Lean   *)
(* can accept it only where all of them are declared.  Whether it does, and  *)
(* what a model proposes, is chosen by the environment; a refused check, a   *)
(* check that fails and a model call that fails end alike in the code.  Each *)
(* test of the clock (_has_time) may go either way.                          *)
(* Calls recurse through a milestone that stays blocked, so the state is a   *)
(* stack of calls of _decompose_goal.                                        *)
(*****************************************************************************)
EXTENDS VerifiedProgress

CONSTANTS MaxDepth,        \* max_depth
          Waves,           \* search_waves
          MaxRoutes,       \* max_routes_checked
          MaxRoutesTried,  \* max_routes_tried
          MaxLemmas,       \* max_lemmas
          MemoLimit        \* proofs of _memo the model keeps (a bound of the model)

ASSUME SearchAssumption == /\ {MaxDepth, MaxRoutes, MaxRoutesTried, MemoLimit} \subseteq Nat
                           /\ {Waves, MaxLemmas} \subseteq Nat \ {0}

VARIABLES
  stack,   \* the calls of _decompose_goal, the running one last
  memo,    \* _memo: proofs by exact challenge, as pairs
  body,    \* what the last call returned: {} for None, or {the names it needs}
  phase    \* "battery", "search", "final", "solved" or "failed"

bridgeVars == <<nodes, stack, memo, body, phase>>

\* A challenge: what to prove, and the hypotheses its header declares.
Challenge(goal, hyps) == [goal |-> goal, hyps |-> hyps]

\* A milestone as a hypothesis: its name, which carries the depth, the wave and its place in
\* the route, and its statement.  A child's names do not meet its parent's; routes of one
\* wave share names.
LemmaName(f, i, s) == <<"bp", f.depth, f.wave, i, s>>

Frame(ctx, depth, wave) ==
  [ctx |-> ctx, depth |-> depth, wave |-> wave, pc |-> "enter", bank |-> {},
   todo |-> <<>>, tried |-> 0, route |-> <<>>, bridge |-> {}, solved |-> <<>>]

Top == stack[Len(stack)]
Callers == SubSeq(stack, 1, Len(stack) - 1)
SetTop(f) == stack' = Append(Callers, f)

\* promote_goal_shaped_from_text: an earlier stage banks a `have` of its failed candidate
\* without a check of its own.  The body may need a name local to that candidate.
Promoted(s) == [stmt |-> s, ctx |-> Challenge(Root, {}), needs |-> {<<"local">>}, deps |-> {}]

\* The bank is the run's: empty, or with a fact promoted before, if it has room for one.
BridgeInit ==
  /\ nodes \in {<<>>} \cup {<<Promoted(s)>> : s \in Stmts}
  /\ Len(nodes) <= MaxNodes
  /\ stack = <<>>
  /\ memo = {}
  /\ body = {}
  /\ phase = "battery"

-----------------------------------------------------------------------------
(* What a frame has at hand. *)

SolvedNames(f) == {LemmaName(f, i, f.solved[i].stmt) : i \in DOMAIN f.solved}

\* The challenge of the next milestone: the bank of this route and the milestones
\* already proved are its extra hypotheses.
MilestoneChallenge(f) ==
  Challenge(f.route[Len(f.solved) + 1],
            f.ctx.hyps \cup Aliases(f.bank) \cup SolvedNames(f))

\* What _certificate_body leaves undeclared when it states the bank and the milestones
\* proved so far before a body, each with its proof.
LeftOpen(f, bank, needs) ==
  LET proofs == {nodes[n].needs : n \in bank}
                  \cup {f.solved[i].needs : i \in DOMAIN f.solved} \cup {needs}
  IN  UNION proofs \ (Aliases(bank) \cup SolvedNames(f))

\* Mutant: certificates of another context are taken as they are.
BanksNotReplayed(ctx) == Candidates

\* _compatible_bank: certificates of some candidates, replayed in this very context.
\* Fewer when a replay fails or the time is up.
CompatibleBanks(ctx) ==
  {{}} \cup UNION {SUBSET {n \in c : nodes[n].needs \subseteq ctx.hyps} : c \in Candidates}

-----------------------------------------------------------------------------
(* Planning a wave. *)

\* _make_portfolio: the models propose lists of distinct milestones, none the goal itself.
Proposed(f) ==
  {l \in UNION {[1..k -> Stmts \ {f.ctx.goal}] : k \in 1..MaxLemmas} :
     \A i, j \in DOMAIN l : i # j => l[i] # l[j]}

\* _filter_route_statements: a list whose milestones are all banked is dropped.  So may be
\* any other, as ill-typed or as a disguise of the goal.
RouteLists(f, bank) ==
  {l \in Proposed(f) : ~(\A i \in DOMAIN l : \E n \in bank : nodes[n].stmt = l[i])}

\* _verify_bridges: the goal proved from the bank and the milestones of the list, of which
\* it uses at least one.  Proofs that use the last alone, or all there is, stand for all.
Bridges(f, bank, l) ==
  LET names == {LemmaName(f, i, l[i]) : i \in DOMAIN l}
  IN  {{LemmaName(f, Len(l), l[Len(l)])}, names \cup Aliases(bank)}

Routes(f, bank) ==
  UNION {{[lemmas |-> l, bridge |-> b] : b \in Bridges(f, bank, l)} : l \in RouteLists(f, bank)}

\* _rank_routes: an order of the verified routes, by the reviewer or by length; the
\* reviewer may reject any of them, all included.
Rankings(f, bank) ==
  {q \in UNION {[1..k -> Routes(f, bank)] : k \in 0..MaxRoutes} :
     \A i, j \in DOMAIN q : i # j => q[i].lemmas # q[j].lemmas}

-----------------------------------------------------------------------------
(* Calls and returns. *)

Return(b) == /\ body' = b
             /\ stack' = Callers
             /\ phase' = IF Callers # <<>> THEN phase
                         ELSE IF b = {} THEN "failed" ELSE "final"

\* Mutant: the fresh wave keeps the number of the failed one.
RetrySameWave ==
  \/ /\ Top.wave + 1 < Waves
     /\ SetTop(Frame(Top.ctx, Top.depth, Top.wave))
     /\ UNCHANGED <<body, phase>>
  \/ Return({})

\* _retry_wave: a fresh wave for the same goal while there are waves and time.
RetryWave ==
  \/ /\ Top.wave + 1 < Waves
     /\ SetTop(Frame(Top.ctx, Top.depth, Top.wave + 1))
     /\ UNCHANGED <<body, phase>>
  \/ Return({})

\* A milestone stays blocked: the route is given up, what it proved stays in the bank.
RouteOver == [Top EXCEPT !.pc = "routes", !.bank = {}, !.route = <<>>, !.bridge = {},
                         !.solved = <<>>]
RouteFails == SetTop(RouteOver)

\* _memo keeps every proof.  The model keeps MemoLimit of them, and may forget any: one that
\* is forgotten is found again, so forgetting hides no use of a remembered proof.
Remember(challenge, needs) ==
  \/ UNCHANGED memo
  \/ /\ Cardinality(memo) < MemoLimit
     /\ memo' = memo \cup {<<challenge, needs>>}

\* The first milestone left is proved by a body that needs the given names.  Its proof is
\* remembered, and its certificate goes to the bank if Lean accepts it standing alone.
MilestoneProved(f, needs) ==
  \E accepted \in BOOLEAN :
    LET s    == f.route[Len(f.solved) + 1]
        open == LeftOpen(f, f.bank, needs)
        deps == f.bank \cup UNION {f.solved[i].node : i \in DOMAIN f.solved}
    IN  /\ accepted => open \subseteq f.ctx.hyps
        /\ Remember(MilestoneChallenge(f), needs)
        /\ AddVerified(s, f.ctx, open, deps, accepted)
        /\ SetTop([f EXCEPT !.pc = "lemmas",
                            !.solved = Append(@, [stmt |-> s, needs |-> needs,
                                                  node |-> Added(s, f.ctx, deps, accepted)])])

-----------------------------------------------------------------------------
(* The steps of the search. *)

\* solve(): a header it can lock, the closing battery on the goal itself, then the search.
Battery ==
  /\ phase = "battery"
  /\ \/ phase' = "failed" /\ UNCHANGED <<stack, body>>
     \/ body' = {{}} /\ phase' = "final" /\ UNCHANGED stack
     \/ phase' = "search" /\ stack' = <<Frame(Challenge(Root, {}), 0, 0)>>
        /\ UNCHANGED body
  /\ UNCHANGED <<nodes, memo>>

Running(pc) == phase = "search" /\ Top.pc = pc

\* _try_bank_closure, _try_bank_path_combinations: the closing battery over what is needed of
\* the bank, or over one or two of its lemmas.  Lean checks the proof assembled from them.
ClosedByBank(bank) ==
  \E part \in SUBSET bank :
    /\ part # {}
    /\ LeftOpen(Top, part, {}) \subseteq Top.ctx.hyps
    /\ Return({LeftOpen(Top, part, {})})

\* _decompose_goal starts: replay the bank and try to close the goal with it alone.
Enter ==
  /\ Running("enter")
  /\ \E bank \in CompatibleBanks(Top.ctx) :
       \/ Return({})
       \/ ClosedByBank(bank)
       \/ /\ SetTop([Top EXCEPT !.pc = "plan", !.bank = bank])
          /\ UNCHANGED <<body, phase>>
  /\ UNCHANGED <<nodes, memo>>

\* Then plan a wave of routes; none left is a failed wave.
Plan ==
  /\ Running("plan")
  /\ \/ RetryWave
     \/ \E q \in Rankings(Top, Top.bank) :
          /\ SetTop([Top EXCEPT !.pc = "routes", !.bank = {}, !.todo = q])
          /\ UNCHANGED <<body, phase>>
  /\ UNCHANGED <<nodes, memo>>

\* The next route in rank.  The bank is replayed again, and may differ from the one its
\* bridge was verified with.
NextRoute ==
  /\ Running("routes")
  /\ IF Top.todo = <<>> \/ Top.tried = MaxRoutesTried THEN RetryWave
     ELSE \/ Return({})
          \/ /\ \E bank \in CompatibleBanks(Top.ctx) :
                  SetTop([Top EXCEPT !.pc = "lemmas", !.bank = bank, !.tried = @ + 1,
                                     !.route = Head(Top.todo).lemmas,
                                     !.bridge = Head(Top.todo).bridge, !.todo = Tail(@)])
             /\ UNCHANGED <<body, phase>>
  /\ UNCHANGED <<nodes, memo>>

MilestoneLeft == Running("lemmas") /\ Len(Top.solved) < Len(Top.route)

\* No time for the next milestone.
OutOfTime ==
  /\ MilestoneLeft
  /\ RouteFails
  /\ UNCHANGED <<nodes, memo, body, phase>>

\* Mutant: proofs are remembered by their statement.
RememberedByStatement == {k[2] : k \in {m \in memo : m[1].goal = MilestoneChallenge(Top).goal}}

\* Bodies known for the next milestone: a remembered proof of exactly this challenge, or
\* else the certificate of a banked fact with its statement.
Remembered == {k[2] : k \in {m \in memo : m[1] = MilestoneChallenge(Top)}}

Banked == {nodes[n].needs : n \in {k \in Top.bank : nodes[k].stmt = Top.route[Len(Top.solved) + 1]}}

Known == IF Remembered # {} THEN Remembered ELSE Banked

Milestone ==
  /\ MilestoneLeft
  /\ \E needs \in IF Known # {} THEN Known ELSE {{}, MilestoneChallenge(Top).hyps} :
       MilestoneProved(Top, needs)
  /\ UNCHANGED <<body, phase>>

\* _prove_locked_goal gives up: the milestone is decomposed in its turn, or blocked.
Blocked ==
  /\ MilestoneLeft
  /\ Known = {}
  /\ IF Top.depth < MaxDepth
     THEN stack' = Append(Append(Callers, [Top EXCEPT !.pc = "await"]),
                          Frame(MilestoneChallenge(Top), Top.depth + 1, 0))
     ELSE RouteFails
  /\ UNCHANGED <<nodes, memo, body, phase>>

\* The recursive call has returned.
Resume ==
  /\ Running("await")
  /\ IF body = {} THEN RouteFails /\ UNCHANGED <<nodes, memo>>
     ELSE \E needs \in body : MilestoneProved(Top, needs)
  /\ body' = {}
  /\ UNCHANGED phase

\* Mutant: the bridge was verified when the route was planned, and is not checked again.
AssembleUnchecked ==
  /\ Running("lemmas") /\ Len(Top.solved) = Len(Top.route)
  /\ Return({LeftOpen(Top, Top.bank, Top.bridge)})
  /\ UNCHANGED <<nodes, memo>>

\* All milestones proved: Lean checks the route assembled with its bridge.
Assemble ==
  /\ Running("lemmas") /\ Len(Top.solved) = Len(Top.route)
  /\ \/ /\ LeftOpen(Top, Top.bank, Top.bridge) \subseteq Top.ctx.hyps
        /\ Return({LeftOpen(Top, Top.bank, Top.bridge)})
     \/ SetTop(RouteOver) /\ UNCHANGED <<body, phase>>
  /\ UNCHANGED <<nodes, memo>>

\* solve() rebuilds the file under the original header and checks it a last time.
FinalCheck ==
  /\ phase = "final"
  /\ \/ phase' = "solved" /\ \E needs \in body : needs = {}
     \/ phase' = "failed"
  /\ UNCHANGED <<nodes, stack, memo, body>>

BridgeNext ==
        \/ Battery \/ Enter \/ Plan \/ NextRoute \/ OutOfTime \/ Milestone
        \/ Blocked \/ Resume \/ Assemble \/ FinalCheck

\* The search is one task: every model call and every check has a deadline of its own.
BridgeSpec == BridgeInit /\ [][BridgeNext]_bridgeVars /\ WF_bridgeVars(BridgeNext)

-----------------------------------------------------------------------------
(* Properties. *)

Frames == {stack[k] : k \in DOMAIN stack}

\* The bank has at most one node for a statement in a context and never outgrows its
\* limit; calls nest to the allowed depth and no wave is beyond the last.
SearchTypeOK ==
  /\ Len(nodes) <= MaxNodes
  /\ \A m, n \in NodeIds : nodes[m].stmt = nodes[n].stmt /\ nodes[m].ctx = nodes[n].ctx => m = n
  /\ \A k \in DOMAIN stack : stack[k].depth = k - 1 /\ k <= MaxDepth + 1 /\ stack[k].wave < Waves
  /\ \A f \in Frames : /\ f.bank \subseteq NodeIds /\ Cardinality(f.bank) <= BankLimit
                       /\ Len(f.solved) <= Len(f.route)
  /\ Cardinality(body) <= 1

\* The bank holds references to nodes, and a recursive call may replace a node's
\* certificate by a shorter one of its own context.  A certificate replayed in a context
\* still fits that context whenever the call that replayed it gets to use it.
CertificatesStayReplayed ==
  \A f \in Frames : \A n \in f.bank : nodes[n].needs \subseteq f.ctx.hyps

\* Every milestone proved, remembered or taken from the bank needs only what stands
\* before it when the route is assembled: the header, the bank, the earlier milestones.
MilestonesInScope ==
  \A f \in Frames : \A i \in DOMAIN f.solved :
    f.solved[i].needs \subseteq
      f.ctx.hyps \cup Aliases(f.bank) \cup {LemmaName(f, j, f.solved[j].stmt) : j \in 1..(i-1)}

\* A proof returned by a call fits the header its caller puts it under: that of the
\* milestone it was asked for, or of the problem.
ReturnedProofFits ==
  \A needs \in body :
    CASE phase = "search" -> needs \subseteq MilestoneChallenge(Top).hyps
      [] OTHER            -> needs = {}

\* An accepted certificate is turned away only when its lemma is in the bank for that
\* context already (or the bank is full): the check for cycles loses nothing.
NothingProvedIsLost ==
  \A f \in Frames :
    Len(f.solved) < Len(f.route) =>
      LET s    == f.route[Len(f.solved) + 1]
          deps == f.bank \cup UNION {f.solved[i].node : i \in DOMAIN f.solved}
      IN  Refused(s, f.ctx, deps, TRUE) => \E n \in NodeIds : nodes[n].stmt = s /\ nodes[n].ctx = f.ctx

\* Every search ends, whatever the models propose and however often Lean refuses.
SearchEnds == <>(phase \in {"solved", "failed"})
=============================================================================
