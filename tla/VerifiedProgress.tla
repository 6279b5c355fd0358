--------------------------- MODULE VerifiedProgress ---------------------------
(*****************************************************************************)
(* The bank of verified lemmas that the stages of one run share              *)
(* (experiments_agents/verified_progress.py, residual_hygiene.py).           *)
(*                                                                           *)
(* A node is a lemma of a context (the challenge it was certified under).    *)
(* The text of its certificate is abstracted to the hypotheses of a context  *)
(* it mentions: a context gives the certificate its meaning only when it     *)
(* declares all of them.  A node's number is its place in the bank, as the   *)
(* code's dictionary keeps insertion order and never deletes.                *)
(*****************************************************************************)
EXTENDS Integers, Sequences, FiniteSets

CONSTANTS Stmts,       \* statements a planner may propose as milestones
          Root,        \* the goal of the problem
          MaxNodes,    \* VerifiedProgressGraph.max_nodes
          BankLimit    \* limit of candidates()

ASSUME BankAssumption == /\ Root \notin Stmts
                         /\ MaxNodes \in Nat
                         /\ BankLimit \in Nat

VARIABLE nodes         \* VerifiedProgressGraph.nodes, in order of insertion

NodeIds == 1..Len(nodes)

\* VerifiedLemmaNode.alias: the name under which a node becomes a hypothesis.
Alias(n) == <<"vp", n>>
Aliases(bank) == {Alias(n) : n \in bank}

\* Sets of nodes that hold all that their nodes depend on.
ClosedSets == {S \in SUBSET NodeIds : \A m \in S : nodes[m].deps \subseteq S}

\* Everything a node depends on, itself included: what _reachable can visit from it, which
\* is the least such set around it.
DependsOn(n) == {m \in NodeIds : \A S \in ClosedSets : n \in S => m \in S}

\* Mutant: nodes are told apart by their statement alone.
ExistingByStatement(stmt, ctx) == {n \in NodeIds : nodes[n].stmt = stmt}

\* The node of a statement in a context, if there is one (resolved_id).
Existing(stmt, ctx) == {n \in NodeIds : nodes[n].stmt = stmt /\ nodes[n].ctx = ctx}

\* Mutant: only a direct dependency on the node itself is refused.
RefusedWithoutPath(stmt, ctx, deps, accepted) ==
    \/ ~accepted \/ stmt = ctx.goal \/ ~(deps \subseteq NodeIds)
    \/ deps \cap Existing(stmt, ctx) # {}

\* add_verified refuses a certificate Lean did not accept, a restatement of the goal,
\* a missing dependency, and a dependency that leads back to the node itself.
Refused(stmt, ctx, deps, accepted) ==
    \/ ~accepted
    \/ stmt = ctx.goal
    \/ ~(deps \subseteq NodeIds)
    \/ \E d \in deps : DependsOn(d) \cap Existing(stmt, ctx) # {}

\* Mutant: the bank has no limit.
AddedWithoutLimit(stmt, ctx, deps, accepted) ==
    IF Refused(stmt, ctx, deps, accepted) THEN {}
    ELSE IF Existing(stmt, ctx) # {} THEN Existing(stmt, ctx) ELSE {Len(nodes) + 1}

\* The node add_verified returns, as a set: empty stands for None.
Added(stmt, ctx, deps, accepted) ==
    IF Refused(stmt, ctx, deps, accepted) THEN {}
    ELSE IF Existing(stmt, ctx) # {} THEN Existing(stmt, ctx)
    ELSE IF Len(nodes) < MaxNodes THEN {Len(nodes) + 1}
    ELSE {}

\* The bank after add_verified: an existing node takes the new certificate and its
\* dependencies when the certificate is shorter, a new one is appended while there is room.
AddVerified(stmt, ctx, needs, deps, accepted) ==
    LET node == [stmt |-> stmt, ctx |-> ctx, needs |-> needs, deps |-> deps]
        id   == Added(stmt, ctx, deps, accepted)
    IN  \/ id \subseteq NodeIds /\ UNCHANGED nodes          \* None, or not shorter
        \/ \E n \in id : /\ n \in NodeIds
                         /\ nodes' = [nodes EXCEPT ![n] = node]
        \/ id = {Len(nodes) + 1} /\ nodes' = Append(nodes, node)

\* candidates(): the best BankLimit nodes by overlap with the goal, reuse and length.
\* The score is data, so any choice of that many nodes is possible.
Candidates == {c \in SUBSET NodeIds :
                  Cardinality(c) = IF Len(nodes) < BankLimit THEN Len(nodes) ELSE BankLimit}

\* A dependency is a node of the bank, and no node depends on itself: replacing a
\* certificate, re-proving an evicted lemma or proving it from its own consequences never
\* closes a cycle.
BankIsAcyclic ==
    \A n \in NodeIds : /\ nodes[n].deps \subseteq NodeIds
                       /\ \A d \in nodes[n].deps : n \notin DependsOn(d)

=============================================================================
