----------------------------- MODULE PlanGraph -----------------------------
(***************************************************************************)
(* The dependency graph of a plan (keel/graph.py).                         *)
(*                                                                         *)
(* A plan is a record: nodes is the set of node ids, deps maps a node id   *)
(* to the set of ids it depends on ({} for an id that is not in the plan), *)
(* high is the set of high-impact nodes, version counts revisions.  The    *)
(* graph keeps no state of its own: its operations are operators.          *)
(***************************************************************************)
EXTENDS Naturals, FiniteSets

\* The plans over a set of node ids.
PlanOver(ids) ==
  [nodes : SUBSET ids, deps : [ids -> SUBSET ids], high : SUBSET ids, version : Nat]

\* Every dependency names a node of the plan, and only nodes have any.
KnownDependencies(p) ==
  /\ \A n \in p.nodes : p.deps[n] \subseteq p.nodes
  /\ \A n \in DOMAIN p.deps \ p.nodes : p.deps[n] = {}

\* No cycle: every non-empty set of nodes has one that waits for no other
\* node of the set.
Acyclic(p) ==
  \A S \in SUBSET p.nodes : S # {} => \E n \in S : p.deps[n] \cap S = {}

\* What PlanGraph.__init__ accepts; it raises GraphError otherwise.
ValidPlan(p) == KnownDependencies(p) /\ Acyclic(p)

\* PlanGraph.ready: the nodes that can start, given what has finished.
Ready(p, completed) ==
  {n \in p.nodes \ completed : p.deps[n] \subseteq completed}

\* PlanGraph._reach over _deps: everything transitively upstream of n, the
\* least set that holds n's dependencies and theirs.
Ancestors(p, n) ==
  LET closed == {S \in SUBSET p.nodes :
                   p.deps[n] \subseteq S /\ \A m \in S : p.deps[m] \subseteq S}
  IN  {m \in p.nodes : m # n /\ \A S \in closed : m \in S}

\* Two nodes are ordered by the plan when one is upstream of the other.
Related(p, m, n) == m \in Ancestors(p, n) \/ n \in Ancestors(p, m)
=============================================================================
