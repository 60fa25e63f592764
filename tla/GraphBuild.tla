----------------------------- MODULE GraphBuild -----------------------------
(***************************************************************************)
(* How PlanGraph (keel/graph.py) does what module PlanGraph says it does:  *)
(* the search for a cycle, the levels, the critical path, the closure      *)
(* behind ancestors, descendants and mark_stale, and subgraph, as the      *)
(* loops they are.  Where the code walks a list of dependencies the model  *)
(* takes them in any order, and so covers every order of declaration.      *)
(***************************************************************************)
EXTENDS PlanGraph, Sequences

CONSTANTS
  Node,     \* the plan's nodes
  MaxDeps   \* bound: dependencies of a node

VARIABLES
  deps,       \* NodeSpec.depends_on of the plan that is built
  phase,      \* "search", "rejected", "levels", "measure", "built", "reach"
  color,      \* _find_cycle: white, gray or black
  path,       \* the gray nodes, from the start of the walk
  pending,    \* the iterators on the stack
  cycle,      \* what it returns
  remaining,  \* _compute_levels: dependencies not yet in a level
  levels,
  length,     \* critical_path: the longest chain that ends in a node
  previous,   \* and the node before it on that chain
  from,       \* _reach: where it starts
  edges,      \* the edges it follows: "deps" or "dependents"
  frontier,   \* its list
  seen        \* what it has found

vars == <<deps, phase, color, path, pending, cycle, remaining, levels, length, previous,
          from, edges, frontier, seen>>

searching == <<color, path, pending, cycle>>
levelling == <<remaining, levels>>
measuring == <<length, previous>>
reaching  == <<from, edges, frontier, seen>>

None == "none"

\* A plan lists its nodes, and no node's id is Python's None.
ASSUME BuildAssumption == MaxDeps \in Nat /\ IsFiniteSet(Node) /\ None \notin Node

\* The plan of the graph, as module PlanGraph sees it.
ThePlan == [nodes |-> Node, deps |-> deps]

Graphs == {d \in [Node -> SUBSET Node] : \A n \in Node : Cardinality(d[n]) <= MaxDeps}

Init ==
  /\ deps \in Graphs
  /\ phase = "search"
  /\ color = [n \in Node |-> "white"]
  /\ path = <<>>
  /\ pending = [n \in Node |-> {}]
  /\ cycle = <<>>
  /\ remaining = [n \in Node |-> 0]
  /\ levels = <<>>
  /\ length = [n \in Node |-> 0]
  /\ previous = [n \in Node |-> None]
  /\ from = None /\ edges = None /\ frontier = {} /\ seen = {}

-----------------------------------------------------------------------------
(***************************************************************************)
(* _find_cycle.                                                            *)
(***************************************************************************)

Top == path[Len(path)]

\* A node turns gray and its dependencies are to be looked at.
Enter(n) ==
  /\ color' = [color EXCEPT ![n] = "gray"]
  /\ path' = Append(path, n)

\* The next start is a node no walk has seen.
StartWalk(n) ==
  /\ phase = "search"
  /\ path = <<>>
  /\ color[n] = "white"
  /\ Enter(n)
  /\ pending' = [pending EXCEPT ![n] = deps[n]]
  /\ UNCHANGED <<deps, phase, cycle, levelling, measuring, reaching>>

Position(n) == CHOOSE i \in DOMAIN path : path[i] = n

\* The gray node and all the path above it, closed and read backwards.
CycleAt(n) ==
  LET closed == Append(SubSeq(path, Position(n), Len(path)), n)
  IN  [i \in 1 .. Len(closed) |-> closed[Len(closed) + 1 - i]]

\* A plausible slip: only a node that waits for itself is noticed.
ClosesTop(m) == m = Top

\* Meeting a gray node is what makes a cycle.
Closes(m) == color[m] = "gray"

\* One dependency of the node on top: a cycle, a descent, or nothing new.
Inspect(m) ==
  /\ phase = "search"
  /\ path # <<>>
  /\ m \in pending[Top]
  /\ IF Closes(m)
     THEN /\ phase' = "rejected"
          /\ cycle' = CycleAt(m)
          /\ UNCHANGED <<color, path, pending>>
     ELSE IF color[m] = "white"
     THEN /\ Enter(m)
          /\ pending' = [pending EXCEPT ![Top] = @ \ {m}, ![m] = deps[m]]
          /\ UNCHANGED <<phase, cycle>>
     ELSE /\ pending' = [pending EXCEPT ![Top] = @ \ {m}]
          /\ UNCHANGED <<phase, cycle, color, path>>
  /\ UNCHANGED <<deps, levelling, measuring, reaching>>

\* The node on top has nothing left to look at.
Backtrack ==
  /\ phase = "search"
  /\ path # <<>>
  /\ pending[Top] = {}
  /\ color' = [color EXCEPT ![Top] = "black"]
  /\ path' = SubSeq(path, 1, Len(path) - 1)
  /\ UNCHANGED <<deps, phase, pending, cycle, levelling, measuring, reaching>>

\* Every node has been walked: the graph is accepted and levelled.
Accept ==
  /\ phase = "search"
  /\ path = <<>>
  /\ \A n \in Node : color[n] # "white"
  /\ phase' = "levels"
  /\ remaining' = [n \in Node |-> Cardinality(deps[n])]
  /\ UNCHANGED <<deps, searching, levels, measuring, reaching>>

-----------------------------------------------------------------------------
(***************************************************************************)
(* _compute_levels and critical_path.                                      *)
(***************************************************************************)

Levelled == UNION {levels[i] : i \in DOMAIN levels}

\* A plausible slip: one dependency in the last level is enough.
LevelEager == {n \in Node \ Levelled : remaining[n] <= 1}

\* The frontier: nodes with nothing left to wait for.
Level == {n \in Node \ Levelled : remaining[n] = 0}

NextLevel ==
  /\ phase = "levels"
  /\ Level # {}
  /\ levels' = Append(levels, Level)
  /\ remaining' = [n \in Node |-> remaining[n] - Cardinality(deps[n] \cap Level)]
  /\ UNCHANGED <<deps, phase, searching, measuring, reaching>>

LastLevel ==
  /\ phase = "levels"
  /\ Level = {}
  /\ phase' = "measure"
  /\ UNCHANGED <<deps, searching, levelling, measuring, reaching>>

\* The dependencies that end the longest chains.
Longest(n) == {d \in deps[n] : \A e \in deps[n] : length[e] <= length[d]}

\* The levels in turn: every node's chain is one longer than its best
\* dependency's.
Measure(n) ==
  /\ phase = "measure"
  /\ length[n] = 0
  /\ \A d \in deps[n] : length[d] > 0
  /\ IF deps[n] = {}
     THEN length' = [length EXCEPT ![n] = 1] /\ UNCHANGED previous
     ELSE \E d \in Longest(n) :
            /\ length' = [length EXCEPT ![n] = length[d] + 1]
            /\ previous' = [previous EXCEPT ![n] = d]
  /\ UNCHANGED <<deps, phase, searching, levelling, reaching>>

Built ==
  /\ phase = "measure"
  /\ \A n \in Node : length[n] > 0
  /\ phase' = "built"
  /\ UNCHANGED <<deps, searching, levelling, measuring, reaching>>

\* The chain that ends in n, walked backwards and reversed.
Chain[n \in Node] ==
  IF previous[n] = None THEN <<n>> ELSE Append(Chain[previous[n]], n)

-----------------------------------------------------------------------------
(***************************************************************************)
(* _reach, for ancestors, descendants and mark_stale, and subgraph.        *)
(***************************************************************************)

Dependents(n) == {m \in Node : n \in deps[m]}

\* ancestors(n), or descendants(n) and with it mark_stale(n).
StartReach(n, along) ==
  /\ phase = "built"
  /\ phase' = "reach"
  /\ from' = n
  /\ edges' = along
  /\ frontier' = {n}
  /\ UNCHANGED <<deps, searching, levelling, measuring, seen>>

Edges(n) == IF edges = "deps" THEN deps[n] ELSE Dependents(n)

\* A plausible slip: only the direct neighbours go on the list.
FreshNever(n) == {m \in Edges(n) : n = from}

\* What a node adds to the list.
Fresh(n) == Edges(n) \ seen

Reach(n) ==
  /\ phase = "reach"
  /\ n \in frontier
  /\ seen' = seen \cup Fresh(n)
  /\ frontier' = (frontier \ {n}) \cup Fresh(n)
  /\ UNCHANGED <<deps, phase, searching, levelling, measuring, from, edges>>

Found == seen \ {from}

Stale == Found \cup {from}

\* subgraph: the edges inside the set.
Subgraph(S) == [nodes |-> S, deps |-> [n \in S |-> deps[n] \cap S]]

Next ==
  \/ \E n \in Node :
       \/ StartWalk(n) \/ Inspect(n) \/ Measure(n) \/ Reach(n)
       \/ \E along \in {"deps", "dependents"} : StartReach(n, along)
  \/ Backtrack \/ Accept \/ NextLevel \/ LastLevel \/ Built

Spec == Init /\ [][Next]_vars

-----------------------------------------------------------------------------
(***************************************************************************)
(* Properties.                                                             *)
(***************************************************************************)

TypeOK ==
  /\ deps \in [Node -> SUBSET Node]
  /\ phase \in {"search", "rejected", "levels", "measure", "built", "reach"}
  /\ color \in [Node -> {"white", "gray", "black"}]
  /\ path \in Seq(Node)
  /\ pending \in [Node -> SUBSET Node]
  /\ cycle \in Seq(Node)

Colored(c) == {n \in Node : color[n] = c}

\* The walk's bookkeeping, and why the search is right: the gray nodes are the
\* path, each waits for the next, and whatever a node on the path or a black
\* node waits for and is not pending is black or next on the path; the black
\* nodes have no cycle among them (the loop of _find_cycle).
WalkOK ==
  /\ TypeOK
  /\ \A i, j \in DOMAIN path : path[i] = path[j] => i = j
  /\ Colored("gray") = {path[i] : i \in DOMAIN path}
  /\ \A i \in 1 .. Len(path) - 1 : path[i + 1] \in deps[path[i]]
  /\ \A i \in DOMAIN path :
       /\ pending[path[i]] \subseteq deps[path[i]]
       /\ deps[path[i]] \ pending[path[i]] \subseteq
            Colored("black") \cup {path[j] : j \in DOMAIN path \cap {i + 1}}
  /\ \A n \in Colored("black") : deps[n] \subseteq Colored("black")
  /\ \A S \in SUBSET Colored("black") : S # {} => \E n \in S : deps[n] \cap S = {}
  /\ phase \notin {"search", "rejected"} => Colored("black") = Node

\* A cycle that is reported is one: it ends where it starts, and every node in
\* it waits for the one before (_find_cycle's message to the planner).
CycleIsReal ==
  phase = "rejected" =>
    /\ Len(cycle) > 1
    /\ cycle[1] = cycle[Len(cycle)]
    /\ \A i \in 1 .. Len(cycle) - 1 : cycle[i] \in deps[cycle[i + 1]]

\* A graph that is accepted has no cycle (__init__), whatever the order in
\* which nodes and dependencies are declared.
AcceptedIsAcyclic == phase \notin {"search", "rejected"} => Acyclic(ThePlan)

\* The level of a node is the length of its longest chain of dependencies: it
\* is in that level and no other, all it waits for is in earlier ones, and
\* critical_path finds such a chain, from a root (levels, critical_path).
LevelsAreDepths ==
  phase \in {"built", "reach"} =>
    \A n \in Node :
      /\ \A i \in DOMAIN levels : n \in levels[i] <=> i = length[n]
      /\ length[n] \in DOMAIN levels
      /\ \A d \in deps[n] : length[d] < length[n]
      /\ Len(Chain[n]) = length[n]
      /\ \A i \in 1 .. length[n] - 1 : Chain[n][i] \in deps[Chain[n][i + 1]]

\* The closure is exact, along either edges.  The ancestors of a node, by which
\* the executor tells whose files it may write over and who is shown generated
\* code, are all that is upstream and no more; what must run again is the
\* changed node and all that is downstream, and as a plan of its own it is
\* valid (ancestors, mark_stale, subgraph).
ReachIsExact ==
  phase = "reach" /\ frontier = {} =>
    IF edges = "deps"
    THEN Found = Ancestors(ThePlan, from)
    ELSE /\ Stale = {n \in Node : n = from \/ from \in Ancestors(ThePlan, n)}
         /\ ValidPlan(Subgraph(Stale))
=============================================================================
