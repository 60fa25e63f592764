--------------------------- MODULE GraphBuildProofs ---------------------------
(***************************************************************************)
(* The walks are right for every plan of finitely many nodes, in whatever  *)
(* order nodes and dependencies are looked at: the search accepts no cycle *)
(* and reports only cycles, mark_stale finds what is downstream, a node's  *)
(* level is the length of its longest chain, and critical_path spells one. *)
(*                                                                         *)
(* The search needs no induction over the graph: a node turns black when   *)
(* all it waits for is black, so every set of black nodes keeps a node     *)
(* that waits for none of the set.                                         *)
(***************************************************************************)
EXTENDS GraphBuild, SequenceTheorems, FiniteSetTheorems, TLAPS

\* The parts of WalkOK, in terms of single nodes.
OnPath(n) == \E i \in 1 .. Len(path) : path[i] = n

PathOK ==
  /\ \A i, j \in 1 .. Len(path) : path[i] = path[j] => i = j
  /\ \A n \in Node : color[n] = "gray" <=> OnPath(n)
  /\ \A i \in 1 .. Len(path) : i < Len(path) => path[i + 1] \in deps[path[i]]

PendingOK ==
  \A i \in 1 .. Len(path) : \A m \in Node :
    /\ m \in pending[path[i]] => m \in deps[path[i]]
    /\ m \in deps[path[i]] =>
         \/ m \in pending[path[i]]
         \/ color[m] = "black"
         \/ i < Len(path) /\ m = path[i + 1]

BlackOK ==
  /\ \A n \in Node : color[n] = "black" => \A m \in deps[n] : color[m] = "black"
  /\ \A S \in SUBSET Node :
       S # {} /\ (\A n \in S : color[n] = "black") => \E n \in S : deps[n] \cap S = {}

SearchInv ==
  /\ TypeOK
  /\ PathOK
  /\ PendingOK
  /\ BlackOK
  /\ phase \notin {"search", "rejected"} => \A n \in Node : color[n] = "black"
  /\ CycleIsReal

LEMMA SearchInit == Init => SearchInv
<1> SUFFICES ASSUME Init PROVE SearchInv
  OBVIOUS
<1> USE DEF Init
<1>1. TypeOK
  BY DEF TypeOK, Graphs
<1>2. Len(path) = 0 /\ \A n \in Node : color[n] = "white"
  OBVIOUS
<1>3. PathOK /\ PendingOK /\ BlackOK
  BY <1>2 DEF PathOK, OnPath, PendingOK, BlackOK
<1> QED
  BY <1>1, <1>3 DEF SearchInv, CycleIsReal

\* A step that leaves the search alone and does not go back to it.
LEMMA SearchFrame ==
  ASSUME SearchInv, UNCHANGED <<deps, searching>>,
         phase' \in {"search", "rejected", "levels", "measure", "built", "reach"},
         phase' \in {"search", "rejected"} => phase' = phase,
         phase' \notin {"search", "rejected"} => \A n \in Node : color[n] = "black"
  PROVE  SearchInv'
<1>1. UNCHANGED <<deps, color, path, pending, cycle>>
  BY DEF searching
<1>2. TypeOK'
  BY <1>1 DEF SearchInv, TypeOK
<1>3. PathOK' /\ PendingOK' /\ BlackOK'
  BY <1>1 DEF SearchInv, PathOK, OnPath, PendingOK, BlackOK
<1>4. CycleIsReal'
  BY <1>1 DEF SearchInv, CycleIsReal
<1> QED
  BY <1>1, <1>2, <1>3, <1>4 DEF SearchInv

LEMMA StartWalkKeeps ==
  ASSUME SearchInv, NEW n \in Node, StartWalk(n)
  PROVE  SearchInv'
<1> USE DEF SearchInv, StartWalk, Enter
<1>1. path' = <<n>> /\ Len(path') = 1 /\ path'[1] = n /\ Len(path) = 0
  BY DEF TypeOK
<1>2. TypeOK'
  BY DEF TypeOK
<1>3. PathOK'
  BY <1>1 DEF PathOK, OnPath, TypeOK
<1>4. PendingOK'
  BY <1>1 DEF PendingOK, TypeOK
<1>5. \A m \in Node : color'[m] = "black" <=> color[m] = "black"
  BY DEF TypeOK
<1>6. BlackOK'
  BY <1>5 DEF BlackOK, TypeOK
<1> QED
  BY <1>2, <1>3, <1>4, <1>6 DEF CycleIsReal

\* Top is the last node on the path, and gray.
LEMMA TopIsGray ==
  ASSUME SearchInv, path # <<>>
  PROVE  /\ Len(path) \in Nat /\ Len(path) >= 1
         /\ Top = path[Len(path)] /\ Top \in Node /\ color[Top] = "gray"
<1>1. Len(path) \in Nat /\ Len(path) >= 1 /\ path[Len(path)] \in Node
  BY DEF SearchInv, TypeOK
<1> QED
  BY <1>1 DEF SearchInv, PathOK, OnPath, Top

LEMMA DescendKeeps ==
  ASSUME SearchInv, NEW m \in Node, Inspect(m), ~Closes(m), color[m] = "white"
  PROVE  SearchInv'
<1> DEFINE len == Len(path)
<1> USE DEF SearchInv
<1>1. /\ phase = "search" /\ phase' = phase /\ UNCHANGED <<deps, cycle>> /\ m \in pending[Top]
      /\ color' = [color EXCEPT ![m] = "gray"] /\ path' = Append(path, m)
      /\ pending' = [pending EXCEPT ![Top] = @ \ {m}, ![m] = deps[m]]
      /\ path # <<>>
  BY DEF Inspect, Enter
<1>2. len \in Nat /\ len >= 1 /\ Top = path[len] /\ Top \in Node /\ Top # m
  BY <1>1, TopIsGray
<1>3. /\ Len(path') = len + 1 /\ path'[len + 1] = m
      /\ \A i \in 1 .. len : path'[i] = path[i] /\ path[i] \in Node /\ path[i] # m
  BY <1>1, <1>2 DEF TypeOK, PathOK, OnPath
<1>4. TypeOK'
  <2>1. pending' \in [Node -> SUBSET Node]
    BY <1>1, <1>2 DEF TypeOK
  <2>2. path' \in Seq(Node) /\ color' \in [Node -> {"white", "gray", "black"}]
    BY <1>1 DEF TypeOK
  <2> QED
    BY <1>1, <2>1, <2>2 DEF TypeOK
<1>5. PathOK'
  <2>1. path'[len + 1] \in deps[path'[len]]
    BY <1>1, <1>2, <1>3 DEF PendingOK
  <2>2. \A i, j \in 1 .. Len(path') : path'[i] = path'[j] => i = j
    BY <1>2, <1>3 DEF PathOK
  <2>3. \A n \in Node : color'[n] = "gray" <=> OnPath(n)'
    BY <1>1, <1>2, <1>3 DEF PathOK, OnPath, TypeOK
  <2>4. \A i \in 1 .. Len(path') : i < Len(path') => path'[i + 1] \in deps'[path'[i]]
    <3> TAKE i \in 1 .. Len(path')
    <3>1. CASE i = len
      BY <1>1, <2>1, <3>1
    <3>2. CASE i < len
      BY <1>1, <1>2, <1>3, <3>2 DEF PathOK
    <3> QED
      BY <1>2, <1>3, <3>1, <3>2
  <2> QED
    BY <2>2, <2>3, <2>4 DEF PathOK
<1>6. PendingOK'
  <2> SUFFICES ASSUME NEW i \in 1 .. len + 1, NEW k \in Node
               PROVE  /\ k \in pending'[path'[i]] => k \in deps[path'[i]]
                      /\ k \in deps[path'[i]] =>
                           \/ k \in pending'[path'[i]]
                           \/ color'[k] = "black"
                           \/ i < len + 1 /\ k = path'[i + 1]
    BY <1>1, <1>3 DEF PendingOK
  <2>0. color'[k] = "black" <=> color[k] = "black"
    BY <1>1 DEF TypeOK
  <2>1. CASE i = len + 1
    BY <1>1, <1>2, <1>3, <2>1 DEF TypeOK
  <2>2. CASE i = len
    <3>1. path'[i] = Top /\ path'[i + 1] = m /\ pending'[Top] = pending[Top] \ {m}
      BY <1>1, <1>2, <1>3, <2>2 DEF TypeOK
    <3>2. /\ k \in pending[Top] => k \in deps[Top]
          /\ k \in deps[Top] => k \in pending[Top] \/ color[k] = "black"
      BY <1>2 DEF PendingOK
    <3> QED
      BY <1>2, <2>0, <2>2, <3>1, <3>2
  <2>3. CASE i < len
    <3>1. path[i] # Top
      BY <1>2, <2>3 DEF PathOK
    <3>2. path'[i] = path[i] /\ path'[i + 1] = path[i + 1] /\ pending'[path[i]] = pending[path[i]]
      BY <1>1, <1>2, <1>3, <2>3, <3>1 DEF TypeOK
    <3>3. /\ k \in pending[path[i]] => k \in deps[path[i]]
          /\ k \in deps[path[i]] =>
               k \in pending[path[i]] \/ color[k] = "black" \/ (i < len /\ k = path[i + 1])
      BY <1>2, <2>3 DEF PendingOK
    <3> QED
      BY <1>2, <2>0, <2>3, <3>2, <3>3
  <2> QED
    BY <1>2, <2>1, <2>2, <2>3
<1>7. \A k \in Node : color'[k] = "black" <=> color[k] = "black"
  BY <1>1 DEF TypeOK
<1>8. BlackOK'
  BY <1>1, <1>7 DEF BlackOK, TypeOK
<1> QED
  BY <1>1, <1>4, <1>5, <1>6, <1>8 DEF CycleIsReal

LEMMA SkipKeeps ==
  ASSUME SearchInv, NEW m \in Node, Inspect(m), ~Closes(m), color[m] # "white"
  PROVE  SearchInv'
<1> USE DEF SearchInv
<1>1. /\ UNCHANGED <<deps, phase, cycle, color, path>>
      /\ pending' = [pending EXCEPT ![Top] = @ \ {m}]
      /\ path # <<>> /\ color[m] = "black"
  BY DEF Inspect, Closes, TypeOK
<1>2. Top \in Node
  BY <1>1, TopIsGray
<1>3. TypeOK'
  BY <1>1, <1>2 DEF TypeOK
<1>4. PathOK'
  BY <1>1 DEF PathOK, OnPath
<1>5. PendingOK'
  <2>1. \A i \in 1 .. Len(path) : path[i] \in Node
    BY DEF TypeOK
  <2>2. \A n, k \in Node :
          /\ k \in pending'[n] => k \in pending[n]
          /\ k \in pending[n] => k \in pending'[n] \/ k = m
    BY <1>1, <1>2 DEF TypeOK
  <2> QED
    BY <1>1, <2>1, <2>2 DEF PendingOK
<1>6. BlackOK'
  BY <1>1 DEF BlackOK
<1> QED
  BY <1>1, <1>3, <1>4, <1>5, <1>6 DEF CycleIsReal

LEMMA RejectKeeps ==
  ASSUME SearchInv, NEW m \in Node, Inspect(m), Closes(m)
  PROVE  SearchInv'
<1> DEFINE len == Len(path)
           pos == Position(m)
           closed == Append(SubSeq(path, pos, len), m)
           size == len - pos + 2
<1> USE DEF SearchInv
<1>1. /\ UNCHANGED <<deps, color, path, pending>>
      /\ phase' = "rejected" /\ cycle' = CycleAt(m)
      /\ path # <<>> /\ m \in pending[Top]
  BY DEF Inspect
<1>2. len \in Nat /\ len >= 1 /\ Top = path[len] /\ Top \in Node /\ path \in Seq(Node)
  BY <1>1, TopIsGray DEF TypeOK
<1>3. pos \in 1 .. len /\ path[pos] = m
  <2>1. \E i \in DOMAIN path : path[i] = m
    BY <1>2 DEF Closes, PathOK, OnPath
  <2>2. pos \in DOMAIN path /\ path[pos] = m
    BY <2>1 DEF Position
  <2> QED
    BY <1>2, <2>2
<1>4. /\ closed \in Seq(Node) /\ Len(closed) = size /\ size \in Nat /\ size >= 2
      /\ closed[size] = m
      /\ \A k \in 1 .. size - 1 : closed[k] = path[pos + k - 1]
  <2>1. /\ SubSeq(path, pos, len) \in Seq(Node)
        /\ Len(SubSeq(path, pos, len)) = len - pos + 1
        /\ \A k \in 1 .. len - pos + 1 : SubSeq(path, pos, len)[k] = path[pos + k - 1]
    BY <1>2, <1>3
  <2> QED
    BY <1>2, <1>3, <2>1
<1>6. cycle' = [i \in 1 .. size |-> closed[size + 1 - i]]
  BY <1>1, <1>2, <1>4 DEF CycleAt
<1> HIDE DEF closed, pos
<1>5. \A k \in 1 .. size - 1 : closed[k + 1] \in deps[closed[k]]
  <2> TAKE k \in 1 .. size - 1
  <2>1. CASE k = size - 1
    <3>1. closed[k] = Top /\ closed[k + 1] = m
      BY <1>2, <1>3, <1>4, <2>1
    <3>2. m \in deps[Top]
      BY <1>1, <1>2 DEF PendingOK
    <3> QED
      BY <3>1, <3>2
  <2>2. CASE k < size - 1
    <3>1. closed[k] = path[pos + k - 1] /\ closed[k + 1] = path[pos + k]
      BY <1>2, <1>3, <1>4, <2>2
    <3>2. pos + k - 1 \in 1 .. len /\ pos + k - 1 < len /\ pos + k - 1 + 1 = pos + k
      BY <1>2, <1>3, <2>2
    <3>3. path[pos + k - 1 + 1] \in deps[path[pos + k - 1]]
      BY <3>2 DEF PathOK
    <3> QED
      BY <3>1, <3>2, <3>3
  <2>3. k = size - 1 \/ k < size - 1
    BY <1>4
  <2> QED
    BY <2>1, <2>2, <2>3
<1>7. cycle' \in Seq(Node) /\ Len(cycle') = size
  <2>1. \A i \in 1 .. size : closed[size + 1 - i] \in Node
    BY <1>4
  <2> HIDE DEF size
  <2>2. cycle' \in [1 .. size -> Node]
    BY <1>6, <2>1
  <2> QED
    BY <1>4, <2>2
<1>8. CycleIsReal'
  <2>1. cycle'[1] = m /\ cycle'[size] = m
    <3>1. closed[1] = m
      BY <1>2, <1>3, <1>4
    <3> QED
      BY <1>4, <1>6, <3>1
  <2>2. ASSUME NEW i \in 1 .. size - 1 PROVE cycle'[i] \in deps[cycle'[i + 1]]
    <3>1. cycle'[i] = closed[size + 1 - i] /\ cycle'[i + 1] = closed[size - i]
      BY <1>4, <1>6
    <3>2. size - i \in 1 .. size - 1 /\ (size - i) + 1 = size + 1 - i
      BY <1>4
    <3> QED
      BY <1>5, <3>1, <3>2
  <2> HIDE DEF size
  <2> QED
    BY <1>1, <1>4, <1>7, <2>1, <2>2 DEF CycleIsReal
<1>9. TypeOK'
  BY <1>1, <1>7 DEF TypeOK
<1>10. PathOK' /\ PendingOK' /\ BlackOK'
  BY <1>1 DEF PathOK, OnPath, PendingOK, BlackOK
<1> QED
  BY <1>1, <1>8, <1>9, <1>10

LEMMA BacktrackKeeps ==
  ASSUME SearchInv, Backtrack
  PROVE  SearchInv'
<1> DEFINE len == Len(path)
<1> USE DEF SearchInv
<1>1. /\ UNCHANGED <<deps, phase, pending, cycle>> /\ phase = "search"
      /\ path # <<>> /\ pending[Top] = {}
      /\ color' = [color EXCEPT ![Top] = "black"]
      /\ path' = SubSeq(path, 1, len - 1)
  BY DEF Backtrack
<1>2. len \in Nat /\ len >= 1 /\ Top = path[len] /\ Top \in Node /\ color[Top] = "gray"
  BY <1>1, TopIsGray
<1>3. /\ path' \in Seq(Node) /\ Len(path') = len - 1
      /\ \A i \in 1 .. len - 1 : path'[i] = path[i] /\ path[i] \in Node /\ path[i] # Top
  <2>1. /\ path' \in Seq(Node) /\ Len(path') = len - 1
        /\ \A i \in 1 .. len - 1 : path'[i] = path[i] /\ path[i] \in Node
    <3>1. \A i \in 1 .. len : path[i] \in Node
      BY DEF TypeOK
    <3>2. /\ SubSeq(path, 1, len - 1) \in Seq(Node)
          /\ Len(SubSeq(path, 1, len - 1)) = IF 1 <= len - 1 THEN len - 1 - 1 + 1 ELSE 0
          /\ \A i \in 1 .. len - 1 - 1 + 1 : SubSeq(path, 1, len - 1)[i] = path[1 + i - 1]
      <4>1. len - 1 \in Int /\ \A i \in 1 .. len - 1 : path[i] \in Node
        BY <1>2, <3>1
      <4> QED
        BY <4>1, SubSeqProperties
    <3>3. \A i \in 1 .. len - 1 : i \in 1 .. len - 1 - 1 + 1 /\ 1 + i - 1 = i
      BY <1>2
    <3>4. path' \in Seq(Node) /\ Len(path') = len - 1
      <4>1. Len(SubSeq(path, 1, len - 1)) = len - 1
        <5> HIDE DEF len
        <5>1. CASE len = 1
          BY <3>2, <5>1
        <5>2. CASE len > 1
          BY <1>2, <3>2, <5>2
        <5>3. len = 1 \/ len > 1
          BY <1>2
        <5> QED
          BY <5>1, <5>2, <5>3
      <4> QED
        BY <1>1, <3>2, <4>1
    <3>5. \A i \in 1 .. len - 1 : path'[i] = path[1 + i - 1] /\ path[1 + i - 1] = path[i]
      <4> TAKE i \in 1 .. len - 1
      <4>1. SubSeq(path, 1, len - 1)[i] = path[1 + i - 1]
        BY <3>2, <3>3
      <4> QED
        BY <1>1, <3>3, <4>1
    <3> QED
      BY <1>2, <3>1, <3>4, <3>5
  <2>2. \A i \in 1 .. len - 1 : path[i] # Top
    BY <1>2 DEF PathOK
  <2> QED
    BY <2>1, <2>2
<1>4. TypeOK'
  BY <1>1, <1>2, <1>3 DEF TypeOK
<1>5. \A n \in Node : color'[n] = IF n = Top THEN "black" ELSE color[n]
  BY <1>1 DEF TypeOK
<1>6. PathOK'
  <2>1. \A i, j \in 1 .. Len(path') : path'[i] = path'[j] => i = j
    BY <1>2, <1>3 DEF PathOK
  <2>2. \A n \in Node : color'[n] = "gray" <=> OnPath(n)'
    <3> TAKE n \in Node
    <3>1. CASE n = Top
      BY <1>2, <1>3, <1>5, <3>1 DEF OnPath
    <3>2. CASE n # Top
      BY <1>2, <1>3, <1>5, <3>2 DEF PathOK, OnPath
    <3> QED
      BY <3>1, <3>2
  <2>3. \A i \in 1 .. Len(path') : i < Len(path') => path'[i + 1] \in deps'[path'[i]]
    BY <1>1, <1>2, <1>3 DEF PathOK
  <2> QED
    BY <2>1, <2>2, <2>3 DEF PathOK
<1>7. PendingOK'
  <2> SUFFICES ASSUME NEW i \in 1 .. len - 1, NEW k \in Node
               PROVE  /\ k \in pending[path[i]] => k \in deps[path[i]]
                      /\ k \in deps[path[i]] =>
                           \/ k \in pending[path[i]]
                           \/ color'[k] = "black"
                           \/ i < len - 1 /\ k = path'[i + 1]
    BY <1>1, <1>3 DEF PendingOK
  <2>1. /\ k \in pending[path[i]] => k \in deps[path[i]]
        /\ k \in deps[path[i]] =>
             k \in pending[path[i]] \/ color[k] = "black" \/ (i < len /\ k = path[i + 1])
    BY <1>2 DEF PendingOK
  <2>2. CASE i = len - 1
    BY <1>2, <1>5, <2>1, <2>2
  <2>3. CASE i < len - 1
    BY <1>2, <1>3, <1>5, <2>1, <2>3
  <2> QED
    BY <1>2, <2>2, <2>3
<1>8. \A m \in deps[Top] : color[m] = "black"
  BY <1>1, <1>2 DEF PendingOK, TypeOK
<1>9. BlackOK'
  <2>1. \A n \in Node : color'[n] = "black" => \A m \in deps'[n] : color'[m] = "black"
    BY <1>1, <1>2, <1>5, <1>8 DEF BlackOK, TypeOK
  <2>2. ASSUME NEW S \in SUBSET Node, S # {}, \A n \in S : color'[n] = "black"
        PROVE  \E n \in S : deps'[n] \cap S = {}
    <3> DEFINE old == S \ {Top}
    <3>1. \A n \in old : color[n] = "black"
      BY <1>5, <2>2
    <3>2. CASE old = {}
      BY <1>1, <1>2, <1>8, <2>2, <3>2
    <3>3. CASE old # {}
      <4>1. PICK n \in old : deps[n] \cap old = {}
        BY <3>1, <3>3 DEF BlackOK
      <4>2. Top \notin deps[n]
        BY <1>2, <3>1, <4>1 DEF BlackOK
      <4> QED
        BY <1>1, <4>1, <4>2
    <3> QED
      BY <3>2, <3>3
  <2> QED
    BY <2>1, <2>2 DEF BlackOK
<1> QED
  BY <1>1, <1>4, <1>6, <1>7, <1>9 DEF CycleIsReal

LEMMA SearchNext == SearchInv /\ [Next]_vars => SearchInv'
<1> SUFFICES ASSUME SearchInv, [Next]_vars PROVE SearchInv'
  OBVIOUS
<1>1. CASE UNCHANGED vars
  <2>1. UNCHANGED <<deps, searching, phase>>
    BY <1>1 DEF vars, searching
  <2> QED
    BY <2>1, SearchFrame DEF SearchInv, TypeOK
<1>2. ASSUME NEW n \in Node, StartWalk(n) PROVE SearchInv'
  BY <1>2, StartWalkKeeps
<1>3. ASSUME NEW n \in Node, Inspect(n) PROVE SearchInv'
  BY <1>3, RejectKeeps, DescendKeeps, SkipKeeps
<1>4. CASE Backtrack
  BY <1>4, BacktrackKeeps
<1>5. CASE Accept
  <2>1. \A n \in Node : color[n] = "black"
    BY <1>5 DEF Accept, SearchInv, TypeOK, PathOK, OnPath
  <2> QED
    BY <1>5, <2>1, SearchFrame DEF Accept
<1>6. CASE NextLevel \/ LastLevel \/ Built
  BY <1>6, SearchFrame DEF NextLevel, LastLevel, Built, SearchInv, TypeOK
<1>7. ASSUME NEW n \in Node, Measure(n) \/ Reach(n)
               \/ (\E e \in {"deps", "dependents"} : StartReach(n, e)) PROVE SearchInv'
  BY <1>7, SearchFrame DEF Measure, StartReach, Reach, SearchInv, TypeOK
<1> QED
  BY <1>1, <1>2, <1>3, <1>4, <1>5, <1>6, <1>7 DEF Next

LEMMA SearchAlways == Spec => []SearchInv
  BY SearchInit, SearchNext, PTL DEF Spec

\* What _find_cycle reports to the planner is a cycle of the plan.
THEOREM ReportedCycleIsReal == Spec => []CycleIsReal
<1>1. SearchInv => CycleIsReal
  BY DEF SearchInv
<1> QED
  BY <1>1, SearchAlways, PTL

\* What __init__ accepts has no cycle.
THEOREM AcceptedPlanIsAcyclic == Spec => []AcceptedIsAcyclic
<1>1. SearchInv => AcceptedIsAcyclic
  BY DEF SearchInv, BlackOK, AcceptedIsAcyclic, Acyclic, ThePlan
<1> QED
  BY <1>1, SearchAlways, PTL

\* The whole bookkeeping of the search, as the runs check it.
THEOREM WalkIsSound == Spec => []WalkOK
<1>1. SearchInv => WalkOK
  <2> SUFFICES ASSUME SearchInv PROVE WalkOK
    OBVIOUS
  <2> USE DEF SearchInv
  <2>1. TypeOK
    OBVIOUS
  <2>2. DOMAIN path = 1 .. Len(path) /\ Len(path) \in Nat /\ \A i \in 1 .. Len(path) : path[i] \in Node
    BY DEF TypeOK
  <2>3. \A i, j \in DOMAIN path : path[i] = path[j] => i = j
    BY <2>2 DEF PathOK
  <2>4. Colored("gray") = {path[i] : i \in DOMAIN path}
    BY <2>2 DEF PathOK, OnPath, Colored
  <2>5. \A i \in 1 .. Len(path) - 1 : path[i + 1] \in deps[path[i]]
    BY <2>2 DEF PathOK
  <2>6. ASSUME NEW i \in DOMAIN path
        PROVE  /\ pending[path[i]] \subseteq deps[path[i]]
               /\ deps[path[i]] \ pending[path[i]] \subseteq
                    Colored("black") \cup {path[j] : j \in DOMAIN path \cap {i + 1}}
    <3>1. i \in 1 .. Len(path) /\ path[i] \in Node /\ pending[path[i]] \subseteq Node /\ deps[path[i]] \subseteq Node
      BY <2>2, <2>6 DEF TypeOK
    <3>2. pending[path[i]] \subseteq deps[path[i]]
      BY <3>1 DEF PendingOK
    <3>3. ASSUME NEW m \in deps[path[i]] \ pending[path[i]]
          PROVE  m \in Colored("black") \cup {path[j] : j \in DOMAIN path \cap {i + 1}}
      <4>1. color[m] = "black" \/ (i < Len(path) /\ m = path[i + 1])
        BY <3>1, <3>3 DEF PendingOK
      <4>2. CASE color[m] = "black"
        BY <3>1, <3>3, <4>2 DEF Colored
      <4>3. CASE i < Len(path) /\ m = path[i + 1]
        BY <2>2, <3>1, <4>3
      <4> QED
        BY <4>1, <4>2, <4>3
    <3> QED
      BY <3>2, <3>3
  <2>7. \A n \in Colored("black") : deps[n] \subseteq Colored("black")
    BY DEF BlackOK, Colored, TypeOK
  <2>8. \A S \in SUBSET Colored("black") : S # {} => \E n \in S : deps[n] \cap S = {}
    BY DEF BlackOK, Colored
  <2>9. phase \notin {"search", "rejected"} => Colored("black") = Node
    BY DEF Colored
  <2> QED
    BY <2>1, <2>3, <2>4, <2>5, <2>6, <2>7, <2>8, <2>9 DEF WalkOK
<1> QED
  BY <1>1, SearchAlways, PTL

-----------------------------------------------------------------------------
(***************************************************************************)
(* What a walk finds.                                                      *)
(***************************************************************************)

\* m is upstream of n: in every set that is closed and holds n's dependencies.
Upstream(m, n) ==
  \A S \in SUBSET Node : deps[n] \subseteq S /\ (\A k \in S : deps[k] \subseteq S) => m \in S

\* The walk's set holds what it can reach and nothing else: whoever has been
\* taken off the list has all its neighbours in the set, and a node in the set
\* is up- or downstream of where the walk began.
ReachInv ==
  /\ phase # "reach" => seen = {}
  /\ phase = "reach" =>
       /\ from \in Node /\ seen \subseteq Node
       /\ frontier \subseteq seen \cup {from}
       /\ \A n \in (seen \cup {from}) \ frontier : Edges(n) \subseteq seen
       /\ \A n \in seen : IF edges = "deps" THEN Upstream(n, from) ELSE Upstream(from, n)

LEMMA ReachInit == Init => ReachInv
  BY DEF Init, ReachInv

LEMMA ReachNext == TypeOK /\ ReachInv /\ [Next]_vars => ReachInv'
<1> SUFFICES ASSUME TypeOK, ReachInv, [Next]_vars PROVE ReachInv'
  OBVIOUS
<1>1. ASSUME UNCHANGED <<deps, reaching>>, phase' = "reach" <=> phase = "reach" PROVE ReachInv'
  <2>1. UNCHANGED <<deps, from, edges, frontier, seen>>
    BY <1>1 DEF reaching
  <2> QED
    BY <1>1, <2>1 DEF ReachInv, Edges, Dependents, Upstream
<1>2. CASE UNCHANGED vars
  BY <1>1, <1>2 DEF vars, reaching
<1>3. ASSUME NEW n \in Node, StartWalk(n) \/ Inspect(n) \/ Measure(n) PROVE ReachInv'
  BY <1>1, <1>3 DEF StartWalk, Inspect, Measure
<1>4. CASE Backtrack \/ Accept \/ NextLevel \/ LastLevel \/ Built
  BY <1>1, <1>4 DEF Backtrack, Accept, NextLevel, LastLevel, Built
<1>5. ASSUME NEW n \in Node, NEW along \in {"deps", "dependents"}, StartReach(n, along) PROVE ReachInv'
  BY <1>5 DEF StartReach, ReachInv
<1>6. ASSUME NEW n \in Node, Reach(n) PROVE ReachInv'
  <2>1. /\ phase = "reach" /\ phase' = "reach" /\ n \in frontier
        /\ UNCHANGED <<deps, from, edges>>
        /\ seen' = seen \cup Fresh(n) /\ frontier' = (frontier \ {n}) \cup Fresh(n)
    BY <1>6 DEF Reach
  <2>2. /\ from \in Node /\ seen \subseteq Node /\ n \in seen \cup {from}
        /\ frontier \subseteq seen \cup {from} /\ Fresh(n) \subseteq Node
    BY <2>1 DEF ReachInv, Fresh, Edges, Dependents, TypeOK
  <2>3. \A m \in (seen' \cup {from}) \ frontier' : Edges(m) \subseteq seen'
    <3> SUFFICES ASSUME NEW m \in (seen' \cup {from}) \ frontier'
                 PROVE  Edges(m) \subseteq seen'
      OBVIOUS
    <3>1. CASE m = n
      BY <2>1, <3>1 DEF Fresh
    <3>2. CASE m # n
      BY <2>1, <3>2 DEF ReachInv
    <3> QED
      BY <3>1, <3>2
  <2>4. ASSUME edges = "deps", NEW m \in seen' PROVE Upstream(m, from)
    <3>1. CASE m \in seen
      BY <2>1, <2>4, <3>1 DEF ReachInv
    <3>2. CASE m \notin seen
      <4>1. m \in deps[n]
        BY <2>1, <2>4, <3>2 DEF Fresh, Edges
      <4>2. n = from \/ Upstream(n, from)
        BY <2>1, <2>2, <2>4 DEF ReachInv
      <4> QED
        BY <4>1, <4>2 DEF Upstream
    <3> QED
      BY <3>1, <3>2
  <2>5. ASSUME edges # "deps", NEW m \in seen' PROVE Upstream(from, m)
    <3>1. CASE m \in seen
      BY <2>1, <2>5, <3>1 DEF ReachInv
    <3>2. CASE m \notin seen
      <4>1. n \in deps[m]
        BY <2>1, <2>5, <3>2 DEF Fresh, Edges, Dependents
      <4>2. n = from \/ Upstream(from, n)
        BY <2>1, <2>2, <2>5 DEF ReachInv
      <4> QED
        BY <4>1, <4>2 DEF Upstream
    <3> QED
      BY <3>1, <3>2
  <2>6. /\ \A m \in Node : Edges(m)' = Edges(m)
        /\ \A k, m : Upstream(k, m)' <=> Upstream(k, m)
    BY <2>1 DEF Edges, Dependents, Upstream
  <2>7. \A m \in seen' : IF edges' = "deps" THEN Upstream(m, from)' ELSE Upstream(from, m)'
    BY <2>1, <2>4, <2>5, <2>6
  <2>8. \A m \in (seen' \cup {from'}) \ frontier' : Edges(m)' \subseteq seen'
    BY <2>1, <2>2, <2>3, <2>6
  <2> QED
    BY <2>1, <2>2, <2>7, <2>8 DEF ReachInv, Upstream
<1> QED
  BY <1>2, <1>3, <1>4, <1>5, <1>6 DEF Next

\* The closure is exact: the ancestors of a node are all that is upstream of it
\* and no more; what mark_stale sends back is the node and all that is
\* downstream of it, no more and no less, and its subgraph is a plan the
\* constructor accepts.
THEOREM ReachIsExactCorrect == Spec => []ReachIsExact
<1>1. SearchInv /\ ReachInv => ReachIsExact
  <2> SUFFICES ASSUME SearchInv, ReachInv, phase = "reach", frontier = {}
               PROVE  /\ edges = "deps" => Found = Ancestors(ThePlan, from)
                      /\ edges # "deps" =>
                           /\ Stale = {n \in Node : n = from \/ from \in Ancestors(ThePlan, n)}
                           /\ ValidPlan(Subgraph(Stale))
    BY DEF ReachIsExact
  <2>1. /\ deps \in [Node -> SUBSET Node] /\ from \in Node /\ seen \subseteq Node
        /\ Found = seen \ {from} /\ Stale = seen \cup {from}
        /\ \A n \in Stale : Edges(n) \subseteq seen
    BY DEF SearchInv, TypeOK, ReachInv, Stale, Found
  <2>2. \A m, n : m \in Ancestors(ThePlan, n) <=> m \in Node /\ m # n /\ Upstream(m, n)
    BY <2>1 DEF Ancestors, ThePlan, Upstream
  <2>a. edges = "deps" => Found = Ancestors(ThePlan, from)
    <3> SUFFICES ASSUME edges = "deps" PROVE Found = Ancestors(ThePlan, from)
      OBVIOUS
    <3>1. ASSUME NEW m \in Found PROVE m \in Ancestors(ThePlan, from)
      BY <2>1, <2>2, <3>1 DEF ReachInv
    <3>2. deps[from] \subseteq seen /\ \A k \in seen : deps[k] \subseteq seen
      BY <2>1 DEF Edges
    <3>3. ASSUME NEW m \in Ancestors(ThePlan, from) PROVE m \in Found
      BY <2>1, <2>2, <3>2, <3>3 DEF Upstream
    <3> QED
      BY <3>1, <3>3
  <2>3. ASSUME edges # "deps", NEW n \in Node, n \in Stale, n # from
        PROVE  from \in Ancestors(ThePlan, n)
    BY <2>1, <2>2, <2>3 DEF ReachInv
  <2>4. ASSUME edges # "deps", NEW n \in Node, from \in Ancestors(ThePlan, n) PROVE n \in Stale
    <3> SUFFICES ASSUME n \notin Stale PROVE FALSE
      OBVIOUS
    <3> DEFINE S == Node \ Stale
    <3>1. \A m \in S : deps[m] \subseteq S
      BY <2>1, <2>4 DEF Edges, Dependents
    <3>2. deps[n] \subseteq S
      BY <3>1
    <3>3. from \in S
      BY <2>2, <2>4, <3>1, <3>2 DEF Upstream
    <3> QED
      BY <2>1, <3>3
  <2>5. edges # "deps" => Stale = {n \in Node : n = from \/ from \in Ancestors(ThePlan, n)}
    BY <2>1, <2>3, <2>4
  <2>6. ValidPlan(Subgraph(Stale))
    <3>1. \A S \in SUBSET Node : S # {} => \E n \in S : deps[n] \cap S = {}
      BY DEF SearchInv, BlackOK
    <3>2. \A S \in SUBSET Stale : S # {} => \E n \in S : (deps[n] \cap Stale) \cap S = {}
      BY <2>1, <3>1
    <3> QED
      BY <3>2 DEF ValidPlan, KnownDependencies, Acyclic, Subgraph
  <2> QED
    BY <2>a, <2>5, <2>6
<1>2. SearchInv => TypeOK
  BY DEF SearchInv
<1> QED
  BY <1>1, <1>2, SearchAlways, ReachInit, ReachNext, PTL DEF Spec

-----------------------------------------------------------------------------
(***************************************************************************)
(* Levels and lengths.                                                     *)
(***************************************************************************)

LevelledOnce ==
  \A i, j \in 1 .. Len(levels) : \A n \in levels[i] \cap levels[j] : i = j

\* A node is in the level after that of the last of its dependencies.
LevelAfterDeps ==
  \A i \in 1 .. Len(levels) : \A n \in levels[i] :
    /\ \A d \in deps[n] : \E j \in 1 .. Len(levels) : j < i /\ d \in levels[j]
    /\ i > 1 => deps[n] \cap levels[i - 1] # {}

\* While levels are made, what a node still waits for is what is in none, and
\* who has just become ready waited for the last level.
Counting ==
  /\ \A n \in Node : remaining[n] = Cardinality(deps[n] \ Levelled)
  /\ levels # <<>> =>
       \A n \in Level : deps[n] \cap levels[Len(levels)] # {}

LevelInv ==
  /\ levels \in Seq(SUBSET Node)
  /\ phase = "search" => levels = <<>>
  /\ LevelledOnce
  /\ LevelAfterDeps
  /\ phase = "levels" => Counting
  /\ phase \in {"measure", "built", "reach"} => Node \subseteq Levelled

\* A measured length is the number of the node's level, and all its
\* dependencies are measured; the one before it on its chain is one of them.
Measured(n) ==
  /\ length[n] \in 1 .. Len(levels)
  /\ n \in levels[length[n]]
  /\ \A d \in deps[n] : length[d] > 0
  /\ previous[n] = None => length[n] = 1
  /\ previous[n] # None =>
       previous[n] \in deps[n] /\ length[n] = length[previous[n]] + 1

MeasureInv ==
  /\ length \in [Node -> Nat]
  /\ previous \in [Node -> Node \cup {None}]
  /\ phase \in {"search", "rejected", "levels"} => \A n \in Node : length[n] = 0
  /\ \A n \in Node : IF length[n] > 0 THEN Measured(n) ELSE previous[n] = None
  /\ phase \in {"built", "reach"} => \A n \in Node : length[n] > 0

LEMMA InLevelled ==
  ASSUME levels \in Seq(SUBSET Node)
  PROVE  \A n : n \in Levelled <=> \E i \in 1 .. Len(levels) : n \in levels[i]
  BY DEF Levelled

\* Who is ready waits for nothing outside the levels.
LEMMA ReadyWaitsForNone ==
  ASSUME TypeOK, levels \in Seq(SUBSET Node), Counting, NEW n \in Node \ Levelled
  PROVE  n \in Level <=> deps[n] \subseteq Levelled
<1>1. IsFiniteSet(deps[n] \ Levelled)
  <2>1. deps[n] \ Levelled \in SUBSET Node
    BY DEF TypeOK
  <2> QED
    BY <2>1, BuildAssumption, FS_Subset
<1>2. Cardinality(deps[n] \ Levelled) = 0 <=> deps[n] \ Levelled = {}
  BY <1>1, FS_EmptySet
<1> QED
  BY <1>2 DEF Counting, Level

LEMMA NextLevelKeeps ==
  ASSUME TypeOK, LevelInv, NextLevel
  PROVE  LevelInv'
<1> DEFINE len == Len(levels)
<1>1. /\ phase = "levels" /\ phase' = phase /\ UNCHANGED deps
      /\ levels' = Append(levels, Level)
      /\ remaining' = [n \in Node |-> remaining[n] - Cardinality(deps[n] \cap Level)]
      /\ levels \in Seq(SUBSET Node) /\ Counting /\ LevelledOnce /\ LevelAfterDeps
  BY DEF NextLevel, LevelInv
<1>2. Level \subseteq Node /\ Level \cap Levelled = {}
  BY DEF Level
<1>3. /\ levels' \in Seq(SUBSET Node) /\ len \in Nat /\ Len(levels') = len + 1
      /\ levels'[len + 1] = Level /\ \A i \in 1 .. len : levels'[i] = levels[i]
  BY <1>1, <1>2
<1>4. \A n : n \in Levelled <=> \E i \in 1 .. len : n \in levels[i]
  BY <1>1, InLevelled
<1>5. Levelled' = Levelled \cup Level
  <2>1. \A n : n \in Levelled' <=> \E i \in 1 .. len + 1 : n \in levels'[i]
    <3>1. DOMAIN levels' = 1 .. len + 1
      BY <1>3
    <3> QED
      BY <3>1 DEF Levelled
  <2> QED
    BY <1>3, <1>4, <2>1
<1>6. LevelledOnce'
  <2> SUFFICES ASSUME NEW i \in 1 .. len + 1, NEW j \in 1 .. len + 1, NEW n,
                      n \in levels'[i], n \in levels'[j]
               PROVE  i = j
    BY <1>3 DEF LevelledOnce
  <2>1. CASE i \in 1 .. len /\ j \in 1 .. len
    BY <1>1, <1>3, <2>1 DEF LevelledOnce
  <2>2. CASE i = len + 1 \/ j = len + 1
    BY <1>2, <1>3, <1>4, <2>2
  <2> QED
    BY <1>3, <2>1, <2>2
<1>7. LevelAfterDeps'
  <2> SUFFICES ASSUME NEW i \in 1 .. len + 1, NEW n \in levels'[i]
               PROVE  /\ \A d \in deps[n] : \E j \in 1 .. len + 1 : j < i /\ d \in levels'[j]
                      /\ i > 1 => deps[n] \cap levels'[i - 1] # {}
    BY <1>1, <1>3 DEF LevelAfterDeps
  <2>1. CASE i \in 1 .. len
    <3>1. /\ \A d \in deps[n] : \E j \in 1 .. len : j < i /\ d \in levels[j]
          /\ i > 1 => deps[n] \cap levels[i - 1] # {}
      BY <1>1, <1>3, <2>1 DEF LevelAfterDeps
    <3> QED
      BY <1>3, <2>1, <3>1
  <2>2. CASE i = len + 1
    <3>1. n \in Level /\ n \in Node \ Levelled
      BY <1>2, <1>3, <2>2
    <3>2. deps[n] \subseteq Levelled
      BY <1>1, <3>1, ReadyWaitsForNone
    <3>3. \A d \in deps[n] : \E j \in 1 .. len + 1 : j < i /\ d \in levels'[j]
      BY <1>3, <1>4, <2>2, <3>2
    <3>4. i > 1 => deps[n] \cap levels'[i - 1] # {}
      <4> SUFFICES ASSUME i > 1 PROVE deps[n] \cap levels[len] # {}
        BY <1>3, <2>2
      <4>1. levels # <<>>
        BY <1>3, <2>2
      <4> QED
        BY <1>1, <3>1, <4>1 DEF Counting
    <3> QED
      BY <3>3, <3>4
  <2> QED
    BY <1>3, <2>1, <2>2
<1>8. Counting'
  <2>1. ASSUME NEW n \in Node PROVE remaining'[n] = Cardinality(deps[n] \ Levelled')
    <3> DEFINE Y == deps[n] \ Levelled
    <3>1. IsFiniteSet(Y)
      <4>1. Y \in SUBSET Node
        BY DEF TypeOK
      <4> QED
        BY <4>1, BuildAssumption, FS_Subset
    <3>2. deps[n] \cap Level = Y \cap Level /\ deps[n] \ Levelled' = Y \ Level
      BY <1>2, <1>5
    <3>3. Cardinality(Y \ Level) = Cardinality(Y) - Cardinality(Y \cap Level)
      BY <3>1, FS_Difference
    <3> QED
      BY <1>1, <3>2, <3>3 DEF Counting
  <2>2. TypeOK'
    BY DEF TypeOK, NextLevel, searching
  <2>3. ASSUME NEW n \in Level' PROVE deps[n] \cap Level # {}
    <3>1. n \in Node \ Levelled' /\ remaining'[n] = 0
      BY <2>3 DEF Level
    <3>2. Cardinality(deps[n] \ Levelled') = 0
      BY <2>1, <3>1
    <3>3. IsFiniteSet(deps[n] \ Levelled')
      <4>1. deps[n] \ Levelled' \in SUBSET Node
        BY <3>1 DEF TypeOK
      <4> QED
        BY <4>1, BuildAssumption, FS_Subset
    <3>4. deps[n] \subseteq Levelled \cup Level
      BY <1>5, <3>2, <3>3, FS_EmptySet
    <3>5. n \in Node \ Levelled /\ n \notin Level
      BY <1>5, <3>1
    <3>6. ~(deps[n] \subseteq Levelled)
      BY <1>1, <3>5, ReadyWaitsForNone
    <3> QED
      BY <3>4, <3>6
  <2> QED
    BY <1>1, <1>3, <2>1, <2>3 DEF Counting
<1> QED
  BY <1>1, <1>3, <1>6, <1>7, <1>8 DEF LevelInv

LEMMA LevelInit == Init => LevelInv
  BY DEF Init, LevelInv, LevelledOnce, LevelAfterDeps

LEMMA LevelNext == SearchInv /\ LevelInv /\ [Next]_vars => LevelInv'
<1> SUFFICES ASSUME SearchInv, LevelInv, [Next]_vars PROVE LevelInv'
  OBVIOUS
<1>0. TypeOK
  BY DEF SearchInv
<1>1. ASSUME UNCHANGED <<deps, levelling>>,
             phase' = "search" => phase = "search",
             phase' = "levels" => phase = "levels",
             phase' \in {"measure", "built", "reach"} =>
               phase \in {"measure", "built", "reach"} \/ Node \subseteq Levelled
      PROVE  LevelInv'
  BY <1>1 DEF LevelInv, LevelledOnce, LevelAfterDeps, Counting, Levelled, Level, levelling
<1>2. CASE UNCHANGED vars
  BY <1>1, <1>2 DEF vars, levelling
<1>3. ASSUME NEW n \in Node, StartWalk(n) \/ Inspect(n) \/ Measure(n) \/ Reach(n)
               \/ (\E e \in {"deps", "dependents"} : StartReach(n, e))
      PROVE  LevelInv'
  BY <1>1, <1>3 DEF StartWalk, Inspect, Measure, StartReach, Reach
<1>4. CASE Backtrack \/ Built
  BY <1>1, <1>4 DEF Backtrack, Built
<1>5. CASE Accept
  <2>1. /\ levels = <<>> /\ levels' = levels /\ phase' = "levels" /\ UNCHANGED deps
        /\ remaining' = [n \in Node |-> Cardinality(deps[n])]
    BY <1>5 DEF Accept, LevelInv
  <2>2. Levelled' = {}
    BY <2>1 DEF Levelled
  <2>3. \A n \in Node : deps[n] \ Levelled' = deps[n]
    BY <2>2
  <2>4. Counting'
    BY <2>1, <2>3 DEF Counting
  <2> QED
    BY <2>1, <2>4 DEF LevelInv, LevelledOnce, LevelAfterDeps
<1>6. CASE NextLevel
  BY <1>0, <1>6, NextLevelKeeps
<1>7. CASE LastLevel
  <2>1. phase = "levels" /\ Level = {} /\ phase' = "measure" /\ UNCHANGED <<deps, levelling>>
    BY <1>7 DEF LastLevel
  <2>2. Node \subseteq Levelled
    <3> DEFINE rest == Node \ Levelled
    <3> SUFFICES ASSUME rest # {} PROVE FALSE
      OBVIOUS
    <3>1. PICK n \in rest : deps[n] \cap rest = {}
      BY <2>1 DEF SearchInv, BlackOK
    <3>2. deps[n] \subseteq Levelled
      BY <1>0, <3>1 DEF TypeOK
    <3>3. n \in Level
      BY <1>0, <2>1, <3>2, ReadyWaitsForNone DEF LevelInv
    <3> QED
      BY <2>1, <3>3
  <2> QED
    BY <1>1, <2>1, <2>2
<1> QED
  BY <1>2, <1>3, <1>4, <1>5, <1>6, <1>7 DEF Next

LEMMA MeasureInit == Init => MeasureInv
  BY DEF Init, MeasureInv

\* The level of a node whose dependencies are measured is one more than the
\* longest of their chains.
LEMMA LevelIsDepth ==
  ASSUME TypeOK, LevelInv, MeasureInv, phase = "measure", NEW n \in Node,
         \A d \in deps[n] : length[d] > 0
  PROVE  /\ deps[n] = {} => 1 \in 1 .. Len(levels) /\ n \in levels[1]
         /\ \A d \in Longest(n) :
              length[d] + 1 \in 1 .. Len(levels) /\ n \in levels[length[d] + 1]
<1>1. PICK i \in 1 .. Len(levels) : n \in levels[i]
  BY InLevelled DEF LevelInv
<1>2. /\ \A d \in deps[n] : \E j \in 1 .. Len(levels) : j < i /\ d \in levels[j]
      /\ i > 1 => deps[n] \cap levels[i - 1] # {}
      /\ Len(levels) \in Nat
  BY <1>1 DEF LevelInv, LevelAfterDeps
<1>3. \A d \in deps[n] : length[d] \in 1 .. Len(levels) /\ d \in levels[length[d]]
  BY DEF MeasureInv, Measured, TypeOK
<1>4. ASSUME NEW d \in deps[n], NEW j \in 1 .. Len(levels), d \in levels[j] PROVE length[d] = j
  BY <1>3, <1>4 DEF LevelInv, LevelledOnce
<1>5. \A d \in deps[n] : length[d] < i
  BY <1>2, <1>4
<1>6. i > 1 => \E d \in deps[n] : length[d] = i - 1
  <2> SUFFICES ASSUME i > 1 PROVE \E d \in deps[n] : length[d] = i - 1
    OBVIOUS
  <2>1. PICK d \in deps[n] : d \in levels[i - 1]
    BY <1>2
  <2>2. i - 1 \in 1 .. Len(levels)
    BY <1>1, <1>2
  <2> QED
    BY <1>4, <2>1, <2>2
<1>7. CASE deps[n] = {}
  <2>1. i = 1
    BY <1>1, <1>2, <1>6, <1>7
  <2> QED
    BY <1>1, <1>7, <2>1 DEF Longest
<1>8. ASSUME NEW d \in Longest(n) PROVE length[d] + 1 = i
  <2>1. d \in deps[n] /\ \A e \in deps[n] : length[e] <= length[d]
    BY <1>8 DEF Longest
  <2>2. length[d] \in 1 .. Len(levels) /\ length[d] < i
    BY <1>3, <1>5, <2>1
  <2>3. i > 1
    BY <1>1, <1>2, <2>2
  <2>4. i - 1 <= length[d]
    BY <1>6, <2>1, <2>3
  <2> QED
    BY <1>1, <1>2, <2>2, <2>4
<1> QED
  BY <1>1, <1>2, <1>7, <1>8 DEF Longest

LEMMA MeasureKeeps ==
  ASSUME TypeOK, LevelInv, MeasureInv, NEW n \in Node, Measure(n)
  PROVE  MeasureInv'
<1>1. /\ phase = "measure" /\ phase' = phase /\ UNCHANGED <<deps, levels>>
      /\ length[n] = 0 /\ previous[n] = None
      /\ \A d \in deps[n] : length[d] > 0
      /\ length \in [Node -> Nat] /\ previous \in [Node -> Node \cup {None}]
  BY DEF Measure, MeasureInv, levelling
<1>2. n \notin deps[n] /\ deps[n] \subseteq Node /\ Len(levels) \in Nat
  BY <1>1 DEF TypeOK, LevelInv
<1>3. PICK d \in Node \cup {None} :
        /\ previous' = [previous EXCEPT ![n] = d]
        /\ d = None => length' = [length EXCEPT ![n] = 1] /\ deps[n] = {}
        /\ d # None => d \in Longest(n) /\ length' = [length EXCEPT ![n] = length[d] + 1]
  <2>1. CASE deps[n] = {}
    <3>1. previous' = [previous EXCEPT ![n] = None]
      BY <1>1, <2>1 DEF Measure
    <3> QED
      BY <2>1, <3>1 DEF Measure
  <2>2. CASE deps[n] # {}
    <3>1. PICK d \in Longest(n) : /\ length' = [length EXCEPT ![n] = length[d] + 1]
                                  /\ previous' = [previous EXCEPT ![n] = d]
      BY <2>2 DEF Measure
    <3>2. d \in Node /\ d # None
      BY <1>2, <3>1, BuildAssumption DEF Longest
    <3> QED
      BY <3>1, <3>2
  <2> QED
    BY <2>1, <2>2
<1>4. d # None => d \in deps[n] /\ d \in Node /\ d # n /\ length[d] \in Nat
  BY <1>1, <1>2, <1>3 DEF Longest
<1>5. length'[n] \in 1 .. Len(levels) /\ n \in levels[length'[n]] /\ length'[n] \in Nat
  BY <1>1, <1>2, <1>3, <1>4, LevelIsDepth
<1>6. /\ length' \in [Node -> Nat] /\ previous' \in [Node -> Node \cup {None}]
      /\ previous'[n] = d
      /\ \A m \in Node \ {n} : length'[m] = length[m] /\ previous'[m] = previous[m]
  <2>1. CASE d = None
    BY <1>1, <1>3, <2>1
  <2>2. CASE d # None
    <3>1. length[d] + 1 \in Nat
      BY <1>4, <2>2
    <3> QED
      BY <1>1, <1>3, <2>2, <3>1
  <2> QED
    BY <2>1, <2>2
<1>7. Measured(n)'
  <2>1. \A e \in deps[n] : length'[e] > 0
    BY <1>1, <1>2, <1>6
  <2>2. d = None => length'[n] = 1
    BY <1>1, <1>3
  <2>3. d # None => d \in deps[n] /\ length'[n] = length'[d] + 1
    BY <1>1, <1>3, <1>4, <1>6
  <2> QED
    BY <1>1, <1>5, <1>6, <2>1, <2>2, <2>3 DEF Measured
<1>8. ASSUME NEW m \in Node \ {n}
      PROVE  IF length'[m] > 0 THEN Measured(m)' ELSE previous'[m] = None
  <2>1. CASE length[m] > 0
    <3>1. /\ length[m] \in 1 .. Len(levels) /\ m \in levels[length[m]]
          /\ \A e \in deps[m] : length[e] > 0 /\ e \in Node
          /\ previous[m] = None => length[m] = 1
          /\ previous[m] # None =>
               previous[m] \in deps[m] /\ length[m] = length[previous[m]] + 1
      BY <2>1 DEF MeasureInv, Measured, TypeOK
    <3>2. n \notin deps[m]
      BY <1>1, <3>1
    <3>3. \A e \in deps[m] : length'[e] = length[e]
      BY <1>6, <3>1, <3>2
    <3> QED
      BY <1>1, <1>6, <2>1, <3>1, <3>3 DEF Measured
  <2>2. CASE ~(length[m] > 0)
    BY <1>6, <2>2 DEF MeasureInv
  <2> QED
    BY <2>1, <2>2
<1>9. length'[n] > 0
  BY <1>2, <1>5
<1> QED
  BY <1>1, <1>6, <1>7, <1>8, <1>9 DEF MeasureInv

LEMMA MeasureNext == SearchInv /\ LevelInv /\ MeasureInv /\ [Next]_vars => MeasureInv'
<1> SUFFICES ASSUME SearchInv, LevelInv, MeasureInv, [Next]_vars PROVE MeasureInv'
  OBVIOUS
<1>0. TypeOK
  BY DEF SearchInv
<1>1. ASSUME UNCHANGED <<deps, levels, measuring>>,
             phase' \in {"search", "rejected", "levels"} => phase \in {"search", "rejected", "levels"},
             phase' \in {"built", "reach"} =>
               phase \in {"built", "reach"} \/ \A n \in Node : length[n] > 0
      PROVE  MeasureInv'
  BY <1>1 DEF MeasureInv, Measured, measuring
<1>2. CASE UNCHANGED vars
  BY <1>1, <1>2 DEF vars, measuring
<1>3. ASSUME NEW n \in Node, StartWalk(n) \/ Inspect(n) \/ Reach(n)
               \/ (\E e \in {"deps", "dependents"} : StartReach(n, e))
      PROVE  MeasureInv'
  BY <1>1, <1>3 DEF StartWalk, Inspect, StartReach, Reach, levelling
<1>4. CASE Backtrack \/ Accept \/ LastLevel \/ Built
  BY <1>1, <1>4 DEF Backtrack, Accept, LastLevel, Built, levelling
<1>5. CASE NextLevel
  BY <1>5 DEF NextLevel, MeasureInv, measuring
<1>6. ASSUME NEW n \in Node, Measure(n) PROVE MeasureInv'
  BY <1>0, <1>6, MeasureKeeps
<1> QED
  BY <1>2, <1>3, <1>4, <1>5, <1>6 DEF Next

-----------------------------------------------------------------------------
(***************************************************************************)
(* The critical path.                                                      *)
(***************************************************************************)

\* The chain that previous spells, read from its end.
IsChain(n, s) ==
  /\ s \in Seq(Node)
  /\ Len(s) = length[n]
  /\ s[length[n]] = n
  /\ \A i \in 1 .. length[n] - 1 : s[i] = previous[s[i + 1]]

\* Every set of numbers that has one has a least one.
LEMMA LeastOne ==
  ASSUME NEW S, S \subseteq Nat, S # {}
  PROVE  \E m \in S : \A k \in S : m <= k
<1>1. PICK m \in S : \A k \in S : ~ (<<k, m>> \in OpToRel(<, Nat))
  BY NatLessThanWellFounded, WFMin
<1>2. \A k \in S : ~ (k < m)
  BY <1>1 DEF OpToRel
<1> QED
  BY <1>2

AllMeasured == TypeOK /\ MeasureInv /\ \A n \in Node : Measured(n)

LEMMA ChainStarts ==
  ASSUME AllMeasured, NEW n \in Node, previous[n] = None
  PROVE  IsChain(n, <<n>>)
  BY DEF AllMeasured, Measured, IsChain

LEMMA ChainGrows ==
  ASSUME AllMeasured, NEW n \in Node, previous[n] # None, NEW t, IsChain(previous[n], t)
  PROVE  IsChain(n, Append(t, n))
<1> DEFINE p == previous[n]
           len == length[p]
<1>1. /\ p \in Node /\ len \in Nat /\ length[n] = len + 1 /\ len > 0
  BY DEF AllMeasured, MeasureInv, Measured, TypeOK
<1>2. t \in Seq(Node) /\ Len(t) = len /\ t[len] = p /\ \A i \in 1 .. len - 1 : t[i] = previous[t[i + 1]]
  BY DEF IsChain
<1>3. PICK s : s = Append(t, n)
  OBVIOUS
<1>4. /\ s \in Seq(Node) /\ Len(s) = len + 1 /\ s[len + 1] = n
      /\ \A i \in 1 .. len : s[i] = t[i]
  BY <1>1, <1>2, <1>3
<1>5. ASSUME NEW i \in 1 .. len PROVE s[i] = previous[s[i + 1]]
  <2>1. CASE i = len
    BY <1>1, <1>2, <1>4, <2>1
  <2>2. CASE i < len
    <3>1. s[i] = t[i] /\ s[i + 1] = t[i + 1] /\ i \in 1 .. len - 1
      BY <1>1, <1>4, <2>2
    <3> QED
      BY <1>2, <3>1
  <2> QED
    BY <1>1, <2>1, <2>2
<1> HIDE DEF len, p
<1>6. length[n] - 1 = len
  BY <1>1
<1>7. IsChain(n, s)
  BY <1>1, <1>4, <1>5, <1>6 DEF IsChain
<1> QED
  BY <1>3, <1>7

\* Two readings of one chain agree: they end alike, and each entry says which
\* one is before it.
LEMMA ChainIsUnique ==
  ASSUME AllMeasured, NEW n \in Node, NEW s, IsChain(n, s), NEW t, IsChain(n, t)
  PROVE  s = t
<1> DEFINE len == length[n]
           Differ == {k \in Nat : k < len /\ s[len - k] # t[len - k]}
<1>1. len \in Nat /\ len > 0
  BY DEF AllMeasured, MeasureInv, Measured
<1>2. /\ s \in Seq(Node) /\ Len(s) = len /\ s[len] = n
      /\ t \in Seq(Node) /\ Len(t) = len /\ t[len] = n
      /\ \A i \in 1 .. len - 1 : s[i] = previous[s[i + 1]] /\ t[i] = previous[t[i + 1]]
  BY DEF IsChain
<1> HIDE DEF len
<1>3. Differ = {}
  <2> SUFFICES ASSUME Differ # {} PROVE FALSE
    OBVIOUS
  <2>1. PICK k \in Differ : \A j \in Differ : k <= j
    <3>1. Differ \subseteq Nat
      OBVIOUS
    <3> HIDE DEF Differ
    <3> QED
      BY <3>1, LeastOne
  <2>2. k \in Nat /\ k < len /\ s[len - k] # t[len - k]
    OBVIOUS
  <2>3. k > 0
    BY <1>1, <1>2, <2>2
  <2>4. k - 1 \in Nat /\ k - 1 < len /\ k - 1 \notin Differ
    BY <1>1, <2>1, <2>2, <2>3
  <2>5. s[len - (k - 1)] = t[len - (k - 1)]
    BY <2>4
  <2>6. len - k \in 1 .. len - 1 /\ len - (k - 1) = (len - k) + 1
    BY <1>1, <2>2, <2>3
  <2>7. s[(len - k) + 1] = t[(len - k) + 1]
    BY <2>5, <2>6
  <2>8. s[len - k] = previous[s[(len - k) + 1]] /\ t[len - k] = previous[t[(len - k) + 1]]
    BY <1>2, <2>6
  <2> QED
    BY <2>2, <2>7, <2>8
<1>4. \A i \in 1 .. len : s[i] = t[i]
  <2> SUFFICES ASSUME NEW i \in 1 .. len, s[i] # t[i] PROVE FALSE
    OBVIOUS
  <2>1. len - i \in Nat /\ len - i < len /\ len - (len - i) = i
    BY <1>1
  <2>2. len - i \in Differ
    BY <2>1
  <2> QED
    BY <1>3, <2>2
<1> QED
  BY <1>1, <1>2, <1>4

LEMMA ChainExists ==
  ASSUME AllMeasured, NEW n \in Node
  PROVE  \E s : IsChain(n, s)
<1> DEFINE Lost == {m \in Node : ~ \E s : IsChain(m, s)}
           Lengths == {length[m] : m \in Lost}
<1> SUFFICES ASSUME n \in Lost PROVE FALSE
  OBVIOUS
<1>1. \A m \in Node : length[m] \in Nat
  BY DEF AllMeasured, MeasureInv
<1>2. PICK m \in Lost : \A k \in Lost : length[m] <= length[k]
  <2>1. Lengths \subseteq Nat /\ Lengths # {}
    BY <1>1
  <2>2. PICK l \in Lengths : \A k \in Lengths : l <= k
    <3> HIDE DEF Lengths
    <3> QED
      BY <2>1, LeastOne
  <2> QED
    BY <2>2
<1>3. m \in Node /\ ~ \E s : IsChain(m, s)
  OBVIOUS
<1>4. previous[m] # None
  BY <1>3, ChainStarts
<1>5. previous[m] \in Node /\ length[previous[m]] < length[m]
  BY <1>1, <1>3, <1>4 DEF AllMeasured, MeasureInv, Measured, TypeOK
<1>6. previous[m] \notin Lost
  BY <1>1, <1>2, <1>3, <1>5
<1>7. PICK t : IsChain(previous[m], t)
  BY <1>5, <1>6
<1> QED
  BY <1>3, <1>4, <1>7, ChainGrows

\* critical_path's walk back over previous, for every node at once.
LEMMA ChainIsChain ==
  ASSUME AllMeasured
  PROVE  \A n \in Node : IsChain(n, Chain[n])
<1> DEFINE Walk(f) == [n \in Node |-> IF previous[n] = None THEN <<n>>
                                      ELSE Append(f[previous[n]], n)]
           f0 == [n \in Node |-> CHOOSE s : IsChain(n, s)]
<1>1. \A n \in Node : IsChain(n, f0[n])
  BY ChainExists, Zenon
<1>2. \A n \in Node : previous[n] # None => previous[n] \in Node
  BY DEF AllMeasured, MeasureInv
<1>3. ASSUME NEW n \in Node PROVE f0[n] = Walk(f0)[n]
  <2>1. IsChain(n, f0[n])
    BY <1>1
  <2> HIDE DEF f0
  <2>2. CASE previous[n] = None
    <3>1. f0[n] = <<n>>
      BY <2>1, <2>2, ChainStarts, ChainIsUnique
    <3> QED
      BY <2>2, <3>1
  <2>3. CASE previous[n] # None
    <3>1. IsChain(n, Append(f0[previous[n]], n))
      BY <1>1, <1>2, <2>3, ChainGrows
    <3>2. f0[n] = Append(f0[previous[n]], n)
      BY <2>1, <3>1, ChainIsUnique
    <3> QED
      BY <2>3, <3>2
  <2> QED
    BY <2>2, <2>3
<1>4. f0 = Walk(f0)
  <2>1. DOMAIN f0 = Node /\ DOMAIN Walk(f0) = Node
    OBVIOUS
  <2>2. f0 = [n \in DOMAIN f0 |-> f0[n]]
    OBVIOUS
  <2>3. Walk(f0) = [n \in DOMAIN Walk(f0) |-> Walk(f0)[n]]
    OBVIOUS
  <2> HIDE DEF f0, Walk
  <2> QED
    BY <1>3, <2>1, <2>2, <2>3, Zenon
<1>5. Chain = CHOOSE f : f = Walk(f)
  BY Zenon DEF Chain
<1> HIDE DEF f0
<1>6. Chain = Walk(Chain)
  <2> HIDE DEF Walk
  <2> QED
    BY <1>4, <1>5, Zenon
<1> HIDE DEF Chain
<1>7. \A n \in Node : /\ previous[n] = None => Chain[n] = <<n>>
                      /\ previous[n] # None => Chain[n] = Append(Chain[previous[n]], n)
  BY <1>6, Zenon
<1> DEFINE Lost == {m \in Node : ~IsChain(m, Chain[m])}
           Lengths == {length[m] : m \in Lost}
<1> SUFFICES ASSUME Lost # {} PROVE FALSE
  OBVIOUS
<1>8. \A m \in Node : length[m] \in Nat
  BY DEF AllMeasured, MeasureInv
<1>9. PICK m \in Lost : \A k \in Lost : length[m] <= length[k]
  <2>1. Lengths \subseteq Nat /\ Lengths # {}
    BY <1>8
  <2>2. PICK l \in Lengths : \A k \in Lengths : l <= k
    <3> HIDE DEF Lengths
    <3> QED
      BY <2>1, LeastOne
  <2> QED
    BY <2>2
<1>10. m \in Node /\ ~IsChain(m, Chain[m])
  OBVIOUS
<1>11. previous[m] # None
  BY <1>7, <1>10, ChainStarts
<1>12. previous[m] \in Node /\ length[previous[m]] < length[m]
  BY <1>8, <1>10, <1>11 DEF AllMeasured, MeasureInv, Measured, TypeOK
<1>13. previous[m] \notin Lost
  BY <1>8, <1>9, <1>10, <1>12
<1>14. IsChain(previous[m], Chain[previous[m]])
  BY <1>12, <1>13
<1> QED
  BY <1>7, <1>10, <1>11, <1>14, ChainGrows

\* The level of a node is the length of its longest chain, and critical_path
\* spells such a chain, for every plan (levels, critical_path).
THEOREM LevelsMeasureDepth == Spec => []LevelsAreDepths
<1>1. SearchInv /\ LevelInv /\ MeasureInv => LevelsAreDepths
  <2> SUFFICES ASSUME SearchInv, LevelInv, MeasureInv, phase \in {"built", "reach"}, NEW n \in Node
               PROVE  /\ \A i \in DOMAIN levels : n \in levels[i] <=> i = length[n]
                      /\ length[n] \in DOMAIN levels
                      /\ \A d \in deps[n] : length[d] < length[n]
                      /\ Len(Chain[n]) = length[n]
                      /\ \A i \in 1 .. length[n] - 1 : Chain[n][i] \in deps[Chain[n][i + 1]]
    BY DEF LevelsAreDepths
  <2>1. AllMeasured
    BY DEF AllMeasured, SearchInv, MeasureInv
  <2>2. DOMAIN levels = 1 .. Len(levels) /\ Len(levels) \in Nat
    BY DEF LevelInv
  <2>3. \A m \in Node : \A i \in 1 .. Len(levels) : m \in levels[i] <=> i = length[m]
    BY <2>1 DEF AllMeasured, Measured, LevelInv, LevelledOnce
  <2>4. length[n] \in 1 .. Len(levels)
    BY <2>1 DEF AllMeasured, Measured
  <2>5. \A d \in deps[n] : length[d] < length[n]
    <3>1. \A d \in deps[n] : d \in Node
      BY <2>1 DEF AllMeasured, TypeOK
    <3>2. \A d \in deps[n] : \E j \in 1 .. Len(levels) : j < length[n] /\ d \in levels[j]
      BY <2>3, <2>4 DEF LevelInv, LevelAfterDeps
    <3> QED
      BY <2>3, <3>1, <3>2
  <2>6. IsChain(n, Chain[n])
    BY <2>1, ChainIsChain
  <2>7. ASSUME NEW i \in 1 .. length[n] - 1 PROVE Chain[n][i] \in deps[Chain[n][i + 1]]
    <3>1. PICK s : s = Chain[n]
      OBVIOUS
    <3>2. s \in Seq(Node) /\ Len(s) = length[n] /\ s[i] = previous[s[i + 1]]
      BY <2>6, <3>1 DEF IsChain
    <3>3. s[i] \in Node /\ s[i + 1] \in Node
      BY <2>2, <2>4, <3>2
    <3>4. s[i] \in deps[s[i + 1]]
      BY <2>1, <3>2, <3>3, BuildAssumption DEF AllMeasured, Measured
    <3> QED
      BY <3>1, <3>4
  <2> QED
    BY <2>2, <2>3, <2>4, <2>5, <2>6, <2>7 DEF IsChain
<1> QED
  BY <1>1, SearchAlways, LevelInit, LevelNext, MeasureInit, MeasureNext, PTL DEF Spec
=============================================================================
