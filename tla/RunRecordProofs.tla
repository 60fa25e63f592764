--------------------------- MODULE RunRecordProofs ---------------------------
(***************************************************************************)
(* What a run tells its readers is true, for every wired plan, every       *)
(* content, every retry budget and every number of repairs: the board, the *)
(* accounts, the recovery intervals and the lineage.                       *)
(***************************************************************************)
EXTENDS RunRecord, FiniteSetTheorems, WellFoundedInduction, TLAPS

-----------------------------------------------------------------------------
(***************************************************************************)
(* The stages and their plans.                                             *)
(***************************************************************************)

\* The five stages the plans speak of are different nodes, and none is "none".
LEMMA Stages ==
  /\ {IMPACT, DESIGN, IMPLEMENT, VERIFY, REFACTOR} \subseteq Node
  /\ DESIGN \notin {IMPACT, IMPLEMENT, VERIFY, REFACTOR}
  /\ IMPLEMENT \notin {IMPACT, VERIFY, REFACTOR}
  /\ IMPACT # VERIFY /\ REFACTOR \notin {IMPACT, VERIFY}
  /\ "none" \notin Node
<1>1. DOMAIN StageOrder = 1 .. 9
  BY DEF StageOrder
<1>2. Node = {IMPACT, DESIGN, IMPLEMENT, AUTHOR_TESTS, DOCUMENT, VERIFY, REVIEW, RELEASE, REFACTOR}
  <2>1. /\ StageOrder[1] = IMPACT /\ StageOrder[2] = DESIGN /\ StageOrder[3] = IMPLEMENT
        /\ StageOrder[4] = AUTHOR_TESTS /\ StageOrder[5] = DOCUMENT /\ StageOrder[6] = VERIFY
        /\ StageOrder[7] = REVIEW /\ StageOrder[8] = RELEASE /\ StageOrder[9] = REFACTOR
    BY DEF StageOrder
  <2>2. \A i : i \in 1 .. 9 <=> i \in {1, 2, 3, 4, 5, 6, 7, 8, 9}
    OBVIOUS
  <2>3. Node = {StageOrder[i] : i \in {1, 2, 3, 4, 5, 6, 7, 8, 9}}
    BY <1>1, <2>2 DEF Node, StageIds
  <2> QED
    BY <2>1, <2>3
<1> QED
  BY <1>2 DEF IMPACT, DESIGN, IMPLEMENT, AUTHOR_TESTS, DOCUMENT, VERIFY, REVIEW, RELEASE, REFACTOR

\* There are finitely many stages.
LEMMA StagesAreFinite == IsFiniteSet(Node) /\ Cardinality(Node) \in Nat
<1>1. DOMAIN StageOrder = 1 .. 9
  BY DEF StageOrder
<1>2. StageOrder \in Surjection(1 .. 9, Node)
  BY <1>1 DEF Surjection, Node, StageIds, StageOrder
<1>3. \A b \in Int : IsFiniteSet(1 .. b)
  BY FS_Interval
<1>4. 9 \in Int
  OBVIOUS
<1>5. IsFiniteSet(1 .. 9)
  BY <1>3, <1>4, Zenon
<1> QED
  BY <1>2, <1>5, FS_Surjection, FS_CardinalityType

\* What Wired says of a plan, without its ranges.
LEMMA WiredPlan ==
  ASSUME NEW p, Wired(p)
  PROVE  /\ p.nodes \in SUBSET Node /\ p.deps \in [Node -> SUBSET Node] /\ p.version \in Nat
         /\ p.high \in SUBSET Node
         /\ {DESIGN, IMPLEMENT, VERIFY} \subseteq p.nodes
         /\ \A n \in Node : p.deps[n] \subseteq p.nodes /\ (n \notin p.nodes => p.deps[n] = {})
         /\ \A S \in SUBSET p.nodes : S # {} => \E n \in S : p.deps[n] \cap S = {}
         /\ DESIGN \in p.deps[IMPLEMENT]
         /\ IMPACT \in p.nodes => IMPACT \in p.deps[DESIGN]
         /\ \A n \in Node : IMPLEMENT \in p.deps[n] <=> n = VERIFY
         /\ VERIFY \notin p.high
BY DEF Wired, PlanOver, ValidPlan, KnownDependencies, Acyclic

\* The revision of a plan changes what implementation and the seam wait for,
\* and nothing else.
LEMMA RevisedPlan ==
  ASSUME NEW p, Wired(p), REFACTOR \notin p.nodes
  PROVE  /\ Wired(Revise(p))
         /\ Revise(p).nodes = p.nodes \cup {REFACTOR}
         /\ \A n \in Node \ {IMPLEMENT, REFACTOR} : Revise(p).deps[n] = p.deps[n]
         /\ Revise(p).deps[REFACTOR] = {DESIGN}
<1> DEFINE r == Revise(p)
<1>1. /\ r.nodes = p.nodes \cup {REFACTOR} /\ r.high = p.high \cup {REFACTOR}
      /\ r.version = p.version + 1 /\ r.version \in Nat
      /\ r.deps \in [Node -> SUBSET Node]
      /\ r.deps[REFACTOR] = {DESIGN} /\ r.deps[IMPLEMENT] = {DESIGN, REFACTOR}
      /\ \A n \in Node \ {IMPLEMENT, REFACTOR} : r.deps[n] = p.deps[n]
  BY WiredPlan, Stages DEF Revise
<1>2. r \in PlanOver(Node)
  <2>1. r = [nodes |-> r.nodes, deps |-> r.deps, high |-> r.high, version |-> r.version]
    BY DEF Revise
  <2> HIDE DEF r
  <2> QED
    BY <1>1, <2>1, WiredPlan, Stages DEF PlanOver
<1> HIDE DEF r
<1>3. KnownDependencies(r)
  BY <1>1, WiredPlan, Stages DEF KnownDependencies
<1>4. ASSUME NEW S \in SUBSET r.nodes, S # {} PROVE \E n \in S : r.deps[n] \cap S = {}
  <2>1. CASE S \ {REFACTOR} = {}
    BY <1>1, <1>4, <2>1, Stages
  <2>2. CASE S \ {REFACTOR} # {}
    <3>1. PICK n \in S \ {REFACTOR} : p.deps[n] \cap (S \ {REFACTOR}) = {}
      <4>1. S \ {REFACTOR} \in SUBSET p.nodes
        BY <1>1
      <4> QED
        BY <2>2, <4>1, WiredPlan
    <3>2. n \in Node /\ REFACTOR \notin p.deps[n]
      BY <1>1, WiredPlan
    <3>3. CASE n # IMPLEMENT
      BY <1>1, <3>1, <3>2, <3>3
    <3>4. CASE n = IMPLEMENT
      <4>1. DESIGN \notin S
        BY <3>1, <3>4, WiredPlan, Stages
      <4> QED
        BY <1>1, <3>1, <3>4, <4>1, Stages
    <3> QED
      BY <3>3, <3>4
  <2> QED
    BY <2>1, <2>2
<1>5. \A n \in Node : IMPLEMENT \in r.deps[n] <=> n = VERIFY
  BY <1>1, WiredPlan, Stages
<1>6. Wired(r)
  BY <1>1, <1>2, <1>3, <1>4, <1>5, WiredPlan, Stages DEF Wired, ValidPlan, Acyclic
<1> QED
  BY <1>1, <1>6 DEF r

-----------------------------------------------------------------------------
(***************************************************************************)
(* Types.                                                                  *)
(***************************************************************************)

EndStates == {"none", "completed", "failed", "rejected", "input_required"}

RowStates == EndStates \cup {"submitted", "working"}

EventTypes ==
  {"run_started", "run_finished", "plan_revised", "node_started", "node_finished", "retry",
   "repair_started", "approval_requested", "safe_stop"}

EventStates == EndStates \cup {"working"}

\* The events of a log and the boards, for a plan with these nodes.
Events(nodes) == [type : EventTypes, node : nodes \cup {"none"}, state : EventStates]

Boards(nodes) == [rows : [nodes -> RowStates], version : Nat, retries : Nat, cost : Nat]

NodeResult == [state : EndStates, attempts : Nat, cost : Nat]

\* What a history may hold.
Hash == {ArtifactOf[c] : c \in Content} \cup {TextOf[c] : c \in Content}

\* The outputs whose texts a node may have been shown.
Reading == UNION {[D -> Content] : D \in SUBSET Node}

RecordType ==
  /\ state \in {"working", "completed", "failed", "input_required"}
  /\ Wired(plan)
  /\ running \in SUBSET plan.nodes
  /\ ended \in [Node -> NodeResult]
  /\ tries \in [Node -> Nat]
  /\ results \in [Node -> NodeResult]
  /\ output \in [Node -> Content \cup {"none"}]
  /\ repairs \in Nat /\ spent \in Nat
  /\ made \in [Node -> Seq(Content)]
  /\ files \in [Node -> Seq(Hash)]
  /\ tables \in [Node -> Seq(Hash)]
  /\ edges \in Seq([to : Node, read : Reading])
  /\ events \in Seq(Events(plan.nodes))
  /\ board \in Boards(plan.nodes)

\* "none" stands for no output and is no content.
LEMMA NoneIsNoContent == "none" \notin Content
  BY RecordAssumption

\* A result with its defaults is one.
LEMMA BareResult ==
  ASSUME NEW s \in EndStates
  PROVE  Bare(s) \in NodeResult /\ Bare(s).state = s /\ Bare(s).attempts = 1 /\ Bare(s).cost = 0
BY DEF Bare, NodeResult

\* So is the result of a node that has none.
LEMMA EmptyResult ==
  NoResult \in NodeResult /\ NoResult.state = "none" /\ NoResult.attempts = 1 /\ NoResult.cost = 0
BY BareResult DEF NoResult, EndStates

\* An output has two hashes.
LEMMA HashOf ==
  ASSUME NEW c \in Content
  PROVE  ArtifactOf[c] \in Hash /\ TextOf[c] \in Hash
BY DEF Hash

\* A history with a hash registered is a history.
LEMMA RegisteredType ==
  ASSUME NEW revisions \in Seq(Hash), NEW hash \in Hash
  PROVE  /\ Produced(revisions, hash) \in Seq(Hash)
         /\ Registered(revisions, hash) \in Seq(Hash)
BY DEF Produced, Registered

\* What a node is shown when it starts.
LEMMA InputsType ==
  ASSUME RecordType, NEW n \in Node
  PROVE  /\ Inputs(n) \in Reading
         /\ DOMAIN Inputs(n) = {d \in plan.deps[n] : output[d] # "none"}
         /\ DOMAIN Inputs(n) \subseteq Node
         /\ \A d \in DOMAIN Inputs(n) : Inputs(n)[d] = output[d] /\ output[d] \in Content
<1> DEFINE D == {d \in plan.deps[n] : output[d] # "none"}
<1>1. D \in SUBSET Node
  BY WiredPlan DEF RecordType
<1>2. Inputs(n) = [d \in D |-> output[d]]
  BY DEF Inputs
<1>3. \A d \in D : output[d] \in Content
  BY <1>1 DEF RecordType
<1> HIDE DEF D
<1>4. Inputs(n) \in [D -> Content]
  BY <1>2, <1>3
<1>5. Inputs(n) \in Reading
  BY <1>1, <1>4 DEF Reading
<1>6. DOMAIN Inputs(n) = D /\ \A d \in D : Inputs(n)[d] = output[d]
  BY <1>2
<1> QED
  BY <1>1, <1>3, <1>5, <1>6 DEF D

\* A dispatch keeps the types of what it changes.
LEMMA FirstAttemptType ==
  ASSUME RecordType, NEW n \in Node, FirstAttempt(n)
  PROVE  /\ tries' \in [Node -> Nat] /\ spent' \in Nat
         /\ tables' \in [Node -> Seq(Hash)]
         /\ edges' \in Seq([to : Node, read : Reading])
<1>1. edges' \in Seq([to : Node, read : Reading])
  <2>1. [to |-> n, read |-> Inputs(n)] \in [to : Node, read : Reading]
    BY InputsType
  <2> QED
    BY <2>1 DEF FirstAttempt, RecordType
<1>2. tables' \in [Node -> Seq(Hash)]
  <2>1. \A d \in Node : tables[d] \in Seq(Hash)
    BY DEF RecordType
  <2>2. \A d \in DOMAIN Inputs(n) : Registered(tables[d], Shown(d)) \in Seq(Hash)
    BY <2>1, InputsType, HashOf, RegisteredType DEF Shown
  <2> QED
    BY <2>1, <2>2 DEF FirstAttempt
<1> QED
  BY <1>1, <1>2 DEF FirstAttempt, RecordType

\* The log keeps its type when events of this plan's nodes are added.
LEMMA LogType ==
  ASSUME NEW nodes, NEW log \in Seq(Events(nodes)),
         NEW t \in EventTypes, NEW n \in nodes \cup {"none"}, NEW s \in EventStates,
         NEW u \in EventTypes, NEW m \in nodes \cup {"none"}, NEW r \in EventStates
  PROVE  /\ log \o <<Event(t, n, s)>> \in Seq(Events(nodes))
         /\ log \o <<Event(t, n, s), Event(u, m, r)>> \in Seq(Events(nodes))
<1>1. Event(t, n, s) \in Events(nodes) /\ Event(u, m, r) \in Events(nodes)
  BY DEF Event, Events
<1> QED
  BY <1>1

\* A log of some nodes is one of more nodes.
LEMMA MoreEvents ==
  ASSUME NEW nodes, NEW more, nodes \subseteq more, NEW log \in Seq(Events(nodes))
  PROVE  log \in Seq(Events(more))
<1>1. Events(nodes) \subseteq Events(more)
  BY DEF Events
<1> QED
  BY <1>1

\* What the hooks do to the totals of the board.
HookCounts(b, n, r) ==
  /\ OnNodeStart(b, n).retries = b.retries /\ OnNodeStart(b, n).cost = b.cost
  /\ OnApprovalRequest(OnNodeStart(b, n), n).retries = b.retries
  /\ OnApprovalRequest(OnNodeStart(b, n), n).cost = b.cost
  /\ OnRetry(b, n).retries = b.retries + 1 /\ OnRetry(b, n).cost = b.cost
  /\ OnNodeEnd(b, n, r).retries = b.retries /\ OnNodeEnd(b, n, r).cost = b.cost + r.cost

\* A hook for a node of the plan changes its row and, it may be, a total.
LEMMA HooksType ==
  ASSUME NEW nodes, NEW n \in nodes, NEW r \in NodeResult,
         NEW b \in Boards(nodes)
  PROVE  /\ OnNodeStart(b, n) \in Boards(nodes)
         /\ OnNodeStart(b, n).rows = [b.rows EXCEPT ![n] = "working"]
         /\ OnApprovalRequest(OnNodeStart(b, n), n) \in Boards(nodes)
         /\ OnApprovalRequest(OnNodeStart(b, n), n).rows = [b.rows EXCEPT ![n] = "input_required"]
         /\ OnRetry(b, n) \in Boards(nodes)
         /\ OnRetry(b, n).rows = [b.rows EXCEPT ![n] = "working"]
         /\ OnNodeEnd(b, n, r) \in Boards(nodes)
         /\ OnNodeEnd(b, n, r).rows = [b.rows EXCEPT ![n] = r.state]
         /\ HookCounts(b, n, r)
<1>1. ASSUME NEW c \in Boards(nodes), NEW s \in RowStates
      PROVE  /\ Show(c, n, s) \in Boards(nodes) /\ Show(c, n, s).rows = [c.rows EXCEPT ![n] = s]
             /\ Show(c, n, s).retries = c.retries /\ Show(c, n, s).cost = c.cost
             /\ Show(c, n, s).version = c.version
  <2>1. [m \in DOMAIN c.rows |-> IF m = n THEN s ELSE c.rows[m]] = [c.rows EXCEPT ![n] = s]
    OBVIOUS
  <2>2. [c.rows EXCEPT ![n] = s] \in [nodes -> RowStates]
    BY <1>1 DEF Boards
  <2> QED
    BY <1>1, <2>1, <2>2 DEF Show, Boards
<1>2. /\ OnNodeStart(b, n) = Show(b, n, "working")
      /\ OnApprovalRequest(OnNodeStart(b, n), n) = Show(Show(b, n, "working"), n, "input_required")
  BY DEF OnNodeStart, OnApprovalRequest
<1>3. r.state \in RowStates /\ r.cost \in Nat
  BY DEF NodeResult, RowStates
<1>4. Show(b, n, "working") \in Boards(nodes)
  BY <1>1 DEF RowStates
<1>5. /\ Show(Show(b, n, "working"), n, "input_required") \in Boards(nodes)
      /\ Show(Show(b, n, "working"), n, "input_required").rows = [b.rows EXCEPT ![n] = "input_required"]
      /\ Show(Show(b, n, "working"), n, "input_required").retries = b.retries
      /\ Show(Show(b, n, "working"), n, "input_required").cost = b.cost
  <2>1. "input_required" \in RowStates
    BY DEF RowStates, EndStates
  <2>2. [[b.rows EXCEPT ![n] = "working"] EXCEPT ![n] = "input_required"]
          = [b.rows EXCEPT ![n] = "input_required"]
    BY DEF Boards
  <2>3. "working" \in RowStates
    BY DEF RowStates
  <2> QED
    BY <1>1, <1>4, <2>1, <2>2, <2>3
<1>6. ASSUME NEW c \in Boards(nodes)
      PROVE  /\ [c EXCEPT !.retries = @ + 1] \in Boards(nodes)
             /\ [c EXCEPT !.retries = @ + 1].rows = c.rows /\ [c EXCEPT !.retries = @ + 1].cost = c.cost
             /\ [c EXCEPT !.retries = @ + 1].retries = c.retries + 1
             /\ [c EXCEPT !.cost = @ + r.cost] \in Boards(nodes)
             /\ [c EXCEPT !.cost = @ + r.cost].rows = c.rows
             /\ [c EXCEPT !.cost = @ + r.cost].retries = c.retries
             /\ [c EXCEPT !.cost = @ + r.cost].cost = c.cost + r.cost
  BY <1>3, <1>6 DEF Boards
<1>7. Show(b, n, r.state) \in Boards(nodes)
  BY <1>1, <1>3
<1>8. /\ OnNodeEnd(b, n, r) \in Boards(nodes)
      /\ OnNodeEnd(b, n, r).rows = [b.rows EXCEPT ![n] = r.state]
      /\ OnNodeEnd(b, n, r).retries = b.retries /\ OnNodeEnd(b, n, r).cost = b.cost + r.cost
  <2>1. PICK c : c = Show(b, n, r.state)
    OBVIOUS
  <2>2. OnNodeEnd(b, n, r) = [c EXCEPT !.cost = @ + r.cost]
    BY <2>1, Zenon DEF OnNodeEnd
  <2>3. /\ c \in Boards(nodes) /\ c.rows = [b.rows EXCEPT ![n] = r.state]
        /\ c.retries = b.retries /\ c.cost = b.cost
    BY <1>1, <1>3, <2>1
  <2> QED
    BY <1>6, <2>2, <2>3
<1>9. /\ OnRetry(b, n) \in Boards(nodes)
      /\ OnRetry(b, n).rows = [b.rows EXCEPT ![n] = "working"]
      /\ OnRetry(b, n).retries = b.retries + 1 /\ OnRetry(b, n).cost = b.cost
  <2>1. PICK c : c = Show(b, n, "working")
    OBVIOUS
  <2>2. OnRetry(b, n) = [c EXCEPT !.retries = @ + 1]
    BY <2>1, Zenon DEF OnRetry
  <2>3. /\ c \in Boards(nodes) /\ c.rows = [b.rows EXCEPT ![n] = "working"]
        /\ c.retries = b.retries /\ c.cost = b.cost
    BY <1>1, <2>1 DEF RowStates
  <2> QED
    BY <1>6, <2>2, <2>3
<1>10. /\ OnNodeStart(b, n).rows = [b.rows EXCEPT ![n] = "working"]
       /\ OnNodeStart(b, n).retries = b.retries /\ OnNodeStart(b, n).cost = b.cost
  BY <1>1, <1>2 DEF RowStates
<1>11. HookCounts(b, n, r)
  BY <1>2, <1>5, <1>8, <1>9, <1>10 DEF HookCounts
<1> QED
  BY <1>2, <1>4, <1>5, <1>8, <1>9, <1>10, <1>11

\* Rows that survive keep their state, new ones are submitted.
LEMMA SetPlanType ==
  ASSUME NEW nodes, NEW p, p.version \in Nat,
         NEW b \in Boards(nodes)
  PROVE  /\ SetPlan(b, p) \in Boards(p.nodes)
         /\ \A n \in p.nodes : SetPlan(b, p).rows[n] = IF n \in nodes THEN b.rows[n] ELSE "submitted"
         /\ SetPlan(b, p).retries = b.retries /\ SetPlan(b, p).cost = b.cost
<1> DEFINE rows == [n \in p.nodes |-> IF n \in nodes THEN b.rows[n] ELSE "submitted"]
<1>1. rows \in [p.nodes -> RowStates] /\ DOMAIN b.rows = nodes
  BY DEF Boards, RowStates
<1>2. SetPlan(b, p) = [b EXCEPT !.rows = rows, !.version = p.version]
  BY <1>1 DEF SetPlan
<1>3. \A n \in p.nodes : rows[n] = IF n \in nodes THEN b.rows[n] ELSE "submitted"
  OBVIOUS
<1> HIDE DEF rows
<1> QED
  BY <1>1, <1>2, <1>3 DEF Boards

\* A node that waits to start is the plan's, has nothing to wait for, and has
\* neither started nor ended.
LEMMA WaitingNode ==
  ASSUME RecordType, NEW n \in Node, IsNext(n)
  PROVE  /\ state = "working"
         /\ n \in plan.nodes /\ plan.deps[n] \subseteq Done({"completed"})
         /\ results[n].state = "none" /\ ended[n].state = "none" /\ n \notin running
BY DEF IsNext, Waiting, Offered, Ready, Ended

\* What is collected are results.
LEMMA CollectedType ==
  ASSUME RecordType
  PROVE  /\ Collected \in [Node -> NodeResult]
         /\ [n \in Node |-> IF n \in Discarded THEN NoResult ELSE Collected[n]] \in [Node -> NodeResult]
         /\ [n \in Node |-> NoResult] \in [Node -> NodeResult]
         /\ \A n \in Node : Collected[n] = IF n \in Reached THEN ended[n] ELSE results[n]
BY EmptyResult DEF Collected, RecordType

\* The types hold at the start.
LEMMA TypeInit == Init => RecordType
<1> SUFFICES ASSUME Init PROVE RecordType
  OBVIOUS
<1>1. Wired(plan)
  BY RecordAssumption DEF Init
<1>2. events \in Seq(Events(plan.nodes))
  <2>1. Event("run_started", "none", "none") \in Events(plan.nodes)
    BY DEF Event, Events, EventTypes, EventStates, EndStates
  <2> QED
    BY <2>1 DEF Init
<1>3. board \in Boards(plan.nodes)
  <2>1. NewBoard \in Boards({})
    BY DEF NewBoard, Boards
  <2>2. plan.version \in Nat
    BY <1>1, WiredPlan
  <2> QED
    BY <2>1, <2>2, SetPlanType DEF Init
<1> QED
  BY <1>1, <1>2, <1>3, EmptyResult DEF Init, RecordType

\* Every step keeps the types.
LEMMA TypeNext == RecordType /\ [Next]_vars => RecordType'
<1> SUFFICES ASSUME RecordType, [Next]_vars PROVE RecordType'
  OBVIOUS
<1> USE DEF RecordType
<1>1. CASE UNCHANGED vars
  BY <1>1 DEF vars
<1>2. ASSUME NEW n \in Node, Start(n) PROVE RecordType'
  <2>1. FirstAttempt(n) /\ n \in plan.nodes
    BY <1>2, WaitingNode DEF Start
  <2>2. events' \in Seq(Events(plan.nodes))
    BY <1>2, <2>1, LogType, ZenonT(30) DEF Start, Log, EventTypes, EventStates, EndStates
  <2>3. board' \in Boards(plan.nodes)
    BY <1>2, <2>1, HooksType, EmptyResult DEF Start
  <2> QED
    BY <1>2, <2>1, <2>2, <2>3, FirstAttemptType DEF Start
<1>3. ASSUME NEW n \in Node, Ask(n) PROVE RecordType'
  <2>1. n \in plan.nodes
    BY <1>3, WaitingNode DEF Ask
  <2>2. events' \in Seq(Events(plan.nodes))
    BY <1>3, <2>1, LogType DEF Ask, Log, EventTypes, EventStates, EndStates
  <2>3. board' \in Boards(plan.nodes)
    BY <1>3, <2>1, HooksType, EmptyResult DEF Ask
  <2> QED
    BY <1>3, <2>1, <2>2, <2>3 DEF Ask
<1>4. ASSUME NEW n \in Node, Approve(n) PROVE RecordType'
  BY <1>4, FirstAttemptType DEF Approve
<1>5. ASSUME NEW n \in Node, NEW r \in NodeResult, n \in running, Returns(n, r),
             r.state \in EndStates, UNCHANGED <<state, plan, tries, results, repairs, spent, edges>>,
             output' \in [Node -> Content \cup {"none"}], made' \in [Node -> Seq(Content)],
             files' \in [Node -> Seq(Hash)], tables' \in [Node -> Seq(Hash)]
      PROVE  RecordType'
  <2>1. n \in plan.nodes
    BY <1>5
  <2>2. events' \in Seq(Events(plan.nodes))
    <3>1. r.state \in EventStates /\ "node_finished" \in EventTypes
      BY <1>5 DEF EventStates, EventTypes
    <3>2. events' = events \o <<Event("node_finished", n, r.state)>>
      BY <1>5 DEF Returns, Log
    <3> QED
      BY <2>1, <3>1, <3>2, LogType
  <2>3. board' \in Boards(plan.nodes)
    BY <1>5, <2>1, HooksType DEF Returns
  <2> QED
    BY <1>5, <2>1, <2>2, <2>3 DEF Returns
<1>6. ASSUME NEW n \in Node, NEW s \in EndStates
      PROVE  Result(n, s) \in NodeResult /\ Result(n, s).state = s
  BY DEF Result, NodeResult
<1>7. ASSUME NEW n \in Node, Decline(n) PROVE RecordType'
  BY <1>5, <1>7, BareResult DEF Decline, Awaits, EndStates
<1>8. ASSUME NEW n \in Node, NEW c \in Content, Complete(n, c) PROVE RecordType'
  <2>1. made' \in [Node -> Seq(Content)] /\ output' \in [Node -> Content \cup {"none"}]
    BY <1>8 DEF Complete
  <2>2. /\ Produced(files[n], ArtifactOf[c]) \in Seq(Hash)
        /\ Produced(tables[n], ArtifactOf[c]) \in Seq(Hash)
    BY HashOf, RegisteredType
  <2>3. files' \in [Node -> Seq(Hash)] /\ tables' \in [Node -> Seq(Hash)]
    BY <1>8, <2>2 DEF Complete, Records
  <2> QED
    BY <1>5, <1>6, <1>8, <2>1, <2>3 DEF Complete, AtWork, EndStates
<1>9. ASSUME NEW n \in Node, NEW s \in {"failed", "input_required"}, EndWithout(n, s) PROVE RecordType'
  BY <1>5, <1>6, <1>9 DEF EndWithout, AtWork, EndStates
<1>10. ASSUME NEW n \in Node, Retry(n) PROVE RecordType'
  <2>1. n \in plan.nodes
    BY <1>10 DEF Retry, AtWork
  <2>2. events' \in Seq(Events(plan.nodes))
    BY <1>10, <2>1, LogType DEF Retry, Log, EventTypes, EventStates, EndStates
  <2>3. board' \in Boards(plan.nodes)
    BY <1>10, <2>1, HooksType, EmptyResult DEF Retry
  <2>4. tries' \in [Node -> Nat] /\ spent' \in Nat
    BY <1>10 DEF Retry
  <2> QED
    BY <1>10, <2>1, <2>2, <2>3, <2>4 DEF Retry
<1>11. ASSUME NEW n \in Node, Raise(n) PROVE RecordType'
  BY <1>11, BareResult DEF Raise, EndStates
<1>12. CASE CollectAndStop
  <2>1. state' \in {"input_required", "failed"}
    BY <1>12 DEF CollectAndStop
  <2>2. events' \in Seq(Events(plan.nodes))
    BY <1>12, <2>1, LogType, ZenonT(30) DEF CollectAndStop, Log, EventTypes, EventStates, EndStates
  <2> QED
    BY <1>12, <2>1, <2>2, CollectedType DEF CollectAndStop, BatchIsBack
<1>13. CASE CollectAndRepair
  <2>1. VERIFY \in plan.nodes
    BY WiredPlan
  <2>2. events' \in Seq(Events(plan.nodes))
    BY <1>13, <2>1, LogType, ZenonT(30) DEF CollectAndRepair, Log, EventTypes, EventStates, EndStates
  <2> QED
    BY <1>13, <2>2, CollectedType DEF CollectAndRepair, BatchIsBack
<1>14. ASSUME NEW seam \in BOOLEAN, CollectAndContinue(seam) PROVE RecordType'
  <2>1. results' \in [Node -> NodeResult] /\ ended' \in [Node -> NodeResult]
    BY <1>14, CollectedType DEF CollectAndContinue, BatchIsBack
  <2>2. CASE ~seam
    BY <1>14, <2>1, <2>2 DEF CollectAndContinue
  <2>3. CASE seam
    <3>1. /\ Wired(plan') /\ plan.nodes \subseteq plan'.nodes
          /\ plan'.version \in Nat
      BY <1>14, <2>3, RevisedPlan, WiredPlan, SMTT(20) DEF CollectAndContinue, NeedsSeam
    <3>2. events \in Seq(Events(plan'.nodes))
      BY <3>1, MoreEvents
    <3>3. events' \in Seq(Events(plan'.nodes))
      <4>1. events' = events \o <<Event("plan_revised", "none", "none")>>
        BY <1>14, <2>3 DEF CollectAndContinue, Log
      <4>2. "plan_revised" \in EventTypes /\ "none" \in EventStates
        BY DEF EventTypes, EventStates, EndStates
      <4> QED
        BY <3>2, <4>1, <4>2, LogType
    <3>4. board' \in Boards(plan'.nodes)
      BY <1>14, <2>3, <3>1, SetPlanType DEF CollectAndContinue
    <3> QED
      BY <1>14, <2>1, <3>1, <3>3, <3>4 DEF CollectAndContinue
  <2> QED
    BY <2>2, <2>3
<1>15. CASE Finish \/ Stop
  <2>1. state' \in {"completed", "failed"}
    BY <1>15 DEF Finish, Stop
  <2>2. events' \in Seq(Events(plan.nodes))
    <3>1. CASE Finish
      BY <3>1, LogType, ZenonT(30) DEF Finish, Log, EventTypes, EventStates, EndStates
    <3>2. CASE Stop
      BY <3>2, LogType DEF Stop, Log, EventTypes, EventStates, EndStates
    <3> QED
      BY <1>15, <3>1, <3>2
  <2> QED
    BY <1>15, <2>1, <2>2 DEF Finish, Stop
<1> QED
  BY <1>1, <1>2, <1>3, <1>4, <1>7, <1>8, <1>9, <1>10, <1>11, <1>12, <1>13, <1>14, <1>15 DEF Next

\* Every variable keeps its type, and the plan stays one the graph accepts,
\* whatever the run does.
THEOREM RecordTypeCorrect == Spec => []RecordType
  BY TypeInit, TypeNext, PTL DEF Spec

-----------------------------------------------------------------------------
(***************************************************************************)
(* The course of a batch.                                                  *)
(***************************************************************************)

\* A node that has started has not been given up: what it returned counts.
Active(n) == n \in running \/ ended[n].state # "none" \/ results[n].state # "none"

Flow ==
  /\ \A n \in running : ended[n].state = "none" /\ results[n].state = "none"
  /\ \A n \in Node : ended[n].state # "none" => results[n].state = "none"
  /\ \A n \in Node : Active(n) => n \in plan.nodes /\ plan.deps[n] \subseteq Done({"completed"})
  /\ \A n \in running : n \notin plan.high => tries[n] > 0
  /\ state = "working" => \A n \in Node : results[n].state \in {"none", "completed"}
  /\ state # "working" => running = {} /\ \A n \in Node : ended[n].state = "none"
  /\ \A n \in Node : /\ results[n].state = "none" => results[n] = NoResult
                     /\ ended[n].state = "none" => ended[n] = NoResult
                     /\ results[n].attempts >= 1 /\ ended[n].attempts >= 1

\* The survey has not just ended when what builds on the design has started,
\* so a revision finds implementation untouched.
LEMMA SurveyIsOver ==
  ASSUME RecordType, Flow, IMPACT \in Ended
  PROVE  ~Active(DESIGN) /\ ~Active(IMPLEMENT)
<1>1. results[IMPACT].state # "completed" /\ IMPACT \in plan.nodes
  BY Stages DEF Flow, Ended, Active
<1>2. ~Active(DESIGN)
  BY <1>1, WiredPlan, Stages DEF Flow, RecordType, Done
<1>3. results[DESIGN].state # "completed"
  BY <1>2 DEF Active
<1>4. ~Active(IMPLEMENT)
  BY <1>3, WiredPlan, Stages DEF Flow, RecordType, Done
<1> QED
  BY <1>2, <1>4

\* Every step keeps a node in one place at a time.
LEMMA FlowNext == RecordType /\ Flow /\ [Next]_vars => Flow'
<1> SUFFICES ASSUME RecordType, Flow, [Next]_vars PROVE Flow'
  OBVIOUS
<1>1. CASE UNCHANGED vars
  BY <1>1 DEF vars, Flow, Active, Done
<1>2. ASSUME NEW n \in Node, IsNext(n), running' = running \cup {n},
             UNCHANGED <<state, plan, ended, results>>,
             tries' = [tries EXCEPT ![n] = 1] \/ (n \in plan.high /\ tries' = [tries EXCEPT ![n] = 0])
      PROVE  Flow'
  <2>1. /\ state = "working" /\ n \in plan.nodes /\ plan.deps[n] \subseteq Done({"completed"})
        /\ results[n].state = "none" /\ ended[n].state = "none" /\ n \notin running
    BY <1>2, WaitingNode
  <2>2. \A m \in running' : m \notin plan.high => tries'[m] > 0
    <3>1. running \subseteq Node /\ DOMAIN tries = Node
      BY WiredPlan DEF RecordType
    <3> QED
      BY <1>2, <2>1, <3>1 DEF Flow
  <2>3. Done({"completed"})' = Done({"completed"})
    BY <1>2 DEF Done
  <2> QED
    BY <1>2, <2>1, <2>2, <2>3 DEF Flow, Active
<1>3. ASSUME NEW n \in running, NEW k \in Nat, k > 0, tries' = [tries EXCEPT ![n] = k],
             UNCHANGED <<state, plan, running, ended, results>>
      PROVE  Flow'
  <2>1. \A m \in running : m \notin plan.high => tries'[m] > 0
    BY <1>3 DEF Flow, RecordType
  <2>2. Done({"completed"})' = Done({"completed"})
    BY <1>3 DEF Done
  <2> QED
    BY <1>3, <2>1, <2>2 DEF Flow, Active
<1>4. ASSUME NEW n \in running, NEW r \in NodeResult, r.state # "none", r.attempts >= 1,
             running' = running \ {n}, ended' = [ended EXCEPT ![n] = r],
             UNCHANGED <<state, plan, results, tries>>
      PROVE  Flow'
  <2>1. n \in Node /\ \A m \in Node : ended'[m] = IF m = n THEN r ELSE ended[m]
    BY <1>4, WiredPlan DEF RecordType
  <2>2. state = "working"
    BY <1>4 DEF Flow
  <2>3. Done({"completed"})' = Done({"completed"})
    BY <1>4 DEF Done
  <2> QED
    BY <1>4, <2>1, <2>2, <2>3 DEF Flow, Active
<1>5. ASSUME NEW n \in Node, Start(n) PROVE Flow'
  BY <1>2, <1>5 DEF Start, FirstAttempt
<1>6. ASSUME NEW n \in Node, Ask(n) PROVE Flow'
  BY <1>2, <1>6 DEF Ask
<1>7. ASSUME NEW n \in Node, Approve(n) PROVE Flow'
  <2>1. n \in running /\ tries' = [tries EXCEPT ![n] = 1]
    BY <1>7 DEF Approve, Awaits, FirstAttempt
  <2>2. 1 \in Nat /\ 1 > 0
    OBVIOUS
  <2>3. UNCHANGED <<state, plan, running, ended, results>>
    BY <1>7 DEF Approve
  <2> QED
    BY <1>3, <2>1, <2>2, <2>3, Zenon
<1>8. ASSUME NEW n \in Node, Retry(n) PROVE Flow'
  <2>1. n \in running /\ tries[n] + 1 \in Nat /\ tries[n] + 1 > 0
    BY <1>8 DEF Retry, AtWork, RecordType
  <2>2. tries' = [tries EXCEPT ![n] = tries[n] + 1]
    BY <1>8 DEF Retry
  <2> QED
    BY <1>3, <1>8, <2>1, <2>2 DEF Retry
<1>9. ASSUME NEW n \in Node, Decline(n) PROVE Flow'
  <2>1. PICK r \in NodeResult : r = Bare("rejected") /\ r.state # "none" /\ r.attempts >= 1
    BY BareResult DEF EndStates
  <2> QED
    BY <1>4, <1>9, <2>1 DEF Decline, Awaits, Returns
<1>10. ASSUME NEW n \in Node, NEW s \in EndStates \ {"none"}, AtWork(n)
       PROVE  Result(n, s) \in NodeResult /\ Result(n, s).state = s /\ Result(n, s).attempts >= 1
  BY <1>10 DEF Result, NodeResult, AtWork, RecordType
<1>11. ASSUME NEW n \in Node, NEW c \in Content, Complete(n, c) PROVE Flow'
  <2>1. "completed" \in EndStates \ {"none"}
    BY DEF EndStates
  <2> QED
    BY <1>4, <1>10, <1>11, <2>1 DEF Complete, AtWork, Returns
<1>12. ASSUME NEW n \in Node, NEW s \in {"failed", "input_required"}, EndWithout(n, s) PROVE Flow'
  <2>1. s \in EndStates \ {"none"}
    BY DEF EndStates
  <2> QED
    BY <1>4, <1>10, <1>12, <2>1 DEF EndWithout, AtWork, Returns
<1>13. ASSUME NEW n \in Node, Raise(n) PROVE Flow'
  <2>1. PICK r \in NodeResult : r = Bare("failed") /\ r.state # "none" /\ r.attempts >= 1
    BY BareResult DEF EndStates
  <2> QED
    BY <1>4, <1>13, <2>1 DEF Raise
<1>14. ASSUME BatchIsBack
       PROVE  /\ state = "working" /\ running = {} /\ \A n \in Node : ended'[n] = NoResult
              /\ \A n \in Node : Collected[n] \in {ended[n], results[n]}
              /\ \A n \in Node : results[n].state # "none" => Collected[n] = results[n]
              /\ \A n \in Node : Collected[n].state # "none" => Active(n)
  BY <1>14, CollectedType DEF BatchIsBack, Flow, Active, Reached, Ended
<1>15. CASE CollectAndStop
  <2>1. results' = Collected /\ state' # "working" /\ UNCHANGED <<plan, running, tries>>
    BY <1>15 DEF CollectAndStop
  <2>2. Done({"completed"}) \subseteq Done({"completed"})'
    BY <1>14, <1>15, <2>1 DEF Done, CollectAndStop
  <2> QED
    BY <1>14, <1>15, <2>1, <2>2, EmptyResult DEF CollectAndStop, Flow, Active
<1>16. CASE CollectAndRepair
  <2>1. /\ UNCHANGED <<state, plan, running, tries>>
        /\ \A n \in Node : results'[n] = IF n \in Discarded THEN NoResult ELSE Collected[n]
        /\ BatchIsBack /\ VERIFY \in Ended /\ Fatal = {}
    BY <1>16, CollectedType DEF CollectAndRepair
  <2>2. results[VERIFY].state # "completed"
    BY <2>1, Stages DEF Flow, Ended
  <2>3. ASSUME NEW n \in Node, results'[n].state # "none"
        PROVE  n \in plan.nodes /\ plan.deps[n] \subseteq Done({"completed"})'
    <3>1. n \notin Discarded /\ Active(n)
      BY <1>14, <2>1, <2>3, EmptyResult
    <3>2. n \in plan.nodes /\ plan.deps[n] \subseteq Done({"completed"})
      BY <3>1 DEF Flow
    <3>3. VERIFY \notin plan.deps[n] /\ IMPLEMENT \notin plan.deps[n]
      BY <2>2, <3>1, <3>2, WiredPlan, Stages DEF Done, Discarded, RecordType
    <3>4. \A d \in plan.deps[n] : d \in Node /\ results'[d] = results[d]
      BY <1>14, <2>1, <3>2, <3>3 DEF Done, Discarded
    <3> QED
      BY <3>2, <3>4 DEF Done
  <2>4. \A n \in Node : n # VERIFY => Collected[n].state \in {"none", "completed"}
    <3>1. ASSUME NEW n \in Node, ended[n].state \notin {"none", "completed"} PROVE n = VERIFY
      BY <2>1, <3>1 DEF Fatal, Ended, Repairable
    <3>2. Reached = Ended
      BY <2>1 DEF Reached
    <3> QED
      BY <1>14, <2>1, <3>1, <3>2 DEF Flow
  <2> QED
    BY <1>14, <2>1, <2>3, <2>4, EmptyResult DEF Flow, Active, Discarded
<1>17. ASSUME NEW seam \in BOOLEAN, CollectAndContinue(seam) PROVE Flow'
  <2>1. /\ UNCHANGED <<state, running, tries>> /\ results' = Collected
        /\ BatchIsBack /\ \A n \in Ended : ended[n].state = "completed"
    BY <1>17 DEF CollectAndContinue
  <2>2. Done({"completed"}) \subseteq Done({"completed"})'
    BY <1>14, <2>1 DEF Done
  <2>3. ASSUME NEW n \in Node, results'[n].state # "none"
        PROVE  n \in plan'.nodes /\ plan'.deps[n] \subseteq Done({"completed"})'
    <3>1. n \in plan.nodes /\ plan.deps[n] \subseteq Done({"completed"}) /\ Active(n)
      BY <1>14, <2>1, <2>3 DEF Flow
    <3>2. CASE ~seam
      BY <1>17, <2>2, <3>1, <3>2 DEF CollectAndContinue
    <3>3. CASE seam
      <4>1. IMPACT \in Ended /\ REFACTOR \notin plan.nodes /\ plan' = Revise(plan)
        BY <1>17, <3>3 DEF CollectAndContinue, NeedsSeam
      <4>2. n \notin {IMPLEMENT, REFACTOR}
        BY <3>1, <4>1, SurveyIsOver
      <4> QED
        BY <2>2, <3>1, <4>1, <4>2, RevisedPlan DEF RecordType
    <3> QED
      BY <3>2, <3>3
  <2>4. \A n \in Node : Collected[n].state \in {"none", "completed"}
    BY <1>14, <2>1 DEF Flow, Ended
  <2> QED
    BY <1>14, <2>1, <2>3, <2>4, EmptyResult DEF Flow, Active
<1>18. CASE Finish \/ Stop
  <2>1. state' # "working" /\ running = {} /\ Ended = {}
    BY <1>18 DEF Finish, Stop, BetweenBatches
  <2>2. UNCHANGED <<plan, running, ended, results, tries>>
    BY <1>18 DEF Finish, Stop
  <2>3. Done({"completed"})' = Done({"completed"})
    BY <2>2 DEF Done
  <2> QED
    BY <2>1, <2>2, <2>3 DEF Flow, Active, Ended
<1> QED
  BY <1>1, <1>5, <1>6, <1>7, <1>8, <1>9, <1>11, <1>12, <1>13, <1>15, <1>16, <1>17, <1>18 DEF Next

\* What has started, returned or been collected had its dependencies completed
\* and had nothing in another place: a node is at work, has ended or has a
\* result, one of the three, and while the run works only completed results
\* are kept (ready, _collect, _repair).
THEOREM FlowCorrect == Spec => []Flow
<1>1. Init => Flow
  BY EmptyResult DEF Init, Flow, Active
<1> QED
  BY <1>1, RecordTypeCorrect, FlowNext, PTL DEF Spec


-----------------------------------------------------------------------------
(***************************************************************************)
(* The board.                                                              *)
(***************************************************************************)

TellTypes == {"node_started", "node_finished"}

\* i is where the log last speaks of a node's start or end.
Latest(n, i) == \A j \in Told(n) : j <= i

RowTells(n) ==
  /\ Told(n) = {} => board.rows[n] = "submitted"
  /\ \A i \in Told(n) :
       Latest(n, i) /\ events[i].type = "node_finished" => board.rows[n] = events[i].state

StartTold(n) ==
  Told(n) # {} /\ \A i \in Told(n) : Latest(n, i) => events[i].type = "node_started"

Board ==
  /\ \A n \in plan.nodes :
       /\ Awaits(n) => board.rows[n] = "input_required"
       /\ AtWork(n) => board.rows[n] \in {"working", "input_required"}
       /\ RowTells(n)
       /\ n \in running => StartTold(n)
       /\ "completed" \in {ended[n].state, results[n].state} => board.rows[n] = "completed"
  /\ state = "completed" => \A n \in plan.nodes : board.rows[n] = "completed"

\* The log grows by e, or by e and f.
Says(e, f) == events' = events \o <<e>> \/ events' = events \o <<e, f>>

\* What was in the log stays where it was, and the new events follow.
LEMMA LogNext ==
  ASSUME RecordType, NEW e, NEW f, Says(e, f)
  PROVE  /\ \A i \in DOMAIN events : i \in DOMAIN events' /\ events'[i] = events[i] /\ i <= Len(events)
         /\ Len(events) + 1 \in DOMAIN events' /\ events'[Len(events) + 1] = e
         /\ Len(events) \in Nat
         /\ \A i \in DOMAIN events' :
              \/ i \in DOMAIN events
              \/ i = Len(events) + 1
              \/ i = Len(events) + 2 /\ events' = events \o <<e, f>> /\ events'[i] = f
<1>1. Len(events) \in Nat /\ DOMAIN events = 1 .. Len(events)
  BY DEF RecordType
<1> USE DEF Says
<1>2. \A i \in DOMAIN events : events'[i] = events[i]
  <2>1. CASE events' = events \o <<e>>
    BY <2>1 DEF RecordType
  <2>2. CASE events' = events \o <<e, f>>
    BY <2>2 DEF RecordType
  <2> QED
    BY <2>1, <2>2
<1>3. CASE events' = events \o <<e>>
  <2>1. DOMAIN events' = 1 .. (Len(events) + 1) /\ events'[Len(events) + 1] = e
    BY <1>3 DEF RecordType
  <2> QED
    BY <1>1, <1>2, <2>1
<1>4. CASE events' = events \o <<e, f>>
  <2>1. /\ DOMAIN events' = 1 .. (Len(events) + 2)
        /\ events'[Len(events) + 1] = e /\ events'[Len(events) + 2] = f
    BY <1>4 DEF RecordType
  <2> QED
    BY <1>1, <1>2, <1>4, <2>1
<1> QED
  BY <1>3, <1>4

\* What the log tells of the nodes when events are added.
LEMMA ToldNext ==
  ASSUME RecordType, NEW e, NEW f, Says(e, f),
         f.type \notin TellTypes
  PROVE  \A n \in Node :
           /\ e.node = n /\ e.type \in TellTypes => Told(n)' = Told(n) \cup {Len(events) + 1}
           /\ e.node # n \/ e.type \notin TellTypes => Told(n)' = Told(n)
<1>1. /\ \A i \in DOMAIN events : i \in DOMAIN events' /\ events'[i] = events[i] /\ i <= Len(events)
      /\ Len(events) + 1 \in DOMAIN events' /\ events'[Len(events) + 1] = e
      /\ \A i \in DOMAIN events' :
           \/ i \in DOMAIN events
           \/ i = Len(events) + 1
           \/ i = Len(events) + 2 /\ events' = events \o <<e, f>> /\ events'[i] = f
  BY LogNext, Zenon
<1> QED
  BY <1>1 DEF Told, TellTypes

\* A step that changes no row but of nodes the log does not speak of.
LEMMA BoardKept ==
  ASSUME RecordType, Board, NEW e, NEW f,
         events' = events \/ Says(e, f),
         e.type \notin TellTypes, f.type \notin TellTypes,
         plan' = plan, board' = board
  PROVE  \A n \in plan.nodes :
           /\ RowTells(n)'
           /\ n \in running => StartTold(n)'
<1>1. plan.nodes \subseteq Node
  BY WiredPlan DEF RecordType
<1>2. \A n \in Node : Told(n)' = Told(n)
  <2>1. CASE events' = events
    BY <2>1 DEF Told
  <2>2. CASE events' # events
    BY <2>2, ToldNext
  <2> QED
    BY <2>1, <2>2
<1>3. \A n \in Node : \A i \in Told(n) : events'[i] = events[i]
  <2>1. CASE events' = events
    BY <2>1
  <2>2. CASE events' # events
    BY <2>2, LogNext DEF Told
  <2> QED
    BY <2>1, <2>2
<1> QED
  BY <1>1, <1>2, <1>3 DEF Board, Latest, RowTells, StartTold

\* A step that the log and the row of one node tell of.
LEMMA BoardTold ==
  ASSUME RecordType, Board, NEW e, NEW f, Says(e, f),
         e.node \in plan.nodes, e.type \in TellTypes, f.type \notin TellTypes,
         NEW s \in RowStates, e.type = "node_finished" => s = e.state,
         plan' = plan, board'.rows = [board.rows EXCEPT ![e.node] = s]
  PROVE  \A n \in plan.nodes :
           /\ board'.rows[n] = IF n = e.node THEN s ELSE board.rows[n]
           /\ RowTells(n)'
           /\ n \in running /\ n # e.node => StartTold(n)'
           /\ n = e.node /\ e.type = "node_started" => StartTold(n)'
<1>1. plan.nodes \subseteq Node
  BY WiredPlan DEF RecordType
<1>2. \A n \in plan.nodes : board'.rows[n] = IF n = e.node THEN s ELSE board.rows[n]
  BY DEF RecordType, Boards
<1>3. \A n \in Node : \A i \in Told(n) : events'[i] = events[i] /\ i <= Len(events) /\ i \in Nat
  <2>1. \A i \in DOMAIN events : events'[i] = events[i] /\ i <= Len(events)
    BY LogNext, Zenon
  <2>2. DOMAIN events \subseteq Nat
    BY DEF RecordType
  <2> QED
    BY <2>1, <2>2 DEF Told
<1>4. ASSUME NEW n \in plan.nodes, n # e.node PROVE Told(n)' = Told(n)
  BY <1>1, <1>4, ToldNext
<1>5. Told(e.node)' = Told(e.node) \cup {Len(events) + 1} /\ events'[Len(events) + 1] = e
  BY <1>1, ToldNext, LogNext
<1>6. \A i \in Told(e.node)' : Latest(e.node, i)' => i = Len(events) + 1
  <2>1. Len(events) \in Nat
    BY LogNext
  <2>2. ASSUME NEW i \in Told(e.node)', Latest(e.node, i)' PROVE i = Len(events) + 1
    <3>1. Len(events) + 1 <= i
      BY <1>5, <2>2 DEF Latest
    <3>2. i \in Told(e.node) => i <= Len(events) /\ i \in Nat
      BY <1>1, <1>3
    <3> QED
      BY <1>5, <2>1, <2>2, <3>1, <3>2
  <2> QED
    BY <2>2
<1>7. ASSUME NEW n \in plan.nodes, n # e.node
      PROVE  /\ RowTells(n)'
             /\ n \in running => StartTold(n)'
  BY <1>1, <1>2, <1>3, <1>4, <1>7 DEF Board, Latest, RowTells, StartTold
<1>8. RowTells(e.node)' /\ (e.type = "node_started" => StartTold(e.node)')
  BY <1>2, <1>5, <1>6 DEF RowTells, StartTold
<1> QED
  BY <1>2, <1>7, <1>8

\* Nothing is left to run only when all has completed.
LEMMA NothingIsLeft ==
  ASSUME RecordType, Flow, BetweenBatches, Offered = {}
  PROVE  plan.nodes \subseteq Done({"completed"})
<1> DEFINE S == plan.nodes \ Done({"completed"})
<1> SUFFICES ASSUME S # {} PROVE FALSE
  OBVIOUS
<1>1. PICK n \in S : plan.deps[n] \cap S = {}
  <2>1. S \in SUBSET plan.nodes
    OBVIOUS
  <2> HIDE DEF S
  <2> QED
    BY <2>1, WiredPlan DEF RecordType
<1>2. n \in Node /\ plan.deps[n] \subseteq plan.nodes
  BY WiredPlan DEF RecordType
<1>3. plan.deps[n] \subseteq Done({"completed"})
  BY <1>1, <1>2
<1>4. results[n].state = "none"
  BY <1>1, <1>2 DEF Flow, BetweenBatches, Done
<1> QED
  BY <1>1, <1>3, <1>4 DEF Offered, Ready

\* Every step keeps the board true to the log.
LEMMA BoardNext == RecordType /\ Flow /\ Board /\ [Next]_vars => Board'
<1> SUFFICES ASSUME RecordType, Flow, Board, [Next]_vars PROVE Board'
  OBVIOUS
<1>0. plan.nodes \subseteq Node /\ running \subseteq plan.nodes
  BY WiredPlan DEF RecordType
<1>e. Event("retry", "none", "none").type \notin TellTypes
  BY DEF Event, TellTypes
<1>h. \A n \in plan.nodes :
        /\ OnNodeStart(board, n).rows = [board.rows EXCEPT ![n] = "working"]
        /\ OnApprovalRequest(OnNodeStart(board, n), n).rows = [board.rows EXCEPT ![n] = "input_required"]
        /\ OnRetry(board, n).rows = [board.rows EXCEPT ![n] = "working"]
        /\ \A r \in NodeResult : OnNodeEnd(board, n, r).rows = [board.rows EXCEPT ![n] = r.state]
  <2>1. board \in Boards(plan.nodes)
    BY DEF RecordType
  <2>2. ASSUME NEW n \in plan.nodes, NEW r \in NodeResult
        PROVE  /\ OnNodeStart(board, n).rows = [board.rows EXCEPT ![n] = "working"]
               /\ OnApprovalRequest(OnNodeStart(board, n), n).rows = [board.rows EXCEPT ![n] = "input_required"]
               /\ OnRetry(board, n).rows = [board.rows EXCEPT ![n] = "working"]
               /\ OnNodeEnd(board, n, r).rows = [board.rows EXCEPT ![n] = r.state]
    BY <2>1, <2>2, HooksType, SMTT(20)
  <2> QED
    BY <2>2, EmptyResult
<1>1. CASE UNCHANGED vars
  BY <1>1 DEF vars, Board, RowTells, StartTold, Told, Latest, Awaits, AtWork
<1>2. ASSUME NEW n \in Node, IsNext(n), running' = running \cup {n},
             UNCHANGED <<state, plan, ended, results>>, NEW k \in {0, 1},
             tries' = [tries EXCEPT ![n] = k],
             NEW s \in RowStates, s = IF k = 0 THEN "input_required" ELSE "working",
             board'.rows = [board.rows EXCEPT ![n] = s],
             NEW f, f.type \notin TellTypes,
             Says(Event("node_started", n, "none"), f)
      PROVE  Board'
  <2> DEFINE e == Event("node_started", n, "none")
  <2>1. state = "working" /\ n \in plan.nodes /\ n \notin running
        /\ results[n].state = "none" /\ ended[n].state = "none"
    BY <1>2, WaitingNode
  <2>2. e.node = n /\ e.type = "node_started" /\ e.type \in TellTypes /\ e.type # "node_finished"
    BY DEF Event, TellTypes
  <2>3. /\ Says(e, f)
        /\ plan' = plan /\ board'.rows = [board.rows EXCEPT ![e.node] = s]
        /\ e.node \in plan.nodes /\ f.type \notin TellTypes
    BY <1>2, <2>1, <2>2
  <2> HIDE DEF e
  <2>4. \A m \in plan.nodes :
           /\ board'.rows[m] = IF m = n THEN s ELSE board.rows[m]
           /\ RowTells(m)'
           /\ m \in running \/ m = n => StartTold(m)'
    <3>1. e.type = "node_finished" => s = e.state
      BY <2>2
    <3>2. \A m \in plan.nodes :
           /\ board'.rows[m] = IF m = e.node THEN s ELSE board.rows[m]
           /\ RowTells(m)'
           /\ m \in running /\ m # e.node => StartTold(m)'
           /\ m = e.node /\ e.type = "node_started" => StartTold(m)'
      BY <2>2, <2>3, <3>1, BoardTold, Zenon
    <3> QED
      BY <2>2, <3>2
  <2>5. \A m \in running' : /\ m # n => tries'[m] = tries[m]
                            /\ m = n => tries'[m] = k
    BY <1>0, <1>2 DEF RecordType
  <2>6. \A m \in plan.nodes : /\ Awaits(m)' => board'.rows[m] = "input_required"
                              /\ AtWork(m)' => board'.rows[m] \in {"working", "input_required"}
    BY <1>2, <2>4, <2>5 DEF Awaits, AtWork, Board
  <2> QED
    BY <1>2, <2>1, <2>4, <2>6 DEF Board
<1>3. ASSUME NEW e, NEW f, events' = events \/ Says(e, f),
             e.type \notin TellTypes, f.type \notin TellTypes, running' \subseteq running,
             \A n \in running : AtWork(n)' => AtWork(n) \/ Awaits(n),
             \A n \in running : Awaits(n)' => Awaits(n),
             \A n \in Node : "completed" \in {ended'[n].state, results'[n].state}
                               => "completed" \in {ended[n].state, results[n].state},
             state' = "completed" =>
               \A n \in plan.nodes : "completed" \in {ended[n].state, results[n].state},
             plan' = plan, board' = board
      PROVE  Board'
  <2>1. \A n \in plan.nodes :
           /\ RowTells(n)'
           /\ n \in running => StartTold(n)'
    BY <1>3, BoardKept
  <2>2. \A n \in plan.nodes : /\ Awaits(n)' => board'.rows[n] = "input_required"
                              /\ AtWork(n)' => board'.rows[n] \in {"working", "input_required"}
    <3>1. \A n \in plan.nodes : Awaits(n)' \/ AtWork(n)' => n \in running
      BY <1>3 DEF Awaits, AtWork
    <3> QED
      BY <1>3, <3>1 DEF Board
  <2> QED
    BY <1>0, <1>3, <2>1, <2>2 DEF Board
<1>4. ASSUME NEW n \in running, NEW r \in NodeResult, Returns(n, r), r.state \in RowStates,
             UNCHANGED <<state, plan, tries, results>>
      PROVE  Board'
  <2> DEFINE e == Event("node_finished", n, r.state)
             f == Event("retry", "none", "none")
  <2>1. e.node = n /\ e.type \in TellTypes /\ e.type # "node_started" /\ e.state = r.state /\ f.type \notin TellTypes
    BY DEF Event, TellTypes
  <2>2. /\ Says(e, f)
        /\ n \in plan.nodes
        /\ board'.rows = [board.rows EXCEPT ![n] = r.state]
    <3>1. Says(e, f) /\ board' = OnNodeEnd(board, n, r)
      BY <1>4 DEF Returns, Log, Says
    <3>2. n \in plan.nodes
      BY <1>0
    <3>3. OnNodeEnd(board, n, r).rows = [board.rows EXCEPT ![n] = r.state]
      BY <1>h, <3>2, Zenon
    <3> QED
      BY <3>1, <3>2, <3>3
  <2> HIDE DEF e, f
  <2>3. e.node \in plan.nodes /\ board'.rows = [board.rows EXCEPT ![e.node] = r.state]
    BY <2>1, <2>2
  <2>4. \A m \in plan.nodes :
           /\ board'.rows[m] = IF m = n THEN r.state ELSE board.rows[m]
           /\ RowTells(m)'
           /\ m \in running /\ m # n => StartTold(m)'
    <3>1. e.type = "node_finished" => r.state = e.state
      BY <2>1
    <3>2. plan' = plan
      BY <1>4
    <3>3. \A m \in plan.nodes :
           /\ board'.rows[m] = IF m = e.node THEN r.state ELSE board.rows[m]
           /\ RowTells(m)'
           /\ m \in running /\ m # e.node => StartTold(m)'
           /\ m = e.node /\ e.type = "node_started" => StartTold(m)'
      BY <1>4, <2>1, <2>2, <2>3, <3>1, <3>2, BoardTold, Zenon
    <3> QED
      BY <2>1, <3>3
  <2>5. \A m \in Node : ended'[m] = IF m = n THEN r ELSE ended[m]
    BY <1>0, <1>4 DEF Returns, RecordType
  <2>6. state = "working" /\ n \notin running' /\ running' \subseteq running
        /\ results[n].state # "completed"
    BY <1>4 DEF Flow, Returns
  <2>7. \A m \in plan.nodes : /\ Awaits(m)' => Awaits(m) /\ m # n
                              /\ AtWork(m)' => AtWork(m) /\ m # n
    BY <1>4, <2>6 DEF Awaits, AtWork
  <2> QED
    BY <1>0, <1>4, <2>4, <2>5, <2>6, <2>7 DEF Board
<1>5. ASSUME NEW n \in Node, Start(n) PROVE Board'
  <2>1. n \in plan.nodes /\ tries' = [tries EXCEPT ![n] = 1]
        /\ Says(Event("node_started", n, "none"), Event("retry", "none", "none"))
    BY <1>5, WaitingNode DEF Start, FirstAttempt, Log, Says
  <2>2. board'.rows = [board.rows EXCEPT ![n] = "working"]
    BY <1>5, <1>h, <2>1 DEF Start
  <2>3. /\ "working" \in RowStates /\ 1 \in {0, 1}
        /\ "working" = IF 1 = 0 THEN "input_required" ELSE "working"
    BY DEF RowStates
  <2>4. IsNext(n) /\ running' = running \cup {n} /\ UNCHANGED <<state, plan, ended, results>>
    BY <1>5 DEF Start
  <2> QED
    BY <1>2, <1>e, <2>1, <2>2, <2>3, <2>4, Zenon
<1>6. ASSUME NEW n \in Node, Ask(n) PROVE Board'
  <2>1. n \in plan.nodes
    BY <1>6, WaitingNode DEF Ask
  <2>2. board'.rows = [board.rows EXCEPT ![n] = "input_required"]
    BY <1>6, <1>h, <2>1 DEF Ask
  <2>3. Event("approval_requested", n, "none").type \notin TellTypes
    BY DEF Event, TellTypes
  <2>4. Says(Event("node_started", n, "none"), Event("approval_requested", n, "none"))
    BY <1>6 DEF Ask, Log, Says
  <2>5. "input_required" \in RowStates
    BY DEF RowStates, EndStates
  <2> QED
    BY <1>2, <1>6, <2>2, <2>3, <2>4, <2>5 DEF Ask
<1>7. ASSUME NEW n \in Node, Approve(n) PROVE Board'
  <2>1. UNCHANGED <<state, plan, running, ended, results, events, board>>
        /\ n \in running /\ tries[n] = 0 /\ tries' = [tries EXCEPT ![n] = 1]
    BY <1>7 DEF Approve, Awaits, FirstAttempt
  <2>2. \A m \in running : /\ AtWork(m)' => AtWork(m) \/ Awaits(m)
                           /\ Awaits(m)' => Awaits(m)
    BY <1>0, <2>1 DEF AtWork, Awaits, RecordType
  <2>3. state' # "completed"
    BY <2>1 DEF Flow
  <2> QED
    BY <1>3, <1>e, <2>1, <2>2, <2>3
<1>8. ASSUME NEW n \in Node, Retry(n) PROVE Board'
  <2> DEFINE e == Event("retry", n, "none")
  <2>1. /\ n \in running /\ tries[n] > 0 /\ tries' = [tries EXCEPT ![n] = tries[n] + 1]
        /\ UNCHANGED <<state, plan, running, ended, results>>
        /\ events' = events \o <<e>>
    BY <1>8 DEF Retry, AtWork, Log
  <2>2. board'.rows = [board.rows EXCEPT ![n] = "working"]
    BY <1>0, <1>8, <1>h, <2>1 DEF Retry
  <2>3. e.type \notin TellTypes
    BY DEF Event, TellTypes
  <2> HIDE DEF e
  <2>4. \A m \in Node : Told(m)' = Told(m) /\ \A i \in Told(m) : events'[i] = events[i]
    <3>1. Says(e, e)
      BY <2>1 DEF Says
    <3>2. \A i \in DOMAIN events : events'[i] = events[i]
      BY <3>1, LogNext, Zenon
    <3>3. \A m \in Node : e.node # m \/ e.type \notin TellTypes => Told(m)' = Told(m)
      BY <2>3, <3>1, ToldNext, Zenon
    <3> QED
      BY <2>3, <3>2, <3>3 DEF Told
  <2>5. \A m \in plan.nodes : board'.rows[m] = IF m = n THEN "working" ELSE board.rows[m]
    BY <2>2 DEF RecordType, Boards
  <2>6. \A m \in plan.nodes : /\ Awaits(m)' => Awaits(m) /\ m # n
                              /\ AtWork(m)' => AtWork(m)
    BY <1>0, <2>1 DEF AtWork, Awaits, RecordType
  <2>7. state # "completed" /\ ended[n].state = "none" /\ results[n].state = "none"
    BY <2>1 DEF Flow
  <2>8. \A m \in plan.nodes : RowTells(m)' /\ (m \in running => StartTold(m)')
    <3>1. StartTold(n)
      BY <1>0, <2>1 DEF Board
    <3>2. RowTells(n)' /\ StartTold(n)'
      BY <2>4, <3>1 DEF RowTells, StartTold, Latest
    <3>3. ASSUME NEW m \in plan.nodes, m # n PROVE RowTells(m)' /\ (m \in running => StartTold(m)')
      BY <1>0, <2>4, <2>5, <3>3 DEF Board, RowTells, StartTold, Latest
    <3> QED
      BY <3>2, <3>3
  <2> QED
    BY <1>0, <2>1, <2>5, <2>6, <2>7, <2>8 DEF Board
<1>9. ASSUME NEW n \in Node, Decline(n) PROVE Board'
  <2>1. PICK r \in NodeResult : r = Bare("rejected") /\ r.state = "rejected"
    BY BareResult DEF EndStates
  <2>2. "rejected" \in RowStates
    BY DEF RowStates, EndStates
  <2> QED
    BY <1>4, <1>9, <2>1, <2>2 DEF Decline, Awaits
<1>10. ASSUME NEW n \in Node, NEW s \in EndStates
       PROVE  Result(n, s) \in NodeResult /\ Result(n, s).state = s /\ s \in RowStates
  BY <1>10 DEF Result, NodeResult, RecordType, RowStates
<1>11. ASSUME NEW n \in Node, NEW c \in Content, Complete(n, c) PROVE Board'
  <2>1. "completed" \in EndStates
    BY DEF EndStates
  <2> QED
    BY <1>4, <1>10, <1>11, <2>1 DEF Complete, AtWork
<1>12. ASSUME NEW n \in Node, NEW s \in {"failed", "input_required"}, EndWithout(n, s) PROVE Board'
  <2>1. s \in EndStates
    BY DEF EndStates
  <2> QED
    BY <1>4, <1>10, <1>12, <2>1 DEF EndWithout, AtWork
<1>13. ASSUME NEW n \in Node, Raise(n) PROVE Board'
  <2>1. /\ UNCHANGED <<state, plan, tries, results, events, board>> /\ running' \subseteq running
        /\ ended' = [ended EXCEPT ![n] = Bare("failed")] /\ state # "completed"
        /\ Bare("failed").state = "failed"
    BY <1>13, BareResult DEF Raise, Flow, EndStates
  <2>2. \A m \in Node : ended'[m].state = "completed" => ended[m].state = "completed"
    BY <2>1 DEF RecordType
  <2> QED
    BY <1>3, <1>e, <2>1, <2>2 DEF AtWork, Awaits
<1>14. ASSUME BatchIsBack
       PROVE  /\ running = {} /\ state = "working"
              /\ \A n \in Node : ended'[n].state = "none" /\ Collected[n].state \in {ended[n].state, results[n].state}
  BY <1>14, CollectedType, EmptyResult DEF BatchIsBack
<1>15. CASE CollectAndStop
  <2>1. UNCHANGED <<plan, running, board>> /\ results' = Collected /\ BatchIsBack /\ state' # "completed"
    BY <1>15 DEF CollectAndStop
  <2>2. Says(Event("safe_stop", "none", "none"), Event("run_finished", "none", state'))
    BY <1>15 DEF CollectAndStop, Log, Says
  <2>3. /\ Event("safe_stop", "none", "none").type \notin TellTypes
        /\ Event("run_finished", "none", state').type \notin TellTypes
    BY DEF Event, TellTypes
  <2> QED
    BY <1>3, <1>14, <2>1, <2>2, <2>3
<1>16. CASE CollectAndRepair
  <2>1. /\ UNCHANGED <<state, plan, running, board>> /\ BatchIsBack
        /\ \A n \in Node : results'[n] = IF n \in Discarded THEN NoResult ELSE Collected[n]
    BY <1>16, CollectedType DEF CollectAndRepair
  <2>2. Says(Event("repair_started", VERIFY, "none"), Event("repair_started", VERIFY, "none"))
    BY <1>16 DEF CollectAndRepair, Log, Says
  <2>3. Event("repair_started", VERIFY, "none").type \notin TellTypes
    BY DEF Event, TellTypes
  <2> QED
    BY <1>3, <1>14, <2>1, <2>2, <2>3, EmptyResult
<1>17. ASSUME NEW seam \in BOOLEAN, CollectAndContinue(seam) PROVE Board'
  <2>1. UNCHANGED <<state, running>> /\ results' = Collected /\ BatchIsBack
    BY <1>17 DEF CollectAndContinue
  <2>2. CASE ~seam
    BY <1>3, <1>14, <1>17, <1>e, <2>1, <2>2 DEF CollectAndContinue
  <2>3. CASE seam
    <3> DEFINE e == Event("plan_revised", "none", "none")
    <3>1. /\ REFACTOR \notin plan.nodes /\ plan' = Revise(plan) /\ board' = SetPlan(board, plan')
          /\ events' = events \o <<e>>
      BY <1>17, <2>3 DEF CollectAndContinue, NeedsSeam, Log
    <3>2. plan'.nodes = plan.nodes \cup {REFACTOR} /\ plan'.version \in Nat
      BY <3>1, RevisedPlan, WiredPlan DEF RecordType
    <3>b. board \in Boards(plan.nodes)
      BY DEF RecordType
    <3>3. \A n \in plan'.nodes :
             board'.rows[n] = IF n \in plan.nodes THEN board.rows[n] ELSE "submitted"
      BY <3>1, <3>2, <3>b, SetPlanType
    <3>4. \A n \in Node : Told(n)' = Told(n) /\ \A i \in Told(n) : events'[i] = events[i]
      <4>1. e.type \notin TellTypes
        BY DEF Event, TellTypes
      <4> HIDE DEF e
      <4>2. Says(e, e)
        BY <3>1 DEF Says
      <4>3. \A i \in DOMAIN events : events'[i] = events[i]
        BY <4>2, LogNext, Zenon
      <4>4. \A m \in Node : e.node # m \/ e.type \notin TellTypes => Told(m)' = Told(m)
        BY <4>1, <4>2, ToldNext, Zenon
      <4> QED
        BY <4>1, <4>3, <4>4 DEF Told
    <3>5. Told(REFACTOR) = {}
      <4>1. \A i \in DOMAIN events : events[i].node # REFACTOR
        <5>1. \A i \in DOMAIN events : events[i] \in Events(plan.nodes)
          BY DEF RecordType
        <5> QED
          BY <3>1, <5>1, Stages DEF Events
      <4> QED
        BY <4>1 DEF Told
    <3>6. ended[REFACTOR].state = "none" /\ results[REFACTOR].state = "none"
      BY <3>1, Stages DEF Flow, Active
    <3> QED
      BY <1>0, <1>14, <2>1, <3>2, <3>3, <3>4, <3>5, <3>6, Stages DEF Board, RowTells, StartTold, Latest, Awaits, AtWork
  <2> QED
    BY <2>2, <2>3
<1>18. CASE Finish
  <2>1. UNCHANGED <<plan, running, ended, tries, results, board>> /\ running = {}
        /\ Says(Event("run_finished", "none", "completed"), Event("run_finished", "none", "completed"))
    BY <1>18 DEF Finish, BetweenBatches, Log, Says
  <2>2. \A n \in plan.nodes : results[n].state = "completed"
    BY <1>18, NothingIsLeft DEF Finish, Done
  <2>3. Event("run_finished", "none", "completed").type \notin TellTypes
    BY DEF Event, TellTypes
  <2> QED
    BY <1>3, <2>1, <2>2, <2>3
<1>19. CASE Stop
  <2>1. UNCHANGED <<plan, running, ended, tries, results, board>> /\ running = {}
        /\ state' # "completed"
        /\ Says(Event("safe_stop", "none", "none"), Event("run_finished", "none", "failed"))
    BY <1>19 DEF Stop, BetweenBatches, Log, Says
  <2>2. /\ Event("safe_stop", "none", "none").type \notin TellTypes
        /\ Event("run_finished", "none", "failed").type \notin TellTypes
    BY DEF Event, TellTypes
  <2> QED
    BY <1>3, <2>1, <2>2
<1> QED
  BY <1>1, <1>5, <1>6, <1>7, <1>8, <1>9, <1>11, <1>12, <1>13, <1>15, <1>16, <1>17, <1>18, <1>19 DEF Next

\* The board is honest, whatever is retried, refused, raised, repaired or
\* revised (the hooks, set_plan).
THEOREM BoardIsHonestCorrect == Spec => []BoardIsHonest
<1>1. Init /\ RecordType => Board
  <2> SUFFICES ASSUME Init, RecordType PROVE Board
    OBVIOUS
  <2>1. \A n \in Node : Told(n) = {}
    BY DEF Init, Told, Event
  <2>2. \A n \in plan.nodes : n \in Node /\ board.rows[n] = "submitted"
    <3>1. NewBoard \in Boards({}) /\ plan.version \in Nat
      BY WiredPlan DEF NewBoard, Boards, RecordType
    <3> QED
      BY <3>1, SetPlanType, WiredPlan DEF Init, RecordType
  <2> QED
    BY <2>1, <2>2, EmptyResult DEF Init, Board, RowTells, Awaits, AtWork
<1>2. RecordType /\ Board => BoardIsHonest
  <2> SUFFICES ASSUME RecordType, Board PROVE BoardIsHonest
    OBVIOUS
  <2>1. DOMAIN board.rows = plan.nodes
    BY DEF RecordType, Boards
  <2> QED
    BY <2>1 DEF Board, RowTells, BoardIsHonest, CountCompleted, Latest
<1> QED
  BY <1>1, <1>2, RecordTypeCorrect, FlowCorrect, BoardNext, PTL DEF Spec

-----------------------------------------------------------------------------
(***************************************************************************)
(* The recovery intervals: the walk over a log keeps, for every prefix,    *)
(* the outages that are open and the intervals of those that have ended.   *)
(***************************************************************************)

\* A set of numbers has a least one.
LEMMA LeastOne ==
  ASSUME NEW S, S \subseteq Nat, S # {}
  PROVE  \E m \in S : \A k \in S : m <= k
<1>1. PICK m \in S : \A k \in S : ~ (<<k, m>> \in OpToRel(<, Nat))
  BY NatLessThanWellFounded, WFMin
<1>2. \A k \in S : ~ (k < m)
  BY <1>1 DEF OpToRel
<1> QED
  BY <1>2

\* The failures with a success between them and every earlier one.
First(log, n) ==
  {p \in Failures(log, n) :
     \A k \in Failures(log, n) : k < p => \E l \in Successes(log, n) : k < l /\ l < p}

\* Those that no success has followed by i.
Open(log, n, i) == {p \in First(log, n) : p <= i /\ \A k \in Successes(log, n) : k < p \/ i < k}

Ongoing(log, i) == UNION {{[node |-> n, at |-> p] : p \in Open(log, n, i)} : n \in Node}

Over(log, i) ==
  UNION {{[node |-> n, from |-> o[1], to |-> o[2]] : o \in {q \in Outages(log, n) : q[2] <= i}} :
         n \in Node}

After(log, i) == [pending |-> Ongoing(log, i), intervals |-> Over(log, i)]

\* Failures and successes are places in the log, and different ones.
LEMMA Marked ==
  ASSUME NEW log \in Seq(Events(Node)), NEW n \in Node
  PROVE  /\ Failures(log, n) \subseteq DOMAIN log /\ Successes(log, n) \subseteq DOMAIN log
         /\ DOMAIN log \subseteq Nat \ {0}
         /\ Failures(log, n) \cap Successes(log, n) = {}
         /\ \A i \in DOMAIN log :
              /\ i \in Failures(log, n) <=> log[i].node = n /\ IsFailureMarker(log[i])
              /\ i \in Successes(log, n) <=> log[i].node = n /\ IsSuccessMarker(log[i])
<1>1. DOMAIN log \subseteq Nat \ {0}
  OBVIOUS
<1>2. \A e : ~(IsFailureMarker(e) /\ IsSuccessMarker(e))
  BY DEF IsFailureMarker, IsSuccessMarker
<1> QED
  BY <1>1, <1>2 DEF Failures, Successes

\* What an outage is.
LEMMA InOutages ==
  ASSUME NEW log, NEW n, NEW o
  PROVE  o \in Outages(log, n) <=>
           \E p \in Failures(log, n), q \in Successes(log, n) :
             /\ o = <<p, q>> /\ p < q
             /\ p \in First(log, n)
             /\ \A k \in Successes(log, n) : k < p \/ k >= q
BY DEF Outages, First

\* What an outage under way is.
LEMMA InOngoing ==
  ASSUME NEW log, NEW i, NEW x
  PROVE  x \in Ongoing(log, i) <=> \E n \in Node : \E p \in Open(log, n, i) : x = [node |-> n, at |-> p]
BY DEF Ongoing

\* What an outage that has ended is.
LEMMA InOver ==
  ASSUME NEW log \in Seq(Events(Node)), NEW i \in Nat, NEW x
  PROVE  x \in Over(log, i) <=>
           \E n \in Node : \E q \in Successes(log, n) : \E p \in Open(log, n, q - 1) :
             q <= i /\ x = [node |-> n, from |-> p, to |-> q]
<1>1. x \in Over(log, i) <=>
        \E n \in Node : \E o \in Outages(log, n) :
          o[2] <= i /\ x = [node |-> n, from |-> o[1], to |-> o[2]]
  BY DEF Over
<1>2. ASSUME NEW n \in Node, NEW o \in Outages(log, n), o[2] <= i,
             x = [node |-> n, from |-> o[1], to |-> o[2]]
      PROVE  \E q \in Successes(log, n) : \E p \in Open(log, n, q - 1) :
               q <= i /\ x = [node |-> n, from |-> p, to |-> q]
  <2>1. PICK p \in Failures(log, n), q \in Successes(log, n) :
          /\ o = <<p, q>> /\ p < q /\ p \in First(log, n)
          /\ \A k \in Successes(log, n) : k < p \/ k >= q
    BY InOutages
  <2>2. p \in Nat /\ q \in Nat /\ Successes(log, n) \subseteq Nat
    BY Marked
  <2>3. p \in Open(log, n, q - 1)
    BY <2>1, <2>2 DEF Open
  <2>4. o[1] = p /\ o[2] = q
    BY <2>1
  <2> QED
    BY <1>2, <2>3, <2>4
<1>3. ASSUME NEW n \in Node, NEW q \in Successes(log, n), NEW p \in Open(log, n, q - 1), q <= i,
             x = [node |-> n, from |-> p, to |-> q]
      PROVE  \E o \in Outages(log, n) : o[2] <= i /\ x = [node |-> n, from |-> o[1], to |-> o[2]]
  <2>1. p \in First(log, n) /\ p \in Failures(log, n) /\ p <= q - 1
        /\ \A k \in Successes(log, n) : k < p \/ q - 1 < k
    BY DEF Open, First
  <2>2. p \in Nat /\ q \in Nat /\ Successes(log, n) \subseteq Nat
    BY <2>1, Marked
  <2>3. p < q /\ \A k \in Successes(log, n) : k < p \/ k >= q
    BY <2>1, <2>2
  <2>4. <<p, q>> \in Outages(log, n)
    BY <2>1, <2>3, InOutages
  <2>5. <<p, q>>[1] = p /\ <<p, q>>[2] = q
    OBVIOUS
  <2> QED
    BY <1>3, <2>4, <2>5
<1> QED
  BY <1>1, <1>2, <1>3

\* What one more event does to the open outages of a node.
LEMMA OpenNext ==
  ASSUME NEW log \in Seq(Events(Node)), NEW n \in Node, NEW i \in DOMAIN log
  PROVE  /\ i \notin Failures(log, n) /\ i \notin Successes(log, n) => Open(log, n, i) = Open(log, n, i - 1)
         /\ i \in Failures(log, n) =>
              Open(log, n, i) = IF Open(log, n, i - 1) = {} THEN {i} ELSE Open(log, n, i - 1)
         /\ i \in Successes(log, n) => Open(log, n, i) = {}
<1> DEFINE F == Failures(log, n)
           S == Successes(log, n)
<1>1. F \subseteq Nat /\ S \subseteq Nat /\ F \cap S = {} /\ i \in Nat /\ i > 0
  BY Marked
<1>2. \A j : \A p : p \in Open(log, n, j) <=>
        /\ p \in F /\ p <= j
        /\ \A k \in F : k < p => \E l \in S : k < l /\ l < p
        /\ \A k \in S : k < p \/ j < k
  BY DEF Open, First
<1>3. ASSUME i \notin F, i \notin S PROVE Open(log, n, i) = Open(log, n, i - 1)
  <2>1. \A k \in F : k <= i <=> k <= i - 1
    BY <1>1, <1>3
  <2>2. \A k \in S : i < k <=> i - 1 < k
    BY <1>1, <1>3
  <2>3. \A p : p \in Open(log, n, i) <=> p \in Open(log, n, i - 1)
    BY <1>2, <2>1, <2>2
  <2> QED
    BY <2>3
<1>4. ASSUME i \in S PROVE Open(log, n, i) = {}
  BY <1>1, <1>2, <1>4
<1>5. ASSUME i \in F
      PROVE  Open(log, n, i) = IF Open(log, n, i - 1) = {} THEN {i} ELSE Open(log, n, i - 1)
  <2>1. \A p : p \in Open(log, n, i) /\ p # i <=> p \in Open(log, n, i - 1)
    BY <1>1, <1>2, <1>5
  <2>2. i \in Open(log, n, i) => Open(log, n, i - 1) = {}
    <3> SUFFICES ASSUME i \in Open(log, n, i), NEW p \in Open(log, n, i - 1) PROVE FALSE
      OBVIOUS
    <3>1. p \in F /\ p < i /\ p \in Nat
      BY <1>1, <1>2
    <3>2. PICK l \in S : p < l /\ l < i
      BY <1>2, <3>1
    <3> QED
      BY <1>1, <1>2, <3>1, <3>2
  <2>3. i \notin Open(log, n, i) => Open(log, n, i - 1) # {}
    <3> SUFFICES ASSUME i \notin Open(log, n, i) PROVE Open(log, n, i - 1) # {}
      OBVIOUS
    <3> DEFINE Since == {k \in F : k < i /\ \A l \in S : ~(k < l /\ l < i)}
    <3>1. \A k \in S : k < i \/ i < k
      BY <1>1, <1>5
    <3>2. Since # {}
      BY <1>1, <1>2, <1>5, <3>1
    <3>3. Since \subseteq Nat
      BY <1>1
    <3>4. PICK k \in Since : \A j \in Since : k <= j
      <4> HIDE DEF Since
      <4> QED
        BY <3>2, <3>3, LeastOne
    <3>5. \A j \in F : j < k => \E l \in S : j < l /\ l < k
      <4> SUFFICES ASSUME NEW j \in F, j < k PROVE \E l \in S : j < l /\ l < k
        OBVIOUS
      <4>1. j \in Nat /\ k \in Nat /\ k < i /\ k \in F
        BY <1>1
      <4>2. j \notin Since
        BY <3>4, <4>1
      <4>3. PICK l \in S : j < l /\ l < i
        BY <1>1, <4>1, <4>2
      <4>4. ~(k < l) /\ l # k /\ l \in Nat
        BY <1>1, <4>1, <4>3
      <4> QED
        BY <4>1, <4>3, <4>4
    <3>6. \A l \in S : l < k \/ i - 1 < l
      BY <1>1
    <3>7. k \in Open(log, n, i - 1)
      BY <1>1, <1>2, <3>5, <3>6
    <3> QED
      BY <3>7
  <2>4. CASE Open(log, n, i - 1) = {}
    <3>1. \A p : p \in Open(log, n, i) <=> p = i
      BY <2>1, <2>3, <2>4
    <3> QED
      BY <2>4, <3>1
  <2>5. CASE Open(log, n, i - 1) # {}
    <3>1. \A p : p \in Open(log, n, i) <=> p \in Open(log, n, i - 1)
      BY <2>1, <2>2, <2>5
    <3> QED
      BY <2>5, <3>1
  <2> QED
    BY <2>4, <2>5
<1> QED
  BY <1>3, <1>4, <1>5

\* One turn of the walk.
LEMMA AfterNext ==
  ASSUME NEW log \in Seq(Events(Node)), NEW i \in DOMAIN log
  PROVE  After(log, i) = Walk(After(log, i - 1), i, log[i])
<1> DEFINE e == log[i]
           acc == After(log, i - 1)
<1>0. /\ acc.pending = Ongoing(log, i - 1) /\ acc.intervals = Over(log, i - 1)
      /\ After(log, i).pending = Ongoing(log, i) /\ After(log, i).intervals = Over(log, i)
      /\ acc = [pending |-> acc.pending, intervals |-> acc.intervals]
      /\ i \in Nat /\ i - 1 \in Nat
  BY Marked DEF After
<1>1. e.node \in Node \cup {"none"}
  <2>1. e \in Events(Node)
    OBVIOUS
  <2> QED
    BY <2>1 DEF Events
<1>2. ASSUME NEW n \in Node
      PROVE  /\ i \in Failures(log, n) <=> e.node = n /\ IsFailureMarker(e)
             /\ i \in Successes(log, n) <=> e.node = n /\ IsSuccessMarker(e)
             /\ Successes(log, n) \subseteq Nat /\ ~(IsFailureMarker(e) /\ IsSuccessMarker(e))
  BY Marked DEF IsFailureMarker, IsSuccessMarker
<1> HIDE DEF e, acc
<1>3. ASSUME \A n \in Node : i \notin Successes(log, n)
      PROVE  Over(log, i) = Over(log, i - 1)
  <2>1. \A n \in Node : \A q \in Successes(log, n) : q <= i <=> q <= i - 1
    BY <1>0, <1>2, <1>3
  <2>2. ASSUME NEW x, NEW n \in Node, NEW q \in Successes(log, n), NEW p \in Open(log, n, q - 1),
               x = [node |-> n, from |-> p, to |-> q]
        PROVE  /\ q <= i => x \in Over(log, i - 1)
               /\ q <= i - 1 => x \in Over(log, i)
    BY <1>0, <2>1, <2>2, InOver
  <2>3. ASSUME NEW x PROVE x \in Over(log, i) <=> x \in Over(log, i - 1)
    <3>1. x \in Over(log, i) => x \in Over(log, i - 1)
      BY <1>0, <2>2, InOver
    <3>2. x \in Over(log, i - 1) => x \in Over(log, i)
      BY <1>0, <2>2, InOver
    <3> QED
      BY <3>1, <3>2
  <2> QED
    BY <2>3
<1>4. CASE e.node \notin Node \/ (~IsFailureMarker(e) /\ ~IsSuccessMarker(e))
  <2>1. \A n \in Node : i \notin Failures(log, n) /\ i \notin Successes(log, n)
    BY <1>2, <1>4
  <2>2. \A n \in Node : Open(log, n, i) = Open(log, n, i - 1)
    BY <2>1, OpenNext
  <2>3. Ongoing(log, i) = Ongoing(log, i - 1)
    <3>1. \A x : x \in Ongoing(log, i) <=> x \in Ongoing(log, i - 1)
      BY <2>2, InOngoing
    <3> QED
      BY <3>1
  <2>4. Walk(acc, i, e) = acc
    BY <1>1, <1>4 DEF Walk
  <2> QED
    BY <1>0, <1>3, <2>1, <2>3, <2>4 DEF After, acc, e
<1>5. CASE e.node \in Node /\ IsFailureMarker(e)
  <2>1. \A n \in Node : /\ i \notin Successes(log, n)
                        /\ i \in Failures(log, n) <=> e.node = n
    BY <1>2, <1>5
  <2>2. \A n \in Node : n # e.node => Open(log, n, i) = Open(log, n, i - 1)
    BY <2>1, OpenNext
  <2>3. Open(log, e.node, i) = IF Open(log, e.node, i - 1) = {} THEN {i} ELSE Open(log, e.node, i - 1)
    BY <1>5, <2>1, OpenNext
  <2>4. (\E p \in acc.pending : p.node = e.node) <=> Open(log, e.node, i - 1) # {}
    <3>1. ASSUME NEW p \in acc.pending, p.node = e.node PROVE Open(log, e.node, i - 1) # {}
      BY <1>0, <3>1, InOngoing
    <3>2. ASSUME NEW q \in Open(log, e.node, i - 1) PROVE \E p \in acc.pending : p.node = e.node
      <4>1. [node |-> e.node, at |-> q] \in acc.pending
        BY <1>0, <1>5, InOngoing
      <4> QED
        BY <4>1
    <3> QED
      BY <3>1, <3>2
  <2>5. Ongoing(log, i) = Pending(acc.pending, e.node, i)
    <3>1. CASE Open(log, e.node, i - 1) # {}
      <4>1. \A n \in Node : Open(log, n, i) = Open(log, n, i - 1)
        BY <2>2, <2>3, <3>1
      <4>2. \A x : x \in Ongoing(log, i) <=> x \in Ongoing(log, i - 1)
        BY <4>1, InOngoing
      <4>3. Pending(acc.pending, e.node, i) = acc.pending
        BY <2>4, <3>1 DEF Pending
      <4> QED
        BY <1>0, <4>2, <4>3
    <3>2. CASE Open(log, e.node, i - 1) = {}
      <4>1. Pending(acc.pending, e.node, i) = Ongoing(log, i - 1) \cup {[node |-> e.node, at |-> i]}
        BY <1>0, <2>4, <3>2 DEF Pending
      <4>2. \A x : x \in Ongoing(log, i) <=>
              x \in Ongoing(log, i - 1) \/ x = [node |-> e.node, at |-> i]
        <5> TAKE x
        <5>1. ASSUME x \in Ongoing(log, i)
              PROVE  x \in Ongoing(log, i - 1) \/ x = [node |-> e.node, at |-> i]
          <6>n. PICK n \in Node : \E p \in Open(log, n, i) : x = [node |-> n, at |-> p]
            BY <5>1, InOngoing
          <6>1. PICK p \in Open(log, n, i) : x = [node |-> n, at |-> p]
            BY <6>n
          <6> QED
            BY <2>2, <2>3, <3>2, <6>1, InOngoing
        <5>2. ASSUME x \in Ongoing(log, i - 1) PROVE x \in Ongoing(log, i)
          <6>n. PICK n \in Node : \E p \in Open(log, n, i - 1) : x = [node |-> n, at |-> p]
            BY <5>2, InOngoing
          <6>1. PICK p \in Open(log, n, i - 1) : x = [node |-> n, at |-> p]
            BY <6>n
          <6> QED
            BY <2>2, <3>2, <6>1, InOngoing
        <5>3. ASSUME x = [node |-> e.node, at |-> i] PROVE x \in Ongoing(log, i)
          BY <1>5, <2>3, <3>2, <5>3, InOngoing
        <5> QED
          BY <5>1, <5>2, <5>3
      <4> QED
        BY <4>1, <4>2
    <3> QED
      BY <3>1, <3>2
  <2>6. Walk(acc, i, e) = [acc EXCEPT !.pending = Pending(@, e.node, i)]
    BY <1>5, Stages DEF Walk
  <2>7. Over(log, i) = Over(log, i - 1)
    BY <1>3, <2>1
  <2> QED
    BY <1>0, <2>5, <2>6, <2>7 DEF After, acc, e
<1>6. CASE e.node \in Node /\ IsSuccessMarker(e)
  <2>1. \A n \in Node : /\ i \notin Failures(log, n)
                        /\ i \in Successes(log, n) <=> e.node = n
    BY <1>2, <1>6
  <2>2. \A n \in Node : n # e.node => Open(log, n, i) = Open(log, n, i - 1)
    BY <2>1, OpenNext
  <2>3. Open(log, e.node, i) = {}
    BY <1>6, <2>1, OpenNext
  <2>4. Ongoing(log, i) = {p \in acc.pending : p.node # e.node}
    <3>1. ASSUME NEW x, x \in Ongoing(log, i) PROVE x \in acc.pending /\ x.node # e.node
      <4>n. PICK n \in Node : \E p \in Open(log, n, i) : x = [node |-> n, at |-> p]
        BY <3>1, InOngoing
      <4>1. PICK p \in Open(log, n, i) : x = [node |-> n, at |-> p]
        BY <4>n
      <4>2. n # e.node
        BY <2>3, <4>1
      <4> QED
        BY <1>0, <2>2, <4>1, <4>2, InOngoing
    <3>2. ASSUME NEW x, x \in acc.pending, x.node # e.node PROVE x \in Ongoing(log, i)
      <4>n. PICK n \in Node : \E p \in Open(log, n, i - 1) : x = [node |-> n, at |-> p]
        BY <1>0, <3>2, InOngoing
      <4>1. PICK p \in Open(log, n, i - 1) : x = [node |-> n, at |-> p]
        BY <4>n
      <4> QED
        BY <2>2, <3>2, <4>1, InOngoing
    <3> QED
      BY <3>1, <3>2
  <2> DEFINE New == {[node |-> e.node, from |-> p.at, to |-> i] : p \in {q \in acc.pending : q.node = e.node}}
  <2>5. \A x : x \in New <=> \E p \in Open(log, e.node, i - 1) : x = [node |-> e.node, from |-> p, to |-> i]
    <3>1. ASSUME NEW x \in New PROVE \E p \in Open(log, e.node, i - 1) : x = [node |-> e.node, from |-> p, to |-> i]
      <4>1. PICK q \in acc.pending : q.node = e.node /\ x = [node |-> e.node, from |-> q.at, to |-> i]
        BY <3>1
      <4>n. PICK n \in Node : \E p \in Open(log, n, i - 1) : q = [node |-> n, at |-> p]
        BY <1>0, <4>1, InOngoing
      <4>2. PICK p \in Open(log, n, i - 1) : q = [node |-> n, at |-> p]
        BY <4>n
      <4>3. n = e.node /\ q.at = p
        BY <4>1, <4>2
      <4> QED
        BY <4>1, <4>2, <4>3
    <3>2. ASSUME NEW x, NEW p \in Open(log, e.node, i - 1), x = [node |-> e.node, from |-> p, to |-> i]
          PROVE  x \in New
      <4>1. [node |-> e.node, at |-> p] \in acc.pending
        BY <1>0, <1>6, InOngoing
      <4> QED
        BY <3>2, <4>1
    <3> QED
      BY <3>1, <3>2
  <2> HIDE DEF New
  <2>6. Over(log, i) = acc.intervals \cup New
    <3>1. \A n \in Node : \A q \in Successes(log, n) :
            q <= i <=> q <= i - 1 \/ (q = i /\ n = e.node)
      BY <1>0, <1>2, <2>1
    <3>2. i \in Successes(log, e.node)
      BY <1>6, <2>1
    <3>3. ASSUME NEW x \in Over(log, i) PROVE x \in acc.intervals \/ x \in New
      <4>1. PICK n \in Node : \E q \in Successes(log, n) : \E p \in Open(log, n, q - 1) :
              q <= i /\ x = [node |-> n, from |-> p, to |-> q]
        BY <1>0, InOver
      <4>q. PICK q \in Successes(log, n) : \E p \in Open(log, n, q - 1) :
              q <= i /\ x = [node |-> n, from |-> p, to |-> q]
        BY <4>1
      <4>2. PICK p \in Open(log, n, q - 1) :
              q <= i /\ x = [node |-> n, from |-> p, to |-> q]
        BY <4>q
      <4>3. CASE q <= i - 1
        BY <1>0, <4>2, <4>3, InOver
      <4>4. CASE q = i /\ n = e.node
        BY <2>5, <4>2, <4>4
      <4> QED
        BY <3>1, <4>2, <4>3, <4>4
    <3>4. ASSUME NEW x \in acc.intervals PROVE x \in Over(log, i)
      <4>1. PICK n \in Node : \E q \in Successes(log, n) : \E p \in Open(log, n, q - 1) :
              q <= i - 1 /\ x = [node |-> n, from |-> p, to |-> q]
        BY <1>0, InOver
      <4>q. PICK q \in Successes(log, n) : \E p \in Open(log, n, q - 1) :
              q <= i - 1 /\ x = [node |-> n, from |-> p, to |-> q]
        BY <4>1
      <4>2. PICK p \in Open(log, n, q - 1) :
              q <= i - 1 /\ x = [node |-> n, from |-> p, to |-> q]
        BY <4>q
      <4>3. q <= i
        BY <3>1, <4>2
      <4> QED
        BY <1>0, <4>2, <4>3, InOver
    <3>5. ASSUME NEW x \in New PROVE x \in Over(log, i)
      BY <1>0, <1>6, <2>5, <3>2, InOver
    <3> QED
      BY <3>3, <3>4, <3>5
  <2>7. Walk(acc, i, e) = [pending |-> {p \in acc.pending : p.node # e.node}, intervals |-> acc.intervals \cup New]
    BY <1>2, <1>6, Stages DEF Walk, New
  <2> QED
    BY <2>4, <2>6, <2>7 DEF After, acc, e
<1> QED
  BY <1>4, <1>5, <1>6

\* A recovery interval is a whole outage, in every log of the nodes' events.
LEMMA WalkIsWhole ==
  ASSUME NEW log \in Seq(Events(Node))
  PROVE  RecoveryIntervals(log) =
           UNION {{[node |-> n, from |-> o[1], to |-> o[2]] : o \in Outages(log, n)} : n \in Node}
<1> DEFINE N == Len(log)
           w == Walked(log)
           Rule(g, i) == IF i = 0 THEN [pending |-> {}, intervals |-> {}] ELSE Walk(g[i - 1], i, log[i])
           after == [i \in 0 .. N |-> After(log, i)]
<1>1. N \in Nat /\ DOMAIN log = 1 .. N
  OBVIOUS
<1>2. w = CHOOSE g : g = [i \in 0 .. N |-> Rule(g, i)]
  BY Zenon DEF Walked
<1>3. \A i \in 1 .. N : After(log, i) = Walk(After(log, i - 1), i, log[i])
  BY <1>1, AfterNext
<1>4. After(log, 0) = [pending |-> {}, intervals |-> {}]
  <2>1. Ongoing(log, 0) = {}
    <3> SUFFICES ASSUME NEW x \in Ongoing(log, 0) PROVE FALSE
      OBVIOUS
    <3>n. PICK n \in Node : \E p \in Open(log, n, 0) : x = [node |-> n, at |-> p]
      BY InOngoing
    <3>1. PICK p \in Open(log, n, 0) : x = [node |-> n, at |-> p]
      BY <3>n
    <3> QED
      BY <3>1, Marked DEF Open, First
  <2>2. Over(log, 0) = {}
    <3> SUFFICES ASSUME NEW x \in Over(log, 0) PROVE FALSE
      OBVIOUS
    <3>1. PICK n \in Node : \E q \in Successes(log, n) : \E p \in Open(log, n, q - 1) :
            q <= 0 /\ x = [node |-> n, from |-> p, to |-> q]
      BY InOver
    <3> QED
      BY <3>1, Marked
  <2> QED
    BY <2>1, <2>2 DEF After
<1> HIDE DEF N, w
<1>5. \A i \in 0 .. N : after[i] = Rule(after, i)
  <2> SUFFICES ASSUME NEW i \in 0 .. N PROVE after[i] = Rule(after, i)
    OBVIOUS
  <2>1. CASE i = 0
    BY <1>1, <1>4, <2>1
  <2>2. CASE i # 0
    <3>1. i \in 1 .. N /\ i - 1 \in 0 .. N
      BY <1>1, <2>2
    <3> QED
      BY <1>3, <2>2, <3>1
  <2> QED
    BY <2>1, <2>2
<1>6. after = [i \in 0 .. N |-> Rule(after, i)]
  BY <1>5
<1>7. w = [i \in 0 .. N |-> Rule(w, i)]
  BY <1>2, <1>6, Zenon
<1>8. ASSUME NEW k \in 0 .. N, w[k] # After(log, k) PROVE FALSE
  <2> DEFINE Wrong == {i \in 0 .. N : w[i] # After(log, i)}
  <2>1. PICK m \in Wrong : \A y \in Wrong : m <= y
    <3>1. Wrong \subseteq Nat /\ Wrong # {}
      BY <1>8
    <3> HIDE DEF Wrong
    <3> QED
      BY <3>1, LeastOne
  <2>2. m \in 0 .. N /\ w[m] # After(log, m)
    OBVIOUS
  <2>3. CASE m = 0
    BY <1>1, <1>4, <1>7, <2>2, <2>3
  <2>4. CASE m # 0
    <3>1. m \in 1 .. N /\ m - 1 \in 0 .. N /\ ~(m <= m - 1)
      BY <1>1, <2>2, <2>4
    <3>2. w[m - 1] = After(log, m - 1)
      BY <2>1, <3>1
    <3>3. w[m] = Walk(w[m - 1], m, log[m])
      BY <1>7, <2>2, <2>4
    <3> QED
      BY <1>3, <2>2, <3>1, <3>2, <3>3
  <2> QED
    BY <2>3, <2>4
<1>9. w[N] = After(log, N)
  BY <1>1, <1>8
<1>10. \A n \in Node : {q \in Outages(log, n) : q[2] <= N} = Outages(log, n)
  <2> SUFFICES ASSUME NEW n \in Node, NEW o \in Outages(log, n) PROVE o[2] <= N
    OBVIOUS
  <2>1. PICK p \in Failures(log, n), q \in Successes(log, n) : o = <<p, q>>
    BY InOutages
  <2>2. q \in DOMAIN log
    BY Marked
  <2> QED
    BY <1>1, <2>1, <2>2
<1> QED
  BY <1>9, <1>10 DEF RecoveryIntervals, After, Over, N, w

\* What the metrics say of recovery times is the outages the log tells of
\* (recovery_intervals).
THEOREM RecoveryIsWholeCorrect == Spec => []RecoveryIsWhole
<1>1. RecordType => RecoveryIsWhole
  <2> SUFFICES ASSUME RecordType PROVE RecoveryIsWhole
    OBVIOUS
  <2>1. events \in Seq(Events(Node))
    BY WiredPlan, MoreEvents DEF RecordType
  <2> QED
    BY <2>1, WalkIsWhole DEF RecoveryIsWhole
<1> QED
  BY <1>1, RecordTypeCorrect, PTL DEF Spec

-----------------------------------------------------------------------------
(***************************************************************************)
(* What a start reads.                                                     *)
(***************************************************************************)

\* The node's work counts, or may still count.
Dispatched(n) == AtWork(n) \/ "completed" \in {ended[n].state, results[n].state}

\* The node's last start read the outputs its dependencies have.
Current(n) ==
  \E i \in Starts(n) :
    /\ \A j \in Starts(n) : j <= i
    /\ \A d \in plan.deps[n] : d \in DOMAIN edges[i].read /\ edges[i].read[d] = output[d]

Lineage ==
  \A n \in Node :
    /\ "completed" \in {ended[n].state, results[n].state} => output[n] # "none"
    /\ Dispatched(n) => Current(n)

\* A node that was dispatched has not been given up.
LEMMA DispatchedIsActive ==
  ASSUME NEW n \in Node, Dispatched(n) PROVE Active(n)
BY DEF Dispatched, AtWork, Active

\* The last start of a node is the one it has just made; the others' stand.
LEMMA StartsNext ==
  ASSUME RecordType, NEW n \in Node, FirstAttempt(n)
  PROVE  /\ \A i \in DOMAIN edges : i \in DOMAIN edges' /\ edges'[i] = edges[i] /\ i <= Len(edges)
         /\ Len(edges) + 1 \in DOMAIN edges' /\ Len(edges) \in Nat
         /\ edges'[Len(edges) + 1] = [to |-> n, read |-> Inputs(n)]
         /\ \A i \in DOMAIN edges' : i \in DOMAIN edges \/ i = Len(edges) + 1
         /\ \A m \in Node : Starts(m)' = IF m = n THEN Starts(m) \cup {Len(edges) + 1} ELSE Starts(m)
<1>1. /\ \A i \in DOMAIN edges : i \in DOMAIN edges' /\ edges'[i] = edges[i] /\ i <= Len(edges)
      /\ Len(edges) + 1 \in DOMAIN edges' /\ Len(edges) \in Nat
      /\ edges'[Len(edges) + 1] = [to |-> n, read |-> Inputs(n)]
      /\ \A i \in DOMAIN edges' : i \in DOMAIN edges \/ i = Len(edges) + 1
  <2>1. PICK e : e = [to |-> n, read |-> Inputs(n)]
    OBVIOUS
  <2>2. edges' = Append(edges, e)
    BY <2>1, Zenon DEF FirstAttempt
  <2>3. edges \in Seq([to : Node, read : Reading])
    BY DEF RecordType
  <2> QED
    BY <2>1, <2>2, <2>3
<1>2. edges'[Len(edges) + 1].to = n
  BY <1>1
<1> QED
  BY <1>1, <1>2 DEF Starts

\* Every step keeps what was read last current.
LEMMA LineageNext == RecordType /\ Flow /\ Lineage /\ [Next]_vars => Lineage'
<1> SUFFICES ASSUME RecordType, Flow, Lineage, [Next]_vars PROVE Lineage'
  OBVIOUS
<1>0. /\ plan.nodes \subseteq Node /\ running \subseteq Node
      /\ \A n \in Node : plan.deps[n] \subseteq Node
      /\ DOMAIN tries = Node /\ DOMAIN ended = Node /\ DOMAIN output = Node
  BY WiredPlan DEF RecordType
<1>1. CASE UNCHANGED vars
  BY <1>1 DEF vars, Lineage, Dispatched, AtWork, Current, Starts
\* Nothing that counts is added, and what an active node read stands.
<1>2. ASSUME UNCHANGED edges,
             \A n \in Node : Dispatched(n)' => Dispatched(n) \/ (Current(n) /\ Active(n)),
             \A n \in Node : Active(n) => plan'.deps[n] = plan.deps[n],
             \A n \in Node : Active(n) => \A d \in plan.deps[n] : output'[d] = output[d],
             \A n \in Node : "completed" \in {ended'[n].state, results'[n].state} => output'[n] # "none"
      PROVE  Lineage'
  <2>1. ASSUME NEW n \in Node, Dispatched(n)' PROVE Current(n)'
    <3>1. Current(n) /\ Active(n)
      BY <1>2, <2>1, DispatchedIsActive DEF Lineage
    <3>2. Starts(n)' = Starts(n)
      BY <1>2 DEF Starts
    <3> QED
      BY <1>2, <3>1, <3>2 DEF Current
  <2> QED
    BY <1>2, <2>1 DEF Lineage
\* A first attempt.
<1>3. ASSUME NEW n \in Node, FirstAttempt(n), plan.deps[n] \subseteq Done({"completed"}),
             UNCHANGED <<plan, ended, results, output>>, running' \in {running, running \cup {n}}
      PROVE  Lineage'
  <2>1. \A m \in Node : m # n => (Dispatched(m)' => Dispatched(m))
    BY <1>0, <1>3 DEF Dispatched, AtWork, FirstAttempt
  <2>2. ASSUME NEW m \in Node, m # n, Dispatched(m) PROVE Current(m)'
    <3>1. Starts(m)' = Starts(m) /\ \A i \in Starts(m) : edges'[i] = edges[i]
      BY <1>3, <2>2, StartsNext DEF Starts
    <3> QED
      BY <1>3, <2>2, <3>1 DEF Lineage, Current
  <2>3. Current(n)'
    <3>1. /\ Starts(n)' = Starts(n) \cup {Len(edges) + 1} /\ Len(edges) \in Nat
          /\ edges'[Len(edges) + 1] = [to |-> n, read |-> Inputs(n)]
          /\ \A i \in Starts(n) : i <= Len(edges) /\ i \in Nat
      <4>1. DOMAIN edges \subseteq Nat
        <5>1. edges \in Seq([to : Node, read : Reading])
          BY DEF RecordType
        <5> QED
          BY <5>1
      <4> QED
        BY <1>3, <4>1, StartsNext DEF Starts
    <3>2. \A d \in plan.deps[n] : d \in DOMAIN Inputs(n) /\ Inputs(n)[d] = output[d]
      BY <1>0, <1>3, InputsType DEF Lineage, Done
    <3>3. \A j \in Starts(n)' : j <= Len(edges) + 1
      BY <3>1
    <3>4. edges'[Len(edges) + 1].read = Inputs(n)
      BY <3>1
    <3>5. Len(edges) + 1 \in Starts(n)'
      BY <3>1
    <3>6. \A d \in plan'.deps[n] :
            d \in DOMAIN edges'[Len(edges) + 1].read /\ edges'[Len(edges) + 1].read[d] = output'[d]
      BY <1>3, <3>2, <3>4
    <3> QED
      BY <3>3, <3>5, <3>6 DEF Current
  <2> QED
    BY <1>3, <2>1, <2>2, <2>3 DEF Lineage
<1>4. ASSUME NEW n \in Node, Start(n) PROVE Lineage'
  BY <1>3, <1>4, WaitingNode DEF Start
<1>5. ASSUME NEW n \in Node, Approve(n) PROVE Lineage'
  <2>1. plan.deps[n] \subseteq Done({"completed"}) /\ FirstAttempt(n)
    BY <1>5 DEF Approve, Awaits, Flow, Active
  <2> QED
    BY <1>3, <1>5, <2>1 DEF Approve
<1>6. ASSUME NEW n \in Node, Ask(n) PROVE Lineage'
  <2>1. UNCHANGED <<edges, plan, ended, results, output>>
        /\ running' = running \cup {n} /\ tries' = [tries EXCEPT ![n] = 0]
    BY <1>6 DEF Ask
  <2>2. \A m \in Node : AtWork(m)' => AtWork(m)
    BY <1>0, <2>1 DEF AtWork
  <2>3. \A m \in Node : "completed" \in {ended'[m].state, results'[m].state} => output'[m] # "none"
    BY <2>1 DEF Lineage
  <2> QED
    BY <1>2, <2>1, <2>2, <2>3 DEF Dispatched
<1>7. ASSUME NEW n \in Node, Retry(n) PROVE Lineage'
  <2>1. UNCHANGED <<edges, plan, running, ended, results, output>>
        /\ AtWork(n) /\ tries' = [tries EXCEPT ![n] = tries[n] + 1]
    BY <1>7 DEF Retry
  <2>2. \A m \in Node : AtWork(m)' => AtWork(m)
    BY <1>0, <2>1 DEF AtWork
  <2>3. \A m \in Node : "completed" \in {ended'[m].state, results'[m].state} => output'[m] # "none"
    BY <2>1 DEF Lineage
  <2> QED
    BY <1>2, <2>1, <2>2, <2>3 DEF Dispatched
\* A node ends without a result that counts.
<1>8. ASSUME NEW n \in Node, NEW r, r.state # "completed", running' = running \ {n},
             ended' = [ended EXCEPT ![n] = r], UNCHANGED <<edges, plan, tries, results, output>>
      PROVE  Lineage'
  <2>1. \A m \in Node : ended'[m].state = "completed" => ended[m].state = "completed"
    BY <1>0, <1>8
  <2>2. \A m \in Node : Dispatched(m)' => Dispatched(m)
    BY <1>8, <2>1 DEF Dispatched, AtWork
  <2>3. \A m \in Node : "completed" \in {ended'[m].state, results'[m].state} => output'[m] # "none"
    BY <1>8, <2>1 DEF Lineage
  <2> QED
    BY <1>2, <1>8, <2>2, <2>3
<1>9. ASSUME NEW n \in Node, Decline(n) PROVE Lineage'
  <2>1. PICK r : r = Bare("rejected") /\ r.state = "rejected"
    BY BareResult DEF EndStates
  <2> QED
    BY <1>8, <1>9, <2>1 DEF Decline, Returns
<1>10. ASSUME NEW n \in Node, Raise(n) PROVE Lineage'
  <2>1. PICK r : r = Bare("failed") /\ r.state = "failed"
    BY BareResult DEF EndStates
  <2> QED
    BY <1>8, <1>10, <2>1 DEF Raise
<1>11. ASSUME NEW n \in Node, NEW s \in {"failed", "input_required"}, EndWithout(n, s) PROVE Lineage'
  <2>s. Result(n, s).state = s
    BY DEF Result
  <2>1. PICK r : r = Result(n, s) /\ r.state = s
    BY <2>s
  <2> QED
    BY <1>8, <1>11, <2>1 DEF EndWithout, Returns
<1>12. ASSUME NEW n \in Node, NEW c \in Content, Complete(n, c) PROVE Lineage'
  <2>1. /\ UNCHANGED <<edges, plan, tries, results>> /\ n \in running /\ AtWork(n)
        /\ running' = running \ {n} /\ output' = [output EXCEPT ![n] = c]
    BY <1>12 DEF Complete, AtWork, Returns
  <2>2. c # "none"
    BY NoneIsNoContent
  <2>3. \A m \in Node : m # n => ended'[m] = ended[m]
    BY <1>0, <1>12 DEF Complete, Returns
  <2>4. Current(n)
    BY <2>1 DEF Lineage, Dispatched
  <2>5. \A m \in Node : Active(m) => n \notin plan.deps[m]
    BY <2>1 DEF Flow, Done
  <2>6. \A m \in Node : output'[m] = IF m = n THEN c ELSE output[m]
    BY <1>0, <2>1
  <2>7. \A m \in Node : Dispatched(m)' => Dispatched(m) \/ (Current(m) /\ Active(m))
    <3>1. \A m \in Node : AtWork(m)' => AtWork(m)
      BY <2>1 DEF AtWork
    <3>2. Active(n)
      BY <2>1 DEF Active
    <3> QED
      BY <2>1, <2>3, <2>4, <3>1, <3>2 DEF Dispatched
  <2>8. \A m \in Node : "completed" \in {ended'[m].state, results'[m].state} => output'[m] # "none"
    BY <2>1, <2>2, <2>3, <2>6 DEF Lineage
  <2>9. \A m \in Node : Active(m) => \A d \in plan.deps[m] : output'[d] = output[d]
    BY <1>0, <2>5, <2>6
  <2>10. \A m \in Node : Active(m) => plan'.deps[m] = plan.deps[m]
    BY <2>1
  <2> QED
    BY <1>2, <2>1, <2>7, <2>8, <2>9, <2>10
\* A batch is collected.
<1>13. ASSUME BatchIsBack, UNCHANGED <<running, tries, edges, output>>,
              \A n \in Node : results'[n].state = "completed" => "completed" \in {ended[n].state, results[n].state},
              \A n \in Node : Active(n) => plan'.deps[n] = plan.deps[n]
       PROVE  Lineage'
  <2>1. running = {} /\ \A n \in Node : ended'[n].state = "none"
    BY <1>13, EmptyResult DEF BatchIsBack
  <2>2. \A n \in Node : Dispatched(n)' => Dispatched(n)
    BY <1>13, <2>1 DEF Dispatched, AtWork
  <2>3. \A n \in Node : "completed" \in {ended'[n].state, results'[n].state} => output'[n] # "none"
    BY <1>13, <2>1 DEF Lineage
  <2> QED
    BY <1>2, <1>13, <2>2, <2>3
<1>14. \A n \in Node : Collected[n] \in {ended[n], results[n]}
  BY CollectedType
<1>15. CASE CollectAndStop
  BY <1>13, <1>14, <1>15 DEF CollectAndStop
<1>16. CASE CollectAndRepair
  <2>1. \A n \in Node : results'[n] = IF n \in Discarded THEN NoResult ELSE Collected[n]
    BY <1>16, CollectedType DEF CollectAndRepair
  <2> QED
    BY <1>13, <1>14, <1>16, <2>1, EmptyResult DEF CollectAndRepair
<1>17. ASSUME NEW seam \in BOOLEAN, CollectAndContinue(seam) PROVE Lineage'
  <2>1. /\ UNCHANGED <<running, tries, edges, output>> /\ results' = Collected
        /\ BatchIsBack
    BY <1>17 DEF CollectAndContinue
  <2>2. \A n \in Node : Active(n) => plan'.deps[n] = plan.deps[n]
    <3>1. CASE ~seam
      BY <1>17, <3>1 DEF CollectAndContinue
    <3>2. CASE seam
      <4>1. /\ IMPACT \in Ended /\ REFACTOR \notin plan.nodes /\ plan' = Revise(plan)
        BY <1>17, <3>2 DEF CollectAndContinue, NeedsSeam
      <4>2. \A n \in Node : Active(n) => n \notin {IMPLEMENT, REFACTOR}
        BY <4>1, SurveyIsOver DEF Flow
      <4> QED
        BY <4>1, <4>2, RevisedPlan DEF RecordType
    <3> QED
      BY <3>1, <3>2
  <2> QED
    BY <1>13, <1>14, <2>1, <2>2
<1>18. CASE Finish \/ Stop
  <2>1. UNCHANGED <<plan, running, ended, tries, results, output, edges>>
    BY <1>18 DEF Finish, Stop
  <2> QED
    BY <2>1 DEF Lineage, Dispatched, AtWork, Current, Starts
<1> QED
  BY <1>1, <1>4, <1>5, <1>6, <1>7, <1>9, <1>10, <1>11, <1>12, <1>15, <1>16, <1>17, <1>18 DEF Next

\* What a node that was dispatched read last is what its dependencies have as
\* their output now, in the last of its starts, and whoever completed has an output
\* (_inputs_for, record_consumption, _repair).
THEOREM LineageCorrect == Spec => []Lineage
<1>1. Init => Lineage
  BY EmptyResult DEF Init, Lineage, Dispatched, AtWork
<1> QED
  BY <1>1, RecordTypeCorrect, FlowCorrect, LineageNext, PTL DEF Spec

\* No result that stands rests on a superseded input (_repair, ready,
\* _inputs_for).
THEOREM InputsAreCurrentCorrect == Spec => []InputsAreCurrent
<1>1. RecordType /\ Flow /\ Lineage => InputsAreCurrent
  <2> SUFFICES ASSUME RecordType, Flow, Lineage,
                      NEW n \in Done({"completed"}), NEW d \in plan.deps[n]
               PROVE  /\ d \in Done({"completed"})
                      /\ \E i \in Starts(n) :
                           /\ d \in DOMAIN edges[i].read /\ edges[i].read[d] = output[d]
                           /\ \A j \in Starts(n) : j <= i
    BY DEF InputsAreCurrent
  <2>1. n \in Node /\ Active(n) /\ Current(n)
    BY DEF Done, Active, Lineage, Dispatched
  <2> QED
    BY <2>1 DEF Flow, Current
<1> QED
  BY <1>1, RecordTypeCorrect, FlowCorrect, LineageCorrect, PTL DEF Spec

-----------------------------------------------------------------------------
(***************************************************************************)
(* The revisions.                                                          *)
(***************************************************************************)

NoRepeat(r) == \A i \in DOMAIN r \ {1} : r[i] # r[i - 1]

\* What r held before it first held x.
Earlier(r, x) == {r[i] : i \in {j \in DOMAIN r : \A k \in 1 .. j : r[k] # x}}

\* s shows what r holds in the order in which r came to hold it.
Follows(s, r) ==
  \A i \in DOMAIN s : s[i] \in Range(r) /\ Earlier(r, s[i]) = {s[j] : j \in 1 .. (i - 1)}

\* The revisions of a history.
LEMMA RangeOf ==
  ASSUME NEW s \in Seq(Hash)
  PROVE  /\ DOMAIN s = 1 .. Len(s) /\ Len(s) \in Nat
         /\ \A x : x \in Range(s) <=> \E i \in DOMAIN s : x = s[i]
         /\ s # <<>> => Len(s) > 0 /\ Len(s) \in DOMAIN s /\ Last(s) = s[Len(s)]
BY DEF Range, Last

\* A history with one more revision.
LEMMA AppendOf ==
  ASSUME NEW s \in Seq(Hash), NEW c \in Hash
  PROVE  /\ Append(s, c) \in Seq(Hash)
         /\ Len(Append(s, c)) = Len(s) + 1
         /\ DOMAIN Append(s, c) = 1 .. (Len(s) + 1)
         /\ \A i \in DOMAIN s : Append(s, c)[i] = s[i]
         /\ Append(s, c)[Len(s) + 1] = c
         /\ \A x : x \in Range(Append(s, c)) <=> x \in Range(s) \/ x = c
<1>1. /\ Append(s, c) \in Seq(Hash)
      /\ Len(Append(s, c)) = Len(s) + 1
      /\ DOMAIN Append(s, c) = 1 .. (Len(s) + 1)
      /\ \A i \in DOMAIN s : Append(s, c)[i] = s[i]
      /\ Append(s, c)[Len(s) + 1] = c
  OBVIOUS
<1>2. \A i : i \in 1 .. (Len(s) + 1) <=> i \in DOMAIN s \/ i = Len(s) + 1
  BY RangeOf
<1>3. PICK a : a = Append(s, c)
  OBVIOUS
<1>4. \A x : x \in Range(a) <=> \E i \in DOMAIN a : x = a[i]
  BY DEF Range
<1>5. \A x : x \in Range(s) <=> \E i \in DOMAIN s : x = s[i]
  BY DEF Range
<1>6. /\ \A i : i \in DOMAIN a <=> i \in DOMAIN s \/ i = Len(s) + 1
      /\ \A i \in DOMAIN s : a[i] = s[i]
      /\ a[Len(s) + 1] = c
  BY <1>1, <1>2, <1>3
<1>7. \A x : x \in Range(a) <=> x \in Range(s) \/ x = c
  BY <1>4, <1>5, <1>6
<1> QED
  BY <1>1, <1>3, <1>7

\* What comes before a revision.
LEMMA InEarlier ==
  ASSUME NEW r, NEW x, NEW y
  PROVE  y \in Earlier(r, x) <=> \E i \in DOMAIN r : y = r[i] /\ \A k \in 1 .. i : r[k] # x
BY DEF Earlier

\* record_production.
LEMMA ProducedOnce ==
  ASSUME NEW r \in Seq(Hash), NEW c \in Hash
  PROVE  NoRepeat(r) => NoRepeat(Produced(r, c))
<1>1. CASE r # <<>> /\ Last(r) = c
  <2>1. Produced(r, c) = r
    BY <1>1 DEF Produced
  <2> QED
    BY <1>1, <2>1
<1>2. CASE ~(r # <<>> /\ Last(r) = c)
  <2>1. Produced(r, c) = Append(r, c)
    BY <1>2 DEF Produced
  <2>2. NoRepeat(r) => NoRepeat(Append(r, c))
    <3> SUFFICES ASSUME NoRepeat(r), NEW i \in DOMAIN Append(r, c) \ {1}
                 PROVE  Append(r, c)[i] # Append(r, c)[i - 1]
      BY DEF NoRepeat
    <3>1. CASE i \in DOMAIN r
      <4>1. i - 1 \in DOMAIN r
        BY <3>1, RangeOf
      <4> QED
        BY <3>1, <4>1, AppendOf DEF NoRepeat
    <3>2. CASE i = Len(r) + 1
      <4>1. r # <<>> /\ Len(r) \in DOMAIN r /\ i - 1 = Len(r) /\ Last(r) = r[Len(r)]
        BY <3>2, RangeOf
      <4> QED
        BY <1>2, <3>2, <4>1, AppendOf
    <3> QED
      BY <3>1, <3>2, AppendOf, RangeOf
  <2> QED
    BY <2>1, <2>2
<1> QED
  BY <1>1, <1>2

\* record_consumption repeats nothing either.
LEMMA RegisteredOnce ==
  ASSUME NEW r \in Seq(Hash), NEW c \in Hash, NoRepeat(r)
  PROVE  NoRepeat(Registered(r, c))
BY ProducedOnce DEF Registered

\* What was shown still follows the texts when there is one more.
LEMMA FollowsMore ==
  ASSUME NEW r \in Seq(Hash), NEW s \in Seq(Hash), NEW c \in Hash, Follows(s, r)
  PROVE  Follows(s, Append(r, c))
<1>a. PICK a : a = Append(r, c)
  OBVIOUS
<1>b. /\ DOMAIN r = 1 .. Len(r) /\ DOMAIN a = 1 .. (Len(r) + 1) /\ Len(r) \in Nat
      /\ \A i \in DOMAIN r : a[i] = r[i]
      /\ \A x : x \in Range(a) <=> x \in Range(r) \/ x = c
  BY <1>a, AppendOf, RangeOf
<1>1. ASSUME NEW x \in Range(r) PROVE Earlier(a, x) = Earlier(r, x)
  <2>1. PICK p \in DOMAIN r : r[p] = x
    BY RangeOf
  <2>2. ASSUME NEW y \in Earlier(a, x) PROVE y \in Earlier(r, x)
    <3>1. PICK i \in DOMAIN a : y = a[i] /\ \A k \in 1 .. i : a[k] # x
      BY InEarlier
    <3>2. i \in DOMAIN r
      <4>1. p \notin 1 .. i
        BY <1>b, <2>1, <3>1
      <4> QED
        BY <1>b, <4>1
    <3>3. \A k \in 1 .. i : k \in DOMAIN r
      BY <1>b, <3>2
    <3>4. y = r[i] /\ \A k \in 1 .. i : r[k] # x
      BY <1>b, <3>1, <3>2, <3>3
    <3> QED
      BY <3>2, <3>4, InEarlier
  <2>3. ASSUME NEW y \in Earlier(r, x) PROVE y \in Earlier(a, x)
    <3>1. PICK i \in DOMAIN r : y = r[i] /\ \A k \in 1 .. i : r[k] # x
      BY InEarlier
    <3>2. \A k \in 1 .. i : k \in DOMAIN r
      BY <1>b
    <3>3. i \in DOMAIN a /\ y = a[i] /\ \A k \in 1 .. i : a[k] # x
      BY <1>b, <3>1, <3>2
    <3> QED
      BY <3>3, InEarlier
  <2> QED
    BY <2>2, <2>3
<1>2. Follows(s, a)
  BY <1>1, <1>b DEF Follows
<1> QED
  BY <1>2, <1>a

\* record_consumption, when all but the latest text has been shown.
LEMMA FollowsShown ==
  ASSUME NEW r \in Seq(Hash), NEW s \in Seq(Hash), Follows(s, r),
         r # <<>>, \A i \in DOMAIN r : i = Len(r) \/ r[i] \in Range(s)
  PROVE  /\ Follows(Registered(s, Last(r)), r)
         /\ Range(Registered(s, Last(r))) = Range(s) \cup {Last(r)}
<1>0. PICK c : c = Last(r)
  OBVIOUS
<1>1. Len(r) \in DOMAIN r /\ c = r[Len(r)] /\ c \in Hash /\ c \in Range(r)
  BY <1>0, RangeOf
<1>a. PICK a : a = Append(s, c)
  OBVIOUS
<1>b. /\ DOMAIN s = 1 .. Len(s) /\ DOMAIN a = 1 .. (Len(s) + 1) /\ Len(s) \in Nat
      /\ \A i \in DOMAIN s : a[i] = s[i]
      /\ a[Len(s) + 1] = c
      /\ \A x : x \in Range(a) <=> x \in Range(s) \/ x = c
  BY <1>1, <1>a, AppendOf, RangeOf
<1>2. CASE c \in Range(s)
  BY <1>0, <1>2 DEF Registered
<1>3. CASE c \notin Range(s)
  <2>1. Registered(s, c) = Append(s, c)
    <3>1. s # <<>> => Last(s) # c
      BY <1>3, RangeOf
    <3> QED
      BY <1>3, <3>1 DEF Registered, Produced
  <2>2. Earlier(r, c) = Range(s)
    <3>1. ASSUME NEW y \in Earlier(r, c) PROVE y \in Range(s)
      <4>1. PICK i \in DOMAIN r : y = r[i] /\ \A k \in 1 .. i : r[k] # c
        BY InEarlier
      <4>2. i # Len(r)
        <5>1. i \in 1 .. i
          BY RangeOf
        <5> QED
          BY <1>1, <4>1, <5>1
      <4> QED
        BY <4>1, <4>2
    <3>2. ASSUME NEW y \in Range(s) PROVE y \in Earlier(r, c)
      <4>1. y \in Range(r)
        BY RangeOf DEF Follows
      <4>2. PICK i \in DOMAIN r : y = r[i]
        BY <4>1, RangeOf
      <4>3. ASSUME NEW k \in 1 .. i, r[k] = c PROVE FALSE
        <5>1. k \in DOMAIN r
          BY RangeOf
        <5>2. k = Len(r)
          BY <1>3, <4>3, <5>1
        <5>3. i = Len(r)
          BY <5>2, RangeOf
        <5> QED
          BY <1>1, <1>3, <4>2, <5>3, <3>2
      <4> QED
        BY <4>2, <4>3, InEarlier
    <3> QED
      BY <3>1, <3>2
  <2>3. ASSUME NEW i \in DOMAIN a
        PROVE  a[i] \in Range(r) /\ Earlier(r, a[i]) = {a[j] : j \in 1 .. (i - 1)}
    <3>1. CASE i \in DOMAIN s
      <4>1. a[i] = s[i] /\ \A j \in 1 .. (i - 1) : a[j] = s[j]
        BY <1>b, <3>1
      <4>2. {a[j] : j \in 1 .. (i - 1)} = {s[j] : j \in 1 .. (i - 1)}
        BY <4>1
      <4> QED
        BY <3>1, <4>1, <4>2 DEF Follows
    <3>2. CASE i = Len(s) + 1
      <4>1. a[i] = c /\ 1 .. (i - 1) = DOMAIN s
        BY <1>b, <3>2
      <4>2. {a[j] : j \in 1 .. (i - 1)} = Range(s)
        BY <1>b, <4>1 DEF Range
      <4> QED
        BY <1>1, <2>2, <4>1, <4>2
    <3>3. i \in DOMAIN s \/ i = Len(s) + 1
      BY <1>b
    <3> QED
      BY <3>1, <3>2, <3>3
  <2>4. Range(a) = Range(s) \cup {c}
    BY <1>b
  <2>5. Follows(a, r)
    BY <2>3 DEF Follows
  <2> QED
    BY <1>0, <1>a, <2>1, <2>4, <2>5
<1> QED
  BY <1>2, <1>3

Standing(n) == "completed" \in {ended[n].state, results[n].state}

\* The texts of what a node made, as consumers may be shown them.
Texts(n) == [i \in DOMAIN made[n] |-> TextOf[made[n][i]]]

\* The artifact of the output and then, where it was cut, its text.
ArtifactThenText(told, c) ==
  told # <<>> => /\ told[1] = ArtifactOf[c]
                 /\ \A i \in DOMAIN told \ {1} : i = 2 /\ told[i] = TextOf[c]

\* Whatever is made is shown before its node runs again: only a failed
\* verification makes a standing node run again, the implementation, and it was
\* shown that when it started.
History ==
  /\ \A n \in Node :
       /\ NoRepeat(files[n]) /\ NoRepeat(tables[n])
       /\ output[n] # "none" => made[n] # <<>> /\ Last(made[n]) = output[n]
       /\ output[n] = "none" => made[n] = <<>> /\ tables[n] = <<>>
       /\ n \in SelfNamed => /\ output[n] # "none" => tables[n] # <<>>
                             /\ ArtifactThenText(tables[n], output[n])
       /\ n \notin SelfNamed => Follows(tables[n], Texts(n))
  /\ state = "working" =>
       \A n \in Node :
         /\ n # IMPLEMENT => (made[n] # <<>> => Standing(n))
         /\ n \notin SelfNamed => \A i \in DOMAIN made[n] :
              Texts(n)[i] \in Range(tables[n]) \/ (i = Len(made[n]) /\ Standing(n))
  /\ VERIFY \in running \/ ended[VERIFY].state # "none" =>
       TextOf[output[IMPLEMENT]] \in Range(tables[IMPLEMENT])

\* The texts of a node are a sequence as long as what it made.
LEMMA TextsType ==
  ASSUME RecordType, NEW n \in Node
  PROVE  /\ Texts(n) \in Seq(Hash) /\ Len(Texts(n)) = Len(made[n])
         /\ DOMAIN Texts(n) = DOMAIN made[n] /\ DOMAIN made[n] = 1 .. Len(made[n])
         /\ Len(made[n]) \in Nat
         /\ \A i \in DOMAIN made[n] : made[n][i] \in Content /\ Texts(n)[i] = TextOf[made[n][i]]
         /\ made[n] # <<>> => /\ Texts(n) # <<>> /\ Len(made[n]) \in DOMAIN made[n]
                              /\ Last(made[n]) = made[n][Len(made[n])]
                              /\ Last(Texts(n)) = TextOf[Last(made[n])]
<1>1. PICK m : m = made[n]
  OBVIOUS
<1>2. m \in Seq(Content) /\ Len(m) \in Nat /\ DOMAIN m = 1 .. Len(m) /\ \A i \in DOMAIN m : m[i] \in Content
  BY <1>1 DEF RecordType
<1>3. PICK t : t = [i \in 1 .. Len(m) |-> TextOf[m[i]]]
  OBVIOUS
<1>4. Texts(n) = t
  BY <1>1, <1>2, <1>3 DEF Texts
<1>5. \A i \in 1 .. Len(m) : t[i] = TextOf[m[i]] /\ t[i] \in Hash
  BY <1>2, <1>3, HashOf
<1>6. t \in Seq(Hash) /\ Len(t) = Len(m) /\ DOMAIN t = 1 .. Len(m)
  BY <1>2, <1>3, <1>5
<1>7. m # <<>> => /\ t # <<>> /\ Len(m) \in 1 .. Len(m) /\ Last(m) = m[Len(m)] /\ Last(t) = t[Len(m)]
  BY <1>2, <1>6 DEF Last
<1> QED
  BY <1>1, <1>2, <1>4, <1>5, <1>6, <1>7

\* What is shown of an output that nobody was shown before: its text follows
\* the artifact, or is that.
LEMMA CutIsShown ==
  ASSUME NEW told \in Seq(Hash), told # <<>>, NEW c \in Content, ArtifactThenText(told, c)
  PROVE  /\ Registered(told, TextOf[c]) # <<>>
         /\ ArtifactThenText(Registered(told, TextOf[c]), c)
<1>1. CASE TextOf[c] \in Range(told)
  BY <1>1 DEF Registered
<1>2. CASE TextOf[c] \notin Range(told)
  <2>1. TextOf[c] \in Hash
    BY HashOf
  <2>2. Last(told) \in Range(told)
    BY RangeOf
  <2>3. Registered(told, TextOf[c]) = Append(told, TextOf[c])
    BY <1>2, <2>2 DEF Registered, Produced
  <2>4. \A i \in DOMAIN told \ {1} : FALSE
    BY <1>2, RangeOf DEF ArtifactThenText
  <2>5. Len(told) = 1
    BY <2>4, RangeOf
  <2>6. PICK t : t = Append(told, TextOf[c])
    OBVIOUS
  <2>7. t # <<>> /\ DOMAIN t = 1 .. 2 /\ t[1] = told[1] /\ t[2] = TextOf[c]
    <3>1. PICK h \in Hash : h = TextOf[c]
      BY <2>1
    <3>2. 1 \in DOMAIN told
      BY <2>5, RangeOf
    <3>3. /\ DOMAIN t = 1 .. (Len(told) + 1) /\ t[Len(told) + 1] = h
          /\ t[1] = told[1]
      BY <2>6, <3>1, <3>2, AppendOf
    <3>4. t # <<>>
      BY <2>6, <3>1
    <3> QED
      BY <2>5, <3>1, <3>3, <3>4
  <2>8. ArtifactThenText(t, c)
    BY <2>7 DEF ArtifactThenText
  <2> QED
    BY <2>3, <2>6, <2>7, <2>8
<1> QED
  BY <1>1, <1>2

\* Every step keeps what was shown a part of what was made.
LEMMA HistoryNext == RecordType /\ Flow /\ Lineage /\ History /\ [Next]_vars => History'
<1> SUFFICES ASSUME RecordType, Flow, Lineage, History, [Next]_vars PROVE History'
  OBVIOUS
<1>0. /\ plan.nodes \subseteq Node /\ running \subseteq Node
      /\ \A n \in Node : plan.deps[n] \subseteq Node
      /\ DOMAIN ended = Node /\ DOMAIN output = Node /\ DOMAIN made = Node
      /\ DOMAIN files = Node /\ DOMAIN tables = Node
      /\ \A n \in Node : made[n] \in Seq(Content) /\ files[n] \in Seq(Hash) /\ tables[n] \in Seq(Hash)
      /\ VERIFY \in Node /\ IMPLEMENT \in Node /\ IMPLEMENT # VERIFY
      /\ IMPLEMENT \in plan.deps[VERIFY] /\ VERIFY \notin plan.high
  BY WiredPlan, Stages DEF RecordType
<1>a. IMPLEMENT \notin SelfNamed
  BY RecordAssumption
<1>1. CASE UNCHANGED vars
  BY <1>1 DEF vars, History, Standing, Texts
\* Nothing is made or shown, and what stands stands.
<1>2. ASSUME UNCHANGED <<made, files, tables, output>>,
             state' = "working" => state = "working",
             state' = "working" =>
               \A n \in Node : Standing(n) => Standing(n)' \/
                 (n = IMPLEMENT /\ \A i \in DOMAIN made[n] : Texts(n)[i] \in Range(tables[n])),
             VERIFY \in running' \/ ended'[VERIFY].state # "none" =>
               VERIFY \in running \/ ended[VERIFY].state # "none"
      PROVE  History'
  <2>1. \A n \in Node : Texts(n)' = Texts(n)
    BY <1>2 DEF Texts
  <2>2. \A n \in Node :
          /\ NoRepeat(files'[n]) /\ NoRepeat(tables'[n])
          /\ output'[n] # "none" => made'[n] # <<>> /\ Last(made'[n]) = output'[n]
          /\ output'[n] = "none" => made'[n] = <<>> /\ tables'[n] = <<>>
          /\ n \in SelfNamed => /\ output'[n] # "none" => tables'[n] # <<>>
                                /\ ArtifactThenText(tables'[n], output'[n])
          /\ n \notin SelfNamed => Follows(tables'[n], Texts(n)')
    BY <1>2, <2>1 DEF History
  <2>3. state' = "working" =>
          \A n \in Node :
            /\ n # IMPLEMENT => (made'[n] # <<>> => Standing(n)')
            /\ n \notin SelfNamed => \A i \in DOMAIN made'[n] :
                 Texts(n)'[i] \in Range(tables'[n]) \/ (i = Len(made'[n]) /\ Standing(n)')
    BY <1>2, <2>1 DEF History
  <2>4. VERIFY \in running' \/ ended'[VERIFY].state # "none" =>
          TextOf[output'[IMPLEMENT]] \in Range(tables'[IMPLEMENT])
    BY <1>2 DEF History
  <2> QED
    BY <2>2, <2>3, <2>4 DEF History
\* A first attempt.
<1>3. ASSUME NEW n \in Node, FirstAttempt(n), plan.deps[n] \subseteq Done({"completed"}),
             UNCHANGED <<state, plan, ended, results, output, made, files>>, state = "working",
             running' \in {running, running \cup {n}}
      PROVE  History'
  <2>1. \A d \in DOMAIN Inputs(n) : d \in Node /\ output[d] # "none" /\ output[d] \in Content
    <3>1. DOMAIN Inputs(n) = {d \in plan.deps[n] : output[d] # "none"}
      BY InputsType
    <3> QED
      BY <1>0, <3>1, InputsType
  <2>t. \A m \in Node : Texts(m)' = Texts(m)
    BY <1>3 DEF Texts
  <2>2. ASSUME NEW d \in Node
        PROVE  /\ NoRepeat(tables'[d])
               /\ output[d] = "none" => tables'[d] = <<>>
               /\ d \in SelfNamed => /\ output[d] # "none" => tables'[d] # <<>>
                                     /\ ArtifactThenText(tables'[d], output[d])
               /\ d \notin SelfNamed => /\ Follows(tables'[d], Texts(d))
                                        /\ Range(tables[d]) \subseteq Range(tables'[d])
                                        /\ d \in DOMAIN Inputs(n) => TextOf[output[d]] \in Range(tables'[d])
    <3>1. CASE d \in DOMAIN Inputs(n)
      <4>1. tables'[d] = Registered(tables[d], TextOf[output[d]])
        BY <1>3, <3>1 DEF FirstAttempt, Shown
      <4>2. /\ output[d] # "none" /\ output[d] \in Content /\ TextOf[output[d]] \in Hash
            /\ made[d] # <<>> /\ Last(made[d]) = output[d] /\ NoRepeat(tables[d])
            /\ tables[d] \in Seq(Hash)
        BY <1>0, <2>1, <3>1, HashOf DEF History
      <4>3. NoRepeat(tables'[d])
        BY <4>1, <4>2, RegisteredOnce
      <4>4. CASE d \in SelfNamed
        <5>1. tables[d] # <<>> /\ ArtifactThenText(tables[d], output[d])
          BY <4>2, <4>4 DEF History
        <5> QED
          BY <4>1, <4>2, <4>3, <4>4, <5>1, CutIsShown
      <4>5. CASE d \notin SelfNamed
        <5>1. Follows(tables[d], Texts(d))
          BY <4>5 DEF History
        <5>2. /\ Texts(d) \in Seq(Hash) /\ Texts(d) # <<>> /\ Last(Texts(d)) = TextOf[output[d]]
              /\ DOMAIN Texts(d) = DOMAIN made[d] /\ Len(Texts(d)) = Len(made[d])
          BY <4>2, TextsType
        <5>3. \A i \in DOMAIN Texts(d) : i = Len(Texts(d)) \/ Texts(d)[i] \in Range(tables[d])
          BY <1>3, <4>5, <5>2 DEF History
        <5>4. /\ Follows(Registered(tables[d], Last(Texts(d))), Texts(d))
              /\ Range(Registered(tables[d], Last(Texts(d)))) = Range(tables[d]) \cup {Last(Texts(d))}
          BY <4>2, <5>1, <5>2, <5>3, FollowsShown
        <5> QED
          BY <4>1, <4>2, <4>3, <4>5, <5>2, <5>4
      <4> QED
        BY <4>4, <4>5
    <3>2. CASE d \notin DOMAIN Inputs(n)
      <4>1. tables'[d] = tables[d]
        BY <1>3, <3>2 DEF FirstAttempt
      <4> QED
        BY <3>2, <4>1 DEF History
    <3> QED
      BY <3>1, <3>2
  <2>3. n = VERIFY => IMPLEMENT \in DOMAIN Inputs(n)
    <3> SUFFICES ASSUME n = VERIFY PROVE IMPLEMENT \in DOMAIN Inputs(n)
      OBVIOUS
    <3>1. output[IMPLEMENT] # "none"
      BY <1>0, <1>3 DEF Lineage, Done
    <3> QED
      BY <1>0, <3>1, InputsType
  <2>4. VERIFY \in running' \/ ended'[VERIFY].state # "none" =>
          TextOf[output'[IMPLEMENT]] \in Range(tables'[IMPLEMENT])
    <3>1. /\ Range(tables[IMPLEMENT]) \subseteq Range(tables'[IMPLEMENT])
          /\ IMPLEMENT \in DOMAIN Inputs(n) => TextOf[output[IMPLEMENT]] \in Range(tables'[IMPLEMENT])
      BY <1>0, <1>a, <2>2
    <3> QED
      BY <1>0, <1>3, <2>3, <3>1 DEF History
  <2>5. \A m \in Node :
          /\ m # IMPLEMENT => (made'[m] # <<>> => Standing(m)')
          /\ m \notin SelfNamed => \A i \in DOMAIN made'[m] :
               Texts(m)'[i] \in Range(tables'[m]) \/ (i = Len(made'[m]) /\ Standing(m)')
    BY <1>3, <2>2, <2>t DEF History, Standing
  <2>6. \A m \in Node :
          /\ NoRepeat(files'[m]) /\ NoRepeat(tables'[m])
          /\ output'[m] # "none" => made'[m] # <<>> /\ Last(made'[m]) = output'[m]
          /\ output'[m] = "none" => made'[m] = <<>> /\ tables'[m] = <<>>
          /\ m \in SelfNamed => /\ output'[m] # "none" => tables'[m] # <<>>
                                /\ ArtifactThenText(tables'[m], output'[m])
          /\ m \notin SelfNamed => Follows(tables'[m], Texts(m)')
    BY <1>3, <2>2, <2>t DEF History
  <2> QED
    BY <2>4, <2>5, <2>6 DEF History
<1>4. ASSUME NEW n \in Node, Start(n) PROVE History'
  BY <1>3, <1>4, WaitingNode DEF Start
<1>5. ASSUME NEW n \in Node, Approve(n) PROVE History'
  <2>1. plan.deps[n] \subseteq Done({"completed"}) /\ FirstAttempt(n) /\ state = "working"
    BY <1>5 DEF Approve, Awaits, Flow, Active
  <2> QED
    BY <1>3, <1>5, <2>1 DEF Approve
<1>6. ASSUME NEW n \in Node, Ask(n) PROVE History'
  <2>1. UNCHANGED <<state, made, files, tables, output, ended, results>> /\ running' = running \cup {n} /\ n # VERIFY
    BY <1>0, <1>6 DEF Ask
  <2> QED
    BY <1>2, <2>1 DEF Standing
<1>7. ASSUME NEW n \in Node, Retry(n) PROVE History'
  <2>1. UNCHANGED <<state, made, files, tables, output, ended, results, running>>
    BY <1>7 DEF Retry
  <2> QED
    BY <1>2, <2>1 DEF Standing
\* A node ends and makes nothing.
<1>8. ASSUME NEW n \in Node, n \in running, NEW r, running' = running \ {n},
             ended' = [ended EXCEPT ![n] = r], UNCHANGED <<state, made, files, tables, output, results>>
      PROVE  History'
  <2>1. \A m \in Node : m # n => ended'[m] = ended[m]
    BY <1>0, <1>8
  <2>2. ~Standing(n)
    BY <1>8 DEF Standing, Flow
  <2>3. \A m \in Node : Standing(m) => Standing(m)'
    BY <1>8, <2>1, <2>2 DEF Standing
  <2>4. VERIFY \in running' \/ ended'[VERIFY].state # "none" =>
          VERIFY \in running \/ ended[VERIFY].state # "none"
    BY <1>0, <1>8, <2>1
  <2> QED
    BY <1>2, <1>8, <2>3, <2>4
<1>9. ASSUME NEW n \in Node, Decline(n) PROVE History'
  BY <1>8, <1>9 DEF Decline, Awaits, Returns
<1>10. ASSUME NEW n \in Node, Raise(n) PROVE History'
  BY <1>8, <1>10 DEF Raise
<1>11. ASSUME NEW n \in Node, NEW s \in {"failed", "input_required"}, EndWithout(n, s) PROVE History'
  BY <1>8, <1>11 DEF EndWithout, AtWork, Returns
<1>12. ASSUME NEW n \in Node, NEW c \in Content, Complete(n, c) PROVE History'
  <2>1. /\ UNCHANGED <<state, plan, results>> /\ n \in running /\ state = "working"
        /\ running' = running \ {n}
        /\ made' = [made EXCEPT ![n] = Append(@, c)] /\ output' = [output EXCEPT ![n] = c]
    BY <1>12 DEF Complete, AtWork, Returns, Flow
  <2>2. /\ \A m \in Node : m # n => made'[m] = made[m] /\ output'[m] = output[m] /\ ended'[m] = ended[m]
        /\ made'[n] = Append(made[n], c) /\ output'[n] = c
        /\ ended'[n].state = "completed"
    <3>1. PICK r : r = Result(n, "completed")
      OBVIOUS
    <3>2. r.state = "completed"
      BY <3>1 DEF Result
    <3>3. ended' = [ended EXCEPT ![n] = r]
      BY <1>12, <3>1 DEF Complete, Returns
    <3> QED
      BY <1>0, <2>1, <3>2, <3>3
  <2>3. ~Standing(n) /\ Standing(n)' /\ \A m \in Node : m # n => (Standing(m)' <=> Standing(m))
    BY <2>1, <2>2 DEF Standing, Flow
  <2>4. /\ \A m \in Node : m # n => files'[m] = files[m] /\ tables'[m] = tables[m]
        /\ n \in SelfNamed => tables'[n] = Produced(tables[n], ArtifactOf[c]) /\ files'[n] = files[n]
        /\ n \notin SelfNamed => tables'[n] = tables[n] /\ files'[n] = Produced(files[n], ArtifactOf[c])
    BY <1>0, <1>12 DEF Complete, Records
  <2>5. NoRepeat(files'[n]) /\ NoRepeat(tables'[n])
    BY <1>0, <2>4, HashOf, ProducedOnce DEF History
  <2>6. made'[n] # <<>> /\ Last(made'[n]) = output'[n] /\ Len(made'[n]) = Len(made[n]) + 1 /\ c # "none"
    <3>1. PICK s \in Seq(Content) : s = made[n]
      BY <1>0
    <3>2. Append(s, c) # <<>> /\ Len(Append(s, c)) = Len(s) + 1 /\ Last(Append(s, c)) = c
      BY DEF Last
    <3> QED
      BY <2>2, <3>1, <3>2, NoneIsNoContent
  <2>7. /\ Texts(n)' = Append(Texts(n), TextOf[c])
        /\ \A m \in Node : m # n => Texts(m)' = Texts(m)
    <3>1. \A m \in Node : m # n => Texts(m)' = Texts(m)
      BY <2>2 DEF Texts
    <3>2. PICK s \in Seq(Content) : s = made[n]
      BY <1>0
    <3>3. PICK a : a = Append(s, c)
      OBVIOUS
    <3>4. PICK t \in Seq(Hash) : t = Texts(n)
      BY TextsType
    <3>5. /\ DOMAIN s = 1 .. Len(s) /\ Len(s) \in Nat /\ DOMAIN a = 1 .. (Len(s) + 1)
          /\ \A i \in 1 .. Len(s) : a[i] = s[i]
          /\ a[Len(s) + 1] = c
      BY <3>3
    <3>6. Len(t) = Len(s) /\ \A i \in 1 .. Len(s) : t[i] = TextOf[s[i]]
      BY <3>2, <3>4, <3>5, TextsType
    <3>7. PICK h \in Hash : h = TextOf[c]
      BY HashOf
    <3>8. PICK b : b = Append(t, h)
      OBVIOUS
    <3>9. /\ b = [i \in 1 .. (Len(s) + 1) |-> b[i]]
          /\ \A i \in 1 .. Len(s) : b[i] = t[i]
          /\ b[Len(s) + 1] = h
      <4>1. b \in Seq(Hash) /\ Len(b) = Len(s) + 1 /\ b[Len(s) + 1] = h
        BY <3>5, <3>6, <3>8
      <4>2. \A i \in 1 .. Len(t) : b[i] = t[i]
        BY <3>8
      <4>3. b = [i \in 1 .. Len(b) |-> b[i]]
        BY <4>1
      <4> QED
        BY <3>6, <4>1, <4>2, <4>3
    <3>10. \A i \in 1 .. (Len(s) + 1) : b[i] = TextOf[a[i]]
      <4> SUFFICES ASSUME NEW i \in 1 .. (Len(s) + 1) PROVE b[i] = TextOf[a[i]]
        OBVIOUS
      <4>1. CASE i = Len(s) + 1
        BY <3>5, <3>7, <3>9, <4>1
      <4>2. CASE i # Len(s) + 1
        <5>1. i \in 1 .. Len(s)
          BY <3>5, <4>2
        <5> QED
          BY <3>5, <3>6, <3>9, <5>1
      <4> QED
        BY <4>1, <4>2
    <3>11. Texts(n)' = [i \in 1 .. (Len(s) + 1) |-> TextOf[a[i]]]
      BY <2>2, <3>2, <3>3, <3>5 DEF Texts
    <3>12. [i \in 1 .. (Len(s) + 1) |-> b[i]] = [i \in 1 .. (Len(s) + 1) |-> TextOf[a[i]]]
      BY <3>10
    <3> QED
      BY <3>1, <3>4, <3>7, <3>8, <3>9, <3>11, <3>12
  <2>8. n \in SelfNamed => tables'[n] # <<>> /\ ArtifactThenText(tables'[n], output'[n])
    <3> SUFFICES ASSUME n \in SelfNamed
                 PROVE  tables'[n] # <<>> /\ ArtifactThenText(tables'[n], output'[n])
      OBVIOUS
    <3>1. made[n] = <<>>
      BY <1>a, <2>1, <2>3 DEF History
    <3>2. tables[n] = <<>>
      BY <3>1 DEF History
    <3>3. PICK t : t = tables'[n]
      OBVIOUS
    <3>4. t = <<ArtifactOf[c]>>
      BY <2>4, <3>2, <3>3 DEF Produced
    <3>5. t # <<>> /\ DOMAIN t = {1} /\ t[1] = ArtifactOf[c]
      BY <3>4
    <3> QED
      BY <2>2, <3>3, <3>5 DEF ArtifactThenText
  <2>9. n \notin SelfNamed =>
          /\ Follows(tables'[n], Texts(n)')
          /\ \A i \in DOMAIN made'[n] : Texts(n)'[i] \in Range(tables'[n]) \/ i = Len(made'[n])
    <3> SUFFICES ASSUME n \notin SelfNamed
                 PROVE  /\ Follows(tables'[n], Texts(n)')
                        /\ \A i \in DOMAIN made'[n] :
                             Texts(n)'[i] \in Range(tables'[n]) \/ i = Len(made'[n])
      OBVIOUS
    <3>1. Follows(tables[n], Texts(n)) /\ tables'[n] = tables[n]
      BY <2>4 DEF History
    <3>2. Texts(n) \in Seq(Hash) /\ TextOf[c] \in Hash /\ tables[n] \in Seq(Hash)
      BY <1>0, TextsType, HashOf
    <3>3. Follows(tables'[n], Texts(n)')
      BY <2>7, <3>1, <3>2, FollowsMore
    <3>4. \A i \in DOMAIN made[n] : Texts(n)[i] \in Range(tables[n])
      BY <2>1, <2>3 DEF History
    <3>5. /\ DOMAIN made'[n] = 1 .. (Len(made[n]) + 1) /\ Len(made[n]) \in Nat
          /\ DOMAIN made[n] = 1 .. Len(made[n])
      <4>1. PICK s \in Seq(Content) : s = made[n]
        BY <1>0
      <4>2. DOMAIN Append(s, c) = 1 .. (Len(s) + 1) /\ Len(s) \in Nat /\ DOMAIN s = 1 .. Len(s)
        OBVIOUS
      <4> QED
        BY <2>2, <4>1, <4>2
    <3>6. \A i \in DOMAIN made[n] : Texts(n)'[i] = Texts(n)[i]
      BY <2>7, <3>2, AppendOf, TextsType
    <3>7. \A i \in DOMAIN made'[n] : i \in DOMAIN made[n] \/ i = Len(made'[n])
      BY <2>6, <3>5
    <3> QED
      BY <3>1, <3>3, <3>4, <3>6, <3>7
  <2>10. VERIFY \in running' \/ ended'[VERIFY].state # "none" =>
           TextOf[output'[IMPLEMENT]] \in Range(tables'[IMPLEMENT])
    <3>1. CASE n = IMPLEMENT
      <4>1. ~Active(VERIFY)
        BY <1>0, <2>1, <3>1 DEF Flow, Done
      <4> QED
        BY <1>0, <2>1, <2>2, <3>1, <4>1 DEF Active
    <3>2. CASE n # IMPLEMENT
      <4>1. output'[IMPLEMENT] = output[IMPLEMENT] /\ tables'[IMPLEMENT] = tables[IMPLEMENT]
        BY <1>0, <2>2, <2>4, <3>2
      <4>2. VERIFY \in running' \/ ended'[VERIFY].state # "none" =>
              VERIFY \in running \/ ended[VERIFY].state # "none"
        BY <1>0, <2>1, <2>2
      <4> QED
        BY <4>1, <4>2 DEF History
    <3> QED
      BY <3>1, <3>2
  <2>11. \A m \in Node :
           /\ m # IMPLEMENT => (made'[m] # <<>> => Standing(m)')
           /\ m \notin SelfNamed => \A i \in DOMAIN made'[m] :
                Texts(m)'[i] \in Range(tables'[m]) \/ (i = Len(made'[m]) /\ Standing(m)')
    <3> SUFFICES ASSUME NEW m \in Node
                 PROVE  /\ m # IMPLEMENT => (made'[m] # <<>> => Standing(m)')
                        /\ m \notin SelfNamed => \A i \in DOMAIN made'[m] :
                             Texts(m)'[i] \in Range(tables'[m]) \/ (i = Len(made'[m]) /\ Standing(m)')
      OBVIOUS
    <3>1. CASE m = n
      BY <2>3, <2>9, <3>1
    <3>2. CASE m # n
      BY <2>1, <2>2, <2>3, <2>4, <2>7, <3>2 DEF History
    <3> QED
      BY <3>1, <3>2
  <2>12. \A m \in Node :
           /\ NoRepeat(files'[m]) /\ NoRepeat(tables'[m])
           /\ output'[m] # "none" => made'[m] # <<>> /\ Last(made'[m]) = output'[m]
           /\ output'[m] = "none" => made'[m] = <<>> /\ tables'[m] = <<>>
           /\ m \in SelfNamed => /\ output'[m] # "none" => tables'[m] # <<>>
                                 /\ ArtifactThenText(tables'[m], output'[m])
           /\ m \notin SelfNamed => Follows(tables'[m], Texts(m)')
    <3> SUFFICES ASSUME NEW m \in Node
                 PROVE  /\ NoRepeat(files'[m]) /\ NoRepeat(tables'[m])
                        /\ output'[m] # "none" => made'[m] # <<>> /\ Last(made'[m]) = output'[m]
                        /\ output'[m] = "none" => made'[m] = <<>> /\ tables'[m] = <<>>
                        /\ m \in SelfNamed => /\ output'[m] # "none" => tables'[m] # <<>>
                                              /\ ArtifactThenText(tables'[m], output'[m])
                        /\ m \notin SelfNamed => Follows(tables'[m], Texts(m)')
      OBVIOUS
    <3>1. CASE m = n
      BY <2>2, <2>5, <2>6, <2>8, <2>9, <3>1
    <3>2. CASE m # n
      BY <2>2, <2>4, <2>7, <3>2 DEF History
    <3> QED
      BY <3>1, <3>2
  <2> QED
    BY <2>10, <2>11, <2>12 DEF History
\* A batch is collected.
<1>13. ASSUME BatchIsBack, UNCHANGED <<running, made, files, tables, output>>,
              state' = "working" =>
                \A n \in Node : Standing(n) => Standing(n)' \/
                  (n = IMPLEMENT /\ \A i \in DOMAIN made[n] : Texts(n)[i] \in Range(tables[n]))
       PROVE  History'
  <2>1. running' = {} /\ ended'[VERIFY].state = "none" /\ state = "working"
    BY <1>0, <1>13, EmptyResult DEF BatchIsBack
  <2> QED
    BY <1>2, <1>13, <2>1
<1>14. ASSUME BatchIsBack, Reached = Ended, NEW n \in Node, Standing(n)
       PROVE  Collected[n].state = "completed"
  BY <1>14, CollectedType DEF Standing, Ended, Flow
<1>15. CASE CollectAndStop
  <2>1. state' # "working"
    BY <1>15 DEF CollectAndStop
  <2> QED
    BY <1>13, <1>15, <2>1 DEF CollectAndStop
<1>16. CASE CollectAndRepair
  <2>1. /\ BatchIsBack /\ UNCHANGED <<state, running, made, files, tables, output>> /\ Fatal = {}
        /\ ended[VERIFY].state = "failed" /\ VERIFY \in Ended
        /\ \A n \in Node : results'[n] = IF n \in Discarded THEN NoResult ELSE Collected[n]
    BY <1>16, CollectedType DEF CollectAndRepair, Repairable
  <2>2. Reached = Ended
    BY <2>1 DEF Reached
  <2>3. ~Standing(VERIFY)
    BY <1>0, <2>1 DEF Standing, Flow
  <2>4. \A i \in DOMAIN made[IMPLEMENT] : Texts(IMPLEMENT)[i] \in Range(tables[IMPLEMENT])
    <3>1. TextOf[output[IMPLEMENT]] \in Range(tables[IMPLEMENT])
      BY <2>1 DEF History
    <3>2. output[IMPLEMENT] # "none"
      <4>1. IMPLEMENT \in Done({"completed"})
        BY <1>0, <2>1 DEF Flow, Active, Ended
      <4> QED
        BY <4>1 DEF Lineage, Done
    <3>3. made[IMPLEMENT] # <<>> /\ Last(made[IMPLEMENT]) = output[IMPLEMENT]
      BY <1>0, <3>2 DEF History
    <3>4. Texts(IMPLEMENT)[Len(made[IMPLEMENT])] = TextOf[output[IMPLEMENT]]
      BY <1>0, <3>3, TextsType
    <3>5. state = "working"
      BY <2>1 DEF BatchIsBack
    <3> QED
      BY <1>0, <1>a, <3>1, <3>4, <3>5 DEF History
  <2>5. \A n \in Node \ Discarded : Standing(n) => Standing(n)'
    BY <1>14, <2>1, <2>2 DEF Standing
  <2> QED
    BY <1>13, <2>1, <2>3, <2>4, <2>5 DEF Discarded
<1>17. ASSUME NEW seam \in BOOLEAN, CollectAndContinue(seam) PROVE History'
  <2>1. /\ BatchIsBack /\ UNCHANGED <<state, running, made, files, tables, output>> /\ results' = Collected
        /\ \A n \in Ended : ended[n].state = "completed"
    BY <1>17 DEF CollectAndContinue
  <2>2. Reached = Ended
    BY <2>1 DEF Reached, Fatal
  <2>3. \A n \in Node : Standing(n) => Standing(n)'
    BY <1>14, <2>1, <2>2 DEF Standing
  <2> QED
    BY <1>13, <2>1, <2>3
<1>18. CASE Finish \/ Stop
  <2>1. UNCHANGED <<running, ended, made, files, tables, output>> /\ state' # "working"
    BY <1>18 DEF Finish, Stop
  <2> QED
    BY <1>2, <2>1
<1> QED
  BY <1>1, <1>4, <1>5, <1>6, <1>7, <1>9, <1>10, <1>11, <1>12, <1>15, <1>16, <1>17, <1>18 DEF Next

\* A rerun that changes nothing is no revision, and the history of
\* "<node>.json" is the texts of what its node made, in that order, without
\* gaps or repetitions, or the artifact of that name and then its text, where
\* that was cut (record_production, record_consumption, _inputs_for, _as_text).
THEOREM HistoryIsHonestCorrect == Spec => []HistoryIsHonest
<1>1. Init => History
  <2> SUFFICES ASSUME Init PROVE History
    OBVIOUS
  <2>1. \A n \in Node : /\ made[n] = <<>> /\ files[n] = <<>> /\ tables[n] = <<>>
                        /\ output[n] = "none" /\ ended[n] = NoResult
    BY DEF Init
  <2>2. /\ NoRepeat(<<>>) /\ \A c : ArtifactThenText(<<>>, c)
        /\ \A r : Follows(<<>>, r)
    BY DEF NoRepeat, Follows, ArtifactThenText
  <2>3. running = {} /\ VERIFY \in Node
    BY Stages DEF Init
  <2> QED
    BY <2>1, <2>2, <2>3, EmptyResult DEF History
<1>2. RecordType /\ History => HistoryIsHonest
  <2> SUFFICES ASSUME RecordType, History, NEW n \in Node
               PROVE  /\ \A i \in DOMAIN files[n] \ {1} : files[n][i] # files[n][i - 1]
                      /\ \A i \in DOMAIN tables[n] \ {1} : tables[n][i] # tables[n][i - 1]
                      /\ n \in SelfNamed /\ tables[n] # <<>> =>
                             /\ output[n] # "none"
                             /\ tables[n][1] = ArtifactOf[output[n]]
                             /\ \A i \in DOMAIN tables[n] \ {1} :
                                  i = 2 /\ tables[n][i] = TextOf[output[n]]
                      /\ n \notin SelfNamed =>
                           \A i \in DOMAIN tables[n] :
                             /\ tables[n][i] \in {TextOf[made[n][k]] : k \in DOMAIN made[n]}
                             /\ Before(n, tables[n][i]) = {tables[n][j] : j \in 1 .. (i - 1)}
    BY DEF HistoryIsHonest
  <2>1. NoRepeat(files[n]) /\ NoRepeat(tables[n])
    BY DEF History
  <2>2. n \in SelfNamed => /\ tables[n] # <<>> => output[n] # "none"
                           /\ ArtifactThenText(tables[n], output[n])
    BY DEF History
  <2>3. n \notin SelfNamed => Follows(tables[n], Texts(n))
    BY DEF History
  <2>4. PICK t : t = Texts(n)
    OBVIOUS
  <2>5. DOMAIN t = DOMAIN made[n] /\ \A k \in DOMAIN made[n] : t[k] = TextOf[made[n][k]]
    BY <2>4 DEF Texts
  <2>6. \A k \in DOMAIN made[n] : 1 .. k \subseteq DOMAIN made[n]
    BY TextsType
  <2>7. Range(t) = {TextOf[made[n][k]] : k \in DOMAIN made[n]}
    BY <2>5 DEF Range
  <2>8. \A x : Before(n, x) = Earlier(t, x)
    BY <2>5, <2>6, Zenon DEF Before, Earlier
  <2> QED
    BY <2>1, <2>2, <2>3, <2>4, <2>7, <2>8 DEF NoRepeat, Follows, ArtifactThenText
<1> QED
  BY <1>1, <1>2, RecordTypeCorrect, FlowCorrect, LineageCorrect, HistoryNext, PTL DEF Spec

-----------------------------------------------------------------------------
(***************************************************************************)
(* What explain says.                                                      *)
(***************************************************************************)

\* Every start read what the plan says, whatever plan it is by now.
Wiring ==
  \A i \in DOMAIN edges :
    /\ edges[i].to \in plan.nodes /\ DOMAIN edges[i].read = plan.deps[edges[i].to]
    /\ edges[i].to = IMPLEMENT => results[DESIGN].state = "completed"

\* Every step keeps the edges those of the plan.
LEMMA WiringNext == RecordType /\ Flow /\ Lineage /\ Wiring /\ [Next]_vars => Wiring'
<1> SUFFICES ASSUME RecordType, Flow, Lineage, Wiring, [Next]_vars PROVE Wiring'
  OBVIOUS
<1>0. /\ \A n \in Node : plan.deps[n] \subseteq Node
      /\ DESIGN \in plan.deps[IMPLEMENT] /\ DESIGN \in Node /\ DESIGN \notin Discarded
  BY WiredPlan, Stages DEF RecordType, Discarded
<1>1. CASE UNCHANGED <<edges, plan, results>>
  BY <1>1 DEF Wiring
<1>2. ASSUME NEW n \in plan.nodes, FirstAttempt(n), plan.deps[n] \subseteq Done({"completed"}),
             UNCHANGED <<plan, results>>
      PROVE  Wiring'
  <2>0. n \in Node
    BY WiredPlan DEF RecordType
  <2>1. DOMAIN Inputs(n) = plan.deps[n]
    <3>1. DOMAIN Inputs(n) = {d \in plan.deps[n] : output[d] # "none"}
      BY <2>0, InputsType
    <3>2. \A d \in plan.deps[n] : output[d] # "none"
      BY <1>2 DEF Lineage, Done
    <3> QED
      BY <3>1, <3>2
  <2>2. n = IMPLEMENT => results[DESIGN].state = "completed"
    BY <1>0, <1>2 DEF Done
  <2>3. /\ \A i \in DOMAIN edges : edges'[i] = edges[i]
        /\ edges'[Len(edges) + 1] = [to |-> n, read |-> Inputs(n)]
        /\ \A i \in DOMAIN edges' : i \in DOMAIN edges \/ i = Len(edges) + 1
    BY <1>2, <2>0, StartsNext
  <2>4. /\ edges'[Len(edges) + 1].to = n /\ edges'[Len(edges) + 1].read = Inputs(n)
    BY <2>3
  <2> QED
    BY <1>2, <2>1, <2>2, <2>3, <2>4 DEF Wiring
<1>3. ASSUME NEW n \in Node, Start(n) PROVE Wiring'
  BY <1>2, <1>3, WaitingNode DEF Start
<1>4. ASSUME NEW n \in Node, Approve(n) PROVE Wiring'
  <2>1. n \in plan.nodes /\ plan.deps[n] \subseteq Done({"completed"}) /\ FirstAttempt(n)
    BY <1>4 DEF Approve, Awaits, Flow, Active
  <2> QED
    BY <1>2, <1>4, <2>1 DEF Approve
<1>5. ASSUME NEW n \in Node, Ask(n) \/ Retry(n) \/ Decline(n) \/ Raise(n) PROVE Wiring'
  BY <1>1, <1>5 DEF Ask, Retry, Decline, Raise
<1>6. ASSUME NEW n \in Node, NEW c \in Content, Complete(n, c) PROVE Wiring'
  BY <1>1, <1>6 DEF Complete
<1>7. ASSUME NEW n \in Node, NEW s, EndWithout(n, s) PROVE Wiring'
  BY <1>1, <1>7 DEF EndWithout
\* The design of a started implementation stays.
<1>8. ASSUME UNCHANGED edges, plan'.nodes = plan.nodes \cup {REFACTOR} \/ plan'.nodes = plan.nodes,
             \A i \in DOMAIN edges : plan'.deps[edges[i].to] = plan.deps[edges[i].to],
             results[DESIGN].state = "completed" => results'[DESIGN].state = "completed"
      PROVE  Wiring'
  BY <1>8 DEF Wiring
<1>9. results[DESIGN].state = "completed" => Collected[DESIGN].state = "completed"
  BY <1>0, CollectedType DEF Flow, Reached, Ended
<1>10. CASE CollectAndStop
  BY <1>8, <1>9, <1>10 DEF CollectAndStop
<1>11. CASE CollectAndRepair
  <2>1. results'[DESIGN] = Collected[DESIGN]
    BY <1>0, <1>11, CollectedType DEF CollectAndRepair
  <2> QED
    BY <1>8, <1>9, <1>11, <2>1 DEF CollectAndRepair
<1>12. ASSUME NEW seam \in BOOLEAN, CollectAndContinue(seam) PROVE Wiring'
  <2>1. UNCHANGED edges /\ results' = Collected
    BY <1>12 DEF CollectAndContinue
  <2>2. CASE ~seam
    BY <1>8, <1>9, <1>12, <2>1, <2>2 DEF CollectAndContinue
  <2>3. CASE seam
    <3>1. IMPACT \in Ended /\ REFACTOR \notin plan.nodes /\ plan' = Revise(plan)
      BY <1>12, <2>3 DEF CollectAndContinue, NeedsSeam
    <3>2. results[DESIGN].state # "completed"
      BY <3>1, SurveyIsOver DEF Active
    <3>3. \A i \in DOMAIN edges : edges[i].to \in Node \ {IMPLEMENT, REFACTOR}
      <4>1. plan.nodes \subseteq Node
        BY WiredPlan DEF RecordType
      <4> QED
        BY <3>1, <3>2, <4>1 DEF Wiring
    <3>4. /\ plan'.nodes = plan.nodes \cup {REFACTOR}
          /\ \A n \in Node \ {IMPLEMENT, REFACTOR} : plan'.deps[n] = plan.deps[n]
      BY <3>1, RevisedPlan DEF RecordType
    <3> QED
      BY <1>8, <1>9, <2>1, <3>3, <3>4
  <2> QED
    BY <2>2, <2>3
<1>13. CASE Finish \/ Stop
  BY <1>1, <1>13 DEF Finish, Stop
<1>14. CASE UNCHANGED vars
  BY <1>1, <1>14 DEF vars
<1> QED
  BY <1>3, <1>4, <1>5, <1>6, <1>7, <1>10, <1>11, <1>12, <1>13, <1>14 DEF Next

\* Every start read the output of each dependency the node has in the current
\* plan, although the plan may have been revised since: a revision finds what
\* it rewires untouched (_inputs_for, Planner.revise).
THEOREM WiringCorrect == Spec => []Wiring
<1>1. Init => Wiring
  BY DEF Init, Wiring
<1> QED
  BY <1>1, RecordTypeCorrect, FlowCorrect, LineageCorrect, WiringNext, PTL DEF Spec

\* up holds what the paths of each length lead to, from n's sources on.
Reaches(src, n, K, up) ==
  up = [k \in 0 .. K |-> IF k = 0 THEN src[n]
                         ELSE up[k - 1] \cup UNION {src[m] : m \in up[k - 1]}]

\* Each number up to a bound has a function that is computed by the rule up to
\* it, and so has the bound.
LEMMA ReachExists ==
  ASSUME NEW src, NEW n, NEW K \in Nat
  PROVE  \E g : Reaches(src, n, K, g)
<1> DEFINE Rule(g, k) == IF k = 0 THEN src[n] ELSE g[k - 1] \cup UNION {src[m] : m \in g[k - 1]}
           Computed(j) == \E g : DOMAIN g = 0 .. j /\ \A k \in 0 .. j : g[k] = Rule(g, k)
<1>1. Computed(0)
  <2> DEFINE h == [k \in 0 .. 0 |-> src[n]]
  <2>1. DOMAIN h = 0 .. 0 /\ \A k \in 0 .. 0 : h[k] = Rule(h, k)
    OBVIOUS
  <2> QED
    BY <2>1
<1>2. ASSUME NEW j \in Nat, Computed(j) PROVE Computed(j + 1)
  <2>1. PICK g : DOMAIN g = 0 .. j /\ \A k \in 0 .. j : g[k] = Rule(g, k)
    BY <1>2
  <2>2. PICK new : new = g[j] \cup UNION {src[m] : m \in g[j]}
    OBVIOUS
  <2> DEFINE h == [k \in 0 .. (j + 1) |-> IF k = j + 1 THEN new ELSE g[k]]
  <2>3. ASSUME NEW k \in 0 .. (j + 1) PROVE h[k] = Rule(h, k)
    <3>1. CASE k = 0
      <4>1. 0 \in 0 .. j /\ h[0] = g[0] /\ g[0] = src[n]
        BY <2>1
      <4> QED
        BY <3>1, <4>1
    <3>2. CASE k \in 1 .. j
      <4>1. k - 1 \in 0 .. (j + 1) /\ k - 1 # j + 1 /\ k # 0 /\ k # j + 1 /\ k \in 0 .. j
        BY <3>2
      <4>2. h[k] = g[k] /\ h[k - 1] = g[k - 1]
        BY <4>1
      <4>3. g[k] = g[k - 1] \cup UNION {src[m] : m \in g[k - 1]}
        BY <2>1, <4>1
      <4> HIDE DEF h
      <4> QED
        BY <4>1, <4>2, <4>3
    <3>3. CASE k = j + 1
      <4>1. h[k] = new /\ k # 0 /\ k - 1 = j /\ j \in 0 .. (j + 1) /\ j # j + 1
        BY <3>3
      <4>2. h[k - 1] = g[j]
        BY <4>1
      <4> HIDE DEF h
      <4> QED
        BY <2>2, <4>1, <4>2
    <3> QED
      BY <3>1, <3>2, <3>3
  <2>4. DOMAIN h = 0 .. (j + 1)
    OBVIOUS
  <2> HIDE DEF h
  <2>5. \A k \in 0 .. (j + 1) : h[k] = Rule(h, k)
    BY <2>3
  <2> QED
    BY <2>4, <2>5
<1> HIDE DEF Computed
<1>3. Computed(K)
  <2> SUFFICES ASSUME ~Computed(K) PROVE FALSE
    OBVIOUS
  <2> DEFINE Not == {j \in Nat : ~Computed(j)}
  <2>1. PICK j \in Not : \A i \in Not : j <= i
    <3>1. Not \subseteq Nat /\ Not # {}
      OBVIOUS
    <3> HIDE DEF Not
    <3> QED
      BY <3>1, LeastOne
  <2>2. j # 0
    BY <1>1
  <2>3. j - 1 \in Nat /\ ~(j <= j - 1) /\ (j - 1) + 1 = j
    BY <2>2
  <2>4. Computed(j - 1)
    BY <2>1, <2>3
  <2>5. Computed((j - 1) + 1)
    BY <1>2, <2>3, <2>4
  <2> QED
    BY <2>3, <2>5
<1>4. PICK g : DOMAIN g = 0 .. K /\ \A k \in 0 .. K : g[k] = Rule(g, k)
  BY <1>3 DEF Computed
<1>5. PICK h : h = [k \in 0 .. K |-> g[k]]
  OBVIOUS
<1>6. \A k \in 0 .. K : h[k] = Rule(h, k)
  <2> SUFFICES ASSUME NEW k \in 0 .. K PROVE h[k] = Rule(h, k)
    OBVIOUS
  <2>1. h[k] = g[k] /\ g[k] = Rule(g, k)
    BY <1>4, <1>5
  <2>2. k # 0 => k - 1 \in 0 .. K
    OBVIOUS
  <2>3. k # 0 => h[k - 1] = g[k - 1]
    BY <1>5, <2>2
  <2> QED
    BY <2>1, <2>3
<1>7. h = [k \in 0 .. K |-> Rule(h, k)]
  BY <1>5, <1>6
<1> QED
  BY <1>7 DEF Reaches

\* After as many turns as there are nodes nothing new is reached: what explain
\* names is the least set that holds the node's sources and theirs.
LEMMA ExplainIsClosed ==
  ASSUME NEW n \in Node, \A m \in Node : Sources(m) \subseteq Node
  PROVE  /\ Explain(n) \subseteq Node
         /\ Sources(n) \subseteq Explain(n)
         /\ \A m \in Explain(n) : Sources(m) \subseteq Explain(n)
         /\ \A S : Sources(n) \subseteq S /\ (\A m \in S \cap Node : Sources(m) \subseteq S) => Explain(n) \subseteq S
<1> DEFINE sources == [m \in Node |-> Sources(m)]
           K == Cardinality(Node)
           Rule(g, k) == IF k = 0 THEN sources[n] ELSE g[k - 1] \cup UNION {sources[m] : m \in g[k - 1]}
<1>0. K \in Nat /\ \A m \in Node : sources[m] = Sources(m)
  BY StagesAreFinite
<1>1. PICK up : /\ up = [k \in 0 .. K |-> Rule(up, k)]
                /\ Explain(n) = up[K]
  <2> HIDE DEF sources, K
  <2>1. \E g : Reaches(sources, n, K, g)
    BY <1>0, ReachExists
  <2>2. PICK up : up = CHOOSE g : Reaches(sources, n, K, g)
    OBVIOUS
  <2>3. Reaches(sources, n, K, up)
    BY <2>1, <2>2, Zenon
  <2>4. Explain(n) = up[K]
    BY <2>2, Zenon DEF Explain, Reaches, sources, K
  <2> QED
    BY <2>3, <2>4 DEF Reaches
<1> HIDE DEF sources, K
<1>2. /\ up[0] = Sources(n)
      /\ \A k \in 1 .. K : up[k] = up[k - 1] \cup UNION {sources[m] : m \in up[k - 1]}
  <2>1. \A k \in 0 .. K : up[k] = Rule(up, k)
    <3> HIDE DEF Rule
    <3> QED
      BY <1>1
  <2>2. 0 \in 0 .. K /\ \A k \in 1 .. K : k \in 0 .. K /\ k # 0
    BY <1>0
  <2>3. \A k \in 1 .. K : up[k] = up[k - 1] \cup UNION {sources[m] : m \in up[k - 1]}
    BY <2>1, <2>2, Zenon
  <2>4. up[0] = sources[n]
    BY <2>1, <2>2, Zenon
  <2> QED
    BY <1>0, <2>3, <2>4
<1>3. \A k \in 1 .. K : k - 1 \in 0 .. K /\ k \in 0 .. K /\ ~(k <= k - 1) /\ k \in Nat /\ k - 1 \in Nat
  BY <1>0
\* Induction, for whatever holds at the start and is kept.
<1>4. ASSUME NEW P, P \subseteq 0 .. K, 0 \in P, \A k \in 1 .. K : k - 1 \in P => k \in P
      PROVE  0 .. K \subseteq P
  <2> SUFFICES ASSUME ~(0 .. K \subseteq P) PROVE FALSE
    OBVIOUS
  <2> DEFINE Not == (0 .. K) \ P
  <2>1. PICK k \in Not : \A i \in Not : k <= i
    <3>1. Not \subseteq Nat /\ Not # {}
      BY <1>0
    <3> HIDE DEF Not
    <3> QED
      BY <3>1, LeastOne
  <2>2. k \in 1 .. K
    BY <1>0, <1>4
  <2> QED
    BY <1>3, <1>4, <2>1, <2>2
<1>5. \A k \in 0 .. K : up[k] \subseteq Node /\ Sources(n) \subseteq up[k]
  <2> DEFINE P == {k \in 0 .. K : up[k] \subseteq Node /\ Sources(n) \subseteq up[k]}
  <2>1. 0 \in P
    BY <1>0, <1>2
  <2>2. ASSUME NEW k \in 1 .. K, k - 1 \in P PROVE k \in P
    <3>1. up[k - 1] \subseteq Node /\ Sources(n) \subseteq up[k - 1]
      BY <2>2
    <3>2. up[k] \subseteq Node /\ Sources(n) \subseteq up[k]
      BY <1>0, <1>2, <3>1
    <3> QED
      BY <1>3, <3>2
  <2>3. P \subseteq 0 .. K
    OBVIOUS
  <2>4. 0 .. K \subseteq P
    <3> HIDE DEF P
    <3> QED
      BY <1>4, <2>1, <2>2, <2>3
  <2> QED
    BY <2>4
<1>6. \A k \in 0 .. K : IsFiniteSet(up[k]) /\ Cardinality(up[k]) \in Nat
  BY <1>5, StagesAreFinite, FS_Subset, FS_CardinalityType
<1> DEFINE Closed(k) == \A m \in up[k] : sources[m] \subseteq up[k]
\* As long as it is not closed it grows.
<1>7. \A k \in 0 .. K : Closed(k) \/ Cardinality(up[k]) >= k
  <2> DEFINE P == {k \in 0 .. K : Closed(k) \/ Cardinality(up[k]) >= k}
  <2>1. 0 \in P
    <3>1. 0 \in 0 .. K
      BY <1>0
    <3> QED
      BY <1>6, <3>1
  <2>2. ASSUME NEW k \in 1 .. K, k - 1 \in P PROVE k \in P
    <3>0. up[k] = up[k - 1] \cup UNION {sources[m] : m \in up[k - 1]}
      BY <1>2
    <3>1. CASE Closed(k - 1)
      <4>1. up[k] = up[k - 1]
        BY <3>0, <3>1
      <4>2. Closed(k)
        BY <3>1, <4>1
      <4> QED
        BY <1>3, <4>2
    <3>2. CASE ~Closed(k - 1)
      <4>1. up[k - 1] \subseteq up[k] /\ up[k - 1] # up[k]
        BY <3>0, <3>2
      <4>2. Cardinality(up[k - 1]) >= k - 1
        BY <2>2, <3>2
      <4>3. /\ IsFiniteSet(up[k]) /\ Cardinality(up[k]) \in Nat
            /\ Cardinality(up[k - 1]) \in Nat /\ k \in Nat /\ k \in 0 .. K
        BY <1>3, <1>6
      <4>4. Cardinality(up[k - 1]) <= Cardinality(up[k]) /\ Cardinality(up[k - 1]) # Cardinality(up[k])
        BY <4>1, <4>3, FS_Subset
      <4>5. Cardinality(up[k]) >= k
        BY <4>2, <4>3, <4>4
      <4> QED
        BY <4>3, <4>5
    <3> QED
      BY <3>1, <3>2
  <2>3. P \subseteq 0 .. K
    OBVIOUS
  <2>4. 0 .. K \subseteq P
    <3> HIDE DEF P
    <3> QED
      BY <1>4, <2>1, <2>2, <2>3
  <2> QED
    BY <2>4
<1>8. K \in 0 .. K
  BY <1>0
<1>9. Closed(K)
  <2>1. CASE Cardinality(up[K]) >= K
    <3>1. Cardinality(up[K]) <= K /\ (Cardinality(up[K]) = K => up[K] = Node)
      BY <1>5, <1>8, StagesAreFinite, FS_Subset DEF K
    <3>2. up[K] = Node
      BY <1>0, <1>6, <1>8, <2>1, <3>1
    <3> QED
      BY <1>0, <3>2
  <2> QED
    BY <1>7, <1>8, <2>1
<1>10. ASSUME NEW S, Sources(n) \subseteq S, \A m \in S \cap Node : Sources(m) \subseteq S
       PROVE  up[K] \subseteq S
  <2> DEFINE P == {k \in 0 .. K : up[k] \subseteq S}
  <2>1. 0 \in P
    BY <1>0, <1>2, <1>10
  <2>2. ASSUME NEW k \in 1 .. K, k - 1 \in P PROVE k \in P
    <3>1. up[k - 1] \subseteq S /\ up[k - 1] \subseteq Node
      BY <1>3, <1>5, <2>2
    <3>2. up[k] \subseteq S
      BY <1>0, <1>2, <1>10, <3>1
    <3> QED
      BY <1>3, <3>2
  <2>3. P \subseteq 0 .. K
    OBVIOUS
  <2>4. 0 .. K \subseteq P
    <3> HIDE DEF P
    <3> QED
      BY <1>4, <2>1, <2>2, <2>3
  <2> QED
    BY <1>8, <2>4
<1>11. \A m \in up[K] : Sources(m) \subseteq up[K]
  BY <1>0, <1>5, <1>8, <1>9
<1> QED
  BY <1>1, <1>5, <1>8, <1>10, <1>11

\* In a graph without cycles no node is in every closed set its dependencies
\* are in.
LEMMA NotItsOwnAncestor ==
  ASSUME NEW p, Wired(p), NEW n \in p.nodes
  PROVE  \E S \in SUBSET p.nodes :
           p.deps[n] \subseteq S /\ (\A m \in S : p.deps[m] \subseteq S) /\ n \notin S
<1> DEFINE Closed(S) == \A m \in S : p.deps[m] \subseteq S
           Leads == {m \in p.nodes : \A S \in SUBSET p.nodes : p.deps[m] \subseteq S /\ Closed(S) => n \in S}
           Rest == p.nodes \ (Leads \cup {n})
<1>0. \A m \in p.nodes : p.deps[m] \subseteq p.nodes
  BY WiredPlan
<1>1. SUFFICES ASSUME n \in Leads PROVE FALSE
  OBVIOUS
<1>2. Closed(Rest)
  <2> SUFFICES ASSUME NEW m \in Rest, NEW d \in p.deps[m], d \in Leads \cup {n} PROVE FALSE
    BY <1>0
  <2>1. ASSUME NEW S \in SUBSET p.nodes, p.deps[m] \subseteq S, Closed(S) PROVE n \in S
    BY <2>1
  <2>2. m \in Leads
    BY <2>1
  <2> QED
    BY <2>2
<1>3. PICK m \in Leads : p.deps[m] \cap Leads = {}
  <2>1. Leads \in SUBSET p.nodes /\ Leads # {}
    BY <1>1
  <2> HIDE DEF Leads
  <2> QED
    BY <2>1, WiredPlan
<1>4. p.deps[m] \subseteq Rest
  BY <1>0, <1>1, <1>3
<1>5. Rest \in SUBSET p.nodes /\ n \notin Rest
  OBVIOUS
<1> QED
  BY <1>2, <1>3, <1>4, <1>5

\* A plan is revised once, and what a run works by is a plan it was given or
\* the revision of one.
PlanIsAdopted == plan \in Adopted

LEMMA AdoptedCorrect == Spec => []PlanIsAdopted
<1>1. Init => PlanIsAdopted
  BY DEF Init, Adopted, PlanIsAdopted
<1>2. PlanIsAdopted /\ [Next]_vars => PlanIsAdopted'
  <2> SUFFICES ASSUME plan \in Adopted, [Next]_vars PROVE plan' \in Adopted
    BY DEF PlanIsAdopted, Adopted
  <2>1. CASE \E seam \in BOOLEAN : CollectAndContinue(seam)
    <3>1. PICK seam \in BOOLEAN : CollectAndContinue(seam)
      BY <2>1
    <3>2. CASE seam
      <4>1. plan' = Revise(plan) /\ REFACTOR \notin plan.nodes
        BY <3>1, <3>2 DEF CollectAndContinue, NeedsSeam
      <4>2. \A p \in Plans : REFACTOR \in Revise(p).nodes
        BY DEF Revise
      <4> QED
        BY <4>1, <4>2 DEF Adopted
    <3>3. CASE ~seam
      BY <3>1, <3>3 DEF CollectAndContinue
    <3> QED
      BY <3>2, <3>3
  <2>2. CASE ~ \E seam \in BOOLEAN : CollectAndContinue(seam)
    <3>1. plan' = plan
      BY <2>2 DEF Next, vars, Start, Ask, Approve, Retry, Decline, Complete, EndWithout,
           Raise, CollectAndStop, CollectAndRepair, Finish, Stop
    <3> QED
      BY <3>1
  <2> QED
    BY <2>1, <2>2
<1> QED
  BY <1>1, <1>2, PTL DEF Spec

\* What explain says of a delivered file names every node that had a part in
\* it, and no other (_explain_node).
THEOREM ProvenanceIsWholeCorrect == Spec => []ProvenanceIsWhole
<1>1. RecordType /\ Flow /\ Lineage /\ Wiring /\ PlanIsAdopted => ProvenanceIsWhole
  <2> SUFFICES ASSUME RecordType, Flow, Lineage, Wiring, PlanIsAdopted,
                      NEW n \in Done({"completed"})
               PROVE  Explain(n) = Upstream[plan][n]
    BY DEF ProvenanceIsWhole
  <2> DEFINE D == Done({"completed"})
             deps == plan.deps
             U == Explain(n)
  <2>1. ASSUME NEW m \in D
        PROVE  m \in Node /\ m \in plan.nodes /\ deps[m] \subseteq D /\ Sources(m) = deps[m]
    <3>1. m \in Node /\ Active(m) /\ Current(m)
      BY <2>1 DEF Done, Active, Lineage, Dispatched
    <3>2. Starts(m) # {} /\ \A i \in Starts(m) : DOMAIN edges[i].read = deps[m]
      BY <3>1 DEF Current, Starts, Wiring
    <3>3. Sources(m) = deps[m]
      BY <3>2 DEF Sources
    <3> QED
      BY <3>1, <3>3 DEF Flow
  <2>2. \A m \in Node : Sources(m) \subseteq Node
    <3> SUFFICES ASSUME NEW m \in Node, NEW i \in Starts(m) PROVE DOMAIN edges[i].read \subseteq Node
      BY DEF Sources
    <3>1. edges[i].to \in plan.nodes /\ DOMAIN edges[i].read = plan.deps[edges[i].to]
      BY DEF Starts, Wiring
    <3>2. plan.nodes \subseteq Node /\ \A x \in Node : plan.deps[x] \subseteq plan.nodes
      BY WiredPlan DEF RecordType
    <3> QED
      BY <3>1, <3>2
  <2>3. n \in D /\ n \in Node /\ n \in plan.nodes /\ D \subseteq plan.nodes
    BY <2>1
  <2>4. /\ U \subseteq Node
        /\ Sources(n) \subseteq U
        /\ \A m \in U : Sources(m) \subseteq U
        /\ \A S : Sources(n) \subseteq S /\ (\A m \in S \cap Node : Sources(m) \subseteq S) => U \subseteq S
    BY <2>2, <2>3, ExplainIsClosed
  <2> HIDE DEF D, U
  <2>5. U \subseteq D
    <3>1. Sources(n) \subseteq D /\ \A m \in D \cap Node : Sources(m) \subseteq D
      BY <2>1, <2>3
    <3> QED
      BY <2>4, <3>1
  <2>6. U \in SUBSET plan.nodes /\ deps[n] \subseteq U /\ \A m \in U : deps[m] \subseteq U
    BY <2>1, <2>3, <2>4, <2>5
  <2>7. ASSUME NEW S \in SUBSET plan.nodes, deps[n] \subseteq S, \A m \in S : deps[m] \subseteq S
        PROVE  U \subseteq S
    <3>1. Sources(n) \subseteq S \cap D
      BY <2>1, <2>3, <2>7
    <3>2. \A m \in (S \cap D) \cap Node : Sources(m) \subseteq S \cap D
      BY <2>1, <2>7
    <3> QED
      BY <2>4, <3>1, <3>2
  <2>8. n \notin U
    <3>1. PICK S \in SUBSET plan.nodes :
            deps[n] \subseteq S /\ (\A m \in S : deps[m] \subseteq S) /\ n \notin S
      BY <2>3, NotItsOwnAncestor DEF RecordType
    <3> QED
      BY <2>7, <3>1
  <2>9. \A m : m \in Ancestors(plan, n) <=>
          /\ m \in plan.nodes /\ m # n
          /\ \A S \in SUBSET plan.nodes :
               deps[n] \subseteq S /\ (\A x \in S : deps[x] \subseteq S) => m \in S
    BY DEF Ancestors
  <2>10. \A m : m \in Ancestors(plan, n) <=> m \in U
    <3>1. ASSUME NEW m \in U PROVE m \in Ancestors(plan, n)
      BY <2>6, <2>7, <2>8, <2>9
    <3>2. ASSUME NEW m \in Ancestors(plan, n) PROVE m \in U
      BY <2>6, <2>9
    <3> QED
      BY <3>1, <3>2
  <2>11. Upstream[plan][n] = Ancestors(plan, n)
    BY <2>3 DEF Upstream, PlanIsAdopted
  <2> QED
    BY <2>10, <2>11 DEF U
<1> QED
  BY <1>1, RecordTypeCorrect, FlowCorrect, LineageCorrect, WiringCorrect, AdoptedCorrect, PTL

-----------------------------------------------------------------------------
(***************************************************************************)
(* The accounts.                                                           *)
(***************************************************************************)

\* A quantity of the nodes is counted in units.
LEMMA InUnits ==
  ASSUME NEW of, NEW u
  PROVE  u \in Units(of) <=> \E n \in Node : \E i \in 1 .. of[n] : u = <<n, i>>
BY DEF Units

\* A total is a number.
LEMMA TotalType ==
  ASSUME NEW of, \A n \in Node : of[n] \in Nat
  PROVE  IsFiniteSet(Units(of)) /\ Total(of) \in Nat
<1> DEFINE f == [n \in Node |-> {n} \X (1 .. of[n])]
           T == {{n} \X (1 .. of[n]) : n \in Node}
<1>1. f \in Surjection(Node, T)
  BY DEF Surjection
<1>2. IsFiniteSet(T)
  <2> HIDE DEF f, T
  <2> QED
    BY <1>1, StagesAreFinite, FS_Surjection
<1>3. ASSUME NEW n \in Node PROVE IsFiniteSet({n} \X (1 .. of[n]))
  <2>0. of[n] \in Int /\ 1 \in Int
    OBVIOUS
  <2>1. IsFiniteSet({n}) /\ of[n] \in Int /\ 1 \in Int
    BY <2>0, FS_Singleton, Zenon
  <2>2. IsFiniteSet(1 .. of[n])
    BY <2>1, FS_Interval
  <2> QED
    BY <2>1, <2>2, FS_Product
<1>4. \A S \in T : IsFiniteSet(S)
  BY <1>3
<1>5. IsFiniteSet(UNION T)
  <2> HIDE DEF T
  <2> QED
    BY <1>2, <1>4, FS_UNION
<1>6. IsFiniteSet(Units(of))
  BY <1>5 DEF Units
<1> QED
  BY <1>6, FS_CardinalityType DEF Total

\* The total moves by what one node's quantity moves.
LEMMA TotalAdd ==
  ASSUME NEW of, \A m \in Node : of[m] \in Nat, NEW n \in Node, NEW k \in Nat, NEW with,
         \A m \in Node : with[m] = IF m = n THEN of[m] + k ELSE of[m]
  PROVE  Total(with) = Total(of) + k
<1> DEFINE New == {n} \X ((of[n] + 1) .. (of[n] + k))
<1>1. Units(with) = Units(of) \cup New
  <2>1. \A i : i \in 1 .. (of[n] + k) <=> i \in 1 .. of[n] \/ i \in (of[n] + 1) .. (of[n] + k)
    OBVIOUS
  <2>2. \A u : u \in New <=> \E i \in (of[n] + 1) .. (of[n] + k) : u = <<n, i>>
    OBVIOUS
  <2>3. \A u : u \in Units(with) <=> u \in Units(of) \cup New
    <3>1. ASSUME NEW u \in Units(with) PROVE u \in Units(of) \cup New
      <4>1. PICK m \in Node : \E i \in 1 .. with[m] : u = <<m, i>>
        BY InUnits
      <4>2. PICK i \in 1 .. with[m] : u = <<m, i>>
        BY <4>1
      <4>3. CASE m = n
        <5>1. i \in 1 .. of[n] \/ i \in (of[n] + 1) .. (of[n] + k)
          BY <2>1, <4>2, <4>3
        <5> QED
          BY <2>2, <4>2, <4>3, <5>1, InUnits
      <4>4. CASE m # n
        BY <4>2, <4>4, InUnits
      <4> QED
        BY <4>3, <4>4
    <3>2. ASSUME NEW u \in Units(of) PROVE u \in Units(with)
      <4>1. PICK m \in Node : \E i \in 1 .. of[m] : u = <<m, i>>
        BY InUnits
      <4>2. PICK i \in 1 .. of[m] : u = <<m, i>>
        BY <4>1
      <4>3. i \in 1 .. with[m]
        BY <4>2
      <4> QED
        BY <4>2, <4>3, InUnits
    <3>3. ASSUME NEW u \in New PROVE u \in Units(with)
      <4>1. PICK i \in (of[n] + 1) .. (of[n] + k) : u = <<n, i>>
        BY <2>2
      <4>2. i \in 1 .. with[n]
        BY <2>1, <4>1
      <4> QED
        BY <4>1, <4>2, InUnits
    <3> QED
      BY <3>1, <3>2, <3>3
  <2> QED
    BY <2>3
<1>2. Units(of) \cap New = {}
  <2> SUFFICES ASSUME NEW u \in Units(of), u \in New PROVE FALSE
    OBVIOUS
  <2>1. PICK m \in Node : \E i \in 1 .. of[m] : u = <<m, i>>
    BY InUnits
  <2>2. PICK i \in 1 .. of[m] : u = <<m, i>>
    BY <2>1
  <2>3. PICK j \in (of[n] + 1) .. (of[n] + k) : u = <<n, j>>
    OBVIOUS
  <2>4. m = n /\ i = j
    BY <2>2, <2>3
  <2> QED
    BY <2>2, <2>3, <2>4
<1>3. IsFiniteSet(New) /\ Cardinality(New) = k
  <2>1. PICK a \in Int, b \in Int : a = of[n] + 1 /\ b = of[n] + k
    OBVIOUS
  <2>2. b - a + 1 = k /\ (a > b <=> k = 0)
    BY <2>1
  <2>3. IsFiniteSet(a .. b) /\ Cardinality(a .. b) = IF a > b THEN 0 ELSE b - a + 1
    BY FS_Interval
  <2>4. Cardinality(a .. b) = k
    BY <2>2, <2>3, Zenon
  <2>5. IsFiniteSet({n}) /\ Cardinality({n}) = 1
    BY FS_Singleton
  <2>6. IsFiniteSet({n} \X (a .. b)) /\ Cardinality({n} \X (a .. b)) = 1 * k
    BY <2>3, <2>4, <2>5, FS_Product
  <2> QED
    BY <2>1, <2>6
<1>4. IsFiniteSet(Units(of)) /\ Total(of) \in Nat
  BY TotalType
<1> HIDE DEF New
<1>5. Cardinality(Units(of) \cup New) = Cardinality(Units(of)) + Cardinality(New) - Cardinality(Units(of) \cap New)
  BY <1>3, <1>4, FS_Union
<1>6. Cardinality(Units(of) \cap New) = 0
  BY <1>2, FS_EmptySet
<1> QED
  BY <1>1, <1>3, <1>4, <1>5, <1>6 DEF Total

\* Less of each node is no more in all.
LEMMA TotalMonotone ==
  ASSUME NEW of, NEW less, \A n \in Node : of[n] \in Nat /\ less[n] \in Nat /\ less[n] <= of[n]
  PROVE  Total(less) <= Total(of) /\ Total(less) \in Nat /\ Total(of) \in Nat
<1>1. Units(less) \subseteq Units(of)
  <2> SUFFICES ASSUME NEW u \in Units(less) PROVE u \in Units(of)
    OBVIOUS
  <2>1. PICK n \in Node : \E i \in 1 .. less[n] : u = <<n, i>>
    BY InUnits
  <2>2. PICK i \in 1 .. less[n] : u = <<n, i>>
    BY <2>1
  <2>3. i \in 1 .. of[n]
    BY <2>2
  <2> QED
    BY <2>2, <2>3, InUnits
<1>2. /\ IsFiniteSet(Units(of)) /\ Total(of) \in Nat
      /\ IsFiniteSet(Units(less)) /\ Total(less) \in Nat
  BY TotalType
<1> QED
  BY <1>1, <1>2, FS_Subset DEF Total

\* Nothing of any node is nothing in all.
LEMMA TotalZero ==
  ASSUME NEW of, \A n \in Node : of[n] = 0
  PROVE  Total(of) = 0
<1>1. Units(of) = {}
  BY InUnits
<1> QED
  BY <1>1, FS_EmptySet DEF Total

\* The same of each node is the same in all.
LEMMA TotalSame ==
  ASSUME NEW of, NEW same, \A n \in Node : of[n] \in Nat /\ same[n] = of[n]
  PROVE  Total(same) = Total(of) /\ Total(of) \in Nat
<1>1. Total(same) <= Total(of) /\ Total(same) \in Nat /\ Total(of) \in Nat
  BY TotalMonotone
<1>2. Total(of) <= Total(same)
  BY TotalMonotone
<1> QED
  BY <1>1, <1>2

\* Max, where the order of the two is known.
LEMMA LargerOfTwo ==
  ASSUME NEW a \in Nat, NEW b \in Nat, a <= b
  PROVE  Max({a, b}) = b
<1>1. \A x : (x \in {a, b} /\ \A y \in {a, b} : x >= y) <=> x = b
  OBVIOUS
<1>2. Max({a, b}) = CHOOSE x \in {a, b} : \A y \in {a, b} : x >= y
  BY DEF Max
<1>3. Max({a, b}) \in {a, b} /\ \A y \in {a, b} : Max({a, b}) >= y
  BY <1>1, <1>2, Zenon
<1> QED
  BY <1>1, <1>3, Zenon

\* The log counts a finite number of events of each type.
LEMMA CountType ==
  ASSUME RecordType, NEW t
  PROVE  /\ IsFiniteSet({i \in DOMAIN events : events[i].type = t}) /\ Count(t) \in Nat
<1> DEFINE S == {i \in DOMAIN events : events[i].type = t}
<1>1. DOMAIN events = 1 .. Len(events) /\ Len(events) \in Int /\ 1 \in Int
  BY DEF RecordType
<1>2. IsFiniteSet(1 .. Len(events))
  BY <1>1, FS_Interval
<1>3. S \in SUBSET (1 .. Len(events)) /\ Count(t) = Cardinality(S)
  BY <1>1 DEF Count
<1> HIDE DEF S
<1>4. IsFiniteSet(S) /\ Count(t) \in Nat
  BY <1>2, <1>3, FS_Subset, FS_CardinalityType
<1> QED
  BY <1>4 DEF S

\* What the log counts when events are added.
LEMMA CountNext ==
  ASSUME RecordType, NEW t, NEW e, NEW f, Says(e, f), f.type # t
  PROVE  Count(t) \in Nat /\ Count(t)' = IF e.type = t THEN Count(t) + 1 ELSE Count(t)
<1> DEFINE S == {i \in DOMAIN events : events[i].type = t}
           New == {i \in DOMAIN events' : events'[i].type = t}
<1>1. IsFiniteSet(S) /\ Cardinality(S) \in Nat
  BY CountType DEF Count
<1>2. /\ \A i \in DOMAIN events : i \in DOMAIN events' /\ events'[i] = events[i] /\ i <= Len(events)
      /\ Len(events) + 1 \in DOMAIN events' /\ events'[Len(events) + 1] = e /\ Len(events) \in Nat
      /\ \A i \in DOMAIN events' :
           \/ i \in DOMAIN events
           \/ i = Len(events) + 1
           \/ i = Len(events) + 2 /\ events' = events \o <<e, f>> /\ events'[i] = f
  BY LogNext, Zenon
<1>3. Count(t) = Cardinality(S) /\ Count(t)' = Cardinality(New)
  BY DEF Count
<1>4. CASE e.type = t
  <2>1. New = S \cup {Len(events) + 1} /\ Len(events) + 1 \notin S
    BY <1>2, <1>4
  <2> HIDE DEF S, New
  <2> QED
    BY <1>1, <1>3, <1>4, <2>1, FS_AddElement
<1>5. CASE e.type # t
  <2>1. New = S
    BY <1>2, <1>5
  <2> QED
    BY <1>1, <1>3, <1>5, <2>1
<1> QED
  BY <1>4, <1>5

\* The retries of the round, the dispatches under way and what has been
\* reported of the cost, node by node.
Extra ==
  [n \in Node |-> IF AtWork(n) THEN tries[n] - 1
                  ELSE (ended[n].attempts - 1) + (results[n].attempts - 1)]

UnderWay == [n \in Node |-> IF n \in running THEN tries[n] ELSE 0]

Billed == [n \in Node |-> results[n].cost + ended[n].cost]

\* The accounts while the run goes on.  An exception loses what its node has
\* spent, and whoever raised is missing among those that finished.
Accounts ==
  /\ board.retries = Count("retry")
  /\ Total(Extra) <= Count("retry")
  /\ Count("node_started") >= Count("node_finished") + Cardinality(running)
  /\ NobodyRaised => spent = board.cost + Total(UnderWay)
  /\ repairs = 0 /\ state \in {"working", "completed"} => board.cost = Total(Billed)

Quantities ==
  /\ \A n \in Node : Extra[n] \in Nat /\ UnderWay[n] \in Nat /\ Billed[n] \in Nat
  /\ Total(Extra) \in Nat /\ Total(UnderWay) \in Nat /\ Total(Billed) \in Nat
  /\ IsFiniteSet(running) /\ Cardinality(running) \in Nat
  /\ spent \in Nat /\ repairs \in Nat /\ board.retries \in Nat /\ board.cost \in Nat
  /\ \A t : Count(t) \in Nat

\* Every quantity and every total is a number.
LEMMA QuantitiesType == RecordType /\ Flow => Quantities
<1> SUFFICES ASSUME RecordType, Flow PROVE Quantities
  OBVIOUS
<1>1. \A n \in Node : /\ tries[n] \in Nat
                      /\ ended[n].attempts \in Nat /\ ended[n].attempts >= 1 /\ ended[n].cost \in Nat
                      /\ results[n].attempts \in Nat /\ results[n].attempts >= 1 /\ results[n].cost \in Nat
  BY DEF RecordType, Flow, NodeResult
<1>2. \A n \in Node : Extra[n] \in Nat /\ UnderWay[n] \in Nat /\ Billed[n] \in Nat
  BY <1>1 DEF Extra, UnderWay, Billed, AtWork
<1>3. running \in SUBSET Node
  BY WiredPlan DEF RecordType
<1>4. IsFiniteSet(running) /\ Cardinality(running) \in Nat
  BY <1>3, StagesAreFinite, FS_Subset, FS_CardinalityType
<1>5. spent \in Nat /\ repairs \in Nat /\ board.retries \in Nat /\ board.cost \in Nat
  BY DEF RecordType, Boards
<1>6. ASSUME NEW t PROVE Count(t) \in Nat
  BY CountType
<1> QED
  BY <1>2, <1>4, <1>5, <1>6, TotalType DEF Quantities

\* What is counted here.
Counted == {"retry", "node_started", "node_finished"}

\* Each count moves by the event that is one of its own.
LEMMA CountsNext ==
  ASSUME RecordType, NEW e, NEW f, Says(e, f), f.type \notin Counted
  PROVE  \A t \in Counted : Count(t)' = IF e.type = t THEN Count(t) + 1 ELSE Count(t)
<1>1. ASSUME NEW t \in Counted PROVE Count(t)' = IF e.type = t THEN Count(t) + 1 ELSE Count(t)
  BY <1>1, CountNext
<1> QED
  BY <1>1

\* A step that tells of no retry, start or end.
LEMMA AccountsKept ==
  ASSUME RecordType, Flow, Accounts, RecordType', Flow',
         NEW e, NEW f, events' = events \/ Says(e, f), e.type \notin Counted, f.type \notin Counted,
         UNCHANGED <<running, tries, spent>>, board'.retries = board.retries, board'.cost = board.cost,
         \A n \in Node : Extra'[n] <= Extra[n],
         repairs' = 0 /\ state' \in {"working", "completed"} =>
           /\ repairs = 0 /\ state \in {"working", "completed"}
           /\ \A n \in Node : Billed'[n] = Billed[n]
  PROVE  Accounts'
<1>1. \A t \in Counted : Count(t)' = Count(t)
  <2>1. CASE events' = events
    BY <2>1 DEF Count
  <2>2. CASE events' # events
    BY <2>2, CountsNext
  <2> QED
    BY <2>1, <2>2
<1>2. \A n \in Node : Extra[n] \in Nat /\ Extra'[n] \in Nat /\ Billed[n] \in Nat
  <2>1. Quantities /\ Quantities'
    BY QuantitiesType, PTL
  <2> QED
    BY <2>1 DEF Quantities
<1>3. Total(Extra') <= Total(Extra) /\ Total(Extra') \in Nat /\ Total(Extra) \in Nat
  BY <1>2, TotalMonotone, Zenon
<1>4. Total(Billed') = Total(Billed) \/ ~(repairs' = 0 /\ state' \in {"working", "completed"})
  BY <1>2, TotalSame
<1>5. UNCHANGED UnderWay
  BY DEF UnderWay
<1>6. Total(Extra)' <= Count("retry")'
  <2>1. Count("retry")' = Count("retry") /\ Count("retry") \in Nat
    BY <1>1, CountType DEF Counted
  <2> QED
    BY <1>3, <2>1 DEF Accounts
<1> QED
  BY <1>1, <1>4, <1>5, <1>6 DEF Accounts, Counted, NobodyRaised

\* Every step keeps the accounts: what a retry adds to one it adds to all, what
\* a node returns moves from what is under way to the board, and an exception
\* or a repair voids what it would make wrong.
LEMMA AccountsNext == RecordType /\ Flow /\ Accounts /\ RecordType' /\ Flow' /\ [Next]_vars => Accounts'
<1> SUFFICES ASSUME RecordType, Flow, Accounts, RecordType', Flow', [Next]_vars PROVE Accounts'
  OBVIOUS
<1>q. Quantities /\ Quantities'
  BY QuantitiesType, PTL
<1>r. running \in SUBSET plan.nodes /\ plan.nodes \in SUBSET Node /\ tries \in [Node -> Nat]
  BY WiredPlan DEF RecordType
<1>k. \A t : \A n : \A s : Event(t, n, s).type = t
  BY DEF Event
<1>h. ASSUME NEW n \in plan.nodes, NEW r \in NodeResult PROVE HookCounts(board, n, r)
  <2>1. board \in Boards(plan.nodes)
    BY DEF RecordType
  <2> QED
    BY <1>h, <2>1, HooksType
<1>1. CASE UNCHANGED vars
  <2>1. UNCHANGED <<state, events, running, tries, spent, repairs, board, ended, results>>
    BY <1>1 DEF vars
  <2>2. UNCHANGED Extra /\ UNCHANGED Billed /\ UNCHANGED UnderWay
    BY <2>1 DEF Extra, Billed, UnderWay, AtWork
  <2>3. \A t : Count(t)' = Count(t)
    BY <2>1 DEF Count
  <2> QED
    BY <2>1, <2>2, <2>3 DEF Accounts, NobodyRaised
\* A node starts, and is dispatched unless it waits for a sign-off.
<1>2. ASSUME NEW n \in Node, IsNext(n), running' = running \cup {n},
             UNCHANGED <<state, ended, results, repairs>>,
             NEW k \in {0, 1}, tries' = [tries EXCEPT ![n] = k], spent' = spent + k,
             board'.retries = board.retries, board'.cost = board.cost,
             NEW e, NEW f, Says(e, f), e.type = "node_started", f.type \notin Counted
      PROVE  Accounts'
  <2>1. n \notin running /\ ended[n] = NoResult /\ results[n] = NoResult
    BY <1>2, WaitingNode DEF Flow
  <2>2. \A m \in Node : tries'[m] = IF m = n THEN k ELSE tries[m]
    BY <1>2, <1>r
  <2>3. \A m \in Node : Extra[m] \in Nat /\ Extra'[m] = Extra[m]
    <3>1. \A m \in Node : m # n => Extra'[m] = Extra[m]
      BY <1>2, <2>2 DEF Extra, AtWork
    <3>2. Extra[n] = 0 /\ Extra'[n] = 0
      BY <1>2, <2>1, <2>2, EmptyResult DEF Extra, AtWork
    <3> QED
      BY <1>q, <3>1, <3>2 DEF Quantities
  <2>4. \A m \in Node : UnderWay[m] \in Nat /\ UnderWay'[m] = IF m = n THEN UnderWay[m] + k ELSE UnderWay[m]
    <3>1. \A m \in Node : UnderWay'[m] = IF m = n THEN UnderWay[m] + k ELSE UnderWay[m]
      BY <1>2, <2>1, <2>2 DEF UnderWay
    <3> QED
      BY <1>q, <3>1 DEF Quantities
  <2>5. Total(Extra') = Total(Extra)
    BY <2>3, TotalSame
  <2>6. Total(UnderWay') = Total(UnderWay) + k
    <3>1. k \in Nat
      OBVIOUS
    <3> QED
      BY <1>2, <2>4, <3>1, TotalAdd, ZenonT(40)
  <2>7. UNCHANGED Billed
    BY <1>2 DEF Billed
  <2>8. Cardinality(running') = Cardinality(running) + 1
    BY <1>2, <1>q, <2>1, FS_AddElement DEF Quantities
  <2>9. /\ Count("node_started")' = Count("node_started") + 1
        /\ Count("node_finished")' = Count("node_finished") /\ Count("retry")' = Count("retry")
    BY <1>2, CountsNext DEF Counted
  <2> HIDE DEF Accounts
  <2>10. Accounts /\ Quantities
    BY <1>q
  <2> QED
    BY <1>2, <2>5, <2>6, <2>7, <2>8, <2>9, <2>10 DEF Accounts, Quantities, NobodyRaised
\* A node returns what its dispatches cost.
<1>3. ASSUME NEW n \in running, NEW r \in NodeResult, Returns(n, r),
             UNCHANGED <<state, plan, tries, results, repairs, spent>>,
             r.attempts = (IF tries[n] = 0 THEN 1 ELSE tries[n]), r.cost = tries[n]
      PROVE  Accounts'
  <2> DEFINE e == Event("node_finished", n, r.state)
             f == Event("run_finished", "none", "none")
  <2>0. Says(e, f) /\ e.type = "node_finished" /\ f.type \notin Counted
    BY <1>3, <1>k DEF Returns, Log, Says, Counted
  <2> HIDE DEF e, f
  <2>1. /\ n \in Node /\ n \in plan.nodes /\ running' = running \ {n}
        /\ ended[n] = NoResult /\ results[n] = NoResult
        /\ \A m \in Node : ended'[m] = IF m = n THEN r ELSE ended[m]
    BY <1>3, <1>r DEF Returns, Flow, RecordType
  <2>2. tries[n] \in Nat
    BY <1>r, <2>1
  <2>3. \A m \in Node : Extra[m] \in Nat /\ Extra'[m] = Extra[m]
    <3>1. \A m \in Node : m # n => Extra'[m] = Extra[m]
      BY <1>3, <2>1 DEF Extra, AtWork
    <3>2. Extra'[n] = Extra[n]
      BY <1>3, <2>1, <2>2, EmptyResult DEF Extra, AtWork
    <3> QED
      BY <1>q, <3>1, <3>2 DEF Quantities
  <2>4. \A m \in Node : UnderWay'[m] \in Nat /\ UnderWay[m] = IF m = n THEN UnderWay'[m] + tries[n] ELSE UnderWay'[m]
    <3>1. \A m \in Node : UnderWay[m] = IF m = n THEN UnderWay'[m] + tries[n] ELSE UnderWay'[m]
      BY <1>3, <2>1, <2>2 DEF UnderWay
    <3> QED
      BY <1>q, <3>1 DEF Quantities
  <2>5. Total(Extra') = Total(Extra)
    BY <2>3, TotalSame
  <2>6. Total(UnderWay) = Total(UnderWay') + tries[n]
    BY <2>1, <2>2, <2>4, TotalAdd, Zenon
  <2>7. \A m \in Node : Billed[m] \in Nat /\ Billed'[m] = IF m = n THEN Billed[m] + tries[n] ELSE Billed[m]
    <3>1. \A m \in Node : Billed'[m] = IF m = n THEN Billed[m] + tries[n] ELSE Billed[m]
      BY <1>3, <2>1, <2>2, EmptyResult DEF Billed
    <3> QED
      BY <1>q, <3>1 DEF Quantities
  <2>8. Total(Billed') = Total(Billed) + tries[n]
    BY <2>1, <2>2, <2>7, TotalAdd, Zenon
  <2>9. Cardinality(running') = Cardinality(running) - 1
    BY <1>q, <1>3, <2>1, FS_RemoveElement DEF Quantities
  <2>10. /\ Count("node_finished")' = Count("node_finished") + 1
         /\ Count("node_started")' = Count("node_started") /\ Count("retry")' = Count("retry")
    BY <2>0, CountsNext DEF Counted
  <2>11. board'.retries = board.retries /\ board'.cost = board.cost + tries[n]
    BY <1>3, <1>h, <2>1 DEF Returns, HookCounts
  <2>12. /\ board'.retries = Count("retry")'
         /\ Total(Extra)' <= Count("retry")'
    BY <2>5, <2>10, <2>11 DEF Accounts
  <2>13. Count("node_started")' >= Count("node_finished")' + Cardinality(running')
    BY <1>q, <2>9, <2>10 DEF Accounts, Quantities
  <2>14. NobodyRaised' => spent' = board'.cost + Total(UnderWay)'
    <3>1. NobodyRaised' => NobodyRaised
      BY <1>q, <2>9, <2>10 DEF Quantities, NobodyRaised
    <3>2. spent' = spent /\ Total(UnderWay') \in Nat /\ board.cost \in Nat
      BY <1>3, <1>q DEF Quantities
    <3> QED
      BY <2>2, <2>6, <2>11, <3>1, <3>2 DEF Accounts
  <2>15. repairs' = 0 /\ state' \in {"working", "completed"} => board'.cost = Total(Billed)'
    BY <1>3, <2>8, <2>11 DEF Accounts
  <2> QED
    BY <2>12, <2>13, <2>14, <2>15 DEF Accounts
<1>4. ASSUME NEW n \in Node, Start(n) PROVE Accounts'
  <2>1. n \in plan.nodes /\ IsNext(n)
    BY <1>4, WaitingNode DEF Start
  <2>2. Says(Event("node_started", n, "none"), Event("safe_stop", "none", "none"))
    BY <1>4 DEF Start, Log, Says
  <2>3. Event("safe_stop", "none", "none").type \notin Counted
    BY <1>k DEF Counted
  <2>4. board'.retries = board.retries /\ board'.cost = board.cost
    BY <1>4, <1>h, <2>1, EmptyResult DEF Start, HookCounts
  <2>5. /\ running' = running \cup {n} /\ UNCHANGED <<state, ended, results, repairs>>
        /\ tries' = [tries EXCEPT ![n] = 1] /\ spent' = spent + 1 /\ 1 \in {0, 1}
    BY <1>4 DEF Start, FirstAttempt
  <2> QED
    BY <1>2, <1>k, <2>1, <2>2, <2>3, <2>4, <2>5, Zenon
<1>5. ASSUME NEW n \in Node, Ask(n) PROVE Accounts'
  <2>1. n \in plan.nodes /\ IsNext(n)
    BY <1>5, WaitingNode DEF Ask
  <2>2. Says(Event("node_started", n, "none"), Event("approval_requested", n, "none"))
    BY <1>5 DEF Ask, Log, Says
  <2>3. Event("approval_requested", n, "none").type \notin Counted
    BY <1>k DEF Counted
  <2>4. board'.retries = board.retries /\ board'.cost = board.cost
    BY <1>5, <1>h, <2>1, EmptyResult DEF Ask, HookCounts
  <2>5. /\ running' = running \cup {n} /\ UNCHANGED <<state, ended, results, repairs>>
        /\ tries' = [tries EXCEPT ![n] = 0] /\ spent' = spent + 0 /\ 0 \in {0, 1}
    BY <1>5, <1>q DEF Ask, Quantities
  <2> QED
    BY <1>2, <1>k, <2>1, <2>2, <2>3, <2>4, <2>5, Zenon
<1>6. ASSUME NEW n \in Node, Approve(n) PROVE Accounts'
  <2>1. /\ n \in running /\ tries[n] = 0 /\ tries' = [tries EXCEPT ![n] = 1] /\ spent' = spent + 1
        /\ UNCHANGED <<state, running, ended, results, repairs, events, board>>
    BY <1>6 DEF Approve, Awaits, FirstAttempt
  <2>2. \A m \in Node : tries'[m] = IF m = n THEN 1 ELSE tries[m]
    BY <1>r, <2>1
  <2>3. \A m \in Node : Extra[m] \in Nat /\ Extra'[m] = Extra[m]
    <3>1. \A m \in Node : m # n => Extra'[m] = Extra[m]
      BY <2>1, <2>2 DEF Extra, AtWork
    <3>2. ended[n] = NoResult /\ results[n] = NoResult
      BY <1>r, <2>1 DEF Flow
    <3>3. Extra[n] = 0 /\ Extra'[n] = 0
      BY <2>1, <2>2, <3>2, EmptyResult DEF Extra, AtWork
    <3> QED
      BY <1>q, <3>1, <3>3 DEF Quantities
  <2>4. \A m \in Node : UnderWay[m] \in Nat /\ UnderWay'[m] = IF m = n THEN UnderWay[m] + 1 ELSE UnderWay[m]
    <3>1. \A m \in Node : UnderWay'[m] = IF m = n THEN UnderWay[m] + 1 ELSE UnderWay[m]
      BY <2>1, <2>2 DEF UnderWay
    <3> QED
      BY <1>q, <3>1 DEF Quantities
  <2>5. Total(Extra') = Total(Extra)
    BY <2>3, TotalSame
  <2>6. Total(UnderWay') = Total(UnderWay) + 1
    BY <1>6, <2>4, TotalAdd
  <2>7. UNCHANGED Billed
    BY <2>1 DEF Billed
  <2>8. \A t : Count(t)' = Count(t)
    BY <2>1 DEF Count
  <2> QED
    BY <1>q, <2>1, <2>5, <2>6, <2>7, <2>8 DEF Accounts, Quantities, NobodyRaised
<1>7. ASSUME NEW n \in Node, Retry(n) PROVE Accounts'
  <2> DEFINE e == Event("retry", n, "none")
             f == Event("safe_stop", "none", "none")
  <2>0. Says(e, f) /\ e.type = "retry" /\ f.type \notin Counted
    BY <1>7, <1>k DEF Retry, Log, Says, Counted
  <2> HIDE DEF e, f
  <2>1. /\ n \in running /\ tries[n] > 0 /\ spent' = spent + 1
        /\ UNCHANGED <<state, running, ended, results, repairs>>
        /\ board' = OnRetry(board, n)
    BY <1>7 DEF Retry, AtWork
  <2>2. \A m \in Node : tries'[m] = IF m = n THEN tries[m] + 1 ELSE tries[m]
    BY <1>7, <1>r DEF Retry
  <2>3. \A m \in Node : Extra[m] \in Nat /\ Extra'[m] = IF m = n THEN Extra[m] + 1 ELSE Extra[m]
    <3>1. \A m \in Node : m # n => Extra'[m] = Extra[m]
      BY <2>1, <2>2 DEF Extra, AtWork
    <3>2. tries[n] \in Nat /\ tries'[n] = tries[n] + 1
      BY <1>r, <1>7, <2>2
    <3>3. Extra[n] = tries[n] - 1 /\ Extra'[n] = tries'[n] - 1
      BY <1>7, <2>1, <3>2 DEF Extra, AtWork
    <3> QED
      BY <1>q, <3>1, <3>2, <3>3 DEF Quantities
  <2>4. \A m \in Node : UnderWay[m] \in Nat /\ UnderWay'[m] = IF m = n THEN UnderWay[m] + 1 ELSE UnderWay[m]
    <3>1. \A m \in Node : UnderWay'[m] = IF m = n THEN UnderWay[m] + 1 ELSE UnderWay[m]
      BY <2>1, <2>2 DEF UnderWay
    <3> QED
      BY <1>q, <3>1 DEF Quantities
  <2>5. Total(Extra') = Total(Extra) + 1
    BY <1>7, <2>3, TotalAdd
  <2>6. Total(UnderWay') = Total(UnderWay) + 1
    BY <1>7, <2>4, TotalAdd
  <2>7. UNCHANGED Billed
    BY <2>1 DEF Billed
  <2>8. /\ Count("retry")' = Count("retry") + 1
        /\ Count("node_started")' = Count("node_started") /\ Count("node_finished")' = Count("node_finished")
    BY <2>0, CountsNext DEF Counted
  <2>9. board'.retries = board.retries + 1 /\ board'.cost = board.cost
    BY <1>h, <1>r, <2>1, EmptyResult DEF HookCounts
  <2> QED
    BY <1>q, <2>1, <2>5, <2>6, <2>7, <2>8, <2>9 DEF Accounts, Quantities, NobodyRaised
<1>8. ASSUME NEW n \in Node, Decline(n) PROVE Accounts'
  <2>1. PICK r \in NodeResult : r = Bare("rejected") /\ r.attempts = 1 /\ r.cost = 0
    BY BareResult DEF EndStates
  <2> QED
    BY <1>3, <1>8, <2>1 DEF Decline, Awaits
<1>9. ASSUME NEW n \in Node, NEW s \in EndStates, AtWork(n)
      PROVE  /\ Result(n, s) \in NodeResult /\ n \in running
             /\ Result(n, s).attempts = (IF tries[n] = 0 THEN 1 ELSE tries[n])
             /\ Result(n, s).cost = tries[n]
  BY <1>9, <1>r DEF Result, NodeResult, AtWork
<1>10. ASSUME NEW n \in Node, NEW c \in Content, Complete(n, c) PROVE Accounts'
  <2>1. "completed" \in EndStates
    BY DEF EndStates
  <2>2. PICK r : r = Result(n, "completed")
    OBVIOUS
  <2>3. AtWork(n) /\ Returns(n, r) /\ UNCHANGED <<state, plan, tries, results, repairs, spent>>
    BY <1>10, <2>2 DEF Complete
  <2> QED
    BY <1>3, <1>9, <2>1, <2>2, <2>3
<1>11. ASSUME NEW n \in Node, NEW s \in {"failed", "input_required"}, EndWithout(n, s) PROVE Accounts'
  <2>1. s \in EndStates
    BY DEF EndStates
  <2>2. PICK r : r = Result(n, s)
    OBVIOUS
  <2>3. AtWork(n) /\ Returns(n, r) /\ UNCHANGED <<state, plan, tries, results, repairs, spent>>
    BY <1>11, <2>2 DEF EndWithout
  <2> QED
    BY <1>3, <1>9, <2>1, <2>2, <2>3
\* Who raises is missed, and its dispatches are lost to the board.
<1>12. ASSUME NEW n \in Node, Raise(n) PROVE Accounts'
  <2>1. PICK r \in NodeResult : r = Bare("failed") /\ r.attempts = 1 /\ r.cost = 0
    BY BareResult DEF EndStates
  <2>2. /\ n \in running /\ running' = running \ {n}
        /\ UNCHANGED <<state, tries, results, repairs, spent, events, board>>
        /\ \A m \in Node : ended'[m] = IF m = n THEN r ELSE ended[m]
    BY <1>12, <2>1 DEF Raise, RecordType
  <2>3. ended[n] = NoResult /\ results[n] = NoResult
    BY <1>r, <2>2 DEF Flow
  <2>4. \A m \in Node : Extra[m] \in Nat /\ Extra'[m] \in Nat /\ Extra'[m] <= Extra[m]
    <3>1. \A m \in Node : m # n => Extra'[m] = Extra[m]
      BY <2>2 DEF Extra, AtWork
    <3>2. Extra'[n] = 0
      BY <1>12, <2>1, <2>2, <2>3, EmptyResult DEF Extra, AtWork
    <3> QED
      BY <1>q, <3>1, <3>2 DEF Quantities
  <2>5. Total(Extra') <= Total(Extra)
    BY <2>4, TotalMonotone
  <2>6. \A m \in Node : Billed[m] \in Nat /\ Billed'[m] = Billed[m]
    <3>1. \A m \in Node : Billed'[m] = Billed[m]
      BY <2>1, <2>2, <2>3, EmptyResult DEF Billed
    <3> QED
      BY <1>q, <3>1 DEF Quantities
  <2>7. Total(Billed') = Total(Billed)
    BY <2>6, TotalSame
  <2>8. Cardinality(running') = Cardinality(running) - 1
    BY <1>q, <2>2, FS_RemoveElement DEF Quantities
  <2>9. \A t : Count(t)' = Count(t)
    BY <2>2 DEF Count
  <2>10. Quantities'
    BY <1>q
  <2> QED
    BY <1>q, <2>2, <2>5, <2>7, <2>8, <2>9, <2>10 DEF Accounts, Quantities, NobodyRaised
\* What a batch leaves of the retries and of the bill.
<1>13. ASSUME BatchIsBack
       PROVE  /\ running = {}
              /\ \A n \in Node : /\ ended'[n] = NoResult
                                 /\ ended[n].state # "none" => results[n] = NoResult
                                 /\ ended[n].state = "none" => ended[n] = NoResult
                                 /\ Collected[n] \in {ended[n], results[n]}
                                 /\ ended[n].state = "none" => Collected[n] = results[n]
                                 /\ n \in Reached => Collected[n] = ended[n]
  BY <1>13, CollectedType DEF BatchIsBack, Flow, Reached, Ended
<1>14. ASSUME BatchIsBack, UNCHANGED <<running, tries>>,
              \A n \in Node : results'[n] \in {NoResult, Collected[n]}
       PROVE  \A n \in Node : Extra'[n] <= Extra[n]
  <2>1. \A n \in Node : /\ ended[n].attempts \in Nat /\ ended[n].attempts >= 1
                        /\ results[n].attempts \in Nat /\ results[n].attempts >= 1
    BY DEF RecordType, NodeResult, Flow
  <2>2. \A n \in Node : ended'[n].attempts = 1 /\ results'[n].attempts \in {1, ended[n].attempts, results[n].attempts}
    BY <1>13, <1>14, EmptyResult
  <2>3. \A n \in Node : Extra[n] = (ended[n].attempts - 1) + (results[n].attempts - 1)
    BY <1>13, <1>14 DEF Extra, AtWork
  <2>4. \A n \in Node : Extra'[n] = (ended'[n].attempts - 1) + (results'[n].attempts - 1)
    BY <1>13, <1>14 DEF Extra, AtWork
  <2> QED
    BY <2>1, <2>2, <2>3, <2>4
<1>15. CASE CollectAndStop
  <2>1. /\ BatchIsBack /\ results' = Collected /\ UNCHANGED <<running, tries, spent, repairs, board>>
        /\ state' \notin {"working", "completed"}
        /\ Says(Event("safe_stop", "none", "none"), Event("run_finished", "none", state'))
    BY <1>15 DEF CollectAndStop, Log, Says
  <2>2. /\ Event("safe_stop", "none", "none").type \notin Counted
        /\ Event("run_finished", "none", state').type \notin Counted
    BY <1>k DEF Counted
  <2>3. \A n \in Node : Extra'[n] <= Extra[n]
    BY <1>14, <2>1
  <2> QED
    BY <2>1, <2>2, <2>3, AccountsKept
<1>16. CASE CollectAndRepair
  <2>1. /\ BatchIsBack /\ UNCHANGED <<running, tries, spent, board>> /\ repairs' = repairs + 1
        /\ \A n \in Node : results'[n] \in {NoResult, Collected[n]}
        /\ Says(Event("repair_started", VERIFY, "none"), Event("repair_started", VERIFY, "none"))
    BY <1>16 DEF CollectAndRepair, Log, Says
  <2>2. Event("repair_started", VERIFY, "none").type \notin Counted /\ repairs' # 0
    BY <1>k, <1>q, <2>1 DEF Counted, Quantities
  <2>3. \A n \in Node : Extra'[n] <= Extra[n]
    BY <1>14, <2>1
  <2> QED
    BY <2>1, <2>2, <2>3, AccountsKept
<1>17. ASSUME NEW seam \in BOOLEAN, CollectAndContinue(seam) PROVE Accounts'
  <2>1. /\ BatchIsBack /\ results' = Collected /\ UNCHANGED <<state, running, tries, spent, repairs>>
        /\ \A n \in Ended : ended[n].state = "completed"
        /\ events' = events \/ Says(Event("plan_revised", "none", "none"), Event("plan_revised", "none", "none"))
    BY <1>17 DEF CollectAndContinue, Log, Says
  <2>2. Event("plan_revised", "none", "none").type \notin Counted
    BY <1>k DEF Counted
  <2>3. \A n \in Node : Extra'[n] <= Extra[n]
    BY <1>14, <2>1
  <2>4. board'.retries = board.retries /\ board'.cost = board.cost
    <3>1. CASE ~seam
      BY <1>17, <3>1 DEF CollectAndContinue
    <3>2. CASE seam
      <4>1. board' = SetPlan(board, plan') /\ Wired(plan')
        BY <1>17, <3>2 DEF CollectAndContinue, RecordType
      <4>2. plan'.version \in Nat /\ board \in Boards(plan.nodes)
        BY <4>1, WiredPlan DEF RecordType
      <4> QED
        BY <4>1, <4>2, SetPlanType
    <3> QED
      BY <3>1, <3>2
  <2>5. \A n \in Node : Billed'[n] = Billed[n]
    <3>1. Reached = Ended
      BY <2>1 DEF Reached, Fatal
    <3>2. ASSUME NEW n \in Node PROVE Billed'[n] = Billed[n]
      <4>1. CASE ended[n].state = "none"
        BY <1>13, <2>1, <4>1 DEF Billed
      <4>2. CASE ended[n].state # "none"
        <5>1. Collected[n] = ended[n] /\ results[n] = NoResult /\ ended'[n] = NoResult
          BY <1>13, <2>1, <3>1, <4>2 DEF Ended
        <5>2. ended[n].cost \in Nat
          BY DEF RecordType, NodeResult
        <5> QED
          BY <2>1, <5>1, <5>2, EmptyResult DEF Billed
      <4> QED
        BY <4>1, <4>2
    <3> QED
      BY <3>2
  <2> QED
    BY <2>1, <2>2, <2>3, <2>4, <2>5, AccountsKept
<1>18. CASE Finish \/ Stop
  <2>1. UNCHANGED <<running, ended, results, tries, spent, repairs, board>> /\ state = "working"
    BY <1>18 DEF Finish, Stop, BetweenBatches
  <2>2. PICK e, f : Says(e, f) /\ e.type \notin Counted /\ f.type \notin Counted
    <3>1. CASE Finish
      <4>1. Says(Event("run_finished", "none", state'), Event("run_finished", "none", state'))
        BY <3>1 DEF Finish, Log, Says
      <4> QED
        BY <1>k, <4>1 DEF Counted
    <3>2. CASE Stop
      <4>1. Says(Event("safe_stop", "none", "none"), Event("run_finished", "none", state'))
        BY <3>2 DEF Stop, Log, Says
      <4> QED
        BY <1>k, <4>1 DEF Counted
    <3> QED
      BY <1>18, <3>1, <3>2
  <2>3. UNCHANGED Extra /\ UNCHANGED Billed
    BY <2>1 DEF Extra, Billed, AtWork
  <2>4. \A n \in Node : Extra'[n] <= Extra[n]
    BY <1>q, <2>3 DEF Quantities
  <2> QED
    BY <2>1, <2>2, <2>3, <2>4, AccountsKept
<1> QED
  BY <1>1, <1>4, <1>5, <1>6, <1>7, <1>8, <1>10, <1>11, <1>12, <1>15, <1>16, <1>17, <1>18 DEF Next

\* The accounts of the log, the results and the board agree, whatever is
\* retried, refused, repaired or raised (on_retry,
\* on_node_end, from_results).
THEOREM AccountsAgreeCorrect == Spec => []AccountsAgree
<1>1. Init /\ RecordType /\ Flow => Accounts
  <2> SUFFICES ASSUME Init, RecordType, Flow PROVE Accounts
    OBVIOUS
  <2>1. \A n \in Node : Extra[n] = 0 /\ UnderWay[n] = 0 /\ Billed[n] = 0
    BY EmptyResult DEF Init, Extra, UnderWay, Billed, AtWork
  <2>2. Total(Extra) = 0 /\ Total(UnderWay) = 0 /\ Total(Billed) = 0
    BY <2>1, TotalZero
  <2>3. ASSUME NEW t \in Counted PROVE Count(t) = 0
    <3>1. {i \in DOMAIN events : events[i].type = t} = {}
      BY DEF Init, Event, Counted
    <3> QED
      BY <3>1, FS_EmptySet DEF Count
  <2>4. Cardinality(running) = 0
    BY FS_EmptySet DEF Init
  <2>5. board.retries = 0 /\ board.cost = 0
    <3>1. NewBoard \in Boards({}) /\ NewBoard.retries = 0 /\ NewBoard.cost = 0 /\ plan.version \in Nat
      BY WiredPlan DEF NewBoard, Boards, RecordType
    <3> QED
      BY <3>1, SetPlanType DEF Init
  <2> QED
    BY <2>2, <2>3, <2>4, <2>5 DEF Init, Accounts, Counted, NobodyRaised
<1>2. RecordType /\ Flow /\ Accounts => AccountsAgree
  <2> SUFFICES ASSUME RecordType, Flow, Accounts PROVE AccountsAgree
    OBVIOUS
  <2>q. Quantities
    BY QuantitiesType
  <2>1. Retries = Count("retry")
    <3> DEFINE more == [n \in Node |-> results[n].attempts - 1]
    <3>1. \A n \in Node : Extra[n] \in Nat /\ more[n] \in Nat /\ more[n] <= Extra[n]
      <4>1. \A n \in Node : /\ ended[n].attempts \in Nat /\ ended[n].attempts >= 1
                            /\ results[n].attempts \in Nat /\ results[n].attempts >= 1
        BY DEF RecordType, NodeResult, Flow
      <4>2. \A n \in Node : Extra[n] \in Nat
        BY <2>q DEF Quantities
      <4>3. ASSUME NEW n \in Node, AtWork(n) PROVE more[n] = 0
        <5>1. results[n] = NoResult
          BY <4>3 DEF AtWork, Flow
        <5> QED
          BY <5>1, EmptyResult
      <4>4. \A n \in Node : ~AtWork(n) => Extra[n] = (ended[n].attempts - 1) + (results[n].attempts - 1)
        BY DEF Extra
      <4> QED
        BY <4>1, <4>2, <4>3, <4>4
    <3>2. Retries = Max({Total(more), Count("retry")})
      BY DEF Retries
    <3> HIDE DEF more
    <3>3. Total(more) <= Total(Extra) /\ Total(more) \in Nat /\ Total(Extra) \in Nat
      BY <3>1, TotalMonotone
    <3>4. Count("retry") \in Nat /\ Total(Extra) <= Count("retry")
      BY <2>q DEF Accounts, Quantities
    <3>5. Total(more) <= Count("retry")
      BY <3>3, <3>4
    <3> QED
      BY <3>2, <3>3, <3>4, <3>5, LargerOfTwo, Zenon
  <2>2. running = {} /\ NobodyRaised => board.cost = spent
    <3> SUFFICES ASSUME running = {}, NobodyRaised PROVE board.cost = spent
      OBVIOUS
    <3>1. Total(UnderWay) = 0
      BY TotalZero DEF UnderWay
    <3> QED
      BY <2>q, <3>1 DEF Accounts, Quantities
  <2>3. state = "completed" /\ repairs = 0 => Cost = board.cost
    <3> SUFFICES ASSUME state = "completed", repairs = 0 PROVE Cost = board.cost
      OBVIOUS
    <3> DEFINE costs == [n \in Node |-> results[n].cost]
    <3>1. \A n \in Node : ended[n] = NoResult /\ results[n].cost \in Nat
      BY DEF Flow, RecordType, NodeResult
    <3>2. \A n \in Node : Billed[n] \in Nat /\ costs[n] = Billed[n]
      BY <3>1, EmptyResult DEF Billed
    <3>3. Cost = Total(costs)
      BY DEF Cost
    <3> HIDE DEF costs
    <3>4. Total(costs) = Total(Billed)
      BY <3>2, TotalSame
    <3> QED
      BY <3>3, <3>4 DEF Accounts
  <2> QED
    BY <2>1, <2>2, <2>3 DEF AccountsAgree, Accounts
<1> QED
  BY <1>1, <1>2, RecordTypeCorrect, FlowCorrect, AccountsNext, PTL DEF Spec
=============================================================================
