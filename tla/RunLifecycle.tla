----------------------------- MODULE RunLifecycle -----------------------------
(***************************************************************************)
(* What a run promises its caller (RunResult and Executor.run of           *)
(* keel/executor.py), without coroutines, gates or files: accepted stages  *)
(* add up to a finished plan, nothing but a bounded number of repairs      *)
(* takes one back, a revision only adds to the plan, and the verdict is    *)
(* given once.                                                             *)
(***************************************************************************)
EXTENDS PlanGraph

CONSTANTS Node, Plans, MaxRepairs, MaxPlanRevisions,
          Work,   \* the stage a repair does again
          Check   \* the stage whose failure calls for it

VARIABLES
  state,      \* RunResult.state
  plan,       \* RunResult.plan
  completed,  \* stages whose work was accepted
  repairs,    \* RunResult.repairs
  revisions   \* RunResult.plan_revisions
vars == <<state, plan, completed, repairs, revisions>>

Init ==
  /\ state = "working"
  /\ plan \in Plans
  /\ completed = {}
  /\ repairs = 0
  /\ revisions = 0

\* A round of ready stages ends, and the work of S among them is accepted.
\* When the check is not, the work it checked may be taken back with it.
Absorb(S) ==
  \/ completed' = completed \cup S /\ UNCHANGED repairs
  \/ /\ Check \in Ready(plan, completed) \ S
     /\ Work \in completed \cup S
     /\ repairs < MaxRepairs
     /\ repairs' = repairs + 1
     /\ completed' = (completed \cup S) \ {Work, Check}

\* A revision keeps every stage, every sign-off, and what accepted stages
\* depended on.
ReviseThePlan ==
  /\ revisions < MaxPlanRevisions
  /\ revisions' = revisions + 1
  /\ plan' \in PlanOver(Node)
  /\ ValidPlan(plan')
  /\ plan'.version = plan.version + 1
  /\ plan.nodes \subseteq plan'.nodes
  /\ plan.high \subseteq plan'.high
  /\ \A n \in completed' : plan'.deps[n] = plan.deps[n]

GoOn ==
  /\ state = "working"
  /\ \E S \in SUBSET Ready(plan, completed) : Absorb(S)
  /\ ReviseThePlan \/ UNCHANGED <<plan, revisions>>
  /\ UNCHANGED state

\* Nothing is left to do.
Succeed ==
  /\ state = "working"
  /\ completed = plan.nodes
  /\ state' = "completed"
  /\ UNCHANGED <<plan, completed, repairs, revisions>>

\* The run is stopped, or a stage of the last round ends it; only a stage that
\* was not accepted can have asked for input.
GiveUp ==
  /\ state = "working"
  /\ \E S \in SUBSET Ready(plan, completed) :
       /\ Absorb(S)
       /\ \/ state' = "failed"
          \/ state' = "input_required" /\ S # Ready(plan, completed)
  /\ UNCHANGED <<plan, revisions>>

Next == GoOn \/ Succeed \/ GiveUp

Spec == Init /\ [][Next]_vars
=============================================================================
