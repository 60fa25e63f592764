--------------------------- MODULE ExecutorProofs ---------------------------
(***************************************************************************)
(* What holds of every run of the executor, for every set of node ids,     *)
(* every plan the graph accepts, and every bound on retries, repairs and   *)
(* revisions: types, the scheduler, the workspace, and that the executor   *)
(* implements RunLifecycle.                                                *)
(***************************************************************************)
EXTENDS Executor, TLAPS

-----------------------------------------------------------------------------
(***************************************************************************)
(* The operators of the graph, the planner and the workspace.              *)
(***************************************************************************)

\* PlanGraph._reach returns nodes of the plan.
LEMMA AncestorsType ==
  ASSUME NEW p \in PlanOver(Node), NEW n \in Node
  PROVE  Ancestors(p, n) \in SUBSET Node
BY DEF Ancestors, PlanOver

\* context["sees_implementation"] has an entry for every node.
LEMMA SeesType ==
  ASSUME NEW p
  PROVE  SeesImplementation(p) \in [Node -> BOOLEAN]
BY DEF SeesImplementation

\* Planner.revise_from_evidence returns a plan.
LEMMA ReviseType ==
  ASSUME NEW p \in PlanOver(Node)
  PROVE  Revise(p) \in PlanOver(Node)
BY NodeAssumption DEF Revise, PlanOver

\* The workspace before the run is a tree.
LEMMA BaselineType == Baseline \in Trees
BY DEF Baseline, Trees, Content, Original, Absent

\* Workspace.write and Workspace.restore_paths keep the workspace a tree.
LEMMA TreeType ==
  ASSUME NEW t \in Trees, NEW s \in Trees, NEW ps,
         NEW n \in Node, NEW g \in Nat, NEW ok \in BOOLEAN
  PROVE  /\ Write(t, ps, [by |-> n, gen |-> g, ok |-> ok]) \in Trees
         /\ RestorePaths(t, s, ps) \in Trees
<1>1. [by |-> n, gen |-> g, ok |-> ok] \in Content(Node)
  BY DEF Content
<1>2. QED
  BY <1>1 DEF Write, RestorePaths, Trees

-----------------------------------------------------------------------------
(***************************************************************************)
(* Type correctness.                                                       *)
(***************************************************************************)

LEMMA InitType == Init => TypeOK
<1> SUFFICES ASSUME Init PROVE TypeOK
  OBVIOUS
<1>1. plan \in PlanOver(Node)
  BY PlanAssumption DEF Init
<1>2. ancestors \in [Node -> SUBSET Node]
  BY <1>1, AncestorsType DEF Init
<1>3. sees \in [Node -> BOOLEAN]
  BY SeesType DEF Init
<1>4. files \in Trees /\ source \in [Node -> Trees] /\ snapshot \in [Node -> Trees]
  BY BaselineType DEF Init
<1>5. revisions \in 0 .. MaxPlanRevisions /\ repairs \in 0 .. MaxRepairs
  BY NodeAssumption DEF Init
<1>6. QED
  BY <1>1, <1>2, <1>3, <1>4, <1>5 DEF Init, TypeOK, RunStates, NodeStates, Outcomes, PCs

\* Ending, or losing an attempt, keeps the locals of a node in their types.
LEMMA EndType ==
  ASSUME TypeOK, NEW n \in Node, NEW how \in Outcomes, End(n, how)
  PROVE  /\ pc' \in [Node -> PCs]
         /\ outcome' \in [Node -> Outcomes \cup {"none"}]
         /\ attempt' \in [Node -> Nat]
         /\ snapshot' \in [Node -> Trees]
         /\ written' \in [Node -> SUBSET Path]
BY BaselineType DEF End, TypeOK, PCs

LEMMA LoseAttemptType ==
  ASSUME TypeOK, NEW n \in Node, NEW paths \in SUBSET Path, LoseAttempt(n, paths)
  PROVE  /\ pc' \in [Node -> PCs]
         /\ outcome' \in [Node -> Outcomes \cup {"none"}]
         /\ attempt' \in [Node -> Nat]
         /\ snapshot' \in [Node -> Trees]
         /\ written' \in [Node -> SUBSET Path]
<1>1. CASE attempt[n] <= MaxAttempts[n]
  BY <1>1 DEF LoseAttempt, TypeOK, PCs
<1>2. CASE ~(attempt[n] <= MaxAttempts[n])
  <2>1. "failed" \in Outcomes
    BY DEF Outcomes, NodeStates
  <2>2. End(n, "failed")
    BY <1>2 DEF LoseAttempt
  <2>3. QED
    BY <2>1, <2>2, EndType
<1>3. QED
  BY <1>1, <1>2

\* A recorded approval keeps the broker's history and the policy in their types.
LEMMA ApproveType ==
  ASSUME TypeOK, NEW n \in Node, Approve(n)
  PROVE  granted' \in [Node -> Nat] /\ approved' \subseteq Node
BY DEF Approve, TypeOK

\* Names are claimed by nodes, and clashes are between nodes.
LEMMA ClaimType ==
  ASSUME TypeOK, NEW n \in Node, NEW names \in SUBSET Name
  PROVE  /\ Claim(n, names) \in [Name -> Node \cup {"nobody"}]
         /\ Clashes(n, names) \subseteq (Name \X Node \X Node)
         /\ {Canon[f] : f \in names} \subseteq Path
<1>1. Claim(n, names) \in [Name -> Node \cup {"nobody"}]
  BY DEF Claim, TypeOK
<1>2. Clashes(n, names) \subseteq (Name \X Node \X Node)
  BY DEF Clashes, TypeOK
<1>3. {Canon[f] : f \in names} \subseteq Path
  BY FileAssumption
<1>4. QED
  BY <1>1, <1>2, <1>3

\* Every step of a node keeps every variable in its type.
LEMMA NodeStepType ==
  ASSUME TypeOK, NEW n \in Node, NodeStep(n)
  PROVE  TypeOK'
<1> USE DEF runVars, contextVars, worldVars
<1>0. /\ "rejected" \in Outcomes
      /\ "raised" \in Outcomes
      /\ "input_required" \in Outcomes
      /\ "completed" \in Outcomes
  BY DEF Outcomes, NodeStates
<1>1. CASE StartDeclined(n)
  <2>1. End(n, "rejected")
    BY <1>1 DEF StartDeclined
  <2>2. QED
    BY <1>0, <1>1, <2>1, EndType DEF StartDeclined, TypeOK
<1>2. CASE StartUnscripted(n)
  <2>1. End(n, "raised")
    BY <1>2 DEF StartUnscripted
  <2>2. QED
    BY <1>0, <1>2, <2>1, EndType DEF StartUnscripted, TypeOK
<1>3. CASE StartRejected(n)
  <2>1. End(n, "rejected") /\ Approve(n)
    BY <1>3 DEF StartRejected
  <2>2. QED
    BY <1>0, <1>3, <2>1, EndType, ApproveType DEF StartRejected, TypeOK
<1>4. CASE StartDispatch(n)
  <2>1. Approve(n)
    BY <1>4 DEF StartDispatch
  <2>2. Source(n) \in Trees
    BY BaselineType DEF Source, TypeOK
  <2>3. /\ source' \in [Node -> Trees]
        /\ snapshot' \in [Node -> Trees]
    BY <1>4, <2>2, BaselineType DEF StartDispatch, TypeOK
  <2>4. /\ pc' \in [Node -> PCs]
        /\ attempt' \in [Node -> Nat]
    BY <1>4 DEF StartDispatch, TypeOK, PCs
  <2>5. QED
    BY <1>4, <2>1, <2>3, <2>4, ApproveType DEF StartDispatch, TypeOK
<1>5. CASE Retry(n)
  <2>1. Source(n) \in Trees
    BY BaselineType DEF Source, TypeOK
  <2>2. source' \in [Node -> Trees]
    BY <1>5, <2>1 DEF Retry, TypeOK
  <2>3. /\ pc' \in [Node -> PCs]
        /\ attempt' \in [Node -> Nat]
    BY <1>5 DEF Retry, NextAttempt, TypeOK, PCs
  <2>4. QED
    BY <1>5, <2>2, <2>3 DEF Retry, TypeOK
<1>6. CASE StageFails(n)
  <2>1. LoseAttempt(n, written[n]) /\ written[n] \in SUBSET Path
    BY <1>6 DEF StageFails, TypeOK
  <2>2. Undo(n, files, written[n]) \in Trees
    BY TreeType DEF Undo, TypeOK
  <2>3. files' \in Trees /\ rolledBack' \subseteq Node
    BY <1>6, <2>2 DEF StageFails, TypeOK
  <2>4. QED
    BY <1>6, <2>1, <2>3, LoseAttemptType DEF StageFails, TypeOK
<1>7. CASE StageAsks(n)
  <2>1. End(n, "input_required")
    BY <1>7 DEF StageAsks
  <2>2. QED
    BY <1>0, <1>7, <2>1, EndType DEF StageAsks, TypeOK
<1>8. CASE StageRaises(n)
  <2>1. End(n, "raised")
    BY <1>8 DEF StageRaises
  <2>2. QED
    BY <1>0, <1>8, <2>1, EndType DEF StageRaises, TypeOK
<1>9. ASSUME NEW names \in SUBSET Files[n], NEW ok \in BOOLEAN,
             \/ StageCommits(n, names, ok)
             \/ StageDenied(n, names, ok)
             \/ StageTears(n, names, ok)
      PROVE  TypeOK'
  <2> DEFINE paths == {Canon[f] : f \in names}
  <2>1. names \in SUBSET Name
    BY FileAssumption
  <2>2. /\ Claim(n, names) \in [Name -> Node \cup {"nobody"}]
        /\ Clashes(n, names) \subseteq (Name \X Node \X Node)
        /\ paths \subseteq Path
    BY <2>1, ClaimType
  <2>3. Round(n) \in Nat
    BY NodeAssumption DEF Round, TypeOK
  <2>4. Persisted(n, names, ok) \in Trees
    BY <2>3, TreeType DEF Persisted, TypeOK
  <2>5. CASE StageCommits(n, names, ok)
    <3>1. End(n, "completed")
      BY <2>5 DEF StageCommits
    <3>2. artifacts' \in [Node -> SUBSET Path]
      BY <2>2, <2>5 DEF StageCommits, TypeOK
    <3>3. seam' \in BOOLEAN /\ outputs' \subseteq Node
      BY <2>5 DEF StageCommits, TypeOK
    <3>4. /\ files' \in Trees
          /\ owner' \in [Name -> Node \cup {"nobody"}]
          /\ conflicts' \subseteq (Name \X Node \X Node)
      BY <2>2, <2>4, <2>5 DEF StageCommits, TypeOK
    <3>5. QED
      BY <1>0, <2>5, <3>1, <3>2, <3>3, <3>4, EndType DEF StageCommits, TypeOK
  <2>6. CASE StageDenied(n, names, ok)
    <3>1. /\ LoseAttempt(n, written[n] \cup paths)
          /\ written[n] \cup paths \in SUBSET Path
      BY <2>2, <2>6 DEF StageDenied, TypeOK
    <3>2. Undo(n, Persisted(n, names, ok), written[n] \cup paths) \in Trees
      BY <2>4, TreeType DEF Undo, TypeOK
    <3>3. files' \in Trees /\ rolledBack' \subseteq Node
      BY <2>4, <2>6, <3>2 DEF StageDenied, TypeOK
    <3>4. /\ owner' \in [Name -> Node \cup {"nobody"}]
          /\ conflicts' \subseteq (Name \X Node \X Node)
      BY <2>2, <2>6 DEF StageDenied, TypeOK
    <3>5. QED
      BY <2>6, <3>1, <3>3, <3>4, LoseAttemptType DEF StageDenied, TypeOK
  <2>7. CASE StageTears(n, names, ok)
    <3>1. End(n, "raised")
      BY <2>7 DEF StageTears
    <3>2. /\ files' \in Trees
          /\ owner' \in [Name -> Node \cup {"nobody"}]
          /\ conflicts' \subseteq (Name \X Node \X Node)
      BY <2>2, <2>4, <2>7 DEF StageTears, TypeOK
    <3>3. QED
      BY <1>0, <2>7, <3>1, <3>2, EndType DEF StageTears, TypeOK
  <2>8. QED
    BY <1>9, <2>5, <2>6, <2>7
<1>10. QED
  BY <1>1, <1>2, <1>3, <1>4, <1>5, <1>6, <1>7, <1>8, <1>9 DEF NodeStep

\* Collecting a batch keeps the run's bookkeeping in its types.
LEMMA CollectedType ==
  ASSUME TypeOK, Collected
  PROVE  /\ completed' \subseteq Node
         /\ results' \in [Node -> NodeStates \cup {"none"}]
         /\ repairs' \in 0 .. MaxRepairs
         /\ batch' \subseteq Node
         /\ pc' \in [Node -> PCs]
         /\ artifacts' \in [Node -> SUBSET Path]
<1>1. \A n \in Node : ResultOf(n) \in NodeStates \cup {"none"}
  BY DEF ResultOf, TypeOK, Outcomes, NodeStates
<1>2. Reached \subseteq Node
  BY DEF Reached, TypeOK
<1>3. Rework # {} => repairs < MaxRepairs
  BY DEF Rework, Repairable
<1>4. repairs' \in 0 .. MaxRepairs
  BY <1>3, NodeAssumption DEF Collected, RepairsAfter, TypeOK
<1>5. completed' \subseteq Node /\ batch' \subseteq Node
  BY <1>2 DEF Collected, TypeOK
<1>6. results' \in [Node -> NodeStates \cup {"none"}]
  BY <1>1 DEF Collected, TypeOK
<1>7. pc' \in [Node -> PCs] /\ artifacts' \in [Node -> SUBSET Path]
  BY DEF Collected, TypeOK, PCs
<1>8. QED
  BY <1>4, <1>5, <1>6, <1>7

LEMMA NextType == TypeOK /\ [Next]_vars => TypeOK'
<1> SUFFICES ASSUME TypeOK, [Next]_vars PROVE TypeOK'
  OBVIOUS
<1>1. CASE RequestStop
  BY <1>1 DEF RequestStop, TypeOK, contextVars, nodeVars, worldVars
<1>2. CASE StopAtBoundary
  BY <1>2 DEF StopAtBoundary, TypeOK, contextVars, nodeVars, worldVars, RunStates
<1>3. CASE Schedule
  <2>1. Offered \subseteq Node
    BY DEF Offered, Ready, TypeOK, PlanOver
  <2>2. pc' \in [Node -> PCs] /\ outcome' \in [Node -> Outcomes \cup {"none"}]
    BY <1>3 DEF Schedule, PCs
  <2>3. QED
    BY <1>3, <2>1, <2>2 DEF Schedule, TypeOK, contextVars, worldVars
<1>4. CASE Complete
  BY <1>4 DEF Complete, TypeOK, contextVars, nodeVars, worldVars, RunStates
<1>5. ASSUME NEW n \in Node, NodeStep(n) PROVE TypeOK'
  BY <1>5, NodeStepType
<1>6. CASE CollectAndStop
  <2>1. Collected /\ runState' \in RunStates
    BY <1>6 DEF CollectAndStop, RunStates
  <2>2. QED
    BY <1>6, <2>1, CollectedType DEF CollectAndStop, Collected, TypeOK, worldVars
<1>7. CASE CollectAndContinue
  <2>1. Collected
    BY <1>7 DEF CollectAndContinue
  <2>2. /\ plan' \in PlanOver(Node)
        /\ revisions' \in 0 .. MaxPlanRevisions
        /\ sees' \in [Node -> BOOLEAN]
    BY <1>7, ReviseType, SeesType, NodeAssumption DEF CollectAndContinue, Replans, TypeOK
  <2>3. QED
    BY <1>7, <2>1, <2>2, CollectedType DEF CollectAndContinue, Collected, TypeOK, worldVars
<1>8. CASE UNCHANGED vars
  BY <1>8 DEF vars, runVars, contextVars, nodeVars, worldVars, TypeOK
<1>9. QED
  BY <1>1, <1>2, <1>3, <1>4, <1>5, <1>6, <1>7, <1>8 DEF Next, Progress

\* Every variable keeps its type in every run; in particular the repairs and
\* the plan revisions never exceed max_repairs and max_plan_revisions.
THEOREM TypeCorrect == Spec => []TypeOK
<1>1. QED
  BY InitType, NextType, PTL DEF Spec

-----------------------------------------------------------------------------
(***************************************************************************)
(* The scheduler.  CompletedRunIsComplete is not inductive: it needs that  *)
(* the plan stays acyclic across revisions, that results and completed     *)
(* agree between batches, and that a repair or a revision never strands a  *)
(* node that stays completed.                                              *)
(***************************************************************************)

GraphInv == ValidPlan(plan) /\ PlannedShape(plan)

BatchInv ==
  /\ phase # "running" => batch = {}
  /\ batch \subseteq plan.nodes
  /\ batch \cap completed = {}
  /\ \A n \in batch : plan.deps[n] \subseteq completed
  /\ \A n \in batch : outcome[n] = "completed" => n \in outputs

ResultInv ==
  phase # "finished" => \A n \in Node : results[n] # "none" <=> n \in completed

OutputInv ==
  /\ outputs \subseteq plan.nodes
  /\ completed \subseteq outputs
  /\ \A n \in completed : plan.deps[n] \subseteq completed

\* A revision is due at once when the survey ends, long before implementation.
SeamInv ==
  /\ seam => IMPACT \in outputs
  /\ phase # "finished" /\ seam /\ REFACTOR \notin plan.nodes /\ revisions < MaxPlanRevisions
       => IMPACT \notin completed
  /\ revisions > 0 => REFACTOR \in plan.nodes
  /\ REFACTOR \in plan.nodes /\ IMPLEMENT \in plan.nodes => REFACTOR \in plan.deps[IMPLEMENT]
  /\ IMPLEMENT \in outputs /\ REFACTOR \in plan.nodes => REFACTOR \in outputs
  /\ IMPLEMENT \in outputs /\ IMPACT \in plan.nodes => IMPACT \in completed

EndInv == runState = "completed" => phase = "finished" /\ completed = plan.nodes

SchedInv ==
  /\ GraphInv
  /\ BatchInv
  /\ ResultInv
  /\ OutputInv
  /\ SeamInv
  /\ SeamBeforeImplementation
  /\ EndInv

\* A revision of an acyclic plan that orders design before implementation is
\* acyclic: the seam sits between the two.
LEMMA ReviseValid ==
  ASSUME NEW p \in PlanOver(Node), ValidPlan(p), PlannedShape(p),
         IMPACT \in p.nodes, REFACTOR \notin p.nodes
  PROVE  ValidPlan(Revise(p)) /\ PlannedShape(Revise(p))
<1> DEFINE q == Revise(p)
<1>0. /\ DESIGN \in p.nodes /\ DESIGN # REFACTOR /\ IMPLEMENT # REFACTOR
      /\ IMPLEMENT # DESIGN /\ VERIFY # IMPLEMENT /\ VERIFY # REFACTOR
      /\ IMPACT # REFACTOR
  BY DEF PlannedShape, DESIGN, REFACTOR, IMPLEMENT, VERIFY, IMPACT
<1>1. q.nodes = p.nodes \cup {REFACTOR} /\ DOMAIN q.deps = Node /\ DOMAIN p.deps = Node
  BY DEF Revise, PlanOver
<1>2. \A n \in Node : q.deps[n] = IF n = REFACTOR THEN {DESIGN}
                                  ELSE IF n = IMPLEMENT /\ n \in p.nodes THEN {DESIGN, REFACTOR}
                                  ELSE p.deps[n]
  BY <1>1 DEF Revise
<1>3. p.nodes \subseteq Node /\ REFACTOR \in Node
  BY NodeAssumption DEF PlanOver
<1>4. KnownDependencies(q)
  BY <1>0, <1>1, <1>2, <1>3 DEF ValidPlan, KnownDependencies
<1>5. Acyclic(q)
  <2> SUFFICES ASSUME NEW S \in SUBSET q.nodes, S # {}
               PROVE  \E n \in S : q.deps[n] \cap S = {}
    BY DEF Acyclic
  <2>1. CASE S = {REFACTOR}
    BY <1>0, <1>2, <1>3, <2>1
  <2>2. CASE S # {REFACTOR}
    <3> DEFINE T == S \ {REFACTOR}
    <3>1. T # {} /\ T \in SUBSET p.nodes
      BY <1>1, <2>2
    <3>2. PICK n \in T : p.deps[n] \cap T = {}
      BY <3>1 DEF ValidPlan, Acyclic
    <3>3. p.deps[n] \subseteq p.nodes /\ n \in p.nodes
      BY <3>1, <3>2 DEF ValidPlan, KnownDependencies
    <3>4. CASE n # IMPLEMENT
      BY <1>2, <1>3, <3>2, <3>3, <3>4
    <3>5. CASE n = IMPLEMENT
      <4>1. DESIGN \in p.deps[n]
        BY <3>3, <3>5 DEF PlannedShape
      <4>2. DESIGN \notin S
        BY <1>0, <3>2, <4>1
      <4>3. CASE REFACTOR \in S
        BY <1>2, <1>3, <4>2, <4>3
      <4>4. CASE REFACTOR \notin S
        BY <1>2, <1>3, <3>2, <3>3, <3>5, <4>2, <4>4
      <4>5. QED
        BY <4>3, <4>4
    <3>6. QED
      BY <3>4, <3>5
  <2>3. QED
    BY <2>1, <2>2
<1>6. PlannedShape(q)
  BY <1>0, <1>1, <1>2, <1>3 DEF PlannedShape
<1>7. QED
  BY <1>4, <1>5, <1>6 DEF ValidPlan

LEMMA InitSched == Init => SchedInv
<1> SUFFICES ASSUME Init PROVE SchedInv
  OBVIOUS
<1>1. GraphInv /\ REFACTOR \notin plan.nodes
  BY PlanAssumption DEF Init, GraphInv
<1>2. BatchInv /\ ResultInv /\ OutputInv
  BY DEF Init, BatchInv, ResultInv, OutputInv
<1>3. SeamInv /\ SeamBeforeImplementation /\ EndInv
  BY <1>1 DEF Init, SeamInv, SeamBeforeImplementation, EndInv
<1>4. QED
  BY <1>1, <1>2, <1>3 DEF SchedInv

\* A step of a node that does not commit leaves the run and its context alone.
LEMMA QuietNodeStep ==
  ASSUME TypeOK, NEW n \in Node, NodeStep(n),
         ~(\E names \in SUBSET Files[n], ok \in BOOLEAN : StageCommits(n, names, ok))
  PROVE  /\ UNCHANGED <<runVars, outputs, seam>>
         /\ \A m \in Node : outcome'[m] = "completed" => outcome[m] = "completed"
<1> DEFINE Quiet == /\ UNCHANGED <<runVars, outputs, seam>>
                    /\ \A m \in Node : outcome'[m] = "completed" => outcome[m] = "completed"
<1>1. ASSUME NEW how \in Outcomes \ {"completed"}, End(n, how)
      PROVE  \A m \in Node : outcome'[m] = "completed" => outcome[m] = "completed"
  BY <1>1 DEF End, TypeOK
<1>2. ASSUME NEW paths, LoseAttempt(n, paths)
      PROVE  \A m \in Node : outcome'[m] = "completed" => outcome[m] = "completed"
  BY <1>1, <1>2 DEF LoseAttempt, Outcomes, NodeStates
<1>3. CASE StartDeclined(n) \/ StartRejected(n)
  BY <1>1, <1>3 DEF StartDeclined, StartRejected, contextVars, Outcomes, NodeStates
<1>4. CASE StartUnscripted(n) \/ StageRaises(n)
  BY <1>1, <1>4 DEF StartUnscripted, StageRaises, contextVars, Outcomes
<1>5. CASE StartDispatch(n) \/ Retry(n)
  BY <1>5 DEF StartDispatch, Retry, contextVars
<1>6. CASE StageFails(n)
  BY <1>2, <1>6 DEF StageFails, contextVars
<1>7. CASE StageAsks(n)
  BY <1>1, <1>7 DEF StageAsks, contextVars, Outcomes, NodeStates
<1>8. ASSUME NEW names \in SUBSET Files[n], NEW ok \in BOOLEAN, StageDenied(n, names, ok)
      PROVE  Quiet
  BY <1>2, <1>8 DEF StageDenied
<1>9. ASSUME NEW names \in SUBSET Files[n], NEW ok \in BOOLEAN, StageTears(n, names, ok)
      PROVE  Quiet
  BY <1>1, <1>9 DEF StageTears, Outcomes
<1>10. QED
  BY <1>3, <1>4, <1>5, <1>6, <1>7, <1>8, <1>9 DEF NodeStep

\* A commit adds one output, of a node whose dependencies are completed.
LEMMA CommitSched ==
  ASSUME TypeOK, SchedInv, NEW n \in Node,
         NEW names \in SUBSET Files[n], NEW ok \in BOOLEAN, StageCommits(n, names, ok)
  PROVE  SchedInv'
<1>0. IMPACT # IMPLEMENT /\ IMPLEMENT # REFACTOR /\ IMPACT # REFACTOR
  BY DEF IMPACT, IMPLEMENT, REFACTOR
<1>1. /\ n \in batch /\ phase = "running"
      /\ outputs' = outputs \cup {n}
      /\ UNCHANGED runVars
      /\ seam' \in BOOLEAN
      /\ n # IMPACT => seam' = seam
  BY DEF StageCommits, MayReturn, TypeOK
<1>2. \A m \in Node : outcome'[m] = "completed" => m = n \/ outcome[m] = "completed"
  BY DEF StageCommits, End, TypeOK
<1>3. /\ n \in plan.nodes /\ n \notin completed /\ plan.deps[n] \subseteq completed
      /\ plan.nodes \subseteq Node
  BY <1>1 DEF SchedInv, BatchInv, TypeOK, PlanOver
<1>4. GraphInv' /\ ResultInv' /\ EndInv'
  BY <1>1 DEF SchedInv, GraphInv, ResultInv, EndInv, runVars
<1>5. BatchInv'
  BY <1>1, <1>2, <1>3 DEF SchedInv, BatchInv, runVars
<1>6. OutputInv'
  BY <1>1, <1>3 DEF SchedInv, OutputInv, runVars
<1>7. n = IMPLEMENT /\ IMPACT \in plan.nodes => IMPACT \in completed
  BY <1>3 DEF SchedInv, GraphInv, PlannedShape, OutputInv
<1>8. n = IMPLEMENT /\ REFACTOR \in plan.nodes => REFACTOR \in completed
  BY <1>3 DEF SchedInv, SeamInv
<1>9. completed \subseteq outputs /\ outputs \subseteq plan.nodes
  BY DEF SchedInv, OutputInv
<1>10. SeamInv'
  BY <1>0, <1>1, <1>3, <1>7, <1>8, <1>9 DEF SchedInv, SeamInv, runVars
<1>11. SeamBeforeImplementation'
  <2> SUFFICES ASSUME seam', MaxPlanRevisions > 0, IMPLEMENT \in outputs'
               PROVE  REFACTOR \in outputs'
    BY DEF SeamBeforeImplementation
  <2>1. CASE n = IMPLEMENT
    <3>1. seam /\ IMPACT \in plan.nodes
      BY <1>0, <1>1, <1>9, <2>1 DEF SchedInv, SeamInv
    <3>2. IMPACT \in completed
      BY <1>7, <2>1, <3>1
    <3>3. REFACTOR \in plan.nodes
      BY <1>1, <3>1, <3>2, NodeAssumption DEF SchedInv, SeamInv, TypeOK
    <3>4. QED
      BY <1>1, <1>8, <1>9, <2>1, <3>3
  <2>2. CASE n = IMPACT
    BY <1>0, <1>1, <1>3, <2>2 DEF SchedInv, SeamInv
  <2>3. CASE n # IMPLEMENT /\ n # IMPACT
    BY <1>1, <2>3 DEF SchedInv, SeamBeforeImplementation
  <2>4. QED
    BY <2>1, <2>2, <2>3
<1>12. QED
  BY <1>4, <1>5, <1>6, <1>10, <1>11 DEF SchedInv

\* When nothing is ready, nothing is left: a node that waits for no other
\* uncompleted node would have been offered.
LEMMA NothingReadyNothingLeft ==
  ASSUME TypeOK, SchedInv, phase = "scheduling", Offered = {}
  PROVE  completed = plan.nodes
<1>1. completed \subseteq plan.nodes /\ plan.nodes \subseteq Node
  BY DEF SchedInv, OutputInv, TypeOK, PlanOver
<1>2. SUFFICES ASSUME plan.nodes \ completed # {} PROVE FALSE
  BY <1>1
<1>3. PICK n \in plan.nodes \ completed : plan.deps[n] \cap (plan.nodes \ completed) = {}
  BY <1>2 DEF SchedInv, GraphInv, ValidPlan, Acyclic
<1>4. plan.deps[n] \subseteq completed
  BY <1>3 DEF SchedInv, GraphInv, ValidPlan, KnownDependencies
<1>5. n \in Ready(plan, completed)
  BY <1>3, <1>4 DEF Ready
<1>6. results[n] = "none"
  BY <1>1, <1>3 DEF SchedInv, ResultInv
<1>7. QED
  BY <1>5, <1>6 DEF Offered

\* What a batch leaves completed: only nodes with an output, closed under the
\* dependencies of the plan, whether or not a repair was scheduled.
LEMMA CollectedClosed ==
  ASSUME TypeOK, SchedInv, Collected
  PROVE  /\ completed' \subseteq outputs
         /\ \A n \in completed' : plan.deps[n] \subseteq completed'
         /\ IMPACT \in completed => IMPACT \in completed'
<1>1. Rework = {} \/ (Rework = {IMPLEMENT, VERIFY} /\ VERIFY \in batch)
  BY DEF Rework, Reached
<1>2. completed' = (completed \cup {n \in Reached : outcome[n] = "completed"}) \ Rework
  BY DEF Collected
<1>3. Reached \subseteq batch
  BY DEF Reached
<1>4. completed' \subseteq outputs
  BY <1>2, <1>3 DEF SchedInv, BatchInv, OutputInv
<1>5. ASSUME NEW n \in completed' PROVE plan.deps[n] \subseteq completed'
  <2>1. n \in completed \cup batch /\ n \notin Rework
    BY <1>2, <1>3
  <2>2. plan.deps[n] \subseteq completed /\ n \in plan.nodes
    BY <2>1 DEF SchedInv, BatchInv, OutputInv
  <2>3. CASE Rework = {}
    BY <1>2, <2>2, <2>3
  <2>4. CASE Rework = {IMPLEMENT, VERIFY} /\ VERIFY \in batch
    <3>1. n # VERIFY /\ VERIFY \notin completed
      BY <2>1, <2>4 DEF SchedInv, BatchInv
    <3>2. IMPLEMENT \notin plan.deps[n]
      BY <2>2, <3>1 DEF SchedInv, GraphInv, PlannedShape
    <3>3. QED
      BY <1>2, <2>2, <2>4, <3>1, <3>2
  <2>5. QED
    BY <1>1, <2>3, <2>4
<1>6. IMPACT \in completed => IMPACT \in completed'
  BY <1>1, <1>2 DEF IMPACT, IMPLEMENT, VERIFY
<1>7. QED
  BY <1>4, <1>5, <1>6

\* A batch that ends the run.
LEMMA CollectAndStopSched ==
  ASSUME TypeOK, SchedInv, CollectAndStop
  PROVE  SchedInv'
<1>1. /\ Collected
      /\ phase' = "finished"
      /\ UNCHANGED <<plan, revisions, outputs, seam>>
      /\ batch' = {}
      /\ runState' # "completed"
  BY DEF CollectAndStop, Collected
<1>2. /\ completed' \subseteq outputs
      /\ \A n \in completed' : plan.deps[n] \subseteq completed'
      /\ IMPACT \in completed => IMPACT \in completed'
  BY <1>1, CollectedClosed
<1>3. GraphInv' /\ BatchInv' /\ ResultInv' /\ EndInv'
  BY <1>1 DEF SchedInv, GraphInv, BatchInv, ResultInv, EndInv
<1>4. OutputInv'
  BY <1>1, <1>2 DEF SchedInv, OutputInv
<1>5. SeamInv' /\ SeamBeforeImplementation'
  BY <1>1, <1>2 DEF SchedInv, SeamInv, SeamBeforeImplementation
<1>6. QED
  BY <1>3, <1>4, <1>5 DEF SchedInv

\* When every outcome of a batch is absorbed, results and completed agree.
LEMMA AbsorbedAgree ==
  ASSUME TypeOK, SchedInv, Collected, phase = "running", Fatal = {}
  PROVE  \A n \in Node : results'[n] # "none" <=> n \in completed'
<1> SUFFICES ASSUME NEW n \in Node PROVE results'[n] # "none" <=> n \in completed'
  OBVIOUS
<1>1. Reached = batch
  BY DEF Reached
<1>2. results[n] # "none" <=> n \in completed
  BY DEF SchedInv, ResultInv
<1>3. /\ completed' = (completed \cup {m \in batch : outcome[m] = "completed"}) \ Rework
      /\ results'[n] = IF n \in Rework THEN "none"
                       ELSE IF n \in batch THEN ResultOf(n) ELSE results[n]
  BY <1>1 DEF Collected
<1>4. CASE n \in Rework
  BY <1>3, <1>4
<1>5. CASE n \notin Rework /\ n \in batch
  <2>1. outcome[n] = "completed"
    BY <1>1, <1>5 DEF Fatal, Rework, Repairable
  <2>2. ResultOf(n) = "completed"
    BY <2>1 DEF ResultOf
  <2>3. QED
    BY <1>3, <1>5, <2>1, <2>2
<1>6. CASE n \notin Rework /\ n \notin batch
  BY <1>2, <1>3, <1>6
<1>7. QED
  BY <1>4, <1>5, <1>6

\* A batch that is absorbed, with or without a revision of the plan.
LEMMA CollectAndContinueSched ==
  ASSUME TypeOK, SchedInv, CollectAndContinue
  PROVE  SchedInv'
<1>0. IMPACT # IMPLEMENT /\ IMPLEMENT # REFACTOR /\ IMPACT # REFACTOR /\ DESIGN # REFACTOR
  BY DEF IMPACT, IMPLEMENT, REFACTOR, DESIGN
<1>1. /\ Collected
      /\ phase = "running" /\ phase' = "scheduling"
      /\ Fatal = {}
      /\ UNCHANGED <<runState, outputs, seam>>
      /\ batch' = {}
  BY DEF CollectAndContinue, Collected
<1>2. /\ completed' \subseteq outputs
      /\ \A n \in completed' : plan.deps[n] \subseteq completed'
      /\ IMPACT \in completed => IMPACT \in completed'
  BY <1>1, CollectedClosed
<1>3. ResultInv'
  BY <1>1, AbsorbedAgree DEF ResultInv
<1>4. EndInv' /\ BatchInv'
  BY <1>1 DEF SchedInv, EndInv, BatchInv
<1>5. CASE ~Replans
  <2>1. UNCHANGED <<plan, revisions>>
    BY <1>5 DEF CollectAndContinue
  <2>2. GraphInv' /\ OutputInv' /\ SeamBeforeImplementation'
    BY <1>1, <1>2, <2>1 DEF SchedInv, GraphInv, OutputInv, SeamBeforeImplementation
  <2>3. SeamInv'
    BY <1>1, <1>2, <1>5, <2>1 DEF SchedInv, SeamInv, Replans, NeedsSeam
  <2>4. QED
    BY <1>3, <1>4, <2>2, <2>3 DEF SchedInv
<1>6. CASE Replans
  <2>1. plan' = Revise(plan) /\ revisions' = revisions + 1
    BY <1>6 DEF CollectAndContinue
  <2>2. /\ seam /\ IMPACT \in outputs /\ REFACTOR \notin plan.nodes
        /\ revisions < MaxPlanRevisions
    BY <1>6 DEF Replans, NeedsSeam
  <2>3. IMPACT \in plan.nodes /\ plan \in PlanOver(Node) /\ outputs \subseteq plan.nodes
    BY <2>2 DEF SchedInv, OutputInv, TypeOK
  <2>4. GraphInv'
    BY <2>1, <2>2, <2>3, ReviseValid DEF SchedInv, GraphInv
  <2>5. IMPLEMENT \notin outputs
    BY <1>1, <2>2, <2>3 DEF SchedInv, SeamInv
  <2>6. /\ plan'.nodes = plan.nodes \cup {REFACTOR}
        /\ \A n \in Node \ {REFACTOR, IMPLEMENT} : plan'.deps[n] = plan.deps[n]
        /\ IMPLEMENT \in plan.nodes => REFACTOR \in plan'.deps[IMPLEMENT]
    <3>1. DOMAIN plan.deps = Node
      BY <2>3 DEF PlanOver
    <3>2. QED
      BY <1>0, <2>1, <3>1, NodeAssumption DEF Revise
  <2>7. OutputInv'
    <3>1. \A n \in completed' : n \in Node \ {REFACTOR, IMPLEMENT}
      BY <1>2, <2>2, <2>3, <2>5 DEF PlanOver
    <3>2. QED
      BY <1>1, <1>2, <2>3, <2>6, <3>1 DEF SchedInv, OutputInv
  <2>8. SeamInv' /\ SeamBeforeImplementation'
    BY <1>0, <1>1, <2>2, <2>5, <2>6 DEF SchedInv, SeamInv, SeamBeforeImplementation
  <2>9. QED
    BY <1>3, <1>4, <2>4, <2>7, <2>8 DEF SchedInv
<1>7. QED
  BY <1>5, <1>6

LEMMA NextSched == TypeOK /\ SchedInv /\ [Next]_vars => SchedInv'
<1> SUFFICES ASSUME TypeOK, SchedInv, [Next]_vars PROVE SchedInv'
  OBVIOUS
<1> USE DEF SchedInv
<1>1. CASE RequestStop \/ StopAtBoundary
  <2>1. /\ UNCHANGED <<plan, revisions, completed, results, batch, outcome, outputs, seam>>
        /\ phase' = phase \/ (phase = "scheduling" /\ phase' = "finished")
        /\ runState' = runState \/ runState' = "failed"
    BY <1>1 DEF RequestStop, StopAtBoundary, contextVars, nodeVars
  <2>2. runState = "completed" => phase' = "finished"
    BY <1>1, <2>1 DEF EndInv, RequestStop, StopAtBoundary
  <2>3. QED
    BY <2>1, <2>2 DEF GraphInv, BatchInv, ResultInv, OutputInv, SeamInv,
                      SeamBeforeImplementation, EndInv
<1>2. CASE Schedule
  <2>1. /\ UNCHANGED <<runState, plan, revisions, completed, results, outputs, seam>>
        /\ phase = "scheduling" /\ phase' = "running"
        /\ batch' = Offered
        /\ \A n \in Node : outcome'[n] = "none"
    BY <1>2 DEF Schedule, contextVars
  <2>2. Offered \subseteq Node
    BY DEF Offered, Ready, TypeOK, PlanOver
  <2>3. BatchInv'
    BY <2>1, <2>2 DEF BatchInv, Offered, Ready
  <2>4. QED
    BY <2>1, <2>3 DEF GraphInv, ResultInv, OutputInv, SeamInv, SeamBeforeImplementation, EndInv
<1>3. CASE Complete
  <2>1. /\ UNCHANGED <<plan, revisions, completed, results, batch, outcome, outputs, seam>>
        /\ phase = "scheduling" /\ phase' = "finished"
        /\ Offered = {}
    BY <1>3 DEF Complete, contextVars, nodeVars
  <2>2. completed = plan.nodes
    BY <2>1, NothingReadyNothingLeft
  <2>3. QED
    BY <2>1, <2>2 DEF GraphInv, BatchInv, ResultInv, OutputInv, SeamInv,
                      SeamBeforeImplementation, EndInv
<1>4. ASSUME NEW n \in Node, NodeStep(n) PROVE SchedInv'
  <2>1. CASE \E names \in SUBSET Files[n], ok \in BOOLEAN : StageCommits(n, names, ok)
    BY <2>1, CommitSched
  <2>2. CASE ~(\E names \in SUBSET Files[n], ok \in BOOLEAN : StageCommits(n, names, ok))
    <3>1. /\ UNCHANGED <<runVars, outputs, seam>>
          /\ \A m \in Node : outcome'[m] = "completed" => outcome[m] = "completed"
      BY <1>4, <2>2, QuietNodeStep
    <3>2. BatchInv'
      BY <3>1 DEF BatchInv, runVars, TypeOK
    <3>3. QED
      BY <3>1, <3>2 DEF GraphInv, ResultInv, OutputInv, SeamInv,
                        SeamBeforeImplementation, EndInv, runVars
  <2>3. QED
    BY <2>1, <2>2
<1>5. CASE CollectAndStop
  BY <1>5, CollectAndStopSched
<1>6. CASE CollectAndContinue
  BY <1>6, CollectAndContinueSched
<1>7. CASE UNCHANGED vars
  BY <1>7 DEF vars, runVars, contextVars, nodeVars, GraphInv, BatchInv, ResultInv, OutputInv,
              SeamInv, SeamBeforeImplementation, EndInv
<1>8. QED
  BY <1>1, <1>2, <1>3, <1>4, <1>5, <1>6, <1>7 DEF Next, Progress

\* The scheduling invariant holds in every run.
THEOREM SchedulerInvariant == Spec => []SchedInv
<1>1. QED
  BY TypeCorrect, InitSched, NextSched, PTL DEF Spec

\* A run that reports completion has completed every node of its final plan,
\* for every acyclic plan of the planner's shape, however many repairs and
\* revisions there were.
THEOREM CompletionIsHonest == Spec => []CompletedRunIsComplete
<1>1. SchedInv => CompletedRunIsComplete
  BY DEF SchedInv, EndInv, CompletedRunIsComplete
<1>2. QED
  BY <1>1, SchedulerInvariant, PTL

\* Neither a repair nor a revision strands a completed node: the dependencies
\* of every completed node are completed, and its output is available.
THEOREM CompletionIsClosed == Spec => []CompletedIsClosed
<1>1. SchedInv => CompletedIsClosed
  BY DEF SchedInv, OutputInv, CompletedIsClosed
<1>2. QED
  BY <1>1, SchedulerInvariant, PTL

\* Once the survey has found no extension point, no implementation is accepted
\* before the seam is, as long as one plan revision is allowed.
THEOREM SeamComesFirst == Spec => []SeamBeforeImplementation
<1>1. SchedInv => SeamBeforeImplementation
  BY DEF SchedInv
<1>2. QED
  BY <1>1, SchedulerInvariant, PTL

-----------------------------------------------------------------------------
(***************************************************************************)
(* One step of one node.                                                   *)
(***************************************************************************)

\* The paths the names of a stage resolve to.
PathsOf(n) == {Canon[f] : f \in Files[n]}

\* Where a node's coroutine holds a snapshot.
Running(n) == pc[n] \in {"dispatch", "backoff"}

\* Only written paths are undone, and a node writes under its own names.
WrittenInv == \A n \in Node : written[n] \subseteq PathsOf(n)

\* The locals of node m are as they were.
SameLocals(m) ==
  /\ pc'[m] = pc[m] /\ outcome'[m] = outcome[m] /\ source'[m] = source[m]
  /\ snapshot'[m] = snapshot[m] /\ written'[m] = written[m] /\ artifacts'[m] = artifacts[m]

\* Ending, or losing an attempt, touches the locals of one node.
LEMMA EndLocal ==
  ASSUME TypeOK, NEW n \in Node, NEW how, End(n, how)
  PROVE  /\ pc'[n] = "done" /\ outcome'[n] = how
         /\ snapshot'[n] = Baseline /\ written'[n] = {}
         /\ \A m \in Node \ {n} : /\ pc'[m] = pc[m] /\ outcome'[m] = outcome[m]
                                  /\ snapshot'[m] = snapshot[m] /\ written'[m] = written[m]
BY DEF End, TypeOK

LEMMA LoseLocal ==
  ASSUME TypeOK, NEW n \in Node, NEW paths \in SUBSET Path, LoseAttempt(n, paths)
  PROVE  /\ \/ /\ pc'[n] = "backoff" /\ outcome'[n] = outcome[n]
               /\ snapshot'[n] = snapshot[n] /\ written'[n] = paths
            \/ /\ pc'[n] = "done" /\ outcome'[n] = "failed"
               /\ snapshot'[n] = Baseline /\ written'[n] = {}
         /\ \A m \in Node \ {n} : /\ pc'[m] = pc[m] /\ outcome'[m] = outcome[m]
                                  /\ snapshot'[m] = snapshot[m] /\ written'[m] = written[m]
<1>1. CASE attempt[n] <= MaxAttempts[n]
  BY <1>1 DEF LoseAttempt, TypeOK
<1>2. CASE ~(attempt[n] <= MaxAttempts[n])
  <2>1. End(n, "failed")
    BY <1>2 DEF LoseAttempt
  <2>2. QED
    BY <2>1, EndLocal
<1>3. QED
  BY <1>1, <1>2

\* Where a node may go in one step, and what the step leaves alone: the run's
\* bookkeeping and every other coroutine.
LEMMA NodeStepLocal ==
  ASSUME TypeOK, NEW n \in Node, NodeStep(n)
  PROVE  /\ phase = "running" /\ n \in batch /\ UNCHANGED runVars
         /\ pc[n] \in {"waiting", "dispatch", "backoff"}
         /\ \A m \in Node \ {n} : SameLocals(m)
         /\ outputs \subseteq outputs'
<1> DEFINE Goal == /\ phase = "running" /\ n \in batch /\ UNCHANGED runVars
                   /\ pc[n] \in {"waiting", "dispatch", "backoff"}
                   /\ \A m \in Node \ {n} : SameLocals(m)
                   /\ outputs \subseteq outputs'
<1>0. /\ MayStart(n) => phase = "running" /\ n \in batch /\ pc[n] = "waiting"
      /\ MayReturn(n) => phase = "running" /\ n \in batch /\ pc[n] = "dispatch"
  BY DEF MayStart, MayReturn
<1>1. CASE StartDeclined(n) \/ StartUnscripted(n) \/ StartRejected(n)
  <2>1. \E how \in Outcomes : End(n, how)
    BY <1>1 DEF StartDeclined, StartUnscripted, StartRejected, Outcomes, NodeStates
  <2>2. MayStart(n) /\ UNCHANGED <<runVars, outputs, source, artifacts>>
    BY <1>1 DEF StartDeclined, StartUnscripted, StartRejected, contextVars
  <2>3. QED
    BY <1>0, <2>1, <2>2, EndLocal DEF SameLocals
<1>2. CASE StartDispatch(n)
  BY <1>0, <1>2 DEF StartDispatch, SameLocals, TypeOK, contextVars
<1>3. CASE Retry(n)
  BY <1>3 DEF Retry, SameLocals, TypeOK, contextVars
<1>4. CASE StageFails(n)
  <2>1. LoseAttempt(n, written[n]) /\ written[n] \in SUBSET Path
    BY <1>4 DEF StageFails, TypeOK
  <2>2. MayReturn(n) /\ UNCHANGED <<runVars, outputs, source, artifacts>>
    BY <1>4 DEF StageFails, contextVars
  <2>3. QED
    BY <1>0, <2>1, <2>2, LoseLocal DEF SameLocals
<1>5. CASE StageAsks(n) \/ StageRaises(n)
  <2>1. \E how \in Outcomes : End(n, how)
    BY <1>5 DEF StageAsks, StageRaises, Outcomes, NodeStates
  <2>2. MayReturn(n) /\ UNCHANGED <<runVars, outputs, source, artifacts>>
    BY <1>5 DEF StageAsks, StageRaises, contextVars
  <2>3. QED
    BY <1>0, <2>1, <2>2, EndLocal DEF SameLocals
<1>6. ASSUME NEW names \in SUBSET Files[n], NEW ok \in BOOLEAN, StageCommits(n, names, ok)
      PROVE  Goal
  <2>1. End(n, "completed") /\ MayReturn(n) /\ UNCHANGED <<runVars, source>>
    BY <1>6 DEF StageCommits
  <2>2. outputs' = outputs \cup {n} /\ \A m \in Node \ {n} : artifacts'[m] = artifacts[m]
    BY <1>6 DEF StageCommits, TypeOK
  <2>3. QED
    BY <1>0, <2>1, <2>2, EndLocal DEF SameLocals
<1>7. ASSUME NEW names \in SUBSET Files[n], NEW ok \in BOOLEAN, StageDenied(n, names, ok)
      PROVE  Goal
  <2> DEFINE paths == written[n] \cup {Canon[f] : f \in names}
  <2>1. LoseAttempt(n, paths) /\ MayReturn(n) /\ UNCHANGED <<runVars, outputs, source, artifacts>>
    BY <1>7 DEF StageDenied
  <2>2. paths \in SUBSET Path
    BY FileAssumption DEF TypeOK
  <2>3. QED
    BY <1>0, <2>1, <2>2, LoseLocal DEF SameLocals
<1>8. ASSUME NEW names \in SUBSET Files[n], NEW ok \in BOOLEAN, StageTears(n, names, ok)
      PROVE  Goal
  <2>1. /\ End(n, "raised") /\ MayReturn(n)
        /\ UNCHANGED <<runVars, outputs, source, artifacts>>
    BY <1>8 DEF StageTears
  <2>2. QED
    BY <1>0, <2>1, EndLocal DEF SameLocals
<1>9. QED
  BY <1>1, <1>2, <1>3, <1>4, <1>5, <1>6, <1>7, <1>8 DEF NodeStep

\* What a step of a node does to one file: nothing, or to a file under one of
\* its own names, the write of an accepted or torn output, or the snapshot.
LEMMA FileStep ==
  ASSUME TypeOK, WrittenInv, NEW n \in Node, NodeStep(n), NEW p \in Path
  PROVE  \/ files'[p] = files[p]
         \/ /\ p \in PathsOf(n) /\ pc[n] = "dispatch" /\ n \in Rollback
            /\ files'[p] = snapshot[n][p] /\ artifacts' = artifacts
         \/ /\ p \in PathsOf(n) /\ pc[n] = "dispatch"
            /\ files'[p].by = n /\ files'[p].gen = Round(n)
            /\ \/ files'[p].ok /\ outputs' = outputs \cup {n}
               \/ n \in UnsafeNames /\ outcome'[n] = "raised" /\ pc'[n] = "done"
<1> DEFINE Old     == files'[p] = files[p]
           Back    == /\ p \in PathsOf(n) /\ pc[n] = "dispatch" /\ n \in Rollback
                      /\ files'[p] = snapshot[n][p] /\ artifacts' = artifacts
           Wrote   == /\ p \in PathsOf(n) /\ pc[n] = "dispatch"
                      /\ files'[p].by = n /\ files'[p].gen = Round(n)
                      /\ \/ files'[p].ok /\ outputs' = outputs \cup {n}
                         \/ n \in UnsafeNames /\ outcome'[n] = "raised" /\ pc'[n] = "done"
<1>0. MayReturn(n) => pc[n] = "dispatch"
  BY DEF MayReturn
<1>a. DOMAIN files = Path
  BY DEF TypeOK, Trees
<1>b. ASSUME NEW names \in SUBSET Files[n], NEW ok \in BOOLEAN
      PROVE  /\ DOMAIN Persisted(n, names, ok) = Path
             /\ p \in {Canon[f] : f \in names} =>
                  /\ p \in PathsOf(n)
                  /\ Persisted(n, names, ok)[p].by = n
                  /\ Persisted(n, names, ok)[p].gen = Round(n)
                  /\ Persisted(n, names, ok)[p].ok = ok
             /\ p \notin {Canon[f] : f \in names} => Persisted(n, names, ok)[p] = files[p]
  BY <1>a DEF Persisted, Write, PathsOf
<1>1. CASE StartDeclined(n) \/ StartUnscripted(n) \/ StartRejected(n) \/ StartDispatch(n)
           \/ Retry(n) \/ StageAsks(n) \/ StageRaises(n)
  BY <1>1 DEF StartDeclined, StartUnscripted, StartRejected, StartDispatch, Retry, StageAsks,
              StageRaises, worldVars
<1>2. CASE StageFails(n)
  <2>1. MayReturn(n)
    BY <1>2 DEF StageFails
  <2>2. CASE attempt[n] > MaxAttempts[n] /\ n \in Rollback \ rolledBack
    <3>1. files' = Undo(n, files, written[n])
      BY <1>2, <2>2 DEF StageFails
    <3>2. artifacts' = artifacts
      BY <1>2 DEF StageFails
    <3>3. p \in written[n] => files'[p] = snapshot[n][p]
      BY <1>a, <3>1 DEF Undo, RestorePaths
    <3>4. p \notin written[n] => files'[p] = files[p]
      BY <1>a, <3>1 DEF Undo, RestorePaths
    <3>5. p \in written[n] => p \in PathsOf(n)
      BY DEF WrittenInv
    <3>6. QED
      BY <1>0, <2>1, <2>2, <3>2, <3>3, <3>4, <3>5
  <2>3. CASE ~(attempt[n] > MaxAttempts[n] /\ n \in Rollback \ rolledBack)
    BY <1>2, <2>3 DEF StageFails
  <2>4. QED
    BY <2>2, <2>3
<1>3. ASSUME NEW names \in SUBSET Files[n], NEW ok \in BOOLEAN, StageCommits(n, names, ok)
      PROVE  Old \/ Wrote
  <2>1. /\ files' = Persisted(n, names, ok) /\ ok /\ outputs' = outputs \cup {n}
        /\ MayReturn(n)
    BY <1>3 DEF StageCommits, ExitAllowed
  <2>2. QED
    BY <1>0, <1>b, <2>1
<1>4. ASSUME NEW names \in SUBSET Files[n], NEW ok \in BOOLEAN, StageDenied(n, names, ok)
      PROVE  Old \/ Back
  <2> DEFINE paths == written[n] \cup {Canon[f] : f \in names}
  <2>1. MayReturn(n)
    BY <1>4 DEF StageDenied
  <2>3. paths \subseteq PathsOf(n)
    BY DEF WrittenInv, PathsOf
  <2>4. CASE n \in Rollback
    <3>1. files' = Undo(n, Persisted(n, names, ok), paths)
      BY <1>4, <2>4 DEF StageDenied
    <3>2. DOMAIN Persisted(n, names, ok) = Path
      BY <1>b
    <3>3. p \in paths => files'[p] = snapshot[n][p]
      BY <3>1, <3>2 DEF Undo, RestorePaths
    <3>4. p \notin paths => files'[p] = Persisted(n, names, ok)[p]
      BY <3>1, <3>2 DEF Undo, RestorePaths
    <3>5. p \notin paths => files'[p] = files[p]
      BY <1>b, <3>4
    <3>6. artifacts' = artifacts
      BY <1>4 DEF StageDenied
    <3>7. QED
      BY <1>0, <2>1, <2>3, <2>4, <3>3, <3>5, <3>6
  <2>5. CASE n \notin Rollback
    <3>1. files' = Persisted(n, names, ok)
      BY <1>4, <2>5 DEF StageDenied
    <3>2. names = {}
      BY <2>5, WriterAssumption
    <3>3. QED
      BY <1>b, <3>1, <3>2
  <2>6. QED
    BY <2>4, <2>5
<1>5. ASSUME NEW names \in SUBSET Files[n], NEW ok \in BOOLEAN, StageTears(n, names, ok)
      PROVE  Old \/ Wrote
  <2>1. /\ files' = Persisted(n, names, ok) /\ n \in UnsafeNames
        /\ MayReturn(n) /\ End(n, "raised")
    BY <1>5 DEF StageTears
  <2>2. outcome'[n] = "raised" /\ pc'[n] = "done"
    BY <2>1, EndLocal
  <2>3. QED
    BY <1>0, <1>b, <2>1, <2>2
<1>6. QED
  BY <1>1, <1>2, <1>3, <1>4, <1>5 DEF NodeStep

\* What a step of a node does to its snapshot: it is the tree as the stage was
\* dispatched, and it dies with the coroutine.
LEMMA SnapshotStep ==
  ASSUME TypeOK, NEW n \in Node, NodeStep(n)
  PROVE  \/ snapshot'[n] = snapshot[n] /\ Running(n)
         \/ snapshot'[n] = Baseline /\ (pc'[n] = "done" \/ n \notin Rollback)
         \/ snapshot'[n] = files /\ files' = files /\ pc[n] = "waiting" /\ pc'[n] = "dispatch"
<1>0. MayReturn(n) => Running(n)
  BY DEF MayReturn, Running
<1>1. CASE StartDeclined(n) \/ StartUnscripted(n) \/ StartRejected(n)
           \/ StageAsks(n) \/ StageRaises(n)
  <2>1. \E how \in Outcomes : End(n, how)
    BY <1>1 DEF StartDeclined, StartUnscripted, StartRejected, StageAsks, StageRaises,
                Outcomes, NodeStates
  <2>2. QED
    BY <2>1, EndLocal
<1>2. CASE StartDispatch(n)
  BY <1>2 DEF StartDispatch, MayStart, TypeOK
<1>3. CASE Retry(n)
  BY <1>3 DEF Retry, Running
<1>4. CASE StageFails(n)
  <2>1. LoseAttempt(n, written[n]) /\ written[n] \in SUBSET Path /\ MayReturn(n)
    BY <1>4 DEF StageFails, TypeOK
  <2>2. QED
    BY <1>0, <2>1, LoseLocal
<1>5. ASSUME NEW names \in SUBSET Files[n], NEW ok \in BOOLEAN, StageDenied(n, names, ok)
      PROVE  (snapshot'[n] = snapshot[n] /\ Running(n))
               \/ (snapshot'[n] = Baseline /\ pc'[n] = "done")
  <2>1. /\ LoseAttempt(n, written[n] \cup {Canon[f] : f \in names}) /\ MayReturn(n)
        /\ written[n] \cup {Canon[f] : f \in names} \in SUBSET Path
    BY <1>5, FileAssumption DEF StageDenied, TypeOK
  <2>2. QED
    BY <1>0, <2>1, LoseLocal
<1>6. ASSUME NEW names \in SUBSET Files[n], NEW ok \in BOOLEAN,
             StageCommits(n, names, ok) \/ StageTears(n, names, ok)
      PROVE  snapshot'[n] = Baseline /\ pc'[n] = "done"
  <2>1. \E how \in Outcomes : End(n, how)
    BY <1>6 DEF StageCommits, StageTears, Outcomes, NodeStates
  <2>2. QED
    BY <2>1, EndLocal
<1>7. QED
  BY <1>1, <1>2, <1>3, <1>4, <1>5, <1>6 DEF NodeStep

\* Everything but a step of a node leaves the workspace, the broker's history
\* and what the coroutines hold alone.
LEMMA RunStep ==
  ASSUME [Next]_vars, ~(\E n \in Node : NodeStep(n))
  PROVE  UNCHANGED <<outputs, seam, owner, source, snapshot, written,
                     files, granted, approved, conflicts>>
<1>1. CASE RequestStop
  BY <1>1 DEF RequestStop, contextVars, nodeVars, worldVars
<1>2. CASE StopAtBoundary
  BY <1>2 DEF StopAtBoundary, contextVars, nodeVars, worldVars
<1>3. CASE Schedule
  BY <1>3 DEF Schedule, contextVars, worldVars
<1>4. CASE Complete
  BY <1>4 DEF Complete, contextVars, nodeVars, worldVars
<1>5. CASE CollectAndStop \/ CollectAndContinue
  BY <1>5 DEF CollectAndStop, CollectAndContinue, Collected, worldVars
<1>6. CASE UNCHANGED vars
  BY <1>6 DEF vars, contextVars, nodeVars, worldVars
<1>7. QED
  BY <1>1, <1>2, <1>3, <1>4, <1>5, <1>6 DEF Next, Progress

LEMMA NextWritten == TypeOK /\ WrittenInv /\ [Next]_vars => WrittenInv'
<1> SUFFICES ASSUME TypeOK, WrittenInv, [Next]_vars PROVE WrittenInv'
  OBVIOUS
<1>1. ASSUME NEW n \in Node, NodeStep(n) PROVE WrittenInv'
  <2>1. \A m \in Node \ {n} : written'[m] = written[m]
    BY <1>1, NodeStepLocal DEF SameLocals
  <2>2. SUFFICES written'[n] \subseteq PathsOf(n)
    BY <2>1 DEF WrittenInv, PathsOf
  <2>3. CASE StartDeclined(n) \/ StartUnscripted(n) \/ StartRejected(n)
             \/ StageAsks(n) \/ StageRaises(n)
    <3>1. \E how \in Outcomes : End(n, how)
      BY <2>3 DEF StartDeclined, StartUnscripted, StartRejected, StageAsks, StageRaises,
                  Outcomes, NodeStates
    <3>2. QED
      BY <3>1, EndLocal
  <2>4. CASE StartDispatch(n) \/ Retry(n)
    BY <2>4 DEF StartDispatch, Retry, WrittenInv
  <2>5. CASE StageFails(n)
    <3>1. LoseAttempt(n, written[n]) /\ written[n] \in SUBSET Path
      BY <2>5 DEF StageFails, TypeOK
    <3>2. QED
      BY <3>1, LoseLocal DEF WrittenInv
  <2>6. ASSUME NEW names \in SUBSET Files[n], NEW ok \in BOOLEAN, StageDenied(n, names, ok)
        PROVE  written'[n] \subseteq PathsOf(n)
    <3> DEFINE paths == written[n] \cup {Canon[f] : f \in names}
    <3>1. LoseAttempt(n, paths)
      BY <2>6 DEF StageDenied
    <3>2. paths \in SUBSET Path /\ paths \subseteq PathsOf(n)
      BY FileAssumption DEF TypeOK, WrittenInv, PathsOf
    <3>3. QED
      BY <3>1, <3>2, LoseLocal
  <2>7. ASSUME NEW names \in SUBSET Files[n], NEW ok \in BOOLEAN,
               StageCommits(n, names, ok) \/ StageTears(n, names, ok)
        PROVE  written'[n] \subseteq PathsOf(n)
    <3>1. \E how \in Outcomes : End(n, how)
      BY <2>7 DEF StageCommits, StageTears, Outcomes, NodeStates
    <3>2. QED
      BY <3>1, EndLocal
  <2>8. QED
    BY <1>1, <2>3, <2>4, <2>5, <2>6, <2>7 DEF NodeStep
<1>2. CASE ~(\E n \in Node : NodeStep(n))
  BY <1>2, RunStep DEF WrittenInv, PathsOf
<1>3. QED
  BY <1>1, <1>2

\* What a node may undo lies under its own names.
LEMMA WrittenAlways == Spec => []WrittenInv
<1>1. Init => WrittenInv
  BY DEF Init, WrittenInv
<1>2. QED
  BY <1>1, NextWritten, TypeCorrect, PTL DEF Spec

\* No outcome before the end.
OutcomeInv == \A n \in batch : pc[n] # "done" => outcome[n] = "none"

LEMMA NextOutcome == TypeOK /\ OutcomeInv /\ [Next]_vars => OutcomeInv'
<1> SUFFICES ASSUME TypeOK, OutcomeInv, [Next]_vars PROVE OutcomeInv'
  OBVIOUS
<1>1. ASSUME NEW n \in Node, NodeStep(n) PROVE OutcomeInv'
  <2>1. /\ n \in batch /\ batch' = batch /\ pc[n] # "done"
        /\ \A m \in Node \ {n} : pc'[m] = pc[m] /\ outcome'[m] = outcome[m]
    BY <1>1, NodeStepLocal DEF SameLocals, runVars
  <2>2. pc'[n] = "done" \/ outcome'[n] = outcome[n]
    <3>1. CASE StartDeclined(n) \/ StartUnscripted(n) \/ StartRejected(n)
               \/ StageAsks(n) \/ StageRaises(n)
      <4>1. \E how \in Outcomes : End(n, how)
        BY <3>1 DEF StartDeclined, StartUnscripted, StartRejected, StageAsks, StageRaises,
                    Outcomes, NodeStates
      <4>2. QED
        BY <4>1, EndLocal
    <3>2. CASE StartDispatch(n) \/ Retry(n)
      BY <3>2 DEF StartDispatch, Retry
    <3>3. CASE StageFails(n)
      <4>1. LoseAttempt(n, written[n]) /\ written[n] \in SUBSET Path
        BY <3>3 DEF StageFails, TypeOK
      <4>2. QED
        BY <4>1, LoseLocal
    <3>4. ASSUME NEW names \in SUBSET Files[n], NEW ok \in BOOLEAN, StageDenied(n, names, ok)
          PROVE  pc'[n] = "done" \/ outcome'[n] = outcome[n]
      <4>1. /\ LoseAttempt(n, written[n] \cup {Canon[f] : f \in names})
            /\ written[n] \cup {Canon[f] : f \in names} \in SUBSET Path
        BY <3>4, FileAssumption DEF StageDenied, TypeOK
      <4>2. QED
        BY <4>1, LoseLocal
    <3>5. ASSUME NEW names \in SUBSET Files[n], NEW ok \in BOOLEAN,
                 StageCommits(n, names, ok) \/ StageTears(n, names, ok)
          PROVE  pc'[n] = "done"
      <4>1. \E how \in Outcomes : End(n, how)
        BY <3>5 DEF StageCommits, StageTears, Outcomes, NodeStates
      <4>2. QED
        BY <4>1, EndLocal
    <3>6. QED
      BY <1>1, <3>1, <3>2, <3>3, <3>4, <3>5 DEF NodeStep
  <2>3. QED
    BY <2>1, <2>2 DEF OutcomeInv, TypeOK
<1>2. CASE ~(\E n \in Node : NodeStep(n))
  <2>1. CASE RequestStop \/ StopAtBoundary \/ Complete \/ UNCHANGED vars
    BY <2>1 DEF RequestStop, StopAtBoundary, Complete, vars, runVars, nodeVars, OutcomeInv
  <2>2. CASE Schedule
    <3>1. Offered \subseteq Node
      BY DEF Offered, Ready, TypeOK, PlanOver
    <3>2. QED
      BY <2>2, <3>1 DEF Schedule, OutcomeInv
  <2>3. CASE CollectAndStop \/ CollectAndContinue
    BY <2>3 DEF CollectAndStop, CollectAndContinue, Collected, OutcomeInv
  <2>4. QED
    BY <1>2, <2>1, <2>2, <2>3 DEF Next, Progress
<1>3. QED
  BY <1>1, <1>2

LEMMA OutcomeAlways == Spec => []OutcomeInv
<1>1. Init => OutcomeInv
  BY DEF Init, OutcomeInv
<1>2. QED
  BY <1>1, NextOutcome, TypeCorrect, PTL DEF Spec

-----------------------------------------------------------------------------
(***************************************************************************)
(* Refused output.  What is clean must be known of the snapshots as well:  *)
(* a rollback puts a snapshot's files back into the workspace.             *)
(***************************************************************************)

CleanTree(t) == \A p \in Path : t[p].by \in Node => t[p].ok /\ t[p].by \in outputs

CleanInv == CleanTree(files) /\ \A n \in Node : CleanTree(snapshot[n])

\* A torn write leaves a node that raised, and the batch is never absorbed.
TornInv ==
  \/ CleanInv
  \/ \E n \in batch : n # VERIFY /\ outcome[n] = "raised" /\ pc[n] = "done"
  \/ phase = "finished" /\ runState # "completed"

\* Nothing was written before the run.
LEMMA BaselineClean ==
  /\ \A p \in Path : Baseline[p].by \notin Node
  /\ CleanTree(Baseline)
<1>1. \A p \in Path : Baseline[p].by \in {"absent", "original"}
  BY DEF Baseline, Absent, Original
<1>2. QED
  BY <1>1, NodeAssumption DEF CleanTree

\* A step of a node keeps every tree clean, unless it tears its own write.
LEMMA CleanNodeStep ==
  ASSUME TypeOK, WrittenInv, CleanInv, NEW n \in Node, NodeStep(n)
  PROVE  \/ CleanInv'
         \/ n \in UnsafeNames /\ n # VERIFY /\ outcome'[n] = "raised" /\ pc'[n] = "done"
<1> SUFFICES ASSUME ~(n \in UnsafeNames /\ n # VERIFY /\ outcome'[n] = "raised" /\ pc'[n] = "done")
             PROVE  CleanInv'
  OBVIOUS
<1>1. outputs \subseteq outputs' /\ \A m \in Node \ {n} : snapshot'[m] = snapshot[m]
  BY NodeStepLocal DEF SameLocals
<1>2. PathsOf(VERIFY) = {}
  BY WriterAssumption, NodeAssumption DEF PathsOf
<1>3. CleanTree(files)'
  <2> SUFFICES ASSUME NEW p \in Path, files'[p].by \in Node
               PROVE  files'[p].ok /\ files'[p].by \in outputs'
    BY DEF CleanTree
  <2>1. CASE files'[p] = files[p] \/ files'[p] = snapshot[n][p]
    BY <1>1, <2>1 DEF CleanInv, CleanTree
  <2>2. CASE /\ p \in PathsOf(n) /\ files'[p].by = n
             /\ files'[p].ok /\ outputs' = outputs \cup {n}
    BY <2>2
  <2>3. QED
    BY <1>2, <2>1, <2>2, FileStep
<1>4. CleanTree(snapshot[n])'
  <2>1. CASE snapshot'[n] = snapshot[n] \/ snapshot'[n] = files
    BY <1>1, <2>1 DEF CleanInv, CleanTree
  <2>2. CASE snapshot'[n] = Baseline
    BY <2>2, BaselineClean DEF CleanTree
  <2>3. QED
    BY <2>1, <2>2, SnapshotStep
<1>5. ASSUME NEW m \in Node \ {n} PROVE CleanTree(snapshot[m])'
  BY <1>1 DEF CleanInv, CleanTree
<1>6. QED
  BY <1>3, <1>4, <1>5 DEF CleanInv

LEMMA InitClean == Init => CleanInv
BY BaselineClean DEF Init, CleanInv

\* Where every stage names its files inside the workspace, all that the
\* stages leave there was accepted by an exit gate, at every moment of the
\* run, whatever was refused, retried or repaired.
THEOREM RefusedIsUndone ==
  ASSUME UnsafeNames = {}
  PROVE  Spec => []NothingHalfApplied
<1>1. TypeOK /\ WrittenInv /\ CleanInv /\ [Next]_vars => CleanInv'
  <2> SUFFICES ASSUME TypeOK, WrittenInv, CleanInv, [Next]_vars PROVE CleanInv'
    OBVIOUS
  <2>1. CASE \E n \in Node : NodeStep(n)
    BY <2>1, CleanNodeStep
  <2>2. CASE ~(\E n \in Node : NodeStep(n))
    BY <2>2, RunStep DEF CleanInv, CleanTree
  <2>3. QED
    BY <2>1, <2>2
<1>2. CleanInv => NothingHalfApplied
  BY DEF CleanInv, CleanTree, NothingHalfApplied
<1>3. QED
  BY <1>1, <1>2, InitClean, TypeCorrect, WrittenAlways, PTL DEF Spec

\* A node that raised is never absorbed: the run stops, and not as completed.
LEMMA RaisedIsFatal ==
  ASSUME NEW n \in batch, n # VERIFY, outcome[n] = "raised"
  PROVE  n \in Fatal
BY DEF Fatal, Repairable

LEMMA NextTorn == TypeOK /\ WrittenInv /\ SchedInv /\ TornInv /\ [Next]_vars => TornInv'
<1> SUFFICES ASSUME TypeOK, WrittenInv, SchedInv, TornInv, [Next]_vars PROVE TornInv'
  OBVIOUS
<1>1. ASSUME NEW n \in Node, NodeStep(n) PROVE TornInv'
  <2>1. /\ phase = "running" /\ n \in batch /\ batch' = batch /\ pc[n] # "done"
        /\ \A m \in Node \ {n} : pc'[m] = pc[m] /\ outcome'[m] = outcome[m]
    BY <1>1, NodeStepLocal DEF SameLocals, runVars
  <2>2. CASE CleanInv
    BY <1>1, <2>1, <2>2, CleanNodeStep DEF TornInv
  <2>3. CASE \E m \in batch : m # VERIFY /\ outcome[m] = "raised" /\ pc[m] = "done"
    BY <2>1, <2>3 DEF TornInv, TypeOK
  <2>4. QED
    BY <2>1, <2>2, <2>3 DEF TornInv
<1>2. CASE ~(\E n \in Node : NodeStep(n))
  <2>1. CleanInv => CleanInv'
    BY <1>2, RunStep DEF CleanInv, CleanTree
  <2>2. CASE RequestStop \/ UNCHANGED vars
    BY <2>1, <2>2 DEF TornInv, RequestStop, vars, runVars, nodeVars
  <2>3. CASE StopAtBoundary
    BY <2>3 DEF StopAtBoundary, TornInv
  <2>4. CASE Schedule \/ Complete
    BY <2>1, <2>4 DEF Schedule, Complete, TornInv, SchedInv, BatchInv
  <2>5. CASE CollectAndStop
    BY <2>5 DEF CollectAndStop, TornInv
  <2>6. CASE CollectAndContinue
    <3>1. phase = "running" /\ Fatal = {}
      BY <2>6 DEF CollectAndContinue, Collected
    <3>2. CleanInv
      BY <3>1, RaisedIsFatal DEF TornInv
    <3>3. QED
      BY <2>1, <3>2 DEF TornInv
  <2>7. QED
    BY <1>2, <2>2, <2>3, <2>4, <2>5, <2>6 DEF Next, Progress
<1>3. QED
  BY <1>1, <1>2

\* A run that reports completion is clean, whatever names its stages use: a
\* write torn by a name outside the workspace always stops the run.
THEOREM CompletionIsClean == Spec => []CompletedRunIsClean
<1>1. Init => TornInv
  BY InitClean DEF TornInv
<1>2. TornInv /\ SchedInv => CompletedRunIsClean
  BY DEF TornInv, SchedInv, EndInv, BatchInv, CompletedRunIsClean, CleanInv, CleanTree,
         NothingHalfApplied
<1>3. QED
  BY <1>1, <1>2, NextTorn, TypeCorrect, WrittenAlways, SchedulerInvariant, PTL DEF Spec

-----------------------------------------------------------------------------
(***************************************************************************)
(* Approval.                                                               *)
(***************************************************************************)

SignedTree(t) ==
  \A p \in Path : /\ t[p].by \in Node => t[p].by \in plan.nodes
                  /\ t[p].by \in plan.high => granted[t[p].by] > t[p].gen

\* The implementation has been let through more often than it was repaired.
RepairSigned ==
  IMPLEMENT \in plan.high =>
    /\ granted[IMPLEMENT] >= repairs
    /\ IMPLEMENT \in completed => granted[IMPLEMENT] > repairs
    /\ IMPLEMENT \in batch /\ (Running(IMPLEMENT) \/ outcome[IMPLEMENT] = "completed")
         => granted[IMPLEMENT] > repairs

SignInv ==
  /\ SignedTree(files)
  /\ \A n \in Node : SignedTree(snapshot[n])
  /\ \A n \in batch \cap plan.high : Running(n) => granted[n] > 0
  /\ RepairSigned

\* An approval is only ever added, and a high-impact node is not dispatched
\* without one more.
LEMMA GrantStep ==
  ASSUME TypeOK, NEW n \in Node, NodeStep(n)
  PROVE  /\ \A m \in Node : granted'[m] \in Nat /\ granted'[m] >= granted[m]
         /\ n \in plan.high /\ pc[n] = "waiting" =>
              (pc'[n] = "done" /\ outcome'[n] # "completed") \/ granted'[n] > granted[n]
<1> DEFINE Kept == UNCHANGED granted /\ pc[n] # "waiting"
           Ended == /\ pc'[n] = "done" /\ outcome'[n] # "completed"
                    /\ \A m \in Node : granted'[m] \in Nat /\ granted'[m] >= granted[m]
<1>1. \A m \in Node : granted[m] \in Nat
  BY DEF TypeOK
<1>2. ASSUME Approve(n)
      PROVE  /\ \A m \in Node : granted'[m] \in Nat /\ granted'[m] >= granted[m]
             /\ n \in plan.high => granted'[n] > granted[n]
  BY <1>2 DEF Approve, NeedsApproval, TypeOK
<1>3. CASE StartDeclined(n) \/ StartUnscripted(n)
  <2>1. UNCHANGED granted /\ (End(n, "rejected") \/ End(n, "raised"))
    BY <1>3 DEF StartDeclined, StartUnscripted, worldVars
  <2>2. QED
    BY <1>1, <2>1, EndLocal
<1>4. CASE StartRejected(n) \/ StartDispatch(n)
  BY <1>2, <1>4 DEF StartRejected, StartDispatch
<1>5. CASE Retry(n) \/ StageFails(n) \/ StageAsks(n) \/ StageRaises(n)
  BY <1>1, <1>5 DEF Retry, StageFails, StageAsks, StageRaises, MayReturn, worldVars
<1>6. ASSUME NEW names \in SUBSET Files[n], NEW ok \in BOOLEAN,
             \/ StageCommits(n, names, ok)
             \/ StageDenied(n, names, ok)
             \/ StageTears(n, names, ok)
      PROVE  Kept
  BY <1>6 DEF StageCommits, StageDenied, StageTears, MayReturn
<1>7. QED
  BY <1>1, <1>3, <1>4, <1>5, <1>6 DEF NodeStep

LEMMA SignNodeStep ==
  ASSUME TypeOK, WrittenInv, OutcomeInv, SchedInv, SignInv, NEW n \in Node, NodeStep(n)
  PROVE  SignInv'
<1>1. /\ phase = "running" /\ n \in batch /\ pc[n] \in {"waiting", "dispatch", "backoff"}
      /\ UNCHANGED <<plan, repairs, completed, batch>>
      /\ \A m \in Node \ {n} : /\ pc'[m] = pc[m] /\ outcome'[m] = outcome[m]
                               /\ snapshot'[m] = snapshot[m]
  BY NodeStepLocal DEF SameLocals, runVars
<1>2. \A m \in Node : granted[m] \in Nat /\ granted'[m] \in Nat /\ granted'[m] >= granted[m]
  BY GrantStep DEF TypeOK
<1>3. /\ n \in plan.nodes /\ plan.high \subseteq Node /\ repairs \in Nat
      /\ batch \subseteq Node /\ IMPLEMENT \in Node
  BY <1>1, NodeAssumption DEF SchedInv, BatchInv, TypeOK, PlanOver
<1>4. ASSUME NEW t \in Trees, SignedTree(t), NEW p \in Path
      PROVE  /\ t[p].by \in Node => t[p].by \in plan.nodes
             /\ t[p].by \in plan.high => granted'[t[p].by] > t[p].gen
  <2>1. t[p].gen \in Nat
    BY DEF Trees, Content
  <2>2. QED
    BY <1>2, <1>3, <1>4, <2>1 DEF SignedTree
<1>5. /\ files \in Trees /\ \A m \in Node : snapshot[m] \in Trees
      /\ SignedTree(files) /\ \A m \in Node : SignedTree(snapshot[m])
  BY DEF TypeOK, SignInv
<1>6. SignedTree(files)'
  <2> SUFFICES ASSUME NEW p \in Path
               PROVE  /\ files'[p].by \in Node => files'[p].by \in plan.nodes
                      /\ files'[p].by \in plan.high => granted'[files'[p].by] > files'[p].gen
    BY <1>1 DEF SignedTree
  <2>1. CASE files'[p] = files[p] \/ files'[p] = snapshot[n][p]
    BY <1>4, <1>5, <2>1
  <2>2. CASE files'[p].by = n /\ files'[p].gen = Round(n) /\ pc[n] = "dispatch"
    <3>1. n \in plan.high => granted[n] > Round(n)
      BY <1>1, <1>3, <2>2 DEF SignInv, RepairSigned, Round, Running
    <3>2. Round(n) \in Nat
      BY <1>3 DEF Round
    <3>3. QED
      BY <1>2, <1>3, <2>2, <3>1, <3>2
  <2>3. QED
    BY <2>1, <2>2, FileStep
<1>7. ASSUME NEW m \in Node PROVE SignedTree(snapshot[m])'
  <2> SUFFICES ASSUME NEW p \in Path
               PROVE  /\ snapshot'[m][p].by \in Node => snapshot'[m][p].by \in plan.nodes
                      /\ snapshot'[m][p].by \in plan.high =>
                           granted'[snapshot'[m][p].by] > snapshot'[m][p].gen
    BY <1>1 DEF SignedTree
  <2>1. CASE snapshot'[m] = snapshot[m] \/ snapshot'[m] = files
    BY <1>4, <1>5, <2>1
  <2>2. CASE snapshot'[m] = Baseline
    BY <1>3, <2>2, BaselineClean
  <2>3. QED
    BY <1>1, <2>1, <2>2, SnapshotStep
<1>8. n \in plan.high => \/ pc'[n] = "done" /\ outcome'[n] # "completed"
                         \/ granted'[n] > granted[n]
                         \/ Running(n)
  BY <1>1, GrantStep DEF Running
<1>9. \A m \in batch' \cap plan'.high : Running(m)' => granted'[m] > 0
  <2> SUFFICES ASSUME NEW m \in batch \cap plan.high, pc'[m] \in {"dispatch", "backoff"}
               PROVE  granted'[m] > 0
    BY <1>1 DEF Running
  <2>1. CASE m = n
    BY <1>1, <1>2, <1>3, <1>8, <2>1 DEF SignInv
  <2>2. CASE m # n
    <3>1. Running(m)
      BY <1>1, <1>3, <2>2 DEF Running
    <3>2. QED
      BY <1>2, <1>3, <3>1 DEF SignInv
  <2>3. QED
    BY <2>1, <2>2
<1>10. RepairSigned'
  <2> SUFFICES ASSUME IMPLEMENT \in plan.high
               PROVE  /\ granted'[IMPLEMENT] >= repairs
                      /\ IMPLEMENT \in completed => granted'[IMPLEMENT] > repairs
                      /\ /\ IMPLEMENT \in batch
                         /\ pc'[IMPLEMENT] \in {"dispatch", "backoff"}
                              \/ outcome'[IMPLEMENT] = "completed"
                         => granted'[IMPLEMENT] > repairs
    BY <1>1 DEF RepairSigned, Running
  <2>1. /\ granted[IMPLEMENT] >= repairs
        /\ IMPLEMENT \in completed => granted[IMPLEMENT] > repairs
        /\ IMPLEMENT \in batch /\ (Running(IMPLEMENT) \/ outcome[IMPLEMENT] = "completed")
             => granted[IMPLEMENT] > repairs
    BY DEF SignInv, RepairSigned
  <2>2. CASE IMPLEMENT = n
    BY <1>1, <1>2, <1>3, <1>8, <2>1, <2>2
  <2>3. CASE IMPLEMENT # n
    BY <1>1, <1>2, <1>3, <2>1, <2>3 DEF Running
  <2>4. QED
    BY <2>2, <2>3
<1>11. QED
  BY <1>6, <1>7, <1>9, <1>10 DEF SignInv

\* The implementation that is sent back for repair had been accepted.
LEMMA ReworkWasAccepted ==
  ASSUME TypeOK, SchedInv, Collected, Rework # {}
  PROVE  \/ IMPLEMENT \in completed
         \/ IMPLEMENT \in batch \cap Reached /\ outcome[IMPLEMENT] = "completed"
<1>0. IMPLEMENT # VERIFY /\ {IMPLEMENT, VERIFY} \subseteq Node
  BY NodeAssumption DEF IMPLEMENT, VERIFY
<1>1. VERIFY \in Reached /\ Repairable(VERIFY)
  BY DEF Rework
<1>2. CASE results[IMPLEMENT] # "none"
  BY <1>0, <1>2 DEF SchedInv, ResultInv, Collected
<1>3. CASE IMPLEMENT \in batch /\ Rank[IMPLEMENT] < Rank[VERIFY]
  <2>1. Rank[IMPLEMENT] \in Nat /\ Rank[VERIFY] \in Nat
    BY <1>0, NodeAssumption
  <2>2. IMPLEMENT \notin Fatal
    BY <1>1, <1>3, <2>1 DEF Reached
  <2>3. ~Repairable(IMPLEMENT)
    BY <1>0 DEF Repairable
  <2>4. IMPLEMENT \in Reached
    <3> SUFFICES ASSUME NEW m \in Fatal PROVE Rank[IMPLEMENT] <= Rank[m]
      BY <1>3 DEF Reached
    <3>1. Rank[VERIFY] <= Rank[m] /\ Rank[m] \in Nat
      BY <1>1, NodeAssumption DEF Reached, Fatal, TypeOK
    <3>2. QED
      BY <1>3, <2>1, <3>1
  <2>5. QED
    BY <1>3, <2>2, <2>3, <2>4 DEF Fatal
<1>4. QED
  BY <1>1, <1>2, <1>3 DEF Repairable

LEMMA SignCollect ==
  ASSUME TypeOK, SchedInv, SignInv, Collected, UNCHANGED <<files, snapshot, granted>>,
         \/ UNCHANGED plan
         \/ plan' = Revise(plan) /\ REFACTOR \notin plan.nodes
  PROVE  SignInv'
<1>0. IMPLEMENT # REFACTOR /\ IMPLEMENT \in Node
  BY NodeAssumption DEF IMPLEMENT, REFACTOR
<1>1. /\ plan.nodes \subseteq plan'.nodes
      /\ \A m \in plan'.high : m \in plan.high \/ (m = REFACTOR /\ REFACTOR \notin plan.nodes)
  BY DEF Revise
<1>2. ASSUME NEW t, SignedTree(t), NEW p \in Path
      PROVE  /\ t[p].by \in Node => t[p].by \in plan'.nodes
             /\ t[p].by \in plan'.high => granted[t[p].by] > t[p].gen
  BY <1>1, <1>2, NodeAssumption DEF SignedTree
<1>3. SignedTree(files)'
  BY <1>2 DEF SignInv, SignedTree
<1>4. ASSUME NEW m \in Node PROVE SignedTree(snapshot[m])'
  <2>1. SignedTree(snapshot[m])
    BY DEF SignInv
  <2>2. QED
    BY <1>2, <2>1 DEF SignedTree
<1>5. batch' = {}
  BY DEF Collected
<1>6. RepairSigned'
  <2> SUFFICES ASSUME IMPLEMENT \in plan.high
               PROVE  /\ granted[IMPLEMENT] >= repairs'
                      /\ IMPLEMENT \in completed' => granted[IMPLEMENT] > repairs'
    BY <1>0, <1>1, <1>5 DEF RepairSigned
  <2>1. granted[IMPLEMENT] \in Nat /\ repairs \in Nat
    BY <1>0, NodeAssumption DEF TypeOK
  <2>2. CASE Rework = {}
    <3>1. repairs' = repairs /\ completed' \subseteq completed \cup {n \in batch : outcome[n] = "completed"}
      BY <2>2 DEF Collected, RepairsAfter, Reached
    <3>2. QED
      BY <3>1 DEF SignInv, RepairSigned
  <2>3. CASE Rework # {}
    <3>1. repairs' = repairs + 1 /\ IMPLEMENT \notin completed'
      BY <2>3 DEF Collected, RepairsAfter, Rework
    <3>2. granted[IMPLEMENT] > repairs
      BY <2>3, ReworkWasAccepted DEF SignInv, RepairSigned
    <3>3. QED
      BY <2>1, <3>1, <3>2
  <2>4. QED
    BY <2>2, <2>3
<1>7. QED
  BY <1>3, <1>4, <1>5, <1>6 DEF SignInv

LEMMA NextSign ==
  TypeOK /\ WrittenInv /\ OutcomeInv /\ SchedInv /\ SignInv /\ [Next]_vars => SignInv'
<1> SUFFICES ASSUME TypeOK, WrittenInv, OutcomeInv, SchedInv, SignInv, [Next]_vars
             PROVE  SignInv'
  OBVIOUS
<1>1. CASE \E n \in Node : NodeStep(n)
  BY <1>1, SignNodeStep
<1>2. CASE ~(\E n \in Node : NodeStep(n))
  <2>0. UNCHANGED <<files, snapshot, granted>>
    BY <1>2, RunStep
  <2>1. CASE RequestStop \/ StopAtBoundary \/ Complete \/ UNCHANGED vars
    <3>1. UNCHANGED <<plan, repairs, completed, batch, pc, outcome>>
      BY <2>1 DEF RequestStop, StopAtBoundary, Complete, vars, runVars, nodeVars
    <3>2. QED
      BY <2>0, <3>1 DEF SignInv, SignedTree, RepairSigned, Running
  <2>2. CASE Schedule
    <3>1. Offered \subseteq Node
      BY DEF Offered, Ready, TypeOK, PlanOver
    <3>2. /\ UNCHANGED <<plan, repairs, completed>> /\ batch' \subseteq Node
          /\ \A n \in batch' : pc'[n] = "waiting" /\ outcome'[n] = "none"
      BY <2>2, <3>1 DEF Schedule
    <3>3. \A n \in batch' : ~Running(n)' /\ outcome'[n] # "completed"
      BY <3>2 DEF Running
    <3>4. SignedTree(files)' /\ \A n \in Node : SignedTree(snapshot[n])'
      BY <2>0, <3>2 DEF SignInv, SignedTree
    <3>5. RepairSigned'
      BY <2>0, <3>2, <3>3 DEF SignInv, RepairSigned
    <3>6. QED
      BY <3>3, <3>4, <3>5 DEF SignInv
  <2>3. CASE CollectAndStop
    BY <2>0, <2>3, SignCollect DEF CollectAndStop
  <2>4. CASE CollectAndContinue
    BY <2>0, <2>4, SignCollect DEF CollectAndContinue, Replans, NeedsSeam
  <2>5. QED
    BY <1>2, <2>1, <2>2, <2>3, <2>4 DEF Next, Progress
<1>3. QED
  BY <1>1, <1>2

\* Every file that a high-impact node has in the workspace was written in a
\* round that a human signed off, for any number of repairs: the approvals of
\* the implementation outnumber its repairs whenever it may write.
THEOREM EveryRoundIsApproved == Spec => []EveryRoundSignedOff
<1>1. Init => SignInv
  <2> SUFFICES ASSUME Init PROVE SignInv
    OBVIOUS
  <2>1. SignedTree(Baseline)
    <3>1. plan.high \subseteq Node
      BY InitType DEF TypeOK, PlanOver
    <3>2. QED
      BY <3>1, BaselineClean DEF SignedTree
  <2>2. QED
    BY <2>1, NodeAssumption DEF Init, SignInv, RepairSigned
<1>2. SignInv => EveryRoundSignedOff
  BY DEF SignInv, SignedTree, EveryRoundSignedOff
<1>3. QED
  BY <1>1, <1>2, NextSign, TypeCorrect, WrittenAlways, OutcomeAlways, SchedulerInvariant, PTL
     DEF Spec

-----------------------------------------------------------------------------
(***************************************************************************)
(* Accepted work.                                                          *)
(***************************************************************************)

\* Stages that may run side by side write different paths.
SeparateWriters ==
  \A m, n \in Node : m # n /\ PathsOf(m) \cap PathsOf(n) # {} => {m, n} = {IMPLEMENT, REFACTOR}

\* A node's artifacts are those of its last accepted result.
ArtifactInv ==
  \A n \in Node : artifacts[n] # {} =>
    \/ n \in completed
    \/ n \in batch /\ pc[n] = "done" /\ outcome[n] = "completed"
    \/ phase = "finished"

\* No running node could put an older file in place of an accepted one.
KeptInv ==
  \A n \in Node : \A p \in artifacts[n] :
    /\ files[p].by \in Node
    /\ \A m \in batch : Running(m) /\ p \in PathsOf(m) => snapshot[m][p].by \in Node

LEMMA ArtifactStep ==
  ASSUME TypeOK, NEW n \in Node, NodeStep(n)
  PROVE  \/ UNCHANGED artifacts
         \/ /\ artifacts'[n] \subseteq PathsOf(n) /\ pc[n] = "dispatch"
            /\ pc'[n] = "done" /\ outcome'[n] = "completed"
            /\ \A p \in artifacts'[n] : files'[p].by = n
<1>1. CASE \E names \in SUBSET Files[n], ok \in BOOLEAN : StageCommits(n, names, ok)
  <2>1. PICK names \in SUBSET Files[n], ok \in BOOLEAN : StageCommits(n, names, ok)
    BY <1>1
  <2>2. /\ End(n, "completed") /\ MayReturn(n) /\ files' = Persisted(n, names, ok)
        /\ artifacts'[n] = {Canon[f] : f \in names}
    BY <2>1 DEF StageCommits, TypeOK
  <2>3. \A p \in artifacts'[n] : files'[p].by = n
    BY <2>2, FileAssumption DEF Persisted, Write, TypeOK, Trees
  <2>4. QED
    BY <2>2, <2>3, EndLocal DEF MayReturn, PathsOf
<1>2. CASE ~(\E names \in SUBSET Files[n], ok \in BOOLEAN : StageCommits(n, names, ok))
  BY <1>2 DEF NodeStep, StartDeclined, StartUnscripted, StartRejected, StartDispatch, Retry,
              StageFails, StageAsks, StageRaises, StageDenied, StageTears
<1>3. QED
  BY <1>1, <1>2

LEMMA NextArtifact ==
  TypeOK /\ OutcomeInv /\ SchedInv /\ ArtifactInv /\ [Next]_vars => ArtifactInv'
<1> SUFFICES ASSUME TypeOK, OutcomeInv, SchedInv, ArtifactInv, [Next]_vars PROVE ArtifactInv'
  OBVIOUS
<1>1. ASSUME NEW n \in Node, NodeStep(n) PROVE ArtifactInv'
  <2>1. /\ n \in batch /\ pc[n] # "done"
        /\ UNCHANGED <<phase, completed, batch>>
        /\ \A m \in Node \ {n} : /\ pc'[m] = pc[m] /\ outcome'[m] = outcome[m]
                                 /\ artifacts'[m] = artifacts[m]
    BY <1>1, NodeStepLocal DEF SameLocals, runVars
  <2>2. \/ artifacts'[n] = artifacts[n]
        \/ pc'[n] = "done" /\ outcome'[n] = "completed"
    BY <1>1, ArtifactStep
  <2>3. QED
    BY <2>1, <2>2 DEF ArtifactInv
<1>2. CASE RequestStop \/ StopAtBoundary \/ Complete \/ UNCHANGED vars
  BY <1>2 DEF RequestStop, StopAtBoundary, Complete, vars, runVars, nodeVars, ArtifactInv
<1>3. CASE Schedule
  <2>1. phase = "scheduling" /\ batch = {} /\ UNCHANGED <<completed, artifacts>>
    BY <1>3 DEF Schedule, SchedInv, BatchInv
  <2>2. QED
    BY <2>1 DEF ArtifactInv
<1>4. CASE CollectAndStop
  BY <1>4 DEF CollectAndStop, ArtifactInv
<1>5. CASE CollectAndContinue
  <2>1. /\ phase = "running" /\ Reached = batch
        /\ completed' = (completed \cup {n \in batch : outcome[n] = "completed"}) \ Rework
        /\ \A n \in Node : artifacts'[n] = IF n \in Rework THEN {} ELSE artifacts[n]
    BY <1>5 DEF CollectAndContinue, Collected, Reached
  <2>2. QED
    BY <2>1 DEF ArtifactInv
<1>6. QED
  BY <1>1, <1>2, <1>3, <1>4, <1>5 DEF Next, Progress

\* What is recorded as a node's work belongs to its last accepted result.
LEMMA ArtifactAlways == Spec => []ArtifactInv
<1>1. Init => ArtifactInv
  BY DEF Init, ArtifactInv
<1>2. QED
  BY <1>1, NextArtifact, TypeCorrect, OutcomeAlways, SchedulerInvariant, PTL DEF Spec

\* A running node has no work on record yet.
LEMMA RunningHasNone ==
  ASSUME TypeOK, SchedInv, ArtifactInv, NEW n \in batch, phase = "running", pc[n] # "done"
  PROVE  artifacts[n] = {}
BY DEF SchedInv, BatchInv, ArtifactInv, TypeOK

\* The seam and the implementation never run in the same batch.
LEMMA SeamRunsAlone ==
  ASSUME SchedInv, IMPLEMENT \in batch, REFACTOR \in batch
  PROVE  FALSE
BY DEF SchedInv, BatchInv, SeamInv

LEMMA KeptNodeStep ==
  ASSUME SeparateWriters, TypeOK, WrittenInv, SchedInv, ArtifactInv, KeptInv,
         NEW k \in Node, NodeStep(k)
  PROVE  KeptInv'
<1>1. /\ phase = "running" /\ k \in batch /\ batch' = batch
      /\ pc[k] \in {"waiting", "dispatch", "backoff"}
      /\ \A m \in Node \ {k} : /\ pc'[m] = pc[m] /\ snapshot'[m] = snapshot[m]
                               /\ artifacts'[m] = artifacts[m]
  BY NodeStepLocal DEF SameLocals, runVars
<1>2. artifacts[k] = {} /\ batch \subseteq Node
  BY <1>1, RunningHasNone DEF TypeOK
<1>3. ASSUME NEW n \in Node, NEW p \in artifacts'[n]
      PROVE  /\ files'[p].by \in Node
             /\ \A m \in batch : pc'[m] \in {"dispatch", "backoff"} /\ p \in PathsOf(m) =>
                                   snapshot'[m][p].by \in Node
  <2>1. p \in Path
    BY NodeStepType, <1>3 DEF TypeOK
  <2>2. CASE n = k
    <3>1. /\ p \in PathsOf(k) /\ files'[p].by = k /\ pc[k] = "dispatch" /\ pc'[k] = "done"
      BY <1>2, <1>3, <2>2, ArtifactStep
    <3>2. ASSUME NEW m \in batch, pc'[m] \in {"dispatch", "backoff"}, p \in PathsOf(m)
          PROVE  FALSE
      <4>1. m # k /\ m \in Node
        BY <1>2, <3>1, <3>2
      <4>2. {m, k} = {IMPLEMENT, REFACTOR}
        BY <3>1, <3>2, <4>1 DEF SeparateWriters
      <4>3. QED
        BY <1>1, <3>2, <4>2, SeamRunsAlone
    <3>3. QED
      BY <3>1, <3>2
  <2>3. CASE n # k
    <3>1. p \in artifacts[n]
      BY <1>1, <1>3, <2>3
    <3>2. /\ files[p].by \in Node
          /\ \A m \in batch : Running(m) /\ p \in PathsOf(m) => snapshot[m][p].by \in Node
      BY <3>1 DEF KeptInv
    <3>3. files'[p].by \in Node
      BY <1>1, <2>1, <3>2, FileStep DEF Running
    <3>4. ASSUME NEW m \in batch, pc'[m] \in {"dispatch", "backoff"}, p \in PathsOf(m)
          PROVE  snapshot'[m][p].by \in Node
      <4>1. CASE m # k
        BY <1>1, <1>2, <3>2, <3>4, <4>1 DEF Running
      <4>2. CASE m = k
        <5>1. k \in Rollback
          BY <3>4, <4>2, WriterAssumption DEF PathsOf
        <5>2. QED
          BY <1>1, <3>2, <3>4, <4>2, <5>1, SnapshotStep
      <4>3. QED
        BY <4>1, <4>2
    <3>5. QED
      BY <3>3, <3>4
  <2>4. QED
    BY <2>2, <2>3
<1>4. QED
  BY <1>1, <1>3 DEF KeptInv, Running, PathsOf

LEMMA NextKept ==
  ASSUME SeparateWriters
  PROVE  TypeOK /\ WrittenInv /\ SchedInv /\ ArtifactInv /\ KeptInv /\ [Next]_vars => KeptInv'
<1> SUFFICES ASSUME TypeOK, WrittenInv, SchedInv, ArtifactInv, KeptInv, [Next]_vars
             PROVE  KeptInv'
  OBVIOUS
<1>1. CASE \E n \in Node : NodeStep(n)
  BY <1>1, KeptNodeStep
<1>2. CASE ~(\E n \in Node : NodeStep(n))
  <2>0. UNCHANGED <<files, snapshot>>
    BY <1>2, RunStep
  <2>1. CASE RequestStop \/ StopAtBoundary \/ Complete \/ UNCHANGED vars
    <3>1. UNCHANGED <<batch, pc, artifacts>>
      BY <2>1 DEF RequestStop, StopAtBoundary, Complete, vars, runVars, nodeVars
    <3>2. QED
      BY <2>0, <3>1 DEF KeptInv, Running, PathsOf
  <2>2. CASE Schedule
    <3>1. Offered \subseteq Node
      BY DEF Offered, Ready, TypeOK, PlanOver
    <3>2. /\ UNCHANGED artifacts
          /\ \A n \in batch' : pc'[n] = "waiting"
      BY <2>2, <3>1 DEF Schedule
    <3>3. QED
      BY <2>0, <3>2 DEF KeptInv, Running
  <2>3. CASE CollectAndStop \/ CollectAndContinue
    <3>1. batch' = {} /\ \A n \in Node : artifacts'[n] \subseteq artifacts[n]
      BY <2>3 DEF CollectAndStop, CollectAndContinue, Collected
    <3>2. QED
      BY <2>0, <3>1 DEF KeptInv
  <2>4. QED
    BY <1>2, <2>1, <2>2, <2>3 DEF Next, Progress
<1>3. QED
  BY <1>1, <1>2

\* Where the stages of a batch write different paths inside the workspace, no
\* rollback ever takes accepted work away: what replaces it was accepted too.
THEOREM AcceptedWorkSurvives ==
  ASSUME SeparateWriters, UnsafeNames = {}
  PROVE  Spec => []CommittedWorkSurvives
<1>1. Init => KeptInv
  BY DEF Init, KeptInv
<1>2. TypeOK /\ KeptInv /\ NothingHalfApplied => CommittedWorkSurvives
  BY DEF TypeOK, KeptInv, NothingHalfApplied, CommittedWorkSurvives
<1>3. QED
  BY <1>1, <1>2, NextKept, TypeCorrect, WrittenAlways, SchedulerInvariant, ArtifactAlways,
     RefusedIsUndone, PTL DEF Spec

-----------------------------------------------------------------------------
(***************************************************************************)
(* The code a stage is shown.                                              *)
(***************************************************************************)

Writers == {n \in Node : Files[n] # {}}

WriterTree(t) == \A p \in Path : t[p].by \in Node => t[p].by \in Writers

Downstream(n) == IMPLEMENT \in Ancestors(plan, n)

ShapeInv ==
  /\ {DESIGN, IMPLEMENT} \subseteq plan.nodes
  /\ plan.deps[DESIGN] \subseteq {IMPACT}
  /\ plan.deps[IMPACT] = {}
  /\ \A n \in plan.nodes \cap Writers : n # IMPLEMENT => plan.deps[n] = {DESIGN}
  /\ DESIGN \in plan.deps[IMPLEMENT]
  /\ VERIFY \in plan.nodes => IMPLEMENT \in plan.deps[VERIFY]

\* Every file of the run is finished before anything downstream is offered.
WritersInv ==
  /\ IMPLEMENT \in batch => Writers \cap plan.nodes \subseteq completed \cup batch
  /\ phase # "finished" /\ IMPLEMENT \in completed =>
       Writers \cap plan.nodes \subseteq completed

ShownInv ==
  /\ sees = SeesImplementation(plan)
  /\ WriterTree(files) /\ \A n \in Node : WriterTree(snapshot[n])
  /\ \A n \in completed : Downstream(n) => source[n] = files
  /\ \A n \in batch : Running(n) \/ outcome[n] = "completed" =>
       source[n] = IF Downstream(n) THEN files ELSE Baseline

\* Everything upstream of a node lies in any closed set that holds its
\* dependencies, and its dependencies are upstream of it (PlanGraph._reach).
LEMMA AncestorsClosed ==
  ASSUME NEW p, NEW n, NEW S \in SUBSET p.nodes,
         p.deps[n] \subseteq S, \A m \in S : p.deps[m] \subseteq S
  PROVE  Ancestors(p, n) \subseteq S
BY DEF Ancestors

LEMMA DependencyIsAncestor ==
  ASSUME NEW p, NEW n, NEW m \in p.nodes, m \in p.deps[n], m # n
  PROVE  m \in Ancestors(p, n)
BY DEF Ancestors

LEMMA NextShape == TypeOK /\ SchedInv /\ ShapeInv /\ [Next]_vars => ShapeInv'
<1> SUFFICES ASSUME TypeOK, SchedInv, ShapeInv, [Next]_vars PROVE ShapeInv'
  OBVIOUS
<1>1. CASE CollectAndContinue /\ Replans
  <2>0. /\ DESIGN # REFACTOR /\ IMPLEMENT # REFACTOR /\ VERIFY # REFACTOR /\ IMPACT # REFACTOR
        /\ DESIGN # IMPLEMENT /\ VERIFY # IMPLEMENT /\ IMPACT # IMPLEMENT
        /\ {DESIGN, IMPLEMENT, VERIFY, IMPACT, REFACTOR} \subseteq Node
    BY NodeAssumption DEF DESIGN, REFACTOR, IMPLEMENT, VERIFY, IMPACT
  <2>1. plan' = Revise(plan) /\ DOMAIN plan.deps = Node /\ plan.nodes \subseteq Node
    BY <1>1 DEF CollectAndContinue, TypeOK, PlanOver
  <2>2. /\ plan'.nodes = plan.nodes \cup {REFACTOR}
        /\ \A n \in Node \ {REFACTOR, IMPLEMENT} : plan'.deps[n] = plan.deps[n]
        /\ plan'.deps[REFACTOR] = {DESIGN}
        /\ IMPLEMENT \in plan.nodes => plan'.deps[IMPLEMENT] = {DESIGN, REFACTOR}
    BY <2>0, <2>1 DEF Revise
  <2>3. QED
    BY <2>0, <2>1, <2>2 DEF ShapeInv, Writers
<1>2. CASE ~(CollectAndContinue /\ Replans)
  <2>1. CASE \E n \in Node : NodeStep(n)
    BY <2>1, NodeStepLocal DEF runVars, ShapeInv, Writers
  <2>2. CASE ~(\E n \in Node : NodeStep(n))
    <3>1. UNCHANGED plan
      BY <1>2, <2>2 DEF Next, Progress, RequestStop, StopAtBoundary, Schedule, Complete,
                        CollectAndStop, CollectAndContinue, vars, runVars
    <3>2. QED
      BY <3>1 DEF ShapeInv, Writers
  <2>3. QED
    BY <2>1, <2>2
<1>3. QED
  BY <1>1, <1>2

\* A revision comes before anything is implemented.
LEMMA RevisionComesFirst ==
  ASSUME TypeOK, SchedInv, phase = "running", Replans
  PROVE  IMPLEMENT \notin outputs
BY DEF SchedInv, SeamInv, OutputInv, Replans, NeedsSeam

LEMMA NextWriters ==
  TypeOK /\ SchedInv /\ ShapeInv /\ WritersInv /\ [Next]_vars => WritersInv'
<1> SUFFICES ASSUME TypeOK, SchedInv, ShapeInv, WritersInv, [Next]_vars PROVE WritersInv'
  OBVIOUS
<1>1. CASE \E n \in Node : NodeStep(n)
  BY <1>1, NodeStepLocal DEF runVars, WritersInv, Writers
<1>2. CASE RequestStop \/ StopAtBoundary \/ Complete \/ UNCHANGED vars
  BY <1>2 DEF RequestStop, StopAtBoundary, Complete, vars, runVars, WritersInv, Writers
<1>3. CASE Schedule
  <2>1. /\ phase = "scheduling" /\ UNCHANGED <<plan, completed>> /\ batch' = Offered
    BY <1>3 DEF Schedule
  <2>2. ASSUME IMPLEMENT \in Offered, NEW m \in Writers \cap plan.nodes
        PROVE  m \in completed \cup Offered
    <3>1. DESIGN \in completed
      BY <2>2 DEF Offered, Ready, ShapeInv
    <3>2. m # IMPLEMENT => plan.deps[m] \subseteq completed
      BY <3>1 DEF ShapeInv
    <3>3. m \notin completed => results[m] = "none"
      BY <2>1 DEF SchedInv, ResultInv, Writers
    <3>4. QED
      BY <2>2, <3>2, <3>3 DEF Offered, Ready
  <2>3. QED
    BY <2>1, <2>2 DEF WritersInv, Writers
<1>4. CASE CollectAndStop
  BY <1>4 DEF CollectAndStop, Collected, WritersInv
<1>5. CASE CollectAndContinue
  <2>1. /\ phase = "running" /\ Reached = batch /\ batch' = {} /\ Fatal = {}
        /\ completed' = (completed \cup {n \in batch : outcome[n] = "completed"}) \ Rework
        /\ UNCHANGED outputs
    BY <1>5 DEF CollectAndContinue, Collected, Reached
  <2>2. completed' \subseteq outputs
    BY <1>5, CollectedClosed DEF CollectAndContinue
  <2>3. CASE Replans
    BY <2>1, <2>2, <2>3, RevisionComesFirst DEF WritersInv
  <2>4. CASE ~Replans
    <3>1. UNCHANGED plan
      BY <1>5, <2>4 DEF CollectAndContinue
    <3>2. SUFFICES ASSUME IMPLEMENT \in completed', NEW m \in Writers \cap plan.nodes
                   PROVE  m \in completed'
      BY <2>1, <3>1 DEF WritersInv, Writers
    <3>3. Rework = {}
      BY <2>1, <3>2 DEF Rework
    <3>4. \A n \in batch : outcome[n] = "completed"
      BY <2>1, <3>3 DEF Fatal, Rework, Repairable
    <3>5. QED
      BY <2>1, <3>2, <3>3, <3>4 DEF WritersInv
  <2>5. QED
    BY <2>3, <2>4
<1>6. QED
  BY <1>1, <1>2, <1>3, <1>4, <1>5 DEF Next, Progress

\* A stage is shown the code when it is dispatched, and again when it retries.
LEMMA SourceStep ==
  ASSUME TypeOK, OutcomeInv, NEW n \in Node, NodeStep(n)
  PROVE  /\ \/ source'[n] = Source(n)
            \/ /\ source'[n] = source[n]
               /\ Running(n)' \/ outcome'[n] = "completed" => Running(n)
         /\ UNCHANGED <<sees, ancestors>>
<1>0. n \in batch /\ pc[n] \in {"waiting", "dispatch", "backoff"} /\ outcome[n] # "completed"
  BY NodeStepLocal DEF OutcomeInv
<1>1. CASE StartDispatch(n) \/ Retry(n)
  BY <1>1 DEF StartDispatch, Retry, TypeOK, contextVars
<1>2. CASE StartDeclined(n) \/ StartUnscripted(n) \/ StartRejected(n)
  <2>1. \E how \in Outcomes \ {"completed"} : End(n, how)
    BY <1>2 DEF StartDeclined, StartUnscripted, StartRejected, Outcomes, NodeStates
  <2>2. UNCHANGED <<source, sees, ancestors>>
    BY <1>2 DEF StartDeclined, StartUnscripted, StartRejected, contextVars
  <2>3. QED
    BY <2>1, <2>2, EndLocal DEF Running
<1>3. CASE StageFails(n) \/ StageAsks(n) \/ StageRaises(n)
  BY <1>3 DEF StageFails, StageAsks, StageRaises, MayReturn, Running, contextVars
<1>4. ASSUME NEW names \in SUBSET Files[n], NEW ok \in BOOLEAN,
             \/ StageCommits(n, names, ok)
             \/ StageDenied(n, names, ok)
             \/ StageTears(n, names, ok)
      PROVE  UNCHANGED <<source, sees, ancestors>> /\ Running(n)
  BY <1>4 DEF StageCommits, StageDenied, StageTears, MayReturn, Running
<1>5. QED
  BY <1>1, <1>2, <1>3, <1>4 DEF NodeStep

\* Nothing downstream of the implementation is offered before it is accepted.
LEMMA DownstreamWaits ==
  ASSUME TypeOK, SchedInv, NEW n \in completed \cup batch, Downstream(n)
  PROVE  IMPLEMENT \in completed
<1>1. completed \in SUBSET plan.nodes /\ \A m \in completed : plan.deps[m] \subseteq completed
  BY DEF SchedInv, OutputInv
<1>2. plan.deps[n] \subseteq completed
  BY DEF SchedInv, OutputInv, BatchInv
<1>3. Ancestors(plan, n) \subseteq completed
  BY <1>1, <1>2, AncestorsClosed
<1>4. QED
  BY <1>3 DEF Downstream

LEMMA ShownNodeStep ==
  ASSUME TypeOK, WrittenInv, OutcomeInv, SchedInv, ShapeInv, WritersInv, ShownInv,
         NEW n \in Node, NodeStep(n)
  PROVE  ShownInv'
<1>1. /\ phase = "running" /\ n \in batch
      /\ UNCHANGED <<plan, completed, batch>>
      /\ \A m \in Node \ {n} : SameLocals(m)
  BY NodeStepLocal DEF runVars
<1>2. /\ n \in plan.nodes /\ n \notin completed /\ batch \subseteq Node /\ completed \subseteq Node
      /\ sees[n] = Downstream(n)
  BY <1>1 DEF SchedInv, BatchInv, TypeOK, ShownInv, SeesImplementation, Downstream
<1>3. sees' = SeesImplementation(plan)'
  BY <1>1, SourceStep DEF ShownInv, SeesImplementation
<1>4. ASSUME NEW p \in Path PROVE files'[p].by \in Node => files'[p].by \in Writers
  <2>1. CASE files'[p] = files[p] \/ files'[p] = snapshot[n][p]
    BY <2>1 DEF ShownInv, WriterTree
  <2>2. CASE p \in PathsOf(n) /\ files'[p].by = n
    BY <2>2 DEF PathsOf, Writers
  <2>3. QED
    BY <2>1, <2>2, FileStep
<1>5. ASSUME NEW m \in Node, NEW p \in Path
      PROVE  snapshot'[m][p].by \in Node => snapshot'[m][p].by \in Writers
  <2>1. CASE snapshot'[m] = snapshot[m] \/ snapshot'[m] = files
    BY <2>1 DEF ShownInv, WriterTree
  <2>2. CASE snapshot'[m] = Baseline
    BY <2>2, BaselineClean
  <2>3. QED
    BY <1>1, <2>1, <2>2, SnapshotStep DEF SameLocals
<1>6. WriterTree(files)' /\ \A m \in Node : WriterTree(snapshot[m])'
  BY <1>4, <1>5 DEF WriterTree, Writers
<1>7. ASSUME NEW m \in completed \cup batch, Downstream(m) PROVE files' = files /\ n \notin Writers
  <2>1. IMPLEMENT \in completed
    BY <1>7, DownstreamWaits
  <2>2. n \notin Writers
    BY <1>1, <1>2, <2>1 DEF WritersInv
  <2>3. PathsOf(n) = {}
    BY <2>2 DEF PathsOf, Writers
  <2>4. \A p \in Path : files'[p] = files[p]
    BY <2>3, FileStep
  <2>5. files \in Trees /\ files' \in Trees
    BY NodeStepType DEF TypeOK
  <2>6. QED
    BY <2>2, <2>4, <2>5 DEF Trees
<1>8. ASSUME NEW m \in completed, Downstream(m) PROVE source'[m] = files'
  <2>1. source[m] = files /\ m # n
    BY <1>2, <1>8 DEF ShownInv
  <2>2. QED
    BY <1>1, <1>2, <1>7, <1>8, <2>1 DEF SameLocals
<1>9. n = VERIFY => Downstream(n)
  <2>1. IMPLEMENT # VERIFY
    BY DEF IMPLEMENT, VERIFY
  <2>2. QED
    BY <1>2, <2>1, DependencyIsAncestor DEF ShapeInv, Downstream
<1>10. Source(n) = IF Downstream(n) THEN files ELSE Baseline
  BY <1>2, <1>9 DEF Source
<1>11. ASSUME NEW m \in batch, pc'[m] \in {"dispatch", "backoff"} \/ outcome'[m] = "completed"
       PROVE  source'[m] = IF Downstream(m) THEN files' ELSE Baseline
  <2>1. source'[m] = IF Downstream(m) THEN files ELSE Baseline
    <3>1. CASE m # n
      BY <1>1, <1>2, <1>11, <3>1 DEF SameLocals, ShownInv, Running
    <3>2. CASE m = n
      BY <1>1, <1>10, <1>11, <3>2, SourceStep DEF ShownInv, Running
    <3>3. QED
      BY <3>1, <3>2
  <2>2. QED
    BY <1>7, <2>1
<1>12. QED
  BY <1>1, <1>3, <1>6, <1>8, <1>11 DEF ShownInv, Downstream, Running

LEMMA NextShown ==
  TypeOK /\ WrittenInv /\ OutcomeInv /\ SchedInv /\ ShapeInv /\ WritersInv /\ ShownInv
    /\ [Next]_vars => ShownInv'
<1> SUFFICES ASSUME TypeOK, WrittenInv, OutcomeInv, SchedInv, ShapeInv, WritersInv, ShownInv,
                    [Next]_vars
             PROVE  ShownInv'
  OBVIOUS
<1>1. CASE \E n \in Node : NodeStep(n)
  BY <1>1, ShownNodeStep
<1>2. CASE ~(\E n \in Node : NodeStep(n))
  <2>0. UNCHANGED <<files, snapshot, source>>
    BY <1>2, RunStep
  <2>1. WriterTree(files)' /\ \A n \in Node : WriterTree(snapshot[n])'
    BY <2>0 DEF ShownInv, WriterTree, Writers
  <2>2. CASE RequestStop \/ StopAtBoundary \/ Complete \/ UNCHANGED vars
    <3>1. UNCHANGED <<plan, sees, completed, batch, pc, outcome>>
      BY <2>2 DEF RequestStop, StopAtBoundary, Complete, vars, runVars, nodeVars, contextVars
    <3>2. QED
      BY <2>0, <2>1, <3>1 DEF ShownInv, SeesImplementation, Downstream, Running
  <2>3. CASE Schedule
    <3>1. Offered \subseteq Node
      BY DEF Offered, Ready, TypeOK, PlanOver
    <3>2. /\ UNCHANGED <<plan, sees, completed>>
          /\ \A n \in batch' : pc'[n] = "waiting" /\ outcome'[n] = "none"
      BY <2>3, <3>1 DEF Schedule, contextVars
    <3>3. QED
      BY <2>0, <2>1, <3>2 DEF ShownInv, SeesImplementation, Downstream, Running
  <2>4. CASE CollectAndStop \/ CollectAndContinue
    <3>1. /\ Collected /\ phase = "running" /\ batch' = {}
          /\ completed' \subseteq completed \cup {n \in batch : outcome[n] = "completed"}
      BY <2>4 DEF CollectAndStop, CollectAndContinue, Collected, Reached
    <3>2. CASE UNCHANGED <<plan, sees>>
      <4>1. \A n \in completed' : Downstream(n) => source[n] = files
        BY <3>1 DEF ShownInv
      <4>2. QED
        BY <2>0, <2>1, <3>1, <3>2, <4>1 DEF ShownInv, SeesImplementation, Downstream
    <3>3. CASE ~(UNCHANGED <<plan, sees>>)
      <4>1. /\ Replans /\ plan' = Revise(plan) /\ sees' = SeesImplementation(Revise(plan))
        BY <2>4, <3>3 DEF CollectAndStop, CollectAndContinue
      <4>2. IMPLEMENT \notin completed'
        BY <3>1, <4>1, CollectedClosed, RevisionComesFirst
      <4>3. ASSUME NEW n \in completed' PROVE ~Downstream(n)'
        <5>1. SchedInv'
          BY NextSched
        <5>2. /\ completed' \in SUBSET plan'.nodes
              /\ \A m \in completed' : plan'.deps[m] \subseteq completed'
          BY <5>1 DEF SchedInv, OutputInv
        <5>3. Ancestors(plan', n) \subseteq completed'
          BY <4>3, <5>2, AncestorsClosed
        <5>4. QED
          BY <4>2, <5>3 DEF Downstream
      <4>4. QED
        BY <2>1, <3>1, <4>1, <4>3 DEF ShownInv, SeesImplementation
    <3>4. QED
      BY <3>2, <3>3
  <2>5. QED
    BY <1>2, <2>2, <2>3, <2>4 DEF Next, Progress
<1>3. QED
  BY <1>1, <1>2

LEMMA InitShown == Init => ShapeInv /\ WritersInv /\ ShownInv
<1> SUFFICES ASSUME Init PROVE ShapeInv /\ WritersInv /\ ShownInv
  OBVIOUS
<1>1. ShapeInv
  BY WriterAssumption, PlanAssumption DEF Init, ShapeInv, Writers, PlanOver
<1>2. WritersInv
  BY DEF Init, WritersInv
<1>3. WriterTree(Baseline)
  BY BaselineClean DEF WriterTree
<1>4. ShownInv
  BY <1>3 DEF Init, ShownInv
<1>5. QED
  BY <1>1, <1>2, <1>4

LEMMA ShownAlways == Spec => [](ShapeInv /\ WritersInv /\ ShownInv)
<1>1. QED
  BY InitShown, NextShape, NextWriters, NextShown, TypeCorrect, WrittenAlways, OutcomeAlways,
     SchedulerInvariant, PTL DEF Spec

\* A run that reports completion ships exactly the tree that every stage
\* downstream of the implementation worked from, after any number of repairs,
\* retries and revisions: nothing is written behind their back.
THEOREM VerifiedIsShipped == Spec => []ShippedIsVerified
<1>1. SchedInv /\ ShownInv => ShippedIsVerified
  BY DEF SchedInv, EndInv, ShownInv, Downstream, ShippedIsVerified
<1>2. QED
  BY <1>1, ShownAlways, SchedulerInvariant, PTL

\* No stage is ever shown a file of a node that runs beside it, in whatever
\* order the stages of the batch start, retry and finish.
THEOREM SourceIsSettled == Spec => []SourcePredatesBatch
<1>1. TypeOK /\ SchedInv /\ WritersInv /\ ShownInv => SourcePredatesBatch
  <2> SUFFICES ASSUME TypeOK, SchedInv, WritersInv, ShownInv,
                      NEW n \in batch, Running(n), NEW p \in Path
               PROVE  source[n][p].by \notin batch
    BY DEF SourcePredatesBatch, Running
  <2>1. phase = "running" /\ batch \subseteq Node
    BY DEF SchedInv, BatchInv, TypeOK
  <2>2. CASE Downstream(n)
    <3>1. source[n] = files /\ IMPLEMENT \in completed
      BY <2>2, DownstreamWaits DEF ShownInv
    <3>2. Writers \cap batch \subseteq completed
      BY <2>1, <3>1 DEF WritersInv, SchedInv, BatchInv
    <3>3. Writers \cap batch = {}
      BY <3>2 DEF SchedInv, BatchInv
    <3>4. QED
      BY <2>1, <3>1, <3>3 DEF ShownInv, WriterTree
  <2>3. CASE ~Downstream(n)
    BY <2>1, <2>3, BaselineClean DEF ShownInv
  <2>4. QED
    BY <2>2, <2>3
<1>2. QED
  BY <1>1, ShownAlways, TypeCorrect, SchedulerInvariant, PTL

-----------------------------------------------------------------------------
(***************************************************************************)
(* Overwritten work.                                                       *)
(***************************************************************************)

\* No two names a stage uses resolve to one path.
OneNamePerPath ==
  \A m, n \in Node : \A f \in Files[m], g \in Files[n] : Canon[f] = Canon[g] => f = g

Audited(p) == \E c \in conflicts : Canon[c[1]] = p

AuditInv ==
  /\ \A m, n \in Writers : n \notin ancestors[m]
  /\ \A n \in Node : \A f \in Files[n] : Canon[f] \in artifacts[n] =>
       Audited(Canon[f]) \/ (owner[f] = n /\ files[Canon[f]].by = n)
  /\ \A n \in Node : \A f \in Files[n] : Canon[f] \in written[n] =>
       Audited(Canon[f]) \/ owner[f] = n
  /\ \A n \in Node : artifacts[n] \subseteq PathsOf(n) /\ written[n] \subseteq PathsOf(n)

\* What a step of a node writes, claims and checks, by the names it uses: none
\* where it writes nothing.
LEMMA WriteStep ==
  ASSUME TypeOK, NEW k \in Node, NodeStep(k)
  PROVE  \E names \in SUBSET Files[k] :
           /\ owner' = Claim(k, names)
           /\ conflicts' = conflicts \cup Clashes(k, names)
           /\ \A p \in Path \ (written[k] \cup {Canon[f] : f \in names}) : files'[p] = files[p]
           /\ written'[k] \subseteq written[k] \cup {Canon[f] : f \in names}
           /\ \/ artifacts' = artifacts
              \/ /\ artifacts'[k] = {Canon[f] : f \in names}
                 /\ \A p \in artifacts'[k] : files'[p].by = k
<1> DEFINE Effect(names) ==
             /\ owner' = Claim(k, names)
             /\ conflicts' = conflicts \cup Clashes(k, names)
             /\ \A p \in Path \ (written[k] \cup {Canon[f] : f \in names}) : files'[p] = files[p]
             /\ written'[k] \subseteq written[k] \cup {Canon[f] : f \in names}
             /\ \/ artifacts' = artifacts
                \/ /\ artifacts'[k] = {Canon[f] : f \in names}
                   /\ \A p \in artifacts'[k] : files'[p].by = k
<1>0. DOMAIN files = Path /\ files \in Trees
  BY DEF TypeOK, Trees
<1>a. Claim(k, {}) = owner /\ Clashes(k, {}) = {}
  BY DEF Claim, Clashes, TypeOK
<1>b. {} \in SUBSET Files[k]
  OBVIOUS
<1>c. ASSUME NEW names \in SUBSET Files[k], NEW ok \in BOOLEAN
      PROVE  /\ DOMAIN Persisted(k, names, ok) = Path
             /\ \A p \in Path \ {Canon[f] : f \in names} : Persisted(k, names, ok)[p] = files[p]
             /\ \A p \in {Canon[f] : f \in names} : Persisted(k, names, ok)[p].by = k
  BY <1>0, FileAssumption DEF Persisted, Write
<1>1. CASE \/ StartDeclined(k) \/ StartUnscripted(k) \/ StartRejected(k)
           \/ StageAsks(k) \/ StageRaises(k)
  <2>1. \E how \in Outcomes : End(k, how)
    BY <1>1 DEF StartDeclined, StartUnscripted, StartRejected, StageAsks, StageRaises,
                Outcomes, NodeStates
  <2>2. UNCHANGED <<owner, conflicts, files, artifacts>>
    BY <1>1 DEF StartDeclined, StartUnscripted, StartRejected, StageAsks, StageRaises,
                contextVars, worldVars
  <2>3. Effect({})
    BY <1>a, <2>1, <2>2, EndLocal
  <2>4. QED
    BY <1>b, <2>3
<1>2. CASE StartDispatch(k) \/ Retry(k)
  <2>1. UNCHANGED <<owner, conflicts, files, artifacts, written>>
    BY <1>2 DEF StartDispatch, Retry, contextVars, worldVars
  <2>2. Effect({})
    BY <1>a, <2>1
  <2>3. QED
    BY <1>b, <2>2
<1>3. CASE StageFails(k)
  <2>1. /\ LoseAttempt(k, written[k]) /\ written[k] \in SUBSET Path
        /\ UNCHANGED <<owner, conflicts, artifacts>>
        /\ files' = files \/ files' = Undo(k, files, written[k])
    BY <1>3 DEF StageFails, TypeOK, contextVars
  <2>2. \A p \in Path \ written[k] : files'[p] = files[p]
    BY <1>0, <2>1 DEF Undo, RestorePaths
  <2>3. Effect({})
    BY <1>a, <2>1, <2>2, LoseLocal
  <2>4. QED
    BY <1>b, <2>3
<1>4. ASSUME NEW names \in SUBSET Files[k], NEW ok \in BOOLEAN, StageCommits(k, names, ok)
      PROVE  Effect(names)
  <2>1. /\ owner' = Claim(k, names) /\ conflicts' = conflicts \cup Clashes(k, names)
        /\ files' = Persisted(k, names, ok) /\ End(k, "completed")
        /\ artifacts'[k] = {Canon[f] : f \in names}
    BY <1>4 DEF StageCommits, TypeOK
  <2>2. written'[k] = {}
    BY <2>1, EndLocal
  <2>3. /\ \A p \in Path \ {Canon[f] : f \in names} : files'[p] = files[p]
        /\ \A p \in {Canon[f] : f \in names} : files'[p].by = k
    BY <1>c, <2>1
  <2>4. QED
    BY <2>1, <2>2, <2>3
<1>5. ASSUME NEW names \in SUBSET Files[k], NEW ok \in BOOLEAN, StageDenied(k, names, ok)
      PROVE  Effect(names)
  <2> DEFINE paths == written[k] \cup {Canon[f] : f \in names}
  <2>1. /\ owner' = Claim(k, names) /\ conflicts' = conflicts \cup Clashes(k, names)
        /\ LoseAttempt(k, paths) /\ UNCHANGED artifacts
        /\ \/ files' = Persisted(k, names, ok)
           \/ files' = Undo(k, Persisted(k, names, ok), paths)
    BY <1>5 DEF StageDenied
  <2>2. paths \in SUBSET Path
    BY FileAssumption DEF TypeOK
  <2>3. \A p \in Path \ paths : files'[p] = files[p]
    BY <1>c, <2>1 DEF Undo, RestorePaths
  <2>4. QED
    BY <2>1, <2>2, <2>3, LoseLocal
<1>6. ASSUME NEW names \in SUBSET Files[k], NEW ok \in BOOLEAN, StageTears(k, names, ok)
      PROVE  Effect(names)
  <2>1. /\ owner' = Claim(k, names) /\ conflicts' = conflicts \cup Clashes(k, names)
        /\ files' = Persisted(k, names, ok) /\ End(k, "raised") /\ UNCHANGED artifacts
    BY <1>6 DEF StageTears
  <2>2. QED
    BY <1>c, <2>1, EndLocal
<1>7. QED
  BY <1>1, <1>2, <1>3, <1>4, <1>5, <1>6 DEF NodeStep

LEMMA AuditNodeStep ==
  ASSUME OneNamePerPath, TypeOK, OutcomeInv, SchedInv, ArtifactInv, AuditInv,
         NEW k \in Node, NodeStep(k)
  PROVE  AuditInv'
<1>1. /\ phase = "running" /\ k \in batch /\ pc[k] # "done"
      /\ \A m \in Node \ {k} : written'[m] = written[m] /\ artifacts'[m] = artifacts[m]
  BY NodeStepLocal DEF SameLocals
<1>2. artifacts[k] = {}
  BY <1>1, RunningHasNone
<1>3. PICK names \in SUBSET Files[k] :
        /\ owner' = Claim(k, names)
        /\ conflicts' = conflicts \cup Clashes(k, names)
        /\ \A p \in Path \ (written[k] \cup {Canon[f] : f \in names}) : files'[p] = files[p]
        /\ written'[k] \subseteq written[k] \cup {Canon[f] : f \in names}
        /\ \/ artifacts' = artifacts
           \/ /\ artifacts'[k] = {Canon[f] : f \in names}
              /\ \A p \in artifacts'[k] : files'[p].by = k
  BY WriteStep
<1>4. \A m, n \in Writers : n \notin ancestors[m]
  BY DEF AuditInv
<1>5. UNCHANGED ancestors
  BY SourceStep
<1>6. \A p : Audited(p) => Audited(p)'
  BY <1>3 DEF Audited
<1>7. ASSUME NEW n \in Node, NEW f \in Files[n] PROVE f \in Name /\ Canon[f] \in Path
  BY FileAssumption
<1>8. ASSUME NEW n \in Node, NEW f \in Files[n]
      PROVE  /\ f \in names => owner'[f] = k
             /\ f \notin names => owner'[f] = owner[f]
             /\ Canon[f] \in {Canon[g] : g \in names} => f \in names
             /\ f \in names /\ owner[f] = n /\ n # k => Audited(Canon[f])'
  <2>1. f \in Name
    BY <1>7
  <2>2. /\ f \in names => owner'[f] = k
        /\ f \notin names => owner'[f] = owner[f]
    BY <1>3, <2>1 DEF Claim
  <2>3. Canon[f] \in {Canon[g] : g \in names} => f \in names
    BY DEF OneNamePerPath
  <2>4. ASSUME f \in names, owner[f] = n, n # k PROVE Audited(Canon[f])'
    <3>1. k \in Writers /\ n \in Writers
      BY <2>4 DEF Writers
    <3>2. n # "nobody"
      BY NodeAssumption
    <3>3. <<f, n, k>> \in Clashes(k, names)
      BY <1>4, <2>4, <3>1, <3>2 DEF Clashes
    <3>4. <<f, n, k>>[1] = f
      OBVIOUS
    <3>5. QED
      BY <1>3, <3>3, <3>4 DEF Audited
  <2>5. QED
    BY <2>2, <2>3, <2>4
<1>9. ASSUME NEW n \in Node, NEW f \in Files[n], Canon[f] \in artifacts'[n]
      PROVE  Audited(Canon[f])' \/ (owner'[f] = n /\ files'[Canon[f]].by = n)
  <2>1. CASE n = k
    BY <1>2, <1>3, <1>8, <1>9, <2>1
  <2>2. CASE n # k
    <3>1. Audited(Canon[f]) \/ (owner[f] = n /\ files[Canon[f]].by = n)
      BY <1>1, <1>9, <2>2 DEF AuditInv
    <3>2. CASE owner[f] = n /\ files[Canon[f]].by = n /\ f \notin names
                 /\ Canon[f] \notin written[k]
      BY <1>3, <1>7, <1>8, <3>2
    <3>3. CASE owner[f] = n /\ Canon[f] \in written[k]
      <4>1. f \in Files[k]
        <5>1. Canon[f] \in PathsOf(k)
          BY <3>3 DEF AuditInv
        <5>2. QED
          BY <5>1 DEF PathsOf, OneNamePerPath
      <4>2. Audited(Canon[f])
        BY <2>2, <3>3, <4>1 DEF AuditInv
      <4>3. QED
        BY <1>6, <4>2
    <3>4. QED
      BY <1>6, <1>8, <2>2, <3>1, <3>2, <3>3
  <2>3. QED
    BY <2>1, <2>2
<1>10. ASSUME NEW n \in Node, NEW f \in Files[n], Canon[f] \in written'[n]
       PROVE  Audited(Canon[f])' \/ owner'[f] = n
  <2>1. CASE f \in names
    <3>1. CASE n = k
      BY <1>8, <2>1, <3>1
    <3>2. CASE n # k
      BY <1>1, <1>6, <1>8, <1>10, <2>1, <3>2 DEF AuditInv
    <3>3. QED
      BY <3>1, <3>2
  <2>2. CASE f \notin names
    <3>1. Canon[f] \in written[n]
      BY <1>1, <1>3, <1>8, <1>10, <2>2
    <3>2. QED
      BY <1>6, <1>8, <2>2, <3>1 DEF AuditInv
  <2>3. QED
    BY <2>1, <2>2
<1>11. \A n \in Node : artifacts'[n] \subseteq PathsOf(n) /\ written'[n] \subseteq PathsOf(n)
  BY <1>1, <1>3 DEF AuditInv, PathsOf
<1>12. QED
  BY <1>4, <1>5, <1>9, <1>10, <1>11 DEF AuditInv, Writers, PathsOf

\* In the plan a run starts with, no writer is upstream of another: they all
\* wait for the design, and the design and the survey write nothing.
LEMMA WritersAreUnrelated ==
  ASSUME NEW p \in Plans, NEW m \in Writers, NEW n \in Writers
  PROVE  n \notin Ancestors(p, m)
<1>0. m \in Node /\ n \notin {IMPACT, DESIGN} /\ p \in PlanOver(Node) /\ ValidPlan(p)
  BY WriterAssumption, PlanAssumption DEF Writers
<1>1. CASE m \in p.nodes
  <2> DEFINE S == {IMPACT, DESIGN} \cap p.nodes
  <2>1. /\ p.deps[m] = {DESIGN} /\ DESIGN \in p.nodes
        /\ p.deps[DESIGN] \subseteq {IMPACT} /\ p.deps[IMPACT] = {}
    BY <1>1, WriterAssumption DEF Writers
  <2>2. p.deps[DESIGN] \subseteq p.nodes
    BY <1>0, <2>1 DEF ValidPlan, KnownDependencies
  <2>3. S \in SUBSET p.nodes /\ p.deps[m] \subseteq S /\ \A x \in S : p.deps[x] \subseteq S
    BY <2>1, <2>2
  <2>4. Ancestors(p, m) \subseteq S
    BY <2>3, AncestorsClosed
  <2>5. QED
    BY <1>0, <2>4
<1>2. CASE m \notin p.nodes
  <2>1. p.deps[m] = {}
    BY <1>0, <1>2 DEF ValidPlan, KnownDependencies, PlanOver
  <2>2. Ancestors(p, m) \subseteq {}
    BY <2>1, AncestorsClosed
  <2>3. QED
    BY <2>2
<1>3. QED
  BY <1>1, <1>2

\* Where every path has one name, no accepted file is ever replaced or taken
\* back silently: it is still the node's own, or the audit log holds a
\* concurrent_write finding for it, even when a write is torn or undone.
THEOREM LossIsNeverSilent ==
  ASSUME OneNamePerPath
  PROVE  Spec => []LossIsAudited
<1>1. Init => AuditInv
  BY WritersAreUnrelated DEF Init, AuditInv, Writers
<1>2. TypeOK /\ OutcomeInv /\ SchedInv /\ ArtifactInv /\ AuditInv /\ [Next]_vars => AuditInv'
  <2> SUFFICES ASSUME TypeOK, OutcomeInv, SchedInv, ArtifactInv, AuditInv, [Next]_vars
               PROVE  AuditInv'
    OBVIOUS
  <2>1. CASE \E n \in Node : NodeStep(n)
    BY <2>1, AuditNodeStep
  <2>2. CASE ~(\E n \in Node : NodeStep(n))
    <3>1. UNCHANGED <<owner, conflicts, files, written>>
      BY <2>2, RunStep
    <3>2. UNCHANGED ancestors /\ \A n \in Node : artifacts'[n] \subseteq artifacts[n]
      <4>1. CASE CollectAndStop \/ CollectAndContinue
        BY <4>1 DEF CollectAndStop, CollectAndContinue, Collected
      <4>2. CASE ~(CollectAndStop \/ CollectAndContinue)
        BY <2>2, <4>2 DEF Next, Progress, RequestStop, StopAtBoundary, Schedule, Complete,
                          vars, contextVars, nodeVars
      <4>3. QED
        BY <4>1, <4>2
    <3>3. QED
      BY <3>1, <3>2 DEF AuditInv, Writers, Audited, PathsOf
  <2>3. QED
    BY <2>1, <2>2
<1>3. AuditInv => LossIsAudited
  <2> SUFFICES ASSUME AuditInv, NEW n \in Node, NEW p \in artifacts[n]
               PROVE  files[p].by = n \/ \E c \in conflicts : Canon[c[1]] = p
    BY DEF LossIsAudited
  <2>1. PICK f \in Files[n] : p = Canon[f]
    BY DEF AuditInv, PathsOf
  <2>2. QED
    BY <2>1 DEF AuditInv, Audited
<1>4. QED
  BY <1>1, <1>2, <1>3, TypeCorrect, OutcomeAlways, SchedulerInvariant, ArtifactAlways, PTL
     DEF Spec

-----------------------------------------------------------------------------
(***************************************************************************)
(* The promise.  A step of a coroutine is a stutter of RunLifecycle; only  *)
(* collecting a batch, completing and stopping are steps of it.            *)
(***************************************************************************)

\* The verdict is given when the run ends, and not before.
VerdictInv == phase # "finished" => runState = "working"

\* The work of a batch that run() absorbs.
Accepted == {n \in Reached : outcome[n] = "completed"}

\* The refinement mapping takes the executor's variables as they are.
PromiseVars == <<runState, plan, completed, repairs, revisions>>

LEMMA NextVerdict == VerdictInv /\ [Next]_vars => VerdictInv'
<1> SUFFICES ASSUME VerdictInv, [Next]_vars PROVE VerdictInv'
  OBVIOUS
<1>1. ASSUME NEW n \in Node, NodeStep(n) PROVE UNCHANGED <<phase, runState>>
  BY <1>1 DEF NodeStep, StartDeclined, StartUnscripted, StartRejected, StartDispatch, Retry,
              StageFails, StageAsks, StageRaises, StageCommits, StageDenied, StageTears, runVars
<1>2. QED
  BY <1>1 DEF VerdictInv, Next, Progress, vars, runVars, RequestStop, StopAtBoundary, Schedule,
              Complete, CollectAndStop, CollectAndContinue, Collected

\* Collecting a batch absorbs the accepted nodes of it, with a repair when
\* verification is among those that were not.
LEMMA CollectedAbsorbs ==
  ASSUME TypeOK, SchedInv, Collected
  PROVE  /\ batch \subseteq Promise!Ready(plan, completed)
         /\ Accepted \in SUBSET Promise!Ready(plan, completed)
         /\ Promise!Absorb(Accepted)
<1>0. IMPLEMENT # VERIFY
  BY DEF IMPLEMENT, VERIFY
<1>1. batch \subseteq Promise!Ready(plan, completed) /\ Accepted \subseteq batch
  BY DEF SchedInv, BatchInv, Promise!Ready, Accepted, Reached
<1>2. /\ completed' = (completed \cup Accepted) \ Rework
      /\ repairs' = RepairsAfter
  BY DEF Collected, Accepted
<1>3. CASE Rework = {}
  <2>1. completed' = completed \cup Accepted /\ repairs' = repairs
    BY <1>2, <1>3 DEF RepairsAfter
  <2>2. QED
    BY <1>1, <2>1 DEF Promise!Absorb
<1>4. CASE Rework # {}
  <2>1. /\ Rework = {IMPLEMENT, VERIFY}
        /\ VERIFY \in batch
        /\ ResultOf(VERIFY) = "failed"
        /\ repairs < MaxRepairs
    BY <1>4 DEF Rework, Repairable, Reached
  <2>2. VERIFY \in Promise!Ready(plan, completed) \ Accepted
    BY <1>1, <2>1 DEF Accepted, ResultOf
  <2>3. IMPLEMENT \in completed \cup Accepted
    BY <1>4, ReworkWasAccepted DEF Accepted
  <2>4. completed' = (completed \cup Accepted) \ {IMPLEMENT, VERIFY} /\ repairs' = repairs + 1
    BY <1>2, <1>4, <2>1 DEF RepairsAfter
  <2>5. QED
    BY <1>1, <2>1, <2>2, <2>3, <2>4 DEF Promise!Absorb
<1>5. QED
  BY <1>1, <1>3, <1>4

\* A revision that is due only adds to the plan, below nothing that is done.
LEMMA ReplanRevises ==
  ASSUME TypeOK, SchedInv, CollectAndContinue, Replans
  PROVE  Promise!ReviseThePlan
<1>0. IMPLEMENT # REFACTOR
  BY DEF IMPLEMENT, REFACTOR
<1>1. /\ phase = "running" /\ Collected
      /\ plan' = Revise(plan) /\ revisions' = revisions + 1 /\ revisions < MaxPlanRevisions
      /\ seam /\ IMPACT \in outputs /\ REFACTOR \notin plan.nodes
  BY DEF CollectAndContinue, Collected, Replans, NeedsSeam
<1>2. outputs \subseteq plan.nodes /\ plan \in PlanOver(Node) /\ plan.nodes \subseteq Node
  BY DEF SchedInv, OutputInv, TypeOK, PlanOver
<1>3. ValidPlan(plan') /\ plan' \in PlanOver(Node)
  BY <1>1, <1>2, ReviseValid, ReviseType DEF SchedInv, GraphInv
<1>4. Promise!ValidPlan(plan') /\ plan' \in Promise!PlanOver(Node)
  BY <1>3 DEF ValidPlan, KnownDependencies, Acyclic, PlanOver, Promise!ValidPlan,
              Promise!KnownDependencies, Promise!Acyclic, Promise!PlanOver
<1>5. IMPLEMENT \notin outputs
  BY <1>1, <1>2 DEF SchedInv, SeamInv
<1>6. completed' \subseteq outputs
  BY <1>1, CollectedClosed
<1>7. ASSUME NEW n \in completed' PROVE plan'.deps[n] = plan.deps[n]
  <2>1. n \in Node /\ n # REFACTOR /\ n # IMPLEMENT /\ DOMAIN plan.deps = Node
    BY <1>1, <1>2, <1>5, <1>6 DEF PlanOver
  <2>2. QED
    BY <1>1, <2>1 DEF Revise
<1>8. /\ plan'.version = plan.version + 1
      /\ plan.nodes \subseteq plan'.nodes
      /\ plan.high \subseteq plan'.high
  BY <1>1 DEF Revise
<1>9. QED
  BY <1>1, <1>4, <1>7, <1>8 DEF Promise!ReviseThePlan

LEMMA PromiseInitMaps == Init => Promise!Init
BY DEF Init, Promise!Init

LEMMA PromiseStepMaps ==
  TypeOK /\ SchedInv /\ VerdictInv /\ [Next]_vars => [Promise!Next]_PromiseVars
<1> SUFFICES ASSUME TypeOK, SchedInv, VerdictInv, [Next]_vars
             PROVE  [Promise!Next]_PromiseVars
  OBVIOUS
<1> USE DEF PromiseVars
<1>1. CASE RequestStop \/ Schedule \/ UNCHANGED vars
  BY <1>1 DEF RequestStop, Schedule, vars, runVars
<1>2. ASSUME NEW n \in Node, NodeStep(n) PROVE UNCHANGED PromiseVars
  BY <1>2, NodeStepLocal DEF runVars
<1>3. CASE StopAtBoundary
  <2>1. /\ runState = "working" /\ runState' = "failed"
        /\ UNCHANGED <<plan, completed, repairs, revisions>>
    BY <1>3 DEF StopAtBoundary, VerdictInv
  <2>2. Promise!Absorb({})
    BY <2>1 DEF Promise!Absorb
  <2>3. QED
    BY <2>1, <2>2 DEF Promise!Next, Promise!GiveUp
<1>4. CASE Complete
  <2>1. /\ runState = "working" /\ runState' = "completed"
        /\ UNCHANGED <<plan, completed, repairs, revisions>>
        /\ completed = plan.nodes
    BY <1>4, NothingReadyNothingLeft DEF Complete, VerdictInv
  <2>2. QED
    BY <2>1 DEF Promise!Next, Promise!Succeed
<1>5. CASE CollectAndStop
  <2>1. /\ Collected /\ phase = "running"
        /\ UNCHANGED <<plan, revisions>>
    BY <1>5 DEF CollectAndStop, Collected
  <2>2. PICK n \in batch :
          /\ FirstFatal(n)
          /\ runState' = IF outcome[n] = "input_required" THEN "input_required" ELSE "failed"
    BY <1>5 DEF CollectAndStop
  <2>3. /\ n \in batch /\ n \notin Accepted
        /\ runState = "working"
        /\ runState' \in {"failed", "input_required"}
    BY <2>1, <2>2 DEF FirstFatal, Fatal, Accepted, VerdictInv
  <2>4. /\ Accepted \in SUBSET Promise!Ready(plan, completed)
        /\ Promise!Absorb(Accepted)
        /\ Accepted # Promise!Ready(plan, completed)
    BY <2>1, <2>3, CollectedAbsorbs
  <2>5. QED
    BY <2>1, <2>3, <2>4 DEF Promise!Next, Promise!GiveUp
<1>6. CASE CollectAndContinue
  <2>1. /\ Collected /\ phase = "running" /\ runState = "working"
        /\ UNCHANGED runState
        /\ ~Replans => UNCHANGED <<plan, revisions>>
    BY <1>6 DEF CollectAndContinue, Collected, VerdictInv
  <2>2. Replans => Promise!ReviseThePlan
    BY <1>6, ReplanRevises
  <2>3. \E S \in SUBSET Promise!Ready(plan, completed) : Promise!Absorb(S)
    BY <2>1, CollectedAbsorbs
  <2>4. QED
    BY <2>1, <2>2, <2>3 DEF Promise!Next, Promise!GoOn
<1>7. QED
  BY <1>1, <1>2, <1>3, <1>4, <1>5, <1>6 DEF Next, Progress

\* The executor implements RunLifecycle, for every acyclic plan of the
\* planner's shape, every bound and every interleaving of a batch.
THEOREM ExecutorKeepsPromise == Spec => KeepsPromise
<1>1. Init => VerdictInv
  BY DEF Init, VerdictInv
<1>2. Spec => [](TypeOK /\ SchedInv /\ VerdictInv)
  BY <1>1, NextVerdict, TypeCorrect, SchedulerInvariant, PTL DEF Spec
<1>3. TypeOK /\ SchedInv /\ VerdictInv /\ [Next]_vars => [Promise!Next]_PromiseVars
  BY PromiseStepMaps
<1>4. QED
  BY <1>2, <1>3, PromiseInitMaps, PTL
     DEF Spec, KeepsPromise, Promise!Spec, Promise!vars, PromiseVars
=============================================================================
