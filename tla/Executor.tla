------------------------------ MODULE Executor ------------------------------
(***************************************************************************)
(* The engine (keel/executor.py).  A run repeats: compute the ready nodes, *)
(* run them concurrently as asyncio tasks, collect their results in plan   *)
(* order, repair or stop on a failure, and let the planner revise the plan *)
(* from what the stages found.                                             *)
(*                                                                         *)
(* A node is one coroutine, _run_node.  It gives the event loop away only  *)
(* while its stage is dispatched and while it backs off before a retry, so *)
(* everything between two of those points is one action: writing a stage's *)
(* files, judging them at the exit gate and undoing them is one step.      *)
(***************************************************************************)
EXTENDS Planner, Workspace

CONSTANTS
  Node,             \* node ids
  Rank,             \* position of a node in the plan, which orders a batch
  Plans,            \* the plans a run may be given
  Path,             \* files of the workspace
  Existing,         \* files that are there before the run
  Name,             \* file names as stages spell them
  Canon,            \* the path a name resolves to in the workspace
  Files,            \* the names each stage may write
  MaxAttempts,      \* retry.max_attempts of each node
  Rollback,         \* nodes with rollback = True
  MaxRepairs,       \* Executor.max_repairs
  MaxPlanRevisions, \* Executor.max_plan_revisions
  EntryDenied,      \* nodes whose entry gate some policy rule may close
  Unscripted,       \* high-impact nodes a scripted broker has no answer for
  Asking,           \* nodes whose stage may ask for input
  Raising,          \* nodes whose dispatch may raise
  UnsafeNames       \* nodes whose stage may name a path outside the workspace

ASSUME NodeAssumption ==
  /\ {IMPACT, DESIGN, IMPLEMENT, VERIFY, REFACTOR} \subseteq Node
  /\ Node \cap {"nobody", "absent", "original"} = {}
  /\ Rank \in [Node -> Nat]
  /\ \A m, n \in Node : Rank[m] = Rank[n] => m = n
  /\ MaxAttempts \in [Node -> Nat]
  /\ Rollback \subseteq Node
  /\ MaxRepairs \in Nat
  /\ MaxPlanRevisions \in Nat

ASSUME FileAssumption ==
  /\ Existing \subseteq Path
  /\ Canon \in [Name -> Path]
  /\ Files \in [Node -> SUBSET Name]

\* The shape of the planner's plans: only verification reads the
\* implementation directly, and a plan that surveys the code does so before
\* the design.
PlannedShape(p) ==
  /\ \A n \in p.nodes : IMPLEMENT \in p.deps[n] => n = VERIFY
  /\ IMPACT \in p.nodes =>
       /\ DESIGN \in p.nodes
       /\ IMPACT \in p.deps[DESIGN]
       /\ IMPLEMENT \in p.nodes => DESIGN \in p.deps[IMPLEMENT]

\* The plans Planner.build makes and PlanGraph accepts; no seam is planned
\* before there is evidence for one.
ASSUME PlanAssumption ==
  \A p \in Plans :
    /\ p \in PlanOver(Node)
    /\ ValidPlan(p)
    /\ PlannedShape(p)
    /\ REFACTOR \notin p.nodes

\* The stages whose output has files (the code, test and documentation
\* schemas) are the ones the planner marks for rollback.  They wait for the
\* design alone, and verification waits for the implementation.
ASSUME WriterAssumption ==
  /\ \A n \in Node : Files[n] # {} => n \in Rollback \ {IMPACT, DESIGN, VERIFY}
  /\ \A p \in Plans :
       /\ {DESIGN, IMPLEMENT} \subseteq p.nodes
       /\ p.deps[DESIGN] \subseteq {IMPACT}
       /\ p.deps[IMPACT] = {}
       /\ p.deps[IMPLEMENT] = {DESIGN}
       /\ \A n \in p.nodes : Files[n] # {} => p.deps[n] = {DESIGN}
       /\ VERIFY \in p.nodes => IMPLEMENT \in p.deps[VERIFY]

VARIABLES
  phase,      \* where run() is: "scheduling", "running" or "finished"
  runState,   \* RunResult.state
  plan,       \* RunResult.plan, the plan of the current graph
  revisions,  \* RunResult.plan_revisions
  repairs,    \* RunResult.repairs
  completed,  \* the completed set of run()
  results,    \* RunResult.results, "none" where there is no entry
  batch,      \* the nodes being gathered
  stop        \* stop_requested
runVars == <<phase, runState, plan, revisions, repairs, completed, results, batch, stop>>

VARIABLES
  outputs,    \* nodes with an entry in context["outputs"]
  seam,       \* outputs["impact-analysis"]["missing_extension_point"]
  sees,       \* context["sees_implementation"]
  ancestors,  \* context["ancestors"]
  owner       \* context["path_owner"], by the name the stage used
contextVars == <<outputs, seam, sees, ancestors, owner>>

VARIABLES
  pc,         \* where each node's coroutine is
  attempt,    \* the attempt it is on
  outcome,    \* how it ended
  source,     \* the code it was last shown
  snapshot,   \* the tree it captured
  written,    \* written_paths
  rolledBack, \* nodes with NodeResult.rolled_back
  artifacts   \* the paths among NodeResult.artifacts of an accepted result
nodeVars == <<pc, attempt, outcome, source, snapshot, written, rolledBack, artifacts>>

VARIABLES
  files,      \* the workspace
  granted,    \* approvals in the broker's history, per node
  approved,   \* ChangeControlRule.approved_nodes
  conflicts   \* concurrent_write findings in the audit log
worldVars == <<files, granted, approved, conflicts>>

vars == <<runVars, contextVars, nodeVars, worldVars>>

RunStates == {"working", "completed", "failed", "input_required"}
NodeStates == {"completed", "failed", "rejected", "input_required"}
Outcomes == NodeStates \cup {"raised"}
PCs == {"idle", "waiting", "dispatch", "backoff", "done"}

\* The workspace before the run, context["baseline_code"].
Baseline == [p \in Path |-> IF p \in Existing THEN Original ELSE Absent]

Trees == [Path -> Content(Node)]

\* What each variable holds; max_repairs and max_plan_revisions are kept.
TypeOK ==
  /\ phase \in {"scheduling", "running", "finished"}
  /\ runState \in RunStates
  /\ plan \in PlanOver(Node)
  /\ revisions \in 0 .. MaxPlanRevisions
  /\ repairs \in 0 .. MaxRepairs
  /\ completed \subseteq Node
  /\ results \in [Node -> NodeStates \cup {"none"}]
  /\ batch \subseteq Node
  /\ stop \in BOOLEAN
  /\ outputs \subseteq Node
  /\ seam \in BOOLEAN
  /\ sees \in [Node -> BOOLEAN]
  /\ ancestors \in [Node -> SUBSET Node]
  /\ owner \in [Name -> Node \cup {"nobody"}]
  /\ pc \in [Node -> PCs]
  /\ attempt \in [Node -> Nat]
  /\ outcome \in [Node -> Outcomes \cup {"none"}]
  /\ source \in [Node -> Trees]
  /\ snapshot \in [Node -> Trees]
  /\ written \in [Node -> SUBSET Path]
  /\ rolledBack \subseteq Node
  /\ artifacts \in [Node -> SUBSET Path]
  /\ files \in Trees
  /\ granted \in [Node -> Nat]
  /\ approved \subseteq Node
  /\ conflicts \subseteq (Name \X Node \X Node)

\* A plausible slip: only direct dependents of the implementation see it.
SeesDirectly(p) == [n \in Node |-> IMPLEMENT \in p.deps[n]]

\* context["sees_implementation"] under plan p.
SeesImplementation(p) == [n \in Node |-> IMPLEMENT \in Ancestors(p, n)]

Init ==
  /\ plan \in Plans
  /\ phase = "scheduling"
  /\ runState = "working"
  /\ revisions = 0
  /\ repairs = 0
  /\ completed = {}
  /\ results = [n \in Node |-> "none"]
  /\ batch = {}
  /\ stop = FALSE
  /\ outputs = {}
  /\ seam = FALSE
  /\ sees = SeesImplementation(plan)
  /\ ancestors = [n \in Node |-> Ancestors(plan, n)]
  /\ owner = [f \in Name |-> "nobody"]
  /\ pc = [n \in Node |-> "idle"]
  /\ attempt = [n \in Node |-> 0]
  /\ outcome = [n \in Node |-> "none"]
  /\ source = [n \in Node |-> Baseline]
  /\ snapshot = [n \in Node |-> Baseline]
  /\ written = [n \in Node |-> {}]
  /\ rolledBack = {}
  /\ artifacts = [n \in Node |-> {}]
  /\ files = Baseline
  /\ granted = [n \in Node |-> 0]
  /\ approved = {}
  /\ conflicts = {}

-----------------------------------------------------------------------------
(***************************************************************************)
(* The scheduling loop of run().                                           *)
(***************************************************************************)

\* request_stop, called at any time from outside the run.
RequestStop ==
  /\ phase # "finished"
  /\ ~stop
  /\ stop' = TRUE
  /\ UNCHANGED <<phase, runState, plan, revisions, repairs, completed, results, batch,
                 contextVars, nodeVars, worldVars>>

\* The ready nodes that have no result yet.
Offered == {n \in Ready(plan, completed) : results[n] = "none"}

\* The top of the loop finds the stop flag set.
StopAtBoundary ==
  /\ phase = "scheduling"
  /\ stop
  /\ phase' = "finished"
  /\ runState' = "failed"
  /\ UNCHANGED <<plan, revisions, repairs, completed, results, batch, stop,
                 contextVars, nodeVars, worldVars>>

\* asyncio.gather over the ready nodes.
Schedule ==
  /\ phase = "scheduling"
  /\ ~stop
  /\ Offered # {}
  /\ phase' = "running"
  /\ batch' = Offered
  /\ pc' = [n \in Node |-> IF n \in Offered THEN "waiting" ELSE "idle"]
  /\ outcome' = [n \in Node |-> "none"]
  /\ rolledBack' = rolledBack \ Offered
  /\ UNCHANGED <<runState, plan, revisions, repairs, completed, results, stop,
                 contextVars, attempt, source, snapshot, written, artifacts, worldVars>>

\* No node is ready: the run is complete.
Complete ==
  /\ phase = "scheduling"
  /\ ~stop
  /\ Offered = {}
  /\ phase' = "finished"
  /\ runState' = "completed"
  /\ UNCHANGED <<plan, revisions, repairs, completed, results, batch, stop,
                 contextVars, nodeVars, worldVars>>

-----------------------------------------------------------------------------
(***************************************************************************)
(* One node: _run_node.                                                    *)
(***************************************************************************)

AllStarted == \A m \in batch : pc[m] # "waiting"

\* Verification blocks the event loop while the test suite runs.
LoopIsFree(n) == VERIFY \in batch /\ pc[VERIFY] = "dispatch" => n = VERIFY

\* Tasks start in plan order.
MayStart(n) ==
  /\ phase = "running"
  /\ n \in batch
  /\ pc[n] = "waiting"
  /\ LoopIsFree(n)
  /\ \A m \in batch : Rank[m] < Rank[n] => pc[m] # "waiting"

\* A dispatch returns at once, before the next task starts, or after a
\* suspension, by when every task of the batch has started.
MayReturn(n) ==
  /\ phase = "running"
  /\ n \in batch
  /\ pc[n] = "dispatch"
  /\ LoopIsFree(n)
  /\ \/ AllStarted
     \/ attempt[n] = 1 /\ \A m \in batch : Rank[m] > Rank[n] => pc[m] = "waiting"

\* The coroutine of n ends; its locals die with it.
End(n, how) ==
  /\ pc' = [pc EXCEPT ![n] = "done"]
  /\ outcome' = [outcome EXCEPT ![n] = how]
  /\ attempt' = [attempt EXCEPT ![n] = 0]
  /\ snapshot' = [snapshot EXCEPT ![n] = Baseline]
  /\ written' = [written EXCEPT ![n] = {}]

\* A plausible slip: one sign-off covers every later round of the node.
SignedOffOnce(n) == n \in plan.high /\ n \notin approved

\* NodeSpec.needs_approval, asked every time the node runs.
NeedsApproval(n) == n \in plan.high

\* _approve: the broker declines.
StartDeclined(n) ==
  /\ MayStart(n)
  /\ NeedsApproval(n)
  /\ n \notin Unscripted
  /\ End(n, "rejected")
  /\ UNCHANGED <<runVars, contextVars, source, rolledBack, artifacts, worldVars>>

\* _approve: a scripted broker raises for a node it was not told about.
StartUnscripted(n) ==
  /\ MayStart(n)
  /\ NeedsApproval(n)
  /\ n \in Unscripted
  /\ End(n, "raised")
  /\ UNCHANGED <<runVars, contextVars, source, rolledBack, artifacts, worldVars>>

\* The approval, where one is needed, is given and recorded with the policy.
Approve(n) ==
  IF NeedsApproval(n)
  THEN /\ n \notin Unscripted
       /\ granted' = [granted EXCEPT ![n] = @ + 1]
       /\ approved' = approved \cup {n}
  ELSE UNCHANGED <<granted, approved>>

\* The entry gate's own precondition: every dependency has an output.
InputsPresent(n) == plan.deps[n] \subseteq outputs

\* The entry gate refuses the node.
StartRejected(n) ==
  /\ MayStart(n)
  /\ n \in EntryDenied \/ ~InputsPresent(n)
  /\ Approve(n)
  /\ End(n, "rejected")
  /\ UNCHANGED <<runVars, contextVars, source, rolledBack, artifacts, files, conflicts>>

\* A plausible slip: every stage is shown whatever is on disk.
SourceOnDisk(n) == files

\* _payload, and the suite that _verify runs: the code a stage works from.
Source(n) == IF n = VERIFY \/ sees[n] THEN files ELSE Baseline

\* The node passes its gates, captures the tree and dispatches its stage.
StartDispatch(n) ==
  /\ MayStart(n)
  /\ InputsPresent(n)
  /\ Approve(n)
  /\ pc' = [pc EXCEPT ![n] = "dispatch"]
  /\ attempt' = [attempt EXCEPT ![n] = 1]
  /\ snapshot' = [snapshot EXCEPT ![n] = IF n \in Rollback THEN files ELSE Baseline]
  /\ source' = [source EXCEPT ![n] = Source(n)]
  /\ UNCHANGED <<runVars, contextVars, outcome, written, rolledBack, artifacts,
                 files, conflicts>>

\* A plausible slip: the retry loop never advances its counter.
AttemptUncounted(n) == attempt[n]

\* The retry loop's counter in its next turn.
NextAttempt(n) == attempt[n] + 1

\* The backoff is over: dispatch again.
Retry(n) ==
  /\ phase = "running"
  /\ n \in batch
  /\ pc[n] = "backoff"
  /\ LoopIsFree(n)
  /\ AllStarted
  /\ pc' = [pc EXCEPT ![n] = "dispatch"]
  /\ attempt' = [attempt EXCEPT ![n] = NextAttempt(n)]
  /\ source' = [source EXCEPT ![n] = Source(n)]
  /\ UNCHANGED <<runVars, contextVars, outcome, snapshot, written, rolledBack, artifacts,
                 worldVars>>

\* The attempt is lost: back off when one is left, else the node has failed.
LoseAttempt(n, paths) ==
  IF attempt[n] <= MaxAttempts[n]
  THEN /\ pc' = [pc EXCEPT ![n] = "backoff"]
       /\ written' = [written EXCEPT ![n] = paths]
       /\ UNCHANGED <<attempt, outcome, snapshot>>
  ELSE End(n, "failed")

\* A plausible slip: a node that was rolled back once is not rolled back again.
UndoOnce(n, tree, paths) ==
  IF n \in rolledBack THEN tree ELSE RestorePaths(tree, snapshot[n], paths)

\* A plausible slip, and the one this code once had: undo the whole tree.
UndoEverything(n, tree, paths) == Restore(tree, snapshot[n], paths)

\* _rollback: put back the paths this node wrote.
Undo(n, tree, paths) == RestorePaths(tree, snapshot[n], paths)

\* The stage returns a failure.  After the last attempt whatever has not been
\* rolled back yet is.
StageFails(n) ==
  /\ MayReturn(n)
  /\ LoseAttempt(n, written[n])
  /\ IF attempt[n] > MaxAttempts[n] /\ n \in Rollback \ rolledBack
     THEN /\ files' = Undo(n, files, written[n])
          /\ rolledBack' = rolledBack \cup {n}
     ELSE UNCHANGED <<files, rolledBack>>
  /\ UNCHANGED <<runVars, contextVars, source, artifacts, granted, approved, conflicts>>

\* The stage asks for input.
StageAsks(n) ==
  /\ MayReturn(n)
  /\ n \in Asking \ {VERIFY}
  /\ End(n, "input_required")
  /\ UNCHANGED <<runVars, contextVars, source, rolledBack, artifacts, worldVars>>

\* The dispatch raises, and the exception leaves _run_node.
StageRaises(n) ==
  /\ MayReturn(n)
  /\ n \in Raising \ {VERIFY}
  /\ End(n, "raised")
  /\ UNCHANGED <<runVars, contextVars, source, rolledBack, artifacts, worldVars>>

\* A plausible slip: a write is attributed only once its gate has passed.
ClaimNothing(n, names) == owner

\* _check_write_conflict records the writer of a name when it is written.
Claim(n, names) == [f \in Name |-> IF f \in names THEN n ELSE owner[f]]

\* _check_write_conflict: names last written by a node that is not related.
Clashes(n, names) ==
  {<<f, owner[f], n>> : f \in {g \in names :
     /\ owner[g] \notin {"nobody", n}
     /\ owner[g] \notin ancestors[n]
     /\ n \notin ancestors[owner[g]]}}

\* PolicyEngine.decide at the exit gate: the content rules and change control.
ExitAllowed(n, ok) == ok /\ (n \in plan.high => n \in approved)

\* How often n has been offered again: only the implementation writes anew.
Round(n) == IF n = IMPLEMENT THEN repairs ELSE 0

\* The tree once _persist has written a stage's files.
Persisted(n, names, ok) ==
  Write(files, {Canon[f] : f \in names}, [by |-> n, gen |-> Round(n), ok |-> ok])

\* The stage returns files, they are written and the exit gate accepts them.
StageCommits(n, names, ok) ==
  /\ MayReturn(n)
  /\ ExitAllowed(n, ok)
  /\ files' = Persisted(n, names, ok)
  /\ owner' = Claim(n, names)
  /\ conflicts' = conflicts \cup Clashes(n, names)
  /\ outputs' = outputs \cup {n}
  /\ seam' \in IF n = IMPACT THEN BOOLEAN ELSE {seam}
  /\ artifacts' = [artifacts EXCEPT ![n] = {Canon[f] : f \in names}]
  /\ End(n, "completed")
  /\ UNCHANGED <<runVars, sees, ancestors, source, rolledBack, granted, approved>>

\* The exit gate refuses them, and they are undone in the same step.
StageDenied(n, names, ok) ==
  LET paths == written[n] \cup {Canon[f] : f \in names}
      tree  == Persisted(n, names, ok)
  IN  /\ MayReturn(n)
      /\ ~ExitAllowed(n, ok)
      /\ owner' = Claim(n, names)
      /\ conflicts' = conflicts \cup Clashes(n, names)
      /\ IF n \in Rollback
         THEN files' = Undo(n, tree, paths) /\ rolledBack' = rolledBack \cup {n}
         ELSE files' = tree /\ UNCHANGED rolledBack
      /\ LoseAttempt(n, paths)
      /\ UNCHANGED <<runVars, outputs, seam, sees, ancestors, source, artifacts,
                     granted, approved>>

\* The stage names a path outside the workspace: _persist raises after the
\* files listed before it are written, and the exception leaves _run_node.
StageTears(n, names, ok) ==
  /\ MayReturn(n)
  /\ n \in UnsafeNames
  /\ files' = Persisted(n, names, ok)
  /\ owner' = Claim(n, names)
  /\ conflicts' = conflicts \cup Clashes(n, names)
  /\ End(n, "raised")
  /\ UNCHANGED <<runVars, outputs, seam, sees, ancestors, source, rolledBack, artifacts,
                 granted, approved>>

-----------------------------------------------------------------------------
(***************************************************************************)
(* Collecting a batch: the loop over the outcomes, _repair, _maybe_replan. *)
(***************************************************************************)

\* An exception that left a node counts as its failure.
ResultOf(n) == IF outcome[n] = "raised" THEN "failed" ELSE outcome[n]

\* _repair accepts the failure of n.
Repairable(n) ==
  /\ n = VERIFY
  /\ ResultOf(n) = "failed"
  /\ repairs < MaxRepairs
  /\ \/ results[IMPLEMENT] # "none"
     \/ IMPLEMENT \in batch /\ Rank[IMPLEMENT] < Rank[n]

\* A plausible slip: an exception is recorded and the loop goes on.
FatalUnlessRaised ==
  {n \in batch : outcome[n] \notin {"completed", "raised"} /\ ~Repairable(n)}

\* Outcomes that end the run.
Fatal == {n \in batch : outcome[n] # "completed" /\ ~Repairable(n)}

\* The first of them in plan order, where the loop is left.
FirstFatal(n) == n \in Fatal /\ \A m \in Fatal : Rank[n] <= Rank[m]

\* Outcomes the loop reaches.
Reached == {n \in batch : \A m \in Fatal : Rank[n] <= Rank[m]}

\* A plausible slip: the repair offers only the implementation again.
ReworkImplementation == IF VERIFY \in Reached /\ Repairable(VERIFY) THEN {IMPLEMENT} ELSE {}

\* A plausible slip: the repair starts over from the design.
ReworkFromDesign ==
  IF VERIFY \in Reached /\ Repairable(VERIFY) THEN {DESIGN, IMPLEMENT, VERIFY} ELSE {}

\* What _repair discards so that the scheduler offers it again.
Rework == IF VERIFY \in Reached /\ Repairable(VERIFY) THEN {IMPLEMENT, VERIFY} ELSE {}

\* RunResult.repairs after the batch.
RepairsAfter == IF Rework # {} THEN repairs + 1 ELSE repairs

\* The bookkeeping of the outcomes that are reached.
Collected ==
  /\ phase = "running"
  /\ \A n \in batch : pc[n] = "done"
  /\ completed' = (completed \cup {n \in Reached : outcome[n] = "completed"}) \ Rework
  /\ results' = [n \in Node |-> IF n \in Rework THEN "none"
                                ELSE IF n \in Reached THEN ResultOf(n)
                                ELSE results[n]]
  /\ repairs' = RepairsAfter
  /\ artifacts' = [n \in Node |-> IF n \in Rework THEN {} ELSE artifacts[n]]
  /\ batch' = {}
  /\ pc' = [n \in Node |-> "idle"]
  /\ UNCHANGED <<stop, outputs, seam, owner, attempt, outcome, source, snapshot, written,
                 rolledBack, worldVars>>

\* Some outcome ends the run with a safe stop.
CollectAndStop ==
  /\ Collected
  /\ \E n \in batch :
       /\ FirstFatal(n)
       /\ runState' = IF outcome[n] = "input_required" THEN "input_required" ELSE "failed"
  /\ phase' = "finished"
  /\ UNCHANGED <<plan, revisions, sees, ancestors>>

\* _maybe_replan: the planner has evidence and a revision left to use it on.
Replans ==
  /\ revisions < MaxPlanRevisions
  /\ IMPACT \in outputs
  /\ NeedsSeam(plan, seam)

\* The batch is absorbed.  A revision refreshes sees_implementation and leaves
\* context["ancestors"] as the first plan had it.
CollectAndContinue ==
  /\ Collected
  /\ Fatal = {}
  /\ phase' = "scheduling"
  /\ IF Replans
     THEN /\ plan' = Revise(plan)
          /\ revisions' = revisions + 1
          /\ sees' = SeesImplementation(Revise(plan))
     ELSE UNCHANGED <<plan, revisions, sees>>
  /\ UNCHANGED <<runState, ancestors>>

-----------------------------------------------------------------------------
NodeStep(n) ==
  \/ StartDeclined(n)
  \/ StartUnscripted(n)
  \/ StartRejected(n)
  \/ StartDispatch(n)
  \/ Retry(n)
  \/ StageFails(n)
  \/ StageAsks(n)
  \/ StageRaises(n)
  \/ \E names \in SUBSET Files[n], ok \in BOOLEAN :
       \/ StageCommits(n, names, ok)
       \/ StageDenied(n, names, ok)
       \/ StageTears(n, names, ok)

Progress ==
  \/ StopAtBoundary
  \/ Schedule
  \/ Complete
  \/ \E n \in Node : NodeStep(n)
  \/ CollectAndStop
  \/ CollectAndContinue

Next == RequestStop \/ Progress

Spec == Init /\ [][Next]_vars

\* The event loop runs whatever can run, and every dispatch returns.
FairSpec == Spec /\ WF_vars(Progress)

-----------------------------------------------------------------------------
(***************************************************************************)
(* Safety.                                                                 *)
(***************************************************************************)

\* A run that reports completion has completed every node of its final plan,
\* whatever was repaired or replanned on the way: no node is left behind
\* because of a stale entry in results (the loop of run(), _repair).
CompletedRunIsComplete ==
  runState = "completed" => completed = plan.nodes

\* A completed node's dependencies are completed under the current plan, and
\* its output is there for its dependents.  A repair takes nodes out and a
\* revision adds dependencies; neither may strand a node that stays.
CompletedIsClosed ==
  \A n \in completed : plan.deps[n] \subseteq completed /\ n \in outputs

\* When a run completes, every stage downstream of the implementation
\* (verification, review, release check) worked from exactly the tree that
\* is shipped: nothing was written after it was tested and reviewed.
ShippedIsVerified ==
  runState = "completed" =>
    \A n \in plan.nodes : IMPLEMENT \in Ancestors(plan, n) => source[n] = files

\* The code a stage is shown never holds a file of a node running beside it,
\* so its prompt does not depend on which of them finished first (_payload).
SourcePredatesBatch ==
  \A n \in batch : pc[n] \in {"dispatch", "backoff"} =>
    \A p \in Path : source[n][p].by \notin batch

\* Every file a stage left in the workspace comes from output that an exit
\* gate accepted: refused output is put back, however often it is retried.
NothingHalfApplied ==
  \A p \in Path : files[p].by \in Node => files[p].ok /\ files[p].by \in outputs

\* Where a stage's write is torn (a file name outside the workspace raises
\* halfway through), the run at least never reports completion over it.
CompletedRunIsClean == runState = "completed" => NothingHalfApplied

\* A human signed off every round of a high-impact node that wrote a file:
\* a repaired implementation needs a sign-off of its own.
EveryRoundSignedOff ==
  \A p \in Path : files[p].by \in plan.high => granted[files[p].by] > files[p].gen

\* What an accepted result wrote stays in the workspace, or is replaced by
\* other accepted output: no rollback takes it away (restore_paths).
CommittedWorkSurvives ==
  \A n \in Node : \A p \in artifacts[n] : files[p].by \in outputs

\* Whenever the file an accepted result wrote is no longer its own, the node
\* that wrote it since is ordered with it by the plan, or the audit log holds
\* a concurrent_write finding for the file (_check_write_conflict).
LossIsAudited ==
  \A n \in Node : \A p \in artifacts[n] :
    \/ files[p].by = n
    \/ files[p].by \in Node /\ Related(plan, files[p].by, n)
    \/ \E c \in conflicts : Canon[c[1]] = p

\* When the survey finds no extension point and the planner may still revise,
\* nothing is implemented before the seam is there (revise_from_evidence).
SeamBeforeImplementation ==
  seam /\ MaxPlanRevisions > 0 /\ IMPLEMENT \in outputs => REFACTOR \in outputs

(***************************************************************************)
(* The promise.                                                            *)
(***************************************************************************)

Promise == INSTANCE RunLifecycle WITH state <- runState, Work <- IMPLEMENT, Check <- VERIFY

\* The executor keeps what RunLifecycle promises a run's caller: a verdict that
\* is given once and for the whole of the final plan, accepted stages that only
\* a bounded repair takes back, and revisions that touch none of them (run,
\* _repair, _maybe_replan).
KeepsPromise == Promise!Spec

(***************************************************************************)
(* Liveness.                                                               *)
(***************************************************************************)

\* Every run ends: retries, repairs and revisions are bounded and no node
\* waits for one that can never be offered.
Termination == <>(phase = "finished")
=============================================================================
