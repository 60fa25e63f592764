------------------------------ MODULE RunRecord ------------------------------
(***************************************************************************)
(* What a run tells its readers: the lineage store                         *)
(* (keel/governance/lineage.py), the metrics                               *)
(* (keel/governance/metrics.py) and the live view (keel/ui/live.py), fed   *)
(* by batches of nodes, refusals, retries, exceptions, repairs and a       *)
(* revision of the plan, in the order the executor makes them happen.      *)
(*                                                                         *)
(* A node's output is recorded twice: what it produces, its files or all   *)
(* of its JSON, under names that the stage chooses, and what a consumer is *)
(* shown of it, the JSON up to a length, as "<node>.json".  Other files    *)
(* may look alike in what is shown, other notes may come with the same     *)
(* files.                                                                  *)
(* An event happens at its place in the log, and every dispatch costs one  *)
(* unit of money.                                                          *)
(***************************************************************************)
EXTENDS Planner, LiveView, Sequences, SequencesExt, FiniteSets, FiniteSetsExt

CONSTANTS
  Plans,       \* the plans a run may be given
  Content,     \* outputs, as the stages return them
  Outputs,     \* those that a node may return
  ArtifactOf,  \* the hash of what is produced of an output
  TextOf,      \* the hash of what is shown of it (_as_text)
  SelfNamed,   \* nodes whose artifact is called "<node>.json" as well
  MaxRetries,  \* bound: retries of each node in one round
  MaxRepairs   \* Executor.max_repairs

Node == StageIds

\* What every plan of the planner has in common: the graph accepts it, only
\* verification reads the implementation, whose design rests on the survey,
\* and verification needs no sign-off.
Wired(p) ==
  /\ p \in PlanOver(Node) /\ ValidPlan(p)
  /\ {DESIGN, IMPLEMENT, VERIFY} \subseteq p.nodes
  /\ DESIGN \in p.deps[IMPLEMENT]
  /\ IMPACT \in p.nodes => IMPACT \in p.deps[DESIGN]
  /\ {n \in Node : IMPLEMENT \in p.deps[n]} = {VERIFY}
  /\ VERIFY \notin p.high

ASSUME RecordAssumption ==
  /\ MaxRetries \in [Node -> Nat] /\ MaxRepairs \in Nat
  /\ "none" \notin Content /\ DOMAIN ArtifactOf = Content /\ DOMAIN TextOf = Content
  /\ Outputs \in [Node -> SUBSET Content]
  /\ SelfNamed \subseteq Node \ {IMPLEMENT}
  /\ \A p \in Plans : Wired(p) /\ REFACTOR \notin p.nodes

VARIABLES
  state,    \* of the run: "working", then how it ended
  plan,     \* the current plan
  running,  \* nodes of the batch that have started and not returned
  ended,    \* what the others returned, not collected yet: a NodeResult by node
  tries,    \* the attempts of each running node; 0 while it awaits a sign-off
  results,  \* RunResult.results: a NodeResult by node
  output,   \* context["outputs"]
  repairs,
  spent,    \* dispatches made, by all rounds: the bill
  made,     \* auxiliary: the outputs each node completed with, oldest first
  files,    \* LineageStore._history: revisions under the names a node chose
  tables,   \* LineageStore._history: revisions of "<node>.json"
  edges,    \* LineageStore._edges, those of one start together, by the outputs
            \* whose texts they name
  events,   \* the audit log's
  board     \* the live view

vars == <<state, plan, running, ended, tries, results, output, repairs, spent, made, files,
          tables, edges, events, board>>

-----------------------------------------------------------------------------
(***************************************************************************)
(* The lineage store.                                                      *)
(***************************************************************************)

\* A plausible slip: every rerun is a revision.
ProducedAlways(revisions, hash) == Append(revisions, hash)

\* record_production: the latest revision again is none.
Produced(revisions, hash) ==
  IF revisions # <<>> /\ Last(revisions) = hash THEN revisions ELSE Append(revisions, hash)

\* record_consumption registers what it has never seen.
Registered(revisions, hash) ==
  IF hash \in Range(revisions) THEN revisions ELSE Produced(revisions, hash)

\* _inputs_for: the output of each dependency that has one.
Inputs(n) == [d \in {e \in plan.deps[n] : output[e] # "none"} |-> output[d]]

\* What a consumer is shown of a node's output.
Shown(d) == TextOf[output[d]]

Starts(n) == {i \in DOMAIN edges : edges[i].to = n}

Sources(n) == UNION {DOMAIN edges[i].read : i \in Starts(n)}

\* A plausible slip: only the node's own inputs are named.
ExplainInputs(n) == Sources(n)

\* explain, from the producer of the latest revision: _explain_node follows
\* every path that repeats no node, and so names whatever is upstream.
Explain(n) ==
  LET sources == [m \in Node |-> Sources(m)]
      up[k \in 0 .. Cardinality(Node)] ==
        IF k = 0 THEN sources[n]
        ELSE LET below == up[k - 1] IN below \cup UNION {sources[m] : m \in below}
  IN  up[Cardinality(Node)]

-----------------------------------------------------------------------------
(***************************************************************************)
(* The metrics.                                                            *)
(***************************************************************************)

IsFailureMarker(e) ==
  e.type = "retry" \/ (e.type = "node_finished" /\ e.state \in {"failed", "rejected"})

IsSuccessMarker(e) == e.type = "node_finished" /\ e.state = "completed"

\* A plausible slip: the clock starts at the last failure.
PendingLatest(pending, n, i) == {p \in pending : p.node # n} \cup {[node |-> n, at |-> i]}

\* The first failure of a node starts its clock.
Pending(pending, n, i) ==
  IF \E p \in pending : p.node = n THEN pending ELSE pending \cup {[node |-> n, at |-> i]}

\* One turn of the walk over the log, at its i-th event.
Walk(acc, i, e) ==
  IF e.node = "none" THEN acc
  ELSE IF IsFailureMarker(e) THEN [acc EXCEPT !.pending = Pending(@, e.node, i)]
  ELSE IF IsSuccessMarker(e) THEN
    [pending   |-> {p \in acc.pending : p.node # e.node},
     intervals |-> acc.intervals \cup
       {[node |-> e.node, from |-> p.at, to |-> i] : p \in {q \in acc.pending : q.node = e.node}}]
  ELSE acc

\* The walk after each number of events.
Walked(log) ==
  LET w[i \in 0 .. Len(log)] ==
        IF i = 0 THEN [pending |-> {}, intervals |-> {}] ELSE Walk(w[i - 1], i, log[i])
  IN  w

RecoveryIntervals(log) == Walked(log)[Len(log)].intervals

Count(type) == Cardinality({i \in DOMAIN events : events[i].type = type})

Done(states) == {n \in Node : results[n].state \in states}

\* A quantity of the nodes, added up: one unit for each unit of each node.
Units(of) == UNION {{n} \X (1 .. of[n]) : n \in Node}

Total(of) == Cardinality(Units(of))

\* The larger of what the results and the log say.
Retries == Max({Total([n \in Node |-> results[n].attempts - 1]), Count("retry")})

Cost == Total([n \in Node |-> results[n].cost])

-----------------------------------------------------------------------------
(***************************************************************************)
(* The run.                                                                *)
(***************************************************************************)

\* A NodeResult of this state, with what else it knows at its defaults.
Bare(s) == [state |-> s, attempts |-> 1, cost |-> 0]

NoResult == Bare("none")

Event(type, n, s) == [type |-> type, node |-> n, state |-> s]

\* emit, for one event or several in turn.
Log(new) == events' = events \o new

Init ==
  /\ state = "working"
  /\ plan \in Plans
  /\ running = {}
  /\ ended = [n \in Node |-> NoResult]
  /\ tries = [n \in Node |-> 0]
  /\ results = [n \in Node |-> NoResult]
  /\ output = [n \in Node |-> "none"]
  /\ repairs = 0
  /\ spent = 0
  /\ made = [n \in Node |-> <<>>]
  /\ files = [n \in Node |-> <<>>]
  /\ tables = [n \in Node |-> <<>>]
  /\ edges = <<>>
  /\ events = <<Event("run_started", "none", "none")>>
  /\ board = SetPlan(NewBoard, plan)

\* A plausible slip: an output is as good as a result.
OfferedOnOutputs ==
  {n \in plan.nodes : results[n].state = "none" /\ \A d \in plan.deps[n] : output[d] # "none"}

\* What the graph has ready and has no result: the batch, while it is out.
Offered == {n \in Ready(plan, Done({"completed"})) : results[n].state = "none"}

Ended == {n \in Node : ended[n].state # "none"}

\* Nodes of the batch that have not started.
Waiting == Offered \ (running \cup Ended)

\* gather starts the nodes of a batch in plan order.
IsNext(n) ==
  /\ state = "working"
  /\ n \in Waiting
  /\ \A m \in Waiting : StageRank[n] <= StageRank[m]

Awaits(n) == n \in running /\ tries[n] = 0

AtWork(n) == n \in running /\ tries[n] > 0

\* The node records what it is shown and is dispatched.
FirstAttempt(n) ==
  /\ edges' = Append(edges, [to |-> n, read |-> Inputs(n)])
  /\ tables' = [d \in Node |-> IF d \in DOMAIN Inputs(n) THEN Registered(tables[d], Shown(d))
                               ELSE tables[d]]
  /\ tries' = [tries EXCEPT ![n] = 1]
  /\ spent' = spent + 1

Start(n) ==
  /\ IsNext(n) /\ n \notin plan.high
  /\ running' = running \cup {n}
  /\ FirstAttempt(n)
  /\ Log(<<Event("node_started", n, "none")>>)
  /\ board' = OnNodeStart(board, n)
  /\ UNCHANGED <<state, plan, ended, results, output, repairs, made, files>>

\* What needs a sign-off waits for it, and the others go on.
Ask(n) ==
  /\ IsNext(n) /\ n \in plan.high
  /\ running' = running \cup {n}
  /\ tries' = [tries EXCEPT ![n] = 0]
  /\ Log(<<Event("node_started", n, "none"), Event("approval_requested", n, "none")>>)
  /\ board' = OnApprovalRequest(OnNodeStart(board, n), n)
  /\ UNCHANGED <<state, plan, ended, results, output, repairs, spent, made, files, tables, edges>>

Approve(n) ==
  /\ Awaits(n)
  /\ FirstAttempt(n)
  /\ UNCHANGED <<state, plan, running, ended, results, output, repairs, made, files, events,
                 board>>

MayRetry(n) == tries[n] <= MaxRetries[n]

\* A failed or refused attempt is followed by another, within the budget.
Retry(n) ==
  /\ AtWork(n)
  /\ MayRetry(n)
  /\ tries' = [tries EXCEPT ![n] = @ + 1]
  /\ spent' = spent + 1
  /\ Log(<<Event("retry", n, "none")>>)
  /\ board' = OnRetry(board, n)
  /\ UNCHANGED <<state, plan, running, ended, results, output, repairs, made, files, tables, edges>>

\* _finish: the node returns its result.
Returns(n, result) ==
  /\ running' = running \ {n}
  /\ ended' = [ended EXCEPT ![n] = result]
  /\ Log(<<Event("node_finished", n, result.state)>>)
  /\ board' = OnNodeEnd(board, n, result)

Result(n, s) == [state |-> s, attempts |-> tries[n], cost |-> tries[n]]

Decline(n) ==
  /\ Awaits(n)
  /\ Returns(n, Bare("rejected"))
  /\ UNCHANGED <<state, plan, tries, results, output, repairs, spent, made, files, tables, edges>>

\* What a node produces has the stage's names, and one of them may be that
\* under which its consumers are shown it.
Records(n, artifact) ==
  IF n \in SelfNamed
  THEN tables' = [tables EXCEPT ![n] = Produced(@, artifact)] /\ UNCHANGED files
  ELSE files' = [files EXCEPT ![n] = Produced(@, artifact)] /\ UNCHANGED tables

Complete(n, c) ==
  /\ AtWork(n)
  /\ c \in Outputs[n]
  /\ Returns(n, Result(n, "completed"))
  /\ output' = [output EXCEPT ![n] = c]
  /\ made' = [made EXCEPT ![n] = Append(@, c)]
  /\ Records(n, ArtifactOf[c])
  /\ UNCHANGED <<state, plan, tries, results, repairs, spent, edges>>

\* The last attempt has failed, or the stage asks for a human.
EndWithout(n, s) ==
  /\ AtWork(n)
  /\ s = "input_required" \/ ~MayRetry(n)
  /\ Returns(n, Result(n, s))
  /\ UNCHANGED <<state, plan, tries, results, output, repairs, spent, made, files, tables, edges>>

\* A node that raises tells nobody, and its result knows of no cost.
Raise(n) ==
  /\ n \in running
  /\ running' = running \ {n}
  /\ ended' = [ended EXCEPT ![n] = Bare("failed")]
  /\ UNCHANGED <<state, plan, tries, results, output, repairs, spent, made, files, tables, edges,
                 events, board>>

-----------------------------------------------------------------------------
(***************************************************************************)
(* Collecting a batch: results are read in plan order, up to the first one *)
(* that stops the run.                                                     *)
(***************************************************************************)

Repairable(n) ==
  /\ n = VERIFY /\ ended[n].state = "failed"
  /\ repairs < MaxRepairs
  /\ results[IMPLEMENT].state # "none"

Fatal == {n \in Ended : ended[n].state # "completed" /\ ~Repairable(n)}

Reached == {n \in Ended : \A m \in Fatal : StageRank[n] <= StageRank[m]}

Collected == [n \in Node |-> IF n \in Reached THEN ended[n] ELSE results[n]]

BatchIsBack ==
  /\ state = "working"
  /\ running = {} /\ Waiting = {} /\ Ended # {}
  /\ ended' = [n \in Node |-> NoResult]

CollectAndStop ==
  /\ BatchIsBack
  /\ Fatal # {}
  /\ results' = Collected
  /\ state' = IF \E n \in Fatal \cap Reached : ended[n].state = "input_required"
              THEN "input_required" ELSE "failed"
  /\ Log(<<Event("safe_stop", "none", "none"), Event("run_finished", "none", state')>>)
  /\ UNCHANGED <<plan, running, tries, output, repairs, spent, made, files, tables, edges, board>>

\* What a repair discards; outputs stay where they are.
Discarded == {IMPLEMENT, VERIFY}

CollectAndRepair ==
  /\ BatchIsBack
  /\ Fatal = {}
  /\ VERIFY \in Ended /\ Repairable(VERIFY)
  /\ repairs' = repairs + 1
  /\ results' = [n \in Node |-> IF n \in Discarded THEN NoResult ELSE Collected[n]]
  /\ Log(<<Event("repair_started", VERIFY, "none")>>)
  /\ UNCHANGED <<state, plan, running, tries, output, spent, made, files, tables, edges, board>>

\* All is well, and the survey's findings may call for another plan.
CollectAndContinue(seam) ==
  /\ BatchIsBack
  /\ \A n \in Ended : ended[n].state = "completed"
  /\ seam => IMPACT \in Ended /\ NeedsSeam(plan, seam)
  /\ results' = Collected
  /\ IF seam
     THEN /\ plan' = Revise(plan)
          /\ board' = SetPlan(board, plan')
          /\ Log(<<Event("plan_revised", "none", "none")>>)
     ELSE UNCHANGED <<plan, board, events>>
  /\ UNCHANGED <<state, running, tries, output, repairs, spent, made, files, tables, edges>>

BetweenBatches == state = "working" /\ running = {} /\ Ended = {}

\* Nothing is left to run.
Finish ==
  /\ BetweenBatches
  /\ Offered = {}
  /\ state' = "completed"
  /\ Log(<<Event("run_finished", "none", state')>>)
  /\ UNCHANGED <<plan, running, ended, tries, results, output, repairs, spent, made, files, tables,
                 edges, board>>

\* request_stop, seen between two batches.
Stop ==
  /\ BetweenBatches
  /\ state' = "failed"
  /\ Log(<<Event("safe_stop", "none", "none"), Event("run_finished", "none", state')>>)
  /\ UNCHANGED <<plan, running, ended, tries, results, output, repairs, spent, made, files, tables,
                 edges, board>>

Next ==
  \/ \E n \in Node :
       \/ Start(n) \/ Ask(n) \/ Approve(n) \/ Decline(n) \/ Retry(n) \/ Raise(n)
       \/ \E c \in Content : Complete(n, c)
       \/ \E s \in {"failed", "input_required"} : EndWithout(n, s)
  \/ CollectAndStop \/ CollectAndRepair \/ Finish \/ Stop
  \/ \E seam \in BOOLEAN : CollectAndContinue(seam)

Spec == Init /\ [][Next]_vars

-----------------------------------------------------------------------------
(***************************************************************************)
(* Properties.                                                             *)
(***************************************************************************)

\* The plans a run may come to, and what each node of them rests on.
Adopted == Plans \cup {Revise(p) : p \in Plans}

Upstream == [p \in Adopted |-> [n \in p.nodes |-> Ancestors(p, n)]]

\* What explain says of a delivered file names every node that had a part in
\* it, back to the roots of the run, across retries and repairs
\* (record_consumption on every start, _explain_node).
ProvenanceIsWhole == \A n \in Done({"completed"}) : Explain(n) = Upstream[plan][n]

\* No result that stands rests on a superseded input: what a completed node
\* depends on stands too, and its result is the revision the node was last
\* shown, although a repair leaves the discarded output in place (_repair,
\* ready, _inputs_for).
InputsAreCurrent ==
  \A n \in Done({"completed"}) : \A d \in plan.deps[n] :
    /\ d \in Done({"completed"})
    /\ \E i \in Starts(n) :
         /\ d \in DOMAIN edges[i].read /\ edges[i].read[d] = output[d]
         /\ \A j \in Starts(n) : j <= i

\* The texts of what a node made before it first made this text.
Before(n, text) ==
  {TextOf[made[n][i]] :
     i \in {j \in DOMAIN made[n] : \A k \in 1 .. j : TextOf[made[n][k]] # text}}

\* A rerun that changes nothing is no revision, whatever repairs come between.
\* The history of "<node>.json" is what consumers were shown: the texts of what
\* the node made, in that order, each once and none skipped, for only an
\* implementation that verification was shown is ever replaced.  A cut text
\* enters it as a revision that nobody produced; where the artifact has the
\* same name it follows that artifact, and nothing else does
\* (record_production, record_consumption, _inputs_for, _as_text).
HistoryIsHonest ==
  \A n \in Node :
    LET told == tables[n] IN
    /\ \A i \in DOMAIN files[n] \ {1} : files[n][i] # files[n][i - 1]
    /\ \A i \in DOMAIN told \ {1} : told[i] # told[i - 1]
    /\ IF n \in SelfNamed
       THEN told # <<>> => /\ output[n] # "none"
                           /\ told[1] = ArtifactOf[output[n]]
                           /\ \A i \in DOMAIN told \ {1} : i = 2 /\ told[i] = TextOf[output[n]]
       ELSE \A i \in DOMAIN told :
              /\ told[i] \in {TextOf[made[n][k]] : k \in DOMAIN made[n]}
              /\ Before(n, told[i]) = {told[j] : j \in 1 .. (i - 1)}

Failures(log, n) == {i \in DOMAIN log : log[i].node = n /\ IsFailureMarker(log[i])}

Successes(log, n) == {i \in DOMAIN log : log[i].node = n /\ IsSuccessMarker(log[i])}

\* From the first failure after the node's previous success to its next one.
Outages(log, n) ==
  {o \in Failures(log, n) \X Successes(log, n) :
     /\ o[1] < o[2]
     /\ \A k \in Successes(log, n) : k < o[1] \/ k >= o[2]
     /\ \A k \in Failures(log, n) :
          k < o[1] => \E l \in Successes(log, n) : k < l /\ l < o[1]}

\* A recovery interval runs from the first failure after a node's previous
\* success to the success that ended it: the whole outage, once, and never an
\* outage that did not end (recovery_intervals).
RecoveryIsWhole ==
  RecoveryIntervals(events) =
    UNION {{[node |-> n, from |-> o[1], to |-> o[2]] : o \in Outages(events, n)} : n \in Node}

\* Nobody raised: all that started and is not running said that it finished.
NobodyRaised == Count("node_started") = Count("node_finished") + Cardinality(running)

\* The accounts agree.  The retries of a round that a repair discarded, or
\* before an exception, are in the report and on the board; the board's cost is
\* the bill, whatever was repaired, refused or stopped, unless a node raised;
\* and the report of a completed run has the same cost unless a repair
\* discarded a round (on_retry, on_node_end, from_results).
AccountsAgree ==
  /\ Retries = Count("retry") /\ board.retries = Count("retry")
  /\ running = {} /\ NobodyRaised => board.cost = spent
  /\ state = "completed" /\ repairs = 0 => Cost = board.cost

\* Where the log says that a node started or finished.
Told(n) ==
  {i \in DOMAIN events : events[i].node = n /\ events[i].type \in {"node_started", "node_finished"}}

\* The board is honest: a node at work is never shown as done, one that waits
\* for a human is shown as that, a node that has told how it ended is shown as
\* that until it starts again, whatever plan is adopted meanwhile, and a
\* completed run is shown as complete (the hooks, set_plan).
BoardIsHonest ==
  /\ \A n \in plan.nodes :
       /\ Awaits(n) => board.rows[n] = "input_required"
       /\ AtWork(n) => board.rows[n] \in {"working", "input_required"}
       /\ Told(n) = {} => board.rows[n] = "submitted"
       /\ \A i \in Told(n) :
            (\A j \in Told(n) : j <= i) /\ events[i].type = "node_finished"
               => board.rows[n] = events[i].state
  /\ state = "completed" => CountCompleted(board) = plan.nodes
=============================================================================
