# Keel in TLA+

Keel turns an English requirement into reviewed code. An intake stage decides
whether the requirement can be planned, a planner makes a dependency graph of
stages, an executor runs the stages concurrently through gates, approvals,
retries, rollbacks, repairs and plan revisions, and an append-only log records
everything, including the model answers a later run replays. This directory
models that system, checks it with TLC on small instances and proves the most
important results with TLAPS for every instance.

Paths are relative to the repository's `src/` directory as the project sees it
(`src/keel/...`, `src/tests/...` is cited as `tests/...`).

## The system

| component | state it keeps | operations | what makes it hard | what makes it correct |
|---|---|---|---|---|
| **executor** `keel/executor.py` | completed set, results, context (outputs, who sees generated code, ancestors, path owners), budgets | `run`, `_run_node`, `_persist`, `_rollback`, `_approve`, `_repair`, `_maybe_replan`, `request_stop` | coroutines of one batch interleave at every dispatch and backoff; a node can be refused, fail, ask or raise; repair and revision change the plan's progress under way | completion means every node is done; nothing refused stays on disk; nobody's accepted work is lost; what ships is what was tested |
| **planner** `keel/planner.py` | none | `build`, `revise`, `revise_from_evidence` | a revision inserts a node into a graph that is partly executed | the seam precedes the implementation |
| **plan graph** `keel/graph.py` | the validated plan | construction with its cycle search, `ready`, `ancestors`, `descendants`, `levels`, `critical_path`, `mark_stale`, `subgraph` | iterative walks that keep colours, a path and a stack in step | a plan is accepted exactly when it is acyclic; a reported cycle is one; levels are barriers |
| **workspace** `keel/workspace.py` | files under one root | `write`, `snapshot`, `restore`, `restore_paths`, `run` | several writers, one rollback | a rollback puts back exactly the node's own paths |
| **policy engine** `keel/governance/policy.py` | six rules, approved nodes | `evaluate`, `decide`, `record_approval` | a rule that raises; evidence in one file for danger in another; approvals outlive the round they were given for | gates fail closed and cannot be opened by producing more |
| **approval brokers** `keel/governance/approvals.py` | ledger of decisions | `request` | empty, unknown and missing answers; a script that does not know a node | nothing but an explicit yes is consent |
| **stage dispatch** `keel/dispatch.py` | none | `dispatch` | recording, parsing and counting a reply can part; exceptions are not outcomes | what is counted is recorded |
| **audit log** `keel/governance/audit.py` | the file, in-memory events, `_seq`, `_last_at` | `emit`, opening an existing file, `verify_integrity`, `cassettes` | a write cut at any byte, by a crash or an error; clocks stepping back; reopening | what was acknowledged can be read, or the check says so |
| **replay adapter** `keel/adapters/replay.py` | recordings, consumed marks, drift list | `load_cassettes`, `invoke` | exact and by-node answers share one tape | no answer to another prompt is unannounced, and the fallback serves a recording at most once and in order |
| **claude adapter** `keel/adapters/claude.py`, `base.py` | none per call | `invoke` with bounded backoff, `extract_json` | the last attempt; braces inside strings | retry only what can be retried; find the answer |
| **intake, command line** `keel/intake.py`, `keel/cli.py` | problem, answers, run directories | `analyze`, `_run`, `_latest_workspace` | park, resume, failed intake; overlapping and dying invocations | no code while a question is open; seeds are final |
| **lineage** `keel/governance/lineage.py` | revisions, edges | `record_production`, `record_consumption`, `explain` | retries and repairs produce and discard revisions | a stage's inputs are the current ones, and its provenance is complete |
| **metrics** `keel/governance/metrics.py` | none | `from_results`, `recovery_intervals` | results that a repair discarded; pairing failures with recoveries by event order | each outage counts once, from its first failure |
| **live view** `keel/ui/live.py` | a row per node, totals | `set_plan` and the `on_...` hooks | a plan that changes under running nodes | the board says what is so |
| **A2A** `keel/a2a/*.py` | task states, one client per stage, the event stream | `invoke`, `cancel`, `execute`, `serve`, `stop` | cancels during a handler; shared clients; servers that come late, break and stop | tasks follow the A2A lifecycle; every call is answered |
| stage definitions, cards, report | static data or rendering | | | not modelled, but for the skills of the cards |

How they meet: the command line runs intake and, if it is not parked, hands a
plan to the executor. The executor calls the dispatcher (which calls an
adapter, and reports each model call to the audit log), the policy engine, a
broker, the workspace and the planner, all on one asyncio event loop. Nothing
is shared between processes but the run directory: the audit file, which a later
process may reopen or replay, and the workspace, from which a brownfield run is
seeded.

## Modules

`PlanGraph` (plans and readiness) → `Planner` (the plans and their revision) →
`Executor`, which also extends `Workspace` and composes all four with the gates
and the brokers. `RunRecord` composes `Planner` with `LiveView` and what the
executor reports of a run: events, lineage and metrics. `GraphBuild` extends
`PlanGraph` with the algorithms behind its definitions. Two modules are
abstract: `Executor` implements `RunLifecycle` and `A2A` implements
`TaskLifecycle`. `Gate`, `ModelCall`, `Pipeline`, `AuditLog` and `Replay` stand
alone. Each has an `MC...` module and configuration that instantiate it
(`GraphBuild` needs only a configuration), and `ExecutorProofs`,
`AuditLogProofs`, `GraphBuildProofs`, `GateProofs`, `A2AProofs`,
`PipelineProofs`, `AdapterProofs` (for `ModelCall` and `Replay`) and
`RunRecordProofs` hold the theorems. A definition introduced by "A plausible
slip" is a faulty variant of the one that follows it; it is not part of a
specification and shows that a property would notice the fault.

### PlanGraph, Planner, Workspace

Pure operators. A plan is a record of node ids, dependencies, high-impact nodes
and version; `Ready`, `Ancestors` and `Acyclic` are the definitions of what
`graph.py` computes; a node's ancestors are the least set that holds its
dependencies and theirs. `Build` and `Revise` are the planner. A tree of the
workspace maps each path to who wrote it, in which repair round, and whether the
content rules accept it; `Write`, `Restore` and `RestorePaths` are its operations.

### Executor

`run()` is the phases `scheduling`, `running`, `finished`; a node is a coroutine
with a program counter. A coroutine gives the event loop away only at a dispatch
and at a backoff, so what lies between is one action: `StageCommits`, `StageDenied`,
`StageTears` each include writing the files, the overlap check, the exit gate and
the rollback. Tasks start in plan order (`MayStart`), and verification blocks the
loop while its test suite runs (`LoopIsFree`). `Collected` is the loop over the
results of `gather`, in plan order up to the first fatal one, with `_repair`
(`Rework`) and `_maybe_replan` (`Replans`, which leaves `context["ancestors"]` as
it was). `Source`, what `_existing_code` shows a stage, is the whole tree; the code
shows the first 40 files and leaves out those it cannot read
(`executor.py:484-488`), so in a larger workspace a stage sees less than the model
gives it, and `ShippedIsVerified` is about the tree, not the excerpt. What the gates and brokers may
answer is given by constants; `Gate` has the rules themselves.

### RunLifecycle

What `run` promises its caller, with a round of stages as one step: the work of
any of the ready stages is accepted (`Absorb`), a bounded repair takes back the
implementation and its verification when the latter was among those that were
not, a revision (`ReviseThePlan`) only adds to the plan and leaves what accepted
stages depended on alone, and the verdict is given once, as completed only for
the whole plan. Coroutines, gates, approvals and files are steps it does not
see. The mapping takes `runState`, `plan`, `completed`, `repairs` and `revisions`
as they are.

### AuditLog

The file is a sequence of physical lines. An append may be cut (`Cuts`) to
nothing, whole characters of an incomplete object, bytes that end inside a
character, all but the line feed, or all of it, by an error (`EmitRaises`) or by a
crash (`CrashInEmit`); what follows an unended line is joined to it. `Open` is a
process reopening the log, `Problems` is `verify_integrity`. A payload is "plain"
or holds a character at which `splitlines` breaks.

### Replay

A tape of recorded calls, the dictionary `load_cassettes` makes of it (a repeated
key keeps its place and takes the later entry), and requests answered by key, by
node or not at all.

### GraphBuild

The constructor and the queries of `PlanGraph` as the loops they are: one step
per dependency the depth-first search inspects (`StartWalk`, `Inspect`,
`Backtrack`), one per frontier of Kahn's algorithm (`NextLevel`, `LastLevel`),
one per node the critical path measures, one per node `_reach` adds. The order
in which a node's dependencies are listed is free, so every order is covered.
The reference definitions are `Acyclic`, `Ancestors` and `Related` of `PlanGraph`.

### Gate

An artifact is its kind (code, test, text) and the facts the rules' regular
expressions establish about it; the six rules are what they do with the facts,
`Evaluate` is the engine with rules that raise, `Ask` the brokers and `Judge` a
decision at the entry or exit gate.

### ModelCall

A node's attempts around `LocalDispatcher.dispatch` around the adapter's retry
loop, with a separate step for each sleep so that time can be counted, and
`extract_json` over an alphabet of the characters the scanner tells apart
(braces, quote, backslash, fence, anything else). The scanner's `mode` is
`in_string` and `escaped` together: text, string, or after a backslash. What
`json.loads` accepts is external; `ObjectAssumption` says of it only what JSON's
grammar does, that an object stands in its braces and is made of strings, objects
and text without braces, quotes and fences. TLC evaluates it for the objects of
the run.

### A2A and TaskLifecycle

`TaskLifecycle` is what the A2A protocol promises of a task: submitted, worked
on, settled, final once terminal, with a cancel while it is not. `A2A` is the
client (connecting, sending, reading the stream event by event), the server
(`EnqueueTask`, `StartWork`, `HandlerReturns`, one `AddArtifact` each,
`FinishTask`), and the in-process transport, which shares the variables. The
queue and task store of the SDK are external, in `Publish`. The refinement maps
a task to its state over HTTP and to "none" in process.

### RunRecord and LiveView

The executor's loop again, as its bookkeepers see it: batches, collection in
plan order up to the first fatal result, declined approvals, questions,
exceptions, retries, repairs, one revision and a stop, with the audit events it
emits, the lineage it records and the hooks it calls on the board. The nodes of
a batch start one at a time in plan order, because each runs up to its first
await before the next one gets the loop; one that needs a sign-off waits for it
while the others go on. The gates of `Executor` let every node in here. `LiveView`
is the board as pure operators, one per hook. The cost of every attempt is one.
`Explain` and `RecoveryIntervals` are checked against definitions over the history
(`Upstream`, the `Ancestors` of every node in every plan a run may adopt, and the events).

The lineage store sees two faces of an output. What is produced is its files, or
all of its JSON under `<skill>.json` (`dispatch.py:77-104`); `ArtifactOf` is the hash
of that, all files taken together, and `files` the history under those names. What
a consumer is shown is the JSON cut at 12000 characters, under `<node>.json`
(`executor.py:498-502`, `executor.py:770`); `TextOf` is the hash of that and `tables` the
history under that name. The two functions are arbitrary: outputs may differ in
either face alone. `SelfNamed` are the nodes whose skill has their own name and
that return no files (design, review, and documentation when it writes none): for
them both faces enter `tables`. The implementation is not among them; one that
completes without any file, which its schema does not forbid, is outside the
model. Edges are written down with the output whose text they name. `made` is
auxiliary: the outputs a node completed with, against which `HistoryIsHonest`
reads the histories.

### Pipeline

Invocations of `keel run` that overlap: choosing a run id, seeding from
`_latest_workspace`, intake with its failures, threshold and answers, parking,
writing, the summary, and death at any point. A workspace is the set of
invocations whose code is in it. Run ids may be reused; the two seeding
properties speak of fresh ones.

## Runs

| run | instance | what it shows |
|---|---|---|
| `core` | the planner's greenfield plans (with and without documentation) and its brownfield plan with its revision, a file per writing stage, 1 retry, 2 repairs, a refusing entry gate, an asking stage, a raising one, a stop at any time; 276,118 states | the refinement of `RunLifecycle`, completed work is closed, what ships was tested and reviewed, nothing refused stays, every round is signed off, accepted work survives, the seam comes first |
| `faults` | brownfield, a file shared by implementation and documentation, names outside the workspace, a broker without an answer, 1 repair, fairness; 75,267 states | no run completes over a torn write, losses are audited, every run ends |
| `audit` | 4 emits, 2 crashes, every cut, a clock that steps back, both payloads; 168,146 states | an untorn log passes its check, readable events are numbered upwards, no loss is silent |
| `replay` | 2 nodes, 3 prompts of 2 skills, 3 recordings, 3 requests; 490,100 states | drift is reported, fallbacks are served once and in order |
| `gate` | 3 nodes, files with up to 3 of 10 facts, one rule that may raise, all brokers, 2 questions; 416,842 states | consent is explicit, a blank file opens no gate, splitting an accepted file closes none |
| `a2a` | 2 calls, both transports, 4 handler results, fairness; 132,432 states | the refinement of `TaskLifecycle`, whole outcomes, known task ids, no leak without a race, every call ends |
| `modelcall` | 2 attempts of 3 requests each, objects nested twice, 6 strings, prose and fences around them; 63,827 states | retries are spent before giving up, requests are bounded and each counted reply is recorded, the object in a reply is found |
| `record` | brownfield with its revision, 3 implementations of which 2 are alike as they are shown (symmetric), a design that is cut, 1 retry of the implementation, 2 repairs; 183,808 states | lineage, metrics and board agree with what happened |
| `graph` | every graph of 4 nodes with up to 3 dependencies each, in every order of the walks; 2,354,631 states | the walks compute what `PlanGraph` defines: refusal, levels and with them the critical path, ancestors, staleness |
| `pipeline` | 3 invocations, 3 run ids, 3 scenarios, 2 questions, confidences below, at and above the threshold; symmetric in ids and invocations; 847,518 states | no code while asking, answering unparks, seeds are finished runs of the right scenario |

**Why the bounds are enough.** The plans are the planner's own, so the executor's
instances are real runs. The retry budget is cut: in `core` and `faults` from two to
one for stages that write and to none for the others, which write nothing a
refusal could leave behind, and in `record` to one for the implementation and none
for the others. One retry still has a first, a repeated and a last attempt, and
what a retry may do is proved for every budget. Three implementations under two
repairs include one that returns to what was shown before the last, and two that
nobody can tell apart. Two repairs are the default of
the code, and let a repaired implementation be repaired again. Two crashes leave
a torn line, a process that writes onto it and one that reads the result; four
emits put events before, on and after it. Three recordings of three prompts are a
repeated key, a drifted one and a foreign skill, and three requests are served
exactly, by fallback and not at all. At the gate, three facts are a danger and its
two guards, and one file plus the one a property adds or splits off is all a rule
can compare. Two calls are enough to race for a connection and for the shared task
id, and two artifacts to be cut between. A doubling backoff shows an off-by-one at
its second sleep. Four nodes are the smallest graph with a cycle beside a node
that reaches it by two ways. Three invocations are a seed, a run on top of it and
one that overlaps both.

Violation runs state what a comment, docstring or test says and show that the
code does otherwise; `PROJECT.json` quotes the lines under `findings`.

| run | what the code does |
|---|---|
| `audit_torn` | an acknowledged event is lost on top of a torn line |
| `failed_intake` | an intake that failed, with confidence zero, is planned and executed: only `input_required` stops the pipeline (`cli.py:134`) |

### Disagreements without a run

Met while modelling, and in the model where it covers them:

- executor: a scoped rollback takes away a sibling's accepted content of a
  shared file (`executor.py:577`, against `executor.py:510`); after a revision
  the implementation is not shown the seam it depends on (`executor.py:183`,
  against `executor.py:427`); an exception of the adapter ends a node without
  retry or fallback (`executor.py:293`, against `claude.py:76`); a name outside
  the workspace leaves the stage's earlier files behind (`executor.py:314`); a
  repair leaves files of the discarded implementation in place
  (`executor.py:678`, against `executor.py:638`); two spellings of one path get
  by the overlap check; ancestors recorded before a revision produce a
  `concurrent_write` finding between ordered stages.
- audit log: a Unicode line separator in a payload makes an undamaged log fail
  its check (`audit.py:300`); a write that fails in `fsync` leaves `_last_at`
  ahead of the file; a torn character makes the next opening raise.
- replay: a fallback can serve a recording that an exact match already served
  (`replay.py:88`, against `replay.py:129`).
- A2A: in process, a cancel is accepted and then overwritten by the handler's
  result (`transport.py:97`, against `transport.py:63`); over HTTP, artifacts of
  a result that is not completed are dropped, in process they are kept; two
  first calls that race leave one connection open.
- dispatch: refused and truncated replies are paid for and not recorded,
  because the adapter raises before `on_call` (against `dispatch.py:120`).
- lineage: the history of `<node>.json` is not what was produced. A consumer's text
  is cut (`executor.py:770`), and `record_consumption` registers the cut text as a
  revision of its own, which nobody produced (`executor.py:498-502`, against
  `lineage.py:86`, "read this exact revision", and `lineage.py:62`, "revisions in the
  order they were produced"). Two implementations that agree in the first 12000
  characters of their JSON are one revision there. A consumption is always
  recorded under `<node>.json`, never under the names of the files that were
  produced (`dispatch.py:88`), so no delivered file has consumers; and for design
  and review, whose skills have their names, the whole artifact and its cut text
  are two revisions of one history. `RunRecord` does all of this, and
  `HistoryIsHonest` says what is left: what the histories hold is the outputs, as
  cut, in their order. Content that returns to an earlier revision and is then
  consumed is not registered again. Metrics: the cost omits rounds a repair discarded, nodes
  that raised and results behind the first fatal one, all of which the board
  counts or the bill contains.
- live view: a row stays "input required" after the approval was given, and
  "working" after its node raised.
- command line: a reused run id keeps the old summary, and its workspace is
  stacked; a greenfield run that failed can be a seed; a confidence that is not
  a number clamps to 1.0; an intake with a threshold above the default parks
  after all questions are answered, with none to ask.

## Fairness and deadlock

**Fairness.** `Executor`'s `FairSpec` assumes weak fairness of `Progress`: the event
loop runs whatever can run, and a dispatch returns because every model call has
a bounded number of attempts and every command a timeout. `RequestStop` is
outside: nobody has to press stop. `A2A`'s `Spec` assumes weak fairness of `Boot`
(`wait_until_ready` polls a server that was started) and of each call's `Step`: the
two event loops run what can run and a handler ends because its model calls do.
Cancelling, stopping the server and closing the transport are nobody's duty.

**Deadlock** is not checked: runs, calls, decisions and walks end, and a log may
stay closed.

## Proofs

Every theorem is `Spec => []Inv` or a refinement, for all constants that satisfy
the named assumptions, and rests on an inductive invariant. Four have a
hypothesis of their own, because the property is false without it: `RefusedIsUndone`,
`AcceptedWorkSurvives`, `LossIsNeverSilent` and `AnswersUnpark`. The instances of
the runs satisfy it; what happens without it is listed under "Disagreements
without a run".

### ExecutorProofs

For every set of node ids, every acyclic plan of the planner's shape, every file
table and bound. `NodeAssumption`, `FileAssumption` and `PlanAssumption` are types and
shapes of the planner's plans; `WriterAssumption` says that a stage whose output
schema has files is one the planner marks for rollback and makes wait for the
design alone. TLC evaluates them for the planner's own plans.

- **Types**: `TypeCorrect`, for `TypeOK` with the bounds on repairs and revisions.
- **The scheduler**: `CompletionIsHonest`, `CompletionIsClosed`, `SeamComesFirst`, for
  `CompletedRunIsComplete`, `CompletedIsClosed`, `SeamBeforeImplementation`. None is
  inductive. `SchedInv` adds that the plan stays acyclic and of the planner's
  shape across revisions (`GraphInv`), that a batch holds nodes of the plan that
  are not completed and whose dependencies are (`BatchInv`), that results and
  completed nodes agree between batches (`ResultInv`), that completed nodes have
  outputs and are closed under dependencies (`OutputInv`), and that a revision is
  due as soon as the survey ends, before any implementation (`SeamInv`). The crux
  is `NothingReadyNothingLeft`: by acyclicity, an uncompleted plan has a node to
  offer.
- **The promise**: `ExecutorKeepsPromise` is the refinement `Spec => Promise!Spec`. A
  step of a coroutine is a stutter; collecting a batch is one round of
  `RunLifecycle` (`CollectedAbsorbs`), a revision adds below nothing that is done
  (`ReplanRevises`), and the verdict waits for the end (`VerdictInv`).
- **Refused work**: `RefusedIsUndone` (`NothingHalfApplied`, when no stage names a path
  outside the workspace) and `CompletionIsClean` (`CompletedRunIsClean`, for all
  names). What a node has written lies in its own paths (`WrittenInv`), and the
  workspace and every snapshot a rollback may put back hold accepted files only
  (`CleanInv`); a torn write leaves a node that raised, whose batch is never
  absorbed (`TornInv`).
- **Approval**: `EveryRoundIsApproved` (`EveryRoundSignedOff`). `SignInv` extends the
  property to snapshots and relates the approvals of the implementation to the
  repairs before and after each of its rounds; that a pending node has no
  outcome is `OutcomeInv`.
- **Accepted work**: `AcceptedWorkSurvives` (`CommittedWorkSurvives`, when no two stages
  but the seam and the implementation share a path and names are safe) needs that
  artifacts belong to accepted results (`ArtifactInv`) and that no running node's
  snapshot lacks a file that is accepted meanwhile (`KeptInv`). `LossIsNeverSilent`
  (`LossIsAudited`, when a path has one name) needs that a path that was taken
  over has a finding or still its owner (`AuditInv`); in the planner's first plans
  no two writing stages are ordered, so every clash is reported.
- **What is shown**: `VerifiedIsShipped` (`ShippedIsVerified`) and `SourceIsSettled`
  (`SourcePredatesBatch`). The planner's shape (`ShapeInv`) makes every writing stage
  finish with or before the implementation (`WritersInv`), so that what is
  downstream sees the final tree and everything else the baseline (`ShownInv`).

### AuditLogProofs

For every clock, every set of cuts and every bound (`AuditAssumption`):
`LogTypeCorrect`, `NumberingIsMonotone`, `NoSilentLoss`, `HonestLogIsClean`,
`AcknowledgedIsDurable`, for `TypeOK`, `SeqsIncrease`, `DamageIsReported`,
`HonestLogPasses`, `Durable`. Numbering needs that a process that is up remembers a
number no smaller than any that can be read (`AheadOfFile`), and that numbers and
timestamps in the file are bounded, so that `_load` can restore that memory
(`Bounded`). Losses need that an event missing from the file has left a line nobody
can load, and that such a line stays (`LossLeavesDamage`). Durability needs that,
without a cut in the middle, every line is whole and ended (`WholeLines`). An honest
log passes because then line i holds event number i, at a time no earlier than the
line before (`Numbered`): each of the checks of `verify_integrity` is about one
of these.

### GraphBuildProofs

For every finite set of nodes and every graph (`BuildAssumption`): `WalkIsSound`,
`ReportedCycleIsReal`, `AcceptedPlanIsAcyclic`, `ReachIsExactCorrect`,
`LevelsMeasureDepth`, for `WalkOK`, `CycleIsReal`, `AcceptedIsAcyclic`, `ReachIsExact`,
`LevelsAreDepths`.

- **The search** (`SearchInv`): the gray nodes are exactly the path (`PathOK`), a
  dependency of a path node is still to be inspected, black or the next on the
  path (`PendingOK`), and black nodes are closed under dependencies and every
  non-empty set of them has a node without dependencies in it (`BlackOK`). The last
  is acyclicity of the part already searched; `BacktrackKeeps` extends it by one
  node, and when all nodes are black it is `Acyclic`.
- **Ancestors and staleness** (`ReachInv`): who has been taken off the list has its
  neighbours, along the edges of the walk, in the set, and who is in the set is
  up- or downstream of the start: `Upstream` is membership in every closed set that
  holds a node's dependencies.
- **Levels** (`LevelInv`): a node is in one level, the one after the last of its
  dependencies, and `remaining` counts the dependencies not in a level yet. No
  level is empty while a node is left, by acyclicity.
- **Lengths** (`MeasureInv`): a measured length is the number of the node's level, and
  the node before it on the critical path is in the level before. That `Chain`,
  a recursive function, exists and is such a chain is shown by taking the node of
  the least length for which it is not (`LeastOne`, `ChainIsChain`).

### GateProofs

For every set of nodes, script, set of breakable rules and number of files:
`GateTypeCorrect`, `BrokenRulesFailClosed`, `ConsentIsExplicit`, `AddingOpensNothing`,
`SplittingIsFree`, for `TypeOK`, `FailsClosed`, `NoSilentConsent`, `AddingNeverOpens`,
`SplitNeverCloses`. Consent needs that every approved node has a yes on file
(`ConsentInv`); the last two need that a decision is still what the engine would say
(`DecisionInv`), and what the six rules find in more files and in the parts of one
(`MoreFilesMoreFindings`, `SplitFilesFewerFindings`): a file without facts silences no
rule, and guards are looked for in all files.

### A2AProofs

For every number of calls and every handler result. `A2AImplementsLifecycle` is the
refinement `Spec => Life!Spec`; it needs that the server's phase fixes the task's
state (`LifeInv`). `IdIsKnown` needs that `last_task_id` is always an announced id,
which is why the comparison with the shared attribute is enough. `NothingLeaks`
needs that without a race at most one call connects, and only the first time
(`LeakInv`). `A2ATypeCorrect` is `TypeOK`, by its four parts: what the agent keeps,
what the callers keep, the connection and the mesh. `OutcomesAreWhole`
(`OutcomeIsWhole`) relates the two ends of a stream (`Flow`): what the caller has
read, what is queued and what the executor has left to publish always add up to
what the handler returned, and only a stream's last event is terminal.

### PipelineProofs

For every number of invocations, ids, scenarios and answers: `QuestionsComeFirst`,
`AnswersUnpark`, `WorkspacesAreNotStacked`, `SeedsAreFinal`, for `NoCodeWhileAsking`,
`AnsweringUnparks`, `NothingIsStacked`, `SeedIsFinal`. `ChainInv` says that a summary
belongs to an ended owner of the directory and that foreign code in a workspace is
of finished runs of the scenario it is seeded from; it uses that seeds are not
seeded themselves, an assumption of `Pipeline` that TLC evaluates for the real
scenarios. `AnswersUnpark` is for thresholds up to the default: `_apply_answers`
lifts the confidence to `DEFAULT_CONFIDENCE_THRESHOLD`, so an intake that wants more
parks for ever.

### AdapterProofs

**Replay.** For every tape, every number of recordings and every order of requests:
`ReplayTypeCorrect`, `FallbacksAreInOrder`, `DriftIsNoted`, for `ReplayType`,
`FallbackInOrder`, `DriftIsReported`. Order needs that what a fallback served is
consumed together with all that lay before it on the shelf of its node and skill
(`OrderInv`); the note on drift is exactly the mismatched answers in the order served,
which is inductive as it stands.

**Calls.** For every number of nodes, attempts, retries and every delay:
`BusyServiceIsWaitedFor`, `CallsAreAccounted`, for `GivesUpLate`, `RequestsAccounted`.
What a node has slept is the doubling series up to its present try (`Patience`);
`2^(k+1) = 2 * 2^k`, which the prover does not know, is proved by counting subsets
(`Doubling`). Every finished attempt but the last has a record, a bill and a count, and
requests are bounded by the finished attempts and the present try (`Books`).

**Answers.** For every set of texts, and every set of objects that JSON's grammar
allows (`ObjectAssumption`): `AnswersAreFound`, for `AnswerIsFound`. A string is
left at the depth it was entered at (`StringScanned`), and so is an object, whose
last brace alone closes it (`ObjectScanned`, by its least counterexample in length,
`ObjectStep`); hence the scanner ends where the first object ends, and stays
there (`ScanEnds`). That the scanner's recursion has a value for every text is
`ScannedStep`. A reply that is an object as a whole can hold no other from its first
brace on, for the scanner would end twice.

### RunRecordProofs

For every set of wired plans (`RecordAssumption`: what the planner's plans have in
common), every content, cut and way of naming artifacts, retry budget and number of
repairs. Every proof rests on
`RecordTypeCorrect`, which also says that a revision leaves the plan wired
(`RevisedPlan`), and on `FlowCorrect` (`Flow`): a node is at work, has ended or has a
result, one of the three, its dependencies have completed, and a working run
keeps completed results only.

- **The board**: `BoardIsHonestCorrect`, for `BoardIsHonest`, strengthened by `Board`: a
  node at work has told last that it started, and who has completed is shown as
  that. `ToldNext` says how the last telling moves when the log grows.
- **The recovery intervals**: `RecoveryIsWholeCorrect`. `RecoveryIsWhole` is about any
  log of the right type, so no step of the run matters: the walk is shown, by its
  least counterexample, to hold after i events the outages open at i and the
  intervals of those over by i (`AfterNext`, `WalkIsWhole`).
- **The lineage**: `InputsAreCurrentCorrect`, `ProvenanceIsWholeCorrect` and
  `HistoryIsHonestCorrect`. `Lineage` says that what a dispatched node was last shown
  is still its dependencies' output; a repair keeps it because verification, which
  alone reads the implementation, is discarded with it. `Wiring` says that
  every start read all of its dependencies as the current plan has them; a
  revision keeps it because the survey ends before anything it rewires has
  started (`SurveyIsOver`). `PlanIsAdopted` says that the plan is one that was given,
  or the revision of one. `ExplainIsClosed` shows that explaining for as many turns
  as there are nodes reaches everything, by counting what is new in each turn.
  `History` says that only the last output of a node that stands may not have been
  shown, so that the text of a new one follows what consumers have seen, and that
  nothing but the implementation completes twice, so that a history shared by
  artifact and text has one of each at most.
- **The accounts**: `AccountsAgreeCorrect`. `Accounts` adds to the counts of the log what
  is under way: the attempts beyond the first of nodes at work, ended or collected
  are at most the retries in the log; the bill is the board's cost plus the
  dispatches of running nodes unless a node raised; and without a repair the
  board's cost is that of the results. `TotalAdd` and `TotalMonotone` move the sums,
  which are cardinalities, one node at a time.

### What has only one of the two

Only proved, and in no run: the type invariants of `Executor`, `AuditLog`, `Gate`,
`A2A` and `Replay`, `CompletedRunIsComplete` (which `KeepsPromise` implies), `Durable`,
`FailsClosed`, and `WalkOK` and `CycleIsReal` of `GraphBuild`.

Only model-checked: `Termination` and `EveryCallEnds`. Liveness under fairness is
outside the prover's reach.

## Not modelled

Prompt texts, schemas and cards (static), terminal rendering and the report
(output only), the text the regular expressions of the policy rules match (their
facts are the model's artifacts), the deduplication and wording of findings,
Mermaid text, pricing, durations and latencies, the HTTP layer of the A2A SDK
(external), redaction (it rewrites payload text only), the workspace's byte
encoding, bytecode cleanup and command execution, and the subcommands that only
print files. The applications under `runs/` are generated output of recorded
runs. A split payload whose middle piece is a bare JSON value makes the log's
`_load` raise; the payload abstraction does not distinguish it.

## Left to do

1. `Workspace`: running commands with their timeout, and the bytecode cache that
   a rollback has to remove.
