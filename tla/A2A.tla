--------------------------------- MODULE A2A ---------------------------------
(***************************************************************************)
(* Calls of stage agents (keel/a2a): the client and the agent of one stage *)
(* over HTTP, or the in-process transport in their place, with concurrent  *)
(* calls, cancellation, an agent that stops, and the connection that the   *)
(* calls of a stage share.                                                 *)
(*                                                                         *)
(* The a2a-sdk is external: it gives every call a task id of its own (here *)
(* the call itself), delivers an agent's events in order, refuses to       *)
(* cancel a finished task and stops the handler of a cancelled one.        *)
(***************************************************************************)
EXTENDS Naturals, Sequences, FiniteSets

CONSTANTS
  Call,  \* calls of one stage
  Raw    \* bound: what handlers return, a status and a number of artifacts

Skills == {"offered", "not offered", "no stage"}

\* What a handler may report; "odd" is anything else, an exception included.
HandlerStates == {"completed", "input_required", "failed", "rejected"}

ASSUME A2AAssumption ==
  /\ "none" \notin Call
  /\ Raw \subseteq [status : HandlerStates \cup {"odd"}, artifacts : Nat]

Terminal == {"completed", "failed", "canceled", "rejected"}
TaskStates == {"none", "submitted", "working", "input_required"} \cup Terminal

VARIABLES
  agent,      \* the served agent: "booting", "up", "down"
  transport,  \* which one is installed: "http" or "in process"
  trusted,    \* the agent demands no bearer token, or the client has the right one
  skill,      \* what each call asks for
  task,       \* a task's state, by call: InMemoryTaskStore or _task_states
  server,     \* where the agent's executor is with a call
  raw,        \* what the handler returned
  left,       \* artifacts not yet published
  stream,     \* events the client has not read yet
  client,     \* the connection _client holds, 0 for none
  opened,     \* connections opened so far
  closed,     \* connections closed
  raced,      \* two callers have opened a connection at the same time
  lastTaskId, \* StageClient.last_task_id
  pc,         \* where the caller of a call is
  seen,       \* state and artifacts invoke has read
  announced,  \* calls whose caller was told the task id
  outcome     \* what the caller got

vars == <<agent, transport, trusted, skill, task, server, raw, left, stream, client, opened, closed, raced,
          lastTaskId, pc, seen, announced, outcome>>

mesh == <<transport, trusted, skill>>
serving == <<task, server, raw, left, stream>>
connection == <<client, opened, closed, raced>>
calling == <<lastTaskId, pc, seen, announced, outcome>>

NoOutcome == [state |-> "none", artifacts |-> 0]
NoRaw == [status |-> "odd", artifacts |-> 0]
Raised == [state |-> "raised", artifacts |-> 0]

Init ==
  /\ agent = "booting"
  /\ transport \in {"http", "in process"}
  /\ trusted \in BOOLEAN
  /\ skill \in [Call -> Skills]
  /\ task = [c \in Call |-> "none"]
  /\ server = [c \in Call |-> "none"]
  /\ raw = [c \in Call |-> NoRaw]
  /\ left = [c \in Call |-> 0]
  /\ stream = [c \in Call |-> <<>>]
  /\ client = 0 /\ opened = 0 /\ closed = {} /\ raced = FALSE
  /\ lastTaskId = "none"
  /\ pc = [c \in Call |-> "idle"]
  /\ seen = [c \in Call |-> NoOutcome]
  /\ announced = {}
  /\ outcome = [c \in Call |-> NoOutcome]

-----------------------------------------------------------------------------
(***************************************************************************)
(* The agent.                                                              *)
(***************************************************************************)

\* serve returns before the socket answers.
Boot ==
  /\ agent = "booting"
  /\ agent' = "up"
  /\ UNCHANGED <<mesh, serving, connection, calling>>

\* ServedAgent.stop.
Stop ==
  /\ agent = "up"
  /\ agent' = "down"
  /\ UNCHANGED <<mesh, serving, connection, calling>>

\* An event is queued for the caller and settles the state in the task store.
Publish(c, s) ==
  /\ task' = [task EXCEPT ![c] = s]
  /\ stream' = [stream EXCEPT ![c] = Append(@, s)]

\* execute: the task itself first, then the first status update.
EnqueueTask(c) ==
  /\ server[c] = "new"
  /\ server' = [server EXCEPT ![c] = "queued"]
  /\ Publish(c, "submitted")
  /\ UNCHANGED <<agent, mesh, raw, left, connection, calling>>

StartWork(c) ==
  /\ server[c] = "queued"
  /\ server' = [server EXCEPT ![c] = "handling"]
  /\ Publish(c, "working")
  /\ UNCHANGED <<agent, mesh, raw, left, connection, calling>>

\* parse_stage_result: the four states a handler may report; all else, an
\* exception included, is a failed stage.
Parsed(r) == IF r.status \in HandlerStates THEN r.status ELSE "failed"

\* Only a completed stage publishes its artifacts.
Publishes(r) == IF Parsed(r) = "completed" THEN r.artifacts ELSE 0

\* The handler is awaited and then its result is published.
HandlerReturns(c, r) ==
  /\ transport = "http"
  /\ server[c] = "handling"
  /\ server' = [server EXCEPT ![c] = "publishing"]
  /\ raw' = [raw EXCEPT ![c] = r]
  /\ left' = [left EXCEPT ![c] = Publishes(r)]
  /\ UNCHANGED <<agent, mesh, task, stream, connection, calling>>

AddArtifact(c) ==
  /\ server[c] = "publishing"
  /\ left[c] > 0
  /\ left' = [left EXCEPT ![c] = @ - 1]
  /\ stream' = [stream EXCEPT ![c] = Append(@, "artifact")]
  /\ UNCHANGED <<agent, mesh, task, server, raw, connection, calling>>

\* A plausible slip: the task is completed with artifacts still to come.
MayFinishEarly(c) == server[c] = "publishing"

\* A plausible slip: the task is completed by its last artifact.
MayFinishWithArtifact(c) == server[c] = "publishing" /\ left[c] = 0 /\ raw[c].artifacts > 0

\* The last status goes out after the last artifact.
MayFinish(c) == server[c] = "publishing" /\ left[c] = 0

FinishTask(c) ==
  /\ MayFinish(c)
  /\ server' = [server EXCEPT ![c] = "over"]
  /\ Publish(c, Parsed(raw[c]))
  /\ left' = [left EXCEPT ![c] = 0]
  /\ UNCHANGED <<agent, mesh, raw, connection, calling>>

\* A plausible slip: a finished task can be cancelled.
CancellableAnytime(c) == task[c] # "none"

\* TaskState.is_terminal decides what can still be cancelled.
Cancellable(c) == task[c] # "none" /\ task[c] \notin Terminal

\* cancel of a task whose id the caller knows.  The caller of a parked task
\* has its answer already.
CancelRemote(c) ==
  /\ agent = "up"
  /\ transport = "http"
  /\ c \in announced
  /\ Cancellable(c)
  /\ task' = [task EXCEPT ![c] = "canceled"]
  /\ stream' = [stream EXCEPT ![c] = IF server[c] = "over" THEN @ ELSE Append(@, "canceled")]
  /\ server' = [server EXCEPT ![c] = "over"]
  /\ left' = [left EXCEPT ![c] = 0]
  /\ UNCHANGED <<agent, mesh, raw, connection, calling>>

-----------------------------------------------------------------------------
(***************************************************************************)
(* The client of the stage, shared by all its calls.                       *)
(***************************************************************************)

\* The caller is answered, or gets an exception.
Answer(c, o) ==
  /\ pc' = [pc EXCEPT ![c] = "done"]
  /\ outcome' = [outcome EXCEPT ![c] = o]
  /\ UNCHANGED <<lastTaskId, seen, announced>>

GoTo(c, where) ==
  /\ pc' = [pc EXCEPT ![c] = where]
  /\ UNCHANGED <<lastTaskId, seen, announced, outcome>>

\* dispatch: a skill that is no stage is refused before any call.
DispatchRefused(c) ==
  /\ pc[c] = "idle"
  /\ skill[c] = "no stage"
  /\ Answer(c, Raised)
  /\ UNCHANGED <<agent, mesh, serving, connection>>

\* A plausible slip: the cached connection is never looked at.
CachedNever == FALSE

\* _ensure_client: the connection is there.
Cached == client # 0

\* invoke's first await: reuse the connection, or open one.
EnsureClient(c) ==
  /\ transport = "http"
  /\ pc[c] = "idle"
  /\ skill[c] # "no stage"
  /\ GoTo(c, IF Cached THEN "send" ELSE "connecting")
  /\ raced' = (raced \/ (~Cached /\ \E d \in Call \ {c} : pc[d] = "connecting"))
  /\ UNCHANGED <<agent, mesh, serving, client, opened, closed>>

\* create_client resolves the card; the last one to answer wins _client.
Connected(c) ==
  /\ pc[c] = "connecting"
  /\ agent = "up"
  /\ GoTo(c, "send")
  /\ opened' = opened + 1
  /\ client' = opened'
  /\ UNCHANGED <<agent, mesh, serving, closed, raced>>

\* Nobody serves the card.
Unreachable(c) ==
  /\ pc[c] \in {"connecting", "send"}
  /\ agent # "up"
  /\ Answer(c, Raised)
  /\ UNCHANGED <<agent, mesh, serving, connection>>

\* supports, and _bearer_guard on the other side: no task is made.
Refused(c) ==
  /\ pc[c] = "send"
  /\ agent = "up"
  /\ skill[c] = "not offered" \/ ~trusted
  /\ Answer(c, Raised)
  /\ UNCHANGED <<agent, mesh, serving, connection>>

Send(c) ==
  /\ pc[c] = "send"
  /\ agent = "up"
  /\ skill[c] = "offered"
  /\ trusted
  /\ GoTo(c, "streaming")
  /\ server' = [server EXCEPT ![c] = "new"]
  /\ UNCHANGED <<agent, mesh, task, raw, left, stream, connection>>

\* A plausible slip: the id of the first task stands for all of them.
AnnouncesOnce(c) == lastTaskId = "none"

\* The id is passed on when it is not the one seen last, by any call.
Announces(c) == c # lastTaskId

\* What an event adds to what was read before.
Noted(o, e) ==
  IF e = "artifact" THEN [state |-> o.state, artifacts |-> o.artifacts + 1]
  ELSE [state |-> e, artifacts |-> o.artifacts]

\* invoke reads one event of its stream.
Read(c) ==
  /\ pc[c] = "streaming"
  /\ stream[c] # <<>>
  /\ seen' = [seen EXCEPT ![c] = Noted(@, Head(stream[c]))]
  /\ stream' = [stream EXCEPT ![c] = Tail(@)]
  /\ lastTaskId' = IF Announces(c) THEN c ELSE lastTaskId
  /\ announced' = IF Announces(c) THEN announced \cup {c} ELSE announced
  /\ UNCHANGED <<agent, mesh, task, server, raw, left, connection, pc, outcome>>

\* The stream is over when the executor is and everything was read.
Return(c) ==
  /\ pc[c] = "streaming"
  /\ stream[c] = <<>>
  /\ server[c] = "over"
  /\ Answer(c, seen[c])
  /\ UNCHANGED <<agent, mesh, serving, connection>>

\* The agent went away under an open stream.
Broken(c) ==
  /\ pc[c] = "streaming"
  /\ agent = "down"
  /\ Answer(c, Raised)
  /\ UNCHANGED <<agent, mesh, serving, connection>>

\* HttpTransport.close, when the run is over: the connection _client holds.
Close ==
  /\ \A c \in Call : pc[c] = "done"
  /\ client # 0
  /\ closed' = closed \cup {client}
  /\ client' = 0
  /\ UNCHANGED <<agent, mesh, serving, opened, raced, calling>>

-----------------------------------------------------------------------------
(***************************************************************************)
(* The in-process transport.                                               *)
(***************************************************************************)

LocalInvoke(c) ==
  /\ transport = "in process"
  /\ pc[c] = "idle"
  /\ skill[c] # "no stage"
  /\ IF skill[c] = "offered"
     THEN /\ GoTo(c, "streaming")
          /\ task' = [task EXCEPT ![c] = "working"]
          /\ server' = [server EXCEPT ![c] = "handling"]
     ELSE Answer(c, Raised) /\ UNCHANGED <<task, server>>
  /\ UNCHANGED <<agent, mesh, raw, left, stream, connection>>

\* The result is the task's state, whatever became of the task meanwhile.
LocalReturn(c, r) ==
  /\ transport = "in process"
  /\ pc[c] = "streaming"
  /\ server' = [server EXCEPT ![c] = "over"]
  /\ raw' = [raw EXCEPT ![c] = r]
  /\ task' = [task EXCEPT ![c] = Parsed(r)]
  /\ Answer(c, [state |-> Parsed(r),
                artifacts |-> IF r.status \in HandlerStates THEN r.artifacts ELSE 0])
  /\ UNCHANGED <<agent, mesh, left, stream, connection>>

\* cancel marks the task; the handler goes on.
CancelLocal(c) ==
  /\ transport = "in process"
  /\ Cancellable(c)
  /\ task' = [task EXCEPT ![c] = "canceled"]
  /\ UNCHANGED <<agent, mesh, server, raw, left, stream, connection, calling>>

-----------------------------------------------------------------------------
\* What moves a call forward without anybody's decision.
Step(c) ==
  \/ EnqueueTask(c) \/ StartWork(c) \/ AddArtifact(c) \/ FinishTask(c)
  \/ \E r \in Raw : HandlerReturns(c, r) \/ LocalReturn(c, r)
  \/ EnsureClient(c) \/ Connected(c) \/ Unreachable(c) \/ Refused(c) \/ Send(c)
  \/ Read(c) \/ Return(c) \/ Broken(c)
  \/ DispatchRefused(c) \/ LocalInvoke(c)

Next ==
  \/ Boot \/ Stop \/ Close
  \/ \E c \in Call : Step(c) \/ CancelRemote(c) \/ CancelLocal(c)

\* A handler ends (its model calls do) and the event loops run; nobody has to
\* cancel or stop anything.
Spec == Init /\ [][Next]_vars /\ WF_vars(Boot) /\ \A c \in Call : WF_vars(Step(c))

-----------------------------------------------------------------------------
(***************************************************************************)
(* Properties.                                                             *)
(***************************************************************************)

Events == TaskStates \cup {"artifact"}

Seen == [state : TaskStates \cup {"raised"}, artifacts : Nat]

\* What each variable holds; a connection that is held or closed was opened.
TypeOK ==
  /\ agent \in {"booting", "up", "down"}
  /\ transport \in {"http", "in process"}
  /\ trusted \in BOOLEAN
  /\ skill \in [Call -> Skills]
  /\ task \in [Call -> TaskStates]
  /\ server \in [Call -> {"none", "new", "queued", "handling", "publishing", "over"}]
  /\ raw \in [Call -> Raw \cup {NoRaw}]
  /\ left \in [Call -> Nat]
  /\ stream \in [Call -> Seq(Events)]
  /\ client \in Nat /\ opened \in Nat /\ client <= opened
  /\ closed \subseteq 1 .. opened
  /\ raced \in BOOLEAN
  /\ lastTaskId \in Call \cup {"none"}
  /\ pc \in [Call -> {"idle", "connecting", "send", "streaming", "done"}]
  /\ seen \in [Call -> Seen]
  /\ announced \subseteq Call
  /\ outcome \in [Call -> Seen]

Life == INSTANCE TaskLifecycle WITH Task <- Call,
                                    state <- [c \in Call |-> IF transport = "http" THEN task[c]
                                                             ELSE "none"]

\* Over HTTP every task lives the life the protocol promises: submitted,
\* worked on, settled, and final once terminal, however a cancel races the
\* handler's return and the events still being published (execute, cancel).
RemoteLifecycle == Life!Spec

\* A caller that is told a state is told the one its own handler reported, and
\* a completed call comes with every artifact: nothing is lost between the
\* handler's return and the end of the stream, or taken from a concurrent call
\* (invoke "consumes the whole event stream").
OutcomeIsWhole ==
  \A c \in Call :
    outcome[c].state \in HandlerStates =>
      /\ outcome[c].state = Parsed(raw[c])
      /\ outcome[c].state = "completed" => outcome[c].artifacts = raw[c].artifacts

\* A call that has read anything of its stream has told its caller its own
\* task id, so that the caller can cancel it, although all the calls of the
\* stage share last_task_id (invoke, on_task_id).
IdKnownWhileStreaming ==
  \A c \in Call : seen[c].state # "none" => c \in announced

\* A closed transport has closed every connection it opened, unless two first
\* calls opened theirs at the same time (_ensure_client, close).
NothingLeaksUnraced ==
  client = 0 /\ closed # {} /\ ~raced => closed = 1 .. opened

\* Every call is answered: by an outcome or by an exception (invoke).
EveryCallEnds == \A c \in Call : <>(pc[c] = "done")
=============================================================================
