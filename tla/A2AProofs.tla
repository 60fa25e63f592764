------------------------------ MODULE A2AProofs ------------------------------
(***************************************************************************)
(* For any number of concurrent calls: tasks over HTTP live the life that  *)
(* module TaskLifecycle promises, a caller that reads its stream knows its *)
(* task id and is told what its handler reported, and a transport without  *)
(* a race closes what it opened.                                           *)
(***************************************************************************)
EXTENDS A2A, TLAPS

-----------------------------------------------------------------------------
(***************************************************************************)
(* Refinement.                                                             *)
(***************************************************************************)

\* Where the agent's executor is determines the state of its task.
Phase(c) ==
  /\ server[c] \in {"none", "new"} => task[c] = "none"
  /\ server[c] = "queued" => task[c] = "submitted"
  /\ server[c] \in {"handling", "publishing"} => task[c] = "working"
  /\ server[c] = "over" => task[c] \in Terminal \cup {"input_required"}

LifeInv ==
  /\ task \in [Call -> TaskStates]
  /\ server \in [Call -> {"none", "new", "queued", "handling", "publishing", "over"}]
  /\ pc \in [Call -> {"idle", "connecting", "send", "streaming", "done"}]
  /\ transport = "http" => \A c \in Call : Phase(c)
  /\ transport = "http" => \A c \in Call : pc[c] \in {"idle", "connecting", "send"} => server[c] = "none"
  /\ transport \in {"http", "in process"}

LifeState == [c \in Call |-> IF transport = "http" THEN task[c] ELSE "none"]

\* What the handler reports, whatever it returns, is a state it may report.
LEMMA ParsedSettles == \A r : Parsed(r) \in HandlerStates
  BY DEF Parsed, HandlerStates

LEMMA LifeInit == Init => LifeInv
<1> SUFFICES ASSUME Init PROVE LifeInv
  OBVIOUS
<1>1. task \in [Call -> TaskStates]
  BY DEF Init, TaskStates
<1>2. server \in [Call -> {"none", "new", "queued", "handling", "publishing", "over"}]
  BY DEF Init
<1>3. pc \in [Call -> {"idle", "connecting", "send", "streaming", "done"}]
  BY DEF Init
<1>4. \A c \in Call : Phase(c) /\ server[c] = "none"
  BY DEF Init, Phase
<1> QED
  BY <1>1, <1>2, <1>3, <1>4 DEF Init, LifeInv

LEMMA LifeNext == LifeInv /\ [Next]_vars => LifeInv'
<1> SUFFICES ASSUME LifeInv, [Next]_vars PROVE LifeInv'
  OBVIOUS
<1> USE DEF LifeInv, Phase, TaskStates, Terminal, HandlerStates
<1>1. CASE UNCHANGED vars
  BY <1>1 DEF vars
<1>2. CASE Boot \/ Stop \/ Close
  BY <1>2 DEF Boot, Stop, Close, mesh, serving, connection, calling
<1>3. ASSUME NEW c \in Call, Step(c) PROVE LifeInv'
  <2>1. CASE EnqueueTask(c)
    BY <2>1 DEF EnqueueTask, Publish, mesh, calling
  <2>2. CASE StartWork(c)
    BY <2>2 DEF StartWork, Publish, mesh, calling
  <2>3. CASE AddArtifact(c)
    BY <2>3 DEF AddArtifact, mesh, calling
  <2>4. CASE FinishTask(c)
    BY <2>4, ParsedSettles DEF FinishTask, MayFinish, Publish, mesh, calling
  <2>5. ASSUME NEW r \in Raw, HandlerReturns(c, r) PROVE LifeInv'
    BY <2>5 DEF HandlerReturns, mesh, calling
  <2>6. ASSUME NEW r \in Raw, LocalReturn(c, r) PROVE LifeInv'
    BY <2>6, ParsedSettles DEF LocalReturn, Answer, mesh
  <2>7. CASE EnsureClient(c)
    BY <2>7 DEF EnsureClient, GoTo, mesh, serving
  <2>8. CASE Connected(c)
    BY <2>8 DEF Connected, GoTo, mesh, serving
  <2>9. CASE Unreachable(c) \/ Refused(c) \/ Return(c) \/ Broken(c) \/ DispatchRefused(c)
    BY <2>9 DEF Unreachable, Refused, Return, Broken, DispatchRefused, Answer, mesh, serving
  <2>10. CASE Send(c)
    BY <2>10 DEF Send, GoTo, mesh
  <2>11. CASE Read(c)
    BY <2>11 DEF Read, mesh
  <2>12. CASE LocalInvoke(c)
    BY <2>12 DEF LocalInvoke, GoTo, Answer, mesh
  <2> QED
    BY <1>3, <2>1, <2>2, <2>3, <2>4, <2>5, <2>6, <2>7, <2>8, <2>9, <2>10, <2>11, <2>12 DEF Step
<1>4. ASSUME NEW c \in Call, CancelRemote(c) PROVE LifeInv'
  BY <1>4 DEF CancelRemote, Cancellable, mesh, calling
<1>5. ASSUME NEW c \in Call, CancelLocal(c) PROVE LifeInv'
  BY <1>5 DEF CancelLocal, Cancellable, mesh, calling
<1> QED
  BY <1>1, <1>2, <1>3, <1>4, <1>5 DEF Next

LEMMA LifeInitMaps == Init => Life!Init
  BY DEF Init, Life!Init

\* A step over HTTP is a step of the task it is about, or of none; in process
\* there is no remote task.
LEMMA LifeStepMaps == LifeInv /\ [Next]_vars => [Life!Next]_LifeState
<1> SUFFICES ASSUME LifeInv, [Next]_vars PROVE [Life!Next]_LifeState
  OBVIOUS
<1> USE DEF LifeInv, LifeState
<1>1. ASSUME UNCHANGED <<task, transport>> PROVE [Life!Next]_LifeState
  BY <1>1
<1>2. ASSUME UNCHANGED transport, transport = "in process" PROVE [Life!Next]_LifeState
  BY <1>2
<1>3. ASSUME NEW c \in Call, NEW s \in TaskStates, UNCHANGED transport, transport = "http",
             task' = [task EXCEPT ![c] = s],
             \/ task[c] = "none" /\ s = "submitted"
             \/ task[c] = "submitted" /\ s = "working"
             \/ task[c] = "working" /\ s \in HandlerStates
             \/ task[c] \in {"submitted", "working", "input_required"} /\ s = "canceled"
      PROVE  [Life!Next]_LifeState
  <2>1. LifeState = task /\ LifeState' = [task EXCEPT ![c] = s]
    BY <1>3
  <2>2. CASE task[c] = "none" /\ s = "submitted"
    BY <1>3, <2>1, <2>2 DEF Life!Next, Life!Submit
  <2>3. CASE task[c] = "submitted" /\ s = "working"
    BY <1>3, <2>1, <2>3 DEF Life!Next, Life!Work
  <2>4. CASE task[c] = "working" /\ s \in HandlerStates
    BY <1>3, <2>1, <2>4 DEF Life!Next, Life!Settle, Life!Terminal, Life!Interrupted, HandlerStates
  <2>5. CASE task[c] \in {"submitted", "working", "input_required"} /\ s = "canceled"
    BY <1>3, <2>1, <2>5 DEF Life!Next, Life!Cancel, Life!Interrupted
  <2> QED
    BY <1>3, <2>2, <2>3, <2>4, <2>5
<1>4. CASE UNCHANGED vars
  BY <1>1, <1>4 DEF vars
<1>5. CASE Boot \/ Stop \/ Close
  BY <1>1, <1>5 DEF Boot, Stop, Close, mesh, serving
<1>6. ASSUME NEW c \in Call, Step(c) PROVE [Life!Next]_LifeState
  <2>1. CASE EnqueueTask(c) \/ StartWork(c)
    BY <1>2, <1>3, <2>1 DEF EnqueueTask, StartWork, Publish, mesh, Phase, TaskStates
  <2>2. CASE FinishTask(c)
    BY <1>2, <1>3, <2>2, ParsedSettles
       DEF FinishTask, MayFinish, Publish, mesh, Phase, TaskStates, Terminal, HandlerStates
  <2>3. CASE AddArtifact(c) \/ Send(c) \/ Read(c)
    BY <1>1, <2>3 DEF AddArtifact, Send, Read, mesh
  <2>4. CASE \E r \in Raw : HandlerReturns(c, r)
    BY <1>1, <2>4 DEF HandlerReturns, mesh
  <2>5. CASE \E r \in Raw : LocalReturn(c, r)
    BY <1>2, <2>5 DEF LocalReturn, mesh
  <2>6. CASE EnsureClient(c) \/ Connected(c) \/ Unreachable(c) \/ Refused(c) \/ Return(c)
               \/ Broken(c) \/ DispatchRefused(c)
    BY <1>1, <2>6 DEF EnsureClient, Connected, Unreachable, Refused, Return, Broken,
                      DispatchRefused, mesh, serving
  <2>7. CASE LocalInvoke(c)
    BY <1>2, <2>7 DEF LocalInvoke, mesh
  <2> QED
    BY <1>6, <2>1, <2>2, <2>3, <2>4, <2>5, <2>6, <2>7 DEF Step
<1>7. ASSUME NEW c \in Call, CancelRemote(c) PROVE [Life!Next]_LifeState
  BY <1>3, <1>7 DEF CancelRemote, Cancellable, mesh, TaskStates, Terminal
<1>8. ASSUME NEW c \in Call, CancelLocal(c) PROVE [Life!Next]_LifeState
  BY <1>2, <1>8 DEF CancelLocal, mesh
<1> QED
  BY <1>4, <1>5, <1>6, <1>7, <1>8 DEF Next

\* The agent and the client implement the task lifecycle over HTTP, whatever
\* the number of calls and what their handlers return (execute, cancel).
THEOREM A2AImplementsLifecycle == Spec => RemoteLifecycle
<1>1. Spec => []LifeInv
  BY LifeInit, LifeNext, PTL DEF Spec
<1>2. LifeInv /\ [Next]_vars => [Life!Next]_LifeState
  BY LifeStepMaps
<1> QED
  BY <1>1, <1>2, LifeInitMaps, PTL DEF Spec, RemoteLifecycle, Life!Spec, LifeState

-----------------------------------------------------------------------------
(***************************************************************************)
(* The task id.                                                            *)
(***************************************************************************)

IdInv ==
  /\ DOMAIN seen = Call
  /\ lastTaskId # "none" => lastTaskId \in announced
  /\ IdKnownWhileStreaming

\* Whoever has read of its stream can cancel its task, however the calls that
\* share last_task_id interleave (invoke, on_task_id).
THEOREM IdIsKnown == Spec => []IdKnownWhileStreaming
  <1>1. Init => IdInv
    <2>1. Init => seen = [c \in Call |-> NoOutcome] /\ lastTaskId = "none"
      BY DEF Init
    <2> QED
      BY <2>1 DEF IdInv, IdKnownWhileStreaming, NoOutcome
  <1>2. IdInv /\ [Next]_vars => IdInv'
    <2> SUFFICES ASSUME IdInv, [Next]_vars PROVE IdInv'
      OBVIOUS
    <2> USE DEF IdInv, IdKnownWhileStreaming
    <2>1. ASSUME UNCHANGED <<seen, announced, lastTaskId>> PROVE IdInv'
      BY <2>1
    <2>2. ASSUME NEW c \in Call, Read(c) PROVE IdInv'
      <3>1. c \in announced'
        BY <2>2, A2AAssumption DEF Read, Announces
      <3>2. QED
        BY <2>2, <3>1 DEF Read, Announces
    <2>3. CASE UNCHANGED vars
      BY <2>1, <2>3 DEF vars
    <2>4. CASE Boot \/ Stop \/ Close
      BY <2>1, <2>4 DEF Boot, Stop, Close, calling
    <2>5. ASSUME NEW c \in Call, Step(c) PROVE IdInv'
      BY <2>1, <2>2, <2>5 DEF Step, EnqueueTask, StartWork, AddArtifact, FinishTask, HandlerReturns,
         LocalReturn, EnsureClient, Connected, Unreachable, Refused, Send, Return, Broken,
         DispatchRefused, LocalInvoke, Answer, GoTo, calling
    <2>6. ASSUME NEW c \in Call, CancelRemote(c) \/ CancelLocal(c) PROVE IdInv'
      BY <2>1, <2>6 DEF CancelRemote, CancelLocal, calling
    <2> QED
      BY <2>3, <2>4, <2>5, <2>6 DEF Next
  <1>3. IdInv => IdKnownWhileStreaming
    BY DEF IdInv
  <1> QED
    BY <1>1, <1>2, <1>3, PTL DEF Spec

-----------------------------------------------------------------------------
(***************************************************************************)
(* The connection.                                                         *)
(***************************************************************************)

PCs == {"idle", "connecting", "send", "streaming", "done"}

\* Without a race one caller at most is connecting, and only before there is a
\* connection; it is open or it was closed by the last one out.
OneConnection ==
  /\ \A c, d \in Call : pc[c] = "connecting" /\ pc[d] = "connecting" => c = d
  /\ \A c \in Call : pc[c] = "connecting" => opened = 0
  /\ \/ opened = 0 /\ client = 0 /\ closed = {}
     \/ opened = 1 /\ client = 1 /\ closed = {}
     \/ opened = 1 /\ client = 0 /\ closed = {1} /\ \A c \in Call : pc[c] = "done"

LeakInv ==
  /\ pc \in [Call -> PCs]
  /\ ~raced => OneConnection

LEMMA LeakInit == Init => LeakInv
<1> SUFFICES ASSUME Init PROVE LeakInv
  OBVIOUS
<1>1. pc = [c \in Call |-> "idle"] /\ client = 0 /\ opened = 0 /\ closed = {}
  BY DEF Init
<1> QED
  BY <1>1 DEF LeakInv, OneConnection, PCs

LEMMA LeakNext == LeakInv /\ [Next]_vars => LeakInv'
<1> SUFFICES ASSUME LeakInv, [Next]_vars PROVE LeakInv'
  OBVIOUS
<1> USE DEF LeakInv, OneConnection, PCs
<1>1. ASSUME UNCHANGED <<connection, pc>> PROVE LeakInv'
  BY <1>1 DEF connection
<1>2. ASSUME NEW c \in Call, NEW where \in PCs \ {"connecting"}, UNCHANGED connection,
             pc[c] # "done", pc' = [pc EXCEPT ![c] = where]
      PROVE  LeakInv'
  BY <1>2 DEF connection
<1>3. CASE UNCHANGED vars
  BY <1>1, <1>3 DEF vars, connection
<1>4. CASE Boot \/ Stop
  BY <1>1, <1>4 DEF Boot, Stop, calling
<1>5. CASE Close
  BY <1>5 DEF Close, calling
<1>6. ASSUME NEW c \in Call, Step(c) PROVE LeakInv'
  <2>1. CASE EnsureClient(c)
    <3>1. CASE Cached
      BY <1>2, <2>1, <3>1 DEF EnsureClient, GoTo, connection
    <3>2. CASE ~Cached /\ ~raced'
      BY <2>1, <3>2 DEF EnsureClient, GoTo, Cached
    <3>3. CASE raced'
      BY <2>1, <3>3 DEF EnsureClient, GoTo
    <3> QED
      BY <2>1, <3>1, <3>2, <3>3 DEF EnsureClient
  <2>2. CASE Connected(c)
    BY <2>2 DEF Connected, GoTo
  <2>3. CASE EnqueueTask(c) \/ StartWork(c) \/ AddArtifact(c) \/ FinishTask(c) \/ Read(c)
    BY <1>1, <2>3 DEF EnqueueTask, StartWork, AddArtifact, FinishTask, Read, calling
  <2>4. CASE \E r \in Raw : HandlerReturns(c, r)
    BY <1>1, <2>4 DEF HandlerReturns, calling
  <2>5. CASE \E r \in Raw : LocalReturn(c, r)
    BY <1>2, <2>5 DEF LocalReturn, Answer
  <2>6. CASE Unreachable(c) \/ Refused(c) \/ Return(c) \/ Broken(c) \/ DispatchRefused(c)
    BY <1>2, <2>6 DEF Unreachable, Refused, Return, Broken, DispatchRefused, Answer
  <2>7. CASE Send(c)
    BY <1>2, <2>7 DEF Send, GoTo
  <2>8. CASE LocalInvoke(c)
    BY <1>2, <2>8 DEF LocalInvoke, GoTo, Answer
  <2> QED
    BY <1>6, <2>1, <2>2, <2>3, <2>4, <2>5, <2>6, <2>7, <2>8 DEF Step
<1>7. ASSUME NEW c \in Call, CancelRemote(c) \/ CancelLocal(c) PROVE LeakInv'
  BY <1>1, <1>7 DEF CancelRemote, CancelLocal, calling
<1> QED
  BY <1>3, <1>4, <1>5, <1>6, <1>7 DEF Next

\* A transport whose first calls did not connect at the same time has closed
\* all it opened, for any number of calls (_ensure_client, close).
THEOREM NothingLeaks == Spec => []NothingLeaksUnraced
<1>1. LeakInv => NothingLeaksUnraced
  <2>1. 1 .. 1 = {1}
    OBVIOUS
  <2>2. LeakInv /\ ~raced /\ client = 0 /\ closed # {} => closed = {1} /\ opened = 1
    BY DEF LeakInv, OneConnection
  <2> QED
    BY <2>1, <2>2 DEF NothingLeaksUnraced
<1> QED
  BY <1>1, LeakInit, LeakNext, PTL DEF Spec

-----------------------------------------------------------------------------
(***************************************************************************)
(* Types.                                                                  *)
(***************************************************************************)

LEMMA QueuedType ==
  ASSUME NEW c \in Call, NEW e \in Events, stream \in [Call -> Seq(Events)],
         stream' = [stream EXCEPT ![c] = Append(@, e)]
  PROVE  stream' \in [Call -> Seq(Events)]
<1>1. stream[c] \in Seq(Events)
  OBVIOUS
<1>2. Append(stream[c], e) \in Seq(Events)
  BY <1>1
<1> QED
  BY <1>2

LEMMA ReadType ==
  ASSUME NEW q \in Seq(Events), q # <<>>
  PROVE  Head(q) \in Events /\ Tail(q) \in Seq(Events)
  OBVIOUS

LEMMA StateTypes ==
  /\ {"submitted", "working", "canceled"} \subseteq TaskStates
  /\ TaskStates \subseteq Events /\ "artifact" \in Events
  /\ \A r : Parsed(r) \in TaskStates
  /\ Raised \in Seen
<1>1. HandlerStates \subseteq TaskStates
  BY DEF TaskStates, Terminal, HandlerStates
<1>2. \A r : Parsed(r) \in HandlerStates
  BY DEF Parsed, HandlerStates
<1> QED
  BY <1>1, <1>2 DEF TaskStates, Terminal, Events, Raised, Seen

LEMMA RawTypes ==
  ASSUME NEW r \in Raw
  PROVE  r.artifacts \in Nat /\ Publishes(r) \in Nat
<1>1. r \in [status : HandlerStates \cup {"odd"}, artifacts : Nat]
  BY A2AAssumption
<1>2. r.artifacts \in Nat
  BY <1>1
<1> QED
  BY <1>2 DEF Publishes

\* What the agent's executor leaves behind, and what the callers do.
ServingOK ==
  /\ task \in [Call -> TaskStates]
  /\ server \in [Call -> {"none", "new", "queued", "handling", "publishing", "over"}]
  /\ raw \in [Call -> Raw \cup {NoRaw}]
  /\ left \in [Call -> Nat]
  /\ stream \in [Call -> Seq(Events)]

CallingOK ==
  /\ lastTaskId \in Call \cup {"none"}
  /\ pc \in [Call -> {"idle", "connecting", "send", "streaming", "done"}]
  /\ seen \in [Call -> Seen]
  /\ announced \subseteq Call
  /\ outcome \in [Call -> Seen]

ConnectionOK ==
  /\ client \in Nat /\ opened \in Nat /\ client <= opened
  /\ closed \subseteq 1 .. opened
  /\ raced \in BOOLEAN

MeshOK ==
  /\ agent \in {"booting", "up", "down"}
  /\ transport \in {"http", "in process"}
  /\ trusted \in BOOLEAN
  /\ skill \in [Call -> Skills]

LEMMA TypeParts == TypeOK <=> ServingOK /\ CallingOK /\ ConnectionOK /\ MeshOK
  BY DEF TypeOK, ServingOK, CallingOK, ConnectionOK, MeshOK

LEMMA ServingKept == ServingOK /\ UNCHANGED serving => ServingOK'
  BY DEF ServingOK, serving

LEMMA CallingKept == CallingOK /\ UNCHANGED calling => CallingOK'
  BY DEF CallingOK, calling

LEMMA ConnectionKept == ConnectionOK /\ UNCHANGED connection => ConnectionOK'
  BY DEF ConnectionOK, connection

LEMMA MeshKept == MeshOK /\ UNCHANGED <<agent, mesh>> => MeshOK'
  BY DEF MeshOK, mesh

LEMMA GoToType ==
  ASSUME CallingOK, NEW c \in Call, NEW w \in {"idle", "connecting", "send", "streaming", "done"}, GoTo(c, w)
  PROVE  CallingOK'
  BY DEF CallingOK, GoTo

LEMMA AnswerType ==
  ASSUME CallingOK, NEW c \in Call, NEW o \in Seen, Answer(c, o)
  PROVE  CallingOK'
  BY DEF CallingOK, Answer

LEMMA PublishType ==
  ASSUME ServingOK, NEW c \in Call, NEW s \in TaskStates, Publish(c, s)
  PROVE  task' \in [Call -> TaskStates] /\ stream' \in [Call -> Seq(Events)]
<1>1. stream' \in [Call -> Seq(Events)]
  <2>1. s \in Events /\ stream \in [Call -> Seq(Events)]
    BY StateTypes DEF ServingOK
  <2> QED
    BY <2>1, QueuedType DEF Publish
<1> QED
  BY <1>1 DEF ServingOK, Publish

LEMMA TypeInit == Init => TypeOK
<1> SUFFICES ASSUME Init PROVE TypeOK
  OBVIOUS
<1>1. NoOutcome \in Seen /\ "none" \in TaskStates
  BY DEF NoOutcome, Seen, TaskStates
<1>2. task \in [Call -> TaskStates] /\ seen \in [Call -> Seen] /\ outcome \in [Call -> Seen]
  BY <1>1 DEF Init
<1>3. raw \in [Call -> Raw \cup {NoRaw}] /\ left \in [Call -> Nat]
  BY DEF Init
<1>5. stream \in [Call -> Seq(Events)]
  <2>1. <<>> \in Seq(Events)
    OBVIOUS
  <2> QED
    BY <2>1 DEF Init
<1>6. ConnectionOK /\ MeshOK
  <2>1. ConnectionOK
    <3>1. client = 0 /\ opened = 0 /\ closed = {}
      BY DEF Init
    <3>2. raced \in BOOLEAN
      BY DEF Init
    <3> QED
      BY <3>1, <3>2 DEF ConnectionOK
  <2>2. MeshOK
    BY Zenon DEF Init, MeshOK
  <2> QED
    BY <2>1, <2>2
<1>7. lastTaskId \in Call \cup {"none"} /\ announced \subseteq Call
  BY DEF Init
<1>4. /\ server \in [Call -> {"none", "new", "queued", "handling", "publishing", "over"}]
      /\ pc \in [Call -> {"idle", "connecting", "send", "streaming", "done"}]
  BY DEF Init
<1> QED
  BY <1>2, <1>3, <1>4, <1>5, <1>6, <1>7, TypeParts DEF ServingOK, CallingOK

LEMMA ServingType ==
  ASSUME ServingOK, NEW c \in Call, Step(c) \/ CancelRemote(c) \/ CancelLocal(c)
  PROVE  ServingOK'
<1>1. CASE EnqueueTask(c)
  <2>1. Publish(c, "submitted")
    BY <1>1 DEF EnqueueTask
  <2>2. task' \in [Call -> TaskStates] /\ stream' \in [Call -> Seq(Events)]
    BY <2>1, StateTypes, PublishType
  <2> QED
    BY <1>1, <2>2 DEF EnqueueTask, ServingOK
<1>2. CASE StartWork(c)
  <2>1. Publish(c, "working")
    BY <1>2 DEF StartWork
  <2>2. task' \in [Call -> TaskStates] /\ stream' \in [Call -> Seq(Events)]
    BY <2>1, StateTypes, PublishType
  <2> QED
    BY <1>2, <2>2 DEF StartWork, ServingOK
<1>3. CASE FinishTask(c)
  <2>1. Publish(c, Parsed(raw[c]))
    BY <1>3 DEF FinishTask
  <2>2. task' \in [Call -> TaskStates] /\ stream' \in [Call -> Seq(Events)]
    BY <2>1, StateTypes, PublishType
  <2> QED
    BY <1>3, <2>2 DEF FinishTask, ServingOK
<1>4. CASE AddArtifact(c)
  <2>1. stream' \in [Call -> Seq(Events)]
    <3>1. stream \in [Call -> Seq(Events)] /\ "artifact" \in Events
      BY StateTypes DEF ServingOK
    <3>2. stream' = [stream EXCEPT ![c] = Append(@, "artifact")]
      BY <1>4 DEF AddArtifact
    <3> QED
      BY <3>1, <3>2, QueuedType
  <2>2. left' \in [Call -> Nat]
    BY <1>4 DEF AddArtifact, ServingOK
  <2> QED
    BY <1>4, <2>1, <2>2 DEF AddArtifact, ServingOK
<1>5. ASSUME NEW r \in Raw, HandlerReturns(c, r) PROVE ServingOK'
  <2>1. Publishes(r) \in Nat
    BY RawTypes
  <2> QED
    BY <1>5, <2>1 DEF HandlerReturns, ServingOK
<1>6. ASSUME NEW r \in Raw, LocalReturn(c, r) PROVE ServingOK'
  BY <1>6, StateTypes DEF LocalReturn, ServingOK
<1>7. CASE EnsureClient(c) \/ Connected(c)
  BY <1>7, ServingKept DEF EnsureClient, Connected
<1>8. CASE Unreachable(c) \/ Refused(c) \/ Return(c) \/ Broken(c) \/ DispatchRefused(c)
  BY <1>8, ServingKept DEF Unreachable, Refused, Return, Broken, DispatchRefused
<1>9. CASE Send(c)
  BY <1>9 DEF Send, ServingOK
<1>10. CASE Read(c)
  <2>1. stream[c] \in Seq(Events) /\ stream[c] # <<>>
    BY <1>10 DEF Read, ServingOK
  <2>2. Tail(stream[c]) \in Seq(Events)
    BY <2>1, ReadType
  <2> QED
    BY <1>10, <2>2 DEF Read, ServingOK
<1>11. CASE LocalInvoke(c)
  BY <1>11, StateTypes DEF LocalInvoke, ServingOK
<1>12. CASE CancelRemote(c)
  <2>1. Append(stream[c], "canceled") \in Seq(Events)
    <3>1. stream[c] \in Seq(Events) /\ "canceled" \in Events
      BY StateTypes DEF ServingOK
    <3> QED
      BY <3>1
  <2>2. stream' \in [Call -> Seq(Events)]
    BY <1>12, <2>1 DEF CancelRemote, ServingOK
  <2> QED
    BY <1>12, <2>2, StateTypes DEF CancelRemote, ServingOK
<1>13. CASE CancelLocal(c)
  BY <1>13, StateTypes DEF CancelLocal, ServingOK
<1> QED
  BY <1>1, <1>2, <1>3, <1>4, <1>5, <1>6, <1>7, <1>8, <1>9, <1>10, <1>11, <1>12, <1>13 DEF Step

LEMMA CallingType ==
  ASSUME ServingOK, CallingOK, NEW c \in Call, Step(c) \/ CancelRemote(c) \/ CancelLocal(c)
  PROVE  CallingOK'
<1>1. CASE EnqueueTask(c) \/ StartWork(c) \/ FinishTask(c) \/ AddArtifact(c)
  BY <1>1, CallingKept DEF EnqueueTask, StartWork, FinishTask, AddArtifact
<1>2. ASSUME NEW r \in Raw, HandlerReturns(c, r) PROVE CallingOK'
  BY <1>2, CallingKept DEF HandlerReturns
<1>3. ASSUME NEW r \in Raw, LocalReturn(c, r) PROVE CallingOK'
  <2>1. [state |-> Parsed(r), artifacts |-> IF r.status \in HandlerStates THEN r.artifacts ELSE 0] \in Seen
    <3>1. r.artifacts \in Nat /\ Parsed(r) \in TaskStates
      BY RawTypes, StateTypes
    <3> QED
      BY <3>1 DEF Seen
  <2> QED
    BY <1>3, <2>1, AnswerType DEF LocalReturn
<1>4. CASE EnsureClient(c) \/ Connected(c) \/ Send(c)
  BY <1>4, GoToType DEF EnsureClient, Connected, Send
<1>5. CASE Unreachable(c) \/ Refused(c) \/ Broken(c) \/ DispatchRefused(c)
  BY <1>5, StateTypes, AnswerType DEF Unreachable, Refused, Broken, DispatchRefused
<1>6. CASE Return(c)
  <2>1. seen[c] \in Seen
    BY DEF CallingOK
  <2> QED
    BY <1>6, <2>1, AnswerType DEF Return
<1>7. CASE Read(c)
  <2>1. stream[c] \in Seq(Events) /\ stream[c] # <<>> /\ seen[c] \in Seen
    BY <1>7 DEF Read, ServingOK, CallingOK
  <2>2. Head(stream[c]) \in Events
    BY <2>1, ReadType
  <2>3. Noted(seen[c], Head(stream[c])) \in Seen
    BY <2>1, <2>2 DEF Noted, Seen, Events
  <2> QED
    BY <1>7, <2>3 DEF Read, CallingOK
<1>8. CASE LocalInvoke(c)
  BY <1>8, StateTypes, GoToType, AnswerType DEF LocalInvoke
<1>9. CASE CancelRemote(c) \/ CancelLocal(c)
  BY <1>9, CallingKept DEF CancelRemote, CancelLocal
<1> QED
  BY <1>1, <1>2, <1>3, <1>4, <1>5, <1>6, <1>7, <1>8, <1>9 DEF Step

LEMMA ConnectionType ==
  ASSUME ConnectionOK, MeshOK, NEW c \in Call, Step(c) \/ CancelRemote(c) \/ CancelLocal(c)
  PROVE  ConnectionOK' /\ MeshOK'
<1>1. UNCHANGED <<agent, mesh>>
  BY DEF Step, EnqueueTask, StartWork, FinishTask, AddArtifact, HandlerReturns, LocalReturn, EnsureClient,
         Connected, Unreachable, Refused, Send, Read, Return, Broken, DispatchRefused, LocalInvoke,
         CancelRemote, CancelLocal
<1>2. ASSUME EnsureClient(c) PROVE ConnectionOK'
  <2>1. raced' \in BOOLEAN
    BY <1>2, Zenon DEF EnsureClient
  <2>2. UNCHANGED <<client, opened, closed>>
    BY <1>2 DEF EnsureClient
  <2> QED
    BY <2>1, <2>2 DEF ConnectionOK
<1>3. ASSUME Connected(c) PROVE ConnectionOK'
  <2>1. opened' = opened + 1 /\ client' = opened' /\ UNCHANGED <<closed, raced>>
    BY <1>3 DEF Connected
  <2> QED
    BY <2>1 DEF ConnectionOK
<1>4. ASSUME UNCHANGED connection PROVE ConnectionOK'
  BY <1>4, ConnectionKept
<1>5. EnsureClient(c) \/ Connected(c) \/ UNCHANGED connection
  BY DEF Step, EnqueueTask, StartWork, FinishTask, AddArtifact, HandlerReturns, LocalReturn,
         Unreachable, Refused, Send, Read, Return, Broken, DispatchRefused, LocalInvoke,
         CancelRemote, CancelLocal
<1> QED
  BY <1>1, <1>2, <1>3, <1>4, <1>5, MeshKept

LEMMA TypeNext == TypeOK /\ [Next]_vars => TypeOK'
<1> SUFFICES ASSUME TypeOK, [Next]_vars PROVE TypeOK'
  OBVIOUS
<1>1. ServingOK /\ CallingOK /\ ConnectionOK /\ MeshOK
  BY TypeParts
<1>2. CASE UNCHANGED vars
  BY <1>2 DEF vars, TypeOK
<1>3. CASE Boot \/ Stop
  BY <1>1, <1>3 DEF Boot, Stop, TypeOK, mesh, serving, connection, calling
<1>4. CASE Close
  <2>1. client \in 1 .. opened
    BY <1>1, <1>4 DEF Close, ConnectionOK
  <2>2. ConnectionOK'
    BY <1>1, <1>4, <2>1 DEF Close, ConnectionOK
  <2>3. ServingOK' /\ CallingOK' /\ MeshOK'
    BY <1>1, <1>4, ServingKept, CallingKept, MeshKept DEF Close
  <2> QED
    BY <2>2, <2>3 DEF TypeOK, ServingOK, CallingOK, ConnectionOK, MeshOK
<1>5. ASSUME NEW c \in Call, Step(c) \/ CancelRemote(c) \/ CancelLocal(c) PROVE TypeOK'
  <2>1. ServingOK' /\ CallingOK' /\ ConnectionOK' /\ MeshOK'
    BY <1>1, <1>5, ServingType, CallingType, ConnectionType
  <2> QED
    BY <2>1 DEF TypeOK, ServingOK, CallingOK, ConnectionOK, MeshOK
<1> QED
  BY <1>2, <1>3, <1>4, <1>5 DEF Next

\* Every variable keeps its type, and what is closed or held was opened,
\* for any number of calls and whatever handlers return.
THEOREM A2ATypeCorrect == Spec => []TypeOK
  BY TypeInit, TypeNext, PTL DEF Spec

-----------------------------------------------------------------------------
(***************************************************************************)
(* What a caller gets.                                                     *)
(***************************************************************************)

Open == {"none", "submitted", "working"}

\* How many events the caller has still to read before the first artifact, and
\* which one comes next when it is k of them.
Due(s) == IF s.state = "none" THEN 2 ELSE IF s.state = "submitted" THEN 1 ELSE 0
Opening(k) == IF k = 2 THEN "submitted" ELSE "working"

\* A state and a number of artifacts that a caller may be told of result r.
Reported(r, s, n) == s = Parsed(r) /\ (s = "completed" => n = r.artifacts)

\* What was read and what is still to be read make up what the handler's result
\* r publishes: s is what was read, q the queue, p the executor's place, l the
\* artifacts it has left.  Only the last event of a finished stream is a
\* terminal one.
Flow(s, q, p, r, l) ==
  /\ p # "over" \/ q # <<>> => s.state \in Open
  /\ \A i \in 1 .. Len(q) : ~ (p = "over" /\ i = Len(q)) =>
       q[i] = IF i <= Due(s) THEN Opening(Due(s) + 1 - i) ELSE "artifact"
  /\ p \in {"none", "new"} => q = <<>> /\ s = NoOutcome
  /\ p = "queued" => Len(q) + 1 = Due(s) /\ s.artifacts = 0
  /\ p = "handling" => Len(q) = Due(s) /\ s.artifacts = 0
  /\ p = "publishing" => /\ Len(q) >= Due(s)
                         /\ s.artifacts + (Len(q) - Due(s)) + l = Publishes(r)
  /\ p = "over" =>
       \/ q = <<>> /\ s.state = "canceled"
       \/ q = <<>> /\ Reported(r, s.state, s.artifacts)
       \/ q # <<>> /\ q[Len(q)] = "canceled"
       \/ Len(q) > Due(s) /\ Reported(r, q[Len(q)], s.artifacts + (Len(q) - 1 - Due(s)))

\* One call's part of the invariant.
CallInv(c) ==
  /\ transport = "http" => Flow(seen[c], stream[c], server[c], raw[c], left[c])
  /\ transport = "in process" => /\ pc[c] \notin {"connecting", "send"}
                                /\ (pc[c] = "streaming" => server[c] = "handling")
  /\ outcome[c].state \in HandlerStates =>
       pc[c] = "done" /\ server[c] = "over" /\ Reported(raw[c], outcome[c].state, outcome[c].artifacts)

WholeInv == \A c \in Call : CallInv(c)

\* Reading an event moves it from the queue to what was read.
LEMMA FlowRead ==
  ASSUME NEW s \in Seen, NEW q \in Seq(Events), NEW p, NEW r, NEW l,
         q # <<>>, Flow(s, q, p, r, l)
  PROVE  Flow(Noted(s, Head(q)), Tail(q), p, r, l)
<1> DEFINE t == Noted(s, Head(q))
           n == Len(q)
<1>1. /\ n \in Nat /\ n >= 1 /\ Head(q) = q[1] /\ Len(Tail(q)) = n - 1
      /\ \A i \in 1 .. n - 1 : Tail(q)[i] = q[i + 1]
      /\ Tail(q) = <<>> <=> n = 1
  <2>1. n \in Nat /\ n >= 1 /\ Head(q) = q[1] /\ Len(Tail(q)) = n - 1
    OBVIOUS
  <2>2. \A i \in 1 .. n - 1 : Tail(q)[i] = q[i + 1]
    OBVIOUS
  <2>3. Tail(q) \in Seq(Events)
    BY ReadType
  <2>4. Tail(q) = <<>> <=> n = 1
    BY <2>1, <2>3
  <2> QED
    BY <2>1, <2>2, <2>4
<1>2. s.state \in Open /\ s.artifacts \in Nat /\ Due(s) \in 0 .. 2
  BY DEF Flow, Seen, Due
<1>3. p \notin {"none", "new"}
  BY DEF Flow
<1>4. CASE ~ (p = "over" /\ n = 1)
  <2>1. q[1] = IF 1 <= Due(s) THEN Opening(Due(s)) ELSE "artifact"
    <3>1. 1 \in 1 .. n /\ ~ (p = "over" /\ 1 = n) /\ Due(s) + 1 - 1 = Due(s)
      BY <1>1, <1>2, <1>4
    <3> QED
      BY <3>1 DEF Flow
  <2>2. \/ /\ Due(s) > 0 /\ t = [state |-> Opening(Due(s)), artifacts |-> s.artifacts]
        \/ /\ Due(s) = 0 /\ t = [state |-> "working", artifacts |-> s.artifacts + 1]
    <3>1. CASE Due(s) > 0
      <4>1. q[1] = Opening(Due(s)) /\ q[1] # "artifact"
        BY <1>2, <2>1, <3>1 DEF Opening
      <4> QED
        BY <1>1, <3>1, <4>1 DEF Noted
    <3>2. CASE Due(s) = 0
      <4>1. q[1] = "artifact" /\ s.state = "working"
        BY <1>2, <2>1, <3>2 DEF Open, Due
      <4> QED
        BY <1>1, <3>2, <4>1 DEF Noted
    <3> QED
      BY <1>2, <3>1, <3>2
  <2>3. /\ t.state \in Open
        /\ \/ Due(s) > 0 /\ Due(t) = Due(s) - 1 /\ t.artifacts = s.artifacts
           \/ Due(s) = 0 /\ Due(t) = 0 /\ t.artifacts = s.artifacts + 1
    BY <1>2, <2>2 DEF Open, Due, Opening
  <2> HIDE DEF t, n
  <2>4. ASSUME NEW i \in 1 .. n - 1, ~ (p = "over" /\ i = n - 1)
        PROVE  Tail(q)[i] = IF i <= Due(t) THEN Opening(Due(t) + 1 - i) ELSE "artifact"
    <3>1. i + 1 \in 1 .. n /\ ~ (p = "over" /\ i + 1 = n)
      BY <1>1, <2>4
    <3>2. q[i + 1] = IF i + 1 <= Due(s) THEN Opening(Due(s) + 1 - (i + 1)) ELSE "artifact"
      BY <3>1 DEF Flow, n
    <3>3. i + 1 <= Due(s) <=> i <= Due(t)
      BY <1>1, <1>2, <2>3, <2>4
    <3>4. i <= Due(t) => Due(s) + 1 - (i + 1) = Due(t) + 1 - i
      BY <1>1, <1>2, <2>3, <2>4
    <3> QED
      BY <1>1, <3>2, <3>3, <3>4
  <2>5. p = "queued" => (n - 1) + 1 = Due(t) /\ t.artifacts = 0
    BY <1>1, <1>2, <2>3 DEF Flow, n
  <2>6. p = "handling" => n - 1 = Due(t) /\ t.artifacts = 0
    BY <1>1, <1>2, <2>3 DEF Flow, n
  <2>7. p = "publishing" => /\ n - 1 >= Due(t)
                            /\ t.artifacts + (n - 1 - Due(t)) + l = Publishes(r)
    <3> SUFFICES ASSUME p = "publishing"
                 PROVE  n - 1 >= Due(t) /\ t.artifacts + (n - 1 - Due(t)) = s.artifacts + (n - Due(s))
      BY DEF Flow, n
    <3>1. n >= Due(s)
      BY DEF Flow, n
    <3> QED
      BY <1>1, <1>2, <2>3, <3>1
  <2>8. p = "over" =>
          \/ n - 1 > 0 /\ Tail(q)[n - 1] = "canceled"
          \/ n - 1 > Due(t) /\ Reported(r, Tail(q)[n - 1], t.artifacts + (n - 1 - 1 - Due(t)))
    <3> SUFFICES ASSUME p = "over" PROVE
          \/ q[n] = "canceled"
          \/ n - 1 > Due(t) /\ Reported(r, q[n], t.artifacts + (n - 1 - 1 - Due(t)))
      BY <1>1, <1>4
    <3>1. \/ q[n] = "canceled"
          \/ n > Due(s) /\ Reported(r, q[n], s.artifacts + (n - 1 - Due(s)))
      BY <1>1 DEF Flow, n
    <3>2. n > Due(s) => n - 1 > Due(t)
      BY <1>1, <1>2, <1>4, <2>3
    <3>3. t.artifacts + (n - 1 - 1 - Due(t)) = s.artifacts + (n - 1 - Due(s))
      BY <1>1, <1>2, <2>3
    <3> QED
      BY <3>1, <3>2, <3>3
  <2>9. Flow(t, Tail(q), p, r, l)
    BY <1>1, <1>3, <1>4, <2>3, <2>4, <2>5, <2>6, <2>7, <2>8 DEF Flow
  <2> QED
    BY <2>9 DEF t
<1>5. CASE p = "over" /\ n = 1
  <2>1. \/ q[1] = "canceled"
        \/ Due(s) = 0 /\ Reported(r, q[1], s.artifacts)
    <3>1. \/ q[n] = "canceled"
          \/ n > Due(s) /\ Reported(r, q[n], s.artifacts + (n - 1 - Due(s)))
      BY <1>1, <1>5 DEF Flow
    <3>2. n > Due(s) => Due(s) = 0 /\ s.artifacts + (n - 1 - Due(s)) = s.artifacts
      BY <1>2, <1>5
    <3> QED
      BY <1>5, <3>1, <3>2
  <2>2. q[1] # "artifact"
    BY <2>1, ParsedSettles DEF Reported, HandlerStates
  <2>3. t.state = q[1] /\ t.artifacts = s.artifacts
    BY <1>1, <2>2 DEF Noted
  <2>4. Tail(q) = <<>> /\ Len(Tail(q)) = 0
    BY <1>1, <1>5
  <2> HIDE DEF t
  <2>5. Flow(t, Tail(q), p, r, l)
    BY <1>5, <2>1, <2>3, <2>4 DEF Flow
  <2> QED
    BY <2>5 DEF t
<1> QED
  BY <1>4, <1>5

\* What an appended event adds to an unfinished stream.
LEMMA FlowLonger ==
  ASSUME NEW s \in Seen, NEW q \in Seq(Events), NEW p, NEW r, NEW l, NEW e, NEW m,
         p # "over", Flow(s, q, p, r, l), m = Append(q, e)
  PROVE  /\ Len(q) \in Nat /\ Len(m) = Len(q) + 1 /\ m # <<>> /\ m[Len(m)] = e
         /\ s.state \in Open /\ s.artifacts \in Nat /\ Due(s) \in 0 .. 2
         /\ \A i \in 1 .. Len(m) : i # Len(m) =>
              m[i] = IF i <= Due(s) THEN Opening(Due(s) + 1 - i) ELSE "artifact"
<1>1. /\ Len(q) \in Nat /\ Len(m) = Len(q) + 1 /\ m # <<>> /\ m[Len(m)] = e
      /\ \A i \in 1 .. Len(q) : m[i] = q[i]
  OBVIOUS
<1>2. s.state \in Open /\ s.artifacts \in Nat /\ Due(s) \in 0 .. 2
  BY DEF Flow, Seen, Due
<1>3. ASSUME NEW i \in 1 .. Len(m), i # Len(m)
      PROVE  m[i] = IF i <= Due(s) THEN Opening(Due(s) + 1 - i) ELSE "artifact"
  <2>1. i \in 1 .. Len(q) /\ m[i] = q[i]
    BY <1>1, <1>3
  <2> QED
    BY <2>1 DEF Flow
<1> QED
  BY <1>1, <1>2, <1>3

\* The agent's steps on a call, on its part of the flow.
LEMMA FlowSteps ==
  ASSUME NEW s \in Seen, NEW q \in Seq(Events), NEW p, NEW r, NEW l \in Nat, Flow(s, q, p, r, l)
  PROVE  /\ p = "new" => Flow(s, Append(q, "submitted"), "queued", r, l)
         /\ p = "queued" => Flow(s, Append(q, "working"), "handling", r, l)
         /\ p = "handling" => \A a : Publishes(a) \in Nat => Flow(s, q, "publishing", a, Publishes(a))
         /\ p = "publishing" /\ l > 0 => Flow(s, Append(q, "artifact"), "publishing", r, l - 1)
         /\ p = "publishing" /\ l = 0 => Flow(s, Append(q, Parsed(r)), "over", r, 0)
         /\ p \in {"queued", "handling", "publishing"} => Flow(s, Append(q, "canceled"), "over", r, 0)
         /\ p = "over" => Flow(s, q, "over", r, 0)
<1>1. ASSUME p = "new" PROVE Flow(s, Append(q, "submitted"), "queued", r, l)
  <2> DEFINE m == Append(q, "submitted")
  <2>1. q = <<>> /\ s = NoOutcome
    BY <1>1 DEF Flow
  <2>2. Len(m) = 1 /\ m[1] = "submitted" /\ m # <<>>
    BY <2>1
  <2>3. s.state = "none" /\ s.artifacts = 0 /\ Due(s) = 2
    BY <2>1 DEF NoOutcome, Due
  <2> HIDE DEF m
  <2>4. Flow(s, m, "queued", r, l)
    BY <2>2, <2>3 DEF Flow, Open, Opening
  <2> QED
    BY <2>4 DEF m
<1>2. ASSUME p = "queued" PROVE Flow(s, Append(q, "working"), "handling", r, l)
  <2> DEFINE m == Append(q, "working")
  <2>0. m = Append(q, "working")
    OBVIOUS
  <2> HIDE DEF m
  <2>1. /\ Len(q) \in Nat /\ Len(m) = Len(q) + 1 /\ m # <<>> /\ m[Len(m)] = "working"
        /\ s.state \in Open /\ Due(s) \in 0 .. 2
        /\ \A i \in 1 .. Len(m) : i # Len(m) =>
             m[i] = IF i <= Due(s) THEN Opening(Due(s) + 1 - i) ELSE "artifact"
    BY <1>2, <2>0, FlowLonger
  <2>2. Len(m) = Due(s) /\ s.artifacts = 0
    BY <1>2, <2>1 DEF Flow
  <2>3. ASSUME NEW i \in 1 .. Len(m), i = Len(m)
        PROVE  m[i] = IF i <= Due(s) THEN Opening(Due(s) + 1 - i) ELSE "artifact"
    <3>1. i <= Due(s) /\ Due(s) + 1 - i = 1
      BY <2>1, <2>2, <2>3
    <3> QED
      BY <2>1, <2>3, <3>1 DEF Opening
  <2>4. Flow(s, m, "handling", r, l)
    BY <2>1, <2>2, <2>3 DEF Flow
  <2> QED
    BY <2>4 DEF m
<1>3. ASSUME p = "handling", NEW a, Publishes(a) \in Nat PROVE Flow(s, q, "publishing", a, Publishes(a))
  <2>1. Len(q) = Due(s) /\ s.artifacts = 0 /\ Len(q) \in Nat /\ Due(s) \in Nat
    BY <1>3 DEF Flow, Due
  <2>2. Len(q) >= Due(s) /\ s.artifacts + (Len(q) - Due(s)) + Publishes(a) = Publishes(a)
    BY <1>3, <2>1
  <2> QED
    BY <1>3, <2>2 DEF Flow
<1>4. ASSUME p = "publishing"
      PROVE  /\ Len(q) \in Nat /\ Due(s) \in 0 .. 2 /\ s.artifacts \in Nat /\ Len(q) >= Due(s)
             /\ s.artifacts + (Len(q) - Due(s)) + l = Publishes(r)
  BY <1>4 DEF Flow, Due, Seen
<1>5. ASSUME p = "publishing", l > 0 PROVE Flow(s, Append(q, "artifact"), "publishing", r, l - 1)
  <2> DEFINE m == Append(q, "artifact")
  <2>0. m = Append(q, "artifact")
    OBVIOUS
  <2> HIDE DEF m
  <2>1. /\ Len(q) \in Nat /\ Len(m) = Len(q) + 1 /\ m # <<>> /\ m[Len(m)] = "artifact"
        /\ s.state \in Open
        /\ \A i \in 1 .. Len(m) : i # Len(m) =>
             m[i] = IF i <= Due(s) THEN Opening(Due(s) + 1 - i) ELSE "artifact"
    BY <1>5, <2>0, FlowLonger
  <2>2. \A i \in 1 .. Len(m) : m[i] = IF i <= Due(s) THEN Opening(Due(s) + 1 - i) ELSE "artifact"
    BY <1>4, <1>5, <2>1
  <2>3. Len(m) >= Due(s) /\ Len(m) - Due(s) = (Len(q) - Due(s)) + 1
    BY <1>4, <1>5, <2>1
  <2>4. s.artifacts + (Len(m) - Due(s)) + (l - 1) = Publishes(r)
    BY <1>4, <1>5, <2>1, <2>3
  <2>5. Flow(s, m, "publishing", r, l - 1)
    BY <2>1, <2>2, <2>3, <2>4 DEF Flow
  <2> QED
    BY <2>5 DEF m
<1>6. ASSUME p = "publishing", l = 0 PROVE Flow(s, Append(q, Parsed(r)), "over", r, 0)
  <2> DEFINE m == Append(q, Parsed(r))
  <2>0. m = Append(q, Parsed(r))
    OBVIOUS
  <2> HIDE DEF m
  <2>1. /\ Len(q) \in Nat /\ Len(m) = Len(q) + 1 /\ m # <<>> /\ m[Len(m)] = Parsed(r)
        /\ s.state \in Open
        /\ \A i \in 1 .. Len(m) : i # Len(m) =>
             m[i] = IF i <= Due(s) THEN Opening(Due(s) + 1 - i) ELSE "artifact"
    BY <1>6, <2>0, FlowLonger
  <2>2. Len(m) > Due(s) /\ Len(m) - 1 - Due(s) = Len(q) - Due(s)
    BY <1>4, <1>6, <2>1
  <2>3. s.artifacts + (Len(q) - Due(s)) = Publishes(r)
    BY <1>4, <1>6
  <2>4. Reported(r, m[Len(m)], s.artifacts + (Len(m) - 1 - Due(s)))
    BY <2>1, <2>2, <2>3 DEF Reported, Publishes
  <2>5. Flow(s, m, "over", r, 0)
    BY <2>1, <2>2, <2>4 DEF Flow
  <2> QED
    BY <2>5 DEF m
<1>7. ASSUME p \in {"queued", "handling", "publishing"} PROVE Flow(s, Append(q, "canceled"), "over", r, 0)
  <2> DEFINE m == Append(q, "canceled")
  <2>0. m = Append(q, "canceled")
    OBVIOUS
  <2> HIDE DEF m
  <2>1. /\ m # <<>> /\ m[Len(m)] = "canceled" /\ s.state \in Open
        /\ \A i \in 1 .. Len(m) : i # Len(m) =>
             m[i] = IF i <= Due(s) THEN Opening(Due(s) + 1 - i) ELSE "artifact"
    <3>1. p # "over"
      BY <1>7
    <3>2. /\ Len(q) \in Nat /\ Len(m) = Len(q) + 1 /\ m # <<>> /\ m[Len(m)] = "canceled"
          /\ s.state \in Open
          /\ \A i \in 1 .. Len(m) : i # Len(m) =>
               m[i] = IF i <= Due(s) THEN Opening(Due(s) + 1 - i) ELSE "artifact"
      BY <2>0, <3>1, FlowLonger
    <3> QED
      BY <3>2
  <2>2. Flow(s, m, "over", r, 0)
    BY <2>1 DEF Flow
  <2> QED
    BY <2>2 DEF m
<1>8. p = "over" => Flow(s, q, "over", r, 0)
  BY DEF Flow
<1> QED
  BY <1>1, <1>2, <1>3, <1>5, <1>6, <1>7, <1>8

\* What CallInv says of a call only changes with the call's own state.
Same(d) ==
  /\ seen'[d] = seen[d] /\ stream'[d] = stream[d] /\ server'[d] = server[d]
  /\ raw'[d] = raw[d] /\ left'[d] = left[d] /\ pc'[d] = pc[d] /\ outcome'[d] = outcome[d]

LEMMA SameKept ==
  ASSUME NEW d \in Call, CallInv(d), Same(d), transport' = transport
  PROVE  CallInv(d)'
<1>1. Flow(seen[d], stream[d], server[d], raw[d], left[d])'
        = Flow(seen[d], stream[d], server[d], raw[d], left[d])
  BY DEF Same
<1>2. Reported(raw[d], outcome[d].state, outcome[d].artifacts)'
        = Reported(raw[d], outcome[d].state, outcome[d].artifacts)
  BY DEF Same
<1> QED
  BY <1>1, <1>2 DEF CallInv, Same

\* A call's step is about that call.
LEMMA OthersSame ==
  ASSUME TypeOK, NEW c \in Call, Step(c) \/ CancelRemote(c) \/ CancelLocal(c), NEW d \in Call, d # c
  PROVE  Same(d)
<1> USE DEF Same, TypeOK, mesh, serving, calling
<1>1. CASE EnqueueTask(c) \/ StartWork(c) \/ FinishTask(c)
  BY <1>1 DEF EnqueueTask, StartWork, FinishTask, Publish
<1>2. CASE AddArtifact(c)
  BY <1>2 DEF AddArtifact
<1>3. CASE \E r \in Raw : HandlerReturns(c, r)
  BY <1>3 DEF HandlerReturns
<1>4. CASE \E r \in Raw : LocalReturn(c, r)
  BY <1>4 DEF LocalReturn, Answer
<1>5. CASE EnsureClient(c) \/ Connected(c) \/ Send(c)
  BY <1>5 DEF EnsureClient, Connected, Send, GoTo
<1>6. CASE Unreachable(c) \/ Refused(c) \/ Return(c) \/ Broken(c) \/ DispatchRefused(c)
  BY <1>6 DEF Unreachable, Refused, Return, Broken, DispatchRefused, Answer
<1>7. CASE Read(c)
  BY <1>7 DEF Read
<1>8. CASE LocalInvoke(c)
  BY <1>8 DEF LocalInvoke, GoTo, Answer
<1>9. CASE CancelRemote(c) \/ CancelLocal(c)
  BY <1>9 DEF CancelRemote, CancelLocal
<1> QED
  BY <1>1, <1>2, <1>3, <1>4, <1>5, <1>6, <1>7, <1>8, <1>9 DEF Step

LEMMA RaisedIsNoOutcome == Raised.state \notin HandlerStates
  BY DEF Raised, HandlerStates

\* The call that takes the step keeps its part.
LEMMA OwnKept ==
  ASSUME TypeOK, LifeInv, NEW c \in Call, CallInv(c),
         Step(c) \/ CancelRemote(c) \/ CancelLocal(c)
  PROVE  CallInv(c)'
<1>0. /\ seen[c] \in Seen /\ stream[c] \in Seq(Events) /\ left[c] \in Nat
      /\ c \in DOMAIN server /\ c \in DOMAIN raw /\ c \in DOMAIN left /\ c \in DOMAIN pc
      /\ c \in DOMAIN stream /\ c \in DOMAIN seen /\ c \in DOMAIN outcome
      /\ transport \in {"http", "in process"}
  BY DEF TypeOK
<1>1. transport' = transport
  BY DEF Step, EnqueueTask, StartWork, FinishTask, AddArtifact, HandlerReturns, LocalReturn, EnsureClient,
         Connected, Unreachable, Refused, Send, Read, Return, Broken, DispatchRefused, LocalInvoke,
         CancelRemote, CancelLocal, mesh
<1>2. ASSUME transport = "http" => Flow(seen[c], stream'[c], server'[c], raw'[c], left'[c]),
             UNCHANGED <<seen, pc, outcome>>, server[c] # "over",
             transport = "in process" /\ server[c] = "handling" => server'[c] = "handling"
      PROVE  CallInv(c)'
  <2>1. outcome[c].state \notin HandlerStates
    BY <1>2 DEF CallInv
  <2> QED
    BY <1>1, <1>2, <2>1 DEF CallInv
<1>3. ASSUME NEW o, o.state \notin HandlerStates, pc'[c] = "done", outcome'[c] = o,
             UNCHANGED <<seen, stream, server, raw, left>>
      PROVE  CallInv(c)'
  BY <1>1, <1>3 DEF CallInv
<1>4. CASE EnqueueTask(c)
  BY <1>0, <1>2, <1>4, FlowSteps DEF EnqueueTask, Publish, CallInv, calling
<1>5. CASE StartWork(c)
  BY <1>0, <1>2, <1>5, FlowSteps DEF StartWork, Publish, CallInv, calling
<1>6. CASE AddArtifact(c)
  <2>1. /\ server[c] = "publishing" /\ left[c] > 0 /\ left'[c] = left[c] - 1
        /\ stream'[c] = Append(stream[c], "artifact") /\ UNCHANGED <<server, raw, seen, pc, outcome>>
    BY <1>0, <1>6 DEF AddArtifact, calling
  <2>2. transport = "http" => Flow(seen[c], stream'[c], server'[c], raw'[c], left'[c])
    BY <1>0, <2>1, FlowSteps DEF CallInv
  <2> QED
    BY <1>2, <2>1, <2>2
<1>7. CASE FinishTask(c)
  BY <1>0, <1>2, <1>7, FlowSteps DEF FinishTask, MayFinish, Publish, CallInv, calling
<1>8. ASSUME NEW r \in Raw, HandlerReturns(c, r) PROVE CallInv(c)'
  <2>1. /\ server[c] = "handling" /\ server'[c] = "publishing" /\ transport = "http"
        /\ left'[c] = Publishes(r) /\ raw'[c] = r /\ UNCHANGED <<stream, seen, pc, outcome>>
    BY <1>0, <1>8 DEF HandlerReturns, calling
  <2>2. Flow(seen[c], stream[c], "publishing", r, Publishes(r))
    BY <1>0, <2>1, FlowSteps, RawTypes DEF CallInv
  <2> QED
    BY <1>2, <2>1, <2>2
<1>9. ASSUME NEW r \in Raw, LocalReturn(c, r) PROVE CallInv(c)'
  <2>1. /\ transport = "in process" /\ pc'[c] = "done" /\ server'[c] = "over" /\ raw'[c] = r
        /\ outcome'[c].state = Parsed(r)
        /\ outcome'[c].artifacts = IF r.status \in HandlerStates THEN r.artifacts ELSE 0
    BY <1>0, <1>9 DEF LocalReturn, Answer
  <2>2. Reported(r, Parsed(r), IF r.status \in HandlerStates THEN r.artifacts ELSE 0)
    BY DEF Reported, Parsed
  <2> QED
    BY <1>1, <2>1, <2>2 DEF CallInv
<1>10. CASE EnsureClient(c) \/ Connected(c)
  <2>1. /\ transport = "http" /\ pc[c] # "done" /\ UNCHANGED <<seen, stream, server, raw, left, outcome>>
    <3>1. CASE EnsureClient(c)
      BY <3>1 DEF EnsureClient, GoTo, serving
    <3>2. CASE Connected(c)
      <4>1. pc[c] = "connecting" /\ UNCHANGED <<seen, stream, server, raw, left, outcome>>
        BY <3>2 DEF Connected, GoTo, serving
      <4> QED
        BY <1>0, <4>1 DEF CallInv
    <3> QED
      BY <1>10, <3>1, <3>2
  <2> QED
    BY <1>1, <2>1 DEF CallInv
<1>11. CASE Unreachable(c) \/ Refused(c) \/ Broken(c) \/ DispatchRefused(c)
  BY <1>0, <1>3, <1>11, RaisedIsNoOutcome
     DEF Unreachable, Refused, Broken, DispatchRefused, Answer, serving
<1>12. CASE Send(c)
  <2>1. transport = "http" /\ server[c] = "none" /\ server'[c] = "new" /\ pc[c] # "done"
    <3>1. pc[c] = "send" /\ server'[c] = "new"
      BY <1>0, <1>12 DEF Send
    <3>2. transport = "http"
      BY <1>0, <3>1 DEF CallInv
    <3> QED
      BY <3>1, <3>2 DEF LifeInv
  <2>2. UNCHANGED <<seen, stream, raw, left, outcome>>
    BY <1>12 DEF Send, GoTo
  <2>3. Flow(seen[c], stream[c], "new", raw[c], left[c])
    BY <2>1 DEF CallInv, Flow
  <2> QED
    BY <1>1, <2>1, <2>2, <2>3 DEF CallInv
<1>13. CASE Read(c)
  <2>1. /\ seen'[c] = Noted(seen[c], Head(stream[c])) /\ stream'[c] = Tail(stream[c])
        /\ stream[c] # <<>> /\ UNCHANGED <<server, raw, left, pc, outcome>>
    BY <1>0, <1>13 DEF Read
  <2>2. transport = "http" => Flow(seen'[c], stream'[c], server[c], raw[c], left[c])
    BY <1>0, <2>1, FlowRead DEF CallInv
  <2> QED
    BY <1>1, <2>1, <2>2 DEF CallInv
<1>14. CASE Return(c)
  <2>1. /\ pc[c] = "streaming" /\ stream[c] = <<>> /\ server[c] = "over" /\ pc'[c] = "done"
        /\ outcome'[c] = seen[c] /\ UNCHANGED <<seen, stream, server, raw, left>>
    BY <1>0, <1>14 DEF Return, Answer, serving
  <2>2. transport = "http"
    BY <1>0, <2>1 DEF CallInv
  <2>3. seen[c].state = "canceled" \/ Reported(raw[c], seen[c].state, seen[c].artifacts)
    <3>1. Flow(seen[c], <<>>, "over", raw[c], left[c])
      BY <2>1, <2>2 DEF CallInv
    <3>2. ~ (Len(<<>>) > Due(seen[c]))
      BY DEF Due
    <3> QED
      BY <3>1, <3>2 DEF Flow
  <2>4. "canceled" \notin HandlerStates
    BY DEF HandlerStates
  <2> QED
    BY <1>1, <2>1, <2>2, <2>3, <2>4 DEF CallInv
<1>15. CASE LocalInvoke(c)
  <2>1. outcome[c].state \notin HandlerStates /\ transport = "in process"
    BY <1>15 DEF LocalInvoke, CallInv
  <2>2. CASE skill[c] = "offered"
    BY <1>0, <1>1, <1>15, <2>1, <2>2 DEF LocalInvoke, GoTo, CallInv
  <2>3. CASE skill[c] # "offered"
    BY <1>0, <1>1, <1>15, <2>1, <2>3, RaisedIsNoOutcome DEF LocalInvoke, Answer, CallInv
  <2> QED
    BY <2>2, <2>3
<1>16. CASE CancelRemote(c)
  <2>1. /\ transport = "http" /\ server'[c] = "over" /\ left'[c] = 0 /\ raw' = raw
        /\ stream'[c] = (IF server[c] = "over" THEN stream[c] ELSE Append(stream[c], "canceled"))
        /\ UNCHANGED <<seen, pc, outcome>>
    BY <1>0, <1>16 DEF CancelRemote, calling
  <2>2. server[c] \in {"queued", "handling", "publishing", "over"}
    BY <1>16, <2>1 DEF CancelRemote, Cancellable, LifeInv, Phase
  <2>3. Flow(seen[c], stream'[c], "over", raw[c], 0)
    BY <1>0, <2>1, <2>2, FlowSteps DEF CallInv
  <2> QED
    BY <1>1, <2>1, <2>3 DEF CallInv
<1>17. CASE CancelLocal(c)
  BY <1>1, <1>17, SameKept DEF CancelLocal, calling, Same
<1> QED
  BY <1>4, <1>5, <1>6, <1>7, <1>8, <1>9, <1>10, <1>11, <1>12, <1>13, <1>14, <1>15, <1>16, <1>17 DEF Step

LEMMA WholeInit == Init => WholeInv
<1> SUFFICES ASSUME Init, NEW c \in Call PROVE CallInv(c)
  BY DEF WholeInv
<1>1. /\ seen[c] = NoOutcome /\ stream[c] = <<>> /\ server[c] = "none" /\ pc[c] = "idle"
      /\ outcome[c].state = "none"
  BY DEF Init, NoOutcome
<1>2. Len(stream[c]) = 0 /\ seen[c].state = "none"
  BY <1>1 DEF NoOutcome
<1> QED
  BY <1>1, <1>2 DEF CallInv, Flow, Open, HandlerStates

LEMMA WholeNext == TypeOK /\ LifeInv /\ WholeInv /\ [Next]_vars => WholeInv'
<1> SUFFICES ASSUME TypeOK, LifeInv, WholeInv, [Next]_vars, NEW d \in Call PROVE CallInv(d)'
  BY DEF WholeInv
<1>1. CallInv(d)
  BY DEF WholeInv
<1>2. CASE UNCHANGED vars
  BY <1>1, <1>2, SameKept DEF vars, Same
<1>3. CASE Boot \/ Stop \/ Close
  BY <1>1, <1>3, SameKept DEF Boot, Stop, Close, mesh, serving, calling, Same
<1>4. ASSUME NEW c \in Call, Step(c) \/ CancelRemote(c) \/ CancelLocal(c) PROVE CallInv(d)'
  <2>1. CASE c = d
    BY <1>1, <1>4, <2>1, OwnKept
  <2>2. CASE c # d
    <3>1. transport' = transport
      BY <1>4 DEF Step, EnqueueTask, StartWork, FinishTask, AddArtifact, HandlerReturns, LocalReturn,
         EnsureClient, Connected, Unreachable, Refused, Send, Read, Return, Broken, DispatchRefused,
         LocalInvoke, CancelRemote, CancelLocal, mesh
    <3> QED
      BY <1>1, <1>4, <2>2, <3>1, OthersSame, SameKept
  <2> QED
    BY <2>1, <2>2
<1> QED
  BY <1>2, <1>3, <1>4 DEF Next

\* A caller is told what its own handler reported, with all of its artifacts
\* when the stage completed, over either transport, however the calls of the
\* stage, their cancels and the agent's end interleave (invoke, execute).
THEOREM OutcomesAreWhole == Spec => []OutcomeIsWhole
<1>1. WholeInv => OutcomeIsWhole
  BY DEF WholeInv, CallInv, OutcomeIsWhole, Reported
<1>2. Spec => []LifeInv
  BY LifeInit, LifeNext, PTL DEF Spec
<1> QED
  BY <1>1, <1>2, A2ATypeCorrect, WholeInit, WholeNext, PTL DEF Spec
=============================================================================
