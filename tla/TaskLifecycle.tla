---------------------------- MODULE TaskLifecycle ----------------------------
(***************************************************************************)
(* What an A2A task promises its caller: it is submitted, it is worked on, *)
(* it settles, and a finished task never changes again.  The states and    *)
(* the two classes of settled states are TaskState's (keel/models.py).     *)
(***************************************************************************)
CONSTANT Task

VARIABLE state  \* by task; "none" before the task exists

Terminal == {"completed", "failed", "canceled", "rejected"}
Interrupted == {"input_required"}
TaskStates == {"none", "submitted", "working"} \cup Terminal \cup Interrupted

Init == state = [t \in Task |-> "none"]

Submit(t) == state[t] = "none" /\ state' = [state EXCEPT ![t] = "submitted"]

Work(t) == state[t] = "submitted" /\ state' = [state EXCEPT ![t] = "working"]

Settle(t) ==
  /\ state[t] = "working"
  /\ \E s \in (Terminal \ {"canceled"}) \cup Interrupted : state' = [state EXCEPT ![t] = s]

\* A task that has begun and not finished can be cancelled, parked ones too.
Cancel(t) ==
  /\ state[t] \in {"submitted", "working"} \cup Interrupted
  /\ state' = [state EXCEPT ![t] = "canceled"]

Next == \E t \in Task : Submit(t) \/ Work(t) \/ Settle(t) \/ Cancel(t)

Spec == Init /\ [][Next]_state
=============================================================================
