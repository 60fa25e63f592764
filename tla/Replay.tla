------------------------------- MODULE Replay -------------------------------
(***************************************************************************)
(* Recording and replay: src/keel/adapters/replay.py over the model_call   *)
(* events of src/keel/governance/audit.py.  A run records each model call  *)
(* under a key that hashes everything the answer may depend on; a later    *)
(* run is answered from the recordings, by key when the prompt is          *)
(* unchanged and otherwise by node, with the recording that is next.       *)
(*                                                                         *)
(* A prompt is abstracted to its key and an answer to a text.  The key     *)
(* covers the skill, and not the node.                                     *)
(***************************************************************************)
EXTENDS Integers, Sequences, FiniteSets

CONSTANTS Stage, Key, Text,
          Skill,         \* the skill each key was hashed from
          MaxCalls,      \* bound on recorded calls
          MaxRequests    \* bound on replayed calls

VARIABLES tape,       \* the model_call events of the recorded run, in file order
          replaying,  \* the adapter has been built from the tape
          cassettes,  \* self.cassettes: a dict, so in order of insertion
          consumed,   \* the positions in it marked "_consumed"
          drifted,    \* self.drifted
          served      \* history: each request and the position that answered it

replayVars == <<tape, replaying, cassettes, consumed, drifted, served>>

Call == [node : Stage, key : Key, text : Text]

\* Position 0 stands for no recording: CassetteMiss, or a stub.
None == 0

ReplayInit ==
    /\ tape = <<>>
    /\ replaying = FALSE
    /\ cassettes = <<>>
    /\ consumed = {}
    /\ drifted = <<>>
    /\ served = <<>>

\* record_model_call, for whatever the model answered.
Record(n, k, x) ==
    /\ ~ replaying
    /\ Len(tape) < MaxCalls
    /\ tape' = Append(tape, [node |-> n, key |-> k, text |-> x])
    /\ UNCHANGED <<replaying, cassettes, consumed, drifted, served>>

-----------------------------------------------------------------------------
(* Building the adapter. *)

FirstAt(t, i) == \A j \in 1..(i - 1) : t[j].key # t[i].key
LastOf(t, i)  == CHOOSE j \in i..Len(t) : /\ t[j].key = t[i].key
                                          /\ \A l \in (j + 1)..Len(t) : t[l].key # t[i].key

\* A dict assigned to line by line: a repeated key keeps its place and takes
\* the later entry.
CassettesFromLines(t) ==
    LET firsts   == {i \in DOMAIN t : FirstAt(t, i)}
        Place(p) == CHOOSE i \in firsts : Cardinality({j \in firsts : j <= i}) = p
    IN  [p \in 1..Cardinality(firsts) |-> t[LastOf(t, Place(p))]]

Load ==
    /\ ~ replaying
    /\ replaying' = TRUE
    /\ cassettes' = CassettesFromLines(tape)
    /\ UNCHANGED <<tape, consumed, drifted, served>>

-----------------------------------------------------------------------------
(* Answering. *)

Exact(k) == {p \in DOMAIN cassettes : cassettes[p].key = k}

\* self._by_node
ByNode(n) == {p \in DOMAIN cassettes : cassettes[p].node = n}

\* The recordings a fallback may serve, of which it takes the first.
Candidates(n, k) ==
    {p \in ByNode(n) : p \notin consumed /\ Skill[cassettes[p].key] = Skill[k]}

\* A fallback that leaves its recording on the queue.
ConsumeNothing(p) == consumed

Consume(p) == consumed \cup {p}

\* A fallback that tells nobody.
DriftSilently(n) == drifted

Drift(n) == Append(drifted, n)

Answer(n, k, p) ==
    served' = Append(served, [node |-> n, key |-> k, from |-> p])

Ask(n, k) == replaying /\ Len(served) < MaxRequests

InvokeExact(n, k) ==
    /\ Ask(n, k)
    /\ \E p \in Exact(k) : Answer(n, k, p)
    /\ UNCHANGED <<tape, replaying, cassettes, consumed, drifted>>

InvokeFallback(n, k) ==
    /\ Ask(n, k)
    /\ Exact(k) = {}
    /\ \E p \in Candidates(n, k) :
         /\ \A q \in Candidates(n, k) : p <= q
         /\ consumed' = Consume(p)
         /\ Answer(n, k, p)
    /\ drifted' = Drift(n)
    /\ UNCHANGED <<tape, replaying, cassettes>>

\* A strict adapter raises, which ends the node that asked; otherwise a stub is
\* returned.  Neither changes the adapter.
InvokeMiss(n, k) ==
    /\ Ask(n, k)
    /\ Exact(k) = {}
    /\ Candidates(n, k) = {}
    /\ Answer(n, k, None)
    /\ UNCHANGED <<tape, replaying, cassettes, consumed, drifted>>

ReplayNext ==
    \/ \E n \in Stage, k \in Key, x \in Text : Record(n, k, x)
    \/ Load
    \/ \E n \in Stage, k \in Key :
          InvokeExact(n, k) \/ InvokeFallback(n, k) \/ InvokeMiss(n, k)

ReplaySpec == ReplayInit /\ [][ReplayNext]_replayVars

-----------------------------------------------------------------------------
(* Properties. *)

\* The answer was recorded for another prompt.
Mismatched(r) == r.from # None /\ cassettes[r.from].key # r.key

\* The answers served so far that were recorded for another prompt, and how
\* many of them came no later than answer i.
Mismatches == {i \in DOMAIN served : Mismatched(served[i])}
Upto(i)    == Cardinality({j \in Mismatches : j <= i})

\* The CLI's note on drift is complete: every answer that was recorded for
\* another prompt, and no other, is on self.drifted, in the order served.
DriftIsReported ==
    /\ Len(drifted) = Cardinality(Mismatches)
    /\ \A i \in Mismatches : drifted[Upto(i)] = served[i].node

\* Two fallbacks of one node and skill never get one recording, and get them in
\* the order they were recorded (_by_node_fallback).
FallbackInOrder ==
    \A i, j \in DOMAIN served :
        (/\ i < j
         /\ Mismatched(served[i]) /\ Mismatched(served[j])
         /\ served[i].node = served[j].node
         /\ Skill[served[i].key] = Skill[served[j].key])
          => served[i].from < served[j].from
=============================================================================
