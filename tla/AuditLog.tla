------------------------------ MODULE AuditLog ------------------------------
(***************************************************************************)
(* The append-only audit log of src/keel/governance/audit.py: one JSON     *)
(* object per line, flushed and fsynced before emit returns, reopened by   *)
(* the next process that is given the same run id.                         *)
(*                                                                         *)
(* The file is a sequence of physical lines, and a write may be cut short  *)
(* at any byte by a crash (the process is gone) or by an error (emit       *)
(* raises and the process goes on).  An event's payload is abstracted to   *)
(* the number of the emit that wrote it and to whether its text holds one  *)
(* of the line boundaries that json.dumps(ensure_ascii=False) leaves as    *)
(* they are and str.splitlines breaks at (U+0085, U+2028, U+2029).         *)
(***************************************************************************)
EXTENDS Integers, Sequences

CONSTANTS Clock,        \* the readings time.time() may return, in any order
          Bodies,       \* the payloads written: "plain" and "split" ones
          CrashCuts,    \* how far an append may get when the process dies
          ErrorCuts,    \* how far an append may get when it raises
          MaxEmits,     \* bound on emits
          MaxCrashes    \* bound on crashes

\* How much of "line\n" reaches the file: nothing, whole characters of an
\* incomplete object, bytes that end inside a character, all but the line feed
\* (which still parses), or all of it.
Cuts == {"nothing", "part", "char", "json", "all"}

ASSUME AuditAssumption ==
    /\ Clock \subseteq Nat
    /\ Bodies \subseteq {"plain", "split"}
    /\ CrashCuts \subseteq Cuts
    /\ ErrorCuts \subseteq Cuts
    /\ MaxEmits \in Nat
    /\ MaxCrashes \in Nat

VARIABLES file,      \* the physical lines of audit.jsonl
          up,        \* a process holds the log open
          events,    \* its in-memory events
          seq,       \* _seq
          lastAt,    \* _last_at
          emits,     \* emits tried so far, which also tells payloads apart
          returned,  \* history: the events whose emit returned
          faulted,   \* history: some append raised, or left part of a line
          crashes    \* crashes so far

vars == <<file, up, events, seq, lastAt, emits, returned, faulted, crashes>>

Event == [seq : Nat, at : Nat, body : {"plain", "split"}, emit : Nat]
Line  == [event : Event, shape : {"whole", "damaged", "undecodable"},
          ended : BOOLEAN]

-----------------------------------------------------------------------------
(* Writing. *)

MaxOf(a, b) == IF a >= b THEN a ELSE b

\* The event emit builds: numbered after the last one, never before it in time.
NewEvent(b, t) == [seq |-> seq + 1, at |-> MaxOf(t, lastAt), body |-> b,
                   emit |-> emits + 1]

Shape(cut) == CASE cut = "part" -> "damaged"
                [] cut = "char" -> "undecodable"
                [] OTHER        -> "whole"

\* A line that has no line feed swallows what is appended next: two objects on
\* one line are not JSON, and a character cut in two is never completed.
Joined(line, e, cut) ==
    [event |-> line.event,
     shape |-> IF "undecodable" \in {line.shape, Shape(cut)}
                 THEN "undecodable" ELSE "damaged",
     ended |-> cut = "all"]

\* _append writes what is new and looks at nothing that is there.
Extend(f, e, cut) ==
    IF cut = "nothing" THEN f
    ELSE IF f # <<>> /\ ~ f[Len(f)].ended
      THEN [f EXCEPT ![Len(f)] = Joined(f[Len(f)], e, cut)]
      ELSE Append(f, [event |-> e, shape |-> Shape(cut), ended |-> cut = "all"])

Emit(b, t) ==
    /\ up
    /\ emits < MaxEmits
    /\ LET e == NewEvent(b, t)
       IN  /\ file' = Extend(file, e, "all")
           /\ events' = events \cup {e}
           /\ lastAt' = e.at
           /\ returned' = returned \cup {e}
    /\ seq' = seq + 1
    /\ emits' = emits + 1
    /\ UNCHANGED <<up, faulted, crashes>>

\* _append raises: the number is spent, the event is not in memory, the clock
\* is not remembered, and what was written stays.
EmitRaises(b, t, cut) ==
    /\ up
    /\ emits < MaxEmits
    /\ file' = Extend(file, NewEvent(b, t), cut)
    /\ seq' = seq + 1
    /\ emits' = emits + 1
    /\ faulted' = TRUE
    /\ UNCHANGED <<up, events, lastAt, returned, crashes>>

CrashInEmit(b, t, cut) ==
    /\ up
    /\ emits < MaxEmits
    /\ crashes < MaxCrashes
    /\ file' = Extend(file, NewEvent(b, t), cut)
    /\ up' = FALSE
    /\ events' = {}
    /\ seq' = 0
    /\ lastAt' = 0
    /\ emits' = emits + 1
    /\ crashes' = crashes + 1
    /\ faulted' = (faulted \/ cut \notin {"nothing", "all"})
    /\ UNCHANGED returned

-----------------------------------------------------------------------------
(* Reading. *)

\* read_text decodes the whole file before any line is looked at.
Decodable(f) == \A i \in DOMAIN f : f[i].shape # "undecodable"

\* A line that json.loads accepts after splitlines has cut the text up.
Loadable(line) == line.shape = "whole" /\ line.event.body = "plain"

\* A reader that stops at the first line it cannot parse.
LoadedUntilDamage(f) ==
    {f[i].event : i \in {j \in DOMAIN f : \A k \in 1..j : Loadable(f[k])}}

Loaded(f) == {f[i].event : i \in {j \in DOMAIN f : Loadable(f[j])}}

Highest(S) == IF S = {} THEN 0 ELSE CHOOSE m \in S : \A n \in S : n <= m

\* A log that starts numbering again instead of after what it loaded.
NumberFromOne(S) == 0

ResumeSeq(S) == Highest({e.seq : e \in S})

Open ==
    /\ ~ up
    /\ Decodable(file)
    /\ up' = TRUE
    /\ events' = Loaded(file)
    /\ seq' = ResumeSeq(Loaded(file))
    /\ lastAt' = Highest({e.at : e \in Loaded(file)})
    /\ UNCHANGED <<file, emits, returned, faulted, crashes>>

\* A check that skips damaged lines the way _load does.
MalformedSkipped(f) == {}

Malformed(f) == {<<"malformed", i>> : i \in {j \in DOMAIN f : ~ Loadable(f[j])}}

\* The lines verify_integrity goes on with.
Parsed(f) == {i \in DOMAIN f : Loadable(f[i])}

\* The number it expects after line i, counted over the lines that parse.
ExpectedAfter(f) ==
    LET expected[i \in 0..Len(f)] ==
            IF i = 0 THEN 1
            ELSE IF i \in Parsed(f) THEN MaxOf(expected[i - 1], f[i].event.seq) + 1
            ELSE expected[i - 1]
    IN  expected

SeenBefore(f, i) == \E j \in Parsed(f) : j < i /\ f[j].event.seq = f[i].event.seq

Duplicates(f) == {<<"duplicate", i>> : i \in {j \in Parsed(f) : SeenBefore(f, j)}}

Gaps(f) ==
    {<<"gap", i>> : i \in {j \in Parsed(f) :
        ~ SeenBefore(f, j) /\ f[j].event.seq # ExpectedAfter(f)[j - 1]}}

\* A timestamp is compared with that of the last line that parsed.
LastBefore(f, j, k) == k < j /\ \A m \in Parsed(f) : m < j => m <= k

Backwards(f) ==
    {<<"backwards", i>> : i \in {j \in Parsed(f) :
        \E k \in Parsed(f) : LastBefore(f, j, k) /\ f[j].event.at < f[k].event.at}}

\* verify_integrity, as the set of <<complaint, line>> pairs it reports.
Problems(f) == Malformed(f) \cup Duplicates(f) \cup Gaps(f) \cup Backwards(f)

-----------------------------------------------------------------------------
Init ==
    /\ file = <<>>
    /\ up = TRUE
    /\ events = {}
    /\ seq = 0
    /\ lastAt = 0
    /\ emits = 0
    /\ returned = {}
    /\ faulted = FALSE
    /\ crashes = 0

Next ==
    \/ \E b \in Bodies, t \in Clock : Emit(b, t)
    \/ \E b \in Bodies, t \in Clock, c \in ErrorCuts : EmitRaises(b, t, c)
    \/ \E b \in Bodies, t \in Clock, c \in CrashCuts : CrashInEmit(b, t, c)
    \/ Open

Spec == Init /\ [][Next]_vars

-----------------------------------------------------------------------------
(* Properties. *)

\* The state of the file, of the process and of the history has its type.
TypeOK ==
    /\ file \in Seq(Line)
    /\ up \in BOOLEAN
    /\ events \subseteq Event
    /\ seq \in Nat
    /\ lastAt \in Nat
    /\ emits \in 0..MaxEmits
    /\ returned \subseteq Event
    /\ faulted \in BOOLEAN
    /\ crashes \in 0..MaxCrashes

\* No payload so far holds a character that splitlines breaks at.
PlainOnly == \A i \in DOMAIN file : file[i].event.body = "plain"

\* While every append has written all of its line or none of it, an event whose
\* emit returned can be read back by every later process, however many crashes
\* and reopenings follow (emit, _append, _load).
Durable == ~ faulted /\ PlainOnly => returned \subseteq Loaded(file)

\* And the log passes its own check: no gap, no duplicate, no malformed line and
\* no backwards timestamp, whatever the clock does and although a crash may
\* keep an event that was never acknowledged (emit, _load, verify_integrity).
HonestLogPasses == ~ faulted /\ PlainOnly => Problems(file) = {}

\* Whatever is cut short, and however often the log is reopened, the events an
\* auditor can read are numbered upwards in file order: no number is given to
\* two of them (emit's numbering and _load's resumption of it).
SeqsIncrease ==
    \A i, j \in DOMAIN file :
        i < j /\ Loadable(file[i]) /\ Loadable(file[j])
          => file[i].event.seq < file[j].event.seq

\* No loss is silent: when an event that emit returned, or that a process holds
\* in memory, cannot be read from the file, verify_integrity complains.
DamageIsReported ==
    Decodable(file) /\ ~ (returned \cup events \subseteq Loaded(file))
      => Problems(file) # {}

(* What the documents say and the code does not do. *)

\* A crash costs the event in flight, never one whose emit returned.
AcknowledgedSurvives == returned \subseteq Loaded(file)
=============================================================================
