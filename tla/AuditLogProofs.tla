--------------------------- MODULE AuditLogProofs ---------------------------
(***************************************************************************)
(* What holds of every audit log, wherever its writes are cut short, with  *)
(* any clock, any number of crashes and any number of reopenings.          *)
(***************************************************************************)
EXTENDS AuditLog, WellFoundedInduction, TLAPS

-----------------------------------------------------------------------------
(* The operators of the log. *)

\* A bounded, non-empty set of naturals has a largest element: the least of its
\* upper bounds.
LEMMA HighestIsAttained ==
  ASSUME NEW S \in SUBSET Nat, NEW B \in Nat, \A n \in S : n <= B, S # {}
  PROVE  \E m \in S : \A n \in S : n <= m
<1> DEFINE Uppers == {n \in Nat : \A s \in S : s <= n}
<1>1. PICK m \in Uppers : \A y \in Uppers : ~ (<<y, m>> \in OpToRel(<, Nat))
  <2>1. Uppers \subseteq Nat /\ B \in Uppers
    OBVIOUS
  <2> HIDE DEF Uppers
  <2> QED  BY <2>1, NatLessThanWellFounded, WFMin
<1>2. \A y \in Uppers : ~ (y < m)
  BY <1>1 DEF OpToRel
<1>3. m \in S
  <2> SUFFICES ASSUME m \notin S PROVE FALSE
    OBVIOUS
  <2>1. PICK s \in S : TRUE
    OBVIOUS
  <2>2. s < m
    BY <2>1
  <2>3. m - 1 \in Uppers
    BY <2>2
  <2> QED  BY <2>3, <1>2
<1> QED  BY <1>3

\* _load's max(..., default=0) is a natural no smaller than what it is taken
\* over, and no larger than any bound of it.
LEMMA HighestBounds ==
  ASSUME NEW S \in SUBSET Nat, NEW B \in Nat, \A n \in S : n <= B
  PROVE  /\ Highest(S) \in Nat
         /\ \A n \in S : n <= Highest(S)
         /\ Highest(S) <= B
<1>1. CASE S = {}
  BY <1>1 DEF Highest
<1>2. CASE S # {}
  <2>1. \E m \in S : \A n \in S : n <= m
    BY <1>2, HighestIsAttained
  <2> QED  BY <1>2, <2>1 DEF Highest
<1> QED  BY <1>1, <1>2

\* _append keeps the file a sequence of lines.
LEMMA ExtendType ==
  ASSUME NEW f \in Seq(Line), NEW e \in Event, NEW c \in Cuts
  PROVE  Extend(f, e, c) \in Seq(Line)
<1>1. Shape(c) \in {"whole", "damaged", "undecodable"}
  BY DEF Shape, Cuts
<1>2. [event |-> e, shape |-> Shape(c), ended |-> c = "all"] \in Line
  BY <1>1 DEF Line
<1>3. ASSUME f # <<>>
      PROVE  Len(f) \in DOMAIN f /\ Joined(f[Len(f)], e, c) \in Line
  <2>1. Len(f) \in DOMAIN f /\ f[Len(f)] \in Line
    BY <1>3
  <2> QED  BY <2>1 DEF Joined, Line
<1> QED  BY <1>2, <1>3 DEF Extend

\* What _append leaves: every line is the one that was there, or the new event
\* on a line of its own after all of them, or a last line joined to what came
\* before it, which nobody can load.
LEMMA ExtendLines ==
  ASSUME NEW f \in Seq(Line), NEW e \in Event, NEW c \in Cuts
  PROVE  LET g == Extend(f, e, c)
         IN  /\ \A i \in DOMAIN f : i \in DOMAIN g /\ (g[i] = f[i] \/ ~ Loadable(g[i]))
             /\ \A i \in DOMAIN g :
                  \/ i \in DOMAIN f /\ g[i] = f[i]
                  \/ i \notin DOMAIN f /\ g[i].event = e /\ \A j \in DOMAIN f : j < i
                  \/ i \in DOMAIN f /\ ~ Loadable(g[i]) /\ g[i].event = f[i].event
             /\ c = "all" => \E i \in DOMAIN g :
                  ~ Loadable(g[i]) \/ (Loadable(g[i]) /\ g[i].event = e)
<1> DEFINE g == Extend(f, e, c)
<1>1. CASE c = "nothing"
  BY <1>1 DEF Extend
<1>2. CASE c # "nothing" /\ f # <<>> /\ ~ f[Len(f)].ended
  <2>1. g = [f EXCEPT ![Len(f)] = Joined(f[Len(f)], e, c)] /\ Len(f) \in DOMAIN f
    BY <1>2 DEF Extend
  <2>2. DOMAIN g = DOMAIN f /\ g[Len(f)] = Joined(f[Len(f)], e, c)
    BY <2>1
  <2>3. ~ Loadable(g[Len(f)]) /\ g[Len(f)].event = f[Len(f)].event
    BY <2>2 DEF Joined, Loadable
  <2>4. \A i \in DOMAIN f : i # Len(f) => g[i] = f[i]
    BY <2>1
  <2> HIDE DEF g
  <2> QED  BY <2>1, <2>2, <2>3, <2>4 DEF g
<1>3. CASE c # "nothing" /\ ~ (f # <<>> /\ ~ f[Len(f)].ended)
  <2> DEFINE l == [event |-> e, shape |-> Shape(c), ended |-> c = "all"]
  <2>1. g = Append(f, l)
    BY <1>3 DEF Extend
  <2>2. DOMAIN f = 1..Len(f) /\ DOMAIN g = 1..(Len(f) + 1) /\ Len(f) \in Nat
    BY <2>1
  <2>3. g[Len(f) + 1] = l /\ \A i \in 1..Len(f) : g[i] = f[i]
    BY <2>1
  <2>4. l.event = e
    OBVIOUS
  <2> HIDE DEF g, l
  <2> QED  BY <2>2, <2>3, <2>4 DEF g
<1> QED  BY <1>1, <1>2, <1>3

-----------------------------------------------------------------------------
(***************************************************************************)
(* The numbering.  SeqsIncrease is not inductive: the next event must be   *)
(* numbered above everything that can be read, which is what a process     *)
(* that is up remembers; and _load can only restore that memory because    *)
(* the numbers in the file are bounded, by the emits so far, and so are    *)
(* the timestamps.                                                         *)
(***************************************************************************)
Bounded ==
    /\ seq <= emits
    /\ \A i \in DOMAIN file : file[i].event.seq <= emits
    /\ \E B \in Nat : \A i \in DOMAIN file : file[i].event.at <= B

AheadOfFile ==
    up => \A i \in DOMAIN file : Loadable(file[i]) => file[i].event.seq <= seq

LogInv == TypeOK /\ Bounded /\ AheadOfFile /\ SeqsIncrease

LEMMA NewEventType ==
  ASSUME TypeOK, NEW b \in Bodies, NEW t \in Clock
  PROVE  NewEvent(b, t) \in Event
BY AuditAssumption DEF NewEvent, Event, MaxOf, TypeOK

LEMMA InitLog == Init => LogInv
<1> SUFFICES ASSUME Init PROVE LogInv
  OBVIOUS
<1>1. TypeOK
  <2>1. file \in Seq(Line) /\ seq \in Nat /\ lastAt \in Nat
    BY DEF Init
  <2>2. emits \in 0..MaxEmits /\ crashes \in 0..MaxCrashes
    BY AuditAssumption DEF Init
  <2>3. up \in BOOLEAN /\ faulted \in BOOLEAN
    BY Zenon DEF Init
  <2>4. events \subseteq Event /\ returned \subseteq Event
    BY DEF Init
  <2> QED  BY <2>1, <2>2, <2>3, <2>4 DEF TypeOK
<1>2. Bounded /\ AheadOfFile /\ SeqsIncrease
  BY DEF Init, Bounded, AheadOfFile, SeqsIncrease
<1> QED  BY <1>1, <1>2 DEF LogInv

\* One write, whoever survives it.
LEMMA WriteLog ==
  ASSUME LogInv, up, emits < MaxEmits,
         NEW b \in Bodies, NEW t \in Clock, NEW c \in Cuts,
         file' = Extend(file, NewEvent(b, t), c), emits' = emits + 1
  PROVE  /\ file' \in Seq(Line)
         /\ emits' \in 0..MaxEmits
         /\ \A i \in DOMAIN file' : file'[i].event.seq <= emits'
         /\ \E B \in Nat : \A i \in DOMAIN file' : file'[i].event.at <= B
         /\ SeqsIncrease'
         /\ \A i \in DOMAIN file' : Loadable(file'[i]) => file'[i].event.seq <= seq + 1
<1> DEFINE e == NewEvent(b, t)
<1>1. e \in Event /\ e.seq = seq + 1
  BY NewEventType DEF LogInv, NewEvent
<1>2. file' \in Seq(Line)
  BY <1>1, ExtendType DEF LogInv, TypeOK
<1>3. emits' \in 0..MaxEmits
  BY AuditAssumption DEF LogInv, TypeOK
<1>4. /\ file \in Seq(Line) /\ seq \in Nat /\ emits \in Nat
      /\ \A i \in DOMAIN file : file[i].event \in Event
  <2>1. file \in Seq(Line) /\ seq \in Nat /\ emits \in Nat
    BY AuditAssumption DEF LogInv, TypeOK
  <2>2. \A i \in DOMAIN file : file[i] \in Line
    BY <2>1
  <2> QED  BY <2>1, <2>2 DEF Line
<1>5. /\ \A i \in DOMAIN file' :
           \/ i \in DOMAIN file /\ file'[i] = file[i]
           \/ i \notin DOMAIN file /\ file'[i].event = e /\ \A j \in DOMAIN file : j < i
           \/ i \in DOMAIN file /\ ~ Loadable(file'[i]) /\ file'[i].event = file[i].event
  BY <1>1, <1>4, ExtendLines
<1> HIDE DEF e
<1>6. DOMAIN file \in SUBSET Nat /\ DOMAIN file' \in SUBSET Nat
  BY <1>2, <1>4
<1>7. \A i \in DOMAIN file' : file'[i].event.seq <= emits'
  BY <1>1, <1>4, <1>5 DEF LogInv, Bounded, Event
<1>8. \E B \in Nat : \A i \in DOMAIN file' : file'[i].event.at <= B
  <2>1. PICK B \in Nat : \A i \in DOMAIN file : file[i].event.at <= B
    BY DEF LogInv, Bounded
  <2> DEFINE C == IF e.at >= B THEN e.at ELSE B
  <2>2. C \in Nat /\ e.at <= C /\ B <= C
    BY <1>1 DEF Event
  <2>3. \A i \in DOMAIN file' : file'[i].event.at <= C
    <3> HIDE DEF C
    <3> TAKE i \in DOMAIN file'
    <3>1. CASE i \in DOMAIN file /\ file'[i].event = file[i].event
      <4>1. file[i].event.at \in Nat /\ file[i].event.at <= B
        BY <3>1, <2>1, <1>4 DEF Event
      <4> QED  BY <4>1, <3>1, <2>2
    <3>2. CASE file'[i].event = e
      BY <3>2, <2>2
    <3> QED  BY <3>1, <3>2, <1>5
  <2> QED  BY <2>2, <2>3
<1>9. \A i \in DOMAIN file' : Loadable(file'[i]) => file'[i].event.seq <= seq + 1
  BY <1>1, <1>4, <1>5 DEF LogInv, AheadOfFile, Event
<1>10. SeqsIncrease'
  <2> SUFFICES ASSUME NEW i \in DOMAIN file', NEW j \in DOMAIN file', i < j,
                      Loadable(file'[i]), Loadable(file'[j])
               PROVE  file'[i].event.seq < file'[j].event.seq
    BY DEF SeqsIncrease
  <2>1. CASE i \in DOMAIN file /\ j \in DOMAIN file
    BY <2>1, <1>5 DEF LogInv, SeqsIncrease
  <2>2. CASE i \in DOMAIN file /\ j \notin DOMAIN file
    <3>1. file'[i] = file[i] /\ file'[j].event = e
      BY <2>2, <1>5
    <3>2. file[i].event.seq <= seq /\ file[i].event.seq \in Nat
      BY <3>1, <2>2, <1>4 DEF LogInv, AheadOfFile, Event
    <3> QED  BY <3>1, <3>2, <1>1, <1>4
  <2>3. CASE i \notin DOMAIN file
    <3>1. \A k \in DOMAIN file : k < i
      BY <2>3, <1>5
    <3>2. j \notin DOMAIN file
      BY <3>1, <1>6
    <3>3. i = Len(file) + 1 /\ j = Len(file) + 1
      <4>1. Len(file') <= Len(file) + 1
        BY <1>4 DEF Extend
      <4>2. DOMAIN file = 1..Len(file) /\ DOMAIN file' = 1..Len(file') /\ Len(file) \in Nat /\ Len(file') \in Nat
        BY <1>2, <1>4
      <4> QED  BY <4>1, <4>2, <2>3, <3>2
    <3> QED  BY <3>3
  <2> QED  BY <2>1, <2>2, <2>3
<1> QED  BY <1>2, <1>3, <1>7, <1>8, <1>9, <1>10

LEMMA NextLog == LogInv /\ [Next]_vars => LogInv'
<1> SUFFICES ASSUME LogInv, [Next]_vars PROVE LogInv'
  OBVIOUS
<1>0. /\ seq \in Nat /\ lastAt \in Nat /\ emits \in Nat /\ crashes \in 0..MaxCrashes
      /\ events \subseteq Event /\ returned \subseteq Event /\ file \in Seq(Line)
      /\ seq <= emits /\ MaxCrashes \in Nat /\ faulted \in BOOLEAN
  BY AuditAssumption DEF LogInv, TypeOK, Bounded
<1>1. ASSUME NEW b \in Bodies, NEW t \in Clock, Emit(b, t) PROVE LogInv'
  <2>1. NewEvent(b, t) \in Event /\ NewEvent(b, t).at \in Nat
    BY NewEventType DEF LogInv, Event
  <2>2. "all" \in Cuts
    BY DEF Cuts
  <2>3. /\ file' \in Seq(Line)
        /\ emits' \in 0..MaxEmits
        /\ \A i \in DOMAIN file' : file'[i].event.seq <= emits'
        /\ \E B \in Nat : \A i \in DOMAIN file' : file'[i].event.at <= B
        /\ SeqsIncrease'
        /\ \A i \in DOMAIN file' : Loadable(file'[i]) => file'[i].event.seq <= seq + 1
    BY <1>1, <2>2, WriteLog DEF Emit
  <2>4. TypeOK'
    BY <1>0, <1>1, <2>1, <2>3 DEF Emit, TypeOK
  <2>5. seq' = seq + 1 /\ emits' = emits + 1 /\ seq' <= emits'
    BY <1>0, <1>1 DEF Emit
  <2>6. Bounded'
    BY <2>3, <2>5 DEF Bounded
  <2>7. AheadOfFile'
    BY <2>3, <2>5 DEF AheadOfFile
  <2> QED  BY <2>3, <2>4, <2>6, <2>7 DEF LogInv
<1>2. ASSUME NEW b \in Bodies, NEW t \in Clock, NEW c \in ErrorCuts, EmitRaises(b, t, c)
      PROVE  LogInv'
  <2>1. c \in Cuts
    BY AuditAssumption
  <2>2. /\ file' \in Seq(Line)
        /\ emits' \in 0..MaxEmits
        /\ \A i \in DOMAIN file' : file'[i].event.seq <= emits'
        /\ \E B \in Nat : \A i \in DOMAIN file' : file'[i].event.at <= B
        /\ SeqsIncrease'
        /\ \A i \in DOMAIN file' : Loadable(file'[i]) => file'[i].event.seq <= seq + 1
    BY <1>2, <2>1, WriteLog DEF EmitRaises
  <2>3. TypeOK'
    BY <1>0, <1>2, <2>2 DEF EmitRaises, TypeOK, LogInv
  <2>4. seq' = seq + 1 /\ emits' = emits + 1 /\ seq' <= emits'
    BY <1>0, <1>2 DEF EmitRaises
  <2>5. Bounded'
    BY <2>2, <2>4 DEF Bounded
  <2>6. AheadOfFile'
    BY <2>2, <2>4 DEF AheadOfFile
  <2> QED  BY <2>2, <2>3, <2>5, <2>6 DEF LogInv
<1>3. ASSUME NEW b \in Bodies, NEW t \in Clock, NEW c \in CrashCuts, CrashInEmit(b, t, c)
      PROVE  LogInv'
  <2>1. c \in Cuts
    BY AuditAssumption
  <2>2. /\ file' \in Seq(Line)
        /\ emits' \in 0..MaxEmits
        /\ \A i \in DOMAIN file' : file'[i].event.seq <= emits'
        /\ \E B \in Nat : \A i \in DOMAIN file' : file'[i].event.at <= B
        /\ SeqsIncrease'
    BY <1>3, <2>1, WriteLog DEF CrashInEmit
  <2>3. /\ up' = FALSE /\ events' = {} /\ seq' = 0 /\ lastAt' = 0
        /\ crashes' \in 0..MaxCrashes /\ returned' = returned /\ seq' <= emits'
        /\ faulted' \in BOOLEAN
    BY <1>0, <1>3 DEF CrashInEmit
  <2>4. TypeOK'
    BY <1>0, <2>2, <2>3 DEF TypeOK
  <2>5. Bounded'
    BY <2>2, <2>3 DEF Bounded
  <2>6. AheadOfFile'
    BY <2>3 DEF AheadOfFile
  <2> QED  BY <2>2, <2>4, <2>5, <2>6 DEF LogInv
<1>4. CASE Open
  <2> DEFINE seqs == {e.seq : e \in Loaded(file)}
             ats == {e.at : e \in Loaded(file)}
  <2>1. \A i \in DOMAIN file : file[i].event \in Event
    <3>1. \A i \in DOMAIN file : file[i] \in Line
      BY <1>0
    <3> QED  BY <3>1 DEF Line
  <2>2. Loaded(file) \subseteq Event
    BY <2>1 DEF Loaded
  <2>3. seqs \in SUBSET Nat /\ ats \in SUBSET Nat
    BY <2>2 DEF Event
  <2>4. Highest(seqs) \in Nat /\ (\A n \in seqs : n <= Highest(seqs)) /\ Highest(seqs) <= emits
    <3>1. \A n \in seqs : n <= emits
      BY DEF Loaded, LogInv, Bounded
    <3> HIDE DEF seqs
    <3> QED  BY <1>0, <2>3, <3>1, HighestBounds
  <2>5. Highest(ats) \in Nat
    <3>1. PICK B \in Nat : \A i \in DOMAIN file : file[i].event.at <= B
      BY DEF LogInv, Bounded
    <3>2. \A n \in ats : n <= B
      BY <3>1 DEF Loaded
    <3> HIDE DEF ats
    <3> QED  BY <2>3, <3>2, HighestBounds
  <2>6. TypeOK'
    BY <1>0, <1>4, <2>2, <2>4, <2>5 DEF Open, ResumeSeq, TypeOK, LogInv
  <2>7. Bounded' /\ SeqsIncrease'
    BY <1>4, <2>4 DEF Open, ResumeSeq, Bounded, SeqsIncrease, LogInv
  <2>8. AheadOfFile'
    <3> SUFFICES ASSUME NEW i \in DOMAIN file, Loadable(file[i])
                 PROVE  file[i].event.seq <= Highest(seqs)
      BY <1>4 DEF Open, ResumeSeq, AheadOfFile
    <3>1. file[i].event.seq \in seqs
      BY DEF Loaded
    <3> QED  BY <3>1, <2>4
  <2> QED  BY <2>6, <2>7, <2>8 DEF LogInv
<1>5. CASE UNCHANGED vars
  BY <1>5 DEF vars, LogInv, TypeOK, Bounded, AheadOfFile, SeqsIncrease
<1> QED  BY <1>1, <1>2, <1>3, <1>4, <1>5 DEF Next

\* The file, the memory and the history keep their types, for every clock, every
\* place where a write can be cut and every number of crashes.
THEOREM LogTypeCorrect == Spec => []TypeOK
<1>1. LogInv => TypeOK
  BY DEF LogInv
<1> QED  BY <1>1, InitLog, NextLog, PTL DEF Spec

\* No two events that an auditor can read have the same number, and they are
\* numbered in file order, however writes are cut and logs reopened.
THEOREM NumberingIsMonotone == Spec => []SeqsIncrease
<1>1. LogInv => SeqsIncrease
  BY DEF LogInv
<1> QED  BY <1>1, InitLog, NextLog, PTL DEF Spec

-----------------------------------------------------------------------------
(***************************************************************************)
(* Losses.  DamageIsReported speaks of the check, which is a function of   *)
(* the file; what is inductive is that an event missing from the file has  *)
(* left a line behind that nobody can load, and that such a line stays.    *)
(***************************************************************************)
LossLeavesDamage ==
    \/ returned \cup events \subseteq Loaded(file)
    \/ \E i \in DOMAIN file : ~ Loadable(file[i])

\* A line that cannot be loaded is a problem verify_integrity reports.
LEMMA DamageIsAProblem ==
  ASSUME NEW i \in DOMAIN file, ~ Loadable(file[i])
  PROVE  Problems(file) # {}
<1>1. <<"malformed", i>> \in Malformed(file)
  BY DEF Malformed
<1>2. Malformed(file) \subseteq Problems(file)
  BY Zenon DEF Problems
<1> QED  BY <1>1, <1>2

\* A write keeps what can be loaded, or damages a line.
LEMMA WriteKeeps ==
  ASSUME TypeOK, NEW e \in Event, NEW c \in Cuts, file' = Extend(file, e, c)
  PROVE  /\ \/ Loaded(file) \subseteq Loaded(file')
            \/ \E i \in DOMAIN file' : ~ Loadable(file'[i])
         /\ (\E i \in DOMAIN file : ~ Loadable(file[i]))
              => \E i \in DOMAIN file' : ~ Loadable(file'[i])
         /\ c = "all" => \/ e \in Loaded(file')
                         \/ \E i \in DOMAIN file' : ~ Loadable(file'[i])
<1>1. file \in Seq(Line)
  BY DEF TypeOK
<1>2. /\ \A i \in DOMAIN file :
            i \in DOMAIN file' /\ (file'[i] = file[i] \/ ~ Loadable(file'[i]))
      /\ c = "all" => \E i \in DOMAIN file' :
            ~ Loadable(file'[i]) \/ (Loadable(file'[i]) /\ file'[i].event = e)
  BY <1>1, ExtendLines
<1>3. \/ Loaded(file) \subseteq Loaded(file')
      \/ \E i \in DOMAIN file' : ~ Loadable(file'[i])
  BY <1>2 DEF Loaded
<1>4. (\E i \in DOMAIN file : ~ Loadable(file[i]))
        => \E i \in DOMAIN file' : ~ Loadable(file'[i])
  BY <1>2
<1>5. c = "all" => \/ e \in Loaded(file')
                   \/ \E i \in DOMAIN file' : ~ Loadable(file'[i])
  BY <1>2 DEF Loaded
<1> QED  BY <1>3, <1>4, <1>5

LEMMA NextLoss ==
  TypeOK /\ LossLeavesDamage /\ [Next]_vars => LossLeavesDamage'
<1> SUFFICES ASSUME TypeOK, LossLeavesDamage, [Next]_vars PROVE LossLeavesDamage'
  OBVIOUS
<1> USE DEF LossLeavesDamage
<1>1. ASSUME NEW b \in Bodies, NEW t \in Clock, Emit(b, t) PROVE LossLeavesDamage'
  <2> DEFINE e == NewEvent(b, t)
  <2>1. e \in Event /\ "all" \in Cuts
    BY NewEventType DEF Cuts
  <2>2. /\ file' = Extend(file, e, "all")
        /\ returned' \cup events' = (returned \cup events) \cup {e}
    BY <1>1 DEF Emit
  <2> HIDE DEF e
  <2>3. /\ \/ Loaded(file) \subseteq Loaded(file')
           \/ \E i \in DOMAIN file' : ~ Loadable(file'[i])
        /\ (\E i \in DOMAIN file : ~ Loadable(file[i]))
             => \E i \in DOMAIN file' : ~ Loadable(file'[i])
        /\ e \in Loaded(file') \/ \E i \in DOMAIN file' : ~ Loadable(file'[i])
    BY <2>1, <2>2, WriteKeeps
  <2> QED  BY <2>2, <2>3
<1>2. ASSUME NEW b \in Bodies, NEW t \in Clock, NEW c \in Cuts,
             file' = Extend(file, NewEvent(b, t), c),
             returned' \cup events' \subseteq returned \cup events
      PROVE  LossLeavesDamage'
  <2>1. /\ \/ Loaded(file) \subseteq Loaded(file')
           \/ \E i \in DOMAIN file' : ~ Loadable(file'[i])
        /\ (\E i \in DOMAIN file : ~ Loadable(file[i]))
             => \E i \in DOMAIN file' : ~ Loadable(file'[i])
    BY <1>2, NewEventType, WriteKeeps
  <2> QED  BY <1>2, <2>1
<1>3. ASSUME NEW b \in Bodies, NEW t \in Clock, NEW c \in ErrorCuts, EmitRaises(b, t, c)
      PROVE  LossLeavesDamage'
  BY <1>2, <1>3, AuditAssumption DEF EmitRaises
<1>4. ASSUME NEW b \in Bodies, NEW t \in Clock, NEW c \in CrashCuts, CrashInEmit(b, t, c)
      PROVE  LossLeavesDamage'
  BY <1>2, <1>4, AuditAssumption DEF CrashInEmit
<1>5. CASE Open
  BY <1>5 DEF Open
<1>6. CASE UNCHANGED vars
  BY <1>6 DEF vars
<1> QED  BY <1>1, <1>3, <1>4, <1>5, <1>6 DEF Next

\* No loss is silent: verify_integrity complains whenever an event that emit
\* returned, or that the process holds, can no longer be read.
THEOREM NoSilentLoss == Spec => []DamageIsReported
<1>1. Init => LossLeavesDamage
  BY DEF Init, LossLeavesDamage
<1>2. LossLeavesDamage => DamageIsReported
  BY DamageIsAProblem DEF LossLeavesDamage, DamageIsReported
<1> QED  BY <1>1, <1>2, LogTypeCorrect, NextLoss, PTL DEF Spec

-----------------------------------------------------------------------------
(***************************************************************************)
(* Durability.  While no append has raised or been cut in the middle,      *)
(* every line is whole and ended, so no event is written onto another.     *)
(***************************************************************************)
WholeLines ==
    ~ faulted => /\ \A i \in DOMAIN file : file[i].shape = "whole" /\ file[i].ended
                 /\ \A e \in returned : \E i \in DOMAIN file : file[i].event = e

\* An append that is not cut in the middle adds its line after the others.
LEMMA CleanExtend ==
  ASSUME NEW f \in Seq(Line), NEW e \in Event, NEW c \in {"nothing", "all"},
         \A i \in DOMAIN f : f[i].shape = "whole" /\ f[i].ended
  PROVE  LET g == Extend(f, e, c)
         IN  /\ \A i \in DOMAIN g : g[i].shape = "whole" /\ g[i].ended
             /\ \A i \in DOMAIN f : i \in DOMAIN g /\ g[i] = f[i]
             /\ c = "all" => \E i \in DOMAIN g : g[i].event = e
<1>1. CASE c = "nothing"
  BY <1>1 DEF Extend
<1>2. CASE c = "all"
  <2> DEFINE l == [event |-> e, shape |-> "whole", ended |-> TRUE]
  <2>1. Shape(c) = "whole"
    BY <1>2 DEF Shape
  <2>2. f # <<>> => f[Len(f)].ended
    OBVIOUS
  <2>3. Extend(f, e, c) = Append(f, l)
    BY <1>2, <2>1, <2>2 DEF Extend
  <2>4. l.event = e /\ l.shape = "whole" /\ l.ended
    OBVIOUS
  <2> HIDE DEF l
  <2>5. /\ DOMAIN Append(f, l) = 1..(Len(f) + 1) /\ DOMAIN f = 1..Len(f) /\ Len(f) \in Nat
        /\ Append(f, l)[Len(f) + 1] = l
        /\ \A i \in 1..Len(f) : Append(f, l)[i] = f[i]
    OBVIOUS
  <2> QED  BY <2>3, <2>4, <2>5
<1> QED  BY <1>1, <1>2

LEMMA NextWhole == TypeOK /\ WholeLines /\ [Next]_vars => WholeLines'
<1> SUFFICES ASSUME TypeOK, WholeLines, [Next]_vars, ~ faulted'
             PROVE  /\ \A i \in DOMAIN file' : file'[i].shape = "whole" /\ file'[i].ended
                    /\ \A e \in returned' : \E i \in DOMAIN file' : file'[i].event = e
  BY DEF WholeLines
<1>0. file \in Seq(Line)
  BY DEF TypeOK
<1>1. ASSUME NEW b \in Bodies, NEW t \in Clock, Emit(b, t)
      PROVE  /\ \A i \in DOMAIN file' : file'[i].shape = "whole" /\ file'[i].ended
             /\ \A e \in returned' : \E i \in DOMAIN file' : file'[i].event = e
  <2> DEFINE e == NewEvent(b, t)
  <2>1. e \in Event
    BY NewEventType
  <2>2. ~ faulted /\ file' = Extend(file, e, "all") /\ returned' = returned \cup {e}
    BY <1>1 DEF Emit
  <2> HIDE DEF e
  <2>3. /\ \A i \in DOMAIN file' : file'[i].shape = "whole" /\ file'[i].ended
        /\ \A i \in DOMAIN file : i \in DOMAIN file' /\ file'[i] = file[i]
        /\ \E i \in DOMAIN file' : file'[i].event = e
    BY <1>0, <2>1, <2>2, CleanExtend DEF WholeLines
  <2> QED  BY <2>2, <2>3 DEF WholeLines
<1>2. ASSUME NEW b \in Bodies, NEW t \in Clock, NEW c \in ErrorCuts, EmitRaises(b, t, c)
      PROVE  FALSE
  BY <1>2 DEF EmitRaises
<1>3. ASSUME NEW b \in Bodies, NEW t \in Clock, NEW c \in CrashCuts, CrashInEmit(b, t, c)
      PROVE  /\ \A i \in DOMAIN file' : file'[i].shape = "whole" /\ file'[i].ended
             /\ \A e \in returned' : \E i \in DOMAIN file' : file'[i].event = e
  <2>1. ~ faulted /\ c \in {"nothing", "all"} /\ returned' = returned
    BY <1>3 DEF CrashInEmit
  <2>2. file' = Extend(file, NewEvent(b, t), c) /\ NewEvent(b, t) \in Event
    BY <1>3, NewEventType DEF CrashInEmit
  <2>3. /\ \A i \in DOMAIN file' : file'[i].shape = "whole" /\ file'[i].ended
        /\ \A i \in DOMAIN file : i \in DOMAIN file' /\ file'[i] = file[i]
    BY <1>0, <2>1, <2>2, CleanExtend DEF WholeLines
  <2> QED  BY <2>1, <2>3 DEF WholeLines
<1>4. CASE Open
  BY <1>4 DEF Open, WholeLines
<1>5. CASE UNCHANGED vars
  BY <1>5 DEF vars, WholeLines
<1> QED  BY <1>1, <1>2, <1>3, <1>4, <1>5 DEF Next

\* While every append wrote its whole line or nothing, and no payload holds a
\* line separator, an acknowledged event survives every crash and reopening.
THEOREM AcknowledgedIsDurable == Spec => []Durable
<1>1. Init => WholeLines
  BY DEF Init, WholeLines
<1>2. WholeLines => Durable
  BY DEF WholeLines, Durable, PlainOnly, Loaded, Loadable
<1> QED  BY <1>1, <1>2, LogTypeCorrect, NextWhole, PTL DEF Spec

-----------------------------------------------------------------------------
(***************************************************************************)
(* The log's own check.  An undamaged log numbers its lines 1, 2, 3, ...,  *)
(* which a process that is up continues and a process that reopens the     *)
(* log finds again as the largest number of a line.                        *)
(***************************************************************************)
Numbered ==
    ~ faulted /\ PlainOnly =>
      /\ \A i \in DOMAIN file : file[i].event.seq = i
      /\ \A i, j \in DOMAIN file : i < j => file[i].event.at <= file[j].event.at
      /\ up => /\ seq = Len(file)
               /\ \A i \in DOMAIN file : file[i].event.at <= lastAt

\* The count verify_integrity expects: one more than the lines it has passed.
LEMMA ExpectedCounts ==
  ASSUME NEW f \in Seq(Line), Parsed(f) = DOMAIN f,
         \A i \in DOMAIN f : f[i].event.seq = i
  PROVE  \A i \in 0..Len(f) : ExpectedAfter(f)[i] = i + 1
<1> DEFINE N == Len(f)
           expected == ExpectedAfter(f)
           Rule(g, i) == IF i = 0 THEN 1
                         ELSE IF i \in Parsed(f) THEN MaxOf(g[i - 1], f[i].event.seq) + 1
                         ELSE g[i - 1]
           count == [i \in 0..N |-> i + 1]
<1>1. N \in Nat /\ DOMAIN f = 1..N
  OBVIOUS
<1>2. \A i \in 1..N : i \in Parsed(f) /\ f[i].event.seq = i
  BY <1>1
<1>0. expected = CHOOSE g : g = [i \in 0..N |-> Rule(g, i)]
  BY Zenon DEF ExpectedAfter
<1> HIDE DEF N, expected
<1>3. \A i \in 0..N : count[i] = Rule(count, i)
  <2> SUFFICES ASSUME NEW i \in 0..N PROVE count[i] = Rule(count, i)
    OBVIOUS
  <2>1. CASE i = 0
    BY <1>1, <2>1
  <2>2. CASE i # 0
    <3>1. i \in 1..N /\ i - 1 \in 0..N /\ count[i - 1] = i
      BY <1>1, <2>2
    <3>2. Rule(count, i) = MaxOf(i, i) + 1
      BY <1>2, <2>2, <3>1
    <3>3. QED
      BY <1>1, <3>1, <3>2 DEF MaxOf
  <2>3. QED
    BY <2>1, <2>2
<1>4. count = [i \in 0..N |-> Rule(count, i)]
  BY <1>3
<1>5. expected = [i \in 0..N |-> Rule(expected, i)]
  BY <1>0, <1>4, Zenon
<1>6. ASSUME NEW k \in 0..N, expected[k] # k + 1 PROVE FALSE
  <2> DEFINE Wrong == {i \in 0..N : expected[i] # i + 1}
  <2>0. Wrong \subseteq Nat /\ k \in Wrong
    BY <1>6
  <2>1. PICK m \in Wrong : \A y \in Wrong : ~ (y < m)
    <3> HIDE DEF Wrong
    <3>1. PICK m \in Wrong : \A y \in Wrong : ~ (<<y, m>> \in OpToRel(<, Nat))
      BY <2>0, NatLessThanWellFounded, WFMin
    <3>2. \A y \in Wrong : ~ (y < m)
      BY <2>0, <3>1 DEF OpToRel
    <3> QED  BY <3>2
  <2>2. m \in 0..N /\ expected[m] # m + 1
    OBVIOUS
  <2>3. CASE m = 0
    BY <1>1, <1>5, <2>2, <2>3
  <2>4. CASE m # 0
    <3>1. m \in 1..N /\ m - 1 \in 0..N /\ m - 1 < m
      BY <1>1, <2>2, <2>4
    <3>2. expected[m - 1] = m
      <4>1. m - 1 \notin Wrong
        BY <2>1, <3>1
      <4>2. QED
        BY <3>1, <4>1
    <3>3. expected[m] = MaxOf(m, m) + 1
      BY <1>2, <1>5, <2>2, <2>4, <3>1, <3>2
    <3>4. QED
      BY <2>2, <3>1, <3>3 DEF MaxOf
  <2>5. QED
    BY <2>3, <2>4
<1>7. QED
  BY <1>6 DEF expected, N

\* The timestamp of a line is a number.
LEMMA StampType ==
  ASSUME NEW f \in Seq(Line), NEW i \in DOMAIN f PROVE f[i].event.at \in Nat
<1>1. f[i] \in Line
  OBVIOUS
<1>2. f[i].event \in Event
  BY <1>1 DEF Line
<1> QED  BY <1>2 DEF Event

\* verify_integrity finds nothing in a log whose lines all load, are numbered
\* from one without a gap, and never go back in time.
LEMMA NumberedPasses ==
  ASSUME NEW f \in Seq(Line),
         \A i \in DOMAIN f : Loadable(f[i]) /\ f[i].event.seq = i,
         \A i, j \in DOMAIN f : i < j => f[i].event.at <= f[j].event.at
  PROVE  Problems(f) = {}
<1>1. Parsed(f) = DOMAIN f /\ DOMAIN f = 1..Len(f) /\ Len(f) \in Nat
  <2>1. Parsed(f) = DOMAIN f
    BY Zenon DEF Parsed
  <2>2. DOMAIN f = 1..Len(f) /\ Len(f) \in Nat
    OBVIOUS
  <2> QED  BY <2>1, <2>2
<1>2. Malformed(f) = {}
  BY DEF Malformed
<1>3. Duplicates(f) = {}
  BY <1>1 DEF Duplicates, SeenBefore
<1>4. Gaps(f) = {}
  <2>1. \A i \in 0..Len(f) : ExpectedAfter(f)[i] = i + 1
    BY <1>1, ExpectedCounts
  <2>2. ASSUME NEW j \in Parsed(f) PROVE f[j].event.seq = ExpectedAfter(f)[j - 1]
    <3>1. j \in 1..Len(f) /\ j - 1 \in 0..Len(f) /\ f[j].event.seq = j
      BY <1>1
    <3>2. ExpectedAfter(f)[j - 1] = (j - 1) + 1
      BY <2>1, <3>1
    <3> QED  BY <3>1, <3>2
  <2> QED  BY <2>2 DEF Gaps
<1>5. Backwards(f) = {}
  <2>1. ASSUME NEW j \in Parsed(f), NEW k \in Parsed(f), k < j PROVE ~ (f[j].event.at < f[k].event.at)
    BY <1>1, <2>1, StampType
  <2> QED  BY <2>1 DEF Backwards, LastBefore
<1> QED  BY <1>2, <1>3, <1>4, <1>5 DEF Problems

\* What an append adds when it is not cut in the middle and the last line is
\* ended: its line, after all the others.
LEMMA WholeAppend ==
  ASSUME NEW f \in Seq(Line), NEW e \in Event,
         \A i \in DOMAIN f : f[i].shape = "whole" /\ f[i].ended
  PROVE  LET g == Extend(f, e, "all")
         IN  /\ DOMAIN g = 1..(Len(f) + 1) /\ Len(g) = Len(f) + 1
             /\ g[Len(f) + 1].event = e
             /\ \A i \in 1..Len(f) : g[i] = f[i]
<1> DEFINE l == [event |-> e, shape |-> "whole", ended |-> TRUE]
<1>0. Len(f) \in Nat /\ (f # <<>> => Len(f) \in DOMAIN f)
  OBVIOUS
<1>1. Extend(f, e, "all") = Append(f, l)
  <2>1. ~ (f # <<>> /\ ~ f[Len(f)].ended)
    BY <1>0
  <2>2. Shape("all") = "whole"
    BY DEF Shape
  <2>3. Extend(f, e, "all") = Append(f, [event |-> e, shape |-> "whole", ended |-> "all" = "all"])
    BY <2>1, <2>2 DEF Extend
  <2>4. ("all" = "all") = TRUE
    OBVIOUS
  <2> QED  BY <2>3, <2>4, Zenon
<1>2. l.event = e
  OBVIOUS
<1> HIDE DEF l
<1> QED  BY <1>1, <1>2

\* One more line keeps the numbering, when its event follows the ones before it.
LEMMA AppendNumbered ==
  ASSUME TypeOK, WholeLines, Numbered, up, ~ faulted, PlainOnly',
         NEW b \in Bodies, NEW t \in Clock,
         file' = Extend(file, NewEvent(b, t), "all")
  PROVE  /\ \A i \in DOMAIN file' : file'[i].event.seq = i
         /\ \A i, j \in DOMAIN file' : i < j => file'[i].event.at <= file'[j].event.at
         /\ seq + 1 = Len(file')
         /\ \A i \in DOMAIN file' : file'[i].event.at <= NewEvent(b, t).at
<1> DEFINE e == NewEvent(b, t)
<1>0. file \in Seq(Line) /\ DOMAIN file = 1..Len(file) /\ Len(file) \in Nat /\ lastAt \in Nat
  BY DEF TypeOK
<1>1. e \in Event /\ e.seq = seq + 1 /\ e.at \in Nat /\ e.at >= lastAt
  <2>1. e.at = MaxOf(t, lastAt) /\ t \in Nat
    BY AuditAssumption DEF NewEvent
  <2> QED  BY <1>0, <2>1, NewEventType DEF NewEvent, MaxOf
<1> HIDE DEF e
<1>2. file' = Extend(file, e, "all")
  BY DEF e
<1>3. /\ DOMAIN file' = 1..(Len(file) + 1) /\ Len(file') = Len(file) + 1
      /\ file'[Len(file) + 1].event = e
      /\ \A i \in 1..Len(file) : file'[i] = file[i]
  BY <1>0, <1>1, <1>2, WholeAppend DEF WholeLines
<1>4. PlainOnly
  BY <1>0, <1>3 DEF PlainOnly
<1>5. /\ \A i \in 1..Len(file) : file[i].event.seq = i /\ file[i].event.at <= lastAt
      /\ \A i, j \in 1..Len(file) : i < j => file[i].event.at <= file[j].event.at
      /\ seq = Len(file)
  BY <1>0, <1>4 DEF Numbered
<1>6. \A i \in 1..Len(file) : file[i].event.at \in Nat
  BY <1>0, StampType
<1>7. \A i \in DOMAIN file' : i \in 1..Len(file) \/ i = Len(file) + 1
  BY <1>0, <1>3
<1>8. \A i \in DOMAIN file' : file'[i].event.seq = i
  BY <1>0, <1>1, <1>3, <1>5, <1>7
<1>9. \A i \in DOMAIN file' : file'[i].event.at <= e.at
  BY <1>0, <1>1, <1>3, <1>5, <1>6, <1>7
<1>10. ASSUME NEW i \in DOMAIN file', NEW j \in DOMAIN file', i < j
       PROVE  file'[i].event.at <= file'[j].event.at
  <2>1. CASE j = Len(file) + 1
    BY <1>3, <1>9, <2>1
  <2>2. CASE j \in 1..Len(file)
    <3>1. i \in 1..Len(file)
      BY <1>0, <1>3, <1>10, <2>2
    <3> QED  BY <1>3, <1>5, <1>10, <2>2, <3>1
  <2> QED  BY <1>7, <2>1, <2>2
<1> QED  BY <1>0, <1>3, <1>5, <1>8, <1>9, <1>10 DEF e

\* Reopening an undamaged log continues the numbering where it ended.
LEMMA OpenNumbered ==
  ASSUME TypeOK, WholeLines, Numbered, ~ faulted, PlainOnly, Open
  PROVE  /\ seq' = Len(file)
         /\ \A i \in DOMAIN file : file[i].event.at <= lastAt'
<1> DEFINE S == {e.seq : e \in Loaded(file)}
           A == {e.at : e \in Loaded(file)}
<1>0. /\ file \in Seq(Line) /\ DOMAIN file = 1..Len(file) /\ Len(file) \in Nat
      /\ \A i \in DOMAIN file : /\ file[i].event.at \in Nat
                                /\ file[i].event.seq = i
      /\ \A i, j \in DOMAIN file : i < j => file[i].event.at <= file[j].event.at
  BY StampType DEF TypeOK, Numbered
<1>1. \A i \in DOMAIN file : file[i].event \in Loaded(file)
  BY DEF Loaded, Loadable, WholeLines, PlainOnly
<1>2. \A e \in Loaded(file) : \E i \in DOMAIN file : e = file[i].event
  BY DEF Loaded
<1>3. seq' = Highest(S) /\ lastAt' = Highest(A)
  BY DEF Open, ResumeSeq
<1>4. S \in SUBSET Nat /\ (\A n \in S : n <= Len(file)) /\ (\A i \in DOMAIN file : i \in S)
  BY <1>0, <1>1, <1>2
<1>5. A \in SUBSET Nat /\ \A i \in DOMAIN file : file[i].event.at \in A
  BY <1>0, <1>1, <1>2
<1>6. \E B \in Nat : \A n \in A : n <= B
  <2>1. CASE Len(file) = 0
    BY <1>0, <1>2, <2>1
  <2>2. CASE Len(file) # 0
    <3>1. Len(file) \in DOMAIN file
      BY <1>0, <2>2
    <3>2. \A i \in DOMAIN file : file[i].event.at <= file[Len(file)].event.at
      <4> SUFFICES ASSUME NEW i \in DOMAIN file
                   PROVE  file[i].event.at <= file[Len(file)].event.at
        OBVIOUS
      <4>1. i < Len(file) \/ i = Len(file)
        BY <1>0
      <4> QED  BY <1>0, <3>1, <4>1
    <3>3. \A n \in A : n <= file[Len(file)].event.at
      BY <1>2, <3>2
    <3> QED  BY <1>0, <3>1, <3>3
  <2> QED  BY <2>1, <2>2
<1> HIDE DEF S, A
<1>7. Highest(S) = Len(file)
  <2>1. Highest(S) \in Nat /\ Highest(S) <= Len(file) /\ \A n \in S : n <= Highest(S)
    BY <1>0, <1>4, HighestBounds
  <2>2. Len(file) # 0 => Len(file) \in S
    BY <1>0, <1>4
  <2> QED  BY <1>0, <2>1, <2>2
<1>8. \A n \in A : n <= Highest(A)
  BY <1>5, <1>6, HighestBounds
<1> QED  BY <1>3, <1>5, <1>7, <1>8

LEMMA NextNumbered == TypeOK /\ WholeLines /\ Numbered /\ [Next]_vars => Numbered'
<1> SUFFICES ASSUME TypeOK, WholeLines, Numbered, [Next]_vars, ~ faulted', PlainOnly'
             PROVE  /\ \A i \in DOMAIN file' : file'[i].event.seq = i
                    /\ \A i, j \in DOMAIN file' :
                         i < j => file'[i].event.at <= file'[j].event.at
                    /\ up' => /\ seq' = Len(file')
                              /\ \A i \in DOMAIN file' : file'[i].event.at <= lastAt'
  BY DEF Numbered
<1>1. ASSUME NEW b \in Bodies, NEW t \in Clock, Emit(b, t) PROVE Numbered'
  <2>1. /\ up /\ ~ faulted /\ file' = Extend(file, NewEvent(b, t), "all")
        /\ seq' = seq + 1 /\ lastAt' = NewEvent(b, t).at
    BY <1>1 DEF Emit
  <2> QED  BY <2>1, AppendNumbered DEF Numbered
<1>2. ASSUME NEW b \in Bodies, NEW t \in Clock, NEW c \in ErrorCuts, EmitRaises(b, t, c)
      PROVE  FALSE
  BY <1>2 DEF EmitRaises
<1>3. ASSUME NEW b \in Bodies, NEW t \in Clock, NEW c \in CrashCuts, CrashInEmit(b, t, c)
      PROVE  Numbered'
  <2>1. /\ up /\ ~ faulted /\ c \in {"nothing", "all"} /\ ~ up'
        /\ file' = Extend(file, NewEvent(b, t), c)
    BY <1>3 DEF CrashInEmit
  <2>2. CASE c = "nothing"
    <3>1. file' = file
      BY <2>1, <2>2 DEF Extend
    <3> QED  BY <2>1, <3>1 DEF Numbered, PlainOnly
  <2>3. CASE c = "all"
    BY <2>1, <2>3, AppendNumbered DEF Numbered
  <2> QED  BY <2>1, <2>2, <2>3
<1>4. CASE Open
  <2>1. ~ faulted /\ PlainOnly /\ file' = file
    BY <1>4 DEF Open, PlainOnly
  <2>2. seq' = Len(file) /\ \A i \in DOMAIN file : file[i].event.at <= lastAt'
    BY <1>4, <2>1, OpenNumbered
  <2> QED  BY <2>1, <2>2 DEF Numbered
<1>5. CASE UNCHANGED vars
  BY <1>5 DEF vars, Numbered, PlainOnly
<1> QED  BY <1>1, <1>2, <1>3, <1>4, <1>5 DEF Next, Numbered

\* While every append wrote its whole line or nothing, and no payload holds a
\* line separator, verify_integrity finds nothing to complain about, whatever
\* the clock did and however often the process died and came back.
THEOREM HonestLogIsClean == Spec => []HonestLogPasses
<1>1. Init => WholeLines /\ Numbered
  BY DEF Init, WholeLines, Numbered
<1>2. TypeOK /\ WholeLines /\ Numbered => HonestLogPasses
  <2> SUFFICES ASSUME TypeOK, WholeLines, Numbered, ~ faulted, PlainOnly
               PROVE  Problems(file) = {}
    BY DEF HonestLogPasses
  <2>1. \A i \in DOMAIN file : Loadable(file[i]) /\ file[i].event.seq = i
    BY DEF WholeLines, Numbered, Loadable, PlainOnly
  <2>2. \A i, j \in DOMAIN file : i < j => file[i].event.at <= file[j].event.at
    BY DEF Numbered
  <2>3. file \in Seq(Line)
    BY DEF TypeOK
  <2> QED  BY <2>1, <2>2, <2>3, NumberedPasses
<1> QED  BY <1>1, <1>2, LogTypeCorrect, NextWhole, NextNumbered, PTL DEF Spec
=============================================================================
