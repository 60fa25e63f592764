---------------------------- MODULE AdapterProofs ----------------------------
(***************************************************************************)
(* The two adapters a stage may be given.  Of the live one, for any number *)
(* of stages, attempts, retries and delays: a stage gives up on a busy     *)
(* service only after the whole doubling series, every request, reply and  *)
(* cost is accounted for, and an object in a reply is found whole.  Of the *)
(* replaying one, for every tape and every order of requests: the          *)
(* fallbacks of a node get its recordings once each and in order, and the  *)
(* note on drift lists every answer that was recorded for another prompt.  *)
(***************************************************************************)
EXTENDS ModelCall, Replay, FiniteSetTheorems, WellFoundedInduction, TLAPS

\* Replies that were paid for and that the run cannot use.
UnusableOutcomes == {"refusal", "max_tokens", "recorder"}

\* The recorded calls of a node.
RecordedCalls(n) == {i \in DOMAIN trail : trail[i].node = n}

CallType ==
  /\ pc \in [Node -> {"idle", "calling", "sleeping", "done"}]
  /\ attempt \in [Node -> Nat]
  /\ tries \in [Node -> 0 .. MaxRetries]
  /\ waited \in [Node -> Int]
  /\ sent \in [Node -> Nat]
  /\ billed \in [Node -> Nat]
  /\ counted \in [Node -> Nat]
  /\ DOMAIN outcome = Node
  /\ trail \in Seq([node : Node, text : Texts])

\* Where a node stands: what it has slept is the series up to this try.
Patience(n) ==
  /\ waited[n] = BaseDelay * (2^tries[n] - 1)
  /\ outcome[n] \in Transient => pc[n] = "done" /\ tries[n] = MaxRetries

\* Every finished attempt has left a record, and requests are bounded by the
\* attempts that were finished and the tries of this one.
Books(n) ==
  /\ counted[n] = Cardinality(RecordedCalls(n))
  /\ billed[n] = counted[n] + (IF outcome[n] \in UnusableOutcomes THEN 1 ELSE 0)
  /\ outcome[n] \in UnusableOutcomes => pc[n] = "done"
  /\ pc[n] = "idle" => counted[n] = attempt[n] /\ attempt[n] <= MaxAttempts
  /\ pc[n] \in {"calling", "sleeping"} => counted[n] + 1 = attempt[n]
  /\ pc[n] = "done" => counted[n] \in {attempt[n] - 1, attempt[n]}
  /\ attempt[n] <= MaxAttempts + 1
  /\ attempt[n] = 0 => pc[n] = "idle" /\ sent[n] = 0
  /\ attempt[n] > 0 =>
       sent[n] + (IF pc[n] = "sleeping" THEN 1 ELSE 0)
         <= (attempt[n] - 1) * (MaxRetries + 1) + tries[n] + 1

CallInv == CallType /\ \A n \in Node : Patience(n) /\ Books(n)

-----------------------------------------------------------------------------
(***************************************************************************)
(* Powers of two, by counting sets: a set with one more element has as     *)
(* many subsets with it as without it.                                     *)
(***************************************************************************)

LEMMA Doubling ==
  ASSUME NEW k \in Nat
  PROVE  2^k \in Nat /\ 2^(k + 1) = 2 * 2^k
<1> DEFINE S == 1 .. k
           x == k + 1
           Without == SUBSET S
           With == {A \cup {x} : A \in Without}
           add == [A \in Without |-> A \cup {x}]
<1>1. /\ IsFiniteSet(S) /\ Cardinality(S) = k
      /\ IsFiniteSet(S \cup {x}) /\ Cardinality(S \cup {x}) = k + 1
  <2>1. IsFiniteSet(S) /\ Cardinality(S) = k
    BY FS_Interval
  <2>2. x \notin S
    OBVIOUS
  <2> QED
    BY <2>1, <2>2, FS_AddElement
<1>2. /\ IsFiniteSet(Without) /\ Cardinality(Without) = 2^k
      /\ IsFiniteSet(SUBSET (S \cup {x})) /\ Cardinality(SUBSET (S \cup {x})) = 2^(k + 1)
  BY <1>1, FS_SUBSET
<1>3. x \notin S
  OBVIOUS
<1> HIDE DEF S, x
<1>4. add \in Bijection(Without, With)
  <2>1. \A A, B \in Without : A \cup {x} = B \cup {x} => A = B
    BY <1>3
  <2>2. add \in [Without -> With]
    OBVIOUS
  <2>3. \A A, B \in Without : add[A] = add[B] => A = B
    BY <2>1
  <2>4. \A C \in With : \E A \in Without : add[A] = C
    OBVIOUS
  <2> HIDE DEF add, Without, With
  <2> QED
    BY <2>2, <2>3, <2>4 DEF Bijection, Injection, Surjection, IsInjective
<1>5. IsFiniteSet(With) /\ Cardinality(With) = Cardinality(Without)
  BY <1>2, <1>4, FS_Bijection DEF ExistsBijection
<1>6. SUBSET (S \cup {x}) = Without \cup With
  <2>1. ASSUME NEW A \in SUBSET (S \cup {x}), x \in A PROVE A \in With
    <3>1. A \ {x} \in Without /\ A = (A \ {x}) \cup {x}
      BY <2>1
    <3> QED
      BY <3>1
  <2>2. ASSUME NEW A \in SUBSET (S \cup {x}), x \notin A PROVE A \in Without
    BY <2>2
  <2>3. ASSUME NEW A \in Without PROVE A \cup {x} \subseteq S \cup {x}
    OBVIOUS
  <2> QED
    BY <2>1, <2>2, <2>3
<1>7. Without \cap With = {}
  BY <1>3
<1>8. Cardinality(SUBSET (S \cup {x})) = Cardinality(Without \cup With)
  BY <1>6
<1> HIDE DEF Without, With
<1>9. Cardinality(Without \cup With) = Cardinality(Without) + Cardinality(With) - Cardinality({})
  <2>1. Cardinality(Without \cup With)
          = Cardinality(Without) + Cardinality(With) - Cardinality(Without \cap With)
    BY <1>2, <1>5, FS_Union
  <2> QED
    BY <1>7, <2>1
<1>10. Cardinality({}) = 0 /\ Cardinality(Without) \in Nat
  BY <1>2, FS_EmptySet, FS_CardinalityType
<1> QED
  BY <1>2, <1>5, <1>8, <1>9, <1>10

-----------------------------------------------------------------------------
(***************************************************************************)
(* A record in the trail counts for its node and for no other.             *)
(***************************************************************************)

LEMMA RecordCounts ==
  ASSUME NEW n \in Node, NEW text \in Texts, trail \in Seq([node : Node, text : Texts]),
         trail' = Append(trail, [node |-> n, text |-> text])
  PROVE  /\ trail' \in Seq([node : Node, text : Texts])
         /\ Cardinality(RecordedCalls(n)') = Cardinality(RecordedCalls(n)) + 1
         /\ \A m \in Node \ {n} : RecordedCalls(m)' = RecordedCalls(m)
<1> DEFINE last == Len(trail) + 1
<1>1. /\ trail' \in Seq([node : Node, text : Texts])
      /\ DOMAIN trail = 1 .. Len(trail) /\ DOMAIN trail' = (1 .. Len(trail)) \cup {last}
      /\ trail'[last] = [node |-> n, text |-> text]
      /\ \A i \in 1 .. Len(trail) : trail'[i] = trail[i]
  OBVIOUS
<1>2. last \notin 1 .. Len(trail)
  OBVIOUS
<1>3. IsFiniteSet(1 .. Len(trail))
  BY FS_Interval
<1> HIDE DEF last
<1>4. RecordedCalls(n)' = RecordedCalls(n) \cup {last}
  BY <1>1 DEF RecordedCalls
<1>5. \A m \in Node \ {n} : RecordedCalls(m)' = RecordedCalls(m)
  BY <1>1 DEF RecordedCalls
<1>6. IsFiniteSet(RecordedCalls(n)) /\ last \notin RecordedCalls(n)
  <2>1. RecordedCalls(n) \subseteq 1 .. Len(trail)
    BY <1>1 DEF RecordedCalls
  <2> QED
    BY <1>2, <1>3, <2>1, FS_Subset
<1>7. Cardinality(RecordedCalls(n) \cup {last}) = Cardinality(RecordedCalls(n)) + 1
  BY <1>6, FS_AddElement
<1> QED
  BY <1>1, <1>4, <1>5, <1>7

\* One more finished attempt pays for its retries and its first request.
LEMMA Attempts ==
  ASSUME NEW a \in Nat, NEW m \in Nat
  PROVE  /\ a * (m + 1) = (a - 1) * (m + 1) + (m + 1)
         /\ (a - 1) * (m + 1) \in Int
  OBVIOUS

-----------------------------------------------------------------------------
(***************************************************************************)
(* The invariant.                                                          *)
(***************************************************************************)

\* A step of n leaves the others as they were.
OnlyOf(n) ==
  \A m \in Node \ {n} :
    /\ pc'[m] = pc[m] /\ attempt'[m] = attempt[m] /\ tries'[m] = tries[m]
    /\ waited'[m] = waited[m] /\ sent'[m] = sent[m] /\ billed'[m] = billed[m]
    /\ counted'[m] = counted[m] /\ outcome'[m] = outcome[m]
    /\ RecordedCalls(m)' = RecordedCalls(m)

LEMMA OthersKeepTheirs ==
  ASSUME CallInv, CallType', NEW n \in Node, OnlyOf(n), Patience(n)', Books(n)'
  PROVE  CallInv'
<1>1. ASSUME NEW m \in Node \ {n} PROVE Patience(m)' /\ Books(m)'
  <2>1. Patience(m) /\ Books(m)
    BY DEF CallInv
  <2> QED
    BY <2>1 DEF Patience, Books, OnlyOf
<1> QED
  BY <1>1 DEF CallInv

LEMMA Bounds == MaxAttempts \in Nat /\ MaxRetries \in Nat /\ BaseDelay \in Nat
  BY CallAssumption, Zenon

LEMMA CallInit == Init => CallInv
<1> SUFFICES ASSUME Init PROVE CallInv
  OBVIOUS
<1>1. CallType
  BY Bounds DEF Init, CallType
<1>2. ASSUME NEW n \in Node PROVE Patience(n) /\ Books(n)
  <2>1. RecordedCalls(n) = {}
    BY DEF Init, RecordedCalls
  <2>2. Cardinality(RecordedCalls(n)) = 0
    BY <2>1, FS_EmptySet
  <2>3. BaseDelay * (2^0 - 1) = 0
    BY Bounds
  <2>4. Patience(n)
    BY <2>3 DEF Init, Patience, Transient
  <2>5. Books(n)
    BY <2>2, Bounds DEF Init, Books, UnusableOutcomes
  <2> QED
    BY <2>4, <2>5
<1> QED
  BY <1>1, <1>2 DEF CallInv

\* Requests and pauses.
LEMMA CallingKeeps ==
  ASSUME CallInv, NEW n \in Node,
         \/ Dispatch(n) \/ Wake(n)
         \/ \E error \in Transient \cup Permanent : Backoff(n, error)
  PROVE  CallInv'
<1>1. Patience(n) /\ Books(n) /\ CallType
  BY DEF CallInv
<1>2. /\ MaxAttempts \in Nat /\ MaxRetries \in Nat /\ BaseDelay \in Nat
      /\ attempt[n] \in Nat /\ tries[n] \in Nat /\ sent[n] \in Nat /\ counted[n] \in Nat
      /\ tries[n] <= MaxRetries /\ waited[n] \in Int
  BY <1>1, Bounds DEF CallType
<1>3. RecordedCalls(n)' = RecordedCalls(n)
  BY DEF Dispatch, Wake, Backoff, RecordedCalls
<1>4. CASE Dispatch(n)
  <2>1. CallType'
    <3>1. 0 \in 0 .. MaxRetries /\ attempt[n] + 1 \in Nat /\ sent[n] + 1 \in Nat /\ 0 \in Int
      BY <1>2
    <3> QED
      BY <1>1, <1>4, <3>1 DEF Dispatch, CallType
  <2>2. OnlyOf(n)
    BY <1>1, <1>4 DEF Dispatch, OnlyOf, CallType, RecordedCalls
  <2>3. /\ pc[n] = "idle" /\ pc'[n] = "calling" /\ attempt'[n] = attempt[n] + 1
        /\ tries'[n] = 0 /\ waited'[n] = 0 /\ sent'[n] = sent[n] + 1
        /\ counted'[n] = counted[n] /\ billed'[n] = billed[n] /\ outcome'[n] = outcome[n]
    BY <1>1, <1>4 DEF Dispatch, CallType
  <2>4. Patience(n)'
    BY <1>1, <1>2, <2>3 DEF Patience
  <2>5. Books(n)'
    <3>1. attempt[n] * (MaxRetries + 1) = (attempt[n] - 1) * (MaxRetries + 1) + (MaxRetries + 1)
          /\ (attempt[n] - 1) * (MaxRetries + 1) \in Int
      BY <1>2, Attempts
    <3>2. sent'[n] <= attempt[n] * (MaxRetries + 1) + 0 + 1
      <4>1. CASE attempt[n] = 0
        BY <1>1, <1>2, <2>3, <4>1 DEF Books
      <4>2. CASE attempt[n] > 0
        <5>1. sent[n] <= (attempt[n] - 1) * (MaxRetries + 1) + tries[n] + 1
          BY <1>1, <1>2, <2>3, <4>2 DEF Books
        <5> QED
          BY <1>2, <2>3, <3>1, <5>1
      <4> QED
        BY <1>2, <4>1, <4>2
    <3>3. attempt'[n] - 1 = attempt[n]
      BY <1>2, <2>3
    <3> QED
      BY <1>1, <1>2, <1>3, <2>3, <3>2, <3>3 DEF Books, UnusableOutcomes
  <2> QED
    BY <2>1, <2>2, <2>4, <2>5, OthersKeepTheirs
<1>5. CASE Wake(n)
  <2>1. CallType'
    BY <1>1, <1>2, <1>5 DEF Wake, CallType
  <2>2. OnlyOf(n)
    BY <1>1, <1>5 DEF Wake, OnlyOf, CallType, RecordedCalls
  <2>3. /\ pc[n] = "sleeping" /\ pc'[n] = "calling" /\ sent'[n] = sent[n] + 1
        /\ attempt'[n] = attempt[n] /\ tries'[n] = tries[n] /\ waited'[n] = waited[n]
        /\ counted'[n] = counted[n] /\ billed'[n] = billed[n] /\ outcome'[n] = outcome[n]
    BY <1>1, <1>5 DEF Wake, CallType
  <2>4. Patience(n)'
    BY <1>1, <2>3 DEF Patience
  <2>5. Books(n)'
    BY <1>1, <1>2, <1>3, <2>3 DEF Books
  <2> QED
    BY <2>1, <2>2, <2>4, <2>5, OthersKeepTheirs
<1>6. ASSUME NEW error \in Transient \cup Permanent, Backoff(n, error) PROVE CallInv'
  <2>1. /\ pc[n] = "calling" /\ tries[n] < MaxRetries
        /\ tries'[n] = tries[n] + 1 /\ waited'[n] = waited[n] + Delay(n)
        /\ \/ pc'[n] = "sleeping" /\ sent'[n] = sent[n]
           \/ pc'[n] = "calling" /\ sent'[n] = sent[n] + 1
        /\ attempt'[n] = attempt[n] /\ counted'[n] = counted[n] /\ billed'[n] = billed[n]
        /\ outcome'[n] = outcome[n]
    BY <1>1, <1>6 DEF Backoff, MayRetry, CallType
  <2>2. 2^tries[n] \in Nat /\ 2^(tries[n] + 1) = 2 * 2^tries[n]
    BY <1>2, Doubling
  <2>3. CallType'
    <3>1. waited[n] + Delay(n) \in Int
      BY <1>2, <2>2 DEF Delay
    <3>2. tries[n] + 1 \in 0 .. MaxRetries /\ sent[n] + 1 \in Nat
      BY <1>2, <2>1
    <3>3. /\ tries' = [tries EXCEPT ![n] = @ + 1] /\ waited' = [waited EXCEPT ![n] = @ + Delay(n)]
          /\ \/ pc' = [pc EXCEPT ![n] = "sleeping"] /\ UNCHANGED sent
             \/ sent' = [sent EXCEPT ![n] = @ + 1] /\ UNCHANGED pc
          /\ UNCHANGED <<attempt, billed, counted, outcome, trail>>
      BY <1>6 DEF Backoff
    <3> QED
      BY <1>1, <3>1, <3>2, <3>3 DEF CallType
  <2>4. OnlyOf(n)
    BY <1>1, <1>6 DEF Backoff, OnlyOf, CallType, RecordedCalls
  <2>5. Patience(n)'
    <3>1. outcome'[n] \notin Transient
      BY <1>1, <2>1 DEF Patience
    <3>2. waited'[n] = BaseDelay * (2^tries'[n] - 1)
      <4> DEFINE t == 2^tries[n]
      <4>1. waited'[n] = BaseDelay * (t - 1) + BaseDelay * t /\ t \in Nat
        BY <1>1, <2>1, <2>2 DEF Patience, Delay
      <4>2. 2^tries'[n] = 2 * t
        BY <2>1, <2>2
      <4> HIDE DEF t
      <4>3. BaseDelay * (t - 1) + BaseDelay * t = BaseDelay * (2 * t - 1)
        BY <1>2, <4>1
      <4> QED
        BY <4>1, <4>2, <4>3
    <3> QED
      BY <3>1, <3>2 DEF Patience
  <2>6. Books(n)'
    <3>1. (attempt[n] - 1) * (MaxRetries + 1) \in Int
      BY <1>2, Attempts
    <3> QED
      BY <1>1, <1>2, <1>3, <2>1, <3>1 DEF Books
  <2> QED
    BY <2>3, <2>4, <2>5, <2>6, OthersKeepTheirs
<1> QED
  BY <1>4, <1>5, <1>6

\* What ends a dispatch: an error, a reply nobody can use, a reply.
LEMMA EndingKeeps ==
  ASSUME CallInv, NEW n \in Node,
         \/ RecorderRaises(n)
         \/ \E error \in Transient \cup Permanent : GiveUp(n, error)
         \/ \E stop \in {"refusal", "max_tokens"} : Unusable(n, stop)
         \/ \E text \in Texts : Reply(n, text)
  PROVE  CallInv'
<1>1. Patience(n) /\ Books(n) /\ CallType
  BY DEF CallInv
<1>2. /\ MaxAttempts \in Nat /\ MaxRetries \in Nat /\ BaseDelay \in Nat
      /\ attempt[n] \in Nat /\ tries[n] \in Nat /\ sent[n] \in Nat /\ counted[n] \in Nat
      /\ billed[n] \in Nat /\ tries[n] <= MaxRetries /\ (attempt[n] - 1) * (MaxRetries + 1) \in Int
  BY <1>1, Bounds, Attempts DEF CallType
<1>3. ASSUME NEW what, NEW more \in {0, 1},
             pc[n] = "calling", Raises(n, what), billed' = [billed EXCEPT ![n] = @ + more],
             what \in UnusableOutcomes <=> more = 1,
             what \in Transient => tries[n] = MaxRetries,
             UNCHANGED <<sent, reply>>
      PROVE  CallInv'
  <2>1. /\ pc'[n] = "done" /\ outcome'[n] = what /\ billed'[n] = billed[n] + more
        /\ attempt'[n] = attempt[n] /\ tries'[n] = tries[n] /\ waited'[n] = waited[n]
        /\ sent'[n] = sent[n] /\ counted'[n] = counted[n]
    BY <1>1, <1>3 DEF Raises, CallType
  <2>2. CallType'
    BY <1>1, <1>2, <1>3 DEF Raises, CallType
  <2>3. OnlyOf(n) /\ RecordedCalls(n)' = RecordedCalls(n)
    BY <1>1, <1>3 DEF Raises, OnlyOf, CallType, RecordedCalls
  <2>4. Patience(n)'
    BY <1>1, <1>3, <2>1 DEF Patience
  <2>5. Books(n)'
    BY <1>1, <1>2, <1>3, <2>1, <2>3 DEF Books
  <2> QED
    BY <2>2, <2>3, <2>4, <2>5, OthersKeepTheirs
<1>4. CASE RecorderRaises(n)
  BY <1>3, <1>4, "recorder" \in UnusableOutcomes, "recorder" \notin Transient
     DEF RecorderRaises, UnusableOutcomes, Transient
<1>5. ASSUME NEW error \in Transient \cup Permanent, GiveUp(n, error) PROVE CallInv'
  <2>1. error \notin UnusableOutcomes
    BY DEF Transient, Permanent, UnusableOutcomes
  <2>2. error \in Transient => tries[n] = MaxRetries
    BY <1>2, <1>5 DEF GiveUp, MayRetry
  <2>3. billed' = [billed EXCEPT ![n] = @ + 0]
    BY <1>1, <1>5 DEF GiveUp, CallType
  <2>4. pc[n] = "calling" /\ Raises(n, error) /\ UNCHANGED <<sent, reply>>
    BY <1>5 DEF GiveUp
  <2>5. 0 \in {0, 1} /\ 0 # 1
    OBVIOUS
  <2> QED
    BY <1>3, <2>1, <2>2, <2>3, <2>4, <2>5, Zenon
<1>6. ASSUME NEW stop \in {"refusal", "max_tokens"}, Unusable(n, stop) PROVE CallInv'
  <2>1. stop \in UnusableOutcomes /\ stop \notin Transient
    BY DEF Transient, UnusableOutcomes
  <2> QED
    BY <1>3, <1>6, <2>1 DEF Unusable
<1>7. ASSUME NEW text \in Texts, Reply(n, text) PROVE CallInv'
  <2> DEFINE ok == ExtractJson(text) # Nothing
             where == IF ok \/ attempt[n] > MaxAttempts THEN "done" ELSE "idle"
             what == IF ok THEN "completed" ELSE "failed"
  <2>1. /\ pc[n] = "calling"
        /\ billed' = [billed EXCEPT ![n] = @ + 1] /\ counted' = [counted EXCEPT ![n] = @ + 1]
        /\ trail' = Append(trail, [node |-> n, text |-> text])
        /\ outcome' = [outcome EXCEPT ![n] = what] /\ pc' = [pc EXCEPT ![n] = where]
        /\ UNCHANGED <<attempt, tries, waited, sent>>
    BY <1>7 DEF Reply, Records
  <2>2. /\ what \notin UnusableOutcomes /\ what \notin Transient
        /\ where \in {"done", "idle"} /\ (where = "idle" => ~(attempt[n] > MaxAttempts))
    BY DEF UnusableOutcomes, Transient
  <2> HIDE DEF ok, where, what
  <2>3. /\ trail' \in Seq([node : Node, text : Texts])
        /\ Cardinality(RecordedCalls(n)') = Cardinality(RecordedCalls(n)) + 1
        /\ \A m \in Node \ {n} : RecordedCalls(m)' = RecordedCalls(m)
    BY <1>1, <2>1, RecordCounts DEF CallType
  <2>4. /\ pc'[n] = where /\ outcome'[n] = what
        /\ billed'[n] = billed[n] + 1 /\ counted'[n] = counted[n] + 1
        /\ attempt'[n] = attempt[n] /\ tries'[n] = tries[n] /\ waited'[n] = waited[n]
        /\ sent'[n] = sent[n]
    BY <1>1, <2>1 DEF CallType
  <2>5. CallType'
    <3>1. billed[n] + 1 \in Nat /\ counted[n] + 1 \in Nat
      BY <1>2
    <3> QED
      BY <1>1, <2>1, <2>2, <2>3, <3>1 DEF CallType
  <2>6. OnlyOf(n)
    BY <1>1, <2>1, <2>3 DEF OnlyOf, CallType
  <2>7. Patience(n)'
    BY <1>1, <2>2, <2>4 DEF Patience
  <2>8. Books(n)'
    <3>1. /\ counted[n] = Cardinality(RecordedCalls(n)) /\ billed[n] = counted[n]
          /\ counted[n] + 1 = attempt[n] /\ attempt[n] <= MaxAttempts + 1
          /\ sent[n] <= (attempt[n] - 1) * (MaxRetries + 1) + tries[n] + 1
      <4>1. outcome[n] \notin UnusableOutcomes /\ counted[n] + 1 = attempt[n]
        BY <1>1, <2>1 DEF Books
      <4>2. attempt[n] > 0
        BY <1>2, <4>1
      <4>3. /\ counted[n] = Cardinality(RecordedCalls(n)) /\ attempt[n] <= MaxAttempts + 1
            /\ billed[n] = counted[n] + (IF outcome[n] \in UnusableOutcomes THEN 1 ELSE 0)
            /\ pc[n] # "sleeping"
        BY <1>1, <2>1 DEF Books
      <4>4. sent[n] + 0 <= (attempt[n] - 1) * (MaxRetries + 1) + tries[n] + 1
        BY <1>1, <4>2, <4>3, Zenon DEF Books
      <4>5. billed[n] = counted[n] /\ sent[n] + 0 = sent[n]
        BY <1>2, <4>1, <4>3
      <4> QED
        BY <4>1, <4>3, <4>4, <4>5, Zenon
    <3>2. counted'[n] = Cardinality(RecordedCalls(n)') /\ billed'[n] = counted'[n]
      BY <2>3, <2>4, <3>1
    <3>3. pc'[n] = "idle" => attempt'[n] <= MaxAttempts
      BY <1>2, <2>2, <2>4
    <3>4. /\ counted'[n] = attempt'[n] /\ attempt'[n] <= MaxAttempts + 1
          /\ attempt'[n] \in Nat /\ attempt'[n] # 0
      BY <1>2, <2>4, <3>1
    <3>5. sent'[n] <= (attempt'[n] - 1) * (MaxRetries + 1) + tries'[n] + 1
      BY <2>4, <3>1
    <3> QED
      BY <1>2, <2>2, <2>4, <3>2, <3>3, <3>4, <3>5 DEF Books
  <2> QED
    BY <2>5, <2>6, <2>7, <2>8, OthersKeepTheirs
<1> QED
  BY <1>4, <1>5, <1>6, <1>7

LEMMA CallNext == CallInv /\ [Next]_vars => CallInv'
<1> SUFFICES ASSUME CallInv, [Next]_vars PROVE CallInv'
  OBVIOUS
<1>1. CASE UNCHANGED vars
  BY <1>1 DEF vars, CallInv, CallType, Patience, Books, RecordedCalls
<1>2. CASE Next
  BY <1>2, CallingKeeps, EndingKeeps DEF Next
<1> QED
  BY <1>1, <1>2

LEMMA CallAlways == Spec => []CallInv
  BY CallInit, CallNext, PTL DEF Spec

-----------------------------------------------------------------------------
\* A stage that gave up on a busy service had used every retry and slept the
\* whole doubling series of its last attempt (_call_with_retry).
THEOREM BusyServiceIsWaitedFor == Spec => []GivesUpLate
<1>1. CallInv => GivesUpLate
  BY DEF CallInv, Patience, GivesUpLate
<1> QED
  BY <1>1, CallAlways, PTL

\* What was paid for, what is counted and what the trail records agree, but
\* for the one reply that ended its node; and a node's attempts and the
\* adapter's retries multiply and no more (dispatch, on_call, _call_with_retry).
THEOREM CallsAreAccounted == Spec => []RequestsAccounted
<1>1. CallInv => RequestsAccounted
  <2> SUFFICES ASSUME CallInv, NEW n \in Node
               PROVE  /\ counted[n] = Cardinality(RecordedCalls(n))
                      /\ billed[n] = Cardinality(RecordedCalls(n))
                                     + (IF outcome[n] \in UnusableOutcomes THEN 1 ELSE 0)
                      /\ sent[n] <= Cardinality(RecordedCalls(n)) * (MaxRetries + 1) + tries[n] + 1
                      /\ sent[n] <= (MaxAttempts + 1) * (MaxRetries + 1)
    BY DEF RequestsAccounted, RecordedCalls, UnusableOutcomes
  <2>1. Books(n) /\ CallType
    BY DEF CallInv
  <2>2. /\ attempt[n] \in Nat /\ tries[n] \in Nat /\ sent[n] \in Nat /\ counted[n] \in Nat
        /\ tries[n] <= MaxRetries /\ attempt[n] <= MaxAttempts + 1
        /\ MaxAttempts \in Nat /\ MaxRetries \in Nat
    BY <2>1, Bounds DEF CallType, Books
  <2>3. CASE attempt[n] = 0
    <3>1. sent[n] = 0 /\ counted[n] = 0
      BY <2>1, <2>3 DEF Books
    <3>2. 0 <= (MaxAttempts + 1) * (MaxRetries + 1)
      BY <2>2
    <3> QED
      BY <2>1, <2>2, <3>1, <3>2 DEF Books
  <2>4. CASE attempt[n] > 0
    <3> DEFINE m == MaxRetries + 1
               done == (attempt[n] - 1) * m
    <3>1. sent[n] <= done + tries[n] + 1 /\ counted[n] \in {attempt[n] - 1, attempt[n]}
      BY <2>1, <2>2, <2>4 DEF Books, CallType
    <3>2. done \in Int /\ attempt[n] * m = done + m
      BY <2>2, Attempts
    <3>3. done <= MaxAttempts * m /\ (MaxAttempts + 1) * m = MaxAttempts * m + m
          /\ MaxAttempts * m \in Int
      BY <2>2, <2>4
    <3>4. counted[n] * m >= done
      BY <2>2, <3>1, <3>2
    <3>5. counted[n] * m \in Int
      BY <2>2
    <3> HIDE DEF done
    <3>6. sent[n] <= counted[n] * m + tries[n] + 1
      BY <2>2, <3>1, <3>2, <3>4, <3>5
    <3>7. sent[n] <= (MaxAttempts + 1) * m
      BY <2>2, <3>1, <3>2, <3>3
    <3> QED
      BY <2>1, <3>6, <3>7 DEF Books
  <2> QED
    BY <2>2, <2>3, <2>4
<1> QED
  BY <1>1, CallAlways, PTL

-----------------------------------------------------------------------------
(***************************************************************************)
(* The search for the object: the scanner enters and leaves a string at    *)
(* one depth, and ends where the object that it entered ends.              *)
(***************************************************************************)

\* A set of numbers has a least one.
LEMMA LeastOne ==
  ASSUME NEW S, S \subseteq Nat, S # {}
  PROVE  \E m \in S : \A k \in S : m <= k
<1>1. PICK m \in S : \A k \in S : ~ (<<k, m>> \in OpToRel(<, Nat))
  BY NatLessThanWellFounded, WFMin
<1>2. \A k \in S : ~ (k < m)
  BY <1>1 DEF OpToRel
<1> QED
  BY <1>2

\* So has one that is bounded a greatest.
LEMMA GreatestOne ==
  ASSUME NEW S, NEW b \in Nat, S \subseteq 0 .. b, S # {}
  PROVE  \E m \in S : \A k \in S : k <= m
<1> DEFINE T == {b - k : k \in S}
<1>1. T \subseteq Nat /\ T # {}
  <2>1. \A k \in S : b - k \in Nat
    OBVIOUS
  <2> QED
    BY <2>1
<1>2. PICK t \in T : \A k \in T : t <= k
  <2> HIDE DEF T
  <2> QED
    BY <1>1, LeastOne
<1>3. PICK m \in S : t = b - m
  OBVIOUS
<1>4. \A k \in S : b - m <= b - k
  BY <1>2, <1>3
<1>5. ASSUME NEW k \in S PROVE k <= m
  <2>1. k \in Nat /\ m \in Nat
    BY <1>3
  <2>2. b - m <= b - k
    BY <1>4
  <2> QED
    BY <2>1, <2>2
<1> QED
  BY <1>3, <1>5

\* A part of a part is a part.
LEMMA PartOfPart ==
  ASSUME NEW t \in Seq(Char), NEW i \in Nat, NEW j \in Nat, i <= j, j <= Len(t),
         NEW a \in Nat, NEW b \in Nat, a <= b, b <= j - i
  PROVE  /\ SubSeq(t, i + 1, j) \in Seq(Char) /\ Len(SubSeq(t, i + 1, j)) = j - i
         /\ \A k \in 1 .. (j - i) : SubSeq(t, i + 1, j)[k] = t[i + k]
         /\ SubSeq(SubSeq(t, i + 1, j), a + 1, b) = SubSeq(t, i + a + 1, i + b)
<1> DEFINE p == SubSeq(t, i + 1, j)
<1>1. /\ p \in Seq(Char) /\ Len(p) = j - i
      /\ \A k \in 1 .. (j - i) : p[k] = t[i + k]
  OBVIOUS
<1> HIDE DEF p
<1>2. /\ Len(SubSeq(p, a + 1, b)) = b - a /\ SubSeq(p, a + 1, b) \in Seq(Char)
      /\ \A k \in 1 .. (b - a) : SubSeq(p, a + 1, b)[k] = p[a + k]
  BY <1>1
<1>3. /\ Len(SubSeq(t, i + a + 1, i + b)) = b - a /\ SubSeq(t, i + a + 1, i + b) \in Seq(Char)
      /\ \A k \in 1 .. (b - a) : SubSeq(t, i + a + 1, i + b)[k] = t[i + a + k]
  OBVIOUS
<1>4. SubSeq(p, a + 1, b) = SubSeq(t, i + a + 1, i + b)
  <2>1. PICK u, v : u = SubSeq(p, a + 1, b) /\ v = SubSeq(t, i + a + 1, i + b)
    OBVIOUS
  <2>2. u \in Seq(Char) /\ v \in Seq(Char) /\ Len(u) = b - a /\ Len(v) = b - a
    BY <1>2, <1>3, <2>1, Zenon
  <2>3. \A k \in 1 .. (b - a) : u[k] = v[k]
    <3> SUFFICES ASSUME NEW k \in 1 .. (b - a) PROVE u[k] = v[k]
      OBVIOUS
    <3>1. u[k] = p[a + k] /\ v[k] = t[i + a + k]
      BY <1>2, <1>3, <2>1, Zenon
    <3>2. a + k \in 1 .. (j - i) /\ i + (a + k) = i + a + k
      OBVIOUS
    <3>3. p[a + k] = t[i + (a + k)]
      BY <1>1, <3>2, Zenon
    <3> QED
      BY <3>1, <3>2, <3>3, Zenon
  <2>4. u = v
    BY <2>2, <2>3
  <2> QED
    BY <2>1, <2>4, Zenon
<1> QED
  BY <1>1, <1>4 DEF p

\* A state of the scanner.
At(d, mode, k, end) == [depth |-> d, mode |-> mode, at |-> k, end |-> end]

\* One turn, in and out of a string.
LEMMA Turns ==
  ASSUME NEW d \in Int, NEW k \in Nat, NEW c
  PROVE  /\ ScanChar(At(d, "text", k, 0), "q") = At(d, "string", k + 1, 0)
         /\ ScanChar(At(d, "text", k, 0), "{") = At(d + 1, "text", k + 1, 0)
         /\ ScanChar(At(d, "text", k, 0), "}")
              = At(d - 1, "text", k + 1, IF d = 1 THEN k + 1 ELSE 0)
         /\ ScanChar(At(d, "text", k, 0), "x") = At(d, "text", k + 1, 0)
         /\ c \notin {"q", "b"} => ScanChar(At(d, "string", k, 0), c) = At(d, "string", k + 1, 0)
         /\ ScanChar(At(d, "string", k, 0), "b") = At(d, "escape", k + 1, 0)
         /\ ScanChar(At(d, "string", k, 0), "q") = At(d, "text", k + 1, 0)
         /\ ScanChar(At(d, "escape", k, 0), c) = At(d, "string", k + 1, 0)
<1>1. ScanChar(At(d, "text", k, 0), "q") = At(d, "string", k + 1, 0)
  BY DEF ScanChar, Braces, At
<1>2. ScanChar(At(d, "text", k, 0), "{") = At(d + 1, "text", k + 1, 0)
  BY DEF ScanChar, Braces, At
<1>3. ScanChar(At(d, "text", k, 0), "}")
        = At(d - 1, "text", k + 1, IF d = 1 THEN k + 1 ELSE 0)
  BY DEF ScanChar, Braces, At
<1>4. ScanChar(At(d, "text", k, 0), "x") = At(d, "text", k + 1, 0)
  BY DEF ScanChar, Braces, At
<1>5. c \notin {"q", "b"} => ScanChar(At(d, "string", k, 0), c) = At(d, "string", k + 1, 0)
  BY DEF ScanChar, Braces, At
<1>6. ScanChar(At(d, "string", k, 0), "b") = At(d, "escape", k + 1, 0)
  BY DEF ScanChar, Braces, At
<1>7. ScanChar(At(d, "string", k, 0), "q") = At(d, "text", k + 1, 0)
  BY DEF ScanChar, Braces, At
<1>8. ScanChar(At(d, "escape", k, 0), c) = At(d, "string", k + 1, 0)
  BY DEF ScanChar, Braces, At
<1> QED
  BY <1>1, <1>2, <1>3, <1>4, <1>5, <1>6, <1>7, <1>8

\* Where it has ended it stays.
LEMMA Ended ==
  ASSUME NEW d, NEW mode, NEW k, NEW end \in Nat, end > 0, NEW c
  PROVE  ScanChar(At(d, mode, k, end), c) = At(d, mode, k, end)
BY DEF ScanChar, At

\* The scanner is where its characters have taken it.
LEMMA ScannedStep ==
  ASSUME NEW t \in Seq(Char)
  PROVE  /\ Scanned(t)[0] = At(0, "text", 0, 0)
         /\ \A k \in 1 .. Len(t) : Scanned(t)[k] = ScanChar(Scanned(t)[k - 1], t[k])
<1> DEFINE N == Len(t)
           s == Scanned(t)
           Rule(g, k) == IF k = 0 THEN Scanner ELSE ScanChar(g[k - 1], t[k])
           Grows(m) == \E g : g = [k \in 0 .. m |-> Rule(g, k)]
<1>1. N \in Nat
  OBVIOUS
<1>2. s = CHOOSE g : g = [k \in 0 .. N |-> Rule(g, k)]
  BY Zenon DEF Scanned
<1> HIDE DEF N, s
<1>3. Grows(0)
  <2> DEFINE g == [k \in 0 .. 0 |-> Scanner]
  <2>1. \A k \in 0 .. 0 : Scanner = Rule(g, k)
    OBVIOUS
  <2>2. g = [k \in 0 .. 0 |-> Rule(g, k)]
    BY <2>1
  <2> QED
    BY <2>2
<1>4. ASSUME NEW m \in Nat, Grows(m) PROVE Grows(m + 1)
  <2>1. PICK g : g = [k \in 0 .. m |-> Rule(g, k)]
    BY <1>4
  <2>2. \A k \in 0 .. m : g[k] = Rule(g, k)
    BY <2>1
  <2> DEFINE h == [k \in 0 .. (m + 1) |-> IF k = m + 1 THEN ScanChar(g[m], t[m + 1]) ELSE g[k]]
  <2>3. \A k \in 0 .. (m + 1) : h[k] = Rule(h, k)
    <3> SUFFICES ASSUME NEW k \in 0 .. (m + 1) PROVE h[k] = Rule(h, k)
      OBVIOUS
    <3>1. CASE k = 0
      BY <2>2, <3>1
    <3>2. CASE k \in 1 .. m
      <4>1. k \in 0 .. m /\ k # 0 /\ k - 1 \in 0 .. (m + 1) /\ k - 1 # m + 1 /\ k # m + 1
        BY <3>2
      <4>2. h[k] = g[k] /\ h[k - 1] = g[k - 1]
        BY <4>1
      <4> QED
        BY <2>2, <4>1, <4>2
    <3>3. CASE k = m + 1
      <4>1. k # 0 /\ k - 1 = m /\ m \in 0 .. (m + 1) /\ m # m + 1
        BY <3>3
      <4>2. h[k] = ScanChar(g[m], t[m + 1]) /\ h[m] = g[m]
        BY <3>3, <4>1
      <4> QED
        BY <3>3, <4>1, <4>2
    <3> QED
      BY <3>1, <3>2, <3>3
  <2>4. h = [k \in 0 .. (m + 1) |-> Rule(h, k)]
    BY <2>3
  <2> QED
    BY <2>4
<1>5. Grows(N)
  <2> SUFFICES ASSUME ~ Grows(N) PROVE FALSE
    OBVIOUS
  <2> DEFINE Never == {m \in Nat : ~ Grows(m)}
  <2>1. Never \subseteq Nat /\ Never # {}
    BY <1>1
  <2>2. PICK m \in Never : \A k \in Never : m <= k
    <3> HIDE DEF Never
    <3> QED
      BY <2>1, LeastOne
  <2>3. m \in Nat /\ ~ Grows(m)
    OBVIOUS
  <2>4. m # 0
    BY <1>3, <2>3
  <2>5. m - 1 \in Nat /\ ~ (m <= m - 1) /\ (m - 1) + 1 = m
    BY <2>3, <2>4
  <2>6. Grows(m - 1)
    BY <2>2, <2>5
  <2> HIDE DEF Grows
  <2> QED
    BY <1>4, <2>3, <2>5, <2>6
<1>6. s = [k \in 0 .. N |-> Rule(s, k)]
  BY <1>2, <1>5, Zenon
<1>7. s[0] = Scanner
  BY <1>1, <1>6
<1>8. \A k \in 1 .. N : s[k] = ScanChar(s[k - 1], t[k])
  <2> SUFFICES ASSUME NEW k \in 1 .. N PROVE s[k] = ScanChar(s[k - 1], t[k])
    OBVIOUS
  <2>1. k \in 0 .. N /\ k # 0
    BY <1>1
  <2> QED
    BY <1>6, <2>1
<1> QED
  BY <1>7, <1>8 DEF N, s, Scanner, At

\* What a place passes on over every piece reaches the end of the pieces.
LEMMA CutsReach ==
  ASSUME NEW t, NEW from \in Nat, NEW to \in Nat, from <= to, NEW Piece,
         InPieces(t, from, to, Piece), NEW R, from \in R,
         \A i, j \in from .. to : i \in R /\ i < j /\ SubSeq(t, i + 1, j) \in Piece => j \in R
  PROVE  to \in R
<1>1. PICK cuts \in SUBSET (from .. to) :
        /\ from \in cuts
        /\ \A i \in cuts : i = to \/ \E j \in cuts : i < j /\ SubSeq(t, i + 1, j) \in Piece
  BY DEF InPieces
<1>2. cuts \cap R \subseteq 0 .. to /\ cuts \cap R # {}
  BY <1>1
<1>3. PICK m \in cuts \cap R : \A k \in cuts \cap R : k <= m
  BY <1>2, GreatestOne
<1>4. CASE m = to
  BY <1>3, <1>4
<1>5. CASE m # to
  <2>1. PICK j \in cuts : m < j /\ SubSeq(t, m + 1, j) \in Piece
    BY <1>1, <1>3, <1>5
  <2>2. m \in from .. to /\ j \in from .. to /\ m \in R
    BY <1>1, <1>3, <2>1
  <2>3. j \in R
    BY <2>1, <2>2
  <2> QED
    BY <1>3, <2>1, <2>2, <2>3
<1> QED
  BY <1>4, <1>5

\* After k characters the scanner stands at this depth and has not ended.
Stands(t, d, mode, k) == Scanned(t)[k] = At(d, mode, k, 0)

\* A string is entered and left at the same depth.
LEMMA StringScanned ==
  ASSUME NEW t \in Seq(Char), NEW i \in Nat, NEW j \in Nat, i <= j, j <= Len(t),
         SubSeq(t, i + 1, j) \in JsonStrings, NEW d \in Int, Stands(t, d, "text", i)
  PROVE  Stands(t, d, "text", j)
<1> DEFINE p == SubSeq(t, i + 1, j)
           n == j - i
           R == {k \in 0 .. n : Stands(t, d, "string", i + k)}
<1>1. /\ p \in Seq(Char) /\ Len(p) = n /\ n \in Nat
      /\ \A k \in 1 .. n : p[k] = t[i + k] /\ t[i + k] \in Char /\ i + k \in 1 .. Len(t)
  BY PartOfPart
<1>2. Len(p) >= 2 /\ p[1] = "q" /\ p[Len(p)] = "q" /\ InPieces(p, 1, Len(p) - 1, Units)
  BY DEF JsonStrings, Encloses
<1> HIDE DEF p, n
<1>3. n >= 2 /\ 1 \in 1 .. n /\ n \in 1 .. n /\ n - 1 \in Nat /\ i + n = j
  BY <1>1, <1>2 DEF n
<1>4. \A k \in 1 .. n : Scanned(t)[i + k] = ScanChar(Scanned(t)[i + k - 1], p[k])
  BY <1>1, ScannedStep
<1>5. 1 \in R
  <2>1. Scanned(t)[i + 1] = ScanChar(At(d, "text", i, 0), "q")
    BY <1>2, <1>3, <1>4 DEF Stands
  <2>2. Stands(t, d, "string", i + 1)
    BY <2>1, Turns DEF Stands
  <2> QED
    BY <1>1, <1>3, <2>2
<1>6. ASSUME NEW a \in 1 .. (n - 1), NEW b \in 1 .. (n - 1),
             a \in R, a < b, SubSeq(p, a + 1, b) \in Units
      PROVE  b \in R
  <2>a. a \in Nat /\ b \in Nat /\ a < b /\ b < n /\ 1 <= a
    BY <1>1, <1>6
  <2>0. /\ a \in Nat /\ b \in Nat /\ a + 1 \in 1 .. n /\ b \in 1 .. n /\ b \in 0 .. n
        /\ i + a \in Nat /\ i + (a + 1) - 1 = i + a /\ i + (a + 1) = (i + a) + 1
    BY <1>1, <2>a
  <2>u. PICK u : u = SubSeq(p, a + 1, b)
    OBVIOUS
  <2>1. Len(u) = b - a /\ \A k \in 1 .. (b - a) : u[k] = p[a + k]
    BY <1>1, <2>a, <2>u
  <2>2. Scanned(t)[i + a] = At(d, "string", i + a, 0) /\ i + a \in Nat
    BY <1>6 DEF Stands
  <2>3. CASE u \in {<<c>> : c \in Char \ {"q", "b"}}
    <3>1. PICK c \in Char \ {"q", "b"} : u = <<c>>
      BY <2>3
    <3>2. b = a + 1
      BY <2>0, <2>1, <3>1
    <3>3. p[a + 1] = c
      BY <2>0, <2>1, <3>1, <3>2
    <3>4. Scanned(t)[i + (a + 1)] = ScanChar(Scanned(t)[i + (a + 1) - 1], c)
      BY <1>4, <2>0, <3>3
    <3>c. c \notin {"q", "b"}
      BY <3>1, Zenon
    <3>t. ScanChar(At(d, "string", i + a, 0), c) = At(d, "string", (i + a) + 1, 0)
      <4>1. i + a \in Nat
        BY <2>0
      <4> QED
        BY <3>c, <4>1, Turns, Zenon
    <3>5. Scanned(t)[i + b] = At(d, "string", i + b, 0)
      BY <2>0, <2>2, <3>2, <3>4, <3>t
    <3> QED
      BY <2>0, <3>5 DEF Stands
  <2>4. CASE u \in {<<"b", c>> : c \in Char}
    <3>1. PICK c \in Char : u = <<"b", c>>
      BY <2>4
    <3>2. b = a + 2
      BY <2>0, <2>1, <3>1
    <3>3. p[a + 1] = "b" /\ p[b] = c
      BY <2>0, <2>1, <3>1, <3>2
    <3>4. Scanned(t)[i + (a + 1)] = ScanChar(Scanned(t)[i + (a + 1) - 1], "b")
      BY <1>4, <2>0, <3>3
    <3>t. ScanChar(At(d, "string", i + a, 0), "b") = At(d, "escape", (i + a) + 1, 0)
      BY <2>0, Turns
    <3>5. Scanned(t)[i + (a + 1)] = At(d, "escape", i + (a + 1), 0)
      BY <2>0, <2>2, <3>4, <3>t
    <3>6. Scanned(t)[i + b] = ScanChar(Scanned(t)[i + b - 1], c)
      BY <1>4, <2>0, <3>3
    <3>7. i + b - 1 = i + (a + 1) /\ i + b = i + (a + 1) + 1 /\ i + (a + 1) \in Nat
      BY <2>0, <3>2
    <3>e. ScanChar(At(d, "escape", i + (a + 1), 0), c) = At(d, "string", (i + (a + 1)) + 1, 0)
      BY <3>7, Turns
    <3>8. Scanned(t)[i + b] = At(d, "string", i + b, 0)
      BY <3>5, <3>6, <3>7, <3>e
    <3> QED
      BY <2>0, <3>8 DEF Stands
  <2> QED
    BY <1>6, <2>u, <2>3, <2>4 DEF Units
<1>7. n - 1 \in R
  <2>1. InPieces(p, 1, n - 1, Units)
    BY <1>1, <1>2
  <2> HIDE DEF R
  <2> QED
    BY <1>3, <1>5, <1>6, <2>1, CutsReach
<1>8. Scanned(t)[j] = ScanChar(At(d, "string", i + (n - 1), 0), "q")
  BY <1>1, <1>2, <1>3, <1>4, <1>7 DEF Stands
<1>9. i + (n - 1) \in Nat /\ i + (n - 1) + 1 = j
  BY <1>1, <1>3
<1> QED
  BY <1>8, <1>9, Turns DEF Stands

\* An object begins and ends with its braces.
LEMMA ObjectEnds ==
  ASSUME NEW t \in Seq(Char), NEW i \in Nat, NEW j \in Nat, i <= j, j <= Len(t),
         SubSeq(t, i + 1, j) \in Objects
  PROVE  /\ i + 2 <= j /\ t[i + 1] = "{" /\ t[j] = "}"
         /\ InPieces(SubSeq(t, i + 1, j), 1, j - i - 1, {<<"x">>} \cup JsonStrings \cup Objects)
<1> DEFINE p == SubSeq(t, i + 1, j)
<1>1. Len(p) = j - i /\ \A k \in 1 .. (j - i) : p[k] = t[i + k]
  BY PartOfPart
<1>2. /\ Len(p) >= 2 /\ p[1] = "{" /\ p[Len(p)] = "}"
      /\ InPieces(p, 1, Len(p) - 1, {<<"x">>} \cup JsonStrings \cup Objects)
  BY ObjectAssumption DEF Encloses
<1> HIDE DEF p
<1>a. j - i >= 2
  <2>1. Len(p) >= 2 /\ Len(p) = j - i
    BY <1>1, <1>2
  <2> QED
    BY <2>1
<1>3. i + 2 <= j /\ 1 \in 1 .. (j - i) /\ j - i \in 1 .. (j - i) /\ i + (j - i) = j
  BY <1>a
<1> QED
  BY <1>1, <1>2, <1>3 DEF p

\* An object is left one level below where it was entered, if those that are
\* shorter are.
LEMMA ObjectStep ==
  ASSUME NEW t \in Seq(Char), NEW a \in Nat, NEW b \in Nat, a <= b, b <= Len(t),
         SubSeq(t, a + 1, b) \in Objects, NEW e \in Nat, Stands(t, e, "text", a),
         \A x, y, f \in Nat :
           /\ x <= y /\ y <= Len(t) /\ y - x < b - a
           /\ SubSeq(t, x + 1, y) \in Objects /\ Stands(t, f, "text", x)
           => Stands(t, f + 1, "text", y - 1)
  PROVE  Stands(t, e + 1, "text", b - 1)
<1> DEFINE p == SubSeq(t, a + 1, b)
           n == b - a
           Piece == {<<"x">>} \cup JsonStrings \cup Objects
           R == {k \in 0 .. n : Stands(t, e + 1, "text", a + k)}
<1>1. /\ p \in Seq(Char) /\ Len(p) = n /\ n \in Nat
      /\ \A k \in 1 .. n : p[k] = t[a + k] /\ a + k \in 1 .. Len(t)
  BY PartOfPart
<1>2. a + 2 <= b /\ t[a + 1] = "{" /\ InPieces(p, 1, n - 1, Piece)
  BY ObjectEnds
<1>3. \A x, y \in Nat : x <= y /\ y <= n => SubSeq(p, x + 1, y) = SubSeq(t, (a + x) + 1, a + y)
  BY PartOfPart
<1>4. n >= 2 /\ 1 \in 1 .. n /\ n \in 1 .. n /\ n - 1 \in Nat /\ a + (n - 1) = b - 1 /\ n = b - a
  <2>1. a + 2 <= b
    BY <1>2
  <2> HIDE DEF p, Piece
  <2> QED
    BY <2>1
<1> HIDE DEF p, n, Piece
<1>5. 1 \in R
  <2>1. Scanned(t)[a + 1] = ScanChar(Scanned(t)[a], "{")
    <3>1. a + 1 \in 1 .. Len(t) /\ (a + 1) - 1 = a
      <4>1. Len(t) \in Nat
        OBVIOUS
      <4>2. a + 2 <= b
        BY <1>2
      <4> QED
        BY <4>1, <4>2
    <3> QED
      BY <1>2, <3>1, ScannedStep
  <2>2. ScanChar(At(e, "text", a, 0), "{") = At(e + 1, "text", a + 1, 0)
    <3>1. e \in Int
      OBVIOUS
    <3> QED
      BY <3>1, Turns, Zenon
  <2>3. Stands(t, e + 1, "text", a + 1)
    BY <2>1, <2>2 DEF Stands
  <2> QED
    BY <1>1, <1>4, <2>3
<1>6. ASSUME NEW x \in 1 .. (n - 1), NEW y \in 1 .. (n - 1),
             x \in R, x < y, SubSeq(p, x + 1, y) \in Piece
      PROVE  y \in R
  <2>1. x \in Nat /\ y \in Nat /\ x < y /\ y < n /\ 1 <= x
    BY <1>1, <1>6
  <2>2. /\ a + x \in Nat /\ a + y \in Nat /\ a + x <= a + y /\ a + y <= Len(t)
        /\ a + y \in 1 .. Len(t) /\ y \in 0 .. n
        /\ (a + y) - (a + x) < b - a /\ e + 1 \in Nat /\ e + 1 \in Int
    BY <1>1, <1>4, <2>1
  <2>3. PICK u : u = SubSeq(t, (a + x) + 1, a + y) /\ u \in Piece
    <3>1. SubSeq(p, x + 1, y) = SubSeq(t, (a + x) + 1, a + y)
      <4>1. x \in Nat /\ y \in Nat /\ x <= y /\ y <= n
        BY <1>1, <2>1
      <4> QED
        BY <1>3, <4>1, Zenon
    <3> QED
      BY <1>6, <3>1, Zenon
  <2>4. Stands(t, e + 1, "text", a + x)
    BY <1>6
  <2>5. Len(u) = y - x /\ \A k \in 1 .. (y - x) : u[k] = t[(a + x) + k]
    <3>1. (a + y) - (a + x) = y - x
      BY <2>1
    <3> QED
      BY <2>2, <2>3, <3>1, PartOfPart
  <2>6. CASE u = <<"x">>
    <3>1. y = x + 1 /\ t[(a + x) + 1] = "x" /\ a + y = (a + x) + 1 /\ (a + y) - 1 = a + x
      BY <2>1, <2>5, <2>6
    <3>2. Scanned(t)[a + y] = ScanChar(Scanned(t)[a + x], "x")
      BY <2>2, <3>1, ScannedStep
    <3>3. ScanChar(At(e + 1, "text", a + x, 0), "x") = At(e + 1, "text", (a + x) + 1, 0)
      BY <2>2, Turns
    <3>4. Stands(t, e + 1, "text", a + y)
      BY <2>4, <3>1, <3>2, <3>3 DEF Stands
    <3> QED
      BY <2>2, <3>4
  <2>7. CASE u \in JsonStrings
    <3>1. Stands(t, e + 1, "text", a + y)
      BY <2>2, <2>3, <2>4, <2>7, StringScanned
    <3> QED
      BY <2>2, <3>1
  <2>8. CASE u \in Objects
    <3>1. Stands(t, (e + 1) + 1, "text", (a + y) - 1)
      BY <2>2, <2>3, <2>4, <2>8
    <3>2. t[a + y] = "}"
      BY <2>2, <2>3, <2>8, ObjectEnds
    <3>3. Scanned(t)[a + y] = ScanChar(Scanned(t)[(a + y) - 1], "}")
      BY <2>2, <3>2, ScannedStep
    <3>4. PICK f \in Int, k \in Nat : f = (e + 1) + 1 /\ k = (a + y) - 1
      <4>1. (e + 1) + 1 \in Int /\ (a + y) - 1 \in Nat
        BY <2>2
      <4> QED
        BY <4>1
    <3>5. ScanChar(At(f, "text", k, 0), "}") = At(f - 1, "text", k + 1, IF f = 1 THEN k + 1 ELSE 0)
      BY Turns
    <3>6. f - 1 = e + 1 /\ k + 1 = a + y /\ f # 1
      BY <2>2, <3>4
    <3>7. ScanChar(At(f, "text", k, 0), "}") = At(e + 1, "text", a + y, 0)
      BY <3>5, <3>6
    <3>8. Stands(t, e + 1, "text", a + y)
      BY <3>1, <3>3, <3>4, <3>7 DEF Stands
    <3> QED
      BY <2>2, <3>8
  <2> QED
    BY <2>3, <2>6, <2>7, <2>8 DEF Piece
<1>7. n - 1 \in R
  <2> HIDE DEF R
  <2>1. 1 \in Nat /\ n - 1 \in Nat /\ 1 <= n - 1
    BY <1>1, <1>4
  <2>2. InPieces(p, 1, n - 1, Piece)
    BY <1>2
  <2>3. \A x, y \in 1 .. (n - 1) :
          x \in R /\ x < y /\ SubSeq(p, x + 1, y) \in Piece => y \in R
    BY <1>6
  <2> QED
    BY <1>5, <2>1, <2>2, <2>3, CutsReach
<1> QED
  BY <1>4, <1>7

\* So every object is, however deep its objects are nested: by its length.
LEMMA ObjectScanned ==
  ASSUME NEW t \in Seq(Char), NEW i \in Nat, NEW j \in Nat, i <= j, j <= Len(t),
         SubSeq(t, i + 1, j) \in Objects, NEW d \in Nat, Stands(t, d, "text", i)
  PROVE  Stands(t, d + 1, "text", j - 1)
<1> DEFINE Bad(a, b, e) == /\ a <= b /\ b <= Len(t) /\ SubSeq(t, a + 1, b) \in Objects
                           /\ Stands(t, e, "text", a) /\ ~ Stands(t, e + 1, "text", b - 1)
           Sizes == {m \in Nat : \E a, b, e \in Nat : m = b - a /\ Bad(a, b, e)}
<1> SUFFICES ASSUME Bad(i, j, d) PROVE FALSE
  OBVIOUS
<1>1. j - i \in Sizes
  <2>1. j - i \in Nat
    OBVIOUS
  <2> HIDE DEF Bad
  <2> QED
    BY <2>1
<1>2. PICK m \in Sizes : \A k \in Sizes : m <= k
  <2> HIDE DEF Sizes
  <2>1. Sizes \subseteq Nat
    BY DEF Sizes
  <2> QED
    BY <1>1, <2>1, LeastOne
<1>3. PICK a, b, e \in Nat : m = b - a /\ Bad(a, b, e)
  <2> HIDE DEF Bad
  <2> QED
    BY <1>2
<1>4. ASSUME NEW x \in Nat, NEW y \in Nat, NEW f \in Nat,
             x <= y, y - x < b - a, Bad(x, y, f)
      PROVE  FALSE
  <2> HIDE DEF Bad
  <2>1. y - x \in Nat
    BY <1>4
  <2>2. y - x \in Sizes
    BY <1>4, <2>1
  <2>3. b - a <= y - x
    <3> HIDE DEF Sizes
    <3> QED
      BY <1>2, <1>3, <2>2
  <2> QED
    BY <1>4, <2>1, <2>3
<1>5. Stands(t, e + 1, "text", b - 1)
  <2> HIDE DEF Sizes
  <2>1. \A x, y, f \in Nat :
           /\ x <= y /\ y <= Len(t) /\ y - x < b - a
           /\ SubSeq(t, x + 1, y) \in Objects /\ Stands(t, f, "text", x)
           => Stands(t, f + 1, "text", y - 1)
    BY <1>4
  <2> QED
    BY <1>3, <2>1, ObjectStep
<1> QED
  BY <1>3, <1>5

\* A text that begins with an object: the scanner ends where it does.
LEMMA ScanEnds ==
  ASSUME NEW t \in Seq(Char), NEW j \in Nat, j <= Len(t), SubSeq(t, 1, j) \in Objects
  PROVE  j \in Nat \ {0} /\ Scanned(t)[Len(t)].end = j
<1>n. Len(t) \in Nat
  OBVIOUS
<1>0. 0 + 2 <= j /\ t[j] = "}"
  <2>1. SubSeq(t, 0 + 1, j) \in Objects /\ 0 <= j /\ 0 \in Nat
    OBVIOUS
  <2> QED
    BY <2>1, ObjectEnds
<1>1. 2 <= j
  <2>1. 0 + 2 <= j
    BY <1>0
  <2> QED
    BY <2>1
<1>2. Stands(t, 1, "text", j - 1)
  <2>1. SubSeq(t, 0 + 1, j) \in Objects /\ 0 <= j /\ 0 \in Nat
    OBVIOUS
  <2>2. Stands(t, 0, "text", 0)
    BY ScannedStep DEF Stands
  <2>3. Stands(t, 0 + 1, "text", j - 1)
    BY <2>1, <2>2, ObjectScanned
  <2>4. 0 + 1 = 1
    OBVIOUS
  <2> QED
    BY <2>3, <2>4
<1>3. Scanned(t)[j] = At(0, "text", j, j)
  <2>1. PICK k \in Nat : k = j - 1 /\ j = k + 1
    BY <1>1
  <2>2. PICK d \in Int : d = 1
    OBVIOUS
  <2>3. ScanChar(At(d, "text", k, 0), "}") = At(d - 1, "text", k + 1, IF d = 1 THEN k + 1 ELSE 0)
    BY Turns
  <2>d. d - 1 = 0
    BY <2>2
  <2>s. ScanChar(At(1, "text", k, 0), "}") = At(0, "text", j, j)
    BY <2>1, <2>2, <2>3, <2>d, Zenon
  <2>4. j \in 1 .. Len(t)
    BY <1>n, <1>1
  <2>5. Scanned(t)[j] = ScanChar(Scanned(t)[j - 1], "}")
    BY <1>0, <2>4, ScannedStep
  <2> QED
    BY <1>2, <2>1, <2>s, <2>5 DEF Stands
<1>4. ASSUME NEW k \in j .. Len(t), Scanned(t)[k] # At(0, "text", j, j)
      PROVE  FALSE
  <2> DEFINE Off == {i \in j .. Len(t) : Scanned(t)[i] # At(0, "text", j, j)}
  <2>1. Off \subseteq Nat /\ Off # {}
    BY <1>4
  <2>2. PICK m \in Off : \A i \in Off : m <= i
    <3> HIDE DEF Off
    <3> QED
      BY <2>1, LeastOne
  <2>3. m # j
    BY <1>3, <2>2
  <2>4. m - 1 \in j .. Len(t) /\ m \in 1 .. Len(t) /\ ~ (m <= m - 1)
    <3>1. m \in Nat /\ j <= m /\ m <= Len(t)
      BY <1>n
    <3> HIDE DEF Off
    <3> QED
      BY <1>n, <1>1, <2>3, <3>1
  <2>5. Scanned(t)[m - 1] = At(0, "text", j, j)
    BY <2>2, <2>4
  <2>6. Scanned(t)[m] = ScanChar(At(0, "text", j, j), t[m])
    BY <2>4, <2>5, ScannedStep
  <2>7. Scanned(t)[m] = At(0, "text", j, j)
    <3>1. j > 0
      BY <1>1
    <3> QED
      BY <2>6, <3>1, Ended
  <2> QED
    BY <2>7
<1>5. Scanned(t)[Len(t)] = At(0, "text", j, j)
  <2>1. Len(t) \in j .. Len(t)
    OBVIOUS
  <2> QED
    BY <1>4, <2>1
<1>6. Scanned(t)[Len(t)].end = j
  BY <1>5 DEF At
<1> QED
  BY <1>1, <1>6

\* Prose has no brace before this place.
Bare(t, a) == \A k \in 1 .. a : t[k] # "{"

\* The object after prose without braces is the span that is found.
LEMMA SpanIsObject ==
  ASSUME NEW t \in Seq(Char), NEW a \in Nat, NEW j \in Nat, a <= j, j <= Len(t),
         SubSeq(t, a + 1, j) \in Objects, Bare(t, a)
  PROVE  FirstObjectSpan(t) = SubSeq(t, a + 1, j)
<1> DEFINE rest == SubSeq(t, a + 1, Len(t))
           opens == {k \in DOMAIN t : t[k] = "{"}
<1>n. Len(t) \in Nat /\ DOMAIN t = 1 .. Len(t)
  OBVIOUS
<1>0. a + 2 <= j
  BY ObjectEnds
<1>2. t[a + 1] = "{"
  BY ObjectEnds
<1>i. a + 1 \in 1 .. Len(t)
  BY <1>n, <1>0
<1>o. \A k \in opens : k \in 1 .. Len(t)
  BY <1>n
<1>b. \A k \in opens : t[k] = "{"
  OBVIOUS
<1>3. a + 1 \in opens
  BY <1>n, <1>2, <1>i
<1>l. \A k \in opens : a + 1 <= k
  <2> SUFFICES ASSUME NEW k \in opens, ~ (a + 1 <= k) PROVE FALSE
    OBVIOUS
  <2> HIDE DEF opens
  <2>1. k \in Nat /\ 1 <= k
    BY <1>n, <1>o
  <2>2. k \in 1 .. a
    BY <2>1
  <2> QED
    BY <1>b, <2>2, Zenon DEF Bare
<1>4. \A x \in opens : (\A k \in opens : x <= k) => x = a + 1
  <2> SUFFICES ASSUME NEW x \in opens, \A k \in opens : x <= k PROVE x = a + 1
    OBVIOUS
  <2> HIDE DEF opens
  <2>1. x \in Nat
    BY <1>n, <1>o
  <2>2. x <= a + 1 /\ a + 1 <= x
    BY <1>3, <1>l
  <2> QED
    BY <2>1, <2>2
<1>5. (CHOOSE x \in opens : \A k \in opens : x <= k) = a + 1
  <2> HIDE DEF opens
  <2> QED
    BY <1>3, <1>l, <1>4
<1>6. FirstObjectSpan(t) = SubSeq(rest, 1, Scanned(rest)[Len(rest)].end)
  <2>1. opens # {}
    BY <1>3
  <2> QED
    BY <1>5, <2>1, Zenon DEF FirstObjectSpan
<1>z. PICK z \in Nat, m \in Nat, w \in Nat : z = 0 /\ m = j - a /\ w = Len(t)
  <2>1. 0 \in Nat /\ j - a \in Nat
    OBVIOUS
  <2> QED
    BY <1>n, <2>1
<1>7. /\ rest \in Seq(Char) /\ Len(rest) = w - a
      /\ SubSeq(rest, z + 1, m) = SubSeq(t, a + z + 1, a + m)
  <2>1. z <= m /\ m <= w - a /\ a <= w
    BY <1>n, <1>z
  <2> QED
    BY <1>z, <2>1, PartOfPart
<1> HIDE DEF opens, rest
<1>8. SubSeq(rest, 1, j - a) = SubSeq(t, a + 1, j)
  <2>1. z + 1 = 1 /\ a + z + 1 = a + 1 /\ a + m = j
    BY <1>z
  <2> QED
    BY <1>7, <1>z, <2>1, Zenon
<1>9. Scanned(rest)[Len(rest)].end = j - a
  <2>1. j - a \in Nat /\ j - a <= Len(t) - a
    BY <1>n
  <2>2. j - a <= Len(rest)
    BY <1>7, <1>z, <2>1
  <2>3. SubSeq(rest, 1, j - a) \in Objects
    BY <1>8
  <2> QED
    BY <1>7, <2>1, <2>2, <2>3, ScanEnds
<1> QED
  BY <1>6, <1>8, <1>9

\* The fenced blocks are numbered.
LEMMA BlocksAreNumbered == ASSUME NEW t PROVE DOMAIN FencedBlocks(t) \subseteq Nat
<1> DEFINE fences == SetToSortSeq({i \in DOMAIN t : t[i] = "f"}, LAMBDA i, j : i < j)
<1>1. PICK q : q = Len(fences) \div 2
  OBVIOUS
<1>2. DOMAIN FencedBlocks(t) = 1 .. q
  BY <1>1, Zenon DEF FencedBlocks
<1>3. 1 .. q \subseteq Nat
  OBVIOUS
<1> QED
  BY <1>2, <1>3

\* An object that is not hidden by the prose before it, nor by one in a fence,
\* is what is extracted.
LEMMA ObjectIsExtracted ==
  ASSUME NEW t \in Seq(Char), NEW a \in Nat, NEW j \in Nat, a <= j, j <= Len(t),
         SubSeq(t, a + 1, j) \in Objects, Bare(t, a),
         \A k \in DOMAIN FencedBlocks(t) : FencedBlocks(t)[k] \notin Objects \ {SubSeq(t, a + 1, j)}
  PROVE  ExtractJson(t) = SubSeq(t, a + 1, j)
<1> DEFINE fenced == {k \in DOMAIN FencedBlocks(t) : FencedBlocks(t)[k] \in Objects}
<1>1. PICK object : object = SubSeq(t, a + 1, j)
  OBVIOUS
<1>n. PICK N \in Nat : N = Len(t)
  OBVIOUS
<1>m. N <= Len(t)
  BY <1>n
<1>2. CASE t \in Objects
  <2>1. SubSeq(t, 1, N) = t
    BY <1>n
  <2>2. PICK z \in Nat : z = 0
    OBVIOUS
  <2>3. z + 1 = 1 /\ z <= N
    BY <2>2
  <2>4. t[1] = "{" /\ z + 2 <= N
    <3>1. SubSeq(t, z + 1, N) \in Objects
      BY <1>2, <2>1, <2>3, Zenon
    <3>2. t[z + 1] = "{" /\ z + 2 <= N
      BY <1>m, <2>3, <3>1, ObjectEnds, Zenon
    <3> QED
      BY <2>3, <3>2, Zenon
  <2>5. a = 0
    <3> SUFFICES ASSUME a # 0 PROVE FALSE
      OBVIOUS
    <3>1. 1 \in 1 .. a
      OBVIOUS
    <3> QED
      BY <2>4, <3>1, Zenon DEF Bare
  <2>6. SubSeq(t, 1, j) \in Objects
    <3>1. a + 1 = 1
      BY <2>5
    <3> QED
      BY <3>1, Zenon
  <2>7. Scanned(t)[Len(t)].end = j
    BY <2>6, ScanEnds
  <2>8. Scanned(t)[Len(t)].end = N
    <3>1. SubSeq(t, 1, N) \in Objects
      BY <1>2, <2>1, Zenon
    <3> QED
      BY <1>m, <3>1, ScanEnds, Zenon
  <2>9. SubSeq(t, a + 1, j) = t
    <3>1. a + 1 = 1 /\ j = N
      BY <2>5, <2>7, <2>8
    <3> QED
      BY <2>1, <3>1, Zenon
  <2> QED
    BY <1>2, <2>9, Zenon DEF ExtractJson
<1>3. CASE t \notin Objects /\ fenced # {}
  <2>1. fenced \subseteq Nat
    BY BlocksAreNumbered
  <2>2. \A k \in fenced : FencedBlocks(t)[k] = object
    BY <1>1, Zenon
  <2> DEFINE first == CHOOSE k \in fenced : \A m \in fenced : k <= m
  <2>3. first \in fenced
    <3> HIDE DEF fenced
    <3>1. \E k \in fenced : \A m \in fenced : k <= m
      BY <1>3, <2>1, LeastOne
    <3> QED
      BY <3>1
  <2>4. ExtractJson(t) = FencedBlocks(t)[first]
    BY <1>3, Zenon DEF ExtractJson
  <2> HIDE DEF first, fenced
  <2> QED
    BY <1>1, <2>2, <2>3, <2>4, Zenon
<1>4. CASE t \notin Objects /\ fenced = {}
  <2>1. FirstObjectSpan(t) = object
    BY <1>1, SpanIsObject
  <2>2. object \in Objects
    BY <1>1
  <2> QED
    BY <1>1, <1>4, <2>1, <2>2, Zenon DEF ExtractJson
<1> QED
  BY <1>2, <1>3, <1>4

\* The reply a node holds is one of the texts.
HoldsText == \A n \in Node : reply[n] \in Texts \cup {Nothing}

ReplyInv == DOMAIN reply = Node /\ HoldsText

\* Only a reply changes what a node holds.
LEMMA RepliesAreTexts == Spec => []ReplyInv
<1>1. Init => ReplyInv
  BY DEF Init, ReplyInv, HoldsText
<1>2. ReplyInv /\ [Next]_vars => ReplyInv'
  <2> SUFFICES ASSUME ReplyInv, [Next]_vars PROVE ReplyInv'
    OBVIOUS
  <2>1. CASE UNCHANGED reply
    BY <2>1 DEF ReplyInv, HoldsText
  <2>2. ASSUME NEW n \in Node, NEW text \in Texts, Reply(n, text) PROVE ReplyInv'
    <3>1. reply' = [reply EXCEPT ![n] = text]
      BY <2>2 DEF Reply
    <3> QED
      BY <3>1 DEF ReplyInv, HoldsText
  <2>3. UNCHANGED reply \/ \E n \in Node : \E text \in Texts : Reply(n, text)
    BY DEF Next, vars, Dispatch, Wake, RecorderRaises, Backoff, GiveUp, Unusable
  <2> QED
    BY <2>1, <2>2, <2>3
<1> QED
  BY <1>1, <1>2, PTL DEF Spec

\* Text without an opening brace.
NoBrace(p) == \A k \in DOMAIN p : p[k] # "{"

\* The property says it of the prose, the lemmas of the places in the text.
LEMMA BareProse ==
  ASSUME NEW t \in Seq(Char), NEW a \in Nat, a <= Len(t), NoBrace(SubSeq(t, 1, a))
  PROVE  Bare(t, a)
<1>1. PICK p : p = SubSeq(t, 1, a)
  OBVIOUS
<1>2. DOMAIN p = 1 .. a /\ \A k \in 1 .. a : p[k] = t[k]
  BY <1>1
<1>3. \A k \in DOMAIN p : p[k] # "{"
  BY <1>1, Zenon DEF NoBrace
<1> QED
  BY <1>2, <1>3, Zenon DEF Bare

\* Then what is found in it is the object that it holds.
LEMMA FoundIn == ReplyInv => AnswerIsFound
<1> SUFFICES ASSUME ReplyInv, NEW n \in Node, NEW i \in DOMAIN reply[n], NEW j \in i .. Len(reply[n]),
                    SubSeq(reply[n], i, j) \in Objects,
                    NoBrace(SubSeq(reply[n], 1, i - 1)),
                    \A k \in DOMAIN FencedBlocks(reply[n]) :
                      FencedBlocks(reply[n])[k] \notin Objects \ {SubSeq(reply[n], i, j)}
             PROVE  ExtractJson(reply[n]) = SubSeq(reply[n], i, j)
  BY Zenon DEF AnswerIsFound, NoBrace
<1>1. PICK t : t = reply[n]
  OBVIOUS
<1>2. t \in Seq(Char)
  <2>1. Texts \subseteq Seq(Char)
    BY CallAssumption, Zenon
  <2>2. reply[n] \in Texts \/ reply[n] = <<>>
    BY Zenon DEF ReplyInv, HoldsText, Nothing
  <2>3. <<>> \in Seq(Char)
    OBVIOUS
  <2> QED
    BY <1>1, <2>1, <2>2, <2>3, Zenon
<1>3. PICK a \in Nat : /\ a = i - 1 /\ a + 1 = i /\ j \in Nat
                       /\ a <= j /\ j <= Len(t) /\ a <= Len(t)
  <2>1. Len(t) \in Nat /\ DOMAIN t = 1 .. Len(t)
    BY <1>2
  <2>2. i \in 1 .. Len(t) /\ j \in i .. Len(t)
    BY <1>1, <2>1, Zenon
  <2> QED
    BY <2>1, <2>2
<1>4. Bare(t, a)
  <2>1. NoBrace(SubSeq(t, 1, a)) /\ a <= Len(t)
    BY <1>1, <1>3, Zenon
  <2> QED
    BY <1>2, <2>1, BareProse
<1> QED
  <2>1. SubSeq(t, a + 1, j) = SubSeq(reply[n], i, j)
    BY <1>1, <1>3, Zenon
  <2>2. SubSeq(t, a + 1, j) \in Objects
    BY <2>1, Zenon
  <2>3. \A k \in DOMAIN FencedBlocks(t) : FencedBlocks(t)[k] \notin Objects \ {SubSeq(t, a + 1, j)}
    BY <1>1, <2>1, Zenon
  <2>4. ExtractJson(t) = SubSeq(t, a + 1, j)
    BY <1>2, <1>3, <1>4, <2>2, <2>3, ObjectIsExtracted
  <2> QED
    BY <1>1, <2>1, <2>4, Zenon

\* An object that the model wrote is found whole, whatever prose, braces,
\* quotes and escapes surround it and fill its strings, in every text and for
\* every set of objects that JSON's grammar allows (extract_json,
\* _first_object_span).
THEOREM AnswersAreFound == Spec => []AnswerIsFound
BY RepliesAreTexts, FoundIn, PTL

-----------------------------------------------------------------------------
(***************************************************************************)
(* Types.                                                                  *)
(***************************************************************************)

Request == [node : Stage, key : Key, from : Nat]

\* Positions are numbers, and nothing was served before the adapter was built.
ReplayType ==
  /\ DOMAIN cassettes \subseteq Nat \ {None}
  /\ served \in Seq(Request)
  /\ drifted \in Seq(Stage)
  /\ ~ replaying => served = <<>> /\ drifted = <<>>

LEMMA TypeInit == ReplayInit => ReplayType
<1> SUFFICES ASSUME ReplayInit PROVE ReplayType
  OBVIOUS
<1>1. cassettes = <<>> /\ served = <<>> /\ drifted = <<>>
  BY DEF ReplayInit
<1>2. DOMAIN <<>> = {}
  OBVIOUS
<1> QED
  BY <1>1, <1>2 DEF ReplayType

\* One entry per key.
LEMMA PlacesAreNumbers == ASSUME NEW t PROVE DOMAIN CassettesFromLines(t) \subseteq Nat \ {None}
<1> DEFINE firsts == {i \in DOMAIN t : FirstAt(t, i)}
<1>1. DOMAIN CassettesFromLines(t) = 1..Cardinality(firsts)
  BY Zenon DEF CassettesFromLines
<1> HIDE DEF firsts
<1>2. 1..Cardinality(firsts) \subseteq Nat \ {None}
  BY DEF None
<1> QED
  BY <1>1, <1>2

LEMMA TypeNext == ReplayType /\ [ReplayNext]_replayVars => ReplayType'
<1> SUFFICES ASSUME ReplayType, [ReplayNext]_replayVars PROVE ReplayType'
  OBVIOUS
<1> USE DEF ReplayType
<1>1. CASE UNCHANGED replayVars
  BY <1>1 DEF replayVars
<1>2. ASSUME NEW n \in Stage, NEW k \in Key, NEW x \in Text, Record(n, k, x) PROVE ReplayType'
  BY <1>2 DEF Record
<1>3. CASE Load
  BY <1>3, PlacesAreNumbers DEF Load
<1>4. ASSUME NEW n \in Stage, NEW k \in Key, NEW p \in Nat, Answer(n, k, p)
      PROVE  served' \in Seq(Request)
  <2>1. [node |-> n, key |-> k, from |-> p] \in Request
    BY DEF Request
  <2> QED
    BY <1>4, <2>1 DEF Answer
<1>5. ASSUME NEW n \in Stage, NEW k \in Key, InvokeExact(n, k) PROVE ReplayType'
  <2>1. PICK p \in Exact(k) : Answer(n, k, p)
    BY <1>5 DEF InvokeExact
  <2>2. p \in Nat
    BY DEF Exact
  <2> QED
    BY <1>4, <1>5, <2>1, <2>2 DEF InvokeExact, Ask
<1>6. ASSUME NEW n \in Stage, NEW k \in Key, InvokeFallback(n, k) PROVE ReplayType'
  <2>1. PICK p \in Candidates(n, k) : Answer(n, k, p)
    BY <1>6 DEF InvokeFallback
  <2>2. p \in Nat
    BY DEF Candidates, ByNode
  <2>3. drifted' \in Seq(Stage)
    BY <1>6 DEF InvokeFallback, Drift
  <2> QED
    BY <1>4, <1>6, <2>1, <2>2, <2>3 DEF InvokeFallback, Ask
<1>7. ASSUME NEW n \in Stage, NEW k \in Key, InvokeMiss(n, k) PROVE ReplayType'
  BY <1>4, <1>7 DEF InvokeMiss, Ask, None
<1> QED
  BY <1>1, <1>2, <1>3, <1>5, <1>6, <1>7 DEF ReplayNext

\* What the adapter holds has its type, for every tape.
THEOREM ReplayTypeCorrect == ReplaySpec => []ReplayType
  BY TypeInit, TypeNext, PTL DEF ReplaySpec

-----------------------------------------------------------------------------
(***************************************************************************)
(* Fallbacks are served in order.                                          *)
(***************************************************************************)

\* The recordings of node n that a request of skill s may fall back to.
Shelf(n, s) == {p \in ByNode(n) : Skill[cassettes[p].key] = s}

\* What a fallback served is gone, and so is all that lay before it.
ConsumedBefore(r) ==
  /\ r.from \in consumed
  /\ \A p \in Shelf(r.node, Skill[r.key]) : p < r.from => p \in consumed

OrderInv ==
  /\ \A i \in DOMAIN served : Mismatched(served[i]) => ConsumedBefore(served[i])
  /\ FallbackInOrder

LEMMA OrderNext == ReplayType /\ OrderInv /\ [ReplayNext]_replayVars => OrderInv'
<1> SUFFICES ASSUME ReplayType, OrderInv, [ReplayNext]_replayVars PROVE OrderInv'
  OBVIOUS
<1>1. CASE UNCHANGED <<cassettes, consumed, served>>
  BY <1>1 DEF OrderInv, FallbackInOrder, Mismatched, ConsumedBefore, Shelf, ByNode
<1>2. CASE ~ replaying
  <2>1. served = <<>>
    BY <1>2 DEF ReplayType
  <2>2. served' = served
    BY <1>2 DEF ReplayNext, replayVars, Record, Load, InvokeExact, InvokeFallback, InvokeMiss, Ask
  <2> QED
    BY <2>1, <2>2 DEF OrderInv, FallbackInOrder
<1>3. ASSUME NEW n \in Stage, NEW k \in Key, NEW p \in Nat, Answer(n, k, p), cassettes' = cassettes,
             consumed \subseteq consumed',
             p # None /\ cassettes[p].key # k =>
               /\ p \in Candidates(n, k) /\ p \in consumed'
               /\ \A q \in Candidates(n, k) : p <= q
      PROVE  OrderInv'
  <2> DEFINE r == [node |-> n, key |-> k, from |-> p]
             len == Len(served)
  <2>1. /\ len \in Nat /\ DOMAIN served = 1..len /\ DOMAIN served' = 1..(len + 1)
        /\ served'[len + 1] = r
        /\ \A i \in 1..len : served'[i] = served[i] /\ served[i] \in Request
    BY <1>3 DEF ReplayType, Answer
  <2>2. r.node = n /\ r.key = k /\ r.from = p
    OBVIOUS
  <2> HIDE DEF r, len
  <2>3. \A o : Mismatched(o)' = Mismatched(o)
    BY <1>3 DEF Mismatched
  <2>4. \A o : ConsumedBefore(o) => ConsumedBefore(o)'
    BY <1>3 DEF ConsumedBefore, Shelf, ByNode
  <2>5. Mismatched(r) => ConsumedBefore(r)'
    <3> SUFFICES ASSUME Mismatched(r) PROVE ConsumedBefore(r)'
      OBVIOUS
    <3>1. p \in consumed' /\ \A q \in Candidates(n, k) : p <= q
      BY <1>3, <2>2 DEF Mismatched
    <3>2. ASSUME NEW q \in Shelf(n, Skill[k]), q < p PROVE q \in consumed
      <4>1. q \in Nat
        BY DEF Shelf, ByNode, ReplayType
      <4>2. q \notin Candidates(n, k)
        BY <3>1, <3>2, <4>1
      <4> QED
        BY <3>2, <4>2 DEF Candidates, Shelf
    <3>3. Shelf(n, Skill[k])' = Shelf(n, Skill[k])
      BY <1>3 DEF Shelf, ByNode
    <3> QED
      BY <1>3, <2>2, <3>1, <3>2, <3>3 DEF ConsumedBefore
  <2>6. ASSUME NEW i \in DOMAIN served', NEW o, o = served'[i], Mismatched(o) PROVE ConsumedBefore(o)'
    <3>1. CASE i \in 1..len
      BY <2>1, <2>4, <2>6, <3>1 DEF OrderInv
    <3>2. CASE i = len + 1
      BY <2>1, <2>5, <2>6, <3>2
    <3> QED
      BY <2>1, <3>1, <3>2
  <2>7. ASSUME NEW i \in 1..len, Mismatched(served[i]), Mismatched(r),
               served[i].node = n, Skill[served[i].key] = Skill[k]
        PROVE  served[i].from < p
    <3>1. ConsumedBefore(served[i])
      BY <2>1, <2>7 DEF OrderInv
    <3>2. p \in Candidates(n, k)
      BY <1>3, <2>2, <2>7 DEF Mismatched
    <3>3. p \notin consumed /\ p \in Shelf(served[i].node, Skill[served[i].key])
      BY <2>7, <3>2 DEF Candidates, Shelf
    <3>4. p # served[i].from /\ ~ (p < served[i].from)
      BY <3>1, <3>3 DEF ConsumedBefore
    <3>5. served[i].from \in Nat
      BY <2>1 DEF Request
    <3> QED
      BY <3>4, <3>5
  <2>8. FallbackInOrder'
    <3> SUFFICES ASSUME NEW i \in DOMAIN served', NEW j \in DOMAIN served', i < j,
                        Mismatched(served'[i]), Mismatched(served'[j]),
                        served'[i].node = served'[j].node,
                        Skill[served'[i].key] = Skill[served'[j].key]
                 PROVE  served'[i].from < served'[j].from
      BY <2>3 DEF FallbackInOrder
    <3>1. i \in 1..len
      BY <2>1
    <3>2. CASE j \in 1..len
      BY <2>1, <3>1, <3>2 DEF OrderInv, FallbackInOrder
    <3>3. CASE j = len + 1
      BY <2>1, <2>2, <2>7, <3>1, <3>3
    <3> QED
      BY <2>1, <3>2, <3>3
  <2> QED
    BY <2>3, <2>6, <2>8 DEF OrderInv
<1>4. ASSUME NEW n \in Stage, NEW k \in Key, InvokeExact(n, k) PROVE OrderInv'
  <2>1. PICK p \in Exact(k) : Answer(n, k, p)
    BY <1>4 DEF InvokeExact
  <2>2. p \in Nat /\ cassettes[p].key = k
    BY DEF Exact, ReplayType
  <2> QED
    BY <1>3, <1>4, <2>1, <2>2 DEF InvokeExact
<1>5. ASSUME NEW n \in Stage, NEW k \in Key, InvokeFallback(n, k) PROVE OrderInv'
  <2>1. PICK p \in Candidates(n, k) : /\ \A q \in Candidates(n, k) : p <= q
                                      /\ consumed' = Consume(p)
                                      /\ Answer(n, k, p)
    BY <1>5 DEF InvokeFallback
  <2>2. p \in Nat
    BY DEF Candidates, ByNode, ReplayType
  <2> QED
    BY <1>3, <1>5, <2>1, <2>2 DEF InvokeFallback, Consume
<1>6. ASSUME NEW n \in Stage, NEW k \in Key, InvokeMiss(n, k) PROVE OrderInv'
  BY <1>3, <1>6 DEF InvokeMiss, None
<1>7. ASSUME NEW n \in Stage, NEW k \in Key, NEW x \in Text, Record(n, k, x) PROVE OrderInv'
  BY <1>1, <1>7 DEF Record
<1>8. CASE Load
  BY <1>2, <1>8 DEF Load
<1>9. CASE UNCHANGED replayVars
  BY <1>1, <1>9 DEF replayVars
<1> QED
  BY <1>4, <1>5, <1>6, <1>7, <1>8, <1>9 DEF ReplayNext

\* No recording answers two drifted requests of a node and a skill, and they
\* get the node's recordings in the order of the tape (_by_node_fallback).
THEOREM FallbacksAreInOrder == ReplaySpec => []FallbackInOrder
<1>1. ReplayInit => OrderInv
  BY DEF ReplayInit, OrderInv, FallbackInOrder
<1>2. OrderInv => FallbackInOrder
  BY DEF OrderInv
<1> QED
  BY <1>1, <1>2, ReplayTypeCorrect, OrderNext, PTL DEF ReplaySpec

-----------------------------------------------------------------------------
(***************************************************************************)
(* The note on drift.                                                      *)
(***************************************************************************)

\* The mismatches up to one of them are a few of all of them, and at least one.
LEMMA UptoBounds ==
  ASSUME ReplayType, NEW i \in Mismatches
  PROVE  /\ IsFiniteSet(Mismatches) /\ Cardinality(Mismatches) \in Nat
         /\ Upto(i) \in 1..Cardinality(Mismatches)
<1> DEFINE first == {j \in Mismatches : j <= i}
<1>1. Mismatches \subseteq 1..Len(served) /\ Len(served) \in Nat
  BY DEF Mismatches, ReplayType
<1>2. IsFiniteSet(1..Len(served))
  BY <1>1, FS_Interval
<1>3. IsFiniteSet(Mismatches) /\ Cardinality(Mismatches) \in Nat
  BY <1>1, <1>2, FS_Subset, FS_CardinalityType
<1>4. first \subseteq Mismatches /\ i \in first
  BY <1>1
<1> HIDE DEF first
<1>5. IsFiniteSet(first) /\ Cardinality(first) <= Cardinality(Mismatches) /\ Cardinality(first) \in Nat
  BY <1>3, <1>4, FS_Subset, FS_CardinalityType
<1>6. Cardinality(first) # 0
  BY <1>4, <1>5, FS_EmptySet
<1>7. Upto(i) = Cardinality(first)
  BY DEF Upto, first
<1> QED
  BY <1>3, <1>5, <1>6, <1>7

\* An answer recorded for its own prompt leaves the note as it is, one for
\* another adds its node at the end.
LEMMA DriftGrows ==
  ASSUME ReplayType, DriftIsReported, NEW n \in Stage, NEW k \in Key, NEW p \in Nat,
         Answer(n, k, p), cassettes' = cassettes,
         drifted' = IF p # None /\ cassettes[p].key # k THEN Append(drifted, n) ELSE drifted
  PROVE  DriftIsReported'
<1> DEFINE r == [node |-> n, key |-> k, from |-> p]
           len == Len(served)
           M == Mismatches
<1>1. /\ len \in Nat /\ DOMAIN served = 1..len /\ DOMAIN served' = 1..(len + 1)
      /\ served'[len + 1] = r
      /\ \A i \in 1..len : served'[i] = served[i]
  BY DEF ReplayType, Answer
<1>2. r.node = n /\ r.key = k /\ r.from = p
  OBVIOUS
<1> HIDE DEF r, len
<1>3. \A o : Mismatched(o)' = Mismatched(o)
  BY DEF Mismatched
<1>4. M \subseteq 1..len /\ M = {i \in 1..len : Mismatched(served[i])}
  BY <1>1 DEF Mismatches
<1>5. IsFiniteSet(M) /\ Cardinality(M) \in Nat /\ Len(drifted) = Cardinality(M) /\ drifted \in Seq(Stage)
  <2>1. IsFiniteSet(1..len)
    BY <1>1, FS_Interval
  <2> QED
    BY <1>4, <2>1, FS_Subset, FS_CardinalityType DEF DriftIsReported, ReplayType
<1>6. M' = IF Mismatched(r) THEN M \cup {len + 1} ELSE M
  <2>1. M' = {i \in 1..(len + 1) : Mismatched(served'[i])}
    BY <1>1, <1>3 DEF Mismatches
  <2>2. \A i \in 1..(len + 1) : i \in 1..len \/ i = len + 1
    BY <1>1
  <2>3. \A i \in 1..len : i \in 1..(len + 1) /\ i # len + 1
    BY <1>1
  <2> QED
    BY <1>1, <1>4, <2>1, <2>2, <2>3
<1>7. \A i \in M : /\ i # len + 1 /\ i \in Int
                   /\ {j \in M' : j <= i} = {j \in M : j <= i}
                   /\ served'[i] = served[i] /\ drifted[Upto(i)] = served[i].node
                   /\ Upto(i) \in 1..Len(drifted)
  BY <1>1, <1>4, <1>5, <1>6, UptoBounds DEF DriftIsReported
<1>8. \A i \in M : Upto(i)' = Upto(i)
  BY <1>7 DEF Upto
<1>9. CASE ~ Mismatched(r)
  <2>1. drifted' = drifted /\ M' = M
    BY <1>2, <1>6, <1>9 DEF Mismatched
  <2> QED
    BY <1>5, <1>7, <1>8, <2>1 DEF DriftIsReported
<1>10. CASE Mismatched(r)
  <2>1. drifted' = Append(drifted, n) /\ M' = M \cup {len + 1}
    BY <1>2, <1>6, <1>10 DEF Mismatched
  <2>2. Cardinality(M') = Cardinality(M) + 1
    <3>1. len + 1 \notin M
      BY <1>1, <1>4
    <3>2. Cardinality(M \cup {len + 1}) = Cardinality(M) + 1
      BY <1>5, <3>1, FS_AddElement
    <3> QED
      BY <2>1, <3>2
  <2>3. ASSUME NEW i, i = len + 1 PROVE Upto(i)' = Cardinality(M')
    <3>1. {j \in M' : j <= i} = M'
      BY <1>1, <1>4, <2>1, <2>3
    <3> QED
      BY <3>1 DEF Upto
  <2>4. /\ Len(drifted') = Len(drifted) + 1 /\ drifted'[Len(drifted) + 1] = n
        /\ \A i \in 1..Len(drifted) : drifted'[i] = drifted[i]
    BY <1>5, <2>1
  <2>5. \A i \in M : drifted'[Upto(i)'] = served'[i].node
    BY <1>7, <1>8, <2>4
  <2>6. ASSUME NEW i, i = len + 1 PROVE drifted'[Upto(i)'] = served'[i].node
    BY <1>1, <1>2, <1>5, <2>2, <2>3, <2>4, <2>6
  <2>7. \A i \in M' : drifted'[Upto(i)'] = served'[i].node
    BY <2>1, <2>5, <2>6
  <2>8. Len(drifted') = Cardinality(M')
    BY <1>5, <2>2, <2>4
  <2> QED
    BY <2>7, <2>8 DEF DriftIsReported
<1> QED
  BY <1>9, <1>10

LEMMA DriftNext == ReplayType /\ DriftIsReported /\ [ReplayNext]_replayVars => DriftIsReported'
<1> SUFFICES ASSUME ReplayType, DriftIsReported, [ReplayNext]_replayVars PROVE DriftIsReported'
  OBVIOUS
<1>1. CASE UNCHANGED <<cassettes, drifted, served>>
  BY <1>1 DEF DriftIsReported, Mismatches, Mismatched, Upto
<1>2. CASE Load
  <2>1. served = <<>> /\ drifted = <<>> /\ UNCHANGED <<served, drifted>>
    BY <1>2 DEF Load, ReplayType
  <2>2. Mismatches' = {} /\ Cardinality({}) = 0
    BY <2>1, FS_EmptySet DEF Mismatches
  <2> QED
    BY <2>1, <2>2 DEF DriftIsReported
<1>3. ASSUME NEW n \in Stage, NEW k \in Key, InvokeExact(n, k) PROVE DriftIsReported'
  <2>1. PICK p \in Exact(k) : Answer(n, k, p)
    BY <1>3 DEF InvokeExact
  <2>2. p \in Nat /\ cassettes[p].key = k
    BY DEF Exact, ReplayType
  <2> QED
    BY <1>3, <2>1, <2>2, DriftGrows DEF InvokeExact
<1>4. ASSUME NEW n \in Stage, NEW k \in Key, InvokeFallback(n, k) PROVE DriftIsReported'
  <2>1. PICK p \in Candidates(n, k) : Answer(n, k, p)
    BY <1>4 DEF InvokeFallback
  <2>2. p \in DOMAIN cassettes
    BY DEF Candidates, ByNode
  <2>3. p \in Nat /\ p # None
    BY <2>2 DEF ReplayType
  <2>4. cassettes[p].key # k
    BY <1>4, <2>2 DEF InvokeFallback, Exact
  <2>5. drifted' = Append(drifted, n) /\ cassettes' = cassettes
    BY <1>4 DEF InvokeFallback, Drift
  <2> QED
    BY <2>1, <2>3, <2>4, <2>5, DriftGrows
<1>5. ASSUME NEW n \in Stage, NEW k \in Key, InvokeMiss(n, k) PROVE DriftIsReported'
  BY <1>5, DriftGrows DEF InvokeMiss, None
<1>6. ASSUME NEW n \in Stage, NEW k \in Key, NEW x \in Text, Record(n, k, x) PROVE DriftIsReported'
  BY <1>1, <1>6 DEF Record
<1>7. CASE UNCHANGED replayVars
  BY <1>1, <1>7 DEF replayVars
<1> QED
  BY <1>2, <1>3, <1>4, <1>5, <1>6, <1>7 DEF ReplayNext

\* Every answer that was recorded for another prompt is on the note, and
\* nothing else, in the order served (invoke, drifted).
THEOREM DriftIsNoted == ReplaySpec => []DriftIsReported
<1>1. ReplayInit => DriftIsReported
  <2> SUFFICES ASSUME ReplayInit PROVE DriftIsReported
    OBVIOUS
  <2>1. served = <<>> /\ drifted = <<>>
    BY DEF ReplayInit
  <2>2. Mismatches = {} /\ Cardinality({}) = 0
    BY <2>1, FS_EmptySet DEF Mismatches
  <2> QED
    BY <2>1, <2>2 DEF DriftIsReported
<1> QED
  BY <1>1, ReplayTypeCorrect, DriftNext, PTL DEF ReplaySpec
=============================================================================
