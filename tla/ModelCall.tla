------------------------------ MODULE ModelCall ------------------------------
(***************************************************************************)
(* A stage's way to a model and back: the attempts of a node, the          *)
(* dispatcher (keel/dispatch.py), the adapter's retries                    *)
(* (keel/adapters/claude.py) and the search for the structured answer in   *)
(* what the model wrote (keel/adapters/base.py).                           *)
(*                                                                         *)
(* A reply is a sequence of characters of which only those are told apart  *)
(* that the search looks at: braces, the quote "q", the backslash "b" and  *)
(* a code fence "f"; "x" stands for all others.                            *)
(***************************************************************************)
EXTENDS Naturals, Integers, Sequences, SequencesExt, FiniteSets

CONSTANTS
  Node,         \* stages that call concurrently
  MaxAttempts,  \* a node's further attempts (RetryPolicy.max_attempts)
  MaxRetries,   \* the adapter's retries within an attempt
  BaseDelay,    \* its first delay
  Objects,      \* the JSON objects: what json.loads makes a dict of (external)
  Texts         \* what the model may write

Char == {"{", "}", "q", "b", "f", "x"}

ASSUME CallAssumption ==
  /\ MaxAttempts \in Nat /\ MaxRetries \in Nat /\ BaseDelay \in Nat
  /\ {Objects, Texts} \subseteq SUBSET Seq(Char)

\* What lies between two places of a text is made of such pieces.
InPieces(text, from, to, Piece) ==
  \E cuts \in SUBSET (from .. to) :
    /\ from \in cuts
    /\ \A i \in cuts : i = to \/ \E j \in cuts : i < j /\ SubSeq(text, i + 1, j) \in Piece

\* Begins and ends with these, and has such pieces between.
Encloses(text, first, last, Piece) ==
  /\ Len(text) >= 2 /\ text[1] = first /\ text[Len(text)] = last
  /\ InPieces(text, 1, Len(text) - 1, Piece)

\* The strings of JSON: a backslash escapes whatever comes next.
Units == {<<c>> : c \in Char \ {"q", "b"}} \cup {<<"b", c>> : c \in Char}

JsonStrings == {s \in Seq(Char) : Encloses(s, "q", "q", Units)}

\* An object is made of strings, objects and text without braces and quotes.
ASSUME ObjectAssumption ==
  \A o \in Objects : Encloses(o, "{", "}", {<<"x">>} \cup JsonStrings \cup Objects)

VARIABLES
  pc,       \* "idle", "calling", "sleeping", "done", by node
  attempt,  \* the node's attempt, from 1
  tries,    \* the adapter's attempt, from 0
  waited,   \* time slept within the node's attempt
  sent,     \* requests sent for the node
  billed,   \* replies the model gave, good or not
  counted,  \* outcomes whose cost the run adds up
  reply,    \* the text of the last reply
  outcome,  \* how the last dispatch ended, or the error it raised
  trail     \* recorded model calls, oldest first

vars == <<pc, attempt, tries, waited, sent, billed, counted, reply, outcome, trail>>

-----------------------------------------------------------------------------
(***************************************************************************)
(* Finding the object: extract_json.                                       *)
(***************************************************************************)

\* The scanner's state: brace depth, where it is (in_string and escaped),
\* characters consumed, and where the object ended.
Scanner == [depth |-> 0, mode |-> "text", at |-> 0, end |-> 0]

\* What a brace adds to the depth.
Braces(char) == IF char = "{" THEN 1 ELSE IF char = "}" THEN -1 ELSE 0

\* A plausible slip: braces count wherever they are.
ScanBraces(s, char) ==
  LET depth == s.depth + Braces(char) IN
  IF s.end > 0 THEN s
  ELSE [depth |-> depth, mode |-> "text", at |-> s.at + 1,
        end |-> IF char = "}" /\ depth = 0 THEN s.at + 1 ELSE 0]

\* One turn of the loop of _first_object_span.
ScanChar(s, char) ==
  LET depth == s.depth + IF s.mode = "text" THEN Braces(char) ELSE 0 IN
  IF s.end > 0 THEN s
  ELSE [depth |-> depth,
        mode  |-> CASE s.mode = "text"   -> IF char = "q" THEN "string" ELSE "text"
                    [] s.mode = "escape" -> "string"
                    [] s.mode = "string" ->
                         IF char = "b" THEN "escape" ELSE IF char = "q" THEN "text" ELSE "string",
        at    |-> s.at + 1,
        end   |-> IF s.mode = "text" /\ char = "}" /\ depth = 0 THEN s.at + 1 ELSE 0]

Nothing == <<>>

\* The scanner after each number of characters.
Scanned(text) ==
  LET s[k \in 0 .. Len(text)] == IF k = 0 THEN Scanner ELSE ScanChar(s[k - 1], text[k])
  IN  s

\* _first_object_span: from the first brace to the one that closes it.
FirstObjectSpan(text) ==
  LET opens == {i \in DOMAIN text : text[i] = "{"} IN
  IF opens = {} THEN Nothing
  ELSE LET from == CHOOSE i \in opens : \A j \in opens : i <= j
           rest == SubSeq(text, from, Len(text))
       IN  SubSeq(rest, 1, Scanned(rest)[Len(rest)].end)

\* The bodies of the fenced blocks: fences pair up from the left.
FencedBlocks(text) ==
  LET fences == SetToSortSeq({i \in DOMAIN text : text[i] = "f"}, LAMBDA i, j : i < j)
  IN  [k \in 1 .. Len(fences) \div 2 |-> SubSeq(text, fences[2 * k - 1] + 1, fences[2 * k] - 1)]

\* The first candidate that is an object: the whole, a fenced block, the span.
ExtractJson(text) ==
  LET fenced == {k \in DOMAIN FencedBlocks(text) : FencedBlocks(text)[k] \in Objects} IN
  IF text \in Objects THEN text
  ELSE IF fenced # {} THEN FencedBlocks(text)[CHOOSE k \in fenced : \A m \in fenced : k <= m]
  ELSE IF FirstObjectSpan(text) \in Objects THEN FirstObjectSpan(text)
  ELSE Nothing

-----------------------------------------------------------------------------
(***************************************************************************)
(* Calling the model.                                                      *)
(***************************************************************************)

Transient == {"rate limit", "server error"}
Permanent == {"bad request", "connection error"}

Init ==
  /\ pc = [n \in Node |-> "idle"]
  /\ attempt = [n \in Node |-> 0]
  /\ tries = [n \in Node |-> 0]
  /\ waited = [n \in Node |-> 0]
  /\ sent = [n \in Node |-> 0]
  /\ billed = [n \in Node |-> 0]
  /\ counted = [n \in Node |-> 0]
  /\ reply = [n \in Node |-> Nothing]
  /\ outcome = [n \in Node |-> "none"]
  /\ trail = <<>>

\* The executor dispatches an attempt; invoke sends its first request.
Dispatch(n) ==
  /\ pc[n] = "idle"
  /\ pc' = [pc EXCEPT ![n] = "calling"]
  /\ attempt' = [attempt EXCEPT ![n] = @ + 1]
  /\ tries' = [tries EXCEPT ![n] = 0]
  /\ waited' = [waited EXCEPT ![n] = 0]
  /\ sent' = [sent EXCEPT ![n] = @ + 1]
  /\ UNCHANGED <<billed, counted, reply, outcome, trail>>

\* What dispatch raises ends the node: _run_node does not catch it.
Raises(n, what) ==
  /\ pc' = [pc EXCEPT ![n] = "done"]
  /\ outcome' = [outcome EXCEPT ![n] = what]
  /\ UNCHANGED <<attempt, tries, waited, counted, trail>>

\* _is_retryable, while the budget lasts.
MayRetry(n, error) == error \in Transient /\ tries[n] < MaxRetries

\* A plausible slip: the counter is advanced before the delay is computed.
DelayLate(n) == BaseDelay * 2^(tries[n] + 1)

Delay(n) == BaseDelay * 2^tries[n]

\* A transient error is answered by another request, after a pause if there is
\* one to make.
Backoff(n, error) ==
  /\ pc[n] = "calling"
  /\ MayRetry(n, error)
  /\ waited' = [waited EXCEPT ![n] = @ + Delay(n)]
  /\ tries' = [tries EXCEPT ![n] = @ + 1]
  /\ IF Delay(n) > 0
     THEN pc' = [pc EXCEPT ![n] = "sleeping"] /\ UNCHANGED sent
     ELSE sent' = [sent EXCEPT ![n] = @ + 1] /\ UNCHANGED pc
  /\ UNCHANGED <<attempt, billed, counted, reply, outcome, trail>>

Wake(n) ==
  /\ pc[n] = "sleeping"
  /\ pc' = [pc EXCEPT ![n] = "calling"]
  /\ sent' = [sent EXCEPT ![n] = @ + 1]
  /\ UNCHANGED <<attempt, tries, waited, billed, counted, reply, outcome, trail>>

\* All other errors, and the last transient one, are the caller's.
GiveUp(n, error) ==
  /\ pc[n] = "calling"
  /\ ~MayRetry(n, error)
  /\ Raises(n, error)
  /\ UNCHANGED <<sent, billed, reply>>

\* _to_response raises on a refusal and on a reply that was cut.
Unusable(n, stop) ==
  /\ pc[n] = "calling"
  /\ billed' = [billed EXCEPT ![n] = @ + 1]
  /\ Raises(n, stop)
  /\ UNCHANGED <<sent, reply>>

\* The recorder can fail as well, and what it raises leaves dispatch.
RecorderRaises(n) ==
  /\ pc[n] = "calling"
  /\ billed' = [billed EXCEPT ![n] = @ + 1]
  /\ Raises(n, "recorder")
  /\ UNCHANGED <<sent, reply>>

\* A plausible slip: only replies that parse are recorded.
RecordsParsed(n, text) ==
  IF ExtractJson(text) # Nothing THEN Append(trail, [node |-> n, text |-> text]) ELSE trail

\* on_call, before the reply is looked at.
Records(n, text) == Append(trail, [node |-> n, text |-> text])

\* A reply is recorded, parsed and counted; without an object in it the stage
\* has failed and, while attempts are left, is tried again.
Reply(n, text) ==
  LET ok == ExtractJson(text) # Nothing IN
  /\ pc[n] = "calling"
  /\ billed' = [billed EXCEPT ![n] = @ + 1]
  /\ counted' = [counted EXCEPT ![n] = @ + 1]
  /\ reply' = [reply EXCEPT ![n] = text]
  /\ trail' = Records(n, text)
  /\ outcome' = [outcome EXCEPT ![n] = IF ok THEN "completed" ELSE "failed"]
  /\ pc' = [pc EXCEPT ![n] = IF ok \/ attempt[n] > MaxAttempts THEN "done" ELSE "idle"]
  /\ UNCHANGED <<attempt, tries, waited, sent>>

Next ==
  \E n \in Node :
    \/ Dispatch(n) \/ Wake(n) \/ RecorderRaises(n)
    \/ \E error \in Transient \cup Permanent : Backoff(n, error) \/ GiveUp(n, error)
    \/ \E stop \in {"refusal", "max_tokens"} : Unusable(n, stop)
    \/ \E text \in Texts : Reply(n, text)

Spec == Init /\ [][Next]_vars

-----------------------------------------------------------------------------
(***************************************************************************)
(* Properties.                                                             *)
(***************************************************************************)

\* A node that gave up on a busy service had been patient: it had spent every
\* retry and slept the whole doubling series (_call_with_retry), however many
\* attempts of the node came before.
GivesUpLate ==
  \A n \in Node :
    outcome[n] \in Transient =>
      /\ tries[n] = MaxRetries
      /\ waited[n] = BaseDelay * (2^MaxRetries - 1)

\* Every request is accounted for.  The replies that were paid for are the
\* ones counted and the ones in the trail, but for the one reply of a dispatch
\* that raised because of it; and only a reply starts the adapter's retries
\* anew, so attempts and retries multiply and no more (dispatch, on_call,
\* _call_with_retry).
RequestsAccounted ==
  \A n \in Node :
    LET recorded == Cardinality({i \in DOMAIN trail : trail[i].node = n})
        unusable == outcome[n] \in {"refusal", "max_tokens", "recorder"}
    IN  /\ counted[n] = recorded
        /\ billed[n] = recorded + (IF unusable THEN 1 ELSE 0)
        /\ sent[n] <= recorded * (MaxRetries + 1) + tries[n] + 1
        /\ sent[n] <= (MaxAttempts + 1) * (MaxRetries + 1)

\* An object that the model wrote after some prose, or fenced, is found, and
\* found whole, whatever braces, quotes and escapes its strings hold; if it
\* holds a fenced object itself, it must be all of the reply (extract_json).
AnswerIsFound ==
  \A n \in Node :
    \A i \in DOMAIN reply[n] : \A j \in i .. Len(reply[n]) :
      LET object == SubSeq(reply[n], i, j)
          prose  == SubSeq(reply[n], 1, i - 1)
      IN  /\ object \in Objects
          /\ \A k \in DOMAIN prose : prose[k] # "{"
          /\ \A k \in DOMAIN FencedBlocks(reply[n]) : FencedBlocks(reply[n])[k] \notin Objects \ {object}
          => ExtractJson(reply[n]) = object
=============================================================================
