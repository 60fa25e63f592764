-------------------------------- MODULE Gate --------------------------------
(***************************************************************************)
(* The gates of a run: the policy engine and its rules                     *)
(* (keel/governance/policy.py) with the approval brokers that feed it      *)
(* (keel/governance/approvals.py).                                         *)
(*                                                                         *)
(* A regular expression is reduced to the fact it establishes about an     *)
(* artifact, so an artifact is its kind and its facts; the rules are what  *)
(* they do with the facts.  A node's artifacts are a sequence, as _persist *)
(* returns them, all of them produced by the node itself.                  *)
(***************************************************************************)
EXTENDS Naturals, Sequences, FiniteSets

CONSTANTS
  Node,       \* nodes that pass the gates
  High,       \* the high-impact ones
  Executes,   \* the ones that declare tests_executed
  Script,     \* the answers a scripted broker was given, by node
  Breakable,  \* rules that may raise
  MaxFacts,   \* bound: facts per artifact
  MaxFiles,   \* bound: artifacts per decision
  MaxAsked    \* bound: questions to the broker

Kinds == {"code", "test", "text"}

Facts == {"provider key", "odd string", "redirect", "bad scheme", "scheme guard",
          "host guard", "drop table", "destructive", "transcript", "pii"}

Artifact == [kind : Kinds, facts : SUBSET Facts]

RuleIds == {"security.secret_scan", "safety.destructive_operation", "security.open_redirect",
            "change_control.approval_required", "quality.test_evidence", "privacy.pii_in_url"}

\* Severity.blocks: high and critical findings close a gate.
Blocks(severity) == severity \in {"high", "critical"}

Finding == [rule : RuleIds, severity : {"critical", "high", "medium"}]

Brokers == {"approve all", "deny all", "scripted", "interactive"}

\* What a terminal yields: an answer, an answer nobody anticipated, a bare
\* Enter, or no input at all.
Answers == {"yes", "no", "typo", "empty", "eof"}

ASSUME GateAssumption ==
  /\ High \subseteq Node /\ Executes \subseteq Node
  /\ \E S \in SUBSET Node : Script \in [S -> BOOLEAN]
  /\ Breakable \subseteq RuleIds
  /\ MaxFacts \in Nat /\ MaxFiles \in Nat /\ MaxAsked \in Nat

VARIABLES
  broker,    \* which broker the run was given
  broken,    \* rules that raise in this run
  approved,  \* ChangeControlRule.approved_nodes
  history,   \* ApprovalBroker.history, oldest first
  stale,     \* a scripted broker met a node it was not told about
  decision   \* the last GateDecision since the last question, and what it was about

vars == <<broker, broken, approved, history, stale, decision>>

-----------------------------------------------------------------------------
(***************************************************************************)
(* The rules.                                                              *)
(***************************************************************************)

IsCode(a) == a.kind \in {"code", "test"}
IsTest(a) == a.kind = "test"

\* The facts of all the code files together.
CodeFacts(files) == UNION {files[i].facts : i \in {j \in DOMAIN files : IsCode(files[j])}}

\* A plausible slip: one test file among them relaxes the scan of all.
SecretScanLax(files) ==
  LET relaxed == \E i \in DOMAIN files : IsTest(files[i]) IN
  IF \E i \in DOMAIN files : \/ "provider key" \in files[i].facts
                             \/ "odd string" \in files[i].facts /\ ~relaxed
  THEN {[rule |-> "security.secret_scan", severity |-> "critical"]} ELSE {}

\* SecretScanRule: a provider's key anywhere, a suspicious string anywhere but
\* in a test file.
SecretScan(files) ==
  IF \E i \in DOMAIN files : \/ "provider key" \in files[i].facts
                             \/ "odd string" \in files[i].facts /\ ~IsTest(files[i])
  THEN {[rule |-> "security.secret_scan", severity |-> "critical"]} ELSE {}

\* DestructiveOperationRule: anything irreversible; schema teardown is let
\* pass in a test file.
Destructive(files) ==
  IF \E i \in DOMAIN files : \/ "destructive" \in files[i].facts
                             \/ "drop table" \in files[i].facts /\ ~IsTest(files[i])
  THEN {[rule |-> "safety.destructive_operation", severity |-> "critical"]} ELSE {}

\* A plausible slip, and the one this code once had: the guards are looked for
\* in the file that redirects.
OpenRedirectPerFile(files) ==
  IF \E i \in DOMAIN files :
       /\ IsCode(files[i])
       /\ "redirect" \in files[i].facts
       /\ \/ "bad scheme" \in files[i].facts
          \/ ~({"scheme guard", "host guard"} \subseteq files[i].facts)
  THEN {[rule |-> "security.open_redirect", severity |-> "high"]} ELSE {}

\* OpenRedirectRule: a code file that redirects must not name a dangerous
\* scheme; the guards may be in any code file of the node.
OpenRedirect(files) ==
  IF \E i \in DOMAIN files :
       /\ IsCode(files[i])
       /\ "redirect" \in files[i].facts
       /\ \/ "bad scheme" \in files[i].facts
          \/ ~({"scheme guard", "host guard"} \subseteq CodeFacts(files))
  THEN {[rule |-> "security.open_redirect", severity |-> "high"]} ELSE {}

\* ChangeControlRule: high-impact output needs a recorded approval.
ChangeControl(n, files) ==
  IF n \in High /\ n \notin approved /\ files # <<>>
  THEN {[rule |-> "change_control.approval_required", severity |-> "high"]} ELSE {}

\* TestEvidenceRule: a node that says it ran tests shows a transcript, whether
\* or not it claims that they passed.
TestEvidence(n, files) ==
  IF n \in Executes /\ files # <<>> /\ \A i \in DOMAIN files : "transcript" \notin files[i].facts
  THEN {[rule |-> "quality.test_evidence", severity |-> "high"]} ELSE {}

\* PIIInUrlRule: advisory.
PIIInUrl(files) ==
  IF \E i \in DOMAIN files : "pii" \in files[i].facts
  THEN {[rule |-> "privacy.pii_in_url", severity |-> "medium"]} ELSE {}

\* A rule that raises says only that it raised, and that blocks.
FailClosed(findings) ==
  {f \in findings : f.rule \notin broken}
    \cup {[rule |-> r, severity |-> "high"] : r \in broken}

\* PolicyEngine.evaluate with the rules of default_engine.
Evaluate(n, files) ==
  FailClosed(SecretScan(files) \cup Destructive(files) \cup OpenRedirect(files)
               \cup ChangeControl(n, files) \cup TestEvidence(n, files) \cup PIIInUrl(files))

\* PolicyEngine.decide: allowed unless something blocking fired.
Allowed(n, files) == \A f \in Evaluate(n, files) : ~Blocks(f.severity)

-----------------------------------------------------------------------------
(***************************************************************************)
(* The brokers.                                                            *)
(***************************************************************************)

\* A plausible slip: a bare Enter is consent.
ConsentByDefault(n, answer) ==
  CASE broker = "approve all" -> TRUE
    [] broker = "deny all"    -> FALSE
    [] broker = "scripted"    -> Script[n]
    [] broker = "interactive" -> answer \in {"yes", "empty"}

\* request of the four brokers: what counts as a yes.
Consents(n, answer) ==
  CASE broker = "approve all" -> TRUE
    [] broker = "deny all"    -> FALSE
    [] broker = "scripted"    -> Script[n]
    [] broker = "interactive" -> answer = "yes"

NoDecision ==
  [gate |-> "none", node |-> "none", files |-> <<>>, findings |-> {}, allowed |-> FALSE]

\* _approve: the broker is asked, its answer is filed, and a yes is passed on
\* to the policy engine.
Ask(n, answer) ==
  /\ n \in High
  /\ Len(history) < MaxAsked
  /\ ~stale
  /\ broker = "scripted" => n \in DOMAIN Script
  /\ broker # "interactive" => answer = "empty"
  /\ LET yes == Consents(n, answer) IN
       /\ history' = Append(history, [node |-> n, answer |-> answer, approved |-> yes])
       /\ approved' = IF yes THEN approved \cup {n} ELSE approved
  /\ decision' = NoDecision
  /\ UNCHANGED <<broker, broken, stale>>

\* A script that does not know the node raises, and files nothing.
AskUnscripted(n) ==
  /\ n \in High
  /\ broker = "scripted"
  /\ n \notin DOMAIN Script
  /\ ~stale
  /\ stale' = TRUE
  /\ UNCHANGED <<broker, broken, approved, history, decision>>

\* decide at either gate; the entry gate is handed no content.  A decision
\* changes nothing the next one reads, so one between two questions is enough.
Judge(gate, n, files) ==
  /\ decision = NoDecision
  /\ gate = "entry" => files = <<>>
  /\ decision' = [gate |-> gate, node |-> n, files |-> files,
                  findings |-> Evaluate(n, files), allowed |-> Allowed(n, files)]
  /\ UNCHANGED <<broker, broken, approved, history, stale>>

Init ==
  /\ broker \in Brokers
  /\ broken \in SUBSET Breakable
  /\ approved = {}
  /\ history = <<>>
  /\ stale = FALSE
  /\ decision = NoDecision

\* What a node may produce, within the bounds.
Output ==
  LET files == {a \in Artifact : Cardinality(a.facts) <= MaxFacts}
  IN  UNION {[1 .. k -> files] : k \in 0 .. MaxFiles}

Next ==
  \/ \E n \in Node, a \in Answers : Ask(n, a)
  \/ \E n \in Node : AskUnscripted(n)
  \/ /\ decision = NoDecision
     /\ \E g \in {"entry", "exit"}, n \in Node, files \in Output : Judge(g, n, files)

Spec == Init /\ [][Next]_vars

-----------------------------------------------------------------------------
(***************************************************************************)
(* Properties.                                                             *)
(***************************************************************************)

Decisions ==
  [gate : {"none", "entry", "exit"}, node : Node \cup {"none"}, files : Seq(Artifact),
   findings : SUBSET Finding, allowed : BOOLEAN]

Questions == [node : High, answer : Answers, approved : BOOLEAN]

\* What each variable holds.
TypeOK ==
  /\ broker \in Brokers
  /\ broken \subseteq RuleIds
  /\ approved \subseteq High
  /\ history \in Seq(Questions)
  /\ stale \in BOOLEAN
  /\ decision \in Decisions

\* High-impact output passes the exit gate only after an explicit yes to a
\* question about this very node: not because of a bare Enter, a closed
\* terminal, a typo, another node's approval or a script that does not know
\* the node (the brokers' request, record_approval, ChangeControlRule).
NoSilentConsent ==
  decision.gate = "exit" /\ decision.allowed /\ decision.node \in High /\ decision.files # <<>> =>
    \E i \in DOMAIN history :
      /\ history[i].node = decision.node
      /\ history[i].approved
      /\ broker = "interactive" => history[i].answer = "yes"
      /\ broker = "scripted" => Script[decision.node]

\* A node cannot open a gate that refused its output by producing one more
\* file that is not what the gate asked for (a guard or a transcript): in
\* particular a test file does not relax the rules for the others.
AddingNeverOpens ==
  decision.gate = "exit" /\ ~decision.allowed /\ decision.files # <<>> =>
    \A kind \in Kinds :
      ~Allowed(decision.node, Append(decision.files, [kind |-> kind, facts |-> {}]))

\* Code that is accepted in one file is accepted when it is split into two:
\* the gate does not punish modularity (OpenRedirectRule's corpus).
SplitNeverCloses ==
  decision.gate = "exit" /\ decision.allowed /\ Len(decision.files) = 1 =>
    LET whole == decision.files[1] IN
    \A part \in SUBSET whole.facts :
      Allowed(decision.node, <<[whole EXCEPT !.facts = part],
                               [whole EXCEPT !.facts = @ \ part]>>)

\* A rule that raises closes every gate, the entry gate included, whatever
\* the other rules say (PolicyEngine.evaluate).
FailsClosed == decision.allowed => broken = {}
=============================================================================
