------------------------------ MODULE GateProofs ------------------------------
(***************************************************************************)
(* For every set of nodes, every script, every output and any number of    *)
(* questions: no high-impact output passes without an explicit yes, a rule *)
(* that raises opens nothing, a file that has nothing to say opens no gate *)
(* and code that passes in one file passes in two.                         *)
(***************************************************************************)
EXTENDS Gate, TLAPS

-----------------------------------------------------------------------------
(***************************************************************************)
(* A broken rule.                                                          *)
(***************************************************************************)

\* Every finding a broken rule leaves behind is there, and blocks.
LEMMA BrokenBlocks ==
  ASSUME NEW n, NEW files, Allowed(n, files)
  PROVE  broken = {}
<1> SUFFICES ASSUME NEW r \in broken PROVE FALSE
  OBVIOUS
<1>1. [rule |-> r, severity |-> "high"] \in Evaluate(n, files)
  BY DEF Evaluate, FailClosed
<1> QED
  BY <1>1 DEF Allowed, Blocks

\* A gate that opens has heard every rule (PolicyEngine.evaluate fails closed).
THEOREM BrokenRulesFailClosed == Spec => []FailsClosed
<1>1. Init => FailsClosed
  BY DEF Init, FailsClosed, NoDecision
<1>2. FailsClosed /\ [Next]_vars => FailsClosed'
  <2> SUFFICES ASSUME FailsClosed, [Next]_vars PROVE FailsClosed'
    OBVIOUS
  <2>1. CASE UNCHANGED vars
    BY <2>1 DEF vars, FailsClosed
  <2>2. ASSUME NEW n \in Node, NEW a \in Answers, Ask(n, a) PROVE FailsClosed'
    BY <2>2 DEF Ask, FailsClosed, NoDecision
  <2>3. ASSUME NEW n \in Node, AskUnscripted(n) PROVE FailsClosed'
    BY <2>3 DEF AskUnscripted, FailsClosed
  <2>4. ASSUME NEW g \in {"entry", "exit"}, NEW n \in Node, NEW files \in Output, Judge(g, n, files)
        PROVE  FailsClosed'
    <3>1. decision'.allowed = Allowed(n, files) /\ broken' = broken
      BY <2>4 DEF Judge
    <3> QED
      BY <3>1, BrokenBlocks DEF FailsClosed
  <2> QED
    BY <2>1, <2>2, <2>3, <2>4 DEF Next
<1> QED
  BY <1>1, <1>2, PTL DEF Spec

-----------------------------------------------------------------------------
(***************************************************************************)
(* Consent.                                                                *)
(***************************************************************************)

\* Someone said yes to this node, as the broker of the run counts it.
SaidYes(n) ==
  \E i \in DOMAIN history :
    /\ history[i].node = n
    /\ history[i].approved
    /\ broker = "interactive" => history[i].answer = "yes"
    /\ broker = "scripted" => Script[n]

\* Approvals are backed by answers, and an open gate by an approval.
ConsentInv ==
  /\ broker \in Brokers
  /\ history \in Seq(Questions)
  /\ \A n \in approved : SaidYes(n)
  /\ decision.gate = "exit" /\ decision.allowed /\ decision.node \in High /\ decision.files # <<>> =>
       decision.node \in approved

\* High-impact output is only allowed to approved nodes.
LEMMA AllowedIsApproved ==
  ASSUME NEW n, NEW files, Allowed(n, files), n \in High, files # <<>>
  PROVE  n \in approved
<1> SUFFICES ASSUME n \notin approved PROVE FALSE
  OBVIOUS
<1> DEFINE f == [rule |-> "change_control.approval_required", severity |-> "high"]
<1>1. broken = {}
  BY BrokenBlocks
<1>2. f \in ChangeControl(n, files)
  BY DEF ChangeControl
<1>3. f \in Evaluate(n, files)
  BY <1>1, <1>2 DEF Evaluate, FailClosed
<1> QED
  BY <1>3 DEF Allowed, Blocks

LEMMA ConsentInit == Init => ConsentInv
  BY DEF Init, ConsentInv, NoDecision

LEMMA ConsentNext == ConsentInv /\ [Next]_vars => ConsentInv'
<1> SUFFICES ASSUME ConsentInv, [Next]_vars PROVE ConsentInv'
  OBVIOUS
<1>1. CASE UNCHANGED vars
  BY <1>1 DEF vars, ConsentInv, SaidYes
<1>2. ASSUME NEW n \in Node, NEW a \in Answers, Ask(n, a) PROVE ConsentInv'
  <2> DEFINE q == [node |-> n, answer |-> a, approved |-> Consents(n, a)]
  <2>1. Consents(n, a) \in BOOLEAN
    BY <1>2, GateAssumption DEF Ask, Consents, ConsentInv, Brokers
  <2>2. /\ history' = Append(history, q) /\ broker' = broker /\ broker \in Brokers
        /\ approved' = IF Consents(n, a) THEN approved \cup {n} ELSE approved
        /\ decision' = NoDecision /\ n \in High
    BY <1>2 DEF Ask, ConsentInv
  <2>3. q \in Questions
    BY <2>1, <2>2 DEF Questions
  <2>4. /\ history' \in Seq(Questions)
        /\ Len(history') = Len(history) + 1 /\ history'[Len(history) + 1] = q
        /\ Len(history) + 1 \in DOMAIN history'
        /\ \A i \in DOMAIN history : i \in DOMAIN history' /\ history'[i] = history[i]
    BY <2>2, <2>3 DEF ConsentInv
  <2>5. ASSUME NEW m, SaidYes(m) PROVE SaidYes(m)'
    BY <2>2, <2>4, <2>5 DEF SaidYes
  <2>6. ASSUME Consents(n, a) PROVE SaidYes(n)'
    <3>1. /\ broker = "interactive" => a = "yes"
          /\ broker = "scripted" => Script[n]
      BY <2>6 DEF Consents
    <3> QED
      BY <2>2, <2>4, <2>6, <3>1 DEF SaidYes
  <2>7. \A m \in approved' : SaidYes(m)'
    BY <2>2, <2>5, <2>6 DEF ConsentInv
  <2> QED
    BY <2>2, <2>4, <2>7 DEF ConsentInv, NoDecision
<1>3. ASSUME NEW n \in Node, AskUnscripted(n) PROVE ConsentInv'
  BY <1>3 DEF AskUnscripted, ConsentInv, SaidYes
<1>4. ASSUME NEW g \in {"entry", "exit"}, NEW n \in Node, NEW files \in Output, Judge(g, n, files)
      PROVE  ConsentInv'
  <2>1. /\ decision'.allowed = Allowed(n, files) /\ decision'.node = n /\ decision'.files = files
        /\ UNCHANGED <<broker, history, approved>>
    BY <1>4 DEF Judge
  <2> QED
    BY <2>1, AllowedIsApproved DEF ConsentInv, SaidYes
<1> QED
  BY <1>1, <1>2, <1>3, <1>4 DEF Next

\* No high-impact output passes the exit gate without a yes to that node.
THEOREM ConsentIsExplicit == Spec => []NoSilentConsent
<1>1. ConsentInv => NoSilentConsent
  BY DEF ConsentInv, NoSilentConsent, SaidYes
<1> QED
  BY <1>1, ConsentInit, ConsentNext, PTL DEF Spec

-----------------------------------------------------------------------------
(***************************************************************************)
(* One more file.                                                          *)
(***************************************************************************)

\* A file without facts silences no rule.
LEMMA MoreFilesMoreFindings ==
  ASSUME NEW n, NEW files \in Seq(Artifact), files # <<>>, NEW kind \in Kinds
  PROVE  Evaluate(n, files) \subseteq Evaluate(n, Append(files, [kind |-> kind, facts |-> {}]))
<1> DEFINE blank == [kind |-> kind, facts |-> {}]
           more == Append(files, blank)
           len == Len(files)
<1>1. /\ len \in Nat /\ DOMAIN files = 1 .. len /\ DOMAIN more = 1 .. len + 1
      /\ more[len + 1] = blank
      /\ \A i \in 1 .. len : more[i] = files[i]
      /\ more # <<>>
  OBVIOUS
<1>2. blank.facts = {}
  OBVIOUS
<1> HIDE DEF blank, more, len
<1>3. \A i \in DOMAIN files : i \in DOMAIN more /\ more[i] = files[i]
  BY <1>1
<1>4. \A i \in DOMAIN more : i \in DOMAIN files \/ more[i] = blank
  BY <1>1
<1>5. CodeFacts(more) \subseteq CodeFacts(files)
  BY <1>2, <1>3, <1>4 DEF CodeFacts
<1>6. SecretScan(files) \subseteq SecretScan(more) /\ Destructive(files) \subseteq Destructive(more)
  BY <1>3 DEF SecretScan, Destructive
<1>7. OpenRedirect(files) \subseteq OpenRedirect(more)
  BY <1>3, <1>5 DEF OpenRedirect
<1>8. ChangeControl(n, files) \subseteq ChangeControl(n, more)
  BY <1>1 DEF ChangeControl
<1>9. TestEvidence(n, files) \subseteq TestEvidence(n, more)
  BY <1>1, <1>2, <1>3, <1>4 DEF TestEvidence
<1>10. PIIInUrl(files) \subseteq PIIInUrl(more)
  BY <1>3 DEF PIIInUrl
<1>11. Evaluate(n, files) \subseteq Evaluate(n, more)
  BY <1>6, <1>7, <1>8, <1>9, <1>10 DEF Evaluate, FailClosed
<1> QED
  BY <1>11 DEF more, blank

\* What was decided is what would be decided now.
DecisionInv ==
  /\ decision.gate = "exit" => decision.allowed = Allowed(decision.node, decision.files)
  /\ decision.files \in Seq(Artifact)

LEMMA OutputIsFiles == Output \subseteq Seq(Artifact)
<1> SUFFICES ASSUME NEW k \in 0 .. MaxFiles,
                    NEW files \in [1 .. k -> {a \in Artifact : Cardinality(a.facts) <= MaxFacts}]
             PROVE  files \in Seq(Artifact)
  BY DEF Output
<1>1. k \in Nat /\ files \in [1 .. k -> Artifact]
  BY GateAssumption
<1> QED
  BY <1>1

LEMMA DecisionNext == DecisionInv /\ [Next]_vars => DecisionInv'
<1> SUFFICES ASSUME DecisionInv, [Next]_vars PROVE DecisionInv'
  OBVIOUS
<1>1. ASSUME UNCHANGED <<approved, broken, decision>> PROVE DecisionInv'
  BY <1>1 DEF DecisionInv, Allowed, Evaluate, FailClosed, ChangeControl
<1>2. CASE UNCHANGED vars
  BY <1>1, <1>2 DEF vars
<1>3. ASSUME NEW n \in Node, NEW a \in Answers, Ask(n, a) PROVE DecisionInv'
  BY <1>3 DEF Ask, DecisionInv, NoDecision
<1>4. ASSUME NEW n \in Node, AskUnscripted(n) PROVE DecisionInv'
  BY <1>1, <1>4 DEF AskUnscripted
<1>5. ASSUME NEW g \in {"entry", "exit"}, NEW n \in Node, NEW files \in Output, Judge(g, n, files)
      PROVE  DecisionInv'
  <2>1. /\ decision'.allowed = Allowed(n, files) /\ decision'.node = n /\ decision'.files = files
        /\ UNCHANGED <<approved, broken>>
    BY <1>5 DEF Judge
  <2>2. Allowed(n, files)' = Allowed(n, files)
    BY <2>1 DEF Allowed, Evaluate, FailClosed, ChangeControl
  <2> QED
    BY <2>1, <2>2, OutputIsFiles DEF DecisionInv
<1> QED
  BY <1>2, <1>3, <1>4, <1>5 DEF Next

\* A gate that refused an output refuses it with one more blank file.
THEOREM AddingOpensNothing == Spec => []AddingNeverOpens
<1>1. Init => DecisionInv
  BY DEF Init, DecisionInv, NoDecision
<1>2. DecisionInv => AddingNeverOpens
  BY MoreFilesMoreFindings DEF DecisionInv, AddingNeverOpens, Allowed
<1> QED
  BY <1>1, <1>2, DecisionNext, PTL DEF Spec

-----------------------------------------------------------------------------
(***************************************************************************)
(* One file in two.                                                        *)
(***************************************************************************)

\* Two files that share the facts of one are found nothing that it is not: the
\* guards are looked for in both, and the transcript is in one of them.
LEMMA SplitFilesFewerFindings ==
  ASSUME NEW n, NEW files \in Seq(Artifact), Len(files) = 1, NEW part \in SUBSET files[1].facts
  PROVE  Evaluate(n, <<[files[1] EXCEPT !.facts = part],
                       [files[1] EXCEPT !.facts = @ \ part]>>) \subseteq Evaluate(n, files)
<1> DEFINE whole == files[1]
           left == [whole EXCEPT !.facts = part]
           right == [whole EXCEPT !.facts = @ \ part]
           both == <<left, right>>
<1>1. whole \in Artifact /\ DOMAIN files = {1} /\ files # <<>>
  OBVIOUS
<1>2. /\ left.kind = whole.kind /\ left.facts = part
      /\ right.kind = whole.kind /\ right.facts = whole.facts \ part
  BY <1>1 DEF Artifact
<1>3. DOMAIN both = {1, 2} /\ both[1] = left /\ both[2] = right /\ both # <<>>
  OBVIOUS
<1> HIDE DEF left, right, both
<1>4. \A i \in DOMAIN both : both[i].kind = whole.kind /\ both[i].facts \subseteq whole.facts
  BY <1>2, <1>3
<1>5. \A x \in whole.facts : \E i \in DOMAIN both : x \in both[i].facts
  BY <1>2, <1>3
<1>6. \A i \in DOMAIN both : /\ IsTest(both[i]) <=> IsTest(whole)
                             /\ IsCode(both[i]) <=> IsCode(whole)
  BY <1>4 DEF IsTest, IsCode
<1>7. CodeFacts(files) \subseteq CodeFacts(both)
  BY <1>1, <1>5, <1>6 DEF CodeFacts
<1>8. SecretScan(both) \subseteq SecretScan(files)
  BY <1>1, <1>4, <1>6 DEF SecretScan
<1>9. Destructive(both) \subseteq Destructive(files)
  BY <1>1, <1>4, <1>6 DEF Destructive
<1>10. OpenRedirect(both) \subseteq OpenRedirect(files)
  BY <1>1, <1>4, <1>6, <1>7 DEF OpenRedirect
<1>11. ChangeControl(n, both) \subseteq ChangeControl(n, files)
  BY <1>1, <1>3 DEF ChangeControl
<1>12. TestEvidence(n, both) \subseteq TestEvidence(n, files)
  BY <1>1, <1>3, <1>5 DEF TestEvidence
<1>13. PIIInUrl(both) \subseteq PIIInUrl(files)
  BY <1>1, <1>4 DEF PIIInUrl
<1>14. Evaluate(n, both) \subseteq Evaluate(n, files)
  BY <1>8, <1>9, <1>10, <1>11, <1>12, <1>13 DEF Evaluate, FailClosed
<1> QED
  BY <1>14 DEF both, left, right

\* Code that is accepted in one file is accepted in two.
THEOREM SplittingIsFree == Spec => []SplitNeverCloses
<1>1. Init => DecisionInv
  BY DEF Init, DecisionInv, NoDecision
<1>2. DecisionInv => SplitNeverCloses
  <2> SUFFICES ASSUME DecisionInv,
                      decision.gate = "exit", decision.allowed, Len(decision.files) = 1,
                      NEW part \in SUBSET decision.files[1].facts
               PROVE  Allowed(decision.node, <<[decision.files[1] EXCEPT !.facts = part],
                                               [decision.files[1] EXCEPT !.facts = @ \ part]>>)
    BY DEF SplitNeverCloses
  <2>1. Allowed(decision.node, decision.files) /\ decision.files \in Seq(Artifact)
    BY DEF DecisionInv
  <2> QED
    BY <2>1, SplitFilesFewerFindings DEF Allowed
<1> QED
  BY <1>1, <1>2, DecisionNext, PTL DEF Spec

-----------------------------------------------------------------------------
(***************************************************************************)
(* Types.                                                                  *)
(***************************************************************************)

\* The rules say nothing but findings of theirs.
LEMMA EvaluateType ==
  ASSUME NEW n, NEW files, broken \subseteq RuleIds
  PROVE  Evaluate(n, files) \subseteq Finding
<1>1. SecretScan(files) \subseteq {[rule |-> "security.secret_scan", severity |-> "critical"]}
  BY DEF SecretScan
<1>2. Destructive(files) \subseteq {[rule |-> "safety.destructive_operation", severity |-> "critical"]}
  BY DEF Destructive
<1>3. OpenRedirect(files) \subseteq {[rule |-> "security.open_redirect", severity |-> "high"]}
  BY DEF OpenRedirect
<1>4. ChangeControl(n, files) \subseteq {[rule |-> "change_control.approval_required", severity |-> "high"]}
  BY DEF ChangeControl
<1>5. TestEvidence(n, files) \subseteq {[rule |-> "quality.test_evidence", severity |-> "high"]}
  BY DEF TestEvidence
<1>6. PIIInUrl(files) \subseteq {[rule |-> "privacy.pii_in_url", severity |-> "medium"]}
  BY DEF PIIInUrl
<1>7. \A r \in RuleIds, s \in {"critical", "high", "medium"} :
        [rule |-> r, severity |-> s] \in Finding
  BY DEF Finding
<1>8. {[rule |-> r, severity |-> "high"] : r \in broken} \subseteq Finding
  BY <1>7
<1>9. /\ [rule |-> "security.secret_scan", severity |-> "critical"] \in Finding
      /\ [rule |-> "safety.destructive_operation", severity |-> "critical"] \in Finding
      /\ [rule |-> "security.open_redirect", severity |-> "high"] \in Finding
      /\ [rule |-> "change_control.approval_required", severity |-> "high"] \in Finding
      /\ [rule |-> "quality.test_evidence", severity |-> "high"] \in Finding
      /\ [rule |-> "privacy.pii_in_url", severity |-> "medium"] \in Finding
  BY <1>7 DEF RuleIds
<1> QED
  BY <1>1, <1>2, <1>3, <1>4, <1>5, <1>6, <1>8, <1>9 DEF Evaluate, FailClosed

LEMMA TypeInit == Init => TypeOK
<1> SUFFICES ASSUME Init PROVE TypeOK
  OBVIOUS
<1>1. NoDecision \in Decisions
  BY DEF NoDecision, Decisions
<1>2. broken \subseteq RuleIds
  BY GateAssumption DEF Init
<1>3. history \in Seq(Questions)
  BY DEF Init
<1> QED
  BY <1>1, <1>2, <1>3 DEF Init, TypeOK

LEMMA TypeNext == TypeOK /\ [Next]_vars => TypeOK'
<1> SUFFICES ASSUME TypeOK, [Next]_vars PROVE TypeOK'
  OBVIOUS
<1>1. CASE UNCHANGED vars
  BY <1>1 DEF vars, TypeOK
<1>2. ASSUME NEW n \in Node, NEW a \in Answers, Ask(n, a) PROVE TypeOK'
  <2>1. Consents(n, a) \in BOOLEAN
    BY <1>2, GateAssumption DEF Ask, Consents, TypeOK, Brokers
  <2>2. [node |-> n, answer |-> a, approved |-> Consents(n, a)] \in Questions
    BY <1>2, <2>1 DEF Ask, Questions
  <2>3. NoDecision \in Decisions
    BY DEF NoDecision, Decisions
  <2> QED
    BY <1>2, <2>2, <2>3 DEF Ask, TypeOK
<1>3. ASSUME NEW n \in Node, AskUnscripted(n) PROVE TypeOK'
  BY <1>3 DEF AskUnscripted, TypeOK
<1>4. ASSUME NEW g \in {"entry", "exit"}, NEW n \in Node, NEW files \in Output, Judge(g, n, files)
      PROVE  TypeOK'
  <2>1. Evaluate(n, files) \subseteq Finding
    BY EvaluateType DEF TypeOK
  <2>2. Allowed(n, files) \in BOOLEAN
    BY DEF Allowed
  <2>3. decision' \in Decisions
    BY <1>4, <2>1, <2>2, OutputIsFiles DEF Judge, Decisions
  <2> QED
    BY <1>4, <2>3 DEF Judge, TypeOK
<1> QED
  BY <1>1, <1>2, <1>3, <1>4 DEF Next

\* Every decision is one: its findings are of the engine's rules, with a
\* severity that is known to block or not to (evaluate, decide).
THEOREM GateTypeCorrect == Spec => []TypeOK
  BY TypeInit, TypeNext, PTL DEF Spec
=============================================================================
