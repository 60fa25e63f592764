------------------------------ MODULE Planner ------------------------------
(***************************************************************************)
(* The planner (keel/planner.py): the plan it builds for a problem, and    *)
(* the revision it makes when impact analysis finds no extension point.    *)
(***************************************************************************)
EXTENDS PlanGraph, Sequences

IMPACT       == "impact-analysis"
DESIGN       == "design"
IMPLEMENT    == "implement"
AUTHOR_TESTS == "author-tests"
DOCUMENT     == "document"
VERIFY       == "verify"
REVIEW       == "review"
RELEASE      == "release-check"
REFACTOR     == "refactor-seam"

\* The node ids in the order build appends them; a revision appends its seam.
StageOrder ==
  <<IMPACT, DESIGN, IMPLEMENT, AUTHOR_TESTS, DOCUMENT, VERIFY, REVIEW, RELEASE, REFACTOR>>

StageIds == {StageOrder[i] : i \in DOMAIN StageOrder}

StageRank == [n \in StageIds |-> CHOOSE i \in DOMAIN StageOrder : StageOrder[i] = n]

\* NodeSpec.rollback: the nodes whose writes are undone when they fail.
RollbackStages == {IMPLEMENT, AUTHOR_TESTS, DOCUMENT, REFACTOR}

\* NodeSpec.retry.max_attempts: verification is not retried, the rest is, twice.
RetryBudget == [n \in StageIds |-> IF n = VERIFY THEN 0 ELSE 2]

\* Planner.build.  analyze and document say whether some agent offers the skill.
Build(brownfield, analyze, document) ==
  LET surveyed == brownfield /\ analyze
      nodes    == (StageIds \ {REFACTOR, IMPACT, DOCUMENT})
                    \cup (IF surveyed THEN {IMPACT} ELSE {})
                    \cup (IF document THEN {DOCUMENT} ELSE {})
      wanted   == [n \in StageIds |->
                     CASE n = DESIGN -> {IMPACT}
                       [] n \in {IMPLEMENT, AUTHOR_TESTS, DOCUMENT} -> {DESIGN}
                       [] n = VERIFY -> {IMPLEMENT, AUTHOR_TESTS}
                       [] n = REVIEW -> {VERIFY}
                       [] n = RELEASE -> {REVIEW, DOCUMENT}
                       [] OTHER -> {}]
  IN  [nodes   |-> nodes,
       deps    |-> [n \in StageIds |-> IF n \in nodes THEN wanted[n] \cap nodes ELSE {}],
       high    |-> IF brownfield THEN {IMPLEMENT} ELSE {},
       version |-> 1]

\* The evidence asks for a seam the plan does not have yet.
NeedsSeam(p, seam) == seam /\ REFACTOR \notin p.nodes

\* A plausible slip: the seam is inserted but implementation is not rewired.
ReviseWithoutRewire(p) ==
  [nodes   |-> p.nodes \cup {REFACTOR},
   deps    |-> [p.deps EXCEPT ![REFACTOR] = {DESIGN}],
   high    |-> p.high \cup {REFACTOR},
   version |-> p.version + 1]

\* Planner.revise_from_evidence, through revise: add the seam after design
\* and make implementation wait for both.
Revise(p) ==
  [nodes   |-> p.nodes \cup {REFACTOR},
   deps    |-> [n \in DOMAIN p.deps |->
                  IF n = REFACTOR THEN {DESIGN}
                  ELSE IF n = IMPLEMENT /\ n \in p.nodes THEN {DESIGN, REFACTOR}
                  ELSE p.deps[n]],
   high    |-> p.high \cup {REFACTOR},
   version |-> p.version + 1]
=============================================================================
