------------------------------- MODULE Pipeline -------------------------------
(***************************************************************************)
(* The command line's pipeline (keel/cli.py) around intake                 *)
(* (keel/intake.py): invocations of `keel run`, one after another or at    *)
(* the same time, that share the runs directory.  A run seeds its          *)
(* workspace from an earlier one, asks whether the requirement can be      *)
(* planned, parks or executes, and leaves a summary.                       *)
(*                                                                         *)
(* A question is its key (_key: the first sixty letters and digits), and a *)
(* confidence is in tenths.  What the executor does inside is module       *)
(* Executor's; here it is that a run's code appears in its workspace.      *)
(***************************************************************************)
EXTENDS Integers, FiniteSets, FiniteSetsExt

CONSTANTS
  RunId,       \* names of run directories; --run-id may name one that exists
  Invocation,  \* invocations of `keel run`
  Question,    \* what an analyst may ask
  Answers,     \* the answers each scenario scripts
  SeedFrom,    \* the scenario whose workspace a scenario starts from
  Raw,         \* confidences a model may state, in tenths
  Threshold    \* the confidence this intake wants

None == "none"

Scenario == DOMAIN SeedFrom

\* DEFAULT_CONFIDENCE_THRESHOLD
DefaultThreshold == 6

ASSUME PipelineAssumption ==
  /\ SeedFrom \in [Scenario -> Scenario \cup {None}]
  /\ Answers \in [Scenario -> SUBSET Question]
  /\ Raw \subseteq Int
  /\ Threshold \in 0 .. 10
  /\ None \notin Scenario \cup RunId
  /\ \A key \in Scenario : SeedFrom[key] # None => SeedFrom[SeedFrom[key]] = None

VARIABLES
  pc,        \* where each invocation is
  dir,       \* its run directory
  scenario,  \* --scenario
  answers,   \* the answers it was given (--answer-ambiguities), if any
  problem,   \* the problem its intake made
  code,      \* run directory -> invocations whose code its workspace holds
  summary,   \* run directory -> the scenario in summary.json, if there is one
  mtime      \* run directory -> when its workspace last gained or lost an entry

vars == <<pc, dir, scenario, answers, problem, code, summary, mtime>>

\* EngineeringProblem: blocking_ambiguities and confidence, and as it is when
\* nothing is known but the requirement.
Problem == [blocking : SUBSET Question, confidence : 0 .. 10]
Unknown == [blocking |-> {}, confidence |-> 0]

Running == {"seed", "intake", "execute"}

Init ==
  /\ pc = [i \in Invocation |-> "idle"]
  /\ dir = [i \in Invocation |-> None]
  /\ scenario = [i \in Invocation |-> None]
  /\ answers = [i \in Invocation |-> {}]
  /\ problem = [i \in Invocation |-> Unknown]
  /\ code = [r \in RunId |-> {}]
  /\ summary = [r \in RunId |-> None]
  /\ mtime = [r \in RunId |-> 0]

-----------------------------------------------------------------------------
(***************************************************************************)
(* The runs directory.                                                     *)
(***************************************************************************)

\* A plausible slip, and the one this code once had: any run will do.
MatchesAny(r, key) == code[r] # {} /\ summary[r] # None

\* A plausible slip: what a run is for is known before it has ended.
MatchesRunning(r, key) ==
  code[r] # {} /\ \E i \in Invocation : dir[i] = r /\ scenario[i] = key

\* What _latest_workspace looks for: a workspace with something in it and a
\* summary that names the scenario.
Matches(r, key) == code[r] # {} /\ summary[r] = key

\* The newest of them; directories of the same age are told apart by name.
Latest(key) ==
  LET matches == {r \in RunId : Matches(r, key)}
  IN  {r \in matches : \A s \in matches : mtime[s] <= mtime[r]}

Start(i, r, key, flag) ==
  /\ pc[i] = "idle"
  /\ pc' = [pc EXCEPT ![i] = "seed"]
  /\ dir' = [dir EXCEPT ![i] = r]
  /\ scenario' = [scenario EXCEPT ![i] = key]
  /\ answers' = [answers EXCEPT ![i] = IF flag THEN Answers[key] ELSE {}]
  /\ UNCHANGED <<problem, code, summary, mtime>>

\* A scenario that starts from nothing.
NoSeed(i) ==
  /\ pc[i] = "seed"
  /\ SeedFrom[scenario[i]] = None
  /\ pc' = [pc EXCEPT ![i] = "intake"]
  /\ UNCHANGED <<dir, scenario, answers, problem, code, summary, mtime>>

\* copytree onto what is there, and the copy is as old as the original.
Seed(i, r) ==
  /\ pc[i] = "seed"
  /\ SeedFrom[scenario[i]] # None
  /\ r \in Latest(SeedFrom[scenario[i]])
  /\ r # dir[i]
  /\ code' = [code EXCEPT ![dir[i]] = @ \cup code[r]]
  /\ mtime' = [mtime EXCEPT ![dir[i]] = mtime[r]]
  /\ pc' = [pc EXCEPT ![i] = "intake"]
  /\ UNCHANGED <<dir, scenario, answers, problem, summary>>

\* Nothing to start from, or the only thing is this directory, which cannot be
\* copied onto itself.
SeedFails(i) ==
  /\ pc[i] = "seed"
  /\ SeedFrom[scenario[i]] # None
  /\ Latest(SeedFrom[scenario[i]]) \subseteq {dir[i]}
  /\ pc' = [pc EXCEPT ![i] = "died"]
  /\ UNCHANGED <<dir, scenario, answers, problem, code, summary, mtime>>

-----------------------------------------------------------------------------
(***************************************************************************)
(* Intake.                                                                 *)
(***************************************************************************)

\* The analyst's parsed output: for each question whether it is asked, and
\* with which "blocking" (a malformed entry or an empty question is not
\* asked), and a confidence, where anything that is no number reads as one
\* below zero and NaN as one above one.
Analysis == [asked : [Question -> {"no", "blocking", "unsaid", "optional"}], confidence : Raw]

\* _to_problem: a question blocks unless it says otherwise, and the confidence
\* is clamped.
ToProblem(a) ==
  [blocking   |-> {q \in Question : a.asked[q] \in {"blocking", "unsaid"}},
   confidence |-> Max({0, Min({10, a.confidence})})]

\* A plausible slip: answers resolve questions and nothing else.
ApplyAnswersOnly(p, given) == [p EXCEPT !.blocking = @ \ given]

\* _apply_answers: with nothing left to ask, the confidence is at least the
\* default threshold.
ApplyAnswers(p, given) ==
  LET left == p.blocking \ given
  IN  IF given = {} THEN p
      ELSE [blocking   |-> left,
            confidence |-> IF left = {} THEN Max({p.confidence, DefaultThreshold})
                                        ELSE p.confidence]

\* A plausible slip: a confident analyst is not held up by its own questions.
IsPlannableIfSure(p) == p.confidence >= Threshold

\* EngineeringProblem.is_plannable
IsPlannable(p) == p.blocking = {} /\ p.confidence >= Threshold

\* The analysis succeeds: the run is planned, or it is parked with a summary.
Analyze(i, a) ==
  LET p == ApplyAnswers(ToProblem(a), answers[i]) IN
  /\ pc[i] = "intake"
  /\ problem' = [problem EXCEPT ![i] = p]
  /\ pc' = [pc EXCEPT ![i] = IF IsPlannable(p) THEN "execute" ELSE "parked"]
  /\ summary' = [summary EXCEPT ![dir[i]] = IF IsPlannable(p) THEN @ ELSE scenario[i]]
  /\ UNCHANGED <<dir, scenario, answers, code, mtime>>

\* The stage fails or its answer cannot be parsed: a problem with confidence
\* zero and no question, which only a parked state would have stopped.
AnalysisFails(i) ==
  /\ pc[i] = "intake"
  /\ problem' = [problem EXCEPT ![i] = Unknown]
  /\ pc' = [pc EXCEPT ![i] = "execute"]
  /\ UNCHANGED <<dir, scenario, answers, code, summary, mtime>>

-----------------------------------------------------------------------------
(***************************************************************************)
(* The run itself.                                                         *)
(***************************************************************************)

Newest == Max({mtime[r] : r \in RunId}) + 1

\* The executor's code lands in the workspace; its directory gets younger only
\* if the top level changes.
Write(i) ==
  /\ pc[i] = "execute"
  /\ i \notin code[dir[i]]
  /\ code' = [code EXCEPT ![dir[i]] = @ \cup {i}]
  /\ \/ mtime' = [mtime EXCEPT ![dir[i]] = Newest]
     \/ code[dir[i]] # {} /\ UNCHANGED mtime
  /\ UNCHANGED <<pc, dir, scenario, answers, problem, summary>>

\* The executor has returned, whatever the state: the summary is written.
Finish(i) ==
  /\ pc[i] = "execute"
  /\ pc' = [pc EXCEPT ![i] = "finished"]
  /\ summary' = [summary EXCEPT ![dir[i]] = scenario[i]]
  /\ UNCHANGED <<dir, scenario, answers, problem, code, mtime>>

\* The process ends early: no recording to replay, an error nobody handles, an
\* interrupt.
Die(i) ==
  /\ pc[i] \in Running
  /\ pc' = [pc EXCEPT ![i] = "died"]
  /\ UNCHANGED <<dir, scenario, answers, problem, code, summary, mtime>>

Next ==
  \E i \in Invocation :
    \/ \E r \in RunId, key \in Scenario, flag \in BOOLEAN : Start(i, r, key, flag)
    \/ \E r \in RunId : Seed(i, r)
    \/ pc[i] = "intake" /\ \E a \in Analysis : Analyze(i, a)
    \/ NoSeed(i) \/ SeedFails(i) \/ AnalysisFails(i) \/ Write(i) \/ Finish(i) \/ Die(i)

Spec == Init /\ [][Next]_vars

-----------------------------------------------------------------------------
(***************************************************************************)
(* Properties.                                                             *)
(***************************************************************************)

\* No invocation was given the directory of another.
IdsAreFresh == \A i, j \in Invocation : dir[i] = dir[j] /\ dir[i] # None => i = j

\* Code is written for a requirement only when nothing the analyst called
\* blocking is unanswered, over all the runs a workspace was put together from
\* (_run's parking, is_plannable).
NoCodeWhileAsking ==
  \A r \in RunId : \A i \in code[r] : problem[i].blocking = {}

\* And only when the analyst was sure enough.
NoCodeInDoubt == \A r \in RunId : \A i \in code[r] : problem[i].confidence >= Threshold

\* A human who answers everything is not asked again: a run with answers to
\* all that blocks is not parked (_apply_answers and is_plannable together).
AnsweringUnparks ==
  \A i \in Invocation : pc[i] = "parked" /\ answers[i] # {} => problem[i].blocking # {}

\* While every run has an id of its own, a workspace is the chain of scenarios
\* it should be: no two runs of one scenario are stacked on each other, and
\* what lies below a scenario's code is the code of the one it is seeded from
\* (_latest_workspace).
NothingIsStacked ==
  IdsAreFresh =>
    \A i, j \in Invocation :
      i # j /\ dir[i] # None /\ j \in code[dir[i]] => scenario[j] = SeedFrom[scenario[i]]

\* While every run has an id of its own, what a run starts from is final: no
\* run is seeded from a workspace whose run is still writing or was cut short
\* (_latest_workspace reads the summary, and _run writes it last).
SeedIsFinal ==
  [][\A i, j \in Invocation :
       /\ IdsAreFresh
       /\ pc[i] = "seed" /\ pc'[i] = "intake"
       /\ j \in code'[dir[i]] \ code[dir[i]]
       => pc[j] = "finished"]_vars
=============================================================================
