---------------------------- MODULE PipelineProofs ----------------------------
(***************************************************************************)
(* For any number of invocations, directories, scenarios and questions:    *)
(* code is written only when nothing blocking is open, workspaces are not  *)
(* stacked, and a seed is final, as long as no run takes another's id.     *)
(***************************************************************************)
EXTENDS Pipeline, TLAPS

\* States an invocation ends in.
PCs == Running \cup {"idle", "parked", "finished", "died"}

LEMMA Seeds ==
  /\ None \notin Scenario /\ None \notin RunId
  /\ \A key \in Scenario : SeedFrom[key] \in Scenario \cup {None}
  /\ \A key \in Scenario : SeedFrom[key] # None => SeedFrom[SeedFrom[key]] = None
  BY PipelineAssumption

-----------------------------------------------------------------------------
(***************************************************************************)
(* No code while questions are open.                                       *)
(***************************************************************************)

\* An invocation that executes has nothing open, and whoever has written has
\* executed.
AskInv ==
  /\ pc \in [Invocation -> PCs]
  /\ DOMAIN problem = Invocation
  /\ DOMAIN code = RunId
  /\ dir \in [Invocation -> RunId \cup {None}]
  /\ \A i \in Invocation : pc[i] # "idle" => dir[i] \in RunId
  /\ \A i \in Invocation : pc[i] = "execute" => problem[i].blocking = {}
  /\ \A r \in RunId : \A i \in code[r] :
       i \in Invocation /\ pc[i] \notin {"idle", "seed", "intake", "parked"} /\ problem[i].blocking = {}

LEMMA AskInit == Init => AskInv
<1> SUFFICES ASSUME Init PROVE AskInv
  OBVIOUS
<1> QED
  BY DEF Init, AskInv, PCs, Running

LEMMA AskNext == AskInv /\ [Next]_vars => AskInv'
<1> SUFFICES ASSUME AskInv, [Next]_vars PROVE AskInv'
  OBVIOUS
<1> USE DEF AskInv, PCs, Running
<1>1. CASE UNCHANGED vars
  BY <1>1 DEF vars
<1>2. ASSUME NEW i \in Invocation, NEW r \in RunId, NEW key \in Scenario, NEW flag \in BOOLEAN,
             Start(i, r, key, flag)
      PROVE  AskInv'
  BY <1>2 DEF Start
<1>3. ASSUME NEW i \in Invocation, NEW r \in RunId, Seed(i, r) PROVE AskInv'
  BY <1>3 DEF Seed, Latest
<1>4. ASSUME NEW i \in Invocation, NEW a \in Analysis, Analyze(i, a) PROVE AskInv'
  <2> DEFINE p == ApplyAnswers(ToProblem(a), answers[i])
  <2>1. /\ pc[i] = "intake" /\ problem' = [problem EXCEPT ![i] = p]
        /\ pc' = [pc EXCEPT ![i] = IF IsPlannable(p) THEN "execute" ELSE "parked"]
        /\ UNCHANGED <<dir, code>>
    BY <1>4 DEF Analyze
  <2>2. IsPlannable(p) => p.blocking = {}
    BY DEF IsPlannable
  <2> HIDE DEF p
  <2> QED
    BY <2>1, <2>2
<1>5. ASSUME NEW i \in Invocation, AnalysisFails(i) PROVE AskInv'
  BY <1>5 DEF AnalysisFails, Unknown
<1>6. ASSUME NEW i \in Invocation, Write(i) PROVE AskInv'
  BY <1>6 DEF Write
<1>7. ASSUME NEW i \in Invocation, NoSeed(i) \/ SeedFails(i) \/ Finish(i) \/ Die(i) PROVE AskInv'
  BY <1>7 DEF NoSeed, SeedFails, Finish, Die
<1> QED
  BY <1>1, <1>2, <1>3, <1>4, <1>5, <1>6, <1>7 DEF Next

LEMMA AskAlways == Spec => []AskInv
  BY AskInit, AskNext, PTL DEF Spec

\* Nobody's code is in any workspace while a question of its own requirement
\* is open (is_plannable, _run's early return).
THEOREM QuestionsComeFirst == Spec => []NoCodeWhileAsking
<1>1. AskInv => NoCodeWhileAsking
  BY DEF AskInv, NoCodeWhileAsking
<1> QED
  BY <1>1, AskAlways, PTL

-----------------------------------------------------------------------------
(***************************************************************************)
(* Answers unpark.                                                         *)
(***************************************************************************)

LEMMA MaxOfTwo ==
  ASSUME NEW a \in Int, NEW b \in Int
  PROVE  Max({a, b}) \in {a, b} /\ Max({a, b}) >= a /\ Max({a, b}) >= b
<1>1. \E x \in {a, b} : \A y \in {a, b} : x >= y
  <2>1. CASE a >= b
    <3> WITNESS a \in {a, b}
    <3> QED
      BY <2>1
  <2>2. CASE b >= a
    <3> WITNESS b \in {a, b}
    <3> QED
      BY <2>2
  <2> QED
    BY <2>1, <2>2
<1>2. Max({a, b}) \in {a, b} /\ \A y \in {a, b} : Max({a, b}) >= y
  BY <1>1, Zenon DEF Max
<1> QED
  BY <1>2

LEMMA MinOfTwo ==
  ASSUME NEW a \in Int, NEW b \in Int
  PROVE  Min({a, b}) \in {a, b}
<1>1. \E x \in {a, b} : \A y \in {a, b} : x <= y
  <2>1. CASE a <= b
    <3> WITNESS a \in {a, b}
    <3> QED
      BY <2>1
  <2>2. CASE b <= a
    <3> WITNESS b \in {a, b}
    <3> QED
      BY <2>2
  <2> QED
    BY <2>1, <2>2
<1>2. Min({a, b}) \in {a, b} /\ \A y \in {a, b} : Min({a, b}) <= y
  BY <1>1, Zenon DEF Min
<1> QED
  BY <1>2

LEMMA StatedConfidence ==
  ASSUME NEW a \in Analysis
  PROVE  ToProblem(a).confidence \in Int
<1>1. a.confidence \in Int
  BY PipelineAssumption DEF Analysis
<1>2. Min({10, a.confidence}) \in Int
  BY <1>1, MinOfTwo
<1>3. Max({0, Min({10, a.confidence})}) \in {0, Min({10, a.confidence})}
  BY <1>2, MaxOfTwo, 0 \in Int, Zenon
<1>4. ToProblem(a).confidence \in {0, Min({10, a.confidence})}
  BY <1>3, Zenon DEF ToProblem
<1> QED
  BY <1>2, <1>4

\* With every blocking question answered there is nothing left that could stop
\* the run, if the threshold is not above the one _apply_answers lifts to.
LEMMA AnswersSettle ==
  ASSUME Threshold <= DefaultThreshold, NEW a \in Analysis, NEW given, given # {},
         NEW p, p = ApplyAnswers(ToProblem(a), given), p.blocking = {}
  PROVE  IsPlannable(p)
<1> DEFINE q == ToProblem(a)
<1>1. q.confidence \in Int
  BY StatedConfidence
<1> HIDE DEF q
<1>2. p = [blocking   |-> q.blocking \ given,
           confidence |-> IF q.blocking \ given = {} THEN Max({q.confidence, DefaultThreshold})
                                                     ELSE q.confidence]
  BY DEF ApplyAnswers, q
<1>3. p.confidence = Max({q.confidence, DefaultThreshold})
  BY <1>2
<1>4. DefaultThreshold \in Int
  BY DEF DefaultThreshold
<1>5. /\ Max({q.confidence, DefaultThreshold}) \in {q.confidence, DefaultThreshold}
      /\ Max({q.confidence, DefaultThreshold}) >= DefaultThreshold
  BY <1>1, <1>4, MaxOfTwo, Zenon
<1> QED
  BY <1>1, <1>3, <1>4, <1>5, PipelineAssumption DEF IsPlannable

\* What is parked with answers given still asks something.
AnswerInv ==
  /\ pc \in [Invocation -> PCs]
  /\ DOMAIN problem = Invocation
  /\ DOMAIN answers = Invocation
  /\ AnsweringUnparks

LEMMA AnswerInit == Init => AnswerInv
  BY DEF Init, AnswerInv, AnsweringUnparks, PCs, Running

LEMMA AnswerNext ==
  ASSUME Threshold <= DefaultThreshold
  PROVE  AnswerInv /\ [Next]_vars => AnswerInv'
<1> SUFFICES ASSUME AnswerInv, [Next]_vars PROVE AnswerInv'
  OBVIOUS
<1> USE DEF AnswerInv, AnsweringUnparks, PCs, Running
<1>1. CASE UNCHANGED vars
  BY <1>1 DEF vars
<1>2. ASSUME NEW i \in Invocation, NEW r \in RunId, NEW key \in Scenario, NEW flag \in BOOLEAN,
             Start(i, r, key, flag)
      PROVE  AnswerInv'
  BY <1>2 DEF Start
<1>3. ASSUME NEW i \in Invocation, NEW r \in RunId, Seed(i, r) PROVE AnswerInv'
  BY <1>3 DEF Seed
<1>4. ASSUME NEW i \in Invocation, NEW a \in Analysis, Analyze(i, a) PROVE AnswerInv'
  <2> DEFINE p == ApplyAnswers(ToProblem(a), answers[i])
  <2>1. /\ problem' = [problem EXCEPT ![i] = p]
        /\ pc' = [pc EXCEPT ![i] = IF IsPlannable(p) THEN "execute" ELSE "parked"]
        /\ UNCHANGED answers
    BY <1>4 DEF Analyze
  <2>2. answers[i] # {} /\ p.blocking = {} => IsPlannable(p)
    BY AnswersSettle
  <2> HIDE DEF p
  <2> QED
    BY <2>1, <2>2
<1>5. ASSUME NEW i \in Invocation,
             \/ NoSeed(i) \/ SeedFails(i) \/ AnalysisFails(i) \/ Write(i) \/ Finish(i) \/ Die(i)
      PROVE  AnswerInv'
  BY <1>5 DEF NoSeed, SeedFails, AnalysisFails, Write, Finish, Die
<1> QED
  BY <1>1, <1>2, <1>3, <1>4, <1>5 DEF Next

\* A human who has answered everything is not asked again, whatever confidence
\* the analyst states, for every intake that wants no more than the default
\* (_apply_answers lifts the confidence to DEFAULT_CONFIDENCE_THRESHOLD, not to
\* the threshold of this intake).
THEOREM AnswersUnpark ==
  ASSUME Threshold <= DefaultThreshold
  PROVE  Spec => []AnsweringUnparks
<1>1. AnswerInv => AnsweringUnparks
  BY DEF AnswerInv
<1>2. AnswerInv /\ [Next]_vars => AnswerInv'
  BY AnswerNext
<1> QED
  BY <1>1, <1>2, AnswerInit, PTL DEF Spec

-----------------------------------------------------------------------------
(***************************************************************************)
(* Seeds.                                                                  *)
(***************************************************************************)

\* With an id of its own for every run: an unused directory is empty; a
\* summary is its owner's, who has ended; and what is not the owner's in a
\* workspace comes from finished runs of the scenario it is seeded from.
Chain ==
  /\ \A r \in RunId : (\A i \in Invocation : dir[i] # r) => code[r] = {} /\ summary[r] = None
  /\ \A i \in Invocation : pc[i] # "idle" =>
       /\ summary[dir[i]] # None => summary[dir[i]] = scenario[i] /\ pc[i] \in {"parked", "finished"}
       /\ \A j \in code[dir[i]] :
            j # i => scenario[j] = SeedFrom[scenario[i]] /\ pc[j] = "finished"

ChainInv ==
  /\ AskInv
  /\ DOMAIN scenario = Invocation
  /\ summary \in [RunId -> Scenario \cup {None}]
  /\ \A i \in Invocation : pc[i] = "idle" => dir[i] = None
  /\ \A i \in Invocation : pc[i] # "idle" => scenario[i] \in Scenario
  /\ IdsAreFresh => Chain

LEMMA ChainInit == Init => ChainInv
<1> SUFFICES ASSUME Init PROVE ChainInv
  OBVIOUS
<1>1. AskInv
  BY AskInit
<1> QED
  BY <1>1 DEF Init, ChainInv, Chain

\* What a run is seeded with is the code of one finished run.
LEMMA SeedIsOneRun ==
  ASSUME ChainInv, IdsAreFresh, NEW i \in Invocation, NEW r \in RunId, Seed(i, r),
         NEW j \in code[r]
  PROVE  j \in Invocation /\ pc[j] = "finished" /\ scenario[j] = SeedFrom[scenario[i]]
<1> DEFINE key == SeedFrom[scenario[i]]
<1> USE DEF ChainInv, AskInv
<1>1. /\ pc[i] = "seed" /\ scenario[i] \in Scenario /\ key # None /\ summary[r] = key
  BY DEF Seed, Latest, Matches
<1>2. key \in Scenario /\ SeedFrom[key] = None
  BY <1>1, Seeds
<1>3. PICK k \in Invocation : dir[k] = r
  BY <1>1 DEF Chain
<1>4. pc[k] # "idle"
  BY <1>3, Seeds
<1>5. scenario[k] = key /\ pc[k] \in {"parked", "finished"}
  BY <1>1, <1>3, <1>4 DEF Chain
<1>6. j \in Invocation /\ pc[j] \notin {"idle", "parked"}
  OBVIOUS
<1>7. j = k
  <2> SUFFICES ASSUME j # k PROVE FALSE
    OBVIOUS
  <2>1. scenario[j] = SeedFrom[key]
    BY <1>3, <1>4, <1>5 DEF Chain
  <2> QED
    BY <1>2, <1>6, <2>1, Seeds
<1> QED
  BY <1>5, <1>6, <1>7

\* A step of a running invocation in its own directory.
LEMMA OwnStepKeeps ==
  ASSUME ChainInv, AskInv', NEW i \in Invocation, pc[i] \in Running, NEW where \in PCs \ {"idle"},
         UNCHANGED <<dir, scenario>>, pc' = [pc EXCEPT ![i] = where],
         \/ UNCHANGED summary
         \/ summary' = [summary EXCEPT ![dir[i]] = scenario[i]] /\ where \in {"parked", "finished"},
         UNCHANGED code \/ code' = [code EXCEPT ![dir[i]] = @ \cup {i}]
  PROVE  ChainInv'
<1> USE DEF ChainInv
<1>1. dir[i] \in RunId /\ pc[i] \notin {"idle", "parked", "finished"} /\ scenario[i] \in Scenario
  BY DEF AskInv, Running
<1>2. pc'[i] = where /\ \A j \in Invocation \ {i} : pc'[j] = pc[j]
  BY DEF AskInv
<1>3. /\ code'[dir[i]] \subseteq code[dir[i]] \cup {i}
      /\ \A s \in RunId \ {dir[i]} : code'[s] = code[s] /\ summary'[s] = summary[s]
  BY <1>1 DEF AskInv
<1>4. ASSUME IdsAreFresh' PROVE Chain'
  <2>1. IdsAreFresh /\ Chain
    BY <1>4 DEF IdsAreFresh
  <2>2. \A s \in RunId : (\A j \in Invocation : dir'[j] # s) => code'[s] = {} /\ summary'[s] = None
    BY <1>3, <2>1 DEF Chain
  <2>3. ASSUME NEW k \in Invocation, pc'[k] # "idle"
        PROVE  /\ summary'[dir'[k]] # None =>
                    summary'[dir'[k]] = scenario'[k] /\ pc'[k] \in {"parked", "finished"}
               /\ \A j \in code'[dir'[k]] :
                    j # k => scenario'[j] = SeedFrom[scenario'[k]] /\ pc'[j] = "finished"
    <3>1. CASE k = i
      <4>1. summary[dir[i]] = None
        BY <1>1, <2>1 DEF Chain
      <4>2. summary'[dir[i]] # None => summary'[dir[i]] = scenario[i] /\ where \in {"parked", "finished"}
        BY <1>1, <4>1
      <4>3. \A j \in code[dir[i]] : j # i =>
              j \in Invocation /\ scenario[j] = SeedFrom[scenario[i]] /\ pc[j] = "finished"
        BY <1>1, <2>1 DEF Chain, AskInv
      <4> QED
        BY <1>2, <1>3, <3>1, <4>2, <4>3
    <3>2. CASE k # i
      <4>1. pc[k] # "idle" /\ dir[k] \in RunId /\ dir[k] # dir[i]
        BY <1>1, <1>2, <2>1, <2>3, <3>2, Seeds DEF AskInv, IdsAreFresh
      <4>2. \A j \in code[dir[k]] : j # k =>
              j \in Invocation /\ j # i /\ scenario[j] = SeedFrom[scenario[k]] /\ pc[j] = "finished"
        BY <1>1, <2>1, <4>1 DEF Chain, AskInv
      <4>3. summary[dir[k]] # None => summary[dir[k]] = scenario[k] /\ pc[k] \in {"parked", "finished"}
        BY <2>1, <4>1 DEF Chain
      <4> QED
        BY <1>2, <1>3, <3>2, <4>1, <4>2, <4>3
    <3> QED
      BY <3>1, <3>2
  <2> QED
    BY <2>2, <2>3 DEF Chain
<1>5. \A k \in Invocation : (pc'[k] = "idle" <=> pc[k] = "idle")
  BY <1>1, <1>2
<1>6. summary' \in [RunId -> Scenario \cup {None}]
  BY <1>1
<1> QED
  BY <1>4, <1>5, <1>6 DEF AskInv

LEMMA ChainNext == ChainInv /\ [Next]_vars => ChainInv'
<1> SUFFICES ASSUME ChainInv, [Next]_vars PROVE ChainInv'
  OBVIOUS
<1>0. AskInv'
  BY AskNext DEF ChainInv
<1> USE DEF ChainInv
<1> USE DEF IdsAreFresh
<1>1. CASE UNCHANGED vars
  BY <1>0, <1>1 DEF vars, Chain
<1>2. ASSUME NEW i \in Invocation, NEW r \in RunId, NEW key \in Scenario, NEW flag \in BOOLEAN,
             Start(i, r, key, flag)
      PROVE  ChainInv'
  <2>1. /\ pc[i] = "idle" /\ dir[i] = None
        /\ pc' = [pc EXCEPT ![i] = "seed"] /\ dir' = [dir EXCEPT ![i] = r]
        /\ scenario' = [scenario EXCEPT ![i] = key]
        /\ UNCHANGED <<code, summary>>
    BY <1>2 DEF Start
  <2>2. /\ pc'[i] = "seed" /\ dir'[i] = r /\ scenario'[i] = key
        /\ \A j \in Invocation \ {i} : pc'[j] = pc[j] /\ dir'[j] = dir[j] /\ scenario'[j] = scenario[j]
    BY <2>1 DEF AskInv
  <2>3. ASSUME IdsAreFresh' PROVE IdsAreFresh /\ code[r] = {} /\ summary[r] = None
    <3>1. \A j \in Invocation \ {i} : dir[j] # r
      BY <2>2, <2>3, Seeds
    <3>2. IdsAreFresh
      BY <2>1, <2>2, <2>3
    <3>3. \A j \in Invocation : dir[j] # r
      BY <2>1, <3>1, Seeds
    <3> QED
      BY <3>2, <3>3 DEF Chain
  <2>4. ASSUME IdsAreFresh' PROVE Chain'
    <3>1. IdsAreFresh /\ Chain /\ code[r] = {} /\ summary[r] = None
      BY <2>3, <2>4
    <3>2. \A s \in RunId : (\A j \in Invocation : dir'[j] # s) => code'[s] = {} /\ summary'[s] = None
      BY <2>1, <2>2, <3>1, Seeds DEF Chain
    <3>3. ASSUME NEW k \in Invocation, pc'[k] # "idle"
          PROVE  /\ summary'[dir'[k]] # None =>
                      summary'[dir'[k]] = scenario'[k] /\ pc'[k] \in {"parked", "finished"}
                 /\ \A j \in code'[dir'[k]] :
                      j # k => scenario'[j] = SeedFrom[scenario'[k]] /\ pc'[j] = "finished"
      <4>1. CASE k = i
        BY <2>1, <2>2, <3>1, <4>1
      <4>2. CASE k # i
        <5>1. \A j \in code[dir[k]] : j # i /\ j \in Invocation
          BY <2>1, <2>2, <3>3, <4>2 DEF AskInv
        <5> QED
          BY <2>1, <2>2, <3>1, <3>3, <4>2, <5>1 DEF Chain
      <4> QED
        BY <4>1, <4>2
    <3> QED
      BY <3>2, <3>3 DEF Chain
  <2> QED
    BY <1>0, <2>1, <2>2, <2>4
<1>3. ASSUME NEW i \in Invocation, NEW r \in RunId, Seed(i, r) PROVE ChainInv'
  <2>1. /\ pc[i] = "seed" /\ dir[i] \in RunId
        /\ code' = [code EXCEPT ![dir[i]] = @ \cup code[r]]
        /\ pc' = [pc EXCEPT ![i] = "intake"]
        /\ UNCHANGED <<dir, scenario, summary>>
    BY <1>3 DEF Seed, AskInv
  <2>2. /\ pc'[i] = "intake" /\ \A j \in Invocation \ {i} : pc'[j] = pc[j]
        /\ code'[dir[i]] = code[dir[i]] \cup code[r]
        /\ \A s \in RunId \ {dir[i]} : code'[s] = code[s]
    BY <2>1 DEF AskInv
  <2>3. ASSUME IdsAreFresh' PROVE Chain'
    <3>1. IdsAreFresh /\ Chain
      BY <2>1, <2>3
    <3>2. \A s \in RunId : (\A j \in Invocation : dir'[j] # s) => code'[s] = {} /\ summary'[s] = None
      BY <2>1, <2>2, <3>1 DEF Chain
    <3>3. \A j \in code[r] : j \in Invocation /\ pc[j] = "finished" /\ scenario[j] = SeedFrom[scenario[i]]
      BY <1>3, <3>1, SeedIsOneRun
    <3>4. ASSUME NEW k \in Invocation, pc'[k] # "idle"
          PROVE  /\ summary'[dir'[k]] # None =>
                      summary'[dir'[k]] = scenario'[k] /\ pc'[k] \in {"parked", "finished"}
                 /\ \A j \in code'[dir'[k]] :
                      j # k => scenario'[j] = SeedFrom[scenario'[k]] /\ pc'[j] = "finished"
      <4>1. CASE k = i
        <5>1. summary[dir[i]] = None
          BY <2>1, <3>1 DEF Chain
        <5>2. \A j \in code[dir[i]] : j \in Invocation /\ j # i
                                      /\ scenario[j] = SeedFrom[scenario[i]] /\ pc[j] = "finished"
          BY <2>1, <3>1 DEF Chain, AskInv
        <5> QED
          BY <2>1, <2>2, <3>3, <4>1, <5>1, <5>2
      <4>2. CASE k # i
        <5>1. pc[k] # "idle" /\ dir[k] \in RunId /\ dir[k] # dir[i]
          BY <2>1, <2>2, <3>1, <3>4, <4>2, Seeds DEF AskInv
        <5>2. code'[dir[k]] = code[dir[k]] /\ \A j \in code[dir[k]] : j \in Invocation /\ j # i
          BY <2>1, <2>2, <5>1 DEF AskInv
        <5> QED
          BY <2>1, <2>2, <3>1, <4>2, <5>1, <5>2 DEF Chain
      <4> QED
        BY <4>1, <4>2
    <3> QED
      BY <3>2, <3>4 DEF Chain
  <2> QED
    BY <1>0, <2>1, <2>2, <2>3
<1>4. ASSUME NEW i \in Invocation, NEW a \in Analysis, Analyze(i, a) PROVE ChainInv'
  <2>1. CASE IsPlannable(ApplyAnswers(ToProblem(a), answers[i]))
    <3>1. summary' = summary
      BY <1>4, <2>1 DEF Analyze
    <3> QED
      BY <1>0, <1>4, <2>1, <3>1, OwnStepKeeps DEF Analyze, PCs, Running
  <2>2. CASE ~IsPlannable(ApplyAnswers(ToProblem(a), answers[i]))
    BY <1>0, <1>4, <2>2, OwnStepKeeps DEF Analyze, PCs, Running
  <2> QED
    BY <2>1, <2>2
<1>5. ASSUME NEW i \in Invocation, NoSeed(i) \/ SeedFails(i) \/ AnalysisFails(i) \/ Die(i)
      PROVE  ChainInv'
  BY <1>0, <1>5, OwnStepKeeps DEF NoSeed, SeedFails, AnalysisFails, Die, PCs, Running
<1>6. ASSUME NEW i \in Invocation, Write(i) PROVE ChainInv'
  <2>1. pc' = [pc EXCEPT ![i] = "execute"]
    BY <1>6 DEF Write, AskInv
  <2> QED
    BY <1>0, <1>6, <2>1, OwnStepKeeps DEF Write, PCs, Running
<1>7. ASSUME NEW i \in Invocation, Finish(i) PROVE ChainInv'
  BY <1>0, <1>7, OwnStepKeeps DEF Finish, PCs, Running
<1> QED
  BY <1>1, <1>2, <1>3, <1>4, <1>5, <1>6, <1>7 DEF Next

LEMMA ChainAlways == Spec => []ChainInv
  BY ChainInit, ChainNext, PTL DEF Spec

\* A scenario's code lies on the code of the scenario it is seeded from and on
\* nothing else (_latest_workspace matches the scenario).
THEOREM WorkspacesAreNotStacked == Spec => []NothingIsStacked
<1>1. ChainInv => NothingIsStacked
  BY DEF ChainInv, Chain, NothingIsStacked
<1> QED
  BY <1>1, ChainAlways, PTL

\* No run starts from a workspace that is still being written or was left
\* half written (the summary is the last thing a run writes).
THEOREM SeedsAreFinal == Spec => SeedIsFinal
<1> DEFINE Final ==
      \A i, j \in Invocation :
        /\ IdsAreFresh
        /\ pc[i] = "seed" /\ pc'[i] = "intake"
        /\ j \in code'[dir[i]] \ code[dir[i]]
        => pc[j] = "finished"
<1>1. ChainInv /\ [Next]_vars => [Final]_vars
  <2> SUFFICES ASSUME ChainInv, Next, NEW i \in Invocation, NEW j \in Invocation,
                      IdsAreFresh, pc[i] = "seed", pc'[i] = "intake",
                      j \in code'[dir[i]] \ code[dir[i]]
               PROVE  pc[j] = "finished"
    OBVIOUS
  <2> USE DEF ChainInv, AskInv
  <2>1. ASSUME NEW k \in Invocation, k # i, NEW where, pc' = [pc EXCEPT ![k] = where] PROVE FALSE
    BY <2>1
  <2>2. ASSUME NEW k \in Invocation, NEW r \in RunId, Seed(k, r) PROVE pc[j] = "finished"
    <3>1. k = i
      BY <2>1, <2>2 DEF Seed
    <3>2. j \in code[r]
      BY <2>2, <3>1 DEF Seed
    <3> QED
      BY <2>2, <3>1, <3>2, SeedIsOneRun
  <2>3. ASSUME NEW k \in Invocation, NEW r \in RunId, NEW key \in Scenario, NEW flag \in BOOLEAN,
               Start(k, r, key, flag)
        PROVE  FALSE
    BY <2>3 DEF Start
  <2>4. ASSUME NEW k \in Invocation, NEW a \in Analysis, Analyze(k, a) PROVE FALSE
    BY <2>4 DEF Analyze
  <2>5. ASSUME NEW k \in Invocation,
               NoSeed(k) \/ SeedFails(k) \/ AnalysisFails(k) \/ Write(k) \/ Finish(k) \/ Die(k)
        PROVE  FALSE
    BY <2>5 DEF NoSeed, SeedFails, AnalysisFails, Write, Finish, Die
  <2> QED
    BY <2>2, <2>3, <2>4, <2>5 DEF Next
<1> QED
  BY <1>1, ChainAlways, PTL DEF Spec, SeedIsFinal
=============================================================================
