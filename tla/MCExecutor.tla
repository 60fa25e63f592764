----------------------------- MODULE MCExecutor -----------------------------
(***************************************************************************)
(* Instances of the executor: the planner's plans, one file per writing    *)
(* stage, one retry.                                                       *)
(***************************************************************************)
EXTENDS Executor

AllPlans == {Build(b, TRUE, TRUE) : b \in BOOLEAN} \cup {Build(FALSE, TRUE, FALSE)}
Brownfield == {Build(TRUE, TRUE, TRUE)}

MCPath == {"app", "tests", "readme"}
MCName == {"app", "tests", "readme", "./readme"}
MCCanon == [f \in MCName |-> IF f = "./readme" THEN "readme" ELSE f]

\* The files each stage writes when no two stages of a batch share one.
OwnFiles ==
  [n \in StageIds |->
     CASE n \in {IMPLEMENT, REFACTOR} -> {"app"}
       [] n = AUTHOR_TESTS -> {"tests"}
       [] n = DOCUMENT -> {"readme"}
       [] OTHER -> {}]

\* Implementation and documentation both write the README.
SharedFiles ==
  [n \in StageIds |->
     CASE n = IMPLEMENT -> {"app", "readme"}
       [] n = DOCUMENT -> {"readme"}
       [] OTHER -> {}]

\* Bounds: RetriesBound retries for writing stages, none for the rest.
RetriesBound == 1
OneRetry == [n \in StageIds |-> IF n \in RollbackStages THEN RetriesBound ELSE 0]
=============================================================================
