----------------------------- MODULE MCRunRecord -----------------------------
(***************************************************************************)
(* The planner's brownfield plan, where the survey may call for a seam and *)
(* changes need a sign-off.                                                *)
(***************************************************************************)
EXTENDS RunRecord

CONSTANTS c1, c2, c3  \* model values

\* Two implementations that differ behind the cut, and one that differs in what
\* is shown; a design too long to be shown whole; and what is shown as it is.
MCContent == {c1, c2, c3, "long", "text"}

MCOutputs == [n \in StageIds |-> CASE n = IMPLEMENT -> {c1, c2, c3}
                                   [] n = DESIGN    -> {"long"}
                                   [] OTHER         -> {"text"}]

MCArtifactOf == [c \in MCContent |-> c]

MCTextOf == [c \in MCContent |-> CASE c \in {c1, c2} -> "t1" [] c = c3 -> "t2"
                                 [] c = "long" -> "cut" [] OTHER -> c]

\* The skills called as their nodes, but for those that must write files.
MCSelfNamed == {DESIGN, REVIEW}

MCPlans == {Build(TRUE, TRUE, FALSE)}

\* Bound: one retry of the stage that is repaired.
MCMaxRetries == [n \in StageIds |-> IF n = IMPLEMENT THEN 1 ELSE 0]

\* Which of the two is the first makes no difference.
Symmetry == Permutations({c1, c2})
=============================================================================
