------------------------------ MODULE LiveView ------------------------------
(***************************************************************************)
(* The board a run is watched on (keel/ui/live.py): a row per node of the  *)
(* current plan and running totals, changed by the executor's hooks.  How  *)
(* it is painted is left out.                                              *)
(***************************************************************************)
EXTENDS Naturals

\* A board before any plan: no rows, and the totals at zero.
NewBoard == [rows |-> [n \in {} |-> "submitted"], version |-> 0, retries |-> 0, cost |-> 0]

\* A plausible slip: a new plan is a new board.
SetPlanAnew(b, p) ==
  [b EXCEPT !.rows = [n \in p.nodes |-> "submitted"], !.version = p.version]

\* set_plan: rows that survive a revision keep their state.
SetPlan(b, p) ==
  [b EXCEPT !.rows = [n \in p.nodes |-> IF n \in DOMAIN b.rows THEN b.rows[n] ELSE "submitted"],
            !.version = p.version]

\* A hook for a node the board does not know changes no row (_unknown).
Show(b, n, s) ==
  [b EXCEPT !.rows = [m \in DOMAIN b.rows |-> IF m = n THEN s ELSE b.rows[m]]]

OnNodeStart(b, n) == Show(b, n, "working")

\* The row says that a human is waited for, and still says so when the human
\* has agreed and the stage is at work.
OnApprovalRequest(b, n) == Show(b, n, "input_required")

OnRetry(b, n) == [Show(b, n, "working") EXCEPT !.retries = @ + 1]

\* A plausible slip: only what a success cost is added.
OnNodeEndSucceeded(b, n, r) ==
  [Show(b, n, r.state) EXCEPT !.cost = @ + (IF r.state = "completed" THEN r.cost ELSE 0)]

\* The totals move when a node ends, however it ends.
OnNodeEnd(b, n, r) == [Show(b, n, r.state) EXCEPT !.cost = @ + r.cost]

\* _counts: the rows that the closing line calls completed.
CountCompleted(b) == {n \in DOMAIN b.rows : b.rows[n] = "completed"}
=============================================================================
