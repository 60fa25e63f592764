------------------------------- MODULE MCGate -------------------------------
(***************************************************************************)
(* A change and its verification under every broker; the script knows the  *)
(* change and not the seam a revision may add.                             *)
(***************************************************************************)
EXTENDS Gate

MCScript == [n \in {"implement"} |-> TRUE]
=============================================================================
