-------------------------------- MODULE MCA2A --------------------------------
(***************************************************************************)
(* Two concurrent calls of one stage, over either transport.               *)
(***************************************************************************)
EXTENDS A2A

MCRaw == {[status |-> "completed", artifacts |-> 0], [status |-> "completed", artifacts |-> 2],
          [status |-> "input_required", artifacts |-> 0], [status |-> "odd", artifacts |-> 0]}
=============================================================================
