------------------------------ MODULE MCPipeline ------------------------------
(* A greenfield, a brownfield and an ambiguous scenario, and confidences       *)
(* below, at and above the threshold and the range.                            *)
EXTENDS Pipeline, TLC

MCAnswers  == [greenfield |-> {}, brownfield |-> {}, ambiguous |-> {"what"}]
MCSeedFrom == [greenfield |-> None, brownfield |-> "greenfield", ambiguous |-> None]
MCRaw      == {-1, 6, 11}

Names == Permutations(RunId) \cup Permutations(Invocation)
=============================================================================
