------------------------------ MODULE MCReplay ------------------------------
(* Instances of Replay for TLC. *)
EXTENDS Replay

CONSTANTS k1, k2, k3

\* Two prompts of one skill, so that one can drift into the other, and one of
\* another skill, which no fallback may serve for them.
MCSkill == [k \in {k1, k2, k3} |-> IF k = k3 THEN "document" ELSE "implement"]
=============================================================================
