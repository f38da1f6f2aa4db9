-------------------------- MODULE MCDurablePipeline --------------------------
(***************************************************************************)
(* Two triggers of one NPC and one of another.                             *)
(***************************************************************************)
EXTENDS DurablePipeline

CONSTANTS a, b

MCKeys  == 1..3
MCNpcOf == [k \in MCKeys |-> IF k = 3 THEN b ELSE a]

\* For liveness, two triggers of the same NPC.
MCTwoKeys  == 1..2
MCTwoNpcOf == [k \in MCTwoKeys |-> a]
=============================================================================
