------------------------ MODULE MCSnapshotPublishing ------------------------
(***************************************************************************)
(* One NPC, two pool threads (interchangeable), three snapshots, a turn    *)
(* and a cleanup or restart.                                               *)
(***************************************************************************)
EXTENDS SnapshotPublishing, TLC

CONSTANTS n1, w1, w2, tick

WorkerSymmetry == Permutations(Workers)
=============================================================================
