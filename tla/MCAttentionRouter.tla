-------------------------- MODULE MCAttentionRouter --------------------------
(***************************************************************************)
(* Three NPCs for one focused and one reactive place.  The scores of NPCs  *)
(* 1 and 2 lie less than, exactly and more than a bonus apart; NPC 3 is    *)
(* the one who may be in conversation.  Times lie less than, exactly and   *)
(* more than the focused hold apart.  They may go back, but from 2 on they *)
(* belong to the next sequence.                                            *)
(***************************************************************************)
EXTENDS AttentionRouter

CONSTANTS Scores, Times

MCNpcs == 1..3

\* A candidate's score, or -1 for an NPC that is none.
Snapshot(seen, time, target) ==
  [sequence |-> time \div 2, timestamp |-> time,
   npcs |-> {n \in MCNpcs : seen[n] >= 0},
   score |-> [n \in MCNpcs |-> IF seen[n] >= 0 THEN seen[n] ELSE 0],
   distance |-> [n \in MCNpcs |-> IF n = 2 THEN 1 ELSE 2],
   target |-> target]

MCSnapshots ==
  {Snapshot(<<first, second, third>>, time, target) :
     first \in Scores \cup {-1}, second \in Scores \cup {-1}, third \in {-1, 2},
     time \in Times, target \in {NoTarget, 3}}
=============================================================================
