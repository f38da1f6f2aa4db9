------------------------ MODULE MCConversationManager ------------------------
(***************************************************************************)
(* Two conversations, two turns to one and one to the other, three method  *)
(* calls at once and a crash.  The calls' names are interchangeable.       *)
(***************************************************************************)
EXTENDS ConversationManager, TLC

CONSTANTS v1, v2, t1, t2, t3, c1, c2, c3

CallSymmetry == Permutations(Calls)

MCConversationOf == [t \in {t1, t2, t3} |-> IF t = t3 THEN v2 ELSE v1]
=============================================================================
