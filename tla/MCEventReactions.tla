-------------------------- MODULE MCEventReactions --------------------------
(***************************************************************************)
(* One event of two revisions, the second in two forms: one goes on and    *)
(* the other, delivered under an identity of its own and stamped earlier,  *)
(* ends the event.  Any two deliveries are handled at once.                *)
(***************************************************************************)
EXTENDS EventReactions

Message(id, revision, terminal, time) ==
  [id |-> id, revision |-> revision, terminal |-> terminal, time |-> time]

MCMessages ==
  { Message(1, 1, FALSE, 1), Message(2, 2, FALSE, 2), Message(3, 2, TRUE, 1) }
=============================================================================
