---------------------------- MODULE TriggerAnswer ----------------------------
(***************************************************************************)
(* What the orchestrator promises of one trigger, the work a claim key     *)
(* names, whatever restarts in between: at most one provider call, at most *)
(* one command, and a command that ends published or expired stays there.  *)
(***************************************************************************)
EXTENDS Naturals

CONSTANT Keys

VARIABLES
  calls,   \* key -> provider calls made for it
  answer   \* key -> how far its answer has come

answerVars == <<calls, answer>>

Answers == {"open", "claimed", "pending", "published", "expired"}

Init ==
  /\ calls = [k \in Keys |-> 0]
  /\ answer = [k \in Keys |-> "open"]

Advance(k, from, to) ==
  /\ answer[k] = from
  /\ answer' = [answer EXCEPT ![k] = to]
  /\ UNCHANGED calls

Claim(k) == Advance(k, "open", "claimed")

\* The one call a claim buys is made before any answer is committed.
Call(k) ==
  /\ answer[k] = "claimed" /\ calls[k] = 0
  /\ calls' = [calls EXCEPT ![k] = 1]
  /\ UNCHANGED answer

Commit(k)  == Advance(k, "claimed", "pending")
Publish(k) == Advance(k, "pending", "published")
Expire(k)  == Advance(k, "pending", "expired")

Next == \E k \in Keys : Claim(k) \/ Call(k) \/ Commit(k) \/ Publish(k) \/ Expire(k)

Spec == Init /\ [][Next]_answerVars
=============================================================================
