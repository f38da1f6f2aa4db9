----------------------- MODULE MCGenerationScheduler -----------------------
(***************************************************************************)
(* One session, two NPCs: a player turn to each of them, a reaction of the *)
(* second and an expiry of the first, which answers the player's turn      *)
(* again.                                                                  *)
(***************************************************************************)
EXTENDS GenerationScheduler

CONSTANTS a, b, s1

Work(n, tier, trigger, key) ==
  [session |-> s1, npc |-> n, tier |-> tier, trigger |-> trigger, key |-> key]

MCKeys    == 1..4
Expiry    == Work(a, "focused", "expiry", 3)
MCWorks   == { Work(a, "focused", "turn", 1), Work(b, "focused", "turn", 2),
               Expiry, Work(b, "reactive", "event", 4) }
MCAnswering == {w \in MCWorks : w.trigger = "turn"} \cup {Expiry}
=============================================================================
