------------------------- MODULE MCGenerationQueue -------------------------
(***************************************************************************)
(* One session, three NPCs.  The first is offered two turns (the second    *)
(* one after it rose to Focused), a reaction and an expiry; the second a   *)
(* Focused turn and a promotion; the third a turn and a reaction.  One     *)
(* Focused, two Reactive and two running works in all: every limit is met, *)
(* and the total is less than the sum of the tiers' limits.                *)
(***************************************************************************)
EXTENDS GenerationQueue

CONSTANTS a, b, c, s1

Work(n, tier, trigger, key) ==
  [session |-> s1, npc |-> n, tier |-> tier, trigger |-> trigger, key |-> key]

MCKeys  == 1..8
MCWorks == { Work(a, "reactive", "turn", 1), Work(a, "focused", "turn", 2),
             Work(a, "reactive", "event", 3), Work(a, "focused", "expiry", 4),
             Work(b, "focused", "turn", 5), Work(b, "focused", "promotion", 6),
             Work(c, "reactive", "turn", 7), Work(c, "reactive", "event", 8) }
=============================================================================
