---------------------------- MODULE MCComputations ----------------------------
(***************************************************************************)
(* The three modules that share no state with the rest, checked side by    *)
(* side: a behaviour is one of AttentionSignals, of ContextBuilder or of   *)
(* Telemetry, while the variables of the other two stay where they began.  *)
(***************************************************************************)
EXTENDS AttentionSignals, ContextBuilder, Telemetry

CONSTANTS theft, brawl, S1, S2, N1, N2, N3

VARIABLE topic   \* the module whose behaviour this is

-----------------------------------------------------------------------------
(* Three NPCs and two events.  The snapshots: a crowd in a line of gazes   *)
(* with a tie, the same with the player talking, one in which the NPC      *)
(* talked to is far, and one that has lost an NPC.                         *)

Hidden  == [inside |-> FALSE, sight |-> TRUE, centre |-> 0]
Blocked == [inside |-> TRUE, sight |-> FALSE, centre |-> 0]
Seen(c) == [inside |-> TRUE, sight |-> TRUE, centre |-> c]

Gaze(m, n) == [source |-> m, target |-> n, kind |-> "gaze", active |-> TRUE]

Sight(at, view, edges, active) ==
  [at |-> at, view |-> view, edges |-> edges, active |-> active]

NothingSeen == Sight([n \in 1..3 |-> 99], [n \in 1..3 |-> Hidden], << >>, 0)

Crowd == Sight(<<7, 21, 35>>, <<Seen(20), Hidden, Hidden>>,
               <<Gaze(1, 2), Gaze(2, 3), Gaze(3, 1), [Gaze(1, 3) EXCEPT !.active = FALSE]>>, 0)
Tied  == Sight(<<7, 7, 35>>, <<Hidden, Hidden, Seen(150)>>,
               <<Gaze(2, 3), Gaze(1, 3), Gaze(3, 3), [Gaze(3, 2) EXCEPT !.kind = "other"]>>, 0)
Gone  == Sight(<<99, 21, 7>>, <<Blocked, Seen(0), Seen(60)>>,
               <<Gaze(1, 3), Gaze(2, 3), Gaze(3, 2)>>, 0)

Holders(a, t, r) == [actor |-> a, target |-> t, responder |-> r]

SomeEvents == {theft, brawl}
SomeSights == {Crowd, Tied, Gone, [Crowd EXCEPT !.active = 1], [Crowd EXCEPT !.active = 2],
               [Tied EXCEPT !.active = 3], [Gone EXCEPT !.active = 2]}
SomeCasts  == {[at |-> 7, holders |-> Holders({}, {}, {})],
               [at |-> 21, holders |-> Holders({1}, {2}, {3})]}
ThreeNpcs  == 1..3

-----------------------------------------------------------------------------
(* A generous tier with history, a tight one without and one that the      *)
(* contract fills.                                                         *)

SomeLimits == {[input |-> 12, history |-> 2], [input |-> 6, history |-> 1],
               [input |-> 4, history |-> 0], [input |-> 2, history |-> 0]}
SomeScenes == {[profile |-> 4, event |-> e, world |-> w] : e \in {0, 5}, w \in {0, 3}}

-----------------------------------------------------------------------------
(* Two routings of three candidates and two calls: the calls of one event  *)
(* average to a half token, outnumber its candidates, end before and after *)
(* the routing they came from, and a session reroutes at one sequence.     *)

Prices   == ("focused" :> 4) @@ ("reactive" :> 1)
SomeEnds == {[tokens |-> 1, latency |-> 2], [tokens |-> 2, latency |-> 1]}

-----------------------------------------------------------------------------

Symmetry == Permutations({theft, brawl}) \cup Permutations({N1, N2, N3}) \cup Permutations({S1, S2})

MCInit ==
  /\ topic \in {"signals", "prompts", "benchmark"}
  /\ Init /\ PromptInit /\ RunInit
  /\ topic = "prompts" \/ limit.input = 12

MCNext ==
  \/ topic = "signals" /\ Next
     /\ UNCHANGED <<topic, promptVars, runVars>>
  \/ topic = "prompts" /\ PromptNext
     /\ UNCHANGED <<topic, vars, runVars>>
  \/ topic = "benchmark" /\ RunNext
     /\ UNCHANGED <<topic, vars, promptVars>>

MCSpec == MCInit /\ [][MCNext]_<<topic, vars, promptVars, runVars>>
=============================================================================
