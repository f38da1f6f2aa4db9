---------------------------- MODULE RouterHandoff ----------------------------
(***************************************************************************)
(* backend/orchestration/router_handoff.py with what it stands between:    *)
(* the world states of WorldStateStore, the enrichments (RoutingSnapshots  *)
(* .build) that await the store before they reach it, and the sequence the *)
(* persistent Router remembers.                                            *)
(*                                                                         *)
(* A key is a session and a world.  Sequences are 1..MaxSequence and 0 is  *)
(* the absence of a dict entry.  Routing itself never awaits, and the      *)
(* worker only where it waits and in the listener: while it is "draining"  *)
(* nothing else runs.  A caller of route_now awaits the same listener in   *)
(* its own task, with the handoff idle or not.                             *)
(* Tiers are not modelled: an outcome is its sequence and its status.      *)
(***************************************************************************)
EXTENDS Naturals, FiniteSets

CONSTANTS
  Sessions, Worlds,
  MaxSequence,   \* bound of the model: the greatest world sequence
  MaxResets,     \* bound of the model: session cleanups in one behaviour
  MaxBuilding    \* bound of the model: enrichments and route_now calls at once

ASSUME HandoffAssumption ==
  MaxSequence \in Nat /\ MaxResets \in Nat /\ MaxBuilding \in Nat

Key       == Sessions \X Worlds
Sequences == 1..MaxSequence

VARIABLES
  world,       \* key -> sequence of the world state applied last
  building,    \* enrichments under way: [key, sequence, path]
  pending,     \* key -> sequence waiting to be routed
  routed,      \* key -> greatest sequence handed to the Router
  outcome,     \* key -> status of the latest outcome, or "none"
  routerLast,  \* key -> sequence the Router recorded last
  submitted,   \* the event the worker waits on
  idle,        \* the event wait_until_idle waits on
  worker,      \* "waiting", "draining" or "notifying"
  telling,     \* how many calls of route_now await the listener
  resets,      \* session -> cleanups it has had
  lost         \* history: refreshes the store failed, as <<key, sequence>>

routing == <<pending, routed, outcome, routerLast>>
handoffVars ==
  <<world, building, routing, submitted, idle, worker, telling, resets, lost>>

Paths    == {"refresh", "turn"}
Statuses == {"routed", "failed", "stale"}

HandoffInit ==
  /\ world = [k \in Key |-> 0]
  /\ building = {}
  /\ pending = [k \in Key |-> 0] /\ routed = [k \in Key |-> 0]
  /\ outcome = [k \in Key |-> "none"] /\ routerLast = [k \in Key |-> 0]
  /\ submitted = FALSE /\ idle = TRUE /\ worker = "waiting"
  /\ telling = 0
  /\ resets = [s \in Sessions |-> 0]
  /\ lost = {}

Waiting == {k \in Key : pending[k] # 0}
Free    == worker # "draining"
CanBuild == Free /\ Cardinality(building) + telling < MaxBuilding

-----------------------------------------------------------------------------
(* Intake: a snapshot that is newer is applied and refreshes routing; a    *)
(* turn or an event routes the world state it found.                       *)

Build(k, s, path) == [key |-> k, sequence |-> s, path |-> path]

ApplySnapshot(k, s) ==
  /\ CanBuild
  /\ s > world[k]
  /\ world' = [world EXCEPT ![k] = s]
  /\ building' = building \cup {Build(k, s, "refresh")}
  /\ UNCHANGED <<routing, submitted, idle, worker, telling, resets, lost>>

Trigger(k) ==
  /\ CanBuild
  /\ world[k] # 0
  /\ building' = building \cup {Build(k, world[k], "turn")}
  /\ UNCHANGED <<world, routing, submitted, idle, worker, telling, resets, lost>>

\* The durable events could not be read: nothing honest can be routed.
LoseBuild(b) ==
  /\ Free
  /\ b \in building
  /\ building' = building \ {b}
  /\ lost' = IF b.path = "refresh" THEN lost \cup {<<b.key, b.sequence>>} ELSE lost
  /\ UNCHANGED <<world, routing, submitted, idle, worker, telling, resets>>

\* Mutant of Submit: what waits is kept, however old.
SubmitFirst(b) ==
  /\ Free
  /\ b \in building /\ b.path = "refresh"
  /\ building' = building \ {b}
  /\ pending' = [pending EXCEPT ![b.key] = IF @ = 0 THEN b.sequence ELSE @]
  /\ idle' = FALSE
  /\ submitted' = TRUE
  /\ UNCHANGED <<world, routed, outcome, routerLast, worker, telling, resets, lost>>

Submit(b) ==
  /\ Free
  /\ b \in building /\ b.path = "refresh"
  /\ building' = building \ {b}
  /\ pending' = [pending EXCEPT ![b.key] = IF @ < b.sequence THEN b.sequence ELSE @]
  /\ idle' = FALSE
  /\ submitted' = TRUE
  /\ UNCHANGED <<world, routed, outcome, routerLast, worker, telling, resets, lost>>

-----------------------------------------------------------------------------
(* Routing one snapshot, whichever path brought it.                        *)

Behind(k, s) == routed[k] # 0 /\ s < routed[k]

\* What the Router makes of it: it refuses what is behind its own sequence, and
\* otherwise answers, raises, or answers something that is rejected.
Answer(k, s) ==
  \/ /\ s < routerLast[k]
     /\ outcome' = [outcome EXCEPT ![k] = "stale"]
     /\ UNCHANGED routerLast
  \/ /\ s >= routerLast[k]
     /\ \/ /\ outcome' = [outcome EXCEPT ![k] = "routed"]
           /\ routerLast' = [routerLast EXCEPT ![k] = s]
        \/ /\ outcome' = [outcome EXCEPT ![k] = "failed"]
           /\ routerLast' \in {routerLast, [routerLast EXCEPT ![k] = s]}

\* `waiting` is what is pending once the snapshot itself has been taken out.
RouteSnapshot(k, s, waiting) ==
  /\ ~Behind(k, s)
  /\ routed' = [routed EXCEPT ![k] = s]
  /\ Answer(k, s)
  /\ pending' = [waiting EXCEPT ![k] = IF @ <= s THEN 0 ELSE @]

\* route_now up to its await: an overtaken caller reads the newer outcome instead,
\* any other goes on to tell the listener.
RouteNow(b) ==
  /\ Free
  /\ b \in building /\ b.path = "turn"
  /\ building' = building \ {b}
  /\ \/ Behind(b.key, b.sequence) /\ UNCHANGED <<routing, telling>>
     \/ RouteSnapshot(b.key, b.sequence, pending) /\ telling' = telling + 1
  /\ UNCHANGED <<world, submitted, idle, worker, resets, lost>>

\* The listener a route_now awaited returns or fails.
Told ==
  /\ Free
  /\ telling > 0
  /\ telling' = telling - 1
  /\ UNCHANGED <<world, building, routing, submitted, idle, worker, resets, lost>>

-----------------------------------------------------------------------------
(* The worker.                                                             *)

Wake ==
  /\ worker = "waiting" /\ submitted
  /\ submitted' = FALSE
  /\ worker' = "draining"
  /\ UNCHANGED <<world, building, routing, idle, telling, resets, lost>>

RoutePending(k) ==
  /\ worker = "draining"
  /\ k \in Waiting
  /\ LET taken == [pending EXCEPT ![k] = 0] IN
       \/ /\ Behind(k, pending[k])
          /\ pending' = taken
          /\ UNCHANGED <<routed, outcome, routerLast, worker>>
       \/ /\ RouteSnapshot(k, pending[k], taken)
          /\ worker' = "notifying"
  /\ UNCHANGED <<world, building, submitted, idle, telling, resets, lost>>

\* Mutant of Notified: a failing listener ends the worker.
NotifiedUnlessFailing ==
  /\ worker = "notifying"
  /\ \A k \in Key : outcome[k] # "failed"
  /\ worker' = "draining"
  /\ UNCHANGED <<world, building, routing, submitted, idle, telling, resets, lost>>

\* The listener returns or fails; either way the worker goes on.
Notified ==
  /\ worker = "notifying"
  /\ worker' = "draining"
  /\ UNCHANGED <<world, building, routing, submitted, idle, telling, resets, lost>>

GoIdle ==
  /\ worker = "draining" /\ Waiting = {}
  /\ idle' = TRUE
  /\ worker' = "waiting"
  /\ UNCHANGED <<world, building, routing, submitted, telling, resets, lost>>

-----------------------------------------------------------------------------

\* Mutant of ResetHandoff: the Router is not told of the cleanup.
ResetKeepingRouter(session) ==
  LET Cleared(f, none) == [k \in Key |-> IF k[1] = session THEN none ELSE f[k]] IN
  /\ Free
  /\ resets[session] < MaxResets
  /\ resets' = [resets EXCEPT ![session] = @ + 1]
  /\ world' = Cleared(world, 0)
  /\ pending' = Cleared(pending, 0)
  /\ routed' = Cleared(routed, 0)
  /\ outcome' = Cleared(outcome, "none")
  /\ UNCHANGED <<building, routerLast, submitted, idle, worker, telling, lost>>

\* The last, unbroken part of SessionCleanup.clean: the world state is forgotten
\* and the handoff and the Router drop what they hold of the session.  An
\* enrichment under way is not among it.
ResetHandoff(session) ==
  LET Cleared(f, none) == [k \in Key |-> IF k[1] = session THEN none ELSE f[k]] IN
  /\ Free
  /\ resets[session] < MaxResets
  /\ resets' = [resets EXCEPT ![session] = @ + 1]
  /\ world' = Cleared(world, 0)
  /\ pending' = Cleared(pending, 0)
  /\ routed' = Cleared(routed, 0)
  /\ outcome' = Cleared(outcome, "none")
  /\ routerLast' = Cleared(routerLast, 0)
  /\ UNCHANGED <<building, submitted, idle, worker, telling, lost>>

FinishBuild(b) == LoseBuild(b) \/ Submit(b) \/ RouteNow(b)

Work == Wake \/ (\E k \in Key : RoutePending(k)) \/ Notified \/ GoIdle

HandoffNext ==
  \/ \E k \in Key, s \in Sequences : ApplySnapshot(k, s)
  \/ \E k \in Key : Trigger(k)
  \/ \E b \in building : FinishBuild(b)
  \/ Told
  \/ Work
  \/ \E session \in Sessions : ResetHandoff(session)

Builds == [key: Key, sequence: Sequences, path: Paths]

\* The worker runs whenever it can, the listener always returns, and every read
\* of the store ends.
Fairness ==
  /\ WF_handoffVars(Work) /\ WF_handoffVars(Told)
  /\ \A b \in Builds : WF_handoffVars(FinishBuild(b))

HandoffSpec == HandoffInit /\ [][HandoffNext]_handoffVars /\ Fairness

-----------------------------------------------------------------------------
HandoffTypeOK ==
  /\ world \in [Key -> 0..MaxSequence]
  /\ building \subseteq Builds
  /\ pending \in [Key -> 0..MaxSequence]
  /\ routed \in [Key -> 0..MaxSequence]
  /\ outcome \in [Key -> Statuses \cup {"none"}]
  /\ routerLast \in [Key -> 0..MaxSequence]
  /\ submitted \in BOOLEAN /\ idle \in BOOLEAN
  /\ worker \in {"waiting", "draining", "notifying"}
  /\ telling \in Nat
  /\ resets \in [Sessions -> 0..MaxResets]
  /\ lost \subseteq Key \X Sequences

\* Whatever overtakes what, the worker, route_now and a cleanup never hand the
\* Router a sequence behind one it answered.
RouterNeverBehind == \A k \in Key : outcome[k] # "stale"

\* An applied world state is routed, or overtaken, or its session is cleaned, or
\* the store refused its enrichment: coalescing never loses the newest.
AppliedIsRouted ==
  \A k \in Key, s \in Sequences :
    world[k] = s ~> \/ routed[k] >= s \/ world[k] # s \/ <<k, s>> \in lost

\* Whoever waits for routing to be idle is let go, and only when no snapshot
\* waits and the worker is not in its listener.  A route_now may still be telling
\* the listener: the code neither clears nor waits for anything there.
IdleReturns == []<>idle /\ [](idle => Waiting = {} /\ worker # "notifying")

=============================================================================
