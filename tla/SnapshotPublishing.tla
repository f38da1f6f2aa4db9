-------------------------- MODULE SnapshotPublishing --------------------------
(***************************************************************************)
(* What the mod observes on its way to the backend's world state: the tick *)
(* of SnapshotScheduler and CandidateTracker, the coalescing of            *)
(* HttpPublisher, and the translation of prototype_wire.py into            *)
(* WorldStateStore.                                                        *)
(*                                                                         *)
(* A snapshot is numbered in the order of building; its content is the     *)
(* candidate NPCs.  HttpPublisher runs on the server thread and on the     *)
(* threads of its pool, a step for each access of an atomic field.  A      *)
(* request that failed for the mod (a timeout) may still be under way.     *)
(***************************************************************************)
EXTENDS Naturals

CONSTANTS
  Npcs, NoNpc,
  Workers,        \* the threads of the pool
  ServerThread,
  MaxBuilt,       \* bound of the model: snapshots built
  MaxTurns,       \* bound of the model: turns spoken
  MaxForgets      \* bound of the model: cleanups and restarts of the backend

ASSUME PublishingAssumption ==
  /\ NoNpc \notin Npcs /\ ServerThread \notin Workers
  /\ MaxBuilt \in Nat /\ MaxTurns \in Nat /\ MaxForgets \in Nat

VARIABLES
  candidates, \* CandidateTracker: the NPCs tracked
  built,      \* snapshots built
  spoken,     \* turns spoken
  pending,    \* pendingSnapshot
  inFlight,   \* snapshotInFlight
  at,         \* thread -> where it is in drainSnapshots and sendNextSnapshot
  unanswered, \* snapshots whose send has not completed
  counter,    \* sequenceCounter
  net,        \* requests under way
  failed,     \* history: a send of a snapshot has failed for the mod
  mirror,     \* prototype_wire: what the session's messages have told
  retained,   \* WorldStateStore: the latest snapshot
  forgets

threads == <<pending, inFlight, at, unanswered, failed>>
backend == <<mirror, retained, forgets>>
game    == <<candidates, built>>
vars    == <<game, spoken, threads, counter, net, backend>>

Threads   == Workers \cup {ServerThread}
Distances == {"near", "band", "far", "gone"}
Places    == {"away", "drain", "take", "release", "recheck"}

\* A snapshot as built, and as sent.
NoSnapshot == [number |-> 0, npcs |-> {}]
Snapshots  == [number: 0..MaxBuilt, npcs: SUBSET Npcs]
Message(kind, sequence, snapshot, npc) ==
  [kind |-> kind, sequence |-> sequence, snapshot |-> snapshot, npc |-> npc]
Messages == [kind: {"snapshot", "turn"}, sequence: Nat, snapshot: Snapshots,
             npc: Npcs \cup {NoNpc}]
Mirrors  == [snapshot: Snapshots, talking: Npcs \cup {NoNpc}]
Worlds   == [sequence: Nat, snapshot: Snapshots, talking: Npcs \cup {NoNpc}]
NoMirror == [snapshot |-> NoSnapshot, talking |-> NoNpc]
NoWorld  == [sequence |-> 0, snapshot |-> NoSnapshot, talking |-> NoNpc]

Init ==
  /\ candidates = {} /\ built = 0 /\ spoken = 0
  /\ pending = NoSnapshot /\ inFlight = FALSE
  /\ at = [p \in Threads |-> "away"] /\ unanswered = {}
  /\ counter = 0 /\ net = {} /\ failed = FALSE
  /\ mirror = NoMirror /\ retained = NoWorld
  /\ forgets = 0

-----------------------------------------------------------------------------
(* The tick. *)

\* CandidateTracker.update: in at ENTRY_RADIUS, out beyond
\* EXIT_RADIUS or dead, on every tick.
Tracked(now) ==
  {n \in Npcs : now[n] = "near" \/ (n \in candidates /\ now[n] = "band")}

Track(now) ==
  /\ candidates' = Tracked(now)
  /\ UNCHANGED <<built, spoken, threads, counter, net, backend>>

\* The world moves, and the interval's tick builds a snapshot and sets it as
\* the pending one; the thread goes on to drainSnapshots.
Tick(now) ==
  /\ at[ServerThread] = "away" /\ built < MaxBuilt
  /\ candidates' = Tracked(now)
  /\ built' = built + 1
  /\ pending' = [number |-> built + 1, npcs |-> Tracked(now)]
  /\ at' = [at EXCEPT ![ServerThread] = "drain"]
  /\ UNCHANGED <<spoken, inFlight, unanswered, counter, net, failed, backend>>

\* A turn is sent at once, by the server thread.
Talk(n) ==
  /\ at[ServerThread] = "away" /\ spoken < MaxTurns
  /\ spoken' = spoken + 1
  /\ counter' = counter + 1
  /\ net' = net \cup {Message("turn", counter + 1, NoSnapshot, n)}
  /\ UNCHANGED <<game, threads, backend>>

-----------------------------------------------------------------------------
(* HttpPublisher's snapshots. *)

Go(p, place) == at' = [at EXCEPT ![p] = place]

\* Mutant of Drain: the flag is set without asking what it was.
DrainAlways(p) ==
  /\ at[p] = "drain"
  /\ inFlight' = TRUE /\ Go(p, "take")
  /\ UNCHANGED <<game, spoken, pending, unanswered, counter, net, failed, backend>>

\* drainSnapshots: the compare-and-set of the flag.
Drain(p) ==
  /\ at[p] = "drain"
  /\ inFlight' = TRUE /\ Go(p, IF inFlight THEN "away" ELSE "take")
  /\ UNCHANGED <<game, spoken, pending, unanswered, counter, net, failed, backend>>

\* sendNextSnapshot: what is pending is taken and sent, under the next number.
Take(p) ==
  /\ at[p] = "take"
  /\ pending' = NoSnapshot
  /\ \/ /\ pending = NoSnapshot /\ Go(p, "release")
        /\ UNCHANGED <<unanswered, counter, net>>
     \/ /\ pending # NoSnapshot /\ Go(p, "away")
        /\ unanswered' = unanswered \cup {pending.number}
        /\ counter' = counter + 1
        /\ net' = net \cup {Message("snapshot", counter + 1, pending, NoNpc)}
  /\ UNCHANGED <<game, spoken, inFlight, failed, backend>>

Release(p) ==
  /\ at[p] = "release"
  /\ inFlight' = FALSE /\ Go(p, "recheck")
  /\ UNCHANGED <<game, spoken, pending, unanswered, counter, net, failed, backend>>

\* Mutant of Recheck: what came in between waits for the next snapshot.
RecheckNothing(p) ==
  /\ at[p] = "recheck" /\ Go(p, "away")
  /\ UNCHANGED <<game, spoken, pending, inFlight, unanswered, counter, net, failed, backend>>

Recheck(p) ==
  /\ at[p] = "recheck"
  /\ Go(p, IF pending = NoSnapshot THEN "away" ELSE "drain")
  /\ UNCHANGED <<game, spoken, pending, inFlight, unanswered, counter, net, failed, backend>>

\* The response, or the failure, starts sendNextSnapshot on a pool thread.  A
\* response comes after the arrival; one that is there at once is the business
\* of the thread that sent.
Complete(p, k) ==
  /\ k \in unanswered /\ at[p] = "away"
  /\ unanswered' = unanswered \ {k}
  /\ Go(p, "take")
  /\ failed' = (failed \/ \E m \in net : m.snapshot.number = k)
  /\ UNCHANGED <<game, spoken, pending, inFlight, counter, net, backend>>

-----------------------------------------------------------------------------
(* The backend. *)

\* The conversation last announced, while its NPC is a candidate.
ActiveConversation(npcs) == IF mirror.talking \in npcs THEN mirror.talking ELSE NoNpc

\* Mutant of IsNewer: every snapshot replaces the one retained.
IsAny(m) == TRUE

\* WorldStateStore.apply_if_newer.
IsNewer(m) == m.sequence > retained.sequence

\* The wire keeps what a snapshot says whether or not the store retains it.
SnapshotArrives(m) ==
  /\ m.kind = "snapshot"
  /\ mirror' = [mirror EXCEPT !.snapshot = m.snapshot]
  /\ retained' = IF IsNewer(m)
                 THEN [sequence |-> m.sequence, snapshot |-> m.snapshot,
                       talking |-> ActiveConversation(m.snapshot.npcs)]
                 ELSE retained

TurnArrives(m) ==
  /\ m.kind = "turn"
  /\ mirror' = [mirror EXCEPT !.talking = m.npc]
  /\ UNCHANGED retained

Arrive(m) ==
  /\ SnapshotArrives(m) \/ TurnArrives(m)
  /\ net' = net \ {m}
  /\ UNCHANGED <<game, spoken, threads, counter, forgets>>

\* A request that never arrives fails for the mod too.
Lose(m) ==
  /\ net' = net \ {m}
  /\ failed' = (failed \/ m.kind = "snapshot")
  /\ UNCHANGED <<game, spoken, pending, inFlight, at, unanswered, counter, backend>>

\* The session's cleanup forgets the world and leaves the wire's mirror; a
\* restart forgets both.
Forget ==
  /\ forgets < MaxForgets /\ forgets' = forgets + 1
  /\ retained' = NoWorld /\ mirror' \in {mirror, NoMirror}
  /\ UNCHANGED <<game, spoken, threads, counter, net>>

Continue(p) == Drain(p) \/ Take(p) \/ Release(p) \/ Recheck(p)

Next ==
  \/ \E now \in [Npcs -> Distances] : Track(now) \/ Tick(now)
  \/ \E n \in Npcs : Talk(n)
  \/ \E p \in Threads : Continue(p)
  \/ \E p \in Threads, k \in unanswered : Complete(p, k)
  \/ \E m \in net : Arrive(m) \/ Lose(m)
  \/ Forget

Spec == Init /\ [][Next]_vars

-----------------------------------------------------------------------------
TypeOK ==
  /\ candidates \subseteq Npcs
  /\ built \in 0..MaxBuilt /\ spoken \in 0..MaxTurns
  /\ pending \in Snapshots /\ inFlight \in BOOLEAN /\ failed \in BOOLEAN
  /\ at \in [Threads -> Places] /\ unanswered \subseteq 1..MaxBuilt
  /\ counter \in Nat /\ net \subseteq Messages
  /\ mirror \in Mirrors /\ retained \in Worlds
  /\ forgets \in 0..MaxForgets

\* Whoever owns the flag: a thread inside sendNextSnapshot, or a send that has
\* not completed.
Owners == {p \in Threads : at[p] \in {"take", "release"}}

\* The flag has one owner while it is set and none while it is not, so that no
\* two snapshots are under way for the mod at once, whichever threads meet in
\* drainSnapshots (HttpPublisher: "Retain only the newest unsent snapshot").
OneAtATime ==
  \/ ~inFlight /\ Owners = {} /\ unanswered = {}
  \/ inFlight /\ unanswered = {} /\ \E p \in Threads : Owners = {p}
  \/ inFlight /\ Owners = {} /\ \E k \in 1..MaxBuilt : unanswered = {k}

\* A pending snapshot is never stranded: a thread is on its way to look for it,
\* or the flag's owner will (HttpPublisher, "Close the small race").
NothingStranded ==
  pending # NoSnapshot =>
    inFlight \/ \E p \in Threads : at[p] \in {"drain", "recheck"}

\* The world state never goes back to an older observation of the mod, whatever
\* arrives late (WorldStateStore.apply_if_newer).
WorldGoesForward ==
  [][retained' # NoWorld => retained'.snapshot.number >= retained.snapshot.number]_vars

\* While no send has failed, the wire places an event by a snapshot no older
\* than the world state its witnesses are taken from (prototype_wire.py,
\* _event_position).
PlacedByTheWorld ==
  ~failed => mirror.snapshot.number >= retained.snapshot.number
=============================================================================
