--------------------------- MODULE AttentionRouter ---------------------------
(***************************************************************************)
(* backend/router: how Router.route gives the candidates of one snapshot   *)
(* their tiers under hard capacities, and what RouterState remembers for   *)
(* the hysteresis of the next one.  One session and world: the code keeps  *)
(* an entry of the same kind for each.                                     *)
(*                                                                         *)
(* A snapshot is taken with its final scores, after direct scoring and one *)
(* hop of propagation; without edges every final score is a direct one, so *)
(* any scores can occur.  Scores are hundredths, which code that adds and  *)
(* compares cannot tell from fractions.  Of an NPC's id only its place in  *)
(* the order of ids matters: an NPC is a number.                           *)
(***************************************************************************)
EXTENDS Integers, FiniteSets

CONSTANTS
  Npcs, NoTarget,
  Snapshots,      \* the snapshots that may be routed
  NoSnapshot,
  FocusedCapacity, ReactiveCapacity,
  MinimumScore,
  FocusedHold, ReactiveHold,
  FocusedBonus, ReactiveBonus

SnapshotRecords ==
  [sequence: Nat, timestamp: Nat, npcs: SUBSET Npcs, score: [Npcs -> Nat],
   distance: [Npcs -> Nat], target: Npcs \cup {NoTarget}]

ASSUME RouterAssumption ==
  /\ IsFiniteSet(Npcs) /\ Npcs \subseteq Nat /\ NoTarget \notin Npcs
  /\ Snapshots \subseteq SnapshotRecords /\ NoSnapshot \notin Snapshots
  /\ FocusedCapacity \in Nat /\ ReactiveCapacity \in Nat /\ MinimumScore \in Nat
  /\ FocusedHold \in Nat /\ ReactiveHold \in Nat
  /\ FocusedBonus \in Nat /\ ReactiveBonus \in Nat

VARIABLES
  lastSequence,  \* the sequence routed last, or -1
  tier,          \* NPC -> its tier in the last snapshot, or "unknown"
  enteredAt,     \* NPC -> tier_entered_at_ms, where the tier is known
  snapshot,      \* history: the snapshot routed last, or NoSnapshot
  since          \* history: NPC -> time of the first of the snapshots it has been
                 \* in its tier for

vars == <<lastSequence, tier, enteredAt, snapshot, since>>

Tiers == {"focused", "reactive", "ambient"}

Init ==
  /\ lastSequence = -1
  /\ tier = [n \in Npcs |-> "unknown"]
  /\ enteredAt = [n \in Npcs |-> 0]
  /\ snapshot = NoSnapshot
  /\ since = [n \in Npcs |-> 0]

-----------------------------------------------------------------------------
(* Ranking with hysteresis.                                                *)

Elapsed(s, n) == IF s.timestamp > enteredAt[n] THEN s.timestamp - enteredAt[n] ELSE 0

Held(s, n) ==
  \/ tier[n] = "focused" /\ Elapsed(s, n) < FocusedHold
  \/ tier[n] = "reactive" /\ Elapsed(s, n) < ReactiveHold

\* Mutant of StickyBonus: the hold of a focused NPC is not looked at.
StickyBonusReactive(s, n) ==
  IF Held(s, n) /\ tier[n] = "reactive" THEN ReactiveBonus ELSE 0

\* The advantage a tier gives until its hold is over.
StickyBonus(s, n) ==
  IF ~Held(s, n) THEN 0
  ELSE IF tier[n] = "focused" THEN FocusedBonus ELSE ReactiveBonus

Effective(s, n) == s.score[n] + StickyBonus(s, n)

PreviousPriority(n) ==
  CASE tier[n] = "focused"  -> 2
    [] tier[n] = "reactive" -> 1
    [] tier[n] = "ambient"  -> 0
    [] OTHER -> -1

\* The order of _rank_key: the conversation's target, the effective score, the
\* previous tier, the distance, the id.
NearerOrFirst(s, m, n) ==
  \/ s.distance[m] < s.distance[n]
  \/ s.distance[m] = s.distance[n] /\ m < n

StrongerOrNearer(s, m, n) ==
  \/ Effective(s, m) > Effective(s, n)
  \/ /\ Effective(s, m) = Effective(s, n)
     /\ \/ PreviousPriority(m) > PreviousPriority(n)
        \/ PreviousPriority(m) = PreviousPriority(n) /\ NearerOrFirst(s, m, n)

RanksBefore(s, m, n) ==
  \/ m = s.target /\ n # s.target
  \/ (m = s.target <=> n = s.target) /\ StrongerOrNearer(s, m, n)

-----------------------------------------------------------------------------
(* Selection within the capacities.                                        *)

Eligible(s) == {n \in s.npcs : Effective(s, n) > MinimumScore \/ n = s.target}

Ahead(s, pool, n) == {m \in pool : RanksBefore(s, m, n)}

\* The first `room` candidates of a pool.
Leading(s, pool, room) == {n \in pool : Cardinality(Ahead(s, pool, n)) < room}

\* The conversation's target takes its place before the ranking is looked at.
Reserved(s) == IF FocusedCapacity > 0 THEN {s.target} \cap s.npcs ELSE {}

\* Mutant of Focused: the reserved place comes on top of the capacity.
FocusedOnTop(s) ==
  Reserved(s) \cup Leading(s, Eligible(s) \ Reserved(s), FocusedCapacity)

Focused(s) ==
  Reserved(s) \cup
  Leading(s, Eligible(s) \ Reserved(s), FocusedCapacity - Cardinality(Reserved(s)))

Reactive(s, focused) == Leading(s, Eligible(s) \ focused, ReactiveCapacity)

\* Every candidate gets a tier, and nothing is remembered of the others.
Assigned(s) ==
  LET focused  == Focused(s)
      reactive == Reactive(s, focused)
  IN [n \in Npcs |-> CASE n \notin s.npcs -> "unknown"
                       [] n \in focused   -> "focused"
                       [] n \in reactive  -> "reactive"
                       [] OTHER -> "ambient"]

-----------------------------------------------------------------------------

\* Mutant of Entered: every snapshot starts the hold anew.
EnteredAnew(s, n) ==
  s.timestamp

\* An unchanged tier keeps the time it was entered.
Entered(s, n) ==
  IF tier'[n] = tier[n] THEN enteredAt[n] ELSE s.timestamp

\* A snapshot behind the last one is refused and changes nothing.
Route(s) ==
  /\ s.sequence >= lastSequence
  /\ lastSequence' = s.sequence
  /\ tier' = Assigned(s)
  /\ enteredAt' = [n \in Npcs |-> IF n \in s.npcs THEN Entered(s, n) ELSE 0]
  /\ snapshot' = s
  /\ since' = [n \in Npcs |-> IF n \notin s.npcs THEN 0
                              ELSE IF tier'[n] = tier[n] THEN since[n]
                              ELSE s.timestamp]

ResetSession ==
  /\ lastSequence' = -1
  /\ tier' = [n \in Npcs |-> "unknown"]
  /\ enteredAt' = [n \in Npcs |-> 0]
  /\ snapshot' = NoSnapshot
  /\ since' = [n \in Npcs |-> 0]

Next ==
  \/ \E s \in Snapshots : Route(s)
  \/ ResetSession

Spec == Init /\ [][Next]_vars

-----------------------------------------------------------------------------
InTier(t)  == {n \in Npcs : tier[n] = t}
Candidates == IF snapshot = NoSnapshot THEN {} ELSE snapshot.npcs

TypeOK ==
  /\ lastSequence \in Nat \cup {-1}
  /\ tier \in [Npcs -> Tiers \cup {"unknown"}]
  /\ enteredAt \in [Npcs -> Nat] /\ since \in [Npcs -> Nat]
  /\ snapshot \in Snapshots \cup {NoSnapshot}
  /\ \A n \in Npcs : tier[n] = "unknown" <=> n \notin Candidates

\* The capacities are hard: neither hysteresis nor the place reserved for the
\* conversation's target exceeds them, and within them the target is focused.
CapacityHeld ==
  /\ Cardinality(InTier("focused")) <= FocusedCapacity
  /\ Cardinality(InTier("reactive")) <= ReactiveCapacity
  /\ \A n \in Candidates :
       n = snapshot.target /\ FocusedCapacity > 0 => tier[n] = "focused"

\* Hysteresis delays, and never decides: a higher scorer stands below an NPC only
\* while that NPC's own stay in its tier is younger than the hold, however many
\* snapshots renewed it, and never when it leads by more than the bonus.
Hold(t) == IF t = "focused" THEN FocusedHold ELSE ReactiveHold
Below(m, n) ==
  \/ tier[n] = "focused" /\ tier[m] \in {"reactive", "ambient"}
  \/ tier[n] = "reactive" /\ tier[m] = "ambient"

OutscoredOnlyInHold ==
  \A m, n \in Candidates :
    /\ Below(m, n) /\ n # snapshot.target
    /\ snapshot.score[m] > snapshot.score[n]
    => /\ snapshot.timestamp = since[n] \/ snapshot.timestamp - since[n] < Hold(tier[n])
       /\ \/ snapshot.score[m] <= snapshot.score[n] + FocusedBonus
          \/ snapshot.score[m] <= snapshot.score[n] + ReactiveBonus

\* NPC n has been in tier t for less than its hold when the next snapshot is taken.
InHold(n, t) ==
  /\ tier[n] = t
  /\ Hold(t) > 0 /\ snapshot'.timestamp - since[n] < Hold(t)

NewlyFocused == {n \in Npcs : tier[n] # "focused" /\ tier'[n] = "focused"}

\* What a challenger brings against a focused NPC: its score, and its own bonus only
\* while it is inside a reactive hold itself.
Challenge(m) ==
  snapshot'.score[m] + (IF InHold(m, "reactive") THEN ReactiveBonus ELSE 0)

\* Demotion is slow: a focused candidate inside its hold makes room only for the
\* conversation's target or for challengers that exceed its score and its bonus, the
\* whole of it unless they hold a bonus themselves; and it never makes room for
\* nobody, unless even with the bonus its score is not above the minimum.
DemotedOnlyByStronger ==
  [][ \A n \in Npcs :
        tier'[n] \in {"reactive", "ambient"} /\ InHold(n, "focused")
        => /\ \A m \in NewlyFocused \ {snapshot'.target} :
                Challenge(m) > snapshot'.score[n] + FocusedBonus
           /\ \/ NewlyFocused # {}
              \/ snapshot'.score[n] + FocusedBonus <= MinimumScore ]_vars
=============================================================================
