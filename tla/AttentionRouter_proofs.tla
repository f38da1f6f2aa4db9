----------------------- MODULE AttentionRouter_proofs -----------------------
(***************************************************************************)
(* The Router's rules for every set of NPCs, every set of snapshots, every *)
(* capacity, hold and bonus.                                               *)
(*                                                                         *)
(* The argument: RanksBefore is a strict total order, so the first k of a  *)
(* pool are at most k (the number of NPCs ahead tells them apart), exactly *)
(* k when somebody is left behind, and nobody left behind has a higher     *)
(* effective score than one of them.  The                                  *)
(* properties are then about single routings, from an invariant that says  *)
(* only that the types hold and that the time an NPC entered its tier is   *)
(* the time it has been in it since.                                       *)
(*                                                                         *)
(* Then what stands before the Router: the handoff that gives it snapshots *)
(* and that its worker, its callers and a cleanup share.  The Router never *)
(* runs ahead of what was routed, which is what makes it inductive.        *)
(***************************************************************************)
EXTENDS AttentionRouter, RouterHandoff, FiniteSetTheorems, NaturalsInduction, TLAPS

\* What a snapshot holds.
LEMMA SnapshotFields ==
  ASSUME NEW s \in Snapshots
  PROVE  /\ s.sequence \in Nat /\ s.timestamp \in Nat
         /\ s.npcs \subseteq Npcs /\ s.target \in Npcs \cup {NoTarget}
         /\ \A n \in Npcs : s.score[n] \in Nat /\ s.distance[n] \in Nat
         /\ s # NoSnapshot
<1>1. s \in SnapshotRecords /\ s # NoSnapshot
  BY RouterAssumption
<1>2. QED
  BY <1>1 DEF SnapshotRecords

\* The numbers a ranking compares, and the three bonuses there are.
LEMMA RankFields ==
  ASSUME TypeOK, NEW s \in Snapshots, NEW n \in Npcs
  PROVE  /\ StickyBonus(s, n) \in Nat /\ Effective(s, n) \in Nat
         /\ PreviousPriority(n) \in Int
         /\ StickyBonus(s, n) \in {0, FocusedBonus, ReactiveBonus}
         /\ Effective(s, n) = s.score[n] + StickyBonus(s, n)
<1>1. StickyBonus(s, n) \in {0, FocusedBonus, ReactiveBonus}
  BY DEF StickyBonus
<1>2. StickyBonus(s, n) \in Nat
  BY <1>1, RouterAssumption
<1>3. Effective(s, n) = s.score[n] + StickyBonus(s, n) /\ Effective(s, n) \in Nat
  BY <1>2, SnapshotFields DEF Effective
<1>4. PreviousPriority(n) \in Int
  BY DEF PreviousPriority, TypeOK, Tiers
<1>5. QED
  BY <1>1, <1>2, <1>3, <1>4

\* The key of _rank_key orders the candidates strictly and totally.
LEMMA RankOrder ==
  ASSUME TypeOK, NEW s \in Snapshots, NEW m \in Npcs, NEW n \in Npcs
  PROVE  /\ ~RanksBefore(s, n, n)
         /\ m # n => RanksBefore(s, m, n) \/ RanksBefore(s, n, m)
         /\ \A p \in Npcs :
              RanksBefore(s, p, m) /\ RanksBefore(s, m, n) => RanksBefore(s, p, n)
<1>1. \A q \in Npcs : /\ q \in Nat /\ s.distance[q] \in Nat
                      /\ Effective(s, q) \in Nat /\ PreviousPriority(q) \in Int
  BY RankFields, SnapshotFields, RouterAssumption
<1>2. ~RanksBefore(s, n, n)
  BY <1>1 DEF RanksBefore, StrongerOrNearer, NearerOrFirst
<1>3. m # n => RanksBefore(s, m, n) \/ RanksBefore(s, n, m)
  BY <1>1 DEF RanksBefore, StrongerOrNearer, NearerOrFirst
<1>4. ASSUME NEW p \in Npcs, RanksBefore(s, p, m), RanksBefore(s, m, n)
      PROVE  RanksBefore(s, p, n)
  BY <1>1, <1>4 DEF RanksBefore, StrongerOrNearer, NearerOrFirst
<1>5. QED
  BY <1>2, <1>3, <1>4

\* Those ranked ahead of an NPC can be counted.
LEMMA AheadFinite ==
  ASSUME NEW s \in Snapshots, NEW pool \in SUBSET Npcs, NEW n
  PROVE  /\ Ahead(s, pool, n) \subseteq pool
         /\ IsFiniteSet(Ahead(s, pool, n)) /\ Cardinality(Ahead(s, pool, n)) \in Nat
<1>1. Ahead(s, pool, n) \in SUBSET Npcs /\ Ahead(s, pool, n) \subseteq pool
  BY DEF Ahead
<1>2. IsFiniteSet(Ahead(s, pool, n))
  BY <1>1, RouterAssumption, FS_Subset
<1>3. QED
  BY <1>1, <1>2, FS_CardinalityType

\* Who ranks higher has fewer ahead.
LEMMA FewerAhead ==
  ASSUME TypeOK, NEW s \in Snapshots, NEW pool \in SUBSET Npcs,
         NEW m \in pool, NEW n \in pool, RanksBefore(s, m, n)
  PROVE  Cardinality(Ahead(s, pool, m)) < Cardinality(Ahead(s, pool, n))
<1> DEFINE Higher == Ahead(s, pool, m)
           Lower  == Ahead(s, pool, n)
<1>1. IsFiniteSet(Higher) /\ IsFiniteSet(Lower)
      /\ Cardinality(Higher) \in Nat /\ Cardinality(Lower) \in Nat
  BY AheadFinite
<1>2. m \notin Higher
  BY RankOrder DEF Ahead
<1>3. Higher \cup {m} \in SUBSET Lower
  BY RankOrder DEF Ahead
<1>4. Cardinality(Higher \cup {m}) = Cardinality(Higher) + 1
  BY <1>1, <1>2, FS_AddElement
<1>5. Cardinality(Higher \cup {m}) <= Cardinality(Lower)
  BY <1>1, <1>3, FS_Subset
<1>6. QED
  BY <1>1, <1>4, <1>5

\* The first `room` of a pool are no more than that.
LEMMA LeadingFits ==
  ASSUME TypeOK, NEW s \in Snapshots, NEW pool \in SUBSET Npcs, NEW room \in Nat
  PROVE  /\ Leading(s, pool, room) \subseteq pool
         /\ IsFiniteSet(Leading(s, pool, room))
         /\ Cardinality(Leading(s, pool, room)) \in Nat
         /\ Cardinality(Leading(s, pool, room)) <= room
<1> DEFINE L == Leading(s, pool, room)
           place == [n \in L |-> Cardinality(Ahead(s, pool, n)) + 1]
<1>1. L \subseteq pool
  BY DEF Leading
<1>2. place \in [L -> 1..room]
  <2>1. ASSUME NEW n \in L PROVE Cardinality(Ahead(s, pool, n)) + 1 \in 1..room
    <3>1. Cardinality(Ahead(s, pool, n)) \in Nat
      BY AheadFinite
    <3>2. Cardinality(Ahead(s, pool, n)) < room
      BY DEF Leading
    <3>3. QED
      BY <3>1, <3>2
  <2>2. QED
    BY <2>1
<1>3. ASSUME NEW m \in L, NEW n \in L, m # n PROVE place[m] # place[n]
  <2>1. m \in pool /\ n \in pool /\ m \in Npcs /\ n \in Npcs
    BY <1>1
  <2>2. RanksBefore(s, m, n) \/ RanksBefore(s, n, m)
    BY <1>3, <2>1, RankOrder
  <2>3. Cardinality(Ahead(s, pool, m)) \in Nat /\ Cardinality(Ahead(s, pool, n)) \in Nat
    BY AheadFinite
  <2>4. Cardinality(Ahead(s, pool, m)) # Cardinality(Ahead(s, pool, n))
    BY <2>1, <2>2, <2>3, FewerAhead
  <2>5. QED
    BY <2>3, <2>4
<1>4. place \in Injection(L, 1..room)
  BY <1>2, <1>3, Zenon DEF Injection, IsInjective
<1>5. IsFiniteSet(1..room) /\ Cardinality(1..room) = room
  BY FS_Interval
<1>6. IsFiniteSet(L) /\ Cardinality(L) <= room
  BY <1>4, <1>5, FS_Injection
<1>7. QED
  BY <1>1, <1>6, FS_CardinalityType

\* Who is taken ranks before who of the pool is not.
LEMMA LeadersRankFirst ==
  ASSUME TypeOK, NEW s \in Snapshots, NEW pool \in SUBSET Npcs, NEW room \in Nat,
         NEW m \in Leading(s, pool, room), NEW n \in pool, n \notin Leading(s, pool, room)
  PROVE  RanksBefore(s, m, n)
<1>1. m \in pool /\ m \in Npcs /\ n \in Npcs /\ m # n
  BY DEF Leading
<1>2. ~RanksBefore(s, n, m)
  <2> SUFFICES ASSUME RanksBefore(s, n, m) PROVE FALSE
    OBVIOUS
  <2>1. Cardinality(Ahead(s, pool, n)) < Cardinality(Ahead(s, pool, m))
    BY <1>1, FewerAhead
  <2>2. Cardinality(Ahead(s, pool, n)) \in Nat /\ Cardinality(Ahead(s, pool, m)) \in Nat
    BY AheadFinite
  <2>3. Cardinality(Ahead(s, pool, m)) < room /\ ~(Cardinality(Ahead(s, pool, n)) < room)
    BY DEF Leading
  <2> QED BY <2>1, <2>2, <2>3
<1> QED BY <1>1, <1>2, RankOrder

\* There is a least number in every nonempty set of them.
LEMMA LeastNumber ==
  ASSUME NEW T \in SUBSET Nat, T # {}
  PROVE  \E r \in T : \A k \in T : r <= k
<1>1. PICK r \in T : \A k \in T : ~(<<k, r>> \in OpToRel(<, Nat))
  BY NatLessThanWellFounded, WFMin
<1>2. \A k \in T : ~(k < r)
  BY <1>1 DEF OpToRel
<1> QED BY <1>2

\* Somebody of the pool is left out only when the room is used up: of those left
\* out, the first has only taken ones ahead of it.
LEMMA LeadingFills ==
  ASSUME TypeOK, NEW s \in Snapshots, NEW pool \in SUBSET Npcs, NEW room \in Nat,
         NEW n \in pool, n \notin Leading(s, pool, room)
  PROVE  Cardinality(Leading(s, pool, room)) >= room
<1> DEFINE L == Leading(s, pool, room)
           places == {Cardinality(Ahead(s, pool, x)) : x \in pool \ L}
<1>1. places \in SUBSET Nat /\ places # {}
  BY AheadFinite
<1>2. PICK r \in places : \A k \in places : r <= k
  <2> HIDE DEF places
  <2> QED BY <1>1, LeastNumber
<1>3. PICK x \in pool \ L : r = Cardinality(Ahead(s, pool, x))
  OBVIOUS
<1>4. r \in Nat /\ ~(r < room)
  BY <1>1, <1>3 DEF Leading
<1>5. Ahead(s, pool, x) \subseteq L
  <2> SUFFICES ASSUME NEW y \in Ahead(s, pool, x), y \notin L PROVE FALSE
    OBVIOUS
  <2>1. y \in pool /\ RanksBefore(s, y, x)
    BY DEF Ahead
  <2>2. Cardinality(Ahead(s, pool, y)) < r
    BY <1>3, <2>1, FewerAhead
  <2>3. Cardinality(Ahead(s, pool, y)) \in places
    BY <2>1
  <2>4. Cardinality(Ahead(s, pool, y)) \in Nat
    BY AheadFinite
  <2> QED BY <1>2, <1>4, <2>2, <2>3, <2>4
<1>6. IsFiniteSet(L) /\ Cardinality(L) \in Nat
  BY LeadingFits
<1>7. r <= Cardinality(L)
  BY <1>3, <1>5, <1>6, FS_Subset
<1> QED BY <1>4, <1>6, <1>7

\* Nobody left behind is effectively stronger than one who was taken.
LEMMA LeftBehind ==
  ASSUME TypeOK, NEW s \in Snapshots, NEW taken, NEW room \in Nat,
         NEW m \in s.npcs, NEW n \in Leading(s, Eligible(s) \ taken, room),
         m \notin taken, m \notin Leading(s, Eligible(s) \ taken, room),
         n # s.target
  PROVE  Effective(s, m) <= Effective(s, n)
<1> DEFINE pool == Eligible(s) \ taken
<1>1. pool \in SUBSET Npcs /\ m \in Npcs /\ n \in pool /\ n \in Npcs /\ m # n
  BY SnapshotFields DEF Eligible, Leading
<1>2. /\ Effective(s, m) \in Nat /\ Effective(s, n) \in Nat /\ MinimumScore \in Nat
      /\ Effective(s, n) > MinimumScore
  BY <1>1, RankFields, RouterAssumption DEF Eligible
<1>3. CASE RanksBefore(s, m, n)
  <2>1. m = s.target \/ Effective(s, m) >= Effective(s, n)
    BY <1>1, <1>2, <1>3 DEF RanksBefore, StrongerOrNearer
  <2>2. m \in pool
    BY <1>2, <2>1 DEF Eligible
  <2>3. Cardinality(Ahead(s, pool, m)) < Cardinality(Ahead(s, pool, n))
    BY <1>1, <1>3, <2>2, FewerAhead
  <2>4. Cardinality(Ahead(s, pool, n)) < room
    BY DEF Leading
  <2>5. Cardinality(Ahead(s, pool, m)) \in Nat /\ Cardinality(Ahead(s, pool, n)) \in Nat
    BY <1>1, AheadFinite
  <2>6. m \in Leading(s, pool, room)
    BY <2>2, <2>3, <2>4, <2>5 DEF Leading
  <2>7. QED
    BY <2>6
<1>4. CASE RanksBefore(s, n, m)
  BY <1>2, <1>4 DEF RanksBefore, StrongerOrNearer
<1>5. QED
  BY <1>1, <1>3, <1>4, RankOrder

-----------------------------------------------------------------------------
(* One routing.                                                            *)

\* The selections, within their capacities.
LEMMA Selected ==
  ASSUME TypeOK, NEW s \in Snapshots
  PROVE  /\ Focused(s) \subseteq s.npcs /\ IsFiniteSet(Focused(s))
         /\ Cardinality(Focused(s)) \in Nat
         /\ Cardinality(Focused(s)) <= FocusedCapacity
         /\ FocusedCapacity - Cardinality(Reserved(s)) \in Nat
         /\ Cardinality(Reserved(s)) \in Nat
         /\ Cardinality(Focused(s)) = Cardinality(Reserved(s)) +
              Cardinality(Leading(s, Eligible(s) \ Reserved(s),
                                  FocusedCapacity - Cardinality(Reserved(s))))
         /\ Reactive(s, Focused(s)) \subseteq s.npcs \ Focused(s)
         /\ IsFiniteSet(Reactive(s, Focused(s)))
         /\ Cardinality(Reactive(s, Focused(s))) \in Nat
         /\ Cardinality(Reactive(s, Focused(s))) <= ReactiveCapacity
<1> DEFINE kept == Reserved(s)
           pool == Eligible(s) \ kept
           room == FocusedCapacity - Cardinality(kept)
           rest == Leading(s, pool, room)
<1>1. s.npcs \subseteq Npcs /\ pool \in SUBSET s.npcs
  BY SnapshotFields DEF Eligible
<1>2. kept \subseteq s.npcs /\ IsFiniteSet(kept) /\ Cardinality(kept) \in Nat
      /\ Cardinality(kept) <= FocusedCapacity
  <2>1. FocusedCapacity \in Nat
    BY RouterAssumption
  <2>2. IsFiniteSet({s.target}) /\ Cardinality({s.target}) = 1
    BY FS_Singleton
  <2>3. CASE FocusedCapacity > 0
    <3>1. kept \in SUBSET {s.target} /\ kept \subseteq s.npcs
      BY <2>3 DEF Reserved
    <3>2. IsFiniteSet(kept) /\ Cardinality(kept) <= 1
      BY <2>2, <3>1, FS_Subset
    <3>3. QED
      BY <2>1, <2>3, <3>1, <3>2, FS_CardinalityType
  <2>4. CASE ~(FocusedCapacity > 0)
    <3>1. kept = {}
      BY <2>4 DEF Reserved
    <3>2. QED
      BY <2>1, <3>1, FS_EmptySet
  <2>5. QED
    BY <2>3, <2>4
<1>3. room \in Nat
  BY <1>2, RouterAssumption
<1>4. rest \subseteq pool /\ IsFiniteSet(rest)
      /\ Cardinality(rest) \in Nat /\ Cardinality(rest) <= room
  BY <1>1, <1>3, LeadingFits
<1>5. Focused(s) = kept \cup rest
  BY DEF Focused
<1>6. kept \cap rest = {}
  BY <1>4
<1>7. /\ IsFiniteSet(Focused(s))
      /\ Cardinality(Focused(s)) =
           Cardinality(kept) + Cardinality(rest) - Cardinality(kept \cap rest)
  BY <1>2, <1>4, <1>5, FS_Union
<1>8. Cardinality(kept \cap rest) = 0
  BY <1>6, FS_EmptySet
<1>9. /\ Cardinality(Focused(s)) \in Nat /\ Cardinality(Focused(s)) <= FocusedCapacity
      /\ Cardinality(Focused(s)) = Cardinality(kept) + Cardinality(rest)
  BY <1>2, <1>4, <1>7, <1>8, RouterAssumption
<1>10. Focused(s) \subseteq s.npcs
  BY <1>1, <1>2, <1>4, <1>5
<1>11. Eligible(s) \ Focused(s) \in SUBSET Npcs
       /\ Eligible(s) \ Focused(s) \subseteq s.npcs \ Focused(s)
  BY <1>1 DEF Eligible
<1>12. /\ Reactive(s, Focused(s)) \subseteq s.npcs \ Focused(s)
       /\ IsFiniteSet(Reactive(s, Focused(s)))
       /\ Cardinality(Reactive(s, Focused(s))) \in Nat
       /\ Cardinality(Reactive(s, Focused(s))) <= ReactiveCapacity
  BY <1>11, LeadingFits, RouterAssumption DEF Reactive
<1>13. QED
  BY <1>2, <1>3, <1>7, <1>9, <1>10, <1>12

\* The tiers a routing leaves.
LEMMA RoutedTiers ==
  ASSUME TypeOK, NEW s \in Snapshots, Route(s)
  PROVE  /\ tier' \in [Npcs -> Tiers \cup {"unknown"}]
         /\ \A n \in Npcs : /\ tier'[n] = "unknown" <=> n \notin s.npcs
                            /\ tier'[n] = "focused" <=> n \in Focused(s)
                            /\ tier'[n] = "reactive" <=> n \in Reactive(s, Focused(s))
<1>1. /\ Focused(s) \subseteq s.npcs
      /\ Reactive(s, Focused(s)) \subseteq s.npcs \ Focused(s)
  BY Selected
<1>2. tier' = Assigned(s)
  BY DEF Route
<1>3. ASSUME NEW n \in Npcs
      PROVE  Assigned(s)[n] =
               IF n \notin s.npcs THEN "unknown"
               ELSE IF n \in Focused(s) THEN "focused"
               ELSE IF n \in Reactive(s, Focused(s)) THEN "reactive" ELSE "ambient"
  BY <1>1 DEF Assigned
<1>4. Assigned(s) \in [Npcs -> Tiers \cup {"unknown"}]
  <2> DEFINE F == [n \in Npcs |-> Assigned(s)[n]]
  <2>1. Assigned(s) = F
    BY DEF Assigned
  <2>2. \A n \in Npcs : Assigned(s)[n] \in Tiers \cup {"unknown"}
    BY <1>3 DEF Tiers
  <2>3. F \in [Npcs -> Tiers \cup {"unknown"}]
    BY <2>2
  <2>4. QED
    BY <2>1, <2>3
<1>5. QED
  BY <1>1, <1>2, <1>3, <1>4

\* The invariant behind the theorems.
RouterInv ==
  TypeOK /\ since = enteredAt

\* Before the first snapshot nobody has a tier, and no time is stamped.
LEMMA InitInv == Init => RouterInv
BY RouterAssumption DEF Init, RouterInv, TypeOK, Candidates, Tiers

\* A routing keeps the clock it stamps in step with the tiers it stamps.
LEMMA RouteInv ==
  ASSUME RouterInv, NEW s \in Snapshots, Route(s)
  PROVE  RouterInv'
<1>1. TypeOK /\ since = enteredAt
  BY DEF RouterInv
<1>2. /\ tier' \in [Npcs -> Tiers \cup {"unknown"}]
      /\ \A n \in Npcs : tier'[n] = "unknown" <=> n \notin s.npcs
  BY <1>1, RoutedTiers
<1>3. snapshot' = s /\ s # NoSnapshot /\ s.timestamp \in Nat /\ s.sequence \in Nat
  BY SnapshotFields DEF Route
<1>4. lastSequence' \in Nat /\ snapshot' \in Snapshots
  BY <1>3 DEF Route
<1>5. enteredAt' \in [Npcs -> Nat]
  BY <1>1, <1>3 DEF Route, Entered, TypeOK
<1>6. since' = enteredAt'
  BY <1>1 DEF Route, Entered
<1>7. Candidates' = s.npcs
  BY <1>3 DEF Candidates
<1>8. QED
  BY <1>2, <1>4, <1>5, <1>6, <1>7 DEF RouterInv, TypeOK

\* Routing and clearing keep the invariant.
LEMMA NextInv ==
  ASSUME RouterInv, [Next]_vars
  PROVE  RouterInv'
<1>1. ASSUME NEW s \in Snapshots, Route(s) PROVE RouterInv'
  BY <1>1, RouteInv
<1>2. CASE ResetSession
  <2>1. /\ lastSequence' = -1 /\ tier' = [n \in Npcs |-> "unknown"]
        /\ enteredAt' = [n \in Npcs |-> 0] /\ since' = [n \in Npcs |-> 0]
        /\ snapshot' = NoSnapshot
    BY <1>2 DEF ResetSession
  <2>2. QED
    BY <2>1 DEF RouterInv, TypeOK, Candidates, Tiers
<1>3. CASE UNCHANGED vars
  BY <1>3 DEF vars, RouterInv, TypeOK, Candidates
<1>4. QED
  BY <1>1, <1>2, <1>3 DEF Next

-----------------------------------------------------------------------------
\* The Router's state keeps its type: a tier is remembered of exactly the
\* candidates of the last snapshot (RouterState.record).
THEOREM RouterTypeOK == Spec => []TypeOK
<1>1. RouterInv => TypeOK
  BY DEF RouterInv
<1>2. QED
  BY <1>1, InitInv, NextInv, PTL DEF Spec

-----------------------------------------------------------------------------
(* Capacities.                                                             *)

\* A routing seats no more than each tier has room for.
LEMMA RouteCapacity ==
  ASSUME TypeOK, NEW s \in Snapshots, Route(s)
  PROVE  CapacityHeld'
<1>1. /\ Focused(s) \subseteq Npcs
      /\ Reactive(s, Focused(s)) \subseteq Npcs
      /\ Cardinality(Focused(s)) <= FocusedCapacity
      /\ Cardinality(Reactive(s, Focused(s))) <= ReactiveCapacity
  BY Selected, SnapshotFields
<1>2. InTier("focused")' = Focused(s) /\ InTier("reactive")' = Reactive(s, Focused(s))
  BY <1>1, RoutedTiers DEF InTier
<1>3. snapshot' = s /\ Candidates' = s.npcs
  BY SnapshotFields DEF Route, Candidates
<1>4. ASSUME NEW n \in s.npcs, n = s.target, FocusedCapacity > 0
      PROVE  tier'[n] = "focused"
  <2>1. n \in Focused(s)
    BY <1>4 DEF Focused, Reserved
  <2>2. QED
    BY <1>1, <2>1, RoutedTiers
<1>5. QED
  BY <1>1, <1>2, <1>3, <1>4 DEF CapacityHeld

\* Neither hysteresis nor the place reserved for the conversation's target
\* (assign_tiers) exceeds a capacity, and the target is focused.
THEOREM RouterCapacity == Spec => []CapacityHeld
<1>1. ASSUME CapacityHeld, RouterInv, [Next]_vars PROVE CapacityHeld'
  <2>1. ASSUME NEW s \in Snapshots, Route(s) PROVE CapacityHeld'
    BY <1>1, <2>1, RouteCapacity DEF RouterInv
  <2>2. CASE ResetSession
    <3>1. tier' = [n \in Npcs |-> "unknown"] /\ Candidates' = {}
      BY <2>2 DEF ResetSession, Candidates
    <3>2. InTier("focused")' = {} /\ InTier("reactive")' = {}
      BY <3>1 DEF InTier
    <3>3. QED
      BY <3>1, <3>2, FS_EmptySet, RouterAssumption DEF CapacityHeld
  <2>3. CASE UNCHANGED vars
    BY <1>1, <2>3 DEF vars, CapacityHeld, InTier, Candidates
  <2>4. QED
    BY <1>1, <2>1, <2>2, <2>3 DEF Next
<1>2. Init => CapacityHeld
  <2>1. SUFFICES ASSUME Init PROVE CapacityHeld
    OBVIOUS
  <2>2. InTier("focused") = {} /\ InTier("reactive") = {} /\ Candidates = {}
    BY <2>1 DEF Init, InTier, Candidates
  <2>3. QED
    BY <2>2, FS_EmptySet, RouterAssumption DEF CapacityHeld
<1>3. QED
  BY <1>1, <1>2, InitInv, NextInv, PTL DEF Spec

-----------------------------------------------------------------------------
(* Hysteresis.                                                             *)

\* A higher scorer left below an NPC: by the advantage of that NPC's hold.
LEMMA RouteOutscored ==
  ASSUME TypeOK, NEW s \in Snapshots, Route(s),
         NEW m \in s.npcs, NEW n \in s.npcs, n # s.target, Below(m, n)'
  PROVE  s.score[m] <= s.score[n] + StickyBonus(s, n)
<1>1. m \in Npcs /\ n \in Npcs /\ s.score[m] \in Nat /\ s.score[n] \in Nat
  BY SnapshotFields
<1>2. Effective(s, m) <= Effective(s, n)
  <2>1. CASE tier'[n] = "focused" /\ tier'[m] \in {"reactive", "ambient"}
    <3>1. n \in Focused(s) /\ m \notin Focused(s)
      BY <1>1, <2>1, RoutedTiers
    <3>2. m \notin Reserved(s) /\ n \notin Reserved(s)
      BY <3>1 DEF Focused, Reserved
    <3>3. /\ n \in Leading(s, Eligible(s) \ Reserved(s), FocusedCapacity - Cardinality(Reserved(s)))
          /\ m \notin Leading(s, Eligible(s) \ Reserved(s), FocusedCapacity - Cardinality(Reserved(s)))
      BY <3>1, <3>2 DEF Focused
    <3>4. FocusedCapacity - Cardinality(Reserved(s)) \in Nat
      BY Selected
    <3>5. QED
      BY <3>2, <3>3, <3>4, LeftBehind
  <2>2. CASE tier'[n] = "reactive" /\ tier'[m] = "ambient"
    <3>1. n \in Reactive(s, Focused(s)) /\ m \notin Reactive(s, Focused(s))
          /\ m \notin Focused(s)
      BY <1>1, <2>2, RoutedTiers
    <3>2. /\ n \in Leading(s, Eligible(s) \ Focused(s), ReactiveCapacity)
          /\ m \notin Leading(s, Eligible(s) \ Focused(s), ReactiveCapacity)
      BY <3>1 DEF Reactive
    <3>3. ReactiveCapacity \in Nat
      BY RouterAssumption
    <3>4. QED
      BY <3>1, <3>2, <3>3, LeftBehind
  <2>3. QED
    BY <2>1, <2>2 DEF Below
<1>3. /\ StickyBonus(s, m) \in Nat /\ StickyBonus(s, n) \in Nat
      /\ Effective(s, m) = s.score[m] + StickyBonus(s, m)
      /\ Effective(s, n) = s.score[n] + StickyBonus(s, n)
  BY <1>1, RankFields
<1>4. QED
  BY <1>1, <1>2, <1>3

\* A routing leaves an outscored NPC above a better one only inside its hold.
LEMMA RouteHolds ==
  ASSUME RouterInv, NEW s \in Snapshots, Route(s)
  PROVE  OutscoredOnlyInHold'
<1>1. TypeOK /\ since = enteredAt
  BY DEF RouterInv
<1>2. snapshot' = s /\ Candidates' = s.npcs /\ s.timestamp \in Nat
  BY SnapshotFields DEF Route, Candidates
<1>3. FocusedHold \in Nat /\ ReactiveHold \in Nat
      /\ FocusedBonus \in Nat /\ ReactiveBonus \in Nat
  BY RouterAssumption
<1>4. ASSUME NEW m \in s.npcs, NEW n \in s.npcs, Below(m, n)', n # s.target,
             s.score[m] > s.score[n]
      PROVE  /\ \/ s.timestamp = since'[n]
                \/ s.timestamp - since'[n] < Hold(tier'[n])
             /\ \/ s.score[m] <= s.score[n] + FocusedBonus
                \/ s.score[m] <= s.score[n] + ReactiveBonus
  <2>1. /\ n \in Npcs /\ m \in Npcs
        /\ s.score[m] \in Nat /\ s.score[n] \in Nat
        /\ since[n] \in Nat /\ since[n] = enteredAt[n]
    BY <1>1, SnapshotFields DEF TypeOK
  <2>2. s.score[m] <= s.score[n] + StickyBonus(s, n)
    BY <1>1, <1>4, RouteOutscored
  <2>3. StickyBonus(s, n) \in {FocusedBonus, ReactiveBonus} /\ Held(s, n)
    BY <1>3, <1>4, <2>1, <2>2 DEF StickyBonus
  <2>4. \/ s.score[m] <= s.score[n] + FocusedBonus
        \/ s.score[m] <= s.score[n] + ReactiveBonus
    BY <2>2, <2>3
  <2>5. CASE tier'[n] # tier[n]
    <3>1. since'[n] = s.timestamp
      BY <2>1, <2>5 DEF Route
    <3>2. QED
      BY <3>1, <2>4
  <2>6. CASE tier'[n] = tier[n]
    <3>1. since'[n] = since[n]
      BY <2>1, <2>6 DEF Route
    <3>2. Elapsed(s, n) < Hold(tier'[n]) /\ Hold(tier'[n]) \in Nat
      BY <1>3, <2>3, <2>6 DEF Held, Hold
    <3>3. \/ s.timestamp = since[n]
          \/ s.timestamp - since[n] < Hold(tier'[n])
      BY <1>2, <2>1, <3>2 DEF Elapsed
    <3>4. QED
      BY <3>1, <3>3, <2>4
  <2>7. QED
    BY <2>5, <2>6
<1>5. QED
  BY <1>2, <1>4 DEF OutscoredOnlyInHold

\* A higher scorer stands below an NPC only while that NPC's own stay is younger
\* than its hold, and by no more than a bonus (apply_hysteresis, RouterState.record).
THEOREM RouterHolds == Spec => []OutscoredOnlyInHold
<1>1. ASSUME OutscoredOnlyInHold, RouterInv, [Next]_vars PROVE OutscoredOnlyInHold'
  <2>1. ASSUME NEW s \in Snapshots, Route(s) PROVE OutscoredOnlyInHold'
    BY <1>1, <2>1, RouteHolds
  <2>2. CASE ResetSession
    <3>1. Candidates' = {}
      BY <2>2 DEF ResetSession, Candidates
    <3>2. QED
      BY <3>1 DEF OutscoredOnlyInHold
  <2>3. CASE UNCHANGED vars
    BY <1>1, <2>3 DEF vars, OutscoredOnlyInHold, Below, Candidates
  <2>4. QED
    BY <1>1, <2>1, <2>2, <2>3 DEF Next
<1>2. Init => OutscoredOnlyInHold
  <2>1. Init => Candidates = {}
    BY DEF Init, Candidates
  <2>2. QED
    BY <2>1 DEF OutscoredOnlyInHold
<1>3. QED
  BY <1>1, <1>2, InitInv, NextInv, PTL DEF Spec

\* The bonuses inside a hold, told from the times of the NPCs' own stays.
LEMMA HoldBonus ==
  ASSUME RouterInv, NEW s \in Snapshots, Route(s), NEW n \in Npcs
  PROVE  /\ InHold(n, "focused") => StickyBonus(s, n) = FocusedBonus
         /\ tier[n] # "focused" => Challenge(n) = Effective(s, n)
<1>1. TypeOK /\ since[n] \in Nat /\ since[n] = enteredAt[n]
  BY DEF RouterInv, TypeOK
<1>2. /\ s.timestamp \in Nat /\ s.score[n] \in Nat
      /\ FocusedHold \in Nat /\ ReactiveHold \in Nat
      /\ snapshot' = s
  BY SnapshotFields, RouterAssumption DEF Route
<1>3. InHold(n, "focused") => StickyBonus(s, n) = FocusedBonus
  BY <1>1, <1>2 DEF StickyBonus, Held, Elapsed, InHold, Hold
<1>4. InHold(n, "reactive") <=> tier[n] = "reactive" /\ Elapsed(s, n) < ReactiveHold
  BY <1>1, <1>2 DEF Elapsed, InHold, Hold
<1>5. ASSUME tier[n] # "focused" PROVE Challenge(n) = Effective(s, n)
  BY <1>2, <1>4, <1>5 DEF StickyBonus, Held, Challenge, Effective
<1> QED BY <1>3, <1>5

\* Whom a routing makes focused past an NPC within its hold.
LEMMA RouteDemotes ==
  ASSUME RouterInv, NEW s \in Snapshots, Route(s),
         NEW n \in Npcs, tier'[n] \in {"reactive", "ambient"}, InHold(n, "focused"),
         NEW m \in NewlyFocused, m # s.target
  PROVE  Challenge(m) > s.score[n] + FocusedBonus
<1> DEFINE pool == Eligible(s) \ Reserved(s)
           room == FocusedCapacity - Cardinality(Reserved(s))
<1>1. /\ TypeOK /\ tier[n] = "focused"
      /\ m \in Npcs /\ tier[m] # "focused" /\ tier'[m] = "focused"
  BY DEF RouterInv, InHold, NewlyFocused
<1>2. n \in s.npcs /\ n \notin Focused(s) /\ m \in Focused(s)
  BY <1>1, RoutedTiers
<1>3. pool \in SUBSET Npcs /\ room \in Nat
  BY <1>1, Selected, SnapshotFields DEF Eligible
<1>4. /\ n \notin Reserved(s) /\ n \notin Leading(s, pool, room)
      /\ m \in Leading(s, pool, room)
  BY <1>2 DEF Focused, Reserved
<1>5. m \in pool /\ m \in s.npcs /\ Effective(s, m) > MinimumScore
  BY <1>4 DEF Leading, Eligible
<1>6. /\ Effective(s, m) \in Nat /\ Effective(s, n) \in Nat /\ MinimumScore \in Nat
      /\ Effective(s, n) = s.score[n] + FocusedBonus
      /\ Challenge(m) = Effective(s, m)
  BY <1>1, HoldBonus, RankFields, RouterAssumption
<1>7. CASE n \in pool
  <2>1. RanksBefore(s, m, n)
    <3> HIDE DEF pool, room
    <3> QED BY <1>1, <1>3, <1>4, <1>7, LeadersRankFirst
  <2>2. StrongerOrNearer(s, m, n)
    BY <2>1 DEF RanksBefore
  <2>3. PreviousPriority(n) = 2 /\ PreviousPriority(m) \in {-1, 0, 1}
    BY <1>1 DEF PreviousPriority, TypeOK, Tiers
  <2>4. Effective(s, m) > Effective(s, n)
    BY <2>2, <2>3 DEF StrongerOrNearer
  <2> QED BY <1>6, <2>4
<1>8. CASE n \notin pool
  <2>1. ~(Effective(s, n) > MinimumScore)
    BY <1>2, <1>4, <1>8 DEF Eligible
  <2> QED BY <1>5, <1>6, <2>1
<1> QED BY <1>7, <1>8

\* A routing that makes nobody focused anew demotes no NPC within its hold whose
\* score, with the bonus, is above the minimum: its place is still free.
LEMMA RouteDemotesForSomebody ==
  ASSUME RouterInv, CapacityHeld, NEW s \in Snapshots, Route(s),
         NEW n \in Npcs, tier'[n] \in {"reactive", "ambient"}, InHold(n, "focused"),
         NewlyFocused = {}
  PROVE  s.score[n] + FocusedBonus <= MinimumScore
<1> DEFINE pool == Eligible(s) \ Reserved(s)
           room == FocusedCapacity - Cardinality(Reserved(s))
<1> SUFFICES ASSUME ~(s.score[n] + FocusedBonus <= MinimumScore) PROVE FALSE
  OBVIOUS
<1>1. TypeOK /\ tier[n] = "focused"
  BY DEF RouterInv, InHold
<1>2. n \in s.npcs /\ n \notin Focused(s)
  BY <1>1, RoutedTiers
<1>3. pool \in SUBSET Npcs /\ room \in Nat
  BY <1>1, Selected, SnapshotFields DEF Eligible
<1>4. n \in Eligible(s)
  <2>1. /\ s.score[n] \in Nat /\ FocusedBonus \in Nat /\ MinimumScore \in Nat
        /\ Effective(s, n) = s.score[n] + FocusedBonus
    BY <1>1, HoldBonus, RankFields, SnapshotFields, RouterAssumption
  <2> QED BY <1>2, <2>1 DEF Eligible
<1>5. n \in pool /\ n \notin Leading(s, pool, room)
  BY <1>2, <1>4 DEF Focused
<1>6. Cardinality(Leading(s, pool, room)) >= room
  <2> HIDE DEF pool, room
  <2> QED BY <1>1, <1>3, <1>5, LeadingFills
<1>7. /\ IsFiniteSet(Focused(s)) /\ Cardinality(Focused(s)) \in Nat
      /\ Cardinality(Reserved(s)) \in Nat
      /\ Cardinality(Focused(s)) = Cardinality(Reserved(s)) + Cardinality(Leading(s, pool, room))
  BY <1>1, Selected
<1>8. Cardinality(Leading(s, pool, room)) \in Nat
  <2> HIDE DEF pool, room
  <2> QED BY <1>1, <1>3, LeadingFits
<1>9. FocusedCapacity \in Nat /\ Cardinality(Focused(s)) >= FocusedCapacity
  BY <1>6, <1>7, <1>8, RouterAssumption
<1>10. Focused(s) \cup {n} \subseteq InTier("focused")
  <2> SUFFICES ASSUME NEW x \in Focused(s) PROVE x \in Npcs /\ tier[x] = "focused"
    BY <1>1 DEF InTier
  <2>1. x \in Npcs
    BY <1>1, Selected, SnapshotFields
  <2> QED BY <1>1, <2>1, RoutedTiers DEF NewlyFocused
<1>11. Cardinality(Focused(s) \cup {n}) = Cardinality(Focused(s)) + 1
  BY <1>2, <1>7, FS_AddElement
<1>12. IsFiniteSet(InTier("focused"))
  <2>1. InTier("focused") \in SUBSET Npcs
    BY DEF InTier
  <2> QED BY <2>1, RouterAssumption, FS_Subset
<1>13. /\ Cardinality(InTier("focused")) \in Nat
       /\ Cardinality(Focused(s) \cup {n}) <= Cardinality(InTier("focused"))
  BY <1>10, <1>12, FS_Subset, FS_CardinalityType
<1> QED BY <1>7, <1>9, <1>11, <1>13 DEF CapacityHeld

\* Inside its hold a focused candidate makes room only for the conversation's target
\* or for a challenger that exceeds its score and bonus, and never for nobody while
\* it is above the minimum (hysteresis.py, assignment.py).
THEOREM RouterDemotes == Spec => DemotedOnlyByStronger
<1> DEFINE Step ==
      \A n \in Npcs :
        tier'[n] \in {"reactive", "ambient"} /\ InHold(n, "focused")
        => /\ \A m \in NewlyFocused \ {snapshot'.target} :
                Challenge(m) > snapshot'.score[n] + FocusedBonus
           /\ \/ NewlyFocused # {}
              \/ snapshot'.score[n] + FocusedBonus <= MinimumScore
<1>1. ASSUME RouterInv, CapacityHeld, [Next]_vars PROVE [Step]_vars
  <2>1. ASSUME NEW s \in Snapshots, Route(s) PROVE Step
    <3>1. snapshot' = s
      BY <2>1 DEF Route
    <3>2. ASSUME NEW n \in Npcs, tier'[n] \in {"reactive", "ambient"}, InHold(n, "focused")
          PROVE  /\ \A m \in NewlyFocused \ {s.target} :
                      Challenge(m) > s.score[n] + FocusedBonus
                 /\ \/ NewlyFocused # {}
                    \/ s.score[n] + FocusedBonus <= MinimumScore
      BY <1>1, <2>1, <3>2, RouteDemotes, RouteDemotesForSomebody
    <3>3. QED
      BY <3>1, <3>2
  <2>2. CASE ResetSession
    <3>1. \A n \in Npcs : tier'[n] = "unknown"
      BY <2>2 DEF ResetSession
    <3>2. QED
      BY <3>1
  <2>3. QED
    BY <1>1, <2>1, <2>2 DEF Next
<1>2. QED
  BY <1>1, InitInv, NextInv, RouterCapacity, PTL DEF Spec, DemotedOnlyByStronger

-----------------------------------------------------------------------------
(* The handoff that feeds the Router.                                      *)

\* The Router has recorded nothing above what the handoff last gave it of the
\* session, and has refused nothing.
RouterFollows ==
  /\ HandoffTypeOK
  /\ RouterNeverBehind
  /\ \A k \in Key : routerLast[k] <= routed[k]

\* Nothing is routed and the Router has seen nothing.
LEMMA InitFollows == ASSUME HandoffInit PROVE RouterFollows
<1> USE HandoffAssumption DEF HandoffInit
<1>1. 0 \in 0..MaxSequence /\ 0 \in 0..MaxResets
  OBVIOUS
<1>2. HandoffTypeOK
  BY <1>1 DEF HandoffTypeOK, Statuses
<1> QED BY <1>2 DEF RouterFollows, RouterNeverBehind

\* A snapshot that is routed is not behind the Router, which records it or not.
LEMMA RouteFollows ==
  ASSUME RouterFollows, NEW k \in Key, NEW s \in Sequences,
         NEW left \in [Key -> 0..MaxSequence], RouteSnapshot(k, s, left)
  PROVE  /\ pending' \in [Key -> 0..MaxSequence]
         /\ routed' \in [Key -> 0..MaxSequence]
         /\ outcome' \in [Key -> {"routed", "failed", "none"}]
         /\ routerLast' \in [Key -> 0..MaxSequence]
         /\ \A j \in Key : routerLast'[j] <= routed'[j]
<1> USE HandoffAssumption DEF RouterFollows, HandoffTypeOK, RouterNeverBehind,
            RouteSnapshot, Statuses
<1>1. s \in 0..MaxSequence /\ s >= routed[k] /\ s >= routerLast[k]
  BY DEF Behind, Sequences
<1>2. pending' \in [Key -> 0..MaxSequence] /\ routed' = [routed EXCEPT ![k] = s]
  BY <1>1
<1>3. outcome' \in [Key -> {"routed", "failed", "none"}]
  BY <1>1 DEF Answer
<1>4. routerLast' \in {routerLast, [routerLast EXCEPT ![k] = s]}
  BY <1>1 DEF Answer
<1> QED BY <1>1, <1>2, <1>3, <1>4

\* No step of the handoff lets the Router run ahead of what was routed, and no
\* outcome it reports is stale.
LEMMA NextFollows ==
  ASSUME RouterFollows, [HandoffNext]_handoffVars
  PROVE  RouterFollows'
<1> USE HandoffAssumption DEF RouterFollows, HandoffTypeOK, RouterNeverBehind, routing
<1>1. ASSUME NEW k \in Key, NEW s \in Sequences, ApplySnapshot(k, s)
      PROVE  RouterFollows'
  <2>1. s \in 0..MaxSequence
    BY DEF Sequences
  <2> QED BY <1>1, <2>1 DEF ApplySnapshot, Build, Builds, Paths
<1>2. ASSUME NEW k \in Key, Trigger(k) PROVE RouterFollows'
  <2>1. world[k] \in Sequences
    BY <1>2 DEF Trigger, Sequences
  <2> QED BY <1>2, <2>1 DEF Trigger, Build, Builds, Paths
<1>3. ASSUME NEW b \in building, LoseBuild(b) PROVE RouterFollows'
  BY <1>3 DEF LoseBuild, Builds
<1>4. ASSUME NEW b \in building, Submit(b) PROVE RouterFollows'
  <2>1. b.key \in Key /\ b.sequence \in 0..MaxSequence
    BY DEF Builds, Sequences
  <2> QED BY <1>4, <2>1 DEF Submit
<1>5. ASSUME NEW b \in building, RouteNow(b) PROVE RouterFollows'
  <2>1. b.key \in Key /\ b.sequence \in Sequences
    BY DEF Builds
  <2>2. CASE UNCHANGED routing
    BY <1>5, <2>2 DEF RouteNow
  <2>3. CASE RouteSnapshot(b.key, b.sequence, pending)
    BY <1>5, <2>1, <2>3, RouteFollows DEF RouteNow, Statuses
  <2> QED BY <1>5, <2>2, <2>3 DEF RouteNow
<1>6. ASSUME NEW k \in Key, RoutePending(k) PROVE RouterFollows'
  <2> DEFINE taken == [pending EXCEPT ![k] = 0]
  <2>1. taken \in [Key -> 0..MaxSequence] /\ pending[k] \in Sequences
    BY <1>6 DEF RoutePending, Waiting, Sequences
  <2>2. CASE pending' = taken /\ UNCHANGED <<routed, outcome, routerLast, worker>>
    BY <1>6, <2>1, <2>2 DEF RoutePending
  <2>3. CASE RouteSnapshot(k, pending[k], taken) /\ worker' = "notifying"
    <3> HIDE DEF taken
    <3> QED BY <1>6, <2>1, <2>3, RouteFollows DEF RoutePending, Statuses
  <2> QED BY <1>6, <2>2, <2>3 DEF RoutePending
<1>7. CASE Wake \/ Notified \/ GoIdle
  BY <1>7 DEF Wake, Notified, GoIdle
<1>10. CASE Told
  <2>1. telling' \in Nat
    BY <1>10 DEF Told
  <2> QED BY <1>10, <2>1 DEF Told
<1>8. ASSUME NEW session \in Sessions, ResetHandoff(session) PROVE RouterFollows'
  BY <1>8 DEF ResetHandoff, Statuses
<1>9. CASE UNCHANGED handoffVars
  BY <1>9 DEF handoffVars
<1> QED BY <1>1, <1>2, <1>3, <1>4, <1>5, <1>6, <1>7, <1>8, <1>9, <1>10
        DEF HandoffNext, FinishBuild, Work

\* However refreshes, turns, the worker and cleanups overtake each other, the
\* Router is never handed a sequence behind one it answered (router_handoff.py).
THEOREM HandoffNeverBehind == HandoffSpec => []RouterNeverBehind
<1>1. RouterFollows => RouterNeverBehind
  BY DEF RouterFollows
<1> QED BY <1>1, InitFollows, NextFollows, PTL DEF HandoffSpec

\* While the handoff is idle nothing is pending and the worker has returned from the
\* listener.
NothingUnderWay == idle => Waiting = {} /\ worker # "notifying"

\* What waits was submitted by a step that cleared `idle`, and only the worker that
\* finds nothing sets it: routing a snapshot takes out what waits, never more.
LEMMA NothingUnderWayStep ==
  ASSUME HandoffTypeOK, NothingUnderWay, [HandoffNext]_handoffVars
  PROVE  NothingUnderWay'
<1> USE DEF NothingUnderWay, Waiting
<1>1. ASSUME NEW k, NEW s, NEW left, RouteSnapshot(k, s, left), \A j \in Key : left[j] = 0,
             left \in [Key -> 0..MaxSequence]
      PROVE  \A j \in Key : pending'[j] = 0
  BY <1>1 DEF RouteSnapshot
<1>2. ASSUME NEW b \in building, FinishBuild(b) PROVE NothingUnderWay'
  <2>1. CASE LoseBuild(b) \/ Submit(b)
    BY <2>1 DEF LoseBuild, Submit, routing
  <2>2. CASE RouteNow(b) /\ UNCHANGED routing
    BY <2>2 DEF RouteNow, routing
  <2>3. CASE RouteNow(b) /\ RouteSnapshot(b.key, b.sequence, pending)
    BY <1>1, <2>3 DEF RouteNow, HandoffTypeOK
  <2> QED BY <1>2, <2>1, <2>2, <2>3 DEF FinishBuild, RouteNow
<1>3. CASE Work \/ Told
  BY <1>3 DEF Work, Wake, RoutePending, Notified, GoIdle, Told, routing
<1>4. ASSUME NEW session \in Sessions, ResetHandoff(session) PROVE NothingUnderWay'
  BY <1>4 DEF ResetHandoff
<1>5. ASSUME NEW k \in Key, Trigger(k) \/ \E s \in Sequences : ApplySnapshot(k, s)
      PROVE  NothingUnderWay'
  BY <1>5 DEF Trigger, ApplySnapshot, routing
<1>6. CASE UNCHANGED handoffVars
  BY <1>6 DEF handoffVars, routing
<1> QED BY <1>2, <1>3, <1>4, <1>5, <1>6 DEF HandoffNext

\* wait_until_idle lets nobody go while a snapshot waits or the worker is in its
\* listener (router_handoff.py): the half of IdleReturns that is about safety.
THEOREM HandoffIdleIsQuiet ==
  HandoffSpec => [](idle => Waiting = {} /\ worker # "notifying")
<1>1. HandoffInit => NothingUnderWay
  BY DEF HandoffInit, NothingUnderWay, Waiting
<1>2. RouterFollows => HandoffTypeOK
  BY DEF RouterFollows
<1>3. NothingUnderWay => (idle => Waiting = {} /\ worker # "notifying")
  BY DEF NothingUnderWay
<1> QED BY <1>1, <1>2, <1>3, InitFollows, NextFollows, NothingUnderWayStep, PTL DEF HandoffSpec
=============================================================================
