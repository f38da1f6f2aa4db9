----------------------- MODULE GenerationQueue_proofs -----------------------
(***************************************************************************)
(* The queue's rules for every set of works, NPCs and limits.              *)
(*                                                                         *)
(* Three inductive invariants.  CapacityInv: CapacityExact needs the type, *)
(* and the type needs it (a counter must not fall below zero).  ClaimsInv  *)
(* adds ClaimsExact, which is inductive only with its last three           *)
(* conjuncts: no key names two pending works.  OrderInv says that a        *)
(* restatable work is the newest of its NPC's, which needs that the newest *)
(* ordinal bounds all others; with the dispatch order it says what a       *)
(* started one may leave behind.                                           *)
(*                                                                         *)
(* Then the scheduler, which extends the queue: each of its steps is one   *)
(* of the queue or leaves it alone, so what is proved of the queue holds   *)
(* of it, and a turn's work leaves it only with the conversation.          *)
(***************************************************************************)
EXTENDS GenerationScheduler, FiniteSetTheorems, TLAPS

\* What a later delivery can restate is the newest waiting of its NPC, and alone of
\* its kind.
RestatableIsNewest ==
  \A x, y \in waiting :
    /\ x # y
    /\ Slot(x.work) = Slot(y.work)
    /\ x.work.trigger \in Coalesced
    => y.work.trigger = "turn" /\ y.ordinal < x.ordinal

\* Ordinals order the waiting entries totally.
OrdinalsUnique ==
  /\ \A x \in waiting : x.ordinal <= arrivals
  /\ \A x, y \in waiting : x.ordinal = y.ordinal => x = y

\* The tier and the session a work names are those of the model.
LEMMA WorkFields ==
  ASSUME NEW w \in Works
  PROVE  /\ w \in WorkRecords /\ w # NoWork
         /\ w.session \in Sessions /\ w.npc \in Npcs
         /\ w.tier \in Tiers /\ w.trigger \in Triggers /\ w.key \in Keys
         /\ Slot(w) \in Slots
BY QueueAssumption DEF WorkRecords, Slot, Slots

\* There are finitely many slots, so the running works can be counted.
LEMMA SlotsFinite == IsFiniteSet(Slots)
BY QueueAssumption, FS_Product DEF Slots

\* What is in flight, in all and in a tier, can be counted.
LEMMA InFlightFinite ==
  /\ IsFiniteSet(InFlight) /\ Cardinality(InFlight) \in Nat
  /\ \A t : IsFiniteSet(InFlightOf(t)) /\ Cardinality(InFlightOf(t)) \in Nat
<1>1. InFlight \in SUBSET Slots
  BY DEF InFlight
<1>2. IsFiniteSet(InFlight)
  BY <1>1, SlotsFinite, FS_Subset
<1>3. ASSUME NEW t PROVE IsFiniteSet(InFlightOf(t))
  <2>1. InFlightOf(t) \in SUBSET InFlight
    BY DEF InFlightOf
  <2>2. QED
    BY <2>1, <1>2, FS_Subset
<1>4. QED
  BY <1>2, <1>3, FS_CardinalityType


-----------------------------------------------------------------------------
(* Capacity: how one step changes the set of running works.                *)

\* Starting work in an empty slot adds that slot, and only to its own tier.
LEMMA StartInFlight ==
  ASSUME TypeOK, NEW x \in waiting, Start(x)
  PROVE  /\ Slot(x.work) \in Slots \ InFlight
         /\ InFlight' = InFlight \cup {Slot(x.work)}
         /\ InFlightOf(x.work.tier)' = InFlightOf(x.work.tier) \cup {Slot(x.work)}
         /\ \A t \in Tiers \ {x.work.tier} : InFlightOf(t)' = InFlightOf(t)
         /\ \A s \in InFlight' :
              inFlight'[s] = IF s = Slot(x.work) THEN x.work ELSE inFlight[s]
<1>1. x.work \in Works /\ x.work # NoWork /\ Slot(x.work) \in Slots
  BY WorkFields DEF TypeOK
<1>2. inFlight[Slot(x.work)] = NoWork
  BY DEF Start, IsNext, Startable
<1>3. inFlight' = [inFlight EXCEPT ![Slot(x.work)] = x.work]
  BY DEF Start
<1>4. \A s \in Slots : inFlight'[s] = IF s = Slot(x.work) THEN x.work ELSE inFlight[s]
  BY <1>1, <1>3 DEF TypeOK
<1>5. QED
  BY <1>1, <1>2, <1>4 DEF InFlight, InFlightOf

\* Releasing removes the slot, and only from its own tier.
LEMMA ReleaseInFlight ==
  ASSUME TypeOK, NEW w \in Works, Finish(w)
  PROVE  /\ Slot(w) \in InFlight /\ Slot(w) \in InFlightOf(w.tier)
         /\ InFlight' = InFlight \ {Slot(w)}
         /\ InFlightOf(w.tier)' = InFlightOf(w.tier) \ {Slot(w)}
         /\ \A t \in Tiers \ {w.tier} : InFlightOf(t)' = InFlightOf(t)
         /\ \A s \in InFlight' : inFlight'[s] = inFlight[s]
<1>1. w # NoWork /\ Slot(w) \in Slots
  BY WorkFields
<1>2. inFlight[Slot(w)] = w /\ inFlight' = [inFlight EXCEPT ![Slot(w)] = NoWork]
  BY DEF Finish, Release
<1>3. \A s \in Slots : inFlight'[s] = IF s = Slot(w) THEN NoWork ELSE inFlight[s]
  BY <1>1, <1>2 DEF TypeOK
<1>4. QED
  BY <1>1, <1>2, <1>3 DEF InFlight, InFlightOf

\* Starting an entry adds one to its tier, in the slots and in the counter.
LEMMA StartCapacity ==
  ASSUME TypeOK, CapacityExact, NEW x \in waiting, Start(x)
  PROVE  CapacityExact'
<1> DEFINE tier == x.work.tier
<1>1. x.work \in Works /\ tier \in Tiers
  BY WorkFields DEF TypeOK
<1>2. inFlightTiers' = [inFlightTiers EXCEPT ![tier] = @ + 1]
  BY DEF Start
<1>3. Cardinality(InFlight') = Cardinality(InFlight) + 1
  BY StartInFlight, InFlightFinite, FS_AddElement
<1>4. Slot(x.work) \notin InFlightOf(tier)
  BY StartInFlight DEF InFlightOf
<1>5. Cardinality(InFlightOf(tier)') = Cardinality(InFlightOf(tier)) + 1
  <2>1. IsFiniteSet(InFlightOf(tier))
    BY InFlightFinite
  <2>2. InFlightOf(tier)' = InFlightOf(tier) \cup {Slot(x.work)}
    BY StartInFlight
  <2>3. QED
    BY <1>4, <2>1, <2>2, FS_AddElement
<1>6. ASSUME NEW t \in Tiers
      PROVE  /\ inFlightTiers'[t] = Cardinality(InFlightOf(t)')
             /\ inFlightTiers'[t] <= Limit[t]
  <2>1. CASE t = tier
    <3>1. inFlightTiers'[t] = inFlightTiers[t] + 1
      BY <1>1, <1>2, <2>1 DEF TypeOK
    <3>2. inFlightTiers[t] < Limit[t]
      BY <2>1 DEF Start, IsNext, Startable, HasRoom
    <3>3. Limit[t] \in Nat /\ inFlightTiers[t] \in Nat
      BY QueueAssumption DEF Limit, TypeOK
    <3>4. QED
      BY <2>1, <3>1, <3>2, <3>3, <1>5 DEF CapacityExact
  <2>2. CASE t # tier
    <3>1. inFlightTiers'[t] = inFlightTiers[t]
      BY <1>2, <2>2 DEF TypeOK
    <3>2. QED
      BY <2>2, <3>1, StartInFlight DEF CapacityExact
  <2>3. QED
    BY <2>1, <2>2
<1>7. Cardinality(InFlight') <= TotalLimit
  BY <1>3, InFlightFinite, QueueAssumption DEF Start, IsNext
<1>8. \A s \in InFlight' : Slot(inFlight'[s]) = s
  BY StartInFlight DEF CapacityExact
<1>9. QED
  BY <1>6, <1>7, <1>8 DEF CapacityExact

\* Releasing a work that is in flight takes one from both.
LEMMA ReleaseCapacity ==
  ASSUME TypeOK, CapacityExact, NEW w \in Works, Finish(w)
  PROVE  CapacityExact' /\ inFlightTiers' \in [Tiers -> Nat]
<1>1. w.tier \in Tiers
  BY WorkFields
<1>2. inFlightTiers' = [inFlightTiers EXCEPT ![w.tier] = @ - 1]
  BY DEF Finish, Release
<1>3. Cardinality(InFlight') = Cardinality(InFlight) - 1
  BY ReleaseInFlight, InFlightFinite, FS_RemoveElement
<1>4. /\ Cardinality(InFlightOf(w.tier)') = Cardinality(InFlightOf(w.tier)) - 1
      /\ Cardinality(InFlightOf(w.tier)') \in Nat
  <2>1. IsFiniteSet(InFlightOf(w.tier))
    BY InFlightFinite
  <2>2. /\ Slot(w) \in InFlightOf(w.tier)
        /\ InFlightOf(w.tier)' = InFlightOf(w.tier) \ {Slot(w)}
    BY ReleaseInFlight
  <2>3. QED
    BY <2>1, <2>2, FS_RemoveElement, FS_CardinalityType
<1>6. ASSUME NEW t \in Tiers
      PROVE  /\ inFlightTiers'[t] = Cardinality(InFlightOf(t)')
             /\ inFlightTiers'[t] \in Nat
             /\ inFlightTiers'[t] <= Limit[t]
  <2>1. Limit[t] \in Nat /\ inFlightTiers[t] \in Nat
    BY QueueAssumption DEF Limit, TypeOK
  <2>2. CASE t = w.tier
    <3>1. inFlightTiers'[t] = inFlightTiers[t] - 1
      BY <1>1, <1>2, <2>2 DEF TypeOK
    <3>2. QED
      BY <2>1, <2>2, <3>1, <1>4 DEF CapacityExact
  <2>3. CASE t # w.tier
    <3>1. inFlightTiers'[t] = inFlightTiers[t]
      BY <1>2, <2>3 DEF TypeOK
    <3>2. QED
      BY <2>1, <2>3, <3>1, ReleaseInFlight DEF CapacityExact
  <2>4. QED
    BY <2>2, <2>3
<1>7. Cardinality(InFlight') <= TotalLimit
  BY <1>3, InFlightFinite, QueueAssumption DEF CapacityExact
<1>8. \A s \in InFlight' : Slot(inFlight'[s]) = s
  BY ReleaseInFlight DEF CapacityExact
<1>9. inFlightTiers' \in [Tiers -> Nat]
  BY <1>2, <1>6 DEF TypeOK
<1>10. QED
  BY <1>6, <1>7, <1>8, <1>9 DEF CapacityExact

\* Waiting work is not counted: enqueueing and cancelling leave capacity alone.
LEMMA CapacityUnaffected ==
  ASSUME CapacityExact, UNCHANGED <<inFlight, inFlightTiers>>
  PROVE  CapacityExact'
BY DEF CapacityExact, InFlight, InFlightOf

-----------------------------------------------------------------------------
(* Type correctness, which needs the counters: one that fell below zero     *)
(* would leave the naturals.                                               *)

\* The empty queue is well typed.
LEMMA InitType == Init => TypeOK
BY QueueAssumption DEF Init, TypeOK, Tiers

\* Each method leaves the queue well typed.
LEMMA EnqueueType ==
  ASSUME TypeOK, NEW w \in Works, Enqueue(w)
  PROVE  TypeOK'
<1>1. arrivals + 1 \in 1..MaxArrivals
  BY QueueAssumption DEF TypeOK, Enqueue
<1>2. waiting' \subseteq [work: Works, ordinal: 1..MaxArrivals]
  BY <1>1 DEF TypeOK, Enqueue, Superseded
<1>3. claimed' \subseteq Keys
  BY WorkFields DEF TypeOK, Enqueue
<1>4. QED
  BY <1>1, <1>2, <1>3 DEF TypeOK, Enqueue

LEMMA StartType ==
  ASSUME TypeOK, NEW x \in waiting, Start(x)
  PROVE  TypeOK'
<1>1. x.work \in Works /\ Slot(x.work) \in Slots /\ x.work.tier \in Tiers
  BY WorkFields DEF TypeOK
<1>2. inFlight' \in [Slots -> Works \cup {NoWork}]
  BY <1>1 DEF TypeOK, Start
<1>3. inFlightTiers' \in [Tiers -> Nat]
  BY <1>1 DEF TypeOK, Start
<1>4. QED
  BY <1>2, <1>3 DEF TypeOK, Start

LEMMA ReleaseType ==
  ASSUME TypeOK, CapacityExact, NEW w \in Works, Finish(w)
  PROVE  TypeOK'
<1>1. inFlight' \in [Slots -> Works \cup {NoWork}]
  BY WorkFields DEF TypeOK, Finish, Release
<1>2. QED
  BY <1>1, ReleaseCapacity DEF TypeOK, Finish, Release

LEMMA CancelType ==
  ASSUME TypeOK, NEW works \in SUBSET Works, Cancel(works)
  PROVE  TypeOK'
BY DEF TypeOK, Cancel

CapacityInv == TypeOK /\ CapacityExact

\* Every method keeps the types and the counters: one case per method.
LEMMA CapacityStep == CapacityInv /\ [Next]_queueVars => CapacityInv'
<1> SUFFICES ASSUME TypeOK, CapacityExact, [Next]_queueVars
             PROVE  TypeOK' /\ CapacityExact'
  BY DEF CapacityInv
<1>1. ASSUME NEW w \in Works, Enqueue(w) PROVE TypeOK' /\ CapacityExact'
  <2>1. UNCHANGED <<inFlight, inFlightTiers>>
    BY <1>1 DEF Enqueue
  <2>2. QED
    BY <1>1, <2>1, EnqueueType, CapacityUnaffected
<1>2. ASSUME NEW x \in waiting, Start(x) PROVE TypeOK' /\ CapacityExact'
  BY <1>2, StartType, StartCapacity
<1>3. ASSUME NEW w \in Works, Finish(w) PROVE TypeOK' /\ CapacityExact'
  BY <1>3, ReleaseType, ReleaseCapacity
<1>4. ASSUME NEW works \in SUBSET Works, Cancel(works) PROVE TypeOK' /\ CapacityExact'
  <2>1. UNCHANGED <<inFlight, inFlightTiers>>
    BY <1>4 DEF Cancel
  <2>2. QED
    BY <1>4, <2>1, CancelType, CapacityUnaffected
<1>5. CASE UNCHANGED queueVars
  <2>1. UNCHANGED <<inFlight, inFlightTiers>>
    BY <1>5 DEF queueVars
  <2>2. TypeOK'
    BY <1>5 DEF queueVars, TypeOK
  <2>3. QED
    BY <2>1, <2>2, CapacityUnaffected
<1>6. QED
  BY <1>1, <1>2, <1>3, <1>4, <1>5 DEF Next, ClaimNext

\* The empty queue counts nothing.
LEMMA CapacityInit == Init => CapacityInv
<1> SUFFICES ASSUME Init PROVE CapacityInv
  OBVIOUS
<1>1. InFlight = {}
  BY DEF Init, InFlight
<1>2. \A t : InFlightOf(t) = {}
  BY <1>1 DEF InFlightOf
<1>3. \A t \in Tiers : Limit[t] \in Nat
  BY QueueAssumption DEF Limit
<1>4. CapacityExact
  BY <1>1, <1>2, <1>3, FS_EmptySet, QueueAssumption DEF CapacityExact, Init
<1>5. QED
  BY <1>4, InitType DEF CapacityInv

\* Whatever works are offered and in whatever order they finish, every variable
\* keeps its type; in particular no counter of running works goes below zero.
THEOREM QueueTypeOK == Spec => []TypeOK
<1>1. CapacityInv => TypeOK
  BY DEF CapacityInv
<1>2. QED
  BY CapacityInit, CapacityStep, <1>1, PTL DEF Spec

\* The concurrency limits of claim_next hold for every limit and every set of works.
THEOREM QueueCapacity == Spec => []CapacityExact
<1>1. CapacityInv => CapacityExact
  BY DEF CapacityInv
<1>2. QED
  BY CapacityInit, CapacityStep, <1>1, PTL DEF Spec

-----------------------------------------------------------------------------
(* The claimed keys.                                                       *)

RunningKeys == {inFlight[s].key : s \in InFlight}

\* Dropping entries from the queue drops exactly their keys, because no key names
\* a second entry and none names running work.
LEMMA EvictClaims ==
  ASSUME ClaimsExact, NEW doomed \in SUBSET waiting
  PROVE  claimed \ KeysOf(doomed) = KeysOf(waiting \ doomed) \cup RunningKeys
<1>1. claimed = KeysOf(waiting) \cup RunningKeys
  BY DEF ClaimsExact, RunningKeys
<1>2. KeysOf(waiting) \ KeysOf(doomed) = KeysOf(waiting \ doomed)
  BY DEF ClaimsExact, KeysOf
<1>3. RunningKeys \cap KeysOf(doomed) = {}
  BY DEF ClaimsExact, KeysOf, RunningKeys
<1>4. QED
  BY <1>1, <1>2, <1>3

\* The entry enqueued brings its key, those it supersedes take theirs away.
LEMMA EnqueueClaims ==
  ASSUME TypeOK, ClaimsExact, NEW w \in Works, Enqueue(w)
  PROVE  ClaimsExact'
<1> DEFINE kept  == waiting \ Superseded(w)
           entry == [work |-> w, ordinal |-> arrivals + 1]
<1>1. Superseded(w) \in SUBSET waiting
  BY DEF Superseded
<1>2. /\ waiting' = kept \cup {entry}
      /\ claimed' = (claimed \ KeysOf(Superseded(w))) \cup {w.key}
      /\ w.key \notin claimed
      /\ inFlight' = inFlight
  BY DEF Enqueue
<1>3. InFlight' = InFlight
  BY <1>2 DEF InFlight
<1>4. claimed' = KeysOf(waiting') \cup {inFlight'[s].key : s \in InFlight'}
  <2>1. claimed \ KeysOf(Superseded(w)) = KeysOf(kept) \cup RunningKeys
    BY <1>1, EvictClaims
  <2>2. KeysOf(kept \cup {entry}) = KeysOf(kept) \cup {w.key}
    <3>1. entry.work.key = w.key
      OBVIOUS
    <3>2. \A e : e.work.key = w.key => KeysOf(kept \cup {e}) = KeysOf(kept) \cup {w.key}
      BY DEF KeysOf
    <3>3. QED
      BY <3>1, <3>2
  <2>3. RunningKeys = {inFlight'[s].key : s \in InFlight'}
    BY <1>2, <1>3 DEF RunningKeys
  <2>4. QED
    BY <1>2, <2>1, <2>2, <2>3
<1>5. \A x \in kept : x.work.key # w.key
  BY <1>2 DEF ClaimsExact, KeysOf
<1>6. \A s \in InFlight : inFlight[s].key # w.key
  BY <1>2 DEF ClaimsExact
<1>7. \A x, y \in waiting' : x.work.key = y.work.key => x = y
  BY <1>2, <1>5 DEF ClaimsExact
<1>8. \A x \in waiting', s \in InFlight' : x.work.key # inFlight'[s].key
  BY <1>2, <1>3, <1>6 DEF ClaimsExact
<1>9. \A s, r \in InFlight' : inFlight'[s].key = inFlight'[r].key => s = r
  BY <1>2, <1>3 DEF ClaimsExact
<1>10. QED
  BY <1>4, <1>7, <1>8, <1>9 DEF ClaimsExact, KeysOf

\* An entry that starts keeps its key: it moves from waiting to in flight.
LEMMA StartClaims ==
  ASSUME TypeOK, ClaimsExact, NEW x \in waiting, Start(x)
  PROVE  ClaimsExact'
<1>1. waiting' = waiting \ {x} /\ claimed' = claimed
  BY DEF Start
<1>2. /\ InFlight' = InFlight \cup {Slot(x.work)}
      /\ Slot(x.work) \notin InFlight
      /\ \A s \in InFlight' :
           inFlight'[s] = IF s = Slot(x.work) THEN x.work ELSE inFlight[s]
  BY StartInFlight
<1>3. {inFlight'[s].key : s \in InFlight'} = RunningKeys \cup {x.work.key}
  BY <1>2 DEF RunningKeys
<1>4. KeysOf(waiting) = KeysOf(waiting') \cup {x.work.key}
  BY <1>1 DEF KeysOf
<1>5. claimed' = KeysOf(waiting') \cup {inFlight'[s].key : s \in InFlight'}
  BY <1>1, <1>3, <1>4 DEF ClaimsExact, RunningKeys
<1>6. \A y, z \in waiting' : y.work.key = z.work.key => y = z
  BY <1>1 DEF ClaimsExact
<1>7. \A y \in waiting', s \in InFlight' : y.work.key # inFlight'[s].key
  BY <1>1, <1>2 DEF ClaimsExact
<1>8. \A s, r \in InFlight' : inFlight'[s].key = inFlight'[r].key => s = r
  BY <1>2 DEF ClaimsExact
<1>9. QED
  BY <1>5, <1>6, <1>7, <1>8 DEF ClaimsExact, KeysOf

\* A work released gives its key back, and no one else held it.
LEMMA ReleaseClaims ==
  ASSUME TypeOK, ClaimsExact, NEW w \in Works, Finish(w)
  PROVE  ClaimsExact'
<1>1. waiting' = waiting /\ claimed' = claimed \ {w.key} /\ inFlight[Slot(w)] = w
  BY DEF Finish, Release
<1>2. /\ Slot(w) \in InFlight
      /\ InFlight' = InFlight \ {Slot(w)}
      /\ \A s \in InFlight' : inFlight'[s] = inFlight[s]
  BY ReleaseInFlight
<1>3. {inFlight'[s].key : s \in InFlight'} = RunningKeys \ {w.key}
  BY <1>1, <1>2 DEF RunningKeys, ClaimsExact
<1>4. w.key \notin KeysOf(waiting)
  BY <1>1, <1>2 DEF ClaimsExact, KeysOf
<1>5. claimed' = KeysOf(waiting') \cup {inFlight'[s].key : s \in InFlight'}
  BY <1>1, <1>3, <1>4 DEF ClaimsExact, RunningKeys
<1>6. \A y \in waiting', s \in InFlight' : y.work.key # inFlight'[s].key
  BY <1>1, <1>2 DEF ClaimsExact
<1>7. \A s, r \in InFlight' : inFlight'[s].key = inFlight'[r].key => s = r
  BY <1>2 DEF ClaimsExact
<1>8. QED
  BY <1>1, <1>5, <1>6, <1>7 DEF ClaimsExact, KeysOf

\* The entries cancelled give their keys back.
LEMMA CancelClaims ==
  ASSUME ClaimsExact, NEW works \in SUBSET Works, Cancel(works)
  PROVE  ClaimsExact'
<1>1. /\ waiting' = waiting \ Matching(works)
      /\ claimed' = claimed \ KeysOf(Matching(works))
      /\ inFlight' = inFlight
  BY DEF Cancel
<1>2. Matching(works) \in SUBSET waiting
  BY DEF Matching
<1>3. InFlight' = InFlight
  BY <1>1 DEF InFlight
<1>4. claimed' = KeysOf(waiting \ Matching(works)) \cup RunningKeys
  BY <1>1, <1>2, EvictClaims
<1>5. QED
  BY <1>1, <1>3, <1>4 DEF ClaimsExact, KeysOf, RunningKeys

ClaimsInv == CapacityInv /\ ClaimsExact

\* Every method keeps the claims exact: one case per method.
LEMMA ClaimsStep == ClaimsInv /\ [Next]_queueVars => ClaimsInv'
<1> SUFFICES ASSUME CapacityInv, TypeOK, ClaimsExact, [Next]_queueVars
             PROVE  ClaimsExact'
  BY CapacityStep DEF ClaimsInv, CapacityInv
<1>1. ASSUME NEW w \in Works, Enqueue(w) PROVE ClaimsExact'
  BY <1>1, EnqueueClaims
<1>2. ASSUME NEW x \in waiting, Start(x) PROVE ClaimsExact'
  BY <1>2, StartClaims
<1>3. ASSUME NEW w \in Works, Finish(w) PROVE ClaimsExact'
  BY <1>3, ReleaseClaims
<1>4. ASSUME NEW works \in SUBSET Works, Cancel(works) PROVE ClaimsExact'
  BY <1>4, CancelClaims
<1>5. CASE UNCHANGED queueVars
  BY <1>5 DEF queueVars, ClaimsExact, InFlight, KeysOf
<1>6. QED
  BY <1>1, <1>2, <1>3, <1>4, <1>5 DEF Next, ClaimNext

\* The empty queue claims nothing.
LEMMA ClaimsInit == Init => ClaimsInv
<1> SUFFICES ASSUME Init PROVE ClaimsExact
  BY CapacityInit DEF ClaimsInv
<1>1. InFlight = {} /\ waiting = {} /\ claimed = {}
  BY DEF Init, InFlight
<1>2. QED
  BY <1>1 DEF ClaimsExact, KeysOf

\* No two works with one key are ever pending together, and a key is free again as
\* soon as its work leaves the queue, however it leaves.
THEOREM QueueClaims == Spec => []ClaimsExact
<1>1. ClaimsInv => ClaimsExact
  BY DEF ClaimsInv
<1>2. QED
  BY ClaimsInit, ClaimsStep, <1>1, PTL DEF Spec

-----------------------------------------------------------------------------
(* Supersession.                                                           *)

OrderInv == TypeOK /\ OrdinalsUnique /\ RestatableIsNewest

\* Taking entries out of waiting leaves the order of the others.
LEMMA OrderShrinks ==
  ASSUME OrdinalsUnique, RestatableIsNewest, waiting' \subseteq waiting,
         arrivals' = arrivals
  PROVE  OrdinalsUnique' /\ RestatableIsNewest'
<1>1. OrdinalsUnique'
  BY DEF OrdinalsUnique
<1>2. RestatableIsNewest'
  BY DEF RestatableIsNewest
<1>3. QED
  BY <1>1, <1>2

\* The entry enqueued is the newest, and it superseded what it restates.
LEMMA EnqueueOrder ==
  ASSUME TypeOK, OrdinalsUnique, RestatableIsNewest, NEW w \in Works, Enqueue(w)
  PROVE  OrdinalsUnique' /\ RestatableIsNewest'
<1> DEFINE kept  == waiting \ Superseded(w)
           entry == [work |-> w, ordinal |-> arrivals + 1]
<1>1. waiting' = kept \cup {entry} /\ arrivals' = arrivals + 1
  BY DEF Enqueue
<1>2. \A x \in kept : x \in waiting /\ x.ordinal < entry.ordinal /\ x.ordinal \in Nat
  BY DEF TypeOK, OrdinalsUnique
<1>3. arrivals \in Nat
  BY DEF TypeOK
<1>4. OrdinalsUnique'
  BY <1>1, <1>2, <1>3 DEF OrdinalsUnique
<1>5. \A y \in kept : Slot(y.work) = Slot(w) => y.work.trigger = "turn"
  <2>1. SUFFICES ASSUME NEW y \in kept, Slot(y.work) = Slot(w)
                 PROVE  y.work.trigger = "turn"
    OBVIOUS
  <2>2. y.work.trigger \notin Coalesced
    BY <2>1 DEF Superseded
  <2>3. y.work.trigger \in Triggers
    BY WorkFields DEF TypeOK
  <2>4. QED
    BY <2>2, <2>3 DEF Triggers, Coalesced
<1>6. RestatableIsNewest'
  <2>1. SUFFICES ASSUME NEW x \in waiting', NEW y \in waiting', x # y,
                        Slot(x.work) = Slot(y.work), x.work.trigger \in Coalesced
                 PROVE  y.work.trigger = "turn" /\ y.ordinal < x.ordinal
    BY DEF RestatableIsNewest
  <2>2. CASE x \in kept /\ y \in kept
    BY <2>1, <2>2, <1>2 DEF RestatableIsNewest
  <2>3. CASE x = entry /\ y \in kept
    BY <2>1, <2>3, <1>2, <1>5
  <2>4. CASE x \in kept /\ y = entry
    BY <2>1, <2>4, <1>5 DEF Coalesced
  <2>5. QED
    BY <2>1, <2>2, <2>3, <2>4, <1>1
<1>7. QED
  BY <1>4, <1>6

\* Every method keeps the order of the ordinals.
LEMMA OrderStep == CapacityInv /\ OrderInv /\ [Next]_queueVars => OrderInv'
<1> SUFFICES ASSUME CapacityInv, TypeOK, OrdinalsUnique, RestatableIsNewest,
                    [Next]_queueVars
             PROVE  OrdinalsUnique' /\ RestatableIsNewest'
  BY CapacityStep DEF OrderInv, CapacityInv
<1>1. ASSUME NEW w \in Works, Enqueue(w)
      PROVE  OrdinalsUnique' /\ RestatableIsNewest'
  BY <1>1, EnqueueOrder
<1>2. ASSUME NEW x \in waiting, Start(x)
      PROVE  OrdinalsUnique' /\ RestatableIsNewest'
  <2>1. waiting' \subseteq waiting /\ arrivals' = arrivals
    BY <1>2 DEF Start
  <2>2. QED
    BY <2>1, OrderShrinks
<1>3. ASSUME NEW w \in Works, Finish(w)
      PROVE  OrdinalsUnique' /\ RestatableIsNewest'
  <2>1. waiting' \subseteq waiting /\ arrivals' = arrivals
    BY <1>3 DEF Finish, Release
  <2>2. QED
    BY <2>1, OrderShrinks
<1>4. ASSUME NEW works \in SUBSET Works, Cancel(works)
      PROVE  OrdinalsUnique' /\ RestatableIsNewest'
  <2>1. waiting' \subseteq waiting /\ arrivals' = arrivals
    BY <1>4 DEF Cancel
  <2>2. QED
    BY <2>1, OrderShrinks
<1>5. CASE UNCHANGED queueVars
  <2>1. waiting' \subseteq waiting /\ arrivals' = arrivals
    BY <1>5 DEF queueVars
  <2>2. QED
    BY <2>1, OrderShrinks
<1>6. QED
  BY <1>1, <1>2, <1>3, <1>4, <1>5 DEF Next, ClaimNext

\* Two waiting pieces of restatable work of one NPC are one.
SingleSlot ==
  \A x, y \in waiting :
    /\ Slot(x.work) = Slot(y.work)
    /\ x.work.trigger \in Coalesced /\ y.work.trigger \in Coalesced
    => x = y

\* What a started restatable work leaves behind of its NPC.
StartedGivesWay ==
  \A x \in waiting, y \in waiting' :
    /\ Starts(x) /\ x.work.trigger \in Coalesced
    /\ Slot(x.work) = Slot(y.work)
    => /\ y.work.trigger = "turn"
       /\ \/ x.work.tier = "focused" /\ y.work.tier = "reactive"
          \/ /\ x.work.tier = "reactive" /\ y.work.tier = "focused"
             /\ ~HasRoom("focused")

\* Only claim_next makes a waiting work run: no other method fills a slot, and a
\* work that waits is not running already.
LEMMA StartsIsStart ==
  ASSUME ClaimsInv, [Next]_queueVars, NEW x \in waiting, Starts(x)
  PROVE  Start(x)
<1>1. inFlight[Slot(x.work)] # x.work
  <2>1. x.work \in Works /\ x.work # NoWork /\ Slot(x.work) \in Slots
    BY WorkFields DEF ClaimsInv, CapacityInv, TypeOK
  <2> QED BY <2>1 DEF ClaimsInv, ClaimsExact, InFlight
<1>2. inFlight' # inFlight /\ waiting' # waiting
  BY <1>1 DEF Starts
<1>3. PICK z \in waiting : Start(z)
  BY <1>2 DEF Next, ClaimNext, Enqueue, Cancel, Finish, Release, queueVars
<1>4. x = z
  BY <1>3 DEF Starts, Start
<1> QED BY <1>3, <1>4

\* A turn left behind by a restatable work of its NPC is of the other tier: of its
\* own tier it would be the older, and both share the slot.
LEMMA StartGivesWay ==
  ASSUME ClaimsInv, OrderInv, [Next]_queueVars
  PROVE  StartedGivesWay
<1> SUFFICES ASSUME NEW x \in waiting, NEW y \in waiting', Starts(x),
                    x.work.trigger \in Coalesced, Slot(x.work) = Slot(y.work)
             PROVE  /\ y.work.trigger = "turn"
                    /\ \/ x.work.tier = "focused" /\ y.work.tier = "reactive"
                       \/ /\ x.work.tier = "reactive" /\ y.work.tier = "focused"
                          /\ ~HasRoom("focused")
  BY DEF StartedGivesWay
<1>1. Start(x)
  BY StartsIsStart
<1>2. y \in waiting /\ y # x
  BY <1>1 DEF Start
<1>3. y.work.trigger = "turn" /\ y.ordinal < x.ordinal
  BY <1>2 DEF OrderInv, RestatableIsNewest
<1>4. x.work.tier \in Tiers /\ y.work.tier \in Tiers
  BY <1>2, WorkFields DEF OrderInv, TypeOK
<1>5. ~(x.ordinal < y.ordinal)
  BY <1>2, <1>3 DEF OrderInv, TypeOK
<1>6. HasRoom(x.work.tier) /\ inFlight[Slot(y.work)] = NoWork
  BY <1>1 DEF Start, IsNext, Startable
<1>7. CASE HasRoom(y.work.tier)
  <2>1. DispatchedBefore(x, y)
    BY <1>1, <1>2, <1>6, <1>7 DEF Start, IsNext, Startable
  <2> QED BY <1>3, <1>5, <2>1 DEF DispatchedBefore
<1>8. CASE ~HasRoom(y.work.tier)
  BY <1>3, <1>4, <1>6, <1>8 DEF Tiers
<1> QED BY <1>7, <1>8

\* For every set of works and every limit: an NPC never has two restatable works
\* waiting, and none starts while a turn of its NPC and tier waits.
THEOREM QueueRestatable == Spec => RestatableWaitsItsTurn
<1>1. Init => CapacityInv /\ OrderInv
  <2>1. Init => OrdinalsUnique /\ RestatableIsNewest
    BY DEF Init, OrdinalsUnique, RestatableIsNewest
  <2>2. QED
    BY <2>1, CapacityInit, InitType DEF OrderInv
<1>2. OrderInv => SingleSlot
  BY DEF OrderInv, RestatableIsNewest, SingleSlot, Coalesced
<1>3. ClaimsInv /\ OrderInv /\ [Next]_queueVars => [StartedGivesWay]_queueVars
  BY StartGivesWay
<1>4. Spec => []SingleSlot /\ [][StartedGivesWay]_queueVars
  BY <1>1, <1>2, <1>3, ClaimsInit, ClaimsStep, CapacityStep, OrderStep, PTL DEF Spec
<1>5. QED
  BY <1>4 DEF RestatableWaitsItsTurn, SingleSlot, StartedGivesWay

-----------------------------------------------------------------------------
(* The scheduler that drives the queue.                                    *)

\* Every step of the scheduler does to the queue what one of its methods does, or
\* leaves it alone.
LEMMA SchedulerStepsQueue ==
  ASSUME [SchedulerNext]_schedulerVars
  PROVE  [Next]_queueVars
<1> USE DEF queueVars, loopVars, convVars
<1>1. ASSUME NEW w \in Works, Submit(w) PROVE Next
  BY <1>1 DEF Submit, Next
<1>2. ASSUME NEW works \in SUBSET Works, CancelWork(works) PROVE Next
  BY <1>2 DEF CancelWork, Next
<1>3. ASSUME Dispatch PROVE Next
  BY <1>3 DEF Dispatch, Next, ClaimNext
<1>4. ASSUME NEW w \in Works, Progress(w) PROVE [Next]_queueVars
  <2>1. ASSUME inFlight[Slot(w)] = w, Leave(w) PROVE Next
    BY <2>1 DEF Leave, Finish, Next
  <2> QED BY <1>4, <2>1 DEF Progress, Revalidate, TakeClaim,
             Generate, RevalidateLate, Publish,
             Fail, Abandon, Proceed, At
<1>5. ASSUME NEW w \in Turns,
             \/ AdmitTurn(w) \/ SuppressTurn(w) \/ SubmitTurn(w)
      PROVE  [Next]_queueVars
  BY <1>1, <1>5 DEF Turns, AdmitTurn, SuppressTurn,
     SubmitTurn
<1>6. ASSUME NEW w, AbandonCancelled(w) PROVE UNCHANGED queueVars
  BY <1>6 DEF AbandonCancelled
<1>7. CASE Wake \/ Settle \/ Finished
  BY <1>7 DEF Wake, Settle, Finished
<1>8. CASE UNCHANGED schedulerVars
  BY <1>8 DEF schedulerVars
<1> QED BY <1>1, <1>2, <1>3, <1>4, <1>5, <1>6, <1>7, <1>8 DEF SchedulerNext,
           SubmitOther, AboutEvent, ForNpcs

\* The dispatcher, the tasks and the conversation's releases drive the queue only
\* through its own methods: all that is proved of the queue holds of the running
\* scheduler (generation_scheduler.py).
THEOREM SchedulerImplementsQueue == SchedulerSpec => ImplementsQueue
<1>1. SchedulerInit => Init
  BY DEF SchedulerInit
<1> QED BY <1>1, SchedulerStepsQueue, PTL DEF SchedulerSpec, ImplementsQueue, Spec

\* So the limits, the claimed keys and the order of restatable work hold whenever
\* the scheduler runs.
THEOREM SchedulerKeepsQueueRules ==
  SchedulerSpec => [](CapacityExact /\ ClaimsExact) /\ RestatableWaitsItsTurn
BY SchedulerImplementsQueue, QueueCapacity, QueueClaims, QueueRestatable, PTL
   DEF ImplementsQueue

-----------------------------------------------------------------------------
(* Whom an awaiting session waits for.                                     *)

\* What waits or runs, and with it all the work that Outstanding looks at.
QueuedWork == {x.work : x \in waiting} \cup {inFlight[s] : s \in InFlight}
Answerers  == arriving \cup abandoning \cup QueuedWork

\* The types that the next invariants need.
SchedulerFits ==
  CapacityInv /\ arriving \subseteq Turns /\ abandoning \subseteq Works

\* drain() returns only when nothing is queued, running or unwinding: what
\* DrainReturns says of safety.
IdleIsQuiet == idle => Quiet

SchedulerInv == SchedulerFits /\ AwaitingHasAnswerer /\ IdleIsQuiet

\* Only a released or cancelled work leaves the queue, or a restatable one.
LEMMA QueuedWorkStays ==
  ASSUME CapacityInv
  PROVE  /\ QueuedWork \subseteq Works
         /\ \A w \in Works : Enqueue(w) =>
              /\ w \in QueuedWork'
              /\ \A v \in QueuedWork : v.trigger = "turn" => v \in QueuedWork'
         /\ \A x \in waiting : Start(x) => QueuedWork \subseteq QueuedWork'
         /\ \A w \in Works : Finish(w) => QueuedWork \ {w} \subseteq QueuedWork'
         /\ \A works : Cancel(works) =>
              QueuedWork \subseteq QueuedWork' \cup {x.work : x \in Matching(works)}
         /\ UNCHANGED queueVars => QueuedWork' = QueuedWork
<1> USE DEF CapacityInv
<1>1. QueuedWork \subseteq Works
  BY DEF QueuedWork, TypeOK, InFlight
<1>2. ASSUME NEW w \in Works, Enqueue(w)
      PROVE  /\ w \in QueuedWork'
             /\ \A v \in QueuedWork : v.trigger = "turn" => v \in QueuedWork'
  <2>1. \A x \in waiting : x.work.trigger = "turn" => x \in waiting'
    BY <1>2 DEF Enqueue, Superseded, Coalesced
  <2>2. \E x \in waiting' : x.work = w
    <3>1. [work |-> w, ordinal |-> arrivals + 1] \in waiting'
      BY <1>2 DEF Enqueue
    <3> QED BY <3>1
  <2>3. InFlight' = InFlight /\ inFlight' = inFlight
    BY <1>2 DEF Enqueue, InFlight
  <2> QED BY <2>1, <2>2, <2>3 DEF QueuedWork
<1>3. ASSUME NEW x \in waiting, Start(x) PROVE QueuedWork \subseteq QueuedWork'
  <2>1. \A y \in waiting : y # x => y \in waiting'
    BY <1>3 DEF Start
  <2>2. x.work \in {inFlight'[s] : s \in InFlight'}
    BY <1>3, StartInFlight
  <2>3. \A s \in InFlight : s \in InFlight' /\ inFlight'[s] = inFlight[s]
    BY <1>3, StartInFlight
  <2> QED BY <2>1, <2>2, <2>3 DEF QueuedWork
<1>4. ASSUME NEW w \in Works, Finish(w) PROVE QueuedWork \ {w} \subseteq QueuedWork'
  <2>1. waiting' = waiting /\ inFlight[Slot(w)] = w
    BY <1>4 DEF Finish, Release
  <2>2. \A s \in InFlight \ {Slot(w)} : s \in InFlight' /\ inFlight'[s] = inFlight[s]
    BY <1>4, ReleaseInFlight
  <2> QED BY <2>1, <2>2 DEF QueuedWork
<1>5. ASSUME NEW works, Cancel(works)
      PROVE  QueuedWork \subseteq QueuedWork' \cup {x.work : x \in Matching(works)}
  <2>1. InFlight' = InFlight /\ inFlight' = inFlight /\ waiting' = waiting \ Matching(works)
    BY <1>5 DEF Cancel, InFlight
  <2> QED BY <2>1 DEF QueuedWork
<1>6. ASSUME UNCHANGED queueVars PROVE QueuedWork' = QueuedWork
  BY <1>6 DEF queueVars, QueuedWork, InFlight
<1> QED BY <1>1, <1>2, <1>3, <1>4, <1>5, <1>6

\* The conversation is let go with a turn unless other work will answer another.
LEMMA ReleasedIs ==
  ASSUME NEW w
  PROVE  Released(w) =
           IF /\ w.trigger = "turn"
              /\ ~\E v \in QueuedWork : v.session = w.session /\ v.trigger = "turn" /\ v # w
           THEN awaiting \ {w.session} ELSE awaiting
BY DEF Released, HoldsTrigger, QueuedWork

\* Outstanding, before and after a step.
LEMMA AnswererIs ==
  /\ \A session : Outstanding(session) <=>
       \E w \in Answerers : w.session = session /\ w.trigger = "turn"
  /\ \A session : Outstanding(session)' <=>
       \E w \in Answerers' : w.session = session /\ w.trigger = "turn"
<1>1. \A session : Outstanding(session) <=>
        \E w \in Answerers : w.session = session /\ w.trigger = "turn"
  BY DEF Outstanding, Answerers, QueuedWork
<1>2. \A session : Outstanding(session)' <=>
        \E w \in Answerers' : w.session = session /\ w.trigger = "turn"
  BY DEF Outstanding, Answerers, QueuedWork, InFlight, Slots
<1> QED BY <1>1, <1>2

\* An awaiting session keeps an answerer if each of its own stays, or another one
\* is there.
LEMMA KeepsAnswerers ==
  ASSUME AwaitingHasAnswerer, stranded \subseteq stranded',
         awaiting' \subseteq awaiting,
         \A w \in Answerers \ Answerers' : w.trigger = "turn" /\ w.session \in awaiting' =>
           \/ \E v \in Answerers' : v.session = w.session /\ v.trigger = "turn"
           \/ w.session \in stranded'
  PROVE  AwaitingHasAnswerer'
BY AnswererIs DEF AwaitingHasAnswerer

\* A released work lets its session go, or leaves another turn's work behind.
LEMMA GivenUpKeepsAnswerers ==
  ASSUME AwaitingHasAnswerer, stranded \subseteq stranded', NEW w,
         awaiting' = Released(w), QueuedWork \ {w} \subseteq QueuedWork',
         Answerers \ {w} \subseteq Answerers'
  PROVE  AwaitingHasAnswerer'
<1>1. awaiting' \subseteq awaiting
  BY ReleasedIs
<1>2. ASSUME w.trigger = "turn", w.session \in awaiting'
      PROVE  \E v \in Answerers' : v.session = w.session /\ v.trigger = "turn"
  <2>1. \E v \in QueuedWork : v.session = w.session /\ v.trigger = "turn" /\ v # w
    BY <1>2, ReleasedIs
  <2> QED BY <2>1 DEF Answerers
<1> QED BY <1>1, <1>2, KeepsAnswerers

\* A task gives up or ends: its slot is released and its work answers no more.
LEMMA LeaveKeeps ==
  ASSUME SchedulerInv, NEW w \in Works, inFlight[Slot(w)] = w, Leave(w)
  PROVE  /\ SchedulerFits' /\ IdleIsQuiet'
         /\ QueuedWork \ {w} \subseteq QueuedWork' /\ Answerers \ {w} \subseteq Answerers'
<1> USE DEF Leave, SchedulerInv, SchedulerFits
<1>1. Finish(w)
  BY DEF Finish
<1>2. CapacityInv'
  BY <1>1, CapacityStep DEF Next
<1>3. ~idle
  BY <1>1, ReleaseInFlight DEF IdleIsQuiet, Quiet, CapacityInv
<1>4. QueuedWork \ {w} \subseteq QueuedWork'
  BY <1>1, QueuedWorkStays
<1> QED BY <1>2, <1>3, <1>4 DEF IdleIsQuiet, Answerers, Turns

\* An abandoned task leaves, and those that awaited it have been let go.
LEMMA AbandonStep ==
  ASSUME SchedulerInv, NEW w \in Works, inFlight[Slot(w)] = w, Abandon(w)
  PROVE  SchedulerInv'
<1> USE DEF Abandon, SchedulerInv
<1>1. AwaitingHasAnswerer'
  BY LeaveKeeps, GivenUpKeepsAnswerers
<1> QED BY <1>1, LeaveKeeps

\* A task that goes on to its next step.
LEMMA ProceedStep ==
  ASSUME SchedulerInv, NEW w \in Works, NEW place, Proceed(w, place),
         UNCHANGED convVars
  PROVE  SchedulerInv'
<1> USE DEF SchedulerInv, Proceed, convVars, queueVars,
            loopVars
<1>1. UNCHANGED queueVars
  BY DEF queueVars
<1>2. SchedulerFits'
  BY <1>1, CapacityStep DEF SchedulerFits, Turns
<1>3. IdleIsQuiet'
  BY DEF IdleIsQuiet, Quiet, InFlight, Slots
<1>4. AwaitingHasAnswerer'
  BY <1>1, QueuedWorkStays, KeepsAnswerers DEF Answerers, SchedulerFits
<1> QED BY <1>2, <1>3, <1>4

\* A task that goes on to its next await keeps the invariant.
LEMMA ProgressStep ==
  ASSUME SchedulerInv, NEW w \in Works,
         Progress(w)
  PROVE  SchedulerInv'
<1>0. inFlight[Slot(w)] = w
  BY DEF Progress, Revalidate, TakeClaim, Generate, RevalidateLate, Publish, Fail, At
<1>1. CASE Abandon(w)
  BY <1>0, <1>1, AbandonStep
<1>2. CASE \E place : Proceed(w, place) /\ UNCHANGED convVars
  BY <1>2, ProceedStep
<1>3. CASE Publish(w)
  <2> USE <1>3 DEF SchedulerInv, Publish
  <2>1. AwaitingHasAnswerer'
    BY <1>0, LeaveKeeps, KeepsAnswerers, SchedulerAssumption DEF Turns
  <2> QED BY <1>0, <2>1, LeaveKeeps
<1>4. CASE Fail(w)
  <2> USE <1>4 DEF SchedulerInv, Fail
  <2>1. AwaitingHasAnswerer'
    BY <1>0, LeaveKeeps, KeepsAnswerers
  <2> QED BY <1>0, <2>1, LeaveKeeps
<1> QED BY <1>1, <1>2, <1>3, <1>4 DEF Progress, Revalidate,
           TakeClaim, Generate, RevalidateLate

\* New work comes with its answerer, or is none.
LEMMA SubmitStep ==
  ASSUME SchedulerInv, NEW w \in Works, Submit(w), arriving \ {w} \subseteq arriving',
         arriving' \subseteq arriving
  PROVE  SchedulerInv'
<1> USE DEF SchedulerInv, Submit
<1>1. Enqueue(w)
  OBVIOUS
<1>2. SchedulerFits'
  BY <1>1, CapacityStep DEF SchedulerFits, Turns, Next
<1>3. AwaitingHasAnswerer'
  BY <1>1, QueuedWorkStays, KeepsAnswerers DEF Answerers, SchedulerFits
<1> QED BY <1>2, <1>3 DEF IdleIsQuiet

\* A turn begins to wait with its answerer, and stops when it is suppressed.
LEMMA TurnStep ==
  ASSUME SchedulerInv, NEW w \in Turns,
         AdmitTurn(w) \/ SuppressTurn(w)
  PROVE  SchedulerInv'
<1> USE DEF SchedulerInv
<1>1. UNCHANGED queueVars /\ UNCHANGED loopVars /\ UNCHANGED <<abandoning, stranded>>
  BY DEF AdmitTurn, SuppressTurn, queueVars
<1>2. SchedulerFits'
  BY <1>1, CapacityStep DEF SchedulerFits, Turns, AdmitTurn,
     SuppressTurn
<1>3. IdleIsQuiet'
  BY <1>1 DEF IdleIsQuiet, Quiet, InFlight,
     Slots, loopVars, queueVars
<1>4. QueuedWork' = QueuedWork
  BY <1>1, QueuedWorkStays DEF SchedulerFits
<1>5. CASE AdmitTurn(w)
  <2>1. /\ w \in Answerers' /\ w.trigger = "turn" /\ Answerers \subseteq Answerers'
        /\ awaiting' = awaiting \cup {w.session} /\ UNCHANGED stranded
    BY <1>4, <1>5 DEF Answerers, AdmitTurn, Turns
  <2> QED BY <1>2, <1>3, <2>1, AnswererIs DEF AwaitingHasAnswerer
<1>6. CASE SuppressTurn(w)
  <2>1. AwaitingHasAnswerer'
    BY <1>1, <1>4, <1>6, KeepsAnswerers DEF Answerers, SuppressTurn
  <2> QED BY <1>2, <1>3, <2>1
<1> QED BY <1>5, <1>6

\* What a cancel() evicts is still to be abandoned; then it lets its session go.
LEMMA CancelStep ==
  ASSUME SchedulerInv, NEW works \in SUBSET Works, CancelWork(works)
  PROVE  SchedulerInv'
<1> USE DEF SchedulerInv, CancelWork
<1>1. Cancel(works) /\ abandoning' = {x.work : x \in Matching(works)}
  OBVIOUS
<1>2. SchedulerFits'
  <2>1. abandoning' \subseteq Works
    BY <1>1 DEF Matching
  <2> QED BY <1>1, <2>1, CapacityStep DEF SchedulerFits, Turns, Next
<1>3. IdleIsQuiet'
  <2>1. CASE abandoning' = {}
    <3>1. Matching(works) = {}
      BY <1>1, <2>1
    <3>2. UNCHANGED <<waiting, inFlight, unwinding>> /\ idle' = Settled
      BY <1>1, <2>1, <3>1 DEF Cancel
    <3> QED BY <3>2 DEF IdleIsQuiet, Settled, Quiet,
               InFlight, Slots
  <2>2. CASE idle' = idle
    <3>1. waiting' \subseteq waiting /\ UNCHANGED <<inFlight, unwinding>>
      BY <1>1 DEF Cancel
    <3> QED BY <2>2, <3>1 DEF IdleIsQuiet, Quiet,
               InFlight, Slots
  <2> QED BY <2>1, <2>2
<1>4. AwaitingHasAnswerer'
  BY <1>1, QueuedWorkStays, KeepsAnswerers DEF Answerers, SchedulerFits
<1> QED BY <1>2, <1>3, <1>4

\* The callback of a cancelled entry touches no task and no slot.
LEMMA AbandonCancelledStep ==
  ASSUME SchedulerInv, NEW w, AbandonCancelled(w)
  PROVE  SchedulerInv'
<1> USE DEF SchedulerInv, AbandonCancelled
<1>1. UNCHANGED queueVars
  BY DEF queueVars
<1>2. SchedulerFits'
  BY <1>1, CapacityStep DEF SchedulerFits, Turns
<1>3. IdleIsQuiet'
  BY <1>1 DEF IdleIsQuiet, Settled, Quiet, InFlight,
     Slots, queueVars
<1>4. AwaitingHasAnswerer'
  BY <1>1, QueuedWorkStays, GivenUpKeepsAnswerers DEF Answerers, SchedulerFits
<1> QED BY <1>2, <1>3, <1>4

\* Starting work moves it from the list to its slot; the rest of the loop and the
\* done callbacks change neither.
LEMMA DispatcherStep ==
  ASSUME SchedulerInv,
         Wake \/ Dispatch \/ Settle \/ Finished
  PROVE  SchedulerInv'
<1> USE DEF SchedulerInv, convVars, loopVars, queueVars
<1>1. CASE Dispatch
  <2>1. PICK x \in waiting : Start(x)
    BY <1>1 DEF Dispatch
  <2>2. SchedulerFits'
    BY <1>1, <2>1, CapacityStep DEF SchedulerFits, Turns, Dispatch, Next,
       ClaimNext
  <2>3. IdleIsQuiet'
    BY <1>1, <2>1 DEF IdleIsQuiet, Quiet, Dispatch
  <2>4. AwaitingHasAnswerer'
    BY <1>1, <2>1, QueuedWorkStays, KeepsAnswerers DEF Answerers, SchedulerFits, Dispatch
  <2> QED BY <2>2, <2>3, <2>4
<1>2. CASE Wake \/ Settle \/ Finished
  <2> USE <1>2 DEF Wake, Settle, Finished
  <2>1. UNCHANGED queueVars
    BY DEF queueVars
  <2>2. SchedulerFits'
    BY <2>1, CapacityStep DEF SchedulerFits, Turns
  <2>3. IdleIsQuiet'
    <3> USE DEF IdleIsQuiet, Quiet, InFlight, Slots
    <3>1. CASE Settle
      BY <3>1 DEF Settled
    <3>2. CASE Wake
      BY <3>2
    <3>3. CASE Finished
      BY <3>3
    <3> QED BY <1>2, <3>1, <3>2, <3>3
  <2>4. AwaitingHasAnswerer'
    BY <2>1, QueuedWorkStays, KeepsAnswerers DEF Answerers, SchedulerFits
  <2> QED BY <2>2, <2>3, <2>4
<1> QED BY <1>1, <1>2

\* The scheduler starts idle: nothing waits, and nobody awaits an answer.
LEMMA SchedulerBegins ==
  ASSUME SchedulerInit PROVE SchedulerInv
<1> USE DEF SchedulerInit
<1>1. Init
  BY DEF Init, Slots, Tiers
<1>2. SchedulerFits
  BY <1>1, CapacityInit DEF SchedulerFits
<1>3. AwaitingHasAnswerer
  BY DEF AwaitingHasAnswerer
<1>4. IdleIsQuiet
  BY <1>1 DEF IdleIsQuiet, Quiet, Init, InFlight
<1> QED BY <1>2, <1>3, <1>4 DEF SchedulerInv

\* Every step of the scheduler keeps its invariant: one case per action.
LEMMA SchedulerGoesOn ==
  ASSUME SchedulerInv, [SchedulerNext]_schedulerVars
  PROVE  SchedulerInv'
<1>1. ASSUME NEW w \in Turns, SubmitTurn(w) PROVE SchedulerInv'
  BY <1>1, SubmitStep DEF SubmitTurn, Turns
<1>2. ASSUME NEW w \in Works, SubmitOther(w) PROVE SchedulerInv'
  BY <1>2, SubmitStep DEF SubmitOther
<1>3. CASE UNCHANGED schedulerVars
  <2> USE <1>3 DEF SchedulerInv, schedulerVars, convVars, loopVars,
                   queueVars
  <2>1. UNCHANGED queueVars
    BY DEF queueVars
  <2>2. SchedulerFits'
    BY <2>1, CapacityStep DEF SchedulerFits, Turns
  <2>3. IdleIsQuiet'
    BY DEF IdleIsQuiet, Quiet, InFlight, Slots
  <2>4. AwaitingHasAnswerer'
    BY <2>1, QueuedWorkStays, KeepsAnswerers DEF Answerers, SchedulerFits
  <2> QED BY <2>2, <2>3, <2>4
<1> QED BY <1>1, <1>2, <1>3, TurnStep, CancelStep, AbandonCancelledStep, DispatcherStep,
           ProgressStep
        DEF SchedulerNext, AboutEvent, ForNpcs

\* A conversation never waits for nobody: while a session awaits an answer, some
\* turn's work will still answer it or let it go, whoever gave the other turns up,
\* unless a task raised.
THEOREM AwaitingAlwaysAnswered ==
  SchedulerSpec => []AwaitingHasAnswerer
<1>1. SchedulerInv => AwaitingHasAnswerer
  BY DEF SchedulerInv
<1> QED BY <1>1, SchedulerBegins, SchedulerGoesOn, PTL DEF SchedulerSpec

\* Whoever waits in drain() is let go only when nothing is queued, running or
\* unwinding.
THEOREM DrainIsQuiet ==
  SchedulerSpec => [](idle => Quiet)
<1>1. SchedulerInv => (idle => Quiet)
  BY DEF SchedulerInv, IdleIsQuiet
<1> QED BY <1>1, SchedulerBegins, SchedulerGoesOn, PTL DEF SchedulerSpec

-----------------------------------------------------------------------------
(* The types of the scheduler, and where a task stands.                    *)

\* A slot has a step exactly while work runs in it: the two are set when the
\* dispatcher starts the work and cleared together in the task's `finally`.
LEMMA SchedulerTypeStep ==
  ASSUME SchedulerInv, SchedulerTypeOK, [SchedulerNext]_schedulerVars
  PROVE  SchedulerTypeOK'
<1> USE DEF SchedulerTypeOK
<1>1. TypeOK'
  BY SchedulerGoesOn DEF SchedulerInv, SchedulerFits, CapacityInv
<1>2. arriving' \subseteq Turns /\ abandoning' \subseteq Works
  BY SchedulerGoesOn DEF SchedulerInv, SchedulerFits, Turns
<1>3. \A w \in Works : /\ Slot(w) \in Slots /\ w # NoWork
                       /\ w.session \in Sessions /\ w.key \in Keys
  BY WorkFields
<1>4. ASSUME UNCHANGED <<step, inFlight, unwinding, claims, stranded>>,
             offered' \subseteq Keys, awaiting' \subseteq Sessions, UNCHANGED worker,
             runnable' \in BOOLEAN, idle' \in BOOLEAN
      PROVE  SchedulerTypeOK'
  BY <1>1, <1>2, <1>4
<1>5. ASSUME NEW w \in Works, inFlight[Slot(w)] = w, Leave(w), UNCHANGED claims,
             awaiting' \subseteq Sessions, stranded' \subseteq Sessions
      PROVE  SchedulerTypeOK'
  BY <1>1, <1>2, <1>3, <1>5 DEF Leave, Release, TypeOK, Steps
<1>6. ASSUME NEW w \in Works, NEW place \in Steps \ {"none"}, Proceed(w, place),
             inFlight[Slot(w)] = w, UNCHANGED convVars, claims' \subseteq Keys
      PROVE  SchedulerTypeOK'
  BY <1>1, <1>2, <1>3, <1>6 DEF Proceed, convVars, loopVars, queueVars
<1>7. \A w : Released(w) \subseteq Sessions
  BY DEF Released
<1>8. ASSUME NEW w \in Works, Progress(w) PROVE SchedulerTypeOK'
  <2>0. inFlight[Slot(w)] = w
    BY <1>8 DEF Progress, Revalidate, TakeClaim, Generate, RevalidateLate, Publish, Fail, At
  <2>1. CASE Abandon(w) /\ UNCHANGED claims
    BY <1>5, <1>7, <2>0, <2>1 DEF Abandon
  <2>2. CASE Publish(w) \/ Fail(w)
    BY <1>3, <1>5, <2>0, <2>2 DEF Publish, Fail
  <2>3. CASE /\ inFlight[Slot(w)] = w /\ UNCHANGED convVars /\ claims' \subseteq Keys
             /\ \E place \in Steps \ {"none"} : Proceed(w, place)
    BY <1>6, <2>3
  <2> QED BY <1>3, <1>8, <2>1, <2>2, <2>3
          DEF Progress, Revalidate, TakeClaim, Generate, RevalidateLate, At, Steps
<1>9. CASE Dispatch
  <2>1. PICK x \in waiting : Start(x) /\ step' = [step EXCEPT ![Slot(x.work)] = "checking"]
    BY <1>9 DEF Dispatch
  <2>2. x.work \in Works
    BY DEF TypeOK
  <2> QED BY <1>1, <1>2, <1>3, <1>9, <2>1, <2>2
          DEF Dispatch, Start, TypeOK, Steps, loopVars, convVars
<1>10. CASE Wake \/ Settle \/ Finished
  <2>1. UNCHANGED <<step, inFlight, claims, offered, awaiting, stranded>>
    BY <1>10 DEF Wake, Settle, Finished, convVars, queueVars
  <2>2. unwinding' \in Nat
    BY <1>10 DEF Wake, Settle, Finished
  <2>3. runnable' \in BOOLEAN /\ worker' \in {"waiting", "dispatching"}
    BY <1>10 DEF Wake, Settle, Finished
  <2>4. idle' \in BOOLEAN
    BY <1>10 DEF Wake, Settle, Settled, Finished
  <2> QED BY <1>1, <1>2, <2>1, <2>2, <2>3, <2>4
<1>11. CASE \E w \in Turns : AdmitTurn(w) \/ SuppressTurn(w) \/ SubmitTurn(w)
  BY <1>3, <1>4, <1>11 DEF AdmitTurn, SuppressTurn, SubmitTurn, Submit, Enqueue, loopVars,
     queueVars, Turns
<1>12. CASE \E w \in Works \ Turns : SubmitOther(w)
  BY <1>3, <1>4, <1>12 DEF SubmitOther, Submit, Enqueue
<1>13. CASE \/ \E works : CancelWork(works)
            \/ \E w : AbandonCancelled(w)
  BY <1>4, <1>7, <1>13 DEF CancelWork, Cancel, AbandonCancelled, Settled, Quiet, queueVars
<1>14. CASE UNCHANGED schedulerVars
  BY <1>1, <1>2, <1>14 DEF schedulerVars, queueVars, loopVars, convVars
<1> QED BY <1>8, <1>9, <1>10, <1>11, <1>12, <1>13, <1>14 DEF SchedulerNext

\* The scheduler's types, with the queue's, for every set of works and every limit;
\* a slot is occupied exactly while a task stands somewhere in it.
THEOREM SchedulerTypes == SchedulerSpec => []SchedulerTypeOK
<1>1. SchedulerInit => SchedulerTypeOK
  <2> SUFFICES ASSUME SchedulerInit PROVE SchedulerTypeOK
    OBVIOUS
  <2>1. TypeOK
    BY SchedulerBegins DEF SchedulerInv, SchedulerFits, CapacityInv
  <2> QED BY <2>1 DEF SchedulerInit, SchedulerTypeOK, Init, Steps
<1> QED BY <1>1, SchedulerBegins, SchedulerGoesOn, SchedulerTypeStep, PTL DEF SchedulerSpec
=============================================================================
