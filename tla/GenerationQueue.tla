--------------------------- MODULE GenerationQueue ---------------------------
(***************************************************************************)
(* The ordering and capacity rules of backend/orchestration/               *)
(* generation_queue.py: which pending generation runs next, and how much   *)
(* runs at once.                                                           *)
(*                                                                         *)
(* A piece of work is a record [session, npc, tier, trigger, key].  The    *)
(* code's `_waiting` list carries an arrival ordinal in every entry and is *)
(* only ever searched by it, so the list is a set of [work, ordinal].      *)
(* `_in_flight` is a dict keyed by (session, npc): a function with NoWork  *)
(* where the dict has no entry.  Nothing here awaits, so every method is   *)
(* one action.                                                             *)
(***************************************************************************)
EXTENDS Integers, FiniteSets

CONSTANTS
  Sessions, Npcs,   \* a slot is one NPC of one session
  Keys,             \* claim keys: what makes two pieces of work the same
  Works,            \* the work that may be offered
  NoWork,           \* an empty slot
  FocusedLimit, ReactiveLimit, TotalLimit,
  MaxArrivals       \* bound of the model: enqueues accepted in one behaviour

Tiers     == {"focused", "reactive"}
Triggers  == {"turn", "event", "promotion", "expiry"}
Coalesced == {"event", "promotion", "expiry"}
Slots     == Sessions \X Npcs

WorkRecords ==
  [session: Sessions, npc: Npcs, tier: Tiers, trigger: Triggers, key: Keys]

ASSUME QueueAssumption ==
  /\ IsFiniteSet(Sessions) /\ IsFiniteSet(Npcs)
  /\ Works \subseteq WorkRecords
  /\ NoWork \notin Works
  /\ FocusedLimit \in Nat /\ ReactiveLimit \in Nat /\ TotalLimit \in Nat
  /\ MaxArrivals \in Nat

VARIABLES
  waiting,        \* accepted work not started, with its arrival ordinal
  inFlight,       \* slot -> the work running in it, or NoWork
  inFlightTiers,  \* tier -> how many running works hold that tier
  claimed,        \* keys of everything waiting or running
  arrivals        \* the last ordinal given out

queueVars == <<waiting, inFlight, inFlightTiers, claimed, arrivals>>

-----------------------------------------------------------------------------
Slot(w)  == <<w.session, w.npc>>
Limit    == [t \in Tiers |-> IF t = "focused" THEN FocusedLimit ELSE ReactiveLimit]
KeysOf(entries) == {x.work.key : x \in entries}

InFlight     == {s \in Slots : inFlight[s] # NoWork}
InFlightOf(t) == {s \in InFlight : inFlight[s].tier = t}

Init ==
  /\ waiting = {}
  /\ inFlight = [s \in Slots |-> NoWork]
  /\ inFlightTiers = [t \in Tiers |-> 0]
  /\ claimed = {}
  /\ arrivals = 0

\* Mutant of Superseded: a turn supersedes nothing.
SupersededByRestatable(w) ==
  {x \in waiting : /\ Slot(x.work) = Slot(w) /\ x.work.trigger \in Coalesced
                   /\ w.trigger \in Coalesced}

\* Work of w's NPC that a later delivery restates, so that w replaces it.
Superseded(w) ==
  {x \in waiting : Slot(x.work) = Slot(w) /\ x.work.trigger \in Coalesced}

\* Mutant of Enqueue: an evicted work keeps its key.
EnqueueKeepsClaims(w) ==
  /\ arrivals < MaxArrivals
  /\ w.key \notin claimed
  /\ arrivals' = arrivals + 1
  /\ waiting' = (waiting \ Superseded(w)) \cup {[work |-> w, ordinal |-> arrivals + 1]}
  /\ claimed' = claimed \cup {w.key}
  /\ UNCHANGED <<inFlight, inFlightTiers>>

\* Take w, evicting what it supersedes; the same work is never taken twice.
Enqueue(w) ==
  /\ arrivals < MaxArrivals
  /\ w.key \notin claimed
  /\ arrivals' = arrivals + 1
  /\ waiting' = (waiting \ Superseded(w)) \cup {[work |-> w, ordinal |-> arrivals + 1]}
  /\ claimed' = (claimed \ KeysOf(Superseded(w))) \cup {w.key}
  /\ UNCHANGED <<inFlight, inFlightTiers>>

\* Mutant of HasRoom: one more than the limit may run.
HasRoomOffByOne(t) ==
  inFlightTiers[t] <= Limit[t]

HasRoom(t) == inFlightTiers[t] < Limit[t]

Startable ==
  {x \in waiting : inFlight[Slot(x.work)] = NoWork /\ HasRoom(x.work.tier)}

\* Focused before reactive, and within a tier the one that arrived first.
DispatchedBefore(x, y) ==
  \/ x.work.tier = "focused" /\ y.work.tier = "reactive"
  \/ x.work.tier = y.work.tier /\ x.ordinal < y.ordinal

\* Entry x is what claim_next hands out.
IsNext(x) ==
  /\ Cardinality(InFlight) < TotalLimit
  /\ x \in Startable
  /\ \A y \in Startable \ {x} : DispatchedBefore(x, y)

Start(x) ==
  /\ IsNext(x)
  /\ waiting' = waiting \ {x}
  /\ inFlight' = [inFlight EXCEPT ![Slot(x.work)] = x.work]
  /\ inFlightTiers' = [inFlightTiers EXCEPT ![x.work.tier] = @ + 1]
  /\ UNCHANGED <<claimed, arrivals>>

ClaimNext == \E x \in waiting : Start(x)

\* Give back what w held.  Nothing is checked: the slot is emptied whoever runs in
\* it, and the counter falls even below zero.
Release(w) ==
  /\ inFlight' = [inFlight EXCEPT ![Slot(w)] = NoWork]
  /\ inFlightTiers' = [inFlightTiers EXCEPT ![w.tier] = @ - 1]
  /\ claimed' = claimed \ {w.key}
  /\ UNCHANGED <<waiting, arrivals>>

\* What the queue relies on: a work is released once, while it runs (the `finally`
\* of the task that runs it).  The scheduler is shown to keep to it.
Finish(w) == inFlight[Slot(w)] = w /\ Release(w)

\* Drop every waiting item a predicate of the caller accepts.
Matching(works) == {x \in waiting : x.work \in works}

Cancel(works) ==
  /\ waiting' = waiting \ Matching(works)
  /\ claimed' = claimed \ KeysOf(Matching(works))
  /\ UNCHANGED <<inFlight, inFlightTiers, arrivals>>

\* Other work of this trigger, in the session, that is waiting or running.
HoldsTrigger(session, trigger, excluding) ==
  \E w \in {x.work : x \in waiting} \cup {inFlight[s] : s \in InFlight} :
    w.session = session /\ w.trigger = trigger /\ w # excluding

Next ==
  \/ \E w \in Works : Enqueue(w)
  \/ ClaimNext
  \/ \E w \in Works : Finish(w)
  \/ \E works \in SUBSET Works : Cancel(works)

Spec == Init /\ [][Next]_queueVars

-----------------------------------------------------------------------------
TypeOK ==
  /\ waiting \subseteq [work: Works, ordinal: 1..MaxArrivals]
  /\ inFlight \in [Slots -> Works \cup {NoWork}]
  /\ inFlightTiers \in [Tiers -> Nat]
  /\ claimed \subseteq Keys
  /\ arrivals \in 0..MaxArrivals

\* The running work never exceeds a tier's limit nor the total, and the counter
\* the next start is judged by is the number of works that really hold the tier:
\* a release that missed, or came twice, would leak or invent capacity.
CapacityExact ==
  /\ \A t \in Tiers : /\ inFlightTiers[t] = Cardinality(InFlightOf(t))
                      /\ inFlightTiers[t] <= Limit[t]
  /\ Cardinality(InFlight) <= TotalLimit
  /\ \A s \in InFlight : Slot(inFlight[s]) = s

\* `_claimed` holds exactly the keys of what waits or runs, and no key names two
\* of those: a key left behind refuses its work for ever, a key dropped early lets
\* the same work run twice.
ClaimsExact ==
  /\ claimed = KeysOf(waiting) \cup {inFlight[s].key : s \in InFlight}
  /\ \A x, y \in waiting : x.work.key = y.work.key => x = y
  /\ \A s, r \in InFlight : inFlight[s].key = inFlight[r].key => s = r
  /\ \A x \in waiting, s \in InFlight : x.work.key # inFlight[s].key

\* The work x leaves the list to run.
Starts(x) == x \in waiting \ waiting' /\ inFlight'[Slot(x.work)] = x.work

\* An NPC has at most one waiting piece of restatable work, and one that starts has
\* no turn of its NPC and tier left behind it: a turn is passed over only by a
\* Focused one when it is Reactive itself, or by a Reactive one when it is Focused
\* and its tier is full.
RestatableWaitsItsTurn ==
  /\ [](\A x, y \in waiting :
          /\ Slot(x.work) = Slot(y.work)
          /\ x.work.trigger \in Coalesced /\ y.work.trigger \in Coalesced
          => x = y)
  /\ [][\A x \in waiting, y \in waiting' :
          /\ Starts(x) /\ x.work.trigger \in Coalesced
          /\ Slot(x.work) = Slot(y.work)
          => /\ y.work.trigger = "turn"
             /\ \/ x.work.tier = "focused" /\ y.work.tier = "reactive"
                \/ /\ x.work.tier = "reactive" /\ y.work.tier = "focused"
                   /\ ~HasRoom("focused")]_queueVars

=============================================================================
