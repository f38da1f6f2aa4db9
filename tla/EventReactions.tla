--------------------------- MODULE EventReactions ---------------------------
(***************************************************************************)
(* The revisions of one game event, from intake to what an NPC says of     *)
(* them: EventStore.record (event_store.py), the coordinator's event and   *)
(* routing triggers with the policy that judges them, the NPC's place in   *)
(* the queue and the two revalidations of the task that takes it.          *)
(*                                                                         *)
(* Requests are handled concurrently.  Every read and write of the store   *)
(* is awaited and is a step of its own; what follows a read up to the next *)
(* await is in the same step.  Of the queue it keeps that an NPC has one   *)
(* place for restatable work and one task (GenerationQueue).  What routing *)
(* answers, which NPCs have a part in the event, whether the store is      *)
(* available and whether a provider answers are choices.  The process      *)
(* stays up and the session is not reset.                                  *)
(***************************************************************************)
EXTENDS Naturals

CONSTANTS
  Npcs,
  Messages,     \* the revisions that may be delivered, any number of times
  Calls,        \* bound of the model: names of requests in progress
  NoMessage, NoWork

MessageRecords == [id: Nat, revision: Nat \ {0}, terminal: BOOLEAN, time: Nat]
Works == [trigger: {"event", "noticed"}, revision: Nat \ {0}]

ASSUME EventAssumption ==
  /\ Messages \subseteq MessageRecords /\ NoMessage \notin Messages
  /\ NoWork \notin Works

VARIABLES
  stored,     \* durable: the event's rows, [message, witnesses]
  call,       \* name -> the request in progress under it
  outcome,    \* the latest routing of the session
  noticed,    \* NPC -> revision its promotion or expiry was decided on, or 0
  waiting,    \* NPC -> restatable work in the queue
  running,    \* NPC -> the work of its task
  stage,      \* NPC -> what that task does next
  reacted,    \* history: revision -> how often the coordinator was told of it
  spoken      \* history: NPC -> revision of the reaction it was last sent

tasks == <<waiting, running, stage>>
vars == <<stored, call, outcome, noticed, tasks, reacted, spoken>>

Revisions == {m.revision : m \in Messages}
\* A routing, with the NPCs it lets generate; one that failed closed assigns nothing.
NotRouted == [routed |-> FALSE, generating |-> {}]
Outcomes  == {NotRouted} \cup [routed: {TRUE}, generating: SUBSET Npcs]
Places == {"none", "message", "revision", "latest", "insert", "react", "route",
           "decide"}
Stages == {"none", "starting", "checking", "generating", "rechecking", "publishing"}

NoCall == [message |-> NoMessage, at |-> "none", witnesses |-> {},
           outcome |-> NotRouted]

Init ==
  /\ stored = {}
  /\ call = [c \in Calls |-> NoCall]
  /\ outcome = NotRouted
  /\ noticed = [n \in Npcs |-> 0]
  /\ waiting = [n \in Npcs |-> NoWork] /\ running = [n \in Npcs |-> NoWork]
  /\ stage = [n \in Npcs |-> "none"]
  /\ reacted = [r \in Revisions |-> 0]
  /\ spoken = [n \in Npcs |-> 0]

-----------------------------------------------------------------------------
(* EventStore.record.                                                      *)

\* The row events.latest() finds, of a chain that has one.
Newest == CHOOSE x \in stored : \A y \in stored : y.message.revision <= x.message.revision
IsActive == stored # {} /\ ~Newest.message.terminal

\* Mutant of Extends: a gap is let through.
ExtendsAnyLater(m) ==
  IF stored = {} THEN TRUE
  ELSE /\ ~Newest.message.terminal
       /\ m.revision > Newest.message.revision
       /\ m.time >= Newest.message.time

\* The chain accepts this revision next.
Extends(m) ==
  IF stored = {} THEN m.revision = 1
  ELSE /\ ~Newest.message.terminal
       /\ m.revision = Newest.message.revision + 1
       /\ m.time >= Newest.message.time

Goes(c, place) == call' = [call EXCEPT ![c].at = place]
Finish(c)      == call' = [call EXCEPT ![c] = NoCall]

Deliver(c, m) ==
  /\ call[c] = NoCall
  /\ call' = [call EXCEPT ![c] = [NoCall EXCEPT !.message = m, !.at = "message"]]
  /\ UNCHANGED <<stored, outcome, noticed, tasks, reacted, spoken>>

\* A delivery identity that is stored is a duplicate or a conflict, and so is a
\* revision that is stored.
LookFor(c, place, known, next) ==
  /\ call[c].at = place
  /\ IF known THEN Finish(c) ELSE Goes(c, next)
  /\ UNCHANGED <<stored, outcome, noticed, tasks, reacted, spoken>>

HasMessage(m)  == \E x \in stored : x.message.id = m.id
HasRevision(m) == \E x \in stored : x.message.revision = m.revision

ReadMessage(c)  == LookFor(c, "message", HasMessage(call[c].message), "revision")
ReadRevision(c) == LookFor(c, "revision", HasRevision(call[c].message), "latest")

\* The started revision fixes the witnesses of the event.
Inherited(own) == IF stored = {} THEN own ELSE Newest.witnesses

\* Who could have seen the event was settled at delivery, from a world state that
\* nothing else here depends on.
ReadLatest(c) ==
  /\ call[c].at = "latest"
  /\ IF Extends(call[c].message)
     THEN \E own \in SUBSET Npcs :
            call' = [call EXCEPT ![c].at = "insert", ![c].witnesses = Inherited(own)]
     ELSE Finish(c)
  /\ UNCHANGED <<stored, outcome, noticed, tasks, reacted, spoken>>

\* Mutant of Clashes: nothing is unique in the table.
ClashesNever(m) ==
  FALSE

\* The table's keys refuse a second row of a revision or of a delivery.
Clashes(m) == HasRevision(m) \/ HasMessage(m)

\* A refused insert raises out of the request.
Insert(c) ==
  /\ call[c].at = "insert"
  /\ IF Clashes(call[c].message)
     THEN Finish(c) /\ UNCHANGED stored
     ELSE /\ stored' = stored \cup
               {[message |-> call[c].message, witnesses |-> call[c].witnesses]}
          /\ call' = [call EXCEPT ![c].at = "react", ![c].witnesses = {}]
  /\ UNCHANGED <<outcome, noticed, tasks, reacted, spoken>>

StoreFails(c) ==
  /\ call[c].at \in {"message", "revision", "latest", "insert"}
  /\ Finish(c)
  /\ UNCHANGED <<stored, outcome, noticed, tasks, reacted, spoken>>

-----------------------------------------------------------------------------
(* The triggers of the coordinator.                                        *)

\* on_event_revision: a terminal revision cancels what waits for the event.
React(c) ==
  /\ call[c].at = "react"
  /\ Goes(c, "route")
  /\ reacted' = [reacted EXCEPT ![call[c].message.revision] = @ + 1]
  /\ waiting' = IF call[c].message.terminal THEN [n \in Npcs |-> NoWork] ELSE waiting
  /\ UNCHANGED <<stored, outcome, noticed, running, stage, spoken>>

\* A routing that is told to on_routing_outcome cancels what lost its tier.
Routed(new) ==
  /\ outcome' = new
  /\ waiting' = IF new.routed
                THEN [n \in Npcs |-> IF n \in new.generating THEN waiting[n] ELSE NoWork]
                ELSE waiting

\* Enrichment and routing for this revision.  A newer snapshot may have been routed
\* by now, and its outcome is read; without world state or with the store
\* unavailable the reaction is lost.
RouteFor(c) ==
  /\ call[c].at = "route"
  /\ \/ \E new \in Outcomes :
          /\ Routed(new)
          /\ call' = [call EXCEPT ![c].at = "decide", ![c].outcome = new]
     \/ /\ call' = [call EXCEPT ![c].at = "decide", ![c].outcome = outcome]
        /\ UNCHANGED <<outcome, waiting>>
     \/ Finish(c) /\ UNCHANGED <<outcome, waiting>>
  /\ UNCHANGED <<stored, noticed, running, stage, reacted, spoken>>

Refused(n, w) == w.trigger = "event" /\ w \in {waiting[n], running[n]}

\* scheduler.submit of work for each NPC it is offered to: a reaction that waits or
\* runs already is refused, other work takes the NPC's one place.
Enqueue(work) ==
  waiting' = [n \in Npcs |->
    IF n \in DOMAIN work /\ ~Refused(n, work[n]) THEN work[n] ELSE waiting[n]]

Reaction(r) == [trigger |-> "event", revision |-> r]
Noticed(r)  == [trigger |-> "noticed", revision |-> r]

\* decide_for_event, on the outcome as it was when it was asked for; a reaction is
\* offered to those who generate and have a part in the event.
Decide(c) ==
  /\ call[c].at = "decide"
  /\ \E reacting \in SUBSET call[c].outcome.generating :
       Enqueue([n \in (IF call[c].message.terminal THEN {} ELSE reacting)
                  |-> Reaction(call[c].message.revision)])
  /\ Finish(c)
  /\ UNCHANGED <<stored, outcome, noticed, running, stage, reacted, spoken>>

\* A snapshot refreshes routing.
Refresh ==
  /\ \E new \in Outcomes : Routed(new)
  /\ UNCHANGED <<stored, call, noticed, running, stage, reacted, spoken>>

Generates(n) == n \in outcome.generating

\* Mutant of InFocus: an event that ended still requires behaviour.
InFocusEnded ==
  stored # {}

\* The event still requires behaviour of an NPC (events.active).
InFocus == IsActive

\* on_routing_outcome finds an NPC promoted, or its behaviour expired, and the
\* event in its focus.
Notice(n) ==
  /\ Generates(n) /\ noticed[n] = 0
  /\ InFocus
  /\ noticed' = [noticed EXCEPT ![n] = Newest.message.revision]
  /\ UNCHANGED <<stored, call, outcome, tasks, reacted, spoken>>

\* Its latest command, read after that, leaves something to say or does not, and
\* what it leaves may be pending already.
ActOnNotice(n) ==
  /\ noticed[n] # 0
  /\ noticed' = [noticed EXCEPT ![n] = 0]
  /\ Enqueue([m \in {n} |-> Noticed(noticed[m])]) \/ UNCHANGED waiting
  /\ UNCHANGED <<stored, call, outcome, running, stage, reacted, spoken>>

-----------------------------------------------------------------------------
(* The task that runs one piece of work.                                   *)

Drop(n) ==
  /\ running' = [running EXCEPT ![n] = NoWork]
  /\ stage' = [stage EXCEPT ![n] = "none"]

\* Mutant of StillCurrent: the revision is not compared.
StillCurrentActive(w) ==
  IsActive

StillCurrent(w) ==
  /\ IsActive
  /\ w.trigger = "event" => w.revision = Newest.message.revision

Start(n) ==
  /\ waiting[n] # NoWork /\ running[n] = NoWork
  /\ waiting' = [waiting EXCEPT ![n] = NoWork]
  /\ running' = [running EXCEPT ![n] = waiting[n]]
  /\ stage' = [stage EXCEPT ![n] = "starting"]
  /\ UNCHANGED <<stored, call, outcome, noticed, reacted, spoken>>

\* is_current reads the routing first and awaits the event after it.
Look(n) ==
  /\ stage[n] = "starting"
  /\ IF Generates(n) THEN stage' = [stage EXCEPT ![n] = "checking"] /\ UNCHANGED running
     ELSE Drop(n)
  /\ UNCHANGED <<stored, call, outcome, noticed, waiting, reacted, spoken>>

\* The event as it is by now.  The task also ends when the store is unavailable or
\* newer behaviour has replaced an expired one.
Judge(n, place, next) ==
  /\ stage[n] = place
  /\ \/ /\ StillCurrent(running[n])
        /\ stage' = [stage EXCEPT ![n] = next] /\ UNCHANGED running
     \/ Drop(n)
  /\ UNCHANGED <<stored, call, outcome, noticed, waiting, reacted, spoken>>

Check(n)   == Judge(n, "checking", "generating")
Recheck(n) == Judge(n, "rechecking", "publishing")

\* The claim is taken and the provider answers, or the fallback does for it, unless
\* the work was claimed before or there is neither; then routing is read again.
Generate(n) ==
  /\ stage[n] = "generating"
  /\ \/ /\ Generates(n)
        /\ stage' = [stage EXCEPT ![n] = "rechecking"] /\ UNCHANGED running
     \/ Drop(n)
  /\ UNCHANGED <<stored, call, outcome, noticed, waiting, reacted, spoken>>

Publish(n) ==
  /\ stage[n] = "publishing"
  /\ spoken' = IF running[n].trigger = "event"
               THEN [spoken EXCEPT ![n] = running[n].revision] ELSE spoken
  /\ Drop(n)
  /\ UNCHANGED <<stored, call, outcome, noticed, waiting, reacted>>

-----------------------------------------------------------------------------
Handle(c) ==
  \/ ReadMessage(c) \/ ReadRevision(c) \/ ReadLatest(c) \/ Insert(c) \/ StoreFails(c)
  \/ React(c) \/ RouteFor(c) \/ Decide(c)

Work(n) == Start(n) \/ Look(n) \/ Check(n) \/ Generate(n) \/ Recheck(n) \/ Publish(n)

Next ==
  \/ \E c \in Calls : (\E m \in Messages : Deliver(c, m)) \/ Handle(c)
  \/ Refresh
  \/ \E n \in Npcs : Notice(n) \/ ActOnNotice(n) \/ Work(n)

\* A request and a task are resumed when what they await is there; nothing makes
\* a message arrive, a snapshot refresh or an NPC be noticed.
Fairness ==
  /\ \A c \in Calls : WF_vars(Handle(c))
  /\ \A n \in Npcs : WF_vars(ActOnNotice(n)) /\ WF_vars(Work(n))

Spec == Init /\ [][Next]_vars /\ Fairness

-----------------------------------------------------------------------------
TypeOK ==
  /\ stored \subseteq [message: Messages, witnesses: SUBSET Npcs]
  /\ call \in [Calls -> [message: Messages \cup {NoMessage}, at: Places,
                         witnesses: SUBSET Npcs, outcome: Outcomes]]
  /\ outcome \in Outcomes
  /\ noticed \in [Npcs -> Revisions \cup {0}]
  /\ waiting \in [Npcs -> Works \cup {NoWork}]
  /\ running \in [Npcs -> Works \cup {NoWork}]
  /\ stage \in [Npcs -> Stages]
  /\ \A n \in Npcs : (stage[n] = "none") = (running[n] = NoWork)
  /\ reacted \in [Revisions -> Nat]
  /\ spoken \in [Npcs -> Revisions \cup {0}]

\* However deliveries interleave between the three reads and the insert, the rows
\* are one chain: no gap, no fork, time forward, nothing after the end, and the
\* witnesses of the start.
ChainUnbroken ==
  \A x, y \in stored :
    /\ \A r \in 1..x.message.revision : \E z \in stored : z.message.revision = r
    /\ x # y => x.message.revision # y.message.revision /\ x.message.id # y.message.id
    /\ x.message.revision < y.message.revision
         => x.message.time <= y.message.time /\ ~x.message.terminal
    /\ x.witnesses = y.witnesses

\* However often a revision is delivered, also at once, it is reacted to once.
OneReactionPerRevision == \A r \in Revisions : reacted[r] <= 1

\* The reactions an NPC is sent follow the revisions, although an older one can be
\* offered after a newer one.
ReactionsGoForward == [][ \A n \in Npcs : spoken'[n] >= spoken[n] ]_vars

\* Once an event has ended, the work about it is over in the end and stays so,
\* whoever had read the event before and offers work about it after.
Ended == \E x \in stored : x.message.terminal
Silent == \A n \in Npcs : waiting[n] = NoWork /\ running[n] = NoWork
EndedFallsSilent == Ended ~> []Silent
=============================================================================
