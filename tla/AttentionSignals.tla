--------------------------- MODULE AttentionSignals ---------------------------
(***************************************************************************)
(* What the Router is told of an NPC and what it makes of it: the roles in *)
(* running events (event_relevance.py), the recency of the player's talk   *)
(* (interaction_recency.py), the snapshot that carries both                *)
(* (routing_snapshot.py), the direct score (router/scoring.py) and one hop *)
(* of attention (router/graph.py).                                         *)
(*                                                                         *)
(* Positions are on a line with the player at 0.  Signals are hundredths   *)
(* and scores thousandths, so that the weights of RouterConfig are whole   *)
(* numbers; seconds stand for milliseconds.  An NPC is a number: the order *)
(* of the ids breaks ties.                                                 *)
(***************************************************************************)
EXTENDS Integers, SequencesExt, FiniteSetsExt

CONSTANTS
  Npcs, NoNpc,
  Unseen,         \* the position of an NPC that is no candidate
  Sights,         \* what snapshots may say: [at, view, edges, active]
  NoSight,        \* before the first snapshot
  Events,
  Casts,          \* what revisions of events may say: [at, holders]
  WitnessRadius, NearbyRadius, MaxDistance,
  Partners,       \* bound of the model: the NPCs the player speaks to
  Pauses          \* bound of the model: how long nothing happens at a time

ASSUME SignalsAssumption ==
  /\ Npcs \subseteq Nat /\ NoNpc \notin Npcs /\ Partners \subseteq Npcs /\ Pauses \subseteq Nat
  /\ NoSight.at = [n \in Npcs |-> Unseen] /\ NoSight.edges = << >>
  /\ \A s \in Sights : s.active \in Npcs => s.at[s.active] # Unseen
  /\ \A s \in Sights \cup {NoSight} :
       /\ s.at \in [Npcs -> Int] /\ s.edges \in Seq(ToSet(s.edges))
       /\ s.view \in [Npcs -> [inside : BOOLEAN, sight : BOOLEAN, centre : Int]]
  /\ \A c \in Casts : DOMAIN c.holders \subseteq {"actor", "target", "responder"}
  /\ MaxDistance \in Nat \ {0}

VARIABLES
  sight,    \* the retained world state
  running,  \* the active events in the order they started
  talking,  \* the target of the session's conversation
  age,      \* NPC -> seconds since its interaction was noted, or Never
  lag       \* history: seconds since the last snapshot of this run, or Never

vars == <<sight, running, talking, age, lag>>

Oblivion == 20          \* the last edge of RECENCY_BANDS
Never    == Oblivion + 1

Init ==
  /\ sight = NoSight /\ running = << >> /\ talking = NoNpc
  /\ age = [n \in Npcs |-> Never] /\ lag = Never

Candidates == {n \in Npcs : sight.at[n] # Unseen}

-----------------------------------------------------------------------------
(* Events: roles and relevance.                                            *)

RelevanceOf == [actor |-> 100, target |-> 100, responder |-> 80, witness |-> 40, nearby |-> 20]

Blocks(p, q) == IF p > q THEN p - q ELSE q - p

\* witnesses_at_start, settled with the event's first revision.
Witnesses(cast) == {n \in Candidates : Blocks(sight.at[n], cast.at) <= WitnessRadius}

\* roles_in: nearby is for those with no other part who are still observed.
Named(n, e)   == {r \in DOMAIN e.cast.holders : n \in e.cast.holders[r]}
RolesIn(n, e) ==
  LET parts == Named(n, e) \cup (IF n \in e.witnesses THEN {"witness"} ELSE {})
      close == n \in Candidates /\ Blocks(sight.at[n], e.cast.at) <= NearbyRadius
  IN IF parts = {} /\ close THEN {"nearby"} ELSE parts

Relevance(roles) == Max({RelevanceOf[r] : r \in roles} \cup {0})

\* enrichment_for: the union over the events, what the Router is told.
Enrichment(n) == Relevance(UNION {RolesIn(n, e) : e \in ToSet(running)})

\* strongest_involvement: the one event a prompt has room for.
NoInvolvement == [relevance |-> 0, event |-> 0]

\* Mutant of Stronger: among equals the later event.
StrongerOrLater(n, best, i) ==
  IF Relevance(RolesIn(n, running[i])) >= best.relevance
  THEN [relevance |-> Relevance(RolesIn(n, running[i])), event |-> i] ELSE best

Stronger(n, best, i) ==
  IF Relevance(RolesIn(n, running[i])) > best.relevance
  THEN [relevance |-> Relevance(RolesIn(n, running[i])), event |-> i] ELSE best

StrongestInvolvement(n) ==
  FoldLeftDomain(LAMBDA best, i : Stronger(n, best, i), NoInvolvement, running)

-----------------------------------------------------------------------------
(* Recency and the direct score.                                           *)

Decayed(s) == CASE s < 2        -> 90
                [] s < 5        -> 70
                [] s < 10       -> 40
                [] s < Oblivion -> 20
                [] OTHER        -> 0

\* InteractionRecency.value_for; Never decays to the value of no interaction.
Recency(n) == IF n = talking THEN 100 ELSE Decayed(age[n])

View(n) ==
  LET v == sight.view[n]
  IN IF v.inside /\ v.sight THEN Max({0, 100 - v.centre}) ELSE 0

Proximity(n) == Max({0, 100 - (100 * Blocks(sight.at[n], 0)) \div MaxDistance})

Signals(n) == 4 * View(n) + 2 * Proximity(n) + 3 * Enrichment(n) + Recency(n)

Direct(n) == Signals(n) + (IF n = talking THEN 10000 ELSE 0)

-----------------------------------------------------------------------------
(* propagate_attention.                                                    *)

Usable(e) ==
  /\ e.active /\ e.source # e.target
  /\ {e.source, e.target} \subseteq Candidates
  /\ e.kind = "gaze"              \* the one kind with a weight, which is 1

\* GRAPH_DECAY is a half.
Passed(score) == Min({1000, score}) \div 2

NoSignal == [score |-> 0, source |-> NoNpc]

Outweighs(score, source, current) ==
  \/ score > current.score
  \/ score = current.score /\ current # NoSignal /\ source < current.source

\* Mutant of Carry: what came in over earlier edges is passed on.
CarryOnward(strongest, e) ==
  LET score == Passed(Max({Direct(e.source), strongest[e.source].score}))
  IN IF Usable(e) /\ Outweighs(score, e.source, strongest[e.target])
     THEN [strongest EXCEPT ![e.target] = [score |-> score, source |-> e.source]]
     ELSE strongest

\* One edge of the loop: the source's direct score, never what was propagated.
Carry(strongest, e) ==
  LET score == Passed(Direct(e.source))
  IN IF Usable(e) /\ Outweighs(score, e.source, strongest[e.target])
     THEN [strongest EXCEPT ![e.target] = [score |-> score, source |-> e.source]]
     ELSE strongest

Propagated == FoldLeft(Carry, [n \in Npcs |-> NoSignal], sight.edges)

Final(n) == Max({Direct(n), Propagated[n].score})

-----------------------------------------------------------------------------

\* Mutant of Observe: only turns are noted as interactions.
ObserveOnly(s) ==
  /\ sight' = s /\ talking' = s.active /\ lag' = 0
  /\ UNCHANGED <<running, age>>

\* A snapshot is applied and the conversation follows it; the conversation it
\* shows is a live interaction.
Observe(s) ==
  /\ sight' = s /\ talking' = s.active
  /\ age' = [n \in Npcs |-> IF n = s.active THEN 0 ELSE age[n]]
  /\ lag' = 0
  /\ UNCHANGED running

Turn(n) ==
  /\ age' = [age EXCEPT ![n] = 0]
  /\ UNCHANGED <<sight, running, talking, lag>>

\* An event's first revision; its place is that of its timestamp.
Start(e, cast, i) ==
  /\ \A k \in 1..Len(running) : running[k].event # e
  /\ running' = InsertAt(running, i, [event |-> e, cast |-> cast, witnesses |-> Witnesses(cast)])
  /\ UNCHANGED <<sight, talking, age, lag>>

\* A later revision names others or another place; the witnesses stay.
Revise(i, cast) ==
  /\ running' = [running EXCEPT ![i].cast = cast]
  /\ UNCHANGED <<sight, talking, age, lag>>

End(i) ==
  /\ running' = RemoveAt(running, i)
  /\ UNCHANGED <<sight, talking, age, lag>>

Older(s, d) == IF s = Never THEN Never ELSE Min({s + d, Oblivion})

Wait(d) ==
  /\ age' = [n \in Npcs |-> Older(age[n], d)] /\ lag' = Older(lag, d)
  /\ UNCHANGED <<sight, running, talking>>

\* World state and recency live in memory; events and the conversation do not.
Restart ==
  /\ sight' = NoSight /\ age' = [n \in Npcs |-> Never] /\ lag' = Never
  /\ UNCHANGED <<running, talking>>

Next ==
  \/ \E s \in Sights : Observe(s)
  \/ \E n \in Partners : Turn(n)
  \/ \E e \in Events, cast \in Casts, i \in 1..(Len(running) + 1) : Start(e, cast, i)
  \/ \E i \in 1..Len(running) : End(i) \/ \E cast \in Casts : Revise(i, cast)
  \/ \E d \in Pauses : Wait(d)
  \/ Restart

Spec == Init /\ [][Next]_vars

-----------------------------------------------------------------------------
\* However the edges are ordered, an NPC is given the strongest of its own score
\* and what one hop brings, from the first NPC that brings it: attention never
\* travels further (graph.py: "a chain such as A -> B -> C remain exactly one
\* hop").
OneHop ==
  \A n \in Candidates :
    LET incoming == {e \in ToSet(sight.edges) : Usable(e) /\ e.target = n}
        best     == Max({Passed(Direct(e.source)) : e \in incoming} \cup {0})
        bringers == {e.source : e \in {d \in incoming : Passed(Direct(d.source)) = best}}
    IN /\ Final(n) = Max({Direct(n), best})
       /\ best > 0 => Propagated[n].source = Min(bringers)

\* The event a prompt tells an NPC of is the one that gave it the relevance the
\* Router was told, and the earlier of two that would (event_relevance.py).
PromptTellsTheReason ==
  \A n \in Npcs :
    LET told   == StrongestInvolvement(n)
        giving == {i \in 1..Len(running) :
                     Relevance(RolesIn(n, running[i])) = Enrichment(n)}
    IN /\ told.relevance = Enrichment(n)
       /\ told.event = IF Enrichment(n) = 0 THEN 0 ELSE Min(giving)

\* An NPC whose conversation is gone fades from the snapshot that last showed
\* it, however long ago its last turn was (intake_service.py, "only starts
\* decaying once the conversation is gone").
FadesFromLastSight ==
  [][\A n \in Npcs :
       talking = n /\ talking' # n /\ lag # Never => Recency(n)' >= Decayed(lag)]_vars
=============================================================================
