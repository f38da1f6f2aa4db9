# Spotlight: a TLA+ model of the NPC orchestration backend

The repository is the Spotlight prototype: a Minecraft (Fabric) mod watches which
villagers a player attends to and talks to, a Python service (`src/backend`) ranks
them, decides which of them deserve a language-model call, buys the calls within hard
limits, and sends the answers back as behaviour commands that must survive crashes of
the service. This directory models the part whose correctness is hard to see: one
asyncio loop, a SQLite file, the mod's threads and sockets at the other end, components
that promise each other things across awaits and restarts, and the arithmetic that
decides who is attended to, what a prompt keeps and what a run is reported to have cost.

Contents: 1 the system, 2 modules and their correspondence to the code, 3 the runs,
4 the disagreements found, 5 fairness, 6 what is proved, 7 abstractions and what is not
modelled, 8 the plan.

## 1. The system

Flow of a delivery: the mod posts world snapshots, player turns and events
(`http_intake`) -> `intake_service` validates, stores and deduplicates -> a snapshot is
applied to `world_state_store` and enriched by `routing_snapshot`, which awaits the
database -> `router_handoff` coalesces and gives it to `router/`, one synchronous call
that assigns tiers -> the outcome is told to `generation_coordinator`, which offers
work to `generation_scheduler` -> the scheduler's `generation_queue` says what starts
-> a task claims the trigger (`deduplication`), opens an attempt, calls
`model_gateway`, composes a command, stores it (`command_store`) and delivers it
(`behaviour_publisher`) -> the bridge sends it on the session's WebSockets, the mod's
server thread accepts or declines it -> `conversation_manager` hears of the outcome. After
a crash `recovery` runs before intake opens. A benchmark runs the same pipeline and
reports from its log.

| component (src/backend/...) | state | operations | correct when |
|---|---|---|---|
| `orchestration/generation_queue.py` | waiting entries with arrival ordinals, the work in flight per NPC, counters per tier, claimed keys | `enqueue` (evicts), `claim_next`, `release`, `cancel`, `holds_trigger` | limits hold, counters and keys agree with the work, one restatable work waits per NPC and starts behind the turns of its tier |
| `generation_scheduler.py` | `_runnable`, `_is_idle`, the dispatcher, tasks | `submit`, `cancel`, `_dispatch`, `_run`, `_finished`, `drain`, `stop` | no lost wake-up, `drain` neither early nor never, no conversation left waiting |
| `generation_coordinator.py`, `generation_policy.py` | none of its own | four triggers, two revalidations, `generate`, `publish` | a stale answer is not sent, a spent call is recorded |
| `deduplication.py`, `command_store.py`, `behaviour_publisher.py` | tables of claims, attempts and commands | `claim`; `open`, `close`, `unresolved`; `store`, `mark_*`, `unpublished`; `publish`, `deliver` | one call and one command per trigger, an order Minecraft can accept |
| `recovery.py` | none | answer unknown attempts, resend stored commands | everything committed settles, nothing twice |
| `conversation_manager.py`, `conversation_store.py` | one session per player in memory, rows in SQLite | `observe_snapshot`, `admit_turn`, `note_published`, `note_not_generated`, `restore`, `forget` | a player's turn is neither lost nor repeated, memory and rows agree |
| `router_handoff.py`, `world_state_store.py`, `routing_snapshot.py` | pending and routed sequences, latest outcome, events | `submit`, `route_now`, the worker, `reset_session`; `apply_if_newer` | sequences never go back, the newest state is routed, waiters return |
| `router/` | last sequence, tier and entry time per NPC | `route`, `reset_session` | capacities are hard, hysteresis delays but never decides |
| `session_cleanup.py` | none | delete rows, forget memory | the next session starts clean |
| `ingestion/event_store.py`, `turn_store.py`, `durable_store.py` | event revisions, turns, the SQLite connection | insert with checks | a revision chain has no gap and no fork |
| `event_relevance.py`, `interaction_recency.py`, `router/scoring.py`, `router/graph.py` | time of each NPC's last interaction | roles, relevance, recency, direct score, one hop of attention | attention travels one hop, the prompt tells what the score was for |
| `models/` | budgets | one bounded provider call | answers or fails within its time |
| `context/` | none | `build`, `build_for_event`, `_fit` | the prompt fits its budget and sheds no more than it must |
| `ingestion/prototype_bridge.py`, `prototype_wire.py` | sockets per session; positions and conversation per session | `join`, `leave`, `send`; translation | what it adds to an event belongs to the world state |
| the mod: `WebSocketSubscriber`, `BehaviourCommandHandler`, `CommandAcceptanceTracker`, `ConversationPublisher` | the socket field, applied ids, last sequence per NPC, the conversation | connect, disconnect, handle a command, speak | a command takes effect once, in order, in its own conversation |
| the mod: `SnapshotScheduler`, `CandidateTracker`, `HttpPublisher` | candidates, pending snapshot, in-flight flag, counter | tick, publish, complete | one snapshot under way, the newest never stranded |
| `telemetry/` | a log of records | append, flush, `compute_metrics`, `projected_all_strong_usage`, `calculate_costs`, `dashboard_payload` | figures do not depend on log order |
| dashboard, debug console, scripts | none | demonstration | not part of the service's behaviour |

`PROJECT.json` lists every component with its files and what is left out of it, and
under `hazards` every place, by line, where the code is hard to test. The behaviours that
make it hard:

* *Interleaving at awaits.* All Python code runs on one loop, so a method is atomic up to
  its next await and others run there: `conversation_manager` resumes over a session
  that has changed, enrichments overtake each other, a task gives its slot back in a
  `finally` and ends later.
* *Crashes.* The process can die between any two commits. Claims, attempts, commands
  and sessions are what remains.
* *Unreliable delivery.* A send that raises may have arrived; it is retried until the
  command's lifetime is over.
* *Limits.* Two tiers and a total, one work in flight per NPC, capacities of the Router.
* *Threads.* The mod's publisher runs on the server thread and on a pool; they meet at
  two atomic fields.
* *Two ends of a socket.* Each end keeps its own idea of which sockets there are, and both
  are wrong at times.
* *Waiting.* `drain`, `wait_until_idle` and the dispatcher sleep on events that somebody
  has to set.

## 2. Modules

Names follow the code. A definition's lines are in `PROJECT.json` under `map`. An
operator whose comment begins "Mutant of" is a plausible bug of the definition it
precedes; no specification uses it. It documents what a property protects against: with
the mutant in the definition's place the property fails.

**GenerationQueue** (`generation_queue.py`). `waiting`, `inFlight`, `inFlightTiers`,
`claimed` and `arrivals` are the object's five fields. One action per method, because
nothing in the file awaits. `Release` asks nothing, as in the code; `Finish` is what the queue
relies on, a release of work that runs, and that the scheduler keeps to it is its refinement.
Work is a record of session, NPC, tier, trigger and key. The
list `_waiting` is a set, since entries carry their ordinal and are looked up by nothing
else.

**GenerationScheduler** (`generation_scheduler.py`) extends GenerationQueue, whose methods its
actions call; what it starts and how it steps are `SchedulerInit`, `SchedulerNext`. `runnable`
and `idle` are the two asyncio events, `worker` the dispatcher, `step[slot]` the place
of a task between two awaits, `unwinding` the tasks whose slot is free and whose done
callback has not run. While the dispatcher is inside its loop nothing else is enabled,
as the loop never awaits. Of the conversation it keeps which sessions are
AWAITING_RESPONSE. What the executor decides is a choice among the outcomes the
coordinator has.

**DurablePipeline** (`deduplication.py`, `generation_coordinator.generate`,
`command_store.py`, `behaviour_publisher.py`, `recovery.py`). The database is `claims`,
`attempts`, `status`, `sequence`; the process is `mode`, `todo`, `job`, `step`; the
outside is `lapsed` (commands past their lifetime), `handed`, `lastHanded` (what
was handed to the sockets; what Minecraft makes of it is CommandDelivery). Every action ends at a commit or an await, and `Crash` is enabled between
any two. **TriggerAnswer** is its abstract specification: what is promised of one
trigger, whatever restarts in between. The refinement mapping reads the answer off the
tables.

**ConversationManager** (`conversation_manager.py`, `conversation_store.py`). One
session. `writes` is the thread of the SQLite connection: store calls take effect in
the order they were made, and the caller resumes some time later, so several method
calls are under way at once, each at a `Place`. `session` is what memory holds, `row`
what is durable.

**RouterHandoff** (`router_handoff.py`, `world_state_store.py`, the await in
`routing_snapshot.py`, the in-memory end of `session_cleanup.py`). Enrichments under way
are `building`; they finish in any order. `telling` counts the calls of `route_now` that await the listener;
they do not touch `idle`. The Router itself is the sequence it remembers.

**AttentionRouter** (`router/router.py`, `hysteresis.py`, `assignment.py`, `state.py`).
`tier` and `enteredAt` are the `NpcRoutingState` of each candidate. `Route(s)` is the whole
call: the stale check, sticky bonuses, the ranking of `_rank_key`, selection within
the capacities with the conversation target's reserved place, and the record. A
snapshot comes with its final scores. `snapshot` and `since` are history variables the
properties speak about.

**EventReactions** (`event_store.py`, the event and routing triggers of
`generation_coordinator.py`, `decide_for_event` and `is_still_current`). One event.
`stored` is its rows, `call` the requests that deliver revisions, each at a `Place`
between two awaits, `waiting`, `running` and `stage` what the queue and the task of each
NPC hold. Submitting work never suspends for this kind of work, so `Decide` offers all
reactions of a revision at once. `reacted` and `spoken` are history variables.

**CommandDelivery** (`behaviour_publisher.py`, `prototype_bridge.py` and, in the mod,
`WebSocketSubscriber`, `BehaviourCommandHandler`, `CommandAcceptanceTracker`,
`ConversationPublisher`) composes the sender with its receiver. `status`, `sequence`,
`stored`, `left`, `took` are a delivery; `seat` is what the bridge's handler of a socket
believes, `sock` what the mod's end is; `current` is the one field the mod keeps, and
`building` the sockets whose completion has yet to run, so that two connects, a late
completion and the close of an old socket meet in every order. `appliedIds` and `last`
are the acceptance tracker. `ReloadWorld`, `RestartBackend`, `CleanSession` take from
each end what it keeps in memory or in rows.

**SnapshotPublishing** (`SnapshotScheduler`, `CandidateTracker`, `HttpPublisher`,
`prototype_wire.py`, `world_state_store.py`). `pending` and `inFlight` are the two atomic
fields, `at[p]` the place of a thread between two accesses of them, `net` the requests
under way: one that failed for the mod can still arrive. `mirror` is what the wire keeps
of a session, `retained` what the store does.

**AttentionSignals** (`event_relevance.py`, `interaction_recency.py`,
`routing_snapshot.py`, `router/scoring.py`, `router/graph.py`). The signals and the scores
are operators on the retained world, the running events and the times of
interactions; the loops of the code are folds. The actions are what changes those inputs.
Signals are hundredths and scores thousandths, so that the weights of `RouterConfig` are
whole numbers; positions are on a line.

**ContextBuilder** (`context_builder.py`, `turn_store.recent`, `token_estimate.py`). A text is
its length; a section is dropped, a turn shed or the trigger clipped one action at a
time, in the order of `_fit`'s loops, while the conversation goes on.

**Telemetry** (`logger.py`, `metrics.py`, `benchmark.py`, `cost_calculator.py`). `log` is the
file, `results` what the capturing adapter holds back until the run has drained, `facts` the
same records in the order of what they tell. Everything a dashboard shows is an operator
on a log. Latencies in rising order are defined by what they are (the k-th is the least within
which k calls stay), since the order of equal ones cannot be seen in a percentile.

**MC...** modules give the instances TLC checks; **..._proofs** modules hold the theorems,
one beside each component. Three of them extend more than one module, and therefore RouterHandoff,
ContextBuilder and Telemetry, like the scheduler, carry names of their own for what every module
has (`HandoffInit`, `PromptSpec`, `RunNext`, ...): GenerationQueue_proofs is about the queue and
its scheduler, AttentionRouter_proofs about the Router and the handoff that feeds it,
Computations_proofs, as MCComputations, about AttentionSignals, ContextBuilder and Telemetry.

## 3. The runs

State counts are distinct states of one complete search; two workers need the time given.

| run | instance and bounds | what it shows |
|---|---|---|
| `queue` | 1 session, 3 NPCs, 8 works, limits 1 / 2 / total 2, 5 arrivals; 30,793 states, 20 s | `CapacityExact`: counters equal what runs and respect the limits. `ClaimsExact`: keys are those of what waits or runs, once. `RestatableWaitsItsTurn`: one restatable work waits per NPC, and none starts before a turn of its NPC and tier. |
| `scheduler` | 2 NPCs, 4 works, 3 arrivals; 62,669 states, 16 s | `ImplementsQueue`: the concurrent scheduler makes only steps of the queue's specification. `DrainReturns`: `drain` is not stuck. `AwaitingHasAnswerer`: a session that awaits an answer has a turn that can still answer. `EveryWorkSettles`: no lost wake-up. |
| `pipeline` | 3 triggers of 2 NPCs, 2 crashes, 2 hand-overs of a command; 4,589,538 states, about 2 min | `AnswersOnce`: the implementation of TriggerAnswer. `OutstandingIsOwned`: nothing is left to be sent late. `SentInOrder`, `SettledStaysUnsent`: the order of sends across retries and recovery. |
| `pipeline_live` | 2 triggers of one NPC, the same bounds; 50,420 states, 5 s | `CommandsSettle`, `AttemptsResolve`: whenever the process dies, what is committed ends published or expired, what was called is resolved. |
| `pipeline_lost_answer` | as `pipeline_live` | the one run that expects a violation; section 4. |
| `conversation` | 2 conversations, 3 turns, 3 calls at once (interchangeable), 1 crash; 2,130,054 states, 40 s | `NoTurnLost`, `TurnSettlesOnce`: a turn is handed on or reported as discarded, once, over interleavings and a restart. `StoreMatchesMemory`: with no call in progress the rows are what memory holds. |
| `handoff` | 1 session and world, sequences to 3, 1 cleanup, 2 enrichments or calls of `route_now` at once; 86,280 states, 15 s | `RouterNeverBehind`: order. `AppliedIsRouted`: coalescing loses nothing newest. `IdleReturns`: `wait_until_idle` returns, and not before what the worker has to do is done. |
| `router` | 3 NPCs, 1 focused and 1 reactive place, scores 0/2/3, bonuses 2/1, minimum score 2, times 0..3, holds 2/3; 7,822 states, 8 s | `CapacityHeld`, `OutscoredOnlyInHold`, `DemotedOnlyByStronger`: hard capacities, and what hysteresis may and may not do. |
| `event_reactions` | 1 event of 2 revisions, the second in 2 forms, 1 NPC, 2 deliveries at once, any number of redeliveries; 658,864 states, 48 s | `ChainUnbroken`: no gap, fork or second set of witnesses. `OneReactionPerRevision`: a redelivery is not reacted to. `ReactionsGoForward`: no older reaction is said after a newer. `EndedFallsSilent`: work about an ended event dies out. |
| `commands` | 2 NPCs, 2 sockets (each interchangeable), 2 triggers, a memory of 1 command id, 1 restart or cleanup; 8,386,842 states, depth 28, 2 min 20 s | `AppliedInOrder`: one effect per command and none behind a newer, whatever is sent again over whichever socket. `TurnsInOrder`: answers never run behind the talk, even across a reload. |
| `publishing` | 1 NPC, 2 pool threads (interchangeable) and the server's, 3 snapshots, 1 turn, 1 cleanup or restart; 546,856 states, 8 s | `OneAtATime`, `NothingStranded`: the right to send is neither doubled nor lost. `WorldGoesForward`: a late request rewinds nothing. `PlacedByTheWorld`: events are placed by the world their witnesses are found in, as long as no send failed. |
| `computations` | signals: 3 NPCs, 7 snapshots, 2 events, 2 casts; prompts: 4 tiers, 4 scenes, turns of 2 lengths, 4 of them; benchmark: 2 sessions, 3 NPCs, 2 routings, 2 calls; 126,540 + 8,225 + 338,576 = 473,341 states, 35 s | `OneHop`, `PromptTellsTheReason`, `FadesFromLastSight`: scores, prompts and recency against definitions without a loop. `FitsBudget`, `NothingShedInVain`: the budget holds and is used. `SavingsNotNegative`, `FlushOrderFree`, `PanelsAgree`: a report says the same whatever was logged first. |

`computations` is one run because its three modules are of one kind, values computed
from the state of the others, and share no variable: MCComputations puts them
side by side and `topic` says whose behaviour it is, so its states are the sum and not the
product of theirs.

Every module with a process of its own has a `TypeOK`. It is proved, by a theorem of its
own or as a part of the invariant. The three modules of `computations` have types
that nothing but the proofs needs; they are part of the invariants there.

Why these bounds. *Queue*: the three limits can each be the one that binds only with two
tiers and three NPCs; five arrivals let an NPC with running work have a queue, be
superseded, and be offered evicted work again. *Scheduler*: the hazards need two tasks of one
session, one given up while the other is queued, running or evicted; three arrivals
make all three. *Pipeline*: recovery can die, so two crashes are the least that show a
crash of the process and then of its recovery; two triggers of one NPC are what
numbering and order are about, and a third of another NPC mixes the two in recovery's
lists. Two hand-overs are one repeated send. *Conversation*: the methods await at most
four times and touch one session, so a hazard is two calls resuming out of order, with
a third as the one they are both wrong about. *Handoff*: three sequences are one
routed, one pending and one being enriched; two enrichments can overtake each other.
*Router*: three NPCs contend for two places; scores lie under, at and over a bonus
apart, times under, at and over a hold, and times may go back. *Events*: two deliveries are what
race between the lookups and the insert, and what offer reactions in the wrong order; the two
second revisions are a fork, and one of them ends the event. NPCs share nothing but the
rows, so one is enough. *Commands*: an older and a newer command of one NPC are the least
that can be out of order, and two turns to two NPCs the least that an answer can be late
for; two sockets are an old and a new one; with one remembered id every older command is
forgotten as soon as the next is applied, which is what a full memory does to any; one
restart can fall anywhere, of either end. *Publishing*: two pool threads and the server's
are three at the flag, one that releases it, one that meets the release, one that
publishes; three snapshots are one under way, one pending and one that overtakes; a
turn shares the counter. *Signals*: a chain of three gazes is the shortest second hop, with
a tie of two sources, an inactive edge, one to itself and one to an NPC that has
left; two events are a tie of relevance. *Prompts*: the four tiers reach each end of `_fit`,
nothing shed, turns shed, sections shed and the trigger clipped, and a contract that
fills the budget. *Benchmark*: two calls average to a half, outnumber one candidate, and
come before or after their routing; two routings at one sequence are a tie.

Deadlock is checked in all runs but three. In `commands`, `publishing` and `computations` the
bounded inputs run out (triggers and sockets, snapshots and turns, the calls of a
benchmark run that has been flushed), and with them everything there is to do.

## 4. Where code and documentation disagree

One disagreement is a run of its own, because it needs two deaths at the right places:

1. *A lost answer* (`pipeline_lost_answer`). `recovery.py:123-124` says the attempt is
   closed first because "the stored command is then what the next start finds". The command
   is stored two awaits later. A crash between them leaves a failed attempt and no
   command, and no later start answers the trigger.

The others follow from the models' actions, are seen by reading them, and no run is spent on them:

2. *Turn order*. `generation_queue.py:14-16` says player turns to an NPC "queue behind each
   other in arrival order". `_dispatch_order` (line 163) sorts by tier first: of an earlier
   Reactive and a later Focused turn to one NPC the later starts first.
3. *A conversation that moves*. `conversation_manager.py:193` says a command that never
   reached Minecraft "leaves the conversation where it was". The code treats it as not
   generated and moves an awaiting session to ENGAGED or IDLE (line 201).
4. *A reset that is overtaken*. `router_handoff.py:149-151` says that after a reset the
   session's next snapshot is not refused. An enrichment that was awaiting the store during
   the reset lands after it and records the ended session's sequence; the restarted
   session's snapshots are behind it until they catch up.
5. *A socket that does not come back*. `prototype_bridge.py:74-76` drops a socket whose send
   fails because "the mod reconnects". `WebSocketSubscriber` connects only on
   `/spotlight connect`, and a socket dropped by the backend stays open at both ends: in
   CommandDelivery, after `SendFails` the seat is "dropped" and no action but the
   player's `Connect` delivers anything again.

## 5. Fairness

Weak fairness stands where the asyncio loop or a timeout guarantees the step: a ready
callback or task runs (`Wake`, `Dispatch`, `Settle`, `Finished`, `Work`), a provider call
ends because the gateway bounds it, delivery ends because a command has a lifetime
(`Lapse`: time passes), an enrichment's store call returns or raises (`FinishBuild`), a request's or a task's
awaited read returns (`Handle`, `ActOnNotice`, `Work` of EventReactions), and
the service is started again after it died (`Recover`). No fairness is assumed of arrivals,
of crashes or of a send's success, and no strong fairness anywhere. ConversationManager,
GenerationQueue, AttentionRouter, CommandDelivery, SnapshotPublishing and the three modules of
`computations` are checked for safety only; in CommandDelivery nothing can be promised to
arrive, since a dropped socket waits for the player (section 4).

## 6. What is proved

TLAPS checks the following for every value of the constants that meets the module's
assumption. Every invariant and every action property that a passing run checks is stated by one
of these theorems, and so is the safety half of two of the liveness properties; what is left to
TLC is liveness. Each property below was first checked by TLC on the run's instance.

*GenerationQueue_proofs*, from `QueueAssumption` (finitely many slots, limits that are naturals).
`QueueTypeOK`, `QueueCapacity`, `QueueClaims`, `QueueRestatable`. Three invariants carry
them. Type and capacity need each other: `release` decrements a counter, which stays a natural number
only because it equals the number of works in flight. Proving that equality is counting:
starting work adds one slot to a finite set, releasing it removes one. `ClaimsExact` is
inductive only together with the injectivity of keys, since a key leaves `claimed` with
one work. `RestatableWaitsItsTurn` speaks of starts and is not inductive: a restatable work that waits is
the newest of its NPC, for which the newest ordinal must bound all others and ordinals be
unique (`OrderInv`); what starts first in the dispatch order is then, within a tier, never
ahead of a turn (`StartGivesWay`). Across tiers it can be, and the property says when.

*The scheduler, in the same module.* `SchedulerImplementsQueue`: every step of the
dispatcher, of a task, of a callback and of the conversation is a method of the queue or leaves
it alone, so the scheduler implements the queue's specification (`ImplementsQueue`), and
`SchedulerKeepsQueueRules` carries the queue's three properties over to the running scheduler.
`AwaitingAlwaysAnswered` and `DrainIsQuiet` come from one invariant, `SchedulerInv`, and from
`SchedulerAssumption`: a turn is among the works whose command carries a turn id
(`decide_for_turn` sets it always), so that publishing one lets its conversation go. The
invariant needs the capacity invariant of the queue for one step: a task's release takes
exactly its own work out of the slots, so that a session loses no other answerer
(`LeaveKeeps`, `GivenUpKeepsAnswerers`). `DrainIsQuiet` is the half of `drain()` that is
safety: while `idle` is set, nothing waits, runs or unwinds. `SchedulerTypes` says with the
types that a slot has a step exactly while work runs in it.

*DurablePipeline_proofs*, from `PipelineAssumption`, for any number of NPCs, keys, crashes
and hand-overs. `PipelineTypeOK`, `OutstandingAlwaysOwned`, `CommandsSentInOrder`,
`OnlyPendingIsSent`, `ImplementsTriggerAnswer`. No property is inductive; what carries them is
what each place of a task says of the rows of its key (`StepFits`), what is left to do in each phase of
a start (`PhaseFits`: in recovery, every outstanding row is on the list or in the hands
of its NPC's task), that the rows of a key agree (`RowsAgree`), and that an NPC has one
outstanding key (`OneOutstanding`). `NumbersRise` follows: a number taken and not yet
stored is above every stored one of its NPC, a pending command has the newest number, and
none was handed to a socket that was not stored. That a new number is newest
when it is *taken* is not enough, since a recheck lies between taking and storing; it stays newest because
the NPC has nothing else under way. `ImplementsTriggerAnswer` is the refinement:
under the mapping that reads a trigger's answer off the tables, every step is one step of
TriggerAnswer for one trigger or changes no trigger's view, a crash included.

*ConversationManager_proofs*, from the assumptions of its module, for any number of
conversations, turns, concurrent calls and crashes. `ConversationTypeOK`, `TurnsNeverLost`,
`TurnsSettleOnce`, `StoreFollowsMemory`. `OneHolder`: an unsettled turn is held by the session
or carried by one call. That alone does not survive a restart, which reads the
held turn out of the row: `RowForgets` says that a turn is settled only after the row that
forgets it was executed, and that no row behind it on the writes' queue brings it
back. It is the order of the store's single thread that makes this true. `WritesCatchUp`
says that the last row on its way is the session as it is, except while a snapshot has
changed the session and awaits its thread's row (`ChangePending`), and gives `StoreMatchesMemory`.

*EventReactions_proofs*, from `EventAssumption`, for any set of messages, requests and
NPCs. `EventTypeOK`, `ChainNeverBroken`, `RevisionsReactedOnce`, `ReactionsNeverGoBack`. A
request inserts what it checked several awaits earlier. `CallFits` is why that is safe:
either the chain is the one it read, or it has grown past the request's revision, and then
the primary key refuses the insert. Only the request that inserted a revision reacts to it
(`ReactionsFit`), and what an NPC is about to be sent is a stored revision no older
than the last it was sent (`SpokenFits`).

*AttentionRouter_proofs*, from `RouterAssumption` (finitely many NPCs, naturals).
`RouterTypeOK`, `RouterCapacity`, `RouterHolds`, `RouterDemotes`. `RankOrder` shows that
the sort key is a strict total order. `LeadingFits` maps each of the first *k* to the
number of NPCs ahead of it, an injection into 1..*k*, so they are at most *k*.
`LeftBehind` shows that nobody outside a selection is effectively stronger than
somebody in it, and `LeadingFills` that nobody is left out before the capacity is used up. `RouterDemotes` is
two facts: who enters beat the demoted one in the ranking (`RouteDemotes`), and a place
it had is not given up for nobody (`RouteDemotesForSomebody`). The rest are arguments about one routing, from the invariant that the
time of entry is the start of the unbroken stay (`since = enteredAt`). The proof of
`RouterDemotes` is what shows that the hold must be positive: with a hold of zero a
clock reading that goes back gives no protection, and the property says so.

*The handoff, in the same module*, from `HandoffAssumption`, for any sessions, worlds,
sequences, cleanups and enrichments under way. `HandoffNeverBehind`: the Router is never given a
sequence below one it has recorded. The invariant is that what the Router recorded is at most
what the handoff has routed (`RouterFollows`), which a cleanup keeps only because it clears
both. `HandoffIdleIsQuiet` is the half of `wait_until_idle` that is safety: while `idle` is
set, no snapshot waits and the worker does not tell its listener. It says nothing of a
`route_now`, which awaits the listener with `idle` set or not.

*CommandDelivery_proofs*, from `DeliveryAssumption`, for any number of NPCs, sockets,
triggers, restarts and remembered ids. `TypesHold`, `CommandsAppliedInOrder`,
`TurnsAnsweredInOrder`. Neither order is inductive. `AppliedInOrder` holds because `last`
bounds every sequence applied since the tracker was cleared (`LastBounds`), which
survives a step only if no sequence changes under a command that travels or was
applied, hence `StoredTravels`: whatever is on a wire or has taken effect has been stored
before. The memory of ids appears nowhere in the proof: the sequence alone refuses a
duplicate, so the bound on that memory is harmless. `TurnsInOrder` uses neither
tracker nor run: the newest turn bounds every turn ever answered (`NewestBounds`), which
is why a reload of the world does not disturb it.

*SnapshotPublishing_proofs*, from `PublishingAssumption`, for any number of pool threads,
NPCs and snapshots. `SnapshotsOneAtATime`, `PendingIsSeen`, `MirrorKeepsUp`,
`WorldNeverGoesBack`. `Sent`: what left the mod is older than what is pending and was
counted; it rests on the flag having one owner, since the thread that takes the pending
snapshot is the only one that gives out its number. `Counted`: sequences therefore follow the
order of building, and that is what makes the store's comparison of sequences a
comparison of observations, for requests of any age. `WaitedFor`: without a failed
send the one request under way is the one waited for, so the wire, which compares
nothing, still keeps up with the store.

*Computations_proofs*, from `SignalsAssumption`, `ContextAssumption` and `TelemetryAssumption`.
Typed inputs; finitely many NPCs that are candidates, and models; limits, lengths and the
contract are positive. These are what the code's dataclasses and its configuration give.

Everything here is about a fold: a loop over edges, sections, records or groups. The provers
cannot instantiate the library's induction theorems, whose parameter is an operator. The first two
sections of the module therefore prove induction as facts about sets, from the well-foundedness of
the naturals: a set of numbers has a least one (`LeastNumber`), what holds at 0 and is handed on
holds up to n (`Counting`), and the same for the parts of a finite set (`Growing`). From these it
follows that the recursion of a fold over a finite set has a solution
(`RecursionHasSolution`), that a fold from the left is that recursion taken from the last index
(`LeftFoldIs`), and that a sum of naturals does not depend on the order in which a set is
taken (`SumIsTotal`), adds over disjoint parts and over the groups of a grouping
(`TotalByGroups`). The rest cites them.

*Signals.* `ConversationFades`: an NPC whose conversation ends keeps the recency that the time
since it was last seen talking, or was spoken to, gives it (`SeenSince`, for snapshots and pauses
of any length). `AttentionTravelsOneHop`: by induction over the edges, what an NPC has heard
after the first k is the strongest that the first k bring it, where what an edge
brings depends on the direct scores only; so no order of the edges, no loop and no repetition
carries a signal further. `PromptsTellTheReason`: two modules search the running events, one for the
relevance of an NPC, one for the event to tell; over `SignalsKnown`, the type of what runs and is seen
(`SignalsAreKnown`), the second finds the first event of the relevance that the first scored.

*Prompts.* `PromptFitsBudget` and `PromptShedsNothingInVain` say nothing of the steps that lead to
a prompt, so neither is inductive. `PromptInv` (`PromptIsInv`) says in every step of `_fit` what
is left and why: either the whole texts with the newest part of the history, where the history longer
by one turn was over the limit; or, with no history left, the first so many texts, where one more
text was over the limit. While a prompt is fitted the conversation goes on, so it also
says that the history read before is still the turns before the trigger: turns are only ever
appended (`SayIsLater`). A clipped prompt fits because characters and tokens are rounded in opposite
directions (`ClippedFits`), and that is where the exception in `FitsBudget` comes from: a contract
that leaves no room for the mark.

*Benchmark.* `RoutingNeverCostsMore` has a hypothesis of its own: no model's rate exceeds that of the
strong model. It is true of the default pricing (`benchmark.py:58-74`) and nothing in the code
enforces it of another document; without it the claim is false. The proof groups the calls
twice: costs by model, the projection by trigger and sequence. Both are the total of the same tokens
(`TotalByGroups`), and the rounding of a projection keeps at least what was observed, as the
baseline makes at least the observed calls (`ScaleKeepsObserved`, `BaselineKeepsObserved`).
`DashboardIgnoresFlushOrder`: the invariant `FlushFits` says that until the flush the log tells the
calls and the withheld results tell the routings of the history, each in their order, and that
afterwards the log tells both. "Tells" is a renumbering of the records of a type that keeps their order; counts,
sums, sorted latencies, latest routings and assignments are then shown to be the same under such a
renumbering (`CountsTold`, `SortedTold`, `MetricsTold`, `CostsTold`). `PanelsAlwaysAgree`: the panel that takes
the latest routing of all sessions and the one that takes the latest of each show the same routing
for that session, since both break a tie by the later record. It needs that any non-empty set of
routings has exactly one latest (`LatestExists`), and `RunTypeOK` (`RunTyped`).

*Only model-checked.* Liveness under fairness is outside the prover's reach:
`EveryWorkSettles`, `DrainReturns` (beyond `DrainIsQuiet`), `CommandsSettle`,
`AttemptsResolve`, `AppliedIsRouted`, `IdleReturns` (beyond `HandoffIdleIsQuiet`),
`EndedFallsSilent`. `NextStartFindsCommand` is refuted (section 4).

## 7. Abstractions and what is not modelled

* A name, a prompt, a provider's answer, a command's content is a model value or absent.
* Time is `lapsed` in the pipeline and a timestamp per snapshot in the Router. Lifetimes,
  back-off and budgets are not numbers.
* In the scheduler, abandoning a turn and giving the slot back are one step: the store
  call between them goes through the connection's single FIFO thread. One `cancel()` is under
  way at a time.
* In the pipeline an orderly `stop()` leaves what a crash leaves. A database that raises is
  not modelled anywhere; the hazards that depend on it have a note.
* `wait_until_idle`, and so `main.py`'s `drain()`, does not wait for the listener of a `route_now`: the
  model has it (`telling`), and no property demands otherwise.
* In the handoff, the worker's drain up to the listener's await is atomic, as in the code,
  and the Router's verdict is a choice of status. Validation of a result is in that choice.
* In AttentionRouter the final scores are a choice; AttentionSignals computes them from
  a snapshot. The two are not composed: the first holds for any scores. Scores are naturals: floating point ties and rounding are not
  represented. An NPC's id is its rank.
* Turns spoken by NPCs, several sessions at once in the conversation, and `forget` are not
  modelled. Sessions share no state in memory, so one is enough for the properties stated.
* In EventReactions the process stays up, player turns are left out, and an older revision's
  reaction can displace a newer one that waits; the newer is then lost, which no property
  forbids.
* In CommandDelivery the handling of a command may always decline it: expiry, a villager that
  is no candidate, an event that is over. The backend stores one command of an NPC at a
  time, which is the queue's promise of one work per NPC. A handshake that fails is a
  `Connect` that does not happen.
* In SnapshotPublishing a snapshot's content is its candidates, and an access of an atomic field is a
  step. A response completes on a pool thread. The shutdown of the pool when a world is
  closed is left out: a publisher that is used again after it keeps its flag set.
* In ContextBuilder only lengths exist; `focused_prompt.py:50-54` adds headings after the
  budget was met, which the model, like `_fit`, does not count.
* In Telemetry records are well formed, and tokens stand for input and output tokens alike.
* Not modelled: rendering and world access of the mod, dashboard, debug console,
  configuration, the wording of prompts and of commands, validation, logging. The reasons
  are with the components in `PROJECT.json`.
* Hazards met and not among those listed in `PROJECT.json`, which keeps to those that a property covers or
  comes nearest to: a late outcome of an older turn moves a session that awaits a newer one
  (`conversation_manager.py:212`); `route_now` returns an outcome that its listener may
  have seen replaced (`router_handoff.py:191`); the second of two deliveries at once ends in a
  key error (`event_store.py:86`); `drain()` gives up after a fixed number of rounds
  (`main.py:144`); after a restart of the game the counter of `HttpPublisher.java:29` starts
  again and its snapshots are stale until they overtake; reordered turns leave the wire naming
  the older conversation (`prototype_wire.py:193`); a restarted session's smaller sequences do
  not replace the older latest routing (`metrics.py:340`); a torn last line makes a whole
  log unreadable (`logger.py:139`).

## 8. Plan

Done, in the order of importance: GenerationQueue, GenerationScheduler over it, DurablePipeline
under TriggerAnswer, ConversationManager, RouterHandoff, AttentionRouter, EventReactions,
CommandDelivery, SnapshotPublishing, AttentionSignals, ContextBuilder, Telemetry; theorems for
every invariant and action property of the runs, and both refinements.

Next modules:

1. **TurnToAnswer**: the conversation with the scheduler in place of the set `awaiting`, so that
   `_suppress_turn` and a late outcome of an older turn meet the real session.
2. **SessionCleanup**: `session_cleanup.py` against the conversation and a running task, with
   `forget`.
3. **Drain**: handoff and scheduler under the rounds of `main.py`'s `drain()`, and `route_now`
   with the Router's tiers.
4. An EventStore module of its own that implements an abstract chain without gap or fork,
   with the reactions over that chain, three revisions long.

Theorems: the invariants of these modules as they are written, and that the EventStore implements
its chain. The safety halves of `CommandsSettle` and `EndedFallsSilent` (what is still under way
has an owner) are worth stating as invariants of their own.
