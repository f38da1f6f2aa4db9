--------------------------- MODULE DurablePipeline ---------------------------
(***************************************************************************)
(* One trigger's way from its durable claim to a delivered command, across *)
(* crashes: GenerationClaims and ProviderAttempts (deduplication.py),      *)
(* GenerationCoordinator.generate, CommandStore, BehaviourPublisher and    *)
(* Recovery.                                                               *)
(*                                                                         *)
(* Every action ends where the code commits or awaits.  The scheduler's    *)
(* part is only that an NPC has one task at a time (GenerationQueue);      *)
(* routing's verdicts, the provider and what a socket takes are choices. A      *)
(* claim key names one command (its id is a digest of the key), so the     *)
(* command table is a function of keys.  Lifetimes are a set of keys whose *)
(* expires_at_ms has passed.  An orderly stop cancels the running tasks    *)
(* and leaves what a crash leaves.                                         *)
(***************************************************************************)
EXTENDS Naturals, FiniteSets, FiniteSetsExt

CONSTANTS
  Npcs, Keys,
  NpcOf,        \* key -> the NPC its work is for
  NoKey,        \* an idle slot
  MaxCrashes,   \* bound of the model: crashes in one behaviour
  MaxHandovers  \* bound of the model: sends that hand over one command

ASSUME PipelineAssumption ==
  /\ IsFiniteSet(Keys) /\ NoKey \notin Keys
  /\ NpcOf \in [Keys -> Npcs]
  /\ MaxCrashes \in Nat /\ MaxHandovers \in Nat

VARIABLES
  (* the database *)
  claims,     \* keys in generation_claims
  attempts,   \* key -> outcome in provider_attempts, or "none"
  status,     \* key -> publication_status in behaviour_commands, or "none"
  sequence,   \* key -> command_sequence of its command, 0 before it is composed
  (* the process *)
  mode,       \* "down", "answering", "republishing" or "running"
  todo,       \* what the current phase of recovery has still to do
  job,        \* NPC -> the key its task works on, or NoKey
  step,       \* NPC -> what that task does next
  (* the world outside, and history *)
  lapsed,     \* keys whose command is past its lifetime
  calls,      \* key -> provider calls made
  handed,     \* key -> sends that handed its command to a socket
  lastHanded, \* NPC -> sequence of the last command handed to a socket
  recovered,  \* keys whose unknown attempt a recovery closed
  crashes

durable  == <<claims, attempts, status, sequence>>
outside  == <<lapsed, calls, handed, lastHanded, recovered>>
vars == <<durable, mode, todo, job, step, outside, crashes>>

Outcomes == {"attempted", "succeeded", "failed"}
Statuses == {"pending", "published", "expired"}
Steps    == {"idle", "claiming", "opening", "calling", "waiting", "closing",
             "composing", "rechecking", "storing", "sending", "marking"}

KeysFor(n) == {k \in Keys : NpcOf[k] = n}

Init ==
  /\ claims = {}
  /\ attempts = [k \in Keys |-> "none"]
  /\ status = [k \in Keys |-> "none"]
  /\ sequence = [k \in Keys |-> 0]
  /\ mode = "down" /\ todo = {}
  /\ job = [n \in Npcs |-> NoKey] /\ step = [n \in Npcs |-> "idle"]
  /\ lapsed = {}
  /\ calls = [k \in Keys |-> 0]
  /\ handed = [k \in Keys |-> 0]
  /\ lastHanded = [n \in Npcs |-> 0]
  /\ recovered = {}
  /\ crashes = 0

-----------------------------------------------------------------------------
(* The queries recovery and composition make of the database.              *)

Unresolved  == {k \in Keys : attempts[k] = "attempted"}

\* Mutant of Unpublished: every stored command is read back.
UnpublishedAll ==
  {k \in Keys : status[k] # "none"}

Unpublished == {k \in Keys : status[k] = "pending"}

\* MAX(command_sequence) + 1 over the commands stored for the NPC.
NextSequence(n) ==
  1 + Max({0} \cup {sequence[k] : k \in {j \in KeysFor(n) : status[j] # "none"}})

-----------------------------------------------------------------------------
At(n, place) == job[n] # NoKey /\ step[n] = place

Goto(n, place) ==
  /\ step' = [step EXCEPT ![n] = place]
  /\ UNCHANGED job

Finish(n) ==
  /\ job' = [job EXCEPT ![n] = NoKey]
  /\ step' = [step EXCEPT ![n] = "idle"]

Assign(k, place) ==
  /\ job' = [job EXCEPT ![NpcOf[k]] = k]
  /\ step' = [step EXCEPT ![NpcOf[k]] = place]

\* Work may be offered again at any time: a redelivery, an expiry seen again.
Begin(k) ==
  /\ mode = "running"
  /\ job[NpcOf[k]] = NoKey
  /\ Assign(k, "claiming")
  /\ UNCHANGED <<durable, mode, todo, outside, crashes>>

\* Mutant of TakeClaim: a claim that was taken already counts as taken now.
TakeClaimAgain(n) ==
  /\ At(n, "claiming")
  /\ claims' = claims \cup {job[n]}
  /\ Goto(n, "opening")
  /\ UNCHANGED <<attempts, status, sequence, mode, todo, outside, crashes>>

\* INSERT OR IGNORE, and work already claimed is abandoned.
TakeClaim(n) ==
  /\ At(n, "claiming")
  /\ claims' = claims \cup {job[n]}
  /\ IF job[n] \in claims THEN Finish(n) ELSE Goto(n, "opening")
  /\ UNCHANGED <<attempts, status, sequence, mode, todo, outside, crashes>>

\* Without a snapshot nothing is generated; otherwise the attempt is committed.
OpenAttempt(n) ==
  /\ At(n, "opening")
  /\ \/ Finish(n) /\ UNCHANGED attempts
     \/ /\ attempts' = [attempts EXCEPT ![job[n]] = IF @ = "none" THEN "attempted" ELSE @]
        /\ Goto(n, "calling")
  /\ UNCHANGED <<claims, status, sequence, mode, todo, outside, crashes>>

CallProvider(n) ==
  /\ At(n, "calling")
  /\ calls' = [calls EXCEPT ![job[n]] = @ + 1]
  /\ Goto(n, "waiting")
  /\ UNCHANGED <<durable, mode, todo, lapsed, handed, lastHanded, recovered, crashes>>

\* NoProviderForTier: nothing was called, the attempt is closed, nothing is answered.
NoProvider(n) ==
  /\ At(n, "calling")
  /\ attempts' = [attempts EXCEPT ![job[n]] = "failed"]
  /\ Finish(n)
  /\ UNCHANGED <<claims, status, sequence, mode, todo, outside, crashes>>

\* An answer, a failure or a timeout closes the attempt; a failure is answered
\* from the fallback library, so that both compose a command.
CloseAttempt(n) ==
  /\ At(n, "waiting")
  /\ \E outcome \in {"succeeded", "failed"} :
       attempts' = [attempts EXCEPT ![job[n]] = outcome]
  /\ Goto(n, "composing")
  /\ UNCHANGED <<claims, status, sequence, mode, todo, outside, crashes>>

\* The sequence is read here and the lifetime starts here, before the late
\* revalidation and before the row is inserted.  Recovery does not revalidate.
Compose(n) ==
  /\ At(n, "composing")
  /\ sequence' = [sequence EXCEPT ![job[n]] = NextSequence(n)]
  /\ lapsed' = lapsed \ {job[n]}
  /\ Goto(n, IF mode = "running" THEN "rechecking" ELSE "storing")
  /\ UNCHANGED <<claims, attempts, status, mode, todo, calls, handed, lastHanded,
                 recovered, crashes>>

Recheck(n) ==
  /\ At(n, "rechecking")
  /\ Finish(n) \/ Goto(n, "storing")
  /\ UNCHANGED <<durable, mode, todo, outside, crashes>>

\* Oversized commands are neither stored nor sent.
Store(n) ==
  /\ At(n, "storing")
  /\ \/ Finish(n) /\ UNCHANGED status
     \/ /\ status' = [status EXCEPT ![job[n]] = "pending"]
        /\ Goto(n, "sending")
  /\ UNCHANGED <<claims, attempts, sequence, mode, todo, outside, crashes>>

\* The command's text is given to the sockets of the session: from here on it may
\* reach Minecraft, at once, late or never (CommandDelivery).
HandOver(n) ==
  /\ handed[job[n]] < MaxHandovers
  /\ handed' = [handed EXCEPT ![job[n]] = @ + 1]
  /\ lastHanded' = [lastHanded EXCEPT ![n] = sequence[job[n]]]

\* One turn of the delivery loop inside the lifetime.  A socket took the command;
\* or each failed or stalled past its second, with the text given to it or not; or
\* none was listening.  Unless one took it, it is tried again after the next delay.
Send(n) ==
  /\ At(n, "sending")
  /\ job[n] \notin lapsed
  /\ \/ HandOver(n) /\ Goto(n, "marking")
     \/ HandOver(n) /\ UNCHANGED <<job, step>>
     \/ UNCHANGED <<handed, lastHanded, job, step>>
  /\ UNCHANGED <<durable, mode, todo, lapsed, calls, recovered, crashes>>

\* Mutant of MarkPublished: a delivered command stays pending.
MarkNothing(n) ==
  /\ At(n, "marking")
  /\ Finish(n)
  /\ UNCHANGED <<durable, mode, todo, outside, crashes>>

MarkPublished(n) ==
  /\ At(n, "marking")
  /\ status' = [status EXCEPT ![job[n]] = "published"]
  /\ Finish(n)
  /\ UNCHANGED <<claims, attempts, sequence, mode, todo, outside, crashes>>

MarkExpired(n) ==
  /\ At(n, "sending")
  /\ job[n] \in lapsed
  /\ status' = [status EXCEPT ![job[n]] = "expired"]
  /\ Finish(n)
  /\ UNCHANGED <<claims, attempts, sequence, mode, todo, outside, crashes>>

-----------------------------------------------------------------------------
(* Recovery runs before intake opens, one item after the other.            *)

Recovering == mode \in {"answering", "republishing"}
AllIdle    == \A n \in Npcs : job[n] = NoKey

\* Mutant of Restart: unknown attempts are not looked for.
RestartForgetting ==
  /\ mode = "down"
  /\ mode' = "answering" /\ todo' = {}
  /\ UNCHANGED <<durable, job, step, outside, crashes>>

Restart ==
  /\ mode = "down"
  /\ mode' = "answering" /\ todo' = Unresolved
  /\ UNCHANGED <<durable, job, step, outside, crashes>>

RecoverNext(k) ==
  /\ Recovering /\ AllIdle
  /\ k \in todo
  /\ todo' = todo \ {k}
  /\ Assign(k, IF mode = "answering" THEN "closing" ELSE "sending")
  /\ UNCHANGED <<durable, mode, outside, crashes>>

\* The outcome stays unknown for ever: close it, then answer from the fallback.
CloseUnknown(n) ==
  /\ At(n, "closing")
  /\ attempts' = [attempts EXCEPT ![job[n]] = "failed"]
  /\ recovered' = recovered \cup {job[n]}
  /\ Goto(n, "composing")
  /\ UNCHANGED <<claims, status, sequence, mode, todo, lapsed, calls, handed,
                 lastHanded, crashes>>

\* Mutant of Republish: stored commands are not looked for.
RepublishNothing ==
  /\ mode = "answering" /\ todo = {} /\ AllIdle
  /\ mode' = "republishing"
  /\ UNCHANGED <<durable, todo, job, step, outside, crashes>>

Republish ==
  /\ mode = "answering" /\ todo = {} /\ AllIdle
  /\ mode' = "republishing" /\ todo' = Unpublished
  /\ UNCHANGED <<durable, job, step, outside, crashes>>

OpenIntake ==
  /\ mode = "republishing" /\ todo = {} /\ AllIdle
  /\ mode' = "running"
  /\ UNCHANGED <<durable, todo, job, step, outside, crashes>>

Crash ==
  /\ mode # "down" /\ crashes < MaxCrashes
  /\ crashes' = crashes + 1
  /\ mode' = "down" /\ todo' = {}
  /\ job' = [n \in Npcs |-> NoKey] /\ step' = [n \in Npcs |-> "idle"]
  /\ UNCHANGED <<durable, outside>>

\* The lifetime of a composed command ends.
Lapse(k) ==
  /\ k \notin lapsed
  /\ status[k] = "pending" \/ (job[NpcOf[k]] = k /\ step[NpcOf[k]] \in {"rechecking", "storing"})
  /\ lapsed' = lapsed \cup {k}
  /\ UNCHANGED <<durable, mode, todo, job, step, calls, handed, lastHanded,
                 recovered, crashes>>

-----------------------------------------------------------------------------
Task(n) ==
  \/ TakeClaim(n) \/ OpenAttempt(n) \/ CallProvider(n) \/ NoProvider(n)
  \/ CloseAttempt(n) \/ Compose(n) \/ Recheck(n) \/ Store(n)
  \/ Send(n) \/ MarkPublished(n) \/ MarkExpired(n) \/ CloseUnknown(n)

Recover == Restart \/ (\E k \in Keys : RecoverNext(k)) \/ Republish \/ OpenIntake

Next ==
  \/ \E k \in Keys : Begin(k) \/ Lapse(k)
  \/ \E n \in Npcs : Task(n)
  \/ Recover
  \/ Crash

\* Tasks are scheduled and their waits are bounded by timeouts, time passes, a
\* process that is down is started again.  Crashes and new work are not assumed.
Fairness ==
  /\ WF_vars(Recover)
  /\ \A n \in Npcs : WF_vars(Task(n))
  /\ \A k \in Keys : WF_vars(Lapse(k))

Spec == Init /\ [][Next]_vars /\ Fairness

-----------------------------------------------------------------------------
TypeOK ==
  /\ claims \subseteq Keys
  /\ attempts \in [Keys -> Outcomes \cup {"none"}]
  /\ status \in [Keys -> Statuses \cup {"none"}]
  /\ sequence \in [Keys -> Nat]
  /\ mode \in {"down", "answering", "republishing", "running"}
  /\ todo \subseteq Keys
  /\ job \in [Npcs -> Keys \cup {NoKey}]
  /\ step \in [Npcs -> Steps]
  /\ \A n \in Npcs : (job[n] = NoKey) = (step[n] = "idle")
  /\ lapsed \subseteq Keys /\ recovered \subseteq Keys
  /\ calls \in [Keys -> Nat]
  /\ handed \in [Keys -> 0..MaxHandovers]
  /\ lastHanded \in [Npcs -> Nat]
  /\ crashes \in 0..MaxCrashes

\* An NPC has at most one call of unknown outcome or undelivered command in the
\* database, and while intake is open the NPC's task is working on it: nothing is
\* left for a later start to answer late or to send after something newer.
Outstanding(n) == KeysFor(n) \cap (Unresolved \cup Unpublished)

OutstandingIsOwned ==
  \A n \in Npcs :
    /\ Cardinality(Outstanding(n)) <= 1
    /\ mode = "running" => Outstanding(n) \subseteq {job[n]}

\* Across crashes and retries one claim key buys one call, made before its one
\* command is committed, and a published or expired command stays so.
Trigger ==
  INSTANCE TriggerAnswer WITH
    answer <- [k \in Keys |-> IF status[k] # "none" THEN status[k]
                              ELSE IF k \in claims THEN "claimed" ELSE "open"]

AnswersOnce == Trigger!Spec

\* The commands of an NPC are handed to the transport in the order of their
\* sequences, however often sends are retried or repeated by a recovery.  Their
\* order in Minecraft is another matter: a stalled socket may deliver late, which
\* only the mod's admission puts right (CommandDelivery!AppliedInOrder).
SentInOrder == [][ \A n \in Npcs : lastHanded'[n] >= lastHanded[n] ]_vars

\* A command whose outcome is recorded is never sent again.
SettledStaysUnsent ==
  [][ \A k \in Keys : handed'[k] # handed[k] => status[k] = "pending" ]_vars

\* Every committed command is published or expires, and every call of unknown
\* outcome is resolved, whenever the process died.
CommandsSettle ==
  \A k \in Keys : status[k] = "pending" ~> status[k] \in {"published", "expired"}

AttemptsResolve == \A k \in Keys : attempts[k] = "attempted" ~> attempts[k] # "attempted"

-----------------------------------------------------------------------------
\* recovery.py:123-124: an attempt a recovery closed is answered by a stored
\* command, which is what the next start finds.
NextStartFindsCommand ==
  mode = "down" => \A k \in recovered : status[k] # "none"
=============================================================================
