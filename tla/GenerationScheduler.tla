------------------------- MODULE GenerationScheduler -------------------------
(***************************************************************************)
(* backend/orchestration/generation_scheduler.py: the dispatcher that      *)
(* starts queued work, the tasks that run it, and the rule that releases   *)
(* a conversation when the turn that armed it is given up.                 *)
(*                                                                         *)
(* One asyncio loop runs everything, so the code between two awaits is one *)
(* action.  The dispatcher's inner loop never awaits: while `worker` is    *)
(* "dispatching" no other action is enabled.  What the executor finds      *)
(* (routing, stores, provider, delivery) is a nondeterministic choice.     *)
(* The conversation is reduced to whether a session is AWAITING_RESPONSE.  *)
(***************************************************************************)
EXTENDS GenerationQueue

CONSTANTS
  Answering   \* work whose command carries a turn id: turns, and the promotions
              \* and expiries that found the player still in conversation

VARIABLES
  runnable,   \* the event the dispatcher waits on
  idle,       \* the event drain() waits on
  worker,     \* "waiting", or "dispatching" inside its loop
  step,       \* slot -> where the task running in it stands
  unwinding,  \* tasks that released their slot, done callback still to come
  claims,     \* durable: every claim key ever taken
  offered,    \* durable: turns and revisions seen, which are never offered twice
  arriving,   \* turns that armed a conversation and are being routed
  abandoning, \* work a cancel() evicted and has still to abandon
  awaiting,   \* sessions in AWAITING_RESPONSE
  stranded    \* history: sessions with a turn whose task raised

convVars  == <<offered, arriving, abandoning, awaiting, stranded>>
loopVars  == <<runnable, idle, worker, unwinding>>
schedulerVars == <<queueVars, loopVars, step, claims, convVars>>

Steps == {"none", "checking", "claiming", "generating", "rechecking", "publishing"}

Turns == {w \in Works : w.trigger = "turn"}

ASSUME SchedulerAssumption == Turns \subseteq Answering /\ Answering \subseteq Works

SchedulerInit ==
  /\ Init
  /\ runnable = FALSE /\ idle = TRUE /\ worker = "waiting" /\ unwinding = 0
  /\ step = [s \in Slots |-> "none"]
  /\ claims = {}
  /\ offered = {} /\ arriving = {} /\ abandoning = {}
  /\ awaiting = {} /\ stranded = {}

\* What _settle() makes of `idle`: it is set once nothing is queued or running.
Quiet   == waiting = {} /\ InFlight = {} /\ unwinding = 0
Settled == idle \/ Quiet

-----------------------------------------------------------------------------
(* Offering work.                                                          *)

\* The conversation admits a player turn and routing starts for it.
AdmitTurn(w) ==
  /\ worker = "waiting"
  /\ w.key \notin offered
  /\ offered' = offered \cup {w.key}
  /\ arriving' = arriving \cup {w}
  /\ awaiting' = awaiting \cup {w.session}
  /\ UNCHANGED <<queueVars, loopVars, step, claims, abandoning, stranded>>

\* on_triggered_turn without a generating tier: the conversation is let go.
SuppressTurn(w) ==
  /\ worker = "waiting"
  /\ w \in arriving
  /\ arriving' = arriving \ {w}
  /\ awaiting' = awaiting \ {w.session}
  /\ UNCHANGED <<queueVars, loopVars, step, claims, offered, abandoning, stranded>>

Submit(w) ==
  /\ worker = "waiting"
  /\ Enqueue(w)
  /\ idle' = FALSE
  /\ runnable' = TRUE
  /\ UNCHANGED <<worker, unwinding, step, claims, abandoning, awaiting, stranded>>

SubmitTurn(w) ==
  /\ w \in arriving
  /\ Submit(w)
  /\ arriving' = arriving \ {w}
  /\ UNCHANGED offered

\* Reactions and promotions are offered once each, an expiry on every snapshot.
SubmitOther(w) ==
  /\ w.key \notin offered
  /\ Submit(w)
  /\ offered' = IF w.trigger = "expiry" THEN offered ELSE offered \cup {w.key}
  /\ UNCHANGED arriving

\* cancel() evicts at once; the abandonments that follow each await a commit, and
\* it settles when they are done.  One cancel() is in progress at a time here.
CancelWork(works) ==
  /\ worker = "waiting"
  /\ abandoning = {}
  /\ Cancel(works)
  /\ abandoning' = {x.work : x \in Matching(works)}
  /\ idle' = IF abandoning' = {} THEN Settled ELSE idle
  /\ UNCHANGED <<runnable, worker, unwinding, step, claims, offered, arriving,
                 awaiting, stranded>>

\* What the callers' predicates select: everything about an ended event of a
\* session, or everything for the NPCs that lost a generating tier.
AboutEvent(session) == {w \in Works \ Answering : w.session = session}
ForNpcs(slots)      == {w \in Works : Slot(w) \in slots}

-----------------------------------------------------------------------------
(* Giving work up.                                                         *)

\* Mutant of Released: the work counts as a turn that will still answer.
ReleasedCountingItself(w) ==
  IF w.trigger = "turn" /\ ~HoldsTrigger(w.session, "turn", NoWork)
  THEN awaiting \ {w.session}
  ELSE awaiting

\* A given-up turn releases the conversation unless another turn's work of the
\* session is still going to answer it.
Released(w) ==
  IF w.trigger = "turn" /\ ~HoldsTrigger(w.session, "turn", w)
  THEN awaiting \ {w.session}
  ELSE awaiting

AbandonCancelled(w) ==
  /\ worker = "waiting"
  /\ w \in abandoning
  /\ abandoning' = abandoning \ {w}
  /\ awaiting' = Released(w)
  /\ idle' = IF abandoning' = {} THEN Settled ELSE idle
  /\ UNCHANGED <<queueVars, runnable, worker, unwinding, step, claims, offered,
                 arriving, stranded>>

-----------------------------------------------------------------------------
(* The dispatcher.                                                         *)

Wake ==
  /\ worker = "waiting" /\ runnable
  /\ worker' = "dispatching" /\ runnable' = FALSE
  /\ UNCHANGED <<queueVars, idle, unwinding, step, claims, convVars>>

Dispatch ==
  /\ worker = "dispatching"
  /\ \E x \in waiting :
       /\ Start(x)
       /\ step' = [step EXCEPT ![Slot(x.work)] = "checking"]
  /\ UNCHANGED <<loopVars, claims, convVars>>

\* Mutant of Settle: nobody who drains is told.
SettleSilently ==
  /\ worker = "dispatching"
  /\ ~\E x \in waiting : IsNext(x)
  /\ worker' = "waiting"
  /\ UNCHANGED <<queueVars, runnable, idle, unwinding, step, claims, convVars>>

Settle ==
  /\ worker = "dispatching"
  /\ ~\E x \in waiting : IsNext(x)
  /\ worker' = "waiting"
  /\ idle' = Settled
  /\ UNCHANGED <<queueVars, runnable, unwinding, step, claims, convVars>>

-----------------------------------------------------------------------------
(* A task, from its first step to its done callback.                       *)

At(w, place) ==
  /\ worker = "waiting"
  /\ inFlight[Slot(w)] = w
  /\ step[Slot(w)] = place

Proceed(w, place) ==
  /\ step' = [step EXCEPT ![Slot(w)] = place]
  /\ UNCHANGED <<queueVars, loopVars>>

\* Mutant of Leave: the slot is given back but not the key.
LeaveKeepingKey(w) ==
  /\ inFlight' = [inFlight EXCEPT ![Slot(w)] = NoWork]
  /\ inFlightTiers' = [inFlightTiers EXCEPT ![w.tier] = @ - 1]
  /\ step' = [step EXCEPT ![Slot(w)] = "none"]
  /\ unwinding' = unwinding + 1
  /\ UNCHANGED <<waiting, claimed, arrivals, runnable, idle, worker, offered, arriving,
                 abandoning>>

\* The task's `finally`, and its return.
Leave(w) ==
  /\ Release(w)
  /\ step' = [step EXCEPT ![Slot(w)] = "none"]
  /\ unwinding' = unwinding + 1
  /\ UNCHANGED <<runnable, idle, worker, offered, arriving, abandoning>>

\* Both commits of the released conversation are queued on the store's single
\* thread ahead of anything that could arm it again, so the release of the
\* conversation and that of the slot are one step.
Abandon(w) ==
  /\ Leave(w)
  /\ awaiting' = Released(w)
  /\ UNCHANGED stranded

Revalidate(w) ==
  /\ At(w, "checking")
  /\ \/ Proceed(w, "claiming") /\ UNCHANGED convVars
     \/ Abandon(w)
  /\ UNCHANGED claims

TakeClaim(w) ==
  /\ At(w, "claiming")
  /\ IF w.key \in claims
     THEN Abandon(w) /\ UNCHANGED claims
     ELSE /\ claims' = claims \cup {w.key}
          /\ Proceed(w, "generating") /\ UNCHANGED convVars

Generate(w) ==
  /\ At(w, "generating")
  /\ \/ Proceed(w, "rechecking") /\ UNCHANGED convVars
     \/ Abandon(w)
  /\ UNCHANGED claims

RevalidateLate(w) ==
  /\ At(w, "rechecking")
  /\ \/ Proceed(w, "publishing") /\ UNCHANGED convVars
     \/ Abandon(w)
  /\ UNCHANGED claims

\* Delivered or expired, a command that answers a turn ends the waiting:
\* note_published and note_not_generated both leave AWAITING_RESPONSE.
Publish(w) ==
  /\ At(w, "publishing")
  /\ Leave(w)
  /\ awaiting' = IF w \in Answering THEN awaiting \ {w.session} ELSE awaiting
  /\ UNCHANGED <<claims, stranded>>

\* An exception anywhere in _execute is logged and noted, nothing more.
Fail(w) ==
  /\ worker = "waiting"
  /\ inFlight[Slot(w)] = w
  /\ Leave(w)
  /\ stranded' = IF w.trigger = "turn" THEN stranded \cup {w.session} ELSE stranded
  /\ UNCHANGED <<claims, awaiting>>

\* Mutant of Finished: the dispatcher is not woken.
FinishedSilently ==
  /\ worker = "waiting"
  /\ unwinding > 0
  /\ unwinding' = unwinding - 1
  /\ UNCHANGED <<queueVars, runnable, idle, worker, step, claims, convVars>>

Finished ==
  /\ worker = "waiting"
  /\ unwinding > 0
  /\ unwinding' = unwinding - 1
  /\ runnable' = TRUE
  /\ UNCHANGED <<queueVars, idle, worker, step, claims, convVars>>

-----------------------------------------------------------------------------
Progress(w) ==
  \/ Revalidate(w) \/ TakeClaim(w) \/ Generate(w) \/ RevalidateLate(w)
  \/ Publish(w) \/ Fail(w)

SchedulerNext ==
  \/ \E w \in Turns : AdmitTurn(w) \/ SuppressTurn(w) \/ SubmitTurn(w)
  \/ \E w \in Works \ Turns : SubmitOther(w)
  \/ \E session \in Sessions : CancelWork(AboutEvent(session))
  \/ \E slots \in SUBSET Slots : CancelWork(ForNpcs(slots))
  \/ \E w \in abandoning : AbandonCancelled(w)
  \/ Wake \/ Dispatch \/ Settle \/ Finished
  \/ \E w \in Works : Progress(w)

\* asyncio runs every ready callback, every store and provider call ends (the
\* gateway and the publisher are bounded by timeouts), and a turn being routed
\* is submitted or suppressed.  Nothing is assumed about new arrivals.
Fairness ==
  /\ WF_schedulerVars(Wake) /\ WF_schedulerVars(Dispatch)
  /\ WF_schedulerVars(Settle) /\ WF_schedulerVars(Finished)
  /\ \A w \in Works : WF_schedulerVars(Progress(w))
  /\ \A w \in Works : WF_schedulerVars(AbandonCancelled(w))
  /\ \A w \in Turns : WF_schedulerVars(SubmitTurn(w) \/ SuppressTurn(w))

SchedulerSpec == SchedulerInit /\ [][SchedulerNext]_schedulerVars /\ Fairness

-----------------------------------------------------------------------------
SchedulerTypeOK ==
  /\ TypeOK
  /\ runnable \in BOOLEAN /\ idle \in BOOLEAN
  /\ worker \in {"waiting", "dispatching"}
  /\ step \in [Slots -> Steps]
  /\ \A s \in Slots : (step[s] = "none") = (inFlight[s] = NoWork)
  /\ unwinding \in Nat
  /\ claims \subseteq Keys /\ offered \subseteq Keys
  /\ arriving \subseteq Turns /\ abandoning \subseteq Works
  /\ awaiting \subseteq Sessions /\ stranded \subseteq Sessions

\* Running work never exceeds the limits and the counters stay right although the
\* slot is given back in a `finally` and the task ends later.
ImplementsQueue == Spec

\* A session that awaits an answer has turn work that will still answer it or let
\* it go, whoever gave the other turns up, unless a task raised.
Outstanding(session) ==
  \E w \in arriving \cup abandoning \cup {x.work : x \in waiting}
           \cup {inFlight[s] : s \in InFlight} :
    w.session = session /\ w.trigger = "turn"

AwaitingHasAnswerer ==
  \A session \in awaiting : Outstanding(session) \/ session \in stranded

\* Accepted work starts, is replaced or is cancelled: no wake-up of the dispatcher
\* is lost and no slot is kept by a task that is gone.
Pending(w) == w.key \in claimed
EveryWorkSettles == \A w \in Works : Pending(w) ~> ~Pending(w)

\* drain() returns, whatever work fails on the way, and only when nothing is
\* queued, running or unwinding.
DrainReturns == []<>idle /\ [](idle => Quiet)
=============================================================================
