------------------------- MODULE ConversationManager -------------------------
(***************************************************************************)
(* backend/orchestration/conversation_manager.py, written through to       *)
(* conversation_store.py, for one session.                                 *)
(*                                                                         *)
(* A conversation stands for the pair of its id and its target NPC.  Every *)
(* store call is an entry of `writes`, the single thread of the SQLite     *)
(* connection: it takes effect in the order of the calls, and the method   *)
(* that awaits it resumes some time after, when others may have run.  The  *)
(* methods read and change the one in-memory session, whatever it was when *)
(* they began.  Only player turns are modelled: a turn of an NPC writes    *)
(* its thread and nothing else.                                            *)
(***************************************************************************)
EXTENDS Naturals, Sequences, FiniteSets

CONSTANTS
  Conversations, NoConversation,
  Turns, NoTurn,
  ConversationOf,   \* turn -> the conversation it addresses
  Calls,            \* bound of the model: names of concurrent method calls
  MaxCrashes        \* bound of the model: crashes in one behaviour

ASSUME ConversationAssumption ==
  /\ NoConversation \notin Conversations /\ NoTurn \notin Turns
  /\ ConversationOf \in [Turns -> Conversations]
  /\ MaxCrashes \in Nat

VARIABLES
  session,    \* in memory: [active, state, unconfirmed]
  started,    \* in memory: conversations with a start time
  row,        \* durable: the session's row
  threads,    \* durable: the conversations with a thread row
  writes,     \* store calls not yet executed, in order
  call,       \* name -> the method call in progress under it, or Idle
  up,         \* the process runs
  recorded,   \* durable: the turns the turn store has accepted
  mine,       \* history: turns this process admitted, or restored as held
  triggered,  \* history: turn -> times it was handed on to be answered
  discarded,  \* history: turns reported as discarded
  crashes

vars == <<session, started, row, threads, writes, call, up, recorded, mine,
          triggered, discarded, crashes>>
history == <<triggered, discarded>>

States == {"idle", "engaged", "awaiting", "ready"}
SessionRecords ==
  [active: Conversations \cup {NoConversation}, state: States,
   unconfirmed: Turns \cup {NoTurn}]

Fresh == [active |-> NoConversation, state |-> "idle", unconfirmed |-> NoTurn]
Idle  == [method |-> "none", turn |-> NoTurn, at |-> "none",
          triggered |-> NoTurn, discarded |-> NoTurn]

Methods == {"none", "snapshot", "turn", "outcome"}
Places  == {"none", "thread", "threadSaved", "row", "rowSaved"}
CallRecords ==
  [method: Methods, turn: Turns \cup {NoTurn}, at: Places,
   triggered: Turns \cup {NoTurn}, discarded: Turns \cup {NoTurn}]

Init ==
  /\ session = Fresh /\ started = {}
  /\ row = Fresh /\ threads = {}
  /\ writes = <<>>
  /\ call = [c \in Calls |-> Idle]
  /\ up = TRUE
  /\ recorded = {} /\ mine = {}
  /\ triggered = [t \in Turns |-> 0] /\ discarded = {}
  /\ crashes = 0

-----------------------------------------------------------------------------
Addresses(s, t) == s.active # NoConversation /\ s.active = ConversationOf[t]

\* Call c awaits save_thread, and then save_session of the session as it is now.
SaveThread(c, method, t, conversation) ==
  /\ writes' = Append(writes, [call |-> c, kind |-> "thread", value |-> conversation])
  /\ call' = [call EXCEPT ![c] = [Idle EXCEPT !.method = method, !.turn = t, !.at = "thread"]]

\* Mutant of SaveSession: the session is saved as it was before the change.
SaveSessionBefore(c, method, s, toAnswer, toDrop) ==
  /\ session' = s
  /\ writes' = Append(writes, [call |-> c, kind |-> "row", value |-> session])
  /\ call' = [call EXCEPT ![c] =
               [method |-> method, turn |-> NoTurn, at |-> "row",
                triggered |-> toAnswer, discarded |-> toDrop]]

SaveSession(c, method, s, toAnswer, toDrop) ==
  /\ session' = s
  /\ writes' = Append(writes, [call |-> c, kind |-> "row", value |-> s])
  /\ call' = [call EXCEPT ![c] =
               [method |-> method, turn |-> NoTurn, at |-> "row",
                triggered |-> toAnswer, discarded |-> toDrop]]

Started(c) == up /\ call[c] = Idle
Resumed(c, method) == up /\ call[c].method = method /\ call[c].at = "threadSaved"

-----------------------------------------------------------------------------
(* observe_snapshot.                                                       *)

\* Minecraft's view replaces ours; only a new conversation, or one we had let
\* go, becomes engaged.
Observed(reference) ==
  [session EXCEPT
     !.active = reference,
     !.state = IF reference = NoConversation THEN "idle"
               ELSE IF session.active # reference \/ @ = "idle" THEN "engaged" ELSE @]

\* Mutant of ResolveAndSave: the resolved turn stays held.
ResolveHolding(c, s) ==
  LET held == s.unconfirmed
      confirmed == held # NoTurn /\ Addresses(s, held)
  IN SaveSession(c, "snapshot", [s EXCEPT !.state = IF confirmed THEN "awaiting" ELSE @],
       IF confirmed THEN held ELSE NoTurn,
       IF confirmed THEN NoTurn ELSE held)

\* The turn that waited for a snapshot is triggered by it or dropped.
ResolveAndSave(c, s) ==
  LET held == s.unconfirmed
      confirmed == held # NoTurn /\ Addresses(s, held)
  IN SaveSession(c, "snapshot",
       [s EXCEPT !.unconfirmed = NoTurn, !.state = IF confirmed THEN "awaiting" ELSE @],
       IF confirmed THEN held ELSE NoTurn,
       IF confirmed THEN NoTurn ELSE held)

ObserveSnapshot(c, reference) ==
  /\ Started(c)
  /\ IF reference = NoConversation
     THEN ResolveAndSave(c, Observed(reference)) /\ UNCHANGED started
     ELSE /\ session' = Observed(reference)
          /\ started' = started \cup {reference}
          /\ SaveThread(c, "snapshot", NoTurn, reference)
  /\ UNCHANGED <<row, threads, up, recorded, mine, history, crashes>>

ResumeSnapshot(c) ==
  /\ Resumed(c, "snapshot")
  /\ ResolveAndSave(c, session)
  /\ UNCHANGED <<started, row, threads, up, recorded, mine, history, crashes>>

-----------------------------------------------------------------------------
(* admit_turn, once the turn store has accepted the turn.                  *)

AdmitTurn(c, t) ==
  /\ Started(c)
  /\ t \notin recorded
  /\ recorded' = recorded \cup {t}
  /\ mine' = mine \cup {t}
  /\ started' = started \cup {ConversationOf[t]}
  /\ SaveThread(c, "turn", t, ConversationOf[t])
  /\ UNCHANGED <<session, row, threads, up, history, crashes>>

\* Mutant of ResumeTurn: the turn that waited is replaced unreported.
ResumeTurnReplacing(c) ==
  /\ Resumed(c, "turn")
  /\ LET t == call[c].turn IN
       IF Addresses(session, t)
       THEN SaveSession(c, "turn", [session EXCEPT !.state = "awaiting"], t, NoTurn)
       ELSE SaveSession(c, "turn", [session EXCEPT !.unconfirmed = t], NoTurn, NoTurn)
  /\ UNCHANGED <<started, row, threads, up, recorded, mine, history, crashes>>

ResumeTurn(c) ==
  /\ Resumed(c, "turn")
  /\ LET t == call[c].turn IN
       IF Addresses(session, t)
       THEN SaveSession(c, "turn", [session EXCEPT !.state = "awaiting"], t, NoTurn)
       ELSE SaveSession(c, "turn", [session EXCEPT !.unconfirmed = t],
                        NoTurn, session.unconfirmed)
  /\ UNCHANGED <<started, row, threads, up, recorded, mine, history, crashes>>

-----------------------------------------------------------------------------
(* note_command_outcome and note_not_generated.                            *)

\* What ends a waiting answers a turn of the store: one handed on, or the latest of a
\* conversation that a promotion or an expiry is about.
SomeTurnRecorded == recorded # {}

NotePublished(c) ==
  /\ Started(c) /\ SomeTurnRecorded
  /\ SaveSession(c, "outcome",
       [session EXCEPT !.state = IF session.active # NoConversation THEN "ready" ELSE "idle"],
       NoTurn, NoTurn)
  /\ UNCHANGED <<started, row, threads, up, recorded, mine, history, crashes>>

\* A command expired or was too large, or a turn was given up.
NoteNotGenerated(c) ==
  /\ Started(c) /\ SomeTurnRecorded
  /\ session.state = "awaiting"
  /\ SaveSession(c, "outcome",
       [session EXCEPT !.state = IF session.active # NoConversation THEN "engaged" ELSE "idle"],
       NoTurn, NoTurn)
  /\ UNCHANGED <<started, row, threads, up, recorded, mine, history, crashes>>

-----------------------------------------------------------------------------
(* The store and the end of a call.                                        *)

ExecuteWrite ==
  /\ up /\ writes # <<>>
  /\ LET w == Head(writes) IN
       /\ row' = IF w.kind = "row" THEN w.value ELSE row
       /\ threads' = IF w.kind = "thread" THEN threads \cup {w.value} ELSE threads
       /\ call' = [call EXCEPT ![w.call].at = IF @ = "row" THEN "rowSaved" ELSE "threadSaved"]
  /\ writes' = Tail(writes)
  /\ UNCHANGED <<session, started, up, recorded, mine, history, crashes>>

\* The admission is acted on: a turn is handed on, or reported as discarded.
Return(c) ==
  /\ up /\ call[c].at = "rowSaved"
  /\ call' = [call EXCEPT ![c] = Idle]
  /\ triggered' = [t \in Turns |->
       IF t = call[c].triggered THEN triggered[t] + 1 ELSE triggered[t]]
  /\ discarded' = discarded \cup ({call[c].discarded} \ {NoTurn})
  /\ UNCHANGED <<session, started, row, threads, writes, up, recorded, mine, crashes>>

Crash ==
  /\ up /\ crashes < MaxCrashes
  /\ crashes' = crashes + 1
  /\ up' = FALSE
  /\ session' = Fresh /\ started' = {} /\ writes' = <<>>
  /\ call' = [c \in Calls |-> Idle]
  /\ mine' = {}
  /\ UNCHANGED <<row, threads, recorded, history>>

Restore ==
  /\ ~up
  /\ up' = TRUE
  /\ session' = row
  /\ started' = threads
  /\ mine' = {row.unconfirmed} \ {NoTurn}
  /\ UNCHANGED <<row, threads, writes, call, recorded, history, crashes>>

-----------------------------------------------------------------------------
Next ==
  \/ \E c \in Calls :
       \/ \E reference \in Conversations \cup {NoConversation} : ObserveSnapshot(c, reference)
       \/ \E t \in Turns : AdmitTurn(c, t)
       \/ NotePublished(c)
       \/ NoteNotGenerated(c)
       \/ ResumeSnapshot(c) \/ ResumeTurn(c) \/ Return(c)
  \/ ExecuteWrite
  \/ Crash \/ Restore

Spec == Init /\ [][Next]_vars

-----------------------------------------------------------------------------
TypeOK ==
  /\ session \in SessionRecords /\ row \in SessionRecords
  /\ started \subseteq Conversations /\ threads \subseteq Conversations
  /\ \A i \in 1..Len(writes) : writes[i].call \in Calls
  /\ call \in [Calls -> CallRecords]
  /\ recorded \subseteq Turns /\ mine \subseteq Turns
  /\ triggered \in [Turns -> Nat] /\ discarded \subseteq Turns
  /\ up \in BOOLEAN /\ crashes \in 0..MaxCrashes

\* What a player said is held, on its way, handed on, or reported as discarded:
\* a call that resumes over a changed session never drops a turn in silence.
OnItsWay(t) == \E c \in Calls : t \in {call[c].turn, call[c].triggered, call[c].discarded}

NoTurnLost ==
  \A t \in mine :
    \/ session.unconfirmed = t \/ OnItsWay(t)
    \/ triggered[t] > 0 \/ t \in discarded

\* No turn is handed on twice, or handed on and reported as discarded, across
\* restarts too.
TurnSettlesOnce ==
  \A t \in Turns : triggered[t] + (IF t \in discarded THEN 1 ELSE 0) <= 1

\* With no call in progress the database holds what memory holds, so that a
\* restart resumes the exchange: the saves land in the order of the changes.
StoreMatchesMemory ==
  up /\ (\A c \in Calls : call[c] = Idle) => row = session /\ threads = started

=============================================================================
