----------------------- MODULE ConversationManager_proofs -----------------------
(***************************************************************************)
(* What becomes of every turn, and of the session's row, for any number of *)
(* conversations, turns, concurrent method calls and crashes.              *)
(*                                                                         *)
(* A turn is in one place: held by the session, carried by one call, or    *)
(* settled (OneHolder).  A restart could still take it out of the row once *)
(* more; that it does not needs the order of the store calls: a turn's     *)
(* call returns only after the row that no longer holds the turn has been  *)
(* executed (RowForgets).  And the last row on its way is the session as   *)
(* it is, unless a snapshot has changed it and not saved it yet            *)
(* (WritesCatchUp).                                                        *)
(***************************************************************************)
EXTENDS ConversationManager, TLAPS, SequenceTheorems

WriteRecords ==
  [call: Calls, kind: {"thread"}, value: Conversations]
    \cup [call: Calls, kind: {"row"}, value: SessionRecords]

OnThread == {"thread", "threadSaved"}
OnRow    == {"row", "rowSaved"}

\* Nothing that was in memory is left while the process is down.
DownIsEmpty ==
  ~up => /\ session = Fresh /\ started = {} /\ writes = <<>> /\ mine = {}
         /\ \A c \in Calls : call[c] = Idle

\* What a call's place says of the turns it carries.
CallFits ==
  \A c \in Calls :
    /\ call[c].at = "none" => call[c] = Idle
    /\ call[c].at \in OnThread => call[c].triggered = NoTurn /\ call[c].discarded = NoTurn
    /\ call[c].at \in OnRow => call[c].turn = NoTurn
    /\ call[c].method = "snapshot" => call[c].turn = NoTurn
    /\ call[c].method = "turn" /\ call[c].at \in OnThread => call[c].turn # NoTurn

\* Every write that waits is the one its call waits for.
WritesFit ==
  /\ writes \in Seq(WriteRecords)
  /\ \A i \in 1..Len(writes) : call[writes[i].call].at = writes[i].kind
  /\ \A i, j \in 1..Len(writes) : writes[i].call = writes[j].call => i = j

Carries(c, t) == t \in {call[c].turn, call[c].triggered, call[c].discarded}
Settled(t)    == triggered[t] > 0 \/ t \in discarded
Nowhere(t)    == session.unconfirmed # t /\ \A c \in Calls : ~Carries(c, t)

OneHolder ==
  \A t \in Turns :
    /\ session.unconfirmed = t => \A c \in Calls : ~Carries(c, t)
    /\ \A c, d \in Calls : Carries(c, t) /\ Carries(d, t) => c = d
    /\ \A c \in Calls : call[c].triggered = t => call[c].discarded # t
    /\ Settled(t) => Nowhere(t)
    /\ t \notin recorded => Nowhere(t) /\ ~Settled(t)

Awaits(i, t) == writes[i].kind = "row" /\ writes[i].value.unconfirmed = t

Erased(t) == row.unconfirmed # t /\ \A i \in 1..Len(writes) : ~Awaits(i, t)

\* A turn that is settled, or will be when a call returns that has saved its row,
\* is neither in the row nor in one on its way; before that, not in the call's own
\* row nor in any behind it.
RowForgets ==
  \A t \in Turns :
    /\ t \notin recorded \/ Settled(t) => Erased(t)
    /\ \A c \in Calls :
         call[c].turn = t \/ (call[c].at = "rowSaved" /\ Carries(c, t)) => Erased(t)
    /\ \A i, j \in 1..Len(writes) : i <= j /\ Carries(writes[i].call, t) => ~Awaits(j, t)

ChangePending == \E c \in Calls : call[c].method = "snapshot" /\ call[c].at \in OnThread

LastRowIs(s) ==
  \/ row = s /\ \A i \in 1..Len(writes) : writes[i].kind # "row"
  \/ \E i \in 1..Len(writes) :
       /\ writes[i].kind = "row" /\ writes[i].value = s
       /\ \A j \in 1..Len(writes) : i < j => writes[j].kind # "row"

ThreadsOnTheWay ==
  {writes[i].value : i \in {j \in 1..Len(writes) : writes[j].kind = "thread"}}

WritesCatchUp ==
  up => /\ ChangePending \/ LastRowIs(session)
        /\ started = threads \cup ThreadsOnTheWay

IInv ==
  /\ TypeOK /\ DownIsEmpty /\ CallFits /\ WritesFit
  /\ OneHolder /\ RowForgets /\ WritesCatchUp
  /\ NoTurnLost /\ TurnSettlesOnce

\* Nothing is in memory, in the database or under way.
LEMMA InitIInv == Init => IInv
<1> SUFFICES ASSUME Init PROVE IInv OBVIOUS
<1> USE ConversationAssumption DEF Init, Fresh, Idle
<1>1. TypeOK
  BY DEF TypeOK, SessionRecords, States, CallRecords, Methods, Places
<1>2. DownIsEmpty /\ CallFits
  BY DEF DownIsEmpty, CallFits, OnThread, OnRow
<1>3. WritesFit /\ WritesCatchUp
  BY DEF WritesFit, WritesCatchUp, LastRowIs, ThreadsOnTheWay
<1>4. OneHolder /\ RowForgets
  BY DEF OneHolder, RowForgets, Carries, Settled, Nowhere, Erased
<1>5. NoTurnLost /\ TurnSettlesOnce
  BY DEF NoTurnLost, TurnSettlesOnce
<1> QED BY <1>1, <1>2, <1>3, <1>4, <1>5 DEF IInv

-----------------------------------------------------------------------------
(* A store call is appended to the writes, and executed from their front.  *)

\* Appending one write to the queue of the database thread, as indices see it.
LEMMA Appended ==
  ASSUME writes \in Seq(WriteRecords), NEW w \in WriteRecords, writes' = Append(writes, w)
  PROVE  /\ writes' \in Seq(WriteRecords)
         /\ Len(writes) \in Nat /\ Len(writes') = Len(writes) + 1
         /\ \A i \in 1..Len(writes) : writes'[i] = writes[i]
         /\ writes'[Len(writes) + 1] = w
         /\ 1..Len(writes') = (1..Len(writes)) \cup {Len(writes) + 1}
OBVIOUS

\* Call c goes on to save the session: the turns the session and the call held
\* are held, answered or dropped, none is duplicated.
LEMMA SessionSaved ==
  ASSUME IInv, up,
         NEW c \in Calls, call[c].at \in {"none", "threadSaved"},
         NEW method \in Methods, NEW s \in SessionRecords,
         NEW toAnswer \in Turns \cup {NoTurn}, NEW toDrop \in Turns \cup {NoTurn},
         {s.unconfirmed, toAnswer, toDrop} \ {NoTurn}
           = {session.unconfirmed, call[c].turn} \ {NoTurn},
         \A t \in Turns : /\ toAnswer = t => toDrop # t
                          /\ s.unconfirmed = t => toAnswer # t /\ toDrop # t,
         SaveSession(c, method, s, toAnswer, toDrop),
         UNCHANGED <<started, row, threads, up, recorded, mine, history, crashes>>
  PROVE  IInv'
<1> USE ConversationAssumption DEF history
<1> DEFINE w == [call |-> c, kind |-> "row", value |-> s]
           r == [method |-> method, turn |-> NoTurn, at |-> "row",
                 triggered |-> toAnswer, discarded |-> toDrop]
<1>1. /\ TypeOK /\ CallFits /\ WritesFit /\ OneHolder /\ RowForgets /\ WritesCatchUp
      /\ NoTurnLost /\ TurnSettlesOnce
  BY DEF IInv
<1>2. /\ session' = s /\ writes' = Append(writes, w)
      /\ call' = [call EXCEPT ![c] = r]
      /\ call' \in [Calls -> CallRecords] /\ call'[c] = r
      /\ \A d \in Calls \ {c} : call'[d] = call[d]
      /\ w \in WriteRecords
  BY <1>1 DEF SaveSession, TypeOK, CallRecords, Places, WriteRecords
<1>3. /\ writes' \in Seq(WriteRecords)
      /\ Len(writes) \in Nat /\ Len(writes') = Len(writes) + 1
      /\ \A i \in 1..Len(writes) : writes'[i] = writes[i]
      /\ writes'[Len(writes) + 1] = w
      /\ 1..Len(writes') = (1..Len(writes)) \cup {Len(writes) + 1}
  BY <1>1, <1>2, Appended DEF WritesFit
<1>4. \A i \in 1..Len(writes) : writes[i] \in WriteRecords /\ writes[i].call \in Calls \ {c}
  BY <1>1 DEF WritesFit, WriteRecords
<1>5. /\ \A t \in Turns, d \in Calls \ {c} : Carries(d, t)' <=> Carries(d, t)
      /\ \A t \in Turns : Carries(c, t)' <=> t \in {toAnswer, toDrop}
      /\ \A t \in Turns : Settled(t)' <=> Settled(t)
      /\ \A t \in Turns : Carries(c, t) <=> t = call[c].turn
  BY <1>1, <1>2 DEF Carries, Settled, TypeOK, CallFits, OnThread, Idle
<1>6. TypeOK'
  BY <1>1, <1>2, <1>3, <1>4 DEF TypeOK
<1>7. DownIsEmpty' /\ CallFits'
  BY <1>1, <1>2 DEF DownIsEmpty, CallFits, OnThread, OnRow, Methods
<1>8. WritesFit'
  BY <1>1, <1>2, <1>3, <1>4 DEF WritesFit
<1>9. \A t \in Turns : \/ session.unconfirmed = t \/ Carries(c, t)
                       <=> s.unconfirmed = t \/ Carries(c, t)'
  BY <1>5
<1>10. OneHolder'
  <2> SUFFICES ASSUME NEW t \in Turns
               PROVE  /\ s.unconfirmed = t => \A d \in Calls : ~Carries(d, t)'
                      /\ \A d, e \in Calls : Carries(d, t)' /\ Carries(e, t)' => d = e
                      /\ \A d \in Calls : call'[d].triggered = t => call'[d].discarded # t
                      /\ Settled(t)' => s.unconfirmed # t /\ \A d \in Calls : ~Carries(d, t)'
                      /\ t \notin recorded =>
                           s.unconfirmed # t /\ (\A d \in Calls : ~Carries(d, t)') /\ ~Settled(t)'
    BY <1>2 DEF OneHolder, Nowhere
  <2>1. /\ session.unconfirmed = t => \A d \in Calls : ~Carries(d, t)
        /\ \A d, e \in Calls : Carries(d, t) /\ Carries(e, t) => d = e
        /\ Settled(t) \/ t \notin recorded =>
             session.unconfirmed # t /\ \A d \in Calls : ~Carries(d, t)
        /\ t \notin recorded => ~Settled(t)
        /\ \A d \in Calls : call[d].triggered = t => call[d].discarded # t
    BY <1>1 DEF OneHolder, Nowhere
  <2>2. s.unconfirmed = t => \A d \in Calls : ~Carries(d, t)'
    BY <1>5, <1>9, <2>1
  <2>3. \A d, e \in Calls : Carries(d, t)' /\ Carries(e, t)' => d = e
    BY <1>5, <1>9, <2>1
  <2>4. \A d \in Calls : call'[d].triggered = t => call'[d].discarded # t
    BY <1>2, <2>1
  <2> QED BY <1>5, <1>9, <2>1, <2>2, <2>3, <2>4
<1>11. \A t \in Turns : \A i \in 1..Len(writes') :
         Awaits(i, t)' <=> IF i = Len(writes) + 1 THEN s.unconfirmed = t ELSE Awaits(i, t)
  BY <1>3 DEF Awaits
<1>12. RowForgets'
  <2> SUFFICES ASSUME NEW t \in Turns
               PROVE  /\ t \notin recorded \/ Settled(t)' => Erased(t)'
                      /\ \A d \in Calls :
                           call'[d].turn = t \/ (call'[d].at = "rowSaved" /\ Carries(d, t)') => Erased(t)'
                      /\ \A i, j \in 1..Len(writes') :
                           i <= j /\ Carries(writes[i].call, t)' => ~Awaits(j, t)'
    BY DEF RowForgets
  <2>1. Erased(t)' <=> Erased(t) /\ s.unconfirmed # t
    BY <1>3, <1>11 DEF Erased
  <2>2. t \notin recorded \/ Settled(t)' => Erased(t)'
    BY <1>1, <1>5, <1>9, <2>1 DEF RowForgets, OneHolder, Nowhere
  <2>3. ASSUME NEW d \in Calls, call'[d].turn = t \/ (call'[d].at = "rowSaved" /\ Carries(d, t)')
        PROVE  Erased(t)'
    <3>1. d # c /\ Erased(t) /\ Carries(d, t)
      BY <1>1, <1>2, <1>5, <2>3 DEF RowForgets, Carries
    <3> QED BY <1>1, <1>5, <1>9, <2>1, <3>1 DEF OneHolder
  <2>4. ASSUME NEW i \in 1..Len(writes'), NEW j \in 1..Len(writes'), i <= j,
               Carries(writes[i].call, t)'
        PROVE  ~Awaits(j, t)'
    <3>1. PICK d \in Calls : d = writes'[i].call /\ Carries(d, t)'
      BY <1>3, <1>4, <2>4
    <3>2. CASE j = Len(writes) + 1
      BY <1>2, <1>10, <1>11, <3>1, <3>2 DEF OneHolder
    <3>3. CASE j \in 1..Len(writes)
      <4>1. i \in 1..Len(writes) /\ d = writes[i].call /\ d # c
        BY <1>3, <1>4, <2>4, <3>1, <3>3
      <4> QED BY <1>1, <1>5, <1>11, <2>4, <3>1, <3>3, <4>1 DEF RowForgets
    <3> QED BY <1>3, <3>2, <3>3
  <2> QED BY <2>2, <2>3, <2>4
<1>13. WritesCatchUp'
  <2>1. LastRowIs(session)'
    BY <1>2, <1>3 DEF LastRowIs
  <2>2. ThreadsOnTheWay' = ThreadsOnTheWay
    BY <1>3 DEF ThreadsOnTheWay
  <2> QED BY <1>1, <2>1, <2>2 DEF WritesCatchUp
<1>14. NoTurnLost'
  <2> SUFFICES ASSUME NEW t \in mine
               PROVE  \/ s.unconfirmed = t \/ \E d \in Calls : Carries(d, t)'
                      \/ triggered[t] > 0 \/ t \in discarded
    BY <1>2 DEF NoTurnLost, OnItsWay, Carries
  <2>1. t \in Turns
    BY <1>1 DEF TypeOK
  <2>2. \/ session.unconfirmed = t \/ \E d \in Calls : Carries(d, t)
        \/ triggered[t] > 0 \/ t \in discarded
    BY <1>1 DEF NoTurnLost, OnItsWay, Carries
  <2> QED BY <1>5, <1>9, <2>1, <2>2
<1>15. TurnSettlesOnce'
  BY <1>1 DEF TurnSettlesOnce
<1> QED BY <1>6, <1>7, <1>8, <1>10, <1>12, <1>13, <1>14, <1>15 DEF IInv

\* Call c, which carried nothing, goes on to save a thread, with a turn that was
\* nowhere before or with none.
LEMMA ThreadSaved ==
  ASSUME IInv, up,
         NEW c \in Calls, call[c] = Idle,
         NEW method \in {"snapshot", "turn"}, NEW t \in Turns \cup {NoTurn},
         t = NoTurn <=> method = "snapshot",
         NEW v \in Conversations,
         t \notin recorded,
         recorded' = recorded \cup ({t} \ {NoTurn}), mine' = mine \cup ({t} \ {NoTurn}),
         session' \in SessionRecords, session'.unconfirmed = session.unconfirmed,
         method = "turn" => session' = session,
         started' = started \cup {v},
         SaveThread(c, method, t, v),
         UNCHANGED <<row, threads, up, history, crashes>>
  PROVE  IInv'
<1> USE ConversationAssumption DEF history
<1> DEFINE w == [call |-> c, kind |-> "thread", value |-> v]
           r == [Idle EXCEPT !.method = method, !.turn = t, !.at = "thread"]
<1>1. /\ TypeOK /\ CallFits /\ WritesFit /\ OneHolder /\ RowForgets /\ WritesCatchUp
      /\ NoTurnLost /\ TurnSettlesOnce
  BY DEF IInv
<1>2. /\ writes' = Append(writes, w)
      /\ call' = [call EXCEPT ![c] = r]
      /\ call' \in [Calls -> CallRecords] /\ call'[c] = r
      /\ \A d \in Calls \ {c} : call'[d] = call[d]
      /\ w \in WriteRecords
  BY <1>1 DEF SaveThread, TypeOK, CallRecords, Places, Methods, Idle, WriteRecords
<1>3. /\ writes' \in Seq(WriteRecords)
      /\ Len(writes) \in Nat /\ Len(writes') = Len(writes) + 1
      /\ \A i \in 1..Len(writes) : writes'[i] = writes[i]
      /\ writes'[Len(writes) + 1] = w
      /\ 1..Len(writes') = (1..Len(writes)) \cup {Len(writes) + 1}
  BY <1>1, <1>2, Appended DEF WritesFit
<1>4. \A i \in 1..Len(writes) : writes[i] \in WriteRecords /\ writes[i].call \in Calls \ {c}
  BY <1>1 DEF WritesFit, WriteRecords, Idle
<1>5. /\ \A u \in Turns, d \in Calls \ {c} : Carries(d, u)' <=> Carries(d, u)
      /\ \A u \in Turns : Carries(c, u)' <=> u = t
      /\ \A u \in Turns : ~Carries(c, u)
      /\ \A u \in Turns : Settled(u)' <=> Settled(u)
  BY <1>1, <1>2 DEF Carries, Settled, Idle
<1>6. TypeOK'
  BY <1>1, <1>2, <1>3, <1>4 DEF TypeOK
<1>7. DownIsEmpty' /\ CallFits'
  BY <1>1, <1>2 DEF DownIsEmpty, CallFits, OnThread, OnRow, Idle
<1>8. WritesFit'
  BY <1>1, <1>2, <1>3, <1>4 DEF WritesFit, Idle
<1>9. OneHolder'
  BY <1>1, <1>2, <1>5 DEF OneHolder, Nowhere, Idle
<1>10. \A u \in Turns : \A i \in 1..Len(writes') :
         Awaits(i, u)' <=> i # Len(writes) + 1 /\ Awaits(i, u)
  BY <1>3 DEF Awaits
<1>11. RowForgets'
  <2> SUFFICES ASSUME NEW u \in Turns
               PROVE  /\ u \notin recorded' \/ Settled(u)' => Erased(u)'
                      /\ \A d \in Calls :
                           call'[d].turn = u \/ (call'[d].at = "rowSaved" /\ Carries(d, u)') => Erased(u)'
                      /\ \A i, j \in 1..Len(writes') :
                           i <= j /\ Carries(writes[i].call, u)' => ~Awaits(j, u)'
    BY DEF RowForgets
  <2>1. Erased(u)' <=> Erased(u)
    BY <1>3, <1>10 DEF Erased
  <2>2. u \notin recorded' \/ Settled(u)' => Erased(u)'
    BY <1>1, <1>5, <2>1 DEF RowForgets
  <2>3. ASSUME NEW d \in Calls, call'[d].turn = u \/ (call'[d].at = "rowSaved" /\ Carries(d, u)')
        PROVE  Erased(u)'
    <3>1. CASE d = c
      BY <1>1, <1>2, <2>1, <2>3, <3>1 DEF RowForgets, Idle
    <3>2. CASE d # c
      BY <1>1, <1>2, <1>5, <2>1, <2>3, <3>2 DEF RowForgets
    <3> QED BY <3>1, <3>2
  <2>4. ASSUME NEW i \in 1..Len(writes'), NEW j \in 1..Len(writes'), i <= j,
               Carries(writes[i].call, u)'
        PROVE  ~Awaits(j, u)'
    <3>1. PICK d \in Calls : d = writes'[i].call /\ Carries(d, u)'
      BY <1>3, <1>4, <2>4
    <3>2. CASE j = Len(writes) + 1
      BY <1>10, <3>2
    <3>3. CASE j \in 1..Len(writes)
      <4>1. i \in 1..Len(writes) /\ d = writes[i].call /\ d # c
        BY <1>3, <1>4, <2>4, <3>1, <3>3
      <4> QED BY <1>1, <1>5, <1>10, <2>4, <3>1, <3>3, <4>1 DEF RowForgets
    <3> QED BY <1>3, <3>2, <3>3
  <2> QED BY <2>2, <2>3, <2>4
<1>12. WritesCatchUp'
  <2>1. (ChangePending \/ LastRowIs(session))'
    <3>1. CASE method = "snapshot"
      BY <1>2, <3>1 DEF ChangePending, OnThread, Idle
    <3>2. CASE method = "turn" /\ ChangePending
      BY <1>2, <3>2 DEF ChangePending, OnThread, Idle
    <3>3. CASE method = "turn" /\ LastRowIs(session)
      BY <1>2, <1>3, <3>3 DEF LastRowIs
    <3> QED BY <1>1, <3>1, <3>2, <3>3 DEF WritesCatchUp
  <2>2. ThreadsOnTheWay' = ThreadsOnTheWay \cup {v}
    BY <1>3 DEF ThreadsOnTheWay
  <2> QED BY <1>1, <2>1, <2>2 DEF WritesCatchUp
<1>13. NoTurnLost'
  <2> SUFFICES ASSUME NEW u \in mine'
               PROVE  \/ session'.unconfirmed = u \/ \E d \in Calls : Carries(d, u)'
                      \/ triggered[u] > 0 \/ u \in discarded
    BY DEF NoTurnLost, OnItsWay, Carries
  <2>1. u \in Turns
    BY <1>1 DEF TypeOK
  <2>2. CASE u = t
    BY <1>5, <2>1, <2>2
  <2>3. CASE u \in mine
    <3>1. \/ session.unconfirmed = u \/ \E d \in Calls : Carries(d, u)
          \/ triggered[u] > 0 \/ u \in discarded
      BY <1>1, <2>3 DEF NoTurnLost, OnItsWay, Carries
    <3> QED BY <1>5, <2>1, <3>1
  <2> QED BY <2>2, <2>3
<1>14. TurnSettlesOnce'
  BY <1>1 DEF TurnSettlesOnce
<1> QED BY <1>6, <1>7, <1>8, <1>9, <1>11, <1>12, <1>13, <1>14 DEF IInv

-----------------------------------------------------------------------------
(* The methods.                                                            *)

\* What Resumed does with the held turn is a save that neither loses nor doubles it.
LEMMA ResolvedAndSaved ==
  ASSUME IInv, up, NEW c \in Calls, call[c].at \in {"none", "threadSaved"},
         call[c].turn = NoTurn,
         NEW s \in SessionRecords, s.unconfirmed = session.unconfirmed,
         ResolveAndSave(c, s),
         UNCHANGED <<started, row, threads, up, recorded, mine, history, crashes>>
  PROVE  IInv'
<1> USE ConversationAssumption
<1> DEFINE held == s.unconfirmed
           confirmed == held # NoTurn /\ Addresses(s, held)
           after == [s EXCEPT !.unconfirmed = NoTurn,
                              !.state = IF confirmed THEN "awaiting" ELSE @]
           toAnswer == IF confirmed THEN held ELSE NoTurn
           toDrop == IF confirmed THEN NoTurn ELSE held
<1>1. /\ after \in SessionRecords /\ after.unconfirmed = NoTurn
      /\ toAnswer \in Turns \cup {NoTurn} /\ toDrop \in Turns \cup {NoTurn}
      /\ {toAnswer, toDrop} = {held, NoTurn}
  BY DEF SessionRecords, States
<1>2. SaveSession(c, "snapshot", after, toAnswer, toDrop)
  BY DEF ResolveAndSave
<1> HIDE DEF held, confirmed, after, toAnswer, toDrop
<1>3. /\ {after.unconfirmed, toAnswer, toDrop} \ {NoTurn}
           = {session.unconfirmed, call[c].turn} \ {NoTurn}
      /\ \A t \in Turns : /\ toAnswer = t => toDrop # t
                          /\ after.unconfirmed = t => toAnswer # t /\ toDrop # t
  BY <1>1 DEF held, toAnswer, toDrop
<1> QED BY SMTT(60), <1>1, <1>2, <1>3, SessionSaved DEF Methods

\* Minecraft's view of the conversation is put in place of ours.
LEMMA ObserveSnapshotStep ==
  ASSUME IInv, NEW c \in Calls, NEW reference \in Conversations \cup {NoConversation},
         ObserveSnapshot(c, reference)
  PROVE  IInv'
<1> USE ConversationAssumption
<1>1. up /\ call[c] = Idle /\ session \in SessionRecords
  BY DEF ObserveSnapshot, Started, IInv, TypeOK
<1>2. Observed(reference) \in SessionRecords /\ Observed(reference).unconfirmed = session.unconfirmed
  BY <1>1 DEF Observed, SessionRecords, States
<1>3. CASE reference = NoConversation
  BY <1>1, <1>2, <1>3, ResolvedAndSaved DEF ObserveSnapshot, Idle
<1>4. CASE reference # NoConversation
  <2>1. /\ session' = Observed(reference) /\ started' = started \cup {reference}
        /\ SaveThread(c, "snapshot", NoTurn, reference)
        /\ UNCHANGED <<row, threads, up, recorded, mine, history, crashes>>
    BY <1>4 DEF ObserveSnapshot
  <2>2. NoTurn \notin recorded
    BY DEF IInv, TypeOK
  <2> QED BY <1>1, <1>2, <1>4, <2>1, <2>2, ThreadSaved
<1> QED BY <1>3, <1>4

\* An observation that resumes after its thread row was written.
LEMMA ResumeSnapshotStep ==
  ASSUME IInv, NEW c \in Calls, ResumeSnapshot(c)
  PROVE  IInv'
<1>1. /\ up /\ call[c].at = "threadSaved" /\ call[c].turn = NoTurn
      /\ session \in SessionRecords /\ ResolveAndSave(c, session)
      /\ UNCHANGED <<started, row, threads, up, recorded, mine, history, crashes>>
  BY DEF ResumeSnapshot, Resumed, IInv, TypeOK, CallFits
<1> QED BY <1>1, ResolvedAndSaved

\* A turn's admission, up to its wait for the thread row.
LEMMA AdmitTurnStep ==
  ASSUME IInv, NEW c \in Calls, NEW t \in Turns, AdmitTurn(c, t)
  PROVE  IInv'
<1> USE ConversationAssumption
<1>1. /\ up /\ call[c] = Idle /\ t \notin recorded
      /\ recorded' = recorded \cup ({t} \ {NoTurn}) /\ mine' = mine \cup ({t} \ {NoTurn})
      /\ session' = session /\ session' \in SessionRecords
      /\ started' = started \cup {ConversationOf[t]} /\ ConversationOf[t] \in Conversations
      /\ SaveThread(c, "turn", t, ConversationOf[t])
      /\ UNCHANGED <<row, threads, up, history, crashes>>
  BY DEF AdmitTurn, Started, IInv, TypeOK
<1>2. t = NoTurn <=> "turn" = "snapshot"
  OBVIOUS
<1> QED BY <1>1, <1>2, ThreadSaved

\* A turn that resumes either is held by the session or is answered or dropped.
LEMMA ResumeTurnStep ==
  ASSUME IInv, NEW c \in Calls, ResumeTurn(c)
  PROVE  IInv'
<1> USE ConversationAssumption
<1>1. PICK t \in Turns : t = call[c].turn
  BY DEF ResumeTurn, Resumed, IInv, TypeOK, CallFits, OnThread, CallRecords
<1>2. /\ up /\ call[c].at = "threadSaved" /\ session \in SessionRecords
      /\ session.unconfirmed # t
      /\ UNCHANGED <<started, row, threads, up, recorded, mine, history, crashes>>
  BY <1>1 DEF ResumeTurn, Resumed, IInv, TypeOK, OneHolder, Carries
<1>3. CASE Addresses(session, t)
  <2> DEFINE s == [session EXCEPT !.state = "awaiting"]
  <2>1. s \in SessionRecords /\ s.unconfirmed = session.unconfirmed
    BY <1>2 DEF SessionRecords, States
  <2>2. SaveSession(c, "turn", s, t, NoTurn)
    BY <1>1, <1>3 DEF ResumeTurn
  <2> HIDE DEF s
  <2> QED BY <1>1, <1>2, <2>1, <2>2, SessionSaved DEF Methods
<1>4. CASE ~Addresses(session, t)
  <2> DEFINE s == [session EXCEPT !.unconfirmed = t]
  <2>1. s \in SessionRecords /\ s.unconfirmed = t /\ session.unconfirmed \in Turns \cup {NoTurn}
    BY <1>2 DEF SessionRecords
  <2>2. SaveSession(c, "turn", s, NoTurn, session.unconfirmed)
    BY <1>1, <1>4 DEF ResumeTurn
  <2> HIDE DEF s
  <2> QED BY <1>1, <1>2, <2>1, <2>2, SessionSaved DEF Methods
<1> QED BY <1>3, <1>4

\* Noting an outcome changes the state alone and saves the session.
LEMMA OutcomeStep ==
  ASSUME IInv, NEW c \in Calls, NotePublished(c) \/ NoteNotGenerated(c)
  PROVE  IInv'
<1> USE ConversationAssumption
<1>1. /\ up /\ call[c] = Idle /\ session \in SessionRecords
      /\ UNCHANGED <<started, row, threads, up, recorded, mine, history, crashes>>
  BY DEF NotePublished, NoteNotGenerated, Started, IInv, TypeOK
<1>2. PICK state \in States :
        SaveSession(c, "outcome", [session EXCEPT !.state = state], NoTurn, NoTurn)
  BY DEF NotePublished, NoteNotGenerated, States
<1> DEFINE s == [session EXCEPT !.state = state]
<1>3. s \in SessionRecords /\ s.unconfirmed = session.unconfirmed
  BY <1>1 DEF SessionRecords
<1> HIDE DEF s
<1>4. SaveSession(c, "outcome", s, NoTurn, NoTurn)
  BY <1>2 DEF s
<1> QED BY <1>1, <1>3, <1>4, SessionSaved DEF Methods, Idle

-----------------------------------------------------------------------------
(* The store and the end of a call.                                        *)

\* The database thread executes the oldest write: the row moves to what that
\* write carries, and the writes behind it still lead to what memory holds.
LEMMA ExecuteWriteStep == ASSUME IInv, ExecuteWrite PROVE IInv'
<1> USE ConversationAssumption DEF history
<1>1. /\ TypeOK /\ DownIsEmpty /\ CallFits /\ WritesFit /\ OneHolder /\ RowForgets
      /\ WritesCatchUp /\ NoTurnLost /\ TurnSettlesOnce
  BY DEF IInv
<1>2. PICK w \in WriteRecords : w = writes[1] /\ w = Head(writes)
  BY <1>1 DEF ExecuteWrite, WritesFit
<1>3. PICK c \in Calls : c = w.call /\ call[c].at = w.kind
  BY <1>1, <1>2 DEF ExecuteWrite, WritesFit, WriteRecords
<1>4. /\ up /\ writes \in Seq(WriteRecords) /\ writes # <<>>
      /\ writes' \in Seq(WriteRecords)
      /\ Len(writes) \in Nat \ {0} /\ Len(writes') = Len(writes) - 1
      /\ \A i \in 1..Len(writes') : writes'[i] = writes[i + 1] /\ i + 1 \in 1..Len(writes)
  BY <1>1 DEF ExecuteWrite, WritesFit
<1>5. /\ call' \in [Calls -> CallRecords]
      /\ \A d \in Calls \ {c} : call'[d] = call[d]
      /\ call'[c].at = (IF w.kind = "row" THEN "rowSaved" ELSE "threadSaved")
      /\ call'[c].turn = call[c].turn /\ call'[c].method = call[c].method
      /\ call'[c].triggered = call[c].triggered /\ call'[c].discarded = call[c].discarded
  <2> DEFINE r == [call[c] EXCEPT !.at = IF call[c].at = "row" THEN "rowSaved" ELSE "threadSaved"]
  <2>1. call' = [call EXCEPT ![c] = r]
    BY <1>1, <1>2, <1>3 DEF ExecuteWrite
  <2>2. call[c] \in CallRecords
    BY <1>1 DEF TypeOK
  <2>3. /\ r \in CallRecords
        /\ r.at = (IF call[c].at = "row" THEN "rowSaved" ELSE "threadSaved")
        /\ r.turn = call[c].turn /\ r.method = call[c].method
        /\ r.triggered = call[c].triggered /\ r.discarded = call[c].discarded
    BY <2>2 DEF CallRecords, Places
  <2> HIDE DEF r
  <2> QED BY <1>1, <1>3, <2>1, <2>3 DEF TypeOK
<1>6. /\ \A d \in Calls, t \in Turns : Carries(d, t)' <=> Carries(d, t)
      /\ \A d \in Calls : call'[d].turn = call[d].turn /\ call'[d].method = call[d].method
      /\ \A d \in Calls : call'[d].triggered = call[d].triggered
      /\ \A d \in Calls : call'[d].discarded = call[d].discarded
  BY <1>5 DEF Carries
<1>7. /\ row' = (IF w.kind = "row" THEN w.value ELSE row)
      /\ threads' = (IF w.kind = "thread" THEN threads \cup {w.value} ELSE threads)
      /\ UNCHANGED <<session, started, up, recorded, mine, history, crashes>>
      /\ \A t \in Turns : Settled(t)' <=> Settled(t)
      /\ w.kind \in {"thread", "row"}
      /\ w.kind = "row" => w.value \in SessionRecords
      /\ w.kind = "thread" => w.value \in Conversations
  BY <1>2 DEF ExecuteWrite, Settled, WriteRecords
<1>8. TypeOK'
  BY <1>1, <1>4, <1>5, <1>7 DEF TypeOK, WriteRecords
<1>9. DownIsEmpty' /\ CallFits'
  <2>2. \A d \in Calls : call'[d].at \in OnThread => call[d].at \in OnThread
    BY <1>3, <1>5, <1>7 DEF OnThread
  <2>3. \A d \in Calls : call'[d].at \in OnRow => call[d].at \in OnRow
    BY <1>3, <1>5, <1>7 DEF OnRow
  <2>4. \A d \in Calls : call'[d].at = "none" => call'[d] = call[d]
    BY <1>5, <1>7
  <2> QED BY <1>1, <1>4, <1>6, <1>7, <2>2, <2>3, <2>4 DEF DownIsEmpty, CallFits
<1>10. WritesFit'
  <2>1. \A i \in 1..Len(writes') : writes'[i].call \in Calls \ {c}
    BY SMTT(60), <1>1, <1>2, <1>3, <1>4 DEF WritesFit, WriteRecords
  <2>2. \A i \in 1..Len(writes') : call'[writes'[i].call].at = writes'[i].kind
    BY SMTT(60), <1>1, <1>4, <1>5, <2>1 DEF WritesFit
  <2>3. \A i, j \in 1..Len(writes') : writes'[i].call = writes'[j].call => i = j
    <3> SUFFICES ASSUME NEW i \in 1..Len(writes'), NEW j \in 1..Len(writes'),
                        writes'[i].call = writes'[j].call
                 PROVE  i = j
      OBVIOUS
    <3>1. i + 1 \in 1..Len(writes) /\ j + 1 \in 1..Len(writes)
      BY <1>4
    <3>2. writes[i + 1].call = writes[j + 1].call
      BY <1>4
    <3>3. i + 1 = j + 1
      BY <1>1, <3>1, <3>2 DEF WritesFit
    <3> QED BY <3>3
  <2> QED BY <1>4, <2>2, <2>3 DEF WritesFit
<1>11. OneHolder' /\ NoTurnLost' /\ TurnSettlesOnce'
  <2>1. OneHolder'
    BY <1>1, <1>6, <1>7 DEF OneHolder, Nowhere
  <2>2. NoTurnLost' /\ TurnSettlesOnce'
    BY <1>1, <1>6, <1>7 DEF NoTurnLost, OnItsWay, TurnSettlesOnce
  <2> QED BY <2>1, <2>2
<1>12. \A t \in Turns : \A i \in 1..Len(writes') : Awaits(i, t)' <=> Awaits(i + 1, t)
  BY <1>4 DEF Awaits
<1>13. \A t \in Turns : row'.unconfirmed = t => row.unconfirmed = t \/ Awaits(1, t)
  BY <1>2, <1>7 DEF Awaits
<1>14. \A t \in Turns : Erased(t) => Erased(t)'
  BY <1>4, <1>12, <1>13 DEF Erased
<1>15. RowForgets'
  <2> SUFFICES ASSUME NEW t \in Turns
               PROVE  /\ t \notin recorded \/ Settled(t)' => Erased(t)'
                      /\ \A d \in Calls :
                           call'[d].turn = t \/ (call'[d].at = "rowSaved" /\ Carries(d, t)') => Erased(t)'
                      /\ \A i, j \in 1..Len(writes') :
                           i <= j /\ Carries(writes[i].call, t)' => ~Awaits(j, t)'
    BY <1>7 DEF RowForgets
  <2>1. t \notin recorded \/ Settled(t)' => Erased(t)'
    BY <1>1, <1>14, <1>7 DEF RowForgets
  <2>2. ASSUME NEW d \in Calls, call'[d].turn = t \/ (call'[d].at = "rowSaved" /\ Carries(d, t)')
        PROVE  Erased(t)'
    <3>1. CASE call[d].turn = t \/ (call[d].at = "rowSaved" /\ Carries(d, t))
      BY <1>1, <1>14, <3>1 DEF RowForgets
    <3>2. CASE d = c /\ w.kind = "row" /\ Carries(c, t)
      <4>1. \A j \in 1..Len(writes) : ~Awaits(j, t)
        BY <1>1, <1>2, <1>3, <1>4, <3>2 DEF RowForgets
      <4>2. \A i \in 1..Len(writes') : ~Awaits(i, t)'
        BY <1>4, <1>12, <4>1
      <4>3. row'.unconfirmed # t
        BY <1>2, <1>4, <1>7, <3>2, <4>1 DEF Awaits
      <4> QED BY <4>2, <4>3 DEF Erased
    <3> QED BY <1>5, <1>6, <1>7, <2>2, <3>1, <3>2
  <2>3. ASSUME NEW i \in 1..Len(writes'), NEW j \in 1..Len(writes'), i <= j,
               Carries(writes[i].call, t)'
        PROVE  ~Awaits(j, t)'
    <3>1. PICK d \in Calls : d = writes'[i].call /\ Carries(d, t)'
      BY <1>4, <2>3 DEF WriteRecords
    <3>2. Carries(writes[i + 1].call, t)
      BY <1>4, <1>6, <3>1
    <3>3. i + 1 \in 1..Len(writes) /\ j + 1 \in 1..Len(writes) /\ i + 1 <= j + 1
      BY <1>4, <2>3
    <3>4. ~Awaits(j + 1, t)
      BY <1>1, <3>2, <3>3 DEF RowForgets
    <3> QED BY <1>12, <3>4
  <2> QED BY <2>1, <2>2, <2>3
<1>16. WritesCatchUp'
  <2>1. ChangePending => ChangePending'
    BY <1>3, <1>5, <1>6, <1>7 DEF ChangePending, OnThread
  <2>2. ASSUME LastRowIs(session) PROVE LastRowIs(session)'
    <3>1. CASE row = session /\ \A i \in 1..Len(writes) : writes[i].kind # "row"
      <4>1. 1 \in 1..Len(writes)
        BY <1>4
      <4> QED BY <1>2, <1>4, <1>7, <3>1, <4>1 DEF LastRowIs
    <3>2. CASE /\ writes[1].kind = "row" /\ writes[1].value = session
               /\ \A j \in 1..Len(writes) : 1 < j => writes[j].kind # "row"
      BY <1>2, <1>4, <1>7, <3>2 DEF LastRowIs
    <3>3. ASSUME NEW i \in 2..Len(writes), writes[i].kind = "row", writes[i].value = session,
                 \A j \in 1..Len(writes) : i < j => writes[j].kind # "row"
          PROVE  LastRowIs(session)'
      <4>1. i - 1 \in 1..Len(writes') /\ writes'[i - 1] = writes[i]
        BY <1>4
      <4>2. \A j \in 1..Len(writes') : i - 1 < j => writes'[j].kind # "row"
        BY SMTT(60), <1>4, <3>3
      <4> QED BY <1>7, <3>3, <4>1, <4>2 DEF LastRowIs
    <3>4. ASSUME NEW i \in 1..Len(writes), writes[i].kind = "row", writes[i].value = session,
                 \A j \in 1..Len(writes) : i < j => writes[j].kind # "row"
          PROVE  LastRowIs(session)'
      <4>1. i = 1 \/ i \in 2..Len(writes)
        BY <1>4
      <4> QED BY <3>2, <3>3, <3>4, <4>1
    <3> QED BY <2>2, <3>1, <3>4 DEF LastRowIs
  <2>3. threads' \cup ThreadsOnTheWay' = threads \cup ThreadsOnTheWay
    <3>1. \A v : v \in ThreadsOnTheWay <=>
                   \E i \in 1..Len(writes) : writes[i].kind = "thread" /\ writes[i].value = v
      BY DEF ThreadsOnTheWay
    <3>2. \A v : v \in ThreadsOnTheWay' <=>
                   \E i \in 1..Len(writes') : writes'[i].kind = "thread" /\ writes'[i].value = v
      BY DEF ThreadsOnTheWay
    <3>3. ASSUME NEW i \in 1..Len(writes), i # 1
          PROVE  i - 1 \in 1..Len(writes') /\ writes'[i - 1] = writes[i]
      BY <1>4, <3>3
    <3>4. 1 \in 1..Len(writes)
      BY <1>4
    <3>5. ASSUME NEW v PROVE v \in ThreadsOnTheWay <=>
                               \/ w.kind = "thread" /\ w.value = v
                               \/ v \in ThreadsOnTheWay'
      <4>1. ASSUME NEW i \in 1..Len(writes), writes[i].kind = "thread", writes[i].value = v
            PROVE  (w.kind = "thread" /\ w.value = v) \/ v \in ThreadsOnTheWay'
        BY <1>2, <3>2, <3>3, <4>1
      <4>2. v \in ThreadsOnTheWay' => v \in ThreadsOnTheWay
        BY <1>4, <3>1, <3>2
      <4>3. w.kind = "thread" /\ w.value = v => v \in ThreadsOnTheWay
        BY <1>2, <3>1, <3>4
      <4> QED BY <3>1, <4>1, <4>2, <4>3
    <3> QED BY <1>7, <3>5
  <2> QED BY <1>1, <1>4, <1>7, <2>1, <2>2, <2>3 DEF WritesCatchUp
<1> QED BY <1>8, <1>9, <1>10, <1>11, <1>15, <1>16 DEF IInv

\* A method returns, and only now answers and drops the turns it carried.
LEMMA ReturnStep == ASSUME IInv, NEW c \in Calls, Return(c) PROVE IInv'
<1> USE ConversationAssumption DEF Return
<1>1. /\ TypeOK /\ DownIsEmpty /\ CallFits /\ WritesFit /\ OneHolder /\ RowForgets
      /\ WritesCatchUp /\ NoTurnLost /\ TurnSettlesOnce
  BY DEF IInv
<1>2. /\ call' \in [Calls -> CallRecords] /\ call'[c] = Idle
      /\ \A d \in Calls \ {c} : call'[d] = call[d]
      /\ call[c].turn = NoTurn
  BY <1>1 DEF TypeOK, CallRecords, Methods, Places, Idle, CallFits, OnRow
<1>3. /\ \A t \in Turns : \A d \in Calls : Carries(d, t)' <=> d # c /\ Carries(d, t)
      /\ \A t \in Turns : Settled(t)' <=> Settled(t) \/ Carries(c, t)
  BY <1>1, <1>2 DEF Carries, Settled, Idle, TypeOK
<1>4. TypeOK'
  BY <1>1, <1>2 DEF TypeOK, CallRecords
<1>5. DownIsEmpty' /\ CallFits'
  BY <1>1, <1>2 DEF DownIsEmpty, CallFits, OnThread, OnRow, Idle
<1>6. WritesFit'
  BY <1>1, <1>2 DEF WritesFit, WriteRecords
<1>7. OneHolder'
  BY <1>1, <1>2, <1>3 DEF OneHolder, Nowhere, Idle, Carries
<1>8. RowForgets'
  <2>1. \A t \in Turns : Erased(t)' <=> Erased(t)
    BY DEF Erased, Awaits
  <2>2. \A i \in 1..Len(writes) : writes[i].call \in Calls
    BY <1>1 DEF TypeOK
  <2>3. \A t \in Turns : \A i, j \in 1..Len(writes) :
          i <= j /\ Carries(writes[i].call, t)' => ~Awaits(j, t)'
    <3> SUFFICES ASSUME NEW t \in Turns, NEW i \in 1..Len(writes), NEW j \in 1..Len(writes),
                        i <= j, Carries(writes[i].call, t)'
                 PROVE  ~Awaits(j, t)
      BY DEF Awaits
    <3>1. Carries(writes[i].call, t)
      BY <1>2, <1>3, <2>2
    <3> QED BY <1>1, <3>1 DEF RowForgets
  <2>4. \A t \in Turns : \A d \in Calls :
          call'[d].turn = t \/ (call'[d].at = "rowSaved" /\ Carries(d, t)') => Erased(t)
    BY <1>1, <1>2, <1>3 DEF RowForgets, Idle
  <2>5. \A t \in Turns : t \notin recorded \/ Settled(t)' => Erased(t)
    BY <1>1, <1>3 DEF RowForgets
  <2> QED BY <2>1, <2>3, <2>4, <2>5 DEF RowForgets
<1>9. WritesCatchUp'
  BY <1>1, <1>2 DEF WritesCatchUp, ChangePending, LastRowIs, ThreadsOnTheWay, OnThread
<1>10. NoTurnLost'
  BY <1>1, <1>2, <1>3 DEF NoTurnLost, OnItsWay, Carries, TypeOK, Settled
<1>11. TurnSettlesOnce'
  BY <1>1 DEF TurnSettlesOnce, OneHolder, Nowhere, Settled, Carries, TypeOK
<1> QED BY <1>4, <1>5, <1>6, <1>7, <1>8, <1>9, <1>10, <1>11 DEF IInv

\* What is in memory is lost; what was held comes back from the row.
LEMMA CrashStep == ASSUME IInv, Crash \/ Restore PROVE IInv'
<1> USE ConversationAssumption DEF IInv, history
<1>1. CASE Crash
  <2> USE <1>1 DEF Crash, Fresh, Idle
  <2>1. TypeOK'
    <3>1. session' \in SessionRecords /\ call' \in [Calls -> CallRecords]
      BY DEF SessionRecords, States, CallRecords, Methods, Places
    <3>2. /\ row' \in SessionRecords /\ threads' \subseteq Conversations /\ recorded' \subseteq Turns
          /\ triggered' \in [Turns -> Nat] /\ discarded' \subseteq Turns
          /\ crashes' \in 0..MaxCrashes
          /\ \A i \in 1..Len(writes') : FALSE
      BY DEF TypeOK
    <3> QED BY <3>1, <3>2 DEF TypeOK
  <2>2. DownIsEmpty' /\ CallFits' /\ WritesFit' /\ WritesCatchUp'
    BY DEF DownIsEmpty, CallFits, WritesFit, WritesCatchUp, OnThread, OnRow
  <2>3. OneHolder' /\ RowForgets'
    BY DEF OneHolder, RowForgets, Nowhere, Carries, Settled, Erased, Awaits
  <2>4. NoTurnLost' /\ TurnSettlesOnce'
    BY DEF NoTurnLost, TurnSettlesOnce
  <2> QED BY <2>1, <2>2, <2>3, <2>4
<1>2. CASE Restore
  <2> USE <1>2 DEF Restore
  <2>1. TypeOK'
    BY DEF TypeOK, SessionRecords
  <2>2. DownIsEmpty' /\ CallFits' /\ WritesFit' /\ WritesCatchUp'
    BY DEF DownIsEmpty, CallFits, WritesFit, WritesCatchUp, LastRowIs, ThreadsOnTheWay
  <2>3. OneHolder' /\ RowForgets'
    BY DEF DownIsEmpty, OneHolder, RowForgets, Nowhere, Carries, Settled, Erased, Awaits, Idle
  <2>4. NoTurnLost' /\ TurnSettlesOnce'
    BY DEF NoTurnLost, TurnSettlesOnce
  <2> QED BY <2>1, <2>2, <2>3, <2>4
<1> QED BY <1>1, <1>2

\* Every step keeps the invariant: one case per action.
LEMMA NextIInv == IInv /\ [Next]_vars => IInv'
<1> SUFFICES ASSUME IInv, [Next]_vars PROVE IInv' OBVIOUS
<1>1. ASSUME NEW c \in Calls, NEW reference \in Conversations \cup {NoConversation},
             ObserveSnapshot(c, reference)
      PROVE  IInv'
  BY <1>1, ObserveSnapshotStep
<1>2. ASSUME NEW c \in Calls, NEW t \in Turns, AdmitTurn(c, t) PROVE IInv'
  BY <1>2, AdmitTurnStep
<1>3. ASSUME NEW c \in Calls, NotePublished(c) \/ NoteNotGenerated(c) PROVE IInv'
  BY <1>3, OutcomeStep
<1>4. ASSUME NEW c \in Calls, ResumeSnapshot(c) PROVE IInv'
  BY <1>4, ResumeSnapshotStep
<1>5. ASSUME NEW c \in Calls, ResumeTurn(c) PROVE IInv'
  BY <1>5, ResumeTurnStep
<1>6. ASSUME NEW c \in Calls, Return(c) PROVE IInv'
  BY <1>6, ReturnStep
<1>7. CASE ExecuteWrite
  BY <1>7, ExecuteWriteStep
<1>8. CASE Crash \/ Restore
  BY <1>8, CrashStep
<1>9. CASE UNCHANGED vars
  <2> USE <1>9 DEF vars, history
  <2>1. TypeOK' /\ DownIsEmpty' /\ CallFits' /\ WritesFit'
    BY DEF IInv, TypeOK, DownIsEmpty, CallFits, WritesFit
  <2>2. OneHolder' /\ RowForgets'
    BY DEF IInv, OneHolder, RowForgets, Nowhere, Carries, Settled, Erased, Awaits
  <2>3. WritesCatchUp' /\ NoTurnLost' /\ TurnSettlesOnce'
    BY DEF IInv, WritesCatchUp, ChangePending, LastRowIs, ThreadsOnTheWay, NoTurnLost,
           OnItsWay, TurnSettlesOnce
  <2> QED BY <2>1, <2>2, <2>3 DEF IInv
<1> QED BY <1>1, <1>2, <1>3, <1>4, <1>5, <1>6, <1>7, <1>8, <1>9 DEF Next

\* The invariant of memory, queue, rows and turns holds in every reachable state.
THEOREM ConversationIInv == Spec => []IInv
BY InitIInv, NextIInv, PTL DEF Spec

\* Session, row, threads and calls stay in their ranges.
THEOREM ConversationTypeOK == Spec => []TypeOK
<1>1. IInv => TypeOK BY DEF IInv
<1> QED BY <1>1, ConversationIInv, PTL

\* No method that resumes over a changed session drops a turn in silence.
THEOREM TurnsNeverLost == Spec => []NoTurnLost
<1>1. IInv => NoTurnLost BY DEF IInv
<1> QED BY <1>1, ConversationIInv, PTL

\* No turn is handed on twice, or handed on and reported as discarded, although a
\* restart takes the held turn out of the row again.
THEOREM TurnsSettleOnce == Spec => []TurnSettlesOnce
<1>1. IInv => TurnSettlesOnce BY DEF IInv
<1> QED BY <1>1, ConversationIInv, PTL

\* Whenever no method is in progress the database holds what memory holds.
THEOREM StoreFollowsMemory == Spec => []StoreMatchesMemory
<1>1. IInv => StoreMatchesMemory
  <2> SUFFICES ASSUME IInv, up, \A c \in Calls : call[c] = Idle
               PROVE  row = session /\ threads = started
    BY DEF StoreMatchesMemory
  <2>1. \A i \in 1..Len(writes) : FALSE
    BY DEF IInv, WritesFit, WriteRecords, Idle
  <2>2. ~ChangePending
    BY DEF ChangePending, OnThread, Idle
  <2> QED BY <2>1, <2>2 DEF IInv, WritesCatchUp, LastRowIs, ThreadsOnTheWay
<1> QED BY <1>1, ConversationIInv, PTL
=============================================================================
