------------------------- MODULE EventReactions_proofs -------------------------
(***************************************************************************)
(* The chain of an event's revisions and what is made of it, for any set   *)
(* of messages, requests in progress and NPCs.                             *)
(*                                                                         *)
(* A request inserts what it checked several awaits ago.  What it needs of *)
(* the chain then is CallFits: either the chain is still the one it read,  *)
(* so that the message extends it, or the chain has grown past it, and     *)
(* then the revision is in the table and the insert is refused.  Reactions *)
(* follow because only the request that inserted a revision reacts to it,  *)
(* and an NPC is sent a reaction only when its revision was the newest     *)
(* after the answer it was sent before.                                    *)
(***************************************************************************)
EXTENDS EventReactions, TLAPS

\* The chain has a newest row: a fact about finite sets that is carried along.
HasNewest ==
  stored # {} => \E x \in stored : \A y \in stored : y.message.revision <= x.message.revision

\* What a request's place says of its message and the table.
CallFits ==
  \A c \in Calls :
    /\ call[c].at # "none" => call[c].message \in Messages
    /\ call[c].at \in {"react", "route", "decide"} => HasRevision(call[c].message)
    /\ call[c].at = "insert" =>
         \/ HasRevision(call[c].message)
         \/ /\ Extends(call[c].message)
            /\ call[c].witnesses = Inherited(call[c].witnesses)

\* A revision is reacted to by the request that inserted it, and by no other.
ReactionsFit ==
  /\ \A r \in Revisions : (\A x \in stored : x.message.revision # r) => reacted[r] = 0
  /\ \A c \in Calls : call[c].at = "react" => reacted[call[c].message.revision] = 0
  /\ \A c, d \in Calls :
       /\ call[c].at = "react" /\ call[d].at = "react"
       /\ call[c].message.revision = call[d].message.revision
       => c = d

\* What was sent and what is about to be are revisions of the table, in order.
SpokenFits ==
  \A n \in Npcs :
    /\ spoken[n] # 0 => \E x \in stored : x.message.revision = spoken[n]
    /\ stage[n] = "publishing" /\ running[n].trigger = "event" =>
         /\ running[n].revision >= spoken[n]
         /\ \E x \in stored : x.message.revision = running[n].revision

IInv ==
  /\ TypeOK /\ HasNewest /\ ChainUnbroken /\ CallFits /\ ReactionsFit
  /\ OneReactionPerRevision /\ SpokenFits

\* No message is stored, in progress or spoken of.
LEMMA InitIInv == Init => IInv
<1> SUFFICES ASSUME Init PROVE IInv OBVIOUS
<1> USE EventAssumption DEF Init, NoCall
<1>1. TypeOK
  BY DEF TypeOK, NotRouted, Outcomes, Places, Stages, Revisions
<1>2. HasNewest /\ ChainUnbroken /\ CallFits
  BY DEF HasNewest, ChainUnbroken, CallFits
<1>3. ReactionsFit /\ OneReactionPerRevision /\ SpokenFits
  BY DEF ReactionsFit, OneReactionPerRevision, SpokenFits
<1> QED BY <1>1, <1>2, <1>3 DEF IInv

-----------------------------------------------------------------------------
(* The chain.                                                              *)

\* The tip of the chain is a stored row that no row is newer than.
LEMMA NewestRow ==
  ASSUME IInv, stored # {}
  PROVE  /\ Newest \in stored
         /\ \A y \in stored : y.message.revision <= Newest.message.revision
BY DEF IInv, HasNewest, Newest

\* What a stored row and its message range over.
LEMMA RowTypes ==
  ASSUME IInv
  PROVE  /\ \A x \in stored : /\ x.message \in Messages /\ x.witnesses \in SUBSET Npcs
                              /\ x.message.revision \in Nat \ {0}
                              /\ x.message.revision \in Revisions
                              /\ x.message.time \in Nat /\ x.message.terminal \in BOOLEAN
         /\ \A m \in Messages : /\ m.revision \in Nat \ {0} /\ m.time \in Nat
                                /\ m.terminal \in BOOLEAN /\ m.revision \in Revisions
BY EventAssumption DEF IInv, TypeOK, MessageRecords, Revisions

\* A message that extends the chain becomes its newest row.
LEMMA Extended ==
  ASSUME IInv, NEW m \in Messages, NEW w \in SUBSET Npcs,
         Extends(m), w = Inherited(w), ~HasMessage(m),
         stored' = stored \cup {[message |-> m, witnesses |-> w]}
  PROVE  HasNewest' /\ ChainUnbroken'
<1> DEFINE row == [message |-> m, witnesses |-> w]
<1>1. row.message = m /\ row.witnesses = w /\ stored' = stored \cup {row}
  OBVIOUS
<1> HIDE DEF row
<1>2. CASE stored = {}
  <2>1. stored' = {row} /\ m.revision = 1
    BY <1>1, <1>2 DEF Extends
  <2> QED BY <1>1, <2>1 DEF HasNewest, ChainUnbroken
<1>3. CASE stored # {}
  <2> DEFINE top == Newest.message
  <2>1. /\ Newest \in stored
        /\ \A y \in stored : y.message.revision <= top.revision
        /\ ~top.terminal /\ m.revision = top.revision + 1 /\ m.time >= top.time
        /\ w = Newest.witnesses
    BY <1>3, NewestRow DEF Extends, Inherited
  <2>2. \A x \in stored : /\ x.message.revision \in Nat /\ x.message.time \in Nat
                          /\ x.message.revision < m.revision
                          /\ x.message.time <= m.time /\ ~x.message.terminal
                          /\ x.witnesses = w /\ x.message.id # m.id
    <3> SUFFICES ASSUME NEW x \in stored
                 PROVE  /\ x.message.revision \in Nat /\ x.message.time \in Nat
                        /\ x.message.revision < m.revision
                        /\ x.message.time <= m.time /\ ~x.message.terminal
                        /\ x.witnesses = w /\ x.message.id # m.id
      OBVIOUS
    <3>1. /\ x.message.revision \in Nat /\ x.message.time \in Nat
          /\ top.revision \in Nat /\ top.time \in Nat /\ m.time \in Nat
      BY <2>1, RowTypes
    <3>2. x = Newest \/ x.message.revision < top.revision
      BY <2>1, <3>1 DEF IInv, ChainUnbroken
    <3>3. x.message.time <= top.time /\ ~x.message.terminal /\ x.witnesses = Newest.witnesses
      BY <2>1, <3>1, <3>2 DEF IInv, ChainUnbroken
    <3>4. x.message.id # m.id
      BY DEF HasMessage
    <3> QED BY <2>1, <3>1, <3>3, <3>4
  <2>3. top.revision \in Nat /\ m.revision \in Nat
    BY <2>1, RowTypes
  <2>4. \A r \in 1..m.revision : \E z \in stored' : z.message.revision = r
    <3>1. \A r \in 1..top.revision : \E z \in stored : z.message.revision = r
      BY <2>1 DEF IInv, ChainUnbroken
    <3>2. \A r \in 1..m.revision : r \in 1..top.revision \/ r = m.revision
      BY <2>1, <2>3
    <3> QED BY <1>1, <3>1, <3>2
  <2>5. HasNewest'
    BY <1>1, <2>2, <2>3 DEF HasNewest
  <2>6. ChainUnbroken'
    <3> SUFFICES ASSUME NEW x \in stored', NEW y \in stored'
                 PROVE  /\ \A r \in 1..x.message.revision : \E z \in stored' : z.message.revision = r
                        /\ x # y => /\ x.message.revision # y.message.revision
                                    /\ x.message.id # y.message.id
                        /\ x.message.revision < y.message.revision
                             => x.message.time <= y.message.time /\ ~x.message.terminal
                        /\ x.witnesses = y.witnesses
      BY DEF ChainUnbroken
    <3>1. CASE x \in stored /\ y \in stored
      BY <1>1, <3>1 DEF IInv, ChainUnbroken
    <3>2. CASE x \in stored /\ y = row
      <4>1. \A r \in 1..x.message.revision : \E z \in stored' : z.message.revision = r
        BY <1>1, <3>2 DEF IInv, ChainUnbroken
      <4> QED BY <1>1, <2>2, <2>3, <3>2, <4>1
    <3>3. CASE x = row /\ y \in stored
      BY <1>1, <2>2, <2>3, <2>4, <3>3
    <3>4. CASE x = row /\ y = row
      BY <1>1, <2>3, <2>4, <3>4
    <3> QED BY <1>1, <3>1, <3>2, <3>3, <3>4
  <2> QED BY <2>5, <2>6
<1> QED BY <1>2, <1>3

\* While the table stays as it is, so does all that is said of it.
LEMMA SameTable ==
  ASSUME IInv, UNCHANGED stored
  PROVE  /\ HasNewest' /\ ChainUnbroken' /\ Newest' = Newest
         /\ \A m : /\ HasRevision(m)' <=> HasRevision(m)
                   /\ Extends(m)' <=> Extends(m)
         /\ \A w : Inherited(w)' = Inherited(w)
<1>1. Newest' = Newest
  BY DEF Newest
<1> QED BY <1>1 DEF IInv, HasNewest, ChainUnbroken, HasRevision, Extends, Inherited

-----------------------------------------------------------------------------
(* The requests.                                                           *)

\* Only a request moves, and not to where it inserts or reacts.
LEMMA RequestMoves ==
  ASSUME IInv, NEW c \in Calls,
         UNCHANGED <<stored, outcome, noticed, tasks, reacted, spoken>>,
         NEW r \in [message: Messages \cup {NoMessage}, at: Places,
                    witnesses: SUBSET Npcs, outcome: Outcomes],
         call' = [call EXCEPT ![c] = r],
         r.at # "none" => r.message \in Messages,
         r.at \in {"none", "message", "revision", "latest", "insert"},
         r.at = "insert" => Extends(r.message) /\ r.witnesses = Inherited(r.witnesses)
  PROVE  IInv'
<1> USE DEF tasks
<1>1. call'[c] = r /\ \A d \in Calls \ {c} : call'[d] = call[d]
  BY DEF IInv, TypeOK
<1>2. TypeOK'
  BY DEF IInv, TypeOK
<1>3. CallFits'
  BY <1>1, SameTable DEF IInv, CallFits
<1>4. ReactionsFit'
  BY <1>1 DEF IInv, ReactionsFit
<1>5. OneReactionPerRevision' /\ SpokenFits'
  BY DEF IInv, OneReactionPerRevision, SpokenFits
<1> QED BY <1>2, <1>3, <1>4, <1>5, SameTable DEF IInv

\* The steps of a delivery before its insert read the table and leave it alone.
LEMMA ReadingStep ==
  ASSUME IInv, NEW c \in Calls,
         \/ \E m \in Messages : Deliver(c, m)
         \/ ReadMessage(c) \/ ReadRevision(c) \/ ReadLatest(c) \/ StoreFails(c)
  PROVE  IInv'
<1> DEFINE Records == [message: Messages \cup {NoMessage}, at: Places,
                       witnesses: SUBSET Npcs, outcome: Outcomes]
<1>1. /\ call[c] \in Records /\ NoCall \in Records /\ NoCall.at = "none"
      /\ call[c].at # "none" => call[c].message \in Messages
      /\ UNCHANGED <<stored, outcome, noticed, tasks, reacted, spoken>>
  BY DEF IInv, TypeOK, CallFits, NoCall, Places, NotRouted, Outcomes, Deliver, ReadMessage,
         ReadRevision, ReadLatest, StoreFails, LookFor
<1>2. CASE call' = [call EXCEPT ![c] = NoCall]
  BY <1>1, <1>2, RequestMoves
<1>3. CASE \E m \in Messages : Deliver(c, m)
  <2>1. PICK m \in Messages :
          call' = [call EXCEPT ![c] = [NoCall EXCEPT !.message = m, !.at = "message"]]
    BY <1>3 DEF Deliver
  <2> DEFINE r == [NoCall EXCEPT !.message = m, !.at = "message"]
  <2>2. r \in Records /\ r.message = m /\ r.at = "message"
    BY <1>1 DEF Places, NoCall
  <2> HIDE DEF r, Records
  <2> QED BY <1>1, <2>1, <2>2, RequestMoves DEF r, Records
<1>4. ASSUME NEW place \in {"message", "revision"}, NEW next \in {"revision", "latest"},
             call[c].at = place, Goes(c, next)
      PROVE  IInv'
  <2> DEFINE r == [call[c] EXCEPT !.at = next]
  <2>1. r \in Records /\ r.message \in Messages /\ r.at = next /\ call' = [call EXCEPT ![c] = r]
    BY <1>1, <1>4 DEF Places, Goes
  <2> HIDE DEF r
  <2> QED BY <1>1, <1>4, <2>1, RequestMoves
<1>5. CASE ReadLatest(c) /\ Extends(call[c].message)
  <2>1. PICK own \in SUBSET Npcs :
          call' = [call EXCEPT ![c].at = "insert", ![c].witnesses = Inherited(own)]
    BY <1>5 DEF ReadLatest
  <2> DEFINE r == [call[c] EXCEPT !.at = "insert", !.witnesses = Inherited(own)]
  <2>2. /\ Inherited(own) \in SUBSET Npcs
        /\ Inherited(own) = Inherited(Inherited(own))
    BY NewestRow, RowTypes DEF Inherited
  <2>3. /\ r \in Records /\ r.message = call[c].message /\ r.at = "insert"
        /\ r.witnesses = Inherited(own)
    BY <1>1, <2>2 DEF Places
  <2>4. call' = [call EXCEPT ![c] = r]
    BY <2>1 DEF IInv, TypeOK
  <2>5. call[c].message \in Messages
    BY <1>1, <1>5 DEF ReadLatest
  <2> HIDE DEF r
  <2> QED BY <1>1, <1>5, <2>2, <2>3, <2>4, <2>5, RequestMoves
<1> QED BY <1>2, <1>3, <1>4, <1>5 DEF ReadMessage, ReadRevision, LookFor, ReadLatest, StoreFails, Finish

\* A request inserts what it checked, or finds that another was faster.
LEMMA InsertStep == ASSUME IInv, NEW c \in Calls, Insert(c) PROVE IInv'
<1> DEFINE m == call[c].message
<1>1. PICK m0 \in Messages : m0 = m
  BY DEF IInv, CallFits, Insert
<1>2. CASE Clashes(m0)
  <2>1. call' = [call EXCEPT ![c] = NoCall] /\ NoCall.at = "none"
    BY <1>1, <1>2 DEF Insert, Finish, NoCall
  <2>2. NoCall \in [message: Messages \cup {NoMessage}, at: Places,
                    witnesses: SUBSET Npcs, outcome: Outcomes]
    BY DEF NoCall, Places, NotRouted, Outcomes
  <2> QED BY <1>1, <1>2, <2>1, <2>2, RequestMoves DEF Insert
<1>3. CASE ~Clashes(m0)
  <2> DEFINE w == call[c].witnesses
             row == [message |-> m0, witnesses |-> w]
  <2>1. /\ stored' = stored \cup {row} /\ w \in SUBSET Npcs
        /\ row.message = m0 /\ row \in stored'
        /\ call' = [call EXCEPT ![c].at = "react", ![c].witnesses = {}]
        /\ UNCHANGED <<outcome, noticed, tasks, reacted, spoken>>
    BY <1>1, <1>3 DEF Insert, IInv, TypeOK
  <2>2. ~HasRevision(m0) /\ ~HasMessage(m0) /\ Extends(m0) /\ w = Inherited(w)
    BY <1>1, <1>3 DEF Insert, Clashes, IInv, CallFits
  <2>3. HasNewest' /\ ChainUnbroken'
    BY <2>1, <2>2, Extended
  <2>4. /\ call' \in [Calls -> [message: Messages \cup {NoMessage}, at: Places,
                                witnesses: SUBSET Npcs, outcome: Outcomes]]
        /\ call'[c].at = "react" /\ call'[c].message = m0
        /\ \A d \in Calls \ {c} : call'[d] = call[d]
    <3> DEFINE r == [call[c] EXCEPT !.at = "react", !.witnesses = {}]
    <3>1. call' = [call EXCEPT ![c] = r]
      BY <2>1 DEF IInv, TypeOK
    <3>2. /\ r \in [message: Messages \cup {NoMessage}, at: Places,
                    witnesses: SUBSET Npcs, outcome: Outcomes]
          /\ r.at = "react" /\ r.message = m0
      BY ZenonT(60), <1>1 DEF IInv, TypeOK, Places
    <3> HIDE DEF r
    <3> QED BY <3>1, <3>2 DEF IInv, TypeOK
  <2>5. TypeOK'
    BY <2>1, <2>4 DEF IInv, TypeOK, tasks
  <2>6. /\ \A n \in Messages : HasRevision(n)' <=> HasRevision(n) \/ n.revision = m0.revision
        /\ \A n \in Messages : Extends(n) => n.revision = m0.revision
    BY <2>1, <2>2 DEF HasRevision, Extends
  <2> HIDE DEF row, w, m
  <2>7. CallFits'
    <3> SUFFICES ASSUME NEW d \in Calls
                 PROVE  /\ call'[d].at # "none" => call'[d].message \in Messages
                        /\ call'[d].at \in {"react", "route", "decide", "insert"} =>
                             \E x \in stored' : x.message.revision = call'[d].message.revision
      BY DEF CallFits, HasRevision
    <3>1. CASE d = c
      BY <2>1, <2>4, <3>1
    <3>2. CASE d # c
      <4>1. /\ call'[d] = call[d]
            /\ call[d].at # "none" => call[d].message \in Messages
            /\ call[d].at \in {"react", "route", "decide"} => HasRevision(call[d].message)
            /\ call[d].at = "insert" => HasRevision(call[d].message) \/ Extends(call[d].message)
        BY <2>4, <3>2 DEF IInv, CallFits
      <4>2. \A n \in Messages : HasRevision(n) \/ n.revision = m0.revision =>
                                  \E x \in stored' : x.message.revision = n.revision
        BY <2>1 DEF HasRevision
      <4> QED BY <2>6, <4>1, <4>2
    <3> QED BY <3>1, <3>2
  <2>8. ReactionsFit'
    <3>1. reacted[m0.revision] = 0
      BY <2>2, RowTypes DEF IInv, ReactionsFit, HasRevision
    <3>2. \A d \in Calls : call[d].at = "react" => call[d].message.revision # m0.revision
      BY <2>2 DEF IInv, CallFits, HasRevision
    <3> QED BY <2>1, <2>4, <3>1, <3>2 DEF IInv, ReactionsFit
  <2>9. OneReactionPerRevision' /\ SpokenFits'
    BY <2>1 DEF IInv, OneReactionPerRevision, SpokenFits, tasks
  <2> QED BY <2>3, <2>5, <2>7, <2>8, <2>9 DEF IInv
<1> QED BY <1>2, <1>3

\* The reaction to a revision is counted by the request that inserted it.
LEMMA ReactStep == ASSUME IInv, NEW c \in Calls, React(c) PROVE IInv'
<1>1. PICK r \in Revisions : /\ r = call[c].message.revision /\ reacted[r] = 0
                             /\ call[c].message \in Messages /\ HasRevision(call[c].message)
  BY RowTypes DEF React, IInv, CallFits, ReactionsFit
<1>2. /\ call' = [call EXCEPT ![c] = [call[c] EXCEPT !.at = "route"]]
      /\ reacted' = [reacted EXCEPT ![r] = @ + 1]
      /\ call[c].at = "react"
      /\ UNCHANGED <<stored, outcome, noticed, running, stage, spoken>>
  BY <1>1 DEF React, Goes
<1>3. /\ call' \in [Calls -> [message: Messages \cup {NoMessage}, at: Places,
                              witnesses: SUBSET Npcs, outcome: Outcomes]]
      /\ call'[c].at = "route" /\ call'[c].message = call[c].message
      /\ \A d \in Calls \ {c} : call'[d] = call[d]
  BY <1>2 DEF IInv, TypeOK, Places
<1>4. reacted' \in [Revisions -> Nat] /\ reacted'[r] = 1 /\ \A q \in Revisions \ {r} : reacted'[q] = reacted[q]
  BY <1>1, <1>2 DEF IInv, TypeOK
<1>5. waiting' \in [Npcs -> Works \cup {NoWork}]
  BY DEF React, IInv, TypeOK
<1>6. TypeOK'
  BY <1>2, <1>3, <1>4, <1>5 DEF IInv, TypeOK
<1>7. CallFits'
  BY <1>1, <1>2, <1>3, SameTable DEF IInv, CallFits
<1>8. ReactionsFit'
  <2>1. \A q \in Revisions : (\A x \in stored' : x.message.revision # q) => reacted'[q] = 0
    BY <1>1, <1>2, <1>4 DEF IInv, ReactionsFit, HasRevision
  <2>2. \A d \in Calls : call'[d].at = "react" =>
          d # c /\ call'[d] = call[d] /\ call[d].message.revision \in Revisions \ {r}
    BY <1>1, <1>2, <1>3, RowTypes DEF IInv, ReactionsFit, CallFits
  <2>3. \A d \in Calls : call'[d].at = "react" => reacted'[call'[d].message.revision] = 0
    BY <1>4, <2>2 DEF IInv, ReactionsFit
  <2> QED BY <2>1, <2>2, <2>3 DEF IInv, ReactionsFit
<1>9. OneReactionPerRevision' /\ SpokenFits'
  BY <1>2, <1>4 DEF IInv, OneReactionPerRevision, SpokenFits
<1> QED BY <1>2, <1>6, <1>7, <1>8, <1>9, SameTable DEF IInv

\* What is offered to NPCs is reactions and work about what they noticed.
LEMMA EnqueueType ==
  ASSUME IInv, NEW S \in SUBSET Npcs, NEW work \in [S -> Works], Enqueue(work)
  PROVE  waiting' \in [Npcs -> Works \cup {NoWork}]
BY DEF Enqueue, IInv, TypeOK

\* Routing and the queue are refreshed; at most one request moves on with it.
LEMMA RoutingStep ==
  ASSUME IInv, Refresh \/ \E c \in Calls : RouteFor(c) \/ Decide(c)
  PROVE  IInv'
<1> USE DEF tasks
<1>1. UNCHANGED <<stored, noticed, running, stage, reacted, spoken>>
  BY DEF Refresh, RouteFor, Decide
<1>2. outcome' \in Outcomes
  BY DEF Refresh, RouteFor, Decide, Routed, IInv, TypeOK
<1>3. waiting' \in [Npcs -> Works \cup {NoWork}]
  <2>1. CASE Refresh \/ \E c \in Calls : RouteFor(c)
    BY <2>1 DEF Refresh, RouteFor, Routed, IInv, TypeOK
  <2>2. ASSUME NEW c \in Calls, Decide(c) PROVE waiting' \in [Npcs -> Works \cup {NoWork}]
    <3>1. call[c].message.revision \in Nat \ {0} /\ call[c].outcome.generating \in SUBSET Npcs
      <4>1. call[c].message \in Messages /\ call[c].outcome \in Outcomes
        BY <2>2 DEF Decide, IInv, TypeOK, CallFits
      <4>2. \A o \in Outcomes : o.generating \in SUBSET Npcs
        <5>1. NotRouted.generating \in SUBSET Npcs
          BY DEF NotRouted
        <5>2. \A o \in [routed: {TRUE}, generating: SUBSET Npcs] : o.generating \in SUBSET Npcs
          OBVIOUS
        <5> QED BY <5>1, <5>2 DEF Outcomes
      <4> QED BY <4>1, <4>2, RowTypes
    <3>2. PICK reacting \in SUBSET Npcs :
            Enqueue([n \in reacting |-> Reaction(call[c].message.revision)])
      BY <2>2, <3>1 DEF Decide
    <3>3. [n \in reacting |-> Reaction(call[c].message.revision)] \in [reacting -> Works]
      BY <3>1 DEF Reaction, Works
    <3> QED BY <3>2, <3>3, EnqueueType
  <2> QED BY <2>1, <2>2
<1>4. /\ call' \in [Calls -> [message: Messages \cup {NoMessage}, at: Places,
                              witnesses: SUBSET Npcs, outcome: Outcomes]]
      /\ \A d \in Calls : \/ call'[d] = call[d]
                          \/ call'[d].at = "none"
                          \/ /\ call'[d].at = "decide" /\ call[d].at = "route"
                             /\ call'[d].message = call[d].message
  <2>1. CASE UNCHANGED call
    BY <2>1 DEF IInv, TypeOK
  <2>2. ASSUME NEW c \in Calls, call' = [call EXCEPT ![c] = NoCall]
        PROVE  <1>4!:
    <3>1. NoCall \in [message: Messages \cup {NoMessage}, at: Places,
                      witnesses: SUBSET Npcs, outcome: Outcomes]
      BY DEF NoCall, Places, NotRouted, Outcomes
    <3> QED BY <2>2, <3>1 DEF IInv, TypeOK, NoCall
  <2>3. ASSUME NEW c \in Calls, call[c].at = "route", NEW o \in Outcomes,
               call' = [call EXCEPT ![c].at = "decide", ![c].outcome = o]
        PROVE  <1>4!:
    <3> DEFINE r == [call[c] EXCEPT !.at = "decide", !.outcome = o]
    <3>1. call' = [call EXCEPT ![c] = r]
      BY <2>3 DEF IInv, TypeOK
    <3>2. /\ r \in [message: Messages \cup {NoMessage}, at: Places,
                    witnesses: SUBSET Npcs, outcome: Outcomes]
          /\ r.at = "decide" /\ r.message = call[c].message
      BY ZenonT(60) DEF IInv, TypeOK, Places
    <3> HIDE DEF r
    <3> QED BY <2>3, <3>1, <3>2 DEF IInv, TypeOK
  <2>4. CASE Refresh
    BY <2>1, <2>4 DEF Refresh
  <2>5. CASE \E c \in Calls : Decide(c)
    BY <2>2, <2>5 DEF Decide, Finish
  <2>6. CASE \E c \in Calls : RouteFor(c)
    <3>1. PICK c \in Calls : RouteFor(c)
      BY <2>6
    <3>2. outcome \in Outcomes
      BY DEF IInv, TypeOK
    <3> QED BY <2>2, <2>3, <3>1, <3>2 DEF RouteFor, Finish
  <2> QED BY <2>4, <2>5, <2>6
<1>5. TypeOK'
  BY <1>1, <1>2, <1>3, <1>4 DEF IInv, TypeOK
<1>6. CallFits'
  BY <1>1, <1>4, SameTable DEF IInv, CallFits
<1>7. ReactionsFit'
  BY <1>1, <1>4 DEF IInv, ReactionsFit
<1>8. OneReactionPerRevision' /\ SpokenFits'
  BY <1>1 DEF IInv, OneReactionPerRevision, SpokenFits
<1> QED BY <1>1, <1>5, <1>6, <1>7, <1>8, SameTable DEF IInv

-----------------------------------------------------------------------------
(* The NPCs' tasks.                                                        *)

\* A step of an NPC leaves the requests and the table alone.
LEMMA RequestsStay ==
  ASSUME IInv, UNCHANGED <<stored, call, reacted>>
  PROVE  HasNewest' /\ ChainUnbroken' /\ CallFits' /\ ReactionsFit' /\ OneReactionPerRevision'
BY SameTable DEF IInv, CallFits, ReactionsFit, OneReactionPerRevision

\* A notice remembers the newest revision, and acts on that one or not at all.
LEMMA NoticeStep == ASSUME IInv, NEW n \in Npcs, Notice(n) \/ ActOnNotice(n) PROVE IInv'
<1> USE DEF tasks
<1>1. UNCHANGED <<stored, call, outcome, running, stage, reacted, spoken>>
  BY DEF Notice, ActOnNotice
<1>2. noticed' \in [Npcs -> Revisions \cup {0}] /\ waiting' \in [Npcs -> Works \cup {NoWork}]
  <2>1. CASE Notice(n)
    BY <2>1, NewestRow, RowTypes DEF Notice, InFocus, IsActive, IInv, TypeOK
  <2>2. CASE ActOnNotice(n)
    <3>1. noticed[n] \in Nat \ {0}
      BY <2>2, RowTypes DEF ActOnNotice, IInv, TypeOK, Revisions
    <3>2. [m \in {n} |-> Noticed(noticed[m])] \in [{n} -> Works]
      BY <3>1 DEF Noticed, Works
    <3>3. CASE Enqueue([m \in {n} |-> Noticed(noticed[m])])
      <4>1. waiting' \in [Npcs -> Works \cup {NoWork}]
        <5> DEFINE work == [m \in {n} |-> Noticed(noticed[m])]
        <5>1. work \in [{n} -> Works] /\ Enqueue(work) /\ {n} \in SUBSET Npcs
          BY <3>2, <3>3
        <5> HIDE DEF work
        <5> QED BY <5>1, EnqueueType
      <4> QED BY <2>2, <4>1 DEF ActOnNotice, IInv, TypeOK
    <3>4. CASE UNCHANGED waiting
      BY <2>2, <3>4 DEF ActOnNotice, IInv, TypeOK
    <3> QED BY <2>2, <3>3, <3>4 DEF ActOnNotice
  <2> QED BY <2>1, <2>2
<1>3. TypeOK' /\ SpokenFits'
  BY <1>1, <1>2 DEF IInv, TypeOK, SpokenFits
<1> QED BY <1>1, <1>3, RequestsStay DEF IInv

\* A task that is not about to publish is not asked for its revision.
LEMMA TaskMoves ==
  ASSUME IInv, NEW n \in Npcs, Start(n) \/ Look(n) \/ Check(n) \/ Generate(n) \/ Recheck(n)
  PROVE  IInv'
<1> USE EventAssumption DEF Drop, Judge
<1>1. UNCHANGED <<stored, call, outcome, noticed, reacted, spoken>>
  BY DEF Start, Look, Check, Generate, Recheck
<1>2. TypeOK'
  BY <1>1 DEF IInv, TypeOK, Stages, Start, Look, Check, Generate, Recheck
<1>3. SpokenFits'
  <2>1. ASSUME NEW m \in Npcs, stage'[m] = "publishing", running'[m].trigger = "event"
        PROVE  /\ running'[m].revision >= spoken[m]
               /\ \E x \in stored : x.message.revision = running'[m].revision
    <3>1. CASE stage[m] = "publishing" /\ running'[m] = running[m]
      BY <2>1, <3>1 DEF IInv, SpokenFits
    <3>2. CASE running'[m] = running[m] /\ StillCurrent(running[m])
      <4>1. /\ Newest \in stored /\ running[m].revision = Newest.message.revision
            /\ \A y \in stored : y.message.revision <= Newest.message.revision
        BY <2>1, <3>2, NewestRow DEF StillCurrent, IsActive
      <4>2. spoken[m] = 0 \/ \E x \in stored : x.message.revision = spoken[m]
        BY DEF IInv, SpokenFits
      <4>3. Newest.message.revision \in Nat \ {0}
        BY <4>1, RowTypes
      <4> QED BY <3>2, <4>1, <4>2, <4>3
    <3> QED BY <2>1, <3>1, <3>2 DEF IInv, TypeOK, Start, Look, Check, Generate, Recheck
  <2> QED BY <1>1, <2>1 DEF IInv, SpokenFits
<1> QED BY <1>1, <1>2, <1>3, RequestsStay DEF IInv

\* What is published speaks of the revision its work was enqueued for.
LEMMA PublishStep == ASSUME IInv, NEW n \in Npcs, Publish(n) PROVE IInv'
<1> USE EventAssumption DEF Publish, Drop
<1>1. running[n].trigger = "event" => running[n].revision \in Revisions
  BY RowTypes DEF IInv, SpokenFits
<1>2. TypeOK'
  BY <1>1 DEF IInv, TypeOK, Stages
<1>3. SpokenFits'
  BY <1>1 DEF IInv, TypeOK, SpokenFits
<1> QED BY <1>2, <1>3, RequestsStay DEF IInv

-----------------------------------------------------------------------------
(* The theorems.                                                           *)

\* Every step keeps the invariant: one case per action.
LEMMA NextIInv == IInv /\ [Next]_vars => IInv'
<1> SUFFICES ASSUME IInv, [Next]_vars PROVE IInv' OBVIOUS
<1>1. ASSUME NEW c \in Calls, (\E m \in Messages : Deliver(c, m)) \/ Handle(c) PROVE IInv'
  BY <1>1, ReadingStep, InsertStep, ReactStep, RoutingStep DEF Handle
<1>2. CASE Refresh
  BY <1>2, RoutingStep
<1>3. ASSUME NEW n \in Npcs, Notice(n) \/ ActOnNotice(n) \/ Work(n) PROVE IInv'
  BY <1>3, NoticeStep, TaskMoves, PublishStep DEF Work
<1>4. CASE UNCHANGED vars
  <2>1. TypeOK' /\ SpokenFits'
    BY <1>4 DEF vars, tasks, IInv, TypeOK, SpokenFits
  <2> QED BY <1>4, <2>1, RequestsStay DEF vars, tasks, IInv
<1> QED BY <1>1, <1>2, <1>3, <1>4 DEF Next

\* The invariant of the table, the deliveries and the reactions holds throughout.
THEOREM EventIInv == Spec => []IInv
BY InitIInv, NextIInv, PTL DEF Spec

\* Rows, requests and tasks stay in their ranges.
THEOREM EventTypeOK == Spec => []TypeOK
<1>1. IInv => TypeOK BY DEF IInv
<1> QED BY <1>1, EventIInv, PTL

\* However many deliveries are handled at once, the rows of an event are one
\* chain: no gap, no fork, time forward, nothing after the end, and the witnesses
\* of the start.
THEOREM ChainNeverBroken == Spec => []ChainUnbroken
<1>1. IInv => ChainUnbroken BY DEF IInv
<1> QED BY <1>1, EventIInv, PTL

\* A revision delivered any number of times is reacted to once.
THEOREM RevisionsReactedOnce == Spec => []OneReactionPerRevision
<1>1. IInv => OneReactionPerRevision BY DEF IInv
<1> QED BY <1>1, EventIInv, PTL

\* The reactions an NPC is sent never go back to an older revision.
THEOREM ReactionsNeverGoBack == Spec => ReactionsGoForward
<1>1. IInv /\ [Next]_vars => [\A n \in Npcs : spoken'[n] >= spoken[n]]_vars
  <2> SUFFICES ASSUME IInv, Next, NEW m \in Npcs
               PROVE  spoken'[m] >= spoken[m]
    OBVIOUS
  <2>1. spoken[m] \in Nat
    BY EventAssumption DEF IInv, TypeOK, Revisions, MessageRecords
  <2>2. ASSUME NEW n \in Npcs, Publish(n) PROVE spoken'[m] >= spoken[m]
    BY <2>1, <2>2 DEF Publish, IInv, TypeOK, SpokenFits
  <2>3. CASE UNCHANGED spoken
    BY <2>1, <2>3
  <2> QED BY <2>2, <2>3 DEF Next, Handle, Work, Deliver, ReadMessage, ReadRevision, ReadLatest,
                 LookFor, Insert, StoreFails, React, RouteFor, Decide, Refresh, Notice,
                 ActOnNotice, Start, Look, Check, Judge, Generate, Recheck
<1> QED BY <1>1, EventIInv, PTL DEF Spec, ReactionsGoForward
=============================================================================
