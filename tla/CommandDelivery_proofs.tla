----------------------- MODULE CommandDelivery_proofs -----------------------
(***************************************************************************)
(* The order in which commands take effect, for any number of NPCs,        *)
(* sockets, triggers and remembered ids.                                   *)
(*                                                                         *)
(* AppliedInOrder is not inductive: it needs that the tracker's `last`     *)
(* bounds every sequence applied in this run, and that no sequence changes *)
(* once its command is stored, hence that only stored commands travel.     *)
(* TurnsInOrder needs neither the tracker nor the run: the newest turn     *)
(* bounds every turn ever answered.                                        *)
(***************************************************************************)
EXTENDS CommandDelivery, TLAPS, SequenceTheorems

\* Only what is stored travels or takes effect, and only a trigger that was
\* published has something stored.
StoredTravels ==
  /\ \A t \in Triggers : status[t] # "none" => t \in 1..Len(triggers)
  /\ \A s \in Sockets : \A i \in 1..Len(wire[s]) : status[wire[s][i]] # "none"
  /\ \A i \in 1..Len(shown) : status[shown[i]] # "none"

\* The tracker's last sequence bounds what was applied since it was cleared.
LastBounds ==
  \A i \in 1..Len(shown) :
    run < i => sequence[shown[i]] <= last[triggers[shown[i]].npc]

\* The newest turn bounds the turns answered.
NewestBounds ==
  \A i \in 1..Len(shown) :
    triggers[shown[i]].kind = "turn" => shown[i] <= talking.turn

IInv ==
  TypeOK /\ StoredTravels /\ LastBounds /\ NewestBounds /\ AppliedInOrder /\ TurnsInOrder

\* Nothing is stored, sent or seen.
LEMMA InitIInv == Init => IInv
<1> SUFFICES ASSUME Init PROVE IInv OBVIOUS
<1> USE DeliveryAssumption
<1>1. TypeOK
  BY DEF Init, TypeOK, NobodyTalking, TalkRecords, Triggers, Statuses, Seats, SockStates
<1>2. StoredTravels /\ LastBounds /\ NewestBounds /\ AppliedInOrder /\ TurnsInOrder
  BY DEF Init, StoredTravels, LastBounds, NewestBounds, AppliedInOrder, TurnsInOrder, Triggers
<1> QED BY <1>1, <1>2 DEF IInv

\* A step that leaves the triggers, the sequences and the log alone, and
\* forgets no stored command, keeps the bounds and the order.
LEMMA Unlogged ==
  ASSUME IInv, UNCHANGED <<triggers, talking, sequence, last, shown, run>>
  PROVE  LastBounds' /\ NewestBounds' /\ AppliedInOrder' /\ TurnsInOrder'
BY DEF IInv, LastBounds, NewestBounds, AppliedInOrder, TurnsInOrder

\* The same of the commands that travel, where the wires stay as they are.
LEMMA Untravelled ==
  ASSUME IInv, UNCHANGED <<triggers, wire, shown>>,
         \A t \in Triggers : status'[t] = "none" <=> status[t] = "none"
  PROVE  StoredTravels'
<1> USE DEF IInv, TypeOK
<1>1. \A t \in Triggers : status'[t] # "none" => t \in 1..Len(triggers')
  BY DEF StoredTravels
<1>2. ASSUME NEW s \in Sockets, NEW i \in 1..Len(wire'[s])
      PROVE  status'[wire'[s][i]] # "none"
  <2>1. wire[s][i] \in Triggers /\ status[wire[s][i]] # "none"
    BY <1>2 DEF StoredTravels
  <2> QED BY <2>1
<1>3. ASSUME NEW i \in 1..Len(shown') PROVE status'[shown'[i]] # "none"
  <2>1. shown[i] \in Triggers /\ status[shown[i]] # "none"
    BY <1>3 DEF StoredTravels
  <2> QED BY <2>1
<1> QED BY <1>1, <1>2, <1>3 DEF StoredTravels

\* A wire that carries a stored command still carries stored commands only.
LEMMA CarriedWire ==
  ASSUME IInv, NEW t \in Triggers, NEW s \in Sockets, status[t] # "none",
         wire' = Carried(t, s), UNCHANGED <<triggers, status, shown>>
  PROVE  wire' \in [Sockets -> Seq(Triggers)] /\ StoredTravels'
<1> USE DEF IInv, TypeOK
<1>1. wire' \in [Sockets -> Seq(Triggers)]
  BY DEF Carried
<1>2. ASSUME NEW u \in Sockets, NEW i \in 1..Len(wire'[u])
      PROVE  status[wire'[u][i]] # "none"
  <2>1. CASE wire'[u] = wire[u]
    BY <2>1, <1>2 DEF StoredTravels
  <2>2. CASE u = s /\ wire'[u] = Append(wire[u], t)
    <3>1. wire[u] \in Seq(Triggers) OBVIOUS
    <3>2. Len(wire'[u]) = Len(wire[u]) + 1 BY <2>2, <3>1
    <3>3. CASE i = Len(wire[u]) + 1
      <4>1. wire'[u][i] = t BY <2>2, <3>1, <3>3
      <4> QED BY <4>1
    <3>4. CASE i \in 1..Len(wire[u])
      <4>1. wire'[u][i] = wire[u][i] BY <2>2, <3>1, <3>4
      <4> QED BY <4>1, <3>4 DEF StoredTravels
    <3> QED BY <3>1, <3>2, <3>3, <3>4, <1>2
  <2> QED BY <2>1, <2>2 DEF Carried
<1> QED BY <1>1, <1>2 DEF StoredTravels

\* The triggers grow, and the newest turn with them.
LEMMA TriggerStep ==
  ASSUME IInv, NEW n \in Npcs, Talk(n) \/ FireEvent(n)
  PROVE  IInv'
<1> DEFINE t == Len(triggers) + 1
<1>1. TypeOK /\ StoredTravels /\ LastBounds /\ NewestBounds /\ AppliedInOrder /\ TurnsInOrder
  BY DEF IInv
<1>2. /\ triggers \in Seq(TriggerRecords) /\ shown \in Seq(Triggers)
      /\ talking \in TalkRecords /\ talking.turn \in 0..MaxTriggers
      /\ talking.conversation \in 0..MaxTriggers
  BY <1>1 DEF TypeOK, TalkRecords
<1>3. /\ t \in Triggers
      /\ UNCHANGED <<backend, network, mod, restarts>>
      /\ \E r \in TriggerRecords : triggers' = Append(triggers, r)
      /\ talking' \in TalkRecords
      /\ talking' = talking \/ talking'.turn = t
  <2>1. CASE Talk(n)
    BY <2>1, <1>2, DeliveryAssumption DEF Talk, TriggerRecords, TalkRecords, Triggers
  <2>2. CASE FireEvent(n)
    BY SMTT(60), <2>2, <1>2, DeliveryAssumption DEF FireEvent, TriggerRecords, Triggers
  <2> QED BY <2>1, <2>2
<1>4. /\ triggers' \in Seq(TriggerRecords) /\ Len(triggers') = t
      /\ \A i \in 1..Len(triggers) : triggers'[i] = triggers[i]
  BY <1>2, <1>3
<1>5. TypeOK'
  BY <1>1, <1>3, <1>4, DeliveryAssumption DEF TypeOK, Triggers, backend, network, mod
<1>6. StoredTravels'
  BY <1>1, <1>2, <1>3, <1>4 DEF StoredTravels, backend, network, mod
<1>7. \A i \in 1..Len(shown) : shown[i] \in Triggers /\ shown[i] \in 1..Len(triggers)
  BY <1>1, <1>2 DEF StoredTravels
<1>8. \A i \in 1..Len(shown) : triggers'[shown[i]] = triggers[shown[i]]
  BY <1>4, <1>7
<1>9. LastBounds' /\ AppliedInOrder' /\ TurnsInOrder'
  <2>1. LastBounds'
    BY <1>1, <1>3, <1>8 DEF LastBounds, backend, mod
  <2>2. AppliedInOrder'
    <3>1. sequence' = sequence /\ shown' = shown /\ run' = run
      BY <1>3 DEF backend, mod
    <3>2. ASSUME NEW i \in 1..Len(shown), NEW j \in 1..Len(shown), run < i, i < j,
                 triggers'[shown[i]].npc = triggers'[shown[j]].npc
          PROVE  sequence[shown[i]] < sequence[shown[j]]
      BY <3>2, <1>1, <1>8 DEF AppliedInOrder
    <3> QED BY <3>1, <3>2 DEF AppliedInOrder
  <2>3. TurnsInOrder'
    BY <1>1, <1>3, <1>8 DEF TurnsInOrder, mod
  <2> QED BY <2>1, <2>2, <2>3
<1>10. NewestBounds'
  <2>1. \A i \in 1..Len(shown) : shown[i] <= t
    BY <1>2, <1>7
  <2> QED BY <2>1, <1>1, <1>3, <1>8 DEF NewestBounds, mod
<1> QED BY <1>5, <1>6, <1>9, <1>10 DEF IInv

\* Storing a command puts its trigger among those that may travel.
LEMMA StoreStep ==
  ASSUME IInv, NEW t \in Triggers, Store(t)
  PROVE  IInv'
<1>1. TypeOK /\ StoredTravels /\ LastBounds /\ NewestBounds /\ AppliedInOrder /\ TurnsInOrder
  BY DEF IInv
<1>2. t \in 1..Len(triggers) /\ triggers[t].npc \in Npcs
  <2>1. t \in 1..Len(triggers) /\ triggers[t] \in TriggerRecords
    BY <1>1 DEF Store, TypeOK
  <2> QED BY <2>1 DEF TriggerRecords
<1>3. /\ status[t] = "none"
      /\ status' = [status EXCEPT ![t] = "pending"]
      /\ sequence' = [sequence EXCEPT ![t] = stored[triggers[t].npc] + 1]
      /\ stored' = [stored EXCEPT ![triggers[t].npc] = @ + 1]
      /\ UNCHANGED <<world, left, took, network, mod, restarts>>
  BY DEF Store
<1>4. TypeOK'
  <2>1. /\ status' \in [Triggers -> Statuses] /\ sequence' \in [Triggers -> Nat]
        /\ stored' \in [Npcs -> Nat]
    BY <1>1, <1>2, <1>3 DEF TypeOK, Statuses
  <2> QED BY <2>1, <1>1, <1>3 DEF TypeOK, world, network, mod
<1>5. \A u \in Triggers : status[u] # "none" =>
        u # t /\ status'[u] = status[u] /\ sequence'[u] = sequence[u]
  BY <1>1, <1>3 DEF TypeOK
<1>6. StoredTravels'
  <2>1. \A u \in Triggers : status'[u] # "none" => u \in 1..Len(triggers')
    BY <1>1, <1>2, <1>3 DEF StoredTravels, TypeOK, world
  <2>2. ASSUME NEW s \in Sockets, NEW i \in 1..Len(wire[s]) PROVE status'[wire[s][i]] # "none"
    <3>1. wire[s][i] \in Triggers /\ status[wire[s][i]] # "none"
      BY <1>1, <2>2 DEF StoredTravels, TypeOK
    <3> QED BY <3>1, <1>5
  <2>3. ASSUME NEW i \in 1..Len(shown) PROVE status'[shown[i]] # "none"
    <3>1. shown[i] \in Triggers /\ status[shown[i]] # "none"
      BY <1>1, <2>3 DEF StoredTravels, TypeOK
    <3> QED BY <3>1, <1>5
  <2> QED BY <2>1, <2>2, <2>3, <1>3 DEF StoredTravels, network, mod
<1>7. ASSUME NEW i \in 1..Len(shown) PROVE sequence'[shown[i]] = sequence[shown[i]]
  <2>1. shown[i] \in Triggers /\ status[shown[i]] # "none"
    BY <1>1, <1>7 DEF StoredTravels, TypeOK
  <2> QED BY <2>1, <1>5
<1>8. LastBounds' /\ NewestBounds' /\ AppliedInOrder' /\ TurnsInOrder'
  BY <1>1, <1>3, <1>7 DEF LastBounds, NewestBounds, AppliedInOrder, TurnsInOrder, world, mod
<1> QED BY <1>4, <1>6, <1>8 DEF IInv

\* The delivery and the connection: the log and the tracker stay.
LEMMA SocketlessStep ==
  ASSUME IInv, NEW t \in Triggers, Expire(t) \/ StartSend(t) \/ EndSend(t)
  PROVE  IInv'
<1> USE DEF IInv, TypeOK
<1>1. UNCHANGED <<triggers, talking, sequence, last, shown, run>>
  BY DEF Expire, StartSend, EndSend, world, mod
<1>2. LastBounds' /\ NewestBounds' /\ AppliedInOrder' /\ TurnsInOrder'
  BY <1>1, Unlogged
<1>3. /\ \A u \in Triggers : status'[u] = "none" <=> status[u] = "none"
      /\ UNCHANGED <<triggers, wire, shown>>
  BY DEF Expire, StartSend, EndSend, world, network, mod
<1>4. StoredTravels'
  BY <1>3, Untravelled
<1>5. TypeOK'
  BY DEF Expire, StartSend, EndSend, Listening, Statuses, world, network, mod
<1> QED BY <1>2, <1>4, <1>5

\* Sending to one socket moves no trigger and nothing the mod has seen.
LEMMA SocketStep ==
  ASSUME IInv, NEW t \in Triggers, NEW s \in Sockets, SendTo(t, s) \/ SendFails(t, s)
  PROVE  IInv'
<1> USE DEF IInv, TypeOK
<1>1. UNCHANGED <<triggers, talking, sequence, last, shown, run>>
  BY DEF SendTo, SendFails, world, mod
<1>2. LastBounds' /\ NewestBounds' /\ AppliedInOrder' /\ TurnsInOrder'
  BY <1>1, Unlogged
<1>3. /\ status[t] # "none" /\ wire' = Carried(t, s)
      /\ UNCHANGED <<triggers, status, shown>>
  BY DEF SendTo, SendFails, world, mod
<1>4. wire' \in [Sockets -> Seq(Triggers)] /\ StoredTravels'
  BY <1>3, CarriedWire
<1>5. /\ UNCHANGED <<world, status, sequence, stored, sock, building, current, mod, restarts>>
      /\ left' \in [Triggers -> SUBSET Sockets]
      /\ took' \subseteq Triggers
      /\ seat' \in [Sockets -> Seats]
  <2>1. CASE SendTo(t, s) BY <2>1 DEF SendTo
  <2>2. CASE SendFails(t, s) BY <2>2 DEF SendFails, Seats
  <2> QED BY <2>1, <2>2
<1>6. TypeOK'
  BY <1>4, <1>5 DEF world, mod
<1> QED BY <1>2, <1>4, <1>6

\* Sockets that open, close or leave touch neither the commands nor the wires.
LEMMA ConnectionStep ==
  ASSUME IInv,
         \/ Disconnect
         \/ \E s \in Sockets : Connect(s) \/ Established(s) \/ Closed(s) \/ Leave(s)
  PROVE  IInv'
<1> USE DEF IInv, TypeOK
<1>1. UNCHANGED <<world, backend, wire, mod, restarts>>
  BY DEF Disconnect, Connect, Established, Closed, Leave
<1>2. LastBounds' /\ NewestBounds' /\ AppliedInOrder' /\ TurnsInOrder'
  BY <1>1, Unlogged DEF world, backend, mod
<1>3. StoredTravels'
  BY <1>1, Untravelled DEF world, backend, mod
<1>4. /\ seat' \in [Sockets -> Seats] /\ sock' \in [Sockets -> SockStates]
      /\ building' \subseteq Sockets /\ current' \in Sockets \cup {NoSocket}
  BY DEF Disconnect, Connect, Established, Closed, Leave, Closing, Seats, SockStates
<1>5. TypeOK'
  BY <1>1, <1>4 DEF world, backend, mod
<1> QED BY <1>2, <1>3, <1>5

\* A reload forgets what the mod applied and starts a new run of what it shows;
\* a backend restart and a cleanup leave what the mod has seen.
LEMMA RestartStep ==
  ASSUME IInv, ReloadWorld \/ RestartBackend \/ CleanSession
  PROVE  IInv'
<1> USE DEF IInv, TypeOK
<1>1. CASE ReloadWorld
  <2>1. /\ UNCHANGED <<world, backend, seat, building, wire, shown>>
        /\ appliedIds' = <<>> /\ last' = [n \in Npcs |-> 0] /\ run' = Len(shown)
        /\ sock' \in [Sockets -> SockStates] /\ current' = NoSocket
        /\ restarts' \in 0..MaxRestarts
    BY <1>1, DeliveryAssumption DEF ReloadWorld, Closing, SockStates
  <2>2. TypeOK'
    BY <2>1 DEF world, backend
  <2>3. StoredTravels'
    BY <2>1, Untravelled DEF world, backend
  <2>4. LastBounds' /\ NewestBounds' /\ AppliedInOrder' /\ TurnsInOrder'
    BY <2>1 DEF LastBounds, NewestBounds, AppliedInOrder, TurnsInOrder, world, backend
  <2> QED BY <2>2, <2>3, <2>4
<1>2. CASE RestartBackend \/ CleanSession
  <2>1. /\ UNCHANGED <<world, sequence, sock, building, current, wire, mod>>
        /\ restarts' \in 0..MaxRestarts
        /\ seat' \in [Sockets -> Seats] /\ status' \in [Triggers -> Statuses]
        /\ left' \in [Triggers -> SUBSET Sockets] /\ took' \subseteq Triggers
        /\ stored' \in [Npcs -> Nat]
        /\ \A u \in Triggers : status'[u] = "none" <=> status[u] = "none"
    <3>1. CASE RestartBackend
      BY <3>1, DeliveryAssumption DEF RestartBackend, Seats, Statuses
    <3>2. CASE CleanSession
      BY <3>2, DeliveryAssumption DEF CleanSession, network
    <3> QED BY <3>1, <3>2, <1>2
  <2>2. TypeOK'
    BY <2>1 DEF world, mod
  <2>3. StoredTravels'
    BY <2>1, Untravelled DEF world, mod
  <2>4. LastBounds' /\ NewestBounds' /\ AppliedInOrder' /\ TurnsInOrder'
    BY <2>1, Unlogged DEF world, mod
  <2> QED BY <2>2, <2>3, <2>4
<1> QED BY <1>1, <1>2

\* A command that passes the checks goes to the end of the log.
LEMMA ApplyKeeps ==
  ASSUME IInv, NEW t \in Triggers, t \in 1..Len(triggers), status[t] # "none",
         TriggerIsCurrent(t), Fresh(t), Apply(t),
         UNCHANGED <<triggers, talking, status, sequence, run>>
  PROVE  /\ appliedIds' \in Seq(Triggers) /\ shown' \in Seq(Triggers)
         /\ last' \in [Npcs -> Nat] /\ Len(shown') = Len(shown) + 1
         /\ \A i \in 1..Len(shown') : status'[shown'[i]] # "none"
         /\ LastBounds' /\ NewestBounds' /\ AppliedInOrder' /\ TurnsInOrder'
<1> DEFINE n == triggers[t].npc
<1>1. StoredTravels /\ LastBounds /\ NewestBounds /\ AppliedInOrder /\ TurnsInOrder
  BY DEF IInv
<1>2. /\ shown \in Seq(Triggers) /\ appliedIds \in Seq(Triggers)
      /\ last \in [Npcs -> Nat] /\ sequence \in [Triggers -> Nat] /\ run \in Nat
      /\ triggers \in Seq(TriggerRecords) /\ Triggers \subseteq Nat
  BY DEF IInv, TypeOK, Triggers
<1>3. /\ n \in Npcs /\ sequence[t] \in Nat /\ last[n] \in Nat /\ sequence[t] > last[n]
      /\ last' = [last EXCEPT ![n] = sequence[t]] /\ shown' = Append(shown, t)
  <2>1. triggers[t] \in TriggerRecords BY <1>2
  <2>2. n \in Npcs BY <2>1 DEF TriggerRecords
  <2> QED BY <2>2, <1>2 DEF Apply, Fresh
<1>4. appliedIds' \in Seq(Triggers)
  <2>1. Append(appliedIds, t) \in Seq(Triggers) /\ Append(appliedIds, t) # <<>>
    <3>1. appliedIds \in Seq(Triggers) /\ t \in Triggers BY <1>2
    <3> QED BY <3>1, AppendProperties
  <2>2. Tail(Append(appliedIds, t)) \in Seq(Triggers)
    BY <2>1
  <2> QED BY <2>1, <2>2 DEF Apply, Remembered
<1>5. /\ shown' \in Seq(Triggers) /\ Len(shown') = Len(shown) + 1 /\ Len(shown) \in Nat
      /\ shown'[Len(shown) + 1] = t
      /\ \A i \in 1..Len(shown) : shown'[i] = shown[i]
  BY <1>2, <1>3
<1>6. ASSUME NEW i \in 1..Len(shown)
      PROVE  shown[i] \in Triggers /\ status[shown[i]] # "none" /\ triggers[shown[i]].npc \in Npcs
  <2>1. shown[i] \in Triggers /\ status[shown[i]] # "none"
    BY <1>1, <1>2 DEF StoredTravels
  <2>2. shown[i] \in 1..Len(triggers)
    BY <2>1, <1>1 DEF StoredTravels
  <2>3. triggers[shown[i]] \in TriggerRecords
    BY <2>2, <1>2
  <2> QED BY <2>1, <2>3 DEF TriggerRecords
<1>7. ASSUME NEW i \in 1..Len(shown') PROVE i \in 1..Len(shown) \/ i = Len(shown) + 1
  BY <1>5
<1>8. ASSUME NEW i \in 1..Len(shown') PROVE status'[shown'[i]] # "none"
  BY <1>5, <1>6, <1>7
<1>9. ASSUME NEW i \in 1..Len(shown'), run < i
      PROVE  sequence[shown'[i]] <= last'[triggers[shown'[i]].npc]
  <2>1. CASE i = Len(shown) + 1
    BY <2>1, <1>3, <1>5, <1>2
  <2>2. CASE i \in 1..Len(shown)
    <3>1. sequence[shown[i]] <= last[triggers[shown[i]].npc] /\ sequence[shown[i]] \in Nat
      BY <2>2, <1>9, <1>1, <1>2, <1>6 DEF LastBounds
    <3>2. CASE triggers[shown[i]].npc = n
      <4>1. last'[n] = sequence[t] BY <1>2, <1>3
      <4> QED BY <4>1, <3>1, <3>2, <2>2, <1>3, <1>5
    <3>3. CASE triggers[shown[i]].npc # n
      <4>1. last'[triggers[shown[i]].npc] = last[triggers[shown[i]].npc]
        BY <3>3, <2>2, <1>2, <1>3, <1>6
      <4> QED BY <4>1, <3>1, <2>2, <1>5
    <3> QED BY <3>2, <3>3
  <2> QED BY <2>1, <2>2, <1>7
<1>10. ASSUME NEW i \in 1..Len(shown'), NEW j \in 1..Len(shown'), run < i, i < j,
              triggers[shown'[i]].npc = triggers[shown'[j]].npc
       PROVE  sequence[shown'[i]] < sequence[shown'[j]]
  <2>1. i \in 1..Len(shown) BY <1>10, <1>5
  <2>2. CASE j = Len(shown) + 1
    <3>1. sequence[shown[i]] <= last[n] /\ sequence[shown[i]] \in Nat
      BY <2>1, <2>2, <1>10, <1>1, <1>2, <1>5, <1>6 DEF LastBounds
    <3> QED BY <3>1, <2>1, <2>2, <1>3, <1>5
  <2>3. CASE j \in 1..Len(shown)
    BY <2>1, <2>3, <1>10, <1>1, <1>5 DEF AppliedInOrder
  <2> QED BY <2>2, <2>3, <1>7
<1>11. triggers[t].kind = "turn" => talking.turn = t
  BY DEF TriggerIsCurrent, IsCurrentConversation
<1>12. ASSUME NEW i \in 1..Len(shown'), triggers[shown'[i]].kind = "turn"
       PROVE  shown'[i] <= talking.turn
  <2>1. CASE i = Len(shown) + 1
    BY <2>1, <1>12, <1>11, <1>5, <1>2
  <2>2. CASE i \in 1..Len(shown)
    BY <2>2, <1>12, <1>1, <1>5 DEF NewestBounds
  <2> QED BY <2>1, <2>2, <1>7
<1>13. ASSUME NEW i \in 1..Len(shown'), NEW j \in 1..Len(shown'), i < j,
              triggers[shown'[i]].kind = "turn", triggers[shown'[j]].kind = "turn"
       PROVE  shown'[i] <= shown'[j]
  <2>1. i \in 1..Len(shown) BY <1>13, <1>5
  <2>2. CASE j = Len(shown) + 1
    BY <2>1, <2>2, <1>13, <1>11, <1>12, <1>5
  <2>3. CASE j \in 1..Len(shown)
    BY <2>1, <2>3, <1>13, <1>1, <1>5 DEF TurnsInOrder
  <2> QED BY <2>2, <2>3, <1>7
<1>14. LastBounds' BY <1>9 DEF LastBounds
<1>15. NewestBounds' BY <1>12 DEF NewestBounds
<1>16. AppliedInOrder' BY <1>10 DEF AppliedInOrder
<1>17. TurnsInOrder' BY <1>13 DEF TurnsInOrder
<1>18. last' \in [Npcs -> Nat] BY <1>2, <1>3
<1> QED BY <1>4, <1>5, <1>8, <1>14, <1>15, <1>16, <1>17, <1>18

\* The head of a wire is handled: declined, or applied.
LEMMA HandleStep ==
  ASSUME IInv, NEW s \in Sockets, Handle(s)
  PROVE  IInv'
<1> DEFINE t == Head(wire[s])
<1>1. TypeOK /\ StoredTravels
  BY DEF IInv
<1>2. /\ wire \in [Sockets -> Seq(Triggers)] /\ wire[s] \in Seq(Triggers) /\ wire[s] # <<>>
      /\ wire' = [wire EXCEPT ![s] = Tail(wire[s])]
      /\ UNCHANGED <<world, backend, seat, sock, building, current, run, restarts>>
  BY <1>1 DEF Handle, TypeOK
<1>3. t \in Triggers /\ status[t] # "none" /\ t \in 1..Len(triggers)
  <2>1. t = wire[s][1] /\ 1 \in 1..Len(wire[s]) BY <1>2
  <2> QED BY <2>1, <1>1, <1>2 DEF StoredTravels
<1>4. wire' \in [Sockets -> Seq(Triggers)]
  BY <1>2
<1>5. ASSUME NEW u \in Sockets, NEW i \in 1..Len(wire'[u]) PROVE status'[wire'[u][i]] # "none"
  <2>1. CASE u = s
    <3>1. Len(wire'[u]) = Len(wire[u]) - 1 /\ wire'[u][i] = wire[u][i + 1]
      BY <2>1, <1>2, <1>5
    <3>2. i + 1 \in 1..Len(wire[u])
      BY <3>1, <2>1, <1>2, <1>5
    <3> QED BY <3>1, <3>2, <1>1, <1>2 DEF StoredTravels, backend
  <2>2. CASE u # s
    BY <2>2, <1>1, <1>2, <1>5 DEF StoredTravels, backend
  <2> QED BY <2>1, <2>2
<1>6. CASE UNCHANGED <<appliedIds, last, shown>>
  <2>1. TypeOK'
    BY <1>6, <1>1, <1>2, <1>4 DEF TypeOK, world, backend
  <2>2. StoredTravels'
    BY <1>6, <1>1, <1>2, <1>5 DEF StoredTravels, world, backend
  <2>3. LastBounds' /\ NewestBounds' /\ AppliedInOrder' /\ TurnsInOrder'
    BY <1>6, <1>2, Unlogged DEF world, backend
  <2> QED BY <2>1, <2>2, <2>3 DEF IInv
<1>7. CASE TriggerIsCurrent(t) /\ Fresh(t) /\ Apply(t)
  <2>1. /\ appliedIds' \in Seq(Triggers) /\ shown' \in Seq(Triggers)
        /\ last' \in [Npcs -> Nat] /\ Len(shown') = Len(shown) + 1
        /\ \A i \in 1..Len(shown') : status'[shown'[i]] # "none"
        /\ LastBounds' /\ NewestBounds' /\ AppliedInOrder' /\ TurnsInOrder'
    BY <1>7, <1>2, <1>3, ApplyKeeps DEF world, backend
  <2>2. run' \in 0..Len(shown')
    BY <2>1, <1>1, <1>2 DEF TypeOK
  <2>3. TypeOK'
    BY <2>1, <2>2, <1>1, <1>2, <1>4 DEF TypeOK, world, backend
  <2>4. StoredTravels'
    BY <2>1, <1>1, <1>2, <1>5 DEF StoredTravels, world, backend
  <2> QED BY <2>1, <2>3, <2>4 DEF IInv
<1> QED BY <1>6, <1>7 DEF Handle

\* Every step keeps the invariant: one case per action.
LEMMA IInvIsInductive == IInv /\ [Next]_vars => IInv'
<1> SUFFICES ASSUME IInv, [Next]_vars PROVE IInv' OBVIOUS
<1>1. ASSUME NEW n \in Npcs, Talk(n) \/ FireEvent(n) PROVE IInv'
  BY <1>1, TriggerStep
<1>2. ASSUME NEW t \in Triggers, Store(t) PROVE IInv'
  BY <1>2, StoreStep
<1>3. ASSUME NEW t \in Triggers, NEW s \in Sockets, SendTo(t, s) \/ SendFails(t, s)
      PROVE  IInv'
  BY <1>3, SocketStep
<1>4. ASSUME \/ Disconnect
             \/ \E s \in Sockets : Connect(s) \/ Established(s) \/ Closed(s) \/ Leave(s)
      PROVE  IInv'
  BY <1>4, ConnectionStep
<1>5. ASSUME NEW s \in Sockets, Handle(s) PROVE IInv'
  BY <1>5, HandleStep
<1>6. ASSUME ReloadWorld \/ RestartBackend \/ CleanSession PROVE IInv'
  BY <1>6, RestartStep
<1>7. CASE UNCHANGED vars
  BY <1>7 DEF vars, world, backend, network, mod, IInv, TypeOK, StoredTravels, LastBounds,
              NewestBounds, AppliedInOrder, TurnsInOrder
<1>8. CASE \E t \in Triggers : Deliver(t) \/ Expire(t) \/ \E s \in Sockets : SendFails(t, s)
  <2>1. PICK t \in Triggers : Deliver(t) \/ Expire(t) \/ \E s \in Sockets : SendFails(t, s)
    BY <1>8
  <2>2. CASE \E s \in Sockets : SendTo(t, s) \/ SendFails(t, s)
    BY <2>2, <1>3
  <2>3. CASE Expire(t) \/ StartSend(t) \/ EndSend(t)
    BY <2>3, SocketlessStep
  <2> QED BY <2>1, <2>2, <2>3 DEF Deliver
<1> QED BY <1>1, <1>2, <1>4, <1>5, <1>6, <1>7, <1>8 DEF Next

\* The invariant holds in every reachable state.
LEMMA SpecIInv == Spec => []IInv
BY InitIInv, IInvIsInductive, PTL DEF Spec

\* Every reachable state has its declared types.
THEOREM TypesHold == Spec => []TypeOK
<1>1. IInv => TypeOK BY DEF IInv
<1> QED BY <1>1, SpecIInv, PTL

\* A command takes effect once and in the order of its NPC's sequences while
\* the game server runs, although sockets, restarts and retries repeat it and
\* the tracker forgets ids.
THEOREM CommandsAppliedInOrder == Spec => []AppliedInOrder
<1>1. IInv => AppliedInOrder BY DEF IInv
<1> QED BY <1>1, SpecIInv, PTL

\* Answers to turns follow the turns, across reloads of the world.
THEOREM TurnsAnsweredInOrder == Spec => []TurnsInOrder
<1>1. IInv => TurnsInOrder BY DEF IInv
<1> QED BY <1>1, SpecIInv, PTL
=============================================================================
