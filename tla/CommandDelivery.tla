--------------------------- MODULE CommandDelivery ---------------------------
(***************************************************************************)
(* A stored command on its way to a villager: the delivery loop of         *)
(* behaviour_publisher.py, the sockets of prototype_bridge.py, and the     *)
(* mod's WebSocketSubscriber, BehaviourCommandHandler and acceptance       *)
(* tracker.                                                                *)
(*                                                                         *)
(* A trigger is what the mod published (a turn to an NPC, or an event), a  *)
(* number in the order of publication; the backend gives it at most one    *)
(* command, named by the same number.  A socket lives once; `wire` is what *)
(* was sent on it and the server thread has not handled.  The handling of  *)
(* a command may always decline it, which also stands for one that was     *)
(* lost: with its socket, in a send that failed, or among the server       *)
(* thread's tasks when the world closed.  Time is left out (a command may  *)
(* be found expired whenever it is looked at), and so is the display of    *)
(* /spotlight status.                                                      *)
(***************************************************************************)
EXTENDS Naturals, Sequences

CONSTANTS
  Npcs, NoNpc,
  Sockets, NoSocket,
  MaxTracked,     \* MAX_TRACKED_COMMAND_IDS
  MaxTriggers,    \* bound of the model: triggers published
  MaxRestarts     \* bound of the model: restarts of the backend, of the game
                  \* server, and cleanups of the session

ASSUME DeliveryAssumption ==
  /\ NoNpc \notin Npcs /\ NoSocket \notin Sockets
  /\ MaxTracked \in Nat /\ MaxTriggers \in Nat /\ MaxRestarts \in Nat

VARIABLES
  triggers,   \* what the mod published: [kind, npc, conversation]
  talking,    \* the mod: NPC, conversation and newest turn being talked in
  status,     \* backend: trigger -> how far its command is
  sequence,   \* backend: trigger -> its command's command_sequence
  stored,     \* backend: NPC -> commands stored since the session's cleanup
  left,       \* backend: trigger -> sockets this send has yet to try
  took,       \* backend: commands some socket of this send has taken
  seat,       \* backend: socket -> where its handler is
  sock,       \* the mod: socket -> its state
  building,   \* the mod: sockets whose thenAccept has yet to run
  current,    \* the mod: the webSocket field
  wire,       \* socket -> commands sent and not handled, in order
  appliedIds, \* the mod: command ids remembered, oldest first
  last,       \* the mod: NPC -> sequence last applied
  shown,      \* history: the commands applied, in order
  run,        \* history: how many of them before this run of the game server
  restarts

backend == <<status, sequence, stored, left, took>>
network == <<seat, sock, building, current, wire>>
mod     == <<appliedIds, last, shown, run>>
world   == <<triggers, talking>>
vars    == <<world, backend, network, mod, restarts>>

Triggers == 1..MaxTriggers
Statuses == {"none", "pending", "sending", "published", "expired"}
Seats    == {"none", "listening", "dropped", "gone"}
SockStates == {"free", "open", "closing", "closed"}

TriggerRecords == [kind: {"turn", "event"}, npc: Npcs, conversation: 0..MaxTriggers]
TalkRecords ==
  [npc: Npcs \cup {NoNpc}, conversation: 0..MaxTriggers, turn: 0..MaxTriggers]

NobodyTalking == [npc |-> NoNpc, conversation |-> 0, turn |-> 0]

Init ==
  /\ triggers = <<>> /\ talking = NobodyTalking
  /\ status = [t \in Triggers |-> "none"]
  /\ sequence = [t \in Triggers |-> 0]
  /\ stored = [n \in Npcs |-> 0]
  /\ took = {}
  /\ left = [t \in Triggers |-> {}]
  /\ seat = [s \in Sockets |-> "none"]
  /\ sock = [s \in Sockets |-> "free"]
  /\ building = {} /\ current = NoSocket
  /\ wire = [s \in Sockets |-> <<>>]
  /\ appliedIds = <<>> /\ last = [n \in Npcs |-> 0]
  /\ shown = <<>> /\ run = 0 /\ restarts = 0

-----------------------------------------------------------------------------
(* The mod's triggers. *)

\* A turn to the NPC already talked to continues that conversation.
Talk(n) ==
  LET t == Len(triggers) + 1
      v == IF talking.npc = n THEN talking.conversation ELSE t
  IN /\ t \in Triggers
     /\ triggers' = Append(triggers, [kind |-> "turn", npc |-> n, conversation |-> v])
     /\ talking' = [npc |-> n, conversation |-> v, turn |-> t]
     /\ UNCHANGED <<backend, network, mod, restarts>>

\* An event, and the NPC the backend will let react to it.
FireEvent(n) ==
  /\ Len(triggers) + 1 \in Triggers
  /\ triggers' = Append(triggers, [kind |-> "event", npc |-> n, conversation |-> 0])
  /\ UNCHANGED <<talking, backend, network, mod, restarts>>

-----------------------------------------------------------------------------
(* The backend's delivery. *)

\* The scheduler has one job of an NPC at a time, so one command on its way.
Store(t) ==
  /\ t \in 1..Len(triggers) /\ status[t] = "none"
  /\ LET n == triggers[t].npc
     IN /\ \A u \in 1..Len(triggers) :
             triggers[u].npc = n => status[u] \notin {"pending", "sending"}
        /\ stored' = [stored EXCEPT ![n] = @ + 1]
        /\ sequence' = [sequence EXCEPT ![t] = stored[n] + 1]
  /\ status' = [status EXCEPT ![t] = "pending"]
  /\ UNCHANGED <<world, left, took, network, mod, restarts>>

\* A look at the clock finds the command past expires_at_ms.
Expire(t) ==
  /\ status[t] = "pending"
  /\ status' = [status EXCEPT ![t] = "expired"]
  /\ UNCHANGED <<world, sequence, stored, left, took, network, mod, restarts>>

Listening == {s \in Sockets : seat[s] = "listening"}

\* One attempt: the list of sockets is copied, then each is awaited.
StartSend(t) ==
  /\ status[t] = "pending"
  /\ status' = [status EXCEPT ![t] = "sending"]
  /\ left' = [left EXCEPT ![t] = Listening]
  /\ UNCHANGED <<world, sequence, stored, took, network, mod, restarts>>

Carried(t, s) ==
  IF sock[s] \in {"open", "closing"} THEN [wire EXCEPT ![s] = Append(@, t)] ELSE wire

SendTo(t, s) ==
  /\ status[t] = "sending" /\ s \in left[t]
  /\ left' = [left EXCEPT ![t] = @ \ {s}]
  /\ took' = took \cup {t}
  /\ wire' = Carried(t, s)
  /\ UNCHANGED <<world, status, sequence, stored, seat, sock, building,
                 current, mod, restarts>>

\* The send fails, or stalls and its bytes may yet arrive: the socket leaves
\* the registry, and stays as open as it was.
SendFails(t, s) ==
  /\ status[t] = "sending" /\ s \in left[t]
  /\ left' = [left EXCEPT ![t] = @ \ {s}]
  /\ wire' = Carried(t, s)
  /\ seat' = [seat EXCEPT ![s] = IF @ = "listening" THEN "dropped" ELSE @]
  /\ UNCHANGED <<world, status, sequence, stored, took, sock, building,
                 current, mod, restarts>>

EndSend(t) ==
  /\ status[t] = "sending" /\ left[t] = {}
  /\ status' = [status EXCEPT ![t] = IF t \in took THEN "published" ELSE "pending"]
  /\ took' = took \ {t}
  /\ UNCHANGED <<world, sequence, stored, left, network, mod, restarts>>

-----------------------------------------------------------------------------
(* The connection, from both ends. *)

Closing(s) == [sock EXCEPT ![s] = IF @ = "open" THEN "closing" ELSE @]

\* /spotlight disconnect.  A socket still being built is not in the field.
Disconnect ==
  /\ current # NoSocket
  /\ sock' = Closing(current)
  /\ current' = NoSocket
  /\ UNCHANGED <<world, backend, seat, building, wire, mod, restarts>>

\* /spotlight connect, with the handshake it leads to: the handler accepts and
\* joins the registry.  A handshake that is late or fails differs from this one
\* only by a Disconnect before it, or instead.
Connect(s) ==
  /\ sock[s] = "free"
  /\ LET before == IF current = NoSocket THEN sock ELSE Closing(current)
     IN sock' = [before EXCEPT ![s] = "open"]
  /\ seat' = [seat EXCEPT ![s] = "listening"]
  /\ current' = NoSocket
  /\ building' = building \cup {s}
  /\ UNCHANGED <<world, backend, wire, mod, restarts>>

\* thenAccept, on whatever has become of the socket meanwhile.
Established(s) ==
  /\ s \in building
  /\ building' = building \ {s}
  /\ current' = s
  /\ UNCHANGED <<world, backend, seat, sock, wire, mod, restarts>>

\* onClose or onError of any socket clears the field, whichever it holds.
Closed(s) ==
  /\ sock[s] \in {"open", "closing"}
  /\ sock' = [sock EXCEPT ![s] = "closed"]
  /\ current' = NoSocket
  /\ UNCHANGED <<world, backend, seat, building, wire, mod, restarts>>

\* The handler waits for text only to notice that the socket is closed.
Leave(s) ==
  /\ seat[s] \in {"listening", "dropped"} /\ sock[s] \in {"closing", "closed"}
  /\ seat' = [seat EXCEPT ![s] = "gone"]
  /\ UNCHANGED <<world, backend, sock, building, current, wire, mod,
                 restarts>>

-----------------------------------------------------------------------------
(* The command on the server thread. *)

\* Mutant of IsCurrentConversation: the turn is not compared.
IsCurrentPartner(t) ==
  /\ talking.npc = triggers[t].npc
  /\ talking.conversation = triggers[t].conversation

IsCurrentConversation(t) ==
  /\ talking.npc = triggers[t].npc
  /\ talking.conversation = triggers[t].conversation
  /\ talking.turn = t

TriggerIsCurrent(t) == triggers[t].kind = "turn" => IsCurrentConversation(t)

\* Mutant of Fresh: only the remembered ids are asked.
FreshById(t) == \A i \in 1..Len(appliedIds) : appliedIds[i] # t

\* CommandAcceptanceTracker.evaluate.
Fresh(t) ==
  /\ \A i \in 1..Len(appliedIds) : appliedIds[i] # t
  /\ sequence[t] > last[triggers[t].npc]

Remembered(ids) ==
  IF Len(ids) > MaxTracked THEN Tail(ids) ELSE ids

Apply(t) ==
  /\ appliedIds' = Remembered(Append(appliedIds, t))
  /\ last' = [last EXCEPT ![triggers[t].npc] = sequence[t]]
  /\ shown' = Append(shown, t)

\* Declined: stale or expired, or its event is over, or the villager is no live candidate,
\* or the action has no sense where it stands.  A socket that is closing, or is
\* no longer the field's, hands its text on like any other.
Handle(s) ==
  /\ wire[s] # <<>>
  /\ wire' = [wire EXCEPT ![s] = Tail(@)]
  /\ \/ LET t == Head(wire[s])
        IN TriggerIsCurrent(t) /\ Fresh(t) /\ Apply(t)
     \/ UNCHANGED <<appliedIds, last, shown>>
  /\ UNCHANGED <<world, backend, seat, sock, building, current, run,
                 restarts>>

-----------------------------------------------------------------------------
(* What is lost on the way. *)

\* The world is closed and opened again in the same game: the conversation
\* stays, the acceptance tracker starts from nothing.
ReloadWorld ==
  /\ restarts < MaxRestarts /\ restarts' = restarts + 1
  /\ sock' = IF current = NoSocket THEN sock ELSE Closing(current)
  /\ current' = NoSocket
  /\ appliedIds' = <<>> /\ last' = [n \in Npcs |-> 0]
  /\ run' = Len(shown)
  /\ UNCHANGED <<world, backend, seat, building, wire, shown>>

\* The backend's process ends; recovery delivers again what was not marked.
RestartBackend ==
  /\ restarts < MaxRestarts /\ restarts' = restarts + 1
  /\ seat' = [s \in Sockets |-> IF seat[s] = "none" THEN "none" ELSE "gone"]
  /\ status' = [t \in Triggers |->
                  IF status[t] = "sending" THEN "pending" ELSE status[t]]
  /\ left' = [t \in Triggers |-> {}] /\ took' = {}
  /\ UNCHANGED <<world, sequence, stored, sock, building, current,
                 wire, mod>>

\* SessionCleanup deletes the commands' rows, not the deliveries under way.
CleanSession ==
  /\ restarts < MaxRestarts /\ restarts' = restarts + 1
  /\ stored' = [n \in Npcs |-> 0]
  /\ UNCHANGED <<world, status, sequence, left, took, network, mod>>

Deliver(t) == StartSend(t) \/ EndSend(t) \/ \E s \in Sockets : SendTo(t, s)

Next ==
  \/ \E n \in Npcs : Talk(n) \/ FireEvent(n)
  \/ \E t \in Triggers :
       \/ Store(t) \/ Expire(t) \/ Deliver(t)
       \/ \E s \in Sockets : SendFails(t, s)
  \/ \E s \in Sockets :
       \/ Connect(s) \/ Established(s)
       \/ Closed(s) \/ Leave(s) \/ Handle(s)
  \/ Disconnect \/ ReloadWorld \/ RestartBackend \/ CleanSession

Spec == Init /\ [][Next]_vars

-----------------------------------------------------------------------------
TypeOK ==
  /\ triggers \in Seq(TriggerRecords) /\ Len(triggers) <= MaxTriggers
  /\ talking \in TalkRecords
  /\ took \subseteq Triggers
  /\ status \in [Triggers -> Statuses]
  /\ sequence \in [Triggers -> Nat] /\ stored \in [Npcs -> Nat]
  /\ left \in [Triggers -> SUBSET Sockets]
  /\ seat \in [Sockets -> Seats] /\ sock \in [Sockets -> SockStates]
  /\ building \subseteq Sockets /\ current \in Sockets \cup {NoSocket}
  /\ wire \in [Sockets -> Seq(Triggers)]
  /\ appliedIds \in Seq(Triggers) /\ shown \in Seq(Triggers)
  /\ last \in [Npcs -> Nat]
  /\ run \in 0..Len(shown) /\ restarts \in 0..MaxRestarts

\* While the game server runs, an NPC acts on a command once and never on an
\* older one after a newer one: whatever is sent twice, on sockets the mod has
\* forgotten or again after a restart, and although the memory of command ids
\* is bounded (CommandAcceptanceTracker).
AppliedInOrder ==
  \A i, j \in 1..Len(shown) :
    run < i /\ i < j /\ triggers[shown[i]].npc = triggers[shown[j]].npc
      => sequence[shown[i]] < sequence[shown[j]]

\* The player never hears an answer to an earlier turn after the answer to a
\* later one, whoever of the villagers speaks, and not even when the world was
\* reloaded in between and the acceptance tracker forgot everything.
TurnsInOrder ==
  \A i, j \in 1..Len(shown) :
    i < j /\ triggers[shown[i]].kind = "turn" /\ triggers[shown[j]].kind = "turn"
      => shown[i] <= shown[j]
=============================================================================
