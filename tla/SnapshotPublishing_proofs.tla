---------------------- MODULE SnapshotPublishing_proofs ----------------------
(***************************************************************************)
(* Snapshots reach the backend's world state one at a time, none stranded  *)
(* and never backwards, for any number of pool threads and snapshots.      *)
(*                                                                         *)
(* Every number that left the mod is below the pending one, and sequences  *)
(* were given in the order of the numbers: that is why comparing sequences *)
(* keeps the world from going back.  While no send has failed, what is     *)
(* under way is what the flag's owner waits for: that is why the wire,     *)
(* which compares nothing, keeps up with the store.                        *)
(***************************************************************************)
EXTENDS SnapshotPublishing, TLAPS

OfSnapshots == {m \in net : m.kind = "snapshot"}

\* What has left the mod is older than what is pending, and was counted.
Sent ==
  /\ \A m \in net : m.sequence <= counter
  /\ retained.sequence <= counter
  /\ pending # NoSnapshot =>
       /\ pending.number \in 1..built
       /\ \A m \in OfSnapshots : m.snapshot.number < pending.number
       /\ retained.snapshot.number < pending.number
  /\ \A m \in OfSnapshots : m.snapshot.number \in 1..built
  /\ retained.snapshot.number <= built

\* Sequences follow the numbers.
Counted ==
  /\ \A m, o \in OfSnapshots :
       /\ m.sequence < o.sequence => m.snapshot.number < o.snapshot.number
       /\ m.sequence = o.sequence => m = o
  /\ \A m \in OfSnapshots :
       m.sequence > retained.sequence => m.snapshot.number > retained.snapshot.number

\* Without a failure, what is under way is waited for, and is news.
WaitedFor ==
  ~failed =>
    /\ \A m \in OfSnapshots :
         m.snapshot.number \in unanswered /\ m.sequence > retained.sequence
    /\ mirror.snapshot.number >= retained.snapshot.number

IInv == TypeOK /\ OneAtATime /\ NothingStranded /\ Sent /\ Counted /\ WaitedFor

\* What the records hold.
LEMMA Shapes ==
  ASSUME TypeOK
  PROVE  /\ built \in Nat /\ counter \in Nat
         /\ pending \in Snapshots /\ pending.number \in Nat
         /\ \A m \in net : m \in Messages /\ m.sequence \in Nat /\ m.snapshot.number \in Nat
         /\ retained.sequence \in Nat /\ retained.snapshot.number \in Nat
         /\ mirror.snapshot.number \in Nat
<1> USE PublishingAssumption
<1>1. built \in Nat /\ counter \in Nat /\ pending \in Snapshots
  BY DEF TypeOK
<1>2. \A s \in Snapshots : s.number \in Nat
  BY DEF Snapshots
<1>3. \A m \in net : m \in Messages
  BY DEF TypeOK
<1>4. \A m \in Messages : m.sequence \in Nat /\ m.snapshot \in Snapshots
  BY DEF Messages
<1>5. retained.sequence \in Nat /\ retained.snapshot \in Snapshots
  BY DEF TypeOK, Worlds
<1>6. mirror.snapshot \in Snapshots
  BY DEF TypeOK, Mirrors
<1> QED BY <1>1, <1>2, <1>3, <1>4, <1>5, <1>6

\* Nothing is built, sent or mirrored.
LEMMA InitIInv == Init => IInv
<1> SUFFICES ASSUME Init PROVE IInv OBVIOUS
<1> USE PublishingAssumption
<1>0. NoSnapshot \in Snapshots
  BY DEF NoSnapshot, Snapshots
<1>1. TypeOK
  <2>1. NoMirror \in Mirrors /\ NoWorld \in Worlds
    BY <1>0 DEF NoMirror, NoWorld, Mirrors, Worlds
  <2>2. at \in [Threads -> Places]
    BY DEF Init, Places
  <2>3. unanswered \subseteq 1..MaxBuilt /\ net \subseteq Messages /\ counter \in Nat
    BY DEF Init
  <2>4. pending \in Snapshots /\ mirror \in Mirrors /\ retained \in Worlds
    BY <1>0, <2>1, Zenon DEF Init
  <2>5. candidates \subseteq Npcs /\ built = 0 /\ spoken = 0 /\ forgets = 0
    BY DEF Init
  <2>6. inFlight \in BOOLEAN /\ failed \in BOOLEAN
    BY DEF Init
  <2> QED BY <2>2, <2>3, <2>4, <2>5, <2>6 DEF TypeOK
<1>2. OneAtATime /\ NothingStranded
  BY DEF Init, OneAtATime, NothingStranded, Owners
<1>3. Sent /\ Counted /\ WaitedFor
  BY DEF Init, Sent, Counted, WaitedFor, OfSnapshots, NoWorld, NoMirror, NoSnapshot
<1> QED BY <1>1, <1>2, <1>3 DEF IInv

\* The bounds speak of what has been sent and what is pending only.
LEMMA NothingSent ==
  ASSUME IInv, UNCHANGED <<built, pending, counter, net, retained>>
  PROVE  Sent' /\ Counted'
BY DEF IInv, Sent, Counted, OfSnapshots

\* Requests that wait keep waiting where the network and the answers stay.
LEMMA WaitedStays ==
  ASSUME IInv, UNCHANGED <<failed, net, unanswered, retained, mirror>>
  PROVE  WaitedFor'
BY DEF IInv, WaitedFor, OfSnapshots

\* A tick of the server thread replaces the pending snapshot, if it builds one.
LEMMA TickStep ==
  ASSUME IInv, NEW now \in [Npcs -> Distances], Track(now) \/ Tick(now)
  PROVE  IInv'
<1>1. TypeOK /\ OneAtATime /\ NothingStranded /\ Sent /\ Counted /\ WaitedFor
  BY DEF IInv
<1>2. CASE Track(now)
  <2>1. TypeOK'
    BY <1>1, <1>2 DEF Track, Tracked, TypeOK, threads, backend
  <2>2. OneAtATime' /\ NothingStranded'
    BY <1>1, <1>2 DEF Track, OneAtATime, NothingStranded, Owners, threads
  <2>3. Sent' /\ Counted' /\ WaitedFor'
    BY <1>2, NothingSent, WaitedStays DEF Track, threads, backend
  <2> QED BY <2>1, <2>2, <2>3 DEF IInv
<1>3. CASE Tick(now)
  <2>1. /\ at[ServerThread] = "away" /\ built < MaxBuilt /\ built' = built + 1
        /\ candidates' \subseteq Npcs
        /\ pending' = [number |-> built + 1, npcs |-> candidates']
        /\ at' = [at EXCEPT ![ServerThread] = "drain"]
        /\ UNCHANGED <<spoken, inFlight, unanswered, counter, net, failed, backend>>
    BY <1>3 DEF Tick, Tracked
  <2>2. built \in 0..MaxBuilt /\ MaxBuilt \in Nat /\ built' \in 0..MaxBuilt
    BY <1>1, <2>1, PublishingAssumption DEF TypeOK
  <2>3. pending' \in Snapshots
    BY <2>1, <2>2 DEF Snapshots
  <2>4. at \in [Threads -> Places] /\ at' \in [Threads -> Places] /\ ServerThread \in Threads
    BY <1>1, <2>1 DEF TypeOK, Places, Threads
  <2>5. TypeOK'
    BY <1>1, <2>1, <2>2, <2>3, <2>4 DEF TypeOK, backend
  <2>6. Owners' = Owners /\ at'[ServerThread] = "drain"
    BY <2>1, <2>4 DEF Owners
  <2>7. OneAtATime' /\ NothingStranded'
    BY <1>1, <2>1, <2>4, <2>6 DEF OneAtATime, NothingStranded
  <2>8. pending'.number = built + 1 /\ pending'.number \in Nat
    BY <2>1, <2>2
  <2>9. \A m \in net : m.snapshot.number \in Nat
    BY <1>1 DEF TypeOK, Messages, Snapshots
  <2>10. retained.snapshot.number \in Nat
    BY <1>1 DEF TypeOK, Worlds, Snapshots
  <2>11. Sent'
    BY <1>1, <2>1, <2>2, <2>8, <2>9, <2>10 DEF Sent, OfSnapshots, backend
  <2>12. Counted'
    BY <1>1, <2>1 DEF Counted, OfSnapshots, backend
  <2>13. WaitedFor'
    BY <2>1, WaitedStays DEF backend
  <2> QED BY <2>5, <2>7, <2>11, <2>12, <2>13 DEF IInv
<1> QED BY <1>2, <1>3

\* A turn takes the next sequence number, which no snapshot has.
LEMMA TalkStep ==
  ASSUME IInv, NEW n \in Npcs, Talk(n)
  PROVE  IInv'
<1> DEFINE turn == Message("turn", counter + 1, NoSnapshot, n)
<1>1. TypeOK /\ OneAtATime /\ NothingStranded /\ Sent /\ Counted /\ WaitedFor
  BY DEF IInv
<1>2. /\ counter' = counter + 1 /\ net' = net \cup {turn} /\ spoken' \in 0..MaxTurns
      /\ UNCHANGED <<game, threads, backend>> /\ counter \in Nat
  BY <1>1, PublishingAssumption DEF Talk, TypeOK
<1>3. turn \in Messages /\ turn.kind = "turn" /\ turn.sequence = counter + 1
  BY <1>2, PublishingAssumption DEF Message, Messages, NoSnapshot, Snapshots
<1>4. TypeOK'
  BY <1>1, <1>2, <1>3 DEF TypeOK, game, threads, backend
<1>5. OfSnapshots' = OfSnapshots
  BY <1>2, <1>3 DEF OfSnapshots
<1>6. OneAtATime' /\ NothingStranded'
  BY <1>1, <1>2 DEF OneAtATime, NothingStranded, Owners, threads
<1>7. \A m \in net : m.sequence \in Nat
  BY <1>1 DEF TypeOK, Messages
<1>8. retained.sequence \in Nat
  BY <1>1 DEF TypeOK, Worlds
<1>9. Sent'
  BY <1>1, <1>2, <1>3, <1>5, <1>7, <1>8 DEF Sent, game, threads, backend
<1>10. Counted' /\ WaitedFor'
  BY <1>1, <1>2, <1>5 DEF Counted, WaitedFor, threads, backend
<1> QED BY <1>4, <1>6, <1>9, <1>10 DEF IInv

\* A thread that has the flag is the only owner.
LEMMA SoleOwner ==
  ASSUME IInv, NEW p \in Threads, at[p] \in {"take", "release"}
  PROVE  inFlight /\ Owners = {p} /\ unanswered = {}
<1>1. p \in Owners
  BY DEF Owners
<1> QED BY <1>1 DEF IInv, OneAtATime

\* Where a thread may be next.
LEMMA Moved ==
  ASSUME IInv, NEW p \in Threads, NEW place \in Places, Go(p, place)
  PROVE  /\ at' \in [Threads -> Places] /\ at'[p] = place
         /\ Owners' = IF place \in {"take", "release"} THEN Owners \cup {p} ELSE Owners \ {p}
<1>1. at \in [Threads -> Places]
  BY DEF IInv, TypeOK
<1>2. at' = [at EXCEPT ![p] = place]
  BY DEF Go
<1> QED BY <1>1, <1>2 DEF Owners

\* A drain that finds the sender free becomes the one owner.
LEMMA DrainStep ==
  ASSUME IInv, NEW p \in Threads, Drain(p)
  PROVE  IInv'
<1> DEFINE place == IF inFlight THEN "away" ELSE "take"
<1>1. TypeOK /\ OneAtATime
  BY DEF IInv
<1>2. /\ at[p] = "drain" /\ inFlight' = TRUE /\ Go(p, place)
      /\ UNCHANGED <<game, spoken, pending, unanswered, counter, net, failed, backend>>
  BY DEF Drain
<1>3. place \in Places /\ p \notin Owners /\ inFlight \in BOOLEAN
  BY <1>1, <1>2 DEF Places, Owners, TypeOK
<1>4. /\ at' \in [Threads -> Places]
      /\ Owners' = IF inFlight THEN Owners ELSE Owners \cup {p}
  BY <1>2, <1>3, Moved
<1>5. TypeOK'
  BY <1>1, <1>2, <1>4 DEF TypeOK, game, backend
<1>6. OneAtATime' /\ NothingStranded'
  BY <1>1, <1>2, <1>3, <1>4 DEF OneAtATime, NothingStranded
<1>7. Sent' /\ Counted' /\ WaitedFor'
  BY <1>2, NothingSent, WaitedStays DEF game, backend
<1> QED BY <1>5, <1>6, <1>7 DEF IInv

\* The owner gives the sender up and goes to look once more.
LEMMA ReleaseStep ==
  ASSUME IInv, NEW p \in Threads, Release(p)
  PROVE  IInv'
<1>1. TypeOK
  BY DEF IInv
<1>2. /\ at[p] = "release" /\ inFlight' = FALSE /\ Go(p, "recheck")
      /\ UNCHANGED <<game, spoken, pending, unanswered, counter, net, failed, backend>>
  BY DEF Release
<1>3. Owners = {p} /\ unanswered = {}
  BY <1>2, SoleOwner
<1>4. at' \in [Threads -> Places] /\ at'[p] = "recheck" /\ Owners' = {}
  BY <1>2, <1>3, Moved DEF Places
<1>5. TypeOK'
  BY <1>1, <1>2, <1>4 DEF TypeOK, game, backend
<1>6. OneAtATime' /\ NothingStranded'
  BY <1>2, <1>3, <1>4 DEF OneAtATime, NothingStranded
<1>7. Sent' /\ Counted' /\ WaitedFor'
  BY <1>2, NothingSent, WaitedStays DEF game, backend
<1> QED BY <1>5, <1>6, <1>7 DEF IInv

\* A thread that released drains again if a snapshot came in between.
LEMMA RecheckStep ==
  ASSUME IInv, NEW p \in Threads, Recheck(p)
  PROVE  IInv'
<1> DEFINE place == IF pending = NoSnapshot THEN "away" ELSE "drain"
<1>1. TypeOK /\ OneAtATime
  BY DEF IInv
<1>2. /\ at[p] = "recheck" /\ Go(p, place)
      /\ UNCHANGED <<game, spoken, pending, inFlight, unanswered, counter, net, failed, backend>>
  BY DEF Recheck
<1>3. place \in Places /\ place \notin {"take", "release"} /\ p \notin Owners
  BY <1>2 DEF Places, Owners
<1>4. at' \in [Threads -> Places] /\ at'[p] = place /\ Owners' = Owners
  BY <1>2, <1>3, Moved
<1>5. TypeOK'
  BY <1>1, <1>2, <1>4 DEF TypeOK, game, backend
<1>6. OneAtATime'
  BY <1>1, <1>2, <1>4 DEF OneAtATime
<1>7. NothingStranded'
  BY <1>2, <1>4 DEF NothingStranded
<1>8. Sent' /\ Counted' /\ WaitedFor'
  BY <1>2, NothingSent, WaitedStays DEF game, backend
<1> QED BY <1>5, <1>6, <1>7, <1>8 DEF IInv

\* The answer makes a pool thread the owner again.
LEMMA CompleteStep ==
  ASSUME IInv, NEW p \in Threads, NEW k \in unanswered, Complete(p, k)
  PROVE  IInv'
<1>1. TypeOK /\ OneAtATime /\ WaitedFor
  BY DEF IInv
<1>2. /\ at[p] = "away" /\ Go(p, "take") /\ unanswered' = unanswered \ {k}
      /\ failed' = (failed \/ \E m \in net : m.snapshot.number = k)
      /\ UNCHANGED <<game, spoken, pending, inFlight, counter, net, backend>>
  BY DEF Complete
<1>3. inFlight /\ Owners = {} /\ unanswered = {k}
  BY <1>1 DEF OneAtATime
<1>4. at' \in [Threads -> Places] /\ Owners' = {p}
  BY <1>2, <1>3, Moved DEF Places
<1>5. TypeOK'
  BY <1>1, <1>2, <1>4 DEF TypeOK, game, backend
<1>6. OneAtATime' /\ NothingStranded'
  BY <1>2, <1>3, <1>4 DEF OneAtATime, NothingStranded
<1>7. Sent' /\ Counted'
  BY <1>2, NothingSent DEF game, backend
<1>8. WaitedFor'
  <2> SUFFICES ASSUME ~failed' PROVE OfSnapshots = {} /\ ~failed
    BY <1>1, <1>2 DEF WaitedFor, OfSnapshots, backend
  <2>1. ~failed /\ \A m \in net : m.snapshot.number # k
    BY <1>1, <1>2 DEF TypeOK
  <2> QED BY <1>1, <1>3, <2>1 DEF WaitedFor, OfSnapshots
<1> QED BY <1>5, <1>6, <1>7, <1>8 DEF IInv

\* The owner takes the pending snapshot and numbers it.
LEMMA TakeStep ==
  ASSUME IInv, NEW p \in Threads, Take(p)
  PROVE  IInv'
<1>1. TypeOK /\ Sent /\ Counted /\ WaitedFor
  BY DEF IInv
<1>2. /\ at[p] = "take" /\ pending' = NoSnapshot
      /\ UNCHANGED <<game, spoken, inFlight, failed, backend>>
  BY DEF Take
<1>3. inFlight /\ Owners = {p} /\ unanswered = {}
  BY <1>2, SoleOwner
<1>4. NothingStranded'
  BY <1>2 DEF NothingStranded
<1>5. NoSnapshot \in Snapshots
  BY PublishingAssumption DEF NoSnapshot, Snapshots
<1>6. CASE pending = NoSnapshot /\ Go(p, "release") /\ UNCHANGED <<unanswered, counter, net>>
  <2>1. at' \in [Threads -> Places] /\ Owners' = {p}
    BY <1>3, <1>6, Moved DEF Places
  <2>2. TypeOK'
    BY <1>1, <1>2, <1>5, <1>6, <2>1 DEF TypeOK, game, backend
  <2>3. OneAtATime'
    BY <1>2, <1>3, <1>6, <2>1 DEF OneAtATime
  <2>4. Sent' /\ Counted' /\ WaitedFor'
    BY <1>2, <1>6, NothingSent, WaitedStays DEF game, backend
  <2> QED BY <1>4, <2>2, <2>3, <2>4 DEF IInv
<1>7. CASE /\ pending # NoSnapshot /\ Go(p, "away")
           /\ unanswered' = unanswered \cup {pending.number}
           /\ counter' = counter + 1
           /\ net' = net \cup {Message("snapshot", counter + 1, pending, NoNpc)}
  <2> DEFINE sent == Message("snapshot", counter + 1, pending, NoNpc)
  <2>1. /\ counter \in Nat /\ built \in Nat /\ pending \in Snapshots
        /\ \A m \in net : m.sequence \in Nat /\ m.snapshot.number \in Nat
        /\ retained.sequence \in Nat /\ retained.snapshot.number \in Nat
        /\ mirror.snapshot.number \in Nat
    BY <1>1, Shapes
  <2>2. /\ sent.kind = "snapshot" /\ sent.sequence = counter + 1
        /\ sent.snapshot = pending /\ sent \in Messages
    BY <2>1 DEF Message, Messages
  <2>3. pending.number \in 1..built /\ pending.number \in 1..MaxBuilt
    BY <1>1, <1>7, PublishingAssumption DEF Sent, TypeOK
  <2>4. at' \in [Threads -> Places] /\ Owners' = {}
    BY <1>3, <1>7, Moved DEF Places
  <2>5. unanswered' = {pending.number}
    BY <1>3, <1>7
  <2>6. TypeOK'
    BY <1>1, <1>2, <1>5, <1>7, <2>1, <2>2, <2>3, <2>4, <2>5 DEF TypeOK, game, backend
  <2>7. OneAtATime'
    BY <1>2, <1>3, <2>3, <2>4, <2>5 DEF OneAtATime
  <2>8. OfSnapshots' = OfSnapshots \cup {sent}
    BY <1>7, <2>2 DEF OfSnapshots
  <2>9. /\ \A m \in net : m.sequence <= counter
        /\ retained.sequence <= counter /\ retained.snapshot.number < pending.number
        /\ \A m \in OfSnapshots : m \in net /\ m.snapshot.number < pending.number
    BY <1>1, <1>7 DEF Sent, OfSnapshots
  <2>10. Sent'
    <3>1. /\ \A m \in net' : m.sequence <= counter'
          /\ retained'.sequence <= counter'
      BY <1>2, <1>7, <2>1, <2>2, <2>9 DEF backend
    <3>2. \A m \in OfSnapshots' : m.snapshot.number \in 1..built'
      BY <1>1, <1>2, <2>2, <2>3, <2>8 DEF Sent, game
    <3>3. retained'.snapshot.number <= built'
      BY <1>1, <1>2 DEF Sent, game, backend
    <3> QED BY <1>2, <3>1, <3>2, <3>3 DEF Sent
  <2>11. Counted'
    BY <1>1, <1>2, <2>1, <2>2, <2>3, <2>8, <2>9 DEF Counted, backend
  <2>12. WaitedFor'
    <3> SUFFICES ASSUME ~failed'
                 PROVE  /\ \A m \in OfSnapshots' :
                             m.snapshot.number \in unanswered' /\ m.sequence > retained.sequence
                        /\ mirror.snapshot.number >= retained.snapshot.number
      BY <1>2 DEF WaitedFor, backend
    <3>1. OfSnapshots = {} /\ mirror.snapshot.number >= retained.snapshot.number
      BY <1>1, <1>2, <1>3 DEF WaitedFor
    <3> QED BY <2>1, <2>2, <2>5, <2>8, <2>9, <3>1
  <2> QED BY <1>4, <2>6, <2>7, <2>10, <2>11, <2>12 DEF IInv
<1> QED BY <1>6, <1>7 DEF Take

\* What the backend does disturbs neither the flag nor its threads.
LEMMA Unthreaded ==
  ASSUME IInv, UNCHANGED <<pending, inFlight, at, unanswered>>
  PROVE  OneAtATime' /\ NothingStranded'
BY DEF IInv, OneAtATime, NothingStranded, Owners

\* The backend takes a message, newer than what it retains or not.
LEMMA ArriveStep ==
  ASSUME IInv, NEW m \in net, Arrive(m)
  PROVE  IInv'
<1>1. TypeOK /\ Sent /\ Counted /\ WaitedFor
  BY DEF IInv
<1>2. net' = net \ {m} /\ UNCHANGED <<game, spoken, threads, counter, forgets>>
  BY DEF Arrive
<1>3. OneAtATime' /\ NothingStranded'
  BY <1>2, Unthreaded DEF threads
<1>4. /\ m \in Messages /\ counter \in Nat /\ built \in Nat
      /\ \A o \in net : o.sequence \in Nat /\ o.snapshot.number \in Nat
      /\ retained.sequence \in Nat /\ retained.snapshot.number \in Nat
      /\ mirror.snapshot.number \in Nat
  BY <1>1, Shapes
<1>5. /\ mirror \in Mirrors /\ retained \in Worlds
      /\ m.npc \in Npcs \cup {NoNpc} /\ m.snapshot \in Snapshots /\ m.sequence \in Nat
  BY <1>1, <1>4 DEF TypeOK, Messages
<1>6. OfSnapshots' = OfSnapshots \ {m}
  BY <1>2 DEF OfSnapshots
<1>7. CASE TurnArrives(m)
  <2>1. m.kind = "turn" /\ mirror' = [mirror EXCEPT !.talking = m.npc] /\ retained' = retained
    BY <1>7 DEF TurnArrives
  <2>2. mirror' \in Mirrors /\ mirror'.snapshot = mirror.snapshot
    BY <1>5, <2>1 DEF Mirrors
  <2>3. TypeOK'
    BY <1>1, <1>2, <2>1, <2>2 DEF TypeOK, game, threads
  <2>4. Sent' /\ Counted'
    BY <1>1, <1>2, <1>6, <2>1 DEF Sent, Counted, OfSnapshots, game, threads
  <2>5. WaitedFor'
    BY <1>1, <1>2, <1>6, <2>1, <2>2 DEF WaitedFor, threads
  <2> QED BY <1>3, <2>3, <2>4, <2>5 DEF IInv
<1>8. CASE SnapshotArrives(m)
  <2> DEFINE news == [sequence |-> m.sequence, snapshot |-> m.snapshot,
                      talking |-> ActiveConversation(m.snapshot.npcs)]
  <2>1. /\ m.kind = "snapshot" /\ m \in OfSnapshots
        /\ mirror' = [mirror EXCEPT !.snapshot = m.snapshot]
        /\ retained' = IF IsNewer(m) THEN news ELSE retained
    BY <1>8 DEF SnapshotArrives, OfSnapshots
  <2>2. mirror' \in Mirrors /\ mirror'.snapshot = m.snapshot
    BY <1>5, <2>1 DEF Mirrors
  <2>3. ActiveConversation(m.snapshot.npcs) \in Npcs \cup {NoNpc}
    BY <1>5 DEF ActiveConversation, Mirrors
  <2>4. news \in Worlds /\ retained' \in Worlds
    BY <1>5, <2>1, <2>3 DEF Worlds
  <2>5. TypeOK'
    BY <1>1, <1>2, <2>2, <2>4 DEF TypeOK, game, threads
  <2>6. IsNewer(m) => retained'.sequence = m.sequence /\ retained'.snapshot = m.snapshot
    BY <2>1
  <2>7. ~IsNewer(m) => retained' = retained
    BY <2>1
  <2>8. Sent'
    <3>1. \A o \in net' : o.sequence <= counter'
      BY <1>1, <1>2 DEF Sent
    <3>2. retained'.sequence <= counter' /\ retained'.snapshot.number <= built'
      BY <1>1, <1>2, <1>4, <2>1, <2>6, <2>7 DEF Sent, game
    <3>3. \A o \in OfSnapshots' : o.snapshot.number \in 1..built'
      BY <1>1, <1>2, <1>6 DEF Sent, game
    <3>4. ASSUME pending' # NoSnapshot
          PROVE  /\ pending'.number \in 1..built'
                 /\ \A o \in OfSnapshots' : o.snapshot.number < pending'.number
                 /\ retained'.snapshot.number < pending'.number
      BY <1>1, <1>2, <1>6, <2>1, <2>6, <2>7, <3>4 DEF Sent, game, threads
    <3> QED BY <3>1, <3>2, <3>3, <3>4 DEF Sent
  <2>9. Counted'
    <3>1. ASSUME NEW o \in OfSnapshots', o.sequence > retained'.sequence
          PROVE  o.snapshot.number > retained'.snapshot.number
      <4>1. o \in OfSnapshots
        BY <1>6
      <4>2. CASE IsNewer(m)
        BY <1>1, <2>1, <2>6, <3>1, <4>1, <4>2 DEF Counted
      <4>3. CASE ~IsNewer(m)
        BY <1>1, <2>7, <3>1, <4>1, <4>3 DEF Counted
      <4> QED BY <4>2, <4>3
    <3>2. \A o, q \in OfSnapshots' :
             /\ o.sequence < q.sequence => o.snapshot.number < q.snapshot.number
             /\ o.sequence = q.sequence => o = q
      BY <1>1, <1>6 DEF Counted
    <3> QED BY <3>1, <3>2 DEF Counted
  <2>10. WaitedFor'
    <3> SUFFICES ASSUME ~failed
                 PROVE  /\ \A o \in OfSnapshots' :
                             o.snapshot.number \in unanswered /\ o.sequence > retained'.sequence
                        /\ mirror'.snapshot.number >= retained'.snapshot.number
      BY <1>2 DEF WaitedFor, threads
    <3>1. \A o \in OfSnapshots :
             o.snapshot.number \in unanswered /\ o.sequence > retained.sequence
      BY <1>1 DEF WaitedFor
    <3>2. IsNewer(m)
      BY <2>1, <3>1 DEF IsNewer
    <3>3. \A o \in OfSnapshots : o = m
      <4>1. \A o \in OfSnapshots : o.snapshot.number = m.snapshot.number
        BY <1>1, <2>1, <3>1 DEF IInv, OneAtATime
      <4>2. \A o \in OfSnapshots : o \in net
        BY DEF OfSnapshots
      <4> QED BY <1>1, <1>4, <2>1, <4>1, <4>2 DEF Counted
    <3> QED BY <1>4, <1>6, <2>2, <2>6, <3>2, <3>3
  <2> QED BY <1>3, <2>5, <2>8, <2>9, <2>10 DEF IInv
<1> QED BY <1>7, <1>8 DEF Arrive

\* A request that is lost has failed, if it carried a snapshot.
LEMMA LoseStep ==
  ASSUME IInv, NEW m \in net, Lose(m)
  PROVE  IInv'
<1>1. TypeOK /\ Sent /\ Counted /\ WaitedFor
  BY DEF IInv
<1>2. /\ net' = net \ {m} /\ failed' = (failed \/ m.kind = "snapshot")
      /\ UNCHANGED <<game, spoken, pending, inFlight, at, unanswered, counter, backend>>
  BY DEF Lose
<1>3. TypeOK'
  BY <1>1, <1>2 DEF TypeOK, game, backend
<1>4. OneAtATime' /\ NothingStranded'
  BY <1>2, Unthreaded
<1>5. OfSnapshots' = OfSnapshots \ {m}
  BY <1>2 DEF OfSnapshots
<1>6. Sent' /\ Counted' /\ WaitedFor'
  BY <1>1, <1>2, <1>5 DEF Sent, Counted, WaitedFor, TypeOK, game, backend
<1> QED BY <1>3, <1>4, <1>6 DEF IInv

\* A cleanup or a restart forgets the world.
LEMMA ForgetStep ==
  ASSUME IInv, Forget
  PROVE  IInv'
<1>1. TypeOK /\ Sent /\ Counted /\ WaitedFor
  BY DEF IInv
<1>2. /\ forgets' \in 0..MaxForgets /\ retained' = NoWorld /\ mirror' \in {mirror, NoMirror}
      /\ UNCHANGED <<game, spoken, threads, counter, net>>
  BY <1>1, PublishingAssumption DEF Forget, TypeOK
<1>3. NoSnapshot \in Snapshots /\ NoSnapshot.number = 0
  BY PublishingAssumption DEF NoSnapshot, Snapshots
<1>4. /\ NoWorld \in Worlds /\ NoMirror \in Mirrors
      /\ NoWorld.sequence = 0 /\ NoWorld.snapshot = NoSnapshot /\ NoMirror.snapshot = NoSnapshot
  BY <1>3 DEF NoWorld, NoMirror, Worlds, Mirrors
<1>5. mirror' \in Mirrors
  BY <1>1, <1>2, <1>4 DEF TypeOK
<1>6. TypeOK'
  BY <1>1, <1>2, <1>4, <1>5 DEF TypeOK, game, threads
<1>7. OneAtATime' /\ NothingStranded'
  BY <1>2, Unthreaded DEF threads
<1>8. /\ counter \in Nat /\ built \in Nat /\ mirror.snapshot.number \in Nat
      /\ \A m \in net : m.sequence \in Nat /\ m.snapshot.number \in Nat
  BY <1>1, Shapes
<1>9. OfSnapshots' = OfSnapshots /\ \A m \in OfSnapshots : m \in net
  BY <1>2 DEF OfSnapshots
<1>10. Sent'
  BY <1>1, <1>2, <1>3, <1>4, <1>8, <1>9 DEF Sent, game, threads
<1>11. Counted'
  BY <1>1, <1>2, <1>3, <1>4, <1>8, <1>9 DEF Sent, Counted
<1>12. WaitedFor'
  <2>1. mirror'.snapshot.number >= retained'.snapshot.number
    BY <1>2, <1>3, <1>4, <1>8
  <2>2. ~failed' => \A m \in OfSnapshots' :
                      m.snapshot.number \in unanswered' /\ m.sequence > retained'.sequence
    <3>1. retained'.sequence = 0 /\ failed' = failed /\ unanswered' = unanswered
      BY <1>2, <1>4 DEF threads
    <3>2. ~failed => \A m \in OfSnapshots :
                       m.snapshot.number \in unanswered /\ m.sequence > retained.sequence
      BY <1>1 DEF WaitedFor
    <3>3. retained.sequence \in Nat
      BY <1>1, Shapes
    <3> QED BY <1>8, <1>9, <3>1, <3>2, <3>3
  <2> QED BY <2>1, <2>2 DEF WaitedFor
<1> QED BY <1>6, <1>7, <1>10, <1>11, <1>12 DEF IInv

\* Every step keeps the invariant: one case per action.
LEMMA IInvIsInductive == IInv /\ [Next]_vars => IInv'
<1> SUFFICES ASSUME IInv, [Next]_vars PROVE IInv'
  OBVIOUS
<1>1. ASSUME NEW now \in [Npcs -> Distances], Track(now) \/ Tick(now) PROVE IInv'
  BY <1>1, TickStep
<1>2. ASSUME NEW n \in Npcs, Talk(n) PROVE IInv'
  BY <1>2, TalkStep
<1>3. ASSUME NEW p \in Threads, Continue(p) PROVE IInv'
  BY <1>3, DrainStep, TakeStep, ReleaseStep, RecheckStep DEF Continue
<1>4. ASSUME NEW p \in Threads, NEW k \in unanswered, Complete(p, k) PROVE IInv'
  BY <1>4, CompleteStep
<1>5. ASSUME NEW m \in net, Arrive(m) \/ Lose(m) PROVE IInv'
  BY <1>5, ArriveStep, LoseStep
<1>6. CASE Forget
  BY <1>6, ForgetStep
<1>7. CASE UNCHANGED vars
  <2>1. /\ UNCHANGED <<candidates, built, spoken, pending, inFlight, at, unanswered, failed>>
        /\ UNCHANGED <<counter, net, mirror, retained, forgets>>
    BY <1>7 DEF vars, game, threads, backend
  <2>2. TypeOK'
    BY <2>1 DEF IInv, TypeOK
  <2> QED BY <2>1, <2>2, Unthreaded, NothingSent, WaitedStays DEF IInv
<1> QED BY <1>1, <1>2, <1>3, <1>4, <1>5, <1>6, <1>7 DEF Next

\* The invariant holds in every reachable state.
LEMMA SpecIInv == Spec => []IInv
BY InitIInv, IInvIsInductive, PTL DEF Spec

\* HttpPublisher keeps one snapshot under way for the mod at a time, whichever
\* threads meet in drainSnapshots and sendNextSnapshot.
THEOREM SnapshotsOneAtATime == Spec => []OneAtATime
<1>1. IInv => OneAtATime
  BY DEF IInv
<1> QED BY <1>1, SpecIInv, PTL

\* The snapshot that waits in HttpPublisher is never forgotten.
THEOREM PendingIsSeen == Spec => []NothingStranded
<1>1. IInv => NothingStranded
  BY DEF IInv
<1> QED BY <1>1, SpecIInv, PTL

\* The wire's mirror keeps up with the world state while no send fails.
THEOREM MirrorKeepsUp == Spec => []PlacedByTheWorld
<1>1. IInv => PlacedByTheWorld
  BY DEF IInv, WaitedFor, PlacedByTheWorld
<1> QED BY <1>1, SpecIInv, PTL

\* WorldStateStore.apply_if_newer never takes the world back to an older
\* observation, in whatever order the requests arrive.
THEOREM WorldNeverGoesBack == Spec => WorldGoesForward
<1> DEFINE Onward == retained' # NoWorld => retained'.snapshot.number >= retained.snapshot.number
<1>1. IInv /\ [Next]_vars => [Onward]_vars
  <2> SUFFICES ASSUME IInv, Next, retained' # NoWorld
               PROVE  retained'.snapshot.number >= retained.snapshot.number
    OBVIOUS
  <2>1. TypeOK /\ Counted
    BY DEF IInv
  <2>2. /\ retained.snapshot.number \in Nat /\ retained.sequence \in Nat
        /\ \A m \in net : m.snapshot.number \in Nat /\ m.sequence \in Nat
    BY <2>1, Shapes
  <2>3. CASE retained' = retained
    BY <2>2, <2>3
  <2>4. ASSUME NEW m \in net, SnapshotArrives(m), retained' # retained
        PROVE  retained'.snapshot.number >= retained.snapshot.number
    <3>1. IsNewer(m) /\ retained'.snapshot = m.snapshot /\ m \in OfSnapshots
      BY <2>4 DEF SnapshotArrives, OfSnapshots
    <3> QED BY <2>1, <2>2, <3>1 DEF Counted, IsNewer
  <2>5. retained' = retained \/ \E m \in net : SnapshotArrives(m)
    BY DEF Next, Track, Tick, Talk, Continue, Drain, Take, Release, Recheck, Complete,
           Arrive, TurnArrives, Lose, Forget, backend
  <2> QED BY <2>3, <2>4, <2>5
<1> QED BY <1>1, SpecIInv, PTL DEF Spec, WorldGoesForward
=============================================================================
