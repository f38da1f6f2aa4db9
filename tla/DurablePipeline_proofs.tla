------------------------ MODULE DurablePipeline_proofs ------------------------
(***************************************************************************)
(* What survives the crashes of the pipeline, for any number of NPCs, keys *)
(* and crashes.                                                            *)
(*                                                                         *)
(* Everything rests on what a task's place says of the rows of its key     *)
(* (StepFits) and on what is left for each phase of recovery to do         *)
(* (PhaseFits): a call or command that is outstanding is the only one of   *)
(* its NPC, and once intake is open the NPC's own task is working on it.   *)
(* From it follow the numbering (a pending command is the newest of its    *)
(* NPC), hence the order in which commands are handed to the transport,    *)
(* and that every step is one of TriggerAnswer's or changes nothing it     *)
(* speaks of.                                                              *)
(***************************************************************************)
EXTENDS DurablePipeline, TLAPS, FiniteSetTheorems

\* The rows of a key: nothing before its claim, no command before its call is
\* resolved.
RowsAgree ==
  \A k \in Keys :
    /\ k \notin claims => attempts[k] = "none" /\ status[k] = "none" /\ calls[k] = 0
    /\ attempts[k] = "attempted" => status[k] = "none"

Isolated == {"claiming", "opening", "composing", "rechecking", "storing"}
Calling  == {"calling", "waiting", "closing"}
Sending  == {"sending", "marking"}
Numbered == {"rechecking", "storing"}

\* What a task's place says of the rows of its key, and of its NPC's others.
StepFits ==
  \A n \in Npcs : job[n] # NoKey =>
    /\ NpcOf[job[n]] = n
    /\ step[n] # "claiming" => job[n] \in claims
    /\ step[n] \in {"opening", "calling"} => calls[job[n]] = 0
    /\ step[n] \in Isolated \ {"claiming"} => status[job[n]] = "none"
    /\ step[n] = "opening" => attempts[job[n]] = "none"
    /\ step[n] \in Calling => attempts[job[n]] = "attempted"
    /\ step[n] \in Sending => status[job[n]] = "pending"
    /\ step[n] \in Isolated => Outstanding(n) = {}

OneOutstanding == \A n \in Npcs : \A j, k \in Outstanding(n) : j = k

\* What is outstanding in each phase is still to do, or being done.
PhaseFits ==
  /\ \A n \in Npcs : job[n] \notin todo
  /\ mode = "down" => AllIdle
  /\ mode = "answering" =>
       /\ \A n \in Npcs : step[n] \notin {"claiming", "opening", "calling", "waiting", "rechecking"}
       /\ todo \subseteq Unresolved
       /\ \A k \in Unresolved : k \in todo \/ job[NpcOf[k]] = k
  /\ mode = "republishing" =>
       /\ \A n \in Npcs : step[n] \in Sending \cup {"idle"}
       /\ todo \subseteq Unpublished
       /\ Unresolved = {}
       /\ \A k \in Unpublished : k \in todo \/ job[NpcOf[k]] = k
  /\ mode = "running" =>
       todo = {} /\ \A n \in Npcs : job[n] = NoKey => Outstanding(n) = {}

\* The sequences stored for an NPC.
Taken(n) == {0} \cup {sequence[k] : k \in {j \in KeysFor(n) : status[j] # "none"}}

\* A new number is above all stored ones until it is stored itself; what is
\* pending has the newest; Minecraft saw none that was not stored.
NumbersRise ==
  \A n \in Npcs :
    /\ \E m \in Taken(n) : \A x \in Taken(n) : m >= x
    /\ lastHanded[n] \in Taken(n)
    /\ job[n] # NoKey /\ step[n] \in Numbered => \A x \in Taken(n) : sequence[job[n]] > x
    /\ \A k \in KeysFor(n) : status[k] = "pending" => \A x \in Taken(n) : sequence[k] >= x

IInv == TypeOK /\ RowsAgree /\ StepFits /\ OneOutstanding /\ PhaseFits /\ NumbersRise

\* Nothing is claimed, stored or in progress.
LEMMA InitIInv == Init => IInv
<1> SUFFICES ASSUME Init PROVE IInv OBVIOUS
<1> USE PipelineAssumption DEF Init
<1>1. TypeOK
  BY DEF TypeOK, Steps
<1>2. RowsAgree /\ StepFits
  BY DEF RowsAgree, StepFits
<1>3. OneOutstanding /\ PhaseFits
  BY DEF OneOutstanding, PhaseFits, Outstanding, Unresolved, Unpublished, AllIdle
<1>4. NumbersRise
  <2>1. \A n \in Npcs : \A k \in KeysFor(n) : status[k] = "none"
    BY DEF KeysFor
  <2>2. \A n \in Npcs : Taken(n) = {0}
    BY <2>1 DEF Taken
  <2> QED BY <2>1, <2>2 DEF NumbersRise
<1> QED BY <1>1, <1>2, <1>3, <1>4 DEF IInv

-----------------------------------------------------------------------------
(* The numbering.                                                          *)

\* A new command is numbered above every stored one of its NPC.
LEMMA NextIsNewest ==
  ASSUME IInv, NEW n \in Npcs
  PROVE  NextSequence(n) \in Nat /\ \A x \in Taken(n) : NextSequence(n) > x
<1>1. PICK m \in Taken(n) : \A x \in Taken(n) : m >= x
  BY DEF IInv, NumbersRise
<1>2. Taken(n) \subseteq Nat
  BY DEF IInv, TypeOK, Taken, KeysFor
<1>3. Max(Taken(n)) \in Taken(n) /\ \A x \in Taken(n) : Max(Taken(n)) >= x
  BY <1>1 DEF Max
<1>4. NextSequence(n) = 1 + Max(Taken(n))
  BY DEF NextSequence, Taken
<1> QED BY <1>2, <1>3, <1>4

\* What is stored and what was seen stay as they are, nothing becomes pending,
\* and no task takes a number.
LEMMA KeepsNumbers ==
  ASSUME IInv, UNCHANGED <<sequence, lastHanded>>,
         \A k \in Keys : /\ status'[k] = "none" <=> status[k] = "none"
                         /\ status'[k] = "pending" => status[k] = "pending",
         \A n \in Npcs : job'[n] # NoKey /\ step'[n] \in Numbered =>
                           job'[n] = job[n] /\ step[n] \in Numbered
  PROVE  NumbersRise'
<1>1. \A n \in Npcs : Taken(n)' = Taken(n)
  BY DEF Taken, KeysFor
<1> QED BY <1>1 DEF IInv, NumbersRise, KeysFor

\* An NPC without a task has nothing outstanding when one begins.
LEMMA BeginStep == ASSUME IInv, NEW k \in Keys, Begin(k) PROVE IInv'
<1> USE PipelineAssumption DEF IInv, Begin, durable, outside, At, Goto, Finish, Assign
<1>1. TypeOK'
  BY DEF TypeOK, Steps
<1>2. RowsAgree'
  BY DEF TypeOK, RowsAgree, Sending
<1>3. StepFits'
  BY DEF TypeOK, RowsAgree, StepFits, PhaseFits, Calling, Sending, Outstanding,
     Unresolved, Unpublished
<1>4. OneOutstanding'
  BY DEF TypeOK, OneOutstanding, StepFits, Sending, Isolated, Outstanding,
     Unresolved, Unpublished
<1>5. PhaseFits'
  BY DEF TypeOK, RowsAgree, OneOutstanding, PhaseFits, AllIdle, Calling, Isolated,
     Outstanding, KeysFor, Unresolved, Unpublished
<1>6. NumbersRise'
  BY KeepsNumbers DEF TypeOK, Numbered
<1> QED BY <1>1, <1>2, <1>3, <1>4, <1>5, <1>6

\* Time passes: a lifetime ends, and no row changes.
LEMMA LapseStep == ASSUME IInv, NEW k \in Keys, Lapse(k) PROVE IInv'
<1> USE PipelineAssumption DEF IInv, Lapse, durable, outside, At, Goto, Finish, Assign
<1>1. TypeOK'
  BY DEF TypeOK
<1>2. RowsAgree'
  BY DEF TypeOK, RowsAgree
<1>3. StepFits'
  BY DEF TypeOK, RowsAgree, StepFits, Outstanding, Unresolved, Unpublished
<1>4. OneOutstanding'
  BY DEF OneOutstanding, StepFits, Outstanding, Unresolved, Unpublished
<1>5. PhaseFits'
  BY DEF RowsAgree, OneOutstanding, PhaseFits, AllIdle, Calling, Isolated,
     Outstanding, KeysFor, Unresolved, Unpublished
<1>6. NumbersRise'
  BY KeepsNumbers DEF Numbered
<1> QED BY <1>1, <1>2, <1>3, <1>4, <1>5, <1>6

\* A task claims its key, whose NPC has nothing else outstanding, or finds it claimed.
LEMMA TakeClaimStep == ASSUME IInv, NEW n \in Npcs, TakeClaim(n) PROVE IInv'
<1> USE PipelineAssumption DEF IInv, TakeClaim, durable, outside, At, Goto, Finish,
        Assign
<1>1. TypeOK'
  BY DEF TypeOK, Steps
<1>2. RowsAgree'
  BY DEF TypeOK, RowsAgree, Sending
<1>3. StepFits'
  BY DEF TypeOK, RowsAgree, StepFits, PhaseFits, Calling, Sending, Isolated,
     Outstanding, Unresolved, Unpublished
<1>4. OneOutstanding'
  BY DEF TypeOK, OneOutstanding, StepFits, Isolated, Outstanding, KeysFor,
     Unresolved, Unpublished
<1>5. PhaseFits'
  BY DEF TypeOK, RowsAgree, OneOutstanding, StepFits, PhaseFits, AllIdle, Calling,
     Sending, Isolated, Outstanding, KeysFor, Unresolved, Unpublished
<1>6. NumbersRise'
  BY KeepsNumbers DEF TypeOK, Numbered
<1> QED BY <1>1, <1>2, <1>3, <1>4, <1>5, <1>6

\* The attempt opened is the NPC's one outstanding row from here on.
LEMMA OpenAttemptStep == ASSUME IInv, NEW n \in Npcs, OpenAttempt(n) PROVE IInv'
<1> USE PipelineAssumption DEF IInv, OpenAttempt, durable, outside, At, Goto, Finish,
        Assign
<1>1. TypeOK'
  BY DEF TypeOK, Steps, Outcomes
<1>2. RowsAgree'
  BY DEF TypeOK, RowsAgree, StepFits, Sending, Isolated
<1>3. StepFits'
  BY DEF TypeOK, RowsAgree, StepFits, PhaseFits, Calling, Sending, Isolated,
     Outstanding, KeysFor, Unresolved, Unpublished
<1>4. OneOutstanding'
  BY DEF TypeOK, OneOutstanding, StepFits, Isolated, Outstanding, KeysFor,
     Unresolved, Unpublished
<1>5. PhaseFits'
  BY DEF TypeOK, RowsAgree, OneOutstanding, StepFits, PhaseFits, AllIdle, Calling,
     Sending, Isolated, Outstanding, KeysFor, Unresolved, Unpublished
<1>6. NumbersRise'
  BY KeepsNumbers DEF TypeOK, Numbered
<1> QED BY <1>1, <1>2, <1>3, <1>4, <1>5, <1>6

\* The provider is called once: the attempt is open and no call was made for it.
LEMMA CallProviderStep == ASSUME IInv, NEW n \in Npcs, CallProvider(n) PROVE IInv'
<1> USE PipelineAssumption DEF IInv, CallProvider, durable, outside, At, Goto,
        Finish, Assign
<1>1. TypeOK'
  BY DEF TypeOK, Steps
<1>2. RowsAgree'
  BY DEF TypeOK, RowsAgree, StepFits, Sending
<1>3. StepFits'
  BY DEF TypeOK, RowsAgree, StepFits, PhaseFits, Calling, Sending, Isolated,
     Outstanding, Unresolved, Unpublished
<1>4. OneOutstanding'
  BY DEF TypeOK, OneOutstanding, StepFits, Isolated, Outstanding, KeysFor,
     Unresolved, Unpublished
<1>5. PhaseFits'
  BY DEF TypeOK, RowsAgree, OneOutstanding, PhaseFits, AllIdle, Calling, Sending,
     Isolated, Outstanding, KeysFor, Unresolved, Unpublished
<1>6. NumbersRise'
  BY KeepsNumbers DEF Numbered
<1> QED BY <1>1, <1>2, <1>3, <1>4, <1>5, <1>6

\* Without a provider the open attempt fails, and with it the NPC's task ends.
LEMMA NoProviderStep == ASSUME IInv, NEW n \in Npcs, NoProvider(n) PROVE IInv'
<1> USE PipelineAssumption DEF IInv, NoProvider, durable, outside, At, Goto, Finish,
        Assign
<1>1. TypeOK'
  BY DEF TypeOK, Steps, Outcomes
<1>2. RowsAgree'
  BY DEF TypeOK, RowsAgree, StepFits, Sending, Isolated
<1>3. StepFits'
  BY DEF TypeOK, RowsAgree, StepFits, PhaseFits, Calling, Outstanding, Unresolved,
     Unpublished
<1>4. OneOutstanding'
  BY DEF TypeOK, OneOutstanding, StepFits, Outstanding, Unresolved, Unpublished
<1>5. PhaseFits'
  BY DEF TypeOK, RowsAgree, OneOutstanding, StepFits, PhaseFits, AllIdle, Calling,
     Isolated, Outstanding, KeysFor, Unresolved, Unpublished
<1>6. NumbersRise'
  BY KeepsNumbers DEF TypeOK, Numbered
<1> QED BY <1>1, <1>2, <1>3, <1>4, <1>5, <1>6

\* The attempt closed is resolved, and the NPC has nothing outstanding again.
LEMMA CloseAttemptStep == ASSUME IInv, NEW n \in Npcs, CloseAttempt(n) PROVE IInv'
<1> USE PipelineAssumption DEF IInv, CloseAttempt, durable, outside, At, Goto,
        Finish, Assign
<1>1. TypeOK'
  BY DEF TypeOK, Steps, Outcomes
<1>2. RowsAgree'
  BY DEF TypeOK, RowsAgree, StepFits, Sending, Isolated
<1>3. StepFits'
  BY DEF TypeOK, RowsAgree, StepFits, OneOutstanding, PhaseFits, Calling, Sending,
     Outstanding, KeysFor, Unresolved, Unpublished
<1>4. OneOutstanding'
  BY DEF TypeOK, OneOutstanding, StepFits, Calling, Isolated, Outstanding,
     Unresolved, Unpublished
<1>5. PhaseFits'
  BY DEF TypeOK, RowsAgree, OneOutstanding, StepFits, PhaseFits, AllIdle, Calling,
     Isolated, Outstanding, KeysFor, Unresolved, Unpublished
<1>6. NumbersRise'
  BY KeepsNumbers DEF Numbered
<1> QED BY <1>1, <1>2, <1>3, <1>4, <1>5, <1>6

\* The number taken is above every stored one of the NPC.
LEMMA ComposeStep == ASSUME IInv, NEW n \in Npcs, Compose(n) PROVE IInv'
<1> USE PipelineAssumption DEF IInv, Compose, durable, outside, At, Goto, Finish, Assign
<1>1. TypeOK'
  BY NextIsNewest DEF TypeOK, Steps
<1>2. RowsAgree'
  BY DEF TypeOK, RowsAgree
<1>3. StepFits'
  BY DEF TypeOK, RowsAgree, StepFits, Calling, Sending, Isolated, Outstanding,
     Unresolved, Unpublished
<1>4. OneOutstanding'
  BY DEF OneOutstanding, StepFits, Isolated, Outstanding, KeysFor, Unresolved,
     Unpublished
<1>5. PhaseFits'
  BY DEF RowsAgree, OneOutstanding, PhaseFits, AllIdle, Calling, Sending, Isolated,
     Outstanding, KeysFor, Unresolved, Unpublished
<1>6. NumbersRise'
  <2>1. \A m \in Npcs : Taken(m)' = Taken(m)
    BY DEF Taken, StepFits, Isolated
  <2>2. \A x \in Taken(n) : sequence'[job[n]] > x
    BY NextIsNewest DEF TypeOK
  <2>3. \A m \in Npcs : \A k \in KeysFor(m) : status[k] = "pending" => sequence'[k] = sequence[k]
    BY DEF TypeOK, StepFits, Isolated, KeysFor
  <2> QED BY <2>1, <2>2, <2>3 DEF TypeOK, NumbersRise, Numbered, StepFits
<1> QED BY <1>1, <1>2, <1>3, <1>4, <1>5, <1>6

\* The second revalidation writes nothing, whatever it finds.
LEMMA RecheckStep == ASSUME IInv, NEW n \in Npcs, Recheck(n) PROVE IInv'
<1> USE PipelineAssumption DEF IInv, Recheck, durable, outside, At, Goto, Finish, Assign
<1>1. TypeOK'
  BY DEF TypeOK, Steps
<1>2. RowsAgree'
  BY DEF TypeOK, RowsAgree, Sending
<1>3. StepFits'
  BY DEF TypeOK, RowsAgree, StepFits, PhaseFits, Calling, Sending, Isolated,
     Outstanding, Unresolved, Unpublished
<1>4. OneOutstanding'
  BY DEF TypeOK, OneOutstanding, StepFits, Isolated, Outstanding, KeysFor,
     Unresolved, Unpublished
<1>5. PhaseFits'
  BY DEF TypeOK, RowsAgree, OneOutstanding, StepFits, PhaseFits, AllIdle, Calling,
     Sending, Isolated, Outstanding, KeysFor, Unresolved, Unpublished
<1>6. NumbersRise'
  BY KeepsNumbers DEF TypeOK, Numbered
<1> QED BY <1>1, <1>2, <1>3, <1>4, <1>5, <1>6

\* The command stored is the NPC's one outstanding row, and has its newest number.
LEMMA StoreStep == ASSUME IInv, NEW n \in Npcs, Store(n) PROVE IInv'
<1> USE PipelineAssumption DEF IInv, Store, durable, outside, At, Goto, Finish, Assign
<1>1. TypeOK'
  BY DEF TypeOK, Steps, Statuses
<1>2. RowsAgree'
  BY DEF TypeOK, RowsAgree, StepFits, Sending, Isolated, Outstanding, Unresolved,
     KeysFor
<1>3. StepFits'
  BY DEF TypeOK, RowsAgree, StepFits, PhaseFits, Calling, Sending, Isolated,
     Outstanding, KeysFor, Unresolved, Unpublished
<1>4. OneOutstanding'
  BY DEF TypeOK, OneOutstanding, StepFits, Isolated, Outstanding, KeysFor,
     Unresolved, Unpublished
<1>5. PhaseFits'
  BY DEF TypeOK, RowsAgree, OneOutstanding, StepFits, PhaseFits, AllIdle, Calling,
     Sending, Isolated, Outstanding, KeysFor, Unresolved, Unpublished
<1>6. NumbersRise'
  <2>1. CASE UNCHANGED status
    BY <2>1, KeepsNumbers DEF TypeOK, Numbered
  <2>2. CASE status' = [status EXCEPT ![job[n]] = "pending"] /\ Goto(n, "sending")
    <3> DEFINE s == sequence[job[n]]
    <3>1. /\ job[n] \in KeysFor(n) /\ status[job[n]] = "none" /\ Outstanding(n) = {}
          /\ s \in Nat /\ Taken(n) \subseteq Nat /\ \A x \in Taken(n) : s > x
      BY DEF TypeOK, Taken, StepFits, Isolated, NumbersRise, Numbered, KeysFor
    <3>2. Taken(n)' = Taken(n) \cup {s}
      BY <2>2, <3>1 DEF TypeOK, Taken, KeysFor
    <3>3. \A m \in Npcs \ {n} : Taken(m)' = Taken(m)
      BY <2>2, <3>1 DEF TypeOK, Taken, KeysFor
    <3>4. \A x \in Taken(n)' : s >= x
      BY <3>1, <3>2
    <3>5. \A k \in KeysFor(n) : status'[k] = "pending" => k = job[n]
      BY <2>2, <3>1 DEF Outstanding, Unpublished, KeysFor
    <3>6. ASSUME NEW m \in Npcs \ {n}
          PROVE  \A k \in KeysFor(m) : status'[k] = status[k]
      BY <2>2, <3>1 DEF KeysFor
    <3>7. \A m \in Npcs : job'[m] = job[m] /\ (step'[m] \in Numbered => m # n /\ step[m] \in Numbered)
      BY <2>2 DEF TypeOK, Numbered
    <3>8. ASSUME NEW m \in Npcs
          PROVE  (\E x \in Taken(m)' : \A y \in Taken(m)' : x >= y) /\ lastHanded'[m] \in Taken(m)'
      BY <3>2, <3>3, <3>4 DEF NumbersRise
    <3>9. ASSUME NEW m \in Npcs, job'[m] # NoKey, step'[m] \in Numbered
          PROVE  \A x \in Taken(m)' : sequence'[job'[m]] > x
      BY <3>3, <3>7, <3>9 DEF NumbersRise
    <3>10. ASSUME NEW m \in Npcs, NEW k \in KeysFor(m), status'[k] = "pending"
           PROVE  \A x \in Taken(m)' : sequence'[k] >= x
      BY <3>3, <3>4, <3>5, <3>6, <3>10 DEF NumbersRise
    <3> QED BY <3>8, <3>9, <3>10 DEF NumbersRise
  <2> QED BY <2>1, <2>2
<1> QED BY <1>1, <1>2, <1>3, <1>4, <1>5, <1>6

\* What is sent is pending, so nothing newer of its NPC was stored or seen.
LEMMA SendStep == ASSUME IInv, NEW n \in Npcs, Send(n) PROVE IInv'
<1> USE PipelineAssumption DEF IInv, Send, durable, outside, At, Goto, Finish,
        Assign, HandOver
<1>1. TypeOK'
  BY DEF TypeOK, Steps
<1>2. RowsAgree'
  BY DEF TypeOK, RowsAgree, Sending
<1>3. StepFits'
  BY DEF TypeOK, RowsAgree, StepFits, PhaseFits, Calling, Sending, Isolated,
     Outstanding, Unresolved, Unpublished
<1>4. OneOutstanding'
  BY DEF TypeOK, OneOutstanding, StepFits, Isolated, Outstanding, KeysFor,
     Unresolved, Unpublished
<1>5. PhaseFits'
  BY DEF TypeOK, RowsAgree, OneOutstanding, PhaseFits, AllIdle, Calling, Sending,
     Isolated, Outstanding, KeysFor, Unresolved, Unpublished
<1>6. NumbersRise'
  <2>1. job[n] \in KeysFor(n) /\ status[job[n]] = "pending"
    BY DEF TypeOK, StepFits, Sending, KeysFor
  <2>2. \A m \in Npcs : Taken(m)' = Taken(m)
    BY DEF Taken, KeysFor
  <2>3. sequence[job[n]] \in Taken(n)
    BY <2>1 DEF Taken
  <2>4. \A m \in Npcs : lastHanded'[m] \in Taken(m)
    BY <2>3 DEF TypeOK, NumbersRise
  <2>5. \A m \in Npcs : job'[m] = job[m] /\ (step'[m] \in Numbered => step[m] \in Numbered)
    BY DEF TypeOK, Numbered
  <2> QED BY <2>2, <2>4, <2>5 DEF NumbersRise, KeysFor
<1> QED BY <1>1, <1>2, <1>3, <1>4, <1>5, <1>6

\* A command marked published is no longer outstanding.
LEMMA MarkPublishedStep == ASSUME IInv, NEW n \in Npcs, MarkPublished(n) PROVE IInv'
<1> USE PipelineAssumption DEF IInv, MarkPublished, durable, outside, At, Goto,
        Finish, Assign
<1>1. TypeOK'
  BY DEF TypeOK, Steps, Statuses
<1>2. RowsAgree'
  BY DEF TypeOK, RowsAgree, StepFits, Sending, Outstanding
<1>3. StepFits'
  BY DEF TypeOK, RowsAgree, StepFits, PhaseFits, Sending, Outstanding, Unresolved,
     Unpublished
<1>4. OneOutstanding'
  BY DEF TypeOK, OneOutstanding, StepFits, Sending, Outstanding, Unresolved, Unpublished
<1>5. PhaseFits'
  BY DEF TypeOK, RowsAgree, OneOutstanding, StepFits, PhaseFits, AllIdle, Calling,
     Sending, Isolated, Outstanding, KeysFor, Unresolved, Unpublished
<1>6. NumbersRise'
  BY KeepsNumbers DEF TypeOK, Numbered, StepFits, Sending
<1> QED BY <1>1, <1>2, <1>3, <1>4, <1>5, <1>6

\* A command marked expired is no longer outstanding.
LEMMA MarkExpiredStep == ASSUME IInv, NEW n \in Npcs, MarkExpired(n) PROVE IInv'
<1> USE PipelineAssumption DEF IInv, MarkExpired, durable, outside, At, Goto, Finish,
        Assign
<1>1. TypeOK'
  BY DEF TypeOK, Steps, Statuses
<1>2. RowsAgree'
  BY DEF TypeOK, RowsAgree, StepFits, Sending, Outstanding
<1>3. StepFits'
  BY DEF TypeOK, RowsAgree, StepFits, PhaseFits, Sending, Outstanding, Unresolved,
     Unpublished
<1>4. OneOutstanding'
  BY DEF TypeOK, OneOutstanding, StepFits, Sending, Outstanding, Unresolved, Unpublished
<1>5. PhaseFits'
  BY DEF TypeOK, RowsAgree, OneOutstanding, StepFits, PhaseFits, AllIdle, Calling,
     Sending, Isolated, Outstanding, KeysFor, Unresolved, Unpublished
<1>6. NumbersRise'
  BY KeepsNumbers DEF TypeOK, Numbered, StepFits, Sending
<1> QED BY <1>1, <1>2, <1>3, <1>4, <1>5, <1>6

\* Recovery resolves a call of unknown outcome and goes on to its fallback.
LEMMA CloseUnknownStep == ASSUME IInv, NEW n \in Npcs, CloseUnknown(n) PROVE IInv'
<1> USE PipelineAssumption DEF IInv, CloseUnknown, durable, outside, At, Goto,
        Finish, Assign
<1>1. TypeOK'
  BY DEF TypeOK, Steps, Outcomes
<1>2. RowsAgree'
  BY DEF TypeOK, RowsAgree, StepFits, Sending, Isolated
<1>3. StepFits'
  BY DEF TypeOK, RowsAgree, StepFits, OneOutstanding, PhaseFits, Calling, Sending,
     Outstanding, KeysFor, Unresolved, Unpublished
<1>4. OneOutstanding'
  BY DEF TypeOK, OneOutstanding, StepFits, Calling, Isolated, Outstanding,
     Unresolved, Unpublished
<1>5. PhaseFits'
  BY DEF TypeOK, RowsAgree, OneOutstanding, StepFits, PhaseFits, AllIdle, Calling,
     Isolated, Outstanding, KeysFor, Unresolved, Unpublished
<1>6. NumbersRise'
  BY KeepsNumbers DEF Numbered
<1> QED BY <1>1, <1>2, <1>3, <1>4, <1>5, <1>6

\* A start lists every call that was left unresolved.
LEMMA RestartStep == ASSUME IInv, Restart PROVE IInv'
<1> USE PipelineAssumption DEF IInv, Restart, durable, outside, At, Goto, Finish, Assign
<1>1. TypeOK'
  BY DEF TypeOK, Unresolved
<1>2. RowsAgree'
  BY DEF TypeOK, RowsAgree
<1>3. StepFits'
  BY DEF TypeOK, RowsAgree, StepFits, Outstanding, Unresolved, Unpublished
<1>4. OneOutstanding'
  BY DEF OneOutstanding, StepFits, Outstanding, Unresolved, Unpublished
<1>5. PhaseFits'
  BY DEF TypeOK, RowsAgree, OneOutstanding, PhaseFits, AllIdle, Calling, Isolated,
     Outstanding, KeysFor, Unresolved
<1>6. NumbersRise'
  BY KeepsNumbers DEF TypeOK, Numbered
<1> QED BY <1>1, <1>2, <1>3, <1>4, <1>5, <1>6

\* Recovery takes one row off its list into the hands of the row's NPC.
LEMMA RecoverNextStep == ASSUME IInv, NEW k \in Keys, RecoverNext(k) PROVE IInv'
<1> USE PipelineAssumption DEF IInv, RecoverNext, durable, outside, At, Goto, Finish,
        Assign, Recovering, AllIdle
<1>1. TypeOK'
  BY DEF TypeOK, Steps
<1>2. RowsAgree'
  BY DEF TypeOK, RowsAgree, Sending
<1>3. StepFits'
  BY DEF TypeOK, RowsAgree, StepFits, PhaseFits, Calling, Sending, Isolated,
     Unresolved, Unpublished
<1>4. OneOutstanding'
  BY DEF TypeOK, OneOutstanding, StepFits, Sending, Isolated, Outstanding, KeysFor,
     Unresolved, Unpublished
<1>5. PhaseFits'
  BY DEF TypeOK, RowsAgree, OneOutstanding, PhaseFits, AllIdle, Calling, Sending,
     Isolated, Outstanding, KeysFor, Unresolved, Unpublished
<1>6. NumbersRise'
  BY KeepsNumbers DEF TypeOK, Numbered
<1> QED BY <1>1, <1>2, <1>3, <1>4, <1>5, <1>6

\* With every call resolved, recovery lists every command left pending.
LEMMA RepublishStep == ASSUME IInv, Republish PROVE IInv'
<1> USE PipelineAssumption DEF IInv, Republish, durable, outside, At, Goto, Finish,
        Assign, AllIdle
<1>1. TypeOK'
  BY DEF TypeOK, Unpublished
<1>2. RowsAgree'
  BY DEF TypeOK, RowsAgree, StepFits
<1>3. StepFits'
  BY DEF TypeOK, RowsAgree, StepFits
<1>4. OneOutstanding'
  BY DEF OneOutstanding, StepFits, Outstanding, Unresolved, Unpublished
<1>5. PhaseFits'
  BY DEF TypeOK, RowsAgree, OneOutstanding, PhaseFits, Calling, Isolated,
     Outstanding, Unresolved, Unpublished
<1>6. NumbersRise'
  BY KeepsNumbers DEF TypeOK, Numbered
<1> QED BY <1>1, <1>2, <1>3, <1>4, <1>5, <1>6

\* With both lists empty and every task idle nothing is outstanding.
LEMMA OpenIntakeStep == ASSUME IInv, OpenIntake PROVE IInv'
<1> USE PipelineAssumption DEF IInv, OpenIntake, durable, outside, At, Goto, Finish,
        Assign, AllIdle
<1>1. TypeOK'
  BY DEF TypeOK
<1>2. RowsAgree'
  BY DEF TypeOK, RowsAgree
<1>3. StepFits'
  BY DEF TypeOK, RowsAgree, StepFits
<1>4. OneOutstanding'
  BY DEF OneOutstanding, StepFits, Outstanding, Unresolved, Unpublished
<1>5. PhaseFits'
  BY DEF RowsAgree, OneOutstanding, PhaseFits, Calling, Isolated, Outstanding,
     Unresolved, Unpublished
<1>6. NumbersRise'
  BY KeepsNumbers DEF Numbered
<1> QED BY <1>1, <1>2, <1>3, <1>4, <1>5, <1>6

\* A crash leaves the rows as they are, and at most one outstanding per NPC.
LEMMA CrashStep == ASSUME IInv, Crash PROVE IInv'
<1> USE PipelineAssumption DEF IInv, Crash, durable, outside, At, Goto, Finish, Assign
<1>1. TypeOK'
  BY DEF TypeOK, Steps
<1>2. RowsAgree'
  BY DEF TypeOK, RowsAgree, Sending
<1>3. StepFits'
  BY DEF TypeOK, RowsAgree, StepFits, PhaseFits
<1>4. OneOutstanding'
  BY DEF OneOutstanding, StepFits, Outstanding, Unresolved, Unpublished
<1>5. PhaseFits'
  BY DEF RowsAgree, OneOutstanding, PhaseFits, AllIdle, Calling, Isolated, Outstanding
<1>6. NumbersRise'
  BY KeepsNumbers DEF Numbered
<1> QED BY <1>1, <1>2, <1>3, <1>4, <1>5, <1>6

-----------------------------------------------------------------------------
(* The theorems.                                                           *)

\* Every step keeps the invariant: one case per action.
LEMMA NextIInv == IInv /\ [Next]_vars => IInv'
<1> SUFFICES ASSUME IInv, [Next]_vars PROVE IInv' OBVIOUS
<1>1. CASE \E k \in Keys : Begin(k) BY <1>1, BeginStep
<1>2. CASE \E k \in Keys : Lapse(k) BY <1>2, LapseStep
<1>3. CASE \E n \in Npcs : TakeClaim(n) BY <1>3, TakeClaimStep
<1>4. CASE \E n \in Npcs : OpenAttempt(n) BY <1>4, OpenAttemptStep
<1>5. CASE \E n \in Npcs : CallProvider(n) BY <1>5, CallProviderStep
<1>6. CASE \E n \in Npcs : NoProvider(n) BY <1>6, NoProviderStep
<1>7. CASE \E n \in Npcs : CloseAttempt(n) BY <1>7, CloseAttemptStep
<1>8. CASE \E n \in Npcs : Compose(n) BY <1>8, ComposeStep
<1>9. CASE \E n \in Npcs : Recheck(n) BY <1>9, RecheckStep
<1>10. CASE \E n \in Npcs : Store(n) BY <1>10, StoreStep
<1>11. CASE \E n \in Npcs : Send(n) BY <1>11, SendStep
<1>12. CASE \E n \in Npcs : MarkPublished(n) BY <1>12, MarkPublishedStep
<1>13. CASE \E n \in Npcs : MarkExpired(n) BY <1>13, MarkExpiredStep
<1>14. CASE \E n \in Npcs : CloseUnknown(n) BY <1>14, CloseUnknownStep
<1>15. CASE Restart BY <1>15, RestartStep
<1>16. CASE \E k \in Keys : RecoverNext(k) BY <1>16, RecoverNextStep
<1>17. CASE Republish BY <1>17, RepublishStep
<1>18. CASE OpenIntake BY <1>18, OpenIntakeStep
<1>19. CASE Crash BY <1>19, CrashStep
<1>20. CASE UNCHANGED vars
  <2> USE <1>20 DEF vars, durable, outside
  <2>1. TypeOK' /\ RowsAgree' /\ PhaseFits'
    BY DEF IInv, TypeOK, RowsAgree, PhaseFits, AllIdle, Outstanding, Unresolved,
       Unpublished
  <2>2. StepFits' /\ OneOutstanding'
    BY DEF IInv, StepFits, OneOutstanding, Outstanding, Unresolved, Unpublished
  <2>3. NumbersRise'
    BY DEF IInv, NumbersRise, Taken
  <2> QED BY <2>1, <2>2, <2>3 DEF IInv
<1> QED BY <1>1, <1>2, <1>3, <1>4, <1>5, <1>6, <1>7, <1>8, <1>9, <1>10, <1>11, <1>12,
           <1>13, <1>14, <1>15, <1>16, <1>17, <1>18, <1>19, <1>20 DEF Next, Task,
           Recover

\* The invariant holds in every reachable state.
THEOREM PipelineIInv == Spec => []IInv
BY InitIInv, NextIInv, PTL DEF Spec

\* Rows, phases and tasks stay in their ranges.
THEOREM PipelineTypeOK == Spec => []TypeOK
<1>1. IInv => TypeOK BY DEF IInv
<1> QED BY <1>1, PipelineIInv, PTL

\* Whenever the process dies, an NPC is left with at most one call of unknown
\* outcome or undelivered command, and while intake is open its own task is
\* working on it.
THEOREM OutstandingAlwaysOwned == Spec => []OutstandingIsOwned
<1>1. IInv => OutstandingIsOwned
  <2> SUFFICES ASSUME IInv, NEW n \in Npcs
               PROVE  /\ Cardinality(Outstanding(n)) <= 1
                      /\ mode = "running" => Outstanding(n) \subseteq {job[n]}
    BY DEF OutstandingIsOwned
  <2>1. Cardinality(Outstanding(n)) <= 1
    <3>1. Outstanding(n) = {} \/ \E k : Outstanding(n) = {k}
      BY DEF IInv, OneOutstanding
    <3>2. Cardinality(Outstanding(n)) \in {0, 1}
      BY <3>1, FS_EmptySet, FS_Singleton
    <3> QED BY <3>2
  <2>2. ASSUME mode = "running" PROVE Outstanding(n) \subseteq {job[n]}
    <3>1. CASE job[n] = NoKey
      BY <2>2, <3>1 DEF IInv, PhaseFits
    <3>2. CASE job[n] # NoKey /\ step[n] \in Isolated
      BY <3>2 DEF IInv, StepFits
    <3>3. CASE job[n] # NoKey /\ step[n] \in Calling \cup Sending
      <4>1. job[n] \in Outstanding(n)
        BY <3>3 DEF IInv, TypeOK, StepFits, Outstanding, Unresolved, Unpublished,
           KeysFor
      <4> QED BY <4>1 DEF IInv, OneOutstanding
    <3> QED BY <3>1, <3>2, <3>3 DEF IInv, TypeOK, Steps, Isolated, Calling, Sending
  <2> QED BY <2>1, <2>2
<1> QED BY <1>1, PipelineIInv, PTL

\* No older command of an NPC is handed to the transport after a newer one, whatever
\* is retried or repeated by a recovery.
THEOREM CommandsSentInOrder == Spec => SentInOrder
<1>1. IInv /\ [Next]_vars => [\A n \in Npcs : lastHanded'[n] >= lastHanded[n]]_vars
  <2> SUFFICES ASSUME IInv, Next, NEW m \in Npcs
               PROVE  lastHanded'[m] >= lastHanded[m]
    OBVIOUS
  <2>1. lastHanded[m] \in Nat
    BY DEF IInv, TypeOK
  <2>2. CASE \E n \in Npcs : Send(n)
    <3>1. PICK n \in Npcs : Send(n)
      BY <2>2
    <3>2. job[n] \in KeysFor(n) /\ status[job[n]] = "pending"
      BY <3>1 DEF Send, At, IInv, TypeOK, StepFits, Sending, KeysFor
    <3>3. sequence[job[n]] >= lastHanded[n]
      BY <3>2 DEF IInv, NumbersRise
    <3> QED BY <2>1, <3>1, <3>3 DEF Send, HandOver, IInv, TypeOK
  <2>3. CASE UNCHANGED lastHanded
    BY <2>1, <2>3
  <2> QED BY <2>2, <2>3 DEF Next, Task, Recover, Begin, Lapse, TakeClaim,
             OpenAttempt, CallProvider, NoProvider, CloseAttempt, Compose, Recheck,
             Store, MarkPublished, MarkExpired, CloseUnknown, Restart, RecoverNext,
             Republish, OpenIntake, Crash, outside
<1> QED BY <1>1, PipelineIInv, PTL DEF Spec, SentInOrder

\* Only a pending command is ever sent.
THEOREM OnlyPendingIsSent == Spec => SettledStaysUnsent
<1>1. IInv /\ [Next]_vars =>
        [\A k \in Keys : handed'[k] # handed[k] => status[k] = "pending"]_vars
  <2> SUFFICES ASSUME IInv, Next, NEW k \in Keys, handed'[k] # handed[k]
               PROVE  status[k] = "pending"
    OBVIOUS
  <2>1. PICK n \in Npcs : Send(n)
    BY DEF Next, Task, Recover, Begin, Lapse, TakeClaim, OpenAttempt, CallProvider,
       NoProvider, CloseAttempt, Compose, Recheck, Store, MarkPublished, MarkExpired,
       CloseUnknown, Restart, RecoverNext, Republish, OpenIntake, Crash, outside
  <2>2. k = job[n]
    BY <2>1 DEF Send, HandOver, IInv, TypeOK
  <2> QED BY <2>1, <2>2 DEF Send, At, IInv, TypeOK, StepFits, Sending
<1> QED BY <1>1, PipelineIInv, PTL DEF Spec, SettledStaysUnsent

\* How far a key's answer has come, as TriggerAnswer is told of it.
Answer(k) == IF status[k] # "none" THEN status[k]
             ELSE IF k \in claims THEN "claimed" ELSE "open"

\* One key's answer advancing alone is the abstract step.
LEMMA AdvancesAlone ==
  ASSUME NEW k \in Keys, NEW from, NEW to, UNCHANGED calls,
         Answer(k) = from, Answer(k)' = to,
         \A j \in Keys \ {k} : Answer(j)' = Answer(j)
  PROVE  Trigger!Advance(k, from, to)
<1>1. \A j \in Keys : Answer(j)' = IF j = k THEN to ELSE Answer(j)
  OBVIOUS
<1> QED BY <1>1 DEF Trigger!Advance, Answer

\* Every step of the pipeline is a step of TriggerAnswer, or none: a claim key
\* buys one call, made before its one command is stored, and a command that was
\* published or expired stays so, across crashes and recoveries.
THEOREM ImplementsTriggerAnswer == Spec => AnswersOnce
<1>1. Init => Trigger!Init
  BY DEF Init, Trigger!Init
<1>2. IInv /\ [Next]_vars => [Trigger!Next]_Trigger!answerVars
  <2> SUFFICES ASSUME IInv, [Next]_vars
               PROVE  Trigger!Next \/ UNCHANGED Trigger!answerVars
    OBVIOUS
  <2> USE DEF IInv, durable, outside, At, Goto, Finish, Assign
  <2>1. ASSUME NEW n \in Npcs, TakeClaim(n) PROVE Trigger!Next \/ UNCHANGED Trigger!answerVars
    <3>1. PICK k \in Keys : k = job[n]
      BY <2>1 DEF TakeClaim, TypeOK
    <3>2. CASE k \in claims
      BY <2>1, <3>1, <3>2 DEF TakeClaim, TypeOK, Trigger!answerVars
    <3>3. CASE k \notin claims
      <4>1. Answer(k) = "open" /\ Answer(k)' = "claimed" /\ \A j \in Keys \ {k} : Answer(j)' = Answer(j)
        BY <2>1, <3>1, <3>3 DEF TakeClaim, RowsAgree, Answer
      <4>2. Trigger!Advance(k, "open", "claimed")
        BY <2>1, <4>1, AdvancesAlone DEF TakeClaim
      <4> QED BY <4>2 DEF Trigger!Next, Trigger!Claim
    <3> QED BY <3>2, <3>3
  <2>2. ASSUME NEW n \in Npcs, CallProvider(n) PROVE Trigger!Next
    <3>1. job[n] \in Keys /\ job[n] \in claims /\ status[job[n]] = "none" /\ calls[job[n]] = 0
      BY <2>2 DEF CallProvider, TypeOK, RowsAgree, StepFits, Calling
    <3>2. Trigger!Call(job[n])
      BY <2>2, <3>1 DEF CallProvider, TypeOK, Trigger!Call
    <3> QED BY <3>1, <3>2 DEF Trigger!Next
  <2>3. ASSUME NEW n \in Npcs, Store(n) PROVE Trigger!Next \/ UNCHANGED Trigger!answerVars
    <3>1. CASE UNCHANGED status
      BY <2>3, <3>1 DEF Store, Trigger!answerVars
    <3>2. CASE status' = [status EXCEPT ![job[n]] = "pending"]
      <4>1. PICK k \in Keys : k = job[n]
        BY <2>3 DEF Store, TypeOK
      <4>2. Answer(k) = "claimed" /\ Answer(k)' = "pending" /\ \A j \in Keys \ {k} : Answer(j)' = Answer(j)
        BY <2>3, <3>2, <4>1 DEF Store, TypeOK, StepFits, Isolated, Answer
      <4>3. Trigger!Advance(k, "claimed", "pending")
        BY <2>3, <4>2, AdvancesAlone DEF Store
      <4> QED BY <4>3 DEF Trigger!Next, Trigger!Commit
    <3> QED BY <2>3, <3>1, <3>2 DEF Store
  <2>4. ASSUME NEW n \in Npcs, MarkPublished(n) PROVE Trigger!Next
    <3>1. PICK k \in Keys : k = job[n]
      BY <2>4 DEF MarkPublished, TypeOK
    <3>2. Answer(k) = "pending" /\ Answer(k)' = "published" /\ \A j \in Keys \ {k} : Answer(j)' = Answer(j)
      BY <2>4, <3>1 DEF MarkPublished, TypeOK, StepFits, Sending, Answer
    <3>3. Trigger!Advance(k, "pending", "published")
      BY <2>4, <3>2, AdvancesAlone DEF MarkPublished
    <3> QED BY <3>3 DEF Trigger!Next, Trigger!Publish
  <2>5. ASSUME NEW n \in Npcs, MarkExpired(n) PROVE Trigger!Next
    <3>1. PICK k \in Keys : k = job[n]
      BY <2>5 DEF MarkExpired, TypeOK
    <3>2. Answer(k) = "pending" /\ Answer(k)' = "expired" /\ \A j \in Keys \ {k} : Answer(j)' = Answer(j)
      BY <2>5, <3>1 DEF MarkExpired, TypeOK, StepFits, Sending, Answer
    <3>3. Trigger!Advance(k, "pending", "expired")
      BY <2>5, <3>2, AdvancesAlone DEF MarkExpired
    <3> QED BY <3>3 DEF Trigger!Next, Trigger!Expire
  <2>6. CASE UNCHANGED <<claims, status, calls>>
    BY <2>6 DEF Trigger!answerVars
  <2> QED BY <2>1, <2>2, <2>3, <2>4, <2>5, <2>6 DEF Next, vars, Task, Recover, Begin,
             Lapse, OpenAttempt, NoProvider, CloseAttempt, Compose, Recheck, Send,
             CloseUnknown, Restart, RecoverNext, Republish, OpenIntake, Crash
<1> QED BY <1>1, <1>2, PipelineIInv, PTL DEF Spec, AnswersOnce, Trigger!Spec

=============================================================================
