-------------------------- MODULE BlastDeliveryProofs --------------------------
(***************************************************************************)
(* Theorems about BlastDelivery for any blasts, subscribers, channels and  *)
(* batch sizes, and any number of runs, restarts and changes.              *)
(***************************************************************************)
EXTENDS BlastDelivery, FiniteSetTheorems, TLAPS

USE ChannelAssumption

-------------------------------------------------------------------------------
(* Type correctness *)

\* A call of processOnce that is not over has picked its blast.
RunsHaveBlasts == \A r \in Runs : pc[r] # "free" => blastOf[r] \in Blasts

\* The steps of a channel queue, and those for a recipient of its batch.
QueueStep(r, ch) ==
    StartBatch(r, ch) \/ EndBatch(r, ch) \/ CheckCancelled(r, ch) \/ QueueFails(r, ch)
RecipientStep(r, s) == Send(r, s) \/ Record(r, s) \/ RecordFails(r, s)

\* The sets that are counted are finite.
LEMMA CountsAreNat == \A S \in SUBSET Subscribers : Cardinality(S) \in Nat
  BY SizesAssumption, FS_Subset, FS_CardinalityType

\* The state the program starts in is well typed.
LEMMA InitTypeOK == Init => TypeOK
  <1> SUFFICES ASSUME Init PROVE TypeOK  OBVIOUS
  <1>1. /\ status \in [Blasts -> Status]
        /\ sentStat \in [Blasts -> Nat]
        /\ delivery \in [Blasts -> [Subscribers -> {"none", "sent", "failed"}]]
        /\ copies \in [Blasts -> [Subscribers -> 0 .. 2]]
        /\ writes \in [Blasts -> [Requests -> Nat]]
        /\ subscribed \subseteq Subscribers /\ enabled \subseteq Channels
        /\ interrupted \subseteq Blasts /\ unrecorded \in [Blasts -> SUBSET Subscribers]
        /\ changes \in Nat /\ troubles \in Nat
    BY DEF Init, Status, Requests
  <1>2. /\ processing \in BOOLEAN
        /\ pc \in [Runs -> {"free", "promote", "load", "channels", "orphan"}]
        /\ blastOf \in [Runs -> Blasts \cup {NoBlast}]
        /\ promote \in [Runs -> SUBSET Blasts]
        /\ eligible \in [Runs -> SUBSET Subscribers]
        /\ left \in [Runs -> SUBSET Subscribers]
    BY DEF Init, NoRun
  <1>3. /\ worker \in [Runs -> [Channels ->
                            {"none", "check", "batch", "sending", "done", "failed"}]]
        /\ index \in [Runs -> [Channels -> Nat]]
        /\ inflight \in [Runs -> [Subscribers -> Waits]]
        /\ sentCount \in [Runs -> Nat]
        /\ wasCancelled \in [Runs -> BOOLEAN]
        /\ late \in [Runs -> [Channels -> Nat]]
    BY DEF Init, NoRun, Waits
  <1> QED  BY <1>1, <1>2, <1>3 DEF TypeOK

\* A slot that is freed is well typed.
LEMMA FreeSlotTypeOK ==
    ASSUME TypeOK, NEW r \in Runs, FreeSlot(r)
    PROVE  /\ pc' \in [Runs -> {"free", "promote", "load", "channels", "orphan"}]
           /\ blastOf' \in [Runs -> Blasts \cup {NoBlast}]
           /\ promote' \in [Runs -> SUBSET Blasts]
           /\ eligible' \in [Runs -> SUBSET Subscribers]
           /\ left' \in [Runs -> SUBSET Subscribers]
           /\ worker' \in [Runs -> [Channels ->
                             {"none", "check", "batch", "sending", "done", "failed"}]]
           /\ index' \in [Runs -> [Channels -> Nat]]
           /\ inflight' \in [Runs -> [Subscribers -> Waits]]
           /\ sentCount' \in [Runs -> Nat]
           /\ wasCancelled' \in [Runs -> BOOLEAN]
           /\ late' \in [Runs -> [Channels -> Nat]]
  BY DEF FreeSlot, TypeOK, Waits

\* Requests and settings.
LEMMA AdminTypeOK ==
    ASSUME TypeOK,
           \/ \E b \in Blasts : SendRead(b) \/ ScheduleRead(b) \/ Cancel(b) \/ Delete(b)
           \/ \E b \in Blasts, request \in Requests : StatusWrite(b, request)
           \/ \E s \in Subscribers : OptOutOrIn(s)
           \/ \E ch \in Channels : ToggleChannel(ch)
    PROVE  TypeOK'
  <1> USE DEF TypeOK, Status, SetStatus, dbVars, adminVars, runVars, queueVars, troubleVars
  <1>1. CASE \E b \in Blasts : SendRead(b)      BY <1>1 DEF SendRead, Requests
  <1>2. CASE \E b \in Blasts : ScheduleRead(b)  BY <1>2 DEF ScheduleRead, Requests
  <1>3. CASE \E b \in Blasts : Cancel(b)        BY <1>3 DEF Cancel
  <1>4. CASE \E b \in Blasts : Delete(b)        BY <1>4 DEF Delete
  <1>5. CASE \E b \in Blasts, request \in Requests : StatusWrite(b, request)
    BY <1>5 DEF StatusWrite
  <1>6. CASE \E s \in Subscribers : OptOutOrIn(s)   BY <1>6 DEF OptOutOrIn
  <1>7. CASE \E ch \in Channels : ToggleChannel(ch)  BY <1>7 DEF ToggleChannel
  <1> QED  BY <1>1, <1>2, <1>3, <1>4, <1>5, <1>6, <1>7

\* The call of processOnce up to its queues, and its end.
LEMMA CallTypeOK ==
    ASSUME TypeOK, RunsHaveBlasts, NEW r \in Runs,
           \/ Poll(r) \/ Promote(r) \/ Load(r) \/ Finish(r) \/ Reject(r) \/ OrphanEnds(r)
           \/ QueryFails(r)
    PROVE  TypeOK'
  <1> USE DEF RunsHaveBlasts, dbVars, adminVars, runVars, queueVars, troubleVars
  <1>1. CASE Poll(r)
    BY <1>1 DEF Poll, TypeOK
  <1>2. CASE Promote(r)
    <2>1. status' \in [Blasts -> Status]
      BY <1>2 DEF Promote, SetStatus, TypeOK, Status
    <2>2. CASE Return(r)
      BY <1>2, <2>1, <2>2, FreeSlotTypeOK DEF Promote, Return, TypeOK
    <2>3. CASE /\ UNCHANGED <<processing, blastOf, eligible, queueVars>>
               /\ promote' \in [Runs -> SUBSET Blasts]
               /\ pc' \in [Runs -> {"free", "promote", "load", "channels", "orphan"}]
      BY <1>2, <2>1, <2>3 DEF Promote, TypeOK
    <2>4. PICK b \in promote[r] :
             \/ Return(r)
             \/ /\ UNCHANGED <<processing, blastOf, eligible, queueVars>>
                /\ promote' = [promote EXCEPT ![r] = promote[r] \ {b}]
                /\ pc' = [pc EXCEPT ![r] = IF promote[r] = {b} THEN "load" ELSE pc[r]]
      BY <1>2 DEF Promote
    <2>5. CASE ~Return(r)
      <3>0. promote \in [Runs -> SUBSET Blasts]  BY DEF TypeOK
      <3>1. promote' \in [Runs -> SUBSET Blasts]
        <4>1. promote[r] \ {b} \in SUBSET Blasts  BY <3>0
        <4> QED  BY <2>4, <2>5, <3>0, <4>1
      <3>2. pc' \in [Runs -> {"free", "promote", "load", "channels", "orphan"}]
        BY <2>4, <2>5 DEF TypeOK
      <3> QED  BY <2>3, <2>4, <2>5, <3>1, <3>2
    <2> QED  BY <2>2, <2>5
  <1>3. CASE Load(r)
    <2>1. status' \in [Blasts -> Status]
      BY <1>3 DEF Load, SetStatus, TypeOK, Status
    <2>2. CASE Return(r)
      BY <1>3, <2>1, <2>2, FreeSlotTypeOK DEF Load, Return, TypeOK
    <2>3. CASE ~Return(r)
      <3>1. PICK remaining \in SUBSET Subscribers :
              /\ left' = [left EXCEPT ![r] = remaining]
              /\ worker' = [worker EXCEPT ![r] = [ch \in Channels |->
                     IF \E s \in remaining : Channel[s] = ch THEN "batch" ELSE "none"]]
        BY <1>3, <2>3 DEF Load, TypeOK
      <3>2. /\ eligible' = [eligible EXCEPT ![r] = subscribed]
            /\ sentCount' = [sentCount EXCEPT ![r] = Cardinality(Delivered(blastOf[r]))]
            /\ pc' = [pc EXCEPT ![r] = "channels"]
            /\ UNCHANGED <<processing, blastOf, promote, index, inflight, wasCancelled, late>>
        BY <1>3, <2>3 DEF Load
      <3>3. Cardinality(Delivered(blastOf[r])) \in Nat
        BY CountsAreNat DEF Delivered
      <3>4. /\ left' \in [Runs -> SUBSET Subscribers]
            /\ worker' \in [Runs -> [Channels ->
                              {"none", "check", "batch", "sending", "done", "failed"}]]
        BY <3>1 DEF TypeOK
      <3> QED  BY <1>3, <2>1, <3>2, <3>3, <3>4 DEF Load, TypeOK
    <2> QED  BY <2>2, <2>3
  <1>4. CASE Finish(r)
    <2>1. status' \in [Blasts -> Status] /\ sentStat' \in [Blasts -> Nat]
      <3>1. CASE wasCancelled[r]   BY <1>4, <3>1 DEF Finish, TypeOK
      <3>2. CASE ~wasCancelled[r]
        <4>1. status \in [Blasts -> Status] /\ sentStat \in [Blasts -> Nat]
              /\ sentCount[r] \in Nat
          BY DEF TypeOK
        <4>2. /\ SetStatus(blastOf[r], "sent")
              /\ sentStat' = [sentStat EXCEPT ![blastOf[r]] =
                   IF HasRow(blastOf[r]) THEN sentCount[r] ELSE sentStat[blastOf[r]]]
          BY <1>4, <3>2 DEF Finish
        <4>3. status' \in [Blasts -> Status]  BY <4>1, <4>2 DEF SetStatus, Status
        <4> QED  BY <4>1, <4>2, <4>3
      <3> QED  BY <3>1, <3>2
    <2> QED  BY <1>4, <2>1, FreeSlotTypeOK DEF Finish, Return, TypeOK
  <1>5. CASE Reject(r)
    BY <1>5 DEF Reject, TypeOK
  <1>6. CASE OrphanEnds(r)
    BY <1>6, FreeSlotTypeOK DEF OrphanEnds, TypeOK
  <1>7. CASE QueryFails(r)
    <2>0. processing' = FALSE
      BY <1>7 DEF QueryFails, Return
    <2>1. FreeSlot(r) /\ troubles' = troubles + 1
          /\ UNCHANGED <<status, sentStat, delivery, subscribed, enabled, changes, writes,
                         copies, interrupted, unrecorded>>
      BY <1>7 DEF QueryFails, Trouble, Return
    <2>2. troubles' \in Nat
      BY <2>1 DEF TypeOK
    <2>3. /\ status' \in [Blasts -> Status]
          /\ sentStat' \in [Blasts -> Nat]
          /\ delivery' \in [Blasts -> [Subscribers -> {"none", "sent", "failed"}]]
          /\ copies' \in [Blasts -> [Subscribers -> 0 .. 2]]
          /\ writes' \in [Blasts -> [Requests -> Nat]]
          /\ subscribed' \subseteq Subscribers /\ enabled' \subseteq Channels
          /\ interrupted' \subseteq Blasts /\ unrecorded' \in [Blasts -> SUBSET Subscribers]
          /\ changes' \in Nat
      BY <2>1 DEF TypeOK
    <2> QED  BY <2>0, <2>1, <2>2, <2>3, FreeSlotTypeOK DEF TypeOK
  <1> QED  BY <1>1, <1>2, <1>3, <1>4, <1>5, <1>6, <1>7

\* A channel queue.
LEMMA QueueTypeOK ==
    ASSUME TypeOK, NEW r \in Runs, blastOf[r] \in Blasts,
           \/ \E ch \in Channels : QueueStep(r, ch)
           \/ \E s \in Subscribers : RecipientStep(r, s)
    PROVE  TypeOK'
  <1> USE SizesAssumption DEF dbVars, adminVars, troubleVars
  <1> DEFINE Worker == {"none", "check", "batch", "sending", "done", "failed"}
  <1>1. ASSUME NEW ch \in Channels, StartBatch(r, ch) PROVE TypeOK'
    <2>0. /\ worker \in [Runs -> [Channels -> Worker]] /\ left \in [Runs -> SUBSET Subscribers]
          /\ inflight \in [Runs -> [Subscribers -> Waits]]
          /\ late \in [Runs -> [Channels -> Nat]]
      BY DEF TypeOK
    <2>1. CASE UNCHANGED <<left, inflight, late>>
               /\ worker' = [worker EXCEPT ![r][ch] = "failed"]
      <3>1. worker' \in [Runs -> [Channels -> Worker]]  BY <2>0, <2>1
      <3> QED  BY <1>1, <2>1, <3>1 DEF StartBatch, TypeOK
    <2>2. ASSUME NEW batch \in SUBSET Recipients(r, ch),
                 left' = [left EXCEPT ![r] = left[r] \ batch],
                 inflight' = [inflight EXCEPT ![r] = [s \in Subscribers |->
                                IF s \in batch THEN "send" ELSE inflight[r][s]]],
                 worker' = [worker EXCEPT ![r][ch] = "sending"],
                 late' = [late EXCEPT ![r][ch] = IF status[blastOf[r]] = "cancelled"
                            THEN late[r][ch] + Cardinality(batch) ELSE late[r][ch]]
          PROVE  TypeOK'
      <3>1. Cardinality(batch) \in Nat
        BY <2>0, CountsAreNat DEF Recipients
      <3>2. late' \in [Runs -> [Channels -> Nat]]
        <4>1. late[r][ch] + Cardinality(batch) \in Nat  BY <2>0, <3>1
        <4> QED  BY <2>0, <2>2, <4>1
      <3>3. worker' \in [Runs -> [Channels -> Worker]]  BY <2>0, <2>2
      <3>4. left' \in [Runs -> SUBSET Subscribers]
        <4>1. left[r] \ batch \in SUBSET Subscribers  BY <2>0
        <4> QED  BY <2>0, <2>2, <4>1
      <3>5. inflight' \in [Runs -> [Subscribers -> Waits]]
        BY <2>0, <2>2 DEF Waits
      <3> QED  BY <1>1, <3>2, <3>3, <3>4, <3>5 DEF StartBatch, TypeOK
    <2> QED  BY <1>1, <2>1, <2>2 DEF StartBatch
  <1>2. ASSUME NEW ch \in Channels, EndBatch(r, ch) PROVE TypeOK'
    <2>0. /\ worker \in [Runs -> [Channels -> Worker]]
          /\ index \in [Runs -> [Channels -> Nat]]
      BY DEF TypeOK
    <2>1. worker' \in [Runs -> [Channels -> Worker]]
      <3>1. PICK w \in Worker : worker' = [worker EXCEPT ![r][ch] = w]
        BY <1>2 DEF EndBatch
      <3> QED  BY <2>0, <3>1
    <2>2. index' \in [Runs -> [Channels -> Nat]]
      <3>1. index[r][ch] + Concurrency \in Nat  BY <2>0
      <3> QED  BY <1>2, <2>0, <3>1 DEF EndBatch
    <2> QED  BY <1>2, <2>1, <2>2 DEF EndBatch, TypeOK
  <1>3. ASSUME NEW ch \in Channels, CheckCancelled(r, ch) PROVE TypeOK'
    BY <1>3 DEF CheckCancelled, TypeOK
  <1>4. ASSUME NEW s \in Subscribers, Send(r, s) PROVE TypeOK'
    BY <1>4 DEF Send, TypeOK, Waits
  <1>5. ASSUME NEW s \in Subscribers, Record(r, s) PROVE TypeOK'
    BY <1>5 DEF Record, TypeOK, Waits
  <1>6. ASSUME NEW ch \in Channels, QueueFails(r, ch) PROVE TypeOK'
    BY <1>6 DEF QueueFails, Trouble, TypeOK
  <1>7. ASSUME NEW s \in Subscribers, RecordFails(r, s) PROVE TypeOK'
    <2>1. /\ troubles' = troubles + 1
          /\ \E st \in Waits : inflight' = [inflight EXCEPT ![r][s] = st]
          /\ \/ unrecorded' = unrecorded
             \/ unrecorded' = [unrecorded EXCEPT ![blastOf[r]] = unrecorded[blastOf[r]] \cup {s}]
      BY <1>7 DEF RecordFails, Trouble, Waits
    <2>2. troubles' \in Nat /\ inflight' \in [Runs -> [Subscribers -> Waits]]
      BY <2>1 DEF TypeOK
    <2>3. unrecorded' \in [Blasts -> SUBSET Subscribers]
      <3>1. unrecorded[blastOf[r]] \cup {s} \in SUBSET Subscribers  BY DEF TypeOK
      <3> QED  BY <2>1, <3>1 DEF TypeOK
    <2> QED  BY <1>7, <2>2, <2>3 DEF RecordFails, TypeOK
  <1> QED  BY <1>1, <1>2, <1>3, <1>4, <1>5, <1>6, <1>7 DEF QueueStep, RecipientStep

\* A new start of the process.
LEMMA RestartTypeOK ==
    ASSUME TypeOK, RunsHaveBlasts, Restart
    PROVE  TypeOK'
  <1>1. Restart
    OBVIOUS
  <1>2. troubles' \in Nat /\ unrecorded' = unrecorded
    BY DEF Restart, Trouble, TypeOK
  <1>3. interrupted' \subseteq Blasts
    <2>1. ASSUME NEW r \in Runs, pc[r] # "free" PROVE blastOf[r] \in Blasts
      BY <2>1 DEF RunsHaveBlasts
    <2> QED  BY <1>1, <2>1 DEF Restart, TypeOK
  <1>4. /\ processing' \in BOOLEAN
        /\ pc' \in [Runs -> {"free", "promote", "load", "channels", "orphan"}]
        /\ blastOf' \in [Runs -> Blasts \cup {NoBlast}]
        /\ promote' \in [Runs -> SUBSET Blasts]
        /\ eligible' \in [Runs -> SUBSET Subscribers]
        /\ left' \in [Runs -> SUBSET Subscribers]
    BY <1>1 DEF Restart
  <1>5. /\ worker' \in [Runs -> [Channels ->
                            {"none", "check", "batch", "sending", "done", "failed"}]]
        /\ index' \in [Runs -> [Channels -> Nat]]
        /\ inflight' \in [Runs -> [Subscribers -> Waits]]
        /\ sentCount' \in [Runs -> Nat]
        /\ wasCancelled' \in [Runs -> BOOLEAN]
        /\ late' \in [Runs -> [Channels -> Nat]]
        /\ writes' \in [Blasts -> [Requests -> Nat]]
    BY <1>1 DEF Restart, Waits
  <1> QED  BY <1>1, <1>2, <1>3, <1>4, <1>5 DEF Restart, TypeOK, dbVars, adminVars

\* What decides how many copies a subscriber gets.
copyVars ==
    <<processing, pc, blastOf, left, worker, inflight, delivery, copies, interrupted, unrecorded>>

\* No request and no change of the settings touches it.
LEMMA AdminChange ==
    ASSUME \/ \E b \in Blasts : SendRead(b) \/ ScheduleRead(b) \/ Cancel(b) \/ Delete(b)
           \/ \E b \in Blasts, request \in Requests : StatusWrite(b, request)
           \/ \E s \in Subscribers : OptOutOrIn(s)
           \/ \E ch \in Channels : ToggleChannel(ch)
           \/ UNCHANGED vars
    PROVE  UNCHANGED copyVars
  BY DEF SendRead, ScheduleRead, Cancel, Delete, StatusWrite, OptOutOrIn, ToggleChannel, vars,
         copyVars, dbVars, runVars, queueVars, troubleVars

\* Where a call of processOnce goes, and which blast it is about.
LEMMA CallChange ==
    ASSUME TypeOK, [Next]_vars, NEW q \in Runs
    PROVE  \/ pc'[q] = "free"
           \/ pc[q] # "free" /\ blastOf'[q] = blastOf[q]
           \/ pc[q] = "free" /\ blastOf'[q] \in Blasts
  <1>0. /\ pc \in [Runs -> {"free", "promote", "load", "channels", "orphan"}]
        /\ blastOf \in [Runs -> Blasts \cup {NoBlast}]
    BY DEF TypeOK
  <1>1. CASE UNCHANGED copyVars
    BY <1>0, <1>1 DEF copyVars
  <1>2. ASSUME NEW r \in Runs, Poll(r)
        PROVE  \/ pc'[q] = pc[q] /\ blastOf'[q] = blastOf[q]
               \/ pc[q] = "free" /\ blastOf'[q] \in Blasts
    BY <1>0, <1>2 DEF Poll
  <1>3. ASSUME NEW r \in Runs, Promote(r) \/ Load(r) \/ Finish(r) \/ Reject(r) \/ OrphanEnds(r)
                             \/ QueryFails(r)
        PROVE  \/ pc'[q] = "free"
               \/ pc'[q] = pc[q] /\ blastOf'[q] = blastOf[q]
               \/ pc[q] # "free" /\ blastOf'[q] = blastOf[q]
    BY <1>0, <1>3 DEF Promote, Load, Finish, Reject, OrphanEnds, QueryFails, Return, FreeSlot
  <1>4. ASSUME NEW r \in Runs, 
               \/ \E ch \in Channels : QueueStep(r, ch)
               \/ \E s \in Subscribers : RecipientStep(r, s)
        PROVE  UNCHANGED <<pc, blastOf>>
    BY <1>4 DEF QueueStep, StartBatch, EndBatch, CheckCancelled, QueueFails,
           RecipientStep, Send, Record, RecordFails
  <1>5. CASE Restart
    BY <1>5 DEF Restart
  <1> QED  BY <1>0, <1>1, <1>2, <1>3, <1>4, <1>5, AdminChange DEF Next, RunStep, CallFails, QueueStep, RecipientStep

\* A slot without queues.
Empty(r) ==
    /\ left[r] = {}
    /\ \A ch \in Channels : worker[r][ch] = "none"
    /\ \A s \in Subscribers : inflight[r][s] = "none"

\* Queues exist between the load and the end of a run only.
QueuesAreInRuns == \A r \in Runs : pc[r] \notin {"channels", "orphan"} => Empty(r)

TypeInv == TypeOK /\ RunsHaveBlasts /\ QueuesAreInRuns

\* A queue takes its steps while its run has them, so no other slot gets any.
LEMMA EmptyChange ==
    ASSUME TypeInv, [Next]_vars, NEW q \in Runs, pc'[q] \notin {"channels", "orphan"}
    PROVE  Empty(q)'
  <1> USE DEF Empty
  <1>0. /\ pc \in [Runs -> {"free", "promote", "load", "channels", "orphan"}]
        /\ left \in [Runs -> SUBSET Subscribers]
        /\ worker \in [Runs -> [Channels ->
                          {"none", "check", "batch", "sending", "done", "failed"}]]
        /\ inflight \in [Runs -> [Subscribers -> Waits]]
    BY DEF TypeInv, TypeOK
  <1>1. pc[q] \notin {"channels", "orphan"} => Empty(q)
    BY DEF TypeInv, QueuesAreInRuns
  <1>2. CASE UNCHANGED <<pc, left, worker, inflight>>
    BY <1>1, <1>2
  <1>3. ASSUME NEW r \in Runs, FreeSlot(r), pc'[q] = pc[q] \/ q = r
        PROVE  Empty(q)'
    <2>1. CASE q = r   BY <1>0, <1>3, <2>1 DEF FreeSlot
    <2>2. CASE q # r   BY <1>0, <1>1, <1>3, <2>2 DEF FreeSlot
    <2> QED  BY <2>1, <2>2
  <1>4. ASSUME NEW r \in Runs, UNCHANGED <<left, worker, inflight>>,
               \/ pc'[q] = pc[q]
               \/ pc[q] \notin {"channels", "orphan"}
        PROVE  Empty(q)'
    BY <1>1, <1>4
  <1>5. ASSUME NEW r \in Runs, Poll(r) \/ Promote(r) \/ Load(r) \/ Finish(r) \/ Reject(r)
                             \/ OrphanEnds(r) \/ QueryFails(r)
        PROVE  Empty(q)'
    <2>1. CASE Poll(r)        BY <1>0, <1>4, <1>5, <2>1 DEF Poll, queueVars
    <2>2. CASE Promote(r)     BY <1>0, <1>3, <1>4, <1>5, <2>2 DEF Promote, Return, queueVars, FreeSlot
    <2>3. CASE Load(r)
      <3>1. CASE Return(r)    BY <1>0, <1>3, <3>1 DEF Return, FreeSlot
      <3>2. CASE ~Return(r)   BY <1>0, <1>1, <2>3, <3>2 DEF Load
      <3> QED  BY <3>1, <3>2
    <2>4. CASE Finish(r)      BY <1>0, <1>3, <2>4 DEF Finish, Return, FreeSlot
    <2>5. CASE Reject(r)      BY <1>0, <1>4, <2>5 DEF Reject, queueVars
    <2>6. CASE OrphanEnds(r)  BY <1>0, <1>3, <2>6 DEF OrphanEnds, FreeSlot
    <2>7. CASE QueryFails(r)  BY <1>0, <1>3, <2>7 DEF QueryFails, Return, FreeSlot
    <2> QED  BY <1>5, <2>1, <2>2, <2>3, <2>4, <2>5, <2>6, <2>7
  <1>6. ASSUME NEW r \in Runs,
               \/ \E ch \in Channels : QueueStep(r, ch)
               \/ \E s \in Subscribers : RecipientStep(r, s)
        PROVE  Empty(q)'
    <2>1. q # r
      BY <1>1, <1>6 DEF QueueStep, StartBatch, EndBatch, CheckCancelled, QueueFails,
           RecipientStep, Send, Record, RecordFails
    <2>2. pc' = pc /\ left'[q] = left[q] /\ worker'[q] = worker[q] /\ inflight'[q] = inflight[q]
      BY <1>0, <1>6, <2>1 DEF QueueStep, StartBatch, EndBatch, CheckCancelled, QueueFails,
           RecipientStep, Send, Record, RecordFails
    <2> QED  BY <1>1, <2>2
  <1>7. CASE Restart
    BY <1>7 DEF Restart
  <1>8. CASE UNCHANGED copyVars
    BY <1>2, <1>8 DEF copyVars
  <1> QED  BY <1>5, <1>6, <1>7, <1>8, AdminChange DEF Next, RunStep, CallFails, QueueStep, RecipientStep

\* Types, with the blasts of the calls, are preserved.
LEMMA SpecTypeInv == Spec => []TypeInv
  <1>1. Init => TypeInv
    BY InitTypeOK DEF Init, NoRun, TypeInv, RunsHaveBlasts, QueuesAreInRuns, Empty
  <1>2. TypeInv /\ [Next]_vars => TypeInv'
    <2> SUFFICES ASSUME TypeInv, [Next]_vars PROVE TypeInv'
      OBVIOUS
    <2>1. TypeOK'
      <3>1. ASSUME NEW r \in Runs, RunStep(r) \/ CallFails(r) PROVE TypeOK'
        <4>1. CASE Promote(r) \/ Load(r) \/ Finish(r) \/ Reject(r) \/ OrphanEnds(r) \/ QueryFails(r)
          BY <4>1, CallTypeOK DEF TypeInv
        <4>2. CASE \/ \E ch \in Channels : QueueStep(r, ch)
                   \/ \E s \in Subscribers : RecipientStep(r, s)
          <5>1. ~Empty(r)
            BY <4>2 DEF QueueStep, StartBatch, EndBatch, CheckCancelled, QueueFails,
           RecipientStep, Send, Record, RecordFails, Empty
          <5>2. blastOf[r] \in Blasts
            BY <5>1 DEF TypeInv, RunsHaveBlasts, QueuesAreInRuns
          <5> QED  BY <4>2, <5>2, QueueTypeOK DEF TypeInv
        <4> QED  BY <3>1, <4>1, <4>2 DEF RunStep, CallFails, QueueStep, RecipientStep
      <3>2. CASE UNCHANGED vars  BY <3>2 DEF vars, TypeInv, TypeOK
      <3> QED  BY <3>1, <3>2, AdminTypeOK, CallTypeOK, RestartTypeOK DEF TypeInv, Next
    <2>2. RunsHaveBlasts'
      BY CallChange DEF TypeInv, RunsHaveBlasts
    <2>3. QueuesAreInRuns'
      BY EmptyChange DEF QueuesAreInRuns
    <2> QED  BY <2>1, <2>2, <2>3 DEF TypeInv
  <1> QED  BY <1>1, <1>2, PTL DEF Spec

\* Every reachable state is well typed, for any constants.
THEOREM BlastTypeCorrectness == Spec => []TypeOK
  BY SpecTypeInv, PTL DEF TypeInv

-------------------------------------------------------------------------------
(* One copy for a subscriber *)

InCall(r) == pc[r] \in {"promote", "load", "channels"}

\* The flag is set while a call is awaited, so there is one at most.
OneCall ==
    /\ \A r \in Runs : InCall(r) => processing
    /\ \A q, r \in Runs : InCall(q) /\ InCall(r) => q = r

\* Queues that nobody awaits are those of a rejected run.
OrphansAreInterrupted == \A r \in Runs : pc[r] = "orphan" => blastOf[r] \in interrupted

\* A recipient of a batch was taken from those left, and the queue is not over before
\* he is settled.
BatchesAreAwaited ==
    \A r \in Runs, s \in Subscribers :
      /\ ~Settled(r, s) => Channel[s] \in Channels /\ worker[r][Channel[s]] = "sending"
      /\ inflight[r][s] # "none" => s \notin left[r]

Unsent(r, s) == s \in left[r] \/ inflight[r][s] = "send"
Unrecorded(r, s) == inflight[r][s] \in {"sent", "failed"}

\* The blast was neither interrupted nor tried for the subscriber without a trace.
Traced(b, s) == b \notin interrupted /\ s \notin unrecorded[b]

\* What an undisturbed run has still to send was never sent before.
UnsentHaveNoCopy ==
    \A r \in Runs, s \in Subscribers :
      pc[r] = "channels" /\ Traced(blastOf[r], s) /\ Unsent(r, s)
        => copies[blastOf[r]][s] = 0

\* What was sent is recorded, or about to be.
CopiesAreRecorded ==
    \A b \in Blasts, s \in Subscribers : Traced(b, s) =>
      \/ copies[b][s] = 0
      \/ /\ copies[b][s] = 1
         /\ \/ delivery[b][s] # "none"
            \/ \E r \in Runs : pc[r] = "channels" /\ blastOf[r] = b /\ Unrecorded(r, s)

CopyInv == OneCall /\ OrphansAreInterrupted /\ BatchesAreAwaited /\ UnsentHaveNoCopy
             /\ CopiesAreRecorded

\* Calls of processOnce follow each other, and leave only interrupted blasts behind.
LEMMA CallsFollowEachOther ==
    ASSUME TypeInv, OneCall, OrphansAreInterrupted, [Next]_vars
    PROVE  OneCall' /\ OrphansAreInterrupted'
  <1> USE DEF InCall, OneCall, OrphansAreInterrupted
  <1>0. /\ pc \in [Runs -> {"free", "promote", "load", "channels", "orphan"}]
        /\ blastOf \in [Runs -> Blasts \cup {NoBlast}]
    BY DEF TypeInv, TypeOK
  <1>1. CASE UNCHANGED <<processing, pc, blastOf, interrupted>>
    BY <1>1
  <1>2. ASSUME NEW r \in Runs, Poll(r), MayPoll PROVE OneCall' /\ OrphansAreInterrupted'
    <2>1. /\ ~processing /\ processing' = TRUE /\ interrupted' = interrupted
          /\ \E st \in {"load", "promote"} : pc' = [pc EXCEPT ![r] = st]
          /\ \A q \in Runs : q # r => blastOf'[q] = blastOf[q]
      BY <1>0, <1>2 DEF Poll, MayPoll
    <2> QED  BY <1>0, <2>1
  <1>3. ASSUME NEW r \in Runs, Return(r), InCall(r), interrupted' = interrupted
        PROVE  OneCall' /\ OrphansAreInterrupted'
    BY <1>0, <1>3 DEF Return, FreeSlot
  <1>4. ASSUME NEW r \in Runs, InCall(r), UNCHANGED <<processing, blastOf, interrupted>>,
               \E st \in {"promote", "load", "channels"} : pc' = [pc EXCEPT ![r] = st]
        PROVE  OneCall' /\ OrphansAreInterrupted'
    BY <1>0, <1>4
  <1>5. ASSUME NEW r \in Runs, Promote(r) PROVE OneCall' /\ OrphansAreInterrupted'
    <2>1. InCall(r) /\ interrupted' = interrupted  BY <1>5 DEF Promote
    <2>2. \/ Return(r)
          \/ /\ UNCHANGED <<processing, blastOf>>
             /\ \E st \in {"promote", "load"} : pc' = [pc EXCEPT ![r] = st]
      BY <1>5 DEF Promote
    <2> QED  BY <1>3, <1>4, <2>1, <2>2
  <1>6. ASSUME NEW r \in Runs, Load(r) PROVE OneCall' /\ OrphansAreInterrupted'
    <2>1. InCall(r) /\ interrupted' = interrupted  BY <1>6 DEF Load
    <2>2. \/ Return(r)
          \/ UNCHANGED <<processing, blastOf>> /\ pc' = [pc EXCEPT ![r] = "channels"]
      BY <1>6 DEF Load
    <2> QED  BY <1>3, <1>4, <2>1, <2>2
  <1>7. ASSUME NEW r \in Runs, Finish(r) PROVE OneCall' /\ OrphansAreInterrupted'
    BY <1>3, <1>7 DEF Finish
  <1>8. ASSUME NEW r \in Runs, Reject(r) PROVE OneCall' /\ OrphansAreInterrupted'
    BY <1>0, <1>8 DEF Reject, queueVars
  <1>9. ASSUME NEW r \in Runs, OrphanEnds(r) \/ QueryFails(r)
        PROVE  OneCall' /\ OrphansAreInterrupted'
    <2>1. CASE OrphanEnds(r)  BY <1>0, <2>1 DEF OrphanEnds, FreeSlot
    <2>2. CASE QueryFails(r)  BY <1>3, <2>2 DEF QueryFails
    <2> QED  BY <1>9, <2>1, <2>2
  <1>10. ASSUME NEW r \in Runs,
               \/ \E ch \in Channels : QueueStep(r, ch)
               \/ \E s \in Subscribers : RecipientStep(r, s)
         PROVE  UNCHANGED <<processing, pc, blastOf, interrupted>>
    BY <1>10 DEF QueueStep, StartBatch, EndBatch, CheckCancelled, QueueFails,
           RecipientStep, Send, Record, RecordFails
  <1>11. CASE Restart
    BY <1>11 DEF Restart
  <1>12. CASE UNCHANGED copyVars
    BY <1>1, <1>12 DEF copyVars
  <1> QED  BY <1>1, <1>2, <1>5, <1>6, <1>7, <1>8, <1>9, <1>10, <1>11, <1>12, AdminChange
              DEF Next, RunStep, CallFails, QueueStep, RecipientStep, Poll

\* What the steps of a queue do to the batch of each recipient.
LEMMA BatchesStayAwaited ==
    ASSUME TypeInv, BatchesAreAwaited, [Next]_vars
    PROVE  BatchesAreAwaited'
  <1> USE DEF BatchesAreAwaited, Settled
  <1>0. /\ pc \in [Runs -> {"free", "promote", "load", "channels", "orphan"}]
        /\ worker \in [Runs -> [Channels ->
                          {"none", "check", "batch", "sending", "done", "failed"}]]
        /\ inflight \in [Runs -> [Subscribers -> Waits]]
        /\ left \in [Runs -> SUBSET Subscribers]
    BY DEF TypeInv, TypeOK
  <1>1. CASE UNCHANGED <<left, worker, inflight>>
    BY <1>1
  <1>2. ASSUME NEW r \in Runs, FreeSlot(r) PROVE BatchesAreAwaited'
    BY <1>0, <1>2 DEF FreeSlot
  <1>3. ASSUME NEW r \in Runs, NEW ch \in Channels, inflight' = inflight, left' = left,
               NEW w, worker' = [worker EXCEPT ![r][ch] = w],
               \A s \in Subscribers : Channel[s] = ch => Settled(r, s)
        PROVE  BatchesAreAwaited'
    BY <1>0, <1>3
  <1>4. ASSUME NEW r \in Runs, Load(r) PROVE BatchesAreAwaited'
    <2>1. CASE Return(r)   BY <1>2, <2>1 DEF Return
    <2>2. CASE ~Return(r)
      <3>1. /\ inflight' = inflight
            /\ \A q \in Runs : q # r => worker'[q] = worker[q] /\ left'[q] = left[q]
        BY <1>0, <1>4, <2>2 DEF Load
      <3>2. \A s \in Subscribers : inflight[r][s] = "none"
        BY <1>4 DEF Load, TypeInv, QueuesAreInRuns, Empty
      <3> QED  BY <3>1, <3>2
    <2> QED  BY <2>1, <2>2
  <1>5. ASSUME NEW r \in Runs, NEW ch \in Channels, StartBatch(r, ch) PROVE BatchesAreAwaited'
    <2>1. \A s \in Subscribers : Channel[s] = ch => Settled(r, s)
      BY <1>5 DEF StartBatch
    <2>2. CASE index[r][ch] = 0 /\ ch \notin enabled
      BY <1>3, <1>5, <2>1, <2>2 DEF StartBatch
    <2>3. CASE ~(index[r][ch] = 0 /\ ch \notin enabled)
      <3>1. PICK batch \in SUBSET Recipients(r, ch) :
              /\ left' = [left EXCEPT ![r] = left[r] \ batch]
              /\ inflight' = [inflight EXCEPT ![r] = [s \in Subscribers |->
                                IF s \in batch THEN "send" ELSE inflight[r][s]]]
              /\ worker' = [worker EXCEPT ![r][ch] = "sending"]
        BY <1>5, <2>3 DEF StartBatch
      <3>2. \A s \in batch : Channel[s] = ch
        BY DEF Recipients
      <3> QED  BY <1>0, <3>1, <3>2
    <2> QED  BY <2>2, <2>3
  <1>6. ASSUME NEW r \in Runs, NEW ch \in Channels, EndBatch(r, ch) PROVE BatchesAreAwaited'
    BY <1>3, <1>6 DEF EndBatch
  <1>7. ASSUME NEW r \in Runs, NEW ch \in Channels, CheckCancelled(r, ch) \/ QueueFails(r, ch)
        PROVE  BatchesAreAwaited'
    <2>1. \A s \in Subscribers : Channel[s] = ch => Settled(r, s)
      BY <1>7 DEF CheckCancelled, QueueFails
    <2>2. /\ inflight' = inflight /\ left' = left
          /\ \E w \in {"failed", "done", "batch"} : worker' = [worker EXCEPT ![r][ch] = w]
      BY <1>7 DEF CheckCancelled, QueueFails
    <2> QED  BY <1>3, <2>1, <2>2
  <1>8. ASSUME NEW r \in Runs, NEW s \in Subscribers, RecipientStep(r, s)
        PROVE  BatchesAreAwaited'
    <2>1. ~Settled(r, s) /\ worker' = worker /\ left' = left
      BY <1>8 DEF RecipientStep, Send, Record, RecordFails
    <2>2. PICK st \in Waits : inflight' = [inflight EXCEPT ![r][s] = st]
      BY <1>8 DEF RecipientStep, Send, Record, RecordFails, Waits
    <2> QED  BY <1>0, <2>1, <2>2
  <1>9. ASSUME NEW r \in Runs, Poll(r) \/ Promote(r) \/ Finish(r) \/ Reject(r) \/ OrphanEnds(r)
                             \/ QueryFails(r)
        PROVE  BatchesAreAwaited'
    BY <1>1, <1>2, <1>9
       DEF Poll, Promote, Finish, Reject, OrphanEnds, QueryFails, Return, queueVars
  <1>10. CASE Restart
    BY <1>10 DEF Restart
  <1>11. CASE UNCHANGED copyVars
    BY <1>1, <1>11 DEF copyVars
  <1> QED  BY <1>4, <1>5, <1>6, <1>7, <1>8, <1>9, <1>10, <1>11, AdminChange DEF Next, RunStep, CallFails, QueueStep, RecipientStep

\* A run sends what has no copy, and is not over before it has recorded what it sent.
LEMMA CopiesStayRecorded ==
    ASSUME TypeInv, CopyInv, [Next]_vars
    PROVE  UnsentHaveNoCopy' /\ CopiesAreRecorded'
  <1> DEFINE Goal == UnsentHaveNoCopy' /\ CopiesAreRecorded'
  <1>0. /\ pc \in [Runs -> {"free", "promote", "load", "channels", "orphan"}]
        /\ blastOf \in [Runs -> Blasts \cup {NoBlast}]
        /\ left \in [Runs -> SUBSET Subscribers]
        /\ worker \in [Runs -> [Channels ->
                          {"none", "check", "batch", "sending", "done", "failed"}]]
        /\ inflight \in [Runs -> [Subscribers -> Waits]]
        /\ delivery \in [Blasts -> [Subscribers -> {"none", "sent", "failed"}]]
        /\ copies \in [Blasts -> [Subscribers -> 0 .. 2]]
    BY DEF TypeInv, TypeOK
  <1>00. /\ \A r \in Runs : pc[r] # "free" => blastOf[r] \in Blasts
         /\ \A q, r \in Runs : pc[q] = "channels" /\ pc[r] = "channels" => q = r
    BY DEF TypeInv, RunsHaveBlasts, CopyInv, OneCall, InCall
  <1> USE DEF CopyInv, UnsentHaveNoCopy, CopiesAreRecorded, Traced, Unsent, Unrecorded
  <1>1. CASE UNCHANGED <<pc, blastOf, left, inflight, delivery, copies, interrupted, unrecorded>>
    BY <1>1
  <1>2. ASSUME NEW r \in Runs, pc'[r] # "channels",
               pc[r] = "channels" => \A s \in Subscribers : ~Unrecorded(r, s),
               \A q \in Runs : q # r => /\ pc'[q] = pc[q] /\ blastOf'[q] = blastOf[q]
                                        /\ left'[q] = left[q] /\ inflight'[q] = inflight[q],
               UNCHANGED <<delivery, copies, interrupted, unrecorded>>
        PROVE  Goal
    <2>1. UnsentHaveNoCopy'
      <3> SUFFICES ASSUME NEW q \in Runs, NEW s \in Subscribers, pc'[q] = "channels",
                          Traced(blastOf'[q], s), Unsent(q, s)'
                   PROVE  copies[blastOf'[q]][s] = 0
        BY <1>2
      <3> QED  BY <1>2
    <2>2. CopiesAreRecorded'
      <3> SUFFICES ASSUME NEW b \in Blasts, NEW s \in Subscribers,
                          NEW q \in Runs, pc[q] = "channels", blastOf[q] = b, Unrecorded(q, s)
                   PROVE  pc'[q] = "channels" /\ blastOf'[q] = b /\ Unrecorded(q, s)'
        BY <1>2
      <3> QED  BY <1>2
    <2> QED  BY <2>1, <2>2
  <1>3. ASSUME NEW r \in Runs, FreeSlot(r), UNCHANGED <<delivery, copies, interrupted, unrecorded>>,
               pc[r] = "channels" => \A s \in Subscribers : ~Unrecorded(r, s)
        PROVE  Goal
    <2>1. /\ pc'[r] = "free"
          /\ \A q \in Runs : q # r => /\ pc'[q] = pc[q] /\ blastOf'[q] = blastOf[q]
                                      /\ left'[q] = left[q] /\ inflight'[q] = inflight[q]
      BY <1>0, <1>3 DEF FreeSlot
    <2> QED  BY <1>2, <1>3, <2>1
  <1>4. ASSUME NEW r \in Runs, Poll(r) PROVE Goal
    <2>1. pc[r] = "free" /\ pc'[r] \in {"load", "promote"}
      BY <1>0, <1>4 DEF Poll
    <2>2. /\ UNCHANGED <<left, inflight, delivery, copies, interrupted, unrecorded>>
          /\ \A q \in Runs : q # r => pc'[q] = pc[q] /\ blastOf'[q] = blastOf[q]
      BY <1>0, <1>4 DEF Poll, queueVars, dbVars, troubleVars
    <2> QED  BY <1>2, <2>1, <2>2
  <1>5. ASSUME NEW r \in Runs, Promote(r) PROVE Goal
    <2>1. pc[r] = "promote" /\ UNCHANGED <<delivery, copies, interrupted, unrecorded>>
      BY <1>5 DEF Promote, troubleVars
    <2>2. CASE Return(r)   BY <1>3, <2>1, <2>2 DEF Return
    <2>3. CASE ~Return(r)  BY <1>0, <1>2, <1>5, <2>1, <2>3 DEF Promote, queueVars, troubleVars
    <2> QED  BY <2>2, <2>3
  <1>6. ASSUME NEW r \in Runs, Load(r) PROVE Goal
    <2>1. pc[r] = "load" /\ UNCHANGED <<delivery, copies, interrupted, unrecorded>>
      BY <1>6 DEF Load, troubleVars
    <2>2. CASE Return(r)   BY <1>3, <2>1, <2>2 DEF Return
    <2>3. CASE ~Return(r)
      <3>1. /\ pc' = [pc EXCEPT ![r] = "channels"] /\ blastOf' = blastOf /\ inflight' = inflight
            /\ \A q \in Runs : q # r => left'[q] = left[q]
            /\ \A s \in left'[r] : s \in Subscribers /\ delivery[blastOf[r]][s] = "none"
        BY <1>0, <1>6, <2>3 DEF Load, Delivered, TypeInv, TypeOK
      <3>2. /\ \A s \in Subscribers : inflight[r][s] = "none"
            /\ \A q \in Runs : pc[q] # "channels"
        BY <2>1 DEF TypeInv, QueuesAreInRuns, Empty, OneCall, InCall
      <3> QED  BY <1>0, <1>00, <2>1, <3>1, <3>2
    <2> QED  BY <2>2, <2>3
  <1>7. ASSUME NEW r \in Runs, NEW ch \in Channels, StartBatch(r, ch) PROVE Goal
    <2>1. UNCHANGED <<pc, blastOf, delivery, copies, interrupted, unrecorded>>
      BY <1>7 DEF StartBatch, dbVars, troubleVars
    <2>2. CASE index[r][ch] = 0 /\ ch \notin enabled
      BY <1>1, <1>7, <2>1, <2>2 DEF StartBatch
    <2>3. CASE ~(index[r][ch] = 0 /\ ch \notin enabled)
      <3>1. PICK batch \in SUBSET Recipients(r, ch) :
              /\ left' = [left EXCEPT ![r] = left[r] \ batch]
              /\ inflight' = [inflight EXCEPT ![r] = [s \in Subscribers |->
                                IF s \in batch THEN "send" ELSE inflight[r][s]]]
        <4> HIDE DEF CopyInv, UnsentHaveNoCopy, CopiesAreRecorded
        <4> QED  BY <1>7, <2>3 DEF StartBatch
      <3>2. batch \subseteq left[r]
        BY DEF Recipients
      <3> QED  BY <1>0, <2>1, <3>1, <3>2
    <2> QED  BY <2>2, <2>3
  <1>8. ASSUME NEW r \in Runs, NEW ch \in Channels, EndBatch(r, ch) \/ CheckCancelled(r, ch)
                                                  \/ QueueFails(r, ch)
        PROVE  Goal
    BY <1>1, <1>8 DEF EndBatch, CheckCancelled, QueueFails, dbVars, troubleVars
  <1>9. ASSUME NEW r \in Runs, NEW s \in Subscribers, Send(r, s) PROVE Goal
    <2>0. blastOf[r] \in Blasts /\ pc[r] \in {"channels", "orphan"}
      BY <1>9, <1>00 DEF Send, TypeInv, QueuesAreInRuns, Empty
    <2>1. /\ inflight[r][s] = "send"
          /\ UNCHANGED <<pc, blastOf, left, delivery, interrupted, unrecorded>>
      BY <1>9 DEF Send, dbVars, troubleVars
    <2>2. PICK n \in 0 .. 2, st \in {"sent", "failed"} :
            /\ copies' = [copies EXCEPT ![blastOf[r]][s] = n]
            /\ inflight' = [inflight EXCEPT ![r][s] = st]
            /\ n = copies[blastOf[r]][s] \/ n = copies[blastOf[r]][s] + 1
      <3>1. copies[blastOf[r]][s] \in 0 .. 2  BY <1>0, <2>0
      <3>2. PICK accepted \in BOOLEAN, success \in BOOLEAN :
              /\ copies' = [copies EXCEPT ![blastOf[r]][s] =
                    IF accepted /\ copies[blastOf[r]][s] < 2
                    THEN copies[blastOf[r]][s] + 1 ELSE copies[blastOf[r]][s]]
              /\ inflight' = [inflight EXCEPT ![r][s] = IF success THEN "sent" ELSE "failed"]
        BY <1>9 DEF Send
      <3>3. CASE accepted /\ copies[blastOf[r]][s] < 2
        <4>1. copies[blastOf[r]][s] + 1 \in 0 .. 2  BY <3>1, <3>3
        <4>2. copies' = [copies EXCEPT ![blastOf[r]][s] = copies[blastOf[r]][s] + 1]
          BY <3>2, <3>3
        <4> QED  BY <3>2, <4>1, <4>2
      <3>4. CASE ~(accepted /\ copies[blastOf[r]][s] < 2)
        BY <3>1, <3>2, <3>4
      <3> QED  BY <3>3, <3>4
    <2>3. CASE ~Traced(blastOf[r], s)
      BY <1>0, <1>00, <2>0, <2>1, <2>2, <2>3
    <2>4. CASE Traced(blastOf[r], s)
      <3>1. pc[r] = "channels"  BY <2>0, <2>4 DEF OrphansAreInterrupted
      <3>2. copies[blastOf[r]][s] = 0  BY <2>1, <2>4, <3>1
      <3>3. \A q \in Runs : pc[q] = "channels" => q = r  BY <1>00, <3>1
      <3>4. UnsentHaveNoCopy'
        <4>1. s \notin left[r]  BY <2>1 DEF BatchesAreAwaited
        <4> QED  BY <1>0, <2>0, <2>1, <2>2, <3>3, <4>1
      <3>5. ASSUME NEW b \in Blasts, NEW d \in Subscribers, Traced(b, d)
            PROVE  \/ copies'[b][d] = 0
                   \/ /\ copies'[b][d] = 1
                      /\ \/ delivery[b][d] # "none"
                         \/ /\ blastOf[r] = b
                            /\ inflight'[r][d] \in {"sent", "failed"}
        <4>1. CASE b = blastOf[r] /\ d = s
          BY <1>0, <2>0, <2>2, <3>2, <4>1
        <4>2. CASE ~(b = blastOf[r] /\ d = s)
          <5>1. copies'[b][d] = copies[b][d]  BY <1>0, <2>0, <2>2, <4>2
          <5>2. \A e \in Subscribers : e # s => inflight'[r][e] = inflight[r][e]
            BY <1>0, <2>2
          <5>3. \/ copies[b][d] = 0
                \/ /\ copies[b][d] = 1
                   /\ \/ delivery[b][d] # "none"
                      \/ \E q \in Runs : /\ pc[q] = "channels" /\ blastOf[q] = b
                                         /\ inflight[q][d] \in {"sent", "failed"}
            BY <3>5
          <5>4. \A q \in Runs : pc[q] = "channels" /\ blastOf[q] = b
                                 /\ inflight[q][d] \in {"sent", "failed"} => q = r /\ d # s
            BY <2>1, <3>3, <4>2
          <5> QED  BY <3>3, <5>1, <5>2, <5>3, <5>4
        <4> QED  BY <4>1, <4>2
      <3> QED  BY <2>1, <3>1, <3>4, <3>5
    <2> QED  BY <2>3, <2>4
  <1>10. ASSUME NEW r \in Runs, NEW s \in Subscribers, Record(r, s) PROVE Goal
    <2>0. blastOf[r] \in Blasts
      BY <1>10, <1>00 DEF Record, TypeInv, QueuesAreInRuns, Empty
    <2>1. /\ Unrecorded(r, s)
          /\ UNCHANGED <<pc, blastOf, left, copies, interrupted, unrecorded>>
          /\ inflight' = [inflight EXCEPT ![r][s] = "none"]
      BY <1>10 DEF Record, troubleVars
    <2>2. /\ delivery'[blastOf[r]][s] # "none"
          /\ \A b \in Blasts, d \in Subscribers :
               delivery[b][d] # "none" => delivery'[b][d] # "none"
      BY <1>0, <1>10, <2>0 DEF Record
    <2>3. UnsentHaveNoCopy'
      BY <1>0, <2>1
    <2>4. CopiesAreRecorded'
      <3>1. \A q \in Runs, d \in Subscribers :
              ~(q = r /\ d = s) => inflight'[q][d] = inflight[q][d]
        BY <1>0, <2>1
      <3>2. ASSUME NEW b \in Blasts, NEW d \in Subscribers,
                   NEW q \in Runs, pc[q] = "channels", blastOf[q] = b, Unrecorded(q, d)
            PROVE  \/ delivery'[b][d] # "none"
                   \/ pc'[q] = "channels" /\ blastOf'[q] = b /\ Unrecorded(q, d)'
        <4>1. CASE q = r /\ d = s     BY <2>2, <3>2, <4>1
        <4>2. CASE ~(q = r /\ d = s)  BY <2>1, <3>1, <3>2, <4>2
        <4> QED  BY <4>1, <4>2
      <3> QED  BY <2>1, <2>2, <3>2
    <2> QED  BY <2>3, <2>4
  <1>11. ASSUME NEW r \in Runs, Finish(r) PROVE Goal
    <2>1. \A s \in Subscribers : ~Unrecorded(r, s)
      BY <1>11 DEF Finish, AllQueuesDone, BatchesAreAwaited, Settled
    <2> QED  BY <1>3, <1>11, <2>1 DEF Finish, Return, troubleVars
  <1>12. ASSUME NEW r \in Runs, Reject(r) PROVE Goal
    BY <1>0, <1>12 DEF Reject, queueVars, dbVars, troubleVars
  <1>13. ASSUME NEW r \in Runs, OrphanEnds(r) PROVE Goal
    BY <1>3, <1>13 DEF OrphanEnds, dbVars, troubleVars
  <1>14. CASE Restart
    BY <1>0, <1>14 DEF Restart, dbVars
  <1>15. CASE UNCHANGED copyVars
    BY <1>1, <1>15 DEF copyVars
  <1>16. ASSUME NEW r \in Runs, QueryFails(r) PROVE Goal
    <2>1. \A s \in Subscribers : ~Unrecorded(r, s)
      BY <1>16 DEF QueryFails, AllQueuesDone, BatchesAreAwaited, Settled, TypeInv,
                   QueuesAreInRuns, Empty
    <2> QED  BY <1>3, <1>16, <2>1 DEF QueryFails, Return, dbVars
  <1>17. ASSUME NEW r \in Runs, NEW s \in Subscribers, RecordFails(r, s) PROVE Goal
    <2>0. blastOf[r] \in Blasts
      BY <1>17, <1>00 DEF RecordFails, TypeInv, QueuesAreInRuns, Empty
    <2>1. UNCHANGED <<pc, blastOf, left, delivery, copies, interrupted>>
      BY <1>17 DEF RecordFails, dbVars
    <2>2. /\ inflight[r][s] \in {"sent", "failed"}
          /\ \/ /\ inflight[r][s] = "sent" /\ unrecorded' = unrecorded
                /\ inflight' = [inflight EXCEPT ![r][s] = "failed"]
             \/ /\ inflight' = [inflight EXCEPT ![r][s] = "lost"]
                /\ unrecorded' = [unrecorded EXCEPT ![blastOf[r]] =
                                     unrecorded[blastOf[r]] \cup {s}]
      <3> HIDE DEF CopyInv, UnsentHaveNoCopy, CopiesAreRecorded
      <3> QED  BY <1>17 DEF RecordFails
    <2>7. unrecorded \in [Blasts -> SUBSET Subscribers]
      BY DEF TypeInv, TypeOK
    <2>8. \A q \in Runs, d \in Subscribers : inflight'[q][d] = "send" => inflight[q][d] = "send"
      <3>1. PICK st \in {"failed", "lost"} : inflight' = [inflight EXCEPT ![r][s] = st]
        BY <2>2
      <3> HIDE DEF CopyInv, UnsentHaveNoCopy, CopiesAreRecorded
      <3> QED  BY <1>0, <3>1
    <2>3. \A b \in Blasts, d \in Subscribers : Traced(b, d)' => Traced(b, d)
      <3> HIDE DEF CopyInv, UnsentHaveNoCopy, CopiesAreRecorded
      <3> QED  BY <2>0, <2>1, <2>2, <2>7
    <2>4. ASSUME NEW q \in Runs, NEW d \in Subscribers, Unrecorded(q, d), Traced(blastOf[q], d)'
          PROVE  Unrecorded(q, d)'
      <3> HIDE DEF CopyInv, UnsentHaveNoCopy, CopiesAreRecorded
      <3>1. CASE q = r /\ d = s     BY <1>0, <2>0, <2>1, <2>2, <2>4, <2>7, <3>1
      <3>2. CASE ~(q = r /\ d = s)  BY <1>0, <2>2, <2>4, <3>2
      <3> QED  BY <3>1, <3>2
    <2>5. UnsentHaveNoCopy'
      BY <1>00, <2>1, <2>8, <2>3
    <2>6. CopiesAreRecorded'
      BY <2>1, <2>3, <2>4
    <2> QED  BY <2>5, <2>6
  <1> QED  BY <1>16, <1>17, <1>4, <1>5, <1>6, <1>7, <1>8, <1>9, <1>10, <1>11, <1>12, <1>13, <1>14, <1>15,
              AdminChange DEF Next, RunStep, CallFails, QueueStep, RecipientStep

\* Nobody gets a blast twice unless a run of it was cut off or rejected or his delivery could
\* not be stored, for any number of polls, restarts, failures and cancellations.
THEOREM NoCopyWithoutInterruption == Spec => []CopiesNeedAnInterruption
  <1>1. Init => CopyInv
    BY DEF Init, NoRun, CopyInv, OneCall, InCall, OrphansAreInterrupted, BatchesAreAwaited,
           UnsentHaveNoCopy, Unsent, CopiesAreRecorded, Settled
  <1>2. TypeInv /\ CopyInv /\ [Next]_vars => CopyInv'
    BY CallsFollowEachOther, BatchesStayAwaited, CopiesStayRecorded DEF CopyInv
  <1>3. CopyInv => CopiesNeedAnInterruption
    BY DEF CopyInv, CopiesAreRecorded, Traced, CopiesNeedAnInterruption
  <1> QED  BY <1>1, <1>2, <1>3, SpecTypeInv, PTL DEF Spec

-------------------------------------------------------------------------------
(* Who is served by a blast that was sent *)

\* Whoever was eligible when the run was loaded is delivered, in a batch or waits
\* for one, unless he cannot be reached.
EligibleAreSeen ==
    \A r \in Runs, s \in Subscribers :
      pc[r] = "channels" /\ s \in eligible[r] =>
        \/ Channel[s] = NoChannel
        \/ s \in left[r]
        \/ inflight[r][s] # "none"
        \/ delivery[blastOf[r]][s] # "none"

\* The queue of a recipient who is left goes on until it fails or finds the blast
\* cancelled.
QueuesGoOn ==
    \A r \in Runs, s \in Subscribers :
      s \in left[r] =>
        /\ Channel[s] \in Channels
        /\ worker[r][Channel[s]] # "none"
        /\ worker[r][Channel[s]] = "done" => wasCancelled[r]

ServiceInv == BatchesAreAwaited /\ EligibleAreSeen /\ QueuesGoOn

\* What decides who is served.
serviceVars == <<pc, blastOf, eligible, left, worker, inflight, wasCancelled, delivery>>

\* No request and no change of the settings touches it.
LEMMA AdminKeepsService ==
    ASSUME \/ \E b \in Blasts : SendRead(b) \/ ScheduleRead(b) \/ Cancel(b) \/ Delete(b)
           \/ \E b \in Blasts, request \in Requests : StatusWrite(b, request)
           \/ \E s \in Subscribers : OptOutOrIn(s)
           \/ \E ch \in Channels : ToggleChannel(ch)
           \/ UNCHANGED vars
    PROVE  UNCHANGED serviceVars
  BY DEF SendRead, ScheduleRead, Cancel, Delete, StatusWrite, OptOutOrIn, ToggleChannel, vars,
         serviceVars, dbVars, runVars, queueVars

-------------------------------------------------------------------------------
(* The queues of a run do not leave anybody behind *)

\* The steps of a queue end it when nobody is left, or with the blast cancelled.
LEMMA QueuesStayOn ==
    ASSUME TypeInv, QueuesGoOn, [Next]_vars
    PROVE  QueuesGoOn'
  <1> USE DEF QueuesGoOn
  <1>0. /\ left \in [Runs -> SUBSET Subscribers]
        /\ worker \in [Runs -> [Channels ->
                          {"none", "check", "batch", "sending", "done", "failed"}]]
        /\ wasCancelled \in [Runs -> BOOLEAN]
    BY DEF TypeInv, TypeOK
  <1>1. CASE UNCHANGED <<left, worker, wasCancelled>>
    BY <1>1
  <1>2. ASSUME NEW r \in Runs, FreeSlot(r) PROVE QueuesGoOn'
    <2>1. /\ left'[r] = {}
          /\ \A q \in Runs : q # r => /\ left'[q] = left[q] /\ worker'[q] = worker[q]
                                      /\ wasCancelled'[q] = wasCancelled[q]
      BY <1>0, <1>2 DEF FreeSlot
    <2> QED  BY <2>1
  <1>3. ASSUME NEW r \in Runs, Load(r) PROVE QueuesGoOn'
    <2>1. CASE Return(r)   BY <1>2, <2>1 DEF Return
    <2>2. CASE ~Return(r)
      <3>1. PICK remaining \in SUBSET Subscribers :
              /\ \A s \in remaining : Channel[s] # NoChannel
              /\ left' = [left EXCEPT ![r] = remaining]
              /\ worker' = [worker EXCEPT ![r] = [ch \in Channels |->
                    IF \E s \in remaining : Channel[s] = ch THEN "batch" ELSE "none"]]
              /\ wasCancelled' = wasCancelled
        <4> DEFINE R == {s \in subscribed : s \notin Delivered(blastOf[r])
                                            /\ Channel[s] # NoChannel}
        <4>1. R \in SUBSET Subscribers  BY DEF TypeInv, TypeOK
        <4>2. /\ left' = [left EXCEPT ![r] = R]
              /\ worker' = [worker EXCEPT ![r] = [ch \in Channels |->
                    IF \E s \in R : Channel[s] = ch THEN "batch" ELSE "none"]]
              /\ wasCancelled' = wasCancelled
          BY <1>3, <2>2 DEF Load
        <4> QED  BY <4>1, <4>2
      <3>2. ASSUME NEW s \in remaining PROVE Channel[s] \in Channels
        BY <3>1, s \in Subscribers, ChannelAssumption
      <3>3. \A s \in remaining : worker'[r][Channel[s]] = "batch"
        BY <1>0, <3>1, <3>2
      <3> QED  BY <1>0, <3>1, <3>2, <3>3
    <2> QED  BY <2>1, <2>2
  <1>4. ASSUME NEW r \in Runs, NEW ch \in Channels, NEW w, w \notin {"none", "done"},
               \A s \in left'[r] : s \in left[r],
               \A q \in Runs : q # r => left'[q] = left[q],
               worker' = [worker EXCEPT ![r][ch] = w], wasCancelled' = wasCancelled
        PROVE  QueuesGoOn'
    BY <1>0, <1>4
  <1>5. ASSUME NEW r \in Runs, NEW ch \in Channels, StartBatch(r, ch) PROVE QueuesGoOn'
    <2>0. wasCancelled' = wasCancelled  BY <1>5 DEF StartBatch
    <2>1. CASE index[r][ch] = 0 /\ ch \notin enabled
      <3>1. left' = left /\ worker' = [worker EXCEPT ![r][ch] = "failed"]
        BY <1>5, <2>1 DEF StartBatch
      <3> QED  BY <1>4, <2>0, <3>1
    <2>2. CASE ~(index[r][ch] = 0 /\ ch \notin enabled)
      <3>1. PICK batch \in SUBSET Recipients(r, ch) :
              /\ left' = [left EXCEPT ![r] = left[r] \ batch]
              /\ worker' = [worker EXCEPT ![r][ch] = "sending"]
        BY <1>5, <2>2 DEF StartBatch
      <3>2. /\ \A s \in left'[r] : s \in left[r]
            /\ \A q \in Runs : q # r => left'[q] = left[q]
        BY <1>0, <3>1
      <3> QED  BY <1>4, <2>0, <3>1, <3>2
    <2> QED  BY <2>1, <2>2
  <1>6. ASSUME NEW r \in Runs, NEW ch \in Channels, EndBatch(r, ch) PROVE QueuesGoOn'
    <2>1. left' = left /\ wasCancelled' = wasCancelled
      BY <1>6 DEF EndBatch
    <2>2. CASE Recipients(r, ch) = {}
      <3>1. worker' = [worker EXCEPT ![r][ch] = "done"]
        BY <1>6, <2>2 DEF EndBatch
      <3>2. \A s \in left[r] : Channel[s] # ch
        BY <2>2 DEF Recipients
      <3> QED  BY <1>0, <2>1, <3>1, <3>2
    <2>3. CASE Recipients(r, ch) # {}
      <3>1. PICK w \in {"check", "batch"} : worker' = [worker EXCEPT ![r][ch] = w]
        BY <1>6, <2>3 DEF EndBatch
      <3> QED  BY <1>4, <2>1, <3>1
    <2> QED  BY <2>2, <2>3
  <1>12. ASSUME NEW r \in Runs, NEW ch \in Channels, QueueFails(r, ch) PROVE QueuesGoOn'
    <2>1. /\ left' = left /\ wasCancelled' = wasCancelled
          /\ worker' = [worker EXCEPT ![r][ch] = "failed"]
      BY <1>12 DEF QueueFails
    <2> QED  BY <1>4, <2>1
  <1>7. ASSUME NEW r \in Runs, NEW ch \in Channels, CheckCancelled(r, ch) PROVE QueuesGoOn'
    <2>1. PICK w \in {"failed", "done", "batch"} :
            /\ worker' = [worker EXCEPT ![r][ch] = w]
            /\ w = "done" => status[blastOf[r]] = "cancelled"
      BY <1>7 DEF CheckCancelled, HasRow
    <2>2. /\ left' = left
          /\ \A q \in Runs : wasCancelled[q] => wasCancelled'[q]
          /\ status[blastOf[r]] = "cancelled" => wasCancelled'[r]
      BY <1>0, <1>7 DEF CheckCancelled
    <2> QED  BY <1>0, <2>1, <2>2
  <1>8. ASSUME NEW r \in Runs, NEW s \in Subscribers, RecipientStep(r, s)
        PROVE  QueuesGoOn'
    BY <1>1, <1>8 DEF RecipientStep, Send, Record, RecordFails
  <1>9. ASSUME NEW r \in Runs, Poll(r) \/ Promote(r) \/ Finish(r) \/ Reject(r) \/ OrphanEnds(r)
                             \/ QueryFails(r)
        PROVE  QueuesGoOn'
    BY <1>1, <1>2, <1>9
       DEF Poll, Promote, Finish, Reject, OrphanEnds, QueryFails, Return, queueVars
  <1>10. CASE Restart
    BY <1>10 DEF Restart
  <1>11. CASE UNCHANGED serviceVars
    BY <1>1, <1>11 DEF serviceVars
  <1> QED  BY <1>3, <1>5, <1>6, <1>7, <1>8, <1>9, <1>10, <1>11, <1>12, AdminKeepsService
              DEF Next, RunStep, CallFails, QueueStep, RecipientStep

\* A recipient goes from the list to a batch, and from there to a delivery that stays.
LEMMA EligibleStaySeen ==
    ASSUME TypeInv, EligibleAreSeen, [Next]_vars
    PROVE  EligibleAreSeen'
  <1> USE DEF EligibleAreSeen
  <1>0. /\ pc \in [Runs -> {"free", "promote", "load", "channels", "orphan"}]
        /\ blastOf \in [Runs -> Blasts \cup {NoBlast}]
        /\ eligible \in [Runs -> SUBSET Subscribers]
        /\ left \in [Runs -> SUBSET Subscribers]
        /\ inflight \in [Runs -> [Subscribers -> Waits]]
        /\ delivery \in [Blasts -> [Subscribers -> {"none", "sent", "failed"}]]
        /\ \A r \in Runs : pc[r] # "free" => blastOf[r] \in Blasts
    BY DEF TypeInv, TypeOK, RunsHaveBlasts
  <1>1. CASE UNCHANGED <<pc, blastOf, eligible, left, inflight, delivery>>
    BY <1>1
  <1>2. ASSUME NEW r \in Runs, pc'[r] # "channels", delivery' = delivery,
               \A q \in Runs : q # r => /\ pc'[q] = pc[q] /\ blastOf'[q] = blastOf[q]
                                        /\ eligible'[q] = eligible[q]
                                        /\ left'[q] = left[q] /\ inflight'[q] = inflight[q]
        PROVE  EligibleAreSeen'
    BY <1>2
  <1>3. ASSUME NEW r \in Runs, FreeSlot(r), delivery' = delivery PROVE EligibleAreSeen'
    BY <1>0, <1>2, <1>3 DEF FreeSlot
  <1>4. ASSUME NEW r \in Runs, Poll(r) PROVE EligibleAreSeen'
    <2>1. pc'[r] \in {"load", "promote"}
      BY <1>0, <1>4 DEF Poll
    <2> QED  BY <1>0, <1>2, <1>4, <2>1 DEF Poll, queueVars, dbVars
  <1>5. ASSUME NEW r \in Runs, Promote(r) PROVE EligibleAreSeen'
    <2>1. pc[r] = "promote" /\ delivery' = delivery
      BY <1>5 DEF Promote
    <2>2. CASE Return(r)   BY <1>3, <2>1, <2>2 DEF Return
    <2>3. CASE ~Return(r)  BY <1>0, <1>2, <1>5, <2>1, <2>3 DEF Promote, queueVars
    <2> QED  BY <2>2, <2>3
  <1>6. ASSUME NEW r \in Runs, Load(r) PROVE EligibleAreSeen'
    <2>1. pc[r] = "load" /\ delivery' = delivery
      BY <1>6 DEF Load
    <2>2. CASE Return(r)   BY <1>3, <2>1, <2>2 DEF Return
    <2>3. CASE ~Return(r)
      <3>1. /\ UNCHANGED <<blastOf, inflight>>
            /\ pc' = [pc EXCEPT ![r] = "channels"]
            /\ eligible' = [eligible EXCEPT ![r] = subscribed]
            /\ left' = [left EXCEPT ![r] =
                  {s \in subscribed : s \notin Delivered(blastOf[r]) /\ Channel[s] # NoChannel}]
        BY <1>6, <2>3 DEF Load
      <3>2. ASSUME NEW s \in eligible'[r]
            PROVE  Channel[s] = NoChannel \/ s \in left'[r] \/ delivery[blastOf[r]][s] # "none"
        BY <1>0, <3>1, <3>2 DEF Delivered, TypeInv, TypeOK
      <3>3. \A q \in Runs : q # r => /\ pc'[q] = pc[q] /\ eligible'[q] = eligible[q]
                                     /\ left'[q] = left[q]
        BY <1>0, <3>1
      <3> QED  BY <2>1, <3>1, <3>2, <3>3
    <2> QED  BY <2>2, <2>3
  <1>7. ASSUME NEW r \in Runs, NEW ch \in Channels, StartBatch(r, ch) PROVE EligibleAreSeen'
    <2>1. UNCHANGED <<pc, blastOf, eligible, delivery>>
      BY <1>7 DEF StartBatch, dbVars
    <2>2. CASE index[r][ch] = 0 /\ ch \notin enabled
      BY <1>1, <1>7, <2>1, <2>2 DEF StartBatch
    <2>3. CASE ~(index[r][ch] = 0 /\ ch \notin enabled)
      <3>1. PICK batch \in SUBSET Recipients(r, ch) :
              /\ left' = [left EXCEPT ![r] = left[r] \ batch]
              /\ inflight' = [inflight EXCEPT ![r] = [s \in Subscribers |->
                                IF s \in batch THEN "send" ELSE inflight[r][s]]]
        <4> HIDE DEF EligibleAreSeen
        <4> QED  BY <1>7, <2>3 DEF StartBatch
      <3>2. \A q \in Runs, s \in Subscribers :
              /\ inflight[q][s] # "none" => inflight'[q][s] # "none"
              /\ s \in left[q] => s \in left'[q] \/ inflight'[q][s] # "none"
        BY <1>0, <3>1
      <3> QED  BY <2>1, <3>2
    <2> QED  BY <2>2, <2>3
  <1>8. ASSUME NEW r \in Runs, NEW ch \in Channels, EndBatch(r, ch) \/ CheckCancelled(r, ch)
                                                  \/ QueueFails(r, ch)
        PROVE  EligibleAreSeen'
    BY <1>1, <1>8 DEF EndBatch, CheckCancelled, QueueFails, dbVars
  <1>9. ASSUME NEW r \in Runs, NEW s \in Subscribers, Send(r, s) \/ RecordFails(r, s)
        PROVE  EligibleAreSeen'
    <2>1. /\ UNCHANGED <<pc, blastOf, eligible, left, delivery>>
          /\ \E st \in {"sent", "failed", "lost"} : inflight' = [inflight EXCEPT ![r][s] = st]
      BY <1>9 DEF Send, RecordFails, dbVars
    <2>2. \A q \in Runs, d \in Subscribers :
            inflight[q][d] # "none" => inflight'[q][d] # "none"
      BY <1>0, <2>1
    <2> QED  BY <2>1, <2>2
  <1>10. ASSUME NEW r \in Runs, NEW s \in Subscribers, Record(r, s) PROVE EligibleAreSeen'
    <2>1. /\ UNCHANGED <<pc, blastOf, eligible, left>>
          /\ inflight' = [inflight EXCEPT ![r][s] = "none"]
      BY <1>10 DEF Record
    <2>2. blastOf[r] \in Blasts
      BY <1>0, <1>10 DEF Record, TypeInv, QueuesAreInRuns, Empty
    <2>3. /\ delivery'[blastOf[r]][s] # "none"
          /\ \A b \in Blasts, d \in Subscribers :
               delivery[b][d] # "none" => delivery'[b][d] # "none"
      BY <1>0, <1>10, <2>2 DEF Record
    <2>4. ASSUME NEW q \in Runs, NEW d \in Subscribers, pc[q] = "channels",
                 inflight[q][d] # "none" \/ delivery[blastOf[q]][d] # "none"
          PROVE  inflight'[q][d] # "none" \/ delivery'[blastOf[q]][d] # "none"
      <3>1. CASE q = r /\ d = s     BY <2>3, <3>1
      <3>2. CASE ~(q = r /\ d = s)  BY <1>0, <2>1, <2>3, <2>4, <3>2
      <3> QED  BY <3>1, <3>2
    <2> QED  BY <2>1, <2>4
  <1>11. ASSUME NEW r \in Runs, Finish(r) \/ OrphanEnds(r) \/ QueryFails(r)
        PROVE  EligibleAreSeen'
    BY <1>3, <1>11 DEF Finish, OrphanEnds, QueryFails, Return, dbVars
  <1>12. ASSUME NEW r \in Runs, Reject(r) PROVE EligibleAreSeen'
    BY <1>0, <1>2, <1>12 DEF Reject, queueVars, dbVars
  <1>13. CASE Restart
    BY <1>13 DEF Restart
  <1>14. CASE UNCHANGED serviceVars
    BY <1>1, <1>14 DEF serviceVars
  <1> QED  BY <1>4, <1>5, <1>6, <1>7, <1>8, <1>9, <1>10, <1>11, <1>12, <1>13, <1>14,
              AdminKeepsService DEF Next, RunStep, CallFails, QueueStep, RecipientStep

-------------------------------------------------------------------------------
(* Who is served *)

\* Every reachable state has the invariant of the service.
LEMMA SpecServiceInv == Spec => []ServiceInv
  <1>1. Init => ServiceInv
    BY DEF Init, NoRun, ServiceInv, BatchesAreAwaited, Settled, EligibleAreSeen, QueuesGoOn
  <1>2. TypeInv /\ ServiceInv /\ [Next]_vars => ServiceInv'
    BY BatchesStayAwaited, QueuesStayOn, EligibleStaySeen DEF ServiceInv
  <1> QED  BY <1>1, <1>2, SpecTypeInv, PTL DEF Spec

\* A run with queues returns by finishing; a restart or a query that ends it otherwise
\* leaves every status alone.
LEMMA RunsFinish ==
    ASSUME TypeInv, [Next]_vars, NEW r \in Runs, pc[r] = "channels", pc'[r] = "free"
    PROVE  Finish(r) \/ status' = status
  <1>0. pc \in [Runs -> {"free", "promote", "load", "channels", "orphan"}]
    BY DEF TypeInv, TypeOK
  <1>1. CASE pc' = pc  BY <1>1
  <1>2. ASSUME NEW q \in Runs, Poll(q) \/ Promote(q) \/ Load(q) \/ Reject(q) \/ OrphanEnds(q)
        PROVE  FALSE
    <2>1. pc[q] # "channels" \/ pc'[q] = "orphan"
      BY <1>0, <1>2 DEF Poll, Promote, Load, Reject, OrphanEnds
    <2>2. \A p \in Runs : p # q => pc'[p] = pc[p]
      BY <1>0, <1>2 DEF Poll, Promote, Load, Reject, OrphanEnds, Return, FreeSlot
    <2> QED  BY <2>1, <2>2
  <1>3. ASSUME NEW q \in Runs, Finish(q) PROVE Finish(r)
    <2>1. q = r  BY <1>0, <1>3 DEF Finish, Return, FreeSlot
    <2> QED  BY <1>3, <2>1
  <1>4. ASSUME NEW q \in Runs,
               \/ \E ch \in Channels : QueueStep(q, ch)
               \/ \E s \in Subscribers : RecipientStep(q, s)
        PROVE  pc' = pc
    BY <1>4 DEF QueueStep, StartBatch, EndBatch, CheckCancelled, QueueFails,
           RecipientStep, Send, Record, RecordFails
  <1>5. ASSUME Restart \/ \E q \in Runs : QueryFails(q) PROVE status' = status
    BY <1>5 DEF Restart, QueryFails, dbVars
  <1>6. CASE UNCHANGED serviceVars
    BY <1>1, <1>6 DEF serviceVars
  <1> QED  BY <1>1, <1>2, <1>3, <1>4, <1>5, <1>6, AdminKeepsService DEF Next, RunStep, CallFails, QueueStep, RecipientStep

\* Everybody who was eligible is delivered at that step, has no channel, or was tried
\* without a delivery that could be stored.
FinishServes ==
    \A r \in Runs :
      (/\ pc[r] = "channels" /\ pc'[r] = "free"
       /\ status[blastOf[r]] # "sent" /\ status'[blastOf[r]] = "sent")
        => \A s \in eligible[r] :
             \/ Channel[s] = NoChannel
             \/ s \in Delivered(blastOf[r])
             \/ inflight[r][s] = "lost"

\* A blast becomes 'sent' only when everybody eligible was served, or tried by that run
\* without a delivery that could be stored, for any number of channels, recipients and
\* failures, and whatever orphaned queues of other runs do.
THEOREM SentIsServed == Spec => SentMeansServed
  <1>1. TypeInv /\ ServiceInv /\ [Next]_vars => FinishServes
    <2> SUFFICES ASSUME TypeInv, ServiceInv, [Next]_vars, NEW r \in Runs,
                        pc[r] = "channels", pc'[r] = "free",
                        status[blastOf[r]] # "sent", status'[blastOf[r]] = "sent",
                        NEW s \in eligible[r], Channel[s] # NoChannel, inflight[r][s] # "lost"
                 PROVE  s \in Delivered(blastOf[r])
      BY DEF FinishServes
    <2>1. Finish(r)
      BY RunsFinish
    <2>2. AllQueuesDone(r) /\ ~wasCancelled[r]
      BY <2>1 DEF Finish
    <2>3. s \in Subscribers
      BY DEF TypeInv, TypeOK
    <2>4. s \notin left[r]
      BY <2>2, <2>3 DEF ServiceInv, QueuesGoOn, AllQueuesDone
    <2>5. inflight[r][s] = "none"
      BY <2>2, <2>3 DEF ServiceInv, BatchesAreAwaited, Settled, AllQueuesDone
    <2> QED  BY <2>3, <2>4, <2>5 DEF ServiceInv, EligibleAreSeen, Delivered
  <1> QED  BY <1>1, SpecTypeInv, SpecServiceInv, PTL DEF Spec, SentMeansServed, FinishServes

-------------------------------------------------------------------------------
(* A cancelled blast's queues stop within a batch *)

\* Multiplication, as far as the batches need it.
LEMMA Products ==
    \A a, b, c \in Int :
      /\ a * b \in Int
      /\ a * (b * c) = (a * b) * c /\ a * (b + c) = a * b + a * c /\ a * (b - c) = a * b - a * c
      /\ a > 0 /\ a * b < a * c => b < c
      /\ a >= 0 /\ b <= c => a * b <= a * c
OBVIOUS

LEMMA Division ==
    \A a \in Nat, b \in Nat \ {0} :
      \E q \in Int, r \in 0..(b - 1) : a = b * q + r /\ a % b = r
<1> TAKE a \in Nat, b \in Nat \ {0}
<1>1. a % b = a - b * (a \div b)
  OBVIOUS
<1>2. a % b \in 0..(b - 1) /\ a \div b \in Int
  OBVIOUS
<1> DEFINE q == a \div b
           r == a % b
<1>3. r = a - b * q /\ r \in 0..(b - 1) /\ q \in Int
  BY <1>1, <1>2
<1> HIDE DEF q, r
<1>4. a = b * q + r
  BY <1>3
<1> QED
  BY <1>3, <1>4 DEF r

LEMMA RemainderOf ==
    ASSUME NEW a \in Nat, NEW b \in Nat \ {0}, NEW q \in Int, NEW r \in 0..(b - 1), a = b * q + r
    PROVE  a % b = r
  <1>1. (b * q + r) % b = r
    <2>1. b * q + r \in Nat  OBVIOUS
    <2> QED  BY <2>1
  <1> QED  BY <1>1

\* Multiples of c stay c away from the next multiple of b, or reach it.
LEMMA BatchRemainders ==
    ASSUME NEW c \in Nat \ {0}, NEW b \in Nat \ {0}, b % c = 0,
           NEW i \in Nat, i % c = 0
    PROVE  /\ (i + c) % c = 0
           /\ (i % b) + c <= b
           /\ (i + c) % b # 0 => (i + c) % b = (i % b) + c
<1>1. PICK p \in Int : b = c * p
  BY Division
<1>2. PICK k \in Int : i = c * k
  BY Division
<1>3. PICK q \in Int, r \in 0..(b - 1) : i = b * q + r /\ i % b = r
  BY Division
<1>4. (i + c) % c = 0
  <2>1. i + c = c * (k + 1) + 0 /\ k + 1 \in Int /\ i + c \in Nat /\ 0 \in 0..(c - 1)
    BY <1>2, Products
  <2> QED
    BY <2>1, RemainderOf
<1>5. r = c * (k - p * q)
  <2>1. b * q = c * (p * q)
    BY <1>1, Products
  <2>2. p * q \in Int
    BY Products
  <2>3. c * k - c * (p * q) = c * (k - p * q)
    BY <2>2, Products
  <2>4. c * k \in Int /\ c * (p * q) \in Int
    BY <2>2, Products
  <2> QED
    BY <1>2, <1>3, <2>1, <2>3, <2>4
<1>6. r + c <= b
  <2> DEFINE m == k - p * q
  <2>1. m \in Int
    BY Products
  <2> HIDE DEF m
  <2>2. c * m < c * p
    BY <1>1, <1>3, <1>5 DEF m
  <2>3. m + 1 <= p
    BY <2>1, <2>2, Products
  <2>4. c * (m + 1) <= c * p /\ c * (m + 1) = c * m + c
    BY <2>1, <2>3, Products
  <2> QED
    BY <1>1, <1>5, <2>4 DEF m
<1>7. ASSUME (i + c) % b # 0 PROVE (i + c) % b = r + c
  <2>0. i + c \in Nat /\ q + 1 \in Int
    OBVIOUS
  <2>1. CASE r + c = b
    <3>1. i + c = b * (q + 1) + 0 /\ 0 \in 0..(b - 1)
      BY <1>3, <2>1, Products
    <3>2. (i + c) % b = 0
      BY <2>0, <3>1, RemainderOf
    <3> QED
      BY <1>7, <3>2
  <2>2. CASE r + c < b
    <3>1. i + c = b * q + (r + c) /\ r + c \in 0..(b - 1)
      BY <1>3, <2>2, Products
    <3> QED
      BY <2>0, <3>1, RemainderOf
  <2> QED
    BY <1>3, <1>6, <2>1, <2>2
<1> QED
  BY <1>3, <1>4, <1>6, <1>7

\* The recipients counted are those of the batch since the last check: they are no
\* more than the queue has started of it.
Bounded(r, ch) ==
    /\ pc[r] \notin {"channels", "orphan"} => index[r][ch] = 0 /\ late[r][ch] = 0
    /\ index[r][ch] % Concurrency = 0
    /\ late[r][ch] <= BatchSize
    /\ worker[r][ch] = "batch" => late[r][ch] <= index[r][ch] % BatchSize
    /\ worker[r][ch] = "sending" => late[r][ch] <= (index[r][ch] % BatchSize) + Concurrency

LateIsBounded == \A r \in Runs, ch \in Channels : Bounded(r, ch)

\* What decides whether a queue is bounded.
lateVars == <<pc, worker, index, late>>

LEMMA AdminKeepsLate ==
    ASSUME \/ \E b \in Blasts : SendRead(b) \/ ScheduleRead(b) \/ Cancel(b) \/ Delete(b)
           \/ \E b \in Blasts, request \in Requests : StatusWrite(b, request)
           \/ \E s \in Subscribers : OptOutOrIn(s)
           \/ \E ch \in Channels : ToggleChannel(ch)
           \/ UNCHANGED vars
    PROVE  UNCHANGED lateVars
  BY DEF SendRead, ScheduleRead, Cancel, Delete, StatusWrite, OptOutOrIn, ToggleChannel, vars,
         lateVars, dbVars, runVars, queueVars

\* A queue that has just been set up, or is gone.
LEMMA FreshIsBounded ==
    ASSUME NEW r \in Runs, NEW ch \in Channels, index'[r][ch] = 0, late'[r][ch] = 0
    PROVE  Bounded(r, ch)'
  <1>1. 0 % Concurrency = 0 /\ 0 % BatchSize = 0 /\ BatchSize \in Nat /\ Concurrency \in Nat
    BY SizesAssumption
  <1> QED  BY <1>1 DEF Bounded

\* The steps of a queue.
LEMMA QueueStaysBounded ==
    ASSUME TypeInv, NEW r \in Runs, NEW ch \in Channels, Bounded(r, ch),
           QueueStep(r, ch)
    PROVE  Bounded(r, ch)'
  <1>1. /\ Concurrency \in Nat \ {0} /\ BatchSize \in Nat \ {0} /\ BatchSize % Concurrency = 0
        /\ index \in [Runs -> [Channels -> Nat]] /\ late \in [Runs -> [Channels -> Nat]]
        /\ worker \in [Runs -> [Channels ->
                         {"none", "check", "batch", "sending", "done", "failed"}]]
        /\ left \in [Runs -> SUBSET Subscribers]
    BY SizesAssumption DEF TypeInv, TypeOK
  <1>2. pc[r] \in {"channels", "orphan"} /\ pc' = pc
    <2>1. worker[r][ch] # "none" /\ pc' = pc
      BY DEF QueueStep, StartBatch, EndBatch, CheckCancelled, QueueFails
    <2> QED  BY <2>1 DEF TypeInv, QueuesAreInRuns, Empty
  <1> DEFINE i == index[r][ch]
             l == late[r][ch]
  <1>3. /\ i \in Nat /\ l \in Nat /\ i % Concurrency = 0 /\ l <= BatchSize
        /\ worker[r][ch] = "batch" => l <= i % BatchSize
        /\ worker[r][ch] = "sending" => l <= (i % BatchSize) + Concurrency
    BY <1>1 DEF Bounded
  <1>4. /\ (i + Concurrency) % Concurrency = 0
        /\ (i % BatchSize) + Concurrency <= BatchSize
        /\ (i + Concurrency) % BatchSize # 0
             => (i + Concurrency) % BatchSize = (i % BatchSize) + Concurrency
    BY <1>1, <1>3, BatchRemainders
  <1>5. i % BatchSize \in Nat
    BY <1>1, <1>3
  <1>6. CASE StartBatch(r, ch)
    <2>1. index'[r][ch] = i /\ worker[r][ch] = "batch"
      BY <1>6 DEF StartBatch
    <2>2. CASE worker' = [worker EXCEPT ![r][ch] = "failed"] /\ late' = late
      BY <1>1, <1>2, <1>3, <2>1, <2>2 DEF Bounded
    <2>3. ASSUME NEW batch \in SUBSET Recipients(r, ch), Cardinality(batch) <= Concurrency,
                 worker' = [worker EXCEPT ![r][ch] = "sending"],
                 late' = [late EXCEPT ![r][ch] = IF status[blastOf[r]] = "cancelled"
                                                 THEN l + Cardinality(batch) ELSE l]
          PROVE  Bounded(r, ch)'
      <3>1. Cardinality(batch) \in Nat
        BY <1>1, CountsAreNat DEF Recipients
      <3>2. late'[r][ch] <= (i % BatchSize) + Concurrency /\ worker'[r][ch] = "sending"
        BY <1>1, <1>3, <1>5, <2>1, <2>3, <3>1
      <3>3. late'[r][ch] \in Nat
        BY <1>1, <1>3, <2>3, <3>1
      <3> QED  BY <1>1, <1>2, <1>3, <1>4, <1>5, <2>1, <3>2, <3>3 DEF Bounded
    <2>4. ASSUME NEW batch \in SUBSET Recipients(r, ch),
                 \/ Cardinality(batch) = Concurrency
                 \/ batch = Recipients(r, ch) /\ Cardinality(batch) < Concurrency
          PROVE  Cardinality(batch) <= Concurrency
      <3>1. Cardinality(batch) \in Nat
        BY <1>1, CountsAreNat DEF Recipients
      <3> QED  BY <1>1, <2>4, <3>1
    <2> QED  BY <1>6, <2>2, <2>3, <2>4 DEF StartBatch
  <1>7. CASE EndBatch(r, ch)
    <2>1. /\ worker[r][ch] = "sending" /\ late' = late
          /\ index'[r][ch] = i + Concurrency
      BY <1>1, <1>7 DEF EndBatch
    <2>2. /\ worker'[r][ch] \in {"done", "check", "batch"}
          /\ worker'[r][ch] = "batch" => (i + Concurrency) % BatchSize # 0
      BY <1>1, <1>7 DEF EndBatch
    <2> QED  BY <1>2, <1>3, <1>4, <1>5, <2>1, <2>2 DEF Bounded
  <1>8. CASE CheckCancelled(r, ch)
    <2>1. /\ index'[r][ch] = i
          /\ worker'[r][ch] \in {"failed", "done", "batch"}
          /\ late'[r][ch] = IF worker'[r][ch] = "done" THEN l ELSE 0
      BY <1>1, <1>8 DEF CheckCancelled, HasRow
    <2> QED  BY <1>1, <1>2, <1>3, <1>5, <2>1 DEF Bounded
  <1>9. CASE QueueFails(r, ch)
    <2>1. index' = index /\ late' = late /\ worker'[r][ch] = "failed"
      BY <1>1, <1>9 DEF QueueFails
    <2> QED  BY <1>2, <1>3, <2>1 DEF Bounded
  <1> QED  BY <1>6, <1>7, <1>8, <1>9 DEF QueueStep

LEMMA QueuesStayBounded ==
    ASSUME TypeInv, LateIsBounded, [Next]_vars, NEW r \in Runs, NEW ch \in Channels
    PROVE  Bounded(r, ch)'
  <1>0. /\ pc \in [Runs -> {"free", "promote", "load", "channels", "orphan"}]
        /\ index \in [Runs -> [Channels -> Nat]] /\ late \in [Runs -> [Channels -> Nat]]
        /\ worker \in [Runs -> [Channels ->
                         {"none", "check", "batch", "sending", "done", "failed"}]]
    BY DEF TypeInv, TypeOK
  <1>1. Bounded(r, ch)
    BY DEF LateIsBounded
  \* A step that leaves this queue alone.
  <1>2. ASSUME index'[r][ch] = index[r][ch], late'[r][ch] = late[r][ch],
               worker'[r][ch] = worker[r][ch],
               \/ pc'[r] = pc[r]
               \/ pc'[r] \in {"channels", "orphan"}
               \/ pc[r] \notin {"channels", "orphan"}
        PROVE  Bounded(r, ch)'
    BY <1>1, <1>2 DEF Bounded
  <1>3. ASSUME NEW q \in Runs, FreeSlot(q), pc'[r] = pc[r] \/ q = r PROVE Bounded(r, ch)'
    <2>1. CASE q = r
      <3>1. index'[r][ch] = 0 /\ late'[r][ch] = 0
        BY <1>0, <1>3, <2>1 DEF FreeSlot
      <3> QED  BY <3>1, FreshIsBounded
    <2>2. CASE q # r
      BY <1>0, <1>2, <1>3, <2>2 DEF FreeSlot
    <2> QED  BY <2>1, <2>2
  <1>4. ASSUME NEW q \in Runs, Load(q) PROVE Bounded(r, ch)'
    <2>1. CASE Return(q)
      BY <1>0, <1>3, <2>1 DEF Return, FreeSlot
    <2>2. CASE ~Return(q)
      <3>1. index' = index /\ late' = late /\ pc[q] = "load"
        BY <1>4, <2>2 DEF Load
      <3>2. CASE q = r
        BY <1>1, <3>1, <3>2, FreshIsBounded DEF Bounded
      <3>3. CASE q # r
        <4>1. worker'[r] = worker[r] /\ pc'[r] = pc[r]
          BY <1>0, <1>4, <2>2, <3>3 DEF Load
        <4> QED  BY <1>2, <3>1, <4>1
      <3> QED  BY <3>2, <3>3
    <2> QED  BY <2>1, <2>2
  <1>5. ASSUME NEW q \in Runs, NEW d \in Channels, QueueStep(q, d)
        PROVE  Bounded(r, ch)'
    <2>1. CASE q = r /\ d = ch
      BY <1>1, <1>5, <2>1, QueueStaysBounded
    <2>2. CASE ~(q = r /\ d = ch)
      <3>1. CASE StartBatch(q, d)
        BY <1>0, <1>2, <2>2, <3>1 DEF StartBatch
      <3>2. CASE EndBatch(q, d)
        BY <1>0, <1>2, <2>2, <3>2 DEF EndBatch
      <3>3. CASE CheckCancelled(q, d)
        BY <1>0, <1>2, <2>2, <3>3 DEF CheckCancelled
      <3>4. CASE QueueFails(q, d)
        BY <1>0, <1>2, <2>2, <3>4 DEF QueueFails
      <3> QED  BY <1>5, <3>1, <3>2, <3>3, <3>4 DEF QueueStep
    <2> QED  BY <2>1, <2>2
  <1>6. ASSUME NEW q \in Runs, NEW s \in Subscribers, RecipientStep(q, s)
        PROVE  Bounded(r, ch)'
    BY <1>2, <1>6 DEF RecipientStep, Send, Record, RecordFails
  <1>7. ASSUME NEW q \in Runs, Poll(q) \/ Promote(q) \/ Finish(q) \/ Reject(q) \/ OrphanEnds(q)
                             \/ QueryFails(q)
        PROVE  Bounded(r, ch)'
    <2>1. CASE Poll(q)        BY <1>0, <1>2, <2>1 DEF Poll, queueVars
    <2>2. CASE Promote(q)
      BY <1>0, <1>2, <1>3, <2>2 DEF Promote, Return, FreeSlot, queueVars
    <2>3. CASE Finish(q)      BY <1>0, <1>3, <2>3 DEF Finish, Return, FreeSlot
    <2>4. CASE Reject(q)      BY <1>0, <1>2, <2>4 DEF Reject, queueVars
    <2>5. CASE OrphanEnds(q)  BY <1>0, <1>3, <2>5 DEF OrphanEnds, FreeSlot
    <2>6. CASE QueryFails(q)  BY <1>0, <1>3, <2>6 DEF QueryFails, Return, FreeSlot
    <2> QED  BY <1>7, <2>1, <2>2, <2>3, <2>4, <2>5, <2>6
  <1>8. CASE Restart
    <2>1. index'[r][ch] = 0 /\ late'[r][ch] = 0
      BY <1>8 DEF Restart
    <2> QED  BY <2>1, FreshIsBounded
  <1>9. CASE UNCHANGED lateVars
    BY <1>2, <1>9 DEF lateVars
  <1> QED  BY <1>4, <1>5, <1>6, <1>7, <1>8, <1>9, AdminKeepsLate DEF Next, RunStep, CallFails, QueueStep, RecipientStep

\* Wherever a cancellation hits a run, each of its queues starts at most one more
\* batch of BATCH_SIZE, for any sizes of which CONCURRENCY divides BATCH_SIZE.
THEOREM CancelledWithinABatch == Spec => []CancellationTakesABatch
  <1>1. Init => LateIsBounded
    <2>1. 0 % Concurrency = 0 /\ BatchSize \in Nat
      BY SizesAssumption
    <2> QED  BY <2>1 DEF Init, NoRun, LateIsBounded, Bounded
  <1>2. TypeInv /\ LateIsBounded /\ [Next]_vars => LateIsBounded'
    BY QueuesStayBounded DEF LateIsBounded
  <1>3. LateIsBounded => CancellationTakesABatch
    BY DEF LateIsBounded, Bounded, CancellationTakesABatch
  <1> QED  BY <1>1, <1>2, <1>3, SpecTypeInv, PTL DEF Spec
===============================================================================
