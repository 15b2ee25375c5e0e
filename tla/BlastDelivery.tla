----------------------------- MODULE BlastDelivery -----------------------------
(***************************************************************************)
(* Broadcast messages: the REST handlers of routes/blasts.ts that move a   *)
(* blast through its states, the polling BlastProcessor of                 *)
(* jobs/blast-processor.ts, and the blasts, blast_deliveries and           *)
(* subscribers tables behind services/blasts.ts.                           *)
(*                                                                         *)
(* One call of processOnce occupies a slot of Runs until nothing of it     *)
(* executes any more: when one channel queue rejects, Promise.all rejects  *)
(* and the call returns, but its other queues keep sending.                *)
(*                                                                         *)
(* External: the messaging provider behind an adapter, which accepts a     *)
(* message or not, and may accept one whose answer is lost.                *)
(***************************************************************************)
EXTENDS Integers, FiniteSets

CONSTANTS
    Blasts,
    Subscribers,     \* those that match the targeting of every blast
    Channels,        \* messaging channel types
    Channel,         \* selectChannel: the channel of each subscriber, or NoChannel
    EnabledChannels, \* channels an adapter can be made for at the start
    Concurrency,     \* CONCURRENCY, messages of a queue sent together
    BatchSize,       \* BATCH_SIZE, recipients between two cancellation checks
    MaxRuns,         \* BOUND on calls of processOnce with something still running
    MaxTroubles,     \* BOUND on crashes and shutdowns of the server and failures of its database
    MaxChanges,      \* BOUND on changes of subscriptions and of the channel settings
    MaxRequests,     \* BOUND on requests of one kind for a blast at the same time
    NoBlast, NoChannel

ASSUME SizesAssumption ==
    /\ IsFiniteSet(Subscribers)
    /\ Concurrency \in Nat \ {0} /\ BatchSize \in Nat \ {0}
    /\ BatchSize % Concurrency = 0
    /\ MaxRuns \in Nat \ {0} /\ MaxTroubles \in Nat /\ MaxChanges \in Nat /\ MaxRequests \in Nat

ASSUME ChannelAssumption ==
    /\ NoBlast \notin Blasts /\ NoChannel \notin Channels
    /\ Channel \in [Subscribers -> Channels \cup {NoChannel}]
    /\ EnabledChannels \subseteq Channels

Runs == 1 .. MaxRuns

VARIABLES
    \* database
    status,     \* blasts.status, "none" once the row is deleted
    sentStat,   \* blasts.stats.sent
    delivery,   \* blast_deliveries.status of each subscriber, "none" without a row
    subscribed, \* subscribers with status 'active'
    enabled,    \* channels getMessagingAdapter makes an adapter for
    changes,
    writes,     \* requests in flight of each kind that have still to write the status
    \* BlastProcessor
    processing, \* its flag
    pc,         \* where each call of processOnce is
    blastOf,    \* its toProcess
    promote,    \* scheduled blasts it has still to promote
    eligible,   \* its local `eligible`
    left,       \* recipients its queues have not started
    worker,     \* where each of its channel queues is
    index,      \* `i` of each queue
    inflight,   \* what each recipient of the batches waits for; "lost" without a delivery
    sentCount,
    wasCancelled,
    \* the provider, and observations about the run
    copies,      \* messages the provider accepted: 0, 1, or 2 for several
    interrupted, \* blasts with a run that was rejected or cut off
    unrecorded,  \* subscribers a blast was tried for whose delivery could not be stored
    late,        \* recipients a queue started on a cancelled blast since its last check
    troubles

dbVars == <<status, sentStat, delivery>>
adminVars == <<subscribed, enabled, changes>>
queueVars == <<left, worker, index, inflight, sentCount, wasCancelled, late>>
runVars == <<processing, pc, blastOf, promote, eligible, queueVars>>
troubleVars == <<troubles, unrecorded>>
vars == <<status, sentStat, delivery, subscribed, enabled, changes, writes, processing,
          pc, blastOf, promote, eligible, left, worker, index, inflight, sentCount,
          wasCancelled, copies, interrupted, unrecorded, late, troubles>>

Status == {"none", "draft", "scheduled", "sending", "sent", "failed", "cancelled"}
Requests == {"send", "schedule"}
Waits == {"none", "send", "sent", "failed", "lost"}

TypeOK ==
    /\ status \in [Blasts -> Status]
    /\ sentStat \in [Blasts -> Nat]
    /\ delivery \in [Blasts -> [Subscribers -> {"none", "sent", "failed"}]]
    /\ subscribed \subseteq Subscribers
    /\ enabled \subseteq Channels
    /\ changes \in Nat
    /\ writes \in [Blasts -> [Requests -> Nat]]
    /\ processing \in BOOLEAN
    /\ pc \in [Runs -> {"free", "promote", "load", "channels", "orphan"}]
    /\ blastOf \in [Runs -> Blasts \cup {NoBlast}]
    /\ promote \in [Runs -> SUBSET Blasts]
    /\ eligible \in [Runs -> SUBSET Subscribers]
    /\ left \in [Runs -> SUBSET Subscribers]
    /\ worker \in [Runs -> [Channels -> {"none", "check", "batch", "sending", "done", "failed"}]]
    /\ index \in [Runs -> [Channels -> Nat]]
    /\ inflight \in [Runs -> [Subscribers -> Waits]]
    /\ sentCount \in [Runs -> Nat]
    /\ wasCancelled \in [Runs -> BOOLEAN]
    /\ copies \in [Blasts -> [Subscribers -> 0 .. 2]]
    /\ interrupted \subseteq Blasts
    /\ unrecorded \in [Blasts -> SUBSET Subscribers]
    /\ late \in [Runs -> [Channels -> Nat]]
    /\ troubles \in Nat

NoRun ==
    /\ processing = FALSE
    /\ pc = [r \in Runs |-> "free"]
    /\ blastOf = [r \in Runs |-> NoBlast]
    /\ promote = [r \in Runs |-> {}]
    /\ eligible = [r \in Runs |-> {}]
    /\ left = [r \in Runs |-> {}]
    /\ worker = [r \in Runs |-> [ch \in Channels |-> "none"]]
    /\ index = [r \in Runs |-> [ch \in Channels |-> 0]]
    /\ inflight = [r \in Runs |-> [s \in Subscribers |-> "none"]]
    /\ sentCount = [r \in Runs |-> 0]
    /\ wasCancelled = [r \in Runs |-> FALSE]
    /\ late = [r \in Runs |-> [ch \in Channels |-> 0]]

Init ==
    /\ status = [b \in Blasts |-> "draft"]
    /\ sentStat = [b \in Blasts |-> 0]
    /\ delivery = [b \in Blasts |-> [s \in Subscribers |-> "none"]]
    /\ subscribed \in SUBSET Subscribers
    /\ enabled = EnabledChannels
    /\ changes = 0
    /\ writes = [b \in Blasts |-> [request \in Requests |-> 0]]
    /\ NoRun
    /\ copies = [b \in Blasts |-> [s \in Subscribers |-> 0]]
    /\ interrupted = {}
    /\ unrecorded = [b \in Blasts |-> {}]
    /\ troubles = 0

-------------------------------------------------------------------------------
(* The rows *)

HasRow(b) == status[b] # "none"

\* Mutant of SetStatus: the final status has another name.
SetOtherStatus(b, st) ==
    status' = [status EXCEPT ![b] = IF @ = "none" THEN @
                                    ELSE IF st = "sent" THEN "completed" ELSE st]

\* updateBlast: a missing row makes it throw, whatever else the status was is replaced.
SetStatus(b, st) == status' = [status EXCEPT ![b] = IF @ = "none" THEN @ ELSE st]

\* getDeliveredSubscriberIds: a failed delivery counts as well.
Delivered(b) == {s \in Subscribers : delivery[b][s] # "none"}

\* The server stops, or a call to its database throws.
Trouble == troubles < MaxTroubles /\ troubles' = troubles + 1

Recipients(r, ch) == {s \in left[r] : Channel[s] = ch}

-------------------------------------------------------------------------------
(* The administrators' requests: /send and /schedule read the status first and *)
(* write later, /cancel only wants the row to be there.                        *)

SendRead(b) ==
    /\ status[b] \in {"draft", "scheduled"}
    /\ writes[b]["send"] < MaxRequests
    /\ writes' = [writes EXCEPT ![b]["send"] = @ + 1]
    /\ UNCHANGED <<dbVars, adminVars, runVars, copies, interrupted, troubleVars>>

ScheduleRead(b) ==
    /\ status[b] = "draft"
    /\ writes[b]["schedule"] < MaxRequests
    /\ writes' = [writes EXCEPT ![b]["schedule"] = @ + 1]
    /\ UNCHANGED <<dbVars, adminVars, runVars, copies, interrupted, troubleVars>>

StatusWrite(b, request) ==
    /\ writes[b][request] > 0
    /\ SetStatus(b, IF request = "send" THEN "sending" ELSE "scheduled")
    /\ writes' = [writes EXCEPT ![b][request] = @ - 1]
    /\ UNCHANGED <<sentStat, delivery, adminVars, runVars, copies, interrupted, troubleVars>>

Cancel(b) ==
    /\ HasRow(b)
    /\ SetStatus(b, "cancelled")
    /\ UNCHANGED <<sentStat, delivery, adminVars, writes, runVars, copies, interrupted, troubleVars>>

\* deleteBlast leaves the deliveries behind.
Delete(b) ==
    /\ HasRow(b)
    /\ status' = [status EXCEPT ![b] = "none"]
    /\ UNCHANGED <<sentStat, delivery, adminVars, writes, runVars, copies, interrupted, troubleVars>>

\* STOP, and joining again.
OptOutOrIn(s) ==
    /\ changes < MaxChanges
    /\ changes' = changes + 1
    /\ subscribed' = IF s \in subscribed THEN subscribed \ {s} ELSE subscribed \cup {s}
    /\ UNCHANGED <<dbVars, enabled, writes, runVars, copies, interrupted, troubleVars>>

\* An administrator changes the hub's messaging settings.
ToggleChannel(ch) ==
    /\ changes < MaxChanges
    /\ changes' = changes + 1
    /\ enabled' = IF ch \in enabled THEN enabled \ {ch} ELSE enabled \cup {ch}
    /\ UNCHANGED <<dbVars, subscribed, writes, runVars, copies, interrupted, troubleVars>>

-------------------------------------------------------------------------------
(* processOnce *)

\* The call is over and nothing of it is left.
FreeSlot(r) ==
    /\ pc' = [pc EXCEPT ![r] = "free"]
    /\ blastOf' = [blastOf EXCEPT ![r] = NoBlast]
    /\ promote' = [promote EXCEPT ![r] = {}]
    /\ eligible' = [eligible EXCEPT ![r] = {}]
    /\ left' = [left EXCEPT ![r] = {}]
    /\ worker' = [worker EXCEPT ![r] = [ch \in Channels |-> "none"]]
    /\ index' = [index EXCEPT ![r] = [ch \in Channels |-> 0]]
    /\ inflight' = [inflight EXCEPT ![r] = [s \in Subscribers |-> "none"]]
    /\ sentCount' = [sentCount EXCEPT ![r] = 0]
    /\ wasCancelled' = [wasCancelled EXCEPT ![r] = FALSE]
    /\ late' = [late EXCEPT ![r] = [ch \in Channels |-> 0]]

\* Mutant of Return: without the finally block.
ReturnStillProcessing(r) == processing' = processing /\ FreeSlot(r)

\* The finally block.
Return(r) == processing' = FALSE /\ FreeSlot(r)

\* Mutant of MayPoll: the flag is not looked at.
PollAnyway == TRUE

MayPoll == ~processing

\* findBlastsToProcess returns the sending blasts and the scheduled ones that are
\* due, in no particular order; a sending one is processed first.
Poll(r) ==
    /\ MayPoll
    /\ pc[r] = "free" /\ \A q \in 1 .. r - 1 : pc[q] # "free"
    /\ LET sending == {b \in Blasts : status[b] = "sending"}
       IN \E due \in SUBSET {b \in Blasts : status[b] = "scheduled"} :
          \E b \in IF sending # {} THEN sending ELSE due :
            /\ blastOf' = [blastOf EXCEPT ![r] = b]
            /\ promote' = [promote EXCEPT ![r] = due]
            /\ pc' = [pc EXCEPT ![r] = IF due = {} THEN "load" ELSE "promote"]
    /\ processing' = TRUE
    /\ UNCHANGED <<eligible, queueVars, dbVars, adminVars, writes, copies, interrupted, troubleVars>>

\* One step of the promotion loop: the status read by the poll may be stale.
Promote(r) ==
    /\ pc[r] = "promote"
    /\ \E b \in promote[r] :
         /\ SetStatus(b, "sending")
         /\ IF HasRow(b)
            THEN /\ promote' = [promote EXCEPT ![r] = @ \ {b}]
                 /\ pc' = [pc EXCEPT ![r] = IF promote[r] = {b} THEN "load" ELSE @]
                 /\ UNCHANGED <<processing, blastOf, eligible, queueVars>>
            ELSE Return(r)
    /\ UNCHANGED <<sentStat, delivery, adminVars, writes, copies, interrupted, troubleVars>>

\* processBlast up to its queues.  Without the hub key or the content the blast has
\* failed; without its row the update of the statistics throws.  The reads of the
\* subscribers and of the deliveries are one step: what happens between them
\* could as well happen before or after both.
Load(r) ==
    /\ pc[r] = "load"
    /\ \/ /\ SetStatus(blastOf[r], "failed")
          /\ Return(r)
       \/ /\ ~HasRow(blastOf[r])
          /\ Return(r)
          /\ UNCHANGED status
       \/ /\ HasRow(blastOf[r])
          /\ LET remaining == {s \in subscribed : s \notin Delivered(blastOf[r])
                                                  /\ Channel[s] # NoChannel}
             IN /\ left' = [left EXCEPT ![r] = remaining]
                /\ worker' = [worker EXCEPT ![r] = [ch \in Channels |->
                     IF \E s \in remaining : Channel[s] = ch THEN "batch" ELSE "none"]]
          /\ eligible' = [eligible EXCEPT ![r] = subscribed]
          /\ sentCount' = [sentCount EXCEPT ![r] = Cardinality(Delivered(blastOf[r]))]
          /\ pc' = [pc EXCEPT ![r] = "channels"]
          /\ UNCHANGED <<status, processing, blastOf, promote, index, inflight,
                         wasCancelled, late>>
    /\ UNCHANGED <<sentStat, delivery, adminVars, writes, copies, interrupted, troubleVars>>

-------------------------------------------------------------------------------
(* A channel queue *)

\* The adapter is made before the first batch; when that fails the queue rejects.
StartBatch(r, ch) ==
    /\ worker[r][ch] = "batch"
    /\ IF index[r][ch] = 0 /\ ch \notin enabled
       THEN /\ worker' = [worker EXCEPT ![r][ch] = "failed"]
            /\ UNCHANGED <<left, inflight, late>>
       ELSE \E batch \in SUBSET Recipients(r, ch) :
              /\ \/ Cardinality(batch) = Concurrency
                 \/ batch = Recipients(r, ch) /\ Cardinality(batch) < Concurrency
              /\ left' = [left EXCEPT ![r] = @ \ batch]
              /\ inflight' = [inflight EXCEPT ![r] = [s \in Subscribers |->
                                IF s \in batch THEN "send" ELSE @[s]]]
              /\ worker' = [worker EXCEPT ![r][ch] = "sending"]
              /\ late' = [late EXCEPT ![r][ch] =
                            IF status[blastOf[r]] = "cancelled"
                            THEN @ + Cardinality(batch) ELSE @]
    /\ UNCHANGED <<processing, pc, blastOf, promote, eligible, index, sentCount, wasCancelled,
                   dbVars, adminVars, writes, copies, interrupted, troubleVars>>

\* Decryption of the identifier and sendMessage, which returns a failure or throws if it
\* does not succeed.  A failure may hide a message that was accepted.
Send(r, s) ==
    /\ inflight[r][s] = "send"
    /\ \E accepted, success \in BOOLEAN :
         /\ success => accepted
         /\ copies' = [copies EXCEPT ![blastOf[r]][s] = IF accepted /\ @ < 2 THEN @ + 1 ELSE @]
         /\ inflight' = [inflight EXCEPT ![r][s] = IF success THEN "sent" ELSE "failed"]
         /\ sentCount' = [sentCount EXCEPT ![r] = IF success THEN @ + 1 ELSE @]
    /\ UNCHANGED <<processing, pc, blastOf, promote, eligible, left, worker, index,
                   wasCancelled, late, dbVars, adminVars, writes, interrupted, troubleVars>>

\* createDelivery: a second row for the subscriber breaks the unique constraint and
\* is given up.
Record(r, s) ==
    /\ inflight[r][s] \in {"sent", "failed"}
    /\ delivery' = [delivery EXCEPT ![blastOf[r]][s] =
                      IF @ = "none" THEN inflight[r][s] ELSE @]
    /\ inflight' = [inflight EXCEPT ![r][s] = "none"]
    /\ UNCHANGED <<status, sentStat, processing, pc, blastOf, promote, eligible, left, worker,
                   index, sentCount, wasCancelled, late, adminVars, writes, copies,
                   interrupted, troubleVars>>

\* createDelivery throws: for a message that was sent the catch goes on with a failed
\* delivery.  When that one throws, and the catch has no other try left, allSettled logs
\* the rejection and the recipient has no delivery.
RecordFails(r, s) ==
    /\ Trouble
    /\ inflight[r][s] \in {"sent", "failed"}
    /\ delivery[blastOf[r]][s] = "none"
    /\ IF inflight[r][s] = "sent"
       THEN /\ inflight' = [inflight EXCEPT ![r][s] = "failed"]
            /\ UNCHANGED unrecorded
       ELSE /\ inflight' = [inflight EXCEPT ![r][s] = "lost"]
            /\ unrecorded' = [unrecorded EXCEPT ![blastOf[r]] = @ \cup {s}]
    /\ UNCHANGED <<dbVars, processing, pc, blastOf, promote, eligible, left, worker, index,
                   sentCount, wasCancelled, late, adminVars, writes, copies, interrupted>>

Settled(r, s) == inflight[r][s] \in {"none", "lost"}

\* The batch is settled: the next iteration, if any, and whether it begins with the check.
EndBatch(r, ch) ==
    /\ worker[r][ch] = "sending"
    /\ \A s \in Subscribers : Channel[s] = ch => Settled(r, s)
    /\ index' = [index EXCEPT ![r][ch] = @ + Concurrency]
    /\ worker' = [worker EXCEPT ![r][ch] =
                    IF Recipients(r, ch) = {} THEN "done"
                    ELSE IF (index[r][ch] + Concurrency) % BatchSize = 0 THEN "check"
                    ELSE "batch"]
    /\ UNCHANGED <<processing, pc, blastOf, promote, eligible, left, inflight, sentCount,
                   wasCancelled, late, dbVars, adminVars, writes, copies, interrupted, troubleVars>>

\* Mutant of CheckCancelled: the status picked up by the poll is looked at.
CheckStaleStatus(r, ch) ==
    LET b == blastOf[r]
    IN /\ worker[r][ch] = "check"
       /\ worker' = [worker EXCEPT ![r][ch] = IF HasRow(b) THEN "batch" ELSE "failed"]
       /\ sentStat' = [sentStat EXCEPT ![b] = IF HasRow(b) THEN sentCount[r] ELSE @]
       /\ late' = [late EXCEPT ![r][ch] = IF status[b] = "cancelled" THEN @ ELSE 0]
       /\ UNCHANGED <<status, delivery, processing, pc, blastOf, promote, eligible, left, index,
                      inflight, sentCount, wasCancelled, adminVars, writes, copies,
                      interrupted, troubleVars>>

\* Statistics and cancellation at a batch boundary; without a row the update throws.
CheckCancelled(r, ch) ==
    LET b == blastOf[r]
        cancelled == status[b] = "cancelled"
    IN /\ worker[r][ch] = "check"
       /\ worker' = [worker EXCEPT ![r][ch] = IF ~HasRow(b) THEN "failed"
                                              ELSE IF cancelled THEN "done" ELSE "batch"]
       /\ wasCancelled' = [wasCancelled EXCEPT ![r] = @ \/ cancelled]
       /\ sentStat' = [sentStat EXCEPT ![b] = IF HasRow(b) THEN sentCount[r] ELSE @]
       /\ late' = [late EXCEPT ![r][ch] = IF cancelled THEN @ ELSE 0]
       /\ UNCHANGED <<status, delivery, processing, pc, blastOf, promote, eligible, left, index,
                      inflight, sentCount, adminVars, writes, copies, interrupted, troubleVars>>

\* The query for the adapter, that for the status, the update of the statistics or
\* the audit entry after it throws: the queue rejects.
QueueFails(r, ch) ==
    LET b == blastOf[r]
    IN /\ Trouble
       /\ worker[r][ch] = "check" \/ (worker[r][ch] = "batch" /\ index[r][ch] = 0)
       /\ worker' = [worker EXCEPT ![r][ch] = "failed"]
       /\ \/ UNCHANGED sentStat
          \/ /\ worker[r][ch] = "check" /\ status[b] = "cancelled"
             /\ sentStat' = [sentStat EXCEPT ![b] = sentCount[r]]
       /\ UNCHANGED <<status, delivery, processing, pc, blastOf, promote, eligible, left, index,
                      inflight, sentCount, wasCancelled, late, adminVars, writes, copies,
                      interrupted, unrecorded>>

-------------------------------------------------------------------------------
(* The end of a run *)

Over(r, ch) == worker[r][ch] \in {"none", "done", "failed"}

\* Mutant of AllQueuesDone: Promise.race.
SomeQueueDone(r) ==
    /\ \A ch \in Channels : worker[r][ch] # "failed"
    /\ \A ch \in Channels : worker[r][ch] = "none" \/ \E d \in Channels : worker[r][d] = "done"

AllQueuesDone(r) == \A ch \in Channels : worker[r][ch] \in {"none", "done"}

Finish(r) ==
    /\ pc[r] = "channels"
    /\ AllQueuesDone(r)
    /\ IF wasCancelled[r]
       THEN UNCHANGED <<status, sentStat>>
       ELSE /\ SetStatus(blastOf[r], "sent")
            /\ sentStat' = [sentStat EXCEPT ![blastOf[r]] =
                              IF HasRow(blastOf[r]) THEN sentCount[r] ELSE @]
    /\ Return(r)
    /\ UNCHANGED <<delivery, adminVars, writes, copies, interrupted, troubleVars>>

\* A query of the call itself throws, or the audit entry of a promotion: what it was
\* about to write is not written.
QueryFails(r) ==
    /\ Trouble
    /\ \/ pc[r] \in {"promote", "load"}
       \/ pc[r] = "channels" /\ AllQueuesDone(r) /\ ~wasCancelled[r]
    /\ Return(r)
    /\ UNCHANGED <<dbVars, adminVars, writes, copies, interrupted, unrecorded>>

\* Promise.all rejects with the first queue that does.
Reject(r) ==
    /\ pc[r] = "channels"
    /\ \E ch \in Channels : worker[r][ch] = "failed"
    /\ processing' = FALSE
    /\ pc' = [pc EXCEPT ![r] = "orphan"]
    /\ interrupted' = interrupted \cup {blastOf[r]}
    /\ UNCHANGED <<blastOf, promote, eligible, queueVars, dbVars, adminVars, writes, copies,
                   troubleVars>>

\* The last queue nobody waits for is over.
OrphanEnds(r) ==
    /\ pc[r] = "orphan"
    /\ \A ch \in Channels : Over(r, ch)
    /\ FreeSlot(r)
    /\ UNCHANGED <<processing, dbVars, adminVars, writes, copies, interrupted, troubleVars>>

\* The process dies, or exits at SIGTERM, which clears the poll timer and awaits no batch,
\* and starts again: everything but the database is lost.
Restart ==
    /\ Trouble
    /\ interrupted' = interrupted \cup
         {blastOf[r] : r \in {q \in Runs : pc[q] \in {"channels", "orphan"}}}
    /\ processing' = FALSE
    /\ pc' = [r \in Runs |-> "free"]
    /\ blastOf' = [r \in Runs |-> NoBlast]
    /\ promote' = [r \in Runs |-> {}]
    /\ eligible' = [r \in Runs |-> {}]
    /\ left' = [r \in Runs |-> {}]
    /\ worker' = [r \in Runs |-> [ch \in Channels |-> "none"]]
    /\ index' = [r \in Runs |-> [ch \in Channels |-> 0]]
    /\ inflight' = [r \in Runs |-> [s \in Subscribers |-> "none"]]
    /\ sentCount' = [r \in Runs |-> 0]
    /\ wasCancelled' = [r \in Runs |-> FALSE]
    /\ late' = [r \in Runs |-> [ch \in Channels |-> 0]]
    /\ writes' = [b \in Blasts |-> [request \in Requests |-> 0]]
    /\ UNCHANGED <<dbVars, adminVars, copies, unrecorded>>

-------------------------------------------------------------------------------

RunStep(r) ==
    \/ Promote(r) \/ Load(r)
    \/ \E ch \in Channels : StartBatch(r, ch) \/ EndBatch(r, ch) \/ CheckCancelled(r, ch)
    \/ \E s \in Subscribers : Send(r, s) \/ Record(r, s)
    \/ Finish(r) \/ Reject(r) \/ OrphanEnds(r)

\* A call to the database fails.
CallFails(r) ==
    \/ QueryFails(r)
    \/ \E ch \in Channels : QueueFails(r, ch)
    \/ \E s \in Subscribers : RecordFails(r, s)

Next ==
    \/ \E b \in Blasts : SendRead(b) \/ ScheduleRead(b) \/ Cancel(b) \/ Delete(b)
    \/ \E b \in Blasts, request \in Requests : StatusWrite(b, request)
    \/ \E s \in Subscribers : OptOutOrIn(s)
    \/ \E ch \in Channels : ToggleChannel(ch)
    \/ \E r \in Runs : Poll(r) \/ RunStep(r) \/ CallFails(r)
    \/ Restart

Spec == Init /\ [][Next]_vars

(* setInterval calls processOnce for ever, a call that was made goes on to its *)
(* end, and the provider answers.  Nobody has to send, cancel or restart.      *)
Fairness ==
    /\ WF_vars(\E r \in Runs : Poll(r))
    /\ \A r \in Runs : WF_vars(RunStep(r))
FairSpec == Spec /\ Fairness

-------------------------------------------------------------------------------
(* Properties of the code *)

\* A subscriber gets a blast at most once, over any number of polls, promotions,
\* cancellations and new starts, unless a run of the blast was cut off or
\* rejected, or his delivery could not be stored (the processing flag,
\* getDeliveredSubscriberIds, the order of sendMessage and createDelivery).
CopiesNeedAnInterruption ==
    \A b \in Blasts, s \in Subscribers :
      copies[b][s] > 1 => b \in interrupted \/ s \in unrecorded[b]

\* A blast becomes 'sent' only when everybody who was eligible has a delivery, no
\* channel to be reached by, or was tried by this very run and only the storing of the
\* delivery failed, although the queues end in any order and an orphaned queue may take
\* deliveries away from the run (processBlast).
SentMeansServed ==
    [][\A r \in Runs :
         (/\ pc[r] = "channels" /\ pc'[r] = "free"
          /\ status[blastOf[r]] # "sent" /\ status'[blastOf[r]] = "sent")
           => \A s \in eligible[r] :
                \/ Channel[s] = NoChannel
                \/ s \in Delivered(blastOf[r])
                \/ inflight[r][s] = "lost"]_vars

\* Once a blast is cancelled, each of its queues starts at most one more batch of
\* BATCH_SIZE, whatever it was doing and even if the run began after that.
CancellationTakesABatch ==
    \A r \in Runs, ch \in Channels : late[r][ch] <= BatchSize

\* A sending blast does not stay so when its channels can be sent on, whatever is
\* cancelled, deleted or opted out of meanwhile and wherever the server restarts,
\* unless calls, queues or the server go on failing for ever.  A delivery that cannot be
\* stored does not keep it there.
SendingEnds ==
    \/ \A b \in Blasts : status[b] = "sending" ~> status[b] # "sending"
    \/ []<><<Restart \/ \E r \in Runs : \/ QueryFails(r)
                                       \/ \E ch \in Channels : QueueFails(r, ch)>>_vars

-------------------------------------------------------------------------------
(* Statements of the design document that the code refutes *)

\* blast-delivery-engine-design.md: no transition leaves 'cancelled'.
CancelledIsFinal ==
    [][\A b \in Blasts : status[b] = "cancelled" => status'[b] \in {"cancelled", "none"}]_vars

\* An unrecoverable error in a run makes the blast fail: one whose channel has no
\* adapter does not stay 'sending'.
UnsendableBlastFails ==
    \A b \in Blasts :
      (status[b] = "sending" /\ \E r \in Runs : pc[r] = "orphan" /\ blastOf[r] = b)
        ~> status[b] # "sending"

\* Blasts are processed one at a time.
OneBlastAtATime ==
    \A q, r \in Runs :
      (\E ch \in Channels : ~Over(q, ch)) /\ (\E ch \in Channels : ~Over(r, ch))
        => blastOf[q] = blastOf[r]

\* The statistics of a sent blast count the messages the adapter reported as sent.
StatsCountSuccesses ==
    \A b \in Blasts :
      status[b] = "sent" => sentStat[b] = Cardinality({s \in Subscribers : delivery[b][s] = "sent"})

\* A shutdown lets the batches in flight complete.
ShutdownCompletesBatches ==
    [][Restart => \A r \in Runs, s \in Subscribers : Settled(r, s)]_vars
===============================================================================
