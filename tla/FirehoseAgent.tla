----------------------------- MODULE FirehoseAgent -----------------------------
(* The extraction agent of one firehose connection: services/firehose-agent.ts *)
(* with the connection's status and buffer (services/firehose.ts), the update  *)
(* and delete routes (routes/firehose.ts), the intake of messages              *)
(* (messaging/router.ts) and the start and crash of the server.  An agent is   *)
(* an interval timer; the service's map holds the current one.  Passes of the  *)
(* loop, starts and updates interleave at every await of theirs but those      *)
(* between the reads that open a pass and between those of one submission.     *)
EXTENDS Naturals

CONSTANTS
    Messages,     \* messages of the Signal group
    Time,         \* signalTimestamp of a message, in units of CLUSTER_WINDOW_MS
    Late,         \* those still to come; the others are in the buffer
    Passes,       \* passes of the loop in flight
    Admins,       \* updates of the connection in flight
    Boot,         \* the start of the agent at the start of the server
    NoAgent,
    Threshold,    \* CIRCUIT_BREAKER_THRESHOLD
    MaxTimers,    \* bound: agents started
    MaxUpdates,   \* bound: updates
    MaxTroubles   \* bound: crashes of the server, failures of a start, an update or the breaker's write

ASSUME ConstantsAssumption ==
    /\ Time \in [Messages -> Nat]
    /\ Late \subseteq Messages
    /\ Boot \notin Admins
    /\ NoAgent \notin Nat
    /\ Threshold \in Nat \ {0}
    /\ {MaxTimers, MaxUpdates, MaxTroubles} \subseteq Nat

VARIABLES
    status,    \* of the connection; "gone" when it is deleted
    buffer,    \* where a message is
    reports,   \* reports a message is in; 2 is two or more
    agent,     \* the map's agent
    timers,    \* intervals that fire
    started,   \* agents started so far
    failures,  \* extractionFailureCounts
    pass,      \* where a pass of the loop is, and the messages it still has to extract
    call,      \* where an update, a delete or a start is
    updates, troubles,
    overlap,   \* history: two passes of the loop were under way
    unmarked,  \* history: a report's messages were not marked
    twoStarts, \* history since the server started: two starts overlapped
    met,       \* history since the server started: an update met another one or a tripped breaker
    failed     \* history since the server started: a start, a deletion or the breaker's write failed

loopVars == <<buffer, reports, pass, overlap, unmarked>>
agentVars == <<agent, timers, started, failures>>
callVars == <<call, updates, twoStarts>>
causes == <<met, failed>>
vars == <<status, loopVars, agentVars, callVars, causes, troubles>>

Callers == Admins \cup {Boot}
Wants == {"active", "paused", "disabled", "gone"}
Free == [pc |-> "idle", batch |-> {}]
NoCall == [pc |-> "idle", want |-> "active", was |-> "active"]

\* The connection, its buffer, its agent and everything in flight have their types.
TypeOK ==
    /\ status \in Wants
    /\ buffer \in [Messages -> {"none", "buffered", "extracted"}]
    /\ reports \in [Messages -> 0..2]
    /\ agent \in (1..MaxTimers) \cup {NoAgent}
    /\ timers \subseteq 1..MaxTimers
    /\ started \in 0..MaxTimers
    /\ failures \in Nat
    /\ pass \in [Passes -> [pc : {"idle", "extract", "mark", "pause"},
                            batch : SUBSET Messages]]
    /\ call \in [Callers -> [pc : {"idle", "write", "act", "delete", "start", "unseal"},
                             want : Wants, was : Wants]]
    /\ updates \in 0..MaxUpdates /\ troubles \in 0..MaxTroubles
    /\ {overlap, unmarked, twoStarts, met, failed} \subseteq BOOLEAN

Init ==
    /\ status \in {"active", "paused"}
    /\ buffer = [m \in Messages |-> IF m \in Late THEN "none" ELSE "buffered"]
    /\ reports = [m \in Messages |-> 0]
    /\ agent = NoAgent
    /\ timers = {}
    /\ started = 0
    /\ failures = 0
    /\ pass = [p \in Passes |-> Free]
    /\ call = [a \in Callers |-> IF a = Boot THEN [NoCall EXCEPT !.pc = "start"] ELSE NoCall]
    /\ updates = 0 /\ troubles = 0
    /\ overlap = FALSE /\ unmarked = FALSE /\ twoStarts = FALSE /\ met = FALSE /\ failed = FALSE

Busy == {a \in Callers : call[a].pc # "idle"}
Starting == {a \in Callers : call[a].pc \in {"start", "unseal"}}
Pausing == {p \in Passes : pass[p].pc = "pause"}
Trouble == troubles < MaxTroubles /\ troubles' = troubles + 1

-------------------------------------------------------------------------------
(* Start and stop *)

\* Mutant of StopAgent: the interval is not cleared.
StopWithoutClearing ==
    /\ agent' = NoAgent
    /\ failures' = IF agent = NoAgent THEN failures ELSE 0
    /\ UNCHANGED <<timers, started>>

\* stopAgent: the map's agent and its interval; nothing if the map has none.
StopAgent ==
    /\ timers' = timers \ {agent}
    /\ agent' = NoAgent
    /\ failures' = IF agent = NoAgent THEN failures ELSE 0
    /\ UNCHANGED started

\* startAgent after the check of the map: the connection must be active ...
LoadConnection(a) ==
    /\ call[a].pc = "start"
    /\ call' = [call EXCEPT ![a] = IF status = "active" THEN [call[a] EXCEPT !.pc = "unseal"]
                                     ELSE NoCall]
    /\ UNCHANGED <<status, loopVars, agentVars, updates, twoStarts, causes, troubles>>

\* ... and once its key is unsealed the interval starts and the map is written.
Launch(a) ==
    /\ call[a].pc = "unseal"
    /\ started < MaxTimers
    /\ started' = started + 1
    /\ timers' = timers \cup {started'}
    /\ agent' = started'
    /\ failures' = 0
    /\ call' = [call EXCEPT ![a] = NoCall]
    /\ UNCHANGED <<status, loopVars, updates, twoStarts, causes, troubles>>

\* The query or the unsealing throws: the route and init only log it.
StartFails(a) ==
    /\ a \in Starting
    /\ Trouble
    /\ call' = [call EXCEPT ![a] = NoCall]
    /\ failed' = TRUE
    /\ UNCHANGED <<status, loopVars, agentVars, updates, twoStarts, met>>

-------------------------------------------------------------------------------
(* PATCH and DELETE /firehose/{id}, once the server has started its agents *)

\* getConnection of the route.
AskUpdate(a, want) ==
    /\ call[a].pc = "idle" /\ call[Boot].pc = "idle"
    /\ status # "gone"
    /\ updates < MaxUpdates
    /\ updates' = updates + 1
    /\ call' = [call EXCEPT ![a] = [pc |-> IF want = "gone" THEN "act" ELSE "write",
                                    want |-> want, was |-> status]]
    /\ met' = (met \/ Busy # {} \/ Pausing # {})
    /\ UNCHANGED <<status, loopVars, agentVars, twoStarts, failed, troubles>>

\* updateConnection, a 404 if the connection is gone by now.
WriteStatus(a) ==
    /\ call[a].pc = "write"
    /\ IF status = "gone"
         THEN call' = [call EXCEPT ![a] = NoCall] /\ UNCHANGED status
         ELSE call' = [call EXCEPT ![a].pc = "act"] /\ status' = call[a].want
    /\ UNCHANGED <<loopVars, agentVars, updates, twoStarts, causes, troubles>>

\* Mutant of ActStop: only a pause and a delete stop the agent.
ActStopUnlessDisabled(a) ==
    /\ call[a].pc = "act"
    /\ call[a].want # "active"
    /\ IF call[a].want = "disabled" THEN UNCHANGED agentVars ELSE StopAgent
    /\ call' = [call EXCEPT ![a] = IF call[a].want = "gone" THEN [call[a] EXCEPT !.pc = "delete"]
                                     ELSE NoCall]
    /\ UNCHANGED <<status, loopVars, updates, twoStarts, causes, troubles>>

\* The agent stops ...
ActStop(a) ==
    /\ call[a].pc = "act"
    /\ call[a].want # "active"
    /\ StopAgent
    /\ call' = [call EXCEPT ![a] = IF call[a].want = "gone" THEN [call[a] EXCEPT !.pc = "delete"]
                                     ELSE NoCall]
    /\ UNCHANGED <<status, loopVars, updates, twoStarts, causes, troubles>>

\* ... or starts, if the connection was not active before and the map has no agent.
ActStart(a) ==
    /\ call[a].pc = "act"
    /\ call[a].want = "active"
    /\ IF call[a].was # "active" /\ agent = NoAgent
         THEN /\ call' = [call EXCEPT ![a].pc = "start"]
              /\ twoStarts' = (twoStarts \/ Starting # {})
         ELSE call' = [call EXCEPT ![a] = NoCall] /\ UNCHANGED twoStarts
    /\ UNCHANGED <<status, loopVars, agentVars, updates, causes, troubles>>

\* updateConnection or deleteConnection throws, and the route ends.  A deletion that fails
\* has stopped the agent and leaves the connection as it was.
UpdateFails(a) ==
    /\ call[a].pc \in {"write", "delete"}
    /\ Trouble
    /\ call' = [call EXCEPT ![a] = NoCall]
    /\ failed' = (failed \/ call[a].pc = "delete")
    /\ UNCHANGED <<status, loopVars, agentVars, updates, twoStarts, met>>

\* deleteConnection; the buffer goes with the row (onDelete: cascade).
Delete(a) ==
    /\ call[a].pc = "delete"
    /\ status' = "gone"
    /\ buffer' = [m \in Messages |-> "none"]
    /\ call' = [call EXCEPT ![a] = NoCall]
    /\ UNCHANGED <<reports, pass, overlap, unmarked, agentVars, updates, twoStarts, causes, troubles>>

-------------------------------------------------------------------------------
(* The buffer and the loop *)

\* handleFirehoseMessage: a paused connection goes on buffering.
Receive(m) ==
    /\ status \in {"active", "paused"}
    /\ m \in Late /\ buffer[m] = "none"
    /\ buffer' = [buffer EXCEPT ![m] = "buffered"]
    /\ UNCHANGED <<status, reports, pass, overlap, unmarked, agentVars, callVars, causes, troubles>>

\* Mutant of Clustered: only messages of one timestamp make a cluster.
ClusteredByTimestamp(batch) == {m \in batch : \E n \in batch \ {m} : Time[m] = Time[n]}

\* heuristicCluster: a gap of more than a window ends a cluster.  A message is in a cluster
\* of MIN_CLUSTER_SIZE, two, if another one of the batch is within a window of it ...
Near(m, n) == Time[m] <= Time[n] + 1 /\ Time[n] <= Time[m] + 1
Clustered(batch) == {m \in batch : \E n \in batch \ {m} : Near(m, n)}

\* ... and in the earliest cluster if no gap comes before it.
Current(p) == {m \in pass[p].batch : \A k \in pass[p].batch : Time[k] < Time[m] =>
                  \E l \in pass[p].batch : Time[k] < Time[l] /\ Time[l] <= Time[k] + 1}

\* Mutant of Unextracted: the condition on extractedReportId is lost.
UnextractedOrNot == {m \in Messages : buffer[m] # "none"}

\* getUnextractedMessages
Unextracted == {m \in Messages : buffer[m] = "buffered"}

\* An interval fires; the pass needs an agent in the map, whichever it is, and reads the
\* buffer and the connection.
Fire(p) ==
    /\ pass[p].pc = "idle"
    /\ timers # {}
    /\ agent # NoAgent
    /\ status # "gone"
    /\ Clustered(Unextracted) # {}
    /\ pass' = [pass EXCEPT ![p] = [pc |-> "extract", batch |-> Clustered(Unextracted)]]
    /\ overlap' = (overlap \/ \E q \in Passes : pass[q].pc # "idle")
    /\ UNCHANGED <<status, buffer, reports, unmarked, agentVars, callVars, causes, troubles>>

\* The next cluster of the loop, or the end of the pass.
Continue(p) ==
    pass' = [pass EXCEPT ![p] = IF @.batch \subseteq Current(p) THEN Free
                                ELSE [pc |-> "extract", batch |-> @.batch \ Current(p)]]

\* The catch of the loop: count the failure; at the threshold stop the agent and the pass.
Catch(p) ==
    IF failures + 1 < Threshold
      THEN /\ failures' = failures + 1
           /\ Continue(p)
           /\ UNCHANGED <<agent, timers, started, met>>
      ELSE /\ timers' = timers \ {agent}
           /\ agent' = NoAgent
           /\ failures' = IF agent = NoAgent THEN failures + 1 ELSE 0
           /\ pass' = [pass EXCEPT ![p] = [pc |-> "pause", batch |-> {}]]
           /\ met' = (met \/ Busy # {})
           /\ UNCHANGED started

\* extractReport and submitExtractedReport: the report's conversation and its message.
Extract(p) ==
    /\ pass[p].pc = "extract"
    /\ reports' = [m \in Messages |->
           IF m \in Current(p) /\ reports[m] < 2 THEN reports[m] + 1 ELSE reports[m]]
    /\ pass' = [pass EXCEPT ![p].pc = "mark"]
    /\ UNCHANGED <<status, buffer, overlap, unmarked, agentVars, callVars, causes, troubles>>

\* The answer lacks confidence: the cluster is skipped, neither marked nor counted, and
\* comes again with the next pass, as often as that happens.
Skip(p) ==
    /\ pass[p].pc = "extract"
    /\ Continue(p)
    /\ UNCHANGED <<status, buffer, reports, overlap, unmarked, agentVars, callVars, causes, troubles>>

\* markMessagesExtracted of the rows that are still there.
Marked(messages) ==
    [m \in Messages |-> IF m \in messages /\ buffer[m] # "none" THEN "extracted" ELSE buffer[m]]

\* Mutant of Mark: the whole batch is marked with the first cluster's report.
MarkBatch(p) ==
    /\ pass[p].pc = "mark"
    /\ buffer' = Marked(pass[p].batch)
    /\ failures' = 0
    /\ Continue(p)
    /\ UNCHANGED <<status, reports, overlap, unmarked, agent, timers, started, callVars, causes, troubles>>

Mark(p) ==
    /\ pass[p].pc = "mark"
    /\ buffer' = Marked(Current(p))
    /\ failures' = 0
    /\ Continue(p)
    /\ UNCHANGED <<status, reports, overlap, unmarked, agent, timers, started, callVars, causes, troubles>>

\* An extraction, a submission or what follows it throws.
Fail(p) ==
    /\ pass[p].pc \in {"extract", "mark"}
    /\ Catch(p)
    /\ unmarked' = (unmarked \/ pass[p].pc = "mark")
    /\ UNCHANGED <<status, buffer, reports, overlap, callVars, failed, troubles>>

\* Mutant of Pause: the breaker writes a status the schema lacks.
PauseAsStopped(p) ==
    /\ pass[p].pc = "pause"
    /\ pass' = [pass EXCEPT ![p] = Free]
    /\ status' = IF status = "gone" THEN "gone" ELSE "stopped"
    /\ UNCHANGED <<buffer, reports, overlap, unmarked, agentVars, callVars, causes, troubles>>

\* The tripped breaker's updateConnection.
Pause(p) ==
    /\ pass[p].pc = "pause"
    /\ pass' = [pass EXCEPT ![p] = Free]
    /\ \/ /\ status' = IF status = "gone" THEN "gone" ELSE "paused"
          /\ UNCHANGED <<failed, troubles>>
       \/ /\ Trouble /\ failed' = TRUE
          /\ UNCHANGED status
    /\ UNCHANGED <<buffer, reports, overlap, unmarked, agentVars, callVars, met>>

\* The server dies and starts again: init starts the agent of an active connection.
Crash ==
    /\ Trouble
    /\ agent' = NoAgent /\ timers' = {} /\ failures' = 0
    /\ pass' = [p \in Passes |-> Free]
    /\ call' = [a \in Callers |-> IF a = Boot THEN [NoCall EXCEPT !.pc = "start"] ELSE NoCall]
    /\ unmarked' = (unmarked \/ \E p \in Passes : pass[p].pc = "mark")
    /\ twoStarts' = FALSE /\ met' = FALSE /\ failed' = FALSE
    /\ UNCHANGED <<status, buffer, reports, started, updates, overlap>>

-------------------------------------------------------------------------------
Start(a) == LoadConnection(a) \/ Launch(a)
Route(a) == WriteStatus(a) \/ ActStop(a) \/ ActStart(a) \/ Delete(a)
Step(p) == Extract(p) \/ Mark(p) \/ Pause(p)

Next ==
    \/ \E a \in Callers : Start(a) \/ StartFails(a) \/ Route(a) \/ UpdateFails(a)
    \/ \E a \in Admins, want \in Wants : AskUpdate(a, want)
    \/ \E m \in Messages : Receive(m)
    \/ \E p \in Passes : Fire(p) \/ Step(p) \/ Skip(p) \/ Fail(p)
    \/ Crash

Spec == Init /\ [][Next]_vars

\* Intervals go on firing, and what a pass calls answers or throws.
FairSpec == Spec /\ \A p \in Passes : WF_vars(Fire(p) \/ Step(p))

-------------------------------------------------------------------------------
(* Properties *)

\* A message leaves the work of the agent only once a report with it was stored: marking
\* comes after the submission, cluster by cluster.
ExtractedIsReported == \A m \in Messages : buffer[m] = "extracted" => reports[m] > 0

\* A message is reported twice only if passes overlapped (setInterval does not wait for the
\* pass before) or if a failure or a crash came between the report and its marks.
ReportedTwiceHasACause ==
    (\E m \in Messages : reports[m] > 1) => overlap \/ unmarked

\* A connection has one interval at most, that of the map's agent: two starts that both
\* found the map empty are the only way to one that nothing can clear.
StrayTimerHasACause == timers \subseteq {agent} \/ twoStarts

\* When nothing is under way, an agent of a connection that is not active is the work of an
\* update that met another one or the circuit breaker; an active connection without agent is
\* that, or a start, a deletion or the breaker's write failed.  No failure alone leaves an
\* agent running that should not, and a restart of the server repairs both.
StatusDecides ==
    (Busy = {} /\ Pausing = {}) =>
        /\ agent # NoAgent /\ status # "active" => met
        /\ agent = NoAgent /\ status = "active" => met \/ failed

\* While the agent keeps running, whatever else fails and whichever passes overlap, two
\* messages within a window of one another do not stay in the buffer for ever, unless the
\* answers about the cluster they are in lack confidence again and again, or other clusters
\* are extracted again and again: each success resets the count of the breaker, so one that
\* always fails can stay behind a stream of new messages.
ClustersAreExtracted ==
    \A m, n \in Messages :
        \/ m = n \/ ~Near(m, n)
        \/ []<>(agent = NoAgent \/ buffer[m] # "buffered" \/ buffer[n] # "buffered")
        \/ []<><<\E p \in Passes : Mark(p) \/ ({m, n} \subseteq Current(p) /\ Skip(p))>>_vars

(* Statements the code refutes *)

\* A message is in one report.
ReportedOnce == \A m \in Messages : reports[m] <= 1
\* A connection that is not active has no agent once its updates are answered.
InactiveIsStopped == (Busy = {} /\ status # "active") => agent = NoAgent
===============================================================================
