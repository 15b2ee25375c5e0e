---------------------------- MODULE FirehoseProofs ----------------------------
(* The safety properties of FirehoseAgent, for any messages, passes, updates    *)
(* and failures.  Three invariants, each about what the interleavings may not    *)
(* break: what a pass holds against what is reported (LoopInv), starts against   *)
(* the map of agents (TimerInv), and what an update has done against the status  *)
(* (StatusInv).                                                                  *)
EXTENDS FirehoseAgent, TLAPS

PassRecord == [pc : {"idle", "extract", "mark", "pause"}, batch : SUBSET Messages]
CallRecord == [pc : {"idle", "write", "act", "delete", "start", "unseal"}, want : Wants, was : Wants]

-------------------------------------------------------------------------------
(* The loop *)

\* A pass that is about to mark a cluster has reported it.
MarkedAreReported ==
    \A p \in Passes : pass[p].pc = "mark" => \A m \in Current(p) : reports[m] > 0

\* Without a cause to report twice there is one pass at a time, ...
OnePass == \A p, q \in Passes : pass[p].pc # "idle" /\ pass[q].pc # "idle" => p = q

\* ... what it still has to extract is not reported, ...
BatchIsFresh ==
    \A p \in Passes :
      /\ pass[p].pc = "extract" => \A m \in pass[p].batch : reports[m] = 0
      /\ pass[p].pc = "mark" => \A m \in pass[p].batch \ Current(p) : reports[m] = 0

\* ... a message that waits in the buffer is reported only if it is about to be marked, ...
BufferedIsFresh ==
    \A m \in Messages : buffer[m] = "buffered" /\ reports[m] > 0 =>
      \E p \in Passes : pass[p].pc = "mark" /\ m \in Current(p)

\* ... and one that has not come yet is not reported, until the buffer is deleted.
AbsentIsFresh == status = "gone" \/ \A m \in Messages : buffer[m] = "none" => reports[m] = 0

\* Whatever overlaps, a pass holds messages of the buffer, until that is deleted.
BatchIsStored ==
    \/ status = "gone"
    \/ \A p \in Passes : \A m \in pass[p].batch : buffer[m] # "none"

LoopInv ==
    \/ overlap \/ unmarked
    \/ /\ \A m \in Messages : reports[m] <= 1
       /\ OnePass /\ BatchIsFresh /\ BufferedIsFresh /\ AbsentIsFresh

ReportInv == MarkedAreReported /\ ExtractedIsReported /\ BatchIsStored /\ LoopInv

-------------------------------------------------------------------------------
(* The agent *)

\* Without two starts at once, a start is alone and has found no agent.
TimerInv ==
    \/ twoStarts
    \/ /\ \A a, b \in Starting : a = b
       /\ Starting # {} => agent = NoAgent
       /\ timers \subseteq {agent}

\* What an update that met nothing has done so far: the agent runs for an active connection
\* only, and for an active one unless something failed.
Running == agent # NoAgent
Follows(value) == (Running => value = "active") /\ (value = "active" => Running \/ failed)
Progress(a) ==
    /\ call[a].pc = "write" => Follows(status) /\ call[a].was = status
    /\ call[a].pc = "act" => /\ Follows(call[a].was)
                             /\ call[a].want # "gone" => status = call[a].want
    /\ call[a].pc \in {"delete", "start", "unseal"} => ~Running
    /\ call[a].pc = "unseal" => status = "active"

StatusInv ==
    \/ met
    \/ /\ \A a, b \in Busy : a = b
       /\ Busy = {} \/ Pausing = {}
       /\ Pausing # {} => ~Running
       /\ Busy = {} /\ Pausing = {} => Follows(status)
       /\ \A a \in Busy : Progress(a)

IInv == TypeOK /\ ReportInv /\ TimerInv /\ StatusInv

-------------------------------------------------------------------------------
(* Records of passes and calls *)

LEMMA PassFields ==
    /\ Free \in PassRecord /\ Free.pc = "idle" /\ Free.batch = {}
    /\ \A r \in PassRecord : r.pc \in {"idle", "extract", "mark", "pause"} /\ r.batch \subseteq Messages
    /\ \A step \in {"idle", "extract", "mark", "pause"}, batch \in SUBSET Messages :
         [pc |-> step, batch |-> batch] \in PassRecord
    /\ \A r \in PassRecord, step \in {"idle", "extract", "mark", "pause"} :
         LET moved == [r EXCEPT !.pc = step]
         IN  moved \in PassRecord /\ moved.pc = step /\ moved.batch = r.batch
BY DEF PassRecord, Free

LEMMA CallFields ==
    /\ NoCall \in CallRecord /\ NoCall.pc = "idle"
    /\ \A r \in CallRecord, step \in {"idle", "write", "act", "delete", "start", "unseal"} :
         LET moved == [r EXCEPT !.pc = step]
         IN  moved \in CallRecord /\ moved.pc = step /\ moved.want = r.want /\ moved.was = r.was
    /\ \A step \in {"idle", "write", "act", "delete", "start", "unseal"}, want, was \in Wants :
         [pc |-> step, want |-> want, was |-> was] \in CallRecord
BY DEF CallRecord, NoCall, Wants

LEMMA Typed ==
    ASSUME TypeOK
    PROVE  /\ pass \in [Passes -> PassRecord]
           /\ call \in [Callers -> CallRecord]
BY DEF TypeOK, PassRecord, CallRecord

LEMMA CurrentIsInBatch == \A p \in Passes : Current(p) \subseteq pass[p].batch
BY DEF Current

LEMMA CurrentIsOfBatch ==
    ASSUME NEW p \in Passes, pass'[p].batch = pass[p].batch
    PROVE  Current(p)' = Current(p)
BY DEF Current

\* The end of a cluster: the pass goes on to the others, or ends.
LEMMA Continuing ==
    ASSUME TypeOK, NEW p \in Passes, Continue(p)
    PROVE  /\ pass' \in [Passes -> PassRecord]
           /\ pass'[p].pc \in {"idle", "extract"}
           /\ pass'[p].batch = pass[p].batch \ Current(p)
           /\ \A q \in Passes \ {p} : pass'[q] = pass[q]
<1> DEFINE rest == pass[p].batch \ Current(p)
           next == IF pass[p].batch \subseteq Current(p) THEN Free
                   ELSE [pc |-> "extract", batch |-> rest]
<1>1. pass \in [Passes -> PassRecord] /\ pass[p] \in PassRecord
  BY Typed
<1>2. pass' = [pass EXCEPT ![p] = next]
  BY DEF Continue
<1>3. rest \subseteq Messages
  BY <1>1, PassFields
<1>4. next \in PassRecord /\ next.pc \in {"idle", "extract"} /\ next.batch = rest
  <2>1. CASE pass[p].batch \subseteq Current(p)
    <3>1. next = Free /\ rest = {}
      BY <2>1
    <3> QED
      BY <3>1, PassFields
  <2>2. CASE ~(pass[p].batch \subseteq Current(p))
    <3>1. next = [pc |-> "extract", batch |-> rest]
      BY <2>2
    <3> QED
      BY <3>1, <1>3, PassFields
  <2> QED
    BY <2>1, <2>2
<1> HIDE DEF next, rest
<1>5. pass'[p] = next /\ pass' \in [Passes -> PassRecord] /\ \A q \in Passes \ {p} : pass'[q] = pass[q]
  BY <1>1, <1>2, <1>4
<1> QED
  BY <1>4, <1>5 DEF rest

\* The catch of the loop: the pass goes on, or trips the breaker.
LEMMA Catching ==
    ASSUME TypeOK, NEW p \in Passes, Catch(p)
    PROVE  /\ pass' \in [Passes -> PassRecord]
           /\ pass'[p].pc \in {"idle", "extract", "pause"}
           /\ pass'[p].batch \subseteq pass[p].batch \ Current(p)
           /\ \A q \in Passes \ {p} : pass'[q] = pass[q]
           /\ failures' \in Nat
           /\ started' = started
           /\ \/ pass'[p].pc # "pause" /\ UNCHANGED <<agent, timers, met>>
              \/ /\ pass'[p].pc = "pause"
                 /\ timers' = timers \ {agent} /\ agent' = NoAgent
                 /\ met' = (met \/ Busy # {})
<1>1. TypeOK /\ failures \in Nat
  BY ConstantsAssumption DEF TypeOK
<1>2. CASE failures + 1 < Threshold
  <2>1. /\ failures' = failures + 1 /\ Continue(p)
        /\ UNCHANGED <<agent, timers, started, met>>
    BY <1>2 DEF Catch
  <2>2. /\ pass' \in [Passes -> PassRecord]
        /\ pass'[p].pc \in {"idle", "extract"}
        /\ pass'[p].batch = pass[p].batch \ Current(p)
        /\ \A q \in Passes \ {p} : pass'[q] = pass[q]
    BY <1>1, <2>1, Continuing
  <2> QED
    BY <1>1, <2>1, <2>2
<1>3. CASE ~(failures + 1 < Threshold)
  <2> DEFINE tripped == [pc |-> "pause", batch |-> {}]
  <2>1. /\ timers' = timers \ {agent} /\ agent' = NoAgent
        /\ failures' = IF agent = NoAgent THEN failures + 1 ELSE 0
        /\ pass' = [pass EXCEPT ![p] = tripped]
        /\ met' = (met \/ Busy # {}) /\ started' = started
    BY <1>3 DEF Catch
  <2>2. tripped \in PassRecord /\ tripped.pc = "pause" /\ tripped.batch = {}
    BY PassFields
  <2> HIDE DEF tripped
  <2>3. /\ pass'[p] = tripped /\ pass' \in [Passes -> PassRecord]
        /\ \A q \in Passes \ {p} : pass'[q] = pass[q]
    BY <1>1, <2>1, <2>2, Typed
  <2> QED
    BY <1>1, <2>1, <2>2, <2>3
<1> QED
  BY <1>2, <1>3

-------------------------------------------------------------------------------
(* Types *)

\* What a step that only moves calls, or only moves passes, has to show for the types.
LEMMA CallMoves ==
    ASSUME TypeOK, UNCHANGED <<loopVars, troubles>>,
           status' \in Wants, call' \in [Callers -> CallRecord],
           agent' \in (1..MaxTimers) \cup {NoAgent}, timers' \subseteq 1..MaxTimers,
           started' \in 0..MaxTimers, failures' \in {0, failures},
           updates' \in 0..MaxUpdates, twoStarts' \in BOOLEAN, met' \in BOOLEAN, failed' \in BOOLEAN
    PROVE  TypeOK'
<1>1. failures' \in Nat
  BY DEF TypeOK
<1> QED
  BY <1>1 DEF TypeOK, loopVars, CallRecord

LEMMA PassMoves ==
    ASSUME TypeOK, UNCHANGED <<callVars, started>>,
           status' \in Wants, pass' \in [Passes -> PassRecord],
           buffer' \in [Messages -> {"none", "buffered", "extracted"}],
           reports' \in [Messages -> 0..2],
           agent' \in {agent, NoAgent}, timers' \subseteq timers,
           troubles' \in {troubles, troubles + 1}, troubles' <= MaxTroubles,
           failures' \in Nat,
           overlap' \in BOOLEAN, unmarked' \in BOOLEAN, met' \in BOOLEAN, failed' \in BOOLEAN
    PROVE  TypeOK'
<1>1. troubles \in Nat /\ MaxTroubles \in Nat
  BY ConstantsAssumption DEF TypeOK
<1>2. troubles' \in 0..MaxTroubles
  BY <1>1
<1> QED
  BY <1>2 DEF TypeOK, callVars, PassRecord

\* Where each step of a start or an update takes its call.
LEMMA CallStep ==
    ASSUME TypeOK, NEW a \in Callers, Start(a) \/ StartFails(a) \/ UpdateFails(a) \/ Route(a)
    PROVE  /\ call' \in [Callers -> CallRecord]
           /\ \A b \in Callers \ {a} : call'[b] = call[b]
           /\ call'[a].pc # "idle" => call'[a].want = call[a].want /\ call'[a].was = call[a].was
           /\ UNCHANGED <<updates, reports, pass, overlap, unmarked>>
           /\ LoadConnection(a) => call'[a].pc = IF status = "active" THEN "unseal" ELSE "idle"
           /\ Launch(a) \/ StartFails(a) \/ UpdateFails(a) \/ Delete(a) => call'[a].pc = "idle"
           /\ WriteStatus(a) => call'[a].pc = IF status = "gone" THEN "idle" ELSE "act"
           /\ ActStop(a) => call'[a].pc = IF call[a].want = "gone" THEN "delete" ELSE "idle"
           /\ ActStart(a) => call'[a].pc = IF call[a].was # "active" /\ agent = NoAgent
                                           THEN "start" ELSE "idle"
<1> DEFINE moved(step) == [call[a] EXCEPT !.pc = step]
           to(r) == call' = [call EXCEPT ![a] = r]
<1>1. call \in [Callers -> CallRecord] /\ call[a] \in CallRecord
  BY Typed
<1>2. ASSUME NEW r \in CallRecord, to(r)
      PROVE  /\ call' \in [Callers -> CallRecord] /\ call'[a] = r
             /\ \A b \in Callers \ {a} : call'[b] = call[b]
  BY <1>1, <1>2
<1>3. ASSUME NEW step \in {"idle", "write", "act", "delete", "start", "unseal"}, to(moved(step))
      PROVE  /\ call' \in [Callers -> CallRecord] /\ call'[a].pc = step
             /\ call'[a].want = call[a].want /\ call'[a].was = call[a].was
             /\ \A b \in Callers \ {a} : call'[b] = call[b]
  <2>1. moved(step) \in CallRecord /\ moved(step).pc = step
        /\ moved(step).want = call[a].want /\ moved(step).was = call[a].was
    BY <1>1, CallFields
  <2> QED
    BY <1>2, <1>3, <2>1
<1>4. ASSUME to(NoCall)
      PROVE  /\ call' \in [Callers -> CallRecord] /\ call'[a].pc = "idle"
             /\ \A b \in Callers \ {a} : call'[b] = call[b]
  BY <1>2, <1>4, CallFields
<1>5. UNCHANGED <<updates, reports, pass, overlap, unmarked>>
  BY DEF Start, StartFails, UpdateFails, Route, LoadConnection, Launch, WriteStatus, ActStop,
         ActStart, Delete, loopVars
<1>6. LoadConnection(a) => to(IF status = "active" THEN moved("unseal") ELSE NoCall)
  BY DEF LoadConnection
<1>7. Launch(a) \/ StartFails(a) \/ UpdateFails(a) \/ Delete(a) => to(NoCall)
  BY DEF Launch, StartFails, UpdateFails, Delete
<1>8. WriteStatus(a) => to(IF status = "gone" THEN NoCall ELSE moved("act"))
  BY DEF WriteStatus
<1>9. ActStop(a) => to(IF call[a].want = "gone" THEN moved("delete") ELSE NoCall)
  BY DEF ActStop
<1>10. ActStart(a) => to(IF call[a].was # "active" /\ agent = NoAgent THEN moved("start") ELSE NoCall)
  BY DEF ActStart
<1> DEFINE Moves(step) == to(moved(step))
           Ends == to(NoCall)
<1>11. /\ LoadConnection(a) => IF status = "active" THEN Moves("unseal") ELSE Ends
       /\ Launch(a) \/ StartFails(a) \/ UpdateFails(a) \/ Delete(a) => Ends
       /\ WriteStatus(a) => IF status = "gone" THEN Ends ELSE Moves("act")
       /\ ActStop(a) => IF call[a].want = "gone" THEN Moves("delete") ELSE Ends
       /\ ActStart(a) => IF call[a].was # "active" /\ agent = NoAgent THEN Moves("start") ELSE Ends
  BY <1>6, <1>7, <1>8, <1>9, <1>10
<1>12. ASSUME Ends
       PROVE  /\ call' \in [Callers -> CallRecord] /\ call'[a].pc = "idle"
              /\ \A b \in Callers \ {a} : call'[b] = call[b]
  BY <1>4, <1>12
<1>13. ASSUME NEW step \in {"unseal", "act", "delete", "start"}, Moves(step)
       PROVE  /\ call' \in [Callers -> CallRecord] /\ call'[a].pc = step
              /\ call'[a].want = call[a].want /\ call'[a].was = call[a].was
              /\ \A b \in Callers \ {a} : call'[b] = call[b]
  BY <1>3, <1>13
<1> HIDE DEF Moves, Ends
<1>14. CASE Ends
  BY <1>5, <1>11, <1>12, <1>13, <1>14
<1>15. CASE \E step \in {"unseal", "act", "delete", "start"} : Moves(step)
  BY <1>5, <1>11, <1>12, <1>13, <1>15
<1> QED
  BY <1>11, <1>14, <1>15 DEF Start, Route

LEMMA AskStep ==
    ASSUME TypeOK, NEW a \in Admins, NEW want \in Wants, AskUpdate(a, want)
    PROVE  /\ a \in Callers
           /\ call' \in [Callers -> CallRecord]
           /\ \A b \in Callers \ {a} : call'[b] = call[b]
           /\ call[a].pc = "idle"
           /\ call'[a].pc = IF want = "gone" THEN "act" ELSE "write"
           /\ call'[a].want = want /\ call'[a].was = status
<1> DEFINE new == [pc |-> IF want = "gone" THEN "act" ELSE "write", want |-> want, was |-> status]
<1>1. a \in Callers /\ call \in [Callers -> CallRecord] /\ status \in Wants
  BY Typed DEF Callers, TypeOK
<1>2. /\ new \in CallRecord /\ new.want = want /\ new.was = status
      /\ new.pc = IF want = "gone" THEN "act" ELSE "write"
  BY <1>1 DEF CallRecord
<1>3. call' = [call EXCEPT ![a] = new] /\ call[a].pc = "idle"
  BY DEF AskUpdate
<1> HIDE DEF new
<1> QED
  BY <1>1, <1>2, <1>3

LEMMA CallTypes ==
    ASSUME TypeOK, NEW a \in Callers, Start(a) \/ Route(a)
    PROVE  TypeOK'
<1> USE ConstantsAssumption
<1>1. TypeOK /\ call \in [Callers -> CallRecord] /\ call[a] \in CallRecord
  BY Typed DEF TypeOK
<1>2. call' \in [Callers -> CallRecord] /\ updates' = updates
  BY <1>1, CallStep
<1>3. /\ status \in Wants /\ agent \in (1..MaxTimers) \cup {NoAgent} /\ timers \subseteq 1..MaxTimers
      /\ started \in 0..MaxTimers /\ updates \in 0..MaxUpdates
      /\ twoStarts \in BOOLEAN /\ met \in BOOLEAN /\ failed \in BOOLEAN
      /\ call[a].want \in Wants
  BY <1>1 DEF TypeOK, CallRecord
<1>4. CASE LoadConnection(a)
  BY <1>2, <1>3, <1>4, CallMoves DEF LoadConnection, agentVars, causes
<1>5. CASE Launch(a)
  <2>1. started + 1 \in 1..MaxTimers /\ started + 1 \in 0..MaxTimers
    BY <1>3, <1>5 DEF Launch
  <2>2. /\ started' = started + 1 /\ timers' = timers \cup {started + 1} /\ agent' = started + 1
        /\ failures' = 0 /\ UNCHANGED <<status, loopVars, updates, twoStarts, causes, troubles>>
    BY <1>5 DEF Launch
  <2> QED
    BY <1>2, <1>3, <2>1, <2>2, CallMoves DEF causes
<1>6. CASE WriteStatus(a)
  BY <1>2, <1>3, <1>6, CallMoves DEF WriteStatus, agentVars, causes
<1>7. CASE ActStop(a)
  BY <1>2, <1>3, <1>7, CallMoves DEF ActStop, StopAgent, causes
<1>8. CASE ActStart(a)
  <2>1. UNCHANGED <<status, loopVars, agentVars, updates, causes, troubles>>
        /\ twoStarts' \in BOOLEAN
    BY <1>3, <1>8 DEF ActStart
  <2> QED
    BY <1>2, <1>3, <2>1, CallMoves DEF agentVars, causes
<1>9. CASE Delete(a)
  <2>1. /\ status' = "gone" /\ buffer' = [m \in Messages |-> "none"]
        /\ UNCHANGED <<reports, pass, overlap, unmarked, agentVars, updates, twoStarts, causes, troubles>>
    BY <1>9 DEF Delete
  <2> QED
    BY <1>1, <1>2, <2>1 DEF TypeOK, agentVars, causes, CallRecord, Wants
<1> QED
  BY <1>4, <1>5, <1>6, <1>7, <1>8, <1>9 DEF Start, Route

LEMMA OtherCallTypes ==
    ASSUME TypeOK, \/ \E a \in Callers : StartFails(a) \/ UpdateFails(a)
                   \/ \E a \in Admins, want \in Wants : AskUpdate(a, want)
    PROVE  TypeOK'
<1> USE ConstantsAssumption
<1>1. TypeOK /\ troubles \in 0..MaxTroubles
  BY DEF TypeOK
<1>2. ASSUME NEW a \in Callers, StartFails(a) \/ UpdateFails(a) PROVE TypeOK'
  <2>1. call' \in [Callers -> CallRecord]
    BY <1>1, <1>2, CallStep
  <2>2. /\ troubles' = troubles + 1 /\ troubles < MaxTroubles
        /\ failed' \in BOOLEAN
        /\ UNCHANGED <<status, loopVars, agentVars, updates, twoStarts, met>>
    BY <1>2 DEF StartFails, UpdateFails, Trouble, TypeOK
  <2> QED
    BY <1>1, <2>1, <2>2 DEF TypeOK, loopVars, agentVars, CallRecord
<1>3. ASSUME NEW a \in Admins, NEW want \in Wants, AskUpdate(a, want) PROVE TypeOK'
  <2>1. call' \in [Callers -> CallRecord]
    BY <1>1, <1>3, AskStep
  <2>2. /\ updates' = updates + 1 /\ updates < MaxUpdates
        /\ met' = (met \/ Busy # {} \/ Pausing # {})
        /\ UNCHANGED <<status, loopVars, agentVars, twoStarts, failed, troubles>>
    BY <1>3 DEF AskUpdate
  <2>3. met' \in BOOLEAN /\ updates' \in 0..MaxUpdates
    BY <1>1, <2>2 DEF TypeOK
  <2> QED
    BY <1>1, <2>1, <2>2, <2>3 DEF TypeOK, loopVars, agentVars, CallRecord
<1> QED
  BY <1>2, <1>3

\* A step that puts a record in the place of a pass.
LEMMA PassBecomes ==
    ASSUME TypeOK, NEW p \in Passes, NEW r \in PassRecord, pass' = [pass EXCEPT ![p] = r]
    PROVE  /\ pass' \in [Passes -> PassRecord] /\ pass'[p] = r
           /\ \A q \in Passes \ {p} : pass'[q] = pass[q]
BY Typed

LEMMA FireStep ==
    ASSUME TypeOK, NEW p \in Passes, Fire(p)
    PROVE  /\ pass' \in [Passes -> PassRecord]
           /\ pass'[p].pc = "extract" /\ pass'[p].batch = Clustered(Unextracted)
           /\ \A q \in Passes \ {p} : pass'[q] = pass[q]
<1> DEFINE new == [pc |-> "extract", batch |-> Clustered(Unextracted)]
<1>1. Clustered(Unextracted) \subseteq Messages
  BY DEF Clustered, Unextracted
<1>2. new \in PassRecord /\ new.pc = "extract" /\ new.batch = Clustered(Unextracted)
  BY <1>1, PassFields
<1>3. pass' = [pass EXCEPT ![p] = new]
  BY DEF Fire
<1> HIDE DEF new
<1> QED
  BY <1>2, <1>3, PassBecomes

LEMMA ExtractStep ==
    ASSUME TypeOK, NEW p \in Passes, Extract(p)
    PROVE  /\ pass' \in [Passes -> PassRecord]
           /\ pass'[p].pc = "mark" /\ pass'[p].batch = pass[p].batch
           /\ \A q \in Passes \ {p} : pass'[q] = pass[q]
<1> DEFINE new == [pass[p] EXCEPT !.pc = "mark"]
<1>1. new \in PassRecord /\ new.pc = "mark" /\ new.batch = pass[p].batch
  BY Typed, PassFields
<1>2. pass' = [pass EXCEPT ![p] = new]
  BY DEF Extract
<1> HIDE DEF new
<1> QED
  BY <1>1, <1>2, PassBecomes

LEMMA PauseStep ==
    ASSUME TypeOK, NEW p \in Passes, Pause(p)
    PROVE  /\ pass' \in [Passes -> PassRecord] /\ pass'[p] = Free
           /\ \A q \in Passes \ {p} : pass'[q] = pass[q]
BY PassFields, PassBecomes DEF Pause

LEMMA PassTypes ==
    ASSUME TypeOK, NEW p \in Passes, Fire(p) \/ Step(p) \/ Skip(p) \/ Fail(p)
    PROVE  TypeOK'
<1> USE ConstantsAssumption
<1>1. /\ TypeOK /\ status \in Wants /\ buffer \in [Messages -> {"none", "buffered", "extracted"}]
      /\ reports \in [Messages -> 0..2] /\ troubles \in 0..MaxTroubles /\ failures \in Nat
      /\ overlap \in BOOLEAN /\ unmarked \in BOOLEAN /\ met \in BOOLEAN /\ failed \in BOOLEAN
  BY DEF TypeOK
<1>2. CASE Fire(p)
  <2>1. pass' \in [Passes -> PassRecord]
    BY <1>1, <1>2, FireStep
  <2>2. /\ overlap' \in BOOLEAN
        /\ UNCHANGED <<status, buffer, reports, unmarked, agentVars, callVars, causes, troubles>>
    BY <1>2, <1>1 DEF Fire
  <2> QED
    BY <1>1, <2>1, <2>2, PassMoves DEF agentVars, causes
<1>3. CASE Extract(p)
  <2>1. pass' \in [Passes -> PassRecord]
    BY <1>1, <1>3, ExtractStep
  <2>2. /\ reports' = [m \in Messages |->
                IF m \in Current(p) /\ reports[m] < 2 THEN reports[m] + 1 ELSE reports[m]]
        /\ UNCHANGED <<status, buffer, overlap, unmarked, agentVars, callVars, causes, troubles>>
    BY <1>3 DEF Extract
  <2>3. reports' \in [Messages -> 0..2]
    BY <1>1, <2>2
  <2> QED
    BY <1>1, <2>1, <2>2, <2>3, PassMoves DEF agentVars, causes
<1>4. CASE Skip(p)
  <2>1. pass' \in [Passes -> PassRecord]
    BY <1>1, <1>4, Continuing DEF Skip
  <2> QED
    BY <1>1, <1>4, <2>1, PassMoves DEF Skip, agentVars, causes
<1>5. CASE Mark(p)
  <2>1. pass' \in [Passes -> PassRecord]
    BY <1>1, <1>5, Continuing DEF Mark
  <2>2. /\ buffer' = Marked(Current(p)) /\ failures' = 0
        /\ UNCHANGED <<status, reports, overlap, unmarked, agent, timers, started, callVars, causes, troubles>>
    BY <1>5 DEF Mark
  <2>3. buffer' \in [Messages -> {"none", "buffered", "extracted"}]
    BY <1>1, <2>2 DEF Marked
  <2> QED
    BY <1>1, <2>1, <2>2, <2>3, PassMoves DEF causes
<1>6. CASE Fail(p)
  <2>1. /\ Catch(p)
        /\ unmarked' = (unmarked \/ pass[p].pc = "mark")
        /\ UNCHANGED <<status, buffer, reports, overlap, callVars, failed, troubles>>
    BY <1>6 DEF Fail
  <2>2. /\ pass' \in [Passes -> PassRecord] /\ started' = started
        /\ failures' \in Nat
        /\ \/ UNCHANGED <<agent, timers, met>>
           \/ /\ timers' = timers \ {agent} /\ agent' = NoAgent
              /\ met' = (met \/ Busy # {})
    BY <2>1, Catching
  <2>3. met' \in BOOLEAN /\ unmarked' \in BOOLEAN
    BY <1>1, <2>1, <2>2
  <2>4. agent' \in {agent, NoAgent} /\ timers' \subseteq timers
    BY <2>2
  <2>5. troubles' = troubles /\ troubles' <= MaxTroubles
    BY <1>1, <2>1
  <2> QED
    BY <1>1, <2>1, <2>2, <2>3, <2>4, <2>5, PassMoves
<1>7. CASE Pause(p)
  <2>1. pass' \in [Passes -> PassRecord]
    BY <1>1, <1>7, PauseStep
  <2>2. /\ UNCHANGED <<buffer, reports, overlap, unmarked, agentVars, callVars, met>>
        /\ status' \in {"gone", "paused", status}
        /\ failed' \in BOOLEAN
        /\ troubles' \in {troubles, troubles + 1} /\ troubles' <= MaxTroubles
    <3>1. /\ UNCHANGED <<buffer, reports, overlap, unmarked, agentVars, callVars, met>>
          /\ \/ /\ status' = (IF status = "gone" THEN "gone" ELSE "paused")
                /\ troubles' = troubles /\ failed' = failed
             \/ /\ troubles < MaxTroubles /\ troubles' = troubles + 1
                /\ failed' = TRUE /\ status' = status
      BY <1>7 DEF Pause, Trouble
    <3>2. troubles' \in {troubles, troubles + 1} /\ troubles' <= MaxTroubles
      BY <1>1, <3>1
    <3>3. failed' \in BOOLEAN /\ status' \in {"gone", "paused", status}
      BY <1>1, <3>1
    <3> QED
      BY <3>1, <3>2, <3>3
  <2>3. status' \in Wants
    BY <1>1, <2>2 DEF Wants
  <2> QED
    BY <1>1, <2>1, <2>2, <2>3, PassMoves DEF agentVars
<1> QED
  BY <1>2, <1>3, <1>4, <1>5, <1>6, <1>7 DEF Step

\* After a crash nothing is in flight but the start of the agent.
LEMMA CrashStep ==
    ASSUME Crash
    PROVE  /\ \A p \in Passes : pass'[p] = Free
           /\ \A a \in Callers : call'[a].pc = IF a = Boot THEN "start" ELSE "idle"
           /\ pass' \in [Passes -> PassRecord] /\ call' \in [Callers -> CallRecord]
<1> DEFINE boot == [NoCall EXCEPT !.pc = "start"]
<1>1. boot \in CallRecord /\ boot.pc = "start" /\ NoCall \in CallRecord /\ NoCall.pc = "idle"
  BY CallFields
<1>2. call' = [a \in Callers |-> IF a = Boot THEN boot ELSE NoCall]
  BY DEF Crash
<1>3. pass' = [p \in Passes |-> Free]
  BY DEF Crash
<1> HIDE DEF boot
<1> QED
  BY <1>1, <1>2, <1>3, PassFields

LEMMA TypesStep == ASSUME TypeOK, [Next]_vars PROVE TypeOK'
<1> USE ConstantsAssumption
<1>1. CASE \E a \in Callers : Start(a) \/ Route(a)
  BY <1>1, CallTypes
<1>2. CASE \/ \E a \in Callers : StartFails(a) \/ UpdateFails(a)
           \/ \E a \in Admins, want \in Wants : AskUpdate(a, want)
  BY <1>2, OtherCallTypes
<1>3. CASE \E p \in Passes : Fire(p) \/ Step(p) \/ Skip(p) \/ Fail(p)
  BY <1>3, PassTypes
<1>4. CASE \E m \in Messages : Receive(m)
  <2>1. PICK m \in Messages : Receive(m)
    BY <1>4
  <2>2. /\ buffer' = [buffer EXCEPT ![m] = "buffered"]
        /\ UNCHANGED <<status, reports, pass, overlap, unmarked, agentVars, callVars, causes, troubles>>
    BY <2>1 DEF Receive
  <2> QED
    BY <2>2 DEF TypeOK, agentVars, callVars, causes
<1>5. CASE Crash
  <2>1. /\ pass' \in [Passes -> PassRecord] /\ call' \in [Callers -> CallRecord]
    BY <1>5, CrashStep
  <2>2. /\ troubles < MaxTroubles /\ troubles' = troubles + 1
        /\ agent' = NoAgent /\ timers' = {} /\ failures' = 0
        /\ unmarked' = (unmarked \/ \E p \in Passes : pass[p].pc = "mark")
        /\ twoStarts' = FALSE /\ met' = FALSE /\ failed' = FALSE
        /\ UNCHANGED <<status, buffer, reports, started, updates, overlap>>
    BY <1>5 DEF Crash, Trouble
  <2>3. {unmarked', twoStarts', met', failed'} \subseteq BOOLEAN
    BY <2>2 DEF TypeOK
  <2> QED
    BY <2>1, <2>2, <2>3 DEF TypeOK, CallRecord, PassRecord
<1>6. CASE UNCHANGED vars
  BY <1>6 DEF TypeOK, vars, loopVars, agentVars, callVars, causes
<1> QED
  BY <1>1, <1>2, <1>3, <1>4, <1>5, <1>6 DEF Next

-------------------------------------------------------------------------------
(* Reports *)

LEMMA LoopUntouched ==
    ASSUME ReportInv, UNCHANGED <<buffer, reports, pass, overlap, unmarked>>,
           status = "gone" => status' = "gone"
    PROVE  ReportInv'
<1>1. \A p \in Passes : Current(p)' = Current(p)
  BY CurrentIsOfBatch
<1> QED
  BY <1>1 DEF ReportInv, MarkedAreReported, ExtractedIsReported, BatchIsStored, LoopInv, OnePass,
              BatchIsFresh, BufferedIsFresh, AbsentIsFresh

\* What a pass does not touch of the other passes' clusters.
LEMMA OtherClusters ==
    ASSUME NEW p \in Passes, \A q \in Passes \ {p} : pass'[q] = pass[q]
    PROVE  \A q \in Passes \ {p} : Current(q)' = Current(q) /\ pass'[q] = pass[q]
BY CurrentIsOfBatch

LEMMA FireReports ==
    ASSUME TypeOK, ReportInv, NEW p \in Passes, Fire(p)
    PROVE  ReportInv'
<1>1. /\ pass'[p].pc = "extract" /\ pass'[p].batch = Clustered(Unextracted)
      /\ \A q \in Passes \ {p} : pass'[q] = pass[q] /\ Current(q)' = Current(q)
  BY FireStep, OtherClusters
<1>2. /\ pass[p].pc = "idle"
      /\ overlap' = (overlap \/ \E q \in Passes : pass[q].pc # "idle")
      /\ UNCHANGED <<status, buffer, reports, unmarked>>
  BY DEF Fire
<1>3. MarkedAreReported' /\ ExtractedIsReported' /\ BatchIsStored'
  BY <1>1, <1>2 DEF ReportInv, MarkedAreReported, ExtractedIsReported, BatchIsStored, Clustered,
                    Unextracted
<1>4. ASSUME ~overlap', ~unmarked PROVE LoopInv'
  <2>1. /\ \A q \in Passes : pass[q].pc = "idle"
        /\ \A m \in Messages : reports[m] <= 1
        /\ BufferedIsFresh /\ AbsentIsFresh
    BY <1>2, <1>4 DEF ReportInv, LoopInv
  <2>2. \A m \in Messages : buffer[m] = "buffered" => ~(reports[m] > 0)
    BY <2>1 DEF BufferedIsFresh
  <2>3. \A m \in pass'[p].batch : reports[m] = 0
    <3>1. pass'[p].batch \subseteq Unextracted /\ Unextracted \subseteq Messages
      BY <1>1 DEF Clustered, Unextracted
    <3>2. \A m \in Messages : reports[m] \in Nat
      BY DEF TypeOK
    <3> QED
      BY <2>2, <3>1, <3>2 DEF Unextracted
  <2>4. OnePass' /\ BatchIsFresh' /\ BufferedIsFresh' /\ AbsentIsFresh'
    BY <1>1, <1>2, <2>1, <2>2, <2>3 DEF OnePass, BatchIsFresh, BufferedIsFresh, AbsentIsFresh
  <2> QED
    BY <1>2, <2>1, <2>4 DEF LoopInv
<1> QED
  BY <1>2, <1>3, <1>4 DEF ReportInv, LoopInv

LEMMA ExtractReports ==
    ASSUME TypeOK, ReportInv, NEW p \in Passes, Extract(p)
    PROVE  ReportInv'
<1>1. /\ pass'[p].pc = "mark" /\ pass'[p].batch = pass[p].batch /\ Current(p)' = Current(p)
      /\ \A q \in Passes \ {p} : pass'[q] = pass[q] /\ Current(q)' = Current(q)
  BY ExtractStep, OtherClusters, CurrentIsOfBatch
<1>2. /\ pass[p].pc = "extract"
      /\ reports' = [m \in Messages |->
              IF m \in Current(p) /\ reports[m] < 2 THEN reports[m] + 1 ELSE reports[m]]
      /\ UNCHANGED <<status, buffer, overlap, unmarked>>
  BY DEF Extract
<1>3. /\ \A m \in Messages : reports[m] \in 0..2
      /\ pass[p].batch \subseteq Messages /\ Current(p) \subseteq pass[p].batch
  BY Typed, PassFields, CurrentIsInBatch DEF TypeOK
<1>4. /\ \A m \in Messages : reports'[m] >= reports[m]
      /\ \A m \in Current(p) : reports'[m] > 0 /\ reports'[m] <= reports[m] + 1
      /\ \A m \in Messages \ Current(p) : reports'[m] = reports[m]
  BY <1>2, <1>3
<1>5. \A q \in Passes : Current(q) \subseteq Messages
  BY Typed, PassFields, CurrentIsInBatch
<1>6. MarkedAreReported'
  <2> SUFFICES ASSUME NEW q \in Passes, pass'[q].pc = "mark", NEW m \in Current(q)'
               PROVE  reports'[m] > 0
    BY DEF MarkedAreReported
  <2>1. CASE q = p
    BY <1>1, <1>4, <2>1
  <2>2. CASE q # p
    <3>1. m \in Current(q) /\ pass[q].pc = "mark"
      BY <1>1, <2>2
    <3>2. reports[m] > 0 /\ m \in Messages
      BY <1>5, <3>1 DEF ReportInv, MarkedAreReported
    <3>3. reports'[m] >= reports[m] /\ reports[m] \in Nat /\ reports'[m] \in Nat
      BY <1>2, <1>3, <1>4, <3>2
    <3> QED
      BY <3>2, <3>3
  <2> QED
    BY <2>1, <2>2
<1>7. ExtractedIsReported'
  <2> SUFFICES ASSUME NEW m \in Messages, buffer[m] = "extracted" PROVE reports'[m] > 0
    BY <1>2 DEF ExtractedIsReported
  <2>1. reports[m] > 0
    BY DEF ReportInv, ExtractedIsReported
  <2>2. reports'[m] >= reports[m] /\ reports[m] \in Nat /\ reports'[m] \in Nat
    BY <1>2, <1>3, <1>4
  <2> QED
    BY <2>1, <2>2
<1>8. ASSUME ~overlap, ~unmarked PROVE LoopInv'
  <2>1. /\ \A m \in Messages : reports[m] <= 1
        /\ OnePass /\ BatchIsFresh /\ BufferedIsFresh /\ AbsentIsFresh
    BY <1>8 DEF ReportInv, LoopInv
  <2>2. /\ \A q \in Passes \ {p} : pass[q].pc = "idle"
        /\ \A m \in pass[p].batch : reports[m] = 0
    BY <1>2, <2>1 DEF OnePass, BatchIsFresh
  <2>3. \A m \in Messages : reports'[m] <= 1
    BY <1>2, <1>3, <1>4, <2>1, <2>2
  <2>4. \A m \in pass'[p].batch \ Current(p)' : reports'[m] = 0
    BY <1>1, <1>3, <1>4, <2>2
  <2>5. OnePass' /\ BatchIsFresh'
    BY <1>1, <2>2, <2>4 DEF OnePass, BatchIsFresh
  <2>6. BufferedIsFresh'
    <3> SUFFICES ASSUME NEW m \in Messages, buffer[m] = "buffered", reports'[m] > 0,
                        m \notin Current(p)
                 PROVE  FALSE
      BY <1>1, <1>2 DEF BufferedIsFresh
    <3>1. reports[m] > 0
      BY <1>4
    <3>2. PICK q \in Passes : pass[q].pc = "mark"
      BY <2>1, <3>1 DEF BufferedIsFresh
    <3> QED
      BY <1>2, <2>2, <3>2
  <2>7. AbsentIsFresh'
    <3> SUFFICES ASSUME status # "gone", NEW m \in Messages, buffer[m] = "none"
                 PROVE  reports'[m] = 0
      BY <1>2 DEF AbsentIsFresh
    <3>1. reports[m] = 0
      BY <2>1 DEF AbsentIsFresh
    <3>2. m \notin Current(p)
      BY <1>3 DEF ReportInv, BatchIsStored
    <3> QED
      BY <1>4, <3>1, <3>2
  <2> QED
    BY <2>3, <2>5, <2>6, <2>7 DEF LoopInv
<1>9. BatchIsStored'
  BY <1>1, <1>2 DEF ReportInv, BatchIsStored
<1> QED
  BY <1>2, <1>6, <1>7, <1>8, <1>9 DEF ReportInv, LoopInv

\* A pass that gives up its cluster, or ends, while the reports and the buffer stay.
LEMMA DropReports ==
    ASSUME TypeOK, ReportInv, NEW p \in Passes,
           pass[p].pc # "idle", pass[p].pc = "pause" => pass'[p].pc = "idle",
           pass'[p].pc \in {"idle", "extract", "pause"}, pass'[p].batch \subseteq pass[p].batch,
           \A q \in Passes \ {p} : pass'[q] = pass[q],
           unmarked' = (unmarked \/ pass[p].pc = "mark"),
           UNCHANGED <<buffer, reports, overlap>>,
           status = "gone" => status' = "gone"
    PROVE  ReportInv'
<1>1. \A q \in Passes \ {p} : pass'[q] = pass[q] /\ Current(q)' = Current(q)
  BY OtherClusters
<1>2. MarkedAreReported' /\ ExtractedIsReported' /\ BatchIsStored'
  BY <1>1 DEF ReportInv, MarkedAreReported, ExtractedIsReported, BatchIsStored
<1>3. ASSUME ~overlap, ~unmarked' PROVE LoopInv'
  <2>1. /\ \A m \in Messages : reports[m] <= 1
        /\ OnePass /\ BatchIsFresh /\ BufferedIsFresh /\ AbsentIsFresh
        /\ pass[p].pc \in {"extract", "pause"}
    BY <1>3, Typed, PassFields DEF ReportInv, LoopInv
  <2>2. \A q \in Passes \ {p} : pass[q].pc = "idle"
    BY <2>1 DEF OnePass
  <2>3. OnePass' /\ BatchIsFresh'
    BY <1>1, <2>1, <2>2 DEF OnePass, BatchIsFresh
  <2>4. BufferedIsFresh' /\ AbsentIsFresh'
    BY <2>1, <2>2 DEF BufferedIsFresh, AbsentIsFresh
  <2> QED
    BY <2>1, <2>3, <2>4 DEF LoopInv
<1> QED
  BY <1>2, <1>3 DEF ReportInv, LoopInv

LEMMA EndReports ==
    ASSUME TypeOK, ReportInv, NEW p \in Passes, Skip(p) \/ Fail(p) \/ Pause(p)
    PROVE  ReportInv'
<1>1. TypeOK
  OBVIOUS
<1>2. CASE Skip(p)
  <2>1. /\ pass[p].pc = "extract" /\ Continue(p)
        /\ UNCHANGED <<status, buffer, reports, overlap, unmarked>>
    BY <1>2 DEF Skip
  <2>2. unmarked' = (unmarked \/ pass[p].pc = "mark")
    BY <1>1, <2>1 DEF TypeOK
  <2>3. /\ pass'[p].pc \in {"idle", "extract"} /\ pass'[p].batch \subseteq pass[p].batch
        /\ \A q \in Passes \ {p} : pass'[q] = pass[q]
    BY <1>1, <2>1, Continuing
  <2> QED
    BY <1>1, <2>1, <2>2, <2>3, DropReports
<1>3. CASE Fail(p)
  <2>1. /\ pass[p].pc \in {"extract", "mark"} /\ Catch(p)
        /\ unmarked' = (unmarked \/ pass[p].pc = "mark")
        /\ UNCHANGED <<status, buffer, reports, overlap>>
    BY <1>3 DEF Fail
  <2> QED
    BY <1>1, <2>1, Catching, DropReports
<1>4. CASE Pause(p)
  <2>1. /\ pass[p].pc = "pause"
        /\ UNCHANGED <<buffer, reports, overlap, unmarked>>
        /\ status = "gone" => status' = "gone"
    BY <1>4 DEF Pause
  <2>2. /\ pass'[p].pc = "idle" /\ pass'[p].batch = {}
        /\ \A q \in Passes \ {p} : pass'[q] = pass[q]
    BY <1>1, <1>4, PauseStep, PassFields
  <2>3. unmarked' = (unmarked \/ pass[p].pc = "mark")
    BY <1>1, <2>1 DEF TypeOK
  <2> QED
    BY <1>1, <2>1, <2>2, <2>3, DropReports
<1> QED
  BY <1>2, <1>3, <1>4

LEMMA MarkReports ==
    ASSUME TypeOK, ReportInv, NEW p \in Passes, Mark(p)
    PROVE  ReportInv'
<1>1. /\ pass[p].pc = "mark" /\ Continue(p) /\ buffer' = Marked(Current(p))
      /\ UNCHANGED <<status, reports, overlap, unmarked>>
  BY DEF Mark
<1>2. /\ pass'[p].pc \in {"idle", "extract"} /\ pass'[p].batch = pass[p].batch \ Current(p)
      /\ \A q \in Passes \ {p} : pass'[q] = pass[q] /\ Current(q)' = Current(q)
  BY <1>1, Continuing, OtherClusters
<1>3. \A m \in Messages :
        /\ buffer'[m] = IF m \in Current(p) /\ buffer[m] # "none" THEN "extracted" ELSE buffer[m]
        /\ buffer'[m] = "none" <=> buffer[m] = "none"
        /\ buffer'[m] = "buffered" => buffer[m] = "buffered" /\ m \notin Current(p)
  BY <1>1 DEF Marked
<1>4. MarkedAreReported'
  BY <1>1, <1>2 DEF ReportInv, MarkedAreReported
<1>5. ExtractedIsReported'
  <2> SUFFICES ASSUME NEW m \in Messages, buffer'[m] = "extracted" PROVE reports[m] > 0
    BY <1>1 DEF ExtractedIsReported
  <2>1. m \in Current(p) \/ buffer[m] = "extracted"
    BY <1>3
  <2> QED
    BY <1>1, <2>1 DEF ReportInv, MarkedAreReported, ExtractedIsReported
<1>6. BatchIsStored'
  <2>1. \A q \in Passes : pass'[q].batch \subseteq pass[q].batch /\ pass[q].batch \subseteq Messages
    BY <1>2, Typed, PassFields
  <2> QED
    BY <1>1, <1>3, <2>1 DEF ReportInv, BatchIsStored
<1>7. ASSUME ~overlap, ~unmarked PROVE LoopInv'
  <2>1. /\ \A m \in Messages : reports[m] <= 1
        /\ OnePass /\ BatchIsFresh /\ BufferedIsFresh /\ AbsentIsFresh
    BY <1>7 DEF ReportInv, LoopInv
  <2>2. \A q \in Passes \ {p} : pass[q].pc = "idle"
    BY <1>1, <2>1 DEF OnePass
  <2>3. OnePass' /\ BatchIsFresh'
    BY <1>1, <1>2, <2>1, <2>2 DEF OnePass, BatchIsFresh
  <2>4. BufferedIsFresh'
    BY <1>1, <1>3, <2>1, <2>2 DEF BufferedIsFresh
  <2>5. AbsentIsFresh'
    BY <1>1, <1>3, <2>1 DEF AbsentIsFresh
  <2> QED
    BY <1>1, <2>1, <2>3, <2>4, <2>5 DEF LoopInv
<1> QED
  BY <1>1, <1>4, <1>5, <1>6, <1>7 DEF ReportInv, LoopInv

LEMMA BufferReports ==
    ASSUME TypeOK, ReportInv, \/ \E m \in Messages : Receive(m)
                              \/ \E a \in Callers : Delete(a)
    PROVE  ReportInv'
<1>1. UNCHANGED <<reports, pass, overlap, unmarked>>
  BY DEF Receive, Delete
<1>2. \A p \in Passes : Current(p)' = Current(p)
  BY <1>1, CurrentIsOfBatch
<1>3. CASE \E m \in Messages : Receive(m)
  <2>1. PICK m \in Messages : Receive(m)
    BY <1>3
  <2>2. /\ status # "gone" /\ status' = status /\ buffer[m] = "none"
        /\ buffer' = [buffer EXCEPT ![m] = "buffered"]
    BY <2>1 DEF Receive
  <2>3. /\ buffer'[m] = "buffered" /\ \A n \in Messages \ {m} : buffer'[n] = buffer[n]
    BY <2>2 DEF TypeOK
  <2>4. MarkedAreReported' /\ ExtractedIsReported'
    BY <1>1, <1>2, <2>3 DEF ReportInv, MarkedAreReported, ExtractedIsReported
  <2>5. BatchIsStored'
    <3>1. \A p \in Passes : pass[p].batch \subseteq Messages
      BY Typed, PassFields
    <3> QED
      BY <1>1, <2>2, <2>3, <3>1 DEF ReportInv, BatchIsStored
  <2>6. LoopInv'
    BY <1>1, <1>2, <2>2, <2>3
       DEF ReportInv, LoopInv, OnePass, BatchIsFresh, BufferedIsFresh, AbsentIsFresh
  <2> QED
    BY <2>4, <2>5, <2>6 DEF ReportInv
<1>4. CASE \E a \in Callers : Delete(a)
  <2>1. status' = "gone" /\ buffer' = [m \in Messages |-> "none"]
    BY <1>4 DEF Delete
  <2>2. \A m \in Messages : buffer'[m] = "none"
    BY <2>1
  <2> QED
    BY <1>1, <1>2, <2>1, <2>2
       DEF ReportInv, MarkedAreReported, ExtractedIsReported, BatchIsStored, LoopInv, OnePass,
           BatchIsFresh, BufferedIsFresh, AbsentIsFresh
<1> QED
  BY <1>3, <1>4

LEMMA CrashReports ==
    ASSUME ReportInv, Crash
    PROVE  ReportInv'
<1>1. \A p \in Passes : pass'[p].pc = "idle" /\ pass'[p].batch = {}
  BY CrashStep, PassFields
<1>2. /\ unmarked' = (unmarked \/ \E p \in Passes : pass[p].pc = "mark")
      /\ UNCHANGED <<status, buffer, reports, overlap>>
  BY DEF Crash
<1>3. MarkedAreReported' /\ ExtractedIsReported' /\ BatchIsStored'
  BY <1>1, <1>2 DEF ReportInv, MarkedAreReported, ExtractedIsReported, BatchIsStored
<1>4. LoopInv'
  BY <1>1, <1>2 DEF ReportInv, LoopInv, OnePass, BatchIsFresh, BufferedIsFresh, AbsentIsFresh
<1> QED
  BY <1>3, <1>4 DEF ReportInv

LEMMA ReportsStep == ASSUME TypeOK, ReportInv, [Next]_vars PROVE ReportInv'
<1>1. TypeOK
  OBVIOUS
<1>2. CASE \E p \in Passes : Fire(p) \/ Step(p) \/ Skip(p) \/ Fail(p)
  BY <1>1, <1>2, FireReports, ExtractReports, MarkReports, EndReports DEF Step
<1>3. CASE (\E m \in Messages : Receive(m)) \/ \E a \in Callers : Delete(a)
  BY <1>1, <1>3, BufferReports
<1>4. CASE Crash
  BY <1>4, CrashReports
<1>5. CASE \/ \E a \in Callers : Start(a) \/ StartFails(a) \/ UpdateFails(a)
                                \/ WriteStatus(a) \/ ActStop(a) \/ ActStart(a)
           \/ \E a \in Admins, want \in Wants : AskUpdate(a, want)
           \/ UNCHANGED vars
  <2>1. /\ UNCHANGED <<buffer, reports, pass, overlap, unmarked>>
        /\ status = "gone" => status' = "gone"
    BY <1>5 DEF Start, LoadConnection, Launch, StartFails, UpdateFails, WriteStatus, ActStop, ActStart,
                AskUpdate, vars, loopVars
  <2> QED
    BY <2>1, LoopUntouched
<1> QED
  BY <1>2, <1>3, <1>4, <1>5 DEF Next, Route

-------------------------------------------------------------------------------
(* Starts and timers *)

LEMMA StartsMove ==
    ASSUME TypeOK, NEW a \in Callers, \A b \in Callers \ {a} : call'[b] = call[b]
    PROVE  /\ Starting' \subseteq Starting \cup {a}
           /\ call'[a].pc \notin {"start", "unseal"} => Starting' = Starting \ {a}
           /\ call[a].pc \in {"start", "unseal"} => Starting' \subseteq Starting
BY DEF Starting

LEMMA TimersStep == ASSUME TypeOK, TimerInv, [Next]_vars PROVE TimerInv'
<1>1. TypeOK /\ NoAgent \notin Nat /\ timers \subseteq 1..MaxTimers /\ MaxTimers \in Nat
  BY ConstantsAssumption DEF TypeOK
<1>2. timers \subseteq {agent} /\ agent = NoAgent => timers = {}
  BY <1>1
<1>3. ASSUME NEW a \in Callers, LoadConnection(a) \/ StartFails(a) \/ UpdateFails(a) \/ WriteStatus(a) \/ Delete(a)
      PROVE  TimerInv'
  <2>1. Starting' \subseteq Starting
    <3>1. /\ \A b \in Callers \ {a} : call'[b] = call[b]
          /\ LoadConnection(a) => call'[a].pc \in {"unseal", "idle"} /\ call[a].pc = "start"
          /\ StartFails(a) \/ UpdateFails(a) \/ Delete(a) => call'[a].pc = "idle"
          /\ WriteStatus(a) => call'[a].pc \in {"idle", "act"}
      BY <1>1, <1>3, CallStep DEF Start, Route, LoadConnection
    <3> QED
      BY <1>1, <1>3, <3>1, StartsMove
  <2>2. UNCHANGED <<agent, timers, twoStarts>>
    BY <1>3 DEF LoadConnection, StartFails, UpdateFails, WriteStatus, Delete, agentVars
  <2> QED
    BY <2>1, <2>2 DEF TimerInv
<1>4. ASSUME NEW a \in Callers, Launch(a) PROVE TimerInv'
  <2>1. Starting' = Starting \ {a} /\ a \in Starting
    BY <1>1, <1>4, CallStep, StartsMove DEF Start, Launch, Starting
  <2>2. /\ timers' = timers \cup {started'} /\ agent' = started' /\ twoStarts' = twoStarts
    BY <1>4 DEF Launch
  <2> QED
    BY <1>2, <2>1, <2>2 DEF TimerInv
<1>5. ASSUME NEW a \in Callers, ActStop(a) PROVE TimerInv'
  <2>1. Starting' = Starting \ {a}
    BY <1>1, <1>5, CallStep, StartsMove DEF Route
  <2>2. timers' = timers \ {agent} /\ agent' = NoAgent /\ twoStarts' = twoStarts
    BY <1>5 DEF ActStop, StopAgent
  <2> QED
    BY <2>1, <2>2 DEF TimerInv
<1>6. ASSUME NEW a \in Callers, ActStart(a) PROVE TimerInv'
  <2>1. UNCHANGED <<agent, timers>>
    BY <1>6 DEF ActStart, agentVars
  <2>2. CASE call[a].was # "active" /\ agent = NoAgent
    <3>1. twoStarts' = (twoStarts \/ Starting # {})
      BY <1>6, <2>2 DEF ActStart
    <3>2. Starting' \subseteq Starting \cup {a}
      BY <1>1, <1>6, CallStep, StartsMove DEF Route
    <3> QED
      BY <2>1, <2>2, <3>1, <3>2 DEF TimerInv
  <2>3. CASE ~(call[a].was # "active" /\ agent = NoAgent)
    <3>1. twoStarts' = twoStarts
      BY <1>6, <2>3 DEF ActStart
    <3>2. call'[a].pc = "idle" /\ \A b \in Callers \ {a} : call'[b] = call[b]
      BY <1>1, <1>6, <2>3, CallStep DEF Route
    <3>3. Starting' = Starting \ {a}
      BY <1>1, <3>2, StartsMove
    <3> QED
      BY <2>1, <3>1, <3>3 DEF TimerInv
  <2> QED
    BY <2>2, <2>3
<1>7. ASSUME NEW a \in Admins, NEW want \in Wants, AskUpdate(a, want) PROVE TimerInv'
  <2>1. /\ a \in Callers /\ \A b \in Callers \ {a} : call'[b] = call[b]
        /\ call'[a].pc \in {"act", "write"}
    BY <1>1, <1>7, AskStep
  <2>2. Starting' = Starting \ {a}
    BY <1>1, <2>1, StartsMove
  <2>3. UNCHANGED <<agent, timers, twoStarts>>
    BY <1>7 DEF AskUpdate, agentVars
  <2> QED
    BY <2>2, <2>3 DEF TimerInv
<1>8. ASSUME NEW p \in Passes, Fail(p) PROVE TimerInv'
  <2>1. /\ Catch(p) /\ UNCHANGED <<call, twoStarts>>
    BY <1>8 DEF Fail, callVars
  <2>2. UNCHANGED <<agent, timers>> \/ (timers' = timers \ {agent} /\ agent' = NoAgent)
    BY <2>1, Catching
  <2>3. Starting' = Starting
    BY <2>1 DEF Starting
  <2> QED
    BY <2>1, <2>2, <2>3 DEF TimerInv
<1>9. CASE Crash
  <2>1. Starting' \subseteq {Boot}
    BY <1>9, CrashStep DEF Starting
  <2>2. agent' = NoAgent /\ timers' = {}
    BY <1>9 DEF Crash
  <2> QED
    BY <2>1, <2>2 DEF TimerInv
<1>10. CASE \/ \E p \in Passes : Fire(p) \/ Step(p) \/ Skip(p)
            \/ \E m \in Messages : Receive(m)
            \/ UNCHANGED vars
  <2>1. UNCHANGED <<agent, timers, call, twoStarts>>
    BY <1>10 DEF Fire, Step, Extract, Mark, Pause, Skip, Receive, vars, agentVars, callVars
  <2>2. Starting' = Starting
    BY <2>1 DEF Starting
  <2> QED
    BY <2>1, <2>2 DEF TimerInv
<1> QED
  BY <1>3, <1>4, <1>5, <1>6, <1>7, <1>8, <1>9, <1>10 DEF Next, Start, Route

-------------------------------------------------------------------------------
(* Status and agent *)

\* A step of a call that met nothing is the step of the only one, and no breaker has tripped.
LEMMA OnlyCall ==
    ASSUME TypeOK, StatusInv, ~met, NEW a \in Callers, Start(a) \/ Route(a)
    PROVE  /\ Busy = {a} /\ Pausing = {} /\ Pausing' = {} /\ Progress(a)
           /\ call'[a].pc = "idle" => Busy' = {}
           /\ call'[a].pc # "idle" => Busy' = {a}
<1>1. call[a].pc # "idle"
  BY DEF Start, Route, LoadConnection, Launch, WriteStatus, ActStop, ActStart, Delete
<1>2. Busy = {a} /\ Pausing = {} /\ Progress(a)
  BY <1>1 DEF StatusInv, Busy
<1>3. /\ \A b \in Callers \ {a} : call'[b] = call[b]
      /\ pass' = pass
  BY CallStep
<1> QED
  BY <1>2, <1>3 DEF Busy, Pausing

LEMMA StatusSteps ==
    ASSUME TypeOK, StatusInv, NEW a \in Callers, Start(a) \/ Route(a)
    PROVE  StatusInv'
<1>1. TypeOK /\ NoAgent \notin Nat /\ started \in Nat
  BY ConstantsAssumption DEF TypeOK
<1>2. met' = met /\ failed' = failed
  BY DEF Start, Route, LoadConnection, Launch, WriteStatus, ActStop, ActStart, Delete, causes
<1>3. SUFFICES ASSUME ~met PROVE StatusInv'
  BY <1>2 DEF StatusInv
<1>4. /\ Busy = {a} /\ Pausing' = {} /\ Progress(a)
      /\ call'[a].pc = "idle" => Busy' = {}
      /\ call'[a].pc # "idle" => Busy' = {a}
  BY <1>1, <1>3, OnlyCall
<1>5. call'[a].pc # "idle" => call'[a].want = call[a].want /\ call'[a].was = call[a].was
  BY <1>1, CallStep
<1>6. SUFFICES /\ call'[a].pc = "idle" => Follows(status)'
               /\ call'[a].pc # "idle" => Progress(a)'
  BY <1>2, <1>4 DEF StatusInv
<1>7. CASE LoadConnection(a)
  <2>1. /\ call[a].pc = "start" /\ UNCHANGED <<status, agent>>
        /\ call'[a].pc = IF status = "active" THEN "unseal" ELSE "idle"
    BY <1>1, <1>7, CallStep DEF LoadConnection, Start, agentVars
  <2>2. ~Running
    BY <1>4, <2>1 DEF Progress
  <2> QED
    BY <1>2, <2>1, <2>2 DEF Progress, Follows, Running
<1>8. CASE Launch(a)
  <2>1. /\ call[a].pc = "unseal" /\ agent' = started + 1 /\ status' = status
        /\ call'[a].pc = "idle"
    BY <1>1, <1>8, CallStep DEF Launch, Start
  <2> QED
    BY <1>1, <1>4, <2>1 DEF Progress, Follows, Running
<1>9. CASE WriteStatus(a)
  <2>1. /\ call[a].pc = "write" /\ agent' = agent
        /\ call'[a].pc = IF status = "gone" THEN "idle" ELSE "act"
        /\ status' = IF status = "gone" THEN status ELSE call[a].want
    BY <1>1, <1>9, CallStep DEF WriteStatus, Route, agentVars
  <2>2. Follows(status) /\ call[a].was = status
    BY <1>4, <2>1 DEF Progress
  <2> QED
    BY <1>2, <1>5, <2>1, <2>2 DEF Progress, Follows, Running
<1>10. CASE ActStop(a)
  <2>1. /\ call[a].pc = "act" /\ call[a].want # "active" /\ agent' = NoAgent /\ status' = status
        /\ call'[a].pc = IF call[a].want = "gone" THEN "delete" ELSE "idle"
    BY <1>1, <1>10, CallStep DEF ActStop, StopAgent, Route
  <2>2. call[a].want # "gone" => status = call[a].want
    BY <1>4, <2>1 DEF Progress
  <2> QED
    BY <1>2, <2>1, <2>2 DEF Progress, Follows, Running
<1>11. CASE ActStart(a)
  <2>1. /\ call[a].pc = "act" /\ call[a].want = "active" /\ UNCHANGED <<agent, status>>
        /\ call'[a].pc = IF call[a].was # "active" /\ agent = NoAgent THEN "start" ELSE "idle"
    BY <1>1, <1>11, CallStep DEF ActStart, Route, agentVars
  <2>2. Follows(call[a].was) /\ status = "active"
    BY <1>4, <2>1 DEF Progress
  <2> QED
    BY <1>2, <2>1, <2>2 DEF Progress, Follows, Running
<1>12. CASE Delete(a)
  <2>1. /\ call[a].pc = "delete" /\ agent' = agent /\ status' = "gone" /\ call'[a].pc = "idle"
    BY <1>1, <1>12, CallStep DEF Delete, Route, agentVars
  <2>2. ~Running
    BY <1>4, <2>1 DEF Progress
  <2> QED
    BY <2>1, <2>2 DEF Follows, Running
<1> QED
  BY <1>7, <1>8, <1>9, <1>10, <1>11, <1>12 DEF Start, Route

LEMMA AskStatus ==
    ASSUME TypeOK, StatusInv, NEW a \in Admins, NEW want \in Wants, AskUpdate(a, want)
    PROVE  StatusInv'
<1>1. /\ a \in Callers /\ \A b \in Callers \ {a} : call'[b] = call[b]
      /\ call'[a].pc = IF want = "gone" THEN "act" ELSE "write"
      /\ call'[a].want = want /\ call'[a].was = status
  BY AskStep
<1>2. /\ met' = (met \/ Busy # {} \/ Pausing # {})
      /\ UNCHANGED <<status, agent, pass, failed>>
  BY DEF AskUpdate, loopVars, agentVars
<1>3. ASSUME ~met, Busy = {}, Pausing = {} PROVE StatusInv'
  <2>1. Follows(status)
    BY <1>3 DEF StatusInv
  <2>2. Busy' = {a} /\ Pausing' = {}
    BY <1>1, <1>2, <1>3 DEF Busy, Pausing
  <2>3. Progress(a)' /\ Running' = Running
    BY <1>1, <1>2, <2>1 DEF Progress, Follows, Running
  <2> QED
    BY <2>2, <2>3 DEF StatusInv
<1> QED
  BY <1>2, <1>3 DEF StatusInv

LEMMA BreakerStatus ==
    ASSUME TypeOK, StatusInv, NEW p \in Passes, Fail(p) \/ Pause(p)
    PROVE  StatusInv'
<1>1. TypeOK /\ met \in BOOLEAN
  BY DEF TypeOK
<1>2. CASE Fail(p)
  <2>1. /\ Catch(p) /\ UNCHANGED <<status, call, failed>>
        /\ pass[p].pc # "pause"
    BY <1>2 DEF Fail, callVars
  <2>2. /\ \A q \in Passes \ {p} : pass'[q] = pass[q]
        /\ \/ pass'[p].pc # "pause" /\ UNCHANGED <<agent, met>>
           \/ /\ pass'[p].pc = "pause" /\ agent' = NoAgent
              /\ met' = (met \/ Busy # {})
    BY <2>1, Catching
  <2>3. Busy' = Busy /\ \A a \in Callers : agent' = agent => Progress(a)' = Progress(a)
    BY <2>1 DEF Busy, Progress, Follows, Running
  <2>4. CASE pass'[p].pc # "pause"
    <3>1. Pausing' = Pausing /\ UNCHANGED <<agent, met>>
      BY <2>1, <2>2, <2>4 DEF Pausing
    <3>2. Busy \subseteq Callers /\ Running' = Running
      BY <3>1 DEF Busy, Running
    <3>3. \A a \in Busy : Progress(a)' = Progress(a)
      BY <2>3, <3>1, <3>2
    <3> QED
      BY <2>1, <2>3, <3>1, <3>2, <3>3 DEF StatusInv, Follows
  <2>5. CASE pass'[p].pc = "pause"
    <3>1. Pausing' # {} /\ ~Running' /\ met' = (met \/ Busy # {})
      BY <2>2, <2>5 DEF Pausing, Running
    <3> QED
      BY <2>3, <3>1 DEF StatusInv
  <2> QED
    BY <2>4, <2>5
<1>3. CASE Pause(p)
  <2>1. /\ pass[p].pc = "pause" /\ UNCHANGED <<agent, call>>
        /\ met' = met
        /\ \/ failed' = TRUE
           \/ failed' = failed /\ status' = IF status = "gone" THEN "gone" ELSE "paused"
    BY <1>3 DEF Pause, agentVars, callVars
  <2>2. /\ \A q \in Passes \ {p} : pass'[q] = pass[q]
        /\ pass'[p].pc = "idle"
    BY <1>1, <1>3, PauseStep, PassFields
  <2>3. Busy' = Busy /\ Pausing' = Pausing \ {p} /\ p \in Pausing /\ Running' = Running
    BY <2>1, <2>2 DEF Busy, Pausing, Running
  <2>4. SUFFICES ASSUME ~met PROVE StatusInv'
    BY <2>1 DEF StatusInv
  <2>5. Busy = {} /\ ~Running
    BY <2>3, <2>4 DEF StatusInv
  <2>6. Follows(status)'
    BY <2>1, <2>3, <2>5 DEF Follows
  <2> QED
    BY <2>3, <2>5, <2>6 DEF StatusInv
<1> QED
  BY <1>2, <1>3

LEMMA OtherStatus ==
    ASSUME TypeOK, StatusInv,
           \/ \E a \in Callers : StartFails(a) \/ UpdateFails(a)
           \/ \E p \in Passes : Fire(p) \/ Extract(p) \/ Mark(p) \/ Skip(p)
           \/ \E m \in Messages : Receive(m)
           \/ Crash \/ UNCHANGED vars
    PROVE  StatusInv'
<1>1. TypeOK
  OBVIOUS
<1>2. ASSUME NEW a \in Callers, StartFails(a) \/ UpdateFails(a) PROVE StatusInv'
  <2>1. SUFFICES ASSUME ~met PROVE StatusInv'
    BY <1>2 DEF StartFails, UpdateFails, StatusInv
  <2>2. /\ UNCHANGED <<status, agent, pass, met>>
        /\ call[a].pc \in {"start", "unseal", "write", "delete"}
        /\ call[a].pc # "write" => failed'
        /\ call[a].pc = "write" => failed' = failed
    BY <1>1, <1>2 DEF StartFails, UpdateFails, Starting, TypeOK, loopVars, agentVars
  <2>3. call'[a].pc = "idle" /\ \A b \in Callers \ {a} : call'[b] = call[b]
    BY <1>1, <1>2, CallStep
  <2>4. a \in Busy /\ \A b \in Busy : a = b
    BY <2>1, <2>2 DEF StatusInv, Busy
  <2>5. Pausing = {} /\ Progress(a)
    BY <2>1, <2>4 DEF StatusInv
  <2>6. Busy' = {} /\ Pausing' = {}
    BY <2>2, <2>3, <2>4, <2>5 DEF Busy, Pausing
  <2>7. Follows(status)'
    BY <2>2, <2>5 DEF Progress, Follows, Running
  <2> QED
    BY <2>6, <2>7 DEF StatusInv
<1>3. CASE Crash
  <2>1. Busy' \subseteq {Boot} /\ Pausing' = {}
    BY <1>3, CrashStep, PassFields DEF Busy, Pausing
  <2>2. call'[Boot].pc = "start" /\ Busy' = {Boot}
    BY <1>3, CrashStep, <2>1 DEF Callers, Busy
  <2>3. ~Running'
    BY <1>3 DEF Crash, Running
  <2>4. Progress(Boot)'
    BY <2>2, <2>3 DEF Progress
  <2> QED
    BY <2>1, <2>2, <2>3, <2>4 DEF StatusInv
<1>4. ASSUME UNCHANGED <<status, agent, call, causes>>, Pausing' = Pausing PROVE StatusInv'
  <2>1. Busy' = Busy /\ Running' = Running /\ \A a \in Callers : Progress(a)' = Progress(a)
    BY <1>4 DEF Busy, Running, Progress, Follows, causes
  <2>2. Busy \subseteq Callers
    BY DEF Busy
  <2> QED
    BY <1>4, <2>1, <2>2 DEF StatusInv, Follows, causes
<1>5. ASSUME NEW p \in Passes, Fire(p) \/ Extract(p) \/ Mark(p) \/ Skip(p) PROVE StatusInv'
  <2>1. UNCHANGED <<status, agent, call, causes>> /\ pass[p].pc # "pause"
    BY <1>5 DEF Fire, Extract, Mark, Skip, agentVars, callVars
  <2>2. pass'[p].pc # "pause" /\ \A q \in Passes \ {p} : pass'[q] = pass[q]
    BY <1>1, <1>5, FireStep, ExtractStep, Continuing DEF Mark, Skip
  <2>3. Pausing' = Pausing
    BY <2>1, <2>2 DEF Pausing
  <2> QED
    BY <1>4, <2>1, <2>3
<1>6. CASE (\E m \in Messages : Receive(m)) \/ UNCHANGED vars
  <2>1. UNCHANGED <<status, agent, call, causes, pass>>
    BY <1>6 DEF Receive, vars, loopVars, agentVars, callVars
  <2> QED
    BY <1>4, <2>1 DEF Pausing
<1> QED
  BY <1>2, <1>3, <1>5, <1>6

LEMMA StatusStep == ASSUME TypeOK, StatusInv, [Next]_vars PROVE StatusInv'
<1>1. TypeOK
  OBVIOUS
<1> QED
  BY <1>1, StatusSteps, AskStatus, BreakerStatus, OtherStatus DEF Next, Step

-------------------------------------------------------------------------------

LEMMA InitHolds == Init => IInv
<1> SUFFICES ASSUME Init PROVE IInv
  OBVIOUS
<1> USE ConstantsAssumption
<1> DEFINE boot == [NoCall EXCEPT !.pc = "start"]
<1>1. boot \in CallRecord /\ boot.pc = "start" /\ NoCall \in CallRecord /\ NoCall.pc = "idle"
  BY CallFields
<1>2. call = [a \in Callers |-> IF a = Boot THEN boot ELSE NoCall] /\ Boot \in Callers
  BY DEF Init, Callers
<1> HIDE DEF boot
<1>3. call \in [Callers -> CallRecord] /\ Busy = {Boot} /\ call[Boot].pc = "start"
  BY <1>1, <1>2 DEF Busy
<1>4. \A p \in Passes : pass[p].pc = "idle" /\ pass[p].batch = {}
  BY PassFields DEF Init
<1>5. pass \in [Passes -> PassRecord] /\ Pausing = {}
  BY <1>4, PassFields DEF Init, Pausing
<1>6. TypeOK
  <2>1. /\ status \in Wants /\ buffer \in [Messages -> {"none", "buffered", "extracted"}]
        /\ reports \in [Messages -> 0..2] /\ agent = NoAgent /\ timers = {}
    BY DEF Init, Wants
  <2>2. /\ started = 0 /\ failures = 0 /\ updates = 0 /\ troubles = 0
        /\ {overlap, unmarked, twoStarts, met, failed} \subseteq BOOLEAN
    BY DEF Init
  <2>3. MaxTimers \in Nat /\ MaxUpdates \in Nat /\ MaxTroubles \in Nat
    OBVIOUS
  <2> QED
    BY <1>3, <1>5, <2>1, <2>2, <2>3 DEF TypeOK, CallRecord, PassRecord
<1>7. ReportInv
  <2>1. \A m \in Messages : reports[m] = 0 /\ buffer[m] # "extracted"
    BY DEF Init
  <2>2. MarkedAreReported /\ ExtractedIsReported /\ BatchIsStored
    BY <1>4, <2>1 DEF MarkedAreReported, ExtractedIsReported, BatchIsStored
  <2>3. LoopInv
    BY <1>4, <2>1 DEF LoopInv, OnePass, BatchIsFresh, BufferedIsFresh, AbsentIsFresh
  <2> QED
    BY <2>2, <2>3 DEF ReportInv
<1>8. TimerInv
  BY <1>3 DEF Init, TimerInv, Starting, Busy
<1>9. StatusInv
  BY <1>3, <1>5 DEF Init, StatusInv, Progress, Follows, Running
<1> QED
  BY <1>6, <1>7, <1>8, <1>9 DEF IInv

LEMMA Inductive == Spec => []IInv
<1>1. IInv /\ [Next]_vars => IInv'
  BY TypesStep, ReportsStep, TimersStep, StatusStep DEF IInv
<1> QED
  BY InitHolds, <1>1, PTL DEF Spec

\* The connection, its buffer, its agent and everything in flight have their types, however the
\* starts, stops, passes and updates of services/firehose-agent.ts interleave.
THEOREM FirehoseTypes == Spec => []TypeOK
<1>1. IInv => TypeOK
  BY DEF IInv, TypeOK
<1> QED
  BY <1>1, Inductive, PTL

\* No message is marked as extracted without a report that holds it: runExtractionLoop marks a
\* cluster after its report is submitted, and nobody else does (services/firehose-agent.ts).
THEOREM ExtractedMessagesAreReported == Spec => []ExtractedIsReported
<1>1. IInv => ExtractedIsReported
  BY DEF IInv, ReportInv
<1> QED
  BY <1>1, Inductive, PTL

\* No message is reported twice unless passes of runExtractionLoop overlapped or an error or a
\* crash came between a report and its marks.
THEOREM SecondReportsHaveACause == Spec => []ReportedTwiceHasACause
<1>1. IInv => ReportedTwiceHasACause
  <2> SUFFICES ASSUME IInv PROVE ReportedTwiceHasACause
    OBVIOUS
  <2>1. \A m \in Messages : reports[m] \in Nat
    BY DEF IInv, TypeOK, TypeOK
  <2> QED
    BY <2>1 DEF IInv, ReportInv, LoopInv, ReportedTwiceHasACause
<1> QED
  BY <1>1, Inductive, PTL

\* Every interval is that of the agent in the service's map, unless two calls of startAgent
\* overlapped across its awaits.
THEOREM TimersAreTheAgents == Spec => []StrayTimerHasACause
<1>1. IInv => StrayTimerHasACause
  BY DEF IInv, TimerInv, StrayTimerHasACause
<1> QED
  BY <1>1, Inductive, PTL

\* At rest, an agent of a connection that is not active has an update that met another one or a
\* tripped breaker behind it, whatever failed; an active connection without agent that, or a start,
\* a deletion or the breaker's write that failed (PATCH and DELETE of routes/firehose.ts).
THEOREM AgentFollowsStatus == Spec => []StatusDecides
<1>1. IInv => StatusDecides
  BY DEF IInv, StatusInv, StatusDecides, Follows, Running
<1> QED
  BY <1>1, Inductive, PTL
===============================================================================
