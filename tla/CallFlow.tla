------------------------------- MODULE CallFlow -------------------------------
(***************************************************************************)
(* The life of an inbound hotline call on the server: the telephony        *)
(* webhooks of routes/telephony.ts, the background job of lib/ringing.ts,  *)
(* the REST handlers of routes/calls.ts and the active_calls / call_legs   *)
(* tables behind services/calls.ts.                                        *)
(*                                                                         *)
(* The telephony provider is external: it is modelled by the documents     *)
(* (TwiML) that telephony/twilio.ts answers with and the callbacks it      *)
(* registers.  Callbacks are HTTP requests, so the ones in flight form a   *)
(* set and are served in any order.                                        *)
(*                                                                         *)
(* A handler is one action when it touches shared state once; the handlers *)
(* that read before they write (ringing, answer, hangup, spam) have one    *)
(* action per database access, and other handlers run in between.          *)
(***************************************************************************)
EXTENDS Integers, FiniteSets

CONSTANTS
    Calls,          \* provider call SIDs of inbound callers
    Users,          \* user pubkeys
    PhoneUsers,     \* callPreference 'phone' or 'both', with a phone number
    BrowserUsers,   \* callPreference 'browser' or 'both'
    FallbackGroup,  \* the hub's fallback ring group
    VoicemailModes, \* values an administrator gives callSettings.voicemailMode
    MaxToggles,     \* BOUND on shift and break changes in a behaviour
    NoUser, NoCall, NoLeg

ASSUME UsersAssumption ==
    /\ PhoneUsers \subseteq Users
    /\ BrowserUsers \subseteq Users
    /\ FallbackGroup \subseteq Users
    /\ NoUser \notin Users
    /\ NoCall \notin Calls

ASSUME SettingsAssumption ==
    /\ VoicemailModes \subseteq {"auto", "always", "never"}
    /\ MaxToggles \in Nat

\* One outbound provider call per phone number and one per browser identity.
Legs == (PhoneUsers \X {"phone"}) \cup (BrowserUsers \X {"browser"})

ASSUME LegAssumption == NoLeg \notin Legs

VARIABLES
    \* database
    status,     \* active_calls.status, "none" when there is no row
    assigned,   \* active_calls.assigned_pubkey
    browserLeg, \* call_legs.status of the browser leg of each user
    record,     \* call_records: subset of {"exists", "voicemail", "recording"}
    answeredLog, \* audit_log: who the callAnswered entries of a call name
    endedLog,   \* audit_log: number of its callEnded entries
    missedLog,  \* audit_log: number of its callMissed entries
    \* availability of the users
    onShift,    \* ShiftService.getEffectiveUsers
    away,       \* users with onBreak set or active cleared
    toggles,
    \* handlers in flight
    job,        \* program counter of startParallelRinging
    ringSet,    \* its local `available`
    rest,       \* the REST request each user has in flight
    \* telephony provider
    phase,      \* where the caller is
    leg,        \* where each outbound call is
    peer,       \* the leg the caller was connected to
    webhooks    \* callbacks sent and not yet served

auditVars == <<answeredLog, endedLog, missedLog>>
dbVars == <<status, assigned, browserLeg, record, auditVars>>
userVars == <<onShift, away, toggles>>
handlerVars == <<job, ringSet, rest>>
providerVars == <<phase, leg, peer, webhooks>>
vars == <<status, assigned, browserLeg, record, auditVars, onShift, away, toggles,
          job, ringSet, rest, phase, leg, peer, webhooks>>

Status == {"none", "ringing", "in-progress", "voicemail", "spam"}
Phase == {"idle", "menu", "captcha", "greeting", "queued", "leaving",
          "voicemail", "bridged", "ended"}
LegState == {"none", "ringing", "answered", "dialing", "bridged", "over"}
WebhookKind == {"answer", "completed", "unanswered", "recorded",
                "hangup", "leave", "bridged", "voicemail"}
Webhook == [kind : WebhookKind, call : Calls, leg : Legs \cup {NoLeg}]
RestOp == {"idle", "answer", "cancel", "hangup", "spam"}

TypeOK ==
    /\ status \in [Calls -> Status]
    /\ assigned \in [Calls -> Users \cup {NoUser}]
    /\ browserLeg \in [Calls -> [Users -> {"none", "ringing", "cancelled"}]]
    /\ record \in [Calls -> SUBSET {"exists", "voicemail", "recording"}]
    /\ answeredLog \in [Calls -> SUBSET Users]
    /\ endedLog \in [Calls -> Nat]
    /\ missedLog \in [Calls -> Nat]
    /\ onShift \subseteq Users
    /\ away \subseteq Users
    /\ toggles \in Nat
    /\ job \in [Calls -> {"none", "select", "create", "legs", "dial", "done"}]
    /\ ringSet \in [Calls -> SUBSET Users]
    /\ rest \in [Users -> [op : RestOp, call : Calls \cup {NoCall}]]
    /\ phase \in [Calls -> Phase]
    /\ leg \in [Calls -> [Legs -> LegState]]
    /\ peer \in [Calls -> Legs \cup {NoLeg}]
    /\ webhooks \subseteq Webhook

Init ==
    /\ status = [c \in Calls |-> "none"]
    /\ assigned = [c \in Calls |-> NoUser]
    /\ browserLeg = [c \in Calls |-> [u \in Users |-> "none"]]
    /\ record = [c \in Calls |-> {}]
    /\ answeredLog = [c \in Calls |-> {}]
    /\ endedLog = [c \in Calls |-> 0]
    /\ missedLog = [c \in Calls |-> 0]
    /\ onShift \in SUBSET Users
    /\ away \in SUBSET Users
    /\ toggles = 0
    /\ job = [c \in Calls |-> "none"]
    /\ ringSet = [c \in Calls |-> {}]
    /\ rest = [u \in Users |-> [op |-> "idle", call |-> NoCall]]
    /\ phase = [c \in Calls |-> "idle"]
    /\ leg = [c \in Calls |-> [l \in Legs |-> "none"]]
    /\ peer = [c \in Calls |-> NoLeg]
    /\ webhooks = {}

-------------------------------------------------------------------------------
(* CallService: the operations on the active_calls table *)

HasRow(c) == status[c] # "none"

\* updateActiveCall, the assignment both answer paths make.
AssignCall(c, u) ==
    /\ status' = [status EXCEPT ![c] = "in-progress"]
    /\ assigned' = [assigned EXCEPT ![c] = u]

\* Mutant of DeleteRow: marks the row as over instead of deleting it.
DeleteRowAsCompleted(c) ==
    /\ status' = [status EXCEPT ![c] = "completed"]
    /\ assigned' = [assigned EXCEPT ![c] = NoUser]

\* deleteActiveCall: no error when the row is already gone.
DeleteRow(c) ==
    /\ status' = [status EXCEPT ![c] = "none"]
    /\ assigned' = [assigned EXCEPT ![c] = NoUser]

Sent(kind, c, l) == [kind |-> kind, call |-> c, leg |-> l]

-------------------------------------------------------------------------------
(* Users change their shift and their break while calls are handled *)

ToggleShift(u) ==
    /\ toggles < MaxToggles
    /\ toggles' = toggles + 1
    /\ onShift' = IF u \in onShift THEN onShift \ {u} ELSE onShift \cup {u}
    /\ UNCHANGED <<away, dbVars, handlerVars, providerVars>>

ToggleAway(u) ==
    /\ toggles < MaxToggles
    /\ toggles' = toggles + 1
    /\ away' = IF u \in away THEN away \ {u} ELSE away \cup {u}
    /\ UNCHANGED <<onShift, dbVars, handlerVars, providerVars>>

\* getEffectiveUsers, else the fallback group.
RingGroup == IF onShift = {} THEN FallbackGroup ELSE onShift

-------------------------------------------------------------------------------
(* POST /incoming, /language-selected, /captcha *)

\* A banned caller is rejected, any other one hears the language menu.
Incoming(c) ==
    /\ phase[c] = "idle"
    /\ \E banned \in BOOLEAN :
         phase' = [phase EXCEPT ![c] = IF banned THEN "ended" ELSE "menu"]
    /\ UNCHANGED <<leg, peer, webhooks, dbVars, userVars, handlerVars>>

\* checkVoicemailMode and what both entry points do with its answer.  Only
\* /language-selected creates the call record before the voicemail prompt.
RouteCaller(c, newRecord) ==
    \E mode \in VoicemailModes :
      LET hasAvailableUsers == mode # "always" /\ RingGroup # {}
      IN \/ /\ mode = "always" \/ (mode = "auto" /\ ~hasAvailableUsers)
            /\ phase' = [phase EXCEPT ![c] = "voicemail"]
            /\ record' = [record EXCEPT ![c] = @ \cup newRecord]
            /\ UNCHANGED job
         \/ /\ mode = "never" /\ ~hasAvailableUsers
            /\ phase' = [phase EXCEPT ![c] = "ended"]
            /\ UNCHANGED <<record, job>>
         \/ /\ hasAvailableUsers
            /\ phase' = [phase EXCEPT ![c] = "greeting"]
            /\ job' = [job EXCEPT ![c] = "select"]
            /\ UNCHANGED record

LanguageSelected(c) ==
    /\ phase[c] = "menu"
    /\ \/ \E gate \in {"ended", "captcha"} : \* rate limited, or challenged
            /\ phase' = [phase EXCEPT ![c] = gate]
            /\ UNCHANGED <<record, job>>
       \/ RouteCaller(c, {"exists"})
    /\ UNCHANGED <<status, assigned, browserLeg, auditVars, userVars, ringSet, rest,
                   leg, peer, webhooks>>

\* A retry keeps the caller where he is; the attempts are those of SpamGate.
Captcha(c) ==
    /\ phase[c] = "captcha"
    /\ \/ /\ phase' = [phase EXCEPT ![c] = "ended"]
          /\ UNCHANGED <<record, job>>
       \/ RouteCaller(c, {})
    /\ UNCHANGED <<status, assigned, browserLeg, auditVars, userVars, ringSet, rest,
                   leg, peer, webhooks>>

-------------------------------------------------------------------------------
(* startParallelRinging, a background job nobody awaits *)

\* One step for the shifts and the users it reads one after the other: shifts and breaks
\* may change before and after it.
RingSelect(c) ==
    /\ job[c] = "select"
    /\ LET available == RingGroup \ away
       IN /\ job' = [job EXCEPT ![c] = IF available = {} THEN "done" ELSE "create"]
          /\ ringSet' = [ringSet EXCEPT ![c] = available]
    /\ UNCHANGED <<rest, dbVars, userVars, providerVars>>

\* createActiveCall: an insert on the primary key, so a row that is there
\* makes it throw and ends the job.
RingCreateRow(c) ==
    /\ job[c] = "create"
    /\ IF HasRow(c)
       THEN /\ job' = [job EXCEPT ![c] = "done"]
            /\ UNCHANGED <<status, assigned>>
       ELSE /\ job' = [job EXCEPT ![c] = "legs"]
            /\ status' = [status EXCEPT ![c] = "ringing"]
            /\ assigned' = [assigned EXCEPT ![c] = NoUser]
    /\ UNCHANGED <<browserLeg, record, auditVars, ringSet, rest, userVars, providerVars>>

\* Only browser legs get a row in call_legs.
RingCreateLegs(c) ==
    /\ job[c] = "legs"
    /\ job' = [job EXCEPT ![c] = "dial"]
    /\ browserLeg' = [browserLeg EXCEPT ![c] =
                        [u \in Users |-> IF u \in ringSet[c] \cap BrowserUsers
                                         THEN "ringing" ELSE @[u]]]
    /\ UNCHANGED <<status, assigned, record, auditVars, ringSet, rest, userVars, providerVars>>

\* adapter.ringUsers; each outbound call may fail on its own (allSettled).
RingDial(c) ==
    /\ job[c] = "dial"
    /\ job' = [job EXCEPT ![c] = "done"]
    /\ \E placed \in SUBSET {l \in Legs : l[1] \in ringSet[c]} :
         leg' = [leg EXCEPT ![c] = [l \in Legs |->
                   IF l \in placed THEN "ringing" ELSE @[l]]]
    /\ UNCHANGED <<ringSet, rest, phase, peer, webhooks, dbVars, userVars>>

-------------------------------------------------------------------------------
(* The provider: the caller's side *)

\* The greeting is over and <Enqueue> is executed; a full queue, or an error, has its
\* result at once, which the route takes like that of <Leave/>.
Enqueue(c) ==
    /\ phase[c] = "greeting"
    /\ \/ /\ phase' = [phase EXCEPT ![c] = "queued"]
          /\ UNCHANGED webhooks
       \/ /\ phase' = [phase EXCEPT ![c] = "leaving"]
          /\ webhooks' = webhooks \cup {Sent("leave", c, NoLeg)}
    /\ UNCHANGED <<leg, peer, dbVars, userVars, handlerVars>>

\* POST /wait-music once queueTime has reached queueTimeoutSeconds: <Leave/>.
QueueTimeout(c) ==
    /\ phase[c] = "queued"
    /\ phase' = [phase EXCEPT ![c] = "leaving"]
    /\ webhooks' = webhooks \cup {Sent("leave", c, NoLeg)}
    /\ UNCHANGED <<leg, peer, dbVars, userVars, handlerVars>>

\* Nothing is sent before <Enqueue>, whose action URL then gets the result.
CallerHangsUp(c) ==
    /\ phase[c] \in {"menu", "captcha", "greeting", "queued", "leaving"}
    /\ phase' = [phase EXCEPT ![c] = "ended"]
    /\ webhooks' = IF phase[c] = "queued"
                   THEN webhooks \cup {Sent("hangup", c, NoLeg)} ELSE webhooks
    /\ UNCHANGED <<leg, peer, dbVars, userVars, handlerVars>>

\* The caller hangs up in voicemail, with or without a message to record.
VoicemailEnds(c) ==
    /\ phase[c] = "voicemail"
    /\ phase' = [phase EXCEPT ![c] = "ended"]
    /\ \E recorded \in BOOLEAN :
         webhooks' = IF recorded THEN webhooks \cup {Sent("voicemail", c, NoLeg)}
                     ELSE webhooks
    /\ UNCHANGED <<leg, peer, dbVars, userVars, handlerVars>>

(* The provider: the users' side *)

\* A picked-up leg asks /user-answer what to do.
LegPickedUp(c, l) ==
    /\ leg[c][l] = "ringing"
    /\ leg' = [leg EXCEPT ![c][l] = "answered"]
    /\ webhooks' = webhooks \cup {Sent("answer", c, l)}
    /\ UNCHANGED <<phase, peer, dbVars, userVars, handlerVars>>

\* busy, no-answer or failed.
LegNotAnswered(c, l) ==
    /\ leg[c][l] = "ringing"
    /\ leg' = [leg EXCEPT ![c][l] = "over"]
    /\ webhooks' = webhooks \cup {Sent("unanswered", c, l)}
    /\ UNCHANGED <<phase, peer, dbVars, userVars, handlerVars>>

\* <Dial><Queue>: the leg takes the caller out of his queue.
Bridge(c, l) ==
    /\ leg[c][l] = "dialing" /\ phase[c] = "queued"
    /\ leg' = [leg EXCEPT ![c][l] = "bridged"]
    /\ phase' = [phase EXCEPT ![c] = "bridged"]
    /\ peer' = [peer EXCEPT ![c] = l]
    /\ UNCHANGED <<webhooks, dbVars, userVars, handlerVars>>

\* A user gives up on a leg that is not connected to the caller.
LegHangsUp(c, l) ==
    /\ leg[c][l] \in {"answered", "dialing"}
    /\ leg' = [leg EXCEPT ![c][l] = "over"]
    /\ webhooks' = webhooks \cup {Sent("completed", c, l)}
    /\ UNCHANGED <<phase, peer, dbVars, userVars, handlerVars>>

\* Either side ends the conversation.  The recording callback is not certain.
ConversationEnds(c, l) ==
    /\ leg[c][l] = "bridged"
    /\ leg' = [leg EXCEPT ![c][l] = "over"]
    /\ phase' = [phase EXCEPT ![c] = "ended"]
    /\ \E extra \in SUBSET {Sent("recorded", c, l)} :
         webhooks' = webhooks \cup extra
                       \cup {Sent("completed", c, l), Sent("bridged", c, NoLeg)}
    /\ UNCHANGED <<peer, dbVars, userVars, handlerVars>>

-------------------------------------------------------------------------------
(* The callbacks, served in any order *)

\* Mutant of AuditAnswered: only the first answer is logged.
AuditFirstAnswer(c, u) ==
    answeredLog' = [answeredLog EXCEPT ![c] = IF @ = {} THEN {u} ELSE @]

\* The callAnswered entry of /user-answer.
AuditAnswered(c, u) == answeredLog' = [answeredLog EXCEPT ![c] = @ \cup {u}]

\* POST /user-answer.  Without a row updateActiveCall throws, the provider gets
\* no document and drops the leg.  The user may have hung up by now.
UserAnswer(m) ==
    LET c == m.call  l == m.leg
        waiting == leg[c][l] = "answered"
    IN /\ m.kind = "answer"
       /\ IF HasRow(c)
          THEN /\ AssignCall(c, l[1])
               /\ AuditAnswered(c, l[1])
               /\ leg' = [leg EXCEPT ![c][l] = IF waiting THEN "dialing" ELSE @]
               /\ webhooks' = webhooks \ {m}
          ELSE /\ leg' = [leg EXCEPT ![c][l] = "over"]
               /\ webhooks' = (webhooks \ {m}) \cup
                                 (IF waiting THEN {Sent("completed", c, l)} ELSE {})
               /\ UNCHANGED <<status, assigned, answeredLog>>
       /\ UNCHANGED <<browserLeg, record, endedLog, missedLog, phase, peer, userVars, handlerVars>>

\* Mutant of EndsTheCall: only a call marked as answered is ended.
EndsAnsweredCall(m) == m.kind = "completed" /\ status[m.call] = "in-progress"

\* A leg that completed ends the call, whichever leg it is.
EndsTheCall(m) == m.kind = "completed"

\* POST /call-status
CallStatus(m) ==
    /\ m.kind \in {"completed", "unanswered"}
    /\ webhooks' = webhooks \ {m}
    /\ IF EndsTheCall(m)
       THEN /\ DeleteRow(m.call)
            /\ endedLog' = [endedLog EXCEPT ![m.call] = @ + 1]
       ELSE UNCHANGED <<status, assigned, endedLog>>
    /\ UNCHANGED <<browserLeg, record, answeredLog, missedLog, phase, leg, peer, userVars, handlerVars>>

\* POST /call-recording: also ends the call; the SID goes to a record that exists.
CallRecording(m) ==
    /\ m.kind = "recorded"
    /\ webhooks' = webhooks \ {m}
    /\ DeleteRow(m.call)
    /\ endedLog' = [endedLog EXCEPT ![m.call] = @ + 1]
    /\ record' = [record EXCEPT ![m.call] =
                    IF "exists" \in @ THEN @ \cup {"recording"} ELSE @]
    /\ UNCHANGED <<browserLeg, answeredLog, missedLog, phase, leg, peer, userVars, handlerVars>>

\* Mutants of CallerGaveUp and GoesToVoicemail: every result but the timeout ends the
\* call as missed; the timeout is taken for a result that needs nothing.
GaveUpUnlessTimeout(m) == m.kind # "leave"
NeverGoesToVoicemail(m) == m.kind = "hangup"

\* The queue results that end the call, and that lead to voicemail: "leave" stands for
\* leave, queue-full and error alike.
CallerGaveUp(m) == m.kind = "hangup"
GoesToVoicemail(m) == m.kind = "leave"

\* POST /queue-exit: hangup ends the call, leave answers with the voicemail
\* prompt (the caller may be gone by then), bridged needs nothing.
QueueExit(m) ==
    /\ m.kind \in {"hangup", "leave", "bridged"}
    /\ webhooks' = webhooks \ {m}
    /\ IF CallerGaveUp(m)
       THEN /\ DeleteRow(m.call)
            /\ missedLog' = [missedLog EXCEPT ![m.call] = @ + 1]
       ELSE UNCHANGED <<status, assigned, missedLog>>
    /\ phase' = IF GoesToVoicemail(m) /\ phase[m.call] = "leaving"
                THEN [phase EXCEPT ![m.call] = "voicemail"] ELSE phase
    /\ UNCHANGED <<browserLeg, record, answeredLog, endedLog, leg, peer, userVars, handlerVars>>

\* Mutant of VoicemailRecording: the row is made when it is missing.
VoicemailUpsert(m) ==
    /\ m.kind = "voicemail"
    /\ webhooks' = webhooks \ {m}
    /\ status' = [status EXCEPT ![m.call] = "voicemail"]
    /\ record' = [record EXCEPT ![m.call] = {"exists", "voicemail", "recording"}]
    /\ UNCHANGED <<assigned, browserLeg, auditVars, phase, leg, peer, userVars, handlerVars>>

\* POST /voicemail-recording: a missing row is logged and ignored.
VoicemailRecording(m) ==
    /\ m.kind = "voicemail"
    /\ webhooks' = webhooks \ {m}
    /\ status' = [status EXCEPT ![m.call] = IF @ = "none" THEN @ ELSE "voicemail"]
    /\ record' = [record EXCEPT ![m.call] = {"exists", "voicemail", "recording"}]
    /\ UNCHANGED <<assigned, browserLeg, auditVars, phase, leg, peer, userVars, handlerVars>>

-------------------------------------------------------------------------------
(* REST: POST /calls/{id}/answer, /hangup, /spam.  The first access reads the *)
(* row and checks it, the later ones write whatever the row has become.       *)

RestIdle(u) == rest[u].op = "idle"
RestStep(u, op, c) == rest' = [rest EXCEPT ![u] = [op |-> op, call |-> c]]
RestDone(u) == RestStep(u, "idle", NoCall)

AnswerRead(u, c) ==
    /\ RestIdle(u) /\ HasRow(c)
    /\ assigned[c] = NoUser
    /\ RestStep(u, "answer", c)
    /\ UNCHANGED <<job, ringSet, dbVars, userVars, providerVars>>

\* Mutant of AnswerWrite: an update that inserts the row when it is gone.
AnswerUpsert(u) ==
    LET c == rest[u].call
    IN /\ rest[u].op = "answer"
       /\ AssignCall(c, u) /\ RestStep(u, "cancel", c)
       /\ UNCHANGED <<browserLeg, record, auditVars, job, ringSet, userVars, providerVars>>

AnswerWrite(u) ==
    LET c == rest[u].call
    IN /\ rest[u].op = "answer"
       /\ IF HasRow(c)
          THEN AssignCall(c, u) /\ RestStep(u, "cancel", c)
          ELSE RestDone(u) /\ UNCHANGED <<status, assigned>>
       /\ UNCHANGED <<browserLeg, record, auditVars, job, ringSet, userVars, providerVars>>

\* cancelOtherLegs: the answering user keeps the browser leg, unless he said
\* that he answered by phone.  There are no phone legs to hand to the adapter.  The legs
\* are read and cancelled in one step: the update sets a status no other step reads.
AnswerCancel(u) ==
    LET c == rest[u].call
    IN /\ rest[u].op = "cancel"
       /\ \E byPhone \in BOOLEAN :
            browserLeg' = [browserLeg EXCEPT ![c] = [v \in Users |->
                IF @[v] = "ringing" /\ (v # u \/ byPhone) THEN "cancelled" ELSE @[v]]]
       /\ RestDone(u)
       /\ UNCHANGED <<status, assigned, record, auditVars, job, ringSet, userVars, providerVars>>

OwnCallRead(u, c, op) ==
    /\ RestIdle(u) /\ HasRow(c)
    /\ assigned[c] = u
    /\ op \in {"hangup", "spam"}
    /\ RestStep(u, op, c)
    /\ UNCHANGED <<job, ringSet, dbVars, userVars, providerVars>>

HangupDelete(u) ==
    /\ rest[u].op = "hangup"
    /\ DeleteRow(rest[u].call)
    /\ RestDone(u)
    /\ UNCHANGED <<browserLeg, record, auditVars, job, ringSet, userVars, providerVars>>

\* Mutant of SpamWrite: marks the call whether or not its row is still there.
SpamUpsert(u) ==
    /\ rest[u].op = "spam"
    /\ status' = [status EXCEPT ![rest[u].call] = "spam"]
    /\ RestDone(u)
    /\ UNCHANGED <<assigned, browserLeg, record, auditVars, job, ringSet, userVars, providerVars>>

SpamWrite(u) ==
    LET c == rest[u].call
    IN /\ rest[u].op = "spam"
       /\ status' = [status EXCEPT ![c] = IF @ = "none" THEN @ ELSE "spam"]
       /\ RestDone(u)
       /\ UNCHANGED <<assigned, browserLeg, record, auditVars, job, ringSet, userVars, providerVars>>

-------------------------------------------------------------------------------

Ringing(c) == RingSelect(c) \/ RingCreateRow(c) \/ RingCreateLegs(c) \/ RingDial(c)

ServeWebhook(m) ==
    UserAnswer(m) \/ CallStatus(m) \/ CallRecording(m) \/ QueueExit(m) \/ VoicemailRecording(m)

RestWrite(u) ==
    AnswerWrite(u) \/ AnswerCancel(u) \/ HangupDelete(u) \/ SpamWrite(u)

Next ==
    \/ \E u \in Users : ToggleShift(u) \/ ToggleAway(u)
    \/ \E c \in Calls :
         \/ Incoming(c) \/ LanguageSelected(c) \/ Captcha(c)
         \/ Ringing(c)
         \/ Enqueue(c) \/ QueueTimeout(c) \/ CallerHangsUp(c) \/ VoicemailEnds(c)
    \/ \E c \in Calls, l \in Legs :
         \/ LegPickedUp(c, l) \/ LegNotAnswered(c, l)
         \/ Bridge(c, l) \/ LegHangsUp(c, l) \/ ConversationEnds(c, l)
    \/ \E m \in webhooks : ServeWebhook(m)
    \/ \E u \in Users, c \in Calls :
         AnswerRead(u, c) \/ OwnCallRead(u, c, "hangup") \/ OwnCallRead(u, c, "spam")
    \/ \E u \in Users : RestWrite(u)

(* The server runs its handlers to the end and the provider delivers every   *)
(* callback, plays the greeting to its end, polls the wait URL until the     *)
(* queue times out, and stops a recording or a ring after its limit.  A call *)
(* sends finitely many callbacks, so serving some callback again and again   *)
(* serves each of them.  People need not do anything: no fairness on picking *)
(* up, answering or talking.                                                 *)
Fairness ==
    /\ \A c \in Calls :
         /\ WF_vars(Ringing(c))
         /\ WF_vars(Enqueue(c))
         /\ WF_vars(QueueTimeout(c))
         /\ WF_vars(VoicemailEnds(c))
    /\ \A c \in Calls, l \in Legs : WF_vars(LegNotAnswered(c, l))
    /\ WF_vars(\E m \in webhooks : ServeWebhook(m))
    /\ \A u \in Users : WF_vars(RestWrite(u))

Spec == Init /\ [][Next]_vars
FairSpec == Spec /\ Fairness

-------------------------------------------------------------------------------
(* Properties of the code *)

\* Whatever order the two answer paths, the voicemail callback, a spam report and
\* the deletes come in, a ringing row has no owner, an answered or reported one
\* has, and the owner goes with the row (calls.ts, telephony.ts).
OwnerAgreesWithStatus ==
    \A c \in Calls :
      /\ status[c] \in {"none", "ringing"} => assigned[c] = NoUser
      /\ status[c] \in {"in-progress", "spam"} => assigned[c] # NoUser

\* A row that was deleted is never there again: a late answer, a late voicemail or spam
\* report cannot bring it back (updateActiveCall).  It says nothing of a call whose end
\* comes before the background job inserts the row: that row is the first one.
NoRowIsRevived ==
    \A c \in Calls :
      job[c] \in {"legs", "dial", "done"} /\ status[c] = "none" => status'[c] = "none"
EndedCallsStayEnded == [][NoRowIsRevived]_vars

\* Whoever talks to a caller is in the audit log for it, even when another leg
\* answered, hung up or ended the call in between (/user-answer).
ConnectedUserIsAudited ==
    \A c \in Calls : phase[c] = "bridged" => peer[c][1] \in answeredLog[c]

\* callMissed is logged at most once, and never for a caller who was connected
\* to somebody at some time (/queue-exit).
MissedMeansNeverConnected ==
    \A c \in Calls :
      /\ missedLog[c] <= 1
      /\ missedLog[c] = 1 => peer[c] = NoLeg

\* A caller told to hold is connected, prompted for voicemail or gone in the end,
\* whether anybody is rung or not (/wait-music, /queue-exit).
HoldingCallerIsServed ==
    \A c \in Calls :
      phase[c] \in {"greeting", "queued", "leaving"}
        ~> phase[c] \in {"bridged", "voicemail", "ended"}

\* After a conversation the row goes away for good, with or without the recording
\* callback and whatever the other legs do (/call-status, /call-recording).
ConversationIsClosed ==
    \A c \in Calls :
      (phase[c] = "ended" /\ peer[c] # NoLeg) ~> [](status[c] = "none")

-------------------------------------------------------------------------------
(* The abstract specification *)

\* A call is new until its ringing job has created the row or given up, and over when
\* the row is gone after that.
Lifecycle == INSTANCE CallLifecycle WITH
    owner <- assigned,
    state <- [c \in Calls |-> IF HasRow(c) THEN status[c]
                              ELSE IF job[c] \in {"legs", "dial", "done"} THEN "over" ELSE "new"]

\* However handlers interleave, the row of a call lives the life CallLifecycle allows:
\* listed once, answered, left a message or reported only while listed, and
\* reported only with an owner (services/calls.ts).
ImplementsLifecycle == Lifecycle!Spec

-------------------------------------------------------------------------------
(* Statements of the documentation and of comments that the code refutes *)

\* web-push-browser-calling-design.md:192, README.md:68: the first pickup wins.
FirstPickupWins ==
    [][\A c \in Calls :
         assigned[c] # NoUser /\ status'[c] # "none" => assigned'[c] = assigned[c]]_vars

\* web-push-browser-calling-design.md:192: after an answer over REST has cancelled
\* the other legs, only the winner's legs ring.
OnlyWinnersLegsSurvive ==
    [][\A u \in Users, c \in Calls :
         rest[u] = [op |-> "cancel", call |-> c] /\ rest'[u].op = "idle"
           => \A l \in Legs : leg'[c][l] = "ringing" => l[1] = u]_vars

\* telephony.ts:454: a call ended by /call-recording is not ended again.
CallEndsOnce == \A c \in Calls : endedLog[c] <= 1

\* README.md:68, "first pickup wins": a leg that is not the one talking to the
\* caller does not end his call.
LosingLegEndsNothing ==
    [][\A m \in webhooks \ webhooks' :
         m.kind = "completed" /\ phase[m.call] = "bridged"
           => status'[m.call] = status[m.call]]_vars

\* routes/calls.ts:315, "Hang up an active call": the conversation is over after it.
HangupEndsConversation ==
    [][\A u \in Users, c \in Calls :
         rest[u] = [op |-> "hangup", call |-> c] /\ rest'[u].op = "idle"
           => phase'[c] # "bridged"]_vars

\* routes/hubs.ts:463: what counts as a call in progress is in progress, so that an
\* idle hub can be deleted.
GoneCallerIsNotActive ==
    \A c \in Calls :
      phase[c] = "ended" ~> status[c] \notin {"ringing", "in-progress"}

\* telephony.ts:585: the recording of a conversation is kept on its call record.
RecordingIsKept ==
    [][\A m \in webhooks \ webhooks' :
         m.kind = "recorded" => "recording" \in record'[m.call]]_vars

\* docs/DESIGN.md:37: every call answered is in the audit log.
AnsweredIsAudited ==
    \A c \in Calls : status[c] = "in-progress" => assigned[c] \in answeredLog[c]

\* README.md:73: a caller is not put on hold when no volunteer is available.
HoldingCallerIsRung ==
    \A c \in Calls : phase[c] = "queued" /\ job[c] = "done" => ringSet[c] # {}

\* telephony.ts:506: a caller who hangs up while waiting ends the call.
MissedCallIsEnded ==
    \A c \in Calls : missedLog[c] > 0 => status[c] = "none"
===============================================================================
