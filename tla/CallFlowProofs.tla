---------------------------- MODULE CallFlowProofs ----------------------------
(***************************************************************************)
(* Theorems about CallFlow for any calls, users, legs and settings.        *)
(*                                                                         *)
(* Type correctness comes first.  Two lemmas then say all that a step may  *)
(* do to a row (RowChange) and to the ringing job of a call (JobChange),   *)
(* and from them follow the three results about the table of active calls: *)
(* a row is not revived, its owner agrees with its status (the inductive   *)
(* invariant RowInv), and it implements CallLifecycle.  The connection to  *)
(* the caller and the calls that were missed come last.                    *)
(***************************************************************************)
EXTENDS CallFlow, TLAPS

USE UsersAssumption, LegAssumption

\* A leg is dialled for a user.
LEMMA LegHasUser == \A l \in Legs : l[1] \in Users
  BY DEF Legs

-------------------------------------------------------------------------------
(* Type correctness *)

\* The state the program starts in is well typed.
LEMMA InitTypeOK == Init => TypeOK
  BY SettingsAssumption DEF Init, TypeOK, Status, Phase, LegState, RestOp, Webhook

\* The provider's steps for the caller change phase and webhooks only.
LEMMA CallerTypeOK ==
    ASSUME TypeOK, NEW c \in Calls,
           \/ Enqueue(c) \/ QueueTimeout(c) \/ CallerHangsUp(c) \/ VoicemailEnds(c)
    PROVE  TypeOK'
  <1> USE DEF TypeOK, Phase, Webhook, WebhookKind, Sent,
              dbVars, auditVars, userVars, handlerVars
  <1>1. CASE Enqueue(c)
    <2>1. CASE phase' = [phase EXCEPT ![c] = "queued"] /\ UNCHANGED webhooks
      BY <1>1, <2>1 DEF Enqueue
    <2>2. CASE phase' = [phase EXCEPT ![c] = "leaving"] /\ webhooks' = webhooks \cup {Sent("leave", c, NoLeg)}
      BY <1>1, <2>2 DEF Enqueue
    <2> QED  BY <1>1, <2>1, <2>2 DEF Enqueue
  <1>2. CASE QueueTimeout(c)   BY <1>2 DEF QueueTimeout
  <1>3. CASE CallerHangsUp(c)  BY <1>3 DEF CallerHangsUp
  <1>4. CASE VoicemailEnds(c)  BY <1>4 DEF VoicemailEnds
  <1> QED  BY <1>1, <1>2, <1>3, <1>4

\* The provider's steps for a leg change phase, leg, peer and webhooks only.
LEMMA LegTypeOK ==
    ASSUME TypeOK, NEW c \in Calls, NEW l \in Legs,
           \/ LegPickedUp(c, l) \/ LegNotAnswered(c, l)
           \/ Bridge(c, l) \/ LegHangsUp(c, l) \/ ConversationEnds(c, l)
    PROVE  TypeOK'
  <1> USE DEF TypeOK, Phase, LegState, Webhook, WebhookKind, Sent,
              dbVars, auditVars, userVars, handlerVars
  <1>1. CASE LegPickedUp(c, l)    BY <1>1 DEF LegPickedUp
  <1>2. CASE LegNotAnswered(c, l) BY <1>2 DEF LegNotAnswered
  <1>3. CASE Bridge(c, l)         BY <1>3 DEF Bridge
  <1>4. CASE LegHangsUp(c, l)     BY <1>4 DEF LegHangsUp
  <1>5. CASE ConversationEnds(c, l)
    <2>1. PICK extra \in SUBSET {Sent("recorded", c, l)} :
            webhooks' = webhooks \cup extra
                          \cup {Sent("completed", c, l), Sent("bridged", c, NoLeg)}
      BY <1>5 DEF ConversationEnds
    <2>2. webhooks' \subseteq Webhook  BY <2>1
    <2> QED  BY <1>5, <2>2 DEF ConversationEnds
  <1> QED  BY <1>1, <1>2, <1>3, <1>4, <1>5

\* The three ways a caller is routed, without the reasons for them.
LEMMA RouteCallerCases ==
    ASSUME NEW c, NEW newRecord, RouteCaller(c, newRecord)
    PROVE  \/ /\ phase' = [phase EXCEPT ![c] = "voicemail"]
              /\ record' = [record EXCEPT ![c] = @ \cup newRecord]
              /\ job' = job
           \/ /\ phase' = [phase EXCEPT ![c] = "ended"]
              /\ record' = record /\ job' = job
           \/ /\ phase' = [phase EXCEPT ![c] = "greeting"]
              /\ job' = [job EXCEPT ![c] = "select"]
              /\ record' = record
  BY DEF RouteCaller

\* However a caller is routed, his phase, record and job stay well typed.
LEMMA RouteCallerTypeOK ==
    ASSUME TypeOK, NEW c \in Calls, NEW newRecord \in SUBSET {"exists"},
           RouteCaller(c, newRecord)
    PROVE  /\ phase' \in [Calls -> Phase]
           /\ record' \in [Calls -> SUBSET {"exists", "voicemail", "recording"}]
           /\ job' \in [Calls -> {"none", "select", "create", "legs", "dial", "done"}]
  <1>1. record[c] \cup newRecord \in SUBSET {"exists", "voicemail", "recording"}
    BY DEF TypeOK
  <1>2. CASE phase' = [phase EXCEPT ![c] = "voicemail"]
             /\ record' = [record EXCEPT ![c] = @ \cup newRecord] /\ job' = job
    BY <1>1, <1>2 DEF TypeOK, Phase
  <1>3. CASE phase' = [phase EXCEPT ![c] = "ended"] /\ record' = record /\ job' = job
    BY <1>3 DEF TypeOK, Phase
  <1>4. CASE phase' = [phase EXCEPT ![c] = "greeting"]
             /\ job' = [job EXCEPT ![c] = "select"] /\ record' = record
    BY <1>4 DEF TypeOK, Phase
  <1> QED  BY <1>2, <1>3, <1>4, RouteCallerCases

\* The entry points and the ringing job.
LEMMA RoutingTypeOK ==
    ASSUME TypeOK, NEW c \in Calls,
           \/ Incoming(c) \/ LanguageSelected(c) \/ Captcha(c) \/ Ringing(c)
    PROVE  TypeOK'
  <1> USE DEF TypeOK, Phase, LegState, Status, Webhook, WebhookKind,
              dbVars, auditVars, userVars, handlerVars, providerVars
  <1>1. CASE Incoming(c)          BY <1>1 DEF Incoming
  <1>2. CASE LanguageSelected(c)  BY <1>2, RouteCallerTypeOK DEF LanguageSelected
  <1>3. CASE Captcha(c)           BY <1>3, RouteCallerTypeOK DEF Captcha
  <1>4. CASE RingSelect(c)        BY <1>4 DEF RingSelect, RingGroup
  <1>5. CASE RingCreateRow(c)     BY <1>5 DEF RingCreateRow
  <1>6. CASE RingCreateLegs(c)    BY <1>6 DEF RingCreateLegs
  <1>7. CASE RingDial(c)
    <2>1. PICK placed \in SUBSET {l \in Legs : l[1] \in ringSet[c]} :
            leg' = [leg EXCEPT ![c] = [l \in Legs |->
                      IF l \in placed THEN "ringing" ELSE @[l]]]
      BY <1>7 DEF RingDial
    <2>2. leg' \in [Calls -> [Legs -> LegState]]  BY <2>1
    <2> QED  BY <1>7, <2>2 DEF RingDial
  <1> QED  BY <1>1, <1>2, <1>3, <1>4, <1>5, <1>6, <1>7 DEF Ringing

\* Answering a call keeps the row well typed.
LEMMA AssignCallTypeOK ==
    ASSUME TypeOK, NEW c \in Calls, NEW u \in Users, AssignCall(c, u)
    PROVE  status' \in [Calls -> Status] /\ assigned' \in [Calls -> Users \cup {NoUser}]
  BY DEF TypeOK, Status, AssignCall

\* So does ending it.
LEMMA DeleteRowTypeOK ==
    ASSUME TypeOK, NEW c \in Calls, DeleteRow(c)
    PROVE  status' \in [Calls -> Status] /\ assigned' \in [Calls -> Users \cup {NoUser}]
  BY DEF TypeOK, Status, DeleteRow

\* The callbacks.
LEMMA WebhookTypeOK ==
    ASSUME TypeOK, NEW m \in webhooks, ServeWebhook(m),
           m.kind = "answer" => m.leg \in Legs
    PROVE  TypeOK'
  <1>0. m.call \in Calls /\ webhooks \ {m} \subseteq Webhook
    BY DEF TypeOK, Webhook
  <1>1. CASE UserAnswer(m)
    <2>1. m.leg \in Legs /\ m.leg[1] \in Users
      BY <1>1, LegHasUser DEF UserAnswer
    <2>2. CASE HasRow(m.call)
      <3>1. status' \in [Calls -> Status] /\ assigned' \in [Calls -> Users \cup {NoUser}]
        BY <1>0, <1>1, <2>1, <2>2, AssignCallTypeOK DEF UserAnswer
      <3>2. answeredLog' \in [Calls -> SUBSET Users]
        <4>1. answeredLog' = [answeredLog EXCEPT ![m.call] = @ \cup {m.leg[1]}]
          BY <1>1, <2>2 DEF UserAnswer, AuditAnswered
        <4> QED  BY <1>0, <2>1, <4>1 DEF TypeOK
      <3>3. leg' \in [Calls -> [Legs -> LegState]]
        <4>1. \E to \in LegState : leg' = [leg EXCEPT ![m.call][m.leg] = to]
          <5>1. CASE leg[m.call][m.leg] = "answered"
            BY <1>1, <2>2, <5>1 DEF UserAnswer, LegState
          <5>2. CASE leg[m.call][m.leg] # "answered"
            <6>1. leg' = [leg EXCEPT ![m.call][m.leg] = leg[m.call][m.leg]]
              BY <1>1, <2>2, <5>2 DEF UserAnswer
            <6>2. leg[m.call][m.leg] \in LegState
              BY <1>0, <2>1 DEF TypeOK
            <6> QED  BY <6>1, <6>2
          <5> QED  BY <5>1, <5>2
        <4> QED  BY <1>0, <2>1, <4>1 DEF TypeOK
      <3>4. webhooks' = webhooks \ {m}
        BY <1>1, <2>2 DEF UserAnswer
      <3> QED  BY <1>0, <1>1, <3>1, <3>2, <3>3, <3>4
                  DEF UserAnswer, TypeOK, userVars, handlerVars
    <2>3. CASE ~HasRow(m.call)
      <3>1. Sent("completed", m.call, m.leg) \in Webhook
        BY <1>0, <2>1 DEF Sent, Webhook, WebhookKind
      <3>2. webhooks' \subseteq Webhook
        BY <1>0, <1>1, <2>3, <3>1 DEF UserAnswer
      <3>3. leg' \in [Calls -> [Legs -> LegState]]
        <4>1. leg' = [leg EXCEPT ![m.call][m.leg] = "over"]
          BY <1>1, <2>3 DEF UserAnswer
        <4> QED  BY <1>0, <2>1, <4>1 DEF LegState, TypeOK
      <3> QED  BY <1>1, <2>3, <3>2, <3>3 DEF UserAnswer, TypeOK, userVars, handlerVars
    <2> QED  BY <2>2, <2>3
  <1>2. CASE CallStatus(m)
    <2>1. webhooks' = webhooks \ {m}  BY <1>2 DEF CallStatus
    <2>2. CASE EndsTheCall(m)
      <3>1. status' \in [Calls -> Status] /\ assigned' \in [Calls -> Users \cup {NoUser}]
        BY <1>0, <1>2, <2>2, DeleteRowTypeOK DEF CallStatus
      <3>2. endedLog' = [endedLog EXCEPT ![m.call] = @ + 1]
        BY <1>2, <2>2 DEF CallStatus
      <3>3. endedLog' \in [Calls -> Nat]
        BY <1>0, <3>2 DEF TypeOK
      <3> QED  BY <1>0, <1>2, <2>1, <3>1, <3>3 DEF CallStatus, TypeOK, userVars, handlerVars
    <2>3. CASE ~EndsTheCall(m)
      BY <1>0, <1>2, <2>1, <2>3 DEF CallStatus, TypeOK, userVars, handlerVars
    <2> QED  BY <2>2, <2>3
  <1>3. CASE CallRecording(m)
    <2>1. status' \in [Calls -> Status] /\ assigned' \in [Calls -> Users \cup {NoUser}]
      BY <1>0, <1>3, DeleteRowTypeOK DEF CallRecording
    <2>2. endedLog' \in [Calls -> Nat]
      BY <1>0, <1>3 DEF CallRecording, TypeOK
    <2>3. record' \in [Calls -> SUBSET {"exists", "voicemail", "recording"}]
      BY <1>0, <1>3 DEF CallRecording, TypeOK
    <2> QED  BY <1>0, <1>3, <2>1, <2>2, <2>3 DEF CallRecording, TypeOK, userVars, handlerVars
  <1>4. CASE QueueExit(m)
    <2>1. phase' \in [Calls -> Phase]  BY <1>0, <1>4 DEF QueueExit, TypeOK, Phase
    <2>2. webhooks' = webhooks \ {m}   BY <1>4 DEF QueueExit
    <2>3. CASE CallerGaveUp(m)
      <3>1. status' \in [Calls -> Status] /\ assigned' \in [Calls -> Users \cup {NoUser}]
        BY <1>0, <1>4, <2>3, DeleteRowTypeOK DEF QueueExit
      <3>2. missedLog' = [missedLog EXCEPT ![m.call] = @ + 1]
        BY <1>4, <2>3 DEF QueueExit
      <3>3. missedLog' \in [Calls -> Nat]
        BY <1>0, <3>2 DEF TypeOK
      <3> QED  BY <1>0, <1>4, <2>1, <2>2, <3>1, <3>3 DEF QueueExit, TypeOK, userVars, handlerVars
    <2>4. CASE ~CallerGaveUp(m)
      BY <1>0, <1>4, <2>1, <2>2, <2>4 DEF QueueExit, TypeOK, userVars, handlerVars
    <2> QED  BY <2>3, <2>4
  <1>5. CASE VoicemailRecording(m)
    BY <1>0, <1>5 DEF VoicemailRecording, TypeOK, Status, auditVars, userVars, handlerVars
  <1> QED  BY <1>1, <1>2, <1>3, <1>4, <1>5 DEF ServeWebhook

\* The REST handlers' first access, which reads the row.
LEMMA RestReadTypeOK ==
    ASSUME TypeOK, NEW u \in Users, NEW c \in Calls,
           \/ AnswerRead(u, c)
           \/ OwnCallRead(u, c, "hangup") \/ OwnCallRead(u, c, "spam")
    PROVE  TypeOK'
  <1> USE DEF TypeOK, RestOp, RestStep, dbVars, auditVars, userVars, providerVars
  <1>1. CASE AnswerRead(u, c)             BY <1>1 DEF AnswerRead
  <1>2. CASE OwnCallRead(u, c, "hangup")  BY <1>2 DEF OwnCallRead
  <1>3. CASE OwnCallRead(u, c, "spam")    BY <1>3 DEF OwnCallRead
  <1> QED  BY <1>1, <1>2, <1>3

\* Their later ones, which write it.
LEMMA RestWriteTypeOK ==
    ASSUME TypeOK, NEW u \in Users, RestWrite(u),
           rest[u].op # "idle" => rest[u].call \in Calls
    PROVE  TypeOK'
  <1> USE DEF TypeOK, Status, RestOp, RestStep, RestDone,
              dbVars, auditVars, userVars, providerVars
  <1>1. CASE AnswerWrite(u)
    <2>1. rest[u].call \in Calls  BY <1>1 DEF AnswerWrite
    <2>2. rest' \in [Users -> [op : RestOp, call : Calls \cup {NoCall}]]
      <3>1. \E new \in [op : RestOp, call : Calls \cup {NoCall}] :
              rest' = [rest EXCEPT ![u] = new]
        BY <1>1, <2>1 DEF AnswerWrite
      <3> QED  BY <3>1
    <2>3. status' \in [Calls -> Status] /\ assigned' \in [Calls -> Users \cup {NoUser}]
      <3>1. CASE HasRow(rest[u].call)   BY <1>1, <2>1, <3>1, AssignCallTypeOK DEF AnswerWrite
      <3>2. CASE ~HasRow(rest[u].call)  BY <1>1, <3>2 DEF AnswerWrite
      <3> QED  BY <3>1, <3>2
    <2> QED  BY <1>1, <2>2, <2>3 DEF AnswerWrite
  <1>2. CASE AnswerCancel(u)              BY <1>2 DEF AnswerCancel
  <1>3. CASE HangupDelete(u)              BY <1>3 DEF HangupDelete, DeleteRow
  <1>4. CASE SpamWrite(u)                 BY <1>4 DEF SpamWrite
  <1> QED  BY <1>1, <1>2, <1>3, <1>4 DEF RestWrite

-------------------------------------------------------------------------------
(* The inductive type invariant *)

\* A callback that asks what to do with a leg names that leg.
AnswerHasLeg == \A m \in webhooks : m.kind = "answer" => m.leg \in Legs

\* A request in flight is about a call.
RequestHasCall == \A u \in Users : rest[u].op # "idle" => rest[u].call \in Calls

TypeInv == TypeOK /\ AnswerHasLeg /\ RequestHasCall

\* Every step keeps the state well typed.
LEMMA NextTypeOK == TypeInv /\ [Next]_vars => TypeOK'
  <1> SUFFICES ASSUME TypeInv, [Next]_vars PROVE TypeOK'
    OBVIOUS
  <1>0. TypeOK  BY DEF TypeInv
  <1>1. CASE \E u \in Users : ToggleShift(u) \/ ToggleAway(u)
    BY <1>0, <1>1 DEF ToggleShift, ToggleAway, TypeOK, dbVars, auditVars, handlerVars,
                      providerVars
  <1>2. ASSUME NEW c \in Calls,
               \/ Incoming(c) \/ LanguageSelected(c) \/ Captcha(c) \/ Ringing(c)
        PROVE  TypeOK'
    BY <1>0, <1>2, RoutingTypeOK
  <1>3. ASSUME NEW c \in Calls,
               \/ Enqueue(c) \/ QueueTimeout(c) \/ CallerHangsUp(c) \/ VoicemailEnds(c)
        PROVE  TypeOK'
    BY <1>0, <1>3, CallerTypeOK
  <1>4. ASSUME NEW c \in Calls, NEW l \in Legs,
               \/ LegPickedUp(c, l) \/ LegNotAnswered(c, l)
               \/ Bridge(c, l) \/ LegHangsUp(c, l) \/ ConversationEnds(c, l)
        PROVE  TypeOK'
    BY <1>0, <1>4, LegTypeOK
  <1>5. ASSUME NEW m \in webhooks, ServeWebhook(m)
        PROVE  TypeOK'
    BY <1>0, <1>5, WebhookTypeOK DEF TypeInv, AnswerHasLeg
  <1>6. ASSUME NEW u \in Users, NEW c \in Calls,
               \/ AnswerRead(u, c)
               \/ OwnCallRead(u, c, "hangup") \/ OwnCallRead(u, c, "spam")
        PROVE  TypeOK'
    BY <1>0, <1>6, RestReadTypeOK
  <1>7. ASSUME NEW u \in Users, RestWrite(u)
        PROVE  TypeOK'
    BY <1>0, <1>7, RestWriteTypeOK DEF TypeInv, RequestHasCall
  <1>8. CASE UNCHANGED vars
    BY <1>0, <1>8 DEF TypeOK, vars, auditVars
  <1> QED  BY <1>1, <1>2, <1>3, <1>4, <1>5, <1>6, <1>7, <1>8 DEF Next

\* What a step may send: an answer callback names its leg, and a hangup in the
\* queue is sent for a caller who was waiting there and is gone.
LEMMA WebhookChange ==
    ASSUME TypeOK, [Next]_vars, NEW m \in webhooks', m \notin webhooks
    PROVE  /\ m.kind = "answer" => m.leg \in Legs /\ leg[m.call][m.leg] = "ringing"
           /\ m.kind = "hangup" => /\ m.leg = NoLeg
                                   /\ phase[m.call] = "queued"
                                   /\ phase' = [phase EXCEPT ![m.call] = "ended"]
                                   /\ UNCHANGED <<peer, missedLog>>
  <1> USE DEF Sent
  <1>1. ASSUME NEW c \in Calls, NEW l \in Legs, LegPickedUp(c, l)
        PROVE  m.kind = "answer" /\ m.leg = l /\ leg[m.call][l] = "ringing"
    BY <1>1 DEF LegPickedUp
  <1>2. ASSUME NEW c \in Calls, CallerHangsUp(c)
        PROVE  /\ m.kind = "hangup" /\ m.leg = NoLeg /\ phase[m.call] = "queued"
               /\ phase' = [phase EXCEPT ![m.call] = "ended"]
               /\ UNCHANGED <<peer, missedLog>>
    <2>1. phase[c] = "queued" /\ m = Sent("hangup", c, NoLeg)
      BY <1>2 DEF CallerHangsUp
    <2> QED  BY <1>2, <2>1 DEF CallerHangsUp, dbVars, auditVars
  <1>3. ASSUME NEW c \in Calls, Enqueue(c) \/ QueueTimeout(c) \/ VoicemailEnds(c)
        PROVE  m.kind \notin {"answer", "hangup"}
    <2>1. CASE QueueTimeout(c)   BY <2>1 DEF QueueTimeout
    <2>2. CASE VoicemailEnds(c)  BY <2>2 DEF VoicemailEnds
    <2>3. CASE Enqueue(c)        BY <2>3 DEF Enqueue
    <2> QED  BY <1>3, <2>1, <2>2, <2>3
  <1>4. ASSUME NEW c \in Calls, NEW l \in Legs,
               LegNotAnswered(c, l) \/ LegHangsUp(c, l) \/ ConversationEnds(c, l)
        PROVE  m.kind \notin {"answer", "hangup"}
    <2>1. CASE LegNotAnswered(c, l)  BY <2>1 DEF LegNotAnswered
    <2>2. CASE LegHangsUp(c, l)      BY <2>2 DEF LegHangsUp
    <2>3. CASE ConversationEnds(c, l)
      <3>1. \/ m = Sent("recorded", c, l) \/ m = Sent("completed", c, l)
            \/ m = Sent("bridged", c, NoLeg)
        BY <2>3 DEF ConversationEnds
      <3> QED  BY <3>1
    <2> QED  BY <1>4, <2>1, <2>2, <2>3
  <1>5. ASSUME NEW n \in webhooks, ServeWebhook(n)
        PROVE  m.kind = "completed"
    <2>1. CASE UserAnswer(n)
      <3>1. m = Sent("completed", n.call, n.leg)  BY <2>1 DEF UserAnswer
      <3> QED  BY <3>1
    <2>2. CASE CallStatus(n)          BY <2>2 DEF CallStatus
    <2>3. CASE CallRecording(n)       BY <2>3 DEF CallRecording
    <2>4. CASE QueueExit(n)           BY <2>4 DEF QueueExit
    <2>5. CASE VoicemailRecording(n)  BY <2>5 DEF VoicemailRecording
    <2> QED  BY <1>5, <2>1, <2>2, <2>3, <2>4, <2>5 DEF ServeWebhook
  <1>6. ASSUME NEW c \in Calls,
               Incoming(c) \/ LanguageSelected(c) \/ Captcha(c) \/ Ringing(c)
        PROVE  FALSE
    BY <1>6 DEF Incoming, LanguageSelected, Captcha, Ringing, RingSelect, RingCreateRow,
                RingCreateLegs, RingDial, providerVars
  <1>7. ASSUME NEW c \in Calls, NEW l \in Legs, Bridge(c, l)
        PROVE  FALSE
    BY <1>7 DEF Bridge
  <1>8. ASSUME NEW u \in Users, ToggleShift(u) \/ ToggleAway(u) \/ RestWrite(u)
        PROVE  FALSE
    BY <1>8 DEF ToggleShift, ToggleAway, RestWrite, AnswerWrite, AnswerCancel, HangupDelete,
                SpamWrite, providerVars
  <1>9. ASSUME NEW u \in Users, NEW c \in Calls,
               \/ AnswerRead(u, c) \/ OwnCallRead(u, c, "hangup") \/ OwnCallRead(u, c, "spam")
        PROVE  FALSE
    BY <1>9 DEF AnswerRead, OwnCallRead, providerVars
  <1>10. CASE UNCHANGED vars  BY <1>10 DEF vars
  <1> QED  BY <1>1, <1>2, <1>3, <1>4, <1>5, <1>6, <1>7, <1>8, <1>9, <1>10 DEF Next

\* What a step does to the request of a user: nothing, its end, the cancellation
\* that follows an answer, or a new request about a call that has a row.
LEMMA RestChange ==
    ASSUME TypeInv, [Next]_vars, NEW u \in Users
    PROVE  \/ rest'[u] = rest[u]
           \/ rest'[u] = [op |-> "idle", call |-> NoCall]
           \/ /\ rest[u].op = "answer"
              /\ rest'[u] = [op |-> "cancel", call |-> rest[u].call]
           \/ \E c \in Calls :
                /\ HasRow(c) /\ UNCHANGED <<status, assigned, job>>
                /\ \/ rest'[u] = [op |-> "answer", call |-> c]
                   \/ rest'[u] = [op |-> "hangup", call |-> c]
                   \/ assigned[c] = u /\ rest'[u] = [op |-> "spam", call |-> c]
  <1>0. rest \in [Users -> [op : RestOp, call : Calls \cup {NoCall}]]
    BY DEF TypeInv, TypeOK
  <1>1. CASE UNCHANGED rest  BY <1>1
  <1>2. ASSUME NEW v \in Users, NEW c \in Calls,
               \/ AnswerRead(v, c)
               \/ OwnCallRead(v, c, "hangup") \/ OwnCallRead(v, c, "spam")
        PROVE  \/ rest'[u] = rest[u]
               \/ /\ HasRow(c) /\ UNCHANGED <<status, assigned, job>>
                  /\ \/ rest'[u] = [op |-> "answer", call |-> c]
                     \/ rest'[u] = [op |-> "hangup", call |-> c]
                     \/ assigned[c] = u /\ rest'[u] = [op |-> "spam", call |-> c]
    <2> USE <1>0 DEF RestStep, dbVars
    <2>1. CASE AnswerRead(v, c)             BY <2>1 DEF AnswerRead
    <2>2. CASE OwnCallRead(v, c, "hangup")  BY <2>2 DEF OwnCallRead
    <2>3. CASE OwnCallRead(v, c, "spam")    BY <2>3 DEF OwnCallRead
    <2> QED  BY <1>2, <2>1, <2>2, <2>3
  <1>3. ASSUME NEW v \in Users, RestWrite(v)
        PROVE  \/ rest'[u] = rest[u]
               \/ rest'[u] = [op |-> "idle", call |-> NoCall]
               \/ /\ rest[u].op = "answer"
                  /\ rest'[u] = [op |-> "cancel", call |-> rest[u].call]
    <2> USE <1>0 DEF RestStep, RestDone
    <2>1. CASE AnswerWrite(v)
      <3>1. CASE HasRow(rest[v].call)   BY <2>1, <3>1 DEF AnswerWrite
      <3>2. CASE ~HasRow(rest[v].call)  BY <2>1, <3>2 DEF AnswerWrite
      <3> QED  BY <3>1, <3>2
    <2>2. CASE AnswerCancel(v)  BY <2>2 DEF AnswerCancel
    <2>3. CASE HangupDelete(v)  BY <2>3 DEF HangupDelete
    <2>4. CASE SpamWrite(v)     BY <2>4 DEF SpamWrite
    <2> QED  BY <1>3, <2>1, <2>2, <2>3, <2>4 DEF RestWrite
  <1>4. ASSUME NEW v \in Users, ToggleShift(v) \/ ToggleAway(v)
        PROVE  UNCHANGED rest
    BY <1>4 DEF ToggleShift, ToggleAway, handlerVars
  <1>5. ASSUME NEW c \in Calls,
               \/ Incoming(c) \/ LanguageSelected(c) \/ Captcha(c) \/ Ringing(c)
               \/ Enqueue(c) \/ QueueTimeout(c) \/ CallerHangsUp(c) \/ VoicemailEnds(c)
        PROVE  UNCHANGED rest
    BY <1>5 DEF Incoming, LanguageSelected, Captcha, Ringing, RingSelect, RingCreateRow,
                RingCreateLegs, RingDial, Enqueue, QueueTimeout, CallerHangsUp,
                VoicemailEnds, handlerVars
  <1>6. ASSUME NEW c \in Calls, NEW l \in Legs,
               \/ LegPickedUp(c, l) \/ LegNotAnswered(c, l)
               \/ Bridge(c, l) \/ LegHangsUp(c, l) \/ ConversationEnds(c, l)
        PROVE  UNCHANGED rest
    BY <1>6 DEF LegPickedUp, LegNotAnswered, Bridge, LegHangsUp, ConversationEnds, handlerVars
  <1>7. ASSUME NEW m \in webhooks, ServeWebhook(m)
        PROVE  UNCHANGED rest
    BY <1>7 DEF ServeWebhook, UserAnswer, CallStatus, CallRecording, QueueExit,
                VoicemailRecording, handlerVars
  <1>8. CASE UNCHANGED vars  BY <1>8 DEF vars
  <1> QED  BY <1>1, <1>2, <1>3, <1>4, <1>5, <1>6, <1>7, <1>8 DEF Next

\* The state is well typed, and callbacks and requests name what they are about.
LEMMA SpecTypeInv == Spec => []TypeInv
  <1>1. Init => TypeInv
    BY InitTypeOK DEF Init, TypeInv, AnswerHasLeg, RequestHasCall
  <1>2. TypeInv /\ [Next]_vars => TypeInv'
    <2> SUFFICES ASSUME TypeInv, [Next]_vars PROVE TypeInv'
      OBVIOUS
    <2>1. TypeOK'         BY NextTypeOK
    <2>2. AnswerHasLeg'   BY WebhookChange DEF AnswerHasLeg, TypeInv
    <2>3. RequestHasCall'
      <3> SUFFICES ASSUME NEW u \in Users, rest'[u].op # "idle" PROVE rest'[u].call \in Calls
        BY DEF RequestHasCall
      <3>1. rest[u].op # "idle" => rest[u].call \in Calls
        BY DEF RequestHasCall, TypeInv
      <3>2. CASE rest'[u] = rest[u]  BY <3>1, <3>2
      <3>3. CASE rest[u].op = "answer" /\ rest'[u] = [op |-> "cancel", call |-> rest[u].call]
        BY <3>1, <3>3
      <3>4. CASE rest'[u] = [op |-> "idle", call |-> NoCall]  BY <3>4
      <3>5. ASSUME NEW c \in Calls,
                   \/ rest'[u] = [op |-> "answer", call |-> c]
                   \/ rest'[u] = [op |-> "hangup", call |-> c]
                   \/ rest'[u] = [op |-> "spam", call |-> c]
            PROVE  rest'[u].call \in Calls
        BY <3>5
      <3> QED  BY <3>2, <3>3, <3>4, <3>5, RestChange
    <2> QED  BY <2>1, <2>2, <2>3 DEF TypeInv
  <1> QED  BY <1>1, <1>2, PTL DEF Spec

\* TypeOK holds for any calls, users, legs and settings.
THEOREM TypeCorrectness == Spec => []TypeOK
  <1>1. TypeInv => TypeOK  BY DEF TypeInv
  <1> QED  BY <1>1, SpecTypeInv, PTL

-------------------------------------------------------------------------------
(* The row of a call *)

\* What a callback does to the row of a call.
LEMMA WebhookRowChange ==
    ASSUME TypeInv, NEW m \in webhooks, ServeWebhook(m), NEW c \in Calls
    PROVE  \/ status'[c] = status[c] /\ assigned'[c] = assigned[c]
           \/ HasRow(c) /\ status'[c] = "in-progress" /\ assigned'[c] \in Users
           \/ status'[c] = "none" /\ assigned'[c] = NoUser
           \/ HasRow(c) /\ status'[c] = "voicemail" /\ assigned'[c] = assigned[c]
  <1>0. /\ status \in [Calls -> Status] /\ assigned \in [Calls -> Users \cup {NoUser}]
        /\ m.call \in Calls
    BY DEF TypeInv, TypeOK, Webhook
  <1>1. CASE UserAnswer(m)
    <2>1. m.leg[1] \in Users
      BY <1>1, LegHasUser DEF UserAnswer, TypeInv, AnswerHasLeg
    <2>2. CASE HasRow(m.call)   BY <1>0, <1>1, <2>1, <2>2 DEF UserAnswer, AssignCall
    <2>3. CASE ~HasRow(m.call)  BY <1>0, <1>1, <2>3 DEF UserAnswer
    <2> QED  BY <2>2, <2>3
  <1>2. CASE CallStatus(m)
    <2>1. CASE EndsTheCall(m)   BY <1>0, <1>2, <2>1 DEF CallStatus, DeleteRow
    <2>2. CASE ~EndsTheCall(m)  BY <1>0, <1>2, <2>2 DEF CallStatus
    <2> QED  BY <2>1, <2>2
  <1>3. CASE CallRecording(m)  BY <1>0, <1>3 DEF CallRecording, DeleteRow
  <1>4. CASE QueueExit(m)
    <2>1. CASE CallerGaveUp(m)   BY <1>0, <1>4, <2>1 DEF QueueExit, DeleteRow
    <2>2. CASE ~CallerGaveUp(m)  BY <1>0, <1>4, <2>2 DEF QueueExit
    <2> QED  BY <2>1, <2>2
  <1>5. CASE VoicemailRecording(m)
    BY <1>0, <1>5 DEF VoicemailRecording, HasRow
  <1> QED  BY <1>1, <1>2, <1>3, <1>4, <1>5 DEF ServeWebhook

\* What a step does to the row of a call: it is created once, and only a row that
\* is there is answered, sent to voicemail or reported.
LEMMA RowChange ==
    ASSUME TypeInv, [Next]_vars, NEW c \in Calls
    PROVE  \/ status'[c] = status[c] /\ assigned'[c] = assigned[c]
           \/ /\ job[c] = "create" /\ job'[c] = "legs"
              /\ status'[c] = "ringing" /\ assigned'[c] = NoUser
           \/ HasRow(c) /\ status'[c] = "in-progress" /\ assigned'[c] \in Users
           \/ status'[c] = "none" /\ assigned'[c] = NoUser
           \/ HasRow(c) /\ status'[c] = "voicemail" /\ assigned'[c] = assigned[c]
           \/ /\ HasRow(c) /\ status'[c] = "spam" /\ assigned'[c] = assigned[c]
              /\ \E u \in Users : rest[u].op = "spam" /\ rest[u].call = c
  <1>0. /\ status \in [Calls -> Status] /\ assigned \in [Calls -> Users \cup {NoUser}]
        /\ job \in [Calls -> {"none", "select", "create", "legs", "dial", "done"}]
    BY DEF TypeInv, TypeOK
  <1>1. CASE UNCHANGED <<status, assigned>>  BY <1>1
  <1>2. ASSUME NEW d \in Calls, RingCreateRow(d)
        PROVE  \/ status'[c] = status[c] /\ assigned'[c] = assigned[c]
               \/ /\ job[c] = "create" /\ job'[c] = "legs"
                  /\ status'[c] = "ringing" /\ assigned'[c] = NoUser
    <2>1. CASE HasRow(d)   BY <1>2, <2>1 DEF RingCreateRow
    <2>2. CASE ~HasRow(d)  BY <1>0, <1>2, <2>2 DEF RingCreateRow
    <2> QED  BY <2>1, <2>2
  <1>3. ASSUME NEW u \in Users, RestWrite(u)
        PROVE  \/ status'[c] = status[c] /\ assigned'[c] = assigned[c]
               \/ HasRow(c) /\ status'[c] = "in-progress" /\ assigned'[c] \in Users
               \/ status'[c] = "none" /\ assigned'[c] = NoUser
               \/ /\ HasRow(c) /\ status'[c] = "spam" /\ assigned'[c] = assigned[c]
                  /\ rest[u].op = "spam" /\ rest[u].call = c
    <2>1. CASE AnswerWrite(u)
      <3>1. CASE HasRow(rest[u].call)   BY <1>0, <2>1, <3>1 DEF AnswerWrite, AssignCall
      <3>2. CASE ~HasRow(rest[u].call)  BY <2>1, <3>2 DEF AnswerWrite
      <3> QED  BY <3>1, <3>2
    <2>2. CASE AnswerCancel(u)  BY <2>2 DEF AnswerCancel
    <2>3. CASE HangupDelete(u)  BY <1>0, <2>3 DEF HangupDelete, DeleteRow
    <2>4. CASE SpamWrite(u)     BY <1>0, <2>4 DEF SpamWrite, HasRow
    <2> QED  BY <1>3, <2>1, <2>2, <2>3, <2>4 DEF RestWrite
  <1>4. ASSUME NEW u \in Users, ToggleShift(u) \/ ToggleAway(u)
        PROVE  UNCHANGED <<status, assigned>>
    BY <1>4 DEF ToggleShift, ToggleAway, dbVars
  <1>5. ASSUME NEW d \in Calls,
               \/ Incoming(d) \/ LanguageSelected(d) \/ Captcha(d)
               \/ RingSelect(d) \/ RingCreateLegs(d) \/ RingDial(d)
               \/ Enqueue(d) \/ QueueTimeout(d) \/ CallerHangsUp(d) \/ VoicemailEnds(d)
        PROVE  UNCHANGED <<status, assigned>>
    BY <1>5 DEF Incoming, LanguageSelected, Captcha, RingSelect, RingCreateLegs, RingDial,
                Enqueue, QueueTimeout, CallerHangsUp, VoicemailEnds, dbVars
  <1>6. ASSUME NEW d \in Calls, NEW l \in Legs,
               \/ LegPickedUp(d, l) \/ LegNotAnswered(d, l)
               \/ Bridge(d, l) \/ LegHangsUp(d, l) \/ ConversationEnds(d, l)
        PROVE  UNCHANGED <<status, assigned>>
    BY <1>6 DEF LegPickedUp, LegNotAnswered, Bridge, LegHangsUp, ConversationEnds, dbVars
  <1>7. ASSUME NEW u \in Users, NEW d \in Calls,
               \/ AnswerRead(u, d)
               \/ OwnCallRead(u, d, "hangup") \/ OwnCallRead(u, d, "spam")
        PROVE  UNCHANGED <<status, assigned>>
    BY <1>7 DEF AnswerRead, OwnCallRead, dbVars
  <1>8. CASE UNCHANGED vars  BY <1>8 DEF vars
  <1> QED  BY <1>1, <1>2, <1>3, <1>4, <1>5, <1>6, <1>7, <1>8, WebhookRowChange
              DEF Next, Ringing

\* A call that was ended once is never active again: the theorem behind the
\* guards of updateActiveCall.
THEOREM EndedStayEnded == Spec => EndedCallsStayEnded
  <1>1. TypeInv /\ [Next]_vars => NoRowIsRevived
    <2> SUFFICES ASSUME TypeInv, [Next]_vars, NEW c \in Calls,
                        job[c] \in {"legs", "dial", "done"}, status[c] = "none"
                 PROVE  status'[c] = "none"
      BY DEF NoRowIsRevived
    <2> QED  BY RowChange DEF HasRow
  <1> QED  BY <1>1, SpecTypeInv, PTL DEF Spec, EndedCallsStayEnded

-------------------------------------------------------------------------------
(* Who owns a row *)

Started(c) == job[c] \in {"legs", "dial", "done"}

\* A call is routed once: the ringing job starts when the caller leaves the menus.
RoutedOnce ==
    \A c \in Calls : phase[c] \in {"idle", "menu", "captcha"} => job[c] = "none"

\* Only the ringing job creates rows, and it creates at most one.
RowsAreStarted == \A c \in Calls : HasRow(c) => Started(c)

\* A request in flight is about a call that has had its row.
RequestsAreStarted == \A u \in Users : rest[u].op # "idle" => Started(rest[u].call)

\* A report in flight is about a call that has an owner, or is over.
SpamIsOwned ==
    \A u \in Users : rest[u].op = "spam" =>
      status[rest[u].call] = "none" \/ assigned[rest[u].call] # NoUser

RowInv == RoutedOnce /\ RowsAreStarted /\ RequestsAreStarted /\ SpamIsOwned
            /\ OwnerAgreesWithStatus

\* A job starts once, on leaving the menus, and goes from one step to the next.
LEMMA JobChange ==
    ASSUME TypeInv, [Next]_vars, NEW c \in Calls
    PROVE  /\ phase'[c] \in {"idle", "menu", "captcha"}
                => phase[c] \in {"idle", "menu", "captcha"}
           /\ \/ job'[c] = job[c]
              \/ /\ phase[c] \in {"menu", "captcha"}
                 /\ phase'[c] = "greeting" /\ job'[c] = "select"
              \/ job[c] = "select" /\ job'[c] \in {"create", "done"}
              \/ job[c] \in {"create", "legs", "dial"} /\ Started(c)'
  <1> DEFINE Early == {"idle", "menu", "captcha"}
  <1> USE DEF Started
  <1>0. /\ phase \in [Calls -> Phase]
        /\ job \in [Calls -> {"none", "select", "create", "legs", "dial", "done"}]
    BY DEF TypeInv, TypeOK
  <1>1. ASSUME NEW d \in Calls, LanguageSelected(d) \/ Captcha(d)
        PROVE  /\ phase'[c] \in Early => phase[c] \in Early
               /\ \/ job'[c] = job[c]
                  \/ /\ phase[c] \in {"menu", "captcha"}
                     /\ phase'[c] = "greeting" /\ job'[c] = "select"
    <2>1. phase[d] \in {"menu", "captcha"}
      BY <1>1 DEF LanguageSelected, Captcha
    <2>2. \/ \E to \in {"ended", "captcha", "voicemail"} :
                phase' = [phase EXCEPT ![d] = to] /\ job' = job
          \/ phase' = [phase EXCEPT ![d] = "greeting"] /\ job' = [job EXCEPT ![d] = "select"]
      BY <1>1, RouteCallerCases DEF LanguageSelected, Captcha
    <2> QED  BY <1>0, <2>1, <2>2
  <1>2. ASSUME NEW d \in Calls, Ringing(d)
        PROVE  /\ phase' = phase
               /\ \/ job'[c] = job[c]
                  \/ job[c] = "select" /\ job'[c] \in {"create", "done"}
                  \/ job[c] \in {"create", "legs", "dial"} /\ Started(c)'
    <2>1. CASE RingSelect(d)      BY <1>0, <2>1 DEF RingSelect, providerVars
    <2>2. CASE RingCreateRow(d)   BY <1>0, <2>2 DEF RingCreateRow, providerVars
    <2>3. CASE RingCreateLegs(d)  BY <1>0, <2>3 DEF RingCreateLegs, providerVars
    <2>4. CASE RingDial(d)        BY <1>0, <2>4 DEF RingDial
    <2> QED  BY <1>2, <2>1, <2>2, <2>3, <2>4 DEF Ringing
  <1>3. ASSUME NEW d \in Calls, Incoming(d)
        PROVE  job' = job /\ (phase'[c] \in Early => phase[c] \in Early)
    BY <1>0, <1>3 DEF Incoming, handlerVars
  <1>4. ASSUME NEW d \in Calls,
               Enqueue(d) \/ QueueTimeout(d) \/ CallerHangsUp(d) \/ VoicemailEnds(d)
        PROVE  job' = job /\ (phase'[c] \in Early => phase[c] \in Early)
    BY <1>0, <1>4 DEF Enqueue, QueueTimeout, CallerHangsUp, VoicemailEnds, handlerVars
  <1>5. ASSUME NEW d \in Calls, NEW l \in Legs,
               \/ LegPickedUp(d, l) \/ LegNotAnswered(d, l)
               \/ Bridge(d, l) \/ LegHangsUp(d, l) \/ ConversationEnds(d, l)
        PROVE  job' = job /\ (phase'[c] \in Early => phase[c] \in Early)
    BY <1>0, <1>5 DEF LegPickedUp, LegNotAnswered, Bridge, LegHangsUp, ConversationEnds,
                      handlerVars
  <1>6. ASSUME NEW m \in webhooks, ServeWebhook(m)
        PROVE  job' = job /\ (phase'[c] \in Early => phase[c] \in Early)
    <2>1. CASE QueueExit(m)
      <3>1. phase' = phase \/ phase' = [phase EXCEPT ![m.call] = "voicemail"]
        BY <2>1 DEF QueueExit
      <3> QED  BY <1>0, <2>1, <3>1 DEF QueueExit, handlerVars
    <2>2. CASE UserAnswer(m) \/ CallStatus(m) \/ CallRecording(m) \/ VoicemailRecording(m)
      BY <2>2 DEF UserAnswer, CallStatus, CallRecording, VoicemailRecording, handlerVars
    <2> QED  BY <1>6, <2>1, <2>2 DEF ServeWebhook
  <1>7. ASSUME NEW u \in Users,
               ToggleShift(u) \/ ToggleAway(u) \/ RestWrite(u)
        PROVE  UNCHANGED <<job, phase>>
    BY <1>7 DEF ToggleShift, ToggleAway, RestWrite, AnswerWrite, AnswerCancel, HangupDelete,
                SpamWrite, handlerVars, providerVars
  <1>8. ASSUME NEW u \in Users, NEW d \in Calls,
               \/ AnswerRead(u, d)
               \/ OwnCallRead(u, d, "hangup") \/ OwnCallRead(u, d, "spam")
        PROVE  UNCHANGED <<job, phase>>
    BY <1>8 DEF AnswerRead, OwnCallRead, providerVars
  <1>9. CASE UNCHANGED vars  BY <1>9 DEF vars
  <1> QED  BY <1>1, <1>2, <1>3, <1>4, <1>5, <1>6, <1>7, <1>8, <1>9 DEF Next

\* Who owns a row agrees with its status, and stays so under every step.
LEMMA SpecRowInv == Spec => []RowInv
  <1>1. Init => RowInv
    BY DEF Init, RowInv, RoutedOnce, RowsAreStarted, RequestsAreStarted, SpamIsOwned,
           OwnerAgreesWithStatus, HasRow
  <1>2. TypeInv /\ TypeInv' /\ RowInv /\ [Next]_vars => RowInv'
    <2> SUFFICES ASSUME TypeInv, TypeInv', RowInv, [Next]_vars PROVE RowInv'
      OBVIOUS
    <2>0. /\ NoUser \notin Users
          /\ \A c \in Calls : Started(c) => job[c] # "create"
      BY DEF Started
    <2>1. RoutedOnce'
      BY JobChange DEF RowInv, RoutedOnce
    <2>2. ASSUME NEW c \in Calls, Started(c) PROVE Started(c)'
      BY <2>2, JobChange DEF Started, RowInv, RoutedOnce
    <2>3. RowsAreStarted'
      <3> SUFFICES ASSUME NEW c \in Calls, HasRow(c)' PROVE Started(c)'
        BY DEF RowsAreStarted
      <3>1. CASE HasRow(c)  BY <2>2, <3>1 DEF RowInv, RowsAreStarted
      <3>2. CASE job'[c] = "legs"  BY <3>2 DEF Started
      <3> QED  BY <3>1, <3>2, RowChange DEF HasRow
    <2>4. ASSUME NEW u \in Users
          PROVE  /\ rest'[u].op # "idle" => job'[rest'[u].call] \in {"legs", "dial", "done"}
                 /\ rest'[u].op = "spam" => \/ status'[rest'[u].call] = "none"
                                            \/ assigned'[rest'[u].call] # NoUser
      <3>1. CASE rest'[u] = [op |-> "idle", call |-> NoCall]
        BY <3>1
      <3>2. CASE rest[u].op = "answer" /\ rest'[u] = [op |-> "cancel", call |-> rest[u].call]
        <4>1. rest[u].call \in Calls /\ Started(rest[u].call)
          BY <3>2 DEF RowInv, RequestsAreStarted, TypeInv, RequestHasCall
        <4> QED  BY <2>2, <3>2, <4>1 DEF Started
      <3>3. CASE rest'[u] = rest[u] /\ rest[u].op # "idle"
        <4>1. rest[u].call \in Calls /\ Started(rest[u].call)
          BY <3>3 DEF RowInv, RequestsAreStarted, TypeInv, RequestHasCall
        <4>2. ASSUME rest[u].op = "spam"
              PROVE  \/ status'[rest[u].call] = "none"
                     \/ assigned'[rest[u].call] # NoUser
          <5>1. \/ status[rest[u].call] = "none" \/ assigned[rest[u].call] # NoUser
            BY <4>2 DEF RowInv, SpamIsOwned
          <5> QED  BY <2>0, <4>1, <5>1, RowChange DEF HasRow
        <4>3. job'[rest[u].call] \in {"legs", "dial", "done"}
          BY <2>2, <4>1 DEF Started
        <4> QED  BY <3>3, <4>2, <4>3
      <3>4. ASSUME NEW c \in Calls, HasRow(c), UNCHANGED <<status, assigned, job>>,
                   \/ rest'[u] = [op |-> "answer", call |-> c]
                   \/ rest'[u] = [op |-> "hangup", call |-> c]
                   \/ assigned[c] = u /\ rest'[u] = [op |-> "spam", call |-> c]
            PROVE  /\ job'[rest'[u].call] \in {"legs", "dial", "done"}
                   /\ rest'[u].op = "spam" => assigned'[rest'[u].call] # NoUser
        <4>1. rest'[u].call = c /\ (rest'[u].op = "spam" => assigned[c] = u)
          BY <3>4
        <4>2. job'[c] \in {"legs", "dial", "done"}
          BY <2>2, <3>4 DEF RowInv, RowsAreStarted, Started
        <4> QED  BY <2>0, <3>4, <4>1, <4>2
      <3>5. CASE rest'[u] = rest[u] /\ rest[u].op = "idle"
        BY <3>5
      <3> QED  BY <3>1, <3>2, <3>3, <3>4, <3>5, RestChange
    <2>5. OwnerAgreesWithStatus'
      <3> SUFFICES ASSUME NEW c \in Calls
                   PROVE  /\ status'[c] \in {"none", "ringing"} => assigned'[c] = NoUser
                          /\ status'[c] \in {"in-progress", "spam"} => assigned'[c] # NoUser
        BY DEF OwnerAgreesWithStatus
      <3>1. ASSUME NEW u \in Users, rest[u].op = "spam", rest[u].call = c, HasRow(c)
            PROVE  assigned[c] # NoUser
        BY <3>1 DEF RowInv, SpamIsOwned, HasRow
      <3> QED  BY <2>0, <3>1, RowChange DEF RowInv, OwnerAgreesWithStatus
    <2> QED  BY <2>1, <2>3, <2>4, <2>5 DEF RowInv, RequestsAreStarted, SpamIsOwned, Started
  <1> QED  BY <1>1, <1>2, SpecTypeInv, PTL DEF Spec

\* A ringing row has no owner, an answered or reported one has (calls.ts,
\* telephony.ts), for any calls, users and interleaving.
THEOREM OwnersAgree == Spec => []OwnerAgreesWithStatus
  <1>1. RowInv => OwnerAgreesWithStatus  BY DEF RowInv
  <1> QED  BY <1>1, SpecRowInv, PTL

-------------------------------------------------------------------------------
(* The table of active calls implements CallLifecycle *)

\* Every step of the call flow is a step of the abstract calls, for any calls, users
\* and interleaving.
THEOREM FlowImplementsLifecycle == Spec => ImplementsLifecycle
  <1> USE DEF Started
  <1>1. Init => Lifecycle!Init
    BY DEF Init, Lifecycle!Init, HasRow
  <1>2. TypeInv /\ TypeInv' /\ RowInv /\ RowInv' /\ [Next]_vars
          => [Lifecycle!Next]_Lifecycle!lifecycle
    <2> SUFFICES ASSUME TypeInv, TypeInv', RowInv, RowInv', [Next]_vars, NEW c \in Calls
                 PROVE  \/ Lifecycle!Stays(c) \/ Lifecycle!Ring(c) \/ Lifecycle!Skip(c)
                        \/ Lifecycle!Answer(c) \/ Lifecycle!LeaveMessage(c)
                        \/ Lifecycle!Report(c) \/ Lifecycle!End(c)
      BY DEF Lifecycle!Next
    <2>1. /\ assigned[c] \in Users \cup {NoUser} /\ NoUser \notin Users
          /\ status[c] \in Status /\ status'[c] \in Status
          /\ HasRow(c) => Started(c)
          /\ HasRow(c)' => Started(c)'
          /\ ~HasRow(c) => assigned[c] = NoUser
          /\ ~HasRow(c)' => assigned'[c] = NoUser
      BY DEF TypeInv, TypeOK, RowInv, RowsAreStarted, OwnerAgreesWithStatus, HasRow
    <2>2. Started(c) => Started(c)'
      BY JobChange DEF RowInv, RoutedOnce
    <2> USE DEF Lifecycle!Becomes, Lifecycle!Listed, Lifecycle!State, HasRow, Status
    <2>3. CASE ~HasRow(c) /\ ~HasRow(c)'
      <3>1. CASE Started(c) \/ ~Started(c)'
        BY <2>1, <2>2, <2>3, <3>1 DEF Lifecycle!Stays
      <3>2. CASE ~Started(c) /\ Started(c)'
        BY <2>1, <2>3, <3>2 DEF Lifecycle!Skip
      <3> QED  BY <3>1, <3>2
    <2>4. CASE HasRow(c) /\ ~HasRow(c)'
      BY <2>1, <2>2, <2>4 DEF Lifecycle!End
    <2>5. CASE ~HasRow(c) /\ HasRow(c)'
      BY <2>1, <2>5, RowChange DEF Lifecycle!Ring
    <2>6. CASE HasRow(c) /\ HasRow(c)'
      <3>1. CASE status'[c] = status[c] /\ assigned'[c] = assigned[c]
        BY <2>6, <3>1 DEF Lifecycle!Stays
      <3>2. CASE status'[c] = "in-progress" /\ assigned'[c] \in Users
        BY <2>1, <2>6, <3>2 DEF Lifecycle!Answer
      <3>3. CASE status'[c] = "voicemail" /\ assigned'[c] = assigned[c]
        BY <2>1, <2>6, <3>3 DEF Lifecycle!LeaveMessage
      <3>4. ASSUME status'[c] = "spam", assigned'[c] = assigned[c],
                   NEW u \in Users, rest[u].op = "spam", rest[u].call = c
            PROVE  Lifecycle!Report(c)
        <4>1. assigned[c] # NoUser  BY <2>6, <3>4 DEF RowInv, SpamIsOwned
        <4> QED  BY <2>1, <2>6, <3>4, <4>1 DEF Lifecycle!Report
      <3>5. job[c] # "create"  BY <2>1, <2>6
      <3> QED  BY <2>6, <3>1, <3>2, <3>3, <3>4, <3>5, RowChange
    <2> QED  BY <2>3, <2>4, <2>5, <2>6
  <1> QED  BY <1>1, <1>2, SpecTypeInv, SpecRowInv, PTL DEF Spec, ImplementsLifecycle, Lifecycle!Spec

-------------------------------------------------------------------------------
(* Who talks to a caller and who is reported as missed:                       *)
(*   AuditInv   a leg that may reach the caller is in the audit log           *)
(*   MissedInv  a caller who gave up in the queue is out of everyone's reach *)

\* The caller has not left the queue yet.
Waiting == {"idle", "menu", "captcha", "greeting", "queued"}

\* What a step does to the caller: he is connected once, out of the queue and by a
\* dialling leg, and never comes back from where he went.
LEMMA CallerChange ==
    ASSUME TypeInv, [Next]_vars, NEW c \in Calls
    PROVE  /\ phase[c] = "ended" => phase'[c] = "ended"
           /\ phase'[c] \in Waiting => phase[c] \in Waiting /\ peer'[c] = peer[c]
           /\ \/ peer'[c] = peer[c] /\ (phase'[c] = "bridged" => phase[c] = "bridged")
              \/ /\ phase[c] = "queued" /\ phase'[c] = "bridged"
                 /\ \E l \in Legs : leg[c][l] = "dialing" /\ peer'[c] = l
  <1> DEFINE Onwards == /\ peer' = peer
                        /\ phase[c] = "ended" => phase'[c] = "ended"
                        /\ phase'[c] \in Waiting => phase[c] \in Waiting
                        /\ phase'[c] = "bridged" => phase[c] = "bridged"
  <1>0. phase \in [Calls -> Phase] /\ peer \in [Calls -> Legs \cup {NoLeg}]
    BY DEF TypeInv, TypeOK
  <1> USE DEF Waiting
  <1>1. ASSUME NEW d \in Calls, LanguageSelected(d) \/ Captcha(d)
        PROVE  Onwards
    <2>1. phase[d] \in {"menu", "captcha"} /\ peer' = peer
      BY <1>1 DEF LanguageSelected, Captcha
    <2>2. \E to \in {"ended", "captcha", "voicemail", "greeting"} :
            phase' = [phase EXCEPT ![d] = to]
      BY <1>1, RouteCallerCases DEF LanguageSelected, Captcha
    <2> QED  BY <1>0, <2>1, <2>2
  <1>2. ASSUME NEW d \in Calls,
               \/ Incoming(d) \/ Enqueue(d) \/ QueueTimeout(d)
               \/ CallerHangsUp(d) \/ VoicemailEnds(d)
        PROVE  Onwards
    BY <1>0, <1>2 DEF Incoming, Enqueue, QueueTimeout, CallerHangsUp, VoicemailEnds
  <1>3. ASSUME NEW d \in Calls, NEW l \in Legs, Bridge(d, l)
        PROVE  \/ Onwards
               \/ /\ phase[c] = "queued" /\ phase'[c] = "bridged"
                  /\ leg[c][l] = "dialing" /\ peer'[c] = l
               \/ phase'[c] = phase[c] /\ peer'[c] = peer[c]
    BY <1>0, <1>3 DEF Bridge
  <1>4. ASSUME NEW d \in Calls, NEW l \in Legs,
               \/ LegPickedUp(d, l) \/ LegNotAnswered(d, l)
               \/ LegHangsUp(d, l) \/ ConversationEnds(d, l)
        PROVE  Onwards
    BY <1>0, <1>4 DEF LegPickedUp, LegNotAnswered, LegHangsUp, ConversationEnds
  <1>5. ASSUME NEW m \in webhooks, ServeWebhook(m)
        PROVE  Onwards
    <2>1. CASE QueueExit(m)
      <3>1. \/ phase' = phase
            \/ phase[m.call] = "leaving" /\ phase' = [phase EXCEPT ![m.call] = "voicemail"]
        BY <2>1 DEF QueueExit
      <3> QED  BY <1>0, <2>1, <3>1 DEF QueueExit
    <2>2. CASE UserAnswer(m) \/ CallStatus(m) \/ CallRecording(m) \/ VoicemailRecording(m)
      BY <2>2 DEF UserAnswer, CallStatus, CallRecording, VoicemailRecording
    <2> QED  BY <1>5, <2>1, <2>2 DEF ServeWebhook
  <1>6. ASSUME NEW d \in Calls, Ringing(d)
        PROVE  UNCHANGED <<phase, peer>>
    BY <1>6 DEF Ringing, RingSelect, RingCreateRow, RingCreateLegs, RingDial, providerVars
  <1>7. ASSUME NEW u \in Users, ToggleShift(u) \/ ToggleAway(u) \/ RestWrite(u)
        PROVE  UNCHANGED <<phase, peer>>
    BY <1>7 DEF ToggleShift, ToggleAway, RestWrite, AnswerWrite, AnswerCancel, HangupDelete,
                SpamWrite, providerVars
  <1>8. ASSUME NEW u \in Users, NEW d \in Calls,
               \/ AnswerRead(u, d)
               \/ OwnCallRead(u, d, "hangup") \/ OwnCallRead(u, d, "spam")
        PROVE  UNCHANGED <<phase, peer>>
    BY <1>8 DEF AnswerRead, OwnCallRead, providerVars
  <1>9. CASE UNCHANGED vars  BY <1>9 DEF vars
  <1> QED  BY <1>1, <1>2, <1>3, <1>4, <1>5, <1>6, <1>7, <1>8, <1>9 DEF Next

\* What a step does to a leg: only /user-answer lets it dial the queue, and it logs
\* the user it does so for.
LEMMA LegChange ==
    ASSUME TypeInv, [Next]_vars, NEW c \in Calls
    PROVE  /\ answeredLog[c] \subseteq answeredLog'[c]
           /\ \A l \in Legs : leg'[c][l] \in {"dialing", "bridged"} =>
                leg[c][l] \in {"dialing", "bridged"} \/ l[1] \in answeredLog'[c]
  <1> DEFINE Reaching == {"dialing", "bridged"}
  <1>0. /\ leg \in [Calls -> [Legs -> LegState]]
        /\ answeredLog \in [Calls -> SUBSET Users]
    BY DEF TypeInv, TypeOK
  <1>1. ASSUME NEW m \in webhooks, UserAnswer(m)
        PROVE  /\ answeredLog[c] \subseteq answeredLog'[c]
               /\ \A l \in Legs :
                    leg'[c][l] \in Reaching => leg[c][l] \in Reaching \/ l[1] \in answeredLog'[c]
    <2>0. m.call \in Calls /\ m.leg \in Legs
      BY <1>1 DEF UserAnswer, TypeInv, TypeOK, AnswerHasLeg, Webhook
    <2>1. CASE HasRow(m.call)
      <3>1. answeredLog' = [answeredLog EXCEPT ![m.call] = @ \cup {m.leg[1]}]
        BY <1>1, <2>1 DEF UserAnswer, AuditAnswered
      <3>2. \A l \in Legs : leg'[c][l] = leg[c][l] \/ (c = m.call /\ l = m.leg)
        BY <1>0, <1>1, <2>0, <2>1 DEF UserAnswer
      <3> QED  BY <1>0, <2>0, <3>1, <3>2
    <2>2. CASE ~HasRow(m.call)
      BY <1>0, <1>1, <2>0, <2>2 DEF UserAnswer
    <2> QED  BY <2>1, <2>2
  <1>2. ASSUME NEW d \in Calls, NEW k \in Legs,
               \/ LegPickedUp(d, k) \/ LegNotAnswered(d, k)
               \/ LegHangsUp(d, k) \/ ConversationEnds(d, k) \/ Bridge(d, k)
        PROVE  /\ answeredLog' = answeredLog
               /\ \A l \in Legs : leg'[c][l] \in Reaching => leg[c][l] \in Reaching
    BY <1>0, <1>2 DEF LegPickedUp, LegNotAnswered, LegHangsUp, ConversationEnds, Bridge,
                      dbVars, auditVars
  <1>3. ASSUME NEW d \in Calls, Ringing(d)
        PROVE  /\ answeredLog' = answeredLog
               /\ \A l \in Legs : leg'[c][l] \in Reaching => leg[c][l] \in Reaching
    <2>1. CASE RingDial(d)
      BY <1>0, <2>1 DEF RingDial, dbVars, auditVars
    <2>2. CASE RingSelect(d) \/ RingCreateRow(d) \/ RingCreateLegs(d)
      BY <2>2 DEF RingSelect, RingCreateRow, RingCreateLegs, dbVars, auditVars, providerVars
    <2> QED  BY <1>3, <2>1, <2>2 DEF Ringing
  <1>4. ASSUME NEW d \in Calls,
               \/ Incoming(d) \/ LanguageSelected(d) \/ Captcha(d)
               \/ Enqueue(d) \/ QueueTimeout(d) \/ CallerHangsUp(d) \/ VoicemailEnds(d)
        PROVE  UNCHANGED <<leg, answeredLog>>
    BY <1>4 DEF Incoming, LanguageSelected, Captcha, Enqueue, QueueTimeout, CallerHangsUp,
                VoicemailEnds, dbVars, auditVars
  <1>5. ASSUME NEW m \in webhooks,
               CallStatus(m) \/ CallRecording(m) \/ QueueExit(m) \/ VoicemailRecording(m)
        PROVE  UNCHANGED <<leg, answeredLog>>
    BY <1>5 DEF CallStatus, CallRecording, QueueExit, VoicemailRecording, auditVars
  <1>6. ASSUME NEW u \in Users, ToggleShift(u) \/ ToggleAway(u) \/ RestWrite(u)
        PROVE  UNCHANGED <<leg, answeredLog>>
    BY <1>6 DEF ToggleShift, ToggleAway, RestWrite, AnswerWrite, AnswerCancel, HangupDelete,
                SpamWrite, dbVars, auditVars, providerVars
  <1>7. ASSUME NEW u \in Users, NEW d \in Calls,
               \/ AnswerRead(u, d)
               \/ OwnCallRead(u, d, "hangup") \/ OwnCallRead(u, d, "spam")
        PROVE  UNCHANGED <<leg, answeredLog>>
    BY <1>7 DEF AnswerRead, OwnCallRead, dbVars, auditVars, providerVars
  <1>8. CASE UNCHANGED vars  BY <1>8 DEF vars, auditVars
  <1> QED  BY <1>1, <1>2, <1>3, <1>4, <1>5, <1>6, <1>7, <1>8 DEF Next, ServeWebhook

-------------------------------------------------------------------------------
(* Who talks to the caller *)

\* A leg that dials the queue, or got the caller out of it, is of a logged user.
ReachingLegsAreAudited ==
    \A c \in Calls, l \in Legs :
      leg[c][l] \in {"dialing", "bridged"} => l[1] \in answeredLog[c]

AuditInv == ReachingLegsAreAudited /\ ConnectedUserIsAudited

\* Whoever talks to a caller is in the audit log for it (/user-answer), for any
\* users, legs and interleaving of the callbacks.
THEOREM ConnectedAreAudited == Spec => []ConnectedUserIsAudited
  <1>1. Init => AuditInv
    BY DEF Init, AuditInv, ReachingLegsAreAudited, ConnectedUserIsAudited
  <1>2. TypeInv /\ AuditInv /\ [Next]_vars => AuditInv'
    <2> SUFFICES ASSUME TypeInv, AuditInv, [Next]_vars PROVE AuditInv'
      OBVIOUS
    <2>1. ReachingLegsAreAudited'
      <3> SUFFICES ASSUME NEW c \in Calls, NEW l \in Legs,
                          leg'[c][l] \in {"dialing", "bridged"}
                   PROVE  l[1] \in answeredLog'[c]
        BY DEF ReachingLegsAreAudited
      <3> QED  BY LegChange DEF AuditInv, ReachingLegsAreAudited
    <2>2. ConnectedUserIsAudited'
      <3> SUFFICES ASSUME NEW c \in Calls, phase'[c] = "bridged"
                   PROVE  peer'[c][1] \in answeredLog'[c]
        BY DEF ConnectedUserIsAudited
      <3>1. answeredLog[c] \subseteq answeredLog'[c]  BY LegChange
      <3>2. CASE peer'[c] = peer[c] /\ phase[c] = "bridged"
        BY <3>1, <3>2 DEF AuditInv, ConnectedUserIsAudited
      <3>3. ASSUME NEW l \in Legs, leg[c][l] = "dialing", peer'[c] = l
            PROVE  peer'[c][1] \in answeredLog'[c]
        BY <3>1, <3>3 DEF AuditInv, ReachingLegsAreAudited
      <3> QED  BY <3>2, <3>3, CallerChange
    <2> QED  BY <2>1, <2>2 DEF AuditInv
  <1>3. AuditInv => ConnectedUserIsAudited  BY DEF AuditInv
  <1> QED  BY <1>1, <1>2, <1>3, SpecTypeInv, PTL DEF Spec

-------------------------------------------------------------------------------
(* Who is reported as missed *)

\* A caller in the queue has not been connected.
WaitingHasNoPeer == \A c \in Calls : phase[c] \in Waiting => peer[c] = NoLeg

\* A hangup callback is about a caller who is gone, was never connected and is not
\* reported yet.
HangupIsUnreported ==
    \A m \in webhooks : m.kind = "hangup" =>
      /\ m.leg = NoLeg /\ phase[m.call] = "ended" /\ peer[m.call] = NoLeg
      /\ missedLog[m.call] = 0

\* A caller reported as missed is gone.
MissedIsGone ==
    \A c \in Calls :
      missedLog[c] \in {0, 1} /\ (missedLog[c] = 1 => phase[c] = "ended" /\ peer[c] = NoLeg)

MissedInv == WaitingHasNoPeer /\ HangupIsUnreported /\ MissedIsGone

\* Only a hangup callback of the queue reports a caller as missed, and it is served
\* once.
LEMMA MissedChange ==
    ASSUME TypeInv, [Next]_vars, missedLog' # missedLog
    PROVE  \E m \in webhooks :
             /\ m.kind = "hangup" /\ webhooks' = webhooks \ {m}
             /\ missedLog' = [missedLog EXCEPT ![m.call] = @ + 1]
             /\ UNCHANGED <<phase, peer>>
  <1>1. ASSUME NEW m \in webhooks, ServeWebhook(m)
        PROVE  /\ m.kind = "hangup" /\ webhooks' = webhooks \ {m}
               /\ missedLog' = [missedLog EXCEPT ![m.call] = @ + 1]
               /\ UNCHANGED <<phase, peer>>
    <2>1. QueueExit(m)
      BY <1>1 DEF ServeWebhook, UserAnswer, CallStatus, CallRecording, VoicemailRecording,
                  auditVars
    <2>2. CallerGaveUp(m)
      BY <2>1 DEF QueueExit
    <2> QED  BY <2>1, <2>2 DEF QueueExit, CallerGaveUp, GoesToVoicemail
  <1>2. ASSUME NEW c \in Calls,
               \/ Incoming(c) \/ LanguageSelected(c) \/ Captcha(c) \/ Ringing(c)
               \/ Enqueue(c) \/ QueueTimeout(c) \/ CallerHangsUp(c) \/ VoicemailEnds(c)
        PROVE  FALSE
    BY <1>2 DEF Incoming, LanguageSelected, Captcha, Ringing, RingSelect, RingCreateRow,
                RingCreateLegs, RingDial, Enqueue, QueueTimeout, CallerHangsUp,
                VoicemailEnds, dbVars, auditVars
  <1>3. ASSUME NEW c \in Calls, NEW l \in Legs,
               \/ LegPickedUp(c, l) \/ LegNotAnswered(c, l)
               \/ Bridge(c, l) \/ LegHangsUp(c, l) \/ ConversationEnds(c, l)
        PROVE  FALSE
    BY <1>3 DEF LegPickedUp, LegNotAnswered, Bridge, LegHangsUp, ConversationEnds, dbVars,
                auditVars
  <1>4. ASSUME NEW u \in Users, ToggleShift(u) \/ ToggleAway(u) \/ RestWrite(u)
        PROVE  FALSE
    BY <1>4 DEF ToggleShift, ToggleAway, RestWrite, AnswerWrite, AnswerCancel, HangupDelete,
                SpamWrite, dbVars, auditVars
  <1>5. ASSUME NEW u \in Users, NEW c \in Calls,
               \/ AnswerRead(u, c)
               \/ OwnCallRead(u, c, "hangup") \/ OwnCallRead(u, c, "spam")
        PROVE  FALSE
    BY <1>5 DEF AnswerRead, OwnCallRead, dbVars, auditVars
  <1>6. CASE UNCHANGED vars  BY <1>6 DEF vars, auditVars
  <1> QED  BY <1>1, <1>2, <1>3, <1>4, <1>5, <1>6 DEF Next

\* callMissed is logged at most once, and never for a caller who was connected
\* (/queue-exit), for any number of legs and callbacks in flight.
THEOREM MissedWereNeverConnected == Spec => []MissedMeansNeverConnected
  <1>1. Init => MissedInv
    BY DEF Init, MissedInv, WaitingHasNoPeer, HangupIsUnreported, MissedIsGone
  <1>2. TypeInv /\ MissedInv /\ [Next]_vars => MissedInv'
    <2> SUFFICES ASSUME TypeInv, MissedInv, [Next]_vars PROVE MissedInv'
      OBVIOUS
    <2>0. /\ webhooks \subseteq Webhook /\ phase \in [Calls -> Phase]
          /\ missedLog \in [Calls -> Nat]
      BY DEF TypeInv, TypeOK
    <2>1. WaitingHasNoPeer'
      BY CallerChange DEF MissedInv, WaitingHasNoPeer
    <2>2. ASSUME NEW c \in Calls, phase[c] = "ended", peer[c] = NoLeg
          PROVE  phase'[c] = "ended" /\ peer'[c] = NoLeg
      BY <2>2, CallerChange
    <2>3. CASE missedLog' = missedLog
      <3>1. MissedIsGone'
        BY <2>2, <2>3 DEF MissedInv, MissedIsGone
      <3>2. ASSUME NEW m \in webhooks', m.kind = "hangup"
            PROVE  /\ m.leg = NoLeg /\ phase'[m.call] = "ended" /\ peer'[m.call] = NoLeg
                   /\ missedLog'[m.call] = 0
        <4>1. CASE m \in webhooks
          <5>1. m.call \in Calls  BY <2>0, <4>1 DEF Webhook
          <5> QED  BY <2>2, <2>3, <3>2, <4>1, <5>1 DEF MissedInv, HangupIsUnreported
        <4>2. CASE m \notin webhooks
          <5>1. /\ m.leg = NoLeg /\ phase[m.call] = "queued"
                /\ phase' = [phase EXCEPT ![m.call] = "ended"] /\ peer' = peer
            BY <3>2, <4>2, WebhookChange DEF TypeInv
          <5>2. m.call \in Calls
            BY <4>2, NextTypeOK DEF TypeOK, Webhook
          <5> QED  BY <2>0, <2>3, <5>1, <5>2
                      DEF MissedInv, WaitingHasNoPeer, MissedIsGone, Waiting
        <4> QED  BY <4>1, <4>2
      <3> QED  BY <2>1, <3>1, <3>2 DEF MissedInv, HangupIsUnreported
    <2>4. ASSUME NEW m \in webhooks, m.kind = "hangup", webhooks' = webhooks \ {m},
                 missedLog' = [missedLog EXCEPT ![m.call] = @ + 1], UNCHANGED <<phase, peer>>
          PROVE  MissedInv'
      <3>0. m.call \in Calls  BY <2>0 DEF Webhook
      <3>1. /\ m.leg = NoLeg /\ phase[m.call] = "ended" /\ peer[m.call] = NoLeg
            /\ missedLog[m.call] = 0
        BY <2>4 DEF MissedInv, HangupIsUnreported
      <3>2. MissedIsGone'
        BY <2>0, <2>4, <3>0, <3>1 DEF MissedInv, MissedIsGone
      <3>3. ASSUME NEW n \in webhooks', n.kind = "hangup"
            PROVE  n.call # m.call
        <4>1. n.leg = NoLeg
          BY <2>4, <3>3 DEF MissedInv, HangupIsUnreported
        <4> QED  BY <2>0, <2>4, <3>1, <3>3, <4>1 DEF Webhook
      <3>4. HangupIsUnreported'
        BY <2>0, <2>4, <3>0, <3>3 DEF MissedInv, HangupIsUnreported, Webhook
      <3> QED  BY <2>1, <3>2, <3>4 DEF MissedInv
    <2> QED  BY <2>3, <2>4, MissedChange
  <1>3. MissedInv => MissedMeansNeverConnected
    BY DEF MissedInv, MissedIsGone, MissedMeansNeverConnected
  <1> QED  BY <1>1, <1>2, <1>3, SpecTypeInv, PTL DEF Spec

===============================================================================
