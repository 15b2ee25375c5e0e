---------------------------- MODULE Conversations ----------------------------
(* Conversations with contacts by message: the webhook of messaging/router.ts, *)
(* the rows of services/conversations.ts and the claims and updates of         *)
(* routes/conversations.ts.  A contact has at most one row, by the unique      *)
(* constraint on hub, channel and contact.  Every await of a handler ends a    *)
(* step; the provider repeats a webhook until it is answered; the server may   *)
(* crash, which loses the handlers and auto-assignments in flight.             *)
EXTENDS Naturals, FiniteSets

CONSTANTS
    Contacts,      \* people who write to the hotline
    Messages,      \* what they send
    From,          \* the contact of a message
    Users,         \* users of the hub
    Eligible,      \* those on shift, active, not on a break and able to take the channel
    Coordinators,  \* those with conversations:update
    Handlers,      \* webhook requests in flight
    MaxConcurrent, \* maxConcurrentPerUser
    NoUser, NoMessage, NoContact,
    MaxFaults,     \* bound: faults, asked, lost answers and webhooks repeated too early
    MaxAsked,      \* bound: claims and updates
    Handled        \* bound: contacts whose conversations are claimed and updated

ASSUME ConstantsAssumption ==
    /\ From \in [Messages -> Contacts]
    /\ Eligible \subseteq Users /\ Coordinators \subseteq Users /\ Handled \subseteq Contacts
    /\ NoUser \notin Users /\ NoContact \notin Contacts /\ NoMessage \notin Messages
    /\ IsFiniteSet(Contacts) /\ IsFiniteSet(Messages) /\ IsFiniteSet(Handlers)
    /\ MaxConcurrent \in Nat /\ MaxFaults \in Nat /\ MaxAsked \in Nat

VARIABLES
    status,     \* status of a contact's conversation, "none" before there is one
    assignedTo, \* its user
    rows,       \* how often a message is stored
    count,      \* messageCount
    answered,   \* messages whose webhook was answered with 200
    handler,    \* where a webhook handler is, and the auto-assignment after it
    request,    \* what a user's claim or update has checked
    faults,     \* faults so far
    asked,      \* claims and updates so far
    told,       \* history: users whose claim of the conversation was answered, until it is updated
    contested,  \* history: conversations that two openings overlapped on
    byHand,     \* history: users who claimed or were given a conversation
    crowded,    \* history: two auto-assignments overlapped
    crashed,    \* history: the server crashed
    turnedAway, \* history: contacts whose auto-assignment found everybody full, or failed
    uncounted   \* history: rows of a contact whose count a crash lost

dataVars == <<status, assignedTo, rows, count>>
historyVars == <<told, contested, byHand, crowded, crashed, turnedAway, uncounted>>
vars == <<dataVars, answered, handler, request, faults, asked, historyVars>>

Statuses == {"none", "waiting", "active", "closed"}
Steps == {"idle", "find", "create", "store", "count", "answer", "loads", "settle"}
Handling == [pc : Steps, of : Messages \cup {NoMessage}, isNew : BOOLEAN, best : Users \cup {NoUser}]
Free == [pc |-> "idle", of |-> NoMessage, isNew |-> FALSE, best |-> NoUser]
Asking == [kind : {"none", "claim", "close", "unassign", "reassign"}, of : Contacts \cup {NoContact},
           to : Users \cup {NoUser}]
Nothing == [kind |-> "none", of |-> NoContact, to |-> NoUser]

TypeOK ==
    /\ status \in [Contacts -> Statuses]
    /\ assignedTo \in [Contacts -> Users \cup {NoUser}]
    /\ rows \in [Messages -> 0..(1 + MaxFaults)]
    /\ count \in [Contacts -> Nat]
    /\ answered \subseteq Messages
    /\ handler \in [Handlers -> Handling]
    /\ request \in [Users -> Asking]
    /\ faults \in 0..MaxFaults
    /\ asked \in 0..MaxAsked
    /\ crashed \in BOOLEAN
    /\ told \in [Contacts -> SUBSET Users]
    /\ contested \subseteq Contacts
    /\ byHand \subseteq Users
    /\ crowded \in BOOLEAN
    /\ turnedAway \subseteq Contacts
    /\ uncounted \in [Contacts -> Nat]

Init ==
    /\ status = [c \in Contacts |-> "none"]
    /\ assignedTo = [c \in Contacts |-> NoUser]
    /\ rows = [m \in Messages |-> 0]
    /\ count = [c \in Contacts |-> 0]
    /\ answered = {}
    /\ handler = [h \in Handlers |-> Free]
    /\ request = [u \in Users |-> Nothing]
    /\ faults = 0
    /\ asked = 0
    /\ crashed = FALSE
    /\ told = [c \in Contacts |-> {}]
    /\ contested = {}
    /\ byHand = {}
    /\ crowded = FALSE
    /\ turnedAway = {}
    /\ uncounted = [c \in Contacts |-> 0]

Contact(h) == From[handler[h].of]
GoOn(h, step) == handler' = [handler EXCEPT ![h].pc = step]

Assigning(h) == handler[h].pc \in {"loads", "settle"}
Fault == faults < MaxFaults /\ faults' = faults + 1

Sent(c) == {m \in Messages : From[m] = c}
RowsOf(c) == {row \in Sent(c) \X (1..(1 + MaxFaults)) : row[2] <= rows[row[1]]}

\* A first message from its webhook to the end of its auto-assignment, and a claim, open a
\* conversation: two of them that overlap contest it.
Opens(h, c) == handler[h].pc # "idle" /\ Contact(h) = c
                 /\ (handler[h].isNew \/ handler[h].pc = "create" \/ status[c] = "none")
Claims(u, c) == request[u].kind = "claim" /\ request[u].of = c
Contest(c) ==
    contested' = IF (\E h \in Handlers : Opens(h, c)) \/ (\E u \in Users : Claims(u, c))
                   THEN contested \cup {c} ELSE contested

-------------------------------------------------------------------------------
(* The webhook *)

\* The provider sends a message, or sends it again because there was no answer.
Deliver(h, m) ==
    /\ handler[h].pc = "idle"
    /\ m \notin answered
    /\ IF \E g \in Handlers : handler[g].of = m /\ ~Assigning(g) THEN Fault ELSE UNCHANGED faults
    /\ handler' = [handler EXCEPT ![h] = [Free EXCEPT !.pc = "find", !.of = m]]
    /\ IF status[From[m]] = "none" THEN Contest(From[m]) ELSE UNCHANGED contested
    /\ UNCHANGED <<dataVars, answered, request, asked, told, byHand, crowded, crashed, turnedAway, uncounted>>

\* findByExternalId.
Find(h) ==
    /\ handler[h].pc = "find"
    /\ GoOn(h, IF status[Contact(h)] = "none" THEN "create" ELSE "store")
    /\ UNCHANGED <<dataVars, answered, request, faults, asked, historyVars>>

\* Mutant of Create: the new conversation is not marked as new.
CreateQuietly(h) ==
    /\ handler[h].pc = "create"
    /\ status' = [status EXCEPT ![Contact(h)] = "waiting"]
    /\ GoOn(h, "store")
    /\ UNCHANGED <<assignedTo, rows, count, answered, request, faults, asked, historyVars>>

\* Mutant of Create: the message that opens the conversation is not stored in it.
CreateEmpty(h) ==
    /\ handler[h].pc = "create"
    /\ status' = [status EXCEPT ![Contact(h)] = "waiting"]
    /\ handler' = [handler EXCEPT ![h].pc = "answer", ![h].isNew = TRUE]
    /\ UNCHANGED <<assignedTo, rows, count, answered, request, faults, asked, historyVars>>

\* createConversation inserts a waiting row, or sets the status of the one there is by now.
Create(h) ==
    /\ handler[h].pc = "create"
    /\ status' = [status EXCEPT ![Contact(h)] = "waiting"]
    /\ handler' = [handler EXCEPT ![h].pc = "store", ![h].isNew = TRUE]
    /\ UNCHANGED <<assignedTo, rows, count, answered, request, faults, asked, historyVars>>

\* addMessage inserts the message ...
Store(h) ==
    /\ handler[h].pc = "store"
    /\ rows' = [rows EXCEPT ![handler[h].of] = @ + 1]
    /\ GoOn(h, "count")
    /\ UNCHANGED <<status, assignedTo, count, answered, request, faults, asked, historyVars>>

\* Mutant of Count: the count is set to the number of rows instead of incremented.
CountRows(h) ==
    /\ handler[h].pc = "count"
    /\ count' = [count EXCEPT ![Contact(h)] = Cardinality(RowsOf(Contact(h)))]
    /\ GoOn(h, "answer")
    /\ UNCHANGED <<status, assignedTo, rows, answered, request, faults, asked, historyVars>>

\* ... and then increments the conversation's count.
Count(h) ==
    /\ handler[h].pc = "count"
    /\ count' = [count EXCEPT ![Contact(h)] = @ + 1]
    /\ GoOn(h, "answer")
    /\ UNCHANGED <<status, assignedTo, rows, answered, request, faults, asked, historyVars>>

\* The webhook is answered; a new conversation is auto-assigned in the background.
Finish(h) ==
    IF handler[h].isNew
      THEN /\ GoOn(h, "loads")
           /\ crowded' = (crowded \/ \E g \in Handlers : Assigning(g))
      ELSE /\ handler' = [handler EXCEPT ![h] = Free]
           /\ UNCHANGED crowded

Answer(h) ==
    /\ handler[h].pc = "answer"
    /\ answered' = answered \cup {handler[h].of}
    /\ Finish(h)
    /\ UNCHANGED <<dataVars, request, faults, asked, told, contested, byHand, crashed, turnedAway, uncounted>>

\* The answer does not reach the provider, which repeats the webhook.
LoseAnswer(h) ==
    /\ handler[h].pc = "answer"
    /\ Fault
    /\ Finish(h)
    /\ UNCHANGED <<dataVars, answered, request, asked, told, contested, byHand, crashed, turnedAway, uncounted>>

Load(u) == Cardinality({c \in Contacts : status[c] = "active" /\ assignedTo[c] = u})
\* Mutant of Open: one too many.
OpenAtMaximum == {u \in Eligible : Load(u) <= MaxConcurrent}

Open == {u \in Eligible : Load(u) < MaxConcurrent}
LeastLoaded == {u \in Open : \A v \in Open : Load(u) <= Load(v)}

\* tryAutoAssign, which is switched on, counts the loads and picks a least loaded user below
\* the maximum, if there is one.  Its queries, one step here, and its write may throw,
\* which it only logs ...
CountLoads(h) ==
    /\ handler[h].pc = "loads"
    /\ \/ /\ (LeastLoaded = {} /\ UNCHANGED faults) \/ Fault
          /\ turnedAway' = turnedAway \cup {Contact(h)}
          /\ handler' = [handler EXCEPT ![h] = Free]
       \/ /\ \E u \in LeastLoaded : handler' = [handler EXCEPT ![h].pc = "settle", ![h].best = u]
          /\ UNCHANGED <<turnedAway, faults>>
    /\ UNCHANGED <<dataVars, answered, request, asked, told, contested, byHand, crowded, crashed, uncounted>>

\* ... and writes, whatever has become of the conversation.
AutoAssign(h) ==
    /\ handler[h].pc = "settle"
    /\ status' = [status EXCEPT ![Contact(h)] = "active"]
    /\ assignedTo' = [assignedTo EXCEPT ![Contact(h)] = handler[h].best]
    /\ handler' = [handler EXCEPT ![h] = Free]
    /\ UNCHANGED <<rows, count, answered, request, faults, asked, historyVars>>

\* The server crashes: handlers and auto-assignments are gone, what is stored stays.
Crash ==
    /\ Fault
    /\ \E h \in Handlers : handler[h].pc # "idle"
    /\ crashed' = TRUE
    /\ uncounted' = [c \in Contacts |->
         uncounted[c] + Cardinality({h \in Handlers : handler[h].pc = "count" /\ Contact(h) = c})]
    /\ handler' = [h \in Handlers |-> Free]
    /\ request' = [u \in Users |-> Nothing]
    /\ UNCHANGED <<dataVars, answered, asked, told, contested, byHand, crowded, turnedAway>>

-------------------------------------------------------------------------------
(* Claims and updates *)

Ask(u, kind, c, v) ==
    /\ request[u] = Nothing
    /\ asked < MaxAsked
    /\ asked' = asked + 1
    /\ request' = [request EXCEPT ![u] = [kind |-> kind, of |-> c, to |-> v]]
    /\ UNCHANGED <<dataVars, answered, handler, faults, told, byHand, crowded, crashed, turnedAway, uncounted>>

\* Mutant of AskClaim: any conversation may be claimed.
AskClaimOfAny(u, c) ==
    /\ status[c] # "none"
    /\ Ask(u, "claim", c, u)
    /\ Contest(c)

\* POST /{id}/claim: the conversation must be waiting ...
AskClaim(u, c) ==
    /\ status[c] = "waiting"
    /\ Ask(u, "claim", c, u)
    /\ Contest(c)

\* ... when it is read.
Claim(u) ==
    /\ request[u].kind = "claim"
    /\ LET c == request[u].of IN
         /\ status' = [status EXCEPT ![c] = "active"]
         /\ assignedTo' = [assignedTo EXCEPT ![c] = u]
         /\ told' = [told EXCEPT ![c] = @ \cup {u}]
    /\ byHand' = byHand \cup {u}
    /\ request' = [request EXCEPT ![u] = Nothing]
    /\ UNCHANGED <<rows, count, answered, handler, faults, asked, contested, crowded, crashed, turnedAway, uncounted>>

\* PATCH /{id}: by a coordinator, or by the user it is assigned to when it is read.
MayUpdate(u, c) == status[c] # "none" /\ (u \in Coordinators \/ assignedTo[c] = u)

AskUpdate(u, kind, c, v) ==
    /\ MayUpdate(u, c)
    /\ kind \in {"close", "unassign"} => v = NoUser
    /\ kind = "reassign" => v \in Users \ {assignedTo[c]}
    /\ Ask(u, kind, c, v)
    /\ UNCHANGED contested

\* Mutant of Update: an unassigned conversation gets a status nobody knows.
UpdateToOpen(u) ==
    /\ request[u].kind = "unassign"
    /\ status' = [status EXCEPT ![request[u].of] = "open"]
    /\ told' = [told EXCEPT ![request[u].of] = {}]
    /\ request' = [request EXCEPT ![u] = Nothing]
    /\ UNCHANGED <<assignedTo, rows, count, answered, handler, faults, asked, contested, byHand, crowded, crashed,
                   turnedAway, uncounted>>

\* The client sends one field: closed, waiting (it keeps its user), or another user (it
\* keeps its status).
Update(u) ==
    /\ request[u].kind \in {"close", "unassign", "reassign"}
    /\ LET r == request[u]
       IN  /\ \/ r.kind = "close" /\ status' = [status EXCEPT ![r.of] = "closed"] /\ UNCHANGED assignedTo
              \/ r.kind = "unassign" /\ status' = [status EXCEPT ![r.of] = "waiting"] /\ UNCHANGED assignedTo
              \/ r.kind = "reassign" /\ assignedTo' = [assignedTo EXCEPT ![r.of] = r.to] /\ UNCHANGED status
           /\ told' = [told EXCEPT ![r.of] = {}]
           /\ byHand' = byHand \cup ({r.to} \ {NoUser})
    /\ request' = [request EXCEPT ![u] = Nothing]
    /\ UNCHANGED <<rows, count, answered, handler, faults, asked, contested, crowded, crashed, turnedAway, uncounted>>

-------------------------------------------------------------------------------

Webhook(h) ==
    \/ Find(h) \/ Create(h) \/ Store(h) \/ Count(h) \/ Answer(h) \/ LoseAnswer(h)
    \/ CountLoads(h) \/ AutoAssign(h)

Next ==
    \/ \E h \in Handlers, m \in Messages : Deliver(h, m)
    \/ \E h \in Handlers : Webhook(h)
    \/ Crash
    \/ \E u \in Users, c \in Handled : AskClaim(u, c)
    \/ \E u \in Users, c \in Handled, kind \in {"close", "unassign", "reassign"}, v \in Users \cup {NoUser} :
         AskUpdate(u, kind, c, v)
    \/ \E u \in Users : Claim(u) \/ Update(u)

Spec == Init /\ [][Next]_vars

\* A handler runs to its end, and the provider repeats what is not answered.
Fairness ==
    /\ \A h \in Handlers : WF_vars(Webhook(h))
    /\ \A m \in Messages : WF_vars(\E h \in Handlers : Deliver(h, m))

FairSpec == Spec /\ Fairness

-------------------------------------------------------------------------------
(* Properties of the code *)

Uncounting(c) == {h \in Handlers : handler[h].pc = "count" /\ Contact(h) = c}

\* messageCount is exact, but for the messages being counted and those a crash came
\* in between: concurrent handlers never lose an increment.
CountIsExact ==
    \A c \in Contacts :
      count[c] + Cardinality(Uncounting(c)) + uncounted[c] = Cardinality(RowsOf(c))

\* A user who was told that the claim succeeded has the conversation until it is
\* updated, unless another claim or first message overlapped with the claim.
ClaimHolds ==
    \A c \in Contacts : \A u \in told[c] :
      (status[c] = "active" /\ assignedTo[c] = u) \/ c \in contested

\* Auto-assignment alone never takes a user over maxConcurrentPerUser, unless two of
\* them ran at the same time.
OverloadHasACause ==
    \A u \in Users : Load(u) > MaxConcurrent => u \in byHand \/ crowded

\* What a contact sends is stored in the end, although answers are lost and the server crashes.
EveryMessageIsStored == \A m \in Messages : <>(rows[m] > 0)

\* A first message finds a user by itself: in the end the conversation has one, unless it
\* is closed, a crash interrupted, everybody was at the maximum when it came, or its
\* auto-assignment failed.
NewConversationIsOffered ==
    \A c \in Contacts :
      status[c] = "waiting" ~> assignedTo[c] # NoUser \/ status[c] = "closed" \/ crashed \/ c \in turnedAway

-------------------------------------------------------------------------------
(* Statements about the code that the code refutes *)

\* shared/types.ts: maxConcurrentPerUser is the conversation limit per user.
LoadIsLimited == \A u \in Users : Load(u) <= MaxConcurrent

\* A message to a conversation finds it open, or opens it again.
MessageReopens ==
    [][\A h \in Handlers : Count(h) => status[Contact(h)] # "closed"]_vars
===============================================================================
