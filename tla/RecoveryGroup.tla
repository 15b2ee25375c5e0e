---------------------------- MODULE RecoveryGroup -----------------------------
(* One recovery session of a hub's recovery group: services/                   *)
(* recovery-group-service.ts behind routes/recovery-group.ts.  Contributing    *)
(* and completing are transactions at PostgreSQL's default isolation, read     *)
(* committed: one reads the row, and later writes it whatever it is by then.   *)
EXTENDS Naturals, Sequences, FiniteSets

CONSTANTS
    Admins,       \* holders of a share
    Threshold,    \* shares that recover the key
    Requests      \* transactions in flight

ASSUME ConstantsAssumption == Threshold \in Nat \ {0} /\ IsFiniteSet(Admins) /\ Admins # {}

VARIABLES
    status,         \* of the session
    contributions,  \* the admins whose shares are stored, in order
    age,            \* time since its creation
    request,        \* where a transaction is, with the row it read
    accepted,       \* history: admins who were told their share was accepted
    overlap         \* history: a contribution overlapped with another transaction

vars == <<status, contributions, age, request, accepted, overlap>>

Ages == {"new", "hour", "day"}   \* EMERGENCY_OVERRIDE_MIN_MS, RECOVERY_DELAY_MS

Lists == {s \in UNION {[1..n -> Admins] : n \in 0..Cardinality(Admins)} :
             \A i, j \in DOMAIN s : s[i] = s[j] => i = j}

Idle == [pc |-> "idle", by |-> CHOOSE a \in Admins : TRUE, seen |-> <<>>]

\* The session has one of the schema's statuses, and no admin's share is stored twice although
\* the check for duplicates and the write are apart.
TypeOK ==
    /\ status \in {"pending", "ready", "completed", "expired", "cancelled"}
    /\ contributions \in Lists
    /\ age \in Ages
    /\ request \in [Requests -> [pc : {"idle", "contribute", "complete"}, by : Admins, seen : Lists]]
    /\ accepted \subseteq Admins
    /\ overlap \in BOOLEAN

\* initiateRecovery
Init ==
    /\ status = "pending"
    /\ contributions = <<>>
    /\ age = "new"
    /\ request = [r \in Requests |-> Idle]
    /\ accepted = {}
    /\ overlap = FALSE

Open == {r \in Requests : request[r].pc # "idle"}
Contributing == {r \in Requests : request[r].pc = "contribute"}
Stored(list) == {list[i] : i \in DOMAIN list}

\* Mutant of Contributes: a retry of an admin whose share is stored is not rejected.
ContributesAgain(a) == status \in {"pending", "ready"}

\* Mutant of Contributes: the status is not looked at.
ContributesAnyTime(a) == a \notin Stored(contributions)

\* contributeShare reads the row: the session is open, and this admin's share is not in it.
Contributes(a) == status \in {"pending", "ready"} /\ a \notin Stored(contributions)

AskContribute(r, a) ==
    /\ request[r].pc = "idle"
    /\ Contributes(a)
    /\ request' = [request EXCEPT ![r] = [pc |-> "contribute", by |-> a, seen |-> contributions]]
    /\ overlap' = (overlap \/ Open # {})
    /\ UNCHANGED <<status, contributions, age, accepted>>

\* Mutant of StatusOf: off by one.
StatusOfOneLess(list) == IF Len(list) + 1 >= Threshold THEN "ready" ELSE "pending"

StatusOf(list) == IF Len(list) >= Threshold THEN "ready" ELSE "pending"

\* Mutant of Contribute: the shares read are forgotten.
ContributeAlone(r) ==
    /\ request[r].pc = "contribute"
    /\ contributions' = <<request[r].by>>
    /\ status' = StatusOf(contributions')
    /\ accepted' = accepted \cup {request[r].by}
    /\ request' = [request EXCEPT ![r] = Idle]
    /\ UNCHANGED <<age, overlap>>

\* It writes all contributions and the status they make.
Contribute(r) ==
    /\ request[r].pc = "contribute"
    /\ contributions' = Append(request[r].seen, request[r].by)
    /\ status' = StatusOf(contributions')
    /\ accepted' = accepted \cup {request[r].by}
    /\ request' = [request EXCEPT ![r] = Idle]
    /\ UNCHANGED <<age, overlap>>

\* completeRecovery reads the row: it is ready, and old enough.
AskComplete(r, emergencyOverride) ==
    /\ request[r].pc = "idle"
    /\ status = "ready"
    /\ age \in (IF emergencyOverride THEN {"hour", "day"} ELSE {"day"})
    /\ request' = [request EXCEPT ![r].pc = "complete"]
    /\ overlap' = (overlap \/ Contributing # {})
    /\ UNCHANGED <<status, contributions, age, accepted>>

Complete(r) ==
    /\ request[r].pc = "complete"
    /\ status' = "completed"
    /\ request' = [request EXCEPT ![r] = Idle]
    /\ UNCHANGED <<contributions, age, accepted, overlap>>

\* The client is gone or the database fails: the transaction rolls back.
RollBack(r) ==
    /\ request[r].pc # "idle"
    /\ request' = [request EXCEPT ![r] = Idle]
    /\ UNCHANGED <<status, contributions, age, accepted, overlap>>

TimePasses ==
    /\ \/ age = "new" /\ age' = "hour"
       \/ age = "hour" /\ age' = "day"
    /\ UNCHANGED <<status, contributions, request, accepted, overlap>>

Next ==
    \/ \E r \in Requests :
         \/ \E a \in Admins : AskContribute(r, a)
         \/ \E o \in BOOLEAN : AskComplete(r, o)
         \/ Contribute(r) \/ Complete(r) \/ RollBack(r)
    \/ TimePasses

Spec == Init /\ [][Next]_vars

-------------------------------------------------------------------------------
\* A session that may be completed has a quorum of shares, of different admins, in its row,
\* whichever transactions wrote the row last.
ReadyHasQuorum == status = "ready" => Cardinality(Stored(contributions)) >= Threshold

\* A share that was accepted goes missing only when its contribution overlapped with another
\* transaction, whose write puts back the list it read.
LostShareHasACause == accepted \subseteq Stored(contributions) \/ overlap

\* The status only goes on, pending, ready, completed, unless contributions overlapped.
StatusGoesOn == [][status' # status =>
    \/ status = "pending" /\ status' = "ready"
    \/ status = "ready" /\ status' = "completed"
    \/ overlap]_vars

(* Statements the code refutes *)

\* A share that was accepted is stored.
AcceptedIsStored == accepted \subseteq Stored(contributions)
\* A completed session stays completed.
CompletedIsFinal == [][status = "completed" => status' = "completed"]_vars
===============================================================================
