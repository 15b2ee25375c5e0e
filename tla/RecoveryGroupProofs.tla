-------------------------- MODULE RecoveryGroupProofs --------------------------
(* The properties of RecoveryGroup for any admins, threshold and number of      *)
(* transactions.  Counting the shares of a quorum rests on lists that repeat    *)
(* nobody; what holds without overlapping transactions rests on a contribution  *)
(* in flight being the only transaction, so that the row still is what it read. *)
EXTENDS RecoveryGroup, FiniteSetTheorems, FunctionTheorems, TLAPS

\* A contribution in flight adds an admin to a list without that admin.
SharesAreNew == \A r \in Contributing : request[r].by \notin Stored(request[r].seen)

\* Without an overlap a contribution in flight is alone, and the row is as it read it.
ContributionsAreAlone ==
    \/ overlap
    \/ \A r \in Contributing : /\ Open = {r}
                               /\ request[r].seen = contributions
                               /\ status \in {"pending", "ready"}

\* Without an overlap a completion in flight is of a session that is ready or, by another
\* completion, completed.
CompletionsAreDue ==
    \/ overlap
    \/ \A r \in Open \ Contributing : status \in {"ready", "completed"}

IInv ==
    /\ TypeOK
    /\ SharesAreNew
    /\ ReadyHasQuorum
    /\ ContributionsAreAlone
    /\ CompletionsAreDue
    /\ LostShareHasACause

-------------------------------------------------------------------------------
(* Lists of admins that repeat nobody *)

LEMMA ListIsSeq ==
    ASSUME NEW list \in Lists
    PROVE  /\ list \in Seq(Admins)
           /\ Len(list) \in 0..Cardinality(Admins)
           /\ list \in [1..Len(list) -> Admins]
           /\ \A i, j \in 1..Len(list) : list[i] = list[j] => i = j
<1>1. PICK n \in 0..Cardinality(Admins) : list \in [1..n -> Admins]
  BY DEF Lists
<1>2. n \in Nat
  BY <1>1, ConstantsAssumption, FS_CardinalityType
<1>3. list \in Seq(Admins) /\ Len(list) = n
  BY <1>1, <1>2
<1> QED
  BY <1>1, <1>2, <1>3 DEF Lists

LEMMA ListSize ==
    ASSUME NEW list \in Lists
    PROVE  /\ IsFiniteSet(Stored(list))
           /\ Cardinality(Stored(list)) = Len(list)
           /\ Stored(list) \subseteq Admins
<1>1. list \in [1..Len(list) -> Admins] /\ Len(list) \in Nat
  BY ListIsSeq, ConstantsAssumption, FS_CardinalityType
<1>2. DOMAIN list = 1..Len(list)
  BY <1>1
<1>3. Stored(list) \subseteq Admins
  BY <1>1, <1>2 DEF Stored
<1>4. list \in Bijection(1..Len(list), Stored(list))
  <2>1. list \in [1..Len(list) -> Stored(list)]
    BY <1>1, <1>2 DEF Stored
  <2>2. \A a \in Stored(list) : \E i \in 1..Len(list) : list[i] = a
    BY <1>2 DEF Stored
  <2>3. \A i, j \in 1..Len(list) : list[i] = list[j] => i = j
    BY ListIsSeq
  <2> QED
    BY <2>1, <2>2, <2>3, Fun_IsBij
<1>5. ExistsBijection(1..Len(list), Stored(list))
  BY <1>4 DEF ExistsBijection
<1>6. IsFiniteSet(Stored(list))
  BY <1>3, ConstantsAssumption, FS_Subset
<1> QED
  BY <1>1, <1>3, <1>5, <1>6, FS_CountingElements

LEMMA AppendToList ==
    ASSUME NEW list \in Lists, NEW a \in Admins, a \notin Stored(list)
    PROVE  /\ Append(list, a) \in Lists
           /\ Stored(Append(list, a)) = Stored(list) \cup {a}
           /\ Len(Append(list, a)) = Len(list) + 1
<1> DEFINE longer == Append(list, a)
<1>1. /\ list \in Seq(Admins) /\ Len(list) \in Nat
      /\ list \in [1..Len(list) -> Admins]
      /\ \A i, j \in 1..Len(list) : list[i] = list[j] => i = j
  BY ListIsSeq, ConstantsAssumption, FS_CardinalityType
<1>2. /\ longer \in Seq(Admins) /\ Len(longer) = Len(list) + 1
      /\ DOMAIN longer = 1..(Len(list) + 1)
      /\ longer[Len(list) + 1] = a
      /\ \A i \in 1..Len(list) : longer[i] = list[i]
  BY <1>1
<1>3. Stored(longer) = Stored(list) \cup {a}
  <2>1. DOMAIN list = 1..Len(list)
    BY <1>1
  <2>2. 1..(Len(list) + 1) = (1..Len(list)) \cup {Len(list) + 1}
    BY <1>1
  <2> QED
    BY <1>2, <2>1, <2>2 DEF Stored
<1>4. Len(list) + 1 \in 0..Cardinality(Admins)
  <2>1. /\ IsFiniteSet(Stored(list)) /\ Cardinality(Stored(list)) = Len(list)
        /\ Stored(list) \cup {a} \subseteq Admins
    BY ListSize
  <2>2. Cardinality(Stored(list) \cup {a}) = Len(list) + 1
    BY <2>1, FS_AddElement
  <2>3. Cardinality(Stored(list) \cup {a}) <= Cardinality(Admins)
    BY <2>1, ConstantsAssumption, FS_Subset
  <2> QED
    BY <1>1, <2>2, <2>3, ConstantsAssumption, FS_CardinalityType
<1>5. \A i, j \in DOMAIN longer : longer[i] = longer[j] => i = j
  <2> SUFFICES ASSUME NEW i \in 1..(Len(list) + 1), NEW j \in 1..(Len(list) + 1),
                      longer[i] = longer[j]
               PROVE  i = j
    BY <1>2
  <2>1. \A k \in 1..Len(list) : longer[k] # a
    BY <1>1, <1>2 DEF Stored
  <2>2. CASE i \in 1..Len(list) /\ j \in 1..Len(list)
    BY <1>1, <1>2, <2>2
  <2>3. CASE i = Len(list) + 1
    BY <1>1, <1>2, <2>1, <2>3
  <2>4. CASE j = Len(list) + 1
    BY <1>1, <1>2, <2>1, <2>4
  <2> QED
    BY <1>1, <2>2, <2>3, <2>4
<1>6. longer \in [1..(Len(list) + 1) -> Admins]
  <2>1. longer \in [1..Len(longer) -> Admins]
    <3> HIDE DEF longer
    <3> QED BY <1>2
  <2> QED
    BY <1>2, <2>1
<1> QED
  BY <1>2, <1>3, <1>4, <1>5, <1>6 DEF Lists

-------------------------------------------------------------------------------
(* Transactions *)

LEMMA RequestFields ==
    /\ Idle.pc = "idle" /\ Idle.by \in Admins /\ Idle.seen \in Lists
    /\ Idle \in [pc : {"idle", "contribute", "complete"}, by : Admins, seen : Lists]
    /\ \A a \in Admins, list \in Lists :
         [pc |-> "contribute", by |-> a, seen |-> list]
            \in [pc : {"idle", "contribute", "complete"}, by : Admins, seen : Lists]
<1>1. (CHOOSE a \in Admins : TRUE) \in Admins
  BY ConstantsAssumption
<1>2. <<>> \in Lists
  <2>1. <<>> \in [1..0 -> Admins] /\ DOMAIN <<>> = {}
    OBVIOUS
  <2>2. 0 \in 0..Cardinality(Admins)
    BY ConstantsAssumption, FS_CardinalityType
  <2> QED
    BY <2>1, <2>2 DEF Lists
<1> QED
  BY <1>1, <1>2 DEF Idle

LEMMA InitHolds == Init => IInv
<1> SUFFICES ASSUME Init PROVE IInv
  OBVIOUS
<1>1. TypeOK
  BY RequestFields DEF Init, TypeOK, Ages, Idle
<1>2. Open = {} /\ Contributing = {}
  BY RequestFields DEF Init, Open, Contributing
<1> QED
  BY <1>1, <1>2 DEF Init, IInv, SharesAreNew, ReadyHasQuorum, ContributionsAreAlone,
                    CompletionsAreDue, LostShareHasACause

\* A transaction that ends leaves the others as they were.
LEMMA Ending ==
    ASSUME TypeOK, NEW r \in Requests, request' = [request EXCEPT ![r] = Idle]
    PROVE  /\ request' \in [Requests -> [pc : {"idle", "contribute", "complete"}, by : Admins,
                                         seen : Lists]]
           /\ Open' = Open \ {r}
           /\ Contributing' = Contributing \ {r}
           /\ \A q \in Open' : request'[q] = request[q]
BY RequestFields DEF TypeOK, Open, Contributing

LEMMA AskContributeHolds ==
    ASSUME IInv, NEW r \in Requests, NEW a \in Admins, AskContribute(r, a) PROVE IInv'
<1> DEFINE new == [pc |-> "contribute", by |-> a, seen |-> contributions]
<1>1. /\ request[r].pc = "idle" /\ request' = [request EXCEPT ![r] = new]
      /\ overlap' = (overlap \/ Open # {})
      /\ UNCHANGED <<status, contributions, age, accepted>>
      /\ status \in {"pending", "ready"} /\ a \notin Stored(contributions)
  BY DEF AskContribute, Contributes
<1>2. new.pc = "contribute" /\ new.by = a /\ new.seen = contributions
  OBVIOUS
<1>3. new \in [pc : {"idle", "contribute", "complete"}, by : Admins, seen : Lists]
  BY RequestFields DEF IInv, TypeOK
<1> HIDE DEF new
<1>4. TypeOK'
  BY <1>1, <1>3 DEF IInv, TypeOK
<1>5. /\ Open' = Open \cup {r} /\ Contributing' = Contributing \cup {r} /\ r \notin Open
      /\ \A q \in Open : request'[q] = request[q]
      /\ request'[r] = new
  BY <1>1, <1>2 DEF IInv, TypeOK, Open, Contributing
<1>6. Contributing \subseteq Open
  BY DEF Contributing, Open
<1>7. SharesAreNew'
  BY <1>1, <1>2, <1>5, <1>6 DEF IInv, SharesAreNew
<1>8. ContributionsAreAlone' /\ CompletionsAreDue'
  BY <1>1, <1>2, <1>5, <1>6 DEF IInv, ContributionsAreAlone, CompletionsAreDue
<1>9. ReadyHasQuorum' /\ LostShareHasACause'
  BY <1>1 DEF IInv, ReadyHasQuorum, LostShareHasACause, Stored
<1> QED
  BY <1>4, <1>7, <1>8, <1>9 DEF IInv

LEMMA AskCompleteHolds ==
    ASSUME IInv, NEW r \in Requests, NEW o \in BOOLEAN, AskComplete(r, o) PROVE IInv'
<1>1. /\ request[r].pc = "idle" /\ request' = [request EXCEPT ![r].pc = "complete"]
      /\ overlap' = (overlap \/ Contributing # {})
      /\ status = "ready"
      /\ UNCHANGED <<status, contributions, age, accepted>>
  BY DEF AskComplete
<1>2. TypeOK'
  BY <1>1 DEF IInv, TypeOK
<1>3. /\ Open' = Open \cup {r} /\ Contributing' = Contributing /\ r \notin Contributing
      /\ \A q \in Contributing : request'[q] = request[q]
  BY <1>1 DEF IInv, TypeOK, Open, Contributing
<1>4. SharesAreNew'
  BY <1>1, <1>3 DEF IInv, SharesAreNew
<1>5. ContributionsAreAlone' /\ CompletionsAreDue'
  BY <1>1, <1>3 DEF IInv, ContributionsAreAlone, CompletionsAreDue
<1>6. ReadyHasQuorum' /\ LostShareHasACause'
  BY <1>1 DEF IInv, ReadyHasQuorum, LostShareHasACause, Stored
<1> QED
  BY <1>2, <1>4, <1>5, <1>6 DEF IInv

\* What a contribution writes is a list with its share, and the status that goes with it.
LEMMA Written ==
    ASSUME IInv, NEW r \in Requests, Contribute(r)
    PROVE  /\ contributions' \in Lists
           /\ Stored(contributions)' = Stored(request[r].seen) \cup {request[r].by}
           /\ Cardinality(Stored(contributions)') = Len(request[r].seen) + 1
           /\ Len(request[r].seen) = Cardinality(Stored(request[r].seen))
           /\ Len(request[r].seen) \in Nat
           /\ status' = IF Len(request[r].seen) + 1 >= Threshold THEN "ready" ELSE "pending"
<1> DEFINE list == request[r].seen
<1>1. list \in Lists /\ request[r].by \in Admins
  BY DEF IInv, TypeOK
<1>2. request[r].by \notin Stored(list)
  BY DEF IInv, SharesAreNew, Contributing, Contribute
<1>3. contributions' = Append(list, request[r].by) /\ status' = StatusOf(contributions')
  BY DEF Contribute
<1> HIDE DEF list
<1>4. /\ contributions' \in Lists
      /\ Stored(contributions') = Stored(list) \cup {request[r].by}
      /\ Len(contributions') = Len(list) + 1
  BY <1>1, <1>2, <1>3, AppendToList
<1>5. Cardinality(Stored(contributions')) = Len(list) + 1 /\ Cardinality(Stored(list)) = Len(list)
  BY <1>1, <1>4, ListSize
<1>6. Stored(contributions)' = Stored(contributions')
  BY DEF Stored
<1>7. Len(list) \in Nat
  BY <1>1, ListIsSeq, ConstantsAssumption, FS_CardinalityType
<1> QED
  BY <1>3, <1>4, <1>5, <1>6, <1>7 DEF StatusOf, list

LEMMA ContributeHolds ==
    ASSUME IInv, NEW r \in Requests, Contribute(r) PROVE IInv'
<1>1. /\ request[r].pc = "contribute" /\ request' = [request EXCEPT ![r] = Idle]
      /\ accepted' = accepted \cup {request[r].by}
      /\ UNCHANGED <<age, overlap>>
  BY DEF Contribute
<1>2. /\ contributions' \in Lists
      /\ Stored(contributions)' = Stored(request[r].seen) \cup {request[r].by}
      /\ Cardinality(Stored(contributions)') = Len(request[r].seen) + 1
      /\ status' = IF Len(request[r].seen) + 1 >= Threshold THEN "ready" ELSE "pending"
  BY Written
<1>3. /\ request' \in [Requests -> [pc : {"idle", "contribute", "complete"}, by : Admins,
                                    seen : Lists]]
      /\ Open' = Open \ {r} /\ Contributing' = Contributing \ {r}
      /\ \A q \in Open' : request'[q] = request[q]
  BY <1>1, Ending DEF IInv
<1>4. Contributing \subseteq Open /\ r \in Contributing
  BY <1>1 DEF Contributing, Open
<1>5. TypeOK'
  BY <1>1, <1>2, <1>3 DEF IInv, TypeOK
<1>6. SharesAreNew'
  BY <1>3, <1>4 DEF IInv, SharesAreNew
<1>7. ReadyHasQuorum'
  BY <1>2 DEF ReadyHasQuorum
<1>8. overlap \/ (Open' = {} /\ request[r].seen = contributions)
  BY <1>3, <1>4 DEF IInv, ContributionsAreAlone
<1>9. ContributionsAreAlone' /\ CompletionsAreDue'
  BY <1>1, <1>3, <1>4, <1>8 DEF ContributionsAreAlone, CompletionsAreDue
<1>10. LostShareHasACause'
  BY <1>1, <1>2, <1>8 DEF IInv, LostShareHasACause
<1> QED
  BY <1>5, <1>6, <1>7, <1>9, <1>10 DEF IInv

LEMMA CompleteHolds ==
    ASSUME IInv, NEW r \in Requests, Complete(r) PROVE IInv'
<1>1. /\ request[r].pc = "complete" /\ request' = [request EXCEPT ![r] = Idle]
      /\ status' = "completed"
      /\ UNCHANGED <<contributions, age, accepted, overlap>>
  BY DEF Complete
<1>2. /\ request' \in [Requests -> [pc : {"idle", "contribute", "complete"}, by : Admins,
                                    seen : Lists]]
      /\ Open' = Open \ {r} /\ Contributing' = Contributing \ {r}
      /\ \A q \in Open' : request'[q] = request[q]
  BY <1>1, Ending DEF IInv
<1>3. Contributing \subseteq Open /\ r \in Open \ Contributing
  BY <1>1 DEF Contributing, Open
<1>4. TypeOK'
  BY <1>1, <1>2 DEF IInv, TypeOK
<1>5. SharesAreNew' /\ ReadyHasQuorum' /\ LostShareHasACause'
  BY <1>1, <1>2, <1>3 DEF IInv, SharesAreNew, ReadyHasQuorum, LostShareHasACause, Stored
<1>6. overlap \/ Contributing = {}
  BY <1>3 DEF IInv, ContributionsAreAlone
<1>7. ContributionsAreAlone' /\ CompletionsAreDue'
  BY <1>1, <1>2, <1>6 DEF ContributionsAreAlone, CompletionsAreDue
<1> QED
  BY <1>4, <1>5, <1>7 DEF IInv

LEMMA RollBackHolds ==
    ASSUME IInv, NEW r \in Requests, RollBack(r) PROVE IInv'
<1>1. /\ request' = [request EXCEPT ![r] = Idle]
      /\ UNCHANGED <<status, contributions, age, accepted, overlap>>
  BY DEF RollBack
<1>2. /\ request' \in [Requests -> [pc : {"idle", "contribute", "complete"}, by : Admins,
                                    seen : Lists]]
      /\ Open' = Open \ {r} /\ Contributing' = Contributing \ {r}
      /\ \A q \in Open' : request'[q] = request[q]
  BY <1>1, Ending DEF IInv
<1>3. Contributing \subseteq Open
  BY DEF Contributing, Open
<1>4. TypeOK'
  BY <1>1, <1>2 DEF IInv, TypeOK
<1>5. SharesAreNew' /\ ReadyHasQuorum' /\ LostShareHasACause'
  BY <1>1, <1>2, <1>3 DEF IInv, SharesAreNew, ReadyHasQuorum, LostShareHasACause, Stored
<1>6. ContributionsAreAlone' /\ CompletionsAreDue'
  BY <1>1, <1>2, <1>3 DEF IInv, ContributionsAreAlone, CompletionsAreDue
<1> QED
  BY <1>4, <1>5, <1>6 DEF IInv

LEMMA OthersHold ==
    ASSUME IInv, TimePasses \/ UNCHANGED vars PROVE IInv'
<1>1. UNCHANGED <<status, contributions, request, accepted, overlap>> /\ age' \in Ages
  BY DEF TimePasses, vars, IInv, TypeOK, Ages
<1>2. Open' = Open /\ Contributing' = Contributing /\ Stored(contributions)' = Stored(contributions)
  BY <1>1 DEF Open, Contributing, Stored
<1> QED
  BY <1>1, <1>2 DEF IInv, TypeOK, SharesAreNew, ReadyHasQuorum, LostShareHasACause,
                    ContributionsAreAlone, CompletionsAreDue

LEMMA StepHolds == IInv /\ [Next]_vars => IInv'
<1> SUFFICES ASSUME IInv, [Next]_vars PROVE IInv'
  OBVIOUS
<1>1. ASSUME NEW r \in Requests, NEW a \in Admins, AskContribute(r, a) PROVE IInv'
  BY <1>1, AskContributeHolds
<1>2. ASSUME NEW r \in Requests, NEW o \in BOOLEAN, AskComplete(r, o) PROVE IInv'
  BY <1>2, AskCompleteHolds
<1>3. ASSUME NEW r \in Requests, Contribute(r) PROVE IInv'
  BY <1>3, ContributeHolds
<1>4. ASSUME NEW r \in Requests, Complete(r) PROVE IInv'
  BY <1>4, CompleteHolds
<1>5. ASSUME NEW r \in Requests, RollBack(r) PROVE IInv'
  BY <1>5, RollBackHolds
<1> QED
  BY <1>1, <1>2, <1>3, <1>4, <1>5, OthersHold DEF Next

LEMMA Inductive == Spec => []IInv
BY InitHolds, StepHolds, PTL DEF Spec

-------------------------------------------------------------------------------

\* The session and its transactions have their types, however contributeShare and
\* completeRecovery overlap (services/recovery-group-service.ts).
THEOREM RecoveryTypes == Spec => []TypeOK
<1>1. IInv => TypeOK
  BY DEF IInv
<1> QED
  BY <1>1, Inductive, PTL

\* A session that may be completed has the shares of Threshold different admins in its row: the
\* status is written in the transaction that wrote the shares it was computed from.
THEOREM ReadySessionsHaveAQuorum == Spec => []ReadyHasQuorum
<1>1. IInv => ReadyHasQuorum
  BY DEF IInv
<1> QED
  BY <1>1, Inductive, PTL

\* A share whose contributeShare was answered goes missing only after a contribution that
\* overlapped with another transaction and wrote its older list over it.
THEOREM AcceptedSharesStay == Spec => []LostShareHasACause
<1>1. IInv => LostShareHasACause
  BY DEF IInv
<1> QED
  BY <1>1, Inductive, PTL

\* While no transactions on the session overlap it goes from pending to ready to completed, and
\* never back.
THEOREM StatusOnlyGoesOn == Spec => StatusGoesOn
<1> DEFINE Forth == status' # status =>
                      \/ status = "pending" /\ status' = "ready"
                      \/ status = "ready" /\ status' = "completed"
                      \/ overlap
<1>1. ASSUME IInv, [Next]_vars PROVE Forth
  <2>1. ASSUME NEW r \in Requests, Contribute(r) PROVE Forth
    <3>1. r \in Contributing
      BY <2>1 DEF Contribute, Contributing
    <3>2. overlap \/ (request[r].seen = contributions /\ status \in {"pending", "ready"})
      BY <1>1, <3>1 DEF IInv, ContributionsAreAlone
    <3>3. /\ Len(request[r].seen) = Cardinality(Stored(request[r].seen))
          /\ Len(request[r].seen) \in Nat
          /\ status' = IF Len(request[r].seen) + 1 >= Threshold THEN "ready" ELSE "pending"
      BY <1>1, <2>1, Written
    <3>4. status = "ready" => Cardinality(Stored(contributions)) >= Threshold
      BY <1>1 DEF IInv, ReadyHasQuorum
    <3>5. Threshold \in Nat
      BY ConstantsAssumption
    <3> QED
      BY <3>2, <3>3, <3>4, <3>5
  <2>2. ASSUME NEW r \in Requests, Complete(r) PROVE Forth
    <3>1. r \in Open \ Contributing /\ status' = "completed"
      BY <2>2 DEF Complete, Open, Contributing
    <3> QED
      BY <1>1, <3>1 DEF IInv, CompletionsAreDue
  <2>3. ASSUME NEW r \in Requests, NEW a \in Admins, AskContribute(r, a) PROVE Forth
    BY <2>3 DEF AskContribute
  <2>4. ASSUME NEW r \in Requests, NEW o \in BOOLEAN, AskComplete(r, o) PROVE Forth
    BY <2>4 DEF AskComplete
  <2>5. ASSUME NEW r \in Requests, RollBack(r) PROVE Forth
    BY <2>5 DEF RollBack
  <2>6. CASE TimePasses \/ UNCHANGED vars
    BY <2>6 DEF TimePasses, vars
  <2> QED
    BY <1>1, <2>1, <2>2, <2>3, <2>4, <2>5, <2>6 DEF Next
<1>2. IInv /\ [Next]_vars => [Forth]_vars
  BY <1>1
<1>3. Spec => [][Forth]_vars
  BY <1>2, Inductive, PTL DEF Spec
<1> QED
  BY <1>3 DEF StatusGoesOn
===============================================================================
