-------------------------- MODULE AuditChainProofs ----------------------------
(* The chain of AuditChain never forks, for any signers, clocks and bound,    *)
(* and while the clocks agree the head by time is its end.  The inductive     *)
(* invariant says more than NoFork: entry i follows entry i - 1, because the  *)
(* only hash an insert may still follow is that of the last row.  On it rests *)
(* a second invariant, of the viewers: what a cache says is what the chain up *)
(* to its entry says, and a verification fails only for a reason.             *)
EXTENDS AuditChain, WellFoundedInduction, FiniteSetTheorems, TLAPS

InFlight(s) == pc[s] \in {"sent", "checked"}

\* Row i follows row i - 1, and what is being appended follows some row.
Linked ==
    /\ \A i \in DOMAIN rows : rows[i].prev = i - 1
    /\ \A s \in Signers :
         draft[s].prev <= Len(rows)

\* With one offset for all clocks: nothing is dated after now, and an entry is
\* dated after the one it follows.
Dated ==
    ClocksAgree =>
      /\ \A i, j \in DOMAIN rows : i < j => rows[i].at < rows[j].at
      /\ \A s \in Signers :
           /\ \A i \in DOMAIN rows : rows[i].at <= clock + skew[s]
           /\ InFlight(s) => /\ draft[s].at <= clock + skew[s]
                             /\ draft[s].prev > 0 => rows[draft[s].prev].at < draft[s].at

IInv == AppendTypeOK /\ Linked /\ Dated

-------------------------------------------------------------------------------

LEMMA RowsAreEntries ==
    ASSUME rows \in Seq(Entry)
    PROVE  \A i \in DOMAIN rows : rows[i] \in Entry /\ rows[i].at \in Nat
<1>1. \A i \in DOMAIN rows : rows[i] \in Entry
  OBVIOUS
<1> QED
  BY <1>1 DEF Entry

LEMMA EntryFields ==
    /\ \A e \in Entry : e.prev \in Nat /\ e.at \in Nat
    /\ \A e \in Entry, n \in Nat : [e EXCEPT !.prev = n] \in Entry
    /\ \A e \in Entry, n \in Nat, payload \in Payloads :
         [e EXCEPT !.at = n, !.payload = payload] \in Entry
    /\ \A s \in Signers : NoDraft(s) \in Entry
BY DEF Entry, NoDraft

LEMMA HeadsAreRows == ASSUME AppendTypeOK PROVE Heads \subseteq 0..Len(rows)
BY DEF AppendTypeOK, Heads

LEMMA InitHolds == Init => IInv
BY SignersAssumption DEF Init, IInv, AppendTypeOK, Linked, Dated, InFlight, Entry, NoDraft

LEMMA FetchHolds ==
    ASSUME IInv, NEW s \in Signers, FetchHead(s) PROVE IInv'
<1>1. PICK h \in Heads : draft' = [draft EXCEPT ![s].prev = h]
  BY DEF FetchHead
<1>2. h \in 0..Len(rows)
  BY HeadsAreRows DEF IInv
<1>3. /\ rows' = rows /\ clock' = clock /\ skew' = skew
      /\ pc' = [pc EXCEPT ![s] = "fetched"]
  BY DEF FetchHead
<1>4. AppendTypeOK'
  <2>1. draft' = [draft EXCEPT ![s] = [draft[s] EXCEPT !.prev = h]]
    BY <1>1 DEF IInv, AppendTypeOK
  <2>2. h \in Nat /\ draft[s] \in Entry
    BY <1>2 DEF IInv, AppendTypeOK
  <2>3. [draft[s] EXCEPT !.prev = h] \in Entry
    BY <2>2, EntryFields
  <2> QED
    BY <1>3, <2>1, <2>3 DEF IInv, AppendTypeOK
<1>5. Linked'
  BY <1>1, <1>2, <1>3 DEF IInv, AppendTypeOK, Linked, Entry
<1>6. Dated'
  BY <1>1, <1>2, <1>3 DEF IInv, AppendTypeOK, Dated, ClocksAgree, InFlight, Entry
<1> QED
  BY <1>4, <1>5, <1>6 DEF IInv

LEMMA SignHolds ==
    ASSUME IInv, NEW s \in Signers, NEW payload \in Payloads, Sign(s, payload) PROVE IInv'
<1>1. /\ rows' = rows /\ clock' = clock + 1 /\ skew' = skew
      /\ draft' = [draft EXCEPT ![s].at = clock + 1 + skew[s], ![s].payload = payload]
      /\ pc' = [pc EXCEPT ![s] = "sent"]
      /\ pc[s] = "fetched"
  BY DEF Sign
<1>2. skew[s] \in Nat /\ clock \in Nat
  BY SignersAssumption DEF IInv, AppendTypeOK
<1>3. AppendTypeOK'
  <2>1. draft' = [draft EXCEPT ![s] = [draft[s] EXCEPT !.at = clock + 1 + skew[s],
                                                       !.payload = payload]]
    BY <1>1 DEF IInv, AppendTypeOK
  <2>2. clock + 1 + skew[s] \in Nat /\ draft[s] \in Entry
    BY <1>2 DEF IInv, AppendTypeOK
  <2>3. [draft[s] EXCEPT !.at = clock + 1 + skew[s], !.payload = payload] \in Entry
    BY <2>2, EntryFields
  <2> QED
    BY <1>1, <1>2, <2>1, <2>3 DEF IInv, AppendTypeOK
<1>4. Linked'
  BY <1>1, <1>2 DEF IInv, AppendTypeOK, Linked, Entry
<1>5. SUFFICES ASSUME ClocksAgree, NEW t \in Signers
               PROVE  /\ \A i \in DOMAIN rows : rows[i].at <= clock + 1 + skew[t]
                      /\ InFlight(t)' =>
                           /\ draft'[t].at <= clock + 1 + skew[t]
                           /\ draft'[t].prev > 0 => rows[draft'[t].prev].at < draft'[t].at
  BY <1>1, <1>3, <1>4 DEF IInv, Dated, ClocksAgree
<1>6. skew[t] \in Nat /\ rows \in Seq(Entry) /\ draft \in [Signers -> Entry]
  BY SignersAssumption DEF IInv, AppendTypeOK
<1>7. \A i \in DOMAIN rows : rows[i].at <= clock + skew[t]
  BY <1>5 DEF IInv, Dated
<1>8. \A i \in DOMAIN rows : rows[i].at \in Nat
  BY <1>6, RowsAreEntries
<1>9. CASE t = s
  <2>1. /\ draft'[t].at = clock + 1 + skew[t]
        /\ draft'[t].prev = draft[t].prev
        /\ draft[t].prev \in Nat /\ draft[t].prev <= Len(rows)
    BY <1>1, <1>6, <1>9 DEF Entry, IInv, Linked
  <2> QED
    BY <1>2, <1>6, <1>7, <1>8, <2>1
<1>10. CASE t # s
  <2>1. draft'[t] = draft[t] /\ pc'[t] = pc[t]
    BY <1>1, <1>6, <1>10 DEF IInv, AppendTypeOK
  <2>2. draft[t].at \in Nat
    BY <1>6 DEF Entry
  <2> QED
    BY <1>2, <1>5, <1>6, <1>7, <1>8, <2>1, <2>2 DEF IInv, Dated, InFlight
<1> QED
  BY <1>9, <1>10

\* What the server answers takes the draft away.
LEMMA AnswerHolds ==
    ASSUME IInv, NEW s \in Signers, Answer(s), UNCHANGED <<rows, clock, skew>> PROVE IInv'
<1>1. AppendTypeOK'
  BY DEF Answer, IInv, AppendTypeOK, NoDraft, Entry
<1>2. Linked'
  BY DEF Answer, IInv, AppendTypeOK, Linked, NoDraft, Entry
<1>3. Dated'
  BY DEF Answer, IInv, AppendTypeOK, Dated, ClocksAgree, InFlight, NoDraft, Entry
<1> QED
  BY <1>1, <1>2, <1>3 DEF IInv

LEMMA CheckHolds ==
    ASSUME IInv, NEW s \in Signers, Check(s) PROVE IInv'
<1>1. UNCHANGED <<rows, clock, skew>> /\ pc[s] = "sent"
  BY DEF Check
<1>2. CASE Answer(s)
  BY <1>1, <1>2, AnswerHolds
<1>3. CASE pc' = [pc EXCEPT ![s] = "checked"] /\ UNCHANGED draft
  <2>1. AppendTypeOK'
    BY <1>1, <1>3 DEF IInv, AppendTypeOK
  <2>2. Linked'
    BY <1>1, <1>3 DEF IInv, Linked
  <2>3. Dated'
    BY <1>1, <1>3 DEF IInv, AppendTypeOK, Dated, ClocksAgree, InFlight
  <2> QED
    BY <2>1, <2>2, <2>3 DEF IInv
<1> QED
  BY <1>2, <1>3 DEF Check

\* An entry that conflicts with no row can only follow the last one.
LEMMA OnlyTheEndIsFree ==
    ASSUME IInv, NEW s \in Signers, ~Conflicts(draft[s])
    PROVE  draft[s].prev = Len(rows)
<1>1. rows \in Seq(Entry) /\ draft[s].prev \in 0..Len(rows)
  BY DEF IInv, AppendTypeOK, Linked, Entry
<1>2. SUFFICES ASSUME draft[s].prev < Len(rows) PROVE FALSE
  BY <1>1
<1>3. /\ draft[s].prev + 1 \in DOMAIN rows
      /\ rows[draft[s].prev + 1].prev = (draft[s].prev + 1) - 1
  BY <1>1, <1>2 DEF IInv, Linked
<1> QED
  BY <1>1, <1>3 DEF Conflicts

LEMMA InsertHolds ==
    ASSUME IInv, NEW s \in Signers, Insert(s) PROVE IInv'
<1>1. /\ UNCHANGED <<clock, skew>> /\ pc[s] = "checked" /\ Answer(s)
      /\ rows' = IF Conflicts(draft[s]) THEN rows ELSE Append(rows, draft[s])
  BY DEF Insert
<1>2. CASE Conflicts(draft[s])
  BY <1>1, <1>2, AnswerHolds
<1>3. CASE ~Conflicts(draft[s])
  <2> DEFINE n == Len(rows)
  <2>1. rows' = Append(rows, draft[s]) /\ draft[s].prev = n
    BY <1>1, <1>3, OnlyTheEndIsFree
  <2>2. /\ rows \in Seq(Entry) /\ draft \in [Signers -> Entry] /\ n \in Nat
        /\ clock \in Nat /\ skew \in [Signers -> Skews]
        /\ pc \in [Signers -> {"idle", "fetched", "sent", "checked"}]
    BY DEF IInv, AppendTypeOK
  <2>3. /\ Len(rows') = n + 1 /\ DOMAIN rows' = 1..(n + 1)
        /\ \A i \in DOMAIN rows : rows'[i] = rows[i] /\ i \in 1..n
        /\ rows'[n + 1] = draft[s]
    BY <2>1, <2>2
  <2>4. AppendTypeOK'
    <3>1. rows' \in Seq(Entry)
      BY <2>1, <2>2
    <3>2. draft' \in [Signers -> Entry]
      BY <1>1, <2>2, EntryFields DEF Answer
    <3> QED
      BY <1>1, <2>2, <3>1, <3>2 DEF AppendTypeOK, Answer
  <2>5. Linked'
    <3>1. \A i \in DOMAIN rows' : rows'[i].prev = i - 1
      BY <2>1, <2>2, <2>3 DEF IInv, Linked
    <3>2. \A t \in Signers : draft'[t].prev <= n + 1
      BY <1>1, <2>2 DEF IInv, Linked, Answer, NoDraft, Entry
    <3> QED
      BY <2>3, <3>1, <3>2 DEF Linked
  <2>6. Dated'
    <3>1. SUFFICES ASSUME ClocksAgree
                   PROVE  /\ \A i, j \in DOMAIN rows' : i < j => rows'[i].at < rows'[j].at
                          /\ \A t \in Signers :
                               /\ \A i \in DOMAIN rows' : rows'[i].at <= clock + skew[t]
                               /\ InFlight(t)' =>
                                    /\ draft'[t].at <= clock + skew[t]
                                    /\ draft'[t].prev > 0 => rows'[draft'[t].prev].at < draft'[t].at
      BY <1>1 DEF Dated, ClocksAgree
    <3>2. /\ \A i, j \in DOMAIN rows : i < j => rows[i].at < rows[j].at
          /\ \A t \in Signers :
               /\ \A i \in DOMAIN rows : rows[i].at <= clock + skew[t]
               /\ InFlight(t) => /\ draft[t].at <= clock + skew[t]
                                 /\ draft[t].prev > 0 => rows[draft[t].prev].at < draft[t].at
      BY <3>1 DEF IInv, Dated
    <3>3. \A t \in Signers : skew[t] \in Nat /\ skew[s] = skew[t]
      BY <2>2, <3>1, SignersAssumption DEF ClocksAgree
    <3>4. /\ \A i \in DOMAIN rows : rows[i].at \in Nat
          /\ \A t \in Signers : draft[t].at \in Nat /\ draft[t].prev \in 0..n
      <4>1. \A t \in Signers : draft[t] \in Entry /\ draft[t].prev <= n
        BY <2>2 DEF IInv, Linked
      <4>2. \A t \in Signers : draft[t].at \in Nat /\ draft[t].prev \in Nat
        BY <4>1, EntryFields
      <4> QED
        BY <2>2, <4>1, <4>2, RowsAreEntries
    <3>5. draft[s].at <= clock + skew[s] /\ (n > 0 => rows[n].at < draft[s].at)
      BY <1>1, <2>1, <3>2 DEF InFlight
    <3>6. \A i \in 1..n : rows[i].at < draft[s].at
      BY <2>2, <3>2, <3>4, <3>5
    <3>7. \A i, j \in DOMAIN rows' : i < j => rows'[i].at < rows'[j].at
      BY <2>2, <2>3, <3>2, <3>6
    <3>8. \A t \in Signers, i \in DOMAIN rows' : rows'[i].at <= clock + skew[t]
      BY <2>2, <2>3, <3>2, <3>3, <3>5
    <3>9. ASSUME NEW t \in Signers, InFlight(t)'
          PROVE  /\ draft'[t].at <= clock + skew[t]
                 /\ draft'[t].prev > 0 => rows'[draft'[t].prev].at < draft'[t].at
      <4>1. t # s /\ pc'[t] = pc[t] /\ draft'[t] = draft[t]
        BY <1>1, <2>2, <3>9 DEF Answer, InFlight
      <4> QED
        BY <2>2, <2>3, <3>2, <3>4, <3>9, <4>1 DEF InFlight
    <3> QED
      BY <3>7, <3>8, <3>9
  <2> QED
    BY <2>4, <2>5, <2>6 DEF IInv
<1> QED
  BY <1>2, <1>3

LEMMA Inductive == IInv /\ [Next]_vars => IInv'
<1> SUFFICES ASSUME IInv, [Next]_vars PROVE IInv'
  OBVIOUS
<1>1. ASSUME NEW s \in Signers, FetchHead(s) PROVE IInv'
  BY <1>1, FetchHolds
<1>2. ASSUME NEW s \in Signers, NEW payload \in Payloads, Sign(s, payload) PROVE IInv'
  BY <1>2, SignHolds
<1>3. ASSUME NEW s \in Signers, Check(s) PROVE IInv'
  BY <1>3, CheckHolds
<1>4. ASSUME NEW s \in Signers, Insert(s) PROVE IInv'
  BY <1>4, InsertHolds
<1>5. ASSUME UNCHANGED <<rows, clock, skew, pc, draft>> PROVE IInv'
  BY <1>5 DEF IInv, AppendTypeOK, Linked, Dated, ClocksAgree, InFlight
<1>6. ASSUME NEW v \in Viewers, Verify(v) PROVE IInv'
  BY <1>5, <1>6 DEF Verify
<1> QED
  BY <1>1, <1>2, <1>3, <1>4, <1>5, <1>6 DEF Next, vars

LEMMA Invariance == Spec => []IInv
BY InitHolds, Inductive, PTL DEF Spec

\* However appends overlap, no two entries follow the same one.
THEOREM ChainNeverForks == Spec => []NoFork
<1>1. IInv => NoFork
  <2> SUFFICES ASSUME IInv PROVE NoFork
    OBVIOUS
  <2>1. rows \in Seq(Entry) /\ \A i \in DOMAIN rows : rows[i].prev = i - 1
    BY DEF IInv, AppendTypeOK, Linked
  <2> QED
    BY <2>1 DEF NoFork
<1> QED
  BY <1>1, Invariance, PTL

\* With agreeing clocks the head by time is the end of the chain, so that an
\* append to it has not been made.
THEOREM HeadByTimeIsTheEnd == Spec => []HeadIsTheEnd
<1>1. IInv => HeadIsTheEnd
  <2> SUFFICES ASSUME IInv, ClocksAgree PROVE Heads = {Len(rows)}
    BY DEF HeadIsTheEnd
  <2>1. /\ rows \in Seq(Entry)
        /\ \A i, j \in DOMAIN rows : i < j => rows[i].at < rows[j].at
    BY DEF IInv, AppendTypeOK, Dated
  <2>2. \A i \in DOMAIN rows : rows[i].at \in Nat
    BY <2>1, RowsAreEntries
  <2>3. CASE rows = <<>>
    BY <2>3 DEF Heads
  <2>4. CASE rows # <<>>
    <3>1. Len(rows) \in DOMAIN rows
      BY <2>1, <2>4
    <3>2. \A i \in DOMAIN rows :
            (\A j \in DOMAIN rows : rows[j].at <= rows[i].at) <=> i = Len(rows)
      BY <2>1, <2>2, <3>1
    <3> QED
      BY <2>4, <3>1, <3>2 DEF Heads
  <2> QED
    BY <2>3, <2>4
<1> QED
  BY <1>1, Invariance, PTL

-------------------------------------------------------------------------------
(* Induction.  The library's principle takes a predicate; this one, derived    *)
(* from the existence of minimal elements, takes a set.                        *)

LEMMA SetInduction ==
    ASSUME NEW S, 0 \in S, \A n \in Nat : n \in S => n + 1 \in S
    PROVE  Nat \subseteq S
<1> DEFINE T == Nat \ S
<1>1. SUFFICES ASSUME T # {} PROVE FALSE
  OBVIOUS
<1>2. PICK x \in T : \A y \in T : <<y, x>> \notin OpToRel(<, Nat)
  <2>1. T \subseteq Nat
    OBVIOUS
  <2> HIDE DEF T
  <2> QED
    BY <1>1, <2>1, WFMin, NatLessThanWellFounded
<1>3. x # 0 /\ x - 1 \in Nat /\ x \in Nat
  OBVIOUS
<1>4. x - 1 \notin S
  BY <1>3
<1>5. <<x - 1, x>> \in OpToRel(<, Nat)
  BY <1>3 DEF OpToRel
<1> QED
  BY <1>2, <1>3, <1>4, <1>5

Steps(n, V) == [1..n -> [V -> V]]
HasIteration(V, a, n, step) ==
    \E f \in [0..n -> V] : f[0] = a /\ \A k \in 1..n : f[k] = step[k][f[k - 1]]

\* A finite iteration is a function, so that a recursive definition of one has the
\* value its equations give it.
LEMMA Iteration ==
    ASSUME NEW V, NEW a \in V, NEW n \in Nat, NEW step \in Steps(n, V)
    PROVE  HasIteration(V, a, n, step)
<1> USE DEF Steps, HasIteration
<1> DEFINE Goes(m, f) == f[0] = a /\ \A k \in 1..m : f[k] = step[k][f[k - 1]]
           S == {m \in Nat : m <= n => \E f \in [0..m -> V] : Goes(m, f)}
<1>1. 0 \in S
  <2>1. [k \in 0..0 |-> a] \in [0..0 -> V] /\ Goes(0, [k \in 0..0 |-> a])
    OBVIOUS
  <2> QED
    BY <2>1
<1>2. ASSUME NEW m \in Nat, m \in S PROVE m + 1 \in S
  <2>1. SUFFICES ASSUME m + 1 <= n PROVE \E f \in [0..(m + 1) -> V] : Goes(m + 1, f)
    OBVIOUS
  <2>2. PICK f \in [0..m -> V] : Goes(m, f)
    BY <1>2, <2>1
  <2> DEFINE g == [k \in 0..(m + 1) |-> IF k = m + 1 THEN step[m + 1][f[m]] ELSE f[k]]
  <2>3. step[m + 1][f[m]] \in V
    BY <2>1
  <2>4. g \in [0..(m + 1) -> V]
    BY <2>3
  <2>5. /\ g[0] = f[0] /\ g[m + 1] = step[m + 1][f[m]]
        /\ \A k \in 0..m : g[k] = f[k]
    OBVIOUS
  <2> HIDE DEF g
  <2>6. Goes(m + 1, g)
    <3>1. ASSUME NEW k \in 1..(m + 1) PROVE g[k] = step[k][g[k - 1]]
      BY <2>2, <2>5
    <3> QED
      BY <2>2, <2>5, <3>1
  <2> QED
    BY <2>4, <2>6
<1>3. n \in S
  <2> HIDE DEF S
  <2> QED
    BY <1>1, <1>2, SetInduction
<1>4. PICK f \in [0..n -> V] : Goes(n, f)
  BY <1>3
<1> QED
  BY <1>4

Climbs(a, m, l) ==
    /\ l \in [1..m -> (a + 1)..(a + m)]
    /\ \A i, j \in 1..m : i < j => l[i] < l[j]

\* An increasing enumeration of an interval goes through it one by one.
LEMMA IncreasingIsNext ==
    ASSUME NEW a \in Nat, NEW m \in Nat, NEW l, Climbs(a, m, l)
    PROVE  \A k \in 1..m : l[k] = a + k
<1> USE DEF Climbs
<1> DEFINE Up == {k \in Nat : k \in 1..m => l[k] >= a + k}
           Down == {k \in Nat : m - k \in 1..m => l[m - k] <= a + m - k}
<1>1. Nat \subseteq Up
  <2>1. 0 \in Up
    OBVIOUS
  <2>2. ASSUME NEW k \in Nat, k \in Up PROVE k + 1 \in Up
    <3>1. SUFFICES ASSUME k + 1 \in 1..m PROVE l[k + 1] >= a + (k + 1)
      OBVIOUS
    <3>2. CASE k = 0
      BY <3>1, <3>2
    <3>3. CASE k # 0
      <4>1. k \in 1..m /\ l[k] >= a + k /\ l[k] < l[k + 1] /\ l[k] \in Nat /\ l[k + 1] \in Nat
        BY <2>2, <3>1, <3>3
      <4> QED
        BY <4>1
    <3> QED
      BY <3>2, <3>3
  <2> HIDE DEF Up
  <2> QED
    BY <2>1, <2>2, SetInduction
<1>2. Nat \subseteq Down
  <2>1. 0 \in Down
    OBVIOUS
  <2>2. ASSUME NEW k \in Nat, k \in Down PROVE k + 1 \in Down
    <3>1. SUFFICES ASSUME m - (k + 1) \in 1..m PROVE l[m - (k + 1)] <= a + m - (k + 1)
      OBVIOUS
    <3>2. m - k \in 1..m /\ l[m - k] <= a + m - k
      BY <2>2, <3>1
    <3>3. l[m - (k + 1)] < l[m - k] /\ l[m - k] \in Nat /\ l[m - (k + 1)] \in Nat
      BY <3>1, <3>2
    <3> QED
      BY <3>1, <3>2, <3>3
  <2> HIDE DEF Down
  <2> QED
    BY <2>1, <2>2, SetInduction
<1>3. ASSUME NEW k \in 1..m PROVE l[k] = a + k
  <2>1. l[k] >= a + k
    BY <1>1
  <2>2. m - k \in Nat /\ m - (m - k) = k
    OBVIOUS
  <2>3. l[k] <= a + k
    BY <1>2, <2>2
  <2> QED
    BY <2>1, <2>3
<1> QED
  BY <1>3

-------------------------------------------------------------------------------
(* The trust set along a chain R, and the loop of a verification *)

Signed(R) == R \in Seq(Entry) /\ \A i \in DOMAIN R : R[i].payload \in Payloads

TrustOver(R) ==
    CHOOSE f : f = [i \in 0..Len(R) |-> IF i = 0 THEN Admins ELSE TrustAfter(f[i - 1], R[i])]

LEMMA TrustIsSigners ==
    ASSUME NEW e \in Entry, e.payload \in Payloads, NEW t \in SUBSET Signers
    PROVE  TrustAfter(t, e) \in SUBSET Signers
<1>1. e.payload[2] \in Signers
  BY SignersAssumption
<1> QED
  BY <1>1 DEF TrustAfter

LEMMA TrustGoesOn ==
    ASSUME NEW R, Signed(R)
    PROVE  /\ TrustOver(R) \in [0..Len(R) -> SUBSET Signers]
           /\ TrustOver(R)[0] = Admins
           /\ \A i \in 1..Len(R) : TrustOver(R)[i] = TrustAfter(TrustOver(R)[i - 1], R[i])
<1> DEFINE n == Len(R)
           step == [i \in 1..n |-> [t \in SUBSET Signers |-> TrustAfter(t, R[i])]]
           F(f) == [i \in 0..n |-> IF i = 0 THEN Admins ELSE TrustAfter(f[i - 1], R[i])]
<1>1. n \in Nat /\ Admins \in SUBSET Signers
  BY SignersAssumption DEF Signed
<1>2. \A i \in 1..n : R[i] \in Entry /\ R[i].payload \in Payloads
  BY DEF Signed
<1>3. step \in [1..n -> [SUBSET Signers -> SUBSET Signers]]
  BY <1>2, TrustIsSigners
<1>4. \A i \in 1..n, t \in SUBSET Signers : step[i][t] = TrustAfter(t, R[i])
  OBVIOUS
<1>5. PICK f \in [0..n -> SUBSET Signers] :
         f[0] = Admins /\ \A i \in 1..n : f[i] = step[i][f[i - 1]]
  <2> HIDE DEF n, step
  <2>1. HasIteration(SUBSET Signers, Admins, n, step)
    <3>1. step \in Steps(n, SUBSET Signers)
      BY <1>3 DEF Steps
    <3> QED
      BY <1>1, <3>1, Iteration
  <2> QED
    BY <2>1 DEF HasIteration
<1>6. f = F(f)
  <2>1. \A i \in 1..n : f[i - 1] \in SUBSET Signers
    BY <1>1
  <2>2. \A i \in 1..n : f[i] = TrustAfter(f[i - 1], R[i])
    BY <1>4, <1>5, <2>1
  <2> HIDE DEF step, n
  <2> QED
    BY <1>1, <1>5, <2>2
<1>7. TrustOver(R) = F(TrustOver(R))
  <2> HIDE DEF F
  <2>1. TrustOver(R) = CHOOSE g : g = F(g)
    BY DEF TrustOver, F
  <2> QED
    BY <1>6, <2>1
<1> HIDE DEF step
<1>8. TrustOver(R) \in [0..n -> SUBSET Signers]
  <2> DEFINE T == TrustOver(R)
             S == {i \in Nat : i <= n => T[i] \in SUBSET Signers}
  <2> HIDE DEF T
  <2>0. T = F(T)
    BY <1>7 DEF T
  <2>1. 0 \in S
    BY <1>1, <2>0
  <2>2. ASSUME NEW i \in Nat, i \in S PROVE i + 1 \in S
    <3>1. SUFFICES ASSUME i + 1 <= n PROVE T[i + 1] \in SUBSET Signers
      OBVIOUS
    <3>2. T[i] \in SUBSET Signers /\ i + 1 \in 1..n /\ (i + 1) - 1 = i /\ i + 1 # 0
      BY <1>1, <2>2, <3>1
    <3>3. T[i + 1] = TrustAfter(T[(i + 1) - 1], R[i + 1])
      BY <1>1, <2>0, <3>2
    <3>4. TrustAfter(T[i], R[i + 1]) \in SUBSET Signers
      BY <1>2, <3>2, TrustIsSigners
    <3> QED
      BY <3>2, <3>3, <3>4
  <2> HIDE DEF S
  <2>3. Nat \subseteq S
    BY <2>1, <2>2, SetInduction
  <2>4. \A i \in 0..n : T[i] \in SUBSET Signers
    BY <1>1, <2>3 DEF S
  <2> QED
    BY <2>0, <2>4 DEF T
<1> QED
  BY <1>1, <1>7, <1>8

LEMMA TrustedIsOver == Trusted = TrustOver(rows)
BY DEF Trusted, TrustOver

LEMMA TrustedIsOverNext == Trusted' = TrustOver(rows')
BY DEF Trusted, TrustOver

\* What is appended changes nothing up to there.
LEMMA TrustIsKept ==
    ASSUME NEW R, Signed(R), NEW e \in Entry, e.payload \in Payloads
    PROVE  Signed(Append(R, e)) /\ \A i \in 0..Len(R) : TrustOver(Append(R, e))[i] = TrustOver(R)[i]
<1> DEFINE Q == Append(R, e)
           S == {i \in Nat : i <= Len(R) => TrustOver(Q)[i] = TrustOver(R)[i]}
<1>1. /\ Q \in Seq(Entry) /\ Len(Q) = Len(R) + 1 /\ Len(R) \in Nat
      /\ \A i \in 1..Len(R) : Q[i] = R[i]
      /\ Q[Len(R) + 1] = e
  BY DEF Signed
<1>2. Signed(Q)
  BY <1>1 DEF Signed
<1> HIDE DEF Q
<1>3. 0 \in S
  BY <1>2, TrustGoesOn
<1>4. ASSUME NEW i \in Nat, i \in S PROVE i + 1 \in S
  <2>1. SUFFICES ASSUME i + 1 <= Len(R) PROVE TrustOver(Q)[i + 1] = TrustOver(R)[i + 1]
    OBVIOUS
  <2>2. /\ i + 1 \in 1..Len(R) /\ i + 1 \in 1..Len(Q) /\ (i + 1) - 1 = i
        /\ TrustOver(Q)[i] = TrustOver(R)[i] /\ Q[i + 1] = R[i + 1]
    BY <1>1, <1>4, <2>1
  <2>3. TrustOver(Q)[i + 1] = TrustAfter(TrustOver(Q)[(i + 1) - 1], Q[i + 1])
    BY <1>2, <2>2, TrustGoesOn
  <2>4. TrustOver(R)[i + 1] = TrustAfter(TrustOver(R)[(i + 1) - 1], R[i + 1])
    BY <2>2, TrustGoesOn
  <2> QED
    BY <2>2, <2>3, <2>4
<1>5. Nat \subseteq S
  <2> HIDE DEF S
  <2> QED
    BY <1>3, <1>4, SetInduction
<1> QED
  BY <1>1, <1>2, <1>5 DEF Q

Cache == [last : Nat, trusted : SUBSET Signers]
Walking == [ok : BOOLEAN, last : Nat, trusted : SUBSET Signers]

LEMMA WalkGoesOn ==
    ASSUME Signed(rows), NEW n \in Nat, NEW list \in [1..n -> DOMAIN rows], NEW from \in Cache
    PROVE  \E w \in [0..n -> Walking] :
             /\ w[0] = Start(from)
             /\ \A k \in 1..n : w[k] = VerifyEntry(w[k - 1], list[k])
             /\ Walk(list, from) = w[n]
<1> DEFINE step == [k \in 1..n |-> [state \in Walking |-> VerifyEntry(state, list[k])]]
           F(f) == [k \in 0..n |-> IF k = 0 THEN Start(from) ELSE VerifyEntry(f[k - 1], list[k])]
<1>1. Len(list) = n
  OBVIOUS
<1>2. Start(from) \in Walking
  BY DEF Start, Walking, Cache
<1>3. ASSUME NEW k \in 1..n, NEW state \in Walking PROVE VerifyEntry(state, list[k]) \in Walking
  <2>1. /\ list[k] \in Nat /\ rows[list[k]] \in Entry /\ rows[list[k]].payload \in Payloads
        /\ state.ok \in BOOLEAN /\ state.trusted \in SUBSET Signers
    BY DEF Signed, Walking
  <2>2. TrustAfter(state.trusted, rows[list[k]]) \in SUBSET Signers
    BY <2>1, TrustIsSigners
  <2> QED
    BY <2>1, <2>2 DEF VerifyEntry, Walking
<1>4. step \in [1..n -> [Walking -> Walking]]
  BY <1>3
<1>5. \A k \in 1..n, state \in Walking : step[k][state] = VerifyEntry(state, list[k])
  OBVIOUS
<1>6. PICK f \in [0..n -> Walking] :
         f[0] = Start(from) /\ \A k \in 1..n : f[k] = step[k][f[k - 1]]
  <2> HIDE DEF step
  <2>1. HasIteration(Walking, Start(from), n, step)
    <3>1. step \in Steps(n, Walking)
      BY <1>4 DEF Steps
    <3> QED
      BY <1>2, <3>1, Iteration
  <2> QED
    BY <2>1 DEF HasIteration
<1>7. f = F(f)
  <2>1. \A k \in 1..n : f[k - 1] \in Walking
    OBVIOUS
  <2>2. \A k \in 1..n : f[k] = VerifyEntry(f[k - 1], list[k])
    BY <1>5, <1>6, <2>1
  <2> HIDE DEF step
  <2> QED
    BY <1>6, <2>2
<1> DEFINE w == CHOOSE g : g = F(g)
<1>8. w = F(w)
  <2> HIDE DEF F
  <2> QED
    BY <1>7
<1>9. Walk(list, from) = w[n]
  BY <1>1 DEF Walk
<1> HIDE DEF w, step
<1>10. w[0] = Start(from) /\ \A k \in 1..n : w[k] = VerifyEntry(w[k - 1], list[k])
  BY <1>8
<1>11. w \in [0..n -> Walking]
  <2> DEFINE S == {k \in Nat : k <= n => w[k] \in Walking}
  <2>1. 0 \in S
    BY <1>2, <1>10
  <2>2. ASSUME NEW k \in Nat, k \in S PROVE k + 1 \in S
    BY <1>3, <1>10, <2>2
  <2> HIDE DEF S
  <2>3. Nat \subseteq S
    BY <2>1, <2>2, SetInduction
  <2>4. \A k \in 0..n : w[k] \in Walking
    BY <2>3 DEF S
  <2> QED
    BY <1>8, <2>4
<1> QED
  BY <1>9, <1>10, <1>11

\* w is the course of a loop over the list, from a sound cache row.
Loop(n, list, from, w) ==
    /\ Signed(rows) /\ \A i \in DOMAIN rows : rows[i].prev = i - 1
    /\ list \in [1..n -> DOMAIN rows] /\ from \in Cache /\ w \in [0..n -> Walking]
    /\ from.last <= Len(rows) /\ from.trusted = TrustOver(rows)[from.last]
    /\ w[0] = Start(from) /\ \A k \in 1..n : w[k] = VerifyEntry(w[k - 1], list[k])

\* A loop that did not throw read the entries after the cached one in order, has the
\* trust set of the last of them, and found each signer trusted at his entry.
LEMMA WalkFollows ==
    ASSUME NEW n \in Nat, NEW list, NEW from, NEW w, Loop(n, list, from, w)
    PROVE  \A k \in 0..n : w[k].ok =>
             /\ w[k].last = from.last + k /\ from.last + k <= Len(rows)
             /\ w[k].trusted = TrustOver(rows)[from.last + k]
             /\ \A i \in (from.last + 1)..(from.last + k) :
                  rows[i].signer \in TrustOver(rows)[i - 1]
<1> USE DEF Loop
<1> DEFINE G(k) == /\ w[k].last = from.last + k /\ from.last + k <= Len(rows)
                   /\ w[k].trusted = TrustOver(rows)[from.last + k]
                   /\ \A i \in (from.last + 1)..(from.last + k) :
                        rows[i].signer \in TrustOver(rows)[i - 1]
           S == {k \in Nat : k <= n /\ w[k].ok => G(k)}
<1>1. from.last \in Nat /\ Len(rows) \in Nat /\ DOMAIN rows = 1..Len(rows)
  BY DEF Cache, Signed
<1>2. 0 \in S
  BY <1>1 DEF Start
<1>3. ASSUME NEW k \in Nat, k \in S PROVE k + 1 \in S
  <2>1. SUFFICES ASSUME k + 1 <= n, w[k + 1].ok PROVE G(k + 1)
    OBVIOUS
  <2>2. w[k + 1] = VerifyEntry(w[k], list[k + 1]) /\ k + 1 \in 1..n /\ w[k].ok \in BOOLEAN
    BY <2>1 DEF Walking
  <2>3. /\ w[k].ok /\ rows[list[k + 1]].prev = w[k].last
        /\ rows[list[k + 1]].signer \in w[k].trusted
        /\ w[k + 1].last = list[k + 1]
        /\ w[k + 1].trusted = TrustAfter(w[k].trusted, rows[list[k + 1]])
    <3>1. VerifyEntry(w[k], list[k + 1]).ok
      BY <2>1, <2>2
    <3>2. /\ w[k].ok /\ rows[list[k + 1]].prev = w[k].last
          /\ rows[list[k + 1]].signer \in w[k].trusted
      BY <3>1, Zenon DEF VerifyEntry
    <3>3. /\ w[k + 1].last = list[k + 1]
          /\ w[k + 1].trusted = TrustAfter(w[k].trusted, rows[list[k + 1]])
      BY <2>2 DEF VerifyEntry
    <3> QED
      BY <3>2, <3>3
  <2>4. G(k)
    BY <1>3, <2>1, <2>3
  <2>5. list[k + 1] \in 1..Len(rows) /\ list[k + 1] = from.last + k + 1
    <3>1. list[k + 1] \in DOMAIN rows
      BY <2>2
    <3>2. list[k + 1] - 1 = from.last + k
      BY <2>3, <2>4, <3>1
    <3> QED
      BY <1>1, <3>1, <3>2
  <2> DEFINE j == from.last + k + 1
  <2>6. TrustOver(rows)[j] = TrustAfter(TrustOver(rows)[j - 1], rows[j])
    BY <2>5, TrustGoesOn
  <2>7. j - 1 = from.last + k /\ from.last + (k + 1) = j
    BY <1>1
  <2>8. rows[j].signer \in TrustOver(rows)[j - 1]
    BY <2>3, <2>4, <2>5, <2>7
  <2>9. \A i \in (from.last + 1)..j : rows[i].signer \in TrustOver(rows)[i - 1]
    <3>1. ASSUME NEW i \in (from.last + 1)..j PROVE rows[i].signer \in TrustOver(rows)[i - 1]
      <4>1. CASE i = j
        BY <2>8, <4>1
      <4>2. CASE i # j
        <5>1. i \in (from.last + 1)..(from.last + k)
          <6> HIDE DEF Loop
          <6> QED
            BY <1>1, <4>2
        <5> QED
          BY <2>4, <5>1
      <4> QED
        BY <4>1, <4>2
    <3> QED
      BY <3>1
  <2>10. w[k + 1].trusted = TrustOver(rows)[j]
    BY <2>3, <2>4, <2>5, <2>6, <2>7
  <2>11. w[k + 1].last = j /\ j <= Len(rows)
    BY <2>3, <2>5
  <2> HIDE DEF j
  <2> QED
    BY <2>7, <2>9, <2>10, <2>11
<1>4. Nat \subseteq S
  <2> HIDE DEF S
  <2> QED
    BY <1>2, <1>3, SetInduction
<1>5. ASSUME NEW k \in 0..n, w[k].ok PROVE G(k)
  BY <1>4, <1>5
<1> QED
  BY <1>5

\* If the entries come in the order of the chain and every signer was trusted, the
\* loop does not throw.
LEMMA WalkSucceeds ==
    ASSUME NEW n \in Nat, NEW list, NEW from, NEW w, Loop(n, list, from, w),
           \A k \in 1..n : list[k] = from.last + k,
           \A i \in DOMAIN rows : rows[i].signer \in TrustOver(rows)[i - 1]
    PROVE  w[n].ok
<1> USE DEF Loop
<1> DEFINE S == {k \in Nat : k <= n => w[k].ok}
<1>1. from.last \in Nat /\ DOMAIN rows = 1..Len(rows)
  BY DEF Cache, Signed
<1>2. 0 \in S
  BY DEF Start
<1>3. ASSUME NEW k \in Nat, k \in S PROVE k + 1 \in S
  <2>1. SUFFICES ASSUME k + 1 <= n PROVE w[k + 1].ok
    OBVIOUS
  <2>2. w[k].ok /\ k \in 0..n /\ k + 1 \in 1..n
    BY <1>3, <2>1
  <2>3. w[k].last = from.last + k /\ w[k].trusted = TrustOver(rows)[from.last + k]
    <3> HIDE DEF Loop
    <3> QED
      BY <2>2, WalkFollows
  <2>4. list[k + 1] = from.last + (k + 1) /\ list[k + 1] \in DOMAIN rows
    BY <2>2
  <2>5. list[k + 1] - 1 = from.last + k
    <3> DEFINE x == list[k + 1]
               y == from.last
    <3>1. x = y + (k + 1) /\ y \in Nat
      BY <1>1, <2>4
    <3> HIDE DEF x, y
    <3>2. x - 1 = y + k
      BY <3>1
    <3> QED
      BY <3>2 DEF x, y
  <2>6. rows[list[k + 1]].prev = w[k].last /\ rows[list[k + 1]].signer \in w[k].trusted
    BY <2>3, <2>4, <2>5
  <2>7. VerifyEntry(w[k], list[k + 1]).ok
    BY <2>2, <2>6, Zenon DEF VerifyEntry
  <2>8. w[k + 1] = VerifyEntry(w[(k + 1) - 1], list[k + 1]) /\ (k + 1) - 1 = k
    BY <2>2
  <2> QED
    BY <2>7, <2>8
<1>4. Nat \subseteq S
  <2> HIDE DEF S
  <2> QED
    BY <1>2, <1>3, SetInduction
<1> QED
  BY <1>4

-------------------------------------------------------------------------------
(* The viewers.  Their invariant: what is sent and stored has a payload, and   *)
(* the caches hold what the chain up to their entry says.                      *)

PayloadsAreSigned ==
    /\ \A i \in DOMAIN rows : rows[i].payload \in Payloads
    /\ \A s \in Signers : InFlight(s) => draft[s].payload \in Payloads

CachesAreBehind == \A v \in Viewers : verified[v].last <= Len(rows)

ViewInv == TypeOK /\ PayloadsAreSigned /\ CachesAreBehind /\ CacheIsSound /\ AlarmHasACause

LEMMA RowsAreSigned == ASSUME TypeOK, PayloadsAreSigned PROVE Signed(rows)
BY DEF TypeOK, AppendTypeOK, PayloadsAreSigned, Signed

LEMMA InitViews == Init => ViewInv
<1> SUFFICES ASSUME Init PROVE ViewInv
  OBVIOUS
<1>1. TypeOK
  BY InitHolds, SignersAssumption DEF Init, IInv, TypeOK
<1>2. PayloadsAreSigned /\ CachesAreBehind /\ AlarmHasACause
  BY DEF Init, PayloadsAreSigned, InFlight, CachesAreBehind, AlarmHasACause
<1>3. CacheIsSound
  BY <1>1, <1>2, RowsAreSigned, TrustGoesOn, TrustedIsOver DEF Init, CacheIsSound
<1> QED
  BY <1>1, <1>2, <1>3 DEF ViewInv

\* All a step of the signers and the server does to the chain.
LEMMA ChainGrows ==
    ASSUME IInv, PayloadsAreSigned, NEW s \in Signers,
           FetchHead(s) \/ Check(s) \/ Insert(s) \/ \E payload \in Payloads : Sign(s, payload)
    PROVE  /\ UNCHANGED <<skew, verified, alarm>>
           /\ \/ rows' = rows
              \/ \E e \in Entry : e.payload \in Payloads /\ rows' = Append(rows, e)
           /\ PayloadsAreSigned'
<1> USE DEF PayloadsAreSigned, InFlight
<1>1. /\ pc \in [Signers -> {"idle", "fetched", "sent", "checked"}]
      /\ draft \in [Signers -> Entry] /\ rows \in Seq(Entry)
  BY DEF IInv, AppendTypeOK
<1>2. CASE FetchHead(s)
  BY <1>1, <1>2 DEF FetchHead
<1>3. CASE Check(s)
  BY <1>1, <1>3 DEF Check, Answer
<1>4. ASSUME NEW payload \in Payloads, Sign(s, payload)
      PROVE  /\ UNCHANGED <<skew, rows, verified, alarm>>
             /\ PayloadsAreSigned'
  <2>1. /\ UNCHANGED <<skew, rows, verified, alarm>>
        /\ draft' = [draft EXCEPT ![s].at = clock + 1 + skew[s], ![s].payload = payload]
        /\ pc' = [pc EXCEPT ![s] = "sent"]
    BY <1>4 DEF Sign
  <2>2. draft'[s].payload = payload
    BY <1>1, <2>1 DEF Entry
  <2>3. \A t \in Signers : t # s => draft'[t] = draft[t] /\ pc'[t] = pc[t]
    BY <1>1, <2>1
  <2> QED
    BY <2>1, <2>2, <2>3
<1>5. CASE Insert(s)
  <2>1. /\ UNCHANGED <<skew, verified, alarm>> /\ pc[s] = "checked" /\ Answer(s)
        /\ rows' = rows \/ rows' = Append(rows, draft[s])
    BY <1>5 DEF Insert
  <2>2. draft[s] \in Entry /\ draft[s].payload \in Payloads
    BY <1>1, <2>1
  <2>3. \A t \in Signers : InFlight(t)' => InFlight(t) /\ draft'[t] = draft[t]
    BY <1>1, <2>1 DEF Answer
  <2>4. \A i \in DOMAIN rows' : rows'[i].payload \in Payloads
    BY <1>1, <2>1, <2>2
  <2> QED
    BY <2>1, <2>2, <2>3, <2>4
<1> QED
  BY <1>2, <1>3, <1>4, <1>5

LEMMA GrowthKeepsViews ==
    ASSUME ViewInv, IInv', PayloadsAreSigned', UNCHANGED <<skew, verified, alarm>>,
           \/ rows' = rows
           \/ \E e \in Entry : e.payload \in Payloads /\ rows' = Append(rows, e)
    PROVE  ViewInv'
<1>1. TypeOK'
  BY DEF ViewInv, TypeOK, IInv
<1>2. Signed(rows)
  BY RowsAreSigned DEF ViewInv
<1>3. /\ Len(rows) <= Len(rows') /\ Len(rows) \in Nat /\ Len(rows') \in Nat
      /\ \A i \in DOMAIN rows : i \in DOMAIN rows' /\ rows'[i] = rows[i] /\ i \in 1..Len(rows)
      /\ \A i \in 1..Len(rows) : i \in DOMAIN rows
  BY <1>2 DEF Signed
<1>4. \A i \in 0..Len(rows) : Trusted'[i] = Trusted[i]
  <2>1. \A i \in 0..Len(rows) : TrustOver(rows')[i] = TrustOver(rows)[i]
    BY <1>2, TrustIsKept
  <2> QED
    BY <2>1, TrustedIsOver, TrustedIsOverNext
<1>5. CachesAreBehind'
  BY <1>3 DEF ViewInv, TypeOK, CachesAreBehind
<1>6. CacheIsSound'
  <2> SUFFICES ASSUME NEW v \in Viewers
               PROVE  /\ verified[v].trusted = Trusted'[verified[v].last]
                      /\ \A i \in 1..verified[v].last : rows'[i].signer \in Trusted'[i - 1]
    BY DEF CacheIsSound
  <2>1. /\ verified[v].last \in 0..Len(rows)
        /\ verified[v].trusted = Trusted[verified[v].last]
        /\ \A i \in 1..verified[v].last : rows[i].signer \in Trusted[i - 1]
    BY <1>3 DEF ViewInv, TypeOK, CachesAreBehind, CacheIsSound
  <2>2. ASSUME NEW i \in 1..verified[v].last PROVE rows'[i].signer \in Trusted'[i - 1]
    <3>1. i \in 1..Len(rows) /\ i - 1 \in 0..Len(rows)
      BY <1>3, <2>1
    <3> QED
      BY <1>3, <1>4, <2>1, <3>1
  <2> QED
    BY <1>4, <2>1, <2>2
<1>7. AlarmHasACause'
  <2> SUFFICES ASSUME alarm # {}, ClocksAgree
               PROVE  \E i \in DOMAIN rows' : rows'[i].signer \notin Trusted'[i - 1]
    BY DEF AlarmHasACause, ClocksAgree
  <2>1. PICK i \in DOMAIN rows : rows[i].signer \notin Trusted[i - 1]
    BY DEF ViewInv, AlarmHasACause
  <2>2. i \in 1..Len(rows) /\ i - 1 \in 0..Len(rows)
    BY <1>3, <2>1
  <2> QED
    BY <1>3, <1>4, <2>1, <2>2
<1> QED
  BY <1>1, <1>5, <1>6, <1>7 DEF ViewInv

\* A listing is a sequence of distinct rows; with agreeing clocks it has all the rows
\* after the cached one, in the order of the chain.
LEMMA ListsAreOfRows ==
    ASSUME IInv, NEW since \in 0..Len(rows), NEW list \in Lists(since)
    PROVE  \E n \in Nat : /\ list \in [1..n -> DOMAIN rows]
                          /\ ClocksAgree => \A k \in 1..n : list[k] = since + k
<1>1. /\ rows \in Seq(Entry) /\ Len(rows) \in Nat /\ DOMAIN rows = 1..Len(rows)
      /\ \A i \in DOMAIN rows : rows[i].at \in Nat
  BY RowsAreEntries DEF IInv, AppendTypeOK
<1> DEFINE L == Listed(since)
           n == Cardinality(L)
<1>2. L \subseteq DOMAIN rows
  BY DEF Listed
<1>3. IsFiniteSet(L) /\ n \in Nat
  <2>1. IsFiniteSet(1..Len(rows))
    BY <1>1, FS_Interval
  <2>2. IsFiniteSet(L)
    BY <1>1, <1>2, <2>1, FS_Subset
  <2> QED
    BY <2>2, FS_CardinalityType
<1>4. /\ list \in [1..n -> L]
      /\ \A i, j \in 1..n : i # j => list[i] # list[j]
      /\ \A i, j \in 1..n : i < j => rows[list[i]].at <= rows[list[j]].at
  <2>1. list \in SetToSeqs(L) /\ \A i, j \in DOMAIN list : i < j => rows[list[i]].at <= rows[list[j]].at
    BY DEF Lists
  <2>2. list \in [1..n -> L] /\ \A i, j \in 1..n : i # j => list[i] # list[j]
    BY <2>1 DEF SetToSeqs
  <2> QED
    BY <2>1, <2>2
<1>5. list \in [1..n -> DOMAIN rows]
  BY <1>2, <1>4
<1>6. ASSUME ClocksAgree PROVE \A k \in 1..n : list[k] = since + k
  <2>1. \A i, j \in DOMAIN rows : i < j => rows[i].at < rows[j].at
    BY <1>6 DEF IInv, Dated
  <2>2. L = (since + 1)..Len(rows)
    BY <1>1, <2>1 DEF Listed
  <2>3. n = Len(rows) - since
    <3>1. since + 1 \in Int /\ Len(rows) \in Int /\ since <= Len(rows)
      BY <1>1
    <3>2. Cardinality((since + 1)..Len(rows))
            = IF since + 1 > Len(rows) THEN 0 ELSE Len(rows) - (since + 1) + 1
      BY <3>1, FS_Interval
    <3> QED
      BY <2>2, <3>1, <3>2
  <2>4. L = (since + 1)..(since + n)
    BY <1>1, <2>2, <2>3
  <2>5. ASSUME NEW i \in 1..n, NEW j \in 1..n, i < j PROVE list[i] < list[j]
    <3>1. /\ list[i] \in DOMAIN rows /\ list[j] \in DOMAIN rows /\ list[i] # list[j]
          /\ rows[list[i]].at <= rows[list[j]].at
      BY <1>4, <1>5, <2>5
    <3> QED
      BY <1>1, <2>1, <3>1
  <2> HIDE DEF n, L
  <2>6. list \in [1..n -> (since + 1)..(since + n)]
    BY <1>4, <2>4
  <2>7. Climbs(since, n, list)
    BY <2>5, <2>6 DEF Climbs
  <2> QED
    BY <1>1, <1>3, <2>7, IncreasingIsNext
<1> QED
  BY <1>3, <1>5, <1>6

LEMMA VerifyKeepsViews ==
    ASSUME IInv, ViewInv, NEW v \in Viewers, Verify(v) PROVE ViewInv'
<1>1. PICK list \in Lists(verified[v].last) :
        LET result == Walk(list, verified[v]) IN
        IF result.ok
          THEN /\ verified' = [verified EXCEPT ![v] = [last |-> result.last,
                                                       trusted |-> result.trusted]]
               /\ alarm' = alarm \ {v}
          ELSE alarm' = alarm \cup {v} /\ UNCHANGED verified
  BY DEF Verify
<1>2. UNCHANGED <<rows, clock, skew, pc, draft>>
  BY DEF Verify
<1> DEFINE from == verified[v]
<1>3. /\ verified \in [Viewers -> Cache] /\ alarm \subseteq Viewers /\ from \in Cache
      /\ from.last \in 0..Len(rows)
  BY DEF ViewInv, TypeOK, CachesAreBehind, Cache
<1>4. /\ Signed(rows) /\ Trusted = TrustOver(rows) /\ Trusted' = Trusted
      /\ \A i \in DOMAIN rows : rows[i].prev = i - 1
  BY <1>2, RowsAreSigned, TrustedIsOver, TrustedIsOverNext DEF ViewInv, IInv, Linked
<1>5. /\ from.trusted = TrustOver(rows)[from.last]
      /\ \A i \in 1..from.last : rows[i].signer \in TrustOver(rows)[i - 1]
  BY <1>4 DEF ViewInv, CacheIsSound
<1>6. PICK n \in Nat : /\ list \in [1..n -> DOMAIN rows]
                       /\ ClocksAgree => \A k \in 1..n : list[k] = from.last + k
  BY <1>3, ListsAreOfRows
<1>7. PICK w \in [0..n -> Walking] :
        /\ w[0] = Start(from)
        /\ \A k \in 1..n : w[k] = VerifyEntry(w[k - 1], list[k])
        /\ Walk(list, from) = w[n]
  <2> HIDE DEF from
  <2> QED
    BY <1>3, <1>4, <1>6, WalkGoesOn
<1> DEFINE result == w[n]
<1>8. result \in Walking
  OBVIOUS
<1>9. \/ /\ result.ok
         /\ verified' = [verified EXCEPT ![v] = [last |-> result.last, trusted |-> result.trusted]]
         /\ alarm' = alarm \ {v}
      \/ ~result.ok /\ alarm' = alarm \cup {v} /\ verified' = verified
  BY <1>1, <1>7
<1>10. PayloadsAreSigned'
  BY <1>2 DEF ViewInv, PayloadsAreSigned, InFlight
<1>11. TypeOK'
  <2>1. AppendTypeOK'
    BY <1>2 DEF ViewInv, TypeOK, AppendTypeOK
  <2>2. [last |-> result.last, trusted |-> result.trusted] \in Cache
    BY <1>8 DEF Walking, Cache
  <2>3. verified' \in [Viewers -> Cache]
    BY <1>3, <1>9, <2>2
  <2> QED
    BY <1>3, <1>9, <2>1, <2>3 DEF TypeOK, Cache
<1> HIDE DEF from
<1>12. Loop(n, list, from, w)
  BY <1>3, <1>4, <1>5, <1>6, <1>7 DEF Loop
<1>13. result.ok =>
         /\ result.last = from.last + n /\ from.last + n <= Len(rows)
         /\ result.trusted = TrustOver(rows)[from.last + n]
         /\ \A i \in (from.last + 1)..(from.last + n) : rows[i].signer \in TrustOver(rows)[i - 1]
  <2>1. \A k \in 0..n : w[k].ok =>
          /\ w[k].last = from.last + k /\ from.last + k <= Len(rows)
          /\ w[k].trusted = TrustOver(rows)[from.last + k]
          /\ \A i \in (from.last + 1)..(from.last + k) : rows[i].signer \in TrustOver(rows)[i - 1]
    BY <1>12, WalkFollows
  <2> QED
    BY <2>1
<1>14. CachesAreBehind' /\ CacheIsSound'
  <2> SUFFICES ASSUME NEW u \in Viewers
               PROVE  /\ verified'[u].last <= Len(rows)
                      /\ verified'[u].trusted = TrustOver(rows)[verified'[u].last]
                      /\ \A i \in 1..verified'[u].last : rows[i].signer \in TrustOver(rows)[i - 1]
    BY <1>2, <1>4 DEF CachesAreBehind, CacheIsSound
  <2>1. CASE verified'[u] = verified[u]
    BY <1>4, <2>1 DEF ViewInv, CachesAreBehind, CacheIsSound
  <2>2. CASE result.ok /\ verified'[u] = [last |-> result.last, trusted |-> result.trusted]
    <3>1. verified'[u].last = from.last + n /\ verified'[u].trusted = TrustOver(rows)[from.last + n]
      BY <1>13, <2>2
    <3>2. ASSUME NEW i \in 1..(from.last + n) PROVE rows[i].signer \in TrustOver(rows)[i - 1]
      <4>1. i \in 1..from.last \/ i \in (from.last + 1)..(from.last + n)
        BY <1>3
      <4> QED
        BY <1>5, <1>13, <2>2, <4>1
    <3> QED
      BY <1>13, <2>2, <3>1, <3>2
  <2> QED
    BY <1>3, <1>9, <2>1, <2>2
<1>15. AlarmHasACause'
  <2> SUFFICES ASSUME alarm' # {}, ClocksAgree,
                      \A i \in DOMAIN rows : rows[i].signer \in TrustOver(rows)[i - 1]
               PROVE  FALSE
    BY <1>2, <1>4 DEF AlarmHasACause, ClocksAgree
  <2>1. alarm = {}
    BY <1>4 DEF ViewInv, AlarmHasACause
  <2>2. result.ok
    BY <1>4, <1>6, <1>12, WalkSucceeds
  <2> QED
    BY <1>9, <2>1, <2>2
<1> QED
  BY <1>10, <1>11, <1>14, <1>15 DEF ViewInv

LEMMA ViewsInductive == IInv /\ IInv' /\ ViewInv /\ [Next]_vars => ViewInv'
<1> SUFFICES ASSUME IInv, IInv', ViewInv, [Next]_vars PROVE ViewInv'
  OBVIOUS
<1>1. ASSUME NEW s \in Signers,
             FetchHead(s) \/ Check(s) \/ Insert(s) \/ \E payload \in Payloads : Sign(s, payload)
      PROVE  ViewInv'
  <2>1. PayloadsAreSigned
    BY DEF ViewInv
  <2>2. /\ UNCHANGED <<skew, verified, alarm>> /\ PayloadsAreSigned'
        /\ \/ rows' = rows
           \/ \E e \in Entry : e.payload \in Payloads /\ rows' = Append(rows, e)
    BY <1>1, <2>1, ChainGrows
  <2> QED
    BY <2>2, GrowthKeepsViews
<1>2. ASSUME NEW v \in Viewers, Verify(v) PROVE ViewInv'
  BY <1>2, VerifyKeepsViews
<1>3. CASE UNCHANGED vars
  <2>1. PayloadsAreSigned'
    BY <1>3 DEF ViewInv, PayloadsAreSigned, InFlight, vars
  <2> QED
    BY <1>3, <2>1, GrowthKeepsViews DEF vars
<1> QED
  BY <1>1, <1>2, <1>3 DEF Next

LEMMA ViewInvariance == Spec => []ViewInv
BY Invariance, InitViews, ViewsInductive, PTL DEF Spec

\* Every reachable state of the chain and its viewers is well typed.
THEOREM AuditTypes == Spec => []TypeOK
<1>1. ViewInv => TypeOK
  BY DEF ViewInv
<1> QED
  BY <1>1, ViewInvariance, PTL

\* However verifications and appends interleave, a cache holds the trust set of a
\* verification from the first entry, and nobody it accepted was untrusted.
THEOREM CachesAreSound == Spec => []CacheIsSound
<1>1. ViewInv => CacheIsSound
  BY DEF ViewInv
<1> QED
  BY <1>1, ViewInvariance, PTL

\* With agreeing clocks and trusted signers no verification throws, however the
\* appends of the entries and the verifications overlap.
THEOREM AlarmsHaveACause == Spec => []AlarmHasACause
<1>1. ViewInv => AlarmHasACause
  BY DEF ViewInv
<1> QED
  BY <1>1, ViewInvariance, PTL
===============================================================================
