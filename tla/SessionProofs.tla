----------------------------- MODULE SessionProofs -----------------------------
(* Proofs about Sessions: what a revocation and a lockdown promise, however   *)
(* refreshes, logins and revocations interleave.                              *)
EXTENDS Sessions, TLAPS

\* A session is revoked only after its login is done, so that creating the row of a
\* login never overwrites a revocation.
RowsFollowLogins == \A s \in Sessions : login[s] # "done" => revoked[s] = "none"

\* A refresh that arrived after the revocation is at its lookup, or over.
LateOnesAreRevoked ==
    \A r \in late : \/ req[r].pc = "idle"
                    \/ req[r].pc = "lookup" /\ req[r].of \in Sessions /\ Revoked(req[r].of)

\* A refresh in flight has found a session, and one that rotated has a token.
RefreshesAreFull ==
    \A r \in Requests : /\ req[r].pc # "idle" => req[r].of \in Sessions
                        /\ req[r].pc \in {"idp", "answer"} => req[r].new \in Tokens

\* The inductive invariant.
IInv == TypeOK /\ RefreshesAreFull /\ RowsFollowLogins /\ LateOnesAreRevoked

USE DEF Live, Revoked, Reasons, Tokens, Disturbances, Steps

-------------------------------------------------------------------------------
(* Types *)

LEMMA TypeInit == Init => TypeOK
  BY TokenAssumption DEF Init, TypeOK, InFlight, Idle, NoLock

\* A new token is a token.
LEMMA NewToken == TypeOK /\ issued < MaxTokens => issued + 1 \in Tokens
  BY TokenAssumption DEF TypeOK

\* A login, whichever way, and the start of a lockdown, whoever starts it.
Login(s) == RedeemInvite(s) \/ \E k \in Passkeys : VerifyLogin(s, k)
LockdownStarts ==
    \E s \in Sessions \cup {NoSession}, tier \in {"A", "B", "C"} : LockdownRevokes(s, tier)

\* The steps of login, passkeys, revocation, lockdown and time keep the types.
LEMMA TypeSession ==
  ASSUME TypeOK, NEW s \in Sessions,
         \/ Login(s) \/ CreateSession(s) \/ RevokeSession(s) \/ Logout(s) \/ RevokeOthers(s)
         \/ GraceEnds(s) \/ Expires(s)
  PROVE  TypeOK'
<1> USE DEF rowVars, browserVars, passkeyVars, adminVars
<1>1. CASE Login(s) BY <1>1 DEF Login, RedeemInvite, VerifyLogin, Admit, TypeOK
<1>2. CASE CreateSession(s) BY <1>2, NewToken DEF CreateSession, SetCookie, TypeOK
<1>3. CASE RevokeSession(s) BY <1>3 DEF RevokeSession, Revoke, TypeOK
<1>4. CASE Logout(s) BY <1>4 DEF Logout, Revoke, TypeOK
<1>5. CASE RevokeOthers(s) BY <1>5 DEF RevokeOthers, RevokeAll, TypeOK
<1>6. CASE GraceEnds(s) BY <1>6 DEF GraceEnds, TypeOK
<1>7. CASE Expires(s) BY <1>7 DEF Expires, TypeOK
<1> QED BY <1>1, <1>2, <1>3, <1>4, <1>5, <1>6, <1>7

LEMMA TypePasskey ==
  ASSUME TypeOK, NEW k \in Passkeys, RegisterPasskey(k) \/ DeletePasskey(k) \/ LockdownDeletes(k)
  PROVE  TypeOK'
<1> USE DEF rowVars, browserVars, passkeyVars, adminVars
<1>1. CASE RegisterPasskey(k) BY <1>1 DEF RegisterPasskey, TypeOK
<1>2. CASE DeletePasskey(k) BY <1>2 DEF DeletePasskey, TypeOK
<1>3. CASE LockdownDeletes(k) BY <1>3 DEF LockdownDeletes, NoLock, TypeOK
<1> QED BY <1>1, <1>2, <1>3

LEMMA TypeGlobal ==
  ASSUME TypeOK, LockdownStarts \/ LockdownReads \/ LockdownEnds \/ IdpDeactivates
  PROVE  TypeOK'
<1> USE DEF rowVars, browserVars, passkeyVars, adminVars
<1>1. CASE LockdownStarts
  <2>1. PICK s \in Sessions \cup {NoSession}, tier \in {"A", "B", "C"} : LockdownRevokes(s, tier)
    BY <1>1 DEF LockdownStarts
  <2>2. revoked' \in [Sessions -> {"none", "no"} \cup Reasons]
    BY <2>1 DEF LockdownRevokes, RevokeAll, TypeOK
  <2>3. lock' \in [pc : {"idle", "read", "delete", "done", "failed"}, tier : {"A", "B", "C"},
                    by : Sessions \cup {NoSession}, read : SUBSET Passkeys, todo : SUBSET Passkeys,
                    old : SUBSET Sessions]
    BY <2>1 DEF LockdownRevokes, NoLock
  <2> QED BY <2>1, <2>2, <2>3 DEF LockdownRevokes, TypeOK
<1>2. CASE LockdownReads BY <1>2 DEF LockdownReads, TypeOK
<1>3. CASE LockdownEnds BY <1>3 DEF LockdownEnds, TypeOK
<1>4. CASE IdpDeactivates BY <1>4 DEF IdpDeactivates, TypeOK
<1> QED BY <1>1, <1>2, <1>3, <1>4

\* A request keeps its type when its step, or a token of it, changes.
LEMMA RequestFields ==
  ASSUME NEW q \in InFlight, NEW step \in Steps, NEW token \in Tokens \cup {NoToken}
  PROVE  /\ [q EXCEPT !.pc = step] \in InFlight
         /\ [q EXCEPT !.pc = step, !.read = token] \in InFlight
         /\ [q EXCEPT !.pc = step, !.new = token] \in InFlight
  BY DEF InFlight

LEMMA IdleIsARequest == Idle \in InFlight
  BY DEF Idle, InFlight

\* The steps of a refresh keep the types.
LEMMA TypeRefresh ==
  ASSUME TypeOK, RefreshesAreFull, NEW r \in Requests,
         \/ Refresh(r)
         \/ \E s \in Busy : \E token \in handed[s] : Arrive(r, s, token)
  PROVE  TypeOK'
<1> USE DEF rowVars, browserVars, passkeyVars, adminVars
<1>1. ASSUME NEW s \in Busy, NEW token \in handed[s], Arrive(r, s, token) PROVE TypeOK'
  BY <1>1, TokenAssumption DEF Arrive, Idle, InFlight, TypeOK
<1>2. CASE Lookup(r)
  <2>1. Respond(r) \/ \E step \in Steps : GoOn(r, step) BY <1>2 DEF Lookup, Decide
  <2>2. req[r] \in InFlight BY DEF TypeOK
  <2>3. req' \in [Requests -> InFlight]
    <3>1. ASSUME NEW step \in Steps, GoOn(r, step) PROVE req' \in [Requests -> InFlight]
      <4>1. [req[r] EXCEPT !.pc = step] \in InFlight BY <2>2, RequestFields
      <4> QED BY <3>1, <4>1 DEF GoOn, TypeOK
    <3>2. CASE Respond(r) BY <3>2, IdleIsARequest DEF Respond, TypeOK
    <3> QED BY <2>1, <3>1, <3>2
  <2> QED BY <1>2, <2>3 DEF Lookup, TypeOK
<1>3. CASE RevokeFound(r) BY <1>3, IdleIsARequest DEF RevokeFound, Revoke, Respond, TypeOK
<1>4. CASE TouchRead(r)
  <2>1. req[r] \in InFlight /\ cur[req[r].of] \in Tokens \cup {NoToken}
    BY <1>4 DEF TouchRead, RefreshesAreFull, TypeOK
  <2>2. req' = [req EXCEPT ![r] = [req[r] EXCEPT !.pc = "write", !.read = cur[req[r].of]]]
    BY <1>4 DEF TouchRead, TypeOK
  <2>3. req' \in [Requests -> InFlight] BY <2>1, <2>2, RequestFields DEF TypeOK
  <2> QED BY <1>4, <2>3 DEF TouchRead, TypeOK
<1>5. CASE TouchWrite(r)
  <2>1. req[r] \in InFlight /\ issued + 1 \in Tokens BY <1>5, NewToken DEF TouchWrite, TypeOK
  <2>2. req' = [req EXCEPT ![r] = [req[r] EXCEPT !.pc = "idp", !.new = issued + 1]]
    BY <1>5 DEF TouchWrite, TypeOK
  <2>3. req' \in [Requests -> InFlight] BY <2>1, <2>2, RequestFields DEF TypeOK
  <2>4. cur' \in [Sessions -> Tokens \cup {NoToken}] /\ prev' \in [Sessions -> Tokens \cup {NoToken}]
        /\ aged' \in [Sessions -> BOOLEAN]
    BY <1>5, <2>1 DEF TouchWrite, Rotate, TypeOK, InFlight
  <2> QED BY <1>5, <2>1, <2>3, <2>4 DEF TouchWrite, TypeOK
<1>6. CASE IdpAnswers(r)
  <2>1. req[r] \in InFlight BY DEF TypeOK
  <2>2. req' \in [Requests -> InFlight] BY <1>6, <2>1, RequestFields DEF IdpAnswers, GoOn, TypeOK
  <2> QED BY <1>6, <2>2 DEF IdpAnswers, TypeOK
<1>7. CASE Deliver(r) BY <1>7, IdleIsARequest DEF Deliver, RefreshesAreFull, SetCookie, Respond, TypeOK
<1>8. CASE Lose(r) BY <1>8, IdleIsARequest DEF Lose, Disturb, Respond, TypeOK
<1> QED BY <1>1, <1>2, <1>3, <1>4, <1>5, <1>6, <1>7, <1>8 DEF Refresh

\* The steps that are not a refresh's, as one action.
Other ==
    \/ \E s \in Sessions :
         \/ Login(s) \/ CreateSession(s) \/ RevokeSession(s) \/ Logout(s) \/ RevokeOthers(s)
         \/ GraceEnds(s) \/ Expires(s)
    \/ \E k \in Passkeys : RegisterPasskey(k) \/ DeletePasskey(k) \/ LockdownDeletes(k)
    \/ LockdownStarts \/ LockdownReads \/ LockdownEnds \/ IdpDeactivates

LEMMA NextIsOneOfTheThree ==
  ASSUME Next
  PROVE  \/ Other
         \/ \E r \in Requests : Refresh(r)
         \/ \E r \in Requests, s \in Busy : \E token \in handed[s] : Arrive(r, s, token)
  BY TokenAssumption DEF Next, Other, Login, LockdownStarts

\* None of them touches a refresh, and each leaves a revoked row as it is.
LEMMA OtherKeepsRows ==
  ASSUME TypeOK, RowsFollowLogins, Other
  PROVE  /\ UNCHANGED <<req, late>>
         /\ \A s \in Sessions : Revoked(s) => revoked'[s] = revoked[s]
         /\ \A s \in Sessions : revoked[s] # "none" => revoked'[s] # "none"
         /\ RowsFollowLogins'
<1> USE DEF rowVars, browserVars, passkeyVars, adminVars
<1> DEFINE Goal == /\ UNCHANGED <<req, late>>
                   /\ \A t \in Sessions : Revoked(t) => revoked'[t] = revoked[t]
                   /\ \A t \in Sessions : revoked[t] # "none" => revoked'[t] # "none"
                   /\ RowsFollowLogins'
<1>1. ASSUME NEW s \in Sessions, Login(s) PROVE Goal
  BY <1>1 DEF Login, RedeemInvite, VerifyLogin, Admit, TypeOK, RowsFollowLogins
<1>2. ASSUME NEW s \in Sessions, CreateSession(s) PROVE Goal
  BY <1>2 DEF CreateSession, TypeOK, RowsFollowLogins
<1>3. ASSUME \/ LockdownStarts
             \/ \E s \in Sessions : RevokeSession(s) \/ Logout(s) \/ RevokeOthers(s)
      PROVE  Goal
  <2>1. UNCHANGED <<req, late, login>>
    BY <1>3 DEF LockdownStarts, RevokeSession, Logout, RevokeOthers, LockdownRevokes
  <2>2. \/ \E kept : \E reason \in Reasons : RevokeAll(reason, kept)
        \/ \E s \in Sessions, reason \in Reasons : Revoke(s, reason)
    BY <1>3 DEF LockdownStarts, RevokeSession, Logout, RevokeOthers, LockdownRevokes
  <2>3. \A t \in Sessions : revoked'[t] = revoked[t] \/ (Live(t) /\ revoked'[t] \in Reasons)
    BY <2>2 DEF Revoke, RevokeAll, TypeOK
  <2> QED BY <2>1, <2>3 DEF RowsFollowLogins
<1>4. ASSUME \/ \E s \in Sessions : GraceEnds(s) \/ Expires(s)
             \/ \E k \in Passkeys : RegisterPasskey(k) \/ DeletePasskey(k) \/ LockdownDeletes(k)
             \/ LockdownReads \/ LockdownEnds \/ IdpDeactivates
      PROVE  Goal
  <2>1. UNCHANGED <<req, late, revoked, login>>
    BY <1>4 DEF GraceEnds, Expires, RegisterPasskey, DeletePasskey, LockdownDeletes, LockdownReads,
                LockdownEnds, IdpDeactivates
  <2> QED BY <2>1 DEF RowsFollowLogins
<1> HIDE DEF Goal
<1>5. Goal BY <1>1, <1>2, <1>3, <1>4 DEF Other
<1> QED BY <1>5 DEF Goal

\* A refresh only revokes a live row.
LEMMA RefreshKeepsRows ==
  ASSUME TypeOK, RefreshesAreFull, NEW r \in Requests, Refresh(r)
  PROVE  /\ UNCHANGED <<login, late>>
         /\ \A s \in Sessions : Revoked(s) => revoked'[s] = revoked[s]
         /\ \A s \in Sessions : revoked[s] = "none" <=> revoked'[s] = "none"
  BY DEF Refresh, Lookup, RevokeFound, TouchRead, TouchWrite, IdpAnswers, Deliver, Lose, Decide, Revoke,
         Respond, GoOn, TypeOK, RefreshesAreFull, rowVars, browserVars, passkeyVars, adminVars

\* A refresh changes its own request only.
LEMMA RefreshKeepsOthers ==
  ASSUME TypeOK, NEW r \in Requests, Refresh(r), NEW q \in Requests, q # r
  PROVE  req'[q] = req[q]
  BY DEF Refresh, Lookup, RevokeFound, TouchRead, TouchWrite, IdpAnswers, Deliver, Lose, Decide,
         Respond, GoOn, TypeOK

\* A refresh at its lookup is answered if its row is revoked; from there on it keeps its session.
LEMMA RefreshOwnRequest ==
  ASSUME TypeOK, RefreshesAreFull, NEW r \in Requests, Refresh(r)
  PROVE  /\ req'[r].pc # "idle" => req'[r].of \in Sessions
         /\ req'[r].pc \in {"idp", "answer"} => req'[r].new \in Tokens
         /\ req[r].pc # "idle"
         /\ req[r].pc = "lookup" /\ Revoked(req[r].of) => req'[r].pc = "idle"
<1>1. CASE Lookup(r) BY <1>1 DEF Lookup, Decide, Respond, GoOn, Idle, InFlight, TypeOK, RefreshesAreFull
<1>2. CASE RevokeFound(r) BY <1>2 DEF RevokeFound, Respond, Idle, TypeOK
<1>3. CASE TouchRead(r) BY <1>3 DEF TouchRead, TypeOK, RefreshesAreFull
<1>4. CASE TouchWrite(r) BY <1>4, NewToken DEF TouchWrite, TypeOK, RefreshesAreFull
<1>5. CASE IdpAnswers(r) BY <1>5 DEF IdpAnswers, GoOn, TypeOK, RefreshesAreFull
<1>6. CASE Deliver(r) \/ Lose(r) BY <1>6 DEF Deliver, Lose, Respond, Idle, TypeOK
<1> QED BY <1>1, <1>2, <1>3, <1>4, <1>5, <1>6 DEF Refresh

\* An arrival changes its own request only, and notes whether it came too late.
LEMMA ArriveStep ==
  ASSUME TypeOK, NEW r \in Requests, NEW s \in Busy, NEW token \in handed[s], Arrive(r, s, token)
  PROVE  /\ UNCHANGED <<revoked, login>>
         /\ \A q \in Requests : q # r => req'[q] = req[q]
         /\ req'[r].pc = "lookup" /\ req'[r].of = s /\ s \in Sessions
         /\ late' = IF Revoked(s) THEN late \cup {r} ELSE late \ {r}
  BY TokenAssumption DEF Arrive, Idle, TypeOK, rowVars, adminVars

-------------------------------------------------------------------------------

LEMMA Invariance == IInv /\ [Next]_vars => IInv'
<1> SUFFICES ASSUME IInv, [Next]_vars PROVE IInv'
  OBVIOUS
<1> USE DEF IInv
<1>1. CASE Other
  <2>1. TypeOK' BY <1>1, TypeSession, TypePasskey, TypeGlobal DEF Other
  <2>2. RefreshesAreFull' BY <1>1, OtherKeepsRows DEF RefreshesAreFull
  <2>3. RowsFollowLogins' BY <1>1, OtherKeepsRows
  <2>4. LateOnesAreRevoked' BY <1>1, OtherKeepsRows DEF LateOnesAreRevoked, TypeOK
  <2> QED BY <2>1, <2>2, <2>3, <2>4
<1>2. ASSUME NEW r \in Requests, Refresh(r) PROVE IInv'
  <2>1. TypeOK' BY <1>2, TypeRefresh
  <2>2. RefreshesAreFull' BY <1>2, RefreshKeepsOthers, RefreshOwnRequest DEF RefreshesAreFull
  <2>3. RowsFollowLogins' BY <1>2, RefreshKeepsRows DEF RowsFollowLogins
  <2>4. LateOnesAreRevoked'
    <3> SUFFICES ASSUME NEW q \in late PROVE (\/ req[q].pc = "idle"
                                              \/ req[q].pc = "lookup" /\ req[q].of \in Sessions /\ Revoked(req[q].of))'
      BY <1>2, RefreshKeepsRows DEF LateOnesAreRevoked
    <3>1. q \in Requests BY DEF TypeOK
    <3>2. CASE q = r BY <3>2, <1>2, RefreshOwnRequest DEF LateOnesAreRevoked
    <3>3. CASE q # r BY <3>1, <3>3, <1>2, RefreshKeepsOthers, RefreshKeepsRows DEF LateOnesAreRevoked
    <3> QED BY <3>2, <3>3
  <2> QED BY <2>1, <2>2, <2>3, <2>4
<1>3. ASSUME NEW r \in Requests, NEW s \in Busy, NEW token \in handed[s], Arrive(r, s, token) PROVE IInv'
  <2>1. TypeOK' BY <1>3, TypeRefresh
  <2>2. RefreshesAreFull' BY <1>3, ArriveStep DEF RefreshesAreFull
  <2>3. RowsFollowLogins' BY <1>3, ArriveStep DEF RowsFollowLogins
  <2>4. LateOnesAreRevoked' BY <1>3, ArriveStep DEF LateOnesAreRevoked, TypeOK
  <2> QED BY <2>1, <2>2, <2>3, <2>4
<1>4. CASE UNCHANGED vars
  BY <1>4 DEF vars, rowVars, browserVars, passkeyVars, adminVars, TypeOK, RefreshesAreFull, RowsFollowLogins, LateOnesAreRevoked
<1> QED BY <1>1, <1>2, <1>3, <1>4, NextIsOneOfTheThree

LEMMA InvariantHolds == Spec => []IInv
<1>1. Init => IInv
  BY TypeInit DEF Init, Idle, IInv, RefreshesAreFull, RowsFollowLogins, LateOnesAreRevoked
<1> QED BY <1>1, Invariance, PTL DEF Spec

-------------------------------------------------------------------------------

\* The types of the model's variables hold for every number of sessions, refreshes and
\* tokens.
THEOREM SessionTypes == Spec => []TypeOK
<1>1. IInv => TypeOK BY DEF IInv
<1> QED BY <1>1, InvariantHolds, PTL

\* A refresh that arrives after the revocation of its session never gets past the
\* check of revokedAt: no access token, no rotation.
THEOREM LateRefreshesAreRefused == Spec => []LateRefreshIsRefused
<1>1. IInv => LateRefreshIsRefused BY DEF IInv, LateOnesAreRevoked, LateRefreshIsRefused
<1> QED BY <1>1, InvariantHolds, PTL

\* Whatever interleaves with it, a revocation is for good: no refresh, login or later
\* revocation makes the session live again or rewrites the reason.
THEOREM RevocationIsFinal == Spec => RevokedForGood
<1>1. IInv /\ [Next]_vars => [\A s \in Sessions : Revoked(s) => revoked'[s] = revoked[s]]_vars
  <2> SUFFICES ASSUME IInv, Next PROVE \A s \in Sessions : Revoked(s) => revoked'[s] = revoked[s]
    OBVIOUS
  <2> USE DEF IInv
  <2>1. CASE Other BY <2>1, OtherKeepsRows
  <2>2. CASE \E r \in Requests : Refresh(r) BY <2>2, RefreshKeepsRows
  <2>3. CASE \E r \in Requests, s \in Busy : \E token \in handed[s] : Arrive(r, s, token) BY <2>3, ArriveStep
  <2> QED BY <2>1, <2>2, <2>3, NextIsOneOfTheThree
<1> QED BY <1>1, InvariantHolds, PTL DEF Spec, RevokedForGood

-------------------------------------------------------------------------------
(* The lockdown *)

\* The passkeys a lockdown is to delete, as soon as it has read them.
Gone == lock.read \ KeptKey(lock.tier, lock.by)

\* What was open when the lockdown began is out, but for the caller in the tiers A and B.
OldAreOut ==
    lock.pc \in {"read", "delete", "done"} =>
      \A s \in lock.old : revoked[s] # "none" /\ (Live(s) => s \in Kept(lock.tier, lock.by))

\* The caller has logged in, so that his passkey is settled.
CallerIsIn == lock.by \in Sessions => login[lock.by] = "done"

\* A passkey that was read is deleted, or still to be, and is never registered again.
PasskeysGo ==
    /\ lock.pc \notin {"delete", "done"} => lock.read = {}
    /\ lock.read \cap unused = {}
    /\ lock.pc = "delete" => passkeys \cap Gone \subseteq lock.todo
    /\ lock.pc = "done" => passkeys \cap Gone = {}

\* Whoever logs in before the end does so early, and afterwards with another passkey.
LoginsAreEarly ==
    \A s \in Sessions : login[s] # "out" => s \in early \/ (lock.pc = "done" /\ key[s] \notin Gone)

LockInv == OldAreOut /\ CallerIsIn /\ PasskeysGo /\ LoginsAreEarly

-------------------------------------------------------------------------------
(* The tokens of an undisturbed session *)

\* One refresh at a time, which found the current token, or brings it.
Refreshing(r, s) == req[r].of = s
Alone(s) == \A q, r \in Requests : Refreshing(q, s) /\ Refreshing(r, s) => q = r
Brings(r, s) == /\ req[r].pc = "lookup" => req[r].token = cur[s]
                /\ req[r].pc \in {"idp", "answer"} => req[r].new = cur[s]
Current(s) == /\ (\A r \in Requests : ~Refreshing(r, s)) => jar[s] = cur[s]
              /\ \A r \in Requests : Refreshing(r, s) => Brings(r, s)

\* Tokens are of sessions that were opened, and those have rows.
Opened(s) ==
    /\ handed[s] # {} \/ jar[s] # NoToken \/ (\E r \in Requests : Refreshing(r, s)) => login[s] = "done"
    /\ login[s] = "done" => revoked[s] # "none"

\* Only a disturbed session is revoked, or about to be, for a replay.
ReplaysAreDisturbed(s) ==
    /\ revoked[s] = "replay" => mess[s] # {}
    /\ \A r \in Requests : Refreshing(r, s) /\ req[r].pc = "replay" => mess[s] # {}

Tidy(s) == /\ mess[s] = {} => Alone(s)
           /\ Live(s) /\ mess[s] = {} => Current(s)
           /\ Opened(s) /\ ReplaysAreDisturbed(s)

OverIsIdle == \A r \in Requests : req[r].pc = "idle" => req[r] = Idle
CallerIsOut == lock.tier = "C" /\ lock.pc \in {"read", "delete"} /\ lock.by \in Sessions => Revoked(lock.by)

TokenInv == (\A s \in Sessions : Tidy(s)) /\ OverIsIdle /\ CallerIsOut

-------------------------------------------------------------------------------

\* No step opens a row again, or takes it away.
LEMMA RowsStay ==
  ASSUME TypeOK, RefreshesAreFull, RowsFollowLogins, [Next]_vars, NEW s \in Sessions, revoked[s] # "none"
  PROVE  revoked'[s] # "none" /\ (Live(s)' => Live(s))
<1>1. CASE Other BY <1>1, OtherKeepsRows DEF TypeOK
<1>2. CASE \E r \in Requests : Refresh(r) BY <1>2, RefreshKeepsRows DEF TypeOK
<1>3. CASE \E r \in Requests, t \in Busy : \E token \in handed[t] : Arrive(r, t, token)
  BY <1>3, ArriveStep
<1>4. CASE UNCHANGED vars BY <1>4 DEF vars, rowVars
<1> QED BY <1>1, <1>2, <1>3, <1>4, NextIsOneOfTheThree

\* A session whose login is done keeps its passkey, and its login.
LEMMA CallerStays ==
  ASSUME TypeOK, LockInv, UNCHANGED lock,
         \A t \in Sessions : login[t] = "done" => login'[t] = "done" /\ key'[t] = key[t]
  PROVE  CallerIsIn' /\ Gone' = Gone
  BY DEF LockInv, CallerIsIn, Gone, KeptKey, TypeOK

\* Only logins, passkeys and the lockdown itself matter to the lockdown's end.
LEMMA LockKept ==
  ASSUME TypeOK, LockInv, UNCHANGED <<lock, login, key, unused, early>>, passkeys' \subseteq passkeys,
         \A s \in Sessions : revoked[s] # "none" => revoked'[s] # "none" /\ (Live(s)' => Live(s))
  PROVE  LockInv'
<1>1. CallerIsIn' /\ Gone' = Gone BY CallerStays
<1>2. OldAreOut' BY DEF LockInv, OldAreOut, TypeOK
<1>3. PasskeysGo' BY <1>1 DEF LockInv, PasskeysGo
<1>4. LoginsAreEarly' BY <1>1 DEF LockInv, LoginsAreEarly
<1> QED BY <1>1, <1>2, <1>3, <1>4 DEF LockInv

LEMMA LockStep ==
  ASSUME TypeOK, RefreshesAreFull, RowsFollowLogins, TokenInv, LockInv, [Next]_vars
  PROVE  LockInv'
<1> USE DEF rowVars, browserVars, passkeyVars, adminVars
<1>1. ASSUME NEW s \in Sessions, NEW k, Admit(s, k), k \in passkeys \/ k = NoPasskey PROVE LockInv'
  <2>1. /\ UNCHANGED <<lock, passkeys, unused, revoked>> /\ login[s] = "out" /\ key'[s] = k
        /\ \A t \in Sessions \ {s} : login'[t] = login[t] /\ key'[t] = key[t]
        /\ early \subseteq early' /\ (lock.pc # "done" => s \in early')
    BY <1>1 DEF Admit, TypeOK
  <2>2. CallerIsIn' /\ Gone' = Gone BY <2>1, CallerStays
  <2>3. OldAreOut' BY <2>1 DEF LockInv, OldAreOut
  <2>4. PasskeysGo' BY <2>1, <2>2 DEF LockInv, PasskeysGo
  <2>5. Gone \subseteq Passkeys BY DEF Gone, TypeOK
  <2>6. lock.pc = "done" => k \notin Gone
    BY <1>1, <2>5, TokenAssumption DEF LockInv, PasskeysGo
  <2>7. LoginsAreEarly' BY <2>1, <2>2, <2>6 DEF LockInv, LoginsAreEarly
  <2> QED BY <2>2, <2>3, <2>4, <2>7 DEF LockInv
<1>2. ASSUME NEW s \in Sessions, CreateSession(s) PROVE LockInv'
  <2>1. /\ UNCHANGED <<lock, passkeys, unused, early, key>> /\ login[s] = "verified" /\ login'[s] = "done"
        /\ \A t \in Sessions \ {s} : login'[t] = login[t]
    BY <1>2 DEF CreateSession, TypeOK
  <2>2. CallerIsIn' /\ Gone' = Gone BY <2>1, CallerStays
  <2>3. OldAreOut' BY <2>1, RowsStay DEF LockInv, OldAreOut, TypeOK
  <2>4. PasskeysGo' BY <2>1, <2>2 DEF LockInv, PasskeysGo
  <2>5. LoginsAreEarly' BY <2>1, <2>2 DEF LockInv, LoginsAreEarly
  <2> QED BY <2>2, <2>3, <2>4, <2>5 DEF LockInv
<1>3. ASSUME NEW s \in Sessions \cup {NoSession}, NEW tier \in {"A", "B", "C"}, LockdownRevokes(s, tier)
      PROVE  LockInv'
  <2>1. /\ UNCHANGED <<login, key, passkeys, unused, early>> /\ lock.pc = "idle"
        /\ s # NoSession => jar[s] # NoToken
        /\ revoked' = [t \in Sessions |-> IF Live(t) /\ t \notin Kept(tier, s) THEN "lockdown" ELSE revoked[t]]
    BY <1>3 DEF LockdownRevokes, RevokeAll
  <2>2. /\ lock'.tier = tier /\ lock'.by = s /\ lock'.read = {}
        /\ lock'.pc = IF tier = "A" THEN "done" ELSE "read"
        /\ lock'.old = {t \in Sessions : revoked[t] # "none"}
    BY <1>3 DEF LockdownRevokes, NoLock
  <2>3. OldAreOut' BY <2>1, <2>2 DEF OldAreOut, TypeOK
  <2>4. CallerIsIn' BY <2>1, <2>2, TokenAssumption DEF CallerIsIn, TokenInv, Tidy, Opened
  <2>5. PasskeysGo' BY <2>2 DEF PasskeysGo, Gone
  <2>6. LoginsAreEarly' BY <2>1 DEF LockInv, LoginsAreEarly
  <2> QED BY <2>3, <2>4, <2>5, <2>6 DEF LockInv
<1>4. CASE LockdownReads
  <2>1. /\ UNCHANGED <<login, key, passkeys, unused, early, revoked>> /\ lock.pc = "read"
        /\ lock'.tier = lock.tier /\ lock'.by = lock.by /\ lock'.old = lock.old
        /\ lock'.pc = "delete" /\ lock'.read = passkeys
        /\ lock'.todo = passkeys \ KeptKey(lock.tier, lock.by)
    BY <1>4 DEF LockdownReads, TypeOK
  <2>2. OldAreOut' BY <2>1 DEF LockInv, OldAreOut
  <2>3. CallerIsIn' BY <2>1 DEF LockInv, CallerIsIn
  <2>4. PasskeysGo' BY <2>1 DEF PasskeysGo, Gone, KeptKey, TypeOK
  <2>5. LoginsAreEarly' BY <2>1 DEF LockInv, LoginsAreEarly
  <2> QED BY <2>2, <2>3, <2>4, <2>5 DEF LockInv
<1>5. ASSUME NEW k \in Passkeys, LockdownDeletes(k) PROVE LockInv'
  <2>1. /\ UNCHANGED <<login, key, unused, early, revoked>> /\ lock.pc = "delete" /\ passkeys' = passkeys \ {k}
        /\ \/ /\ lock'.pc = "delete" /\ lock'.todo = lock.todo \ {k}
              /\ lock'.tier = lock.tier /\ lock'.by = lock.by /\ lock'.old = lock.old /\ lock'.read = lock.read
           \/ lock'.pc = "failed" /\ lock'.by = NoSession /\ lock'.read = {}
    BY <1>5 DEF LockdownDeletes, NoLock, TypeOK
  <2>2. OldAreOut' BY <2>1 DEF LockInv, OldAreOut
  <2>3. CallerIsIn' BY <2>1, TokenAssumption DEF LockInv, CallerIsIn
  <2>4. PasskeysGo' BY <2>1 DEF LockInv, PasskeysGo, Gone, KeptKey
  <2>5. LoginsAreEarly' BY <2>1 DEF LockInv, LoginsAreEarly
  <2> QED BY <2>2, <2>3, <2>4, <2>5 DEF LockInv
<1>6. CASE LockdownEnds
  <2>1. /\ UNCHANGED <<login, key, passkeys, unused, early, revoked>> /\ lock.pc = "delete" /\ lock.todo = {}
        /\ lock'.pc = "done" /\ lock'.tier = lock.tier /\ lock'.by = lock.by /\ lock'.old = lock.old
        /\ lock'.read = lock.read
    BY <1>6 DEF LockdownEnds, TypeOK
  <2>2. OldAreOut' BY <2>1 DEF LockInv, OldAreOut
  <2>3. CallerIsIn' BY <2>1 DEF LockInv, CallerIsIn
  <2>4. PasskeysGo' BY <2>1 DEF LockInv, PasskeysGo, Gone, KeptKey
  <2>5. LoginsAreEarly' BY <2>1 DEF LockInv, LoginsAreEarly
  <2> QED BY <2>2, <2>3, <2>4, <2>5 DEF LockInv
<1>7. ASSUME NEW k \in Passkeys, RegisterPasskey(k) PROVE LockInv'
  <2>1. /\ UNCHANGED <<lock, login, key, early, revoked>> /\ k \in unused
        /\ passkeys' = passkeys \cup {k} /\ unused' = unused \ {k}
    BY <1>7 DEF RegisterPasskey
  <2>2. CallerIsIn' /\ Gone' = Gone BY <2>1, CallerStays
  <2>3. k \notin Gone BY <2>1 DEF LockInv, PasskeysGo, Gone
  <2>4. PasskeysGo' BY <2>1, <2>2, <2>3 DEF LockInv, PasskeysGo
  <2> QED BY <2>1, <2>2, <2>4 DEF LockInv, OldAreOut, LoginsAreEarly
<1>8. CASE Other
  <2>1. ASSUME NEW s \in Sessions, Login(s) PROVE LockInv'
    BY <1>1, <2>1 DEF Login, RedeemInvite, VerifyLogin
  <2>2. ASSUME \/ \E s \in Sessions : \/ RevokeSession(s) \/ Logout(s) \/ RevokeOthers(s)
                                     \/ GraceEnds(s) \/ Expires(s)
               \/ (\E k \in Passkeys : DeletePasskey(k)) \/ IdpDeactivates
        PROVE  LockInv'
    <3>1. UNCHANGED <<lock, login, key, unused, early>> /\ passkeys' \subseteq passkeys
      BY <2>2 DEF RevokeSession, Logout, RevokeOthers, GraceEnds, Expires, DeletePasskey, IdpDeactivates
    <3> QED BY <3>1, LockKept, RowsStay
  <2> QED BY <1>2, <1>3, <1>4, <1>5, <1>6, <1>7, <1>8, <2>1, <2>2 DEF Other, LockdownStarts
<1>9. ASSUME NEW r \in Requests, Refresh(r) PROVE LockInv'
  <2>1. UNCHANGED <<lock, login, key, unused, early, passkeys>>
    BY <1>9 DEF Refresh, Lookup, RevokeFound, TouchRead, TouchWrite, IdpAnswers, Deliver, Lose
  <2> QED BY <2>1, LockKept, RowsStay
<1>10. ASSUME NEW r \in Requests, NEW s \in Busy, NEW token \in handed[s], Arrive(r, s, token) PROVE LockInv'
  <2>1. UNCHANGED <<lock, login, key, unused, early, passkeys>> BY <1>10 DEF Arrive
  <2> QED BY <2>1, LockKept, RowsStay
<1>11. CASE UNCHANGED vars
  <2>1. UNCHANGED <<lock, login, key, unused, early, passkeys>> BY <1>11 DEF vars
  <2> QED BY <2>1, LockKept, RowsStay
<1> QED BY <1>8, <1>9, <1>10, <1>11, NextIsOneOfTheThree

-------------------------------------------------------------------------------

\* A refresh has to do with its own session only.
LEMMA RefreshKeepsLogins ==
  ASSUME TypeOK, RefreshesAreFull, NEW r \in Requests, Refresh(r)
  PROVE  UNCHANGED <<login, lock, passkeys>>
  BY DEF Refresh, Lookup, RevokeFound, TouchRead, TouchWrite, IdpAnswers, Deliver, Lose,
         rowVars, browserVars, passkeyVars, adminVars

LEMMA RefreshStaysHome ==
  ASSUME TypeOK, RefreshesAreFull, NEW r \in Requests, Refresh(r), NEW t \in Sessions, t # req[r].of
  PROVE  /\ cur'[t] = cur[t] /\ jar'[t] = jar[t] /\ handed'[t] = handed[t]
         /\ mess'[t] = mess[t] /\ revoked'[t] = revoked[t]
<1> USE DEF rowVars, browserVars, passkeyVars, adminVars, RefreshesAreFull
<1>1. CASE Lookup(r) BY <1>1 DEF Lookup
<1>2. CASE RevokeFound(r) BY <1>2 DEF RevokeFound, Revoke, TypeOK
<1>3. CASE TouchRead(r) BY <1>3 DEF TouchRead
<1>4. CASE TouchWrite(r) BY <1>4 DEF TouchWrite, Rotate, TypeOK
<1>5. CASE IdpAnswers(r) BY <1>5 DEF IdpAnswers
<1>6. CASE Deliver(r) BY <1>6 DEF Deliver, SetCookie, TypeOK
<1>7. CASE Lose(r) BY <1>7 DEF Lose, Disturb, TypeOK
<1> QED BY <1>1, <1>2, <1>3, <1>4, <1>5, <1>6, <1>7 DEF Refresh

\* A refresh is over, or goes on for its session.
LEMMA RefreshGoesOn ==
  ASSUME TypeOK, RefreshesAreFull, NEW r \in Requests, Refresh(r)
  PROVE  req'[r] = Idle \/ (req'[r].of = req[r].of /\ req'[r].pc # "idle")
<1>1. CASE Lookup(r) BY <1>1 DEF Lookup, Decide, Respond, GoOn, InFlight, TypeOK, RefreshesAreFull
<1>2. CASE RevokeFound(r) BY <1>2 DEF RevokeFound, Respond, TypeOK
<1>3. CASE TouchRead(r) BY <1>3 DEF TouchRead, TypeOK, RefreshesAreFull
<1>4. CASE TouchWrite(r) BY <1>4 DEF TouchWrite, TypeOK, RefreshesAreFull
<1>5. CASE IdpAnswers(r) BY <1>5 DEF IdpAnswers, GoOn, TypeOK, RefreshesAreFull
<1>6. CASE Deliver(r) \/ Lose(r) BY <1>6 DEF Deliver, Lose, Respond, TypeOK
<1> QED BY <1>1, <1>2, <1>3, <1>4, <1>5, <1>6 DEF Refresh

\* What leaves the refreshes and the tokens of a session alone, and revokes it at most.
LEMMA TidyKept ==
  ASSUME NEW s \in Sessions, Tidy(s),
         \A q \in Requests : req'[q] = req[q] \/ (req[q].of # s /\ req'[q].of # s),
         cur'[s] = cur[s], handed'[s] = handed[s], mess'[s] = mess[s], login'[s] = login[s],
         revoked'[s] = revoked[s] \/ revoked'[s] \in {"user", "lockdown"},
         jar'[s] = jar[s] \/ (jar'[s] = NoToken /\ revoked'[s] # "no")
  PROVE  Tidy(s)'
<1>1. \A q \in Requests : /\ Refreshing(q, s)' <=> Refreshing(q, s)
                          /\ Refreshing(q, s) => req'[q] = req[q]
  BY DEF Refreshing
<1>2. mess'[s] = {} => Alone(s)' BY <1>1 DEF Tidy, Alone
<1>3. Live(s)' /\ mess'[s] = {} => Current(s)'
  <2> SUFFICES ASSUME Live(s)', mess'[s] = {} PROVE Current(s)'
    OBVIOUS
  <2>1. jar'[s] = jar[s] /\ Current(s) BY DEF Tidy
  <2> QED BY <1>1, <2>1 DEF Current, Brings
<1>4. Opened(s)' BY <1>1 DEF Tidy, Opened
<1>5. ReplaysAreDisturbed(s)' BY <1>1 DEF Tidy, ReplaysAreDisturbed
<1> QED BY <1>2, <1>3, <1>4, <1>5 DEF Tidy

\* The steps of login, revocation, lockdown and time.
LEMMA TidyOther ==
  ASSUME TypeOK, RefreshesAreFull, RowsFollowLogins, TokenInv, Other
  PROVE  TokenInv'
<1> USE DEF rowVars, browserVars, passkeyVars, adminVars
<1>1. req' = req /\ OverIsIdle' BY OtherKeepsRows DEF OverIsIdle, TokenInv
<1>2. ASSUME UNCHANGED <<lock>> PROVE CallerIsOut'
  BY <1>2, OtherKeepsRows DEF TokenInv, CallerIsOut, TypeOK
<1>3. ASSUME NEW s \in Sessions, Login(s) PROVE TokenInv'
  <2>1. \A t \in Sessions : login'[t] = login[t] \/ (login[t] = "out" /\ login'[t] = "verified")
    BY <1>3 DEF Login, RedeemInvite, VerifyLogin, Admit, TypeOK
  <2>2. UNCHANGED <<lock, cur, handed, jar, mess, revoked>>
    BY <1>3 DEF Login, RedeemInvite, VerifyLogin, Admit
  <2>3. ASSUME NEW t \in Sessions PROVE Tidy(t)'
    BY <1>1, <2>1, <2>2 DEF TokenInv, Tidy, Alone, Current, Opened, ReplaysAreDisturbed, Refreshing, Brings
  <2> QED BY <1>1, <1>2, <2>2, <2>3 DEF TokenInv
<1>4. ASSUME NEW s \in Sessions, CreateSession(s) PROVE TokenInv'
  <2>1. /\ UNCHANGED <<lock, mess>> /\ login[s] = "verified" /\ login'[s] = "done"
        /\ revoked'[s] = "no" /\ cur'[s] = issued' /\ jar'[s] = issued'
        /\ \A t \in Sessions \ {s} : /\ login'[t] = login[t] /\ revoked'[t] = revoked[t] /\ cur'[t] = cur[t]
                                     /\ jar'[t] = jar[t] /\ handed'[t] = handed[t]
    BY <1>4 DEF CreateSession, SetCookie, TypeOK
  <2>2. ASSUME NEW t \in Sessions, t # s PROVE Tidy(t)'
    BY <1>1, <2>1, <2>2, TidyKept DEF TokenInv
  <2>3. Tidy(s)'
    <3>1. \A r \in Requests : ~Refreshing(r, s) /\ ~Refreshing(r, s)'
      BY <1>1, <2>1 DEF TokenInv, Tidy, Opened, Refreshing
    <3> QED BY <2>1, <3>1 DEF Tidy, Alone, Current, Opened, ReplaysAreDisturbed
  <2> QED BY <1>1, <1>2, <2>1, <2>2, <2>3 DEF TokenInv
<1>5. ASSUME UNCHANGED <<cur, handed, mess, login>>,
             \A t \in Sessions : revoked'[t] = revoked[t] \/ revoked'[t] \in {"user", "lockdown"},
             \A t \in Sessions : jar'[t] = jar[t] \/ (jar'[t] = NoToken /\ revoked'[t] # "no")
      PROVE  \A t \in Sessions : Tidy(t)'
  BY <1>1, <1>5, TidyKept DEF TokenInv
<1>6. ASSUME NEW s \in Sessions, RevokeSession(s) \/ Logout(s) \/ RevokeOthers(s) PROVE TokenInv'
  <2>1. /\ UNCHANGED <<cur, handed, mess, login, lock>>
        /\ \A t \in Sessions : revoked'[t] = revoked[t] \/ revoked'[t] \in {"user", "lockdown"}
    BY <1>6 DEF RevokeSession, Logout, RevokeOthers, Revoke, RevokeAll, TypeOK
  <2>2. \A t \in Sessions : jar'[t] = jar[t] \/ (jar'[t] = NoToken /\ revoked'[t] # "no")
    BY <1>6 DEF RevokeSession, Logout, RevokeOthers, Revoke, TypeOK
  <2> QED BY <1>1, <1>2, <1>5, <2>1, <2>2 DEF TokenInv
<1>7. CASE LockdownStarts
  <2>1. PICK s \in Sessions \cup {NoSession}, tier \in {"A", "B", "C"} : LockdownRevokes(s, tier)
    BY <1>7 DEF LockdownStarts
  <2>2. /\ UNCHANGED <<cur, handed, mess, login, jar>> /\ (s # NoSession => jar[s] # NoToken)
        /\ revoked' = [t \in Sessions |-> IF Live(t) /\ t \notin Kept(tier, s) THEN "lockdown" ELSE revoked[t]]
    BY <2>1 DEF LockdownRevokes, RevokeAll
  <2>3. lock'.tier = tier /\ lock'.by = s BY <2>1 DEF LockdownRevokes, NoLock
  <2>4. s \in Sessions => revoked[s] # "none" BY <2>2, TokenAssumption DEF TokenInv, Tidy, Opened
  <2>5. tier = "C" /\ s \in Sessions => Revoked(s)' BY <2>2, <2>4 DEF Kept, TypeOK
  <2>6. CallerIsOut' BY <2>3, <2>5 DEF CallerIsOut
  <2> QED BY <1>1, <1>5, <2>2, <2>6 DEF TokenInv
<1>8. CASE LockdownReads
  <2>1. /\ UNCHANGED <<cur, handed, mess, login, jar, revoked>>
        /\ lock.pc = "read" /\ lock'.tier = lock.tier /\ lock'.by = lock.by
    BY <1>8 DEF LockdownReads, TypeOK
  <2>2. CallerIsOut' BY <2>1 DEF TokenInv, CallerIsOut
  <2> QED BY <1>1, <1>5, <2>1, <2>2 DEF TokenInv
<1>9. ASSUME NEW k \in Passkeys, LockdownDeletes(k) PROVE TokenInv'
  <2>1. /\ UNCHANGED <<cur, handed, mess, login, jar, revoked>>
        /\ \/ lock'.pc = "failed"
           \/ lock.pc = "delete" /\ lock'.tier = lock.tier /\ lock'.by = lock.by
    BY <1>9 DEF LockdownDeletes, NoLock, TypeOK
  <2>2. CallerIsOut' BY <2>1 DEF TokenInv, CallerIsOut
  <2> QED BY <1>1, <1>5, <2>1, <2>2 DEF TokenInv
<1>10. CASE LockdownEnds
  <2>1. /\ UNCHANGED <<cur, handed, mess, login, revoked>> /\ lock'.pc = "done" /\ lock.pc = "delete"
        /\ jar' = [t \in Sessions |-> IF lock.tier = "C" /\ t = lock.by THEN NoToken ELSE jar[t]]
    BY <1>10 DEF LockdownEnds, TypeOK
  <2>2. CallerIsOut' BY <2>1 DEF CallerIsOut
  <2>3. \A t \in Sessions : jar'[t] = jar[t] \/ (jar'[t] = NoToken /\ revoked'[t] # "no")
    BY <2>1 DEF TokenInv, CallerIsOut, TypeOK
  <2> QED BY <1>1, <1>5, <2>1, <2>2, <2>3 DEF TokenInv
<1>11. CASE \/ \E s \in Sessions : GraceEnds(s) \/ Expires(s)
            \/ \E k \in Passkeys : RegisterPasskey(k) \/ DeletePasskey(k)
            \/ IdpDeactivates
  <2>1. UNCHANGED <<cur, handed, mess, login, jar, revoked, lock>>
    BY <1>11 DEF GraceEnds, Expires, RegisterPasskey, DeletePasskey, IdpDeactivates
  <2> QED BY <1>1, <1>2, <1>5, <2>1 DEF TokenInv
<1> QED BY <1>3, <1>4, <1>6, <1>7, <1>8, <1>9, <1>10, <1>11 DEF Other

\* What a refresh does for its own session: it finds the token it was sent with or it does
\* not, it revokes, it rotates, it brings the new token or loses it.
LEMMA RefreshAtHome ==
  ASSUME TypeOK, RefreshesAreFull, NEW r \in Requests, Refresh(r), NEW s \in Sessions, s = req[r].of
  PROVE  /\ mess[s] \subseteq mess'[s]
         /\ \/ /\ UNCHANGED <<cur, jar, revoked>>
               /\ \/ req[r].pc = "lookup" /\ req'[r] = Idle /\ (Revoked(s) \/ cur[s] # req[r].token)
                  \/ req'[r].pc \in {"expire", "touch", "write", "drop"}
                  \/ req[r].pc = "lookup" /\ req'[r].pc = "replay" /\ Live(s) /\ cur[s] # req[r].token
                  \/ req[r].pc = "idp" /\ req'[r].pc = "answer" /\ req'[r].new = req[r].new
                  \/ req'[r] = Idle /\ mess'[s] # {}
            \/ /\ UNCHANGED <<cur, jar>> /\ req'[r] = Idle
               /\ revoked'[s] = "replay" => revoked[s] = "replay" \/ req[r].pc = "replay"
               /\ revoked'[s] # "no" /\ (revoked[s] # "none" => revoked'[s] # "none")
            \/ UNCHANGED <<jar, revoked>> /\ req'[r].pc = "idp" /\ cur'[s] = req'[r].new
            \/ UNCHANGED <<cur, revoked>> /\ req[r].pc = "answer" /\ req'[r] = Idle /\ jar'[s] = req[r].new
<1> USE DEF rowVars, browserVars, passkeyVars, adminVars
<1>1. CASE Lookup(r)
  <2>1. UNCHANGED <<cur, jar, revoked, mess>> /\ req[r].pc = "lookup" BY <1>1 DEF Lookup
  <2>2. \/ req'[r] = Idle /\ (Revoked(s) \/ cur[s] # req[r].token)
        \/ req'[r].pc \in {"expire", "touch"}
        \/ req'[r].pc = "replay" /\ Live(s) /\ cur[s] # req[r].token
    BY <1>1 DEF Lookup, Decide, Respond, GoOn, TypeOK, InFlight
  <2> QED BY <2>1, <2>2
<1>2. CASE RevokeFound(r)
  <2>1. UNCHANGED <<cur, jar, mess>> /\ req'[r] = Idle BY <1>2 DEF RevokeFound, Respond, TypeOK
  <2>2. /\ revoked'[s] = "replay" => revoked[s] = "replay" \/ req[r].pc = "replay"
        /\ revoked'[s] # "no" /\ (revoked[s] # "none" => revoked'[s] # "none")
    BY <1>2 DEF RevokeFound, Revoke, TypeOK
  <2> QED BY <2>1, <2>2
<1>3. CASE TouchRead(r)
  <2>1. UNCHANGED <<cur, jar, revoked, mess>> /\ req'[r].pc = "write" BY <1>3 DEF TouchRead, TypeOK, InFlight
  <2> QED BY <2>1
<1>4. CASE TouchWrite(r)
  <2>1. /\ UNCHANGED <<jar, revoked, mess>>
        /\ req'[r].pc = "idp" /\ req'[r].new = issued' /\ cur'[s] = issued'
    BY <1>4 DEF TouchWrite, Rotate, TypeOK, InFlight
  <2> QED BY <2>1
<1>5. CASE IdpAnswers(r)
  <2>1. UNCHANGED <<cur, jar, revoked, mess>> /\ req[r].pc = "idp" BY <1>5 DEF IdpAnswers
  <2>2. req'[r].pc \in {"answer", "drop"} /\ req'[r].new = req[r].new
    BY <1>5 DEF IdpAnswers, GoOn, TypeOK, InFlight
  <2> QED BY <2>1, <2>2
<1>6. CASE Deliver(r)
  <2>1. UNCHANGED <<cur, revoked, mess>> /\ req[r].pc = "answer" /\ req'[r] = Idle /\ jar'[s] = req[r].new
    BY <1>6 DEF Deliver, SetCookie, Respond, TypeOK
  <2> QED BY <2>1
<1>7. CASE Lose(r)
  <2>1. /\ UNCHANGED <<cur, jar, revoked>> /\ req'[r] = Idle /\ mess[s] \subseteq mess'[s] /\ mess'[s] # {}
    BY <1>7 DEF Lose, Disturb, Respond, TypeOK
  <2> QED BY <2>1
<1> QED BY <1>1, <1>2, <1>3, <1>4, <1>5, <1>6, <1>7 DEF Refresh

LEMMA IdleIsNobodys == Idle.pc = "idle" /\ Idle.of \notin Sessions
  BY TokenAssumption DEF Idle

LEMMA TidyHome ==
  ASSUME TypeOK, RefreshesAreFull, TokenInv, NEW r \in Requests, Refresh(r), NEW s \in Sessions, s = req[r].of
  PROVE  Tidy(s)'
<1>1. Tidy(s) /\ Refreshing(r, s) /\ login'[s] = "done" /\ login[s] = "done"
  BY RefreshKeepsLogins DEF TokenInv, Tidy, Opened, Refreshing
<1>2. \A q \in Requests \ {r} : req'[q] = req[q] BY RefreshKeepsOthers
<1>3. mess[s] \subseteq mess'[s] BY RefreshAtHome
<1>4. revoked[s] # "none" /\ (revoked'[s] = "no" => revoked[s] = "no")
  BY <1>1, RefreshKeepsRows DEF Tidy, Opened, TypeOK
<1>5. req'[r] = Idle \/ req'[r].of = s BY RefreshGoesOn
<1>6. mess'[s] = {} => Alone(s)'
  BY <1>1, <1>2, <1>3, <1>5 DEF Tidy, Alone, Refreshing
<1>7. Opened(s)'
  <2>1. revoked'[s] # "none" BY <1>4, RefreshAtHome
  <2> QED BY <1>1, <2>1 DEF Opened
<1>8. ReplaysAreDisturbed(s)'
  <2>1. CASE mess[s] # {} BY <1>3, <2>1 DEF ReplaysAreDisturbed
  <2>2. CASE mess[s] = {}
    <3>1. revoked[s] # "replay" /\ req[r].pc # "replay"
          /\ \A q \in Requests : Refreshing(q, s) => req[q].pc # "replay"
      BY <1>1, <2>2 DEF Tidy, ReplaysAreDisturbed
    <3>2. revoked'[s] # "replay" BY <3>1, RefreshAtHome
    <3>3. req'[r].pc # "replay"
      <4>1. req[r].pc = "lookup" /\ Live(s) => cur[s] = req[r].token
        BY <1>1, <2>2 DEF Tidy, Current, Brings
      <4> QED BY <4>1, RefreshAtHome, IdleIsNobodys
    <3> QED BY <1>2, <3>1, <3>2, <3>3 DEF ReplaysAreDisturbed, Refreshing
  <2> QED BY <2>1, <2>2
<1>9. ASSUME Live(s)', mess'[s] = {} PROVE Current(s)'
  <2>1. Live(s) /\ Alone(s) /\ Current(s) BY <1>1, <1>3, <1>4, <1>9 DEF Tidy
  <2>2. \A q \in Requests \ {r} : ~Refreshing(q, s)'
    BY <1>1, <1>2, <2>1 DEF Alone, Refreshing
  <2>3. Brings(r, s) BY <1>1, <2>1 DEF Current
  <2>4. \/ req'[r] = Idle /\ jar'[s] = cur'[s]
        \/ req'[r] # Idle /\ Brings(r, s)'
    BY <1>9, <2>1, <2>3, RefreshAtHome, IdleIsNobodys DEF Brings
  <2>5. CASE req'[r] = Idle /\ jar'[s] = cur'[s]
    BY <2>2, <2>5, IdleIsNobodys DEF Current, Refreshing
  <2>6. CASE req'[r] # Idle /\ Brings(r, s)'
    BY <1>5, <2>2, <2>6 DEF Current, Refreshing
  <2> QED BY <2>4, <2>5, <2>6
<1> QED BY <1>6, <1>7, <1>8, <1>9 DEF Tidy

LEMMA TidyRefresh ==
  ASSUME TypeOK, RefreshesAreFull, TokenInv, NEW r \in Requests, Refresh(r)
  PROVE  TokenInv'
<1>1. req'[r] = Idle \/ (req'[r].of = req[r].of /\ req'[r].pc # "idle") BY RefreshGoesOn
<1>2. \A q \in Requests \ {r} : req'[q] = req[q] BY RefreshKeepsOthers
<1>3. req[r].of \in Sessions BY RefreshOwnRequest DEF RefreshesAreFull
<1>4. UNCHANGED <<login, lock>> BY RefreshKeepsLogins
<1>5. ASSUME NEW t \in Sessions, t # req[r].of PROVE Tidy(t)'
  <2>1. \A q \in Requests : req'[q] = req[q] \/ (req[q].of # t /\ req'[q].of # t)
    BY <1>1, <1>2, <1>5, IdleIsNobodys
  <2> QED BY <1>4, <1>5, <2>1, RefreshStaysHome, TidyKept DEF TokenInv
<1>6. \A t \in Sessions : Tidy(t)' BY <1>5, TidyHome
<1>7. OverIsIdle' BY <1>1, <1>2 DEF TokenInv, OverIsIdle
<1>8. CallerIsOut' BY <1>4, RefreshKeepsRows DEF TokenInv, CallerIsOut, TypeOK
<1> QED BY <1>6, <1>7, <1>8 DEF TokenInv

LEMMA TidyArrive ==
  ASSUME TypeOK, RefreshesAreFull, TokenInv, NEW r \in Requests, NEW s \in Busy, NEW token \in handed[s],
         Arrive(r, s, token)
  PROVE  TokenInv'
<1> USE DEF rowVars, browserVars, passkeyVars, adminVars
<1>1. /\ req[r].pc = "idle" /\ s \in Sessions
      /\ req'[r].pc = "lookup" /\ req'[r].of = s /\ req'[r].token = token
      /\ \A q \in Requests \ {r} : req'[q] = req[q]
      /\ UNCHANGED <<cur, jar, handed, revoked, login, lock>>
  BY TokenAssumption DEF Arrive, Idle, TypeOK
<1>2. req[r] = Idle BY <1>1 DEF TokenInv, OverIsIdle
<1>3. /\ \A t \in Sessions \ {s} : mess'[t] = mess[t]
      /\ mess[s] \subseteq mess'[s]
      /\ mess'[s] = {} => token = jar[s] /\ \A q \in Requests : ~Refreshing(q, s)
  BY <1>1 DEF Arrive, TypeOK, Refreshing
<1>4. ASSUME NEW t \in Sessions, t # s PROVE Tidy(t)'
  <2>1. \A q \in Requests : req'[q] = req[q] \/ (req[q].of # t /\ req'[q].of # t)
    BY <1>1, <1>2, <1>4, IdleIsNobodys
  <2> QED BY <1>1, <1>3, <1>4, <2>1, TidyKept DEF TokenInv
<1>5. Tidy(s)'
  <2>1. Tidy(s) BY <1>1 DEF TokenInv
  <2>2. mess'[s] = {} => \A q \in Requests : Refreshing(q, s)' => q = r
    BY <1>1, <1>3 DEF Refreshing
  <2>3. ASSUME Live(s)', mess'[s] = {} PROVE Current(s)'
    <3>1. jar[s] = cur[s] BY <1>1, <1>3, <2>1, <2>3 DEF Tidy, Current
    <3>2. Brings(r, s)' /\ Refreshing(r, s)' BY <1>1, <1>3, <2>3, <3>1 DEF Brings, Refreshing
    <3> QED BY <2>2, <2>3, <3>2 DEF Current
  <2>4. Opened(s)'
    <3>1. login[s] = "done" BY <2>1 DEF Tidy, Opened
    <3> QED BY <1>1, <2>1, <3>1 DEF Tidy, Opened
  <2>5. ReplaysAreDisturbed(s)'
    BY <1>1, <1>3, <2>1 DEF Tidy, ReplaysAreDisturbed, Refreshing
  <2> QED BY <2>2, <2>3, <2>4, <2>5 DEF Tidy, Alone
<1>6. OverIsIdle' BY <1>1 DEF TokenInv, OverIsIdle
<1>7. CallerIsOut' BY <1>1 DEF TokenInv, CallerIsOut
<1> QED BY <1>4, <1>5, <1>6, <1>7 DEF TokenInv

LEMMA TokenStep ==
  ASSUME TypeOK, RefreshesAreFull, RowsFollowLogins, TokenInv, [Next]_vars
  PROVE  TokenInv'
<1>1. CASE UNCHANGED vars
  BY <1>1 DEF vars, rowVars, browserVars, passkeyVars, adminVars, TokenInv, Tidy, Alone, Current, Opened, ReplaysAreDisturbed,
              Refreshing, Brings, OverIsIdle, CallerIsOut
<1>2. CASE Other BY <1>2, TidyOther
<1>3. ASSUME NEW r \in Requests, Refresh(r) PROVE TokenInv' BY <1>3, TidyRefresh
<1>4. ASSUME NEW r \in Requests, NEW s \in Busy, NEW token \in handed[s], Arrive(r, s, token) PROVE TokenInv'
  BY <1>4, TidyArrive
<1> QED BY <1>1, <1>2, <1>3, <1>4, NextIsOneOfTheThree

LEMMA TokensHold == Spec => [](LockInv /\ TokenInv)
<1>1. Init => LockInv /\ TokenInv
  BY IdleIsNobodys, TokenAssumption DEF Init, LockInv, OldAreOut, CallerIsIn, LoginsAreEarly, PasskeysGo, TokenInv, Tidy, Alone, Current, Opened, ReplaysAreDisturbed,
                       Refreshing, Brings, OverIsIdle, CallerIsOut, NoLock
<1>2. IInv /\ LockInv /\ TokenInv /\ [Next]_vars => LockInv' /\ TokenInv'
  BY LockStep, TokenStep DEF IInv
<1> QED BY <1>1, <1>2, InvariantHolds, PTL DEF Spec

-------------------------------------------------------------------------------

\* Once a lockdown went through, every session of before it is out but the caller's in the
\* tiers A and B, every passkey it read is deleted but the caller's in tier B, and a session
\* opened since comes from another passkey or from a login verified before the end,
\* whatever registrations, logins, refreshes and deletions overlap with it (runLockdown,
\* services/security-actions.ts).
THEOREM LockdownIsForAll == Spec => []LockdownShutsOut
<1>1. ASSUME IInv, LockInv PROVE LockdownShutsOut
  <2> SUFFICES ASSUME lock.pc = "done"
      PROVE  /\ \A s \in lock.old : Live(s) => s \in Kept(lock.tier, lock.by)
             /\ passkeys \cap Gone = {}
             /\ \A s \in Sessions \ lock.old : Live(s) => key[s] \notin Gone \/ s \in early
    BY DEF LockdownShutsOut, Gone
  <2>1. \A s \in Sessions : Live(s) => login[s] # "out" BY <1>1 DEF IInv, RowsFollowLogins
  <2> QED BY <1>1, <2>1 DEF LockInv, OldAreOut, PasskeysGo, LoginsAreEarly
<1> QED BY <1>1, InvariantHolds, TokensHold, PTL

\* The refresh revokes a session for a replay only after two refreshes of it overlapped,
\* an answer was lost or an old copy of the cookie was used (POST /token/refresh of
\* routes/auth-facade.ts).
THEOREM ReplaysHaveACause == Spec => []ReplayHasACause
<1>1. TokenInv => ReplayHasACause BY DEF TokenInv, Tidy, ReplaysAreDisturbed, ReplayHasACause
<1> QED BY <1>1, TokensHold, PTL

\* Without such a disturbance the browser's cookie is the row's current token whenever no
\* refresh is in flight, whatever revocations, lockdowns and expiries come in between.
THEOREM QuietBrowsersAreCurrent == Spec => []QuietBrowserIsCurrent
<1>1. TokenInv => QuietBrowserIsCurrent
  BY DEF TokenInv, Tidy, Current, Refreshing, QuietBrowserIsCurrent
<1> QED BY <1>1, TokensHold, PTL
===============================================================================
