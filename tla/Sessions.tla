------------------------------- MODULE Sessions -------------------------------
(* The refresh sessions of one user: services/sessions.ts, the token refresh, *)
(* logout, revocation and login routes of routes/auth-facade.ts and the       *)
(* lockdown of services/security-actions.ts.  A session is a row and the      *)
(* browser that holds its cookie; several tabs share the cookie.  Every await *)
(* of the refresh ends a step, so refreshes, logins and a lockdown interleave.*)
(* A refresh token stands for itself and its hash; time is kept as two facts  *)
(* about a row: lastSeenAt is past the grace window, expiresAt is over.       *)
EXTENDS Naturals, FiniteSets

CONSTANTS
    Sessions,    \* rows of user_sessions and their browsers
    Busy,        \* bound: the sessions that refresh
    Passkeys,    \* credentials the user ever registers
    Enrolled,    \* those he may have at the start
    Requests,    \* refreshes in flight
    NoToken,     \* an empty cookie, a null previous hash
    NoSession,   \* what a lookup that finds nothing returns, no session-id cookie
    NoPasskey,   \* a null credentialId
    MaxTokens    \* bound: tokens issued

ASSUME TokenAssumption ==
    /\ NoToken \notin Nat /\ NoSession \notin Sessions
    /\ NoPasskey \notin Passkeys
    /\ MaxTokens \in Nat /\ Busy \subseteq Sessions /\ Enrolled \subseteq Passkeys

VARIABLES
    revoked,   \* "none": no row; "no": a live row; otherwise revokedReason
    cur, prev, \* tokenHash and prevTokenHash
    aged,      \* lastSeenAt is more than REPLAY_GRACE_MS ago
    expired,   \* expiresAt is over
    jar,       \* the cookie the browser sends now
    handed,    \* every cookie it was ever given
    issued,    \* tokens issued so far, 1..issued
    req,       \* what a refresh has read and where it is
    login,     \* where the login of a session is
    key,       \* credentialId, the passkey it was opened with
    passkeys,  \* the passkeys registered now
    unused,    \* those that were never registered
    lock,      \* the lockdown: where it is, its tier, the caller's session, the passkeys it
               \* read and those to delete; history: the sessions that were opened before it
    idpActive, \* the identity provider has the user as active
    mess,      \* history: what a session's refreshes met with
    late,      \* history: refreshes that arrived after the revocation
    early      \* history: sessions whose login was verified before a lockdown's end

rowVars == <<revoked, cur, prev, aged, expired>>
browserVars == <<jar, handed>>
passkeyVars == <<passkeys, unused>>
adminVars == <<login, key, passkeyVars, lock, idpActive, early>>
vars == <<rowVars, browserVars, issued, req, adminVars, mess, late>>

Reasons == {"user", "lockdown", "admin", "replay", "expired"}
Tokens == 1..MaxTokens
Disturbances == {"overlap", "misfit"}
Steps == {"idle", "lookup", "expire", "replay", "touch", "write", "idp", "drop", "answer"}

Idle == [pc |-> "idle", token |-> NoToken, of |-> NoSession, new |-> NoToken, read |-> NoToken]
NoLock == [pc |-> "idle", tier |-> "A", by |-> NoSession, read |-> {}, todo |-> {}, old |-> {}]

InFlight == [pc : Steps, token : Tokens \cup {NoToken}, of : Sessions \cup {NoSession},
             new : Tokens \cup {NoToken}, read : Tokens \cup {NoToken}]

TypeOK ==
    /\ revoked \in [Sessions -> {"none", "no"} \cup Reasons]
    /\ cur \in [Sessions -> Tokens \cup {NoToken}]
    /\ prev \in [Sessions -> Tokens \cup {NoToken}]
    /\ aged \in [Sessions -> BOOLEAN]
    /\ expired \in [Sessions -> BOOLEAN]
    /\ jar \in [Sessions -> Tokens \cup {NoToken}]
    /\ handed \in [Sessions -> SUBSET Tokens]
    /\ issued \in 0..MaxTokens
    /\ req \in [Requests -> InFlight]
    /\ login \in [Sessions -> {"out", "verified", "done"}]
    /\ key \in [Sessions -> Passkeys \cup {NoPasskey}]
    /\ passkeys \subseteq Passkeys /\ unused \subseteq Passkeys \ passkeys
    /\ lock \in [pc : {"idle", "read", "delete", "done", "failed"}, tier : {"A", "B", "C"},
                 by : Sessions \cup {NoSession}, read : SUBSET Passkeys, todo : SUBSET Passkeys,
                 old : SUBSET Sessions]
    /\ idpActive \in BOOLEAN
    /\ mess \in [Sessions -> SUBSET Disturbances]
    /\ late \subseteq Requests
    /\ early \subseteq Sessions

Init ==
    /\ revoked = [s \in Sessions |-> "none"]
    /\ cur = [s \in Sessions |-> NoToken]
    /\ prev = [s \in Sessions |-> NoToken]
    /\ aged = [s \in Sessions |-> FALSE]
    /\ expired = [s \in Sessions |-> FALSE]
    /\ jar = [s \in Sessions |-> NoToken]
    /\ handed = [s \in Sessions |-> {}]
    /\ issued = 0
    /\ req = [r \in Requests |-> Idle]
    /\ login = [s \in Sessions |-> "out"]
    /\ key = [s \in Sessions |-> NoPasskey]
    /\ passkeys \in {{}, Enrolled}
    /\ unused = Passkeys \ passkeys
    /\ lock = NoLock
    /\ idpActive = TRUE
    /\ mess = [s \in Sessions |-> {}]
    /\ late = {}
    /\ early = {}

Live(s) == revoked[s] = "no"
Revoked(s) == revoked[s] \in Reasons
Disturb(s, what) == mess' = [mess EXCEPT ![s] = @ \cup {what}]
SetCookie(s, token) ==
    /\ jar' = [jar EXCEPT ![s] = token]
    /\ handed' = [handed EXCEPT ![s] = @ \cup {token}]

-------------------------------------------------------------------------------
(* Login and passkeys.  An access token is asked for neither its session nor that   *)
(* session's revocation (jwtAuth), so whoever once had one may still use it; that it *)
(* expires is left out.                                                              *)

Admit(s, k) ==
    /\ login[s] = "out"
    /\ login' = [login EXCEPT ![s] = "verified"]
    /\ key' = [key EXCEPT ![s] = k]
    /\ early' = IF lock.pc # "done" THEN early \cup {s} ELSE early
    /\ UNCHANGED <<rowVars, browserVars, issued, req, passkeyVars, lock, idpActive, mess, late>>

\* An account's first session, of the redeemed invite, has no passkey.
RedeemInvite(s) ==
    /\ \A t \in Sessions : login[t] = "out"
    /\ unused = Passkeys
    /\ Admit(s, NoPasskey)

\* /webauthn/login-verify: the assertion is verified against a registered passkey.
VerifyLogin(s, k) ==
    /\ k \in passkeys
    /\ Admit(s, k)

\* createUserSession and the cookies of the answer.
CreateSession(s) ==
    /\ login[s] = "verified"
    /\ issued < MaxTokens
    /\ issued' = issued + 1
    /\ login' = [login EXCEPT ![s] = "done"]
    /\ revoked' = [revoked EXCEPT ![s] = "no"]
    /\ cur' = [cur EXCEPT ![s] = issued']
    /\ SetCookie(s, issued')
    /\ UNCHANGED <<prev, aged, expired, req, key, passkeyVars, lock, idpActive, early, mess, late>>

HasAccessToken == \E s \in Sessions : login[s] = "done"

\* /webauthn/register-verify.
RegisterPasskey(k) ==
    /\ HasAccessToken
    /\ k \in unused
    /\ passkeys' = passkeys \cup {k}
    /\ unused' = unused \ {k}
    /\ UNCHANGED <<rowVars, browserVars, issued, req, login, key, lock, idpActive, early, mess, late>>

\* The user deletes a passkey, or an administrator does so to enrol him again.
DeletePasskey(k) ==
    /\ k \in passkeys
    /\ passkeys' = passkeys \ {k}
    /\ UNCHANGED <<rowVars, browserVars, issued, req, login, key, unused, lock, idpActive, early,
                   mess, late>>

-------------------------------------------------------------------------------
(* POST /token/refresh *)

\* A tab sends the cookie, or a copy of an older state of the browser does.
Arrive(r, s, token) ==
    /\ req[r].pc = "idle"
    /\ token \in handed[s]
    /\ req' = [req EXCEPT ![r] = [Idle EXCEPT !.pc = "lookup", !.token = token, !.of = s]]
    /\ mess' = [mess EXCEPT ![s] = @
                  \cup {d \in {"misfit"} : token # jar[s]}
                  \cup {d \in {"overlap"} : \E q \in Requests : req[q].of = s}]
    /\ late' = IF Revoked(s) THEN late \cup {r} ELSE late \ {r}
    /\ UNCHANGED <<rowVars, browserVars, issued, adminVars>>

Respond(r) == req' = [req EXCEPT ![r] = Idle]
GoOn(r, step) == req' = [req EXCEPT ![r].pc = step]

\* Mutant of Decide: a revoked session is not refused.
DecideOnRevoked(r, s, viaPrev) ==
    \/ ~expired[s] /\ ~(viaPrev /\ aged[s]) /\ GoOn(r, "touch")
    \/ expired[s] /\ GoOn(r, "expire")

\* Mutant of Decide: any refresh after the grace window counts as a replay.
DecideByAge(r, s, viaPrev) ==
    \/ Revoked(s) /\ Respond(r)
    \/ Live(s) /\ expired[s] /\ GoOn(r, "expire")
    \/ Live(s) /\ ~expired[s] /\ aged[s] /\ GoOn(r, "replay")
    \/ Live(s) /\ ~expired[s] /\ ~aged[s] /\ GoOn(r, "touch")

\* The checks between findByTokenHash and the first write.
Decide(r, s, viaPrev) ==
    \/ Revoked(s) /\ Respond(r)
    \/ Live(s) /\ expired[s] /\ GoOn(r, "expire")
    \/ Live(s) /\ ~expired[s] /\ viaPrev /\ aged[s] /\ GoOn(r, "replay")
    \/ Live(s) /\ ~expired[s] /\ ~(viaPrev /\ aged[s]) /\ GoOn(r, "touch")

\* findByTokenHash: the current hash first, then the previous one.  A token moves from
\* current to previous and never back, so that the two queries find what one would.
Lookup(r) ==
    /\ req[r].pc = "lookup"
    /\ LET s == req[r].of IN
         \/ cur[s] = req[r].token /\ Decide(r, s, FALSE)
         \/ cur[s] # req[r].token /\ prev[s] = req[r].token /\ Decide(r, s, TRUE)
         \/ req[r].token \notin {cur[s], prev[s]} /\ Respond(r)
    /\ UNCHANGED <<rowVars, browserVars, issued, adminVars, mess, late>>

\* Mutant of Revoke: the row is written whether it is revoked or not.
RevokeAgain(s, reason) == revoked' = [revoked EXCEPT ![s] = reason]

\* revoke: only a row that is not revoked yet.
Revoke(s, reason) ==
    revoked' = IF Live(s) THEN [revoked EXCEPT ![s] = reason] ELSE revoked

\* revoke, for one of the three reasons a refresh has, and the 401.
RevokeFound(r) ==
    /\ \/ req[r].pc = "expire" /\ Revoke(req[r].of, "expired")
       \/ req[r].pc = "replay" /\ Revoke(req[r].of, "replay")
       \/ req[r].pc = "drop" /\ Revoke(req[r].of, "admin")
    /\ Respond(r)
    /\ UNCHANGED <<cur, prev, aged, expired, browserVars, issued, adminVars, mess, late>>

\* touch reads the current hash ...
TouchRead(r) ==
    /\ req[r].pc = "touch"
    /\ req' = [req EXCEPT ![r].pc = "write", ![r].read = cur[req[r].of]]
    /\ UNCHANGED <<rowVars, browserVars, issued, adminVars, mess, late>>

\* Mutant of Rotate: a missing row leaves something that is no hash.
RotateUndefined(s, new, read) ==
    /\ cur' = [cur EXCEPT ![s] = new]
    /\ prev' = [prev EXCEPT ![s] = NoSession]
    /\ aged' = [aged EXCEPT ![s] = FALSE]

\* ... and stores it as the previous one, whatever has become of the row.
Rotate(s, new, read) ==
    /\ cur' = [cur EXCEPT ![s] = new]
    /\ prev' = [prev EXCEPT ![s] = read]
    /\ aged' = [aged EXCEPT ![s] = FALSE]

TouchWrite(r) ==
    /\ req[r].pc = "write"
    /\ issued < MaxTokens
    /\ issued' = issued + 1
    /\ Rotate(req[r].of, issued', req[r].read)
    /\ req' = [req EXCEPT ![r].pc = "idp", ![r].new = issued']
    /\ UNCHANGED <<revoked, expired, browserVars, adminVars, mess, late>>

\* refreshSession of the identity provider: valid or not.
IdpAnswers(r) ==
    /\ req[r].pc = "idp"
    /\ GoOn(r, IF idpActive THEN "answer" ELSE "drop")
    /\ UNCHANGED <<rowVars, browserVars, issued, adminVars, mess, late>>

\* Mutant of Deliver: the answer has no cookie.
DeliverTokenOnly(r) ==
    /\ req[r].pc = "answer"
    /\ Respond(r)
    /\ UNCHANGED <<rowVars, browserVars, issued, adminVars, mess, late>>

\* The access token and the new cookie reach the browser.
Deliver(r) ==
    /\ req[r].pc = "answer"
    /\ SetCookie(req[r].of, req[r].new)
    /\ Respond(r)
    /\ UNCHANGED <<rowVars, issued, adminVars, mess, late>>

\* They do not: the identity provider cannot be asked, or the answer is lost.
Lose(r) ==
    /\ req[r].pc \in {"idp", "answer"}
    /\ Disturb(req[r].of, "misfit")
    /\ Respond(r)
    /\ UNCHANGED <<rowVars, browserVars, issued, adminVars, late>>

-------------------------------------------------------------------------------
(* Revocation and lockdown *)

\* DELETE /sessions/{id}, by another session or by itself.
RevokeSession(s) ==
    /\ Live(s)
    /\ Revoke(s, "user")
    /\ UNCHANGED <<cur, prev, aged, expired, browserVars, issued, req, adminVars, mess, late>>

\* POST /session/revoke: the browser forgets the cookie as well.
Logout(s) ==
    /\ jar[s] # NoToken
    /\ Revoke(s, "user")
    /\ jar' = [jar EXCEPT ![s] = NoToken]
    /\ UNCHANGED <<cur, prev, aged, expired, handed, issued, req, adminVars, mess, late>>

\* revokeAllForUser, with or without an exception.
RevokeAll(reason, kept) ==
    revoked' = [s \in Sessions |-> IF Live(s) /\ s \notin kept THEN reason ELSE revoked[s]]

\* POST /sessions/revoke-others.
RevokeOthers(s) ==
    /\ jar[s] # NoToken
    /\ RevokeAll("user", {s})
    /\ UNCHANGED <<cur, prev, aged, expired, browserVars, issued, req, adminVars, mess, late>>

\* runLockdown: all sessions but, in the tiers A and B, the one of the caller's
\* session-id cookie.
Kept(tier, s) == IF tier = "C" THEN {} ELSE {s}

LockdownRevokes(s, tier) ==
    /\ lock.pc = "idle"
    /\ HasAccessToken
    /\ s # NoSession => jar[s] # NoToken
    /\ RevokeAll("lockdown", Kept(tier, s))
    /\ lock' = [NoLock EXCEPT !.pc = IF tier = "A" THEN "done" ELSE "read", !.tier = tier,
                              !.by = s, !.old = {t \in Sessions : revoked[t] # "none"}]
    /\ UNCHANGED <<cur, prev, aged, expired, browserVars, issued, req, login, key, passkeyVars,
                   idpActive, early, mess, late>>

\* Tier B keeps the passkey the caller's session was opened with, if it has one.
KeptKey(tier, s) == IF tier = "B" /\ s # NoSession THEN {key[s]} ELSE {}

\* Mutant of LockdownReads: only the passkeys of the revoked sessions.
LockdownReadsSessions ==
    /\ lock.pc = "read"
    /\ lock' = [lock EXCEPT !.pc = "delete", !.read = passkeys,
                            !.todo = passkeys \cap {key[s] : s \in {t \in Sessions : Revoked(t)}}]
    /\ UNCHANGED <<rowVars, browserVars, issued, req, login, key, passkeyVars, idpActive, early,
                   mess, late>>

\* getWebAuthnCredentials: the passkeys to delete.
LockdownReads ==
    /\ lock.pc = "read"
    /\ lock' = [lock EXCEPT !.pc = "delete", !.read = passkeys,
                            !.todo = passkeys \ KeptKey(lock.tier, lock.by)]
    /\ UNCHANGED <<rowVars, browserVars, issued, req, login, key, passkeyVars, idpActive, early,
                   mess, late>>

\* One passkey after the other; one that is gone by now ends the lockdown with a 404.
LockdownDeletes(k) ==
    /\ lock.pc = "delete"
    /\ k \in lock.todo
    /\ passkeys' = passkeys \ {k}
    /\ lock' = IF k \in passkeys THEN [lock EXCEPT !.todo = @ \ {k}]
                                 ELSE [NoLock EXCEPT !.pc = "failed"]
    /\ UNCHANGED <<rowVars, browserVars, issued, req, login, key, unused, idpActive, early, mess, late>>

\* The end: in tier C the caller's cookies are cleared too.
LockdownEnds ==
    /\ lock.pc = "delete"
    /\ lock.todo = {}
    /\ lock' = [lock EXCEPT !.pc = "done"]
    /\ jar' = [s \in Sessions |-> IF lock.tier = "C" /\ s = lock.by THEN NoToken ELSE jar[s]]
    /\ UNCHANGED <<rowVars, handed, issued, req, login, key, passkeyVars, idpActive, early, mess, late>>

-------------------------------------------------------------------------------
(* Time and the identity provider *)

GraceEnds(s) ==
    /\ Live(s)
    /\ ~aged[s]
    /\ aged' = [aged EXCEPT ![s] = TRUE]
    /\ UNCHANGED <<revoked, cur, prev, expired, browserVars, issued, req, adminVars, mess, late>>

Expires(s) ==
    /\ Live(s)
    /\ ~expired[s]
    /\ expired' = [expired EXCEPT ![s] = TRUE]
    /\ UNCHANGED <<revoked, cur, prev, aged, browserVars, issued, req, adminVars, mess, late>>

IdpDeactivates ==
    /\ idpActive
    /\ idpActive' = FALSE
    /\ UNCHANGED <<rowVars, browserVars, issued, req, login, key, passkeyVars, lock, early, mess, late>>

-------------------------------------------------------------------------------

Refresh(r) ==
    \/ Lookup(r) \/ RevokeFound(r) \/ TouchRead(r) \/ TouchWrite(r)
    \/ IdpAnswers(r) \/ Deliver(r) \/ Lose(r)

Next ==
    \/ \E s \in Sessions : RedeemInvite(s) \/ CreateSession(s)
    \/ \E s \in Sessions, k \in Passkeys : VerifyLogin(s, k)
    \/ \E k \in Passkeys : RegisterPasskey(k) \/ DeletePasskey(k) \/ LockdownDeletes(k)
    \/ \E r \in Requests, s \in Busy : \E token \in handed[s] : Arrive(r, s, token)
    \/ \E r \in Requests : Refresh(r)
    \/ \E s \in Sessions : RevokeSession(s) \/ Logout(s) \/ RevokeOthers(s)
    \/ \E s \in Sessions \cup {NoSession}, tier \in {"A", "B", "C"} : LockdownRevokes(s, tier)
    \/ LockdownReads \/ LockdownEnds
    \/ \E s \in Busy : GraceEnds(s) \/ Expires(s)
    \/ IdpDeactivates

Spec == Init /\ [][Next]_vars

-------------------------------------------------------------------------------
(* Properties of the code *)

\* A revoked session stays revoked for the reason it was revoked for first, although
\* refreshes in flight go on rotating its token (revoke, touch).
RevokedForGood ==
    [][\A s \in Sessions : Revoked(s) => revoked'[s] = revoked[s]]_vars

\* A refresh that arrives after its session was revoked gets no access token and
\* does not rotate; only one that was already past the check may finish.
LateRefreshIsRefused ==
    \A r \in late : req[r].pc \in {"idle", "lookup"}

\* After a lockdown went through, no session that was open before it is live but the one
\* it keeps, no passkey it read is left but the one it keeps, and a session that was opened
\* since comes from another passkey, or from a login that overlapped with the lockdown
\* (runLockdown, whatever logs in, registers, refreshes and revokes meanwhile).
LockdownShutsOut ==
    LET gone == lock.read \ KeptKey(lock.tier, lock.by)
    IN lock.pc = "done" =>
         /\ \A s \in lock.old : Live(s) => s \in Kept(lock.tier, lock.by)
         /\ passkeys \cap gone = {}
         /\ \A s \in Sessions \ lock.old : Live(s) => key[s] \notin gone \/ s \in early

\* A session is revoked for a replay only if two refreshes overlapped, an answer was
\* lost, or an old copy of the cookie was used: a browser whose tabs take turns and
\* that gets its answers is never taken for a thief.
ReplayHasACause ==
    \A s \in Sessions : revoked[s] = "replay" => mess[s] # {}

\* Such a browser holds the current token whenever it is not refreshing.
QuietBrowserIsCurrent ==
    \A s \in Sessions :
      Live(s) /\ mess[s] = {} /\ (\A r \in Requests : req[r].of # s) => jar[s] = cur[s]

-------------------------------------------------------------------------------
(* Statements of the code's comments that the code refutes *)

Accepted(s) == {cur[s], prev[s]}

\* services/sessions.ts: the previous hash lets concurrent refreshes still succeed,
\* so a browser whose only trouble is two tabs keeps a token that is accepted.
ConcurrentRefreshesSucceed ==
    \A s \in Sessions :
      Live(s) /\ mess[s] \subseteq {"overlap"} /\ (\A r \in Requests : req[r].of # s)
        => jar[s] \in Accepted(s)

\* db/schema/sessions.ts: the previous hash is accepted for one rotation.
GraceIsAlwaysOneRotation ==
    [][\A s \in Sessions : cur[s] # NoToken /\ cur'[s] # cur[s] => prev'[s] = cur[s]]_vars

\* services/security-actions.ts: tier C revokes everything, without exception.
LockdownRevokesEverything ==
    lock.pc = "done" /\ lock.tier = "C" => \A s \in Sessions : ~Live(s)
===============================================================================
