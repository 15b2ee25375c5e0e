# Formal models of Llámenos Hotline

TLA+ models of the server of Llámenos (a crisis hotline: calls, messages and
encrypted notes, answered by volunteers on shift), checked with TLC and, for
the properties that matter most, proved with TLAPS. Paths are relative to the
repository; `routes/`, `services/`, `lib/`, `jobs/`, `telephony/` and
`messaging/` stand for the directories of that name under `src/server/`.

1. [The system](#1-the-system)
2. [Modules](#2-modules)
3. [CallFlow](#3-callflow)
4. [BlastDelivery](#4-blastdelivery)
5. [Conversations](#5-conversations)
6. [Sessions](#6-sessions)
7. [AuditChain](#7-auditchain)
8. [FirehoseAgent](#8-firehoseagent)
9. [RecoveryGroup](#9-recoverygroup)
10. [Runs](#10-runs)
11. [Proofs](#11-proofs)
12. [Where the code departs from its documents](#12-where-the-code-departs-from-its-documents)
13. [Not modelled](#13-not-modelled)
14. [Plan](#14-plan)

Run a configuration `X_*.cfg` with `tlc -workers 2 -config X_y.cfg MCX` (module
`MCCallFlow` for `CallFlow_*.cfg`, and so on), and check a proof module with
`tlapm M.tla`.

## 1. The system

A Hono server on PostgreSQL (Drizzle), a React client that does the end-to-end
encryption, a Nostr relay for live events, and bridges for self-hosted
telephony (`sip-bridge/`) and Signal (`signal-notifier/`). The server is one
Node/Bun process: handlers interleave at every `await`, background jobs are
promises nobody waits for and `setInterval` timers, and most handlers read a
row in one query and write it in another without a transaction.

| Component | State | Operations | Talks to | Hard behaviour | Correct when |
|---|---|---|---|---|---|
| Call flow: `routes/telephony.ts`, `routes/calls.ts`, `services/calls.ts`, `lib/ringing.ts` | `active_calls`, `call_legs`, `call_records`, audit log | webhooks of the provider; answer, hangup, spam over REST; background ringing | telephony adapter, shifts, audit, Nostr | two answer paths, callbacks in any order, a ringing job nobody awaits | one owner, no revived call, every waiting caller served, the log tells what happened |
| Telephony adapters: `telephony/` | none | ring, cancel, queue, bridge, record | provider | asynchronous, per leg | (external) |
| Blast delivery: `routes/blasts.ts`, `services/blasts.ts`, `jobs/blast-processor.ts` | `blasts`, `blast_deliveries`, `subscribers`; flag and locals of the processor | send, schedule, cancel, delete, poll, process | messaging adapters | parallel queues, rejection of one of them, restarts, stale status | nobody gets a blast twice, sent means served, cancellation works, sending ends |
| Messaging router and conversations: `messaging/router.ts`, `services/conversations.ts`, `routes/conversations.ts` | `conversations`, `message_envelopes`, loads | inbound webhook, status webhook, claim, assign, close, send | adapters, shifts, contacts, firehose | redelivery, out-of-order statuses, claim against auto-assignment | one conversation per contact, one assignee, loads within their maximum |
| Spam gate: `services/settings/spam-settings.ts` | rate-limit counters, CAPTCHA state, bans | count a call, challenge, verify | call flow | window boundaries, concurrent attempts | a caller gets the attempts configured, no more |
| Shifts: `services/shifts.ts` | schedules, overrides, ring groups, active shifts | start, end, `getEffectiveUsers` | call flow, router | times across midnight, overrides | who is rung is who is scheduled |
| SIP bridge: `sip-bridge/src/` | calls, legs, queues, gather timers in memory | ARI events, webhooks, commands | Asterisk/FreeSWITCH/Kamailio, server | timers against events, originate in flight | every leg ends, each gather answers once |
| Sessions and auth facade: `services/sessions.ts`, `routes/auth-facade.ts`, `lib/login-state-cache.ts` | sessions with current and previous token hash | login, refresh, revoke | identity | concurrent refreshes, replay with grace | a replayed token revokes, an honest client is not locked out |
| Signed audit chain: `services/audit-log-service.ts` | entries linked by hash | append, head, list, verify | clients | concurrent writers, client clocks | one unforked chain that can always grow |
| MLS groups: `routes/mls.ts` | key packages, commits, epoch | publish, claim, commit, fetch | clients | two commits, partial writes | each epoch has one commit, a key package is used once |
| Recovery: `services/recovery-group-service.ts`, `services/recovery-service.ts` | groups, sessions, contributions, requests | begin, contribute, complete, cancel | clients | concurrent contributions, expiry | a threshold of distinct guardians, each counted once |
| Device revocation and hub keys: `jobs/device-revoke-worker.ts`, `services/hub-key-service.ts`, `services/device-service.ts` | devices, key generations, envelopes | revoke, rotate, retry | clients | retries, a rotation against an enrolment | no envelope for a revoked device, one for each other |
| Firehose agent: `services/firehose-agent.ts` | buffer, agents, circuit breaker | buffer, extract, submit | inference, reports | overlapping loops, crash after submission | each message extracted once |
| Identity, invites, provisioning: `services/identity.ts` | users, roles, invites | invite, redeem, provision | everything | an invite redeemed twice | one user per invite |
| Provider health, retention purge, GDPR, push, Nostr publishing | small tables, timers | poll, purge, erase, notify | external services | retries | nothing promised is lost |
| Records, contacts, teams, tags, notes, reports, files, settings, hubs | encrypted rows | CRUD | clients | few states | access control |
| Web client: `src/client/` | keys, caches | user interface, cryptography | server | locking, workers, tabs | keys leave no trace |

## 2. Modules

| Module | Models | Uses |
|---|---|---|
| `CallFlow` | a call on the server, from `/incoming` to the end of its row, with the provider's callbacks | `CallLifecycle` (INSTANCE) |
| `CallLifecycle` | what the table of active calls promises (abstract) | |
| `MCCallFlow` | instances of `CallFlow` | `CallFlow` |
| `CallFlowProofs` | types, ownership, ended calls, refinement, audit of connections, missed calls | `CallFlow`, `TLAPS` |
| `BlastDelivery` | blasts, their requests and the polling processor | |
| `MCBlastDelivery` | instances of `BlastDelivery` | `BlastDelivery` |
| `BlastDeliveryProofs` | types, at most one copy, who is served, cancellation | `BlastDelivery`, `FiniteSetTheorems`, `TLAPS` |
| `Conversations`, `MCConversations` | inbound messages, auto-assignment, claims and updates | |
| `ConversationProofs` | types, counts, claims, loads | `Conversations`, `FiniteSetTheorems`, `TLAPS` |
| `Sessions`, `MCSessions` | logins, refresh tokens, revocation, lockdown | |
| `SessionProofs` | types, revocation, lockdown, tokens of an undisturbed browser | `Sessions`, `TLAPS` |
| `AuditChain`, `MCAuditChain` | the signed audit chain of a hub, its signers and verifiers | |
| `AuditChainProofs` | no fork, the head by time, caches and alarms of the viewers | `AuditChain`, `WellFoundedInduction`, `FiniteSetTheorems`, `TLAPS` |
| `FirehoseAgent`, `MCFirehoseAgent` | one connection's extraction agent | |
| `FirehoseProofs` | reports, timers, agent and status | `FirehoseAgent`, `TLAPS` |
| `RecoveryGroup`, `MCRecoveryGroup` | one recovery session | |
| `RecoveryGroupProofs` | quorum, lost shares, order of the statuses | `RecoveryGroup`, `FiniteSetTheorems`, `FunctionTheorems`, `TLAPS` |

In every module: variables are grouped in their declaration by where they
live (database, process, provider, observation); an action is a handler, or
the stretch of a handler between two accesses to shared state if others run in
between; a variant of a definition that stands for a bug in it comes directly
before it and says so ("Mutant of ..."). Those variants are used by no
behaviour; putting one in the place of the original must break the property
that `PROJECT.json` names with it.

## 3. CallFlow

**Correspondence.** `status`/`assigned` are the row of `active_calls`
(`"none"` without a row), `browserLeg` the rows of `call_legs`, `record` what a
`call_records` row holds, `answeredLog`/`endedLog`/`missedLog` the audit entries
by kind. `job` and `ringSet` are the program counter and the `available` list of
`startParallelRinging`, which `/language-selected` and `/captcha` start without
awaiting it; `rest[u]` is the request a user's dashboard has between its read of
the row and its writes. `phase`, `leg`, `peer` and `webhooks` are the provider:
where the caller is in the TwiML he was given, the state of each outbound leg,
whom he was connected to, and the callbacks on their way.

| Code | Actions |
|---|---|
| `/incoming`, `/language-selected`, `/captcha`, `checkVoicemailMode` | `Incoming`, `LanguageSelected`, `Captcha` with `RouteCaller` |
| `startParallelRinging`, `createActiveCall`, `call_legs` insert, `ringUsers` | `RingSelect`, `RingCreateRow`, `RingCreateLegs`, `RingDial` |
| `/user-answer`, `/call-status`, `/call-recording`, `/queue-exit`, `/voicemail-recording` | `UserAnswer`, `CallStatus`, `CallRecording`, `QueueExit`, `VoicemailRecording` |
| `/wait-music` at the queue timeout | `QueueTimeout` |
| `POST /{id}/answer` | `AnswerRead`, `AnswerWrite`, `AnswerCancel` |
| `POST /{id}/hangup`, `/spam` | `OwnCallRead`, `HangupDelete`, `SpamWrite` |
| shifts and availability | `ToggleShift`, `ToggleAway` |
| provider (external) | `Enqueue`, `CallerHangsUp`, `VoicemailEnds`, `LegPickedUp`, `LegNotAnswered`, `Bridge`, `LegHangsUp`, `ConversationEnds` |

**Properties.** `OwnerAgreesWithStatus`, `EndedCallsStayEnded`,
`ConnectedUserIsAudited`, `MissedMeansNeverConnected`, the refinement
`ImplementsLifecycle`, and the liveness properties `HoldingCallerIsServed` and
`ConversationIsClosed`. Their comments in the module say what each is about.

**Abstractions.** Callbacks are delivered once, in any order. The language
menu, prompts, transcription and encryption of records are left out. Bans,
rate limits and the CAPTCHA's answer are a nondeterministic outcome. The two queries of a
ring job (who is on shift, else the fallback group; who of them is not on break) are one
step, and so are `cancelOtherLegs`'s read and updates. A caller leaves the queue by its
timeout, because it is full or by an error; `/queue-exit` treats these alike (`leave`).
`EndedCallsStayEnded` is about rows that were deleted: a row inserted only after the end
of its call is the subject of `CallFlow_MissedCallIsEnded.cfg`. Calls share
no state but the request a user has in flight.

## 4. BlastDelivery

**Correspondence.** `status`, `sentStat` and `delivery` are the columns of
`blasts` and `blast_deliveries`; `writes[b]` counts the requests of each kind that have
read a blast's status and not yet written it. A call of `processOnce` is a slot of
`Runs`, whose variables are its locals. `worker[r][ch]` says where the queue of a
channel is: `check` (batch boundary), `batch` (about to start one), `sending`
(in `Promise.allSettled`), `done` or `failed` (rejected). A run whose queue was
rejected has returned and cleared the flag, but stays as an `orphan` while its
other queues send. `inflight[r][s]` is what a recipient of a batch waits for, `"lost"` when
neither `createDelivery` nor that of the `catch` could store his delivery. `copies` counts
what the provider accepted; `interrupted` and `unrecorded` only observe.

| Code | Actions |
|---|---|
| `/send`, `/schedule`, `/cancel`, `DELETE` | `SendRead`, `ScheduleRead`, `StatusWrite`, `Cancel`, `Delete` |
| `processOnce` | `Poll`, `Promote`, and the end of a run by `Finish` or `Reject` (`Return` is its `finally`) |
| `processBlast` | `Load`, then per queue `CheckCancelled`, `StartBatch`, `Send`, `Record`, `EndBatch` |
| a query that throws: of a queue, of the call itself, of `createDelivery` | `QueueFails`, `QueryFails`, `RecordFails` |
| `Promise.all`, orphaned queues | `Finish`, `Reject`, `OrphanEnds` |
| crash, or `shutdown` of `server.ts`, and the next start | `Restart` |
| STOP and joining again; messaging settings | `OptOutOrIn`, `ToggleChannel` |

**Properties.** `CopiesNeedAnInterruption`: at most one copy, but after a run of
the blast that was cut off or rejected, and to a recipient whose delivery could not be
stored. `SentMeansServed`: a blast becomes `sent` only when everybody eligible has a
delivery, no channel, or was tried by this very run and only the storing of his delivery
failed. That exception is the code's: `allSettled` logs the rejection and the queue goes on,
although the comment at `jobs/blast-processor.ts:273` says that it "should not occur".
`CancellationTakesABatch`, and the liveness property `SendingEnds`.

**Abstractions.** Every subscriber of the model matches the blast's targeting.
The decryption of an identifier and the answer of the adapter are the two
outcomes of `Send`; a failed one may hide an accepted message. When the adapter
refused a message the code tries twice to store the failed delivery, the model once. Time is left out:
a scheduled blast may be due at any poll. `copies` does not count above 2.

## 5. Conversations

**Correspondence.** `status` and `assignedTo` are the row of a contact's
conversation (`"none"` without one), `count` its `messageCount`, `rows` how
often each message is in `message_envelopes`. A handler is a webhook request from
`findByExternalId` to its answer and, if it made the conversation, the
`tryAutoAssign` it starts without awaiting. `request[u]` is what a user's claim or
update has read and not yet written. `told`, `contested`, `byHand`, `crowded`,
`crashed`, `turnedAway` and `uncounted` only observe.

| Code | Actions |
|---|---|
| provider | `Deliver` (also of what it sends again), `LoseAnswer` |
| webhook of `messaging/router.ts`, `findByExternalId`, `createConversation`, `addMessage` | `Find`, `Create`, `Store`, `Count`, `Answer` |
| `tryAutoAssign`, the fault its `catch` logs | `CountLoads`, `AutoAssign` |
| `POST /{id}/claim` | `AskClaim`, `Claim` |
| `PATCH /{id}` as the client sends it (close, `handleUnassign`, `handleReassign`) | `AskUpdate`, `Update` |
| crash | `Crash` |

**Properties.** `CountIsExact`: no increment is lost between handlers, and the only
rows that stay uncounted are those a crash came in between. `ClaimHolds`: a claim
that was confirmed holds until an update, unless a second claim or a first message
overlapped with it. `OverloadHasACause`: auto-assignment respects
`maxConcurrentPerUser` unless two of them overlap or somebody assigns by hand.
Liveness: `EveryMessageIsStored` and `NewConversationIsOffered`.

**Abstractions.** One hub and one channel. A provider repeats a message only if it
had no answer (yet). Auto-assignment is switched on; its queries up to the candidate are one
step. Who is eligible for auto-assignment does not change. Bodies,
contact links, keywords and events are left out, and so are outbound messages
with their delivery statuses.

## 6. Sessions

**Correspondence.** `revoked` (`"none"` before the login, `"no"` while live, else the
reason), `cur`, `prev`, `aged` and `expired` are the columns of a
`user_sessions` row; tokens are numbers in the order of issue and stand for their
hashes. `aged` says that the last rotation is more than the grace window ago. `jar`
is the browser's cookie, `handed` the tokens it ever had (an old copy of its
profile may send one), `req[r]` a refresh in flight, `lock` a lockdown.
`passkeys` are the user's rows of `webauthn_credentials`, `unused` those never
registered, `key[s]` the `credentialId` of a session (null for an invite's). `mess`, `late`
and `early` only observe.

| Code | Actions |
|---|---|
| redeeming an invite, `/webauthn/login-verify`, `createUserSession` | `RedeemInvite`, `VerifyLogin`, `CreateSession` |
| `/webauthn/register-verify`, deleting a passkey | `RegisterPasskey`, `DeletePasskey` |
| `POST /token/refresh`: `findByTokenHash`, checks, `revoke`, `touch`, identity provider, cookie | `Arrive`, `Lookup` (`Decide`), `RevokeFound`, `TouchRead`, `TouchWrite` (`Rotate`), `IdpAnswers`, `Deliver`, `Lose` |
| `DELETE /sessions/{id}`, `/session/revoke`, `/sessions/revoke-others` | `RevokeSession`, `Logout`, `RevokeOthers` |
| `runLockdown` of tier A, B, C | `LockdownRevokes`, `LockdownReads`, `LockdownDeletes`, `LockdownEnds` |
| the grace window, expiry, deactivation | `GraceEnds`, `Expires`, `IdpDeactivates` |

**Properties.** `LateRefreshIsRefused`, `RevokedForGood`: a revocation is final although
refreshes that passed the check go on writing to the row. `LockdownShutsOut`: after
a lockdown that went through, every session of before it is revoked but the caller's
(tiers A and B), every passkey it read is gone but the caller's (tier B), and a session
opened since comes from a passkey it did not delete or from a login that overlapped with
it. More does not hold: a registration needs only an access token, which `jwtAuth` asks
for neither its session nor that session's revocation, so a passkey registered after the
lockdown read the list survives it.
`ReplayHasACause`, `QuietBrowserIsCurrent`: a browser whose tabs take turns and that
gets its answers is never taken for a thief and always holds the current token.

**Abstractions.** One user and one lockdown. The reasons `lockdown_a`, `_b` and `_c` are
one. Access tokens do not expire. A passkey is looked up and deleted in one step. Rate limits, PIN proofs,
events and notifications are left out. `DISABLE_TOKEN_ROTATION` is off.

## 7. AuditChain

**Correspondence.** `rows` are the `signed_audit_entries` of a hub in the order of
insertion; an index stands for a hash, `0` for the null before the first entry.
`at` is the entry's `createdAt`, the signer's clock: the real time (`clock`) plus his
`skew`. `verified[v]` is the `ChainCacheRow` of a viewer, `alarm` who got a
`ChainVerificationError` last.

| Code | Actions |
|---|---|
| `fetchAuditHead`, `buildSignedAuditEntry` | `FetchHead`, `Sign` |
| `appendSigned`: checks; insert under the unique constraints | `Check`, `Insert` |
| `list` and `verifyAuditChain` | `Verify` |

**Properties.** `NoFork`, `HeadIsTheEnd` (while the clocks agree), `CacheIsSound` (an
incremental verification accepts nothing a full one refuses), `AlarmHasACause` (no
false alarm while the clocks agree and every signer is trusted).

**Abstractions.** Hashes and signatures hold what they promise. Payload types are
represented by one for admins only (the super admin's among them), one for any signer,
and the two that change the verifier's trust; a type the server does not know is not sent. A verification lists the entries in one query, and no
two signings fall in one tick.

## 8. FirehoseAgent

**Correspondence.** One connection. `status` is its row's, `buffer` a message's row of
`firehose_message_buffer`, `reports` how many submitted reports contain it. `agent` is the
map's entry, named after its interval, and `timers` the intervals that run. `pass[p]`
is a call of `runExtractionLoop` with the batch it has still to go through,
`call[a]` a request to update or delete the connection with the `startAgent` it
does not await; `Boot` is the `init` of a started server. `overlap`, `unmarked`,
`twoStarts`, `met` (an update met another one or a tripped breaker) and `failed` (a start, a
deletion or the breaker's write failed) only observe; a restart clears the last three.

| Code | Actions |
|---|---|
| `handleFirehoseMessage` | `Receive` |
| `startAgent`, `stopAgent` | `LoadConnection`, `Launch`, `StartFails`, `StopAgent` |
| `PATCH`, `DELETE` of `routes/firehose.ts` | `AskUpdate`, `WriteStatus`, `ActStop`, `ActStart`, `Delete`, `UpdateFails` |
| `runExtractionLoop` | `Fire`, then for each cluster `Extract` and `Mark`, or `Skip`, or `Fail` (`Catch`); `Pause` |
| crash and restart | `Crash` |

**Properties.** `ExtractedIsReported`: a marked message is in a report.
`ReportedTwiceHasACause`: only after passes overlapped or an error or a crash came
between report and mark. `StrayTimerHasACause`: an interval that is not the map's
comes from two starts that overlapped. `StatusDecides`: with nothing in flight, an agent
of a connection that is not active needs `met`, an active connection without agent needs
`met` or `failed`. A deletion that throws is one of the latter: `routes/firehose.ts:384`
stops the agent first. So no failure alone leaves an agent running, and a restart repairs
everything. Liveness: `ClustersAreExtracted`, messages within a window of one another do
not stay in the buffer while the agent runs, however passes overlap or fail, unless
their cluster is skipped for lack of confidence again and again, or others are marked again
and again (each resets the breaker's count). Skips and failures have no bound in the model,
as they have none in the code.

**Abstractions.** The queries at the beginning of a pass are one step, and so is a
submission (its conversation and message; a failure in between is a `Fail` before
or after it). The inference answers, lacks confidence or fails. A message is
in a cluster when another one is within a window of it; `Time` counts windows.
`reports` does not count above 2.

## 9. RecoveryGroup

**Correspondence.** `status` and `contributions` are the session's columns, `age` the time
since its creation as far as the two delays tell it apart. `request[r]` is a transaction
between its `SELECT` and its `UPDATE`, which PostgreSQL's default isolation (read
committed) does not order with others: the `UPDATE` writes the list read before.
`AskContribute`/`Contribute` are `contributeShare`, `AskComplete`/`Complete`
are `completeRecovery`, `RollBack` any failure. `accepted` and `overlap` only observe.

**Properties.** `ReadyHasQuorum`, `LostShareHasACause`, `StatusGoesOn`, and in the type
invariant that no share is stored twice.

## 10. Runs

Passing runs. TLC visits the whole state space within the bounds.

| Run | Configuration | Checks | States |
|---|---|---|---|
| `call_race` | `CallFlow_race.cfg`: two users, three legs at most, no shift changes | types, the four safety properties and `ImplementsLifecycle` | 276 000 |
| `call_liveness` | `CallFlow_liveness.cfg`: one user on two legs, two shift or break changes, nobody to fall back on | `HoldingCallerIsServed`, `ConversationIsClosed` | 153 000 |
| `blast_orphan` | `BlastDelivery_orphan.cfg`: one blast, two channels, two runs, one restart or failure, one change | types, `CopiesNeedAnInterruption`, `SentMeansServed` | 5 032 000 |
| `blast_liveness` | `BlastDelivery_liveness.cfg`: one blast, three recipients, two to a batch, one restart or failure | `CancellationTakesABatch`, `SendingEnds` | 634 000 |
| `conversations` | `Conversations.cfg`: two contacts with a message each, two handlers, one volunteer and one coordinator, one fault, two requests | types, `CountIsExact`, `ClaimHolds`, `OverloadHasACause`, `EveryMessageIsStored`, `NewConversationIsOffered` | 330 000 |
| `sessions` | `Sessions.cfg`: two sessions, two passkeys, two refreshes, three tokens | types, `LateRefreshIsRefused`, `LockdownShutsOut`, `ReplayHasACause`, `QuietBrowserIsCurrent`, `RevokedForGood` | 2 291 000 |
| `audit` | `AuditChain.cfg`: three signers with two clocks, one viewer, three entries | types, `NoFork`, `HeadIsTheEnd`, `CacheIsSound`, `AlarmHasACause` | 2 323 000 |
| `firehose` | `FirehoseAgent.cfg`: two pairs of messages, two passes, two admins, two updates, two troubles | types, `ExtractedIsReported`, `ReportedTwiceHasACause`, `StrayTimerHasACause`, `StatusDecides` | 1 650 000 |
| `firehose_liveness` | `FirehoseAgent_liveness.cfg`: the same with one admin, one update and one trouble | `ClustersAreExtracted` | 117 000 |
| `recovery` | `RecoveryGroup.cfg`: four admins, a threshold of three, three transactions | types, `ReadyHasQuorum`, `LostShareHasACause`, `StatusGoesOn` | 1 439 000 |

**Bounds, and why they are enough.**

- `CallFlow`, one caller: actions about different calls touch different
  entries of every variable, except that a user has one request in flight.
- `CallFlow`, two users (one by phone, one in the browser): enough for
  two answers over the same path, over both paths, and a losing leg on each
  kind of device. `MaxToggles` bounds shift and break changes; two let a user
  leave and come back, or be on shift and on break, during one ringing job.
- `BlastDelivery`, `MaxRuns = 2`: an orphaned run and the next one. More runs
  pile up orphans that differ in nothing. `blast_liveness` has one run, since no
  queue can be rejected there but after a deletion; the poll then waits for the
  orphan to end. `BlastDelivery_twoblasts.cfg`, which takes longer, checks
  `SendingEnds` with two blasts.
- `BatchSize` and `Concurrency` are scaled down to 1 or 2, so that a queue of
  two or three recipients crosses a batch boundary. `MaxTroubles` counts restarts and
  calls to the database that throw, `MaxChanges` changes of subscriptions and settings,
  `MaxRequests` requests of one kind at once; two in `blast_liveness`, where both may write.
- `Conversations`: two handlers are what any race needs; `MaxFaults` counts
  repetitions before the answer, lost answers and crashes, `MaxAsked` the claims and
  updates, which `Handled` confines to one contact (the other one is there to
  fill the volunteer's load).
- `Sessions`: refreshes come from one session (`Busy`), the other one asks for
  revocations and lockdowns. One passkey may be there at the start, the other one is
  registered at any time. `Bounded` keeps overlapping, lost or expired refreshes and the
  deactivation apart from lockdowns and changes of the passkeys; a single refresh in
  flight meets all of them. Three tokens: two logins and a rotation, or two rotations.
- `AuditChain`: three signings let an entry be appended to an entry that was
  appended to another one; a clock two ticks ahead outdates two entries.
- `FirehoseAgent`: two clusters in a batch and one late message that joins the
  earlier; two passes overlap; the breaker trips at 2 instead of 3; `MaxTimers`
  counts starts, `MaxUpdates` updates, `MaxTroubles` crashes and failures of a start, an
  update or the breaker's write; skipped clusters and failed extractions are not bounded.
- `RecoveryGroup`: three transactions at once can undo a quorum; a fourth admin
  retries after it.

The proofs have none of these bounds.

**Symmetry** is used where the run has only safety properties and the set is a
parameter of the model (`Requests`, `Passes`, `Admins`).

**Deadlock** is not checked: a call ends, nobody has to send a blast or an entry,
a message that is stored needs nothing more, a session is completed.

**Fairness.** `CallFlow`: weak fairness of the server's own steps (a promise
that can continue does), of the delivery of callbacks, and of what the
provider's limits force (greeting, queue timeout, maximal recording and ringing
time). None of picking up, answering, talking or hanging up.
`BlastDelivery`: weak fairness of the poll (`setInterval`) and of the next step
of each run. None of sending, cancelling, deleting, restarting or changing.
`Conversations`: weak fairness of each handler's next step (a promise that can
continue does) and of the provider, which repeats what was not answered; none of users.
`FirehoseAgent`: weak fairness of each pass, `setInterval` and the promises it starts;
none of admins, messages, skips or failures.
`SendingEnds` is checked with its channels enabled throughout: section 12 says
what happens otherwise. It excepts calls, queues and restarts that fail for ever, not
deliveries that cannot be stored.

## 11. Proofs

All for every value of the constants that satisfies the modules' ASSUMEs, which TLC
evaluates on every run: null values are not members of the sets they stand beside;
preferences are sets of users (`UsersAssumption`, `SettingsAssumption`,
`LegAssumption`); subscribers, contacts, messages, handlers and admins are finitely
many, as rows of a table and requests in a process are; batch sizes are positive and
`CONCURRENCY` divides `BATCH_SIZE` (10 and 50 in the code); what may be signed is a set of known payload types
(`SignersAssumption`). No bound of a run is assumed to be small.

Every safety property that a passing run checks is a theorem. A name in the second
column is the property the theorem states.

| Theorem | States | Says |
|---|---|---|
| `TypeCorrectness` | `TypeOK` | of `CallFlow` |
| `EndedStayEnded` | `EndedCallsStayEnded` | a call that ended has no row ever again |
| `OwnersAgree` | `OwnerAgreesWithStatus` | the owner of a row goes with its status |
| `FlowImplementsLifecycle` | `ImplementsLifecycle` | `CallFlow` implements `CallLifecycle` |
| `ConnectedAreAudited` | `ConnectedUserIsAudited` | who talks to a caller is in the audit log |
| `MissedWereNeverConnected` | `MissedMeansNeverConnected` | a call reported as missed was connected to nobody |
| `BlastTypeCorrectness` | `TypeOK` | of `BlastDelivery` |
| `NoCopyWithoutInterruption` | `CopiesNeedAnInterruption` | at most one copy without an interrupted run or an unstored delivery |
| `SentIsServed` | `SentMeansServed` | `sent` only when everybody eligible was served, or only his delivery could not be stored |
| `CancelledWithinABatch` | `CancellationTakesABatch` | a cancelled blast's queues stop within `BATCH_SIZE` |
| `ConversationTypes` | `TypeOK` | of `Conversations` |
| `CountsAreExact` | `CountIsExact` | `messageCount` is the number of rows, but for increments in flight or lost |
| `ClaimsHold` | `ClaimHolds` | who was told that a claim succeeded has the conversation, unless another opening overlapped |
| `OverloadsHaveACause` | `OverloadHasACause` | auto-assignments that do not overlap respect the limit |
| `SessionTypes` | `TypeOK` | of `Sessions` |
| `LateRefreshesAreRefused` | `LateRefreshIsRefused` | a refresh that comes after the revocation gets nothing |
| `RevocationIsFinal` | `RevokedForGood` | a revoked session stays revoked, for its first reason |
| `LockdownIsForAll` | `LockdownShutsOut` | a lockdown revokes the sessions and deletes the passkeys of before it but those it keeps; later sessions come from other passkeys or overlapping logins |
| `ReplaysHaveACause` | `ReplayHasACause` | no replay is seen where refreshes took turns and were answered |
| `QuietBrowsersAreCurrent` | `QuietBrowserIsCurrent` | such a browser holds the current token |
| `AuditTypes` | `TypeOK` | of `AuditChain` |
| `ChainNeverForks` | `NoFork` | the audit entries of a hub are one chain |
| `HeadByTimeIsTheEnd` | `HeadIsTheEnd` | while the clocks agree, the head by time is the end of the chain |
| `CachesAreSound` | `CacheIsSound` | an incremental verification accepts nothing a full one refuses |
| `AlarmsHaveACause` | `AlarmHasACause` | with agreeing clocks and trusted signers no verification throws |
| `FirehoseTypes` | `TypeOK` | of `FirehoseAgent` |
| `ExtractedMessagesAreReported` | `ExtractedIsReported` | a message marked as extracted is in a report |
| `SecondReportsHaveACause` | `ReportedTwiceHasACause` | a second report of a message needs overlapping passes or a lost mark |
| `TimersAreTheAgents` | `StrayTimerHasACause` | an interval that is not the map's agent's needs two starts at once |
| `AgentFollowsStatus` | `StatusDecides` | at rest the agent runs exactly while its connection is active, or an update met another one or the breaker, or (agent missing) a write or a start failed |
| `RecoveryTypes` | `TypeOK` | of `RecoveryGroup` |
| `ReadySessionsHaveAQuorum` | `ReadyHasQuorum` | a session that may be completed holds `Threshold` different shares |
| `AcceptedSharesStay` | `LostShareHasACause` | an accepted share is lost only to an overlap |
| `StatusOnlyGoesOn` | `StatusGoesOn` | without one, `pending`, `ready`, `completed` follow each other |

**CallFlow.** Type correctness is not inductive alone: a callback that is
served needs its leg, a request its call (`AnswerHasLeg`, `RequestHasCall`; with
`TypeOK` they are `TypeInv`). The rows' properties follow from `RowInv`: a call
is routed once (`RoutedOnce`), so only one ringing job can create its row, at
its beginning (`RowsAreStarted`); a request in flight is about a call that has
had its row (`RequestsAreStarted`); and a report in flight is about a call with
an owner or without a row (`SpamIsOwned`), which is what keeps an unowned row
from being marked as spam between the read and the write. The refinement uses
`RowInv` and the lemma `RowChange`, which says all that any step may do to a
row. The audit theorem needs that a leg on its way to the caller is already
logged (`ReachingLegsAreAudited`), the one on missed calls that a hangup callback
in flight is about a caller who is gone and not yet reported
(`HangupIsUnreported`). Each of these rests on a "change" lemma per group of
variables (`JobChange`, `WebhookChange`, `RestChange`, `CallerChange`,
`LegChange`), proved once by a case split on the actions.

**BlastDelivery.** `CopyInv` strengthens the property by what the code relies on.
The flag admits one awaited call at a time (`OneCall`); queues nobody awaits
belong to interrupted blasts (`OrphansAreInterrupted`); a recipient in a batch
was taken off the list and his queue waits for him (`BatchesAreAwaited`). Given
those, a recipient of an undisturbed run who is still to be sent to has no copy
(`UnsentHaveNoCopy`), and a copy is recorded or is about to be by the run that
sent it (`CopiesAreRecorded`), so the next `Load` skips it; both leave out recipients whose
delivery could not be stored. `SentIsServed` is an
action property: `ServiceInv` says that an eligible recipient of a run that is
not over is delivered, in a batch, lost by it or waiting for one (`EligibleAreSeen`), and
that a queue with recipients left only stops by failing or by finding the blast
cancelled (`QueuesGoOn`); `RunsFinish` says that only `Finish` makes a run with
queues return and changes its blast.

`CancelledWithinABatch` rests on `LateIsBounded`: the recipients a queue has started on a
cancelled blast are no more than its index is into the current batch. That the
index reaches each multiple of `BATCH_SIZE` and never jumps over one is arithmetic
of remainders, proved from the division of one number by another (`Division`,
`RemainderOf`, `BatchRemainders`).

**Conversations.** Three invariants on top of one on types, in which a message is stored
at most once more often than there were faults (`HandledOnce`, a count of handlers that
have yet to store it); it gives `TypeOK`, where a row's number is bounded by the
faults. `CountIsExact` is inductive then: every store adds one increment that is due.
`ClaimInv` says of a conversation whose openings never overlapped that there is one
opening at a time and none once somebody was told of his claim (`OneOpening`,
`ToldAlone`); this is what excludes the stale read of the claim. `LoadInv` says that
the user an auto-assignment has picked still has room when it is written.

**Sessions.** `LateRefreshIsRefused` is inductive with the fact that a late refresh is of
a revoked session, which `RevocationIsFinal` keeps true: every write of `revoked` but
the login's goes through `revoke` or `revokeAllForUser`, and a session is created once.
`LockInv` follows a lockdown: the sessions of before it are out (`OldAreOut`, from the one
step that revokes and `RowsStay`), the passkeys it read are still to be deleted or gone and
never come back (`PasskeysGo`), and a login past its verification overlapped with it or has
another passkey (`LoginsAreEarly`). `TokenInv` is about a session whose refreshes met with no trouble:
one is in flight at a time (`Alone`), it found the current token or brings it, and
without one the cookie jar has it (`Current`). A row that keeps its tokens when it is
revoked, and the rotation after that, are why both are stated of live sessions only.

**AuditChain.** The invariant says more than `NoFork`: entry `i` follows entry `i - 1`,
because only the last row's hash is free (`Linked`, `OnlyTheEndIsFree`). For
`HeadIsTheEnd` the induction carries that the entries are in the order of their times
and that a draft that may still be inserted is later than the entry it follows
(`Dated`). The viewers have a second invariant on top (`ViewInv`). Its core is
the loop of `verifyAuditChain`: as long as it has not thrown, the entry it is at is
the next of the chain, and its trust set is that of the chain there (`WalkFollows`);
appending to the chain changes no trust set up to its end (`TrustIsKept`), so caches
stay sound. For `AlarmsHaveACause` a listing sorted by time is shown to be the rest of
the chain in order (`ListsAreOfRows`, `IncreasingIsNext`). The loop is a recursive
function over the listing; that such a function has the values its equations
give (`Iteration`) and the inductions over it (`SetInduction`) are derived from the
existence of minimal elements, as the library's induction theorems cannot be instantiated.

**FirehoseAgent.** Three invariants, each saying what holds until the trouble its
property names. `LoopInv`: without overlapping passes and lost marks, what
waits in the buffer or in a pass is not reported yet. `TimerInv`: without two starts at
once, a start has found no agent and is alone. `StatusInv`: an update that met no other one and no tripped breaker is
alone and has done to the agent what its step says (`Progress`); the agent then runs only
with an active connection, and a missing one is a failure's.

**RecoveryGroup.** A contribution in flight is of an admin who is not on the list it
has read (`SharesAreNew`), so that the length of a list is the number of its admins.
What holds without an overlap rests on a contribution being the only
transaction, with the row still as it read it (`ContributionsAreAlone`,
`CompletionsAreDue`).

**Only model-checked.** The liveness properties: `HoldingCallerIsServed`,
`ConversationIsClosed`, `SendingEnds`, `EveryMessageIsStored`,
`NewConversationIsOffered` and `ClustersAreExtracted` (fairness is out of the prover's
reach). The statements of section 12, which do not hold.

## 12. Where the code departs from its documents

Two runs end with a counterexample and are entries of `findings` in `PROJECT.json`:

| Run | What happens |
|---|---|
| `FirstPickupWins` | A second answer takes a call over from its first owner: both answer paths write without looking at what the row has become. |
| `HeadIsLatestEntry` | `getHead` orders by the signers' clocks. An entry from a clock that is behind is inserted and does not become the head; from then on every client follows the old head, which already has its one successor, and every append ends in a conflict. |

More configurations of the same kind are kept beside the runs. Each checks one
statement of a document or comment, from the end of its module, that TLC refutes.

| Configuration | What happens |
|---|---|
| `CallFlow_LosingLegEndsNothing` | A user who picked up too late hangs up, and the row of the call another user is talking on is deleted. |
| `CallFlow_GoneCallerIsNotActive` | A caller gives up in the greeting; the ringing job inserts a row nothing ever deletes, and the hub counts a call in progress for ever. |
| `CallFlow_HoldingCallerIsRung` | Everybody on shift is on break: the caller is put on hold and nobody is rung until the queue times out. |
| `CallFlow_OnlyWinnersLegsSurvive`, `_RecordingIsKept`, `_CallEndsOnce`, `_HangupEndsConversation`, `_AnsweredIsAudited`, `_MissedCallIsEnded` | Legs without rows ring on; recordings find no record; two routes log one end; a hangup leaves the bridge up; a REST answer is not in the audit log; a missed call gets its row after its end. |
| `BlastDelivery_CancelledIsFinal` | A cancelled blast is sent, or becomes `sending` again. |
| `BlastDelivery_OneBlastAtATime` | The queues of a rejected run send beside the next run's, of another blast. |
| `BlastDelivery_StatsCountSuccesses` | After a restart, failed deliveries of the runs before count as sent. |
| `BlastDelivery_ShutdownCompletesBatches`, `_UnsendableBlastFails` | A shutdown cuts a batch off; a blast whose adapter cannot be made is `sending` for ever. |
| `Conversations_LoadIsLimited` | The "conversation limit per user" (`src/shared/types.ts:465`) is exceeded by claims, reassignment and overlapping auto-assignments. |
| `Conversations_MessageReopens` | A message to a closed conversation is stored there and the conversation stays closed. |
| `Sessions_ConcurrentRefreshesSucceed` | Of two refreshes with one cookie that `touch` at once, the browser may keep the token that is neither current nor previous (`services/sessions.ts:135` says "so concurrent refreshes still succeed"). |
| `Sessions_GraceIsAlwaysOneRotation` | Then the token before the last is accepted, and the last is not (`db/schema/sessions.ts:22`: "one-rotation grace window"). |
| `Sessions_LockdownRevokesEverything` | A login verified before the lockdown opens its session after it (`services/security-actions.ts:64`: "Tier C revokes EVERYTHING"). |
| `FirehoseAgent_ReportedOnce` | Overlapping passes, and an error between report and mark, submit a cluster twice. |
| `FirehoseAgent_InactiveIsStopped` | A start in flight while the connection is paused leaves the agent running on it. |
| `RecoveryGroup_AcceptedIsStored` | Two contributions read the same list: one of the accepted shares is lost. |
| `RecoveryGroup_CompletedIsFinal` | A contribution that was read before writes `ready` or `pending` over `completed`. |

Seen while reading, and not a property: a waiting conversation that was unassigned
keeps its user in `assignedTo`; `purgeExpired` of sessions, `purgeExpiredMessages`
of the firehose, `rotateGroup` and `RecoveryService` have no caller; the statuses
`expired` and `cancelled` of a recovery session are never written, and its
`expiresAt` is the moment it may first be completed; a lone message in
the firehose's buffer is never extracted.

## 13. Not modelled

- Cryptography (HPKE, OPAQUE, MLS, secret sharing) and the client, which
  is mostly cryptography and rendering: its requests are the models' inputs.
- Adapters and bridges as such: what they do is taken from how the server calls
  them, and marked external in `PROJECT.json`.
- CRUD over encrypted rows, settings, storage, setup wizards, metrics: hardly
  any states.
- In `CallFlow`: bans and rate limits, repeated or lost callbacks, restarts of the
  server during a call. In `BlastDelivery`: creation and `PATCH` of a blast (the
  latter may write any status), import of subscribers, audit entries.
- In `Conversations`: outbound messages and their delivery statuses, `claimMessage`.
  In `Sessions`: the device-link route, which opens a session as an invite does, the expiry
  of access tokens, further lockdowns, PIN and factor changes. In `AuditChain`: changes of roles and of the trust anchors. In
  `FirehoseAgent`: decryption failures, opt-outs. In `RecoveryGroup`: enrolment.
- The components of section 1 that section 14 plans.

## 14. Plan

Done: `CallFlow`, `CallLifecycle`, `BlastDelivery`, `Conversations`, `Sessions`,
`AuditChain`, `FirehoseAgent`, `RecoveryGroup`, and the theorems of section 11, which
cover every safety property of the passing runs.
Next, in this order:

1. `CallFlow`: repeated callbacks and restarts. `Conversations`: delivery statuses
   that overtake each other.
2. `SipBridge`: calls, legs, gather timers and queue callbacks, composed with
   `CallFlow`'s provider as the abstract side.
3. `MlsEpochs`, `HubKeys`: epochs and generations under concurrent clients, and
   retries of a revocation.
4. `SpamGate` and `Shifts`: counters at their limits; the schedule computation
   against a reference definition over bounded inputs.
