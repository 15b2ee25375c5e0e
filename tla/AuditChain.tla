------------------------------ MODULE AuditChain ------------------------------
(* The signed audit chain of one hub: services/audit-log-service.ts,          *)
(* routes/audit.ts and the clients that sign (client/lib/audit-log-client.ts) *)
(* and verify (client/lib/audit-chain-verifier.ts).  An entry is a row of the *)
(* table; its number stands for its hash, 0 for the null before the genesis.  *)
(* Hashes and signatures are taken to be right; the payload is kept only as   *)
(* far as authorization and the verifier's trust set tell payloads apart.     *)
EXTENDS Integers, Sequences, FiniteSets, SequencesExt

CONSTANTS
    Signers,     \* signing keys of the hub's users and their devices
    Admins,      \* those whose role the server takes for admin: the trust anchors
    Payloads,    \* what they may sign: <<payload type, key it is about>>
    Viewers,     \* clients that verify the chain
    Skews,       \* how far ahead a signer's clock may be
    MaxSigned    \* bound: entries signed, the rejected ones included

\* Payload types: for admins only, for any signer, and the two that change the trust.
Types == {"role_change", "cross_sign", "device_add", "device_revoke"}

ASSUME SignersAssumption ==
    /\ Admins \subseteq Signers
    /\ Payloads \subseteq Types \X Signers
    /\ Skews \subseteq Nat
    /\ MaxSigned \in Nat

VARIABLES
    rows,       \* signed_audit_entries, in the order of insertion
    clock,      \* the real time, in ticks
    skew,       \* by how much a signer's clock is ahead of it
    pc,         \* where a signer's append is
    draft,      \* the entry it signs or has sent
    verified,   \* a viewer's ChainCacheRow: the last verified hash and the trusted keys
    alarm       \* the viewers whose last verification threw

vars == <<rows, clock, skew, pc, draft, verified, alarm>>

Blank == <<>>
Entry == [prev : Nat, at : Nat, signer : Signers, payload : Payloads \cup {Blank}]
NoDraft(s) == [prev |-> 0, at |-> 0, signer |-> s, payload |-> Blank]

\* Mutants of Heads: an empty chain has a head of its own kind; the order is ascending.
HeadsOrUndefined ==
    IF rows = <<>> THEN {-1}
    ELSE {i \in DOMAIN rows : \A j \in DOMAIN rows : rows[j].at <= rows[i].at}
HeadsAscending ==
    IF rows = <<>> THEN {0}
    ELSE {i \in DOMAIN rows : \A j \in DOMAIN rows : rows[i].at <= rows[j].at}

\* ORDER BY created_at DESC LIMIT 1: among equal times any row.
Heads ==
    IF rows = <<>> THEN {0}
    ELSE {i \in DOMAIN rows : \A j \in DOMAIN rows : rows[j].at <= rows[i].at}

AppendTypeOK ==
    /\ rows \in Seq(Entry)
    /\ clock \in Nat
    /\ skew \in [Signers -> Skews]
    /\ pc \in [Signers -> {"idle", "fetched", "sent", "checked"}]
    /\ draft \in [Signers -> Entry]

TypeOK ==
    /\ AppendTypeOK
    /\ verified \in [Viewers -> [last : Nat, trusted : SUBSET Signers]]
    /\ alarm \subseteq Viewers

Init ==
    /\ rows = <<>>
    /\ clock = 0
    /\ skew \in [Signers -> Skews]
    /\ pc = [s \in Signers |-> "idle"]
    /\ draft = [s \in Signers |-> NoDraft(s)]
    /\ verified = [v \in Viewers |-> [last |-> 0, trusted |-> Admins]]
    /\ alarm = {}

-------------------------------------------------------------------------------
(* A signer's client *)

FetchHead(s) ==
    /\ pc[s] = "idle"
    /\ clock < MaxSigned
    /\ \E h \in Heads : draft' = [draft EXCEPT ![s].prev = h]
    /\ pc' = [pc EXCEPT ![s] = "fetched"]
    /\ UNCHANGED <<rows, clock, skew, verified, alarm>>

\* The entry is dated by the signer's clock.  Two entries are never signed within
\* one tick of the real time.
Sign(s, payload) ==
    /\ pc[s] = "fetched"
    /\ clock < MaxSigned
    /\ clock' = clock + 1
    /\ draft' = [draft EXCEPT ![s].at = clock' + skew[s], ![s].payload = payload]
    /\ pc' = [pc EXCEPT ![s] = "sent"]
    /\ UNCHANGED <<rows, skew, verified, alarm>>

-------------------------------------------------------------------------------
(* The server *)

\* findSignerByPubkey and payloadIsAuthorizedFor.  "role_change" stands for every type that
\* asks for an administrator; that hub_create asks for a super admin, and that a type no
\* client signs is refused, is left out.
Authorized(s, payload) == payload[1] = "role_change" => s \in Admins

\* The client does not try again, whatever the answer is.
Answer(s) ==
    /\ pc' = [pc EXCEPT ![s] = "idle"]
    /\ draft' = [draft EXCEPT ![s] = NoDraft(s)]

\* appendSigned up to the insert: the entry must follow the head.
Check(s) ==
    /\ pc[s] = "sent"
    /\ \E h \in Heads :
         IF draft[s].prev = h /\ Authorized(s, draft[s].payload)
           THEN /\ pc' = [pc EXCEPT ![s] = "checked"]
                /\ UNCHANGED draft
           ELSE Answer(s)
    /\ UNCHANGED <<rows, clock, skew, verified, alarm>>

\* Mutant of Conflicts: no unique index for the genesis entry, whose hash is null.
ConflictsExceptNull(entry) == \E i \in DOMAIN rows : rows[i].prev = entry.prev /\ entry.prev > 0

\* UNIQUE (hub_id, prev_entry_hash), and at most one genesis entry.
Conflicts(entry) == \E i \in DOMAIN rows : rows[i].prev = entry.prev

Insert(s) ==
    /\ pc[s] = "checked"
    /\ rows' = IF Conflicts(draft[s]) THEN rows ELSE Append(rows, draft[s])
    /\ Answer(s)
    /\ UNCHANGED <<clock, skew, verified, alarm>>

-------------------------------------------------------------------------------
(* A viewer's client *)

\* Mutant of Listed: the anchor itself is listed again.
ListedFromAnchor(since) ==
    {i \in DOMAIN rows : since > 0 => rows[i].at >= rows[since].at}

\* list: the entries after the anchor's time, by time; equal times in any order.
Listed(since) ==
    {i \in DOMAIN rows : since > 0 => rows[i].at > rows[since].at}
Lists(since) ==
    {l \in SetToSeqs(Listed(since)) :
       \A i, j \in DOMAIN l : i < j => rows[l[i]].at <= rows[l[j]].at}

\* What an entry does to the trust set.
TrustAfter(trusted, entry) ==
    LET op == entry.payload[1]
        key == entry.payload[2]
    IN CASE op = "device_add" -> trusted \cup {key}
         [] op = "device_revoke" -> trusted \ {key}
         [] OTHER -> trusted

\* One entry of verifyAuditChain; "ok" is lost where the code throws.
VerifyEntry(state, i) ==
    [ok |-> state.ok /\ rows[i].prev = state.last /\ rows[i].signer \in state.trusted,
     last |-> i,
     trusted |-> TrustAfter(state.trusted, rows[i])]

\* Mutant of Start: the trust set is not taken from the cache.
StartFromAnchors(from) == [ok |-> TRUE, last |-> from.last, trusted |-> Admins]

\* The state before the first entry is the cache row's.
Start(from) == [ok |-> TRUE, last |-> from.last, trusted |-> from.trusted]

\* The loop of verifyAuditChain over the listed entries.
Walk(list, from) ==
    LET walk[k \in 0..Len(list)] ==
          IF k = 0 THEN Start(from) ELSE VerifyEntry(walk[k - 1], list[k])
    IN walk[Len(list)]

\* verifyAuditChain: the cache row is written only when the whole list verifies.  One
\* step, at the listing: a viewer's cache belongs to one client, and nothing but its own
\* verifications reads or writes it between cache.get and cache.put.
Verify(v) ==
    \E list \in Lists(verified[v].last) :
      LET result == Walk(list, verified[v]) IN
      /\ IF result.ok
           THEN /\ verified' = [verified EXCEPT ![v] = [last |-> result.last,
                                                        trusted |-> result.trusted]]
                /\ alarm' = alarm \ {v}
           ELSE alarm' = alarm \cup {v} /\ UNCHANGED verified
      /\ UNCHANGED <<rows, clock, skew, pc, draft>>

-------------------------------------------------------------------------------

Next ==
    \/ \E s \in Signers : FetchHead(s) \/ Check(s) \/ Insert(s)
    \/ \E s \in Signers, payload \in Payloads : Sign(s, payload)
    \/ \E v \in Viewers : Verify(v)

Spec == Init /\ [][Next]_vars

-------------------------------------------------------------------------------
(* Properties of the code *)

\* However the appends of several signers overlap and whatever their clocks say,
\* the entries are one chain: each follows an older entry, and no two the same
\* one (appendSigned's check of the head and the UNIQUE constraints).
NoFork ==
    /\ \A i \in DOMAIN rows : rows[i].prev \in 0..(i - 1)
    /\ \A i, j \in DOMAIN rows : rows[i].prev = rows[j].prev => i = j

ClocksAgree == \A s, t \in Signers : skew[s] = skew[t]

\* While the signers' clocks agree, the entry with the greatest time, which getHead
\* takes for the head, is the one to which nothing has been appended yet.
HeadIsTheEnd == ClocksAgree => Heads = {Len(rows)}

\* The entries of a verified history in the order they are linked, from the first.
Trusted[i \in 0..Len(rows)] ==
    IF i = 0 THEN Admins ELSE TrustAfter(Trusted[i - 1], rows[i])

\* A verifier that works from its cache and the entries since then accepts no
\* entry a verifier of the whole chain refuses: everybody who signed something up
\* to the verified head was trusted at that point of the chain.
CacheIsSound ==
    \A v \in Viewers :
      /\ verified[v].trusted = Trusted[verified[v].last]
      /\ \A i \in 1..verified[v].last : rows[i].signer \in Trusted[i - 1]

\* A verification throws only if the clocks disagree or a signer was not trusted:
\* overlapping appends and a stale cache are no tampering.
AlarmHasACause ==
    alarm # {} =>
      \/ ~ClocksAgree
      \/ \E i \in DOMAIN rows : rows[i].signer \notin Trusted[i - 1]

-------------------------------------------------------------------------------
(* A statement of the code's documentation that the code refutes *)

\* routes/audit.ts: the head is the latest entry of the chain, the one the next
\* entry has to follow, whatever the signers' clocks say.
HeadIsLatestEntry == Heads = {Len(rows)}
===============================================================================
