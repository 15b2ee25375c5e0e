------------------------------ MODULE MCSessions ------------------------------
(* Small instances of Sessions. *)
EXTENDS Sessions, TLC

CONSTANTS laptop, phone, r1, r2, usb, face

TwoSessions == {laptop, phone}
OneSession == {laptop}
TwoPasskeys == {usb, face}
OnePasskey == {usb}
TwoRequests == {r1, r2}
Alike == Permutations(TwoRequests)

\* Bounds.  Refreshes overlap, get lost, expire and meet an inactive user only while no
\* lockdown has begun and no passkey was registered or deleted; they overlap, expire and meet
\* an inactive user only while there is one session.
Untouched == lock.pc = "idle" /\ face \in unused /\ (usb \in passkeys \/ usb \in unused)
OneAtATime == Cardinality({r \in Requests : req[r].pc # "idle"}) < 2 /\ idpActive /\ ~expired[laptop]
Undisturbed == mess[laptop] = {}
Bounded == IF Untouched THEN OneAtATime \/ login[phone] = "out" ELSE OneAtATime /\ Undisturbed
==============================================================================
