SPECIFICATION Spec
CONSTANTS
    a1 = a1
    a2 = a2
    v1 = v1
    viewer = viewer
    Signers <- MCSigners
    Admins <- MCAdmins
    Payloads <- MCPayloads
    Viewers <- MCViewers
    Skews <- TwoClocks
    MaxSigned = 3
\* The bound on signed entries ends the run.
CHECK_DEADLOCK FALSE
INVARIANTS
    TypeOK
    NoFork
    HeadIsTheEnd
    CacheIsSound
    AlarmHasACause
