SPECIFICATION Spec
CONSTANTS
    laptop = laptop
    phone = phone
    r1 = r1
    r2 = r2
    usb = usb
    face = face
    Passkeys <- TwoPasskeys
    Enrolled <- OnePasskey
    Sessions <- TwoSessions
    Busy <- OneSession
    Requests <- TwoRequests
    NoToken = NoToken
    NoSession = NoSession
    NoPasskey = NoPasskey
    MaxTokens = 3
\* The bound on tokens ends the run.
CHECK_DEADLOCK FALSE
CONSTRAINT Bounded
SYMMETRY Alike
INVARIANTS
    TypeOK
    LateRefreshIsRefused
    LockdownShutsOut
    ReplayHasACause
    QuietBrowserIsCurrent
PROPERTY RevokedForGood
