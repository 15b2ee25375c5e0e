SPECIFICATION Spec
CONSTANTS
    c1 = c1
    u1 = u1
    u2 = u2
    Calls <- MCCalls
    Users <- RaceUsers
    PhoneUsers <- RacePhoneUsers
    BrowserUsers <- RaceBrowserUsers
    FallbackGroup <- RaceFallback
    VoicemailModes <- AllModes
    MaxToggles = 0
    NoUser = NoUser
    NoCall = NoCall
    NoLeg = NoLeg
\* A call ends: nothing is left to do.
CHECK_DEADLOCK FALSE
PROPERTY HangupEndsConversation
