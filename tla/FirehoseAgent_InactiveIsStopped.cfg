SPECIFICATION Spec
CONSTANTS
    m1 = m1  m2 = m2  m3 = m3  m4 = m4
    Messages = {m1, m2, m3, m4}
    Time <- TwoPairs
    Late = {m2}
    Passes = {p1, p2}
    Admins = {a1, a2}
    Boot = boot
    NoAgent = none
    Threshold = 2
    MaxTimers = 2
    MaxUpdates = 2
    MaxTroubles = 2
SYMMETRY Alike
INVARIANT InactiveIsStopped
\* With the connection deleted, or nothing to extract, nothing is left to do.
CHECK_DEADLOCK FALSE
