SPECIFICATION Spec
CONSTANTS
    Admins = {a1, a2, a3, a4}
    Threshold = 3
    Requests = {r1, r2, r3}
SYMMETRY Alike
PROPERTY CompletedIsFinal
\* Once the session is completed nothing is left to do.
CHECK_DEADLOCK FALSE
