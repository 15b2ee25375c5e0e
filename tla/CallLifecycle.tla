----------------------------- MODULE CallLifecycle -----------------------------
(***************************************************************************)
(* What the table of active calls promises: a call is listed once at most, *)
(* as ringing; while it is listed it is answered, left a message or        *)
(* reported; and once it is off the list it never comes back.              *)
(*                                                                         *)
(* Calls are independent of each other, so a step says what every one of   *)
(* them does, nothing included.                                            *)
(***************************************************************************)
CONSTANTS Calls, Users, NoUser

VARIABLES state, owner
lifecycle == <<state, owner>>

State == {"new", "ringing", "in-progress", "voicemail", "spam", "over"}
Listed(c) == state[c] \in State \ {"new", "over"}

Init ==
    /\ state = [c \in Calls |-> "new"]
    /\ owner = [c \in Calls |-> NoUser]

Becomes(c, st, u) == state'[c] = st /\ owner'[c] = u

Stays(c) == Becomes(c, state[c], owner[c])

Ring(c) == state[c] = "new" /\ Becomes(c, "ringing", NoUser)

\* Nobody is there to be rung: the call is never listed.
Skip(c) == state[c] = "new" /\ Becomes(c, "over", NoUser)

Answer(c) == Listed(c) /\ \E u \in Users : Becomes(c, "in-progress", u)

LeaveMessage(c) == Listed(c) /\ Becomes(c, "voicemail", owner[c])

\* Only a call that somebody took can be reported.
Report(c) == Listed(c) /\ owner[c] # NoUser /\ Becomes(c, "spam", owner[c])

End(c) == Listed(c) /\ Becomes(c, "over", NoUser)

Next ==
    \A c \in Calls :
      Stays(c) \/ Ring(c) \/ Skip(c) \/ Answer(c) \/ LeaveMessage(c) \/ Report(c) \/ End(c)

Spec == Init /\ [][Next]_lifecycle
===============================================================================
