------------------------------ MODULE MCCallFlow ------------------------------
(* Small instances of CallFlow with one caller, since calls share no state but *)
(* the request a user has in flight.                                           *)
(*   Race    two users, one rung by phone and one in the browser, whose legs and  *)
(*           dashboards compete for the caller                                 *)
(*   Solo    one user rung on both legs, who goes off shift or on break at any *)
(*           moment, and nobody to fall back on                                *)
EXTENDS CallFlow

CONSTANTS c1, u1, u2

MCCalls == {c1}
AllModes == {"auto", "always", "never"}

RaceUsers == {u1, u2}
RacePhoneUsers == {u1}
RaceBrowserUsers == {u2}
RaceFallback == {u1}

SoloUsers == {u1}
SoloFallback == {}
===============================================================================
