---------------------------- MODULE MCFirehoseAgent ----------------------------
(* Instances of FirehoseAgent for TLC. *)
EXTENDS FirehoseAgent, TLC

CONSTANTS m1, m2, m3, m4

\* Two pairs of neighbours: two clusters, once all have come.
TwoPairs == (m1 :> 0) @@ (m2 :> 1) @@ (m3 :> 3) @@ (m4 :> 4)

\* For runs without a temporal property.
Alike == Permutations(Passes) \cup Permutations(Admins)
================================================================================
