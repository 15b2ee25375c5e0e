---------------------------- MODULE MCRecoveryGroup ----------------------------
(* Instances of RecoveryGroup for TLC. *)
EXTENDS RecoveryGroup, TLC

Alike == Permutations(Requests)
================================================================================
