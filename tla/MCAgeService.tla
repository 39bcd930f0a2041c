---------------------------- MODULE MCAgeService ----------------------------
(* Small instances of AgeService for TLC. *)
EXTENDS AgeService, TLC

Symmetry == Permutations(AgeRequests)
=============================================================================
