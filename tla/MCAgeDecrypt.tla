--------------------------- MODULE MCAgeDecrypt ---------------------------
(* Small instances of AgeDecrypt for TLC. *)
EXTENDS AgeDecrypt, TLC

Symmetry == Permutations(AgeRequests)
=============================================================================
