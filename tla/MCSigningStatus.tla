-------------------------- MODULE MCSigningStatus --------------------------
(* Small instances of SigningStatus for TLC. *)
EXTENDS SigningStatus, TLC

Symmetry == Permutations(SSHRequests)
=============================================================================
