-------------------------- MODULE MCSigningBackend --------------------------
(* Small instances of SigningBackend for TLC. *)
EXTENDS SigningBackend, TLC

Symmetry == Permutations(Clients)
=============================================================================
