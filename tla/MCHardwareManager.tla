------------------------- MODULE MCHardwareManager -------------------------
(* Small instances of HardwareManager for TLC. *)
EXTENDS HardwareManager, TLC

AllTogether == {Requests \cup Outsiders}

\* The requests alone, or one of them and all outsiders at once.
InTurns == {Requests, {CHOOSE r \in Requests : TRUE} \cup Outsiders}

Symmetry == Permutations(Requests) \cup Permutations(Outsiders)
=============================================================================
