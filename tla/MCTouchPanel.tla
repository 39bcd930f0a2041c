---------------------------- MODULE MCTouchPanel ----------------------------
(* Small instances of TouchPanel for TLC. *)
EXTENDS TouchPanel, TLC


=============================================================================
