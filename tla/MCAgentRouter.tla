--------------------------- MODULE MCAgentRouter ---------------------------
(* Small instances of AgentRouter for TLC. *)
EXTENDS AgentRouter

CONSTANTS f1, f2
=============================================================================
