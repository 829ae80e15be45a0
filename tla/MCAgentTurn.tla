---------------------------- MODULE MCAgentTurn ----------------------------
(* Small instances of AgentTurn. *)
EXTENDS AgentTurn, TLC

CONSTANTS role, undo, ask, read, n1, n2, x1
=============================================================================
