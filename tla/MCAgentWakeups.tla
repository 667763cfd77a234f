--------------------------- MODULE MCAgentWakeups ---------------------------
(***************************************************************************)
(* Values of the constants for TLC.                                         *)
(***************************************************************************)
EXTENDS AgentWakeups
=============================================================================
