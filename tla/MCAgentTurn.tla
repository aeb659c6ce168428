---------------------------- MODULE MCAgentTurn ----------------------------
(* Instances of AgentTurn for TLC. *)
EXTENDS AgentTurn, TLC

CONSTANTS q1, q2, q3, q4
=============================================================================
