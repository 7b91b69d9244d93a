---------------------------- MODULE MCAgentTick ----------------------------
(* Ticks and writers as model values.                                      *)
EXTENDS AgentTick, TLC

CONSTANTS t1, t2, v1
=============================================================================
