---------------------------- MODULE MCAgentHost ----------------------------
(***************************************************************************)
(* AgentHost for TLC: one call of the handle.                              *)
(***************************************************************************)
EXTENDS AgentHost

CONSTANT c1

MCCalls == {c1}
=============================================================================
