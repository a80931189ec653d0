------------------------- MODULE MCCollabConnection -------------------------
(***************************************************************************)
(* CollabConnection for TLC: one API call, a buffer of a few events.       *)
(***************************************************************************)
EXTENDS CollabConnection

CONSTANTS a

MCCalls == {a}
=============================================================================
