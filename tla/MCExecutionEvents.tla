------------------------- MODULE MCExecutionEvents -------------------------
(***************************************************************************)
(* ExecutionEvents for TLC: two jobs and one follower, of one or of both.  *)
(***************************************************************************)
EXTENDS ExecutionEvents

CONSTANTS j1, j2, f1

MCJobs == {j1, j2}
MCFollowers == {f1}
=============================================================================
