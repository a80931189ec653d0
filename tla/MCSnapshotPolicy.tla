-------------------------- MODULE MCSnapshotPolicy --------------------------
(***************************************************************************)
(* SnapshotPolicy for TLC.  The cfgs scale the code's figures (200 and 20  *)
(* operations, 60 s, 5 s, 30 s) down and keep their order.                 *)
(***************************************************************************)
EXTENDS SnapshotPolicy
=============================================================================
