------------------------ MODULE MCReconnectingSocket ------------------------
(***************************************************************************)
(* ReconnectingSocket for TLC: the bounds are plain numbers in the cfgs.   *)
(***************************************************************************)
EXTENDS ReconnectingSocket
=============================================================================
