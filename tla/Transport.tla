----------------------------- MODULE Transport -----------------------------
(***************************************************************************)
(* What a connection promises its owner: from connect() to disconnect() it *)
(* keeps trying, whatever is lost; outside of that it is never open.       *)
(* SharedSession assumes this of its event stream (StreamDrop, StreamOpen  *)
(* and the fairness of StreamOpen); ReconnectingSocket implements it.      *)
(***************************************************************************)
VARIABLES
  wanted,   \* connect() was called, disconnect() not since
  up        \* a socket is open

vars == <<wanted, up>>

Init == wanted = FALSE /\ up = FALSE

Request == wanted' = TRUE /\ UNCHANGED up

Establish == wanted /\ ~up /\ up' = TRUE /\ UNCHANGED wanted

Lose == up /\ up' = FALSE /\ UNCHANGED wanted

Cease == wanted' = FALSE /\ up' = FALSE

Next == Request \/ Establish \/ Lose \/ Cease

Spec == Init /\ [][Next]_vars

FairSpec == Spec /\ WF_vars(Establish)
=============================================================================
