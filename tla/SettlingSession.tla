-------------------------- MODULE SettlingSession --------------------------
(***************************************************************************)
(* What a document session promises to those who wait for their edits:     *)
(* an edit stays pending until it is confirmed or given up and reported,   *)
(* and as long as the session is live somebody is at work on what is       *)
(* pending.  AgentHost builds on this; SharedSession implements it.        *)
(***************************************************************************)
EXTENDS Integers

VARIABLES
  status,    \* "none" before the session exists
  pending,   \* how many edits are neither confirmed nor given up
  pumping    \* pumpPromise is set: settle() would wait

vars == <<status, pending, pumping>>

Open == {"live", "catching-up"}

Init == status = "live" /\ pending = 0 /\ pumping = FALSE

(* A command was applied locally, and the pump told.                       *)
Issue ==
  /\ status \in Open
  /\ pending' = pending + 1
  /\ pumping' = TRUE
  /\ UNCHANGED status

(* Edits were confirmed, or a rebase or a checkpoint gave them up.         *)
Resolve ==
  /\ status \in Open
  /\ pending' \in 0..(pending - 1)
  /\ pumping' \in {pumping, TRUE}
  /\ UNCHANGED status

(* The pump was told although there is nothing new.                        *)
Nudge == pumping' = TRUE /\ UNCHANGED <<status, pending>>

FallBehind == status = "live" /\ status' = "catching-up" /\ UNCHANGED <<pending, pumping>>

CatchUp ==
  /\ status = "catching-up"
  /\ status' = "live"
  /\ pumping' = TRUE
  /\ UNCHANGED pending

(* The pump never leaves a live session with work to do.                   *)
PumpStops ==
  /\ pumping
  /\ ~(status = "live" /\ pending > 0)
  /\ pumping' = FALSE
  /\ UNCHANGED <<status, pending>>

End ==
  /\ \/ status \in Open /\ status' \in {"closed", "error"}
     \/ status = "error" /\ status' = "closed"
  /\ UNCHANGED <<pending, pumping>>

Next == Issue \/ Resolve \/ Nudge \/ FallBehind \/ CatchUp \/ PumpStops \/ End

Spec == Init /\ [][Next]_vars
=============================================================================
