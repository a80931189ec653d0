--------------------------- MODULE MCSharedSession ---------------------------
(***************************************************************************)
(* Values for model-checking SharedSession: one document path that holds   *)
(* one of two values, present when the session is joined.                  *)
(***************************************************************************)
EXTENDS SharedSession

CONSTANTS k1, v1, v2

MCKeys == {k1}
MCVals == {v1, v2}
MCInitialDoc == [k \in MCKeys |-> v1]

None == [k \in Kinds |-> 0]
Editing(edits, replays, foreign) ==
  [None EXCEPT !.edits = edits, !.replays = replays, !.foreign = foreign]

(* Peers and a broken stream race with editing and with history.  Two      *)
(* edits meet a lost exchange, garbage and a peer's checkpoint; or, with a *)
(* peer's edit, garbage and one of the others, or a lost exchange and an   *)
(* answer, a page or a descriptor that is invalid.                         *)
ReplicaScenarios == {
  [Editing(2, 1, 2) EXCEPT !.drops = 1],
  [Editing(1, 2, 1) EXCEPT !.clears = 1],
  [Editing(2, 0, 0) EXCEPT !.errors = 1, !.garbage = 1, !.checkpoints = 1],
  [Editing(2, 0, 1) EXCEPT !.errors = 1, !.garbage = 1],
  [Editing(2, 0, 1) EXCEPT !.garbage = 1, !.checkpoints = 1],
  [Editing(2, 0, 1) EXCEPT !.errors = 1, !.invalid = 1]}

EndingScenarios ==
  {[Editing(1, 0, 1) EXCEPT !.drops = 1, !.refusals = 1, !.publishes = 1, !.checkpoints = 1,
                            !.ends = 2]}

StaleUndoScenarios == {Editing(1, 1, 1)}
=============================================================================
