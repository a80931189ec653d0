------------------------- MODULE MCNativeExecution --------------------------
(***************************************************************************)
(* Values for model-checking NativeExecution: one job of this client and   *)
(* one that somebody else submits.                                         *)
(***************************************************************************)
EXTENDS NativeExecution

CONSTANTS mine, other, third

MCJobs == {mine, other, third}
MCOwn == {mine}
MCSlots == {0}

None == [k \in Kinds |-> 0]
(* What each job says decides the size of a scenario: most have one thing  *)
(* happen to jobs that say all they can, or several to silent ones.        *)
Says(jobs, talk, journal, limit) ==
  [jobs |-> jobs, talk |-> talk, journal |-> journal, limit |-> limit]
Mine(limit) == Says({mine}, {mine}, {mine}, limit)
MineQuietly(limit) == Says({mine}, {}, {mine}, limit)
Both(limit) == Says({mine, other}, {mine}, {mine}, limit)
BothQuietly(limit) == Says({mine, other}, {}, {mine}, limit)
Others(limit) == Says({other, third}, {other, third}, {}, limit)
Many(limit) == Says(MCJobs, {}, {}, limit)

MCScenarios == {
  BothQuietly([None EXCEPT !.drops = 1, !.errors = 1]),
  Both([None EXCEPT !.drops = 1, !.restores = 1]),
  Others([None EXCEPT !.drops = 1, !.previews = 2]),
  Many([None EXCEPT !.drops = 1]),
  Many([None EXCEPT !.pins = 1]),
  Mine([None EXCEPT !.drops = 2, !.forgets = 1]),
  Mine([None EXCEPT !.drops = 2, !.reruns = 1]),
  MineQuietly([None EXCEPT !.drops = 2, !.logs = 1, !.sheds = 1]),
  Mine([None EXCEPT !.drops = 1, !.logs = 1]),
  MineQuietly([None EXCEPT !.drops = 2, !.logs = 1]),
  MineQuietly([None EXCEPT !.drops = 1, !.logs = 1, !.errors = 1]),
  MineQuietly([None EXCEPT !.drops = 1, !.logs = 3])}
=============================================================================
