-------------------------- MODULE ExecutionEvents --------------------------
(***************************************************************************)
(* The event side of the agent's execution runtime (execution.ts): a       *)
(* bounded buffer of events with cursors, fed by the native connection and *)
(* by replays of job records, and clients that follow it with long polls,  *)
(* each asking from the cursor the previous page ended at.                 *)
(*                                                                         *)
(* An action is one JavaScript turn.  The store of execution states and    *)
(* the contents of events and problems are left out.                       *)
(***************************************************************************)
EXTENDS Integers, Sequences, FiniteSets

CONSTANTS
  Jobs,        \* jobs of the server
  Followers,   \* clients of events(), each with one call at a time
  EventLimit,  \* EVENT_LIMIT
  MaxEvents,   \* bound: events the runtime is told of
  MaxBatch,    \* bound: events one frame or one record is normalised to
  MaxVersions  \* bound: versions of a job's record

ASSUME EventsAssumption ==
  /\ EventLimit \in Nat \ {0} /\ MaxEvents \in Nat /\ MaxBatch \in Nat /\ MaxVersions \in Nat
  /\ "any" \notin Jobs

VARIABLES
  record,     \* version of each job's record on the server, 0 before it exists
  log,        \* history: the job of each event, by cursor
  rt,         \* the runtime
  calls       \* the followers and their calls

vars == <<record, log, rt, calls>>

(***************************************************************************)
(* rt.cursor, rt.buffered, rt.replayed (replayedJobRecords) and rt.closed  *)
(* are the variables of the closure; the set wake is the calls that wait.  *)
(* A call is "replay" while it awaits the job record, "waiting" in the     *)
(* long poll, "woken" between the wake-up and the turn that makes the      *)
(* page.  got and lost are history: what the pages showed, and what the    *)
(* follower can tell it missed, from oldestCursor.                         *)
(***************************************************************************)
NewRuntime == [closed |-> FALSE, cursor |-> 0, buffered |-> <<>>, replayed |-> [j \in Jobs |-> 0]]

Follower(filter) == [pc |-> "idle", job |-> filter, after |-> 0, got |-> {}, lost |-> {}]

IsOf(job, filter) == filter = "any" \/ job = filter

Selected(r, c) ==
  {i \in DOMAIN r.buffered : r.buffered[i].cursor > c.after /\ IsOf(r.buffered[i].job, c.job)}

(* onEvent, for n events in a row                                          *)
Keep(q) == IF Len(q) > EventLimit THEN SubSeq(q, Len(q) - EventLimit + 1, Len(q)) ELSE q

Push(r, j, n) ==
  LET entries == [i \in 1..n |-> [cursor |-> r.cursor + i, job |-> j]]
  IN  [r EXCEPT !.cursor = @ + n, !.buffered = Keep(@ \o entries)]

Wake(cs) ==
  [f \in Followers |-> IF cs[f].pc = "waiting" THEN [cs[f] EXCEPT !.pc = "woken"] ELSE cs[f]]

(* What n events of job j do to the runtime and to everyone who waits; a   *)
(* closed runtime has unsubscribed.                                        *)
Hears(r, n) == IF r.closed THEN 0 ELSE n
Heard(r, j, n) == Push(r, j, Hears(r, n))
Told(r, cs, n) == IF Hears(r, n) > 0 THEN Wake(cs) ELSE cs
Logged(r, j, n) == log \o [i \in 1..Hears(r, n) |-> j]

(* The page, as the follower takes it.                                     *)
Oldest(r) == IF r.buffered = <<>> THEN r.cursor ELSE Head(r.buffered).cursor

Return(r, c) ==
  [c EXCEPT !.pc = "idle", !.after = r.cursor,
            !.got = @ \cup {r.buffered[i].cursor : i \in Selected(r, c)},
            !.lost = @ \cup (c.after + 1)..(Oldest(r) - 1)]

(* Mutant: it waits whenever it has leave to wait.                         *)
Look_WithoutLooking(r, c) == {Return(r, c), [c EXCEPT !.pc = "waiting"]}

(* events() after its replay: wait if there is nothing to show.            *)
Look(r, c) ==
  IF Selected(r, c) = {} /\ ~r.closed THEN {Return(r, c), [c EXCEPT !.pc = "waiting"]}
  ELSE {Return(r, c)}

(***************************************************************************)
(* The environment: the server's jobs move on, and the stream may or may   *)
(* not tell.                                                               *)
(***************************************************************************)
JobMoves(j) ==
  /\ record[j] < MaxVersions
  /\ record' = [record EXCEPT ![j] = @ + 1]
  /\ UNCHANGED <<log, rt, calls>>

EventsArrive(j) ==
  \E n \in 1..MaxBatch :
    /\ record[j] > 0
    /\ rt.cursor + n <= MaxEvents
    /\ rt' = Heard(rt, j, n)
    /\ calls' = Told(rt, calls, n)
    /\ log' = Logged(rt, j, n)
    /\ UNCHANGED record

(* A problem is remembered, and wakes like an event.                       *)
ProblemArrives ==
  /\ calls' = Wake(calls)
  /\ UNCHANGED <<record, log, rt>>

(***************************************************************************)
(* replay(): the answer holds the record as it was when the server made    *)
(* it, which by now may be an older one.                                   *)
(***************************************************************************)
Replay(j, v, n) ==
  LET news == v > 0 /\ v # rt.replayed[j]
      m    == IF news THEN n ELSE 0
      r    == IF news THEN [rt EXCEPT !.replayed[j] = v] ELSE rt
  IN  [rt |-> Heard(r, j, m), calls |-> Told(r, calls, m), log |-> Logged(r, j, m)]

(* inspect() and problems() replay too; the page of events() comes after.  *)
Inspected(j) ==
  \E v \in 0..record[j], n \in 0..MaxBatch :
    LET x == Replay(j, v, n) IN
    /\ x.rt.cursor <= MaxEvents
    /\ rt' = x.rt /\ calls' = x.calls /\ log' = x.log
    /\ UNCHANGED record

PollStarts(f) ==
  /\ calls[f].pc = "idle"
  /\ IF calls[f].job = "any"
     THEN \E c \in Look(rt, calls[f]) : calls' = [calls EXCEPT ![f] = c]
     ELSE calls' = [calls EXCEPT ![f].pc = "replay"]
  /\ UNCHANGED <<record, log, rt>>

PollReplayed(f) ==
  /\ calls[f].pc = "replay"
  /\ \E v \in 0..record[calls[f].job], n \in 0..MaxBatch :
       LET x == Replay(calls[f].job, v, n) IN
       /\ x.rt.cursor <= MaxEvents
       /\ rt' = x.rt /\ log' = x.log
       /\ \E c \in Look(x.rt, x.calls[f]) : calls' = [x.calls EXCEPT ![f] = c]
  /\ UNCHANGED record

(* fetchJob fails and events() with it.                                    *)
PollFails(f) ==
  /\ calls[f].pc = "replay"
  /\ calls' = [calls EXCEPT ![f].pc = "idle"]
  /\ UNCHANGED <<record, log, rt>>

(* Mutant: the timer is forgotten.                                         *)
PollTimesOut_Never(f) == calls[f].pc = "waiting" /\ FALSE /\ UNCHANGED vars

PollTimesOut(f) ==
  /\ calls[f].pc = "waiting"
  /\ calls' = [calls EXCEPT ![f].pc = "woken"]
  /\ UNCHANGED <<record, log, rt>>

(* Mutant: the page is what was selected before the wait.                  *)
PollReturns_Stale(f) ==
  /\ calls[f].pc = "woken"
  /\ calls' = [calls EXCEPT ![f].pc = "idle", ![f].after = rt.cursor]
  /\ UNCHANGED <<record, log, rt>>

PollReturns(f) ==
  /\ calls[f].pc = "woken"
  /\ calls' = [calls EXCEPT ![f] = Return(rt, calls[f])]
  /\ UNCHANGED <<record, log, rt>>

Close ==
  /\ ~rt.closed
  /\ rt' = [rt EXCEPT !.closed = TRUE]
  /\ calls' = Wake(calls)
  /\ UNCHANGED <<record, log>>

Init ==
  /\ record = [j \in Jobs |-> 0]
  /\ log = <<>>
  /\ rt = NewRuntime
  /\ \E filter \in [Followers -> Jobs \cup {"any"}] :
       calls = [f \in Followers |-> Follower(filter[f])]

PollStep(f) == PollReplayed(f) \/ PollFails(f) \/ PollTimesOut(f) \/ PollReturns(f)

Next ==
  \/ \E j \in Jobs : JobMoves(j) \/ EventsArrive(j) \/ Inspected(j)
  \/ ProblemArrives \/ Close
  \/ \E f \in Followers : PollStarts(f) \/ PollStep(f)

Spec == Init /\ [][Next]_vars

(* Requests are answered or fail, and timers fire.                         *)
FairSpec == Spec /\ \A f \in Followers : WF_vars(PollStep(f))

(***************************************************************************)
(* Types.  The buffer never holds more than EVENT_LIMIT entries.           *)
(***************************************************************************)
Entry == [cursor : 1..MaxEvents, job : Jobs]

TypeOK ==
  /\ record \in [Jobs -> Nat]
  /\ log \in Seq(Jobs) /\ Len(log) = rt.cursor
  /\ rt \in [closed : BOOLEAN, cursor : 0..MaxEvents, buffered : Seq(Entry),
             replayed : [Jobs -> Nat]]
  /\ Len(rt.buffered) <= EventLimit
  /\ calls \in [Followers -> [pc : {"idle", "replay", "waiting", "woken"},
                              job : Jobs \cup {"any"}, after : 0..MaxEvents,
                              got : SUBSET (1..MaxEvents), lost : SUBSET (1..MaxEvents)]]

(***************************************************************************)
(* Following the pages from cursor to cursor misses nothing unnoticed:     *)
(* every matching event up to the follower's cursor was in one of its      *)
(* pages, or had been pushed out of the buffer and the page said so        *)
(* through oldestCursor (execution.ts:229-234).                            *)
(***************************************************************************)
NoEventMissed ==
  \A f \in Followers : \A n \in 1..calls[f].after :
    IsOf(log[n], calls[f].job) => n \in calls[f].got \cup calls[f].lost

(***************************************************************************)
(* A long poll never sleeps on what it is asked for, nor on a closed       *)
(* runtime: whoever waits has nothing to be shown (execution.ts:215-228).  *)
(***************************************************************************)
WaitsForNothingPresent ==
  \A f \in Followers :
    calls[f].pc = "waiting" => Selected(rt, calls[f]) = {} /\ ~rt.closed

(***************************************************************************)
(* Every call of events() returns, with or without news                    *)
(* (execution.ts:219-227, 264-265).                                        *)
(***************************************************************************)
PollsEnd == \A f \in Followers : calls[f].pc # "idle" ~> calls[f].pc = "idle"
=============================================================================
