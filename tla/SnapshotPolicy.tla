--------------------------- MODULE SnapshotPolicy ---------------------------
(***************************************************************************)
(* When a session publishes a checkpoint: SnapshotPublicationPolicy        *)
(* (packages/core/src/commands/snapshot-publication-policy.ts) and the     *)
(* part of SharedDocumentSession that asks it, arms the timer for its      *)
(* answer and carries the publication out.                                 *)
(*                                                                         *)
(* Of the document only revisions are left.  Time is the clock both read;  *)
(* a timer fires at its due time or later.                                 *)
(***************************************************************************)
EXTENDS Integers, FiniteSets

CONSTANTS
  HardOps,       \* SNAPSHOT_HARD_OP_THRESHOLD: publish at once
  TimedOps,      \* SNAPSHOT_TIMED_OP_THRESHOLD: publish when old enough
  MaxAge,        \* SNAPSHOT_MAX_AGE_MS
  MaxJitter,     \* SNAPSHOT_MAX_JITTER_MS
  MinInterval,   \* SNAPSHOT_MIN_OWN_INTERVAL_MS
  MaxTime,       \* bound: the clock
  MaxRevision,   \* bound: operations on the server
  MaxDrops,      \* bound: stream drops
  MaxResyncs,    \* bound: resynchronisations
  MaxFailures,   \* bound: failed publications
  MaxRequired    \* bound: publications the server asks for

ASSUME PolicyAssumption ==
  /\ {HardOps, TimedOps, MaxAge, MaxJitter, MinInterval, MaxTime, MaxRevision,
      MaxDrops, MaxResyncs, MaxFailures, MaxRequired} \subseteq Nat
  /\ 0 < TimedOps /\ TimedOps <= HardOps

VARIABLES
  now,      \* the clock
  tip,      \* server: head revision
  ckpt,     \* server: revision of its checkpoint
  p,        \* the SnapshotPublicationPolicy
  s,        \* the session around it
  used      \* how much of each fault budget is spent

vars == <<now, tip, ckpt, p, s, used>>

None == -1

Larger(a, b) == IF a >= b THEN a ELSE b

-----------------------------------------------------------------------------
(* The policy.                                                             *)

NewPolicy(rev, t) ==
  [confirmed |-> rev, known |-> rev, knownAt |-> t, lastOwn |-> None,
   retryAfter |-> None, jitter |-> None, inFlight |-> FALSE]

OpsSince(q) == Larger(0, q.confirmed - q.known)

ObserveConfirmed(q, rev) == [q EXCEPT !.confirmed = Larger(@, rev)]

ObserveSnapshot(q, rev, t) ==
  IF rev <= q.known THEN q
  ELSE [q EXCEPT !.known = rev, !.knownAt = t, !.jitter = None,
                 !.retryAfter = IF rev >= @ THEN None ELSE @]

(* None: nothing to publish however long one waits.                        *)
ThresholdDelay(q, t) ==
  IF OpsSince(q) >= HardOps THEN 0
  ELSE IF OpsSince(q) < TimedOps THEN None
  ELSE Larger(0, q.knownAt + MaxAge - t)

(* Mutant: a publication may follow the previous one at once.              *)
OwnIntervalDelay_None(q, t) == 0

OwnIntervalDelay(q, t) ==
  IF q.lastOwn = None THEN 0 ELSE Larger(0, q.lastOwn + MinInterval - t)

(* After a failure nothing is tried until there is newer confirmed work.   *)
HeldBack(q) == q.retryAfter # None /\ q.confirmed <= q.retryAfter

(***************************************************************************)
(* decide(): the new policy state and the answer: nothing, wait for delay  *)
(* or publish.  roll is what random() yields, in units of the clock.       *)
(***************************************************************************)
Answer(q, kind, delay) == [policy |-> q, kind |-> kind, delay |-> delay]

Decide(q, t, connected, roll) ==
  LET fresh == [q EXCEPT !.jitter = None]
      threshold == ThresholdDelay(q, t)
      eligible == Larger(threshold, OwnIntervalDelay(q, t))
      drawn == IF q.jitter = None THEN [q EXCEPT !.jitter = t + roll] ELSE q
  IN  IF ~connected THEN Answer(fresh, "none", 0)
      ELSE IF q.inFlight \/ HeldBack(q) THEN Answer(q, "none", 0)
      ELSE IF threshold = None THEN Answer(fresh, "none", 0)
      ELSE IF eligible > 0 THEN Answer(fresh, "wait", eligible)
      ELSE IF drawn.jitter > t THEN Answer(drawn, "wait", drawn.jitter - t)
      ELSE Answer(drawn, "publish", 0)

ShouldFlushOnClose(q, t, connected) ==
  /\ connected
  /\ ~q.inFlight
  /\ ~HeldBack(q)
  /\ ThresholdDelay(q, t) = 0
  /\ OwnIntervalDelay(q, t) = 0

MarkPublishing(q) == [q EXCEPT !.inFlight = TRUE, !.jitter = None]

PublicationSucceeded(q, rev, t) ==
  ObserveSnapshot([q EXCEPT !.inFlight = FALSE, !.lastOwn = t, !.retryAfter = None],
                  rev, t)

PublicationConflicted(q, rev, t) == ObserveSnapshot([q EXCEPT !.inFlight = FALSE], rev, t)

(* Mutant: the single flight is not given back.                            *)
PublicationFailed_KeepsFlight(q) == [q EXCEPT !.retryAfter = q.confirmed, !.jitter = None]

PublicationFailed(q) ==
  [q EXCEPT !.inFlight = FALSE, !.retryAfter = q.confirmed, !.jitter = None]

-----------------------------------------------------------------------------
(***************************************************************************)
(* The session.  due is the armed timer, pub the publication under way,    *)
(* target the head it knows of.  reason is history: what the publication   *)
(* is for.                                                                 *)
(***************************************************************************)
NoPub == [rev |-> None, reason |-> "none"]

NewSession ==
  [status |-> "live", connected |-> FALSE, resync |-> FALSE, confirmed |-> 0, target |-> 0,
   due |-> None, pub |-> NoPub]

(* publishSnapshot(), which both the policy and a 409 come through.        *)
Publish(x, reason) ==
  IF x.p.inFlight THEN x
  ELSE [x EXCEPT !.p = MarkPublishing(@),
                 !.s.pub = [rev |-> x.s.confirmed, reason |-> reason]]

(***************************************************************************)
(* considerSnapshotPublication(): ask the policy, then publish, arm the    *)
(* timer or cancel it.                                                     *)
(***************************************************************************)
Consider(x, roll) ==
  IF x.s.status # "live" THEN x
  ELSE LET a == Decide(x.p, now, x.s.connected, roll)
           y == [x EXCEPT !.p = a.policy,
                          !.s.due = IF a.kind = "wait" THEN now + a.delay ELSE None]
       IN  IF a.kind = "publish" THEN Publish(y, "periodic") ELSE y

Here == [p |-> p, s |-> s]

Becomes(x) == p' = x.p /\ s' = x.s

ThenConsider(x) == \E roll \in 0..MaxJitter : Becomes(Consider(x, roll))

Spend(budget, limit) ==
  /\ used[budget] < limit
  /\ used' = [used EXCEPT ![budget] = @ + 1]

Open == s.status # "closed"

-----------------------------------------------------------------------------
Tick ==
  /\ now < MaxTime
  /\ now' = now + 1
  /\ UNCHANGED <<tip, ckpt, p, s, used>>

(* The server takes an operation, from whomever.                           *)
ServerOp ==
  /\ tip < MaxRevision
  /\ tip' = tip + 1
  /\ UNCHANGED <<now, ckpt, p, s, used>>

(* Another participant's checkpoint.                                       *)
OtherPublishes ==
  /\ \E rev \in (ckpt + 1)..tip : ckpt' = rev
  /\ UNCHANGED <<now, tip, p, s, used>>

(***************************************************************************)
(* ack(), confirmPending() and applyForeign(): the next operation is       *)
(* confirmed, over the stream or by a response or a page.                  *)
(***************************************************************************)
Confirms ==
  /\ Open
  /\ s.confirmed < tip
  /\ LET rev == s.confirmed + 1
     IN  ThenConsider([p |-> ObserveConfirmed(p, rev), s |-> [s EXCEPT !.confirmed = rev]])
  /\ UNCHANGED <<now, tip, ckpt, used>>

(* Mutant: the stream opens and nobody asks the policy.                    *)
StreamOpens_NoConsider ==
  /\ Open
  /\ ~s.connected
  /\ LET up == [s EXCEPT !.connected = TRUE, !.target = Larger(@, tip),
                         !.status = IF tip > s.confirmed THEN "catching-up" ELSE @]
     IN  Becomes([p |-> ObserveSnapshot(p, ckpt, now), s |-> up])
  /\ UNCHANGED <<now, tip, ckpt, used>>

(* The stream opens: its descriptor tells the checkpoint and the head.     *)
StreamOpens ==
  /\ Open
  /\ ~s.connected
  /\ LET up == [s EXCEPT !.connected = TRUE, !.target = Larger(@, tip),
                         !.status = IF tip > s.confirmed THEN "catching-up" ELSE @]
     IN  ThenConsider([p |-> ObserveSnapshot(p, ckpt, now), s |-> up])
  /\ UNCHANGED <<now, tip, ckpt, used>>

StreamDrops ==
  /\ Open
  /\ s.connected
  /\ Spend("drops", MaxDrops)
  /\ s' = [s EXCEPT !.connected = FALSE, !.due = None]
  /\ UNCHANGED <<now, tip, ckpt, p>>

(* Something did not fit: the session reads the checkpoint again.          *)
StartsResync ==
  /\ Open
  /\ Spend("resyncs", MaxResyncs)
  /\ s' = [s EXCEPT !.status = "catching-up", !.resync = TRUE]
  /\ UNCHANGED <<now, tip, ckpt, p>>

(***************************************************************************)
(* It adopts the checkpoint, which may lie behind what it had confirmed;   *)
(* the high-water mark stays.                                              *)
(***************************************************************************)
AdoptsSnapshot ==
  /\ s.status = "catching-up"
  /\ s.resync
  /\ p' = ObserveSnapshot(ObserveConfirmed(p, ckpt), ckpt, now)
  /\ s' = [s EXCEPT !.target = Larger(Larger(@, s.confirmed), ckpt), !.confirmed = ckpt,
                    !.resync = FALSE]
  /\ UNCHANGED <<now, tip, ckpt, used>>

(* startSync's finalizer: live again, at the head that was announced.      *)
SyncEnds ==
  /\ s.status = "catching-up"
  /\ ~s.resync
  /\ s.confirmed >= s.target
  /\ ThenConsider([Here EXCEPT !.s.status = "live"])
  /\ UNCHANGED <<now, tip, ckpt, used>>

TimerFires ==
  /\ s.due # None
  /\ now >= s.due
  /\ ThenConsider([Here EXCEPT !.s.due = None])
  /\ UNCHANGED <<now, tip, ckpt, used>>

(* The pump was answered snapshot-required.                                *)
ServerRequires ==
  /\ s.status = "live"
  /\ ~p.inFlight
  /\ Spend("required", MaxRequired)
  /\ Becomes(Publish(Here, "required"))
  /\ UNCHANGED <<now, tip, ckpt>>

(* PUT snapshot, and after a 409 the GET that reads the winner.            *)
PublicationEnds ==
  /\ s.pub.rev # None
  /\ LET done == [Here EXCEPT !.s.pub = NoPub]
     IN  IF s.pub.rev > ckpt
         THEN /\ ckpt' = s.pub.rev
              /\ ThenConsider([done EXCEPT !.p = PublicationSucceeded(@, s.pub.rev, now)])
         ELSE /\ UNCHANGED ckpt
              /\ ThenConsider([done EXCEPT !.p = PublicationConflicted(@, ckpt, now)])
  /\ UNCHANGED <<now, tip, used>>

(* It fails, or its outcome is lost although the server took it.           *)
PublicationFails ==
  /\ s.pub.rev # None
  /\ Spend("failures", MaxFailures)
  /\ ckpt' \in {ckpt, Larger(ckpt, s.pub.rev)}
  /\ ThenConsider([p |-> PublicationFailed(p), s |-> [s EXCEPT !.pub = NoPub]])
  /\ UNCHANGED <<now, tip>>

Ended(x) ==
  [x EXCEPT !.s.due = None, !.s.connected = FALSE, !.s.status = "closed"]

(* close(): the timer goes, and a checkpoint that is due is flushed.       *)
Close ==
  /\ Open
  /\ Becomes(Ended(IF ShouldFlushOnClose(p, now, s.connected)
                   THEN Publish(Here, "close") ELSE Here))
  /\ UNCHANGED <<now, tip, ckpt, used>>

(* fail(), and a session that was deleted: nothing is flushed.             *)
Fail ==
  /\ Open
  /\ Becomes(Ended(Here))
  /\ UNCHANGED <<now, tip, ckpt, used>>

-----------------------------------------------------------------------------
Init ==
  /\ now = 0
  /\ tip = 0
  /\ ckpt = 0
  /\ p = NewPolicy(0, 0)
  /\ s = NewSession
  /\ used = [b \in {"drops", "resyncs", "failures", "required"} |-> 0]

Next == \/ Tick \/ ServerOp \/ OtherPublishes
        \/ Confirms \/ StreamOpens \/ StreamDrops
        \/ StartsResync \/ AdoptsSnapshot \/ SyncEnds
        \/ TimerFires \/ ServerRequires \/ PublicationEnds \/ PublicationFails
        \/ Close \/ Fail

Spec == Init /\ [][Next]_vars

-----------------------------------------------------------------------------
Times == {None} \cup 0..(MaxTime + MaxAge + MaxJitter + MinInterval)

(***************************************************************************)
(* Type invariant; no party knows of a revision the server does not have.  *)
(***************************************************************************)
TypeOK ==
  /\ now \in 0..MaxTime
  /\ tip \in 0..MaxRevision
  /\ ckpt \in 0..tip
  /\ p \in [confirmed : 0..tip, known : 0..tip, knownAt : 0..now, lastOwn : Times,
            retryAfter : {None} \cup 0..tip, jitter : Times, inFlight : BOOLEAN]
  /\ s \in [status : {"live", "catching-up", "closed"}, connected : BOOLEAN,
            resync : BOOLEAN, confirmed : 0..tip, target : 0..tip, due : Times,
            pub : [rev : {None} \cup 0..tip,
                   reason : {"none", "periodic", "required", "close"}]]

(***************************************************************************)
(* The policy holds its single flight exactly while a publication is under *)
(* way: one that ended, however it ended, never blocks the next.           *)
(***************************************************************************)
SingleFlight == p.inFlight <=> s.pub.rev # None

(***************************************************************************)
(* A checkpoint that will become due is never forgotten: while a live,     *)
(* connected session has enough operations behind it and nothing holds it  *)
(* back, a timer is armed, through drops, resyncs, conflicts and failures. *)
(***************************************************************************)
NothingDueIsForgotten ==
  s.status = "live" /\ s.connected /\ ~p.inFlight /\ ~HeldBack(p)
      /\ ThresholdDelay(p, now) # None
    => s.due # None

(***************************************************************************)
(* The storm gates: a publication of the session's own accord comes no     *)
(* sooner than the interval after its last success, after a failure not    *)
(* before newer work is confirmed, and what is published periodically is   *)
(* newer than every checkpoint the session knows of, even where a resync   *)
(* took it back to an old one.                                             *)
(***************************************************************************)
Begins == s'.pub # s.pub /\ s'.pub.rev # None /\ s'.pub.reason # "required"

PublicationsAreSpaced ==
  [][Begins =>
       /\ p'.lastOwn # None => now >= p'.lastOwn + MinInterval
       /\ p'.retryAfter # None => p'.confirmed > p'.retryAfter \/ p'.known >= p'.retryAfter
       /\ s'.pub.reason = "periodic" => s'.pub.rev > p'.known]_vars
=============================================================================
