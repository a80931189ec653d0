---------------------------- MODULE SharedSession ----------------------------
(***************************************************************************)
(* SharedDocumentSession (packages/core/src/commands/shared-session.ts):   *)
(* one participant's replica of a document whose order is decided by a     *)
(* collaboration server.                                                   *)
(*                                                                         *)
(* The session record s is the object's fields.  A method is an operator   *)
(* from session to session, and an action runs one JavaScript turn: from   *)
(* an event, a resolved promise or an API call up to the next await.  The  *)
(* server, the other participants and the network are external; they are   *)
(* modelled from what the session is written to expect of them.            *)
(***************************************************************************)
EXTENDS Document, Integers, Sequences, FiniteSets

CONSTANTS
  InitialDoc,      \* the document of the checkpoint the session joins from
  MaxUndo,         \* options.maxUndo: depth of the undo stack
  TailLimit,       \* operations the server retains before it asks for a checkpoint
  Scenarios        \* bound: how often each of these may happen in a run

(***************************************************************************)
(* edits are intentions this participant starts, replays undos and redos,  *)
(* clears of the history; foreign are operations other participants        *)
(* commit, drops of the event stream, errors failed HTTP exchanges,        *)
(* garbage invalid frames, invalid are answers, pages and descriptors that *)
(* fail validation, refusals those of a submission,                        *)
(* publishes checkpoints this session sends unasked, checkpoints those of  *)
(* other participants, and ends the closing and the deletion.              *)
(***************************************************************************)
Kinds == {"edits", "replays", "clears", "foreign", "drops", "errors", "garbage", "invalid", "refusals",
          "publishes", "checkpoints", "ends"}

ASSUME SessionAssumption ==
  /\ InitialDoc \in Docs
  /\ MaxUndo \in Nat
  /\ TailLimit \in Nat
  /\ Scenarios \subseteq [Kinds -> Nat]

VARIABLES
  log,      \* server: accepted operations; the revision of one is its index
  docs,     \* server: docs[r] is the document after the first r operations
  ckpt,     \* server: the checkpoint GET snapshot returns
  floor,    \* server: operations up to this revision are compacted away
  alive,    \* server: the session has not been deleted
  zombies,  \* network: submissions the client gave up on, still travelling
  ws,       \* network: frames on their way to the client, oldest first
  wsUp,     \* network: the event stream is open
  left,     \* what is left of the scenario's bounds
  s         \* the SharedDocumentSession

serverVars == <<log, docs, ckpt, floor, alive>>
netVars == <<zombies, ws, wsUp>>
vars == <<serverVars, netVars, left, s>>

Me == "me"
Peer == "peer"

Larger(a, b) == IF a >= b THEN a ELSE b

Last(q) == q[Len(q)]
Front(q) == SubSeq(q, 1, Len(q) - 1)

-----------------------------------------------------------------------------
(***************************************************************************)
(* The session's asynchronous activities.  pump and sync are the two       *)
(* loops, pub the single-flight checkpoint publication; pc says where each *)
(* one waits.                                                              *)
(***************************************************************************)
NoReply == [kind |-> "none", rev |-> 0]
NoRequest == [opId |-> 0]

PumpAt(pc) == [pc |-> pc, req |-> NoRequest, reply |-> NoReply]
SyncAt(pc, after) == [pc |-> pc, after |-> after, reply |-> NoReply]
NoPublication == [pc |-> "idle", rev |-> 0, doc |-> InitialDoc]

Terminal(t) == t.status \in {"closed", "error"}
Syncing(t) == t.sync.pc # "idle"

(***************************************************************************)
(* fate is history, kept for the properties: fate[i] is what the session   *)
(* reported of its i-th intention.                                         *)
(***************************************************************************)
NewSession ==
  [confirmed |-> InitialDoc, confirmedRevision |-> 0, doc |-> InitialDoc,
   pending |-> <<>>, undo |-> <<>>, redo |-> <<>>, recs |-> <<>>,
   status |-> "live", connected |-> FALSE, syncTarget |-> 0, resync |-> FALSE,
   opCounter |-> 0, denied |-> FALSE,
   pump |-> PumpAt("idle"), sync |-> SyncAt("idle", 0), pub |-> NoPublication,
   fate |-> <<>>]

-----------------------------------------------------------------------------
(* Submission: the pump.                                                   *)

(* pump(): single flight, started in a later turn.                         *)
Pump(t) == IF t.pump.pc = "idle" THEN [t EXCEPT !.pump = PumpAt("ready")] ELSE t

(***************************************************************************)
(* The head of pumpLoop's while: either the head of the queue is POSTed    *)
(* (and the attempt remembered, once per opId) or the loop ends.           *)
(***************************************************************************)
PumpTop(t) ==
  IF t.pending # <<>> /\ t.status = "live" /\ ~Syncing(t)
  THEN LET head == Head(t.pending)
           attempt == [opId |-> head.opId, base |-> t.confirmedRevision,
                       patch |-> head.predicted]
           again == \E a \in head.attempts : a.opId = head.opId
       IN  [t EXCEPT
              !.pending[1].attempts = IF again THEN @ ELSE @ \cup {attempt},
              !.pump = [pc |-> "post", reply |-> NoReply,
                        req |-> [opId |-> head.opId, base |-> t.confirmedRevision,
                                 patch |-> head.predicted, intent |-> head.intent,
                                 origin |-> head.origin]]]
  ELSE [t EXCEPT !.pump = PumpAt("exit")]

PumpFinally_NoGuard(t) == [t EXCEPT !.pump = PumpAt("idle")]

(* pump's finally clause: start over when work is left and nothing gates it *)
PumpFinally(t) ==
  LET idle == [t EXCEPT !.pump = PumpAt("idle")]
  IN  IF t.pending # <<>> /\ t.status = "live" /\ ~Syncing(t)
      THEN Pump(idle) ELSE idle

(* fail(): terminal states are final.                                      *)
Fail(t) == IF Terminal(t) THEN t
           ELSE [t EXCEPT !.status = "error", !.connected = FALSE]

-----------------------------------------------------------------------------
(* The sync loop (catch-up and resync).                                    *)

(* One pass of syncLoop's while, up to the next await.                     *)
SyncTop(t) ==
  CASE t.status # "catching-up" -> [t EXCEPT !.sync = SyncAt("exit", 0)]
    [] t.status = "catching-up" /\ t.resync ->
         [t EXCEPT !.resync = FALSE, !.sync = SyncAt("snapshot", 0)]
    [] t.status = "catching-up" /\ ~t.resync ->
         IF t.confirmedRevision >= t.syncTarget
         THEN [t EXCEPT !.sync = SyncAt("exit", 0)]
         ELSE [t EXCEPT !.sync = SyncAt("ops", t.confirmedRevision)]

StartSync(t) ==
  IF Terminal(t) \/ Syncing(t) THEN t
  ELSE SyncTop([t EXCEPT !.status = "catching-up"])

RaiseTarget(t, rev) == [t EXCEPT !.syncTarget = Larger(@, rev)]

RequestCatchUp(t, target) == StartSync(RaiseTarget(t, target))

RequestResync(t) == StartSync([t EXCEPT !.resync = TRUE])

(* Mutant: no lost-wakeup guard after the sync loop.                       *)
SyncFinally_NoGuard(t) ==
  Pump([t EXCEPT !.sync = SyncAt("idle", 0),
                 !.status = IF @ = "catching-up" THEN "live" ELSE @])

(* Mutant: the pump the sync loop was gating is not restarted.             *)
SyncFinally_NoPump(t) ==
  LET rested == [t EXCEPT !.sync = SyncAt("idle", 0),
                          !.status = IF @ = "catching-up" THEN "live" ELSE @]
  IN  IF rested.status = "live"
         /\ (rested.resync \/ rested.confirmedRevision < rested.syncTarget)
      THEN StartSync(rested)
      ELSE rested

(* startSync's finally clause, with its lost-wakeup guard.                 *)
SyncFinally(t) ==
  LET rested == [t EXCEPT !.sync = SyncAt("idle", 0),
                          !.status = IF @ = "catching-up" THEN "live" ELSE @]
  IN  IF rested.status = "live"
         /\ (rested.resync \/ rested.confirmedRevision < rested.syncTarget)
      THEN StartSync(rested)
      ELSE Pump(rested)

-----------------------------------------------------------------------------
(* Rebase.                                                                 *)

(* indexOf and splice; a record is on a stack at most once.                *)
Without(q, r) ==
  IF \E i \in 1..Len(q) : q[i] = r
  THEN LET i == CHOOSE i \in 1..Len(q) : q[i] = r
       IN  SubSeq(q, 1, i - 1) \o SubSeq(q, i + 1, Len(q))
  ELSE q

RemoveRecord(t, r) == [t EXCEPT !.undo = Without(@, r), !.redo = Without(@, r)]

(* Mutant: the record of an undo is rewritten without mirroring it.        *)
Reexecute_NoMirror(t, e, skipped) ==
  IF e.intent \in skipped THEN t
  ELSE IF Commits(t.doc, e.cmd)
  THEN LET p == Forward(t.doc, e.cmd)
           kept == {a \in e.attempts : a.base >= t.confirmedRevision}
       IN  [t EXCEPT
              !.doc = Apply(@, Wire(p)), !.opCounter = @ + 1, !.recs[e.rec] = p,
              !.pending = Append(@, [e EXCEPT !.opId = t.opCounter + 1,
                                              !.predicted = Wire(p), !.attempts = kept])]
  ELSE [RemoveRecord(t, e.rec) EXCEPT
          !.fate[e.intent] = IF Fails(t.doc, e.cmd) THEN "conflict" ELSE "dissolved"]

(***************************************************************************)
(* One pass of rebase's loop: re-execute intention e on the document       *)
(* rebuilt so far.  A survivor gets a fresh opId, keeps the attempts whose *)
(* slot has not been observed yet, and rewrites its history record (an     *)
(* undo's record lives mirrored); a casualty loses its record.             *)
(***************************************************************************)
Reexecute(t, e, skipped) ==
  IF e.intent \in skipped THEN t
  ELSE IF Commits(t.doc, e.cmd)
  THEN LET p == Forward(t.doc, e.cmd)
           kept == {a \in e.attempts : a.base >= t.confirmedRevision}
       IN  [t EXCEPT
              !.doc = Apply(@, Wire(p)),
              !.opCounter = @ + 1,
              !.recs[e.rec] = IF e.origin = "undo" THEN Invert(p) ELSE p,
              !.pending = Append(@, [e EXCEPT !.opId = t.opCounter + 1,
                                              !.predicted = Wire(p),
                                              !.attempts = kept])]
  ELSE [RemoveRecord(t, e.rec) EXCEPT
          !.fate[e.intent] = IF Fails(t.doc, e.cmd) THEN "conflict" ELSE "dissolved"]

RebaseRun(t, skipped) ==
  LET run[i \in 0..Len(t.pending)] ==
        IF i = 0 THEN [t EXCEPT !.doc = t.confirmed, !.pending = <<>>]
        ELSE Reexecute(run[i - 1], t.pending[i], skipped)
  IN  run

Rebase(t, skipped) == RebaseRun(t, skipped)[Len(t.pending)]

-----------------------------------------------------------------------------
(***************************************************************************)
(* Ordered ingress: every server operation, whichever way it arrives,      *)
(* enters through ingestOrdered.                                           *)
(***************************************************************************)
(* Mutant: any own operation with the head's patch acknowledges the head.  *)
IsPendingHead_AnyOwn(t, op) ==
  op.actor = Me /\ t.pending # <<>> /\ Head(t.pending).predicted = op.patch

IsPendingHead(t, op) ==
  /\ op.actor = Me
  /\ t.pending # <<>>
  /\ Head(t.pending).opId = op.opId

AttemptsOf(t, op) ==
  {i \in 1..Len(t.pending) :
     \E a \in t.pending[i].attempts : a.opId = op.opId}

IsAttempt(t, op) == op.actor = Me /\ AttemptsOf(t, op) # {}

ClaimOf(t, op) == CHOOSE i \in AttemptsOf(t, op) : \A j \in AttemptsOf(t, op) : i <= j

IngestFails(t, rev, op) ==
  \/ rev # t.confirmedRevision + 1
  \/ IF IsPendingHead(t, op)
     THEN \/ op.patch # Head(t.pending).predicted
          \/ Len(t.pending) # 1 /\ ~Applies(t.confirmed, op.patch)
     ELSE \/ /\ IsAttempt(t, op)
             /\ \E a \in t.pending[ClaimOf(t, op)].attempts :
                  a.opId = op.opId /\ (a.base # op.base \/ a.patch # op.patch)
          \/ ~Applies(t.confirmed, op.patch)

(* Mutant: the optimistic document is always taken over as confirmed.      *)
Ack_AlwaysReuses(t, rev, op) ==
  [t EXCEPT !.confirmed = t.doc, !.confirmedRevision = rev, !.pending = Tail(@)]

(***************************************************************************)
(* ack: the head of the queue was accepted.  With nothing behind it the    *)
(* optimistic document is taken over as confirmed instead of applying the  *)
(* patch a second time.                                                    *)
(***************************************************************************)
Ack(t, rev, op) ==
  [t EXCEPT !.confirmed = IF Len(t.pending) = 1 THEN t.doc ELSE Apply(@, op.patch),
            !.confirmedRevision = rev,
            !.pending = Tail(@)]

Advance(t, rev, op) ==
  [t EXCEPT !.confirmed = Apply(@, op.patch), !.confirmedRevision = rev]

(* confirmPending: an intention committed under an older attempt's identity *)
ConfirmPending(t, rev, op) ==
  LET e == t.pending[ClaimOf(t, op)]
  IN  Rebase(RemoveRecord(Advance(t, rev, op), e.rec), {e.intent})

(* Mutant: a foreign operation advances confirmed without a rebase.        *)
ApplyForeign_NoRebase(t, rev, op) == Advance(t, rev, op)

ApplyForeign(t, rev, op) == Rebase(Advance(t, rev, op), {})

IngestOrdered(t, rev, op) ==
  IF IsPendingHead(t, op) THEN Ack(t, rev, op)
  ELSE IF IsAttempt(t, op) THEN ConfirmPending(t, rev, op)
  ELSE ApplyForeign(t, rev, op)

HandleServerOp(t, rev, op) ==
  IF rev <= t.confirmedRevision THEN t
  ELSE IF rev > t.confirmedRevision + 1 THEN RequestCatchUp(t, rev)
  ELSE IF IngestFails(t, rev, op) THEN RequestResync(RaiseTarget(t, rev))
  ELSE Pump(IngestOrdered(t, rev, op))

-----------------------------------------------------------------------------
(* What a sync response does.                                              *)

(***************************************************************************)
(* One operation of a fetched page: stale ones are skipped, the first that *)
(* does not fit ends the page and asks for a resync.                       *)
(***************************************************************************)
PageStep(acc, rev, op) ==
  IF acc.broken \/ rev <= acc.t.confirmedRevision THEN acc
  ELSE IF IngestFails(acc.t, rev, op)
  THEN [acc EXCEPT !.broken = TRUE,
                   !.t = [RaiseTarget(@, rev) EXCEPT !.resync = TRUE]]
  ELSE [acc EXCEPT !.t = IngestOrdered(@, rev, op), !.progressed = TRUE]

PageRun(t, after, ops) ==
  LET run[i \in 0..Len(ops)] ==
        IF i = 0 THEN [t |-> t, progressed |-> FALSE, broken |-> FALSE]
        ELSE PageStep(run[i - 1], after + i, ops[i])
  IN  run

IngestPage(t, after, ops) ==
  LET page == PageRun(t, after, ops)[Len(ops)]
  IN  IF ~page.progressed /\ ~page.t.resync
         /\ page.t.confirmedRevision < page.t.syncTarget
      THEN [page.t EXCEPT !.sync = SyncAt("delay", 0)]
      ELSE SyncTop(page.t)

(* The operation after these is invalid: the page ends there, and what it  *)
(* claims to be announces no head.                                         *)
IngestCut(t, after, ops) ==
  SyncTop([PageRun(t, after, ops)[Len(ops)].t EXCEPT !.resync = TRUE])

(* Mutant: every intention re-executes, whatever the checkpoint contains.  *)
Ambiguous_Never(t, rev) == {}

(***************************************************************************)
(* Adopting a checkpoint.  The high-water mark is kept, history is         *)
(* dropped, and an intention one of whose attempts may be inside the       *)
(* checkpoint is given up and reported; the others re-execute.             *)
(***************************************************************************)
Ambiguous(t, rev) ==
  {i \in 1..Len(t.pending) :
     \E a \in t.pending[i].attempts : a.base < rev}

AdoptSnapshot(t, rev, doc) ==
  LET given == {t.pending[i].intent : i \in Ambiguous(t, rev)}
      ground == [t EXCEPT !.syncTarget = Larger(Larger(@, t.confirmedRevision), rev),
                          !.confirmed = doc, !.confirmedRevision = rev,
                          !.undo = <<>>, !.redo = <<>>]
      rebased == Rebase(ground, given)
  IN  SyncTop([rebased EXCEPT
                 !.fate = [i \in DOMAIN @ |-> IF i \in given THEN "ambiguous" ELSE @[i]]])

-----------------------------------------------------------------------------
(* Local execution.                                                        *)

(***************************************************************************)
(* run(): execute on the optimistic document and enqueue.  rec is the      *)
(* history record the entry is tied to; 0 asks for a new one.              *)
(***************************************************************************)
Run(t, cmd, origin, rec) ==
  LET p == Forward(t.doc, cmd)
      intent == Len(t.fate) + 1
      entry == [opId |-> t.opCounter + 1, cmd |-> cmd, origin |-> origin,
                predicted |-> Wire(p), attempts |-> {}, intent |-> intent,
                rec |-> IF rec = 0 THEN Len(t.recs) + 1 ELSE rec]
  IN  Pump([t EXCEPT !.doc = Apply(@, Wire(p)), !.opCounter = @ + 1,
                     !.pending = Append(@, entry), !.fate = Append(@, "open"),
                     !.recs = Append(@, p)])

Bounded(q) == IF Len(q) > MaxUndo THEN Tail(q) ELSE q

(* dispatch(): the record of a committed command opens a new undo step.    *)
DispatchOn(t, cmd) ==
  LET ran == Run(t, cmd, "dispatch", 0)
  IN  [ran EXCEPT !.undo = Bounded(Append(@, Len(ran.recs))), !.redo = <<>>]

(***************************************************************************)
(* replayHistory(): the record is taken off its stack whatever happens.    *)
(* It replays only where the document still holds the value it recorded,   *)
(* and then goes out as an ordinary session.patch intention.               *)
(***************************************************************************)
ReplayOn(t, from, to, origin) ==
  LET r == Last(t[from])
      p == IF origin = "undo" THEN Invert(t.recs[r]) ELSE t.recs[r]
      popped == [t EXCEPT ![from] = Front(@)]
  IN  IF Terminal(t) \/ t.doc[p.key] # p.old THEN popped
      ELSE LET ran == Run(popped, SessionPatch(Wire(p)), origin, r)
           IN  [ran EXCEPT ![to] = Append(@, r)]

(* close(): the flush, if the policy wants one, has left before.           *)
CloseOn(t) == [t EXCEPT !.connected = FALSE, !.status = "closed"]

(* Mutant: the optimistic document is published.                           *)
PublishOn_Optimistic(t) ==
  IF t.pub.pc # "idle" THEN t
  ELSE [t EXCEPT !.pub = [pc |-> "put", rev |-> t.confirmedRevision, doc |-> t.doc]]

(* publishSnapshot(): captures confirmed, never the optimistic document.   *)
PublishOn(t) ==
  IF t.pub.pc # "idle" THEN t
  ELSE [t EXCEPT !.pub = [pc |-> "put", rev |-> t.confirmedRevision, doc |-> t.confirmed]]

(* The publication settles; a pump waiting for it goes on or backs off.    *)
PublishedOn(t, ok) ==
  [t EXCEPT !.pub = NoPublication,
            !.pump = IF @.pc # "publish" THEN @
                     ELSE PumpAt(IF ok THEN "ready" ELSE "delay")]

-----------------------------------------------------------------------------
(***************************************************************************)
(* The server and the other participants.                                  *)
(***************************************************************************)
Tip == Len(log)

Commit(actor, opId, patch, intent, origin) ==
  /\ log' = Append(log, [actor |-> actor, opId |-> opId, base |-> Tip, patch |-> patch,
                         intent |-> intent, origin |-> origin])
  /\ docs' = [r \in 0..(Tip + 1) |-> IF r <= Tip THEN docs[r] ELSE Apply(docs[Tip], patch)]
  /\ ws' = IF wsUp THEN Append(ws, [kind |-> "op", rev |-> Tip + 1]) ELSE ws
  /\ UNCHANGED <<ckpt, floor, alive, wsUp>>

Spend(what) ==
  /\ left[what] > 0
  /\ left' = [left EXCEPT ![what] = @ - 1]

(* Another participant's operation, built on the current head.             *)
ForeignOp ==
  /\ alive
  /\ Spend("foreign")
  /\ \E c \in Commands :
       /\ Commits(docs[Tip], c)
       /\ Commit(Peer, 0, Wire(Forward(docs[Tip], c)), 0, "remote")
  /\ UNCHANGED <<zombies, s>>

(* Another participant checkpoints; the server may compact up to it.       *)
ForeignCheckpoint ==
  /\ alive
  /\ Spend("checkpoints")
  /\ \E r \in (ckpt.rev + 1)..Tip : ckpt' = [rev |-> r, doc |-> docs[r]]
  /\ UNCHANGED <<log, docs, floor, alive, netVars, s>>

Compact ==
  /\ alive
  /\ floor < ckpt.rev
  /\ floor' = ckpt.rev
  /\ UNCHANGED <<log, docs, ckpt, alive, netVars, left, s>>

Duplicates(req) ==
  {r \in (floor + 1)..Tip : log[r].actor = Me /\ log[r].opId = req.opId}

(* What POST /ops answers, apart from accepting a new operation.           *)
Refusal(req) ==
  IF Duplicates(req) # {}
  THEN [kind |-> "accepted", rev |-> CHOOSE r \in Duplicates(req) : TRUE]
  ELSE IF Tip - ckpt.rev >= TailLimit THEN [kind |-> "snapshot-required", rev |-> 0]
  ELSE [kind |-> "stale-base", rev |-> Tip]

Acceptable(req) ==
  /\ Duplicates(req) = {}
  /\ Tip - ckpt.rev < TailLimit
  /\ req.base = Tip

AwaitingPost == s.pump.pc = "post" /\ s.pump.reply = NoReply

ServePost ==
  /\ alive
  /\ AwaitingPost
  /\ LET req == s.pump.req
     IN  \/ /\ Acceptable(req)
            /\ Commit(Me, req.opId, req.patch, req.intent, req.origin)
            /\ s' = [s EXCEPT !.pump.reply = [kind |-> "accepted", rev |-> Tip + 1]]
         \/ /\ ~Acceptable(req)
            /\ s' = [s EXCEPT !.pump.reply = Refusal(req)]
            /\ UNCHANGED <<serverVars, ws, wsUp>>
  /\ UNCHANGED <<zombies, left>>

(* 401, 403, 429, an actor mismatch, or 406.                               *)
RefusePost ==
  /\ alive
  /\ AwaitingPost
  /\ Spend("refusals")
  /\ \E kind \in {"forbidden", "protocol-unsupported"} :
       s' = [s EXCEPT !.pump.reply = [kind |-> kind, rev |-> 0]]
  /\ UNCHANGED <<serverVars, netVars>>

(* An accepting response whose body is no operation, or another one.       *)
MangleReply ==
  /\ s.pump.pc = "post"
  /\ s.pump.reply.kind = "accepted"
  /\ Spend("invalid")
  /\ \E kind \in {"invalid", "mangled"} : s' = [s EXCEPT !.pump.reply.kind = kind]
  /\ UNCHANGED <<serverVars, netVars>>

(* A submission the client no longer waits for reaches the server late.    *)
ServeZombie ==
  /\ alive
  /\ \E z \in zombies :
       /\ zombies' = zombies \ {z}
       /\ \/ /\ Acceptable(z)
             /\ Commit(Me, z.opId, z.patch, z.intent, z.origin)
          \/ /\ ~Acceptable(z)
             /\ UNCHANGED <<serverVars, ws, wsUp>>
  /\ UNCHANGED <<left, s>>

ServeSync ==
  /\ alive
  /\ s.sync.reply = NoReply
  /\ \/ /\ s.sync.pc = "snapshot"
        /\ s' = [s EXCEPT !.sync.reply = [kind |-> "snapshot", rev |-> ckpt.rev,
                                          doc |-> ckpt.doc]]
     \/ /\ s.sync.pc = "ops"
        /\ s' = [s EXCEPT !.sync.reply =
                   [kind |-> IF s.sync.after < floor THEN "gone" ELSE "ops", rev |-> Tip]]
  /\ UNCHANGED <<serverVars, netVars, left>>

(* An operation of a fetched page is invalid: those up to k are not.       *)
ManglePage ==
  /\ s.sync.reply.kind = "ops"
  /\ Spend("invalid")
  /\ \E k \in s.sync.after..(s.sync.reply.rev - 1) :
       s' = [s EXCEPT !.sync.reply = [kind |-> "cut", rev |-> k]]
  /\ UNCHANGED <<serverVars, netVars>>

(* PUT snapshot is taken if it advances the checkpoint.                    *)
ServePut ==
  /\ alive
  /\ s.pub.pc = "put"
  /\ IF s.pub.rev > ckpt.rev
     THEN /\ ckpt' = [rev |-> s.pub.rev, doc |-> s.pub.doc]
          /\ s' = [s EXCEPT !.pub.pc = "put-ok"]
     ELSE /\ s' = [s EXCEPT !.pub.pc = "put-conflict"]
          /\ UNCHANGED ckpt
  /\ UNCHANGED <<log, docs, floor, alive, netVars, left>>

(* DELETE: everyone is told; nothing is served any more.                   *)
DeleteSession ==
  /\ alive
  /\ Spend("ends")
  /\ alive' = FALSE
  /\ ws' = IF wsUp THEN Append(ws, [kind |-> "session-closed", rev |-> 0]) ELSE ws
  /\ UNCHANGED <<log, docs, ckpt, floor, zombies, wsUp, s>>

-----------------------------------------------------------------------------
(* The event stream.                                                       *)

(* The socket breaks: what was in flight is lost.                          *)
StreamDrop ==
  /\ wsUp
  /\ Spend("drops")
  /\ wsUp' = FALSE
  /\ ws' = <<[kind |-> "disconnected", rev |-> 0]>>
  /\ UNCHANGED <<serverVars, zombies, s>>

(***************************************************************************)
(* It is re-established: the first frame is the descriptor, and everything *)
(* after its revision follows without a gap.  Of a deleted session the     *)
(* connection only learns that it is gone.                                 *)
(***************************************************************************)
StreamOpen ==
  /\ ~wsUp
  /\ wsUp' = TRUE
  /\ ws' = Append(ws, IF alive THEN [kind |-> "connected", rev |-> Tip]
                      ELSE [kind |-> "session-closed", rev |-> 0])
  /\ UNCHANGED <<serverVars, zombies, left, s>>

(* It opens with a descriptor of another session, type or protocol.        *)
StreamMismatch ==
  /\ alive
  /\ ~wsUp
  /\ Spend("invalid")
  /\ wsUp' = TRUE
  /\ ws' = Append(ws, [kind |-> "mismatch", rev |-> 0])
  /\ UNCHANGED <<serverVars, zombies, s>>

GarbageFrame ==
  /\ wsUp
  /\ Spend("garbage")
  /\ ws' = Append(ws, [kind |-> "garbage", rev |-> 0])
  /\ UNCHANGED <<serverVars, zombies, wsUp, s>>

(* The descriptor's revision is the replay baseline of the new stream:     *)
(* what lies before it has to be fetched.                                  *)
OnConnected(t, rev) ==
  LET up == [t EXCEPT !.connected = TRUE]
  IN  IF rev > t.confirmedRevision THEN RequestCatchUp(up, rev) ELSE up

(* handleEvent: a terminal session ignores the transport entirely.         *)
HandleEvent(t, frame) ==
  CASE Terminal(t) -> t
    [] ~Terminal(t) /\ frame.kind = "op" -> HandleServerOp(t, frame.rev, log[frame.rev])
    [] ~Terminal(t) /\ frame.kind = "garbage" -> RequestResync(t)
    [] ~Terminal(t) /\ frame.kind = "connected" -> OnConnected(t, frame.rev)
    [] ~Terminal(t) /\ frame.kind = "mismatch" -> Fail(t)
    [] ~Terminal(t) /\ frame.kind = "disconnected" -> [t EXCEPT !.connected = FALSE]
    [] ~Terminal(t) /\ frame.kind = "session-closed" -> CloseOn(t)

Deliver ==
  /\ ws # <<>>
  /\ ws' = Tail(ws)
  /\ s' = HandleEvent(s, ws[1])
  /\ UNCHANGED <<serverVars, zombies, wsUp, left>>

-----------------------------------------------------------------------------
(* The pump's turns.                                                       *)

PumpStart ==
  /\ s.pump.pc = "ready"
  /\ s' = PumpTop(s)
  /\ UNCHANGED <<serverVars, netVars, left>>

(* The response must be exactly the request before it is ingested.         *)
Matches(req, op) ==
  op.actor = Me /\ op.opId = req.opId /\ op.base = req.base /\ op.patch = req.patch

OnAccepted(t, req, rev) ==
  IF rev <= t.confirmedRevision THEN PumpTop(t)
  ELSE IF ~Matches(req, log[rev])
  THEN [RequestResync(RaiseTarget(t, rev)) EXCEPT !.pump = PumpAt("exit")]
  ELSE LET handled == HandleServerOp(t, rev, log[rev])
       IN  IF Syncing(handled) \/ handled.status # "live"
           THEN [handled EXCEPT !.pump = PumpAt("exit")]
           ELSE PumpTop(handled)

(* A mangled body claims the same revision and matches nothing.            *)
OnMangled(t, rev) ==
  IF rev <= t.confirmedRevision THEN PumpTop(t)
  ELSE [RequestResync(RaiseTarget(t, rev)) EXCEPT !.pump = PumpAt("exit")]

OnStaleBase(t, req, head) ==
  IF t.confirmedRevision > req.base THEN PumpTop(t)
  ELSE [RequestCatchUp(t, head) EXCEPT !.pump = PumpAt("exit")]

(* Mutant: an answer to a session that has ended is still taken.           *)
PumpReply_NoRecheck ==
  /\ s.pump.pc = "post"
  /\ s.pump.reply.kind = "accepted"
  /\ s' = OnAccepted(s, s.pump.req, s.pump.reply.rev)
  /\ UNCHANGED <<serverVars, netVars, left>>

PumpReply ==
  /\ s.pump.pc = "post"
  /\ s.pump.reply # NoReply
  /\ LET reply == s.pump.reply
         req == s.pump.req
     IN  s' = CASE s.status # "live" -> [s EXCEPT !.pump = PumpAt("exit")]
                [] s.status = "live" /\ reply.kind = "accepted" ->
                     OnAccepted(s, req, reply.rev)
                [] s.status = "live" /\ reply.kind = "invalid" ->
                     [RequestResync(s) EXCEPT !.pump = PumpAt("exit")]
                [] s.status = "live" /\ reply.kind = "mangled" -> OnMangled(s, reply.rev)
                [] s.status = "live" /\ reply.kind = "stale-base" ->
                     OnStaleBase(s, req, reply.rev)
                [] s.status = "live" /\ reply.kind = "snapshot-required" ->
                     [PublishOn(s) EXCEPT !.pump = PumpAt("publish")]
                [] s.status = "live" /\ reply.kind = "protocol-unsupported" ->
                     [Fail(s) EXCEPT !.pump = PumpAt("exit")]
                [] s.status = "live" /\ reply.kind = "forbidden" ->
                     [Fail(s) EXCEPT !.pump = PumpAt("exit"), !.denied = TRUE]
  /\ UNCHANGED <<serverVars, netVars, left>>

(***************************************************************************)
(* The exchange fails: the response is lost, or the request is, or it is   *)
(* still on its way.  The same opId is tried again after a delay.          *)
(***************************************************************************)
PumpError ==
  /\ s.pump.pc = "post"
  /\ IF alive THEN Spend("errors") ELSE UNCHANGED left
  /\ \/ UNCHANGED zombies
     \/ /\ s.pump.reply = NoReply
        /\ alive
        /\ zombies' = zombies \cup {s.pump.req}
  /\ s' = [s EXCEPT !.pump = PumpAt(IF s.status = "live" THEN "delay" ELSE "exit")]
  /\ UNCHANGED <<serverVars, ws, wsUp>>

PumpDelayOver ==
  /\ s.pump.pc = "delay"
  /\ s' = PumpTop(s)
  /\ UNCHANGED <<serverVars, netVars, left>>

PumpEnd ==
  /\ s.pump.pc = "exit"
  /\ s' = PumpFinally(s)
  /\ UNCHANGED <<serverVars, netVars, left>>

-----------------------------------------------------------------------------
(* The sync loop's turns.                                                  *)

SyncReply ==
  /\ s.sync.reply # NoReply
  /\ LET reply == s.sync.reply
     IN  s' = IF s.status # "catching-up" THEN SyncTop(s)
              ELSE CASE reply.kind = "snapshot" -> AdoptSnapshot(s, reply.rev, reply.doc)
                     [] reply.kind # "snapshot" /\ s.resync -> SyncTop(s)
                     [] reply.kind = "gone" /\ ~s.resync ->
                          SyncTop([s EXCEPT !.resync = TRUE])
                     [] reply.kind = "ops" /\ ~s.resync ->
                          IngestPage(s, s.sync.after,
                                     SubSeq(log, s.sync.after + 1, reply.rev))
                     [] reply.kind = "cut" /\ ~s.resync ->
                          IngestCut(s, s.sync.after,
                                    SubSeq(log, s.sync.after + 1, reply.rev))
  /\ UNCHANGED <<serverVars, netVars, left>>

(* A failed fetch rejects the loop: the session fails.                     *)
SyncError ==
  /\ s.sync.pc \in {"snapshot", "ops"}
  /\ IF alive THEN Spend("errors") ELSE UNCHANGED left
  /\ s' = [Fail(s) EXCEPT !.sync = SyncAt("exit", 0)]
  /\ UNCHANGED <<serverVars, netVars>>

SyncDelayOver ==
  /\ s.sync.pc = "delay"
  /\ s' = SyncTop(s)
  /\ UNCHANGED <<serverVars, netVars, left>>

SyncEnd ==
  /\ s.sync.pc = "exit"
  /\ s' = SyncFinally(s)
  /\ UNCHANGED <<serverVars, netVars, left>>

-----------------------------------------------------------------------------
(* Checkpoint publication.                                                 *)

(* The publication policy's clock decides when; see SnapshotPolicy.        *)
PublishPeriodic ==
  /\ s.status = "live"
  /\ s.connected
  /\ s.pub.pc = "idle"
  /\ Spend("publishes")
  /\ s' = PublishOn(s)
  /\ UNCHANGED <<serverVars, netVars>>

(* 200 ends the publication; after a 409 the winner's checkpoint is read.  *)
PublishReply ==
  /\ \/ /\ s.pub.pc = "put-ok"
        /\ s' = PublishedOn(s, TRUE)
     \/ /\ alive
        /\ s.pub.pc = "put-conflict"
        /\ s' = PublishedOn(s, FALSE)
  /\ UNCHANGED <<serverVars, netVars, left>>

PublishError ==
  /\ s.pub.pc # "idle"
  /\ IF alive THEN Spend("errors") ELSE UNCHANGED left
  /\ s' = PublishedOn(s, FALSE)
  /\ UNCHANGED <<serverVars, netVars>>

-----------------------------------------------------------------------------
(* The user's calls.                                                       *)

Dispatch ==
  /\ ~Terminal(s)
  /\ Spend("edits")
  /\ \E c \in Commands :
       /\ Commits(s.doc, c)
       /\ s' = DispatchOn(s, c)
  /\ UNCHANGED <<serverVars, netVars>>

Undo ==
  /\ s.undo # <<>>
  /\ Spend("replays")
  /\ s' = ReplayOn(s, "undo", "redo", "undo")
  /\ UNCHANGED <<serverVars, netVars>>

Redo ==
  /\ s.redo # <<>>
  /\ Spend("replays")
  /\ s' = ReplayOn(s, "redo", "undo", "redo")
  /\ UNCHANGED <<serverVars, netVars>>

ClearHistory ==
  /\ s.undo # <<>> \/ s.redo # <<>>
  /\ Spend("clears")
  /\ s' = [s EXCEPT !.undo = <<>>, !.redo = <<>>]
  /\ UNCHANGED <<serverVars, netVars>>

(* close(): with a connection up a last checkpoint may be sent first.      *)
Close ==
  /\ s.status # "closed"
  /\ Spend("ends")
  /\ \/ s' = CloseOn(s)
     \/ /\ s.connected
        /\ s.pub.pc = "idle"
        /\ s' = CloseOn(PublishOn(s))
  /\ UNCHANGED <<serverVars, netVars>>

-----------------------------------------------------------------------------
(***************************************************************************)
(* connectSharedSession has just adopted the checkpoint; the event stream  *)
(* is still to open, so the head may move in between.                      *)
(***************************************************************************)
Init ==
  /\ log = <<>>
  /\ docs = [r \in 0..0 |-> InitialDoc]
  /\ ckpt = [rev |-> 0, doc |-> InitialDoc]
  /\ floor = 0
  /\ alive = TRUE
  /\ zombies = {}
  /\ wsUp = FALSE
  /\ ws = <<>>
  /\ left \in Scenarios
  /\ s = NewSession

ServerStep == ServePost \/ ServeSync \/ ServePut
FaultStep == \/ RefusePost \/ MangleReply \/ ManglePage \/ ServeZombie
             \/ StreamDrop \/ StreamMismatch \/ GarbageFrame
             \/ PumpError \/ SyncError \/ PublishError
PeerStep == ForeignOp \/ ForeignCheckpoint \/ Compact \/ DeleteSession
UserStep == Dispatch \/ Undo \/ Redo \/ ClearHistory \/ Close
SessionStep == \/ PumpStart \/ PumpReply \/ PumpDelayOver \/ PumpEnd
               \/ SyncReply \/ SyncDelayOver \/ SyncEnd
               \/ PublishPeriodic \/ PublishReply

Next == \/ ServerStep \/ FaultStep \/ PeerStep \/ UserStep \/ SessionStep
        \/ StreamOpen \/ Deliver

Spec == Init /\ [][Next]_vars
(***************************************************************************)
(* Fairness.  The session's own turns and the answers of a reachable       *)
(* server are never put off for ever (promises resolve, timers fire, HTTP  *)
(* exchanges end), a frame that was sent is delivered, and the transport   *)
(* retries a broken stream for ever.  Users, peers and faults owe nothing. *)
(***************************************************************************)
FairSpec ==
  /\ Spec
  /\ WF_vars(PumpStart) /\ WF_vars(PumpReply) /\ WF_vars(PumpDelayOver) /\ WF_vars(PumpEnd)
  /\ WF_vars(SyncReply) /\ WF_vars(SyncDelayOver) /\ WF_vars(SyncEnd)
  /\ WF_vars(PublishReply)
  /\ WF_vars(ServePost) /\ WF_vars(ServeSync) /\ WF_vars(ServePut)
  /\ WF_vars(StreamOpen) /\ WF_vars(Deliver)

-----------------------------------------------------------------------------
Statuses == {"live", "catching-up", "closed", "error"}
Origins == {"dispatch", "undo", "redo"}
Fates == {"open", "conflict", "dissolved", "ambiguous"}

Invocations == [kind : {"add", "set", "remove", "patch"}, key : Keys, val : Slots]
Attempts == [opId : Nat, base : Nat, patch : WirePatches]
Entries == [opId : Nat, cmd : Invocations, origin : Origins, predicted : WirePatches,
            attempts : SUBSET Attempts, intent : Nat, rec : Nat]
Requests == [opId : Nat, base : Nat, patch : WirePatches, intent : Nat, origin : Origins]

PostReplies == {NoReply} \cup
  [kind : {"accepted", "invalid", "mangled", "stale-base", "snapshot-required",
           "protocol-unsupported", "forbidden"}, rev : Nat]
SyncReplies == {NoReply} \cup [kind : {"ops", "cut", "gone"}, rev : Nat] \cup
               [kind : {"snapshot"}, rev : Nat, doc : Docs]

Pumps == [pc : {"idle", "ready", "publish", "delay", "exit"}, req : {NoRequest},
          reply : PostReplies] \cup
         [pc : {"post"}, req : Requests, reply : PostReplies]
Syncs == [pc : {"idle", "snapshot", "ops", "delay", "exit"}, after : Nat,
          reply : SyncReplies]
Publications == [pc : {"idle", "put", "put-ok", "put-conflict"}, rev : Nat, doc : Docs]

Sessions ==
  [confirmed : Docs, confirmedRevision : Nat, doc : Docs, pending : Seq(Entries),
   undo : Seq(Nat), redo : Seq(Nat), recs : Seq(PatchOps), status : Statuses,
   connected : BOOLEAN, syncTarget : Nat, resync : BOOLEAN, opCounter : Nat,
   denied : BOOLEAN, pump : Pumps, sync : Syncs, pub : Publications,
   fate : Seq(Fates)]

ServerOps == [actor : {Me, Peer}, opId : Nat, base : Nat, patch : WirePatches,
              intent : Nat, origin : Origins \cup {"remote"}]
Frames == [kind : {"op", "garbage", "connected", "mismatch", "disconnected", "session-closed"},
           rev : Nat]

(***************************************************************************)
(* Type invariant of the session and of the server it talks to; revisions  *)
(* a party holds are revisions the log has.                                *)
(***************************************************************************)
TypeOK ==
  /\ log \in Seq(ServerOps)
  /\ docs \in [0..Tip -> Docs]
  /\ ckpt \in [rev : 0..Tip, doc : Docs]
  /\ floor \in 0..Tip
  /\ alive \in BOOLEAN
  /\ zombies \subseteq Requests
  /\ ws \in Seq(Frames)
  /\ \A i \in DOMAIN ws : ws[i].rev <= Tip /\ (ws[i].kind = "op" => ws[i].rev >= 1)
  /\ wsUp \in BOOLEAN
  /\ s \in Sessions
  /\ s.confirmedRevision <= Tip
  /\ s.syncTarget <= Tip
  /\ s.pump.reply.rev <= Tip
  /\ s.pump.reply.kind = "accepted" => s.pump.reply.rev >= 1
  /\ s.sync.reply.rev <= Tip
  /\ s.pub.rev <= Tip
  /\ \A i \in DOMAIN s.undo : s.undo[i] \in DOMAIN s.recs
  /\ \A i \in DOMAIN s.redo : s.redo[i] \in DOMAIN s.recs

(***************************************************************************)
(* The confirmed document is the server's log applied in order up to the   *)
(* confirmed revision, whatever mixture of acknowledgements, foreign       *)
(* operations, pages and checkpoints brought the session there.            *)
(***************************************************************************)
ConfirmedIsLogPrefix == s.confirmed = docs[s.confirmedRevision]

(***************************************************************************)
(* What the user sees is the confirmed document with the predicted patches *)
(* of the pending intentions applied in order, and each of them fits.      *)
(***************************************************************************)
ReplayRun(d, q) ==
  LET run[i \in 0..Len(q)] == IF i = 0 THEN d ELSE Apply(run[i - 1], q[i].predicted)
  IN  run

OptimisticIsRebase ==
  LET run == ReplayRun(s.confirmed, s.pending)
  IN  /\ s.doc = run[Len(s.pending)]
      /\ \A i \in 1..Len(s.pending) : Applies(run[i - 1], s.pending[i].predicted)

(***************************************************************************)
(* Every checkpoint the server serves is a prefix of its log, although the *)
(* session captured it before it was sent and went on meanwhile.           *)
(***************************************************************************)
CheckpointIsLogPrefix == ckpt.doc = docs[ckpt.rev]

(***************************************************************************)
(* An intention is committed at most once, through retries, lost answers,  *)
(* reminted opIds, late requests and resynchronisation.                    *)
(***************************************************************************)
AtMostOnce ==
  \A q, r \in 1..Tip : log[q].intent = log[r].intent /\ log[q].intent # 0 => q = r

(***************************************************************************)
(* No intention disappears silently: it is still queued, it is in the log, *)
(* it was reported as a conflict or as ambiguous, or re-executing it had   *)
(* become a no-op.                                                         *)
(***************************************************************************)
NothingLostSilently ==
  \A i \in DOMAIN s.fate :
    s.fate[i] = "open" =>
      \/ \E j \in DOMAIN s.pending : s.pending[j].intent = i
      \/ \E r \in 1..Tip : log[r].intent = i

(***************************************************************************)
(* There is no lost wake-up.  A live session that does not synchronise has *)
(* reached every head that was announced to it and owes no resync; when    *)
(* the stream is up and has delivered everything, that is the server's     *)
(* head.  If its pump rests too, nothing is queued, so settle() means      *)
(* acknowledged.                                                           *)
(***************************************************************************)
NoLostWakeUp ==
  s.status = "live" /\ ~Syncing(s) =>
    /\ s.confirmedRevision >= s.syncTarget
    /\ ~s.resync
    /\ wsUp /\ ws = <<>> => s.confirmedRevision = Tip
    /\ s.pump.pc = "idle" => s.pending = <<>>

(***************************************************************************)
(* The history record tied to a queued intention is the record of its      *)
(* latest re-execution (mirrored for an undo), and no record of a dropped  *)
(* intention can be undone or redone.                                      *)
(***************************************************************************)
HistoryFollowsPending ==
  /\ \A i \in DOMAIN s.pending :
       LET e == s.pending[i]
           p == s.recs[e.rec]
       IN  (\A j \in DOMAIN s.pending : j > i => s.pending[j].rec # e.rec)
             => e.predicted = Wire(IF e.origin = "undo" THEN Invert(p) ELSE p)
  /\ \A i \in DOMAIN s.undo : s.fate[s.undo[i]] = "open"
  /\ \A i \in DOMAIN s.redo : s.fate[s.redo[i]] = "open"

(***************************************************************************)
(* A closed or failed session is frozen: answers that were in flight when  *)
(* it ended change neither its documents nor its queue, and nothing        *)
(* revives it.  The user may still take records off the stacks of undo and *)
(* redo, or clear them, but no record is written and no stack gains one.   *)
(***************************************************************************)
TerminalIsFrozen ==
  [][Terminal(s) =>
       /\ s'.status = s.status \/ s'.status = "closed"
       /\ s'.confirmed = s.confirmed /\ s'.confirmedRevision = s.confirmedRevision
       /\ s'.doc = s.doc /\ s'.pending = s.pending /\ s'.recs = s.recs
       /\ Len(s'.undo) <= Len(s.undo) /\ Len(s'.redo) <= Len(s.redo)]_vars

(***************************************************************************)
(* The session keeps the promises settle() and the agent build on: while   *)
(* it is live, the pump runs as long as anything is pending.               *)
(***************************************************************************)
Settling == INSTANCE SettlingSession
              WITH status <- s.status, pending <- Len(s.pending),
                   pumping <- s.pump.pc # "idle"

ImplementsSettling == Settling!Spec

(***************************************************************************)
(* Once users, peers and faults stop, the session either has ended or      *)
(* shows exactly the server's document, with nothing left to submit.       *)
(***************************************************************************)
Converges ==
  <>[](\/ Terminal(s)
       \/ /\ s.status = "live" /\ s.pending = <<>>
          /\ s.confirmedRevision = Tip /\ s.doc = docs[Tip])

-----------------------------------------------------------------------------
(* Claims of the repository that the code does not keep.                   *)

(***************************************************************************)
(* shared-session.ts:555: an undo never overwrites another participant's   *)
(* edit with a stale recording: what a committed undo or redo overwrites   *)
(* is the value its record held when the user asked for it.                *)
(***************************************************************************)
UndoNeverOverwritesForeign ==
  \A r \in 1..Tip :
    log[r].origin \in {"undo", "redo"} =>
      docs[r - 1][log[r].patch.key] = s.recs[log[r].intent].old
=============================================================================
