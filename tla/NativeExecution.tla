-------------------------- MODULE NativeExecution ---------------------------
(***************************************************************************)
(* How a client of the native connection follows its executions:           *)
(*                                                                         *)
(*   core/src/events/dinkster.ts        DinksterNormalizer                 *)
(*   client/src/dinkster-connection.ts  frames, job records, run journal   *)
(*   client/src/dinkster-reconcile.ts   the pass after every reconnect     *)
(*   client/src/reconcile-track.ts      supersession of passes             *)
(*   client/src/execution-store.ts      ExecutionStore                     *)
(*                                                                         *)
(* The server, the wire and the HTTP exchanges are external.  The wire is  *)
(* a queue that a drop empties; an exchange is sent, served at some later  *)
(* time and answered later still, so that live frames overtake records and *)
(* records overtake live frames.  The owner wires the parts as their       *)
(* comments ask for: the store listens to events, a reconciliation starts  *)
(* on every reconnect and a hydration on every live completion.            *)
(***************************************************************************)
EXTENDS ExecutionStore

CONSTANTS
  Own,            \* jobs this client submits; the others are submitted elsewhere
  Slots,          \* places in a ring of preview frames
  PageLimit,      \* RUN_JOURNAL_PAGE_LIMIT
  MaxPages,       \* RUN_JOURNAL_MAX_PAGES
  MaxWire,        \* bound: frames under way
  MaxActive,      \* bound: jobs that run at once
  Scenarios       \* bound: what may happen in one behaviour, how often

Kinds == {"logs", "sheds", "reruns", "previews", "drops", "errors", "forgets", "pins", "restores"}

ASSUME ExecutionAssumption ==
  /\ Own \subseteq Jobs
  /\ Slots \subseteq Nat
  /\ {PageLimit, MaxPages, MaxWire, MaxActive} \subseteq Nat \ {0}
  /\ \A sc \in Scenarios : /\ sc.jobs \subseteq Jobs /\ sc.talk \union sc.journal \subseteq sc.jobs
                           /\ \A k \in Kinds : sc.limit[k] \in Nat

VARIABLES
  store,    \* the ExecutionStore
  conn,     \* the DinksterConnection and its normalizer; ghost: "holes",
            \* jobs whose last backfill may have missed records
  track,    \* the ReconcileTrack of the connection
  http,     \* exchanges of the client that are not over
  server,   \* per job, what the server has; ghost: "shed", log records that
            \* were left out of the live stream
  left      \* what the scenario still allows
vars == <<store, conn, track, http, server, left>>

Spend(what) == left[what] > 0 /\ left' = [left EXCEPT ![what] = @ - 1]

(* Date.now(), as far as it matters: later than every stamp in the store.  *)
Now == 1 + Max({0} \union {store.map[j].queuedAt : j \in Known(store)}
                   \union {store.map[j].endedAt : j \in Known(store)})

(* A value that one turn of the client takes through its parts.            *)
Client == [store |-> store, conn |-> conn, track |-> track, http |-> http, now |-> Now]
Becomes(c) ==
  /\ store' = c.store /\ conn' = c.conn /\ track' = c.track /\ http' = c.http

-----------------------------------------------------------------------------
(* Exchanges.  A handler sees one when it is served or failed.             *)

Ask(c, kind, j, arg) ==
  [c EXCEPT !.http = @ \union {[kind |-> kind, job |-> j, arg |-> arg,
                                phase |-> "sent", body |-> <<>>]}]
Gone(c, r) == [c EXCEPT !.http = @ \ {r}]

(* fetchJob(): a record, or nothing when the server has none.              *)
Record(j) == IF server[j].known
             THEN <<[state |-> server[j].state, node |-> server[j].node,
                  journal |-> server[j].journal]>>
             ELSE <<>>

(* fetchRunJournal(): the records of one page.                             *)
Page(j, after) ==
  IF ~server[j].known THEN <<>>
  ELSE LET upto == IF after + PageLimit < server[j].seq THEN after + PageLimit ELSE server[j].seq
       IN  <<[upto |-> upto, latest |-> server[j].seq,
              logs |-> {n \in server[j].logs : after < n /\ n <= upto}]>>

-----------------------------------------------------------------------------
(* The normalizer, and the store behind it.                                *)

(* emit(): every listener sees every event.                                *)
Emit(c, events) ==
  LET run[i \in 0..Len(events)] ==
        IF i = 0 THEN c.store ELSE Apply(run[i - 1], events[i], c.now)
  IN  [c EXCEPT !.store = run[Len(events)]]

Event(j, kind) == [job |-> j, kind |-> kind]
NodeStates(j, node, snapshot) ==
  [job |-> j, kind |-> "nodeStates", node |-> node, snapshot |-> snapshot]

(* normalize() of a frame: a job has one terminal event at most.           *)
Ends == {"run_finished", "completed", "failed", "cancelled"}
Normalized(c, f) ==
  IF f.kind \in Ends /\ f.job \in c.conn.terminal THEN <<>>
  ELSE CASE f.kind \in {"run_finished", "completed"} -> <<Event(f.job, "completed")>>
         [] f.kind = "cancelled" -> <<Event(f.job, "interrupted")>>
         [] f.kind = "failed" -> <<NodeStates(f.job, "error", FALSE), Event(f.job, "error")>>
         [] f.kind = "run_started" -> <<Event(f.job, "started")>>
         [] f.kind = "node" -> <<NodeStates(f.job, f.arg, FALSE)>>
         [] f.kind = "preview" -> <<[job |-> f.job, kind |-> "preview", slot |-> f.arg]>>
         [] f.kind = "log" -> <<[job |-> f.job, kind |-> "log", seq |-> f.arg]>>

EmitRaw(c, f) ==
  Emit([c EXCEPT !.conn.terminal = IF f.kind \in Ends THEN @ \union {f.job} ELSE @],
       Normalized(c, f))

(* noteLiveJobEvent(): a job first seen in its middle has a past to fetch; *)
(* previews, which are binary, do not count.                               *)
NoteLiveJobEvent(c, f) ==
  IF f.kind = "preview" \/ f.job \in c.conn.seen THEN c
  ELSE LET noted == [c EXCEPT !.conn.seen = @ \union {f.job}]
       IN  IF f.seq <= 1 THEN noted ELSE Ask(noted, "sight", f.job, 0)

Noticed(c, f) == IF f.kind = "completed" THEN Ask(c, "hydrate", f.job, 0) ELSE c

(* A live frame; a completion in it sets the owner's hydration off.        *)
Ingest(c, f) ==
  Noticed(EmitRaw(NoteLiveJobEvent(c, f), f), f)

(* replayJob(): the record's nodes as a snapshot, then its end as a frame. *)
Snapshot(c, j, record) ==
  IF record.node = "none" THEN c ELSE Emit(c, <<NodeStates(j, record.node, TRUE)>>)
ReplayEnd(c, j, record) ==
  IF record.state \notin Ends THEN c
  ELSE EmitRaw(c, [job |-> j, kind |-> record.state, seq |-> 0, arg |-> 0])
ReplayJob(c, j, record) == ReplayEnd(Snapshot(c, j, record), j, record)

-----------------------------------------------------------------------------
(* backfillRunLog(): one pass of pages per run at a time.                  *)

Backfill(c, j) ==
  IF j \in c.conn.passes THEN c
  ELSE Ask([c EXCEPT !.conn.passes = @ \union {j}, !.conn.holes = @ \ {j}], "page", j,
           [after |-> c.conn.cursor[j], pages |-> 1])

EndPass(c, j) == [c EXCEPT !.conn.passes = @ \ {j}]
BreakOff(c, j) == [c EXCEPT !.conn.passes = @ \ {j}, !.conn.holes = @ \union {j}]

(* backfillRunLogPass(): one page is replayed, then the next is asked for. *)
Replayed(c, j, arg, page) ==
  LET run[n \in 0..page.upto] ==
        IF n = 0 THEN c
        ELSE IF n \in page.logs
             THEN EmitRaw(run[n - 1], [job |-> j, kind |-> "log", seq |-> n, arg |-> n])
        ELSE run[n - 1]
  IN  [run[page.upto]
       EXCEPT !.conn.cursor[j] = IF page.upto > arg.after THEN page.upto ELSE @]

(* Mutant: a full page is taken for the last.                              *)
BackfillPage_OnePage(c, j, arg, page) == EndPass(Replayed(c, j, arg, page), j)

NextPage(c, j, arg, page) ==
  IF page.upto <= arg.after \/ page.upto >= page.latest \/ arg.pages = MaxPages
  THEN EndPass(c, j)
  ELSE Ask(c, "page", j, [after |-> page.upto, pages |-> arg.pages + 1])
BackfillPage(c, j, arg, page) == NextPage(Replayed(c, j, arg, page), j, arg, page)

-----------------------------------------------------------------------------
(* reconcileDinksterExecutions().                                          *)

OpenExecutions(st) ==
  Among(st.order, {j \in Known(st) :
    \/ st.map[j].status \in {"queued", "running"}
    \/ st.map[j].status = "completed" /\ ~st.map[j].hydrated})

IsCurrent(c) == c.track.ran = c.track.gen

(* Mutant: a superseded pass is the last.                                  *)
PassTop_NoRerun(c) ==
  IF c.track.ran # 0 /\ ~IsCurrent(c) THEN [c EXCEPT !.track.busy = FALSE]
  ELSE LET t == IF IsCurrent(c) THEN c.track
                ELSE [c.track EXCEPT !.ran = c.track.gen, !.todo = OpenExecutions(c.store)]
       IN  IF t.todo = <<>> THEN [c EXCEPT !.track = [t EXCEPT !.busy = FALSE]]
           ELSE Ask([c EXCEPT !.track = t], "reconcile", Head(t.todo), t.ran)

(* From the top of the loop to the next await: a pass that is no longer    *)
(* current returns, and the loop runs one for the newest generation.       *)
PassTop(c) ==
  LET t == IF IsCurrent(c) THEN c.track
           ELSE [c.track EXCEPT !.ran = c.track.gen, !.todo = OpenExecutions(c.store),
                                !.covered = ToSet(OpenExecutions(c.store)) \ c.store.gone]
  IN  IF t.todo = <<>> THEN [c EXCEPT !.track = [t EXCEPT !.busy = FALSE]]
      ELSE Ask([c EXCEPT !.track = t], "reconcile", Head(t.todo), t.ran)

Reconcile(c) ==
  LET asked == [c EXCEPT !.track.gen = @ + 1]
  IN  IF c.track.busy THEN asked ELSE PassTop([asked EXCEPT !.track.busy = TRUE])

PassNext(c) == PassTop([c EXCEPT !.track.todo = Tail(@)])

(* What the pass does with one job's record, or without one.               *)
Unread(c, j) == [c EXCEPT !.track.covered = @ \ {j}]
(* Mutant: an old 404 is believed.                                         *)
Disowned_Always(c, j) == [c EXCEPT !.store = MarkLost(@, j, c.now)]

Disowned(c, j) == IF IsCurrent(c) THEN [c EXCEPT !.store = MarkLost(@, j, c.now)] ELSE c

WithJournal(c, j, record) == IF record.journal THEN Backfill(c, j) ELSE c
WithArtifacts(c, j, record) ==
  IF record.state = "completed" THEN [c EXCEPT !.store = HydrateArtifacts(@, j)] ELSE c
ReconcileRecord(c, j, record) ==
  WithArtifacts(WithJournal(ReplayJob(c, j, record), j, record), j, record)

-----------------------------------------------------------------------------
(* The turns of the client.                                                *)

(* An exchange of this kind is over: served, or failed.                    *)
Over(kind) == {r \in http : r.kind = kind /\ r.phase \in {"served", "failed"}}
Turn(c) == Becomes(c) /\ UNCHANGED <<server, left>>

(* A frame arrives.                                                        *)
Deliver ==
  /\ conn.wire # <<>>
  /\ Becomes(Ingest([Client EXCEPT !.conn.wire = Tail(@)], Head(conn.wire)))
  /\ UNCHANGED <<server, left>>

(* The socket is up again: the owner reconciles.                           *)
Reconnected ==
  /\ ~conn.up
  /\ Becomes(Reconcile([Client EXCEPT !.conn.up = TRUE,
                                    !.conn.holes = @ \union conn.passes]))
  /\ UNCHANGED <<server, left>>

SubmitAnswered ==
  \E r \in Over("submit") :
    LET c == Gone(Client, r)
    IN  Turn(IF r.phase = "failed" THEN c
             ELSE [c EXCEPT !.store = Register(@, r.job, c.now)])

ReconcileAnswered ==
  \E r \in Over("reconcile") :
    LET c == Gone(Client, r)
    IN  Turn(PassNext(IF r.phase = "failed" THEN Unread(c, r.job)
                      ELSE IF r.body = <<>> THEN Disowned(Unread(c, r.job), r.job)
                      ELSE ReconcileRecord(c, r.job, r.body[1])))

(* What these two look for in a record does not go away while the answer   *)
(* travels, so they are served when they are answered.                     *)
Late(r) == IF r.phase = "failed" THEN <<>> ELSE Record(r.job)

SightAnswered ==
  \E r \in {x \in http : x.kind = "sight"} :
    LET c == Gone(Client, r)
        record == Late(r)
    IN  Turn(IF record # <<>> /\ record[1].journal THEN Backfill(c, r.job) ELSE c)

PageAnswered ==
  \E r \in Over("page") :
    LET c == Gone(Client, r)
    IN  Turn(IF r.body = <<>> THEN BreakOff(c, r.job)
             ELSE BackfillPage(c, r.job, r.arg, r.body[1]))

HydrateAnswered ==
  \E r \in {x \in http : x.kind = "hydrate"} :
    LET c == Gone(Client, r)
        record == Late(r)
    IN  Turn(IF record = <<>> \/ record[1].state # "completed" THEN c
             ELSE [c EXCEPT !.store = HydrateArtifacts(@, r.job)])

-----------------------------------------------------------------------------
(* The user.                                                               *)

(* submit(): the job exists once the exchange is served.                   *)
Submit ==
  \E j \in Own :
    /\ server[j].state = "unborn"
    /\ server' = [server EXCEPT ![j].state = "none"]
    /\ http' = Ask(Client, "submit", j, 0).http
    /\ UNCHANGED <<store, conn, track, left>>

(* A view of the execution opens or closes.                                *)
OpenView ==
  \E j \in Known(store) :
    /\ Spend("pins")
    /\ store' = Retain(store, j)
    /\ UNCHANGED <<conn, track, http, server>>
CloseView ==
  \E j \in Jobs :
    /\ store.pins[j] > 0
    /\ store' = Release(store, j)
    /\ UNCHANGED <<conn, track, http, server, left>>

(* A result saved earlier is shown again, its proof checked anew.          *)
RestoreResult ==
  \E j \in Jobs \ Known(store) :
    /\ server[j].known /\ server[j].state = "completed"
    /\ Spend("restores")
    /\ store' = RestoreCompleted(store, j, server[j].node, NoTime)
    /\ UNCHANGED <<conn, track, http, server>>

-----------------------------------------------------------------------------
(* The server and the network.                                             *)

Publish(j, frames, record) ==
  LET n == server[j].seq
      sent == [i \in DOMAIN frames |->
                [job |-> j, kind |-> frames[i].kind, seq |-> n + i,
                 arg |-> IF frames[i].kind = "log" THEN n + i ELSE frames[i].arg]]
      logged == {n + i : i \in {k \in DOMAIN frames : frames[k].kind = "log"}}
  IN  /\ Len(conn.wire) + Len(frames) <= MaxWire
      /\ server' = [server EXCEPT ![j] = [record EXCEPT !.seq = n + Len(frames),
                                                        !.logs = @ \union logged]]
      /\ conn' = IF conn.up THEN [conn EXCEPT !.wire = @ \o sent] ELSE conn
      /\ UNCHANGED <<store, track, http>>

Frame(kind, arg) == [kind |-> kind, arg |-> arg]
Live(j) == server[j].known /\ server[j].state = "running"

RunStarts ==
  \E j \in Jobs :
    /\ server[j].known /\ server[j].state = "queued"
    /\ Cardinality({k \in Jobs : Live(k)}) < MaxActive
    /\ Publish(j, <<Frame("run_started", 0)>>, [server[j] EXCEPT !.state = "running"])
    /\ UNCHANGED left

NodeStarts ==
  \E j \in Jobs :
    /\ Live(j) /\ server[j].talks /\ server[j].node = "none"
    /\ Publish(j, <<Frame("node", "running")>>, [server[j] EXCEPT !.node = "running"])
    /\ UNCHANGED left

NodeFinishes ==
  \E j \in Jobs :
    /\ Live(j) /\ server[j].node = "running"
    /\ Publish(j, <<Frame("node", "done")>>, [server[j] EXCEPT !.node = "done"])
    /\ UNCHANGED left

(* A rerun: the only way back from an end (execution-store.ts:531).        *)
NodeRunsAgain ==
  \E j \in Jobs :
    /\ Live(j) /\ server[j].node = "done"
    /\ Spend("reruns")
    /\ Publish(j, <<Frame("node", "running")>>, [server[j] EXCEPT !.node = "running"])

Logs ==
  \E j \in Jobs :
    /\ Live(j)
    /\ Spend("logs")
    /\ Publish(j, <<Frame("log", 0)>>, server[j])

(* A log record only reaches the journal: on the live socket it is         *)
(* droppable (core/src/events/contract.ts:260-262).                        *)
LogIsShed ==
  \E j \in Jobs :
    /\ Live(j)
    /\ Spend("sheds")
    /\ LET n == server[j].seq + 1
       IN  server' = [server EXCEPT ![j].seq = n, ![j].logs = @ \union {n},
                                    ![j].shed = @ \union {n}]
    /\ UNCHANGED <<store, conn, track, http>>

Previews ==
  \E j \in Jobs, slot \in Slots \union {Still} :
    /\ Live(j) /\ server[j].node = "running"
    /\ Spend("previews")
    /\ Publish(j, <<Frame("preview", slot)>>, server[j])

RunSucceeds ==
  \E j \in Jobs :
    /\ Live(j) /\ server[j].node \in {"none", "done"}
    /\ Publish(j, <<Frame("run_finished", 0), Frame("completed", 0)>>,
               [server[j] EXCEPT !.state = "completed"])
    /\ UNCHANGED left

(* A node that ran fails in an event of its own; one that was refused is   *)
(* named by the job's error only.                                          *)
RunFails ==
  \E j \in Jobs :
    /\ Live(j) /\ server[j].talks /\ server[j].node \in {"none", "running"}
    /\ Publish(j, (IF server[j].node = "none" THEN <<>> ELSE <<Frame("node", "error")>>)
                    \o <<Frame("failed", 0)>>,
               [server[j] EXCEPT !.state = "failed", !.node = "error"])
    /\ UNCHANGED left

RunIsCancelled ==
  \E j \in Jobs :
    /\ server[j].known /\ server[j].state \in {"queued", "running"}
    /\ Publish(j, <<Frame("cancelled", 0)>>, [server[j] EXCEPT !.state = "cancelled"])
    /\ UNCHANGED left

(* A restart, or the end of the job's history; restored jobs go on.        *)
Forget ==
  \E j \in Jobs :
    /\ server[j].known
    /\ Spend("forgets")
    /\ server' = [server EXCEPT ![j].known = FALSE]
    /\ UNCHANGED <<store, conn, track, http>>
Restore ==
  \E j \in Jobs :
    /\ server[j].state \notin {"unborn", "none"} /\ ~server[j].known
    /\ server' = [server EXCEPT ![j].known = TRUE]
    /\ UNCHANGED <<store, conn, track, http, left>>

ServeSubmit ==
  \E r \in http :
    /\ r.kind = "submit" /\ r.phase = "sent"
    /\ server' = [server EXCEPT ![r.job].state = "queued", ![r.job].known = TRUE]
    /\ http' = (http \ {r}) \union {[r EXCEPT !.phase = "served"]}
    /\ UNCHANGED <<store, conn, track, left>>

ServeRead ==
  \E r \in http :
    /\ r.kind \in {"reconcile", "page"} /\ r.phase = "sent"
    /\ http' = (http \ {r}) \union
         {[r EXCEPT !.phase = "served",
                    !.body = IF r.kind = "page" THEN Page(r.job, r.arg.after)
                             ELSE Record(r.job)]}
    /\ UNCHANGED <<store, conn, track, server, left>>

(* An exchange fails before or after the server has seen it.               *)
ExchangeFails ==
  \E r \in http :
    /\ r.phase \in {"sent", "served"}
    /\ Spend("errors")
    /\ http' = (http \ {r}) \union {[r EXCEPT !.phase = "failed", !.body = <<>>]}
    /\ UNCHANGED <<store, conn, track, server>>

StreamDrops ==
  /\ conn.up
  /\ Spend("drops")
  /\ conn' = [conn EXCEPT !.up = FALSE, !.wire = <<>>]
  /\ UNCHANGED <<store, track, http, server>>

-----------------------------------------------------------------------------
Init ==
  /\ store = EmptyStore
  /\ conn = [up |-> TRUE, wire |-> <<>>, terminal |-> {}, seen |-> {}, passes |-> {}, holes |-> {},
             cursor |-> [j \in Jobs |-> 0]]
  /\ track = [gen |-> 0, ran |-> 0, busy |-> FALSE, todo |-> <<>>, covered |-> {}]
  /\ http = {}
  /\ \E sc \in Scenarios :
       /\ left = sc.limit
       /\ server = [j \in Jobs |->
            [state |-> IF j \notin sc.jobs THEN "none" ELSE IF j \in Own THEN "unborn" ELSE "queued",
             known |-> j \in sc.jobs \ Own,
             talks |-> j \in sc.talk, journal |-> j \in sc.journal,
             node |-> "none", seq |-> 0, logs |-> {}, shed |-> {}]]

ClientStep == \/ Deliver \/ Reconnected \/ SubmitAnswered \/ ReconcileAnswered
              \/ SightAnswered \/ PageAnswered \/ HydrateAnswered
UserStep == Submit \/ OpenView \/ CloseView \/ RestoreResult
RunStep == \/ RunStarts \/ NodeStarts \/ NodeFinishes \/ NodeRunsAgain
           \/ Logs \/ LogIsShed \/ Previews
           \/ RunSucceeds \/ RunFails \/ RunIsCancelled
ServerStep == RunStep \/ Forget \/ Restore \/ ServeSubmit \/ ServeRead
FaultStep == ExchangeFails \/ StreamDrops

Next == ClientStep \/ UserStep \/ ServerStep \/ FaultStep
Spec == Init /\ [][Next]_vars

-----------------------------------------------------------------------------
Ended == {"completed", "failed", "cancelled"}
Shown == [completed |-> "completed", failed |-> "error", cancelled |-> "interrupted"]

(***************************************************************************)
(* What ended runs may hold is bounded, by whatever way they came in.      *)
(* Past the cap only protected entries remain: open, provisionally lost or *)
(* pinned ones (execution-store.ts:187-195).  The frames of ended and      *)
(* unconfirmed runs fit the budget, or all but the newest of these runs    *)
(* hold none (execution-store.ts:198-206).                                 *)
(***************************************************************************)
StoreIsBounded ==
  /\ Cardinality(Known(store)) > EntryCap => Evictable(store) = {}
  /\ \/ Cardinality(Frames(store, Budgeted(store))) <= PreviewBudget
     \/ Cardinality(Budgeted(store)) = 1

(***************************************************************************)
(* However live records, replays and backfills mix, the buffer holds the   *)
(* newest records that reached the entry, in order, each once, and no      *)
(* record is counted as dropped twice (execution-store.ts:656-668).        *)
(***************************************************************************)
LogsAreTheNewest ==
  \A j \in Known(store) :
    LET e == store.map[j]
    IN  /\ \A a, b \in DOMAIN e.logs : a < b => e.logs[a] < e.logs[b]
        /\ \A n \in e.heard \ ToSet(e.logs) :
             Len(e.logs) = LogCap /\ \A i \in DOMAIN e.logs : n < e.logs[i]
        /\ e.dropped + Len(e.logs) <= Cardinality(e.heard)

(***************************************************************************)
(* What is shown as final is what happened to the run: a verdict of loss   *)
(* is never final, and no straggler turns an end into another.             *)
(***************************************************************************)
VerdictsAreTrue ==
  \A j \in Known(store) : IsAuthoritativeTerminal(store, j) =>
    server[j].state \in Ended /\ store.map[j].status = Shown[server[j].state]

(***************************************************************************)
(* Once all is quiet after a gap, a run that was open at the start of the  *)
(* last pass and whose record the pass could read is shown with the end    *)
(* and the node state it has at the server, whatever overtook what.  One   *)
(* state may be late: a rerun, whose frame fell in the gap or which a      *)
(* record older than it overtook, is shown as done until the next live     *)
(* event of the node, for a record's "running" does not replace an end     *)
(* and its end replaces "running" (execution-store.ts:276-287).  An entry  *)
(* that was evicted and came back is promised nothing.                     *)
(***************************************************************************)
Quiet == conn.up /\ conn.wire = <<>> /\ http = {} /\ ~track.busy
QuietMeansShown ==
  Quiet => \A j \in (track.covered \intersect Known(store)) \ store.gone :
    server[j].known =>
      /\ server[j].state \in Ended => store.map[j].status = Shown[server[j].state]
      /\ \/ store.map[j].node = server[j].node
         \/ store.map[j].node = "done" /\ server[j].node = "running"

(***************************************************************************)
(* A run is only given up for lost on an answer to a question of the       *)
(* newest reconnect (reconcile-track.ts:4-9).                              *)
(***************************************************************************)
LossIsCurrent ==
  [][\A j \in store'.lost \ store.lost :
       \E r \in http \ http' : r.kind = "reconcile" /\ r.job = j /\ r.arg = track.gen]_vars

(***************************************************************************)
(* However passes and reconnects overlap, the newest reconnect has been    *)
(* answered, or a pass is under way and waits for exactly one exchange.    *)
(***************************************************************************)
NoPassIsStuck ==
  /\ Cardinality({r \in http : r.kind = "reconcile"}) = (IF track.busy THEN 1 ELSE 0)
  /\ ~track.busy => IsCurrent(Client)

(***************************************************************************)
(* Log records missed in a gap are replayed from the run journal           *)
(* (dinkster-reconcile.ts:98-100), if there is one and its pages are not   *)
(* too many.  It is not so for a run whose last backfill was under way     *)
(* when a gap ended, for the pass after that gap joins the backfill, which *)
(* may have read its last page before; nor if that backfill broke off.     *)
(* Records that the live socket shed come with the next backfill           *)
(* (execution-store.ts:652-655, contract.ts:260-262), so the only ones     *)
(* missing were shed after what the last backfill read.                    *)
(***************************************************************************)
LogsAreComplete ==
  Quiet => \A j \in (track.covered \intersect Known(store)) \ (store.gone \union conn.holes) :
    server[j].journal /\ server[j].seq <= PageLimit * MaxPages =>
      server[j].logs \subseteq
        store.map[j].heard \union {n \in server[j].shed : n > conn.cursor[j]}
=============================================================================
