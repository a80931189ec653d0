--------------------------- MODULE ExecutionStore ---------------------------
(***************************************************************************)
(* client/src/execution-store.ts for one connection: what a client knows   *)
(* of executions, as operators on a store value.                           *)
(*                                                                         *)
(*   map          execution -> entry, in Map order in "order"              *)
(*   lost         executions whose end is only the verdict of a reconcile  *)
(*   pins         retain() counts                                          *)
(*   evicted      tombstones of entries that were evicted, oldest first    *)
(*   unconfirmed  entries that only chatter vouches for                    *)
(*   gone         ghost: what was evicted so far                           *)
(*                                                                         *)
(* An execution has one node with one preview stream.  Of its artifacts    *)
(* only whether they arrived matters; outputs, regions, activities and     *)
(* diagnostics decide nothing and are left out.                            *)
(***************************************************************************)
EXTENDS Integers, Sequences, FiniteSets, SequencesExt, FiniteSetsExt

CONSTANTS
  Jobs,           \* executions, named by their job
  EntryCap,       \* EXECUTION_ENTRY_CAP
  LogCap,         \* EXECUTION_LOG_CAP
  PreviewBudget   \* TERMINAL_PREVIEW_BYTE_BUDGET, a frame being one byte

ASSUME StoreAssumption == /\ EntryCap \in Nat \ {0}
                          /\ LogCap \in Nat \ {0}
                          /\ PreviewBudget \in Nat

Terminal == {"completed", "error", "interrupted"}
NodeEnds == {"done", "error"}
Still == -1                 \* a preview frame without a place in a ring
NoTime == 0

(* An entry, as ensure() and register() make it.                           *)
NewEntry(now) ==
  [status |-> "queued", node |-> "none", still |-> FALSE, ring |-> {},
   logs |-> <<>>, dropped |-> 0, heard |-> {}, hydrated |-> FALSE,
   lostNote |-> FALSE, queuedAt |-> now, endedAt |-> NoTime]

EmptyStore ==
  [map |-> <<>>, order |-> <<>>, lost |-> {}, pins |-> [j \in Jobs |-> 0],
   evicted |-> <<>>, unconfirmed |-> {}, gone |-> {}]

(* The elements of a sequence that are in S, in their order.               *)
Among(s, S) ==
  LET run[i \in 0..Len(s)] ==
        IF i = 0 THEN <<>>
        ELSE IF s[i] \in S THEN Append(run[i - 1], s[i]) ELSE run[i - 1]
  IN  run[Len(s)]

Known(st) == DOMAIN st.map
Position(st, j) == CHOOSE i \in DOMAIN st.order : st.order[i] = j

Put(st, j, entry) ==
  [st EXCEPT !.map = [x \in Known(st) \union {j} |-> IF x = j THEN entry ELSE @[x]],
             !.order = IF j \in Known(st) THEN @ ELSE Append(@, j)]

IsAuthoritativeTerminal(st, j) == st.map[j].status \in Terminal /\ j \notin st.lost

-----------------------------------------------------------------------------
(* The preview budget.                                                     *)

(* The retained still is the frame last put in the ring, counted once.     *)
Images(entry) == IF entry.ring # {} THEN entry.ring
                 ELSE IF entry.still THEN {Still} ELSE {}
Frames(st, S) == UNION {{j} \X Images(st.map[j]) : j \in S}

HasPreviews(entry) == entry.still \/ entry.ring # {}
Budgeted(st) ==
  {j \in Known(st) : /\ st.map[j].status \in Terminal \/ j \in st.unconfirmed
                     /\ HasPreviews(st.map[j])}

Age(entry) == IF entry.endedAt # NoTime THEN entry.endedAt ELSE entry.queuedAt

Newer(st, a, b) ==
  \/ Age(st.map[a]) > Age(st.map[b])
  \/ Age(st.map[a]) = Age(st.map[b]) /\ Position(st, a) < Position(st, b)

(* Frames are counted from the newest entry on.  The newest keeps its own, *)
(* another one only if with those of all newer ones they fit.              *)
DownTo(st, j) == {k \in Budgeted(st) : k = j \/ Newer(st, k, j)}
Stripped(st) ==
  {j \in Budgeted(st) : /\ DownTo(st, j) # {j}
                        /\ Cardinality(Frames(st, DownTo(st, j))) > PreviewBudget}
EnforcePreviewBudget(st) ==
  [st EXCEPT !.map = [j \in DOMAIN @ |->
     IF j \in Stripped(st) THEN [@[j] EXCEPT !.still = FALSE, !.ring = {}] ELSE @[j]]]

-----------------------------------------------------------------------------
(* The entry cap.                                                          *)

Evictable(st) == {j \in Known(st) : /\ IsAuthoritativeTerminal(st, j) \/ j \in st.unconfirmed
                                    /\ st.pins[j] = 0}

Older(st, a, b) ==
  \/ st.map[a].queuedAt < st.map[b].queuedAt
  \/ st.map[a].queuedAt = st.map[b].queuedAt /\ Position(st, a) < Position(st, b)

(* tombstone(): first in, first out, twice as many as there are entries.   *)
Tombstone(evicted, j) ==
  LET all == IF j \in ToSet(evicted) THEN evicted ELSE Append(evicted, j)
  IN  IF Len(all) <= EntryCap * 2 THEN all ELSE Tail(all)

Oldest(st) ==
  CHOOSE j \in Evictable(st) : \A k \in Evictable(st) : k = j \/ Older(st, j, k)

Evict(st, j) ==
  [st EXCEPT !.map = [x \in Known(st) \ {j} |-> @[x]],
             !.order = Among(@, Known(st) \ {j}),
             !.unconfirmed = @ \ {j},
             !.lost = @ \ {j},
             !.gone = @ \union {j},
             !.evicted = Tombstone(@, j)]

(* The oldest go, one by one, until the rest fits or cannot go.            *)
EvictExecutionEntries(st) ==
  LET excess == Cardinality(Known(st)) - EntryCap
      run[i \in 0..excess] ==
        IF i = 0 THEN st
        ELSE IF Evictable(run[i - 1]) = {} THEN run[i - 1]
        ELSE Evict(run[i - 1], Oldest(run[i - 1]))
  IN  IF excess <= 0 THEN st ELSE run[excess]

(* An entry gets its verdict: rings go, and both bounds are enforced.      *)
End(st, j, status, now) ==
  LET e == st.map[j]
      ended == [Put(st, j, [e EXCEPT !.status = status, !.endedAt = now, !.ring = {},
                                     !.lostNote = IF j \in st.lost THEN FALSE ELSE @])
                EXCEPT !.lost = @ \ {j}]
  IN  IF IsAuthoritativeTerminal(st, j) THEN st
      ELSE EvictExecutionEntries(EnforcePreviewBudget(ended))

-----------------------------------------------------------------------------
(* What a normalized event does to the entry it names.                     *)

(* Live news disproves a verdict of loss.                                  *)
Running(st, j, entry) ==
  IF j \in st.lost
  THEN [Put(st, j, [entry EXCEPT !.status = "running", !.endedAt = NoTime, !.lostNote = FALSE])
        EXCEPT !.lost = @ \ {j}]
  ELSE Put(st, j, entry)

ApplyStarted(st, j) ==
  IF IsAuthoritativeTerminal(st, j) THEN st
  ELSE Running(st, j, [st.map[j] EXCEPT !.status = "running"])

(* Mutant: a record overwrites what live events said.                      *)
MergeSnapshotNode_Overwrites(live, snapshot) == snapshot

MergeSnapshotNode(live, snapshot) ==
  IF live = "none" \/ (live \notin NodeEnds /\ snapshot \in NodeEnds) THEN snapshot ELSE live

Lifted(status) == IF status = "queued" THEN "running" ELSE status

ApplyNodeStates(st, j, node, snapshot) ==
  Running(st, j, [st.map[j] EXCEPT
    !.node = IF snapshot THEN MergeSnapshotNode(@, node) ELSE node,
    !.status = Lifted(@)])

(* Mutant: only the end of a run enforces the budget.                      *)
ApplyPreview_NoBudget(st, j, slot) ==
  LET e == st.map[j]
  IN  Put(st, j, [e EXCEPT !.still = TRUE,
                           !.ring = IF slot # Still /\ e.status \notin Terminal
                                    THEN @ \union {slot} ELSE {}])

(* A frame with a place in the ring also becomes the retained still; one   *)
(* without, or one after the verdict, does not build a ring.               *)
ApplyPreview(st, j, slot) ==
  LET e == st.map[j]
      ended == e.status \in Terminal
      next == [e EXCEPT !.still = TRUE,
                        !.ring = IF slot # Still /\ ~ended THEN @ \union {slot} ELSE {}]
  IN  IF ended \/ j \in st.unconfirmed
      THEN EnforcePreviewBudget(Put(st, j, next))
      ELSE Put(st, j, next)

(* logInsertionIndex(): how many records go before this one.               *)
InsertionIndex(logs, seq) ==
  CHOOSE k \in 0..Len(logs) : \A i \in DOMAIN logs : logs[i] < seq <=> i <= k

(* The record goes to its place, and the oldest beyond the cap go.         *)
Inserted(e, seq) ==
  LET logs == InsertAt(e.logs, InsertionIndex(e.logs, seq) + 1, seq)
      over == IF Len(logs) > LogCap THEN Len(logs) - LogCap ELSE 0
  IN  [e EXCEPT !.logs = SubSeq(logs, over + 1, Len(logs)), !.dropped = @ + over]

(* Mutant: a record older than the full buffer is counted again.           *)
ApplyLog_CountsTwice(st, j, seq) ==
  LET told == [st.map[j] EXCEPT !.heard = @ \union {seq}]
  IN  Put(st, j, IF seq \in ToSet(told.logs) THEN told ELSE Inserted(told, seq))

(* Logs are ordered by seq and kept once; what was dropped stays dropped.  *)
ApplyLog(st, j, seq) ==
  LET told == [st.map[j] EXCEPT !.heard = @ \union {seq}]
  IN  Put(st, j, IF \/ seq \in ToSet(told.logs)
                    \/ InsertionIndex(told.logs, seq) = 0 /\ Len(told.logs) >= LogCap
                 THEN told ELSE Inserted(told, seq))

ApplyToState(st, ev, now) ==
  CASE ev.kind = "started" -> ApplyStarted(st, ev.job)
    [] ev.kind = "nodeStates" -> ApplyNodeStates(st, ev.job, ev.node, ev.snapshot)
    [] ev.kind = "preview" -> ApplyPreview(st, ev.job, ev.slot)
    [] ev.kind = "log" -> ApplyLog(st, ev.job, ev.seq)
    [] ev.kind = "completed" -> End(st, ev.job, "completed", now)
    [] ev.kind = "interrupted" -> End(st, ev.job, "interrupted", now)
    [] ev.kind = "error" ->
         IF IsAuthoritativeTerminal(st, ev.job) THEN st
         ELSE End(Put(st, ev.job, [st.map[ev.job] EXCEPT !.node = "error"]), ev.job, "error", now)

(***************************************************************************)
(* apply(): a start clears the tombstone and vouches for the entry; other  *)
(* news of an evicted execution is discarded, of an unknown one is         *)
(* admitted without confirmation.  Eviction runs after the event.          *)
(***************************************************************************)
Apply(st, ev, now) ==
  LET j == ev.job
      new == j \notin Known(st)
      vouched == IF ev.kind = "started"
                 THEN [st EXCEPT !.evicted = Among(@, Jobs \ {j}),
                                 !.unconfirmed = @ \ {j}]
                 ELSE IF new THEN [st EXCEPT !.unconfirmed = @ \union {j}]
                 ELSE st
  IN  IF ~new THEN ApplyToState(vouched, ev, now)
      ELSE IF ev.kind # "started" /\ j \in ToSet(st.evicted) THEN st
      ELSE EvictExecutionEntries(ApplyToState(Put(vouched, j, NewEntry(now)), ev, now))

-----------------------------------------------------------------------------
(* The other operations.                                                   *)

Register(st, j, now) ==
  LET fresh == [st EXCEPT !.evicted = Among(@, Jobs \ {j}),
                          !.unconfirmed = @ \ {j}]
  IN  IF j \in Known(st) THEN fresh
      ELSE EvictExecutionEntries(Put([fresh EXCEPT !.lost = @ \ {j}], j, NewEntry(now)))

RestoreCompleted(st, j, node, then) ==
  LET fresh == [st EXCEPT !.evicted = Among(@, Jobs \ {j}),
                          !.unconfirmed = @ \ {j}, !.lost = @ \ {j}]
      entry == [NewEntry(then) EXCEPT !.status = "completed", !.node = node,
                                      !.hydrated = TRUE, !.endedAt = then]
  IN  IF j \in Known(st) THEN st ELSE EvictExecutionEntries(Put(fresh, j, entry))

HydrateArtifacts(st, j) ==
  IF j \in Known(st) THEN Put(st, j, [st.map[j] EXCEPT !.hydrated = TRUE]) ELSE st

(* Mutant: a loss is an end like any other.                                *)
MarkLost_Final(st, j, now) ==
  IF j \notin Known(st) \/ st.map[j].status \in Terminal THEN st
  ELSE EnforcePreviewBudget(
         Put(st, j, [st.map[j] EXCEPT !.status = "interrupted", !.endedAt = now, !.ring = {}]))

MarkLost(st, j, now) ==
  IF j \notin Known(st) \/ st.map[j].status \in Terminal THEN st
  ELSE EnforcePreviewBudget(
         [Put(st, j, [st.map[j] EXCEPT !.status = "interrupted", !.endedAt = now,
                                       !.ring = {}, !.lostNote = TRUE])
          EXCEPT !.lost = @ \union {j}])

Retain(st, j) == [st EXCEPT !.pins[j] = @ + 1]

Release(st, j) ==
  IF st.pins[j] = 0 THEN st
  ELSE IF st.pins[j] > 1 THEN [st EXCEPT !.pins[j] = @ - 1]
  ELSE EvictExecutionEntries([st EXCEPT !.pins[j] = 0])
=============================================================================
