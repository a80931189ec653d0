# Specifications of the dinkster agent host

This directory holds TLA+ specifications of the stateful core of the repository: the
collaborative document session and the transport it runs on, the host that gives an agent a
handle on both, the editor of a workflow document with its command packs, and the way a client
follows its executions. TLC checks them on small instances, TLAPS proves the central results
for every instance.

Paths below are relative to `src/packages/`.

## 1. Inventory

| part | code | state it keeps | operations | talks to |
|---|---|---|---|---|
| Shared document session | `core/src/commands/shared-session.ts` | confirmed document and revision, optimistic document, pending intentions, undo and redo stacks, status, sync target, the pump, sync and publication in progress | dispatch, undo, redo, clearHistory, close, settle; handlers of stream events, HTTP answers and timers | its connection (POST ops, GET ops, GET and PUT snapshot, events), publication policy, listeners |
| Checkpoint publication policy | `core/src/commands/snapshot-publication-policy.ts` | last known checkpoint, last own publication, jitter deadline, single-flight mark, retry barrier | observeConfirmed, observeSnapshot, decide, mark/succeed/conflict/fail | called by the shared session only |
| Document patches and commands | `core/src/commands/patch.ts`, `contract.ts`, `session.ts` | none | apply, invert, encode a patch; run a command | both kinds of sessions |
| Reconnecting socket | `client/src/reconnecting-socket.ts` | socket, reconnect timer, generation, deliberate flag, back-off, status signal | connect, disconnect, callbacks of sockets, timers and URL promises | its owner, a WebSocket |
| Collaboration connection | `client/src/collab-connection.ts` | closed, denied, suspension and its retry, probe, event buffer, subscriber | API calls, onEvent, close; handlers of frames, status, retries and probes | reconnecting socket, HTTP, shared session |
| Agent handle and execution runtime | `agent-host/src/api.ts`, `execution.ts` | join in progress, session, runtime; event buffer with cursors, executions, schemas | connect, events (long poll), submit, compile, close | shared session, native connection |
| Agent CLI and MCP servers | `agent-host/src/main.ts`, `mcp.ts`, `mcp-main.ts`, `catalog.ts` | registry of lazily joined sessions | tools that call the agent handle | agent handle |
| Workflow document | `core/src/format/document.ts`, `invariants.ts`, `ids.ts` | definitions, canvas state, tags, wiring local to occurrences, mode panels; a cursor per definition | checkDocument and the helpers commands share | command packs, store |
| Command packs | `core/src/commands/*-commands.ts` and helpers | none | about ninety commands, pure functions from a document and its parameters to a patch | store, shared session |
| Local document store | `core/src/commands/store.ts`, `session.ts` | document, revision, history, notification queue | dispatch (with the rules as gate), undo, redo, subscribe | command packs |
| Native connection | `client/src/dinkster-connection.ts`, `core/src/events/dinkster.ts` | socket, subscribers, backfills in progress, normalizer | submit, cancel, fetchJob, journal pages, events | reconnecting socket, HTTP |
| Execution store | `client/src/execution-store.ts` | executions, previews, log buffers, pins, tombstones | register, apply, restoreCompleted, markLost, retain, release | native connection |
| Reconciliation | `client/src/reconcile-track.ts`, `dinkster-reconcile.ts` | generation of the pass in progress | a pass after every reconnect | native connection, execution store |
| Compiler, schemas, formats, planners | `core/src/compile/`, `schema/`, `format/`, `lifecycle/`, `replace/` | none | pure functions of a document | sessions, agent |
| Everything else | extensions, events, signals, menus, search, UI, i18n | small registries | | |

`client` and `core` are vendored at pinned revisions (`SOURCE_REVISIONS.md`), and they carry
the logic the agent host exists to drive, so they are in scope as much as `agent-host` is.

How they interact. An agent joins a shared document session over a collaboration
connection, which owns a reconnecting socket. A local command is applied at once to the
optimistic document and queued. The *pump* sends the queue's head, one at a time. Every
accepted operation comes back up to three ways: as the answer to the POST, as a frame of
the event stream, and in a catch-up page. When a revision is missing, the *sync loop*
fetches pages, or, if the server has compacted them away, a checkpoint. Checkpoints are
published by participants, when the policy says so or when the server demands one. What is
submitted runs on a native server, whose frames a normalizer turns into events; the execution
store folds them into entries, and after every reconnect a reconciliation reads again what may
have been missed.

What is hard here, and what each part must guarantee:

* **Shared session.** One JavaScript turn runs from one await to the next, and four
  activities (pump, sync, publication, stream) interleave at turns. The confirmed document
  must be the server's log up to its revision; what the user sees must be that plus the
  queue; a wake-up must never be lost; a request that failed may still be delivered; a
  resync in the middle of a submission must neither apply it twice nor lose it silently;
  nothing may move after close or failure; the whole must converge.
* **Policy.** A due checkpoint needs a timer at every moment; the single flight must be
  given back however the publication ends; publications must be spaced.
* **Reconnecting socket.** Callbacks of timers, promises and sockets of a past cycle must do
  nothing; the present cycle must always have something that carries it on.
* **Collaboration connection.** Suspension, denial, deletion and close overlap with answers
  in flight; each wait needs something that ends it; the buffer must keep the order.
* **Agent runtime.** Cursors must not skip an event, a long poll must wake, joining and
  closing may race, and the document that is compiled is read across awaits.
* **Documents.** A command must take with it everything that hangs on what it removes;
  extraction and localisation must keep every wire; ids must never be given out twice, not
  even through undo and redo.
* **Executions.** Live frames, records, journal pages and verdicts of loss arrive in any
  order; the store must stay bounded, never show a wrong end, and show what happened once all
  is quiet.

The hazards, each at its line, are in `PROJECT.json`.

## 2. Modules

| module | models | composed with |
|---|---|---|
| `Document` | documents as maps from keys to values; patches, inverses, wire form, commands | extended by `SharedSession` |
| `SharedSession` | one `SharedDocumentSession`, the server, peers and network around it | extends `Document` |
| `SnapshotPolicy` | the publication policy inside the part of the session that asks it | |
| `Transport` | abstract: what a connection promises its owner | instantiated by `ReconnectingSocket` |
| `ReconnectingSocket` | `ReconnectingSocket` with explicit sockets, timers and promises | implements `Transport` |
| `CollabConnection` | `CollabHttpConnection` over a careful owner's reconnecting socket | |
| `SettlingSession` | abstract: what a session promises to those who wait for their edits | instantiated by `SharedSession`, which implements it, and by `AgentHost`, which uses it |
| `AgentHost` | joining, settling, compiling and closing a handle | its session is `SettlingSession` |
| `ExecutionEvents` | event buffer, cursors, long polls and replays of the execution runtime | |
| `WorkflowDocument` | the workflow document, the rules of `checkDocument`, the helpers commands share | |
| `WiringCommands` | links, nets, reroutes, value sources, selectors, deletion | extends `WorkflowDocument` |
| `OccurrenceCommands` | the topology in effect inside an occurrence, and the commands that wire one occurrence only | extends `WorkflowDocument` |
| `StructureCommands` | boundary, dynamic families, repeated nodes, mode panels, groups, display of nets | extends `WorkflowDocument` |
| `SubgraphCommands` | import, extraction, localisation and removal of definitions | extends `WiringCommands`, `StructureCommands` |
| `Editor` | the local store: dispatch, history, undo, redo | extends all command modules |
| `ExecutionStore` | the execution store, as operators on a store value | |
| `NativeExecution` | frames, records, journal pages, reconciliation and user around the store | extends `ExecutionStore` |
| `NativeExecutionInvariants` | the inductive invariants of `NativeExecution` | extends it |
| `*Proofs` | the proofs about the module they are named after | extend it |
| `MC*` | values of the constants for TLC | |

### SharedSession

The record `s` is the object: one field per field of the class that a decision depends on.
A private method is an operator from session to session (`Ack`, `Rebase`, `StartSync`, ...),
an action is one JavaScript turn. The loops `pumpLoop` and `syncLoop` have a `pc` that says
at which await they stand, so every interleaving the event loop allows is a behaviour; the
`finally` clauses are turns of their own (`PumpEnd`, `SyncEnd`), because that is where the
lost wake-ups would be.

A document is a map from keys to values, a patch one operation; commands come in the
families that differ in how they may fail or dissolve (`Document`). Failing or dissolving on
a rebase is what makes the queue interesting, and both happen.

The environment is external and is modelled by what the session is written to expect of it:
an append-only log with optimistic concurrency (`ServePost`), idempotent by operation id,
bounded retention (`TailLimit`), checkpoints with conditional PUT, an event stream that
preserves order but drops, requests that fail and yet may be delivered later (`zombies`),
mangled answers, invalid frames, invalid operations inside a page, a stream that opens on the
descriptor of another session, refusals, peers who commit operations and checkpoints,
compaction and deletion. How often each may happen is a scenario, chosen at the start (`left`).

History variables: `docs` (the document after each log entry), `s.fate` (what was reported
of each intention), `s.recs` (undo records). They decide nothing.

### SnapshotPolicy

`p` is the policy object, `s` the fields of the session that take part. Time is a counter;
the session's timer is a due time that may fire at that time or later, as `setTimeout` may.
The jitter is any draw of the window.

### ReconnectingSocket and Transport

`r` is the object; `sockets`, `timers` and `promises` are everything it ever made, each
tagged with the cycle it belongs to where the code captures it. Each may fire at any later
time, or never, and a timer fires even after it was cleared (the timer API is injected, and
its `clear` is optional to honour). `setup` is chosen at the start: whether URLs are resolved
asynchronously, and whether the owner is careful (connects only while disconnected).
`ImplementsTransport` maps `wanted` to `~deliberate` and `up` to "the current socket is
open".

### CollabConnection

`c` is the connection: `sock` stands for its reconnecting socket (whose own module shows
what it may do), `suspended` for the waiter identity of a user-session wait, `timer`/`retry`
for its retry, `probe` for the probe loop, `queue` and `phase` for the pre-subscription
buffer. Each API call is a state machine in `calls`, because a call suspends, waits and is
repeated.

### SettlingSession and AgentHost

`SettlingSession` is a session as somebody sees it who only waits: how many edits are
pending, whether the pump is at work, and the status. `SharedSession` defines its three
variables from its record `s` and implements it (checked by the run `ending`);
`AgentHost` takes its actions as the session's own steps. So what `AgentHost` shows of
`settle()` rests on what the session really does, without its thirty actions.

`AgentHost` is `beginConnect` and the handle it returns. `host.join` says at which await the
join stands; `conn` keeps the three flags of `CollabConnection` that decide whether a
request is answered, refused or held back. Handlers that share code (`CloseConnection`,
`CloseSession`, `FailIfDenied`, `Abandon`) are operators on a record `[status, conn,
runtime]`, applied in the order the code calls them. A call of `settle()` or `compile()` is a
state machine in `calls`; the two nested retry loops are its counters `loops` and `tries`.
Whether the revision a call waits for has been reached is left open (`LiveLook`).

### ExecutionEvents

`rt` holds the closure variables of `createAgentExecutionRuntime` that concern events; an
event is its cursor and its job. One frame or one replayed record yields several events.
A replay may bring a record older than one already replayed, since requests overtake each
other, and is then pushed again, as in the code. `log`, `got` and `lost` are history: all
events ever numbered, the cursors a follower's pages showed, and those it can tell are gone
from `oldestCursor`.

### The editor

A document (`WorkflowDocument`) is a record of the parts the rules and the commands relate:
definitions with their nodes, links, nets, reroutes, value sources, selectors and boundary;
what a canvas remembers; tags of nets; wiring local to an occurrence, addressed by the path of
instance nodes; mode panels bound to groups; and every cursor ids are minted from. `Flaws(d)`
is the set of rules of `checkDocument` that d breaks. Positions, sizes, texts and widget values
are left out, as nothing tells them apart; commands that only change those would be the
identity and are not in the modules.

A command is an operator from a document and parameters to the *set* of documents it may
leave: empty when the code throws or returns an error, `{d}` when there is nothing to do.
`Editor` is the store: `Dispatch` gates what a command proposes by the rules, as `commit` does,
and records both documents; `Replay` puts a recorded document back except for the cursors that
must not rewind (`KeepCursors`, `ViewSkeletons`, `TopologySkeletons`, the three repairs of
`replayHistoryOps`). `Edit` enumerates every command with all parameters the present document
offers. `Spec` starts from any document that is `WellFormed` (every id below the cursor of its
definition, canvas state and panels only of definitions that are there), which is what a session
opens on; the run starts it from five.

`OccurrenceCommands` translates `effective-topology.ts`: `Projected` takes a link or the leg of
a net through boundaries of nested definitions, `Effective` is what is wired inside an
occurrence after suppressions and local links, and the commands plan on it.

### Executions

`ExecutionStore` is a value with one operator per method, in the order the code calls them
(`Apply` = fold an event, enforce the preview budget, evict). `NativeExecution` has one action
per JavaScript turn of the client: a frame delivered, an exchange answered. An exchange is
*sent*, *served* (the server's state is read) and *answered* later, so records overtake frames
and frames overtake records. A reconnect empties the wire and starts a reconciliation, whose
supersession is the record `track`. The server's runs advance by themselves: a node may run
again after its end, a log record may reach only the journal, because the live socket sheds it;
and the server may forget runs and restore them. What the proofs need besides the model is in
`NativeExecutionInvariants`.

## 3. Runs

A bound is a CONSTANT whose name begins with `Max`, declared with a comment, or a count in a
scenario (`Scenarios`; its `Kinds` are explained where they are declared). A run explores every
behaviour of each of its scenarios.

| run | asks | why the bounds suffice |
|---|---|---|
| `replica` | do acknowledgement, stream, catch-up and resync agree; is no wake-up lost, does history follow, is nothing applied twice or lost? | six scenarios. Two local and two foreign edits, an undo or redo and a drop: the least at which own and foreign operations alternate and the queue has a tail to rebase. One edit, two replays, a foreign edit and a clearing: undo and redo over a rebase. Two edits with one failed exchange (doubt), one garbage frame (resync) and a peer's checkpoint: a resync behind or ahead of the replica; and with a foreign edit and garbage and one of the other two. Two edits and a foreign one with a failed exchange and an invalid answer, page or descriptor. All of it at once is out of reach; the theorems hold for any. The tail never fills here; it does in `ending` |
| `ending` | publication under a full tail, and close, deletion or refusal with all of it in flight; does the session converge; is `SettlingSession` implemented? | a tail limit of one makes the second operation demand a checkpoint; one of each fault |
| `policy` | are due checkpoints remembered, spaced and single? | time four covers an age, an interval and a jitter window, one fault of each kind |
| `socket` | does anything leak, return or stall, for every kind of owner; is the transport implemented, liveness included? | two cycles are what stale callbacks need; `MaxSockets >= MaxPromises >= MaxConnects + MaxTimers` so that only the timer bound ends the faults |
| `collab` | is the transport off when it must be, does each wait end, is order kept, is a deletion noticed? | a buffer of two with three frames overflows it |
| `agent` | does a join that races with close, denial, deletion, failures and absences leave anything open; does settled mean acknowledged; does everything end? | two attempts reach both the retry and the last try of each loop; two edits and two lags so that one comes after a settle began |
| `events` | is an event missed, does a poll sleep on news or for ever? | three events overflow a buffer of two, two jobs make the filter matter, two versions of a record let an old one be replayed after the new one |
| `editing` | do two commands in a row, with undo and redo, from five documents, keep the document sound, every wire and every id? | the documents hold every kind of wiring (below); most hazards are one command spoiling what another relies on |
| `execution` | frames, records, pages and verdicts in any order around reconnects, with caps of one or two | twelve scenarios (below), each the least in which one hazard bites |
| `shared_stale_undo`, `history_sound`, `cursors_rewind` | counterexamples to comments of the repository (section 6) | the smallest that show it |

`editing` starts from `Wired` (reroute, net with tags, selector, value source), `Shared` (a
definition used twice, one occurrence with wiring of its own), `Nested` (a definition inside
another, one leg of a boundary link hidden), `Repeated` (a region and a dynamic family) and
`Remembered` (every allocation cursor has moved once). Undo and redo are explored only where
a mode panel was made, which is where ids can be confused; all of them everywhere is out of
reach in the time a run has. `MaxOrdinal` is 17 because no document starts above 14.

`execution` lets a behaviour choose one scenario: which jobs there are, which of them speak,
and how many drops, errors, forgets, restores, reruns, pins, logs, shed logs and previews may
happen. Two jobs with
a drop and an error, or a drop and a restore: loss and its retraction; two foreign jobs with two
preview frames and a drop: budget and ring; three jobs with a pin or a drop: eviction at
a cap of two; one job with two drops and a forget, or with a log, or one drop, an error and a log:
supersession of passes, coalescing of backfills and one that breaks off; one job with two drops
and a rerun, or with a log and a shed one: what a gap or the live socket swallows; one job with
three log records and a drop: a journal of two pages and a buffer of one. Everything at once is
out of reach.

Runs switch deadlock checking off: a session that is closed, or whose users are done, stops.

Fairness. JavaScript runs queued callbacks, timers fire and fetches end, hence weak fairness
of the object's own turns and of the answers to its requests. `SharedSession` also assumes
`StreamOpen` is fair: that is what `Transport` promises and `ReconnectingSocket` implements,
from the fairness of its timers, promises and sockets. Users, peers, failures, close and
deletion are never fair, with one exception: in `CollabConnection` and `AgentHost` the user
is assumed to return, since the code waits for them without limit and by design. `AgentHost`
further assumes that its session makes progress (`SessionWorks`), which is what `Converges`
shows of `SharedSession`; `ExecutionEvents` that a replay is answered or fails and
that the timer of a long poll fires (`PollStep`). No strong fairness is
used anywhere. `NativeExecution` has none: liveness over a million states does not finish in
the time a run has, so `NoPassIsStuck` and `QuietMeansShown` say as invariants what would have
to hold when nothing is left to happen.

## 4. Proofs

Each theorem holds for all values of the constants that meet the module's named assumption;
the assumptions only say that bounds are naturals and sets are sets of what they should be.
Every proof has the shape `Start` (`Init => IInv`), `Steps` (`IInv /\ [Next]_vars => IInv'`,
one lemma per action or handler) and one line of temporal logic.

**`SharedSessionProofs`**, for any set of keys and values:

| theorem | says |
|---|---|
| `Invariance` | `Spec => []IInv` |
| `TypeCorrect` | the type invariant |
| `ConfirmedCorrect` | the confirmed document is the log's document at the confirmed revision |
| `OptimisticCorrect` | the optimistic document is confirmed plus the queue, and each patch fits where it is applied |
| `CheckpointCorrect` | each checkpoint served is a document of the log |
| `TerminalFinal` | what still arrives at a closed or failed session changes none of its documents, revision, status, queue or history records; the user can only take records off the stacks of undo and redo |
| `WakeUpCorrect` | no wake-up is lost: at rest, the session has reached every announced head and owes no resync |
| `Refinement` | each step is a step or a stutter of `SettlingSession` |
| `HistoryCorrect` | history records describe what is queued; nothing dropped can be undone |
| `OnceOnly` | each intention is in the log at most once |
| `NothingLost` | each intention nobody was told about is queued or in the log |

The inductive invariant `IInv`. `ConfirmedIsLogPrefix` is not inductive by itself: a
checkpoint answer in flight could carry any document. So `Grounded` says of every document
the session holds or will adopt (confirmed, an answered snapshot, a publication being sent)
that it is the server's at its revision, and of every revision that the log has it.
`OptimisticIsRebase` is stated with a recursively defined replay, which is awkward for
induction; `Chained` says the same as an existential: there is a chain of documents, one per
queued intention, from confirmed to optimistic. Chains are extended at the end (dispatch),
shortened at the front (acknowledgement) and rebuilt by a rebase; `ChainIsReplay` turns the
chain back into the replay. Each helper operator has a lemma `Good<Helper>` that it preserves
`Good`, and the step lemmas cite them. The rebase and page loops are recursive functions,
and the library's induction theorems take operators as parameters, so the modules that need it
prove induction over sets from the well-ordering of the naturals.

*Waking* (`WakeInv`). Within a turn a session passes through states no run shows, so `Awake` is
an operator on the session value: live means that nothing is left to synchronise, and that the
pump runs or nothing is queued; catching up means that the loop runs. Every handler ends in
`EnsurePump` or in the head of a loop, and its lemma says that this restores `Awake`.
`NoLostWakeUp` also needs `Follows`: what the stream still carries, with what the session has
heard of or already answers for (`Reach`), leads up to the head of the log. The same lemmas
show of every handler the step relation `Settles`, which is `SettlingSession`'s `Next`; that
gives the refinement.

*Books* (`LedgerInv`). `AtMostOnce` fails by induction at once: a delayed request for a reminted
operation could be accepted after the other. Six relations together exclude it. `Minting`: an
opId belongs to one intention for ever. `Heads`: only the head of the queue was ever submitted.
`Unseen`: a queued intention that is committed already was committed above the session's
revision by an attempt it remembers, so the rebase that reaches it recognises it. `Ahead`: a
request on its way was built on a revision before any commit of its intention, so the server
refuses it once one is in. `Kept`: an open intention is queued or in the log. And the history
part: `Queue`, `Stacks` (a record is on one stack, once) and `Recorded` (the last queued
intention tied to a record is what the record describes). The rebase carries a weaker form
(`Due`, `KeptBut`) from one queued intention to the next, in which what is skipped is excused.

For `TerminalIsFrozen` the proof uses that in a terminal state every helper a late answer
reaches either leaves the session alone or only winds a loop down; and that `undo()` and `redo()`,
which the code does not stop, pop a record whose replay is refused, and drop it.

**`ReconnectingSocketProofs`**, for any number of sockets, timers, promises and cycles:
`TypeCorrect`, `DisconnectedStays`, `LeakFree`. Methods work on intermediate values within one
turn, so the invariant `Sound` is an operator on the value `Now`: the object is off while its
owner wants it off, and every socket but the current one is attended to. Each method has a
lemma that it keeps `Sound`; an action is a composition of methods. The lemmas also follow the
two things the abstract `Transport` sees, so that `TransportRefined` shows each action to be a
step or a stutter of it (`Abstract!Spec` is the safety part of `ImplementsTransport`).

**`SnapshotPolicyProofs`**, for any thresholds, intervals, windows and faults: `TypeCorrect`,
`FlightCorrect`, `DueRemembered`, `PublicationsSpaced` (an action property). None is inductive
alone: `CaughtUp` relates the policy's high-water mark to what the session has confirmed, also
when a resync has taken it back, `Flight` the mark of the single flight to the publication, and
`Remembered` the timer to what is due.

**`CollabConnectionProofs`**, for any number of calls, frames and faults and any length of the
buffer: `TypeCorrect`, `TransportCorrect`, `OrderKept`. A late answer of a retry resumes
whatever it still finds suspended, so `TransportIsOff` needs that nothing closed or denied is
suspended (`NoWaitAfterTheEnd`) and that what refers to a suspension refers to one there was
(`Numbered`). Order needs that the buffer is increasing and newer than what was delivered
(`Increasing`), which survives the removal of any element (`Evicting`).

**`AgentHostProofs`**, for any number of calls and any bounds:

| theorem | says |
|---|---|
| `Invariance`, `TypeCorrect` | the inductive invariant and the types; no loop exceeds its attempts |
| `LeakFree` | a join that failed, or was closed at any moment, leaves nothing open |
| `DenialFinal` | no session is open once the authorization is denied |
| `SettleCorrect` | `settle()` succeeds only on a live session with nothing pending |

The two safety properties need each other: `DenialEndsTheSession` is not inductive, because a
denial that reaches a closed connection finds no listener. `NoOpenSessionOnAClosedConnection`
rules out that a session is open then, and it holds because nothing but `close()` shuts the
connection of a join that awaits its snapshot (`Stages`). `SettleCorrect` needs `Attended`: on
a live session somebody is at work on whatever is pending, which `SettlingSession` promises.

**`ExecutionEventsProofs`**, for any buffer limit, any number of jobs and followers:

| theorem | says |
|---|---|
| `Invariance`, `TypeCorrect` | the inductive invariant and the types; the buffer never outgrows its limit |
| `NothingMissed` | a follower is shown every event it asks for, or can tell that it is gone |
| `NoSleepingOnNews` | no poll waits while there is something for it, or on a closed runtime |

The core of the invariant is `TailOf`: the buffer is the tail of all events without a gap, so
what is not in it is older than its oldest entry, and a page says so. Because a replay takes
runtime and calls through intermediate values within one turn, `Sound` and `CallSound` are
operators on values rather than on the variables; `Hearing` shows that n events keep them,
`Returning` and `Looking` that a page does.

**`NativeExecutionProofs`**, for any set of jobs, any bounds and scenarios, and any number of
frames, exchanges and faults:

| theorem | says |
|---|---|
| `Invariance` | `Spec => []IInv` |
| `StoreCorrect` | finished runs stay within the entry cap and the preview budget |
| `LogsCorrect` | the log buffer is the newest of what reached the entry, in order, once |
| `VerdictsCorrect` | what is shown as final is the end the run had |
| `PassesGoOn` | a pass under way waits for one exchange; none is forgotten |
| `QuietCorrect` | once all is quiet after a gap, what the last pass covered is shown as it is, but for a node that runs again and may be shown as done |
| `LogsComplete` | once all is quiet after a gap, the journal of what the last pass covered is in the store, but for records the live socket shed after the last backfill had read it |
| `LossCurrent` | only the newest pass gives a run up (an action property) |

The parts of the invariant are operators on a store, and on the value `Client` that a turn
carries through its parts. `Sound` joins three things no method keeps without the other two:
`Formed` (each entry is in the order, its log buffer is the newest of what it heard), `Fits`
(the budget) and `Truthful` (a final status is a pair in `V`, the set of ends that happened);
`Capped` is broken within a turn and restored by the eviction that ends it. Each operator of
`ExecutionStore` has a lemma that it `Keeps` this and adds nothing to the lost. Eviction is a
recursion over a count, so its lemma is an induction over the naturals:
after n steps either n entries fewer are known or nothing can go. Verdicts need that the wire
and the answered records tell of such ends only (`Messages`, `Exchanges`), which no later step
of the server takes back; a submission still on its way belongs to a job the server has not
(`Submissions`), or a second one could revive it. `Passing` says of a pass that it is busy with
exactly one question, the one for its generation. Each turn of the client is shown to leave the
passes `Aside` or to be `Paced` by one of them.

`QuietCorrect` has an invariant of its own on top, `QInv`, that says where what is missing will
come from. `AllBehind`: the store never is ahead of the server, and shows as final what was delivered as an
end. A node may run again, so states do not simply rise: a state shown is one the node had
(`Below`), and a node frame on the wire has the state that is now, or one with that behind it
(`InOrder`). `CoveredCaught`:
while the newest pass is the one for this connection, a run it has heard of is shown as it is or
the frame that tells is on the wire (`Caught`). `RecordsCaught` says the same of a record the
server has answered and the client has not read, counting what the record tells. A snapshot that says `done` of a node that runs again replaces
`running` until the frame of the rerun is there, hence `Matches` where one would expect equality.
A failed node cannot run again, and a record that tells of the failure helps only while the
connection has not taken the end; `AwaitedShow` says that the failure of a run the pass has yet to
ask for is not lost before. A turn of the
client is `Nearer` if it keeps both for every run; a step of the server is `Telling` if the frames
it sends carry what it changes. When all is quiet there is no wire and no record, so `Caught`
leaves only that the run is shown as it is, or late by the rerun.

`LogsComplete` has a third, `LInv`, about the records of the log. `Sure` says of a run that each
of its records that the live socket did not shed is in the store, on the wire or will be read by a
page that is asked for or answered (`Reaches`); it is claimed while connected, for runs whose last backfill left no `holes`
and whose journal fits the pages a backfill may read. `Heeds` is what backfills rely on: the
store has every record, shed or not, up to the cursor and up to where a page under way starts (`Read`), an
answered page was right when it was read (`Turned`), the n-th page starts no earlier than n - 1
full pages, and a run with a pass under way is `Sure`. `CoveredSure` makes a run `Sure` from the
answer to the reconciliation on. A turn of the client that leaves backfills alone `Retains`
records; every turn `Advances` if it keeps `Heeds` and every run that was `Sure`; a step of the
server `Grows` a run whose new records it puts on the wire, or sheds. So what is missing at the end
was shed, and after the cursor. The property cannot do without
`holes`: a backfill that was under way when a gap ended may have read its last page before.

**`EditorProofs`**, for any ports, families and names, any number of commands and any length of
the history, from every well-formed document:

| theorem | says |
|---|---|
| `HistoryStaysSound` | `Spec => []HistoryInv` |
| `CursorsDoNotRewind` | no cursor goes back while what it belongs to is there, but by undo or redo of an extraction those of families in the definition extracted from (an action property) |
| `BindingsAreNotRetargeted` | no command gives out a group that a panel is still bound to (an action property) |
| `NothingIsLeftDangling` | `Spec /\ NothingDangles => []NothingDangles`: nothing dangles if nothing did when the document was opened |

A command is shown to relate the document to each one it may propose by `Grows`: the result is
well formed, ids and cursors only go up and no bound group appears. Commands are compositions of
helpers, so there are weaker relations for what only takes away (`Trims`), for one definition
(`Edits`, `Keeps`) and for the middle of a command (`Stage`), which compose to `Grows`; every
command of the packs has its lemma, from `LinkConnectGrows` to extraction and localisation.
Undo and redo are no edits: a replay puts back a recorded document, except for the cursors. That
a replay leaves a well-formed document needs `HistoryInv`: the canvas of which the replay keeps
a skeleton may belong to a definition that is not in the document put back. So every record must
be of a step that `Grows`, the records must lead from one to the next (`Leads`), and a
canvas no record below shows must be of a definition all of them have (`RedoSound`). TLC checked
`HistoryInv` first, by simulation, with longer histories than the run has.

`NothingIsLeftDangling` has two halves. What the canvases show: `Grows` also says that if they
showed only what there was, they still do (`StillFollows`), and every command's lemma proves it,
for every helper that takes away also takes off the canvas. A replay puts recorded canvases back,
with the definitions recorded; that what it lets live besides shows nothing is part of `Leads` and
`RedoSound`. The rules: a document is committed only without a flaw, and `Looser` says of one that
it differs in higher cursors and in families that are gone, no more; then it breaks no more rules
(`RulesToo`, rule by rule). What a replay makes of a recorded document (`GraphRestores`) is looser
than it, once the families left without members are set aside on both sides (`RestoredLooser`):
that is the reason why `NothingDangles` speaks of `WithoutEmptied`. `TidyInv` then says of the
document and of both documents of every record that they are `Tidy`. The theorem cannot start
from any well-formed document: the format admits canvas state of what is not there, with a warning.

Only model-checked: `CommandsMindTheRules`, `ExtractionKeepsWires` and `LocalizeKeepsEffect` of
the editor, which are about what the rules, and the wires, are in the result of each command
before it is committed; and all liveness (`Converges`, `CallsEnd`, `DeletionIsNoticed`,
`EverythingEnds`, `PollsEnd`, and the fairness that `ImplementsTransport` states), which the
prover cannot do. TLC checked each inductive invariant on the instance of its run before it
was proved.

## 5. Not modelled

* Shared session: listeners that call back into the session during a rebase; the `onOp`
  feed; the revision number shown outside (confirmed plus queue, which falls when a rebase
  drops an intention); presence; `adoptHistory`; rewriting
  commands on rebase (`transformForRebase`, `prepareForSharedReplay`); invalid checkpoint
  documents; patches of several operations; a PUT that the client gave up on and that arrives
  late; allocation cursors, which a replay of history keeps (`Editor` has them), and with them
  records of nothing but cursors, which undo and redo move between the stacks even after the end.
* `close()` while catching up from an older checkpoint may flush a checkpoint no newer than
  the known one; that publications advance is therefore part of `PublicationsAreSpaced` for
  periodic publications only.
* Reconnecting socket: the number of attempts is abstracted to doublings of the back-off
  up to its cap. Two `connect()` calls in one cycle can show `reconnecting` over an open
  socket; the owners in this repository connect only while disconnected.
* Collaboration connection: presence frames; outcomes only the caller sees.
* Agent handle: presence, proposals, listing and creating sessions. An answer that arrives
  while the user is away is taken when they are back, which makes no difference to a host
  that goes on only then. `Nudge` of the session is left out: it only delays `settle()`.
* Execution runtime: problems as data (that one wakes a poll is modelled); requests that only
  pass through.
* Editor: flattening an instance, app layouts, exposed values and previews, replacement of
  node types, batches, commands that change only values, titles, modes, colours, sizes or
  places; ids that carry an actor suffix; the notification queue; adopting foreign histories;
  families that cross a boundary. Extensions of links, nets and items are absent.
* Executions: `QuietMeansShown` lets a node that runs again be shown as done: a record's
  `running` never replaces an end, so a rerun whose frame fell in a gap is shown by the next live
  event of the node and not before (`client/src/execution-store.ts:285-287`). `LogsAreComplete`
  leaves out records shed after the last backfill had read the journal, and what the next
  backfill would bring. A run that is started again under the same job key is not modelled.
* Execution store: attribution of frames to sinks, progress, regions, activities, outputs and
  diagnostics as data; entries of several nodes; subscriptions.
* Native connection: schemas, assets, queue control, request encoding.
* The compiler, schemas, import of other formats, replacement plans and image documents: pure
  functions over large data whose correctness is a relation between two data formats, not a
  question of order or state. Menus, search, texts and the other user-interface contracts have
  neither concurrency nor failure.

Hazards seen in the code that no property here covers:

* two drivers in effect for one port when an owner's local link meets one a definition gains
  later (`core/src/commands/core-commands.ts:1353`); `project` in
  `core/src/compile/effective-topology.ts:411` recognises a cycle by node ids only; a net name
  is compared untrimmed and stored trimmed (`core-commands.ts:1561`);
* a tap cycle through reroutes or selectors is not seen by `connectError`; an empty local
  topology left by undo still blocks `node.remove`; `freshDefinitionId` gives out the id of a
  deleted definition again; tags of a net that extraction splits stay in the parent; importing a
  definition again by redo restarts its cursors;
* a submission answered after a gap registers a run whose pass is over; provisionally lost runs
  are read again only at a reconnect; an entry evicted after its end and registered again never
  ends; a backfill joined by a second gap, and a page loop that broke off, miss records until the
  next reconnect
  (`client/src/dinkster-connection.ts:2649`);
* `compile()` of the agent settles, fetches the schemas and only then reads the document, so an
  edit dispatched meanwhile is compiled before it is acknowledged (`agent-host/src/execution.ts:145`);
* an intention dropped by a rebase while its submission is in flight may be confirmed all the
  same; a jitter deadline drawn before a drop is used after the reconnect; a stream that opened
  and dropped before the first subscription is announced to the subscriber as open only.

## 6. Findings

* `shared_stale_undo`: the guard that keeps an undo from overwriting someone else's edit runs
  when it is issued; a pending undo rebased over a foreign edit overwrites it, although
  `core/src/commands/shared-session.ts:555` says that it never can.
* `cursors_rewind`: undoing an extraction takes back the cursor of a dynamic family. Extraction
  writes all nodes of the definition with one `set` (`core/src/commands/subgraph-commands.ts:997`);
  the replay keeps the cursors of families only under the path of one node
  (`core/src/commands/store.ts:101-103`) and puts the recorded nodes back as they were. Extract one
  node, materialize a family on another of the same definition, undo twice: that node has no
  cursor left, and the next materialization gives the same ordinal out again, although
  `core/src/commands/store.ts:52` says that cursors are "monotonic FOREVER, including across undo".
  `CursorsNeverRewind`, which is checked and proved, excepts this step and no other: undo or redo
  of a record that writes a definition's nodes in one piece, and in that definition only
  (`WrittenWhole`). Flattening writes them in the same way (`subgraph-commands.ts:2188`).
* `history_sound`: after adding an instance and wiring inside it, two undos leave the cursor of
  the local wiring behind although the instance is gone; `checkDocument` rejects every later
  command. `core/src/commands/store.ts:641` and `core/src/invariants.ts:3` say that a replay
  leaves a document the rules accept.
* The same rule is broken without an occurrence, by a family (`history_sound` with `InsDef` for
  `Ins` in `MCEditor` gives it): wire a member that the node's family has not, since the node has
  no such family; use the member on offer (`dynamic.materialize`), so that the family is there
  with other members; undo. `preserveStateCursors` (`core/src/commands/store.ts:155`) keeps
  `{seq}` of the family, `resolveDynamicAddress` (`core/src/format/document.ts:137`) takes it for
  a family without members, and `checkDocument` reports `doc.dynamic.memberMissing`
  (`core/src/invariants.ts:608`) from then on. `NothingDangles` leaves exactly this aside
  (`WithoutEmptied`), and local wiring, which is the finding above.

## 7. Plan

Done: 1 `Document` and `SharedSession`; 2 its proofs; 3 `ReconnectingSocket` and `Transport`;
4 `SnapshotPolicy` and `CollabConnection`; 5 `ExecutionEvents` and its proofs; 6
`SettlingSession`, `AgentHost` and its proofs; 7 the workflow document, its command packs and
the local store; 8 `ExecutionStore` and `NativeExecution`; 9 the proofs about the transport.

Next, in this order: the compiler, of which `OccurrenceCommands` has the topology already, with
the property that localising an occurrence keeps the compiled program; flattening; the registry
of lazily joined sessions of the MCP server.
