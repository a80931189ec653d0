------------------------- MODULE ReconnectingSocket -------------------------
(***************************************************************************)
(* ReconnectingSocket (packages/client/src/reconnecting-socket.ts): one    *)
(* WebSocket that is opened again, with a growing delay, until its owner   *)
(* disconnects it.                                                         *)
(*                                                                         *)
(* The record r holds the object's fields.  Around it are the things its   *)
(* closures are attached to: sockets made by the factory, callbacks handed *)
(* to scheduleFn, promises of resolveUrl.  Each can come back late, after  *)
(* the object has moved on; an action is one such callback or one call of  *)
(* the owner.                                                              *)
(***************************************************************************)
EXTENDS Naturals, Sequences, FiniteSets

CONSTANTS
  BackoffSteps,  \* doublings of 500 ms up to the 8 s cap (4 in the code)
  MaxSockets,    \* bound: sockets the factory makes
  MaxTimers,     \* bound: callbacks handed to scheduleFn
  MaxPromises,   \* bound: promises of resolveUrl
  MaxConnects    \* bound: calls of connect()

ASSUME SocketAssumption ==
  {BackoffSteps, MaxSockets, MaxTimers, MaxPromises, MaxConnects} \subseteq Nat

VARIABLES
  setup,      \* resolves: config.resolveUrl is given;
              \* careful: the owner calls connect() only while disconnected
  r,          \* the ReconnectingSocket
  sockets,    \* the sockets made so far, oldest first
  timers,     \* timers[i] is the generation of the i-th callback, or Done
  promises,   \* promises[i] is the generation of the i-th promise, or Done
  connects    \* calls of connect() so far

vars == <<setup, r, sockets, timers, promises, connects>>

Nothing == 0

(* Generations count from 1; Done marks what has come back.               *)
Done == 0

(***************************************************************************)
(* told is what the socket's events have announced so far; closing says    *)
(* that close() was called on it, detached that disconnect() took its      *)
(* handlers away.                                                          *)
(***************************************************************************)
FreshSocket == [told |-> {}, closing |-> FALSE, detached |-> FALSE]

-----------------------------------------------------------------------------
(* What the methods do to <<r, sockets, timers, promises>>; m is a record  *)
(* of the four.                                                            *)

Now == [r |-> r, sockets |-> sockets, timers |-> timers, promises |-> promises]

Trying(m) == IF m.r.attempts > 0 THEN "reconnecting" ELSE "connecting"

(* Mutant: a second resolution makes a second socket.                      *)
CreateSocket_NoGuard(m) ==
  [m EXCEPT !.sockets = Append(@, FreshSocket),
            !.r.ws = Len(m.sockets) + 1,
            !.r.status = Trying(m)]

CreateSocket(m) ==
  IF m.r.ws # Nothing THEN m
  ELSE [m EXCEPT !.sockets = Append(@, FreshSocket),
                 !.r.ws = Len(m.sockets) + 1,
                 !.r.status = Trying(m)]

OpenSocket(m) ==
  IF m.r.ws # Nothing THEN m
  ELSE IF setup.resolves
  THEN [m EXCEPT !.promises = Append(@, m.r.gen), !.r.status = Trying(m)]
  ELSE CreateSocket(m)

ScheduleReconnect(m) ==
  IF m.r.handle # Nothing THEN m
  ELSE [m EXCEPT !.timers = Append(@, m.r.gen),
                 !.r.handle = Len(m.timers) + 1,
                 !.r.status = "reconnecting",
                 !.r.attempts = IF @ < BackoffSteps THEN @ + 1 ELSE @]

(***************************************************************************)
(* disconnect().  cancelFn is best effort: honoured says whether the       *)
(* callback is really gone or still comes.                                 *)
(***************************************************************************)
DisconnectOn(m, honoured) ==
  [m EXCEPT
     !.timers = IF m.r.handle # Nothing /\ honoured
                THEN [@ EXCEPT ![m.r.handle] = Done] ELSE @,
     !.sockets = IF m.r.ws # Nothing
                 THEN [@ EXCEPT ![m.r.ws].closing = TRUE, ![m.r.ws].detached = TRUE] ELSE @,
     !.r = [ws |-> Nothing, attempts |-> 0, handle |-> Nothing, gen |-> @.gen + 1,
            deliberate |-> TRUE, status |-> "disconnected"]]

Becomes(m) ==
  /\ r' = m.r
  /\ sockets' = m.sockets
  /\ timers' = m.timers
  /\ promises' = m.promises
  /\ UNCHANGED setup

-----------------------------------------------------------------------------
(* The owner's calls.                                                      *)

Connect ==
  /\ connects < MaxConnects
  /\ setup.careful => r.deliberate
  /\ connects' = connects + 1
  /\ Becomes(OpenSocket([Now EXCEPT !.r.deliberate = FALSE]))

Disconnect ==
  /\ ~r.deliberate
  /\ \E honoured \in BOOLEAN : Becomes(DisconnectOn(Now, honoured))
  /\ UNCHANGED connects

(* simulateConnectionLoss(): the socket is closed, its handlers stay.      *)
SimulateConnectionLoss ==
  /\ r.ws # Nothing
  /\ Becomes([Now EXCEPT !.sockets[r.ws].closing = TRUE])
  /\ UNCHANGED connects

-----------------------------------------------------------------------------
(* Sockets.  The events of one come at most once each, in any order and    *)
(* however late.                                                           *)

Tell(i, event) ==
  /\ event \notin sockets[i].told
  /\ UNCHANGED connects

Told(i, event) == [Now EXCEPT !.sockets[i].told = @ \cup {event}]

SocketOpens(i) ==
  /\ Tell(i, "open")
  /\ Becomes(IF sockets[i].detached \/ r.ws # i \/ r.deliberate THEN Told(i, "open")
             ELSE [Told(i, "open") EXCEPT !.r.attempts = 0, !.r.status = "connected"])

(* Mutant: an unexpected close is not followed by another attempt.         *)
SocketCloses_NoRetry(i) ==
  /\ Tell(i, "close")
  /\ Becomes(IF sockets[i].detached \/ r.ws # i THEN Told(i, "close")
             ELSE [Told(i, "close") EXCEPT !.r.ws = Nothing, !.r.status = "reconnecting"])

(***************************************************************************)
(* The transport closes.  config.onClose runs in the middle of the handler *)
(* and may disconnect: a suspended or revoked collaboration connection     *)
(* does.                                                                   *)
(***************************************************************************)
SocketCloses(i) ==
  /\ Tell(i, "close")
  /\ LET freed == [Told(i, "close") EXCEPT !.r.ws = Nothing]
     IN  IF sockets[i].detached \/ r.ws # i THEN Becomes(Told(i, "close"))
         ELSE \/ Becomes(ScheduleReconnect(freed))
              \/ \E honoured \in BOOLEAN : Becomes(DisconnectOn(freed, honoured))

-----------------------------------------------------------------------------
(* Timers and promises.                                                    *)

(* Mutant: a queued callback does not notice that its cycle is over.       *)
TimerFires_NoGuard(i) ==
  /\ timers[i] # Done
  /\ Becomes(OpenSocket([Now EXCEPT !.timers[i] = Done, !.r.handle = Nothing]))
  /\ UNCHANGED connects

TimerFires(i) ==
  /\ timers[i] # Done
  /\ LET fired == [Now EXCEPT !.timers[i] = Done]
     IN  Becomes(IF timers[i] # r.gen \/ r.deliberate THEN fired
                 ELSE OpenSocket([fired EXCEPT !.r.handle = Nothing]))
  /\ UNCHANGED connects

Overtaken(i) == promises[i] # r.gen \/ r.deliberate

Settled(i) == [Now EXCEPT !.promises[i] = Done]

PromiseResolves(i) ==
  /\ promises[i] # Done
  /\ Becomes(IF Overtaken(i) THEN Settled(i) ELSE CreateSocket(Settled(i)))
  /\ UNCHANGED connects

PromiseRejects(i) ==
  /\ promises[i] # Done
  /\ Becomes(IF Overtaken(i) THEN Settled(i) ELSE ScheduleReconnect(Settled(i)))
  /\ UNCHANGED connects

-----------------------------------------------------------------------------
Init ==
  /\ setup \in [resolves : BOOLEAN, careful : BOOLEAN]
  /\ r = [ws |-> Nothing, attempts |-> 0, handle |-> Nothing, gen |-> 1,
          deliberate |-> TRUE, status |-> "disconnected"]
  /\ sockets = <<>>
  /\ timers = <<>>
  /\ promises = <<>>
  /\ connects = 0

(* The bounds: no more sockets, timers and promises than these.            *)
WithinBounds ==
  /\ Len(sockets') <= MaxSockets
  /\ Len(timers') <= MaxTimers
  /\ Len(promises') <= MaxPromises

SocketStep(i) == (SocketOpens(i) \/ SocketCloses(i)) /\ WithinBounds
TimerStep(i) == TimerFires(i) /\ WithinBounds
PromiseStep(i) == (PromiseResolves(i) \/ PromiseRejects(i)) /\ WithinBounds
OwnerStep == (Connect \/ Disconnect \/ SimulateConnectionLoss) /\ WithinBounds

Next ==
  \/ OwnerStep
  \/ \E i \in DOMAIN sockets : SocketStep(i)
  \/ \E i \in DOMAIN timers : TimerStep(i)
  \/ \E i \in DOMAIN promises : PromiseStep(i)

Spec == Init /\ [][Next]_vars

(***************************************************************************)
(* Timers fire, promises settle, and a socket that is being opened opens   *)
(* or fails.  Failures cost a timer each, so the bound on timers is what   *)
(* makes them stop.                                                        *)
(***************************************************************************)
FairSpec ==
  /\ Spec
  /\ \A i \in 1..MaxSockets : WF_vars(i \in DOMAIN sockets /\ SocketStep(i))
  /\ \A i \in 1..MaxTimers : WF_vars(i \in DOMAIN timers /\ TimerStep(i))
  /\ \A i \in 1..MaxPromises : WF_vars(i \in DOMAIN promises /\ PromiseStep(i))

-----------------------------------------------------------------------------
IsOpen(i) == sockets[i].told = {"open"}

Up == r.ws # Nothing /\ IsOpen(r.ws)


(***************************************************************************)
(* Type invariant: the ids the object holds are ids of things made.        *)
(***************************************************************************)
TypeOK ==
  /\ setup \in [resolves : BOOLEAN, careful : BOOLEAN]
  /\ sockets \in Seq([told : SUBSET {"open", "close"}, closing : BOOLEAN,
                      detached : BOOLEAN])
  /\ timers \in Seq(Nat)
  /\ promises \in Seq(Nat)
  /\ connects \in 0..MaxConnects
  /\ r \in [ws : 0..Len(sockets), attempts : 0..BackoffSteps,
            handle : 0..Len(timers), gen : Nat, deliberate : BOOLEAN,
            status : {"disconnected", "connecting", "connected", "reconnecting"}]

(***************************************************************************)
(* FR-8: between disconnect() and the next connect() nothing that was      *)
(* queued before, timer, promise or socket, brings the connection back.    *)
(***************************************************************************)
StaysDisconnected ==
  r.deliberate => r.ws = Nothing /\ r.handle = Nothing /\ r.status = "disconnected"

(***************************************************************************)
(* No socket is left behind: each one but the current one has closed or    *)
(* been told to, whatever order promises and timers came in.               *)
(***************************************************************************)
NoLeakedSocket ==
  \A i \in DOMAIN sockets :
    i # r.ws => sockets[i].closing \/ "close" \in sockets[i].told

(***************************************************************************)
(* The connection implements the abstract transport, its liveness          *)
(* included.                                                               *)
(***************************************************************************)
Abstract == INSTANCE Transport WITH wanted <- ~r.deliberate, up <- Up

ImplementsTransport == Abstract!FairSpec
=============================================================================
