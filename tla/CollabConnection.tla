-------------------------- MODULE CollabConnection --------------------------
(***************************************************************************)
(* CollabHttpConnection (packages/client/src/collab-connection.ts): the    *)
(* transport of one collaboration session.  It joins HTTP requests and an  *)
(* event socket, stands still while the user's session is away, ends for   *)
(* good when authorization is refused, and finds out whether a socket that *)
(* stays down means a restarting server or a deleted session.              *)
(*                                                                         *)
(* The socket is ReconnectingSocket as a careful owner sees it (connect()  *)
(* only while disconnected), for an agent: every opening first buys a      *)
(* ticket over HTTP.  c is the connection's fields, and a method is an     *)
(* operator on c.  Presence frames and outcomes that only the caller sees  *)
(* are left out.                                                           *)
(***************************************************************************)
EXTENDS Integers, Sequences, FiniteSets, SequencesExt

CONSTANTS
  Cap,           \* PRE_SUBSCRIBE_BUFFER_CAP
  Calls,         \* bound: API calls, each made once
  MaxFrames,     \* bound: frames the server sends
  MaxErrors,     \* bound: failed exchanges and lost sockets
  MaxAbsences,   \* bound: times the user's session goes away
  CanRevoke,     \* may the authorization be revoked
  CanDelete,     \* may the session be deleted
  CanClose       \* may the owner close the connection

ASSUME ConnectionAssumption ==
  /\ {Cap, MaxFrames, MaxErrors, MaxAbsences} \subseteq Nat /\ Cap > 0
  /\ IsFiniteSet(Calls)
  /\ {CanRevoke, CanDelete, CanClose} \subseteq BOOLEAN

VARIABLES
  c,        \* the CollabHttpConnection
  calls,    \* where each API call stands
  server,   \* what the server thinks of the user and the session
  used      \* how much of each fault budget is spent

vars == <<c, calls, server, used>>

None == 0

Barred(d) == d.closed \/ d.denied \/ d.suspended # None

-----------------------------------------------------------------------------
(***************************************************************************)
(* Events to the subscriber.  queue holds what came before it subscribed   *)
(* and, while that is being drained, what comes meanwhile.  An event is    *)
(* its kind and its number n in order of arrival.  baseline and seen are   *)
(* history: the descriptor of the present stream; the last event           *)
(* delivered, and whether all came in order.                               *)
(***************************************************************************)
StopWait(d) == [d EXCEPT !.timer = None, !.suspended = None]

SocketOff(d) == [d EXCEPT !.sock = "off", !.status = "disconnected", !.sending = FALSE]

CancelProbe(d) == IF d.probe = "pause" THEN [d EXCEPT !.probe = "idle"] ELSE d

CloseOn(d) ==
  IF d.closed THEN d
  ELSE [StopWait(SocketOff(CancelProbe(d))) EXCEPT
          !.closed = TRUE, !.queue = <<>>, !.phase = "closed"]

(* A session closes its connection when it is told that it is gone.        *)
Deliver(d, event) ==
  LET told == [d EXCEPT !.seen.last = event.n,
                        !.seen.inOrder = @ /\ event.n > d.seen.last]
  IN  IF event.kind = "session-closed" THEN CloseOn(told) ELSE told

(* Over the cap the oldest operation goes, and only failing one the oldest *)
(* event.                                                                  *)
Evict(q) ==
  LET ops == {i \in DOMAIN q : q[i].kind = "op"}
  IN  IF Len(q) <= Cap THEN q
      ELSE IF ops = {} THEN Tail(q)
      ELSE RemoveAt(q, CHOOSE i \in ops : \A j \in ops : i <= j)

(* Mutant: an event that comes during the drain overtakes what is queued.  *)
Emit_Overtakes(d, kind) ==
  LET event == [kind |-> kind, n |-> d.arrived + 1]
      counted == [d EXCEPT !.arrived = @ + 1]
  IN  CASE d.phase \in {"draining", "subscribed"} -> Deliver(counted, event)
        [] d.phase = "unheard" ->
             IF kind = "disconnected" THEN counted
             ELSE [counted EXCEPT !.queue = Evict(Append(@, event))]
        [] d.phase = "closed" -> counted

Emit(d, kind) ==
  LET event == [kind |-> kind, n |-> d.arrived + 1]
      counted == [d EXCEPT !.arrived = @ + 1]
  IN  CASE d.phase = "draining" -> [counted EXCEPT !.queue = Append(@, event)]
        [] d.phase = "subscribed" -> Deliver(counted, event)
        [] d.phase = "unheard" ->
             IF kind = "disconnected" THEN counted
             ELSE [counted EXCEPT !.queue = Evict(Append(@, event))]
        [] d.phase = "closed" -> counted

-----------------------------------------------------------------------------
(* The probe of a socket that is down.                                     *)

ProbeLoop(d) ==
  [d EXCEPT !.probe = IF ~Barred(d) /\ d.status # "connected" THEN "fetch" ELSE "idle"]

ProbeWhileDisconnected(d) == IF d.probe # "idle" THEN d ELSE ProbeLoop(d)

(* Mutant: an unreachable server ends the probe.                           *)
Probed_GivesUp(d, gone) ==
  LET over == [d EXCEPT !.probe = "idle"]
  IN  IF d.closed \/ d.denied \/ d.status = "connected" THEN over
      ELSE IF gone THEN Emit(over, "session-closed") ELSE over

(* What the probe does with its answer: a definite 404 is reported.        *)
Probed(d, gone) ==
  LET over == [d EXCEPT !.probe = "idle"]
  IN  IF d.closed \/ d.denied \/ d.status = "connected" THEN over
      ELSE IF gone THEN Emit(over, "session-closed")
      ELSE [d EXCEPT !.probe = "pause"]

-----------------------------------------------------------------------------
(* The socket.                                                             *)

Connect(d) == [d EXCEPT !.sock = "ticket", !.status = "connecting"]

(* The status subscription: an unexpected drop is reported and probed.     *)
OnReconnecting(d) ==
  IF Barred(d) THEN d
  ELSE ProbeWhileDisconnected(
         IF d.sending THEN Emit([d EXCEPT !.sending = FALSE], "disconnected") ELSE d)

(* The socket failed by itself and waits for its next attempt.             *)
Drop(d) ==
  LET down == [d EXCEPT !.sock = "backoff", !.status = "reconnecting"]
  IN  IF d.status = "reconnecting" THEN down ELSE OnReconnecting(down)

-----------------------------------------------------------------------------
(* Suspension and denial.                                                  *)

ScheduleRetry(d) == [d EXCEPT !.timer = d.suspended]

SuspendForUserSession(d) ==
  IF Barred(d) THEN d
  ELSE LET away == CancelProbe(SocketOff([d EXCEPT !.suspended = d.suspensions + 1,
                                                   !.suspensions = @ + 1]))
       IN  Emit(Emit(ScheduleRetry(away), "disconnected"), "denial")

(* Mutant: callers waiting for the user's session are not released.        *)
DenyAuthorization_KeepsWait(d) ==
  IF d.denied THEN d
  ELSE LET off == CancelProbe(SocketOff([d EXCEPT !.denied = TRUE, !.timer = None]))
       IN  IF d.closed THEN off ELSE Emit(off, "denial")

DenyAuthorization(d) ==
  IF d.denied THEN d
  ELSE LET off == CancelProbe(SocketOff(StopWait([d EXCEPT !.denied = TRUE])))
       IN  IF d.closed THEN off ELSE Emit(off, "denial")

Resume(d) == Connect([d EXCEPT !.suspended = None])

-----------------------------------------------------------------------------
(***************************************************************************)
(* The server's answer to a request that is out.  An error is a failed     *)
(* exchange or a 5xx.                                                      *)
(***************************************************************************)
Spend(budget, limit) ==
  /\ used[budget] < limit
  /\ used' = [used EXCEPT ![budget] = @ + 1]

Verdict ==
  IF server.revoked THEN "denied"
  ELSE IF ~server.present THEN "user-session-required"
  ELSE IF server.gone THEN "gone" ELSE "ok"

Answers(a) ==
  \/ a = Verdict /\ UNCHANGED used
  \/ a = "error" /\ Spend("errors", MaxErrors)

AnswerKinds == {"denied", "user-session-required", "gone", "ok", "error"}

(* The drain is one turn: only frames and a close may come in its middle.  *)
Quiet == c.phase # "draining"

-----------------------------------------------------------------------------
(* Turns of the socket.                                                    *)

(* The ticket is no business of the one session: it is sold though gone.   *)
TicketAnswers ==
  /\ Quiet
  /\ c.sock = "ticket"
  /\ \E a \in AnswerKinds :
       /\ Answers(a)
       /\ c' = CASE a = "denied" -> DenyAuthorization(c)
                 [] a = "user-session-required" -> SuspendForUserSession(c)
                 [] a = "error" -> Drop(c)
                 [] a \in {"ok", "gone"} -> [c EXCEPT !.sock = "opening"]
  /\ UNCHANGED <<calls, server>>

SocketOpens ==
  /\ Quiet
  /\ c.sock = "opening"
  /\ Verdict = "ok"
  /\ c' = [c EXCEPT !.sock = "open", !.status = "connected", !.sending = TRUE,
                    !.baseline = None]
  /\ UNCHANGED <<calls, server, used>>

(* The socket fails to open or is lost; a close reason may say why.        *)
SocketCloses ==
  /\ Quiet
  /\ c.sock \in {"opening", "open"}
  /\ IF Verdict = "ok" THEN Spend("errors", MaxErrors) ELSE UNCHANGED used
  /\ c' \in {Drop(c)}
       \cup (IF Verdict = "denied" THEN {DenyAuthorization(c)} ELSE {})
       \cup (IF Verdict = "user-session-required" THEN {SuspendForUserSession(c)} ELSE {})
  /\ UNCHANGED <<calls, server>>

BackoffOver ==
  /\ Quiet
  /\ c.sock = "backoff"
  /\ c' = [c EXCEPT !.sock = "ticket"]
  /\ UNCHANGED <<calls, server, used>>

(* A frame: the descriptor first, then operations; the end is the last.    *)
FrameArrives ==
  /\ c.sock = "open"
  /\ ~server.farewell
  /\ Spend("frames", MaxFrames)
  /\ \E kind \in IF c.baseline = None THEN {"connected"}
                 ELSE {"op"} \cup (IF server.gone THEN {"session-closed"} ELSE {}) :
       /\ c' = Emit([c EXCEPT !.baseline = IF @ = None THEN c.arrived + 1 ELSE @], kind)
       /\ server' = [server EXCEPT !.farewell = kind = "session-closed"]
  /\ UNCHANGED calls

-----------------------------------------------------------------------------
(* Turns of the probe and of the retry.                                    *)

(***************************************************************************)
(* fetchFn repeats a request the user's session was missing for, once the  *)
(* session is back; closed or denied it throws.                            *)
(***************************************************************************)
ProbeAnswers ==
  /\ Quiet
  /\ c.probe = "fetch"
  /\ \E a \in AnswerKinds :
       /\ Answers(a)
       /\ c' = CASE a = "denied" -> [DenyAuthorization(c) EXCEPT !.probe = "idle"]
                 [] a = "user-session-required" ->
                      [SuspendForUserSession(c) EXCEPT !.probe = "wait"]
                 [] a = "gone" -> Probed(c, TRUE)
                 [] a \in {"ok", "error"} -> Probed(c, FALSE)
  /\ UNCHANGED <<calls, server>>

ProbeGoesOn ==
  /\ Quiet
  /\ c.probe = "wait"
  /\ c.suspended = None
  /\ c' = [c EXCEPT !.probe = IF c.closed \/ c.denied THEN "idle" ELSE "fetch"]
  /\ UNCHANGED <<calls, server, used>>

ProbePauseOver ==
  /\ Quiet
  /\ c.probe = "pause"
  /\ c' = ProbeLoop(c)
  /\ UNCHANGED <<calls, server, used>>

RetryTimerFires ==
  /\ Quiet
  /\ c.timer # None
  /\ LET fired == [c EXCEPT !.timer = None]
     IN  c' = IF c.timer = c.suspended /\ ~c.closed /\ ~c.denied
              THEN [fired EXCEPT !.retry = c.suspended] ELSE fired
  /\ UNCHANGED <<calls, server, used>>

(* What a retry's answer does to the suspension it was sent for.           *)
Retried(d, a) ==
  CASE a = "denied" -> DenyAuthorization(d)
    [] a = "gone" -> CloseOn(Emit(d, "session-closed"))
    [] a = "ok" -> Resume(d)
    [] a \in {"error", "user-session-required"} -> ScheduleRetry(d)

(* Mutant: the answer is not asked whether it still matters.               *)
RetryAnswers_NoRecheck ==
  /\ Quiet
  /\ c.retry # None
  /\ \E a \in AnswerKinds :
       /\ Answers(a)
       /\ c' = Retried([c EXCEPT !.retry = None], a)
  /\ UNCHANGED <<calls, server>>

RetryAnswers ==
  /\ Quiet
  /\ c.retry # None
  /\ LET answered == [c EXCEPT !.retry = None]
     IN  \E a \in AnswerKinds :
           /\ Answers(a)
           /\ c' = IF c.closed \/ c.suspended # c.retry THEN answered
                   ELSE Retried(answered, a)
  /\ UNCHANGED <<calls, server>>

-----------------------------------------------------------------------------
(* API calls through fetchFn, and the owner.                               *)

(* The loop head of fetchFn: wait, throw or send.                          *)
Sends(d) ==
  IF d.suspended # None THEN "wait" ELSE IF d.closed \/ d.denied THEN "failed" ELSE "sent"

CallStarts(i) ==
  /\ Quiet
  /\ calls[i] = "new"
  /\ calls' = [calls EXCEPT ![i] = Sends(c)]
  /\ UNCHANGED <<c, server, used>>

CallGoesOn(i) ==
  /\ Quiet
  /\ calls[i] = "wait"
  /\ c.suspended = None
  /\ calls' = [calls EXCEPT ![i] = Sends(c)]
  /\ UNCHANGED <<c, server, used>>

(***************************************************************************)
(* A denial aborts what is out; closing does not.  A refused postOp tells  *)
(* its caller only; any other refused call denies the connection.          *)
(***************************************************************************)
CallAnswers(i) ==
  /\ Quiet
  /\ calls[i] = "sent"
  /\ IF c.denied
     THEN /\ calls' = [calls EXCEPT ![i] = "failed"]
          /\ UNCHANGED <<c, used>>
     ELSE \E a \in AnswerKinds :
            /\ Answers(a)
            /\ c' \in CASE a = "denied" -> {c, DenyAuthorization(c)}
                        [] a = "user-session-required" -> {SuspendForUserSession(c)}
                        [] a \in {"ok", "gone", "error"} -> {c}
            /\ calls' = [calls EXCEPT ![i] =
                 CASE a \in {"denied", "error"} -> "failed"
                   [] a = "user-session-required" -> Sends(c')
                   [] a \in {"ok", "gone"} -> "done"]
  /\ UNCHANGED server

(* onEvent(): the first subscriber drains what came before it.             *)
Subscribe ==
  /\ c.phase = "unheard"
  /\ c' = [c EXCEPT !.phase = "draining"]
  /\ UNCHANGED <<calls, server, used>>

DrainOne ==
  /\ c.phase = "draining"
  /\ c' = IF c.queue = <<>> THEN [c EXCEPT !.phase = "subscribed"]
          ELSE Deliver([c EXCEPT !.queue = Tail(@)], Head(c.queue))
  /\ UNCHANGED <<calls, server, used>>

Close ==
  /\ CanClose
  /\ ~c.closed
  /\ c' = CloseOn(c)
  /\ UNCHANGED <<calls, server, used>>

-----------------------------------------------------------------------------
(* The user, the authority and the session's owner.                        *)

UserLeaves ==
  /\ Quiet
  /\ server.present
  /\ Spend("absences", MaxAbsences)
  /\ server' = [server EXCEPT !.present = FALSE]
  /\ UNCHANGED <<c, calls>>

UserReturns ==
  /\ Quiet
  /\ ~server.present
  /\ server' = [server EXCEPT !.present = TRUE]
  /\ UNCHANGED <<c, calls, used>>

Revoke ==
  /\ Quiet
  /\ CanRevoke
  /\ ~server.revoked
  /\ server' = [server EXCEPT !.revoked = TRUE]
  /\ UNCHANGED <<c, calls, used>>

Delete ==
  /\ Quiet
  /\ CanDelete
  /\ ~server.gone
  /\ server' = [server EXCEPT !.gone = TRUE]
  /\ UNCHANGED <<c, calls, used>>

-----------------------------------------------------------------------------
(* The constructor has connected the socket.                               *)
Init ==
  /\ c = Connect([sock |-> "off", status |-> "disconnected", sending |-> FALSE,
                  baseline |-> None, closed |-> FALSE, denied |-> FALSE,
                  suspended |-> None, suspensions |-> 0, timer |-> None, retry |-> None,
                  probe |-> "idle", phase |-> "unheard", queue |-> <<>>, arrived |-> 0,
                  seen |-> [last |-> 0, inOrder |-> TRUE]])
  /\ calls = [i \in Calls |-> "new"]
  /\ server = [present |-> TRUE, revoked |-> FALSE, gone |-> FALSE,
                farewell |-> FALSE]
  /\ used = [b \in {"frames", "errors", "absences"} |-> 0]

SocketStep == TicketAnswers \/ SocketOpens \/ SocketCloses \/ BackoffOver \/ FrameArrives
ProbeStep == ProbeAnswers \/ ProbeGoesOn \/ ProbePauseOver
RetryStep == RetryTimerFires \/ RetryAnswers
CallStep(i) == CallGoesOn(i) \/ CallAnswers(i)
EnvStep == UserLeaves \/ UserReturns \/ Revoke \/ Delete

Next == \/ SocketStep \/ ProbeStep \/ RetryStep \/ EnvStep
        \/ Subscribe \/ DrainOne \/ Close
        \/ \E i \in Calls : CallStarts(i) \/ CallStep(i)

Spec == Init /\ [][Next]_vars

(***************************************************************************)
(* Timers fire, exchanges end, a socket that is opening opens or fails, a  *)
(* socket of a deleted session is closed, and the user comes back.         *)
(***************************************************************************)
FairSpec ==
  /\ Spec
  /\ WF_vars(TicketAnswers) /\ WF_vars(SocketOpens \/ SocketCloses) /\ WF_vars(BackoffOver)
  /\ WF_vars(ProbeAnswers) /\ WF_vars(ProbeGoesOn) /\ WF_vars(ProbePauseOver)
  /\ WF_vars(RetryTimerFires) /\ WF_vars(RetryAnswers)
  /\ WF_vars(DrainOne) /\ WF_vars(UserReturns)
  /\ \A i \in Calls : WF_vars(CallStep(i))

-----------------------------------------------------------------------------
Events == [kind : {"connected", "op", "session-closed", "denial", "disconnected"}, n : Nat]

(***************************************************************************)
(* Type invariant.                                                         *)
(***************************************************************************)
TypeOK ==
  /\ c \in [sock : {"off", "ticket", "opening", "open", "backoff"},
            status : {"disconnected", "connecting", "connected", "reconnecting"},
            sending : BOOLEAN, baseline : 0..c.arrived, closed : BOOLEAN, denied : BOOLEAN,
            suspended : 0..c.suspensions, suspensions : Nat,
            timer : 0..c.suspensions, retry : 0..c.suspensions,
            probe : {"idle", "fetch", "wait", "pause"},
            phase : {"unheard", "draining", "subscribed", "closed"},
            queue : Seq(Events), arrived : Nat,
            seen : [last : 0..c.arrived, inOrder : BOOLEAN]]
  /\ calls \in [Calls -> {"new", "wait", "sent", "done", "failed"}]
  /\ server \in [present : BOOLEAN, revoked : BOOLEAN, gone : BOOLEAN,
                 farewell : BOOLEAN]

(***************************************************************************)
(* While the connection is closed, denied or suspended its socket is off   *)
(* and nothing is sent on it, whatever late answer comes in.               *)
(***************************************************************************)
TransportIsOff == Barred(c) => c.sock = "off" /\ ~c.sending

(***************************************************************************)
(* The subscriber gets events in the order of their arrival, those from    *)
(* before it subscribed included.                                          *)
(***************************************************************************)
EventsInOrder == c.seen.inOrder

(***************************************************************************)
(* A call that was started ends, through any number of suspensions.        *)
(***************************************************************************)
CallsEnd ==
  \A i \in Calls : calls[i] \in {"wait", "sent"} ~> calls[i] \in {"done", "failed"}

(***************************************************************************)
(* A deleted session is noticed: the connection ends, or the news is in    *)
(* the queue of a subscriber who has yet to come.                          *)
(***************************************************************************)
Noticed ==
  \/ c.closed \/ c.denied
  \/ \E i \in DOMAIN c.queue : c.queue[i].kind = "session-closed"

DeletionIsNoticed == server.gone ~> Noticed
=============================================================================
