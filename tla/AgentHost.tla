------------------------------ MODULE AgentHost ------------------------------
(***************************************************************************)
(* How the agent host joins a session, settles its edits, compiles what it *)
(* settled, and lets go of everything again (api.ts, execution.ts).        *)
(*                                                                         *)
(* The document session is SettlingSession, which SharedSession            *)
(* implements; the connection is three flags of CollabConnection.  An      *)
(* action is one JavaScript turn: what continues a promise runs in the     *)
(* turn that settles it.  An answer that finds the user away is taken when *)
(* the user is back, because all the host does with it is wait for them.   *)
(***************************************************************************)
EXTENDS Integers, FiniteSets

CONSTANTS
  Calls,        \* calls of settle() and compile() in flight together
  MaxAttempts,  \* the 200 attempts of waitForLive and settleSharedSession
  MaxEdits,     \* bound: commands dispatched
  MaxSyncs,     \* bound: times the session falls behind
  MaxErrors,    \* bound: requests that fail
  MaxAbsences,  \* bound: times the user leaves
  CanEnd        \* whether denial, deletion, failure and close() happen

ASSUME HostAssumption ==
  /\ MaxAttempts \in Nat \ {0}
  /\ {MaxEdits, MaxSyncs, MaxErrors, MaxAbsences} \subseteq Nat
  /\ CanEnd \in BOOLEAN

VARIABLES
  status, pending, pumping,  \* the session, "none" before the join made it
  conn,     \* the connection: closed, denied, suspended (for the user's session)
  host,     \* beginConnect: the join, its attempts, and closed
  runtime,  \* the execution runtime: "none", "open" or "closed"
  calls,    \* calls of the handle
  used      \* how much of each bound is spent

session == <<status, pending, pumping>>
vars == <<session, conn, host, runtime, calls, used>>

Ses == INSTANCE SettlingSession

Open == {"live", "catching-up"}
Ended == {"closed", "error"}

Spend(bound, limit) == used[bound] < limit /\ used' = [used EXCEPT ![bound] = @ + 1]

(***************************************************************************)
(* The parts that several operations share.  A state of them all is a      *)
(* record [status, conn, runtime].                                         *)
(***************************************************************************)
World == [status |-> status, conn |-> conn, runtime |-> runtime]

Becomes(w) == status' = w.status /\ conn' = w.conn /\ runtime' = w.runtime

(* Mutant: closing forgets whoever waits for the user.                     *)
CloseConnection_KeepsWait(w) == [w EXCEPT !.conn = [@ EXCEPT !.closed = TRUE]]

(* CollabHttpConnection.close: whoever waits for the user is released.     *)
CloseConnection(w) == [w EXCEPT !.conn = [@ EXCEPT !.closed = TRUE, !.suspended = FALSE]]

(* SharedDocumentSession.close                                             *)
CloseSession(w) == [CloseConnection(w) EXCEPT !.status = "closed"]

(* throwIfDenied: whoever asks a denied session for anything ends it.      *)
FailIfDenied(w) ==
  IF w.conn.denied /\ w.status \in Open THEN [w EXCEPT !.status = "error"] ELSE w

(* close() of the handle: runtime and session.                             *)
CloseHandle(w) == [CloseSession(w) EXCEPT !.runtime = "closed"]

(* Mutant: only the connection is closed.                                  *)
Abandon_ConnectionOnly(w) == CloseConnection(w)

(* What the join does when it cannot go on (the catch).                    *)
Abandon(w) == IF w.status = "none" THEN CloseConnection(w) ELSE CloseSession(w)

Refuses == conn.closed \/ conn.denied

(* One look of waitForLive, after waitForUserSession: the revision asked   *)
(* for may have been reached or not.                                       *)
LiveLook ==
  IF Refuses \/ status \in Ended THEN {"failed"}
  ELSE IF status = "live" THEN {"reached", "delay"}
  ELSE {"delay"}

LastTry(tries) == tries + 1 = MaxAttempts

(***************************************************************************)
(* The environment.  What the session does by itself is SettlingSession,   *)
(* while its connection serves it; Nudge is left out, since all it does    *)
(* here is make settle() wait longer.                                      *)
(***************************************************************************)
SessionWorks ==
  /\ status # "none"
  /\ \/ ~Refuses /\ ~conn.suspended /\ (Ses!Resolve \/ Ses!CatchUp) /\ UNCHANGED used
     \/ ~Refuses /\ Ses!FallBehind /\ Spend("syncs", MaxSyncs)
     \/ Ses!PumpStops /\ UNCHANGED used
  /\ UNCHANGED <<conn, host, runtime, calls>>

(* The session fails on its own, or is told that it was deleted.           *)
SessionEnds ==
  /\ CanEnd
  /\ status \in Open
  /\ \/ Becomes([World EXCEPT !.status = "error"])
     \/ Becomes(CloseSession(World))
  /\ UNCHANGED <<pending, pumping, host, calls, used>>

UserLeaves ==
  /\ ~Refuses
  /\ ~conn.suspended
  /\ Spend("absences", MaxAbsences)
  /\ conn' = [conn EXCEPT !.suspended = TRUE]
  /\ UNCHANGED <<session, host, runtime, calls>>

UserReturns ==
  /\ conn.suspended
  /\ ~Refuses
  /\ conn' = [conn EXCEPT !.suspended = FALSE]
  /\ UNCHANGED <<session, host, runtime, calls, used>>

(* denyAuthorization, and the listener that beginConnect adds to the       *)
(* connection as soon as it has the session.                               *)
Listening(w) == w.status # "none" /\ ~w.conn.closed

Denied ==
  /\ CanEnd
  /\ ~conn.denied
  /\ LET w == [World EXCEPT !.conn = [@ EXCEPT !.denied = TRUE, !.suspended = FALSE]]
     IN  Becomes(IF Listening(w) THEN FailIfDenied(w) ELSE w)
  /\ UNCHANGED <<pending, pumping, host, calls, used>>

(***************************************************************************)
(* beginConnect.                                                           *)
(***************************************************************************)
JoinFails ==
  /\ Becomes(Abandon(World))
  /\ host' = [host EXCEPT !.join = "failed"]

(* Mutant: a denial from before the session is not looked at.              *)
SnapshotArrives_NoDenialCheck ==
  /\ host.join = "snapshot"
  /\ \E first \in Open :
       LET w == [World EXCEPT !.status = first]
       IN  IF host.closed
           THEN Becomes(CloseSession(w)) /\ host' = [host EXCEPT !.join = "failed"]
           ELSE Becomes(w) /\ host' = [host EXCEPT !.join = "fetch"]
  /\ UNCHANGED <<pending, pumping, calls, used>>

(* The snapshot arrives, although meanwhile close() may have been called   *)
(* or the authorization denied: the constructor makes the session, and     *)
(* events that waited for it may end it or put it behind at once.          *)
SnapshotArrives ==
  /\ host.join = "snapshot"
  /\ \E first \in Open \cup (IF CanEnd /\ ~conn.closed THEN Ended ELSE {}) :
       LET made == [World EXCEPT !.status = first]
           w    == IF first = "closed" THEN CloseConnection(made) ELSE made
       IN  IF w.conn.denied \/ host.closed
           THEN /\ Becomes(CloseSession(w))
                /\ host' = [host EXCEPT !.join = "failed"]
           ELSE /\ Becomes(w)
                /\ host' = [host EXCEPT !.join = "fetch"]
  /\ UNCHANGED <<pending, pumping, calls, used>>

(* The descriptor arrives, or none does because the session was deleted.   *)
DescriptorArrives ==
  /\ host.join = "fetch"
  /\ ~conn.suspended
  /\ \/ ~Refuses /\ host' = [host EXCEPT !.join = "user"] /\ UNCHANGED <<status, conn, runtime>>
     \/ CanEnd /\ JoinFails
  /\ UNCHANGED <<pending, pumping, calls, used>>

RequestFails ==
  /\ host.join \in {"snapshot", "fetch"}
  /\ IF Refuses THEN UNCHANGED used ELSE Spend("errors", MaxErrors)
  /\ JoinFails
  /\ UNCHANGED <<pending, pumping, calls>>

(* waitForLive, and what follows it.                                       *)
JoinLooks ==
  /\ host.join = "user"
  /\ ~conn.suspended
  /\ \E look \in LiveLook :
       \/ look = "delay" /\ host' = [host EXCEPT !.join = "delay"] /\ UNCHANGED <<status, conn, runtime>>
       \/ (look = "failed" \/ host.closed) /\ JoinFails
       \/ look = "reached" /\ ~host.closed
          /\ host' = [host EXCEPT !.join = "done"]
          /\ runtime' = "open"
          /\ UNCHANGED <<status, conn>>
  /\ UNCHANGED <<pending, pumping, calls, used>>

JoinWaited ==
  /\ host.join = "delay"
  /\ IF LastTry(host.tries) THEN JoinFails
     ELSE /\ host' = [host EXCEPT !.join = "user", !.tries = @ + 1]
          /\ UNCHANGED <<status, conn, runtime>>
  /\ UNCHANGED <<pending, pumping, calls, used>>

JoinStep ==
  SnapshotArrives \/ DescriptorArrives \/ RequestFails \/ JoinLooks \/ JoinWaited

(* close() of the pending connection, and of the handle.                   *)
HostClose ==
  /\ CanEnd
  /\ ~host.closed
  /\ host' = [host EXCEPT !.closed = TRUE]
  /\ Becomes(IF host.join = "done" THEN CloseHandle(World) ELSE Abandon(World))
  /\ UNCHANGED <<pending, pumping, calls, used>>

(***************************************************************************)
(* The handle.  A call is a record [kind, pc, tries, loops]: pc is "user"  *)
(* while it waits for the user's session, "pump" in session.settle(),      *)
(* "fetch" for the descriptor, "live-user" and "live-delay" in waitForLive *)
(* and "schemas" while compile() fetches the schemas.                      *)
(***************************************************************************)
Idle == [kind |-> "none", pc |-> "idle", tries |-> 0, loops |-> 0]

TurnsInto(c, call) == calls' = [calls EXCEPT ![c] = call]

Goes(c, pc) == TurnsInto(c, [calls[c] EXCEPT !.pc = pc])

Dispatch ==
  /\ host.join = "done"
  /\ Spend("edits", MaxEdits)
  /\ Ses!Issue
  /\ UNCHANGED <<conn, host, runtime, calls>>

CallStarts(c) ==
  /\ host.join = "done"
  /\ calls[c].pc = "idle"
  /\ \E kind \in {"settle", "compile"} :
       TurnsInto(c, [Idle EXCEPT !.kind = kind, !.pc = "user"])
  /\ UNCHANGED <<session, conn, host, runtime, used>>

UserIsThere(c) ==
  /\ calls[c].pc = "user"
  /\ ~conn.suspended
  /\ IF Refuses THEN Goes(c, "failed") ELSE Goes(c, "pump")
  /\ UNCHANGED <<session, conn, host, runtime, used>>

(* session.settle() is over, and the status decides.                       *)
Settled(c) == IF calls[c].kind = "compile" THEN "schemas" ELSE "ok"

(* Mutant: a session that is catching up counts as settled.                *)
SettleLooks_AnyOpen(c) ==
  /\ calls[c].pc = "pump"
  /\ ~pumping
  /\ Goes(c, IF status \in Ended THEN "failed" ELSE Settled(c))
  /\ UNCHANGED <<session, conn, host, runtime, used>>

SettleLooks(c) ==
  /\ calls[c].pc = "pump"
  /\ ~pumping
  /\ Becomes(FailIfDenied(World))
  /\ Goes(c, IF conn.denied \/ status \in Ended THEN "failed"
             ELSE IF status = "live" THEN Settled(c) ELSE "fetch")
  /\ UNCHANGED <<pending, pumping, host, used>>

DescriptorFetched(c) ==
  /\ calls[c].pc = "fetch"
  /\ ~conn.suspended
  /\ \/ ~Refuses /\ TurnsInto(c, [calls[c] EXCEPT !.pc = "live-user", !.tries = 0]) /\ UNCHANGED used
     \/ CanEnd /\ Goes(c, "failed") /\ UNCHANGED used
     \/ ~Refuses /\ Spend("errors", MaxErrors) /\ Goes(c, "failed")
  /\ UNCHANGED <<session, conn, host, runtime>>

CallLooks(c) ==
  /\ calls[c].pc = "live-user"
  /\ ~conn.suspended
  /\ \E look \in LiveLook :
       \/ look = "delay" /\ Goes(c, "live-delay")
       \/ look = "failed" /\ Goes(c, "failed")
       \/ look = "reached" /\ LastTry(calls[c].loops) /\ Goes(c, "failed")
       \/ look = "reached" /\ ~LastTry(calls[c].loops)
          /\ TurnsInto(c, [calls[c] EXCEPT !.pc = "user", !.loops = @ + 1])
  /\ UNCHANGED <<session, conn, host, runtime, used>>

CallWaited(c) ==
  /\ calls[c].pc = "live-delay"
  /\ IF LastTry(calls[c].tries) THEN Goes(c, "failed")
     ELSE TurnsInto(c, [calls[c] EXCEPT !.pc = "live-user", !.tries = @ + 1])
  /\ UNCHANGED <<session, conn, host, runtime, used>>

(* compile() reads the document in the turn the schemas arrive.            *)
Compiles(c) ==
  /\ calls[c].pc = "schemas"
  /\ Goes(c, "ok")
  /\ UNCHANGED <<session, conn, host, runtime, used>>

SchemasFail(c) ==
  /\ calls[c].pc = "schemas"
  /\ Spend("errors", MaxErrors)
  /\ Goes(c, "failed")
  /\ UNCHANGED <<session, conn, host, runtime>>

CallStep(c) ==
  UserIsThere(c) \/ SettleLooks(c) \/ DescriptorFetched(c) \/ CallLooks(c) \/ CallWaited(c)
    \/ Compiles(c) \/ SchemasFail(c)

Init ==
  /\ status = "none" /\ pending = 0 /\ pumping = FALSE
  /\ conn = [closed |-> FALSE, denied |-> FALSE, suspended |-> FALSE]
  /\ host = [join |-> "snapshot", tries |-> 0, closed |-> FALSE]
  /\ runtime = "none"
  /\ calls = [c \in Calls |-> Idle]
  /\ used = [b \in {"edits", "syncs", "errors", "absences"} |-> 0]

Next ==
  \/ SessionWorks \/ SessionEnds \/ UserLeaves \/ UserReturns \/ Denied
  \/ JoinStep \/ HostClose \/ Dispatch
  \/ \E c \in Calls : CallStarts(c) \/ CallStep(c)

Spec == Init /\ [][Next]_vars

(* Requests are answered or fail, timers fire, the user comes back (the    *)
(* code waits for them without limit), and the session makes the progress  *)
(* that SharedSession shows it makes.                                      *)
FairSpec ==
  /\ Spec
  /\ WF_vars(JoinStep) /\ WF_vars(UserReturns) /\ WF_vars(SessionWorks)
  /\ \A c \in Calls : WF_vars(CallStep(c))

(***************************************************************************)
(* Types; no wait makes more than its allotted attempts.                   *)
(***************************************************************************)
Attempts == 0..(MaxAttempts - 1)

CallRecords ==
  [kind : {"none", "settle", "compile"}, tries : Attempts, loops : Attempts,
   pc : {"idle", "user", "pump", "fetch", "live-user", "live-delay", "schemas", "ok", "failed"}]

TypeOK ==
  /\ status \in {"none"} \cup Open \cup Ended /\ pending \in Nat /\ pumping \in BOOLEAN
  /\ conn \in [closed : BOOLEAN, denied : BOOLEAN, suspended : BOOLEAN]
  /\ host \in [join : {"snapshot", "fetch", "user", "delay", "done", "failed"},
               tries : Attempts, closed : BOOLEAN]
  /\ runtime \in {"none", "open", "closed"}
  /\ calls \in [Calls -> CallRecords]
  /\ used \in [{"edits", "syncs", "errors", "absences"} -> Nat]

(***************************************************************************)
(* A join that failed, or was closed at any moment of it, leaves nothing   *)
(* behind: the connection is closed and so are the session and the         *)
(* runtime, if they were ever made (api.ts:307-316).                       *)
(***************************************************************************)
NothingLeaks ==
  host.join = "failed" \/ host.closed
    => conn.closed /\ status \in {"none", "closed"} /\ runtime # "open"

(***************************************************************************)
(* Once authorization is denied no session stays open on the connection,   *)
(* whether the denial came before the session, while it was being made or  *)
(* after (api.ts:276-279).                                                 *)
(***************************************************************************)
DenialEndsTheSession == conn.denied => status \notin Open

(***************************************************************************)
(* settle() succeeds only when every edit is acknowledged or was given up  *)
(* and reported, and the session is up to date (api.ts:112-129).           *)
(***************************************************************************)
SettledMeansAcknowledged ==
  [][\A c \in Calls :
       calls[c].pc = "pump" /\ calls'[c].pc \in {"ok", "schemas"}
         => status = "live" /\ pending = 0]_vars

(***************************************************************************)
(* Joining ends, and so does every call: with success or with an error     *)
(* (api.ts:95-129, 265-310).                                               *)
(***************************************************************************)
EverythingEnds ==
  /\ <>(host.join \in {"done", "failed"})
  /\ \A c \in Calls : calls[c].pc = "user" ~> calls[c].pc \in {"ok", "failed"}
=============================================================================
