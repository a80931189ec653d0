-------------------------- MODULE AgentHostProofs --------------------------
(***************************************************************************)
(* Proofs about AgentHost: whatever interleaves with joining, closing and  *)
(* denial, nothing is left open.                                           *)
(***************************************************************************)
EXTENDS AgentHost, TLAPS

(***************************************************************************)
(* The inductive invariant.  Stages says how far the join is: there is no  *)
(* session before the snapshot and none without it, only a finished join   *)
(* has a runtime, and nothing but close() shuts the connection of a join   *)
(* that still awaits the snapshot.  NoOpenSessionOnAClosedConnection is    *)
(* what makes the denial of a closed connection harmless, although its     *)
(* listeners are gone.                                                     *)
(***************************************************************************)
Stages ==
  /\ host.join = "snapshot" => status = "none" /\ (conn.closed => host.closed)
  /\ host.join \notin {"snapshot", "failed"} => status # "none"
  /\ runtime # "none" => host.join = "done"
  /\ runtime = "none" => host.join # "done"

NoOpenSessionOnAClosedConnection == conn.closed => status \notin Open

IInv ==
  /\ TypeOK
  /\ Stages
  /\ NoOpenSessionOnAClosedConnection
  /\ DenialEndsTheSession
  /\ NothingLeaks

-----------------------------------------------------------------------------
(***************************************************************************)
(* The state of the worlds that the shared parts of the handlers pass on.  *)
(***************************************************************************)
Worlds ==
  [status : {"none"} \cup Open \cup Ended,
   conn : [closed : BOOLEAN, denied : BOOLEAN, suspended : BOOLEAN],
   runtime : {"none", "open", "closed"}]

Counted == used \in [{"edits", "syncs", "errors", "absences"} -> Nat]

(* A bound that is spent stays a count of the same kinds.                  *)
LEMMA Spending ==
  ASSUME Counted, NEW b \in {"edits", "syncs", "errors", "absences"}, NEW limit, Spend(b, limit)
  PROVE  Counted'
BY DEF Counted, Spend

(* Whichever way a connection, a session or a join is closed, the world is *)
(* one, its connection is closed and its session is not open.              *)
LEMMA Closing ==
  ASSUME NEW w \in Worlds
  PROVE  /\ CloseConnection(w) \in Worlds
         /\ CloseConnection(w).status = w.status
         /\ CloseConnection(w).conn.closed
         /\ CloseConnection(w).conn.denied = w.conn.denied
         /\ CloseConnection(w).runtime = w.runtime
         /\ CloseSession(w) \in Worlds
         /\ CloseSession(w).status = "closed"
         /\ CloseSession(w).conn.closed
         /\ CloseSession(w).conn.denied = w.conn.denied
         /\ CloseSession(w).runtime = w.runtime
<1> DEFINE cc == [w.conn EXCEPT !.closed = TRUE, !.suspended = FALSE]
<1>1. cc \in [closed : BOOLEAN, denied : BOOLEAN, suspended : BOOLEAN]
      /\ cc.closed /\ cc.denied = w.conn.denied
  BY DEF Worlds
<1> DEFINE ww == [status |-> w.status, conn |-> cc, runtime |-> w.runtime]
<1>2. CloseConnection(w) = ww BY DEF CloseConnection, Worlds
<1>3. CloseSession(w) = [ww EXCEPT !.status = "closed"] BY <1>2 DEF CloseSession
<1> HIDE DEF cc
<1> QED BY <1>1, <1>2, <1>3 DEF Worlds, Ended

(* A join that is given up closes what there is.                           *)
LEMMA Abandoning ==
  ASSUME NEW w \in Worlds
  PROVE  /\ Abandon(w) \in Worlds
         /\ Abandon(w).status \in {"none", "closed"}
         /\ Abandon(w).conn.closed
         /\ Abandon(w).conn.denied = w.conn.denied
         /\ Abandon(w).runtime = w.runtime
         /\ w.status = "none" <=> Abandon(w).status = "none"
<1>1. CASE w.status = "none" BY <1>1, Closing DEF Abandon
<1>2. CASE w.status # "none" BY <1>2, Closing DEF Abandon
<1> QED BY <1>1, <1>2

(* Asking a session that is denied ends it, and only its status.           *)
LEMMA Failing ==
  ASSUME NEW w \in Worlds
  PROVE  /\ FailIfDenied(w) \in Worlds
         /\ FailIfDenied(w).conn = w.conn
         /\ FailIfDenied(w).runtime = w.runtime
         /\ FailIfDenied(w).status = IF w.conn.denied /\ w.status \in Open THEN "error" ELSE w.status
<1> DEFINE x == [w EXCEPT !.status = "error"]
<1>1. x \in Worlds /\ x.conn = w.conn /\ x.runtime = w.runtime /\ x.status = "error"
  BY DEF Worlds, Ended
<1> HIDE DEF x
<1>2. FailIfDenied(w) = IF w.conn.denied /\ w.status \in Open THEN x ELSE w
  BY DEF FailIfDenied, x
<1> QED BY <1>1, <1>2

(* The present world, and what a step makes of it.                         *)
LEMMA Present ==
  ASSUME TypeOK
  PROVE  World \in Worlds /\ World.status = status /\ World.conn = conn /\ World.runtime = runtime
BY DEF TypeOK, World, Worlds

(* What a turn that ends in the world w leaves of each variable.           *)
LEMMA Becoming ==
  ASSUME NEW w \in Worlds, Becomes(w)
  PROVE  /\ status' = w.status /\ conn' = w.conn /\ runtime' = w.runtime
         /\ status' \in {"none"} \cup Open \cup Ended
         /\ conn' \in [closed : BOOLEAN, denied : BOOLEAN, suspended : BOOLEAN]
         /\ runtime' \in {"none", "open", "closed"}
BY DEF Becomes, Worlds

-----------------------------------------------------------------------------
(* Every step of the environment keeps the invariant.                      *)
LEMMA EnvironmentKeeps ==
  ASSUME HostAssumption, IInv,
         SessionWorks \/ SessionEnds \/ UserLeaves \/ UserReturns \/ Denied
  PROVE  IInv'
<1> USE DEF IInv
<1>0. Counted BY DEF TypeOK, Counted
<1>1. CASE SessionWorks
  <2>1. /\ status' \in {"none"} \cup Open \cup Ended /\ pending' \in Nat /\ pumping' \in BOOLEAN
        /\ status \notin Open => status' = status
        /\ status \in Open => status' \in Open
        /\ status # "none"
    <3>1. CASE Ses!Resolve
      <4>1. pending \in Nat /\ pending' \in 0..(pending - 1) BY <3>1 DEF Ses!Resolve, TypeOK
      <4>2. pending' \in Nat BY <4>1
      <4>3. pumping' \in BOOLEAN BY <3>1 DEF Ses!Resolve, TypeOK
      <4> QED BY <1>1, <3>1, <4>2, <4>3 DEF SessionWorks, Ses!Resolve, TypeOK
    <3>2. CASE Ses!CatchUp
      BY <1>1, <3>2 DEF SessionWorks, Ses!CatchUp, TypeOK, Open
    <3>3. CASE Ses!FallBehind
      BY <1>1, <3>3 DEF SessionWorks, Ses!FallBehind, TypeOK, Open
    <3>4. CASE Ses!PumpStops
      BY <1>1, <3>4 DEF SessionWorks, Ses!PumpStops, TypeOK
    <3> QED BY <1>1, <3>1, <3>2, <3>3, <3>4 DEF SessionWorks
  <2>2. Counted' BY <1>0, <1>1, Spending DEF SessionWorks, Counted
  <2>3. UNCHANGED <<conn, host, runtime, calls>> BY <1>1 DEF SessionWorks
  <2>4. status' \in Open => status \in Open BY <2>1
  <2> QED BY <2>1, <2>2, <2>3, <2>4 DEF TypeOK, Counted, Stages, NoOpenSessionOnAClosedConnection,
            DenialEndsTheSession, NothingLeaks, Open, Ended
<1>2. CASE SessionEnds
  <2>1. PICK w \in {[World EXCEPT !.status = "error"], CloseSession(World)} : Becomes(w)
    BY <1>2 DEF SessionEnds
  <2>2. w \in Worlds /\ w.status \in Ended /\ w.runtime = runtime
        /\ w.conn.denied = conn.denied /\ (conn.closed => w.conn.closed)
    <3>1. CASE w = CloseSession(World) BY <3>1, Present, Closing DEF Ended
    <3>2. CASE w = [World EXCEPT !.status = "error"]
      BY <3>2, Present DEF Worlds, Ended
    <3> QED BY <2>1, <3>1, <3>2
  <2>3. status \in Open /\ UNCHANGED <<pending, pumping, host, calls, used>>
    BY <1>2 DEF SessionEnds
  <2>4. status' \in Ended /\ status' \notin Open /\ runtime' = runtime /\ conn' = w.conn
    BY <2>1, <2>2, Becoming DEF Ended, Open
  <2>5. TypeOK' BY <2>1, <2>2, <2>3, Becoming DEF TypeOK
  <2>6. ~conn.closed /\ host.join # "failed" /\ ~host.closed /\ host.join # "snapshot"
    BY <2>3 DEF NoOpenSessionOnAClosedConnection, NothingLeaks, Stages, Open
  <2> QED BY <2>3, <2>4, <2>5, <2>6 DEF Stages, NoOpenSessionOnAClosedConnection,
            DenialEndsTheSession, NothingLeaks, Open, Ended
<1>3. CASE UserLeaves
  <2>1. /\ conn' \in [closed : BOOLEAN, denied : BOOLEAN, suspended : BOOLEAN]
        /\ conn'.closed = conn.closed /\ conn'.denied = conn.denied
        /\ UNCHANGED <<session, host, runtime, calls>>
    BY <1>3 DEF UserLeaves, TypeOK
  <2>2. Counted' BY <1>0, <1>3, Spending DEF UserLeaves
  <2> QED BY <2>1, <2>2 DEF TypeOK, Counted, Stages, NoOpenSessionOnAClosedConnection,
            DenialEndsTheSession, NothingLeaks, session
<1>4. CASE UserReturns
  <2>1. /\ conn' \in [closed : BOOLEAN, denied : BOOLEAN, suspended : BOOLEAN]
        /\ conn'.closed = conn.closed /\ conn'.denied = conn.denied
        /\ UNCHANGED <<session, host, runtime, calls, used>>
    BY <1>4 DEF UserReturns, TypeOK
  <2> QED BY <2>1 DEF TypeOK, Stages, NoOpenSessionOnAClosedConnection,
            DenialEndsTheSession, NothingLeaks, session
<1>5. CASE Denied
  <2> DEFINE dc == [conn EXCEPT !.denied = TRUE, !.suspended = FALSE]
             dw == [World EXCEPT !.conn = dc]
             w  == IF Listening(dw) THEN FailIfDenied(dw) ELSE dw
  <2>1. Becomes(w) /\ UNCHANGED <<pending, pumping, host, calls, used>>
    BY <1>5, Present DEF Denied
  <2>2. dc \in [closed : BOOLEAN, denied : BOOLEAN, suspended : BOOLEAN]
        /\ dc.denied /\ dc.closed = conn.closed
    BY DEF TypeOK
  <2>3. dw = [status |-> status, conn |-> dc, runtime |-> runtime] BY DEF World
  <2> HIDE DEF dc
  <2>4. dw \in Worlds /\ dw.status = status /\ dw.conn = dc /\ dw.runtime = runtime
    BY <2>2, <2>3 DEF Worlds, TypeOK
  <2>5. /\ w \in Worlds /\ w.status \notin Open /\ w.conn = dc /\ w.runtime = runtime
        /\ status \notin Open => w.status = status
        /\ status \in Open => w.status = "error"
    <3> HIDE DEF dw
    <3>1. CASE Listening(dw)
      BY <2>2, <2>4, <3>1, Failing DEF Open
    <3>2. CASE ~Listening(dw)
      <4>1. status \notin Open
        BY <2>2, <2>4, <3>2 DEF Listening, NoOpenSessionOnAClosedConnection, Open
      <4> QED BY <2>4, <3>2, <4>1
    <3> QED BY <3>1, <3>2
  <2> HIDE DEF w
  <2>6. TypeOK' BY <2>1, <2>5, Becoming DEF TypeOK
  <2>7. status' \notin Open /\ runtime' = runtime /\ conn'.closed = conn.closed
        /\ (status' # status => status \in Open /\ status' = "error")
    BY <2>1, <2>2, <2>5, Becoming
  <2> QED BY <2>1, <2>6, <2>7 DEF Stages, NoOpenSessionOnAClosedConnection,
            DenialEndsTheSession, NothingLeaks, Open
<1> QED BY <1>1, <1>2, <1>3, <1>4, <1>5

(* A join that fails leaves a world that satisfies everything.             *)
LEMMA FailingJoinKeeps ==
  ASSUME IInv, JoinFails, host.join \notin {"done"}, Counted',
         UNCHANGED <<pending, pumping, calls>>
  PROVE  IInv'
<1> USE DEF IInv
<1> DEFINE w == Abandon(World)
<1>1. /\ w \in Worlds /\ w.status \in {"none", "closed"} /\ w.conn.closed
      /\ w.conn.denied = conn.denied /\ w.runtime = runtime
  BY Present, Abandoning
<1>2. Becomes(w) /\ host' = [host EXCEPT !.join = "failed"] BY DEF JoinFails
<1> HIDE DEF w
<1>3. status' \in {"none", "closed"} /\ conn'.closed /\ runtime' = runtime BY <1>1, <1>2, Becoming
<1>4. host'.join = "failed" /\ host' \in [join : {"snapshot", "fetch", "user", "delay", "done", "failed"},
                                         tries : Attempts, closed : BOOLEAN]
  BY <1>2 DEF TypeOK
<1>5. runtime = "none" BY DEF Stages, TypeOK
<1>6. TypeOK' BY <1>1, <1>2, <1>4, Becoming DEF TypeOK, Counted
<1> QED BY <1>3, <1>4, <1>5, <1>6 DEF Stages, NoOpenSessionOnAClosedConnection,
          DenialEndsTheSession, NothingLeaks, Open

(* Every step of the join keeps the invariant.                             *)
LEMMA JoinKeeps ==
  ASSUME HostAssumption, IInv, JoinStep
  PROVE  IInv'
<1> USE DEF IInv
<1>0. Counted BY DEF TypeOK, Counted
<1>1. CASE SnapshotArrives
  <2>1. PICK first \in Open \cup (IF CanEnd /\ ~conn.closed THEN Ended ELSE {}) :
          LET made == [World EXCEPT !.status = first]
              w    == IF first = "closed" THEN CloseConnection(made) ELSE made
          IN  IF w.conn.denied \/ host.closed
              THEN /\ Becomes(CloseSession(w))
                   /\ host' = [host EXCEPT !.join = "failed"]
              ELSE /\ Becomes(w)
                   /\ host' = [host EXCEPT !.join = "fetch"]
    BY <1>1 DEF SnapshotArrives
  <2> DEFINE made == [World EXCEPT !.status = first]
             w    == IF first = "closed" THEN CloseConnection(made) ELSE made
  <2>2. UNCHANGED <<pending, pumping, calls, used>> /\ host.join = "snapshot"
    BY <1>1 DEF SnapshotArrives
  <2>3. first \in Open \cup Ended OBVIOUS
  <2>4. made \in Worlds /\ made.status = first /\ made.conn = conn /\ made.runtime = runtime
    BY <2>3, Present DEF Worlds
  <2> HIDE DEF made
  <2>5. w \in Worlds /\ w.status = first /\ w.conn.denied = conn.denied /\ w.runtime = runtime
        /\ (first # "closed" => w.conn = conn)
    BY <2>4, Closing
  <2>6. IF w.conn.denied \/ host.closed
        THEN Becomes(CloseSession(w)) /\ host' = [host EXCEPT !.join = "failed"]
        ELSE Becomes(w) /\ host' = [host EXCEPT !.join = "fetch"]
    BY <2>1 DEF made
  <2> HIDE DEF w
  <2>7. runtime = "none" BY <2>2 DEF Stages, TypeOK
  <2>8. CASE conn.denied \/ host.closed
    <3>1. Becomes(CloseSession(w)) /\ host' = [host EXCEPT !.join = "failed"] BY <2>5, <2>6, <2>8
    <3>2. status' = "closed" /\ conn'.closed /\ runtime' = runtime
      BY <2>5, <3>1, Closing, Becoming
    <3>3. TypeOK' BY <2>2, <2>5, <3>1, Closing, Becoming DEF TypeOK
    <3>4. host'.join = "failed" BY <3>1 DEF TypeOK
    <3> QED BY <2>7, <3>2, <3>3, <3>4 DEF Stages, NoOpenSessionOnAClosedConnection,
              DenialEndsTheSession, NothingLeaks, Open
  <2>9. CASE ~conn.denied /\ ~host.closed
    <3>1. Becomes(w) /\ host' = [host EXCEPT !.join = "fetch"] BY <2>5, <2>6, <2>9
    <3>2. TypeOK' BY <2>2, <2>5, <3>1, Becoming DEF TypeOK
    <3>3. ~conn.closed BY <2>2, <2>9 DEF Stages
    <3>4. status' = first /\ conn' = w.conn /\ runtime' = runtime /\ status' # "none"
      BY <2>3, <2>5, <3>1, Becoming DEF Open, Ended
    <3>5. host'.join = "fetch" /\ ~host'.closed /\ ~conn'.denied
      BY <2>5, <2>9, <3>1, <3>4 DEF TypeOK
    <3> QED BY <2>5, <2>7, <3>2, <3>3, <3>4, <3>5 DEF Stages, NoOpenSessionOnAClosedConnection,
              DenialEndsTheSession, NothingLeaks, Open
  <2> QED BY <2>8, <2>9
<1>2. CASE DescriptorArrives
  <2>1. CASE JoinFails BY <1>0, <1>2, <2>1, FailingJoinKeeps DEF DescriptorArrives, Counted
  <2>2. CASE ~JoinFails
    <3>1. host' = [host EXCEPT !.join = "user"] /\ host.join = "fetch"
          /\ UNCHANGED <<status, conn, runtime, pending, pumping, calls, used>>
      BY <1>2, <2>2 DEF DescriptorArrives
    <3>2. host'.join = "user" /\ host'.closed = host.closed BY <3>1 DEF TypeOK
    <3>3. TypeOK' BY <3>1 DEF TypeOK
    <3> QED BY <3>1, <3>2, <3>3 DEF Stages, NoOpenSessionOnAClosedConnection,
              DenialEndsTheSession, NothingLeaks
  <2> QED BY <2>1, <2>2
<1>3. CASE RequestFails
  <2>1. Counted' BY <1>0, <1>3, Spending DEF RequestFails, Counted
  <2> QED BY <1>3, <2>1, FailingJoinKeeps DEF RequestFails
<1>4. CASE JoinLooks
  <2>1. CASE JoinFails BY <1>0, <1>4, <2>1, FailingJoinKeeps DEF JoinLooks, Counted
  <2>2. CASE ~JoinFails
    <3>1. /\ host.join = "user"
          /\ \/ host' = [host EXCEPT !.join = "delay"] /\ UNCHANGED runtime
             \/ host' = [host EXCEPT !.join = "done"] /\ ~host.closed /\ runtime' = "open"
          /\ UNCHANGED <<status, conn, pending, pumping, calls, used>>
      BY <1>4, <2>2 DEF JoinLooks
    <3>2. host'.closed = host.closed /\ host'.join \in {"delay", "done"}
          /\ (host'.join = "done" => ~host.closed /\ runtime' = "open")
          /\ (host'.join # "done" => runtime' = runtime)
      BY <3>1 DEF TypeOK
    <3>3. TypeOK' BY <3>1 DEF TypeOK
    <3> QED BY <3>1, <3>2, <3>3 DEF Stages, NoOpenSessionOnAClosedConnection,
              DenialEndsTheSession, NothingLeaks
  <2> QED BY <2>1, <2>2
<1>5. CASE JoinWaited
  <2>1. CASE JoinFails BY <1>0, <1>5, <2>1, FailingJoinKeeps DEF JoinWaited, Counted
  <2>2. CASE ~JoinFails
    <3>1. host.join = "delay" /\ host' = [host EXCEPT !.join = "user", !.tries = @ + 1]
          /\ host.tries + 1 # MaxAttempts
          /\ UNCHANGED <<status, conn, runtime, pending, pumping, calls, used>>
      BY <1>5, <2>2 DEF JoinWaited, LastTry
    <3>2. host.tries + 1 \in Attempts BY <3>1 DEF TypeOK, Attempts, HostAssumption
    <3>3. host'.join = "user" /\ host'.closed = host.closed BY <3>1 DEF TypeOK
    <3>4. TypeOK' BY <3>1, <3>2 DEF TypeOK
    <3> QED BY <3>1, <3>3, <3>4 DEF Stages, NoOpenSessionOnAClosedConnection,
              DenialEndsTheSession, NothingLeaks
  <2> QED BY <2>1, <2>2
<1> QED BY <1>1, <1>2, <1>3, <1>4, <1>5 DEF JoinStep

(* Closing at any moment keeps the invariant.                              *)
LEMMA HostCloseKeeps ==
  ASSUME IInv, HostClose
  PROVE  IInv'
<1> USE DEF IInv
<1> DEFINE w == IF host.join = "done" THEN CloseHandle(World) ELSE Abandon(World)
<1>1. Becomes(w) /\ host' = [host EXCEPT !.closed = TRUE]
      /\ UNCHANGED <<pending, pumping, calls, used>>
  BY DEF HostClose
<1>2. /\ w \in Worlds /\ w.status \in {"none", "closed"} /\ w.conn.closed
      /\ w.conn.denied = conn.denied
      /\ (w.status = "none" <=> status = "none")
      /\ (host.join = "done" => w.runtime = "closed")
      /\ (host.join # "done" => w.runtime = runtime)
  <2>1. CASE host.join = "done"
    <3> DEFINE x == CloseSession(World)
    <3>1. x \in Worlds /\ x.status = "closed" /\ x.conn.closed /\ x.conn.denied = conn.denied
      BY Present, Closing
    <3> HIDE DEF x
    <3>2. w = [x EXCEPT !.runtime = "closed"] BY <2>1 DEF CloseHandle, x
    <3>3. status # "none" BY <2>1 DEF Stages
    <3> QED BY <2>1, <3>1, <3>2, <3>3 DEF Worlds
  <2>2. CASE host.join # "done" BY <2>2, Present, Abandoning
  <2> QED BY <2>1, <2>2
<1> HIDE DEF w
<1>3. TypeOK' BY <1>1, <1>2, Becoming DEF TypeOK
<1>4. /\ status' \in {"none", "closed"} /\ (status' = "none" <=> status = "none") /\ conn'.closed
      /\ (host.join = "done" => runtime' = "closed") /\ (host.join # "done" => runtime' = runtime)
  BY <1>1, <1>2, Becoming
<1>5. host'.join = host.join /\ host'.closed BY <1>1 DEF TypeOK
<1>6. host.join # "done" => runtime = "none" BY DEF Stages, TypeOK
<1> QED BY <1>3, <1>4, <1>5, <1>6 DEF Stages, NoOpenSessionOnAClosedConnection,
          DenialEndsTheSession, NothingLeaks, Open

(* The operations of the handle keep the invariant.                        *)
LEMMA HandleKeeps ==
  ASSUME HostAssumption, IInv,
         Dispatch \/ \E c \in Calls : CallStarts(c) \/ CallStep(c)
  PROVE  IInv'
<1> USE DEF IInv
<1>0. Counted BY DEF TypeOK, Counted
<1>1. CASE Dispatch
  <2>1. pending' \in Nat /\ pumping' \in BOOLEAN /\ UNCHANGED <<status, conn, host, runtime, calls>>
    BY <1>1 DEF Dispatch, Ses!Issue, TypeOK
  <2>2. Counted' BY <1>0, <1>1, Spending DEF Dispatch
  <2> QED BY <2>1, <2>2 DEF TypeOK, Counted, Stages, NoOpenSessionOnAClosedConnection,
            DenialEndsTheSession, NothingLeaks
<1>2. ASSUME NEW c \in Calls, CallStarts(c) \/ CallStep(c) PROVE IInv'
  <2>1. calls' \in [Calls -> CallRecords]
    <3> USE DEF CallRecords
    <3>0. 0 \in Attempts /\ calls[c] \in CallRecords BY DEF Attempts, HostAssumption, TypeOK
    <3>1. ASSUME NEW r \in CallRecords, TurnsInto(c, r) PROVE calls' \in [Calls -> CallRecords]
      BY <3>1 DEF TurnsInto, TypeOK
    <3>2. ASSUME NEW pc \in {"user", "pump", "fetch", "live-delay", "schemas", "ok", "failed"}, Goes(c, pc)
          PROVE  calls' \in [Calls -> CallRecords]
      BY <3>0, <3>1, <3>2 DEF Goes
    <3>3. CASE CallStarts(c)
      <4>1. \A kind \in {"settle", "compile"} : [Idle EXCEPT !.kind = kind, !.pc = "user"] \in CallRecords
        BY <3>0 DEF Idle
      <4> QED BY <3>1, <3>3, <4>1 DEF CallStarts
    <3>4. CASE UserIsThere(c) BY <3>2, <3>4 DEF UserIsThere
    <3>5. CASE SettleLooks(c) BY <3>2, <3>5 DEF SettleLooks, Settled
    <3>6. CASE DescriptorFetched(c)
      <4>1. [calls[c] EXCEPT !.pc = "live-user", !.tries = 0] \in CallRecords BY <3>0
      <4> QED BY <3>1, <3>2, <3>6, <4>1 DEF DescriptorFetched
    <3>7. CASE CallLooks(c)
      <4>1. ASSUME ~LastTry(calls[c].loops) PROVE calls[c].loops + 1 \in Attempts
        BY <3>0, <4>1 DEF LastTry, Attempts, HostAssumption
      <4>2. ASSUME ~LastTry(calls[c].loops)
            PROVE  [calls[c] EXCEPT !.pc = "user", !.loops = @ + 1] \in CallRecords
        BY <3>0, <4>1, <4>2
      <4> QED BY <3>1, <3>2, <3>7, <4>2 DEF CallLooks
    <3>8. CASE CallWaited(c)
      <4>1. ASSUME ~LastTry(calls[c].tries) PROVE calls[c].tries + 1 \in Attempts
        BY <3>0, <4>1 DEF LastTry, Attempts, HostAssumption
      <4>2. ASSUME ~LastTry(calls[c].tries)
            PROVE  [calls[c] EXCEPT !.pc = "live-user", !.tries = @ + 1] \in CallRecords
        BY <3>0, <4>1, <4>2
      <4> QED BY <3>1, <3>2, <3>8, <4>2 DEF CallWaited
    <3>9. CASE Compiles(c) \/ SchemasFail(c) BY <3>2, <3>9 DEF Compiles, SchemasFail
    <3> QED BY <1>2, <3>3, <3>4, <3>5, <3>6, <3>7, <3>8, <3>9 DEF CallStep
  <2>2. Counted' /\ UNCHANGED <<pending, pumping, host>>
    BY <1>0, <1>2, Spending DEF CallStarts, CallStep, UserIsThere, SettleLooks, DescriptorFetched,
       CallLooks, CallWaited, Compiles, SchemasFail, Counted, session
  <2>3. CASE SettleLooks(c)
    <3> DEFINE w == FailIfDenied(World)
    <3>1. Becomes(w) BY <2>3 DEF SettleLooks
    <3>2. /\ w \in Worlds /\ w.conn = conn /\ w.runtime = runtime
          /\ w.status = status
      BY Present, Failing DEF DenialEndsTheSession
    <3> HIDE DEF w
    <3> QED BY <2>1, <2>2, <3>1, <3>2, Becoming DEF TypeOK, Counted, Stages,
              NoOpenSessionOnAClosedConnection, DenialEndsTheSession, NothingLeaks
  <2>4. CASE ~SettleLooks(c)
    <3>1. UNCHANGED <<status, conn, runtime>>
      BY <1>2, <2>4 DEF CallStarts, CallStep, UserIsThere, DescriptorFetched,
         CallLooks, CallWaited, Compiles, SchemasFail, session
    <3> QED BY <2>1, <2>2, <3>1 DEF TypeOK, Counted, Stages,
              NoOpenSessionOnAClosedConnection, DenialEndsTheSession, NothingLeaks
  <2> QED BY <2>3, <2>4
<1> QED BY <1>1, <1>2

-----------------------------------------------------------------------------
(* The inductive invariant holds in every reachable state.                 *)
THEOREM Invariance == Spec => []IInv
<1>1. Init => IInv
  <2> SUFFICES ASSUME Init PROVE IInv OBVIOUS
  <2>1. 0 \in Attempts BY HostAssumption DEF HostAssumption, Attempts
  <2>2. Idle \in CallRecords BY <2>1 DEF Idle, CallRecords
  <2>3. TypeOK BY <2>1, <2>2 DEF Init, TypeOK
  <2> QED BY <2>3 DEF Init, IInv, Stages, NoOpenSessionOnAClosedConnection,
            DenialEndsTheSession, NothingLeaks, Open
<1>2. IInv /\ [Next]_vars => IInv'
  <2> SUFFICES ASSUME IInv, [Next]_vars PROVE IInv' OBVIOUS
  <2>1. CASE SessionWorks \/ SessionEnds \/ UserLeaves \/ UserReturns \/ Denied
    BY <2>1, HostAssumption, EnvironmentKeeps
  <2>2. CASE JoinStep BY <2>2, HostAssumption, JoinKeeps
  <2>3. CASE HostClose BY <2>3, HostCloseKeeps
  <2>4. CASE Dispatch \/ \E c \in Calls : CallStarts(c) \/ CallStep(c)
    BY <2>4, HostAssumption, HandleKeeps
  <2>5. CASE UNCHANGED vars
    BY <2>5 DEF vars, session, IInv, TypeOK, Stages, NoOpenSessionOnAClosedConnection,
       DenialEndsTheSession, NothingLeaks
  <2> QED BY <2>1, <2>2, <2>3, <2>4, <2>5 DEF Next
<1> QED BY <1>1, <1>2, PTL DEF Spec

(* Types, and the bounds on attempts.                                      *)
THEOREM TypeCorrect == Spec => []TypeOK
<1>1. IInv => TypeOK BY DEF IInv
<1> QED BY <1>1, Invariance, PTL

(* A join that failed or was closed leaves nothing open, whenever it was   *)
(* closed and whatever arrives afterwards.                                 *)
THEOREM LeakFree == Spec => []NothingLeaks
<1>1. IInv => NothingLeaks BY DEF IInv
<1> QED BY <1>1, Invariance, PTL

(* No session stays open once its authorization was denied.                *)
THEOREM DenialFinal == Spec => []DenialEndsTheSession
<1>1. IInv => DenialEndsTheSession BY DEF IInv
<1> QED BY <1>1, Invariance, PTL

-----------------------------------------------------------------------------
(***************************************************************************)
(* Somebody is at work on what is pending: what SettlingSession promises,  *)
(* carried through everything the host does to the session.                *)
(***************************************************************************)
Attended ==
  /\ status = "live" /\ pending > 0 => pumping
  /\ status = "none" => pending = 0

(* A step of the host leaves the queue alone, revives no session and makes *)
(* none but the first.                                                     *)
HandsOff ==
  /\ UNCHANGED <<pending, pumping>>
  /\ status' = "live" => status \in {"live", "none"}
  /\ status' = "none" => status = "none"

(* A step of the host that does not touch the work on the session.         *)
LEMMA HandsOffKeeps ==
  ASSUME TypeOK, Attended, HandsOff
  PROVE  Attended'
<1>1. pending \in Nat /\ pending' = pending /\ pumping' = pumping BY DEF TypeOK, HandsOff
<1>2. CASE status = "none"
  <2>1. pending' = 0 BY <1>1, <1>2 DEF Attended
  <2> QED BY <2>1 DEF Attended
<1>3. CASE status # "none" BY <1>1, <1>3 DEF Attended, HandsOff
<1> QED BY <1>2, <1>3

(* The steps of the join, of denial and of close() are such steps.         *)
LEMMA HostHandsOff ==
  ASSUME IInv, SessionEnds \/ Denied \/ JoinStep \/ HostClose
  PROVE  HandsOff
<1> USE DEF HandsOff
<1>0. World \in Worlds /\ World.status = status /\ World.conn = conn BY Present DEF IInv
<1>1. ASSUME JoinFails PROVE status' # "live" /\ (status' = "none" => status = "none")
  <2>1. Becomes(Abandon(World)) BY <1>1 DEF JoinFails
  <2> QED BY <1>0, <2>1, Abandoning DEF Becomes
<1>2. CASE SessionEnds
  <2>1. status' = "error" \/ status' = "closed"
    <3>1. CASE Becomes([World EXCEPT !.status = "error"]) BY <3>1 DEF Becomes, World
    <3>2. CASE Becomes(CloseSession(World)) BY <1>0, <3>2, Closing DEF Becomes
    <3> QED BY <1>2, <3>1, <3>2 DEF SessionEnds
  <2> QED BY <1>2, <2>1 DEF SessionEnds
<1>3. CASE Denied
  <2> DEFINE dw == [World EXCEPT !.conn = [@ EXCEPT !.denied = TRUE, !.suspended = FALSE]]
  <2>1. dw \in Worlds /\ dw.status = status BY <1>0 DEF Worlds
  <2> HIDE DEF dw
  <2>2. Becomes(IF Listening(dw) THEN FailIfDenied(dw) ELSE dw) /\ UNCHANGED <<pending, pumping>>
    BY <1>3 DEF Denied, dw
  <2>3. FailIfDenied(dw).status \in {"error", status} BY <2>1, Failing
  <2>4. status' \in {"error", status} BY <2>1, <2>2, <2>3 DEF Becomes
  <2> QED BY <2>2, <2>4
<1>4. CASE SnapshotArrives
  <2>1. status = "none" /\ UNCHANGED <<pending, pumping>>
    BY <1>4 DEF SnapshotArrives, IInv, Stages
  <2> QED BY <2>1
<1>5. CASE DescriptorArrives \/ JoinLooks
  BY <1>1, <1>5 DEF DescriptorArrives, JoinLooks
<1>6. CASE RequestFails BY <1>1, <1>6 DEF RequestFails
<1>7. CASE JoinWaited BY <1>1, <1>7 DEF JoinWaited
<1>8. CASE HostClose
  <2>1. CloseHandle(World).status = "closed"
    <3> DEFINE x == CloseSession(World)
    <3>1. x \in Worlds /\ x.status = "closed" BY <1>0, Closing
    <3> HIDE DEF x
    <3>2. CloseHandle(World) = [x EXCEPT !.runtime = "closed"] BY DEF CloseHandle, x
    <3> QED BY <3>1, <3>2 DEF Worlds
  <2>2. status' \in {CloseHandle(World).status, Abandon(World).status} /\ UNCHANGED <<pending, pumping>>
    BY <1>8 DEF HostClose, Becomes
  <2> QED BY <1>0, <2>1, <2>2, Abandoning
<1> QED BY <1>2, <1>3, <1>4, <1>5, <1>6, <1>7, <1>8 DEF JoinStep

(* Somebody stays at work on what is pending, through every step.          *)
LEMMA AttendedKeeps ==
  ASSUME IInv, Attended, [Next]_vars
  PROVE  Attended'
<1>0. TypeOK BY DEF IInv
<1>1. CASE SessionWorks
  <2>1. CASE Ses!Resolve
    <3>1. pending \in Nat /\ pending' \in 0..(pending - 1) BY <1>0, <2>1 DEF Ses!Resolve, TypeOK
    <3>2. pending > 0 BY <3>1
    <3>3. status' = status /\ status # "none" BY <1>1, <2>1 DEF Ses!Resolve, SessionWorks
    <3>4. pumping' = pumping \/ pumping' = TRUE BY <2>1 DEF Ses!Resolve
    <3>5. status = "live" => pumping BY <3>2 DEF Attended
    <3> QED BY <3>3, <3>4, <3>5 DEF Attended
  <2>2. CASE Ses!CatchUp BY <2>2 DEF Ses!CatchUp, Attended
  <2>3. CASE Ses!FallBehind BY <2>3 DEF Ses!FallBehind, Attended
  <2>4. CASE Ses!PumpStops BY <1>1, <2>4 DEF Ses!PumpStops, Attended, SessionWorks
  <2> QED BY <1>1, <2>1, <2>2, <2>3, <2>4 DEF SessionWorks
<1>2. CASE UserLeaves \/ UserReturns BY <1>2 DEF UserLeaves, UserReturns, session, Attended
<1>3. CASE SessionEnds \/ Denied \/ JoinStep \/ HostClose
  BY <1>0, <1>3, HostHandsOff, HandsOffKeeps
<1>4. CASE Dispatch BY <1>4 DEF Dispatch, Ses!Issue, Ses!Open, Attended
<1>5. ASSUME NEW c \in Calls, CallStarts(c) \/ CallStep(c) PROVE Attended'
  <2>1. CASE SettleLooks(c)
    <3>1. FailIfDenied(World).status \in {"error", status} BY <1>0, Present, Failing
    <3>2. status' \in {"error", status} /\ UNCHANGED <<pending, pumping>>
      BY <2>1, <3>1 DEF SettleLooks, Becomes
    <3> QED BY <1>0, <3>2, HandsOffKeeps DEF HandsOff
  <2>2. CASE ~SettleLooks(c)
    BY <1>5, <2>2 DEF CallStarts, CallStep, UserIsThere, DescriptorFetched,
       CallLooks, CallWaited, Compiles, SchemasFail, session, Attended
  <2> QED BY <2>1, <2>2
<1>6. CASE UNCHANGED vars BY <1>6 DEF vars, session, Attended
<1> QED BY <1>1, <1>2, <1>3, <1>4, <1>5, <1>6 DEF Next

(* settle() and the settling part of compile() succeed only on a live      *)
(* session that has nothing pending.                                       *)
THEOREM SettleCorrect == Spec => SettledMeansAcknowledged
<1>1. Init => Attended BY DEF Init, Attended
<1>2. IInv /\ Attended /\ [Next]_vars => Attended' BY AttendedKeeps
<1>3. IInv /\ Attended /\ [Next]_vars
        => [\A c \in Calls : calls[c].pc = "pump" /\ calls'[c].pc \in {"ok", "schemas"}
              => status = "live" /\ pending = 0]_vars
  <2> SUFFICES ASSUME IInv, Attended, Next, NEW c \in Calls,
                      calls[c].pc = "pump", calls'[c].pc \in {"ok", "schemas"}
               PROVE  status = "live" /\ pending = 0
    OBVIOUS
  <2>1. TypeOK BY DEF IInv
  <2>2. ASSUME NEW d \in Calls, NEW r, TurnsInto(d, r), d # c PROVE FALSE
    BY <2>1, <2>2 DEF TurnsInto, TypeOK
  <2>3. calls' # calls OBVIOUS
  <2>4. PICK d \in Calls : CallStarts(d) \/ CallStep(d)
    BY <2>3 DEF Next, SessionWorks, SessionEnds, UserLeaves, UserReturns, Denied, JoinStep,
       SnapshotArrives, DescriptorArrives, RequestFails, JoinLooks, JoinWaited, HostClose, Dispatch
  <2>5. d = c
    BY <2>2, <2>4 DEF CallStarts, CallStep, UserIsThere, SettleLooks, DescriptorFetched, CallLooks,
       CallWaited, Compiles, SchemasFail, Goes
  <2>6. SettleLooks(c)
    BY <2>4, <2>5 DEF CallStarts, CallStep, UserIsThere, DescriptorFetched, CallLooks, CallWaited,
       Compiles, SchemasFail
  <2>7. ~pumping /\ calls'[c].pc = IF conn.denied \/ status \in Ended THEN "failed"
                                   ELSE IF status = "live" THEN Settled(c) ELSE "fetch"
    BY <2>1, <2>6 DEF SettleLooks, Goes, TurnsInto, TypeOK, CallRecords
  <2>8. status = "live" BY <2>7
  <2>9. pending = 0 BY <2>1, <2>7, <2>8 DEF Attended, TypeOK
  <2> QED BY <2>8, <2>9
<1> QED BY <1>1, <1>2, <1>3, Invariance, PTL DEF Spec, SettledMeansAcknowledged
=============================================================================
