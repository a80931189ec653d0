----------------------- MODULE ReconnectingSocketProofs -----------------------
(***************************************************************************)
(* Proofs about ReconnectingSocket, for any number of sockets, timers,     *)
(* promises and calls: nothing that was queued before disconnect() brings  *)
(* the connection back, no socket is left behind, and every step is one    *)
(* that Transport allows.                                                  *)
(***************************************************************************)
EXTENDS ReconnectingSocket, TLAPS

(***************************************************************************)
(* Handlers hand the four pieces of state on as one record before they     *)
(* become the state, so the invariant is stated of such a record.          *)
(***************************************************************************)
SocketRecord == [told : SUBSET {"open", "close"}, closing : BOOLEAN, detached : BOOLEAN]
Stati == {"disconnected", "connecting", "connected", "reconnecting"}
Fields == [ws : Nat, attempts : 0..BackoffSteps, handle : Nat, gen : Nat,
           deliberate : BOOLEAN, status : Stati]
Worlds == [r : Fields, sockets : Seq(SocketRecord), timers : Seq(Nat), promises : Seq(Nat)]

Typed(m) ==
  /\ m \in Worlds
  /\ m.r.ws <= Len(m.sockets)
  /\ m.r.handle <= Len(m.timers)

Off(m) == m.r.ws = Nothing /\ m.r.handle = Nothing /\ m.r.status = "disconnected"

Attended(m) ==
  \A i \in DOMAIN m.sockets :
    i # m.r.ws => m.sockets[i].closing \/ "close" \in m.sockets[i].told

Sound(m) ==
  /\ Typed(m)
  /\ m.r.deliberate => Off(m)
  /\ Attended(m)

(* A socket is open, as the object sees it.                                *)
UpIn(m) == m.r.ws # Nothing /\ m.sockets[m.r.ws].told = {"open"}

SameUp(u, m) == u.r.deliberate = m.r.deliberate /\ (UpIn(u) <=> UpIn(m))

IInv ==
  /\ setup \in [resolves : BOOLEAN, careful : BOOLEAN]
  /\ connects \in 0..MaxConnects
  /\ Sound(Now)

-----------------------------------------------------------------------------
(* Giving the object other fields, or replacing its timers, leaves the     *)
(* rest.                                                                   *)
LEMMA Refielding ==
  ASSUME NEW m \in Worlds, NEW x
  PROVE  /\ [m EXCEPT !.r = x]
              = [r |-> x, sockets |-> m.sockets, timers |-> m.timers, promises |-> m.promises]
         /\ [m EXCEPT !.timers = x]
              = [r |-> m.r, sockets |-> m.sockets, timers |-> x, promises |-> m.promises]
BY DEF Worlds

(* A list with one entry replaced is a list of the same kind and length.   *)
LEMMA Updating ==
  ASSUME NEW S, NEW s \in Seq(S), NEW i, NEW x \in S
  PROVE  /\ [s EXCEPT ![i] = x] \in Seq(S)
         /\ Len([s EXCEPT ![i] = x]) = Len(s)
         /\ DOMAIN [s EXCEPT ![i] = x] = DOMAIN s
         /\ \A j \in DOMAIN s : [s EXCEPT ![i] = x][j] = IF j = i THEN x ELSE s[j]
<1>1. CASE i \in 1..Len(s) BY <1>1
<1>2. CASE i \notin 1..Len(s)
  <2>1. [s EXCEPT ![i] = x] = s BY <1>2
  <2> QED BY <1>2, <2>1
<1> QED BY <1>1, <1>2

(* The factory makes a socket only where there is none, so the one it      *)
(* replaces is none that is still open.                                    *)
LEMMA Creating ==
  ASSUME NEW m, Sound(m), ~m.r.deliberate
  PROVE  /\ Sound(CreateSocket(m)) /\ ~CreateSocket(m).r.deliberate
         /\ SameUp(CreateSocket(m), m)
<1>1. CASE m.r.ws # Nothing BY <1>1 DEF CreateSocket, SameUp
<1>2. CASE m.r.ws = Nothing
  <2> DEFINE st == Trying(m)
             more == Append(m.sockets, FreshSocket)
             f0 == [m.r EXCEPT !.ws = Len(m.sockets) + 1]
             f == [f0 EXCEPT !.status = st]
             w == [r |-> f, sockets |-> more, timers |-> m.timers, promises |-> m.promises]
  <2>1. st \in Stati BY DEF Trying, Stati
  <2>2. m \in Worlds BY DEF Sound, Typed
  <2>3. CreateSocket(m) = w BY <1>2, <2>2 DEF CreateSocket, Worlds, Fields
  <2>4. FreshSocket \in SocketRecord BY DEF FreshSocket, SocketRecord
  <2>5. /\ m.sockets \in Seq(SocketRecord) /\ m.timers \in Seq(Nat)
        /\ m.promises \in Seq(Nat) /\ m.r \in Fields
    BY <2>2 DEF Worlds
  <2>6. /\ more \in Seq(SocketRecord) /\ Len(more) = Len(m.sockets) + 1
        /\ \A i \in 1..Len(m.sockets) : more[i] = m.sockets[i]
        /\ DOMAIN more = 1..(Len(m.sockets) + 1) /\ DOMAIN m.sockets = 1..Len(m.sockets)
    BY <2>4, <2>5
  <2>7. /\ f \in Fields /\ f.ws = Len(m.sockets) + 1 /\ f.handle = m.r.handle
        /\ f.deliberate = m.r.deliberate
    <3>1. f0 \in Fields /\ f0.ws = Len(m.sockets) + 1 /\ f0.handle = m.r.handle
          /\ f0.deliberate = m.r.deliberate
      BY <2>5, Len(m.sockets) + 1 \in Nat DEF Fields
    <3> QED BY <2>1, <3>1 DEF Fields
  <2>8. w \in Worlds BY <2>5, <2>6, <2>7 DEF Worlds
  <2> HIDE DEF more, f, f0, st
  <2>9. Typed(w) BY <2>6, <2>7, <2>8 DEF Sound, Typed
  <2>10. Attended(w) 
    <3>1. ASSUME NEW i \in 1..Len(m.sockets) PROVE i # f.ws => more[i].closing \/ "close" \in more[i].told
      BY <1>2, <2>6, <3>1 DEF Sound, Attended, Nothing
    <3>2. \A i \in DOMAIN more : i # f.ws => i \in 1..Len(m.sockets) BY <2>5, <2>6, <2>7
    <3> QED BY <3>1, <3>2 DEF Attended
  <2>11. SameUp(w, m)
    <3>1. more[Len(m.sockets) + 1] = FreshSocket BY <2>4, <2>5 DEF more
    <3>2. ~UpIn(w) BY <2>7, <3>1 DEF UpIn, FreshSocket
    <3> QED BY <1>2, <2>7, <3>2 DEF UpIn, SameUp
  <2> HIDE DEF w
  <2>12. ~w.r.deliberate BY <2>11 DEF SameUp
  <2>13. Sound(w) BY <2>9, <2>10, <2>12 DEF Sound
  <2> QED BY <2>3, <2>11, <2>12, <2>13
<1> QED BY <1>1, <1>2

(* So does opening, which at most asks for a URL first.                    *)
LEMMA Opening ==
  ASSUME NEW m, Sound(m), ~m.r.deliberate
  PROVE  /\ Sound(OpenSocket(m)) /\ ~OpenSocket(m).r.deliberate
         /\ SameUp(OpenSocket(m), m)
<1>1. CASE m.r.ws # Nothing BY <1>1 DEF OpenSocket, SameUp
<1>2. CASE m.r.ws = Nothing /\ setup.resolves
  <2> DEFINE st == Trying(m)
             f == [m.r EXCEPT !.status = st]
             more == Append(m.promises, m.r.gen)
             w == [r |-> f, sockets |-> m.sockets, timers |-> m.timers, promises |-> more]
  <2>1. st \in Stati BY DEF Trying, Stati
  <2>2. m \in Worlds BY DEF Sound, Typed
  <2>3. OpenSocket(m) = w BY <1>2, <2>2 DEF OpenSocket, Worlds, Fields
  <2>4. f \in Fields /\ f.ws = m.r.ws /\ f.handle = m.r.handle /\ f.deliberate = m.r.deliberate
    BY <2>1, <2>2 DEF Worlds, Fields
  <2>5. more \in Seq(Nat) BY <2>2 DEF Worlds, Fields
  <2>6. w \in Worlds BY <2>2, <2>4, <2>5 DEF Worlds
  <2> HIDE DEF more, f, st
  <2>7. SameUp(w, m) BY <2>4 DEF UpIn, SameUp
  <2> QED BY <2>3, <2>4, <2>6, <2>7 DEF Sound, Typed, Attended
<1>3. CASE m.r.ws = Nothing /\ ~setup.resolves
  BY <1>3, Creating DEF OpenSocket
<1> QED BY <1>1, <1>2, <1>3

(* A retry is only scheduled.                                              *)
LEMMA Scheduling ==
  ASSUME NEW m, Sound(m), ~m.r.deliberate
  PROVE  /\ Sound(ScheduleReconnect(m)) /\ ~ScheduleReconnect(m).r.deliberate
         /\ SameUp(ScheduleReconnect(m), m)
<1>1. CASE m.r.handle # Nothing BY <1>1 DEF ScheduleReconnect, SameUp
<1>2. CASE m.r.handle = Nothing
  <2> DEFINE n == IF m.r.attempts < BackoffSteps THEN m.r.attempts + 1 ELSE m.r.attempts
             f0 == [m.r EXCEPT !.handle = Len(m.timers) + 1]
             f1 == [f0 EXCEPT !.status = "reconnecting"]
             f == [f1 EXCEPT !.attempts = n]
             more == Append(m.timers, m.r.gen)
             w == [r |-> f, sockets |-> m.sockets, timers |-> more, promises |-> m.promises]
  <2>2. m \in Worlds BY DEF Sound, Typed
  <2>3. ScheduleReconnect(m) = w BY <1>2, <2>2 DEF ScheduleReconnect, Worlds, Fields
  <2>1. n \in 0..BackoffSteps BY <2>2, SocketAssumption DEF Worlds, Fields
  <2>5. more \in Seq(Nat) /\ Len(more) = Len(m.timers) + 1 /\ Len(m.timers) \in Nat
    BY <2>2 DEF Worlds, Fields
  <2>4. /\ f \in Fields /\ f.ws = m.r.ws /\ f.handle = Len(m.timers) + 1
        /\ f.deliberate = m.r.deliberate
    <3>1. /\ f0 \in Fields /\ f0.ws = m.r.ws /\ f0.handle = Len(m.timers) + 1
          /\ f0.deliberate = m.r.deliberate
      BY <2>2, <2>5 DEF Worlds, Fields
    <3>2. /\ f1 \in Fields /\ f1.ws = f0.ws /\ f1.handle = f0.handle
          /\ f1.deliberate = f0.deliberate
      BY <3>1 DEF Fields, Stati
    <3> QED BY <2>1, <3>1, <3>2 DEF Fields
  <2>6. w \in Worlds BY <2>2, <2>4, <2>5 DEF Worlds
  <2> HIDE DEF more, f, f0, f1, n
  <2>7. SameUp(w, m) BY <2>4 DEF UpIn, SameUp
  <2> QED BY <2>3, <2>4, <2>5, <2>6, <2>7 DEF Sound, Typed, Attended
<1> QED BY <1>1, <1>2

(* disconnect() closes what is there, whether or not the timer it cancels  *)
(* still comes.                                                            *)
LEMMA Disconnecting ==
  ASSUME NEW m, Sound(m), NEW honoured \in BOOLEAN
  PROVE  LET u == DisconnectOn(m, honoured) IN Sound(u) /\ u.r.deliberate /\ ~UpIn(u)
<1>1. /\ m \in Worlds /\ m.r \in Fields /\ m.sockets \in Seq(SocketRecord)
      /\ m.timers \in Seq(Nat) /\ m.promises \in Seq(Nat)
  BY DEF Sound, Typed, Worlds
<1> DEFINE ts == IF m.r.handle # Nothing /\ honoured
                 THEN [m.timers EXCEPT ![m.r.handle] = Done] ELSE m.timers
           ss == IF m.r.ws # Nothing
                 THEN [m.sockets EXCEPT ![m.r.ws].closing = TRUE, ![m.r.ws].detached = TRUE]
                 ELSE m.sockets
           f == [ws |-> Nothing, attempts |-> 0, handle |-> Nothing, gen |-> m.r.gen + 1,
                 deliberate |-> TRUE, status |-> "disconnected"]
           w == [r |-> f, sockets |-> ss, timers |-> ts, promises |-> m.promises]
<1>2. DisconnectOn(m, honoured) = w
  <2> DEFINE m1 == [m EXCEPT !.timers = ts]
             m2 == [m1 EXCEPT !.sockets = ss]
             m3 == [m2 EXCEPT !.r = f]
  <2>1. /\ m1 = [r |-> m.r, sockets |-> m.sockets, timers |-> ts, promises |-> m.promises]
        /\ m2 = [r |-> m.r, sockets |-> ss, timers |-> ts, promises |-> m.promises]
        /\ m3 = w
    <3> HIDE DEF ts, ss, f
    <3>1. m1 = [r |-> m.r, sockets |-> m.sockets, timers |-> ts, promises |-> m.promises]
      BY <1>1, Refielding
    <3> HIDE DEF m1
    <3>2. m2 = [r |-> m.r, sockets |-> ss, timers |-> ts, promises |-> m.promises]
      BY <3>1
    <3> HIDE DEF m2
    <3>3. m3 = w BY <3>2
    <3> QED BY <3>1, <3>2, <3>3
  <2>2. DisconnectOn(m, honoured) =
          [m EXCEPT !.timers = ts, !.sockets = ss,
                    !.r = [ws |-> Nothing, attempts |-> 0, handle |-> Nothing, gen |-> m2.r.gen + 1,
                           deliberate |-> TRUE, status |-> "disconnected"]]
    <3>1. m1.sockets = m.sockets BY <2>1
    <3> QED BY <3>1, Zenon DEF DisconnectOn
  <2>3. m2.r.gen + 1 = m.r.gen + 1
    <3> HIDE DEF ts, ss, m2
    <3> QED BY <2>1
  <2> QED BY <2>1, <2>2, <2>3, Zenon
<1>3. f \in Fields BY <1>1, SocketAssumption DEF Fields, Nothing, Stati
<1>4. ts \in Seq(Nat) /\ Done \in Nat BY <1>1, Updating DEF Done
<1>5. /\ ss \in Seq(SocketRecord) /\ DOMAIN ss = DOMAIN m.sockets
      /\ \A i \in DOMAIN ss : i # m.r.ws => ss[i] = m.sockets[i]
      /\ m.r.ws # Nothing => m.r.ws \in DOMAIN ss /\ ss[m.r.ws].closing
  <2>1. CASE m.r.ws = Nothing BY <1>1, <2>1
  <2>2. CASE m.r.ws # Nothing
    <3>1. m.r.ws \in 1..Len(m.sockets) BY <1>1, <2>2 DEF Sound, Typed, Fields, Nothing
    <3>2. m.sockets[m.r.ws] \in SocketRecord BY <1>1, <3>1
    <3> DEFINE closed == [m.sockets[m.r.ws] EXCEPT !.closing = TRUE]
               gone == [closed EXCEPT !.detached = TRUE]
    <3>3. ss = [m.sockets EXCEPT ![m.r.ws] = gone] BY <1>1, <2>2, <3>1
    <3>4. gone \in SocketRecord /\ gone.closing BY <3>2 DEF SocketRecord
    <3> HIDE DEF gone, ss
    <3> QED BY <1>1, <3>1, <3>3, <3>4, Updating
  <2> QED BY <2>1, <2>2
<1>6. w \in Worlds BY <1>1, <1>3, <1>4, <1>5 DEF Worlds
<1>7. Typed(w) BY <1>1, <1>4, <1>5, <1>6 DEF Typed, Nothing
<1>8. Attended(w) BY <1>1, <1>5 DEF Sound, Attended
<1>9. w.r.deliberate /\ Off(w) /\ ~UpIn(w) BY DEF Off, UpIn
<1> HIDE DEF w
<1> QED BY <1>2, <1>7, <1>8, <1>9 DEF Sound

-----------------------------------------------------------------------------
(* How a handler may change what Transport sees: the owner makes a         *)
(* request, ends it with the socket gone, or keeps its mind, when a socket *)
(* may open only if one is wanted.                                         *)
Moves(m) ==
  \/ ~m.r.deliberate /\ (UpIn(m) <=> UpIn(Now))
  \/ m.r.deliberate /\ ~UpIn(m)
  \/ /\ m.r.deliberate = r.deliberate
     /\ ~UpIn(m) \/ (UpIn(m) <=> UpIn(Now)) \/ ~r.deliberate

AbstractStep == [Abstract!Next]_(Abstract!vars)

(* What a handler leaves sound, its step keeps, and Transport takes the    *)
(* step too.                                                               *)
LEMMA Becoming ==
  ASSUME IInv, NEW m, Sound(m), Moves(m), Becomes(m), connects' \in 0..MaxConnects
  PROVE  IInv' /\ AbstractStep
<1>1. Now' = [r |-> m.r, sockets |-> m.sockets, timers |-> m.timers, promises |-> m.promises]
  BY DEF Becomes, Now
<1>2. m = [r |-> m.r, sockets |-> m.sockets, timers |-> m.timers, promises |-> m.promises]
  BY DEF Sound, Typed, Worlds
<1>3. Sound(Now)' <=> Sound(m)
  BY <1>1, <1>2 DEF Sound, Typed, Off, Attended, Now
<1>4. r'.deliberate = m.r.deliberate /\ (Up <=> UpIn(Now)) /\ (Up' <=> UpIn(m))
  BY DEF Becomes, Up, IsOpen, UpIn, Now
<1>5. r.deliberate \in BOOLEAN /\ m.r.deliberate \in BOOLEAN
  BY DEF IInv, Sound, Typed, Worlds, Fields, Now
<1>6. AbstractStep
  <2> DEFINE w == ~r.deliberate
             x == ~r'.deliberate
             u == Up
             v == Up'
  <2>1. /\ \/ x /\ (v <=> u)
           \/ ~x /\ ~v
           \/ (x <=> w) /\ (~v \/ (v <=> u) \/ w)
        /\ w \in BOOLEAN /\ x \in BOOLEAN /\ u \in BOOLEAN /\ v \in BOOLEAN
    BY <1>4, <1>5 DEF Moves, Up
  <2>2. /\ (x = TRUE /\ v = u) => Abstract!Request
        /\ (x = FALSE /\ v = FALSE) => Abstract!Cease
        /\ (w /\ ~u /\ v = TRUE /\ x = w) => Abstract!Establish
        /\ (u /\ v = FALSE /\ x = w) => Abstract!Lose
        /\ (x = w /\ v = u) => UNCHANGED Abstract!vars
    BY DEF Abstract!Request, Abstract!Establish, Abstract!Lose, Abstract!Cease, Abstract!vars
  <2> HIDE DEF w, x, u, v
  <2>3. \/ x = TRUE /\ v = u
        \/ x = FALSE /\ v = FALSE
        \/ w /\ ~u /\ v = TRUE /\ x = w
        \/ u /\ v = FALSE /\ x = w
        \/ x = w /\ v = u
    BY <2>1
  <2> QED BY <2>2, <2>3 DEF AbstractStep, Abstract!Next
<1> QED BY <1>3, <1>6 DEF IInv, Becomes

(* What Transport does not see is no move.                                 *)
LEMMA Resting ==
  ASSUME NEW m, SameUp(m, Now) PROVE Moves(m)
BY DEF SameUp, Moves, Now

(* Hearing of an event changes nothing but what a socket has told.         *)
LEMMA Hearing ==
  ASSUME IInv, NEW i \in DOMAIN sockets, NEW event \in {"open", "close"}
  PROVE  /\ Sound(Told(i, event))
         /\ Told(i, event).r = r
         /\ event \in Told(i, event).sockets[i].told
         /\ Told(i, event).sockets \in Seq(SocketRecord)
         /\ DOMAIN Told(i, event).sockets = DOMAIN sockets
         /\ Moves(Told(i, event))
<1>1. /\ r \in Fields /\ sockets \in Seq(SocketRecord) /\ timers \in Seq(Nat)
      /\ promises \in Seq(Nat) /\ r.ws <= Len(sockets) /\ r.handle <= Len(timers)
  BY DEF IInv, Sound, Typed, Now, Worlds
<1> DEFINE ss == [sockets EXCEPT ![i].told = @ \cup {event}]
           w == [r |-> r, sockets |-> ss, timers |-> timers, promises |-> promises]
<1>2. Told(i, event) = w BY DEF Told, Now
<1>3. sockets[i] \in SocketRecord BY <1>1
<1>4. /\ ss \in Seq(SocketRecord) /\ DOMAIN ss = DOMAIN sockets /\ Len(ss) = Len(sockets)
      /\ \A j \in DOMAIN ss : ss[j].closing = sockets[j].closing
      /\ \A j \in DOMAIN ss : "close" \in sockets[j].told => "close" \in ss[j].told
      /\ event \in ss[i].told
      /\ \A j \in DOMAIN ss : j # i => ss[j] = sockets[j]
  <2> DEFINE more == [sockets[i] EXCEPT !.told = @ \cup {event}]
  <2>1. /\ more \in SocketRecord /\ more.closing = sockets[i].closing
        /\ more.told = sockets[i].told \cup {event}
    BY <1>3 DEF SocketRecord
  <2>2. ss = [sockets EXCEPT ![i] = more] OBVIOUS
  <2> HIDE DEF more, ss
  <2> QED BY <1>1, <2>1, <2>2, Updating
<1> HIDE DEF ss
<1>5. w \in Worlds BY <1>1, <1>4 DEF Worlds
<1>6. Typed(w) BY <1>1, <1>4, <1>5 DEF Typed
<1>7. Attended(w) BY <1>4 DEF Attended, IInv, Sound, Now
<1>8. w.r.deliberate => Off(w) BY DEF Off, IInv, Sound, Now
<1>9. Moves(w)
  <2>1. r.deliberate => r.ws = Nothing BY DEF IInv, Sound, Off, Now
  <2>2. r.ws # Nothing => r.ws \in DOMAIN ss BY <1>1, <1>4 DEF Fields, Nothing
  <2>3. CASE r.ws # i
    <3>1. UpIn(w) <=> UpIn(Now) BY <1>4, <2>2, <2>3 DEF UpIn, Now
    <3> QED BY <3>1 DEF Moves
  <2>4. CASE r.ws = i /\ ~r.deliberate BY <2>4 DEF Moves
  <2>5. CASE r.ws = i /\ r.deliberate
    <3>1. ~UpIn(w) BY <2>1, <2>5 DEF UpIn
    <3> QED BY <3>1 DEF Moves
  <2> QED BY <2>3, <2>4, <2>5
<1> QED BY <1>2, <1>4, <1>6, <1>7, <1>8, <1>9 DEF Sound

(* A callback that came back is struck off, whatever else it does.         *)
LEMMA Striking ==
  ASSUME IInv, NEW h \in {r.handle, Nothing}, NEW i
  PROVE  /\ Sound([Now EXCEPT !.timers[i] = Done, !.r.handle = h])
         /\ Sound([Now EXCEPT !.timers[i] = Done])
         /\ Sound([Now EXCEPT !.promises[i] = Done])
         /\ [Now EXCEPT !.timers[i] = Done, !.r.handle = h].r.deliberate = r.deliberate
         /\ [Now EXCEPT !.promises[i] = Done].r.deliberate = r.deliberate
         /\ SameUp([Now EXCEPT !.timers[i] = Done, !.r.handle = h], Now)
         /\ SameUp([Now EXCEPT !.timers[i] = Done], Now)
         /\ SameUp([Now EXCEPT !.promises[i] = Done], Now)
<1>1. /\ r \in Fields /\ sockets \in Seq(SocketRecord) /\ timers \in Seq(Nat)
      /\ promises \in Seq(Nat) /\ r.ws <= Len(sockets) /\ r.handle <= Len(timers)
      /\ (r.deliberate => r.ws = Nothing /\ r.handle = Nothing /\ r.status = "disconnected")
      /\ \A j \in DOMAIN sockets : j # r.ws => sockets[j].closing \/ "close" \in sockets[j].told
  BY DEF IInv, Sound, Typed, Now, Worlds, Off, Attended
<1> DEFINE ts == [timers EXCEPT ![i] = Done]
           ps == [promises EXCEPT ![i] = Done]
           f == [r EXCEPT !.handle = h]
<1>2. ts \in Seq(Nat) /\ Len(ts) = Len(timers) /\ ps \in Seq(Nat)
  <2>1. Done \in Nat BY DEF Done
  <2>2. ts \in Seq(Nat) /\ Len(ts) = Len(timers)
    <3>1. timers \in Seq(Nat) BY <1>1
    <3> HIDE DEF ps, f
    <3>2. [timers EXCEPT ![i] = Done] \in Seq(Nat) BY <3>1, <2>1, Updating, Zenon
    <3>3. Len([timers EXCEPT ![i] = Done]) = Len(timers) BY <3>1, <3>2
    <3> QED BY <3>2, <3>3, Zenon DEF ts
  <2>3. ps \in Seq(Nat)
    <3>1. promises \in Seq(Nat) BY <1>1
    <3> HIDE DEF ts, f
    <3> QED BY <3>1, <2>1, Updating, Zenon DEF ps
  <2> QED BY <2>2, <2>3
<1>0. h \in Nat /\ h <= Len(timers) BY <1>1 DEF Fields, Nothing
<1>3. /\ f \in Fields /\ f.ws = r.ws /\ f.handle = h /\ f.deliberate = r.deliberate
      /\ f.status = r.status /\ h <= Len(timers)
  BY <1>0, <1>1 DEF Fields
<1> HIDE DEF ts, ps, f
<1>4. ASSUME NEW g \in {r, f}, NEW tt \in {ts, timers}, NEW pp \in {ps, promises}
      PROVE  LET w == [r |-> g, sockets |-> sockets, timers |-> tt, promises |-> pp]
             IN  Sound(w) /\ SameUp(w, Now)
  <2> DEFINE w == [r |-> g, sockets |-> sockets, timers |-> tt, promises |-> pp]
  <2>1. w \in Worlds BY <1>1, <1>2, <1>3 DEF Worlds
  <2>2. Typed(w) BY <1>1, <1>2, <1>3, <2>1 DEF Typed
  <2>3. Attended(w) BY <1>1, <1>3 DEF Attended
  <2>4. w.r.deliberate => Off(w) BY <1>1, <1>3 DEF Off, Nothing
  <2>5. SameUp(w, Now) BY <1>3 DEF SameUp, UpIn, Now
  <2> QED BY <2>2, <2>3, <2>4, <2>5 DEF Sound
<1>5. /\ [Now EXCEPT !.timers[i] = Done, !.r.handle = h]
           = [r |-> f, sockets |-> sockets, timers |-> ts, promises |-> promises]
      /\ [Now EXCEPT !.timers[i] = Done]
           = [r |-> r, sockets |-> sockets, timers |-> ts, promises |-> promises]
      /\ [Now EXCEPT !.promises[i] = Done]
           = [r |-> r, sockets |-> sockets, timers |-> timers, promises |-> ps]
  <2> USE DEF f, ts, ps
  <2>1. Now \in Worlds BY DEF IInv, Sound, Typed
  <2>2. /\ [Now EXCEPT !.timers[i] = Done]
             = [r |-> r, sockets |-> sockets, timers |-> ts, promises |-> promises]
        /\ [Now EXCEPT !.promises[i] = Done]
             = [r |-> r, sockets |-> sockets, timers |-> timers, promises |-> ps]
    BY DEF Now
  <2>3. [Now EXCEPT !.timers[i] = Done, !.r.handle = h]
          = [[Now EXCEPT !.timers[i] = Done] EXCEPT !.r =
               [[Now EXCEPT !.timers[i] = Done].r EXCEPT !.handle = h]]
    OBVIOUS
  <2>4. [Now EXCEPT !.timers[i] = Done].r = r BY <2>2
  <2>5. [[Now EXCEPT !.timers[i] = Done] EXCEPT !.r = f]
          = [r |-> f, sockets |-> sockets, timers |-> ts, promises |-> promises]
    <3> HIDE DEF f, ts
    <3> DEFINE x == [Now EXCEPT !.timers[i] = Done]
    <3>1. x = [r |-> r, sockets |-> sockets, timers |-> ts, promises |-> promises] BY <2>2
    <3> HIDE DEF x
    <3>2. [x EXCEPT !.r = f] = [r |-> f, sockets |-> sockets, timers |-> ts, promises |-> promises]
      BY <3>1
    <3> QED BY <3>2 DEF x
  <2> QED BY <2>2, <2>3, <2>4, <2>5, Zenon
<1> QED BY <1>3, <1>4, <1>5

-----------------------------------------------------------------------------
(* An object nobody has used yet is sound.                                 *)
LEMMA Start == Init => IInv
<1> SUFFICES ASSUME Init PROVE IInv OBVIOUS
<1>1. r \in Fields BY SocketAssumption DEF Init, Fields, Nothing, Stati
<1>2. Now \in Worlds BY <1>1 DEF Init, Now, Worlds
<1>3. Typed(Now) BY <1>2 DEF Init, Typed, Now, Nothing
<1>4. Attended(Now) BY DEF Init, Attended, Now
<1>5. Off(Now) BY DEF Init, Off, Now, Nothing
<1> QED BY <1>3, <1>4, <1>5, SocketAssumption DEF Init, IInv, Sound

(* The calls of the owner.                                                 *)
LEMMA OwnerSteps == ASSUME IInv, OwnerStep PROVE IInv' /\ AbstractStep
<1>0. /\ Sound(Now) /\ connects \in 0..MaxConnects /\ Now \in Worlds
      /\ r \in Fields /\ sockets \in Seq(SocketRecord) /\ timers \in Seq(Nat)
      /\ promises \in Seq(Nat)
  BY DEF IInv, Sound, Typed, Now, Worlds
<1>1. CASE Connect
  <2> DEFINE f == [r EXCEPT !.deliberate = FALSE]
             m == [r |-> f, sockets |-> sockets, timers |-> timers, promises |-> promises]
  <2>1. [Now EXCEPT !.r.deliberate = FALSE] = m
    <3>1. [Now EXCEPT !.r.deliberate = FALSE] = [Now EXCEPT !.r = [Now.r EXCEPT !.deliberate = FALSE]]
      OBVIOUS
    <3> QED BY <1>0, <3>1, Refielding DEF Now
  <2>2. /\ f \in Fields /\ f.ws = r.ws /\ f.handle = r.handle /\ ~f.deliberate
    BY <1>0 DEF Fields
  <2>3. m \in Worlds BY <1>0, <2>2 DEF Worlds
  <2>4. Sound(m) /\ ~m.r.deliberate
    BY <1>0, <2>2, <2>3 DEF Sound, Typed, Attended, Now
  <2>5. Sound(OpenSocket(m)) /\ Moves(OpenSocket(m))
    <3>1. UpIn(m) <=> UpIn(Now) BY <2>2 DEF UpIn, Now
    <3> HIDE DEF m
    <3>2. Sound(OpenSocket(m)) /\ ~OpenSocket(m).r.deliberate /\ SameUp(OpenSocket(m), m)
      BY <2>4, Opening
    <3> QED BY <3>1, <3>2 DEF SameUp, Moves
  <2>6. Becomes(OpenSocket(m)) BY <1>1, <2>1 DEF Connect
  <2>7. connects' \in 0..MaxConnects BY <1>0, <1>1, SocketAssumption DEF Connect
  <2> QED BY <2>5, <2>6, <2>7, Becoming
<1>2. CASE Disconnect
  <2>1. PICK honoured \in BOOLEAN : Becomes(DisconnectOn(Now, honoured)) BY <1>2 DEF Disconnect
  <2>2. Sound(DisconnectOn(Now, honoured)) /\ Moves(DisconnectOn(Now, honoured))
    BY <1>0, Disconnecting DEF Moves
  <2> QED BY <1>0, <1>2, <2>1, <2>2, Becoming DEF Disconnect
<1>3. CASE SimulateConnectionLoss
  <2> DEFINE ss == [sockets EXCEPT ![r.ws].closing = TRUE]
             m == [r |-> r, sockets |-> ss, timers |-> timers, promises |-> promises]
  <2>1. [Now EXCEPT !.sockets[r.ws].closing = TRUE] = m BY DEF Now
  <2>2. r.ws \in DOMAIN sockets
    BY <1>0, <1>3 DEF SimulateConnectionLoss, Sound, Typed, Now, Fields, Nothing
  <2>3. sockets[r.ws] \in SocketRecord BY <1>0, <2>2
  <2>4. /\ ss \in Seq(SocketRecord) /\ DOMAIN ss = DOMAIN sockets /\ Len(ss) = Len(sockets)
        /\ \A j \in DOMAIN ss : j # r.ws => ss[j] = sockets[j]
        /\ ss[r.ws].told = sockets[r.ws].told
    <3> DEFINE closed == [sockets[r.ws] EXCEPT !.closing = TRUE]
    <3>1. closed \in SocketRecord /\ closed.told = sockets[r.ws].told
      BY <2>3 DEF SocketRecord
    <3>2. ss = [sockets EXCEPT ![r.ws] = closed] OBVIOUS
    <3> HIDE DEF closed, ss
    <3> QED BY <1>0, <2>2, <3>1, <3>2, Updating
  <2> HIDE DEF ss
  <2>5. m \in Worlds BY <1>0, <2>4 DEF Worlds
  <2>6. Sound(m) BY <1>0, <2>4, <2>5 DEF Sound, Typed, Attended, Off, Now
  <2>7. Moves(m)
    <3>1. SameUp(m, Now) BY <2>4 DEF SameUp, UpIn, Now
    <3> HIDE DEF m
    <3> QED BY <3>1, Resting
  <2> QED BY <1>0, <1>3, <2>1, <2>6, <2>7, Becoming DEF SimulateConnectionLoss
<1> QED BY <1>1, <1>2, <1>3 DEF OwnerStep

(* The events of a socket.                                                 *)
LEMMA SocketSteps ==
  ASSUME IInv, NEW i \in DOMAIN sockets, SocketStep(i) PROVE IInv' /\ AbstractStep
<1>0. connects \in 0..MaxConnects /\ sockets \in Seq(SocketRecord) /\ r \in Fields
  BY DEF IInv, Sound, Typed, Now, Worlds
<1>1. CASE SocketOpens(i)
  <2> DEFINE m == Told(i, "open")
             f0 == [m.r EXCEPT !.attempts = 0]
             f == [f0 EXCEPT !.status = "connected"]
             w == [r |-> f, sockets |-> m.sockets, timers |-> m.timers, promises |-> m.promises]
  <2>1. Sound(m) /\ m.r = r /\ connects' = connects /\ Moves(m)
    BY <1>1, Hearing DEF SocketOpens, Tell
  <2>2. CASE sockets[i].detached \/ r.ws # i \/ r.deliberate
    BY <1>0, <1>1, <2>1, <2>2, Becoming DEF SocketOpens
  <2>3. CASE ~(sockets[i].detached \/ r.ws # i \/ r.deliberate)
    <3>1. m \in Worlds BY <2>1 DEF Sound, Typed
    <3>2. [m EXCEPT !.r.attempts = 0, !.r.status = "connected"] = w
      <4>1. [m EXCEPT !.r.attempts = 0, !.r.status = "connected"]
              = [[m EXCEPT !.r = f0] EXCEPT !.r = [[m EXCEPT !.r = f0].r EXCEPT !.status = "connected"]]
        OBVIOUS
      <4>2. [m EXCEPT !.r = f0].r = f0 BY <3>1 DEF Worlds
      <4>3. [[m EXCEPT !.r = f0] EXCEPT !.r = [f0 EXCEPT !.status = "connected"]] = w
        <5> HIDE DEF f, f0
        <5> DEFINE x == [m EXCEPT !.r = f0]
        <5>1. x = [r |-> f0, sockets |-> m.sockets, timers |-> m.timers, promises |-> m.promises]
          BY <3>1, Refielding
        <5> HIDE DEF x, m
        <5>2. [x EXCEPT !.r = f] = w BY <5>1
        <5> QED BY <5>2 DEF f, x
      <4> QED BY <4>1, <4>2, <4>3, Zenon
    <3>3. /\ f \in Fields /\ f.ws = m.r.ws /\ f.handle = m.r.handle
          /\ f.deliberate = m.r.deliberate
      <4>1. /\ f0 \in Fields /\ f0.ws = m.r.ws /\ f0.handle = m.r.handle
            /\ f0.deliberate = m.r.deliberate
        BY <1>0, <2>1, SocketAssumption DEF Fields
      <4> QED BY <4>1 DEF Fields, Stati
    <3>4. w \in Worlds BY <3>1, <3>3 DEF Worlds
    <3>5. Sound(w) BY <2>1, <2>3, <3>3, <3>4 DEF Sound, Typed, Attended
    <3>6. Becomes(w) BY <1>1, <2>3, <3>2 DEF SocketOpens
    <3>7. Moves(w) BY <2>1, <2>3, <3>3 DEF Moves
    <3> HIDE DEF w
    <3> QED BY <1>0, <2>1, <3>5, <3>6, <3>7, Becoming
  <2> QED BY <2>2, <2>3
<1>2. CASE SocketCloses(i)
  <2> DEFINE m == Told(i, "close")
             f == [m.r EXCEPT !.ws = Nothing]
             w == [r |-> f, sockets |-> m.sockets, timers |-> m.timers, promises |-> m.promises]
  <2>1. /\ Sound(m) /\ m.r = r /\ connects' = connects /\ "close" \in m.sockets[i].told
        /\ DOMAIN m.sockets = DOMAIN sockets /\ Moves(m)
    BY <1>2, Hearing DEF SocketCloses, Tell
  <2>2. CASE sockets[i].detached \/ r.ws # i
    BY <1>0, <1>2, <2>1, <2>2, Becoming DEF SocketCloses
  <2>3. CASE ~(sockets[i].detached \/ r.ws # i)
    <3>1. m \in Worlds /\ m.r.ws <= Len(m.sockets) /\ m.r.handle <= Len(m.timers)
      BY <2>1 DEF Sound, Typed
    <3>2. [m EXCEPT !.r.ws = Nothing] = w
      <4>1. [m EXCEPT !.r.ws = Nothing] = [m EXCEPT !.r = [m.r EXCEPT !.ws = Nothing]] OBVIOUS
      <4> QED BY <3>1, <4>1, Refielding
    <3>3. f \in Fields /\ f.ws = Nothing /\ f.handle = m.r.handle /\ f.deliberate = r.deliberate
      BY <1>0, <2>1 DEF Fields, Nothing
    <3>4. w \in Worlds BY <3>1, <3>3 DEF Worlds
    <3>5. ~r.deliberate
      BY <1>0, <2>3 DEF IInv, Sound, Off, Now, Nothing
    <3>6. Typed(w)
      <4> HIDE DEF f
      <4>1. Len(m.sockets) \in Nat BY <3>1 DEF Worlds
      <4> QED BY <3>1, <3>3, <3>4, <4>1 DEF Typed, Nothing
    <3>7. Attended(w) BY <2>1, <2>3, <3>3 DEF Sound, Attended
    <3>8. Sound(w) /\ ~w.r.deliberate BY <3>3, <3>5, <3>6, <3>7 DEF Sound
    <3>9. \/ Becomes(ScheduleReconnect(w))
          \/ \E honoured \in BOOLEAN : Becomes(DisconnectOn(w, honoured))
      BY <1>2, <2>3, <3>2 DEF SocketCloses
    <3>12. ~UpIn(w) BY <3>3 DEF UpIn
    <3>13. w.r.deliberate = r.deliberate BY <3>3
    <3> HIDE DEF w
    <3>10. Sound(ScheduleReconnect(w)) /\ Moves(ScheduleReconnect(w))
      <4>1. Sound(ScheduleReconnect(w)) /\ SameUp(ScheduleReconnect(w), w)
        BY <3>8, Scheduling
      <4> QED BY <3>12, <3>13, <4>1 DEF SameUp, Moves
    <3>11. \A honoured \in BOOLEAN :
             Sound(DisconnectOn(w, honoured)) /\ Moves(DisconnectOn(w, honoured))
      BY <3>8, Disconnecting DEF Moves
    <3> QED BY <1>0, <2>1, <3>9, <3>10, <3>11, Becoming
  <2> QED BY <2>2, <2>3
<1> QED BY <1>1, <1>2 DEF SocketStep

(* A timer fires.                                                          *)
LEMMA TimerSteps ==
  ASSUME IInv, NEW i \in DOMAIN timers, TimerStep(i) PROVE IInv' /\ AbstractStep
<1> DEFINE m == [Now EXCEPT !.timers[i] = Done]
           w == [Now EXCEPT !.timers[i] = Done, !.r.handle = Nothing]
<1>1. connects' = connects /\ connects \in 0..MaxConnects BY DEF TimerStep, TimerFires, IInv
<1>2. /\ Sound(m) /\ Sound(w) /\ w.r.deliberate = r.deliberate
      /\ SameUp(m, Now) /\ SameUp(w, Now)
  BY Striking
<1>3. CASE timers[i] # r.gen \/ r.deliberate
  <2>1. Becomes(m) BY <1>3 DEF TimerStep, TimerFires
  <2> HIDE DEF m
  <2> QED BY <1>1, <1>2, <2>1, Resting, Becoming
<1>4. CASE ~(timers[i] # r.gen \/ r.deliberate)
  <2>1. Sound(OpenSocket(w)) /\ SameUp(OpenSocket(w), w) BY <1>2, <1>4, Opening
  <2>4. Moves(OpenSocket(w))
    <3> HIDE DEF w
    <3>1. SameUp(OpenSocket(w), Now) BY <1>2, <2>1 DEF SameUp
    <3> QED BY <3>1, Resting
  <2>2. [m EXCEPT !.r.handle = Nothing] = w BY DEF Now
  <2>3. Becomes(OpenSocket(w)) BY <1>4, <2>2 DEF TimerStep, TimerFires
  <2> HIDE DEF w
  <2> QED BY <1>1, <2>1, <2>3, <2>4, Becoming
<1> QED BY <1>3, <1>4

(* A promise of resolveUrl settles.                                        *)
LEMMA PromiseSteps ==
  ASSUME IInv, NEW i \in DOMAIN promises, PromiseStep(i) PROVE IInv' /\ AbstractStep
<1> DEFINE m == Settled(i)
<1>1. connects' = connects /\ connects \in 0..MaxConnects
  BY DEF PromiseStep, PromiseResolves, PromiseRejects, IInv
<1>2. Sound(m) /\ m.r.deliberate = r.deliberate /\ SameUp(m, Now) BY Striking DEF Settled
<1>3. CASE Overtaken(i)
  <2>1. Becomes(m) BY <1>3 DEF PromiseStep, PromiseResolves, PromiseRejects
  <2> HIDE DEF m
  <2> QED BY <1>1, <1>2, <2>1, Resting, Becoming
<1>4. CASE ~Overtaken(i)
  <2>1. ~m.r.deliberate BY <1>2, <1>4 DEF Overtaken
  <2>2. Sound(CreateSocket(m)) /\ SameUp(CreateSocket(m), m) BY <1>2, <2>1, Creating
  <2>3. Sound(ScheduleReconnect(m)) /\ SameUp(ScheduleReconnect(m), m)
    BY <1>2, <2>1, Scheduling
  <2>5. SameUp(CreateSocket(m), Now) /\ SameUp(ScheduleReconnect(m), Now)
    <3> HIDE DEF m
    <3> QED BY <1>2, <2>2, <2>3 DEF SameUp
  <2>4. Becomes(CreateSocket(m)) \/ Becomes(ScheduleReconnect(m))
    BY <1>4 DEF PromiseStep, PromiseResolves, PromiseRejects
  <2> HIDE DEF m
  <2> QED BY <1>1, <2>2, <2>3, <2>4, <2>5, Resting, Becoming
<1> QED BY <1>3, <1>4

(* Every step keeps the invariant and is one of Transport, or none.        *)
LEMMA Steps == IInv /\ [Next]_vars => IInv' /\ AbstractStep
<1> SUFFICES ASSUME IInv, [Next]_vars PROVE IInv' /\ AbstractStep OBVIOUS
<1>1. CASE Next
  BY <1>1, OwnerSteps, SocketSteps, TimerSteps, PromiseSteps DEF Next
<1>2. CASE UNCHANGED vars
  <2>1. IInv' BY <1>2 DEF vars, IInv, Sound, Typed, Off, Attended, Now
  <2>2. Abstract!vars' = Abstract!vars
    BY <1>2 DEF vars, Abstract!vars, Up, IsOpen
  <2> QED BY <2>1, <2>2 DEF AbstractStep
<1> QED BY <1>1, <1>2

(***************************************************************************)
(* Every variable keeps its type; whatever interleaves, the object is off  *)
(* while its owner wants it off and has lost no socket it made.            *)
(***************************************************************************)
THEOREM Invariance == Spec => []IInv
BY Start, Steps, PTL DEF Spec

(* Every variable keeps its type, and the ids the object holds are ids of  *)
(* things made.                                                            *)
THEOREM TypeCorrect == Spec => []TypeOK
<1>1. IInv => TypeOK
  BY SocketAssumption
  DEF IInv, Sound, Typed, Now, Worlds, Fields, SocketRecord, Stati, TypeOK
<1> QED BY <1>1, Invariance, PTL

(***************************************************************************)
(* FR-8: after disconnect() nothing queued before brings the connection    *)
(* back, whatever the factory, the scheduler and resolveUrl do.            *)
(***************************************************************************)
THEOREM DisconnectedStays == Spec => []StaysDisconnected
<1>1. IInv => StaysDisconnected BY DEF IInv, Sound, Off, Now, StaysDisconnected
<1> QED BY <1>1, Invariance, PTL

(***************************************************************************)
(* Each socket but the current one has closed or been told to.             *)
(***************************************************************************)
THEOREM LeakFree == Spec => []NoLeakedSocket
<1>1. IInv => NoLeakedSocket BY DEF IInv, Sound, Attended, Now, NoLeakedSocket
<1> QED BY <1>1, Invariance, PTL

(***************************************************************************)
(* The safety part of the refinement: whatever the owner, the sockets, the *)
(* timers and the promises do, and in whatever order, the object does only *)
(* what a Transport may.  That it goes on trying (the fairness of          *)
(* Establish) is left to the runs.                                         *)
(***************************************************************************)
THEOREM TransportRefined == Spec => Abstract!Spec
<1>1. Init => Abstract!Init
  BY DEF Init, Abstract!Init, Up
<1>2. IInv /\ [Next]_vars => [Abstract!Next]_(Abstract!vars) BY Steps DEF AbstractStep
<1> QED BY <1>1, <1>2, Invariance, PTL DEF Spec, Abstract!Spec
=============================================================================
