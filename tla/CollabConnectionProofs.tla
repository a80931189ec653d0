------------------------ MODULE CollabConnectionProofs ------------------------
(***************************************************************************)
(* Proofs about CollabConnection: the transport is off whenever it must    *)
(* be, and the subscriber gets its events in order, for any number of      *)
(* calls, frames and faults and any length of the buffer.                  *)
(***************************************************************************)
EXTENDS CollabConnection, FiniteSetTheorems, SequenceTheorems, WellFoundedInduction, TLAPS

(* A set of natural numbers has a least one.                               *)
LEMMA Smallest ==
  ASSUME NEW S, S \subseteq Nat, S # {}
  PROVE  \E i \in S : \A j \in S : i <= j
<1> DEFINE R == OpToRel(<, Nat)
<1>1. IsWellFoundedOn(R, Nat)  BY NatLessThanWellFounded
<1>2. \A p \in Nat \X Nat : p[1] < p[2] => p \in R  BY DEF OpToRel
<1> HIDE DEF R
<1>3. PICK x \in S : \A y \in S : ~ (<<y, x>> \in R)  BY <1>1, WFMin
<1>4. ASSUME NEW y \in S PROVE x <= y
  <2>1. <<y, x>> \in Nat \X Nat /\ <<y, x>>[1] = y /\ <<y, x>>[2] = x  OBVIOUS
  <2>2. ~(y < x)  BY <1>2, <1>3, <2>1
  <2> QED BY <2>2
<1> QED BY <1>4


Kinds == {"connected", "op", "session-closed", "denial", "disconnected"}

Conns ==
  [sock : {"off", "ticket", "opening", "open", "backoff"},
   status : {"disconnected", "connecting", "connected", "reconnecting"},
   sending : BOOLEAN, baseline : Nat, closed : BOOLEAN, denied : BOOLEAN,
   suspended : Nat, suspensions : Nat, timer : Nat, retry : Nat,
   probe : {"idle", "fetch", "wait", "pause"},
   phase : {"unheard", "draining", "subscribed", "closed"},
   queue : Seq(Events), arrived : Nat, seen : [last : Nat, inOrder : BOOLEAN]]

(* Suspensions are numbered, and what refers to one refers to one that was. *)
Numbered(d) ==
  d.suspended <= d.suspensions /\ d.timer <= d.suspensions /\ d.retry <= d.suspensions

Off(d) == Barred(d) => d.sock = "off" /\ ~d.sending

(***************************************************************************)
(* A late retry may resume whatever it still finds suspended: so what is   *)
(* closed or denied must not be suspended.                                 *)
(***************************************************************************)
NoWaitAfterTheEnd(d) == d.closed \/ d.denied => d.suspended = None

(***************************************************************************)
(* What is queued is in order and newer than what was delivered, and a     *)
(* subscriber that hears events at once has nothing queued.                *)
(***************************************************************************)
Increasing(q, low, high) ==
  /\ \A i \in DOMAIN q : low < q[i].n /\ q[i].n <= high
  /\ \A i, j \in DOMAIN q : i < j => q[i].n < q[j].n

InOrder(d) ==
  /\ d.seen.inOrder
  /\ d.seen.last <= d.arrived
  /\ Increasing(d.queue, d.seen.last, d.arrived)
  /\ d.phase \in {"subscribed", "closed"} => d.queue = <<>>

Sound(d) ==
  d \in Conns /\ Numbered(d) /\ Off(d) /\ NoWaitAfterTheEnd(d) /\ InOrder(d)

(* The descriptor of a stream is an event of it.                           *)
Based(d) == d.baseline <= d.arrived

IInv ==
  /\ Sound(c)
  /\ Based(c)
  /\ calls \in [Calls -> {"new", "wait", "sent", "done", "failed"}]
  /\ server \in [present : BOOLEAN, revoked : BOOLEAN, gone : BOOLEAN, farewell : BOOLEAN]

Grows(d, e) == e.baseline = d.baseline /\ e.arrived >= d.arrived

-----------------------------------------------------------------------------
(* Ending.                                                                 *)

(* SocketOff turns the socket off and stops the sender, nothing else.      *)
LEMMA Silencing ==
  ASSUME NEW d \in Conns
  PROVE  LET e == SocketOff(d) IN
         /\ e \in Conns /\ e.sock = "off" /\ ~e.sending
         /\ e.closed = d.closed /\ e.denied = d.denied /\ e.suspended = d.suspended
         /\ e.suspensions = d.suspensions /\ e.timer = d.timer /\ e.retry = d.retry
         /\ e.phase = d.phase /\ e.queue = d.queue /\ e.arrived = d.arrived /\ e.seen = d.seen
         /\ e.baseline = d.baseline
<1> DEFINE e1 == [d EXCEPT !.sock = "off"]
           e2 == [e1 EXCEPT !.status = "disconnected"]
           e3 == [e2 EXCEPT !.sending = FALSE]
           Same(e) ==
             /\ e.closed = d.closed /\ e.denied = d.denied /\ e.suspended = d.suspended
             /\ e.suspensions = d.suspensions /\ e.timer = d.timer /\ e.retry = d.retry
             /\ e.phase = d.phase /\ e.queue = d.queue /\ e.arrived = d.arrived /\ e.seen = d.seen
             /\ e.baseline = d.baseline
<1>1. e1 \in Conns /\ e1.sock = "off" /\ Same(e1) BY DEF Conns
<1>2. e2 \in Conns /\ e2.sock = "off" /\ Same(e2)
  <2> HIDE DEF e1
  <2> QED BY <1>1 DEF Conns
<1>3. e3 \in Conns /\ e3.sock = "off" /\ ~e3.sending /\ Same(e3)
  <2> HIDE DEF e2
  <2> QED BY <1>2 DEF Conns
<1>4. SocketOff(d) = e3 BY Zenon DEF SocketOff
<1> QED BY <1>3, <1>4, Zenon

(* CancelProbe drops the pause of the probe loop, nothing else.            *)
LEMMA Resting ==
  ASSUME NEW d \in Conns
  PROVE  LET e == CancelProbe(d) IN
         /\ e \in Conns /\ e.sock = d.sock /\ e.sending = d.sending
         /\ e.closed = d.closed /\ e.denied = d.denied /\ e.suspended = d.suspended
         /\ e.suspensions = d.suspensions /\ e.timer = d.timer /\ e.retry = d.retry
         /\ e.phase = d.phase /\ e.queue = d.queue /\ e.arrived = d.arrived /\ e.seen = d.seen
         /\ e.baseline = d.baseline
<1>1. CASE d.probe = "pause" BY <1>1 DEF CancelProbe, Conns
<1>2. CASE d.probe # "pause" BY <1>2 DEF CancelProbe
<1> QED BY <1>1, <1>2

(* StopWait ends the wait for the user session, nothing else.              *)
LEMMA Stopping ==
  ASSUME NEW d \in Conns
  PROVE  LET e == StopWait(d) IN
         /\ e \in Conns /\ e.sock = d.sock /\ e.sending = d.sending
         /\ e.closed = d.closed /\ e.denied = d.denied /\ e.suspended = None
         /\ e.suspensions = d.suspensions /\ e.timer = None /\ e.retry = d.retry
         /\ e.phase = d.phase /\ e.queue = d.queue /\ e.arrived = d.arrived /\ e.seen = d.seen
         /\ e.baseline = d.baseline
<1> DEFINE e1 == [d EXCEPT !.timer = None]
           e2 == [e1 EXCEPT !.suspended = None]
           Same(e) ==
             /\ e.sock = d.sock /\ e.sending = d.sending
             /\ e.closed = d.closed /\ e.denied = d.denied
             /\ e.suspensions = d.suspensions /\ e.retry = d.retry
             /\ e.phase = d.phase /\ e.queue = d.queue /\ e.arrived = d.arrived /\ e.seen = d.seen
             /\ e.baseline = d.baseline
<1>1. e1 \in Conns /\ e1.timer = None /\ Same(e1) BY DEF Conns, None
<1>2. e2 \in Conns /\ e2.timer = None /\ e2.suspended = None /\ Same(e2)
  <2> HIDE DEF e1
  <2> QED BY <1>1 DEF Conns, None
<1>3. StopWait(d) = e2 BY Zenon DEF StopWait
<1> QED BY <1>2, <1>3, Zenon

(* The close() of the connection, from any sound state.                    *)
LEMMA Closing ==
  ASSUME NEW d \in Conns, Sound(d)
  PROVE  Sound(CloseOn(d)) /\ CloseOn(d).closed /\ Grows(d, CloseOn(d))
<1>1. CASE d.closed BY <1>1 DEF CloseOn, Grows, Conns
<1>2. CASE ~d.closed
  <2> DEFINE e0 == CancelProbe(d)
             e1 == SocketOff(e0)
             e2 == StopWait(e1)
             e3 == [e2 EXCEPT !.closed = TRUE]
             e4 == [e3 EXCEPT !.queue = <<>>]
             e5 == [e4 EXCEPT !.phase = "closed"]
             Same(e) == /\ e.sock = "off" /\ ~e.sending /\ e.suspended = None /\ e.timer = None
                        /\ e.retry = d.retry /\ e.suspensions = d.suspensions
                        /\ e.arrived = d.arrived /\ e.seen = d.seen /\ e.baseline = d.baseline
  <2>1. e0 \in Conns BY Resting
  <2>2. e1 \in Conns BY <2>1, Silencing
  <2>3. e2 \in Conns /\ Same(e2)
    <3>1. /\ e0.retry = d.retry /\ e0.suspensions = d.suspensions /\ e0.arrived = d.arrived
          /\ e0.seen = d.seen /\ e0.baseline = d.baseline
      BY Resting
    <3>2. /\ e1.sock = "off" /\ ~e1.sending /\ e1.retry = e0.retry
          /\ e1.suspensions = e0.suspensions /\ e1.arrived = e0.arrived
          /\ e1.seen = e0.seen /\ e1.baseline = e0.baseline
      BY <2>1, Silencing
    <3> HIDE DEF e1, e0
    <3> QED BY <2>2, <3>1, <3>2, Stopping
  <2>4. e3 \in Conns /\ Same(e3) /\ e3.closed
    <3> HIDE DEF e2
    <3> QED BY <2>3 DEF Conns
  <2>5. e4 \in Conns /\ Same(e4) /\ e4.closed /\ e4.queue = <<>>
    <3> HIDE DEF e3
    <3>1. <<>> \in Seq(Events) OBVIOUS
    <3> QED BY <2>4, <3>1 DEF Conns
  <2>6. e5 \in Conns /\ Same(e5) /\ e5.closed /\ e5.queue = <<>>
    <3> HIDE DEF e4
    <3> QED BY <2>5 DEF Conns
  <2>7. CloseOn(d) = e5 BY <1>2, Zenon DEF CloseOn
  <2> HIDE DEF e5
  <2>8. Numbered(e5) /\ Off(e5) /\ NoWaitAfterTheEnd(e5)
    BY <2>6 DEF Numbered, Off, NoWaitAfterTheEnd, Sound, Conns, None
  <2>9. InOrder(e5) BY <2>6 DEF InOrder, Increasing, Sound
  <2>10. Grows(d, e5) BY <2>6 DEF Grows, Conns
  <2> QED BY <2>6, <2>7, <2>8, <2>9, <2>10 DEF Sound
<1> QED BY <1>1, <1>2

-----------------------------------------------------------------------------
(* Events.                                                                 *)

(* The last delivered event of a record, replaced.                         *)
LEMMA Repeating ==
  ASSUME NEW a, NEW b, NEW x
  PROVE  [[last |-> a, inOrder |-> b] EXCEPT !.last = x] = [last |-> x, inOrder |-> b]
OBVIOUS

(* Delivering what is newer than all before and older than all queued.     *)
LEMMA Delivering ==
  ASSUME NEW d \in Conns, Sound(d), NEW event \in Events,
         d.seen.last < event.n, event.n <= d.arrived, Increasing(d.queue, event.n, d.arrived)
  PROVE  Sound(Deliver(d, event)) /\ Grows(d, Deliver(d, event))
<1> DEFINE more == [last |-> event.n, inOrder |-> TRUE]
           told == [d EXCEPT !.seen = more]
<1>1. more \in [last : Nat, inOrder : BOOLEAN] BY DEF Events
<1>2. /\ told \in Conns /\ told.seen = more /\ told.arrived = d.arrived
      /\ told.baseline = d.baseline /\ told.queue = d.queue /\ told.phase = d.phase
      /\ told.sock = d.sock /\ told.sending = d.sending /\ told.closed = d.closed
      /\ told.denied = d.denied /\ told.suspended = d.suspended
      /\ told.suspensions = d.suspensions /\ told.timer = d.timer /\ told.retry = d.retry
  BY <1>1 DEF Conns
<1>3. [d EXCEPT !.seen.last = event.n, !.seen.inOrder = @ /\ event.n > d.seen.last] = told
  <2> DEFINE s1 == [d.seen EXCEPT !.last = event.n]
             d1 == [d EXCEPT !.seen = s1]
             s2 == [s1 EXCEPT !.inOrder = s1.inOrder /\ event.n > d.seen.last]
  <2>1. d.seen \in [last : Nat, inOrder : BOOLEAN] /\ d.seen.inOrder = TRUE /\ event.n > d.seen.last
    BY DEF Conns, Sound, InOrder, Events
  <2>2. s1 = more /\ s2 = more
    <3> DEFINE s0 == d.seen
    <3>1. s0 = [last |-> s0.last, inOrder |-> TRUE] BY <2>1
    <3>2. s1 = more
      <4> HIDE DEF s0
      <4>1. [[last |-> s0.last, inOrder |-> TRUE] EXCEPT !.last = event.n]
              = [last |-> event.n, inOrder |-> TRUE]
        BY Repeating
      <4>2. [s0 EXCEPT !.last = event.n] = [last |-> event.n, inOrder |-> TRUE]
        BY <3>1, <4>1, Zenon
      <4> QED BY <4>2 DEF s0
    <3>3. (s1.inOrder /\ event.n > d.seen.last) = TRUE BY <2>1, <3>2
    <3>4. s2 = [s1 EXCEPT !.inOrder = TRUE] BY <3>3, Zenon
    <3>5. s2 = more
      <4> HIDE DEF s1, s2
      <4> QED BY <3>2, <3>4
    <3> QED BY <3>2, <3>5
  <2>3. d1.seen = s1 /\ [d1 EXCEPT !.seen = more] = told
    <3> HIDE DEF s1, more
    <3> QED BY DEF Conns
  <2>4. [d EXCEPT !.seen.last = event.n, !.seen.inOrder = @ /\ event.n > d.seen.last]
          = [d1 EXCEPT !.seen = [d1.seen EXCEPT !.inOrder = d1.seen.inOrder /\ event.n > d.seen.last]]
    BY Zenon
  <2> QED BY <2>2, <2>3, <2>4, Zenon
<1>5. Deliver(d, event) = IF event.kind = "session-closed" THEN CloseOn(told) ELSE told
  <2> DEFINE t == [d EXCEPT !.seen.last = event.n, !.seen.inOrder = @ /\ event.n > d.seen.last]
  <2>1. Deliver(d, event) = IF event.kind = "session-closed" THEN CloseOn(t) ELSE t
    BY Zenon DEF Deliver
  <2> HIDE DEF t, told
  <2>2. t = told BY <1>3 DEF t
  <2> QED BY <2>1, <2>2
<1> HIDE DEF told
<1>4. Sound(told)
  <2>1. Numbered(told) /\ Off(told) /\ NoWaitAfterTheEnd(told)
    BY <1>2 DEF Numbered, Off, Barred, NoWaitAfterTheEnd, Sound
  <2>2. InOrder(told) BY <1>2 DEF InOrder, Sound
  <2> QED BY <1>2, <2>1, <2>2 DEF Sound
<1>6. Grows(d, told) BY <1>2 DEF Grows, Conns
<1>7. Sound(CloseOn(told)) /\ Grows(told, CloseOn(told)) BY <1>2, <1>4, Closing
<1>8. CloseOn(told) \in Conns BY <1>7 DEF Sound
<1>9. Grows(d, CloseOn(told)) BY <1>2, <1>6, <1>7, <1>8 DEF Grows, Conns
<1> QED BY <1>4, <1>5, <1>6, <1>7, <1>9

(* Whatever element the full buffer gives up, the rest stays in order.     *)
LEMMA Evicting ==
  ASSUME NEW q \in Seq(Events), NEW low \in Nat, NEW high \in Nat, Increasing(q, low, high)
  PROVE  Evict(q) \in Seq(Events) /\ Increasing(Evict(q), low, high)
<1>1. CASE Len(q) <= Cap BY <1>1 DEF Evict
<1> DEFINE ops == {i \in DOMAIN q : q[i].kind = "op"}
<1>2. ASSUME Len(q) > Cap, NEW k \in DOMAIN q
      PROVE  RemoveAt(q, k) \in Seq(Events) /\ Increasing(RemoveAt(q, k), low, high)
  <2> DEFINE e == RemoveAt(q, k)
             at(i) == IF i < k THEN i ELSE i + 1
  <2>1. /\ e \in Seq(Events) /\ Len(e) = Len(q) - 1
        /\ \A i \in 1..(Len(q) - 1) : e[i] = q[at(i)]
    <3>1. k \in 1..Len(q) /\ Len(q) \in Nat OBVIOUS
    <3> DEFINE a == SubSeq(q, 1, k - 1)
               b == SubSeq(q, k + 1, Len(q))
    <3>2. a \in Seq(Events) /\ Len(a) = k - 1 /\ \A i \in 1..(k - 1) : a[i] = q[i]
      BY <3>1
    <3>3. /\ b \in Seq(Events) /\ Len(b) = Len(q) - k
          /\ \A i \in 1..(Len(q) - k) : b[i] = q[k + i]
      BY <3>1
    <3> HIDE DEF a, b
    <3>4. /\ a \o b \in Seq(Events) /\ Len(a \o b) = Len(q) - 1
          /\ \A i \in 1..(Len(q) - 1) : (a \o b)[i] = IF i < k THEN a[i] ELSE b[i - (k - 1)]
      <4>1. /\ a \o b \in Seq(Events) /\ Len(a \o b) = Len(a) + Len(b)
            /\ \A i \in 1..(Len(a) + Len(b)) :
                 (a \o b)[i] = IF i <= Len(a) THEN a[i] ELSE b[i - Len(a)]
        BY <3>2, <3>3, ConcatProperties
      <4>2. Len(a) + Len(b) = Len(q) - 1 BY <3>1, <3>2, <3>3
      <4>3. \A i \in 1..(Len(q) - 1) : i <= Len(a) <=> i < k BY <3>1, <3>2
      <4> QED BY <3>2, <4>1, <4>2, <4>3
    <3>5. e = a \o b BY DEF RemoveAt, a, b
    <3>6. ASSUME NEW i \in 1..(Len(q) - 1) PROVE (a \o b)[i] = q[at(i)]
      <4>1. CASE i < k BY <3>1, <3>2, <3>4, <4>1
      <4>2. CASE ~(i < k)
        <5>1. i - (k - 1) \in 1..(Len(q) - k) /\ k + (i - (k - 1)) = i + 1 BY <3>1, <4>2
        <5> QED BY <3>1, <3>3, <3>4, <4>2, <5>1
      <4> QED BY <4>1, <4>2
    <3> HIDE DEF e, at
    <3> QED BY <3>4, <3>5, <3>6
  <2>2. DOMAIN e = 1..(Len(q) - 1) /\ DOMAIN q = 1..Len(q) BY <2>1
  <2>3. \A i \in DOMAIN e : at(i) \in DOMAIN q BY <2>2
  <2>4. \A i, j \in DOMAIN e : i < j => at(i) < at(j) BY <2>2
  <2> HIDE DEF e, at
  <2> QED BY <2>1, <2>2, <2>3, <2>4 DEF Increasing, e
<1>3. CASE Len(q) > Cap /\ ops = {}
  <2>1. Cap \in Nat /\ Cap > 0 BY ConnectionAssumption DEF ConnectionAssumption
  <2>2. q # <<>> BY <1>3, <2>1
  <2>3. /\ Tail(q) \in Seq(Events) /\ Len(Tail(q)) = Len(q) - 1
        /\ \A i \in 1..(Len(q) - 1) : Tail(q)[i] = q[i + 1]
    BY <2>2
  <2>4. DOMAIN Tail(q) = 1..(Len(q) - 1) /\ DOMAIN q = 1..Len(q) BY <2>3
  <2>5. Increasing(Tail(q), low, high) BY <2>3, <2>4 DEF Increasing
  <2>6. ~(Len(q) <= Cap) BY <1>3, <2>1
  <2>7. Evict(q) = Tail(q) BY <1>3, <2>6 DEF Evict
  <2> QED BY <2>3, <2>5, <2>7
<1>4. CASE Len(q) > Cap /\ ops # {}
  <2>1. Cap \in Nat BY ConnectionAssumption DEF ConnectionAssumption
  <2> DEFINE k == CHOOSE i \in ops : \A j \in ops : i <= j
  <2>2. k \in DOMAIN q
    <3>1. ops \subseteq Nat /\ ops # {} BY <1>4
    <3>2. \E i \in ops : \A j \in ops : i <= j BY <3>1, Smallest
    <3> QED BY <3>2
  <2>3. ~(Len(q) <= Cap) BY <1>4, <2>1
  <2>4. Evict(q) = RemoveAt(q, k) BY <1>4, <2>3, Zenon DEF Evict
  <2> HIDE DEF k
  <2> QED BY <1>2, <1>4, <2>2, <2>4
<1>5. Cap \in Nat /\ Len(q) \in Nat BY ConnectionAssumption DEF ConnectionAssumption
<1> QED BY <1>1, <1>3, <1>4, <1>5

(* An event that comes is the newest there is, wherever it goes.           *)
LEMMA Emitting ==
  ASSUME NEW d \in Conns, Sound(d), NEW kind \in Kinds
  PROVE  /\ Sound(Emit(d, kind))
         /\ Emit(d, kind).baseline = d.baseline
         /\ Emit(d, kind).arrived >= d.arrived + 1
<1> DEFINE event == [kind |-> kind, n |-> d.arrived + 1]
           counted == [d EXCEPT !.arrived = d.arrived + 1]
           more == Append(d.queue, event)
           Same(e) ==
             /\ e.sock = d.sock /\ e.sending = d.sending /\ e.closed = d.closed
             /\ e.denied = d.denied /\ e.suspended = d.suspended
             /\ e.suspensions = d.suspensions /\ e.timer = d.timer /\ e.retry = d.retry
             /\ e.phase = d.phase /\ e.seen = d.seen /\ e.baseline = d.baseline
             /\ e.arrived = d.arrived + 1
<1>0. event \in Events BY DEF Conns, Events, Kinds
<1>1. counted \in Conns /\ Same(counted) /\ counted.queue = d.queue
  <2> DEFINE next == d.arrived + 1
  <2>1. next \in Nat BY DEF Conns
  <2> HIDE DEF next
  <2>2. /\ [d EXCEPT !.arrived = next] \in Conns /\ [d EXCEPT !.arrived = next].arrived = next
        /\ \A f \in {"sock", "sending", "closed", "denied", "suspended", "suspensions", "timer",
                     "retry", "phase", "seen", "baseline", "queue"} :
             [d EXCEPT !.arrived = next][f] = d[f]
    BY <2>1 DEF Conns
  <2>3. counted = [d EXCEPT !.arrived = next] BY DEF next
  <2> HIDE DEF counted
  <2> QED BY <2>2, <2>3 DEF next
<1>2. /\ d.queue \in Seq(Events) /\ d.seen \in [last : Nat, inOrder : BOOLEAN] /\ d.arrived \in Nat
      /\ d.phase \in {"unheard", "draining", "subscribed", "closed"}
      /\ d.seen.inOrder /\ d.seen.last \in Nat /\ d.seen.last <= d.arrived
      /\ Increasing(d.queue, d.seen.last, d.arrived)
      /\ d.phase \in {"subscribed", "closed"} => d.queue = <<>>
  BY DEF Conns, Sound, InOrder
<1>3. more \in Seq(Events) /\ Increasing(more, d.seen.last, d.arrived + 1)
  <2>1. /\ more \in Seq(Events) /\ Len(more) = Len(d.queue) + 1 /\ Len(d.queue) \in Nat
        /\ \A i \in 1..Len(d.queue) : more[i] = d.queue[i]
        /\ more[Len(d.queue) + 1] = event
    BY <1>0, <1>2
  <2>2. DOMAIN more = 1..(Len(d.queue) + 1) /\ DOMAIN d.queue = 1..Len(d.queue) BY <1>2, <2>1
  <2>3. \A i \in 1..Len(d.queue) : d.queue[i].n \in Nat
    <3>1. \A i \in 1..Len(d.queue) : d.queue[i] \in Events BY <1>2
    <3> QED BY <3>1 DEF Events
  <2>4. event.n = d.arrived + 1 OBVIOUS
  <2> HIDE DEF more, event
  <2>5. /\ \A i \in 1..Len(d.queue) : d.seen.last < d.queue[i].n /\ d.queue[i].n <= d.arrived
        /\ \A i, j \in 1..Len(d.queue) : i < j => d.queue[i].n < d.queue[j].n
    BY <1>2, <2>2 DEF Increasing
  <2>6. ASSUME NEW i \in DOMAIN more
        PROVE  d.seen.last < more[i].n /\ more[i].n <= d.arrived + 1
    <3>1. CASE i \in 1..Len(d.queue)
      <4>1. more[i].n = d.queue[i].n /\ d.queue[i].n \in Nat BY <2>1, <2>3, <3>1
      <4>2. d.seen.last < d.queue[i].n /\ d.queue[i].n <= d.arrived BY <2>5, <3>1
      <4> QED BY <1>2, <4>1, <4>2
    <3>2. CASE i = Len(d.queue) + 1
      <4>1. more[i].n = d.arrived + 1 BY <2>1, <2>4, <3>2
      <4> QED BY <1>2, <4>1
    <3>3. DOMAIN more = 1..Len(d.queue) \cup {Len(d.queue) + 1} BY <2>1, <2>2
    <3> QED BY <3>1, <3>2, <3>3
  <2>7. ASSUME NEW i \in DOMAIN more, NEW j \in DOMAIN more, i < j
        PROVE  more[i].n < more[j].n
    <3>1. i \in 1..Len(d.queue) BY <2>1, <2>2, <2>7
    <3>2. CASE j \in 1..Len(d.queue) BY <2>1, <2>5, <2>7, <3>1, <3>2
    <3>3. CASE j = Len(d.queue) + 1
      <4>1. more[i].n = d.queue[i].n /\ more[j].n = d.arrived + 1 BY <2>1, <2>4, <3>1, <3>3
      <4>2. d.queue[i].n \in Nat /\ d.queue[i].n <= d.arrived /\ d.arrived \in Nat
        BY <1>2, <2>3, <2>5, <3>1
      <4> QED BY <4>1, <4>2
    <3>4. DOMAIN more = 1..Len(d.queue) \cup {Len(d.queue) + 1} BY <2>1, <2>2
    <3> QED BY <3>2, <3>3, <3>4
  <2> QED BY <2>1, <2>6, <2>7 DEF Increasing
<1>4. Increasing(d.queue, d.seen.last, d.arrived + 1)
  <2>1. \A i \in DOMAIN d.queue : d.queue[i].n \in Nat
    <3>1. \A i \in DOMAIN d.queue : d.queue[i] \in Events BY <1>2
    <3> QED BY <3>1 DEF Events
  <2> QED BY <1>2, <2>1 DEF Increasing
<1>5. ASSUME NEW q \in Seq(Events), Increasing(q, d.seen.last, d.arrived + 1),
             d.phase \in {"subscribed", "closed"} => q = <<>>,
             NEW e \in Conns, Same(e), e.queue = q
      PROVE  Sound(e)
  <2>1. Numbered(e) /\ Off(e) /\ NoWaitAfterTheEnd(e)
    BY <1>5 DEF Sound, Numbered, Off, Barred, NoWaitAfterTheEnd
  <2>2. InOrder(e) BY <1>2, <1>5 DEF InOrder
  <2> QED BY <2>1, <2>2, <1>5 DEF Sound
<1> HIDE DEF event, counted, more
<1>6. Sound(counted) BY <1>1, <1>2, <1>4, <1>5
<1>7. Emit(d, kind) =
        CASE d.phase = "draining" -> [counted EXCEPT !.queue = more]
          [] d.phase = "subscribed" -> Deliver(counted, event)
          [] d.phase = "unheard" ->
               IF kind = "disconnected" THEN counted ELSE [counted EXCEPT !.queue = Evict(more)]
          [] d.phase = "closed" -> counted
  <2>1. counted.queue = d.queue BY <1>1
  <2> DEFINE c2 == [d EXCEPT !.arrived = @ + 1]
  <2>2. c2 = counted BY DEF counted
  <2>3. Emit(d, kind) =
        CASE d.phase = "draining" -> [c2 EXCEPT !.queue = Append(c2.queue, event)]
          [] d.phase = "subscribed" -> Deliver(c2, event)
          [] d.phase = "unheard" ->
               IF kind = "disconnected" THEN c2 ELSE [c2 EXCEPT !.queue = Evict(Append(c2.queue, event))]
          [] d.phase = "closed" -> c2
    BY Zenon DEF Emit, event
  <2> HIDE DEF c2
  <2> QED BY <2>1, <2>2, <2>3 DEF more
<1>8. counted.baseline = d.baseline /\ counted.arrived >= d.arrived + 1 BY <1>1, <1>2
<1>9. CASE d.phase = "draining"
  <2> DEFINE e == [counted EXCEPT !.queue = more]
  <2>1. e \in Conns /\ Same(e) /\ e.queue = more BY <1>1, <1>3 DEF Conns
  <2> HIDE DEF e
  <2>2. Sound(e) BY <1>3, <1>5, <1>9, <2>1
  <2>3. Emit(d, kind) = e BY <1>7, <1>9 DEF e
  <2> QED BY <1>2, <2>1, <2>2, <2>3
<1>10. CASE d.phase = "unheard"
  <2> DEFINE ev == Evict(more)
             e == [counted EXCEPT !.queue = ev]
  <2>1. ev \in Seq(Events) /\ Increasing(ev, d.seen.last, d.arrived + 1)
    BY <1>2, <1>3, Evicting
  <2> HIDE DEF ev
  <2>2. e \in Conns /\ Same(e) /\ e.queue = ev BY <1>1, <2>1 DEF Conns
  <2> HIDE DEF e
  <2>3. Sound(e) BY <1>5, <1>10, <2>1, <2>2
  <2>4. Emit(d, kind) \in {counted, e} BY <1>7, <1>10 DEF e, ev
  <2> QED BY <1>2, <1>6, <1>8, <2>2, <2>3, <2>4
<1>11. CASE d.phase = "subscribed"
  <2>1. counted.seen.last < event.n /\ event.n <= counted.arrived BY <1>1, <1>2 DEF event
  <2>2. Increasing(counted.queue, event.n, counted.arrived) BY <1>1, <1>2, <1>11 DEF Increasing
  <2>3. Sound(Deliver(counted, event)) /\ Grows(counted, Deliver(counted, event))
    BY <1>0, <1>1, <1>6, <2>1, <2>2, Delivering
  <2>4. Deliver(counted, event) \in Conns BY <2>3 DEF Sound
  <2>5. Emit(d, kind) = Deliver(counted, event) BY <1>7, <1>11
  <2> QED BY <1>1, <1>2, <2>3, <2>4, <2>5 DEF Grows, Conns
<1>12. CASE d.phase = "closed"
  <2>1. Emit(d, kind) = counted BY <1>7, <1>12
  <2> QED BY <1>6, <1>8, <2>1
<1> QED BY <1>2, <1>9, <1>10, <1>11, <1>12

(* Growth is transitive, and whatever is told is growth.                   *)
LEMMA Growing ==
  ASSUME NEW d \in Conns, NEW e \in Conns, NEW f \in Conns, Grows(d, e), Grows(e, f)
  PROVE  Grows(d, f)
<1>1. {d.arrived, e.arrived, f.arrived} \subseteq Nat BY DEF Conns
<1> QED BY <1>1 DEF Grows

(* An event of the connection itself is queued after those before it.      *)
LEMMA Telling ==
  ASSUME NEW d \in Conns, Sound(d), NEW kind \in Kinds
  PROVE  Sound(Emit(d, kind)) /\ Grows(d, Emit(d, kind))
<1> DEFINE e == Emit(d, kind)
<1>1. Sound(e) /\ e.baseline = d.baseline /\ e.arrived >= d.arrived + 1 BY Emitting
<1> HIDE DEF e
<1>2. e.arrived \in Nat /\ d.arrived \in Nat BY <1>1 DEF Sound, Conns
<1> QED BY <1>1, <1>2 DEF Grows, e

-----------------------------------------------------------------------------
(* Probe, socket, suspension and denial.                                   *)

(* The stage of the probe is no part of what must hold.                    *)
LEMMA Probing ==
  ASSUME NEW d \in Conns, Sound(d), NEW stage \in {"idle", "fetch", "wait", "pause"}
  PROVE  /\ Sound([d EXCEPT !.probe = stage])
         /\ [d EXCEPT !.probe = stage] \in Conns
         /\ Grows(d, [d EXCEPT !.probe = stage])
         /\ [d EXCEPT !.probe = stage].denied = d.denied
         /\ [d EXCEPT !.probe = stage].closed = d.closed
         /\ [d EXCEPT !.probe = stage].suspended = d.suspended
<1> DEFINE e == [d EXCEPT !.probe = stage]
<1>1. /\ e \in Conns /\ e.sock = d.sock /\ e.sending = d.sending /\ e.closed = d.closed
      /\ e.denied = d.denied /\ e.suspended = d.suspended
      /\ e.suspensions = d.suspensions /\ e.timer = d.timer /\ e.retry = d.retry
      /\ e.phase = d.phase /\ e.queue = d.queue /\ e.arrived = d.arrived /\ e.seen = d.seen
      /\ e.baseline = d.baseline
  BY DEF Conns
<1> HIDE DEF e
<1>2. Numbered(e) /\ Off(e) /\ NoWaitAfterTheEnd(e) /\ InOrder(e)
  BY <1>1 DEF Sound, Numbered, Off, Barred, NoWaitAfterTheEnd, InOrder
<1>3. Grows(d, e) BY <1>1 DEF Grows, Conns
<1> QED BY <1>1, <1>2, <1>3 DEF Sound, e

(* The probe loop, its start and its answer.                               *)
LEMMA Probes ==
  ASSUME NEW d \in Conns, Sound(d), NEW gone \in BOOLEAN
  PROVE  /\ Sound(ProbeLoop(d)) /\ Grows(d, ProbeLoop(d))
         /\ Sound(ProbeWhileDisconnected(d)) /\ Grows(d, ProbeWhileDisconnected(d))
         /\ Sound(Probed(d, gone)) /\ Grows(d, Probed(d, gone))
<1>0. Grows(d, d) BY DEF Grows, Conns
<1>1. Sound(ProbeLoop(d)) /\ Grows(d, ProbeLoop(d))
  <2> DEFINE st == IF ~Barred(d) /\ d.status # "connected" THEN "fetch" ELSE "idle"
  <2>1. st \in {"idle", "fetch", "wait", "pause"} OBVIOUS
  <2> HIDE DEF st
  <2>2. ProbeLoop(d) = [d EXCEPT !.probe = st] BY DEF ProbeLoop, st
  <2>3. Sound([d EXCEPT !.probe = st]) /\ Grows(d, [d EXCEPT !.probe = st]) BY <2>1, Probing
  <2> QED BY <2>2, <2>3, Zenon
<1>2. Sound(ProbeWhileDisconnected(d)) /\ Grows(d, ProbeWhileDisconnected(d))
  BY <1>0, <1>1 DEF ProbeWhileDisconnected
<1>3. Sound(Probed(d, gone)) /\ Grows(d, Probed(d, gone))
  <2> DEFINE over == [d EXCEPT !.probe = "idle"]
             wait == [d EXCEPT !.probe = "pause"]
  <2>1. Sound(over) /\ Grows(d, over) /\ over \in Conns /\ Sound(wait) /\ Grows(d, wait) BY Probing
  <2> HIDE DEF over, wait
  <2>2. Sound(Emit(over, "session-closed")) /\ Grows(over, Emit(over, "session-closed"))
    BY <2>1, Telling DEF Kinds
  <2>4. Grows(d, Emit(over, "session-closed"))
    <3>1. Emit(over, "session-closed") \in Conns BY <2>2 DEF Sound
    <3> QED BY <2>1, <2>2, <3>1, Growing
  <2>5. Probed(d, gone) \in {over, wait, Emit(over, "session-closed")}
    BY DEF Probed, over, wait
  <2> QED BY <2>1, <2>2, <2>4, <2>5
<1> QED BY <1>1, <1>2, <1>3

(* The socket of a connection that is not barred may be in any state.      *)
LEMMA Moving ==
  ASSUME NEW d \in Conns, Sound(d), ~Barred(d),
         NEW sock \in {"off", "ticket", "opening", "open", "backoff"},
         NEW status \in {"disconnected", "connecting", "connected", "reconnecting"}
  PROVE  LET e == [d EXCEPT !.sock = sock, !.status = status] IN
         /\ e \in Conns /\ Sound(e) /\ ~Barred(e) /\ Grows(d, e)
         /\ e.arrived = d.arrived /\ e.baseline = d.baseline
<1> DEFINE e1 == [d EXCEPT !.sock = sock]
           e2 == [e1 EXCEPT !.status = status]
           Same(e) ==
             /\ e.sending = d.sending /\ e.closed = d.closed /\ e.denied = d.denied
             /\ e.suspended = d.suspended /\ e.suspensions = d.suspensions
             /\ e.timer = d.timer /\ e.retry = d.retry /\ e.phase = d.phase
             /\ e.queue = d.queue /\ e.arrived = d.arrived /\ e.seen = d.seen
             /\ e.baseline = d.baseline
<1>1. e1 \in Conns /\ Same(e1) BY DEF Conns
<1>2. e2 \in Conns /\ Same(e2)
  <2> HIDE DEF e1
  <2> QED BY <1>1 DEF Conns
<1>3. [d EXCEPT !.sock = sock, !.status = status] = e2 BY Zenon
<1> HIDE DEF e2
<1>4. ~Barred(e2) BY <1>2 DEF Barred
<1>5. Numbered(e2) /\ Off(e2) /\ NoWaitAfterTheEnd(e2) /\ InOrder(e2)
  BY <1>2, <1>4 DEF Sound, Numbered, Off, NoWaitAfterTheEnd, InOrder
<1>6. Grows(d, e2) BY <1>2 DEF Grows, Conns
<1> QED BY <1>2, <1>3, <1>4, <1>5, <1>6 DEF Sound

(* A sender that is done.                                                  *)
LEMMA Muting ==
  ASSUME NEW d \in Conns, Sound(d)
  PROVE  LET e == [d EXCEPT !.sending = FALSE] IN e \in Conns /\ Sound(e) /\ Grows(d, e)
<1> DEFINE e == [d EXCEPT !.sending = FALSE]
<1>1. /\ e \in Conns /\ e.sock = d.sock /\ ~e.sending /\ e.closed = d.closed
      /\ e.denied = d.denied /\ e.suspended = d.suspended
      /\ e.suspensions = d.suspensions /\ e.timer = d.timer /\ e.retry = d.retry
      /\ e.phase = d.phase /\ e.queue = d.queue /\ e.arrived = d.arrived /\ e.seen = d.seen
      /\ e.baseline = d.baseline
  BY DEF Conns
<1> HIDE DEF e
<1>2. Numbered(e) /\ Off(e) /\ NoWaitAfterTheEnd(e) /\ InOrder(e)
  BY <1>1 DEF Sound, Numbered, Off, Barred, NoWaitAfterTheEnd, InOrder
<1>3. Grows(d, e) BY <1>1 DEF Grows, Conns
<1> QED BY <1>1, <1>2, <1>3 DEF Sound, e

(* An unexpected drop: down, reported if it was sending, and probed.       *)
LEMMA Dropping ==
  ASSUME NEW d \in Conns, Sound(d), ~Barred(d)
  PROVE  Sound(Drop(d)) /\ Grows(d, Drop(d))
<1> DEFINE down == [d EXCEPT !.sock = "backoff", !.status = "reconnecting"]
           mute == [down EXCEPT !.sending = FALSE]
           said == IF down.sending THEN Emit(mute, "disconnected") ELSE down
<1>1. down \in Conns /\ Sound(down) /\ ~Barred(down) /\ Grows(d, down) BY Moving
<1>2. Drop(d) = IF d.status = "reconnecting" THEN down ELSE OnReconnecting(down)
  BY Zenon DEF Drop
<1> HIDE DEF down
<1>3. OnReconnecting(down) = ProbeWhileDisconnected(said) BY <1>1, Zenon DEF OnReconnecting
<1>4. mute \in Conns /\ Sound(mute) /\ Grows(down, mute) BY <1>1, Muting
<1> HIDE DEF mute
<1>5. Sound(Emit(mute, "disconnected")) /\ Grows(mute, Emit(mute, "disconnected"))
  BY <1>4, Telling DEF Kinds
<1>6. Emit(mute, "disconnected") \in Conns BY <1>5 DEF Sound
<1>7. Grows(d, Emit(mute, "disconnected")) BY <1>1, <1>4, <1>5, <1>6, Growing
<1>8. said \in Conns /\ Sound(said) /\ Grows(d, said) BY <1>1, <1>5, <1>6, <1>7
<1> HIDE DEF said
<1>9. Sound(ProbeWhileDisconnected(said)) /\ Grows(said, ProbeWhileDisconnected(said))
  BY <1>8, Probes
<1>10. ProbeWhileDisconnected(said) \in Conns BY <1>9 DEF Sound
<1>11. Grows(d, ProbeWhileDisconnected(said)) BY <1>8, <1>9, <1>10, Growing
<1> QED BY <1>1, <1>2, <1>3, <1>9, <1>11

(* The timer and the retry are for a suspension there was.                 *)
LEMMA Timing ==
  ASSUME NEW d \in Conns, Sound(d), NEW n \in Nat, n <= d.suspensions
  PROVE  /\ LET e == [d EXCEPT !.timer = n] IN
            /\ e \in Conns /\ Sound(e) /\ Grows(d, e) /\ e.closed = d.closed
            /\ e.denied = d.denied /\ e.suspended = d.suspended /\ e.suspensions = d.suspensions
         /\ LET e == [d EXCEPT !.retry = n] IN
            /\ e \in Conns /\ Sound(e) /\ Grows(d, e) /\ e.closed = d.closed
            /\ e.denied = d.denied /\ e.suspended = d.suspended /\ e.suspensions = d.suspensions
<1> DEFINE e == [d EXCEPT !.timer = n]
           f == [d EXCEPT !.retry = n]
           Same(x) ==
             /\ x.sock = d.sock /\ x.sending = d.sending /\ x.closed = d.closed
             /\ x.denied = d.denied /\ x.suspended = d.suspended
             /\ x.suspensions = d.suspensions /\ x.phase = d.phase
             /\ x.queue = d.queue /\ x.arrived = d.arrived /\ x.seen = d.seen
             /\ x.baseline = d.baseline
<1>1. e \in Conns /\ Same(e) /\ e.timer = n /\ e.retry = d.retry BY DEF Conns
<1>2. f \in Conns /\ Same(f) /\ f.retry = n /\ f.timer = d.timer BY DEF Conns
<1> HIDE DEF e, f
<1>3. ASSUME NEW x \in Conns, Same(x), Numbered(x) PROVE Sound(x) /\ Grows(d, x)
  <2>1. Off(x) /\ NoWaitAfterTheEnd(x) /\ InOrder(x)
    BY <1>3 DEF Sound, Off, Barred, NoWaitAfterTheEnd, InOrder
  <2>2. Grows(d, x) BY <1>3 DEF Grows, Conns
  <2> QED BY <1>3, <2>1, <2>2 DEF Sound
<1>4. Numbered(e) /\ Numbered(f) BY <1>1, <1>2 DEF Sound, Numbered
<1> QED BY <1>1, <1>2, <1>3, <1>4 DEF e, f

(* A refused ticket or frame suspends the connection.                      *)
LEMMA Suspending ==
  ASSUME NEW d \in Conns, Sound(d)
  PROVE  Sound(SuspendForUserSession(d)) /\ Grows(d, SuspendForUserSession(d))
<1>1. CASE Barred(d) BY <1>1 DEF SuspendForUserSession, Grows, Conns
<1>2. CASE ~Barred(d)
  <2> DEFINE k == d.suspensions + 1
             e1 == [d EXCEPT !.suspended = k]
             e2 == [e1 EXCEPT !.suspensions = k]
             e3 == SocketOff(e2)
             e4 == CancelProbe(e3)
             Same(e) ==
               /\ e.closed = d.closed /\ e.denied = d.denied /\ e.timer = d.timer
               /\ e.retry = d.retry /\ e.phase = d.phase /\ e.queue = d.queue
               /\ e.arrived = d.arrived /\ e.seen = d.seen /\ e.baseline = d.baseline
               /\ e.suspended = k
  <2>1. k \in Nat /\ d.suspensions <= k /\ d.suspensions \in Nat BY DEF Conns
  <2>2. d.timer \in Nat /\ d.retry \in Nat /\ d.timer <= k /\ d.retry <= k
    BY <2>1 DEF Conns, Sound, Numbered
  <2>3. SuspendForUserSession(d) = Emit(Emit(ScheduleRetry(e4), "disconnected"), "denial")
    <3>1. [d EXCEPT !.suspended = d.suspensions + 1, !.suspensions = @ + 1] = e2
      <4>1. e1.suspensions = d.suspensions BY DEF Conns
      <4>2. [d EXCEPT !.suspended = d.suspensions + 1, !.suspensions = @ + 1]
              = [e1 EXCEPT !.suspensions = e1.suspensions + 1]
        BY Zenon
      <4> HIDE DEF e1
      <4> QED BY <4>1, <4>2
    <3> HIDE DEF e2
    <3> QED BY <1>2, <3>1 DEF SuspendForUserSession
  <2> HIDE DEF k
  <2>4. e1 \in Conns /\ Same(e1) /\ e1.suspensions = d.suspensions BY <2>1 DEF Conns
  <2>5. e2 \in Conns /\ Same(e2) /\ e2.suspensions = k
    <3> HIDE DEF e1
    <3> QED BY <2>1, <2>4 DEF Conns
  <2> HIDE DEF e2
  <2>6. e3 \in Conns /\ Same(e3) /\ e3.suspensions = k /\ e3.sock = "off" /\ ~e3.sending
    BY <2>5, Silencing
  <2> HIDE DEF e3
  <2>7. e4 \in Conns /\ Same(e4) /\ e4.suspensions = k /\ e4.sock = "off" /\ ~e4.sending
    BY <2>6, Resting
  <2> HIDE DEF e4
  <2>8. Sound(e4) /\ Grows(d, e4)
    <3>1. ~d.closed /\ ~d.denied BY <1>2 DEF Barred
    <3>2. Numbered(e4) BY <2>1, <2>2, <2>7 DEF Numbered
    <3>3. Off(e4) /\ NoWaitAfterTheEnd(e4) /\ InOrder(e4)
      BY <2>7, <3>1 DEF Off, NoWaitAfterTheEnd, InOrder, Sound
    <3>4. Grows(d, e4) BY <2>7 DEF Grows, Conns
    <3> QED BY <2>7, <3>2, <3>3, <3>4 DEF Sound
  <2> DEFINE e5 == ScheduleRetry(e4)
             e6 == Emit(e5, "disconnected")
             e7 == Emit(e6, "denial")
  <2>9. e5 \in Conns /\ Sound(e5) /\ Grows(e4, e5)
    <3>1. e4.suspended \in Nat /\ e4.suspended <= e4.suspensions BY <2>7, <2>1
    <3> QED BY <2>7, <2>8, <3>1, Timing DEF ScheduleRetry
  <2> HIDE DEF e5
  <2>10. Sound(e6) /\ Grows(e5, e6) BY <2>9, Telling DEF Kinds
  <2>11. e6 \in Conns BY <2>10 DEF Sound
  <2> HIDE DEF e6
  <2>12. Sound(e7) /\ Grows(e6, e7) BY <2>10, <2>11, Telling DEF Kinds
  <2>13. e7 \in Conns BY <2>12 DEF Sound
  <2>14. Grows(d, e7)
    <3> HIDE DEF e7
    <3>1. Grows(d, e5) BY <2>7, <2>8, <2>9, Growing
    <3>2. Grows(d, e6) BY <2>9, <2>10, <2>11, <3>1, Growing
    <3> QED BY <2>11, <2>12, <2>13, <3>2, Growing
  <2> QED BY <2>3, <2>12, <2>14 DEF e5, e6
<1> QED BY <1>1, <1>2

(* A denial ends the connection for good.                                  *)
LEMMA Denying ==
  ASSUME NEW d \in Conns, Sound(d)
  PROVE  Sound(DenyAuthorization(d)) /\ Grows(d, DenyAuthorization(d))
<1>1. CASE d.denied BY <1>1 DEF DenyAuthorization, Grows, Conns
<1>2. CASE ~d.denied
  <2> DEFINE e1 == [d EXCEPT !.denied = TRUE]
             e2 == StopWait(e1)
             e3 == SocketOff(e2)
             e4 == CancelProbe(e3)
             Same(e) ==
               /\ e.closed = d.closed /\ e.denied /\ e.suspensions = d.suspensions
               /\ e.retry = d.retry /\ e.phase = d.phase /\ e.queue = d.queue
               /\ e.arrived = d.arrived /\ e.seen = d.seen /\ e.baseline = d.baseline
  <2>1. DenyAuthorization(d) = IF d.closed THEN e4 ELSE Emit(e4, "denial")
    BY <1>2, Zenon DEF DenyAuthorization
  <2>2. e1 \in Conns /\ Same(e1) BY DEF Conns
  <2> HIDE DEF e1
  <2>3. e2 \in Conns /\ Same(e2) /\ e2.suspended = None /\ e2.timer = None
    BY <2>2, Stopping
  <2> HIDE DEF e2
  <2>4. /\ e3 \in Conns /\ Same(e3) /\ e3.suspended = None /\ e3.timer = None
        /\ e3.sock = "off" /\ ~e3.sending
    BY <2>3, Silencing
  <2> HIDE DEF e3
  <2>5. /\ e4 \in Conns /\ Same(e4) /\ e4.suspended = None /\ e4.timer = None
        /\ e4.sock = "off" /\ ~e4.sending
    BY <2>4, Resting
  <2> HIDE DEF e4
  <2>6. Sound(e4) /\ Grows(d, e4)
    <3>1. Numbered(e4) BY <2>5 DEF Numbered, Sound, Conns, None
    <3>2. Off(e4) /\ NoWaitAfterTheEnd(e4) /\ InOrder(e4)
      BY <2>5 DEF Off, NoWaitAfterTheEnd, InOrder, Sound
    <3>3. Grows(d, e4) BY <2>5 DEF Grows, Conns
    <3> QED BY <2>5, <3>1, <3>2, <3>3 DEF Sound
  <2>7. Sound(Emit(e4, "denial")) /\ Grows(e4, Emit(e4, "denial"))
    BY <2>5, <2>6, Telling DEF Kinds
  <2>8. Emit(e4, "denial") \in Conns BY <2>7 DEF Sound
  <2>9. Grows(d, Emit(e4, "denial")) BY <2>5, <2>6, <2>7, <2>8, Growing
  <2> QED BY <2>1, <2>6, <2>7, <2>9
<1> QED BY <1>1, <1>2

(***************************************************************************)
(* What a retry's answer does to a connection that is still waiting on it: *)
(* such a connection is neither closed nor denied, so it may resume.       *)
(***************************************************************************)
LEMMA Retrying ==
  ASSUME NEW d \in Conns, Sound(d), d.suspended # None, NEW a \in AnswerKinds
  PROVE  Sound(Retried(d, a)) /\ Grows(d, Retried(d, a))
<1>1. CASE a = "denied" BY <1>1, Denying DEF Retried
<1>2. CASE a = "gone"
  <2> DEFINE e == Emit(d, "session-closed")
  <2>1. Sound(e) /\ Grows(d, e) BY Telling DEF Kinds
  <2>2. e \in Conns BY <2>1 DEF Sound
  <2>3. Retried(d, a) = CloseOn(e) BY <1>2 DEF Retried
  <2> HIDE DEF e
  <2>4. Sound(CloseOn(e)) /\ Grows(e, CloseOn(e)) BY <2>1, <2>2, Closing
  <2>5. CloseOn(e) \in Conns BY <2>4 DEF Sound
  <2> QED BY <2>1, <2>2, <2>3, <2>4, <2>5, Growing
<1>3. CASE a = "ok"
  <2> DEFINE e == [d EXCEPT !.suspended = None]
  <2>1. ~d.closed /\ ~d.denied BY DEF Sound, NoWaitAfterTheEnd
  <2>2. /\ e \in Conns /\ e.sock = d.sock /\ e.sending = d.sending /\ e.closed = d.closed
        /\ e.denied = d.denied /\ e.suspended = None
        /\ e.suspensions = d.suspensions /\ e.timer = d.timer /\ e.retry = d.retry
        /\ e.phase = d.phase /\ e.queue = d.queue /\ e.arrived = d.arrived /\ e.seen = d.seen
        /\ e.baseline = d.baseline
    BY DEF Conns, None
  <2>3. Retried(d, a) = [e EXCEPT !.sock = "ticket", !.status = "connecting"]
    BY <1>3 DEF Retried, Resume, Connect
  <2> HIDE DEF e
  <2>4. ~Barred(e) BY <2>1, <2>2 DEF Barred
  <2>5. Sound(e) /\ Grows(d, e)
    <3>1. Numbered(e) BY <2>2 DEF Numbered, Sound, Conns, None
    <3>2. Off(e) /\ NoWaitAfterTheEnd(e) /\ InOrder(e)
      BY <2>1, <2>2, <2>4 DEF Off, NoWaitAfterTheEnd, InOrder, Sound
    <3>3. Grows(d, e) BY <2>2 DEF Grows, Conns
    <3> QED BY <2>2, <3>1, <3>2, <3>3 DEF Sound
  <2> DEFINE f == [e EXCEPT !.sock = "ticket", !.status = "connecting"]
  <2>6. Sound(f) /\ f \in Conns /\ Grows(e, f) BY <2>2, <2>4, <2>5, Moving
  <2> HIDE DEF f
  <2>7. Grows(d, f) BY <2>2, <2>5, <2>6, Growing
  <2> QED BY <2>3, <2>6, <2>7 DEF f
<1>4. CASE a \in {"error", "user-session-required"}
  <2>1. Retried(d, a) = [d EXCEPT !.timer = d.suspended] BY <1>4 DEF Retried, ScheduleRetry
  <2>2. d.suspended \in Nat /\ d.suspended <= d.suspensions BY DEF Conns, Sound, Numbered
  <2>3. Sound([d EXCEPT !.timer = d.suspended]) /\ Grows(d, [d EXCEPT !.timer = d.suspended])
    BY <2>2, Timing
  <2> QED BY <2>1, <2>3, Zenon
<1> QED BY <1>1, <1>2, <1>3, <1>4 DEF AnswerKinds

-----------------------------------------------------------------------------
(* The steps.                                                              *)

Calling == [Calls -> {"new", "wait", "sent", "done", "failed"}]
Serving == [present : BOOLEAN, revoked : BOOLEAN, gone : BOOLEAN, farewell : BOOLEAN]

(* A step whose connection stays sound and only grows keeps it all.        *)
LEMMA Lasting ==
  ASSUME IInv, Sound(c'), Grows(c, c')
  PROVE  Sound(c') /\ Based(c')
<1>1. c \in Conns /\ c' \in Conns BY DEF IInv, Sound
<1>2. {c.arrived, c.baseline, (c').arrived, (c').baseline} \subseteq Nat BY <1>1 DEF Conns
<1>3. c.baseline <= c.arrived BY DEF IInv, Based
<1>4. (c').baseline = c.baseline /\ (c').arrived >= c.arrived BY DEF Grows
<1>5. Based(c)' BY <1>2, <1>3, <1>4 DEF Based
<1> QED BY <1>5 DEF Based

(* The ticket of an opening socket comes or fails.                         *)
LEMMA TicketKeeps == IInv /\ TicketAnswers => IInv'
<1> SUFFICES ASSUME IInv, TicketAnswers PROVE IInv' OBVIOUS
<1>1. c \in Conns /\ Sound(c) /\ ~Barred(c)
  BY DEF IInv, Sound, Off, TicketAnswers
<1>2. PICK a \in AnswerKinds :
        c' = CASE a = "denied" -> DenyAuthorization(c)
               [] a = "user-session-required" -> SuspendForUserSession(c)
               [] a = "error" -> Drop(c)
               [] a \in {"ok", "gone"} -> [c EXCEPT !.sock = "opening"]
  BY DEF TicketAnswers
<1>3. CASE a \in {"ok", "gone"}
  <2> DEFINE e == [c EXCEPT !.sock = "opening", !.status = c.status]
  <2>0. c.status \in {"disconnected", "connecting", "connected", "reconnecting"}
    BY <1>1 DEF Conns
  <2>1. Sound(e) /\ Grows(c, e) BY <1>1, <2>0, Moving
  <2>2. e = [c EXCEPT !.sock = "opening"] BY <1>1 DEF Conns
  <2>3. c' = [c EXCEPT !.sock = "opening"] BY <1>2, <1>3
  <2> HIDE DEF e
  <2>4. Sound(c') /\ Grows(c, c') BY <2>1, <2>2, <2>3
  <2> QED BY <2>4, Lasting DEF IInv, TicketAnswers, Sound, Based
<1>4. CASE a \in {"denied", "user-session-required", "error"}
  <2>1. Sound(c') /\ Grows(c, c') BY <1>1, <1>2, <1>4, Denying, Suspending, Dropping
  <2> QED BY <2>1, Lasting DEF IInv, TicketAnswers
<1> QED BY <1>3, <1>4 DEF AnswerKinds

(* The socket opens.                                                       *)
LEMMA OpenKeeps == IInv /\ SocketOpens => IInv'
<1> SUFFICES ASSUME IInv, SocketOpens PROVE IInv' OBVIOUS
<1>1. c \in Conns /\ Sound(c) /\ ~Barred(c)
  BY DEF IInv, Sound, Off, SocketOpens
<1> DEFINE e == [c EXCEPT !.sock = "open", !.status = "connected"]
           f == [e EXCEPT !.sending = TRUE]
           g == [f EXCEPT !.baseline = None]
           Same(x) ==
             /\ x.closed = e.closed /\ x.denied = e.denied /\ x.suspended = e.suspended
             /\ x.suspensions = e.suspensions /\ x.timer = e.timer /\ x.retry = e.retry
             /\ x.phase = e.phase /\ x.queue = e.queue /\ x.arrived = e.arrived
             /\ x.seen = e.seen
<1>2. e \in Conns /\ Sound(e) /\ ~Barred(e) BY <1>1, Moving
<1>3. c' = g BY Zenon DEF SocketOpens
<1> HIDE DEF e
<1>4. f \in Conns /\ Same(f) BY <1>2 DEF Conns
<1>5. g \in Conns /\ Same(g) /\ g.baseline = None
  <2> HIDE DEF f
  <2> QED BY <1>4 DEF Conns, None
<1> HIDE DEF g
<1>6. Sound(g)
  <2>1. ~Barred(g) BY <1>2, <1>5 DEF Barred
  <2>2. Numbered(g) /\ Off(g) /\ NoWaitAfterTheEnd(g) /\ InOrder(g)
    BY <1>2, <1>5, <2>1 DEF Sound, Numbered, Off, NoWaitAfterTheEnd, InOrder
  <2> QED BY <1>5, <2>2 DEF Sound
<1>7. Based(g) BY <1>5 DEF Based, None, Conns
<1> QED BY <1>3, <1>6, <1>7 DEF IInv, SocketOpens

(* The socket closes, with whatever code.                                  *)
LEMMA CloseKeeps == IInv /\ SocketCloses => IInv'
<1> SUFFICES ASSUME IInv, SocketCloses PROVE IInv' OBVIOUS
<1>1. c \in Conns /\ Sound(c) /\ ~Barred(c)
  BY DEF IInv, Sound, Off, SocketCloses
<1>2. c' \in {Drop(c), DenyAuthorization(c), SuspendForUserSession(c)}
  <2>1. c' \in {Drop(c)}
             \cup (IF Verdict = "denied" THEN {DenyAuthorization(c)} ELSE {})
             \cup (IF Verdict = "user-session-required" THEN {SuspendForUserSession(c)} ELSE {})
    BY DEF SocketCloses
  <2> QED BY <2>1, Zenon
<1>3. Sound(c') /\ Grows(c, c') BY <1>1, <1>2, Denying, Suspending, Dropping
<1> QED BY <1>3, Lasting DEF IInv, SocketCloses

(* The pause before the next attempt is over.                              *)
LEMMA BackoffKeeps == IInv /\ BackoffOver => IInv'
<1> SUFFICES ASSUME IInv, BackoffOver PROVE IInv' OBVIOUS
<1>1. c \in Conns /\ Sound(c) /\ ~Barred(c)
  BY DEF IInv, Sound, Off, BackoffOver
<1> DEFINE e == [c EXCEPT !.sock = "ticket", !.status = c.status]
<1>0. c.status \in {"disconnected", "connecting", "connected", "reconnecting"}
  BY <1>1 DEF Conns
<1>2. Sound(e) /\ Grows(c, e) BY <1>1, <1>0, Moving
<1>3. e = [c EXCEPT !.sock = "ticket"] BY <1>1 DEF Conns
<1>4. c' = [c EXCEPT !.sock = "ticket"] BY DEF BackoffOver
<1> HIDE DEF e
<1>5. Sound(c') /\ Grows(c, c') BY <1>2, <1>3, <1>4
<1> QED BY <1>5, Lasting DEF IInv, BackoffOver

(* The descriptor of a stream is the event that arrives with it.           *)
LEMMA FrameKeeps == IInv /\ FrameArrives => IInv'
<1> SUFFICES ASSUME IInv, FrameArrives PROVE IInv' OBVIOUS
<1> DEFINE base == IF c.baseline = None THEN c.arrived + 1 ELSE c.baseline
           e == [c EXCEPT !.baseline = base]
<1>1. c \in Conns /\ Sound(c) /\ Based(c) BY DEF IInv, Sound
<1>2. PICK kind \in Kinds :
        /\ c' = Emit(e, kind)
        /\ server' = [server EXCEPT !.farewell = kind = "session-closed"]
  <2>1. PICK kind \in IF c.baseline = None THEN {"connected"}
                      ELSE {"op"} \cup (IF server.gone THEN {"session-closed"} ELSE {}) :
          /\ c' = Emit([c EXCEPT !.baseline = IF @ = None THEN c.arrived + 1 ELSE @], kind)
          /\ server' = [server EXCEPT !.farewell = kind = "session-closed"]
    BY DEF FrameArrives
  <2>2. kind \in Kinds BY DEF Kinds
  <2>3. [c EXCEPT !.baseline = IF @ = None THEN c.arrived + 1 ELSE @] = e BY Zenon
  <2> HIDE DEF e
  <2> QED BY <2>1, <2>2, <2>3
<1>3. base \in Nat /\ base <= c.arrived + 1 /\ c.arrived \in Nat BY <1>1 DEF Conns, Based
<1> HIDE DEF base
<1>4. /\ e \in Conns /\ e.sock = c.sock /\ e.sending = c.sending /\ e.closed = c.closed
      /\ e.denied = c.denied /\ e.suspended = c.suspended
      /\ e.suspensions = c.suspensions /\ e.timer = c.timer /\ e.retry = c.retry
      /\ e.phase = c.phase /\ e.queue = c.queue /\ e.arrived = c.arrived /\ e.seen = c.seen
      /\ e.baseline = base
  BY <1>1, <1>3 DEF Conns
<1> HIDE DEF e
<1>5. Sound(e)
  <2>1. Numbered(e) /\ Off(e) /\ NoWaitAfterTheEnd(e) /\ InOrder(e)
    BY <1>1, <1>4 DEF Sound, Numbered, Off, Barred, NoWaitAfterTheEnd, InOrder
  <2> QED BY <1>4, <2>1 DEF Sound
<1> DEFINE f == Emit(e, kind)
<1>6. Sound(f) /\ f.baseline = e.baseline /\ f.arrived >= e.arrived + 1
  BY <1>4, <1>5, Emitting
<1> HIDE DEF f
<1>7. Based(f)
  <2>1. f.arrived \in Nat BY <1>6 DEF Sound, Conns
  <2>2. f.baseline = base /\ f.arrived >= c.arrived + 1 BY <1>4, <1>6
  <2> QED BY <1>3, <2>1, <2>2 DEF Based
<1>8. c' = f BY <1>2 DEF f
<1>9. server' \in Serving BY <1>2 DEF IInv, Serving
<1> QED BY <1>6, <1>7, <1>8, <1>9 DEF IInv, FrameArrives, Serving

(* Pauses and answers of the probe loop, however late.                     *)
LEMMA ProbeKeeps == IInv /\ ProbeStep => IInv'
<1> SUFFICES ASSUME IInv, ProbeStep PROVE IInv' OBVIOUS
<1>1. c \in Conns /\ Sound(c) BY DEF IInv, Sound
<1>2. ASSUME NEW d \in Conns, Sound(d), Grows(c, d), NEW stage \in {"idle", "fetch", "wait", "pause"}
      PROVE  Sound([d EXCEPT !.probe = stage]) /\ Grows(c, [d EXCEPT !.probe = stage])
  <2> DEFINE e == [d EXCEPT !.probe = stage]
  <2>1. e \in Conns /\ Sound(e) /\ Grows(d, e) BY <1>2, Probing
  <2> HIDE DEF e
  <2>2. Grows(c, e) BY <1>1, <1>2, <2>1, Growing
  <2> QED BY <2>1, <2>2 DEF e
<1>0. Grows(c, c) BY <1>1 DEF Grows, Conns
<1>3. CASE ProbeAnswers
  <2>1. PICK a \in AnswerKinds :
          c' = CASE a = "denied" -> [DenyAuthorization(c) EXCEPT !.probe = "idle"]
                 [] a = "user-session-required" ->
                      [SuspendForUserSession(c) EXCEPT !.probe = "wait"]
                 [] a = "gone" -> Probed(c, TRUE)
                 [] a \in {"ok", "error"} -> Probed(c, FALSE)
    BY <1>3 DEF ProbeAnswers
  <2>2. ASSUME a = "denied" PROVE Sound(c') /\ Grows(c, c')
    <3> DEFINE d == DenyAuthorization(c)
    <3>1. Sound(d) /\ Grows(c, d) BY <1>1, Denying
    <3>2. d \in Conns BY <3>1 DEF Sound
    <3>3. c' = [d EXCEPT !.probe = "idle"] BY <2>1, <2>2
    <3> HIDE DEF d
    <3>4. Sound([d EXCEPT !.probe = "idle"]) /\ Grows(c, [d EXCEPT !.probe = "idle"])
      BY <1>2, <3>1, <3>2
    <3> QED BY <3>3, <3>4
  <2>3. ASSUME a = "user-session-required" PROVE Sound(c') /\ Grows(c, c')
    <3> DEFINE d == SuspendForUserSession(c)
    <3>1. Sound(d) /\ Grows(c, d) BY <1>1, Suspending
    <3>2. d \in Conns BY <3>1 DEF Sound
    <3>3. c' = [d EXCEPT !.probe = "wait"] BY <2>1, <2>3
    <3> HIDE DEF d
    <3>4. Sound([d EXCEPT !.probe = "wait"]) /\ Grows(c, [d EXCEPT !.probe = "wait"])
      BY <1>2, <3>1, <3>2
    <3> QED BY <3>3, <3>4
  <2>4. ASSUME a \in {"gone", "ok", "error"} PROVE Sound(c') /\ Grows(c, c')
    <3>1. c' \in {Probed(c, TRUE), Probed(c, FALSE)} BY <2>1, <2>4
    <3>2. /\ Sound(Probed(c, TRUE)) /\ Grows(c, Probed(c, TRUE))
          /\ Sound(Probed(c, FALSE)) /\ Grows(c, Probed(c, FALSE))
      BY <1>1, Probes
    <3> QED BY <3>1, <3>2
  <2>5. a \in {"denied", "user-session-required", "gone", "ok", "error"} BY DEF AnswerKinds
  <2>6. Sound(c') /\ Grows(c, c') BY <2>2, <2>3, <2>4, <2>5
  <2> QED BY <1>3, <2>6, Lasting DEF IInv, ProbeAnswers
<1>4. CASE ProbeGoesOn
  <2> DEFINE stage == IF c.closed \/ c.denied THEN "idle" ELSE "fetch"
  <2>1. stage \in {"idle", "fetch", "wait", "pause"} OBVIOUS
  <2>2. c' = [c EXCEPT !.probe = stage] BY <1>4 DEF ProbeGoesOn
  <2> HIDE DEF stage
  <2>4. Sound([c EXCEPT !.probe = stage]) /\ Grows(c, [c EXCEPT !.probe = stage])
    BY <1>0, <1>1, <1>2, <2>1
  <2>3. Sound(c') /\ Grows(c, c') BY <2>2, <2>4
  <2> QED BY <1>4, <2>3, Lasting DEF IInv, ProbeGoesOn
<1>5. CASE ProbePauseOver
  <2>1. Sound(c') /\ Grows(c, c') BY <1>1, <1>5, Probes DEF ProbePauseOver
  <2> QED BY <1>5, <2>1, Lasting DEF IInv, ProbePauseOver
<1> QED BY <1>3, <1>4, <1>5 DEF ProbeStep

(* Timers and answers of the user session retry, however late.             *)
LEMMA RetryKeeps == IInv /\ RetryStep => IInv'
<1> SUFFICES ASSUME IInv, RetryStep PROVE IInv' OBVIOUS
<1>1. /\ c \in Conns /\ Sound(c) /\ c.suspended \in Nat /\ c.suspended <= c.suspensions
      /\ c.suspensions \in Nat /\ c.retry \in Nat /\ None \in Nat /\ None <= c.suspensions
  BY DEF IInv, Sound, Numbered, Conns, None
<1>2. CASE RetryTimerFires
  <2> DEFINE fired == [c EXCEPT !.timer = None]
             sent == [fired EXCEPT !.retry = c.suspended]
  <2>1. c' \in {fired, sent} BY <1>2 DEF RetryTimerFires
  <2>2. /\ fired \in Conns /\ Sound(fired) /\ Grows(c, fired)
        /\ fired.suspensions = c.suspensions
    BY <1>1, Timing
  <2> HIDE DEF fired
  <2>3. sent \in Conns /\ Sound(sent) /\ Grows(fired, sent) BY <1>1, <2>2, Timing
  <2> HIDE DEF sent
  <2>4. Grows(c, sent) BY <1>1, <2>2, <2>3, Growing
  <2>5. Sound(c') /\ Grows(c, c') BY <2>1, <2>2, <2>3, <2>4
  <2> QED BY <1>2, <2>5, Lasting DEF IInv, RetryTimerFires
<1>3. CASE RetryAnswers
  <2> DEFINE answered == [c EXCEPT !.retry = None]
  <2>1. /\ answered \in Conns /\ Sound(answered) /\ Grows(c, answered)
        /\ answered.suspended = c.suspended
    BY <1>1, Timing
  <2>2. PICK a \in AnswerKinds :
          c' = IF c.closed \/ c.suspended # c.retry THEN answered ELSE Retried(answered, a)
    BY <1>3 DEF RetryAnswers
  <2> HIDE DEF answered
  <2>3. CASE c' = answered
    <3>1. Sound(c') /\ Grows(c, c') BY <2>1, <2>3
    <3> QED BY <1>3, <3>1, Lasting DEF IInv, RetryAnswers
  <2>4. CASE c.suspended = c.retry /\ c' = Retried(answered, a)
    <3> DEFINE e == Retried(answered, a)
    <3>1. answered.suspended # None BY <1>3, <2>1, <2>4 DEF RetryAnswers
    <3>2. Sound(e) /\ Grows(answered, e) BY <2>1, <3>1, Retrying
    <3>3. e \in Conns BY <3>2 DEF Sound
    <3> HIDE DEF e
    <3>4. Grows(c, e) BY <1>1, <2>1, <3>2, <3>3, Growing
    <3>5. Sound(c') /\ Grows(c, c') BY <2>4, <3>2, <3>4 DEF e
    <3> QED BY <1>3, <3>5, Lasting DEF IInv, RetryAnswers
  <2> QED BY <2>2, <2>3, <2>4
<1> QED BY <1>2, <1>3 DEF RetryStep

(* A call of the session starts, or is answered.                           *)
LEMMA CallKeeps ==
  ASSUME NEW i \in Calls
  PROVE  IInv /\ (CallStarts(i) \/ CallStep(i)) => IInv'
<1> SUFFICES ASSUME IInv, CallStarts(i) \/ CallStep(i) PROVE IInv' OBVIOUS
<1>0. c \in Conns /\ Sound(c) /\ Grows(c, c) BY DEF IInv, Sound, Grows, Conns
<1>1. \A d : Sends(d) \in {"wait", "failed", "sent"} BY DEF Sends
<1>2. CASE CallStarts(i) \/ CallGoesOn(i)
  <2>1. c' = c /\ server' = server /\ calls' \in Calling
    BY <1>1, <1>2 DEF CallStarts, CallGoesOn, IInv, Calling
  <2> QED BY <2>1 DEF IInv, Calling
<1>3. CASE CallAnswers(i)
  <2>1. CASE c.denied
    <3>1. c' = c /\ server' = server /\ calls' \in Calling
      BY <1>3, <2>1 DEF CallAnswers, IInv, Calling
    <3> QED BY <3>1 DEF IInv, Calling
  <2>2. CASE ~c.denied
    <3>1. PICK a \in AnswerKinds :
            /\ c' \in CASE a = "denied" -> {c, DenyAuthorization(c)}
                        [] a = "user-session-required" -> {SuspendForUserSession(c)}
                        [] a \in {"ok", "gone", "error"} -> {c}
            /\ calls' = [calls EXCEPT ![i] =
                 CASE a \in {"denied", "error"} -> "failed"
                   [] a = "user-session-required" -> Sends(c')
                   [] a \in {"ok", "gone"} -> "done"]
      BY <1>3, <2>2 DEF CallAnswers
    <3>2. c' \in {c, DenyAuthorization(c), SuspendForUserSession(c)}
      BY <3>1, Zenon DEF AnswerKinds
    <3>3. Sound(c') /\ Grows(c, c') BY <1>0, <3>2, Denying, Suspending
    <3>4. calls' \in Calling
      <4> DEFINE end == CASE a \in {"denied", "error"} -> "failed"
                          [] a = "user-session-required" -> Sends(c')
                          [] a \in {"ok", "gone"} -> "done"
      <4>1. end \in {"wait", "sent", "done", "failed"} BY <1>1 DEF AnswerKinds
      <4>2. calls' = [calls EXCEPT ![i] = end] BY <3>1
      <4> HIDE DEF end
      <4> QED BY <4>1, <4>2 DEF IInv, Calling
    <3> QED BY <1>3, <3>3, <3>4, Lasting DEF IInv, CallAnswers, Calling
  <2> QED BY <2>1, <2>2
<1> QED BY <1>2, <1>3 DEF CallStep
-----------------------------------------------------------------------------
(* The connection as it is constructed.                                    *)
LEMMA Start == Init => IInv
<1> SUFFICES ASSUME Init PROVE IInv OBVIOUS
<1> DEFINE first == [last |-> 0, inOrder |-> TRUE]
           d == [sock |-> "ticket", status |-> "connecting", sending |-> FALSE,
                 baseline |-> 0, closed |-> FALSE, denied |-> FALSE,
                 suspended |-> 0, suspensions |-> 0, timer |-> 0, retry |-> 0,
                 probe |-> "idle", phase |-> "unheard", queue |-> <<>>, arrived |-> 0,
                 seen |-> first]
<1>1. c = d BY DEF Init, Connect, None
<1>2. first \in [last : Nat, inOrder : BOOLEAN] /\ first.last = 0 /\ first.inOrder OBVIOUS
<1> HIDE DEF first
<1>3. d \in Conns
  <2>1. <<>> \in Seq(Events) OBVIOUS
  <2> QED BY <1>2, <2>1 DEF Conns
<1>4. /\ ~d.closed /\ ~d.denied /\ d.suspended = 0 /\ d.suspensions = 0 /\ d.timer = 0
      /\ d.retry = 0 /\ d.phase = "unheard" /\ d.queue = <<>> /\ d.arrived = 0
      /\ d.seen = first /\ d.baseline = 0
  OBVIOUS
<1> HIDE DEF d
<1>5. Numbered(d) /\ Off(d) /\ NoWaitAfterTheEnd(d) /\ InOrder(d) /\ Based(d)
  BY <1>2, <1>4 DEF Numbered, Off, Barred, NoWaitAfterTheEnd, InOrder, Increasing, Based, None
<1>6. calls \in Calling /\ server \in Serving BY DEF Init, Calling, Serving
<1> QED BY <1>1, <1>3, <1>5, <1>6 DEF IInv, Sound, Calling, Serving

(* Every step keeps the invariant.                                         *)
LEMMA Steps == IInv /\ [Next]_vars => IInv'
<1> SUFFICES ASSUME IInv, [Next]_vars PROVE IInv' OBVIOUS
<1>0. c \in Conns /\ Sound(c) BY DEF IInv, Sound
<1>1. CASE SocketStep
  BY <1>1, TicketKeeps, OpenKeeps, CloseKeeps, BackoffKeeps, FrameKeeps DEF SocketStep
<1>2. CASE ProbeStep BY <1>2, ProbeKeeps
<1>3. CASE RetryStep BY <1>3, RetryKeeps
<1>4. CASE EnvStep
  <2>1. c' = c /\ calls' = calls BY <1>4 DEF EnvStep, UserLeaves, UserReturns, Revoke, Delete
  <2>2. server' \in Serving
    BY <1>4 DEF EnvStep, UserLeaves, UserReturns, Revoke, Delete, IInv, Serving
  <2> QED BY <2>1, <2>2 DEF IInv, Serving
<1>5. CASE Subscribe
  <2> DEFINE e == [c EXCEPT !.phase = "draining"]
  <2>1. /\ e \in Conns /\ e.sock = c.sock /\ e.sending = c.sending /\ e.closed = c.closed
        /\ e.denied = c.denied /\ e.suspended = c.suspended
        /\ e.suspensions = c.suspensions /\ e.timer = c.timer /\ e.retry = c.retry
        /\ e.phase = "draining" /\ e.queue = c.queue /\ e.arrived = c.arrived
        /\ e.seen = c.seen /\ e.baseline = c.baseline
    BY <1>0 DEF Conns
  <2>2. c' = e BY <1>5 DEF Subscribe
  <2> HIDE DEF e
  <2>3. Numbered(e) /\ Off(e) /\ NoWaitAfterTheEnd(e) /\ InOrder(e)
    BY <1>0, <2>1 DEF Sound, Numbered, Off, Barred, NoWaitAfterTheEnd, InOrder
  <2>4. Grows(c, e) BY <1>0, <2>1 DEF Grows, Conns
  <2>5. Sound(c') /\ Grows(c, c') BY <2>1, <2>2, <2>3, <2>4 DEF Sound
  <2> QED BY <1>5, <2>5, Lasting DEF IInv, Subscribe
<1>6. CASE DrainOne
  <2>1. CASE c.queue = <<>>
    <3> DEFINE e == [c EXCEPT !.phase = "subscribed"]
    <3>1. /\ e \in Conns /\ e.sock = c.sock /\ e.sending = c.sending /\ e.closed = c.closed
          /\ e.denied = c.denied /\ e.suspended = c.suspended
          /\ e.suspensions = c.suspensions /\ e.timer = c.timer /\ e.retry = c.retry
          /\ e.queue = <<>> /\ e.arrived = c.arrived
          /\ e.seen = c.seen /\ e.baseline = c.baseline
      BY <1>0, <2>1 DEF Conns
    <3>2. c' = e BY <1>6, <2>1 DEF DrainOne
    <3> HIDE DEF e
    <3>3. Numbered(e) /\ Off(e) /\ NoWaitAfterTheEnd(e) /\ InOrder(e)
      BY <1>0, <3>1 DEF Sound, Numbered, Off, Barred, NoWaitAfterTheEnd, InOrder, Increasing
    <3>4. Grows(c, e) BY <1>0, <3>1 DEF Grows, Conns
    <3>5. Sound(c') /\ Grows(c, c') BY <3>1, <3>2, <3>3, <3>4 DEF Sound
    <3> QED BY <1>6, <3>5, Lasting DEF IInv, DrainOne
  <2>2. CASE c.queue # <<>>
    <3> DEFINE q == c.queue
               rest == Tail(q)
               event == Head(q)
               e == [c EXCEPT !.queue = rest]
    <3>1. /\ c' = Deliver(e, event)
      BY <1>6, <2>2 DEF DrainOne
    <3>2. /\ q \in Seq(Events) /\ q # <<>> /\ Increasing(q, c.seen.last, c.arrived)
          /\ c.seen.last \in Nat /\ c.arrived \in Nat
      BY <1>0, <2>2 DEF Conns, Sound, InOrder
    <3> HIDE DEF q
    <3>3. /\ rest \in Seq(Events) /\ event \in Events /\ event = q[1]
          /\ Len(q) \in Nat /\ Len(q) > 0
          /\ DOMAIN q = 1..Len(q) /\ DOMAIN rest = 1..(Len(q) - 1)
          /\ \A i \in 1..(Len(q) - 1) : rest[i] = q[i + 1]
      BY <3>2
    <3> HIDE DEF rest, event
    <3>4. 1 \in DOMAIN q BY <3>3
    <3>5. c.seen.last < event.n /\ event.n <= c.arrived BY <3>2, <3>3, <3>4 DEF Increasing
    <3>6. Increasing(rest, event.n, c.arrived)
      <4>1. \A i \in DOMAIN rest : i + 1 \in DOMAIN q /\ 1 < i + 1 BY <3>3
      <4>2. \A i \in DOMAIN rest : event.n < rest[i].n /\ rest[i].n <= c.arrived
        BY <3>2, <3>3, <3>4, <4>1 DEF Increasing
      <4>3. \A i, j \in DOMAIN rest : i < j => i + 1 < j + 1 BY <3>3
      <4>4. \A i, j \in DOMAIN rest : i < j => rest[i].n < rest[j].n
        BY <3>2, <3>3, <4>1, <4>3 DEF Increasing
      <4> QED BY <4>2, <4>4 DEF Increasing
    <3>7. Increasing(rest, c.seen.last, c.arrived)
      <4>1. \A i \in DOMAIN rest : rest[i] \in Events BY <3>3
      <4>2. event.n \in Nat /\ \A i \in DOMAIN rest : rest[i].n \in Nat BY <3>3, <4>1 DEF Events
      <4> QED BY <3>2, <3>5, <3>6, <4>2 DEF Increasing
    <3>8. /\ e \in Conns /\ e.sock = c.sock /\ e.sending = c.sending /\ e.closed = c.closed
          /\ e.denied = c.denied /\ e.suspended = c.suspended
          /\ e.suspensions = c.suspensions /\ e.timer = c.timer /\ e.retry = c.retry
          /\ e.phase = c.phase /\ e.queue = rest /\ e.arrived = c.arrived
          /\ e.seen = c.seen /\ e.baseline = c.baseline
      BY <1>0, <3>3 DEF Conns
    <3> HIDE DEF e
    <3>9. Sound(e)
      <4>1. c.phase = "draining" BY <1>6 DEF DrainOne
      <4>2. Numbered(e) /\ Off(e) /\ NoWaitAfterTheEnd(e)
        BY <1>0, <3>8 DEF Sound, Numbered, Off, Barred, NoWaitAfterTheEnd
      <4>3. InOrder(e) BY <1>0, <3>7, <3>8, <4>1 DEF Sound, InOrder
      <4> QED BY <3>8, <4>2, <4>3 DEF Sound
    <3> DEFINE f == Deliver(e, event)
    <3>10. Sound(f) /\ Grows(e, f) BY <3>3, <3>5, <3>6, <3>8, <3>9, Delivering
    <3>11. f \in Conns BY <3>10 DEF Sound
    <3> HIDE DEF f
    <3>12. Grows(c, f)
      <4>1. Grows(c, e) BY <1>0, <3>8 DEF Grows, Conns
      <4> QED BY <1>0, <3>8, <3>10, <3>11, <4>1, Growing
    <3>13. c' = f BY <3>1 DEF f
    <3>14. Sound(c') /\ Grows(c, c') BY <3>10, <3>12, <3>13
    <3> QED BY <1>6, <3>14, Lasting DEF IInv, DrainOne
  <2> QED BY <2>1, <2>2
<1>7. CASE Close
  <2>1. Sound(c') /\ Grows(c, c') BY <1>0, <1>7, Closing DEF Close
  <2> QED BY <1>7, <2>1, Lasting DEF IInv, Close
<1>8. CASE \E i \in Calls : CallStarts(i) \/ CallStep(i) BY <1>8, CallKeeps
<1>9. CASE UNCHANGED vars BY <1>9 DEF IInv, vars
<1> QED BY <1>1, <1>2, <1>3, <1>4, <1>5, <1>6, <1>7, <1>8, <1>9 DEF Next

(***************************************************************************)
(* The connection stays sound.                                             *)
(***************************************************************************)
THEOREM Invariance == Spec => []IInv
<1> QED BY Start, Steps, PTL DEF Spec

(***************************************************************************)
(* The connection has its type, its references to suspensions and events   *)
(* included.                                                               *)
(***************************************************************************)
THEOREM TypeCorrect == Spec => []TypeOK
<1>1. IInv => TypeOK
  <2> SUFFICES ASSUME IInv PROVE TypeOK OBVIOUS
  <2>1. c \in Conns /\ Sound(c) /\ Based(c) BY DEF IInv, Sound
  <2>2. /\ c.baseline \in 0..c.arrived /\ c.suspended \in 0..c.suspensions
        /\ c.timer \in 0..c.suspensions /\ c.retry \in 0..c.suspensions
    BY <2>1 DEF Conns, Based, Sound, Numbered
  <2>3. c.seen \in [last : 0..c.arrived, inOrder : BOOLEAN]
    <3>1. c.seen \in [last : Nat, inOrder : BOOLEAN] BY <2>1 DEF Conns
    <3>2. c.seen.last \in Nat BY <3>1
    <3>3. c.seen.last \in 0..c.arrived BY <2>1, <3>2 DEF Sound, InOrder, Conns
    <3> QED BY <3>1, <3>3
  <2> DEFINE lows == 0..c.arrived
             waits == 0..c.suspensions
             seens == [last : lows, inOrder : BOOLEAN]
  <2>4. c \in [sock : {"off", "ticket", "opening", "open", "backoff"},
            status : {"disconnected", "connecting", "connected", "reconnecting"},
            sending : BOOLEAN, baseline : lows, closed : BOOLEAN, denied : BOOLEAN,
            suspended : waits, suspensions : Nat,
            timer : waits, retry : waits,
            probe : {"idle", "fetch", "wait", "pause"},
            phase : {"unheard", "draining", "subscribed", "closed"},
            queue : Seq(Events), arrived : Nat, seen : seens]
    <3>1. /\ c.baseline \in lows /\ c.suspended \in waits /\ c.timer \in waits
          /\ c.retry \in waits /\ c.seen \in seens
      BY <2>2, <2>3
    <3> HIDE DEF lows, waits, seens
    <3> QED BY <2>1, <3>1 DEF Conns
  <2> QED BY <2>4 DEF TypeOK, IInv
<1> QED BY <1>1, Invariance, PTL

(***************************************************************************)
(* Closed, denied or suspended, the socket is off and nothing is sent.     *)
(***************************************************************************)
THEOREM TransportCorrect == Spec => []TransportIsOff
<1>1. IInv => TransportIsOff BY DEF IInv, Sound, Off, TransportIsOff
<1> QED BY <1>1, Invariance, PTL

(***************************************************************************)
(* The subscriber gets events in the order of their arrival, whatever the  *)
(* buffer has to give up.                                                  *)
(***************************************************************************)
THEOREM OrderKept == Spec => []EventsInOrder
<1>1. IInv => EventsInOrder BY DEF IInv, Sound, InOrder, EventsInOrder
<1> QED BY <1>1, Invariance, PTL
=============================================================================
