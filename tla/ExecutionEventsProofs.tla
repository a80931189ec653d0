----------------------- MODULE ExecutionEventsProofs -----------------------
(***************************************************************************)
(* Proofs about ExecutionEvents: following the pages misses nothing, and   *)
(* no long poll sleeps on what it waits for, for any limit of the buffer.  *)
(***************************************************************************)
EXTENDS ExecutionEvents, SequenceTheorems, TLAPS

(***************************************************************************)
(* The inductive invariant.  Its core is that the buffer is the tail of    *)
(* all events, without a gap: what is not in it is older than its oldest   *)
(* entry, and that is what a page tells the follower.  The state of the    *)
(* runtime and of one call are operators of the values, because a replay   *)
(* makes them pass through intermediate ones within a turn.                *)
(***************************************************************************)
Runtimes ==
  [closed : BOOLEAN, cursor : 0..MaxEvents, buffered : Seq(Entry), replayed : [Jobs -> Nat]]

TailOf(q, cursor, l) ==
  /\ Len(q) <= cursor
  /\ q = <<>> => cursor = 0
  /\ \A i \in 1..Len(q) : q[i].cursor = cursor - Len(q) + i /\ q[i].job = l[q[i].cursor]

Sound(r, l) ==
  /\ r \in Runtimes
  /\ l \in Seq(Jobs) /\ Len(l) = r.cursor
  /\ Len(r.buffered) <= EventLimit
  /\ TailOf(r.buffered, r.cursor, l)

CallRecords ==
  [pc : {"idle", "replay", "waiting", "woken"}, job : Jobs \cup {"any"}, after : 0..MaxEvents,
   got : SUBSET (1..MaxEvents), lost : SUBSET (1..MaxEvents)]

CallSound(c, r, l) ==
  /\ c \in CallRecords
  /\ c.after <= r.cursor
  /\ c.pc = "replay" => c.job \in Jobs
  /\ \A n \in 1..c.after : IsOf(l[n], c.job) => n \in c.got \cup c.lost
  /\ c.pc = "waiting" => Selected(r, c) = {} /\ ~r.closed

IInv ==
  /\ record \in [Jobs -> Nat]
  /\ Sound(rt, log)
  /\ calls \in [Followers -> CallRecords]
  /\ \A f \in Followers : CallSound(calls[f], rt, log)

-----------------------------------------------------------------------------
(* Appending a sequence, element by element.                               *)
LEMMA Extending ==
  ASSUME NEW S, NEW l \in Seq(S), NEW e \in Seq(S)
  PROVE  /\ l \o e \in Seq(S) /\ Len(l \o e) = Len(l) + Len(e)
         /\ \A i \in 1..Len(l) : (l \o e)[i] = l[i]
         /\ \A i \in 1..Len(e) : (l \o e)[Len(l) + i] = e[i]
<1>1. /\ l \o e \in Seq(S) /\ Len(l \o e) = Len(l) + Len(e)
      /\ \A i \in 1..(Len(l) + Len(e)) :
           (l \o e)[i] = IF i <= Len(l) THEN l[i] ELSE e[i - Len(l)]
  BY ConcatProperties
<1>2. Len(l) \in Nat /\ Len(e) \in Nat BY LenProperties
<1>3. \A i \in 1..Len(l) : (l \o e)[i] = l[i] BY <1>1, <1>2
<1>4. ASSUME NEW i \in 1..Len(e) PROVE (l \o e)[Len(l) + i] = e[i]
  <2>1. /\ Len(l) + i \in 1..(Len(l) + Len(e)) /\ ~(Len(l) + i <= Len(l))
        /\ (Len(l) + i) - Len(l) = i
    BY <1>2
  <2> QED BY <1>1, <2>1
<1> QED BY <1>1, <1>3, <1>4

(* Dropping the oldest entries leaves a tail.                              *)
LEMMA KeepingATail ==
  ASSUME NEW q \in Seq(Entry), NEW cursor \in Nat, NEW l, TailOf(q, cursor, l), EventsAssumption
  PROVE  Keep(q) \in Seq(Entry) /\ Len(Keep(q)) <= EventLimit /\ TailOf(Keep(q), cursor, l)
<1>0. Len(q) \in Nat /\ EventLimit \in Nat /\ EventLimit > 0 BY LenProperties DEF EventsAssumption
<1>1. CASE Len(q) <= EventLimit BY <1>0, <1>1 DEF Keep
<1>2. CASE Len(q) > EventLimit
  <2> DEFINE k == SubSeq(q, Len(q) - EventLimit + 1, Len(q))
  <2>1. /\ k \in Seq(Entry) /\ Len(k) = EventLimit
        /\ \A i \in 1..EventLimit : k[i] = q[Len(q) - EventLimit + i]
    <3>1. Len(q) - EventLimit + 1 \in 1..Len(q) /\ Len(q) \in 1..Len(q) BY <1>0, <1>2
    <3>2. k \in Seq(Entry) BY <3>1
    <3>3. Len(k) = EventLimit BY <1>0, <3>1
    <3>4. \A i \in 1..EventLimit : k[i] = q[Len(q) - EventLimit + i] BY <1>0, <3>1
    <3> QED BY <3>2, <3>3, <3>4
  <2> HIDE DEF k
  <2>2. k # <<>> BY <1>0, <2>1
  <2>3. ASSUME NEW i \in 1..Len(k)
        PROVE  k[i].cursor = cursor - Len(k) + i /\ k[i].job = l[k[i].cursor]
    <3>1. Len(q) - EventLimit + i \in 1..Len(q) BY <1>0, <1>2, <2>1
    <3>2. q[Len(q) - EventLimit + i].cursor = cursor - Len(q) + (Len(q) - EventLimit + i)
          /\ q[Len(q) - EventLimit + i].job = l[q[Len(q) - EventLimit + i].cursor]
      BY <3>1 DEF TailOf
    <3>3. cursor - Len(q) + (Len(q) - EventLimit + i) = cursor - Len(k) + i BY <1>0, <2>1
    <3> QED BY <2>1, <3>2, <3>3
  <2>4. Len(k) <= cursor BY <1>0, <1>2, <2>1 DEF TailOf
  <2>5. Keep(q) = k BY <1>2 DEF Keep, k
  <2>6. TailOf(k, cursor, l) BY <2>2, <2>3, <2>4 DEF TailOf
  <2>7. k \in Seq(Entry) /\ Len(k) <= EventLimit BY <1>0, <2>1
  <2> HIDE DEF TailOf
  <2> QED BY <2>5, <2>6, <2>7
<1> QED BY <1>0, <1>1, <1>2

(***************************************************************************)
(* Hearing of n events: the runtime stays sound with the longer log, and   *)
(* what the log already said stays.                                        *)
(***************************************************************************)
LEMMA Pushing ==
  ASSUME EventsAssumption, NEW r, NEW l, Sound(r, l), NEW j \in Jobs, NEW n \in Nat,
         r.cursor + n <= MaxEvents, NEW m \in Seq(Jobs), Len(m) = r.cursor + n,
         \A i \in 1..r.cursor : m[i] = l[i],
         \A i \in 1..n : m[r.cursor + i] = j
  PROVE  /\ Sound(Push(r, j, n), m)
         /\ Push(r, j, n).cursor = r.cursor + n
         /\ Push(r, j, n).closed = r.closed
<1> DEFINE e == [i \in 1..n |-> [cursor |-> r.cursor + i, job |-> j]]
           b == r.buffered
           q == b \o e
<1>1. /\ r \in Runtimes /\ l \in Seq(Jobs) /\ Len(l) = r.cursor /\ TailOf(b, r.cursor, l)
      /\ r.cursor \in Nat /\ b \in Seq(Entry) /\ Len(b) \in Nat
  BY LenProperties DEF Sound, Runtimes
<1>2. /\ m \in Seq(Jobs) /\ Len(m) = r.cursor + n
      /\ \A i \in 1..r.cursor : m[i] = l[i]
      /\ \A i \in 1..n : m[r.cursor + i] = j
  OBVIOUS
<1>3. e \in Seq(Entry) /\ Len(e) = n
      /\ \A i \in 1..n : e[i].cursor = r.cursor + i /\ e[i].job = j
  <2>1. ASSUME NEW i \in 1..n PROVE [cursor |-> r.cursor + i, job |-> j] \in Entry
    BY <1>1 DEF Entry, EventsAssumption
  <2>2. e \in Seq(Entry) /\ Len(e) = n BY <2>1
  <2>3. ASSUME NEW i \in 1..n PROVE e[i].cursor = r.cursor + i /\ e[i].job = j OBVIOUS
  <2> QED BY <2>2, <2>3
<1> HIDE DEF e, b
<1>4. /\ q \in Seq(Entry) /\ Len(q) = Len(b) + n
      /\ \A i \in 1..(Len(b) + n) : q[i] = IF i <= Len(b) THEN b[i] ELSE e[i - Len(b)]
  <2>1. b \in Seq(Entry) /\ e \in Seq(Entry) /\ Len(e) = n BY <1>1, <1>3
  <2> QED BY <2>1, ConcatProperties
<1> HIDE DEF q
<1>5. TailOf(q, r.cursor + n, m)
  <2> DEFINE c == r.cursor + n
  <2>0. c \in Nat /\ c = r.cursor + n BY <1>1
  <2> HIDE DEF c
  <2>1. Len(q) <= c BY <2>0, <1>1, <1>4 DEF TailOf
  <2>2. ASSUME q = <<>> PROVE c = 0
    <3>1. Len(b) = 0 /\ n = 0 BY <1>1, <1>4, <2>2
    <3>2. b = <<>> BY <1>1, <3>1, EmptySeq
    <3> QED BY <1>1, <2>0, <3>1, <3>2 DEF TailOf
  <2>3. ASSUME NEW i \in 1..Len(q)
        PROVE  q[i].cursor = c - Len(q) + i /\ q[i].job = m[q[i].cursor]
    <3>1. CASE i <= Len(b)
      <4>1. i \in 1..Len(b) /\ i \in 1..(Len(b) + n) BY <1>1, <1>4, <3>1
      <4>2. q[i] = b[i] /\ b[i].cursor = r.cursor - Len(b) + i /\ b[i].job = l[b[i].cursor]
        BY <1>1, <1>4, <3>1, <4>1 DEF TailOf
      <4>3. r.cursor - Len(b) + i \in 1..r.cursor BY <1>1, <4>1 DEF TailOf
      <4>4. r.cursor - Len(b) + i = c - Len(q) + i BY <2>0, <1>1, <1>4
      <4> QED BY <1>2, <4>2, <4>3, <4>4
    <3>2. CASE ~(i <= Len(b))
      <4>1. i - Len(b) \in 1..n /\ i \in 1..(Len(b) + n) BY <1>1, <1>4, <3>2
      <4>2. q[i] = e[i - Len(b)] BY <1>4, <3>2, <4>1
      <4>3. q[i].cursor = r.cursor + (i - Len(b)) /\ q[i].job = j BY <1>3, <4>1, <4>2
      <4>4. m[r.cursor + (i - Len(b))] = j
        <5> DEFINE k == i - Len(b)
        <5>1. k \in 1..n BY <4>1
        <5> HIDE DEF k
        <5>2. m[r.cursor + k] = j BY <1>2, <5>1
        <5> QED BY <5>2 DEF k
      <4>5. r.cursor + (i - Len(b)) = c - Len(q) + i
        <5>1. Len(q) = Len(b) + n /\ c = r.cursor + n BY <1>4, <2>0
        <5>2. Len(b) \in Nat /\ r.cursor \in Nat /\ n \in Nat /\ i \in Nat BY <1>1, <5>1
        <5> QED BY <5>1, <5>2, SMTT(30)
      <4> QED BY <4>3, <4>4, <4>5
    <3> QED BY <3>1, <3>2
  <2>4. TailOf(q, c, m) BY <2>1, <2>2, <2>3 DEF TailOf
  <2> QED BY <2>4 DEF c
<1>6. /\ Keep(q) \in Seq(Entry) /\ Len(Keep(q)) <= EventLimit
      /\ TailOf(Keep(q), r.cursor + n, m)
  <2>1. r.cursor + n \in Nat BY <1>1
  <2> QED BY <1>4, <1>5, <2>1, KeepingATail
<1> DEFINE p == [r EXCEPT !.cursor = r.cursor + n, !.buffered = Keep(q)]
<1>7. Push(r, j, n) = p BY DEF Push, q, e, b
<1>8. r.cursor + n \in 0..MaxEvents BY <1>1 DEF EventsAssumption
<1>9. /\ p \in Runtimes /\ p.cursor = r.cursor + n /\ p.closed = r.closed
      /\ p.buffered = Keep(q)
  BY <1>1, <1>6, <1>8 DEF Runtimes
<1> HIDE DEF p
<1>10. Sound(p, m) BY <1>2, <1>6, <1>9 DEF Sound
<1> QED BY <1>2, <1>7, <1>9, <1>10

(* Nothing heard, nothing changed.                                         *)
LEMMA PushingNothing ==
  ASSUME EventsAssumption, NEW r \in Runtimes, Len(r.buffered) <= EventLimit, NEW j
  PROVE  Push(r, j, 0) = r
<1>1. r.buffered \in Seq(Entry) /\ r.cursor \in Nat BY DEF Runtimes
<1> DEFINE e == [i \in 1..0 |-> [cursor |-> r.cursor + i, job |-> j]]
<1>2. e = <<>> OBVIOUS
<1>3. r.buffered \o e = r.buffered BY <1>1, <1>2, ConcatEmptySeq
<1> HIDE DEF e
<1>4. Keep(r.buffered \o e) = r.buffered BY <1>1, <1>3, LenProperties DEF Keep, EventsAssumption
<1>5. Push(r, j, 0) = [r EXCEPT !.cursor = r.cursor + 0, !.buffered = Keep(r.buffered \o e)]
  BY DEF Push, e
<1>6. r.cursor + 0 = r.cursor BY <1>1
<1> QED BY <1>4, <1>5, <1>6 DEF Runtimes

-----------------------------------------------------------------------------
(* Whoever waited is awake, and nothing else of the call has changed.      *)
LEMMA Waking ==
  ASSUME NEW cs \in [Followers -> CallRecords]
  PROVE  /\ Wake(cs) \in [Followers -> CallRecords]
         /\ \A f \in Followers :
              /\ Wake(cs)[f].pc # "waiting"
              /\ Wake(cs)[f].pc = "replay" <=> cs[f].pc = "replay"
              /\ Wake(cs)[f].job = cs[f].job /\ Wake(cs)[f].after = cs[f].after
              /\ Wake(cs)[f].got = cs[f].got /\ Wake(cs)[f].lost = cs[f].lost
<1>1. ASSUME NEW f \in Followers
      PROVE  /\ Wake(cs)[f] \in CallRecords
             /\ Wake(cs)[f].pc # "waiting"
             /\ Wake(cs)[f].pc = "replay" <=> cs[f].pc = "replay"
             /\ Wake(cs)[f].job = cs[f].job /\ Wake(cs)[f].after = cs[f].after
             /\ Wake(cs)[f].got = cs[f].got /\ Wake(cs)[f].lost = cs[f].lost
  <2> DEFINE c == cs[f]
             d == [c EXCEPT !.pc = "woken"]
  <2>1. c \in CallRecords OBVIOUS
  <2>2. /\ d \in CallRecords /\ d.pc = "woken" /\ d.job = c.job /\ d.after = c.after
        /\ d.got = c.got /\ d.lost = c.lost
    BY <2>1 DEF CallRecords
  <2>3. Wake(cs)[f] = IF c.pc = "waiting" THEN d ELSE c BY DEF Wake
  <2> HIDE DEF c, d
  <2>4. /\ Wake(cs)[f] \in CallRecords
        /\ Wake(cs)[f].pc # "waiting"
        /\ Wake(cs)[f].pc = "replay" <=> c.pc = "replay"
        /\ Wake(cs)[f].job = c.job /\ Wake(cs)[f].after = c.after
        /\ Wake(cs)[f].got = c.got /\ Wake(cs)[f].lost = c.lost
    BY <2>1, <2>2, <2>3
  <2> QED BY <2>4 DEF c
<1>2. DOMAIN Wake(cs) = Followers /\ Wake(cs) = [f \in Followers |-> Wake(cs)[f]] BY DEF Wake
<1> QED BY <1>1, <1>2

(* A woken call is sound, whatever became of the runtime.                  *)
LEMMA WakingIsSound ==
  ASSUME NEW cs \in [Followers -> CallRecords], NEW f \in Followers,
         NEW r, NEW l, CallSound(cs[f], r, l),
         NEW s, NEW m, r.cursor \in Nat, s.cursor \in Nat, r.cursor <= s.cursor,
         \A i \in 1..r.cursor : m[i] = l[i]
  PROVE  CallSound(Wake(cs)[f], s, m)
<1>1. /\ Wake(cs)[f] \in CallRecords
      /\ Wake(cs)[f].pc # "waiting"
      /\ Wake(cs)[f].pc = "replay" <=> cs[f].pc = "replay"
      /\ Wake(cs)[f].job = cs[f].job /\ Wake(cs)[f].after = cs[f].after
      /\ Wake(cs)[f].got = cs[f].got /\ Wake(cs)[f].lost = cs[f].lost
  BY Waking
<1>2. cs[f].after \in Int BY DEF CallRecords
<1>3. \A n \in 1..cs[f].after : m[n] = l[n] BY <1>2 DEF CallSound
<1> QED BY <1>1, <1>2, <1>3 DEF CallSound

(* What a sound call asks for, it asks for of any runtime with the same    *)
(* buffer.                                                                 *)
LEMMA SameBuffer ==
  ASSUME NEW c, NEW r, NEW l, CallSound(c, r, l),
         NEW s, s.cursor = r.cursor, s.buffered = r.buffered, s.closed = r.closed
  PROVE  CallSound(c, s, l)
BY DEF CallSound, Selected

(***************************************************************************)
(* n events of a job, heard by the runtime and by everyone who waits.      *)
(***************************************************************************)
LEMMA Hearing ==
  ASSUME EventsAssumption, NEW r, Sound(r, log), NEW j \in Jobs, NEW n \in Nat,
         NEW cs \in [Followers -> CallRecords],
         \A f \in Followers : CallSound(cs[f], r, log),
         Heard(r, j, n).cursor <= MaxEvents
  PROVE  /\ Sound(Heard(r, j, n), Logged(r, j, n))
         /\ Told(r, cs, n) \in [Followers -> CallRecords]
         /\ \A f \in Followers :
              CallSound(Told(r, cs, n)[f], Heard(r, j, n), Logged(r, j, n))
<1> DEFINE h == Hears(r, n)
           s == Push(r, j, h)
           m == log \o [i \in 1..h |-> j]
<1>1. h \in Nat BY DEF Hears
<1>2. r \in Runtimes /\ r.cursor \in Nat BY DEF Sound, Runtimes
<1>3. s.cursor = r.cursor + h BY <1>2 DEF Push, Runtimes
<1>4. s = Heard(r, j, n) /\ m = Logged(r, j, n) BY DEF Heard, Logged
<1>5. r.cursor + h <= MaxEvents BY <1>3, <1>4
<1> HIDE DEF h
<1>6. Sound(s, m) /\ s.closed = r.closed /\ \A i \in 1..r.cursor : m[i] = log[i]
  <2> DEFINE e == [i \in 1..h |-> j]
  <2>1. m = log \o e /\ e \in Seq(Jobs) /\ Len(e) = h /\ \A i \in 1..h : e[i] = j BY <1>1
  <2> HIDE DEF e, m, s
  <2>2. log \in Seq(Jobs) /\ Len(log) = r.cursor BY DEF Sound
  <2>3. /\ m \in Seq(Jobs) /\ Len(m) = Len(log) + Len(e)
        /\ \A i \in 1..Len(log) : m[i] = log[i]
        /\ \A i \in 1..Len(e) : m[Len(log) + i] = e[i]
    <3>1. log \in Seq(Jobs) /\ e \in Seq(Jobs) BY <2>1, <2>2
    <3>2. /\ log \o e \in Seq(Jobs) /\ Len(log \o e) = Len(log) + Len(e)
          /\ \A i \in 1..Len(log) : (log \o e)[i] = log[i]
          /\ \A i \in 1..Len(e) : (log \o e)[Len(log) + i] = e[i]
      BY <3>1, Extending
    <3>3. m = log \o e BY <2>1
    <3> QED BY <3>2, <3>3
  <2>4. /\ m \in Seq(Jobs) /\ Len(m) = r.cursor + h
        /\ \A i \in 1..r.cursor : m[i] = log[i]
        /\ \A i \in 1..h : m[r.cursor + i] = j
    BY <2>1, <2>2, <2>3
  <2>5. Sound(Push(r, j, h), m) /\ Push(r, j, h).closed = r.closed
    BY <1>1, <1>5, <2>4, Pushing
  <2> QED BY <2>4, <2>5 DEF s
<1> HIDE DEF s, m
<1>7. CASE h = 0
  <2>1. s = r BY <1>2, <1>7, PushingNothing DEF Sound, s
  <2>2. Told(r, cs, n) = cs BY <1>7 DEF Told, h
  <2>3. ASSUME NEW f \in Followers PROVE CallSound(cs[f], r, m)
    <3>1. cs[f].after \in Int /\ cs[f].after <= r.cursor BY DEF CallSound, CallRecords
    <3>2. \A i \in 1..cs[f].after : m[i] = log[i] BY <1>2, <1>6, <3>1
    <3> QED BY <3>2 DEF CallSound
  <2> QED BY <1>4, <1>6, <2>1, <2>2, <2>3
<1>8. CASE h # 0
  <2>1. Told(r, cs, n) = Wake(cs) BY <1>1, <1>8 DEF Told, h
  <2>2. s.cursor \in Nat /\ r.cursor <= s.cursor BY <1>1, <1>2, <1>3
  <2>3. \A f \in Followers : CallSound(Wake(cs)[f], s, m) BY <1>2, <1>6, <2>2, WakingIsSound
  <2> QED BY <1>4, <1>6, <2>1, <2>3, Waking
<1> QED BY <1>7, <1>8

(* A replay of a job's record, of whatever version.                        *)
LEMMA Replaying ==
  ASSUME EventsAssumption, IInv, NEW j \in Jobs, NEW v \in Nat, NEW n \in Nat,
         Replay(j, v, n).rt.cursor <= MaxEvents
  PROVE  /\ Sound(Replay(j, v, n).rt, Replay(j, v, n).log)
         /\ Replay(j, v, n).calls \in [Followers -> CallRecords]
         /\ \A f \in Followers :
              CallSound(Replay(j, v, n).calls[f], Replay(j, v, n).rt, Replay(j, v, n).log)
<1> DEFINE news == v > 0 /\ v # rt.replayed[j]
           m == IF news THEN n ELSE 0
           rv == [rt EXCEPT !.replayed[j] = v]
           r == IF news THEN rv ELSE rt
<1>1. /\ rv \in Runtimes /\ rv.cursor = rt.cursor /\ rv.buffered = rt.buffered
      /\ rv.closed = rt.closed
  BY DEF IInv, Sound, Runtimes
<1>2. /\ Replay(j, v, n).rt = Heard(r, j, m)
      /\ Replay(j, v, n).calls = Told(r, calls, m)
      /\ Replay(j, v, n).log = Logged(r, j, m)
  BY DEF Replay
<1>3. m \in Nat OBVIOUS
<1> HIDE DEF m, rv
<1>4. /\ r \in Runtimes /\ r.cursor = rt.cursor /\ r.buffered = rt.buffered
      /\ r.closed = rt.closed
  BY <1>1 DEF IInv, Sound
<1> HIDE DEF r
<1>5. Sound(r, log) BY <1>4 DEF IInv, Sound
<1>6. \A f \in Followers : CallSound(calls[f], r, log) BY <1>4, SameBuffer DEF IInv
<1>7. calls \in [Followers -> CallRecords] BY DEF IInv
<1> QED BY <1>2, <1>3, <1>5, <1>6, <1>7, Hearing

(***************************************************************************)
(* The page of a sound call: what it shows and what it says it has lost    *)
(* are everything up to the new cursor.                                    *)
(***************************************************************************)
LEMMA Returning ==
  ASSUME EventsAssumption, NEW r, NEW l, Sound(r, l), NEW c, CallSound(c, r, l)
  PROVE  CallSound(Return(r, c), r, l)
<1> DEFINE b == r.buffered
           shown == {b[i].cursor : i \in Selected(r, c)}
           gone == (c.after + 1)..(Oldest(r) - 1)
           d == [c EXCEPT !.pc = "idle", !.after = r.cursor,
                          !.got = c.got \cup shown, !.lost = c.lost \cup gone]
<1>1. /\ c \in CallRecords /\ c.after \in Nat /\ c.after <= r.cursor
      /\ r.cursor \in Nat /\ r.cursor \in 0..MaxEvents /\ MaxEvents \in Nat
      /\ b \in Seq(Entry) /\ Len(b) \in Nat /\ TailOf(b, r.cursor, l)
  BY LenProperties DEF CallSound, CallRecords, Sound, Runtimes, EventsAssumption
<1>2. \A i \in 1..Len(b) : b[i] \in Entry /\ b[i].cursor \in 1..MaxEvents
  <2>1. \A i \in 1..Len(b) : b[i] \in Entry BY <1>1, ElementOfSeq
  <2> QED BY <2>1 DEF Entry
<1>3. DOMAIN b = 1..Len(b) BY <1>1, LenProperties
<1>4. shown \subseteq 1..MaxEvents BY <1>2, <1>3 DEF Selected
<1>5. /\ Oldest(r) \in 0..MaxEvents
      /\ b = <<>> => Oldest(r) = r.cursor
      /\ b # <<>> => Oldest(r) = b[1].cursor /\ 1 \in 1..Len(b)
  <2>1. CASE b = <<>> BY <1>1, <2>1 DEF Oldest
  <2>2. CASE b # <<>>
    <3>1. 1 \in 1..Len(b) BY <1>1, <2>2, EmptySeq
    <3>2. Head(b) = b[1] BY <1>1, <2>2, HeadTailProperties
    <3>3. Oldest(r) = b[1].cursor BY <2>2, <3>2 DEF Oldest
    <3>4. b[1].cursor \in 0..MaxEvents BY <1>1, <1>2, <3>1
    <3> QED BY <2>2, <3>1, <3>3, <3>4
  <2> QED BY <2>1, <2>2
<1>6. gone \subseteq 1..MaxEvents BY <1>1, <1>5
<1>7. Return(r, c) = d BY DEF Return
<1>8. ASSUME NEW n \in 1..r.cursor, IsOf(l[n], c.job)
      PROVE  n \in (c.got \cup shown) \cup (c.lost \cup gone)
  <2>1. CASE n <= c.after
    <3>1. n \in 1..c.after BY <1>1, <2>1
    <3> QED BY <1>8, <3>1 DEF CallSound
  <2>2. CASE ~(n <= c.after) /\ n < Oldest(r)
    <3>1. n \in gone BY <1>1, <1>5, <2>2
    <3> QED BY <3>1
  <2>3. CASE ~(n <= c.after) /\ ~(n < Oldest(r))
    <3>1. b # <<>> BY <1>1 DEF TailOf
    <3>2. Oldest(r) = r.cursor - Len(b) + 1 BY <1>1, <1>5, <3>1 DEF TailOf
    <3> DEFINE i == n - (r.cursor - Len(b))
    <3>3. i \in 1..Len(b) BY <1>1, <2>3, <3>2
    <3>4. r.cursor - Len(b) + i = n BY <1>1
    <3> HIDE DEF i
    <3>5. b[i].cursor = n /\ b[i].job = l[n] BY <1>1, <3>3, <3>4 DEF TailOf
    <3>6. i \in Selected(r, c) BY <1>1, <1>3, <1>8, <2>3, <3>3, <3>5 DEF Selected
    <3>7. n \in shown BY <3>5, <3>6
    <3> QED BY <3>7
  <2> QED BY <2>1, <2>2, <2>3
<1> HIDE DEF shown, gone, b
<1>9. /\ d \in CallRecords /\ d.pc = "idle" /\ d.after = r.cursor /\ d.job = c.job
      /\ d.got = c.got \cup shown /\ d.lost = c.lost \cup gone
  BY <1>1, <1>4, <1>6 DEF CallRecords
<1> HIDE DEF d
<1> QED BY <1>1, <1>7, <1>8, <1>9 DEF CallSound

(* After the look it waits for nothing that is there.                      *)
LEMMA Looking ==
  ASSUME EventsAssumption, NEW r, NEW l, Sound(r, l), NEW c, CallSound(c, r, l),
         NEW d \in Look(r, c)
  PROVE  CallSound(d, r, l)
<1>1. CASE d = Return(r, c) BY <1>1, Returning
<1>2. CASE d # Return(r, c)
  <2>1. d = [c EXCEPT !.pc = "waiting"] /\ Selected(r, c) = {} /\ ~r.closed BY <1>2 DEF Look
  <2>2. /\ d \in CallRecords /\ d.pc = "waiting" /\ d.job = c.job /\ d.after = c.after
        /\ d.got = c.got /\ d.lost = c.lost
    BY <2>1 DEF CallSound, CallRecords
  <2>3. Selected(r, d) = {} BY <2>1, <2>2 DEF Selected
  <2> QED BY <2>1, <2>2, <2>3 DEF CallSound
<1> QED BY <1>1, <1>2

-----------------------------------------------------------------------------
(* What every step of events() amounts to: one call becomes another sound  *)
(* one, the rest stays.                                                    *)
LEMMA OneCall ==
  ASSUME NEW cs \in [Followers -> CallRecords], NEW r, NEW l,
         \A f \in Followers : CallSound(cs[f], r, l),
         NEW f \in Followers, NEW c, CallSound(c, r, l)
  PROVE  /\ [cs EXCEPT ![f] = c] \in [Followers -> CallRecords]
         /\ \A g \in Followers : CallSound([cs EXCEPT ![f] = c][g], r, l)
<1>1. c \in CallRecords BY DEF CallSound
<1>2. \A g \in Followers : [cs EXCEPT ![f] = c][g] = IF g = f THEN c ELSE cs[g] OBVIOUS
<1> QED BY <1>1, <1>2

(* A call that moves on without waiting, to an await its job allows, is    *)
(* as sound as before.                                                     *)
LEMMA MovingOn ==
  ASSUME NEW c, NEW r, NEW l, CallSound(c, r, l), NEW pc \in {"idle", "replay", "woken"},
         pc = "replay" => c.job \in Jobs
  PROVE  CallSound([c EXCEPT !.pc = pc], r, l)
<1> DEFINE d == [c EXCEPT !.pc = pc]
<1>1. /\ d \in CallRecords /\ d.pc = pc /\ d.job = c.job /\ d.after = c.after
      /\ d.got = c.got /\ d.lost = c.lost
  BY DEF CallSound, CallRecords
<1> HIDE DEF d
<1>2. CallSound(d, r, l) BY <1>1 DEF CallSound
<1> QED BY <1>2 DEF d

(* The empty buffer before anybody has asked.                              *)
LEMMA InitSound == ASSUME EventsAssumption, Init PROVE IInv
<1>1. record \in [Jobs -> Nat] BY DEF Init
<1>2. Sound(rt, log)
  <2>1. rt \in Runtimes /\ rt.cursor = 0 /\ rt.buffered = <<>>
    BY EmptySeq DEF Init, NewRuntime, Runtimes, EventsAssumption
  <2>2. log \in Seq(Jobs) /\ Len(log) = 0 BY EmptySeq DEF Init
  <2>3. Len(rt.buffered) = 0 BY <2>1, EmptySeq
  <2>4. TailOf(rt.buffered, rt.cursor, log) BY <2>1, <2>3 DEF TailOf
  <2> QED BY <2>1, <2>2, <2>3, <2>4 DEF Sound, EventsAssumption
<1>3. PICK filter \in [Followers -> Jobs \cup {"any"}] :
        calls = [f \in Followers |-> Follower(filter[f])]
  BY DEF Init
<1>4. ASSUME NEW f \in Followers
      PROVE  calls[f] \in CallRecords /\ CallSound(calls[f], rt, log)
  <2>1. calls[f] = [pc |-> "idle", job |-> filter[f], after |-> 0, got |-> {}, lost |-> {}]
    BY <1>3 DEF Follower
  <2>2. calls[f] \in CallRecords BY <2>1 DEF CallRecords, EventsAssumption
  <2>3. rt.cursor = 0 BY DEF Init, NewRuntime
  <2> QED BY <2>1, <2>2, <2>3 DEF CallSound
<1> QED BY <1>1, <1>2, <1>3, <1>4 DEF IInv

(* The environment: jobs, the stream, inspections and close().             *)
LEMMA EnvironmentKeeps ==
  ASSUME EventsAssumption, IInv,
         \/ \E j \in Jobs : JobMoves(j) \/ EventsArrive(j) \/ Inspected(j)
         \/ ProblemArrives \/ Close
  PROVE  IInv'
<1>0. /\ record \in [Jobs -> Nat] /\ Sound(rt, log) /\ rt.cursor \in Nat
      /\ rt \in Runtimes /\ calls \in [Followers -> CallRecords]
      /\ \A f \in Followers : CallSound(calls[f], rt, log)
  BY DEF IInv, Sound, Runtimes
<1>1. ASSUME NEW j \in Jobs, JobMoves(j) PROVE IInv'
  BY <1>0, <1>1 DEF JobMoves, IInv
<1>2. ASSUME NEW j \in Jobs, EventsArrive(j) PROVE IInv'
  <2>1. PICK n \in 1..MaxBatch :
          /\ rt.cursor + n <= MaxEvents
          /\ rt' = Heard(rt, j, n) /\ calls' = Told(rt, calls, n) /\ log' = Logged(rt, j, n)
          /\ record' = record
    BY <1>2 DEF EventsArrive
  <2>2. n \in Nat BY DEF EventsAssumption
  <2>3. Heard(rt, j, n).cursor = rt.cursor + Hears(rt, n) BY <1>0 DEF Heard, Push, Runtimes
  <2>4. Hears(rt, n) <= n /\ Hears(rt, n) \in Nat BY <2>2 DEF Hears
  <2>5. Heard(rt, j, n).cursor <= MaxEvents
    BY <1>0, <2>1, <2>2, <2>3, <2>4 DEF EventsAssumption
  <2>6. /\ Sound(Heard(rt, j, n), Logged(rt, j, n))
        /\ Told(rt, calls, n) \in [Followers -> CallRecords]
        /\ \A f \in Followers : CallSound(Told(rt, calls, n)[f], Heard(rt, j, n), Logged(rt, j, n))
    BY <1>0, <2>2, <2>5, Hearing
  <2> QED BY <1>0, <2>1, <2>6 DEF IInv
<1>3. ASSUME NEW j \in Jobs, Inspected(j) PROVE IInv'
  <2>1. PICK v \in 0..record[j], n \in 0..MaxBatch :
          /\ Replay(j, v, n).rt.cursor <= MaxEvents
          /\ rt' = Replay(j, v, n).rt /\ calls' = Replay(j, v, n).calls
          /\ log' = Replay(j, v, n).log /\ record' = record
    BY <1>3 DEF Inspected
  <2>2. v \in Nat /\ n \in Nat BY <1>0 DEF EventsAssumption
  <2> QED BY <1>0, <2>1, <2>2, Replaying DEF IInv
<1>4. ASSUME ProblemArrives PROVE IInv'
  <2>1. Wake(calls) \in [Followers -> CallRecords] BY <1>0, Waking
  <2>2. \A f \in Followers : CallSound(Wake(calls)[f], rt, log) BY <1>0, WakingIsSound
  <2> QED BY <1>0, <1>4, <2>1, <2>2 DEF ProblemArrives, IInv
<1>5. ASSUME Close PROVE IInv'
  <2> DEFINE s == [rt EXCEPT !.closed = TRUE]
  <2>1. s \in Runtimes /\ s.cursor = rt.cursor /\ s.buffered = rt.buffered
    BY <1>0 DEF Runtimes
  <2>2. rt' = s /\ calls' = Wake(calls) /\ record' = record /\ log' = log BY <1>5 DEF Close
  <2> HIDE DEF s
  <2>3. Sound(s, log) BY <1>0, <2>1 DEF Sound
  <2>4. Wake(calls) \in [Followers -> CallRecords] BY <1>0, Waking
  <2>5. \A f \in Followers : CallSound(Wake(calls)[f], s, log)
    BY <1>0, <2>1, WakingIsSound
  <2> QED BY <1>0, <2>2, <2>3, <2>4, <2>5 DEF IInv
<1> QED BY <1>1, <1>2, <1>3, <1>4, <1>5

(* The calls of events().                                                  *)
LEMMA PollsKeep ==
  ASSUME EventsAssumption, IInv, NEW f \in Followers, PollStarts(f) \/ PollStep(f)
  PROVE  IInv'
<1>0. /\ record \in [Jobs -> Nat] /\ Sound(rt, log)
      /\ calls \in [Followers -> CallRecords] /\ calls[f] \in CallRecords
      /\ \A g \in Followers : CallSound(calls[g], rt, log)
  BY DEF IInv
<1>1. ASSUME NEW c, CallSound(c, rt, log), calls' = [calls EXCEPT ![f] = c],
             UNCHANGED <<record, log, rt>>
      PROVE  IInv'
  BY <1>0, <1>1, OneCall DEF IInv
<1>2. ASSUME NEW pc \in {"idle", "replay", "woken"}, pc = "replay" => calls[f].job \in Jobs,
             calls' = [calls EXCEPT ![f].pc = pc], UNCHANGED <<record, log, rt>>
      PROVE  IInv'
  <2> DEFINE c == [calls[f] EXCEPT !.pc = pc]
  <2>1. CallSound(c, rt, log) BY <1>0, <1>2, MovingOn
  <2>2. calls' = [calls EXCEPT ![f] = c] BY <1>2
  <2> HIDE DEF c
  <2> QED BY <1>1, <1>2, <2>1, <2>2
<1>3. CASE PollStarts(f)
  <2>1. CASE calls[f].job = "any"
    <3>1. PICK c \in Look(rt, calls[f]) : calls' = [calls EXCEPT ![f] = c]
      BY <1>3, <2>1 DEF PollStarts
    <3>2. CallSound(c, rt, log) BY <1>0, Looking
    <3> QED BY <1>1, <1>3, <3>1, <3>2 DEF PollStarts
  <2>2. CASE calls[f].job # "any"
    <3>1. calls[f].job \in Jobs BY <1>0, <2>2 DEF CallRecords
    <3>2. calls' = [calls EXCEPT ![f].pc = "replay"] /\ UNCHANGED <<record, log, rt>>
      BY <1>3, <2>2 DEF PollStarts
    <3> QED BY <1>2, <3>1, <3>2
  <2> QED BY <2>1, <2>2
<1>4. CASE PollReplayed(f)
  <2> DEFINE j == calls[f].job
  <2>1. j \in Jobs BY <1>0, <1>4 DEF PollReplayed, CallSound
  <2>2. PICK v \in 0..record[j], n \in 0..MaxBatch :
          /\ Replay(j, v, n).rt.cursor <= MaxEvents
          /\ rt' = Replay(j, v, n).rt /\ log' = Replay(j, v, n).log
          /\ \E c \in Look(Replay(j, v, n).rt, Replay(j, v, n).calls[f]) :
               calls' = [Replay(j, v, n).calls EXCEPT ![f] = c]
    BY <1>4 DEF PollReplayed
  <2> HIDE DEF j
  <2>3. v \in Nat /\ n \in Nat BY <1>0, <2>1 DEF EventsAssumption
  <2> DEFINE r == Replay(j, v, n).rt
             l == Replay(j, v, n).log
             cs == Replay(j, v, n).calls
  <2>4. /\ Sound(r, l) /\ cs \in [Followers -> CallRecords]
        /\ \A g \in Followers : CallSound(cs[g], r, l)
    BY <2>1, <2>2, <2>3, Replaying
  <2>5. record' = record BY <1>4 DEF PollReplayed
  <2>6. rt' = r /\ log' = l /\ \E c \in Look(r, cs[f]) : calls' = [cs EXCEPT ![f] = c]
    BY <2>2
  <2> HIDE DEF r, l, cs
  <2>7. PICK c \in Look(r, cs[f]) : calls' = [cs EXCEPT ![f] = c] BY <2>6
  <2>8. CallSound(c, r, l) BY <2>4, Looking
  <2>9. /\ [cs EXCEPT ![f] = c] \in [Followers -> CallRecords]
        /\ \A g \in Followers : CallSound([cs EXCEPT ![f] = c][g], r, l)
    BY <2>4, <2>8, OneCall
  <2> QED BY <1>0, <2>4, <2>5, <2>6, <2>7, <2>9 DEF IInv
<1>5. CASE PollFails(f) BY <1>2, <1>5 DEF PollFails
<1>6. CASE PollTimesOut(f) BY <1>2, <1>6 DEF PollTimesOut
<1>7. CASE PollReturns(f)
  <2>1. CallSound(Return(rt, calls[f]), rt, log) BY <1>0, Returning
  <2> QED BY <1>1, <1>7, <2>1 DEF PollReturns
<1> QED BY <1>3, <1>4, <1>5, <1>6, <1>7 DEF PollStep

(* IInv is an invariant: execution.ts as a whole keeps it, whichever way   *)
(* frames, replays, polls and close() interleave.                          *)
THEOREM Invariance == Spec => []IInv
<1>1. Init => IInv BY InitSound, EventsAssumption
<1>2. IInv /\ [Next]_vars => IInv'
  <2> SUFFICES ASSUME IInv, [Next]_vars PROVE IInv' OBVIOUS
  <2>1. CASE Next BY <2>1, EventsAssumption, EnvironmentKeeps, PollsKeep DEF Next
  <2>2. CASE UNCHANGED vars BY <2>2 DEF vars, IInv
  <2> QED BY <2>1, <2>2
<1> QED BY <1>1, <1>2, PTL DEF Spec

(* The types hold, and the buffer never outgrows EVENT_LIMIT               *)
(* (execution.ts:129), whatever the limit is.                          *)
THEOREM TypeCorrect == Spec => []TypeOK
<1>1. IInv => TypeOK
  BY DEF IInv, Sound, Runtimes, CallRecords, TypeOK
<1> QED BY <1>1, Invariance, PTL

(* Following the pages from cursor to cursor misses no event unnoticed     *)
(* (execution.ts:229-234).                                                 *)
THEOREM NothingMissed == Spec => []NoEventMissed
<1>1. IInv => NoEventMissed BY DEF IInv, CallSound, NoEventMissed
<1> QED BY <1>1, Invariance, PTL

(* No long poll sleeps on an event it asks for, nor on a closed runtime    *)
(* (execution.ts:215-228).                                                 *)
THEOREM NoSleepingOnNews == Spec => []WaitsForNothingPresent
<1>1. IInv => WaitsForNothingPresent BY DEF IInv, CallSound, WaitsForNothingPresent
<1> QED BY <1>1, Invariance, PTL
=============================================================================
