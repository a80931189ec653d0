------------------------- MODULE SnapshotPolicyProofs -------------------------
(***************************************************************************)
(* Proofs about SnapshotPolicy: publications never overlap, none that will *)
(* become due is forgotten, and none comes too early, for all thresholds,  *)
(* intervals and bounds.                                                   *)
(***************************************************************************)
EXTENDS SnapshotPolicy, TLAPS

Maybe(S) == {None} \cup S

Policies ==
  [confirmed : 0..tip, known : 0..tip, knownAt : 0..now, lastOwn : Maybe(0..now),
   retryAfter : Maybe(0..tip), jitter : Maybe(0..(MaxTime + MaxJitter)), inFlight : BOOLEAN]

Reasons == {"none", "periodic", "required", "close"}
Publications == [rev : Maybe(0..tip), reason : Reasons]
Dues == 0..(MaxTime + MaxAge + MaxJitter + MinInterval)
Sessions ==
  [status : {"live", "catching-up", "closed"}, connected : BOOLEAN, resync : BOOLEAN,
   confirmed : 0..tip, target : 0..tip, due : Maybe(Dues), pub : Publications]

(***************************************************************************)
(* The policy's high-water mark may lie above what the session has         *)
(* confirmed, after it adopted an older checkpoint, but never above the    *)
(* head it is catching up with.  So it lies at what a live session has     *)
(* confirmed, which is what makes a periodic checkpoint a new one.         *)
(***************************************************************************)
CaughtUp(x) ==
  /\ x.s.status = "live" => x.s.confirmed >= x.p.confirmed
  /\ x.s.status = "catching-up" => x.s.confirmed >= x.p.confirmed \/ x.s.target >= x.p.confirmed

Flight(x) == x.p.inFlight <=> x.s.pub.rev # None

Remembered(x) ==
  x.s.status = "live" /\ x.s.connected /\ ~x.p.inFlight /\ ~HeldBack(x.p)
      /\ OpsSince(x.p) >= TimedOps
    => x.s.due # None

Clocks ==
  /\ now \in 0..MaxTime
  /\ tip \in 0..MaxRevision
  /\ ckpt \in 0..tip

Worlds == [p : Policies, s : Sessions]
Sound(x) == x \in Worlds /\ CaughtUp(x) /\ Flight(x)

IInv ==
  /\ Clocks
  /\ Sound(Here)
  /\ Remembered(Here)

-----------------------------------------------------------------------------
(* The policy's operations.                                                *)
LEMMA Bounds ==
  /\ HardOps \in Nat /\ TimedOps \in Nat /\ MaxAge \in Nat /\ MaxJitter \in Nat
  /\ MinInterval \in Nat /\ MaxTime \in Nat /\ MaxRevision \in Nat
  /\ 0 < TimedOps /\ TimedOps <= HardOps
BY PolicyAssumption DEF PolicyAssumption

(* observeConfirmed raises the mark of what is confirmed, nothing else.    *)
LEMMA Confirming ==
  ASSUME Clocks, NEW q \in Policies, NEW rev \in 0..tip
  PROVE  /\ ObserveConfirmed(q, rev) \in Policies
         /\ ObserveConfirmed(q, rev).confirmed = Larger(q.confirmed, rev)
         /\ ObserveConfirmed(q, rev).inFlight = q.inFlight
BY Bounds DEF Clocks, Policies, ObserveConfirmed, Larger

(* observeSnapshot learns of a checkpoint, nothing else.                   *)
LEMMA Seeing ==
  ASSUME Clocks, NEW q \in Policies, NEW rev \in 0..tip
  PROVE  /\ ObserveSnapshot(q, rev, now) \in Policies
         /\ ObserveSnapshot(q, rev, now).confirmed = q.confirmed
         /\ ObserveSnapshot(q, rev, now).inFlight = q.inFlight
<1>1. CASE rev <= q.known BY <1>1 DEF ObserveSnapshot
<1>2. CASE ~(rev <= q.known)
  <2> DEFINE ra == IF rev >= q.retryAfter THEN None ELSE q.retryAfter
             q1 == [q EXCEPT !.known = rev]
             q2 == [q1 EXCEPT !.knownAt = now]
             q3 == [q2 EXCEPT !.jitter = None]
             q4 == [q3 EXCEPT !.retryAfter = ra]
  <2>1. /\ q1 \in Policies /\ q1.confirmed = q.confirmed /\ q1.inFlight = q.inFlight
        /\ q1.retryAfter = q.retryAfter
    BY DEF Policies
  <2>2. /\ q2 \in Policies /\ q2.confirmed = q.confirmed /\ q2.inFlight = q.inFlight
        /\ q2.retryAfter = q.retryAfter
    <3>1. now \in 0..now BY Bounds DEF Clocks
    <3> HIDE DEF q1
    <3> QED BY <2>1, <3>1 DEF Policies
  <2>3. /\ q3 \in Policies /\ q3.confirmed = q.confirmed /\ q3.inFlight = q.inFlight
        /\ q3.retryAfter = q.retryAfter
    BY <2>2 DEF Policies, Maybe
  <2>4. ra \in Maybe(0..tip) BY DEF Policies, Maybe
  <2>5. q4 \in Policies /\ q4.confirmed = q.confirmed /\ q4.inFlight = q.inFlight
    BY <2>3, <2>4 DEF Policies
  <2>6. ObserveSnapshot(q, rev, now)
          = [q3 EXCEPT !.retryAfter = IF rev >= q3.retryAfter THEN None ELSE q3.retryAfter]
    BY <1>2, Zenon DEF ObserveSnapshot
  <2> QED BY <2>3, <2>5, <2>6, Zenon
<1> QED BY <1>1, <1>2

Changes(q, w) ==
  /\ w.confirmed = q.confirmed /\ w.known = q.known /\ w.knownAt = q.knownAt
  /\ w.lastOwn = q.lastOwn /\ w.retryAfter = q.retryAfter

Early(q) == q.lastOwn # None /\ now < q.lastOwn + MinInterval

(* An answer leaves everything but the jitter deadline; it is to publish   *)
(* only when that is allowed, and nothing only when there is nothing.      *)
LEMMA Deciding ==
  ASSUME Clocks, NEW q \in Policies, NEW connected \in BOOLEAN, NEW roll \in 0..MaxJitter
  PROVE  LET a == Decide(q, now, connected, roll) IN
         /\ a = [policy |-> a.policy, kind |-> a.kind, delay |-> a.delay]
         /\ a.policy \in Policies /\ Changes(q, a.policy) /\ a.policy.inFlight = q.inFlight
         /\ a.kind \in {"none", "wait", "publish"}
         /\ a.kind = "wait" => now + a.delay \in Dues
         /\ a.kind = "none" => ~connected \/ q.inFlight \/ HeldBack(q) \/ OpsSince(q) < TimedOps
         /\ a.kind = "publish" => ~q.inFlight /\ ~HeldBack(q) /\ ~Early(q) /\ OpsSince(q) > 0
<1> DEFINE fresh == [q EXCEPT !.jitter = None]
           rolled == [q EXCEPT !.jitter = now + roll]
           drawn == IF q.jitter = None THEN rolled ELSE q
           threshold == ThresholdDelay(q, now)
           own == OwnIntervalDelay(q, now)
           eligible == Larger(threshold, own)
           a == Decide(q, now, connected, roll)
<1>1. /\ now \in Nat /\ now <= MaxTime /\ q.confirmed \in Nat /\ q.known \in Nat
      /\ q.knownAt \in 0..now /\ q.lastOwn \in {-1} \cup 0..now
      /\ q.jitter \in {-1} \cup 0..(MaxTime + MaxJitter) /\ None = -1
  BY Bounds DEF Clocks, Policies, Maybe, None
<1>2. /\ fresh \in Policies /\ Changes(q, fresh) /\ fresh.inFlight = q.inFlight
      /\ rolled \in Policies /\ Changes(q, rolled) /\ rolled.inFlight = q.inFlight
      /\ rolled.jitter = now + roll
      /\ Changes(q, q)
  BY <1>1, Bounds DEF Policies, Maybe, Changes
<1>3. /\ OpsSince(q) \in Nat
      /\ threshold = None <=> OpsSince(q) < TimedOps
      /\ threshold \in Int /\ now + threshold <= MaxTime + MaxAge
      /\ threshold # None => threshold >= 0
  BY <1>1, Bounds DEF OpsSince, ThresholdDelay, Larger
<1>4. /\ own \in Nat /\ now + own <= MaxTime + MinInterval
      /\ own <= 0 => ~Early(q)
  BY <1>1, Bounds DEF OwnIntervalDelay, Larger, Early
<1>5. /\ eligible \in Nat /\ now + eligible <= MaxTime + MaxAge + MinInterval
      /\ eligible <= 0 => own <= 0
  BY <1>1, <1>3, <1>4, Bounds DEF Larger
<1>6. /\ drawn \in Policies /\ Changes(q, drawn) /\ drawn.inFlight = q.inFlight
      /\ drawn.jitter \in 0..(MaxTime + MaxJitter)
  BY <1>1, <1>2, Bounds
<1>7. a = IF ~connected THEN [policy |-> fresh, kind |-> "none", delay |-> 0]
          ELSE IF q.inFlight \/ HeldBack(q) THEN [policy |-> q, kind |-> "none", delay |-> 0]
          ELSE IF threshold = None THEN [policy |-> fresh, kind |-> "none", delay |-> 0]
          ELSE IF eligible > 0 THEN [policy |-> fresh, kind |-> "wait", delay |-> eligible]
          ELSE IF drawn.jitter > now
               THEN [policy |-> drawn, kind |-> "wait", delay |-> drawn.jitter - now]
          ELSE [policy |-> drawn, kind |-> "publish", delay |-> 0]
  BY Zenon DEF Decide, Answer
<1> HIDE DEF fresh, rolled, drawn, threshold, own, eligible, a
<1>8. CASE ~connected
  BY <1>2, <1>7, <1>8 DEF a
<1>9. CASE connected /\ (q.inFlight \/ HeldBack(q))
  BY <1>2, <1>7, <1>9 DEF a
<1>10. CASE connected /\ ~(q.inFlight \/ HeldBack(q)) /\ threshold = None
  BY <1>2, <1>3, <1>7, <1>10 DEF a
<1>11. CASE connected /\ ~(q.inFlight \/ HeldBack(q)) /\ threshold # None /\ eligible > 0
  <2>1. now + eligible \in Dues BY <1>1, <1>5, Bounds DEF Dues
  <2> QED BY <1>2, <1>7, <1>11, <2>1 DEF a
<1>12. CASE /\ connected /\ ~(q.inFlight \/ HeldBack(q)) /\ threshold # None
            /\ ~(eligible > 0) /\ drawn.jitter > now
  <2>1. now + (drawn.jitter - now) \in Dues BY <1>1, <1>6, <1>12, Bounds DEF Dues
  <2> QED BY <1>6, <1>7, <1>12, <2>1 DEF a
<1>13. CASE /\ connected /\ ~(q.inFlight \/ HeldBack(q)) /\ threshold # None
            /\ ~(eligible > 0) /\ ~(drawn.jitter > now)
  <2>1. ~Early(q) BY <1>4, <1>5, <1>13
  <2>2. OpsSince(q) > 0 BY <1>3, <1>13, Bounds
  <2> QED BY <1>6, <1>7, <1>13, <2>1, <2>2 DEF a
<1> QED BY <1>8, <1>9, <1>10, <1>11, <1>12, <1>13

-----------------------------------------------------------------------------
(* Handlers hand policy and session on as one record.                      *)

(* What an operation leaves of the session, whatever it did to the policy. *)
LEMMA Pairing ==
  ASSUME NEW x \in Worlds, NEW q, NEW u
  PROVE  /\ [x EXCEPT !.p = q] = [p |-> q, s |-> x.s]
         /\ [x EXCEPT !.s = u] = [p |-> x.p, s |-> u]
         /\ x = [p |-> x.p, s |-> x.s]
         /\ x.p \in Policies /\ x.s \in Sessions
BY DEF Worlds

(* A publication starts only when none is under way, and takes the flight. *)
LEMMA Publishing ==
  ASSUME Clocks, NEW x \in Worlds, Sound(x), NEW reason \in Reasons
  PROVE  /\ Sound(Publish(x, reason))
         /\ Publish(x, reason).p.inFlight
         /\ Changes(x.p, Publish(x, reason).p)
         /\ Publish(x, reason).s.status = x.s.status
         /\ Publish(x, reason).s.pub # x.s.pub
              => ~x.p.inFlight /\ Publish(x, reason).s.pub = [rev |-> x.s.confirmed, reason |-> reason]
<1> DEFINE y == Publish(x, reason)
<1>1. CASE x.p.inFlight
  BY <1>1, Pairing DEF Publish, Changes
<1>2. CASE ~x.p.inFlight
  <2> DEFINE q0 == [x.p EXCEPT !.inFlight = TRUE]
             q == [q0 EXCEPT !.jitter = None]
             job == [rev |-> x.s.confirmed, reason |-> reason]
             u == [x.s EXCEPT !.pub = job]
  <2>1. x.p \in Policies /\ x.s \in Sessions BY Pairing
  <2>2. q0 \in Policies /\ q0.inFlight /\ Changes(x.p, q0) BY <2>1 DEF Policies, Changes
  <2>3. q \in Policies /\ q.inFlight /\ Changes(x.p, q)
    <3> HIDE DEF q0
    <3> QED BY <2>2 DEF Policies, Changes, Maybe
  <2>4. job \in Publications /\ job.rev # None
    BY <2>1, Bounds DEF Sessions, Publications, Maybe, None, Clocks
  <2>5. /\ u \in Sessions /\ u.pub = job /\ u.status = x.s.status
        /\ u.confirmed = x.s.confirmed /\ u.target = x.s.target
    <3> HIDE DEF job
    <3> QED BY <2>1, <2>4 DEF Sessions
  <2>6. y = [p |-> q, s |-> u]
    <3>1. y = [x EXCEPT !.p = [x.p EXCEPT !.inFlight = TRUE, !.jitter = None],
                        !.s.pub = [rev |-> x.s.confirmed, reason |-> reason]]
      BY <1>2, Zenon DEF Publish, MarkPublishing
    <3>2. x.p = x.p /\ [x.p EXCEPT !.inFlight = TRUE, !.jitter = None] = q OBVIOUS
    <3>3. y = [[x EXCEPT !.p = q] EXCEPT !.s = [[x EXCEPT !.p = q].s EXCEPT !.pub = job]]
      BY <3>1, <3>2, Zenon
    <3>4. [x EXCEPT !.p = q] = [p |-> q, s |-> x.s]
      <4> HIDE DEF q
      <4> QED BY Pairing
    <3>5. [[p |-> q, s |-> x.s] EXCEPT !.s = [[p |-> q, s |-> x.s].s EXCEPT !.pub = job]]
            = [p |-> q, s |-> u]
      <4> HIDE DEF q, job
      <4> QED BY DEF u
    <3> QED BY <3>3, <3>4, <3>5, Zenon
  <2> HIDE DEF q, q0, u, job, y
  <2>7. y \in Worlds BY <2>3, <2>5, <2>6 DEF Worlds
  <2>8. CaughtUp(y) BY <2>3, <2>5, <2>6 DEF CaughtUp, Changes, Sound
  <2>9. Flight(y) BY <2>3, <2>4, <2>5, <2>6 DEF Flight
  <2>10. y.s.pub = job BY <2>5, <2>6
  <2> QED BY <1>2, <2>3, <2>5, <2>6, <2>7, <2>8, <2>9, <2>10 DEF Sound, job, y
<1> QED BY <1>1, <1>2

(***************************************************************************)
(* Asking the policy leaves a timer wherever there will be something to    *)
(* do, and begins a publication only when nothing holds it back.           *)
(***************************************************************************)
Timely(y) ==
  /\ ~Early(y.p)
  /\ ~HeldBack(y.p)
  /\ y.s.pub.reason = "periodic" => y.s.pub.rev > y.p.known

(* consider() leaves a timer for what is due, and publishes in time.       *)
LEMMA Considering ==
  ASSUME Clocks, NEW x \in Worlds, Sound(x), NEW roll \in 0..MaxJitter
  PROVE  /\ Sound(Consider(x, roll))
         /\ Remembered(Consider(x, roll))
         /\ Consider(x, roll).s.pub # x.s.pub => Timely(Consider(x, roll))
<1>0. x.p \in Policies /\ x.s \in Sessions BY Pairing
<1>1. CASE x.s.status # "live"
  BY <1>1 DEF Consider, Remembered
<1>2. CASE x.s.status = "live"
  <2> DEFINE a == Decide(x.p, now, x.s.connected, roll)
             due == IF a.kind = "wait" THEN now + a.delay ELSE None
             u == [x.s EXCEPT !.due = due]
             y == [p |-> a.policy, s |-> u]
  <2>1. x.s.connected \in BOOLEAN BY <1>0 DEF Sessions
  <2>2. /\ a.policy \in Policies /\ Changes(x.p, a.policy) /\ a.policy.inFlight = x.p.inFlight
        /\ a.kind \in {"none", "wait", "publish"}
        /\ a.kind = "wait" => now + a.delay \in Dues
        /\ a.kind = "none" => ~x.s.connected \/ x.p.inFlight \/ HeldBack(x.p)
                                \/ OpsSince(x.p) < TimedOps
        /\ a.kind = "publish" => /\ ~x.p.inFlight /\ ~HeldBack(x.p) /\ ~Early(x.p)
                                  /\ OpsSince(x.p) > 0
    <3> HIDE DEF a
    <3> QED BY <1>0, <2>1, Deciding DEF a
  <2>3. Consider(x, roll) = IF a.kind = "publish" THEN Publish(y, "periodic") ELSE y
    <3>1. [x EXCEPT !.p = a.policy, !.s.due = due] = y
      <4> HIDE DEF a, due
      <4>1. [x EXCEPT !.p = a.policy, !.s.due = due]
              = [[x EXCEPT !.p = a.policy] EXCEPT !.s = [[x EXCEPT !.p = a.policy].s EXCEPT !.due = due]]
        OBVIOUS
      <4>2. [x EXCEPT !.p = a.policy] = [p |-> a.policy, s |-> x.s] BY Pairing
      <4>3. [[p |-> a.policy, s |-> x.s] EXCEPT !.s = [[p |-> a.policy, s |-> x.s].s EXCEPT !.due = due]] = y
        OBVIOUS
      <4> QED BY <4>1, <4>2, <4>3, Zenon
    <3> QED BY <1>2, <3>1, Zenon DEF Consider
  <2> HIDE DEF a
  <2>4. due \in Maybe(Dues) BY <2>2 DEF Maybe
  <2>5. /\ u \in Sessions /\ u.pub = x.s.pub /\ u.status = "live" /\ u.connected = x.s.connected
        /\ u.confirmed = x.s.confirmed /\ u.target = x.s.target /\ u.due = due
    <3> HIDE DEF due
    <3> QED BY <1>0, <1>2, <2>4 DEF Sessions
  <2> HIDE DEF u
  <2>6. Sound(y)
    <3>1. y \in Worlds BY <2>2, <2>5 DEF Worlds
    <3>2. CaughtUp(y) BY <1>2, <2>2, <2>5 DEF CaughtUp, Changes, Sound
    <3>3. Flight(y) BY <2>2, <2>5 DEF Flight, Sound
    <3> QED BY <3>1, <3>2, <3>3 DEF Sound
  <2>7. CASE a.kind # "publish"
    <3>1. Consider(x, roll) = y BY <2>3, <2>7
    <3>2. y.s.pub = x.s.pub BY <2>5
    <3>3. HeldBack(a.policy) = HeldBack(x.p) /\ OpsSince(a.policy) = OpsSince(x.p)
      BY <2>2 DEF HeldBack, OpsSince, Changes
    <3>4. CASE a.kind = "none"
      <4>1. OpsSince(x.p) \in Int /\ TimedOps \in Int
        BY <1>0, Bounds DEF OpsSince, Larger, Policies, Clocks
      <4> QED BY <2>2, <2>5, <2>6, <3>1, <3>2, <3>3, <3>4, <4>1 DEF Remembered
    <3>5. CASE a.kind = "wait"
      <4>1. u.due # None BY <2>2, <2>5, <3>5, Bounds DEF Dues, None, Clocks
      <4> QED BY <2>6, <3>1, <3>2, <4>1 DEF Remembered
    <3> QED BY <2>2, <2>7, <3>4, <3>5
  <2>8. CASE a.kind = "publish"
    <3> DEFINE z == Publish(y, "periodic")
    <3>1. Consider(x, roll) = z BY <2>3, <2>8
    <3>2. /\ Sound(z) /\ z.p.inFlight /\ Changes(a.policy, z.p)
          /\ z.s.pub # x.s.pub => z.s.pub = [rev |-> x.s.confirmed, reason |-> "periodic"]
      <4>1. y \in Worlds /\ "periodic" \in Reasons BY <2>6 DEF Sound, Reasons
      <4> QED BY <2>5, <2>6, <4>1, Publishing
    <3>3. Remembered(z) BY <3>2 DEF Remembered
    <3>4. ~Early(z.p) /\ ~HeldBack(z.p) /\ z.p.known = x.p.known
      BY <2>2, <2>8, <3>2 DEF Early, HeldBack, Changes
    <3>5. x.s.confirmed > x.p.known
      <4>1. x.p.confirmed > x.p.known
        BY <1>0, <2>2, <2>8 DEF OpsSince, Larger, Policies
      <4> QED BY <1>0, <1>2, <4>1 DEF Sound, CaughtUp, Sessions, Policies
    <3>6. z.s.pub # x.s.pub => Timely(z) BY <3>2, <3>4, <3>5 DEF Timely
    <3> QED BY <3>1, <3>2, <3>3, <3>6
  <2> QED BY <2>7, <2>8
<1> QED BY <1>1, <1>2

-----------------------------------------------------------------------------
(* What a handler leaves sound, its step keeps.                            *)
LEMMA Becoming ==
  ASSUME IInv, NEW x, Sound(x), Remembered(x), Becomes(x), UNCHANGED <<now, tip>>, ckpt' \in 0..tip
  PROVE  IInv'
<1>1. x = [p |-> x.p, s |-> x.s] BY Pairing DEF Sound
<1>2. Here' = x BY <1>1 DEF Here, Becomes
<1>3. Sound(Here)' <=> Sound(x)
  BY <1>2 DEF Sound, Worlds, Policies, Sessions, Publications, CaughtUp, Flight, Here, Becomes
<1>4. Remembered(Here)' <=> Remembered(x)
  BY <1>2 DEF Remembered, HeldBack, OpsSince, Here
<1> QED BY <1>3, <1>4 DEF IInv, Clocks

(***************************************************************************)
(* The steps keep the invariant, and a publication begun in one of them    *)
(* comes in time.  One that asks the policy last does if it had put        *)
(* nothing else under way.                                                 *)
(***************************************************************************)
Kept == IInv' /\ (Begins => Timely(Here'))

(* A turn that ends in consider().                                         *)
LEMMA Asking ==
  ASSUME IInv, NEW x \in Worlds, Sound(x), x.s.pub \in {s.pub, NoPub}, ThenConsider(x),
         UNCHANGED <<now, tip>>, ckpt' \in 0..tip
  PROVE  Kept
<1>1. PICK roll \in 0..MaxJitter : Becomes(Consider(x, roll)) BY DEF ThenConsider
<1> DEFINE y == Consider(x, roll)
<1>2. Sound(y) /\ Remembered(y) /\ (y.s.pub # x.s.pub => Timely(y))
  BY Considering DEF IInv
<1> HIDE DEF y
<1>3. IInv' BY <1>1, <1>2, Becoming DEF y
<1>4. y = [p |-> y.p, s |-> y.s] BY <1>2, Pairing DEF Sound
<1>5. Here' = y /\ s' = y.s BY <1>1, <1>4 DEF Here, Becomes, y
<1>6. Begins => y.s.pub # x.s.pub BY <1>5 DEF Begins, NoPub
<1> QED BY <1>2, <1>3, <1>5, <1>6 DEF Kept

(* A step that begins nothing.                                             *)
LEMMA Resting ==
  ASSUME IInv, NEW x, Sound(x), Remembered(x), Becomes(x), x.s.pub = s.pub,
         UNCHANGED <<now, tip>>, ckpt' \in 0..tip
  PROVE  Kept
BY Becoming DEF Kept, Begins, Becomes

-----------------------------------------------------------------------------
(* The policy as it is constructed.                                        *)
LEMMA Start == Init => IInv
<1> SUFFICES ASSUME Init PROVE IInv OBVIOUS
<1>1. Clocks BY Bounds DEF Init, Clocks
<1>2. p \in Policies BY Bounds DEF Init, NewPolicy, Policies, Maybe
<1>3. s \in Sessions
  BY Bounds DEF Init, NewSession, NoPub, Sessions, Publications, Reasons, Maybe
<1>4. Here \in Worlds BY <1>2, <1>3 DEF Here, Worlds
<1>5. CaughtUp(Here) /\ Flight(Here) /\ Remembered(Here)
  BY DEF Init, NewPolicy, NewSession, NoPub, Here, CaughtUp, Flight, Remembered
<1> QED BY <1>1, <1>4, <1>5 DEF IInv, Sound

(* Time passes, the server moves on.                                       *)
LEMMA Elsewhere == ASSUME IInv, Tick \/ ServerOp \/ OtherPublishes PROVE Kept
<1>0. /\ p \in Policies /\ s \in Sessions /\ now \in 0..MaxTime /\ tip \in 0..MaxRevision
      /\ ckpt \in 0..tip
  BY DEF IInv, Clocks, Sound, Here, Worlds
<1>1. /\ p' = p /\ s' = s /\ now' \in now..MaxTime /\ tip' \in tip..MaxRevision /\ ckpt' \in 0..tip'
  <2>1. CASE Tick BY <1>0, <2>1, Bounds DEF Tick
  <2>2. CASE ServerOp BY <1>0, <2>2, Bounds DEF ServerOp
  <2>3. CASE OtherPublishes BY <1>0, <2>3, Bounds DEF OtherPublishes
  <2> QED BY <2>1, <2>2, <2>3
<1>2. 0..now \subseteq 0..now' /\ 0..tip \subseteq 0..tip' BY <1>0, <1>1, Bounds
<1>3. Policies \subseteq Policies' BY <1>2 DEF Policies, Maybe
<1>4. Publications \subseteq Publications' BY <1>2 DEF Publications, Maybe
<1>5. Sessions \subseteq Sessions' BY <1>2, <1>4 DEF Sessions
<1>6. p' \in Policies' /\ s' \in Sessions'
  BY <1>0, <1>1, <1>3, <1>5
<1>7. Here' \in Worlds' BY <1>6 DEF Here, Worlds
<1>8. Clocks' BY <1>0, <1>1, Bounds DEF Clocks
<1>9. CaughtUp(Here)' /\ Flight(Here)' /\ Remembered(Here)'
  BY <1>1 DEF IInv, Sound, CaughtUp, Flight, Remembered, HeldBack, OpsSince, Here
<1>10. IInv' BY <1>7, <1>8, <1>9 DEF IInv, Sound
<1>11. ~Begins BY <1>1 DEF Begins
<1> QED BY <1>10, <1>11 DEF Kept

(* What the invariant says of the pieces.                                  *)
LEMMA Pieces ==
  ASSUME IInv
  PROVE  /\ p \in Policies /\ s \in Sessions /\ Here \in Worlds
         /\ p.confirmed \in Nat /\ s.confirmed \in Nat /\ s.target \in Nat
         /\ now \in Nat /\ tip \in Nat /\ ckpt \in Nat /\ ckpt <= tip
         /\ s.status = "live" => s.confirmed >= p.confirmed
         /\ s.status = "catching-up" => s.confirmed >= p.confirmed \/ s.target >= p.confirmed
         /\ p.inFlight <=> s.pub.rev # None
BY Bounds DEF IInv, Clocks, Sound, Worlds, Here, CaughtUp, Flight, Policies, Sessions

(* Operations are confirmed; the stream opens; the session is live again.  *)
LEMMA ConfirmsStep == ASSUME IInv, Confirms PROVE Kept
<1> DEFINE rev == s.confirmed + 1
           q == ObserveConfirmed(p, rev)
           u == [s EXCEPT !.confirmed = rev]
           x == [p |-> q, s |-> u]
<1>1. /\ rev \in 0..tip /\ ThenConsider(x) /\ UNCHANGED <<now, tip>> /\ ckpt' \in 0..tip
  BY Pieces DEF Confirms, Sessions
<1>2. /\ q \in Policies /\ q.confirmed = Larger(p.confirmed, rev) /\ q.inFlight = p.inFlight
  BY <1>1, Pieces, Confirming DEF IInv
<1>3. /\ u \in Sessions /\ u.confirmed = rev /\ u.status = s.status /\ u.target = s.target
      /\ u.pub = s.pub
  BY <1>1, Pieces DEF Sessions
<1> HIDE DEF q, u
<1>4. x \in Worlds BY <1>2, <1>3 DEF Worlds
<1>5. CaughtUp(x) /\ Flight(x) BY <1>2, <1>3, Pieces DEF CaughtUp, Flight, Larger
<1> QED BY <1>1, <1>3, <1>4, <1>5, Asking DEF Sound

(* The stream opens, with the head of the server.                          *)
LEMMA StreamOpensStep == ASSUME IInv, StreamOpens PROVE Kept
<1> DEFINE q == ObserveSnapshot(p, ckpt, now)
           st == IF tip > s.confirmed THEN "catching-up" ELSE s.status
           u0 == [s EXCEPT !.connected = TRUE]
           u1 == [u0 EXCEPT !.target = Larger(s.target, tip)]
           u == [u1 EXCEPT !.status = st]
           x == [p |-> q, s |-> u]
<1>1. /\ ThenConsider(x) /\ UNCHANGED <<now, tip>> /\ ckpt' \in 0..tip /\ s.status # "closed"
  <2>1. [s EXCEPT !.connected = TRUE, !.target = Larger(@, tip),
                  !.status = IF tip > s.confirmed THEN "catching-up" ELSE @] = u
    BY Pieces DEF Sessions
  <2> QED BY <2>1, Pieces DEF StreamOpens, Open
<1>2. q \in Policies /\ q.confirmed = p.confirmed /\ q.inFlight = p.inFlight
  BY Pieces, Seeing DEF IInv
<1>3. /\ u \in Sessions /\ u.confirmed = s.confirmed /\ u.status = st
      /\ u.target = Larger(s.target, tip) /\ u.pub = s.pub
  <2>1. Larger(s.target, tip) \in 0..tip BY Pieces DEF Larger, Sessions
  <2>2. u0 \in Sessions /\ u0.confirmed = s.confirmed /\ u0.pub = s.pub BY Pieces DEF Sessions
  <2>3. st \in {"live", "catching-up", "closed"} BY Pieces DEF Sessions
  <2> HIDE DEF u0, st
  <2>4. /\ u1 \in Sessions /\ u1.confirmed = s.confirmed /\ u1.pub = s.pub
        /\ u1.target = Larger(s.target, tip)
    BY <2>1, <2>2 DEF Sessions
  <2> HIDE DEF u1
  <2> QED BY <2>3, <2>4 DEF Sessions
<1> HIDE DEF q, u
<1>4. x \in Worlds BY <1>2, <1>3 DEF Worlds
<1>5. CaughtUp(x)
  <2>1. p.confirmed <= tip /\ s.target <= tip BY Pieces DEF Policies, Sessions
  <2> QED BY <1>1, <1>2, <1>3, <2>1, Pieces DEF CaughtUp, Larger, Sessions
<1>6. Flight(x) BY <1>2, <1>3, Pieces DEF Flight
<1> QED BY <1>1, <1>3, <1>4, <1>5, <1>6, Asking DEF Sound

(* The catch-up ends at what it has read.                                  *)
LEMMA SyncEndsStep == ASSUME IInv, SyncEnds PROVE Kept
<1> DEFINE u == [s EXCEPT !.status = "live"]
           x == [p |-> p, s |-> u]
<1>1. [Here EXCEPT !.s.status = "live"] = x
  <2>1. [Here EXCEPT !.s.status = "live"] = [Here EXCEPT !.s = [Here.s EXCEPT !.status = "live"]]
    OBVIOUS
  <2> QED BY <2>1, Pieces, Pairing DEF Here
<1>2. /\ u \in Sessions /\ u.confirmed = s.confirmed /\ u.status = "live" /\ u.pub = s.pub
  BY Pieces DEF Sessions
<1>3. ThenConsider(x) /\ UNCHANGED <<now, tip>> /\ ckpt' \in 0..tip
  BY <1>1, Pieces DEF SyncEnds
<1> HIDE DEF u
<1>4. x \in Worlds BY <1>2, Pieces DEF Worlds
<1>5. CaughtUp(x) /\ Flight(x) BY <1>2, Pieces DEF CaughtUp, Flight, SyncEnds
<1> QED BY <1>2, <1>3, <1>4, <1>5, Asking DEF Sound

(* The timer of the policy fires.                                          *)
LEMMA TimerFiresStep == ASSUME IInv, TimerFires PROVE Kept
<1> DEFINE u == [s EXCEPT !.due = None]
           x == [p |-> p, s |-> u]
<1>1. [Here EXCEPT !.s.due = None] = x
  <2>1. [Here EXCEPT !.s.due = None] = [Here EXCEPT !.s = [Here.s EXCEPT !.due = None]]
    OBVIOUS
  <2> QED BY <2>1, Pieces, Pairing DEF Here
<1>2. /\ u \in Sessions /\ u.confirmed = s.confirmed /\ u.status = s.status /\ u.pub = s.pub
      /\ u.target = s.target
  BY Pieces DEF Sessions, Maybe
<1>3. ThenConsider(x) /\ UNCHANGED <<now, tip>> /\ ckpt' \in 0..tip
  BY <1>1, Pieces DEF TimerFires
<1> HIDE DEF u
<1>4. x \in Worlds BY <1>2, Pieces DEF Worlds
<1>5. CaughtUp(x) /\ Flight(x) BY <1>2, Pieces DEF CaughtUp, Flight
<1> QED BY <1>2, <1>3, <1>4, <1>5, Asking DEF Sound

-----------------------------------------------------------------------------
(* A session that is not live, or not connected, has no timer to keep.     *)
LEMMA StreamDropsStep == ASSUME IInv, StreamDrops PROVE Kept
<1> DEFINE u0 == [s EXCEPT !.connected = FALSE]
           u == [u0 EXCEPT !.due = None]
           x == [p |-> p, s |-> u]
<1>1. /\ u \in Sessions /\ u.confirmed = s.confirmed /\ u.status = s.status /\ u.pub = s.pub
      /\ u.target = s.target /\ ~u.connected
  <2>1. /\ u0 \in Sessions /\ u0.confirmed = s.confirmed /\ u0.status = s.status
        /\ u0.pub = s.pub /\ u0.target = s.target /\ ~u0.connected
    BY Pieces DEF Sessions
  <2> HIDE DEF u0
  <2> QED BY <2>1 DEF Sessions, Maybe
<1>2. s' = u /\ p' = p /\ UNCHANGED <<now, tip>> /\ ckpt' \in 0..tip BY Pieces DEF StreamDrops
<1> HIDE DEF u
<1>3. x \in Worlds BY <1>1, Pieces DEF Worlds
<1>4. CaughtUp(x) /\ Flight(x) /\ Remembered(x)
  BY <1>1, Pieces DEF CaughtUp, Flight, Remembered
<1>5. Becomes(x) BY <1>2 DEF Becomes
<1> QED BY <1>1, <1>2, <1>3, <1>4, <1>5, Resting DEF Sound

(* The session gives up its state for a snapshot.                          *)
LEMMA StartsResyncStep == ASSUME IInv, StartsResync PROVE Kept
<1> DEFINE u0 == [s EXCEPT !.status = "catching-up"]
           u == [u0 EXCEPT !.resync = TRUE]
           x == [p |-> p, s |-> u]
<1>1. /\ u \in Sessions /\ u.confirmed = s.confirmed /\ u.status = "catching-up"
      /\ u.pub = s.pub /\ u.target = s.target
  <2>1. /\ u0 \in Sessions /\ u0.confirmed = s.confirmed /\ u0.status = "catching-up"
        /\ u0.pub = s.pub /\ u0.target = s.target
    BY Pieces DEF Sessions
  <2> HIDE DEF u0
  <2> QED BY <2>1 DEF Sessions
<1>2. /\ s' = u /\ p' = p /\ UNCHANGED <<now, tip>> /\ ckpt' \in 0..tip /\ s.status # "closed"
  BY Pieces DEF StartsResync, Open
<1> HIDE DEF u
<1>3. x \in Worlds BY <1>1, Pieces DEF Worlds
<1>4. CaughtUp(x) /\ Flight(x) /\ Remembered(x)
  <2>1. s.status \in {"live", "catching-up"} BY <1>2, Pieces DEF Sessions
  <2> QED BY <1>1, <2>1, Pieces DEF CaughtUp, Flight, Remembered
<1>5. Becomes(x) BY <1>2 DEF Becomes
<1> QED BY <1>1, <1>2, <1>3, <1>4, <1>5, Resting DEF Sound

(* The snapshot comes, older than what was confirmed or newer.             *)
LEMMA AdoptsSnapshotStep == ASSUME IInv, AdoptsSnapshot PROVE Kept
<1> DEFINE c == ObserveConfirmed(p, ckpt)
           q == ObserveSnapshot(c, ckpt, now)
           goal == Larger(Larger(s.target, s.confirmed), ckpt)
           u0 == [s EXCEPT !.target = goal]
           u1 == [u0 EXCEPT !.confirmed = ckpt]
           u == [u1 EXCEPT !.resync = FALSE]
           x == [p |-> q, s |-> u]
<1>0. ckpt \in 0..tip BY DEF IInv, Clocks
<1>1. /\ c \in Policies /\ c.confirmed = Larger(p.confirmed, ckpt) /\ c.inFlight = p.inFlight
  BY <1>0, Pieces, Confirming DEF IInv
<1>2. /\ q \in Policies /\ q.confirmed = c.confirmed /\ q.inFlight = p.inFlight
  <2> HIDE DEF c
  <2> QED BY <1>0, <1>1, Seeing DEF IInv
<1>3. /\ goal \in 0..tip /\ goal >= s.target /\ goal >= s.confirmed /\ goal >= ckpt
  BY <1>0, Pieces DEF Larger, Sessions
<1>4. /\ u \in Sessions /\ u.status = s.status /\ u.pub = s.pub /\ u.target = goal
  <2> HIDE DEF goal
  <2>1. u0 \in Sessions /\ u0.status = s.status /\ u0.pub = s.pub /\ u0.target = goal
    BY <1>3, Pieces DEF Sessions
  <2> HIDE DEF u0
  <2>2. u1 \in Sessions /\ u1.status = s.status /\ u1.pub = s.pub /\ u1.target = goal
    BY <1>0, <2>1 DEF Sessions
  <2> HIDE DEF u1
  <2> QED BY <2>2 DEF Sessions
<1>5. /\ s' = u /\ p' = q /\ UNCHANGED <<now, tip>> /\ ckpt' \in 0..tip /\ s.status = "catching-up"
  <2>1. [s EXCEPT !.target = Larger(Larger(@, s.confirmed), ckpt), !.confirmed = ckpt,
                  !.resync = FALSE] = u
    BY Zenon
  <2> QED BY <1>0, <2>1 DEF AdoptsSnapshot
<1> HIDE DEF c, q, u, goal
<1>6. x \in Worlds BY <1>2, <1>4 DEF Worlds
<1>7. CaughtUp(x)
  BY <1>0, <1>1, <1>2, <1>3, <1>4, <1>5, Pieces DEF CaughtUp, Larger, Sessions
<1>8. Flight(x) /\ Remembered(x) BY <1>2, <1>4, <1>5, Pieces DEF Flight, Remembered
<1>9. Becomes(x) BY <1>5 DEF Becomes
<1> QED BY <1>4, <1>5, <1>6, <1>7, <1>8, <1>9, Resting DEF Sound

-----------------------------------------------------------------------------
(* Publications end, and what is known from them is asked about at once.   *)

(* Nothing is under way any more, whatever became of it.                   *)
LEMMA Ending ==
  ASSUME IInv, NEW q \in Policies, q.confirmed = p.confirmed, ~q.inFlight
  PROVE  LET x == [p |-> q, s |-> [s EXCEPT !.pub = NoPub]] IN
         x \in Worlds /\ Sound(x) /\ x.s.pub = NoPub
<1> DEFINE u == [s EXCEPT !.pub = NoPub]
           x == [p |-> q, s |-> u]
<1>1. NoPub \in Publications BY DEF NoPub, Publications, Maybe, Reasons
<1>2. /\ u \in Sessions /\ u.confirmed = s.confirmed /\ u.status = s.status /\ u.pub = NoPub
      /\ u.target = s.target
  BY <1>1, Pieces DEF Sessions
<1> HIDE DEF u
<1>3. x \in Worlds BY <1>2 DEF Worlds
<1>4. CaughtUp(x) /\ Flight(x) BY <1>2, Pieces DEF CaughtUp, Flight, NoPub
<1> QED BY <1>2, <1>3, <1>4 DEF Sound, u

(* The publication is answered.                                            *)
LEMMA PublicationEndsStep == ASSUME IInv, PublicationEnds PROVE Kept
<1> DEFINE u == [s EXCEPT !.pub = NoPub]
           done == [Here EXCEPT !.s.pub = NoPub]
           q0 == [p EXCEPT !.inFlight = FALSE]
           q1 == [q0 EXCEPT !.lastOwn = now]
           q2 == [q1 EXCEPT !.retryAfter = None]
           won == ObserveSnapshot(q2, s.pub.rev, now)
           lost == ObserveSnapshot(q0, ckpt, now)
<1>0. /\ ckpt \in 0..tip /\ now \in 0..now /\ s.pub.rev \in 0..tip /\ UNCHANGED <<now, tip>>
  <2>1. s.pub \in Publications BY Pieces DEF Sessions
  <2> QED BY <2>1, Pieces DEF Publications, Maybe, PublicationEnds
<1>1. done = [p |-> p, s |-> u]
  <2>1. done = [Here EXCEPT !.s = [Here.s EXCEPT !.pub = NoPub]] OBVIOUS
  <2> QED BY <2>1, Pieces, Pairing DEF Here
<1>2. q0 \in Policies /\ q0.confirmed = p.confirmed /\ ~q0.inFlight BY Pieces DEF Policies
<1>3. q2 \in Policies /\ q2.confirmed = p.confirmed /\ ~q2.inFlight
  <2> HIDE DEF q0
  <2>1. q1 \in Policies /\ q1.confirmed = p.confirmed /\ ~q1.inFlight
    BY <1>0, <1>2 DEF Policies, Maybe
  <2> HIDE DEF q1
  <2> QED BY <2>1 DEF Policies, Maybe
<1>4. /\ won \in Policies /\ won.confirmed = p.confirmed /\ ~won.inFlight
      /\ lost \in Policies /\ lost.confirmed = p.confirmed /\ ~lost.inFlight
  <2> HIDE DEF q0, q2
  <2> QED BY <1>0, <1>2, <1>3, Seeing DEF IInv
<1>5. PublicationSucceeded(p, s.pub.rev, now) = won BY Zenon DEF PublicationSucceeded
<1>6. PublicationConflicted(p, ckpt, now) = lost BY Zenon DEF PublicationConflicted
<1> HIDE DEF won, lost
<1>7. \/ ThenConsider([p |-> won, s |-> u]) /\ ckpt' = s.pub.rev
      \/ ThenConsider([p |-> lost, s |-> u]) /\ ckpt' = ckpt
  <2> HIDE DEF u
  <2>1. [done EXCEPT !.p = PublicationSucceeded(@, s.pub.rev, now)] = [p |-> won, s |-> u]
    <3>1. [done EXCEPT !.p = PublicationSucceeded(@, s.pub.rev, now)] = [done EXCEPT !.p = won]
      BY <1>1, <1>5
    <3>2. [[p |-> p, s |-> u] EXCEPT !.p = won] = [p |-> won, s |-> u] OBVIOUS
    <3> QED BY <1>1, <3>1, <3>2, Zenon
  <2>2. [done EXCEPT !.p = PublicationConflicted(@, ckpt, now)] = [p |-> lost, s |-> u]
    <3>1. [done EXCEPT !.p = PublicationConflicted(@, ckpt, now)] = [done EXCEPT !.p = lost]
      BY <1>1, <1>6
    <3>2. [[p |-> p, s |-> u] EXCEPT !.p = lost] = [p |-> lost, s |-> u] OBVIOUS
    <3> QED BY <1>1, <3>1, <3>2, Zenon
  <2> QED BY <2>1, <2>2, Zenon DEF PublicationEnds
<1>8. CASE ThenConsider([p |-> won, s |-> u]) /\ ckpt' = s.pub.rev
  BY <1>0, <1>4, <1>8, Ending, Asking
<1>9. CASE ThenConsider([p |-> lost, s |-> u]) /\ ckpt' = ckpt
  BY <1>0, <1>4, <1>9, Ending, Asking
<1> QED BY <1>7, <1>8, <1>9

(* The publication fails.                                                  *)
LEMMA PublicationFailsStep == ASSUME IInv, PublicationFails PROVE Kept
<1> DEFINE q0 == [p EXCEPT !.inFlight = FALSE]
           q1 == [q0 EXCEPT !.retryAfter = p.confirmed]
           q == [q1 EXCEPT !.jitter = None]
<1>1. q \in Policies /\ q.confirmed = p.confirmed /\ ~q.inFlight
  <2>1. q0 \in Policies /\ q0.confirmed = p.confirmed /\ ~q0.inFlight BY Pieces DEF Policies
  <2>2. p.confirmed \in Maybe(0..tip) BY Pieces DEF Policies, Maybe
  <2> HIDE DEF q0
  <2>3. q1 \in Policies /\ q1.confirmed = p.confirmed /\ ~q1.inFlight
    BY <2>1, <2>2 DEF Policies
  <2> HIDE DEF q1
  <2> QED BY <2>3 DEF Policies, Maybe
<1>2. PublicationFailed(p) = q
  <2>1. q0.confirmed = p.confirmed BY Pieces DEF Policies
  <2> QED BY <2>1, Zenon DEF PublicationFailed
<1>3. ThenConsider([p |-> q, s |-> [s EXCEPT !.pub = NoPub]])
  BY <1>2, Zenon DEF PublicationFails
<1>4. ckpt' \in 0..tip /\ UNCHANGED <<now, tip>>
  <2>1. s.pub \in Publications BY Pieces DEF Sessions
  <2> QED BY <2>1, Pieces DEF Publications, Maybe, PublicationFails, Larger
<1> QED BY <1>1, <1>3, <1>4, Ending, Asking

(* The server requires one: not of the session's own accord.               *)
LEMMA ServerRequiresStep == ASSUME IInv, ServerRequires PROVE Kept
<1> DEFINE x == Publish(Here, "required")
<1>1. Here \in Worlds /\ Sound(Here) /\ Clocks /\ "required" \in Reasons
  BY Pieces DEF IInv, Reasons
<1>2. /\ Sound(x) /\ x.p.inFlight
      /\ x.s.pub # Here.s.pub => x.s.pub = [rev |-> Here.s.confirmed, reason |-> "required"]
  BY <1>1, Publishing
<1>3. Becomes(x) /\ UNCHANGED <<now, tip>> /\ ckpt' \in 0..tip
  BY Pieces DEF ServerRequires
<1> HIDE DEF x
<1>4. Remembered(x) BY <1>2 DEF Remembered
<1>5. IInv' BY <1>2, <1>3, <1>4, Becoming
<1>6. ~Begins BY <1>2, <1>3 DEF Begins, Becomes, Here
<1> QED BY <1>5, <1>6 DEF Kept

-----------------------------------------------------------------------------
(* The session ends; a checkpoint that is due is flushed first.            *)
LEMMA Closing ==
  ASSUME NEW x \in Worlds, Sound(x)
  PROVE  /\ Sound(Ended(x)) /\ Remembered(Ended(x))
         /\ Ended(x).p = x.p /\ Ended(x).s.pub = x.s.pub
<1> DEFINE u0 == [x.s EXCEPT !.due = None]
           u1 == [u0 EXCEPT !.connected = FALSE]
           u == [u1 EXCEPT !.status = "closed"]
           y == [p |-> x.p, s |-> u]
<1>1. Ended(x) = y
  <2>1. Ended(x) = [x EXCEPT !.s = u]
    <3>1. x.s \in Sessions /\ x = [p |-> x.p, s |-> x.s] BY Pairing
    <3> DEFINE x1 == [x EXCEPT !.s = u0]
               x2 == [x1 EXCEPT !.s = u1]
    <3>2. x1.s = u0 /\ x2.s = u1 /\ [x2 EXCEPT !.s = u] = [x EXCEPT !.s = u]
      <4> HIDE DEF u0, u1, u
      <4> QED BY <3>1
    <3>3. Ended(x) = [x2 EXCEPT !.s = [x2.s EXCEPT !.status = "closed"]]
      <4>1. x2 = [x1 EXCEPT !.s = [x1.s EXCEPT !.connected = FALSE]] BY <3>2, Zenon
      <4> QED BY <4>1, Zenon DEF Ended
    <3> QED BY <3>2, <3>3, Zenon
  <2> HIDE DEF u
  <2> QED BY <2>1, Pairing
<1>2. u \in Sessions /\ u.status = "closed" /\ u.pub = x.s.pub
  <2>1. u0 \in Sessions /\ u0.pub = x.s.pub BY Pairing DEF Sessions, Maybe
  <2> HIDE DEF u0
  <2>2. u1 \in Sessions /\ u1.pub = x.s.pub BY <2>1 DEF Sessions
  <2> HIDE DEF u1
  <2> QED BY <2>2 DEF Sessions
<1> HIDE DEF u
<1>3. y \in Worlds BY <1>2, Pairing DEF Worlds
<1>4. CaughtUp(y) /\ Flight(y) /\ Remembered(y)
  BY <1>2 DEF CaughtUp, Flight, Remembered, Sound
<1> QED BY <1>1, <1>2, <1>3, <1>4 DEF Sound

(* The session is closed or fails.                                         *)
LEMMA EndSteps == ASSUME IInv, Close \/ Fail PROVE Kept
<1>0. Here \in Worlds /\ Sound(Here) /\ Clocks /\ "close" \in Reasons /\ Here.s.pub = s.pub
      /\ UNCHANGED <<now, tip>> /\ ckpt' \in 0..tip
  BY Pieces DEF IInv, Reasons, Here, Close, Fail
<1>1. CASE Becomes(Ended(Here))
  BY <1>0, <1>1, Closing, Resting
<1>2. CASE Becomes(Ended(Publish(Here, "close"))) /\ ShouldFlushOnClose(p, now, s.connected)
  <2> DEFINE y == Publish(Here, "close")
             z == Ended(y)
  <2>1. /\ Sound(y) /\ Changes(p, y.p) /\ y \in Worlds
        /\ y.s.pub # s.pub => y.s.pub = [rev |-> s.confirmed, reason |-> "close"]
    <3>1. Here.p = p /\ Here.s = s BY DEF Here
    <3> QED BY <1>0, <3>1, Publishing DEF Sound
  <2> HIDE DEF y
  <2>2. Sound(z) /\ Remembered(z) /\ z.p = y.p /\ z.s.pub = y.s.pub BY <2>1, Closing
  <2> HIDE DEF z
  <2>3. z = [p |-> z.p, s |-> z.s] BY <2>2, Pairing DEF Sound
  <2>4. Becomes(z) BY <1>2 DEF z, y
  <2>5. IInv' BY <1>0, <2>2, <2>4, Becoming
  <2>6. Here' = z BY <2>3, <2>4 DEF Here, Becomes
  <2>7. ~Early(p)
    <3>1. p.lastOwn = None \/ p.lastOwn \in Nat BY Pieces DEF Policies, Maybe
    <3> QED BY <1>2, <3>1, Pieces, Bounds DEF ShouldFlushOnClose, OwnIntervalDelay, Larger, Early
  <2>8. Timely(z) \/ z.s.pub = s.pub
    BY <1>2, <2>1, <2>2, <2>7 DEF Timely, Early, HeldBack, Changes, ShouldFlushOnClose
  <2>9. Begins => z.s.pub # s.pub BY <2>4 DEF Begins, Becomes
  <2> QED BY <2>5, <2>6, <2>8, <2>9 DEF Kept
<1> QED BY <1>1, <1>2 DEF Close, Fail

(* Every step keeps the invariant, and begins publications in time.        *)
LEMMA Steps == IInv /\ Next => Kept
BY Elsewhere, ConfirmsStep, StreamOpensStep, StreamDropsStep, StartsResyncStep, AdoptsSnapshotStep,
   SyncEndsStep, TimerFiresStep, ServerRequiresStep, PublicationEndsStep, PublicationFailsStep,
   EndSteps DEF Next

-----------------------------------------------------------------------------
(***************************************************************************)
(* Policy and session agree, for all thresholds, intervals and bounds: on  *)
(* what is under way, on the timer, on what has been confirmed.            *)
(***************************************************************************)
THEOREM Invariance == Spec => []IInv
<1>1. IInv /\ UNCHANGED vars => IInv'
  BY DEF IInv, vars, Clocks, Sound, Worlds, Policies, Sessions, Publications, CaughtUp, Flight,
         Remembered, HeldBack, OpsSince, Here
<1> QED BY <1>1, Start, Steps, PTL DEF Spec, Kept

(* Every variable keeps its type; nobody knows of a revision the server    *)
(* does not have.                                                          *)
THEOREM TypeCorrect == Spec => []TypeOK
<1>1. IInv => TypeOK
  BY Pieces, Bounds
  DEF IInv, Clocks, TypeOK, Policies, Sessions, Publications, Reasons, Dues, Maybe, Times
<1> QED BY <1>1, Invariance, PTL

(***************************************************************************)
(* The single flight is held exactly while a publication is under way.     *)
(***************************************************************************)
THEOREM FlightCorrect == Spec => []SingleFlight
<1>1. IInv => SingleFlight BY Pieces DEF SingleFlight
<1> QED BY <1>1, Invariance, PTL

(***************************************************************************)
(* A checkpoint that will become due has a timer, through drops, resyncs,  *)
(* conflicts and failures.                                                 *)
(***************************************************************************)
THEOREM DueRemembered == Spec => []NothingDueIsForgotten
<1>1. IInv => NothingDueIsForgotten
  <2> SUFFICES ASSUME IInv, ThresholdDelay(p, now) # None PROVE OpsSince(p) >= TimedOps
    BY DEF NothingDueIsForgotten, IInv, Remembered, Here
  <2>1. OpsSince(p) \in Int BY Pieces DEF OpsSince, Larger, Policies
  <2> QED BY <2>1, Bounds DEF ThresholdDelay
<1> QED BY <1>1, Invariance, PTL

(***************************************************************************)
(* The storm gates: publications of the session's own accord are spaced,   *)
(* wait for newer work after a failure, and the periodic ones publish      *)
(* something newer than every checkpoint known, even after a resync.       *)
(***************************************************************************)
THEOREM PublicationsSpaced == Spec => PublicationsAreSpaced
<1> DEFINE Gates ==
      Begins => /\ p'.lastOwn # None => now >= p'.lastOwn + MinInterval
                /\ p'.retryAfter # None => p'.confirmed > p'.retryAfter \/ p'.known >= p'.retryAfter
                /\ s'.pub.reason = "periodic" => s'.pub.rev > p'.known
<1>1. IInv /\ [Next]_vars => [Gates]_vars
  <2> SUFFICES ASSUME IInv, Next, Begins PROVE Gates
    OBVIOUS
  <2>1. IInv' /\ Timely(Here') BY Steps DEF Kept
  <2>2. p' \in Policies' BY <2>1 DEF IInv, Sound, Worlds, Here
  <2>3. now \in Nat /\ MinInterval \in Nat /\ Here'.p = p' /\ Here'.s = s'
    BY Pieces, Bounds DEF Here
  <2>4. tip' \in Nat /\ now' \in Nat BY <2>1, Bounds DEF IInv, Clocks
  <2>5. p'.lastOwn \in {-1} \cup Nat /\ p'.retryAfter \in {-1} \cup Nat /\ p'.confirmed \in Nat
        /\ None = -1
    BY <2>2, <2>4 DEF Policies, Maybe, None
  <2> QED BY <2>1, <2>3, <2>5 DEF Timely, Early, HeldBack
<1> QED BY <1>1, Invariance, PTL DEF Spec, PublicationsAreSpaced
=============================================================================
