------------------------ MODULE SharedSessionProofs ------------------------
(***************************************************************************)
(* For every document, every bound and every schedule, in four layers:     *)
(*   - the replica: TypeOK, ConfirmedIsLogPrefix, OptimisticIsRebase,      *)
(*     CheckpointIsLogPrefix, from IInv;                                   *)
(*   - its end: TerminalIsFrozen, from IInv and one step;                  *)
(*   - its waking: NoLostWakeUp and the refinement of SettlingSession,     *)
(*     from WakeInv;                                                       *)
(*   - its books: AtMostOnce, NothingLostSilently and                      *)
(*     HistoryFollowsPending, from LedgerInv.                              *)
(***************************************************************************)
EXTENDS SharedSession, FiniteSetTheorems, TLAPS

-----------------------------------------------------------------------------
(* Numbers, and loops that apply one step after the other.                    *)

(***************************************************************************)
(* Induction: a set that holds 0 and the successor of each of its numbers  *)
(* holds them all.  A counterexample n would make "one less" an injection  *)
(* of the finite set of counterexamples up to n into itself that misses n. *)
(***************************************************************************)
LEMMA SetInduction ==
  ASSUME NEW S, 0 \in S, \A n \in Nat : n \in S => n + 1 \in S
  PROVE  Nat \subseteq S
<1> SUFFICES ASSUME NEW n \in Nat, n \notin S PROVE FALSE
  OBVIOUS
<1> DEFINE U == {m \in 0..n : m \notin S}
           f == [u \in U |-> u - 1]
<1>1. IsFiniteSet(U)
  <2>1. IsFiniteSet(0..n) BY FS_Interval
  <2>2. U \in SUBSET (0..n) OBVIOUS
  <2> QED BY <2>1, <2>2, FS_Subset
<1>2. \A u \in U : u - 1 \in U
  <2> SUFFICES ASSUME NEW u \in U PROVE u - 1 \in U
    OBVIOUS
  <2>1. u \in Nat /\ u <= n /\ u # 0 OBVIOUS
  <2>2. u - 1 \in Nat /\ (u - 1) + 1 = u BY <2>1
  <2>3. u - 1 \notin S BY <2>2
  <2> QED BY <2>1, <2>2, <2>3
<1>3. f \in Injection(U, U)
  <2>1. f \in [U -> U] BY <1>2
  <2>2. \A a, b \in U : f[a] = f[b] => a = b
    <3> SUFFICES ASSUME NEW a \in U, NEW b \in U, f[a] = f[b] PROVE a = b
      OBVIOUS
    <3>1. a \in Int /\ b \in Int OBVIOUS
    <3>2. f[a] = a - 1 /\ f[b] = b - 1 OBVIOUS
    <3> QED BY <3>1, <3>2
  <2> QED BY <2>1, <2>2 DEF Injection, IsInjective
<1>4. f \in Surjection(U, U) BY <1>1, <1>3, FS_Injection
<1>5. n \in U OBVIOUS
<1>6. PICK u \in U : f[u] = n BY <1>4, <1>5 DEF Surjection
<1> QED BY <1>6

(***************************************************************************)
(* A set of natural numbers has a least one.                               *)
(***************************************************************************)
LEMMA Smallest ==
  ASSUME NEW S, S \subseteq Nat, S # {}
  PROVE  \E i \in S : \A j \in S : i <= j
<1> SUFFICES ASSUME \A i \in S : \E j \in S : j < i PROVE FALSE
  OBVIOUS
<1> DEFINE T == {m \in Nat : \A i \in 0..m : i \notin S}
<1>1. 0 \in T
  <2>1. 0..0 = {0} OBVIOUS
  <2>2. 0 \notin S OBVIOUS
  <2> QED BY <2>1, <2>2
<1>2. \A m \in Nat : m \in T => m + 1 \in T
  <2> SUFFICES ASSUME NEW m \in Nat, m \in T, m + 1 \in S PROVE FALSE
    OBVIOUS
  <2>1. PICK j \in S : j < m + 1 OBVIOUS
  <2>2. j \in 0..m BY <2>1
  <2> QED BY <2>2
<1> HIDE DEF T
<1>3. Nat \subseteq T BY <1>1, <1>2, SetInduction
<1>4. PICK i \in S : TRUE OBVIOUS
<1>5. i \in Nat /\ i \in 0..i BY <1>4
<1> QED BY <1>3, <1>5 DEF T

(***************************************************************************)
(* The same, for the numbers up to n.                                      *)
(***************************************************************************)
LEMMA BoundedInduction ==
  ASSUME NEW n \in Nat, NEW S, 0 \in S,
         \A i \in 0..n : i < n /\ i \in S => i + 1 \in S
  PROVE  0..n \subseteq S
<1> DEFINE T == {m \in Nat : m <= n => m \in S}
<1>1. 0 \in T OBVIOUS
<1>2. \A m \in Nat : m \in T => m + 1 \in T OBVIOUS
<1> HIDE DEF T
<1>3. Nat \subseteq T BY <1>1, <1>2, SetInduction
<1> QED BY <1>3 DEF T

(***************************************************************************)
(* A loop of n passes, each a function on X, has a run that stays in X.    *)
(***************************************************************************)
RunOf(f, X, n, x, step) ==
  f \in [0..n -> X] /\ f[0] = x /\ \A i \in 1..n : f[i] = step[i][f[i - 1]]

(***************************************************************************)
(* Such a run exists, by induction on the number of passes.                *)
(***************************************************************************)
LEMMA Iterate ==
  ASSUME NEW X, NEW n \in Nat, NEW x \in X, NEW step \in [1..n -> [X -> X]]
  PROVE  \E f : RunOf(f, X, n, x, step)
<1> DEFINE IsRun(f, m) == f[0] = x /\ \A i \in 1..m : f[i] = step[i][f[i - 1]]
           S == {m \in 0..n : \E f \in [0..m -> X] : IsRun(f, m)}
<1>1. 0 \in S
  <2> DEFINE g == [i \in 0..0 |-> x]
  <2>1. g \in [0..0 -> X] OBVIOUS
  <2>2. IsRun(g, 0) OBVIOUS
  <2> HIDE DEF g, IsRun
  <2>3. \E f \in [0..0 -> X] : IsRun(f, 0) BY <2>1, <2>2
  <2> QED BY <2>3
<1>2. \A m \in 0..n : m < n /\ m \in S => m + 1 \in S
  <2> SUFFICES ASSUME NEW m \in 0..n, m < n, NEW f \in [0..m -> X], IsRun(f, m)
               PROVE  m + 1 \in S
    OBVIOUS
  <2> DEFINE y == step[m + 1][f[m]]
             g == [i \in 0..(m + 1) |-> IF i <= m THEN f[i] ELSE y]
  <2>1. y \in X
    <3>1. m + 1 \in 1..n /\ f[m] \in X OBVIOUS
    <3> QED BY <3>1
  <2>2. g \in [0..(m + 1) -> X] BY <2>1
  <2>3. g[0] = x OBVIOUS
  <2>4. ASSUME NEW i \in 1..(m + 1) PROVE g[i] = step[i][g[i - 1]]
    <3>1. CASE i <= m
      <4>1. i \in 1..m /\ i - 1 \in 0..m /\ i - 1 <= m BY <3>1
      <4> QED BY <4>1
    <3>2. CASE i = m + 1
      <4>1. i - 1 = m /\ g[i] = y /\ g[m] = f[m] BY <3>2
      <4> QED BY <4>1, <3>2
    <3> QED BY <3>1, <3>2
  <2> HIDE DEF g
  <2>5. IsRun(g, m + 1) BY <2>3, <2>4
  <2> QED BY <2>2, <2>5
<1> HIDE DEF S
<1>3. 0..n \subseteq S BY <1>1, <1>2, BoundedInduction
<1>4. n \in S BY <1>3
<1> QED BY <1>4 DEF S, RunOf


(***************************************************************************)
(* The inductive invariant.  The server's documents follow its log; what a *)
(* session holds of them (its confirmed document, a checkpoint it fetched, *)
(* a checkpoint it publishes) is the server's document at that revision;   *)
(* and its optimistic document is reached from confirmed by a chain of     *)
(* documents, one per queued intention, each of whose patches fits.        *)
(***************************************************************************)
ServerOK(l, D) ==
  /\ l \in Seq(ServerOps)
  /\ D \in [0..Len(l) -> Docs]
  /\ D[0] = InitialDoc
  /\ \A r \in 1..Len(l) : D[r] = Apply(D[r - 1], l[r].patch)

IsChain(f, q) ==
  \A i \in 1..Len(q) : /\ f[i] = Apply(f[i - 1], q[i].predicted)
                       /\ Applies(f[i - 1], q[i].predicted)

Chained(d, q, e) ==
  \E f \in [0..Len(q) -> Docs] : f[0] = d /\ f[Len(q)] = e /\ IsChain(f, q)

Indexed(t) ==
  /\ \A i \in 1..Len(t.undo) : t.undo[i] \in 1..Len(t.recs)
  /\ \A i \in 1..Len(t.redo) : t.redo[i] \in 1..Len(t.recs)

Grounded(t, n, D) ==
  /\ t \in Sessions
  /\ t.confirmedRevision <= n /\ t.syncTarget <= n
  /\ t.pump.reply.rev <= n
  /\ t.pump.reply.kind = "accepted" => t.pump.reply.rev >= 1
  /\ t.sync.reply.rev <= n
  /\ t.sync.reply.kind = "snapshot" => t.sync.reply.doc = D[t.sync.reply.rev]
  /\ t.pub.rev <= n
  /\ t.pub.doc = D[t.pub.rev]
  /\ t.confirmed = D[t.confirmedRevision]
  /\ Indexed(t)

Good(t, n, D) == Grounded(t, n, D) /\ Chained(t.confirmed, t.pending, t.doc)

(***************************************************************************)
(* The fields that decide what runs next; a rebase touches none of them.   *)
(***************************************************************************)
SameControl(u, t) ==
  /\ u.status = t.status /\ u.pump = t.pump /\ u.sync = t.sync /\ u.pub = t.pub
  /\ u.confirmed = t.confirmed /\ u.confirmedRevision = t.confirmedRevision
  /\ u.syncTarget = t.syncTarget /\ u.resync = t.resync

SameReplica(u, t) ==
  /\ u.confirmed = t.confirmed /\ u.confirmedRevision = t.confirmedRevision
  /\ u.doc = t.doc /\ u.pending = t.pending

IInv ==
  /\ ServerOK(log, docs)
  /\ Good(s, Tip, docs)
  /\ ckpt \in [rev : 0..Tip, doc : Docs]
  /\ ckpt.doc = docs[ckpt.rev]
  /\ floor \in 0..Tip
  /\ alive \in BOOLEAN
  /\ zombies \subseteq Requests
  /\ ws \in Seq(Frames)
  /\ \A i \in 1..Len(ws) : ws[i].rev <= Tip /\ (ws[i].kind = "op" => ws[i].rev >= 1)
  /\ wsUp \in BOOLEAN

-----------------------------------------------------------------------------
(* The document algebra.                                                   *)

(***************************************************************************)
(* Applying a patch to a document leaves a document.                       *)
(***************************************************************************)
LEMMA ApplyType ==
  ASSUME NEW d \in Docs, NEW w \in WirePatches PROVE Apply(d, w) \in Docs
BY DEF Docs, Apply, WirePatches

(***************************************************************************)
(* The forward operation of a command is well-formed, and its wire form    *)
(* fits the document the command ran on.                                   *)
(***************************************************************************)
LEMMA ForwardFits ==
  ASSUME NEW d \in Docs, NEW c \in Invocations
  PROVE  /\ Forward(d, c) \in PatchOps
         /\ Wire(Forward(d, c)) \in WirePatches
         /\ Applies(d, Wire(Forward(d, c)))
<1>1. Forward(d, c) \in PatchOps BY DEF Forward, PatchOps, Docs, Invocations
<1>2. Wire(Forward(d, c)) \in WirePatches
  BY <1>1 DEF Wire, WirePatches, KindOf, OpKinds, PatchOps
<1>3. Applies(d, Wire(Forward(d, c)))
  BY DEF Applies, Wire, KindOf, Forward
<1> QED BY <1>1, <1>2, <1>3

(***************************************************************************)
(* Inverting a recorded operation gives a recorded operation.              *)
(***************************************************************************)
LEMMA InvertType == ASSUME NEW p \in PatchOps PROVE Invert(p) \in PatchOps
BY DEF Invert, PatchOps

(***************************************************************************)
(* Overwriting one element of a sequence keeps its length and its type,    *)
(* even where the index is out of range.                                   *)
(***************************************************************************)
LEMMA ExceptType ==
  ASSUME NEW S, NEW q \in Seq(S), NEW i, NEW x \in S
  PROVE  [q EXCEPT ![i] = x] \in Seq(S) /\ Len([q EXCEPT ![i] = x]) = Len(q)
<1>1. Len(q) \in Nat /\ q \in [1..Len(q) -> S] OBVIOUS
<1>2. [q EXCEPT ![i] = x] \in [1..Len(q) -> S] BY <1>1
<1> QED BY <1>1, <1>2

-----------------------------------------------------------------------------
(* Chains.                                                                 *)

(***************************************************************************)
(* The empty queue chains a document to itself.                            *)
(***************************************************************************)
LEMMA ChainEmpty == ASSUME NEW d \in Docs PROVE Chained(d, <<>>, d)
<1> DEFINE f == [i \in 0..0 |-> d]
<1>1. f \in [0..Len(<<>>) -> Docs] /\ f[0] = d OBVIOUS
<1>2. IsChain(f, <<>>) BY DEF IsChain
<1> HIDE DEF f
<1> QED BY <1>1, <1>2 DEF Chained

(***************************************************************************)
(* A chain grows at its end by an entry whose patch fits.                  *)
(***************************************************************************)
LEMMA ChainAppend ==
  ASSUME NEW d, NEW e \in Docs, NEW q \in Seq(Entries), NEW x \in Entries,
         Chained(d, q, e), Applies(e, x.predicted)
  PROVE  Chained(d, Append(q, x), Apply(e, x.predicted))
<1>1. PICK f \in [0..Len(q) -> Docs] : f[0] = d /\ f[Len(q)] = e /\ IsChain(f, q)
  BY DEF Chained
<1> DEFINE n == Len(q)
           a == Append(q, x)
           y == Apply(e, x.predicted)
           g == [i \in 0..(n + 1) |-> IF i <= n THEN f[i] ELSE y]
<1>2. n \in Nat /\ Len(a) = n + 1 OBVIOUS
<1>3. y \in Docs BY ApplyType DEF Entries
<1> HIDE DEF y
<1>4. g \in [0..(n + 1) -> Docs] BY <1>3, <1>2
<1>5. g[0] = d /\ g[n + 1] = y BY <1>1, <1>2
<1>6. ASSUME NEW i \in 1..(n + 1)
      PROVE  g[i] = Apply(g[i - 1], a[i].predicted) /\ Applies(g[i - 1], a[i].predicted)
  <2>1. CASE i <= n
    <3>1. i \in 1..n /\ i - 1 \in 0..n /\ a[i] = q[i] BY <2>1, <1>2
    <3>2. g[i] = f[i] /\ g[i - 1] = f[i - 1] BY <3>1, <1>2
    <3> QED BY <3>1, <3>2, <1>1 DEF IsChain
  <2>2. CASE i = n + 1
    <3>1. i - 1 = n /\ a[i] = x /\ g[i] = y /\ g[n] = e BY <2>2, <1>2, <1>1
    <3> QED BY <3>1, <2>2 DEF y
  <2> QED BY <2>1, <2>2, <1>2
<1> HIDE DEF g, a
<1>7. IsChain(g, a) BY <1>6, <1>2 DEF IsChain
<1> QED BY <1>2, <1>4, <1>5, <1>7 DEF Chained, a, y

(***************************************************************************)
(* Without its first entry a chain starts one document later.              *)
(***************************************************************************)
LEMMA ChainTail ==
  ASSUME NEW d, NEW e, NEW q \in Seq(Entries), q # <<>>, Chained(d, q, e)
  PROVE  Chained(Apply(d, q[1].predicted), Tail(q), e)
<1>1. PICK f \in [0..Len(q) -> Docs] : f[0] = d /\ f[Len(q)] = e /\ IsChain(f, q)
  BY DEF Chained
<1> DEFINE n == Len(q)
           g == [i \in 0..(n - 1) |-> f[i + 1]]
<1>2. n \in Nat /\ n >= 1 /\ Len(Tail(q)) = n - 1 OBVIOUS
<1>3. g \in [0..(n - 1) -> Docs] BY <1>2
<1>4. g[0] = Apply(d, q[1].predicted) /\ g[n - 1] = e
  <2>1. 1 \in 1..n /\ 1 - 1 = 0 BY <1>2
  <2>2. f[1] = Apply(f[0], q[1].predicted) BY <2>1, <1>1 DEF IsChain
  <2> QED BY <1>1, <1>2, <2>2
<1>5. ASSUME NEW i \in 1..(n - 1)
      PROVE  /\ g[i] = Apply(g[i - 1], Tail(q)[i].predicted)
             /\ Applies(g[i - 1], Tail(q)[i].predicted)
  <2>1. i + 1 \in 1..n /\ Tail(q)[i] = q[i + 1] /\ (i + 1) - 1 = i BY <1>2
  <2>2. f[i + 1] = Apply(f[i], q[i + 1].predicted) /\ Applies(f[i], q[i + 1].predicted)
    BY <2>1, <1>1 DEF IsChain
  <2>3. g[i] = f[i + 1] /\ g[i - 1] = f[i] BY <1>2
  <2> QED BY <2>1, <2>2, <2>3
<1> HIDE DEF g
<1>6. IsChain(g, Tail(q)) BY <1>5, <1>2 DEF IsChain
<1> QED BY <1>2, <1>3, <1>4, <1>6 DEF Chained

(***************************************************************************)
(* A queue of one entry is one patch.                                      *)
(***************************************************************************)
LEMMA ChainOne ==
  ASSUME NEW d, NEW e, NEW q \in Seq(Entries), Len(q) = 1, Chained(d, q, e)
  PROVE  e = Apply(d, q[1].predicted)
<1>1. PICK f \in [0..Len(q) -> Docs] : f[0] = d /\ f[Len(q)] = e /\ IsChain(f, q)
  BY DEF Chained
<1>2. 1 \in 1..Len(q) /\ 1 - 1 = 0 OBVIOUS
<1>3. f[1] = Apply(f[1 - 1], q[1].predicted) BY <1>1, <1>2 DEF IsChain
<1> QED BY <1>1, <1>2, <1>3

(***************************************************************************)
(* Only the predicted patches matter to a chain.                           *)
(***************************************************************************)
LEMMA ChainSame ==
  ASSUME NEW d, NEW e, NEW q \in Seq(Entries), NEW p \in Seq(Entries), Len(p) = Len(q),
         \A i \in 1..Len(q) : p[i].predicted = q[i].predicted, Chained(d, q, e)
  PROVE  Chained(d, p, e)
<1>1. PICK f \in [0..Len(q) -> Docs] : f[0] = d /\ f[Len(q)] = e /\ IsChain(f, q)
  BY DEF Chained
<1>2. IsChain(f, p) BY <1>1 DEF IsChain
<1> QED BY <1>1, <1>2 DEF Chained

(***************************************************************************)
(* A chain is what replaying the queue computes.                           *)
(***************************************************************************)
LEMMA ChainIsReplay ==
  ASSUME NEW d \in Docs, NEW e, NEW q \in Seq(Entries), Chained(d, q, e)
  PROVE  /\ e = ReplayRun(d, q)[Len(q)]
         /\ \A i \in 1..Len(q) : Applies(ReplayRun(d, q)[i - 1], q[i].predicted)
<1> DEFINE R(g) == [i \in 0..Len(q) |-> IF i = 0 THEN d ELSE Apply(g[i - 1], q[i].predicted)]
<1>1. PICK f \in [0..Len(q) -> Docs] : f[0] = d /\ f[Len(q)] = e /\ IsChain(f, q)
  BY DEF Chained
<1>2. Len(q) \in Nat OBVIOUS
<1>3. f = R(f)
  <2>1. \A i \in 0..Len(q) : f[i] = R(f)[i] BY <1>1 DEF IsChain
  <2> QED BY <2>1
<1>4. ReplayRun(d, q) = R(ReplayRun(d, q)) BY <1>3 DEF ReplayRun
<1> DEFINE g == ReplayRun(d, q)
<1> HIDE DEF g
<1>5. \A i \in 0..Len(q) : g[i] = IF i = 0 THEN d ELSE Apply(g[i - 1], q[i].predicted)
  BY <1>4 DEF g
<1> DEFINE S == {i \in 0..Len(q) : g[i] = f[i]}
<1>6. 0 \in S BY <1>1, <1>2, <1>5
<1>7. \A i \in 0..Len(q) : i < Len(q) /\ i \in S => i + 1 \in S
  <2> SUFFICES ASSUME NEW i \in 0..Len(q), i < Len(q), g[i] = f[i] PROVE i + 1 \in S
    OBVIOUS
  <2>1. i + 1 \in 1..Len(q) /\ i + 1 # 0 /\ (i + 1) - 1 = i BY <1>2
  <2>2. f[i + 1] = Apply(f[i], q[i + 1].predicted) BY <2>1, <1>1 DEF IsChain
  <2>3. g[i + 1] = Apply(g[i], q[i + 1].predicted) BY <2>1, <1>5
  <2> QED BY <2>1, <2>2, <2>3
<1> HIDE DEF S
<1>8. 0..Len(q) \subseteq S BY <1>2, <1>6, <1>7, BoundedInduction
<1>9. \A i \in 0..Len(q) : g[i] = f[i] BY <1>8 DEF S
<1>10. e = g[Len(q)] BY <1>9, <1>1, <1>2
<1>11. ASSUME NEW i \in 1..Len(q) PROVE Applies(g[i - 1], q[i].predicted)
  <2>1. i - 1 \in 0..Len(q) BY <1>2
  <2> QED BY <2>1, <1>9, <1>1 DEF IsChain
<1> QED BY <1>10, <1>11 DEF g

-----------------------------------------------------------------------------
(***************************************************************************)
(* The operators that move control.  They keep the replica.                *)
(***************************************************************************)
LEMMA PumpAtType ==
  ASSUME NEW pc \in {"idle", "ready", "publish", "delay", "exit"}
  PROVE  /\ PumpAt(pc) \in Pumps
         /\ PumpAt(pc).reply.rev = 0 /\ PumpAt(pc).reply.kind = "none"
         /\ PumpAt(pc).pc = pc
BY DEF PumpAt, Pumps, NoReply, PostReplies

(***************************************************************************)
(* A fresh sync state is well-typed and holds no answer.                   *)
(***************************************************************************)
LEMMA SyncAtType ==
  ASSUME NEW pc \in {"idle", "snapshot", "ops", "delay", "exit"}, NEW a \in Nat
  PROVE  /\ SyncAt(pc, a) \in Syncs
         /\ SyncAt(pc, a).reply.rev = 0 /\ SyncAt(pc, a).reply.kind = "none"
         /\ SyncAt(pc, a).pc = pc
BY DEF SyncAt, Syncs, NoReply, SyncReplies

(***************************************************************************)
(* A session that differs from a good one only in its control fields is    *)
(* good when what these fields hold is sound.                              *)
(***************************************************************************)
SameRest(u, t) ==
  u.undo = t.undo /\ u.redo = t.redo /\ u.recs = t.recs /\ u.pub = t.pub

(***************************************************************************)
(* Two sessions with the same replica and history are good together when   *)
(* the control fields of the second are sound (Pump, StartSync and the     *)
(* other control operators change nothing else).                           *)
(***************************************************************************)
LEMMA Frame ==
  ASSUME NEW n \in Nat, NEW D, NEW t, Good(t, n, D), NEW u \in Sessions,
         SameReplica(u, t), SameRest(u, t), u.syncTarget <= n,
         \/ u.pump = t.pump
         \/ /\ u.pump.reply.rev <= n
            /\ u.pump.reply.kind = "accepted" => u.pump.reply.rev >= 1,
         \/ u.sync = t.sync
         \/ u.sync.reply.rev = 0 /\ u.sync.reply.kind = "none"
  PROVE  Good(u, n, D)
BY DEF Good, Grounded, Indexed, SameReplica, SameRest

(***************************************************************************)
(* Replacing the pump's state in a good session leaves a good session.     *)
(***************************************************************************)
LEMMA SetPump ==
  ASSUME NEW n \in Nat, NEW D, NEW t, Good(t, n, D), NEW p \in Pumps, p.reply.rev <= n,
         p.reply.kind = "accepted" => p.reply.rev >= 1
  PROVE  /\ Good([t EXCEPT !.pump = p], n, D)
         /\ SameReplica([t EXCEPT !.pump = p], t)
         /\ [t EXCEPT !.pump = p].status = t.status
         /\ [t EXCEPT !.pump = p].sync = t.sync
BY DEF Good, Grounded, Sessions, Indexed, SameReplica

(***************************************************************************)
(* Moving the sync loop to another place, with or without clearing the     *)
(* resync flag, leaves a good session.                                     *)
(***************************************************************************)
LEMMA SetSync ==
  ASSUME NEW n \in Nat, NEW D, NEW t, Good(t, n, D),
         NEW pc \in {"idle", "snapshot", "ops", "delay", "exit"}, NEW a \in Nat
  PROVE  /\ Good([t EXCEPT !.sync = SyncAt(pc, a)], n, D)
         /\ SameReplica([t EXCEPT !.sync = SyncAt(pc, a)], t)
         /\ Good([t EXCEPT !.resync = FALSE, !.sync = SyncAt(pc, a)], n, D)
         /\ SameReplica([t EXCEPT !.resync = FALSE, !.sync = SyncAt(pc, a)], t)
<1> DEFINE y == SyncAt(pc, a)
           u == [t EXCEPT !.sync = y]
           v == [t EXCEPT !.resync = FALSE, !.sync = y]
<1>0. t \in Sessions /\ t.syncTarget <= n BY DEF Good, Grounded
<1>1. y \in Syncs /\ y.reply.rev = 0 /\ y.reply.kind = "none" BY SyncAtType
<1> HIDE DEF y
<1>2. /\ u \in Sessions /\ SameReplica(u, t) /\ SameRest(u, t) /\ u.sync = y
      /\ u.pump = t.pump /\ u.syncTarget = t.syncTarget
  BY <1>0, <1>1 DEF Sessions, SameReplica, SameRest
<1>3. /\ v \in Sessions /\ SameReplica(v, t) /\ SameRest(v, t) /\ v.sync = y
      /\ v.pump = t.pump /\ v.syncTarget = t.syncTarget
  BY <1>0, <1>1 DEF Sessions, SameReplica, SameRest
<1> HIDE DEF u, v
<1>4. Good(u, n, D) /\ Good(v, n, D) BY <1>0, <1>1, <1>2, <1>3, Frame
<1> QED BY <1>2, <1>3, <1>4 DEF u, v, y

(***************************************************************************)
(* Starting the pump keeps the session good and its replica unchanged.     *)
(***************************************************************************)
LEMMA GoodPump ==
  ASSUME NEW n \in Nat, NEW D, NEW t, Good(t, n, D)
  PROVE  Good(Pump(t), n, D) /\ SameReplica(Pump(t), t)
<1>1. Good([t EXCEPT !.pump = PumpAt("ready")], n, D)
      /\ SameReplica([t EXCEPT !.pump = PumpAt("ready")], t)
  BY PumpAtType, SetPump
<1> QED BY <1>1 DEF Pump, SameReplica

(***************************************************************************)
(* Sending the pump to any place but a submission keeps the session good.  *)
(***************************************************************************)
LEMMA GoodPumpExit ==
  ASSUME NEW n \in Nat, NEW D, NEW t, Good(t, n, D),
         NEW pc \in {"idle", "ready", "publish", "delay", "exit"}
  PROVE  Good([t EXCEPT !.pump = PumpAt(pc)], n, D)
         /\ SameReplica([t EXCEPT !.pump = PumpAt(pc)], t)
BY PumpAtType, SetPump

(***************************************************************************)
(* The head of the pump's loop, which remembers the attempt in the queue's *)
(* first entry, keeps the session good: attempts are no part of the chain. *)
(***************************************************************************)
LEMMA GoodPumpTop ==
  ASSUME NEW n \in Nat, NEW D, NEW t, Good(t, n, D)
  PROVE  Good(PumpTop(t), n, D)
<1> USE DEF Good
<1>0. t \in Sessions BY DEF Grounded
<1>1. CASE t.pending # <<>> /\ t.status = "live" /\ ~Syncing(t)
  <2> DEFINE head == Head(t.pending)
             attempt == [opId |-> head.opId, base |-> t.confirmedRevision,
                         patch |-> head.predicted]
             again == \E a \in head.attempts : a.opId = head.opId
             atts == IF again THEN t.pending[1].attempts
                     ELSE t.pending[1].attempts \cup {attempt}
             q == [t.pending EXCEPT ![1].attempts = atts]
             req == [opId |-> head.opId, base |-> t.confirmedRevision,
                     patch |-> head.predicted, intent |-> head.intent,
                     origin |-> head.origin]
             p == [pc |-> "post", reply |-> NoReply, req |-> req]
             u == [t EXCEPT !.pending = q]
  <2>1. /\ head \in Entries /\ head = t.pending[1]
        /\ t.confirmedRevision \in Nat /\ Len(t.pending) >= 1
    BY <1>0, <1>1 DEF Sessions
  <2> HIDE DEF head
  <2>2. attempt \in Attempts BY <2>1 DEF Entries, Attempts
  <2> HIDE DEF attempt
  <2>3. atts \in SUBSET Attempts BY <2>1, <2>2 DEF Entries
  <2> HIDE DEF atts
  <2>4. [t.pending[1] EXCEPT !.attempts = atts] \in Entries BY <2>1, <2>3 DEF Entries
  <2>5. q \in Seq(Entries) /\ Len(q) = Len(t.pending) BY <1>0, <2>1, <2>4 DEF Sessions
  <2>6. p \in Pumps /\ p.reply.rev = 0 /\ p.reply.kind = "none"
    BY <2>1 DEF Pumps, Entries, Requests, NoReply, PostReplies
  <2>7. \A i \in 1..Len(t.pending) : q[i].predicted = t.pending[i].predicted
    BY <1>0, <2>1 DEF Sessions, Entries
  <2>8. PumpTop(t) = [u EXCEPT !.pump = p]
    BY <1>1 DEF PumpTop, head, attempt, atts
  <2> HIDE DEF q, p
  <2>9. Good(u, n, D)
    <3>1. Grounded(u, n, D) BY <2>5 DEF Grounded, Sessions, Indexed
    <3>2. /\ u.confirmed = t.confirmed /\ u.doc = t.doc /\ u.pending = q
          /\ t.pending \in Seq(Entries)
      BY <1>0 DEF Sessions
    <3>3. Chained(t.confirmed, q, t.doc) BY <2>5, <2>7, <3>2, ChainSame
    <3> QED BY <3>1, <3>2, <3>3
  <2> HIDE DEF u, Good
  <2> QED BY <2>6, <2>8, <2>9, SetPump
<1>2. CASE ~(t.pending # <<>> /\ t.status = "live" /\ ~Syncing(t))
  BY <1>2, GoodPumpExit DEF PumpTop
<1> QED BY <1>1, <1>2

(***************************************************************************)
(* The pump's finalizer keeps the session good and its replica unchanged.  *)
(***************************************************************************)
LEMMA GoodPumpFinally ==
  ASSUME NEW n \in Nat, NEW D, NEW t, Good(t, n, D)
  PROVE  Good(PumpFinally(t), n, D) /\ SameReplica(PumpFinally(t), t)
<1> DEFINE u == [t EXCEPT !.pump = PumpAt("idle")]
<1>1. Good(u, n, D) /\ SameReplica(u, t) BY GoodPumpExit
<1> HIDE DEF u
<1>2. Good(Pump(u), n, D) /\ SameReplica(Pump(u), u) BY <1>1, GoodPump
<1>3. PumpFinally(t) \in {u, Pump(u)} BY DEF PumpFinally, u
<1> QED BY <1>1, <1>2, <1>3 DEF SameReplica

(***************************************************************************)
(* Failing keeps the session good.                                         *)
(***************************************************************************)
LEMMA GoodFail ==
  ASSUME NEW n \in Nat, NEW D, NEW t, Good(t, n, D)
  PROVE  Good(Fail(t), n, D)
BY DEF Fail, Good, Grounded, Sessions, Indexed, Statuses

(***************************************************************************)
(* The head of the sync loop keeps the session good and its replica        *)
(* unchanged.                                                              *)
(***************************************************************************)
LEMMA GoodSyncTop ==
  ASSUME NEW n \in Nat, NEW D, NEW t, Good(t, n, D)
  PROVE  Good(SyncTop(t), n, D) /\ SameReplica(SyncTop(t), t)
<1>1. t.resync \in BOOLEAN /\ t.confirmedRevision \in Nat
  BY DEF Good, Grounded, Sessions
<1>2. \/ SyncTop(t) = [t EXCEPT !.sync = SyncAt("exit", 0)]
      \/ SyncTop(t) = [t EXCEPT !.resync = FALSE, !.sync = SyncAt("snapshot", 0)]
      \/ SyncTop(t) = [t EXCEPT !.sync = SyncAt("ops", t.confirmedRevision)]
  BY <1>1 DEF SyncTop
<1> DEFINE x == [t EXCEPT !.sync = SyncAt("exit", 0)]
           y == [t EXCEPT !.resync = FALSE, !.sync = SyncAt("snapshot", 0)]
           z == [t EXCEPT !.sync = SyncAt("ops", t.confirmedRevision)]
<1>3. Good(x, n, D) /\ SameReplica(x, t) BY SetSync
<1>4. Good(y, n, D) /\ SameReplica(y, t) BY SetSync
<1>5. Good(z, n, D) /\ SameReplica(z, t) BY <1>1, SetSync
<1>6. SyncTop(t) \in {x, y, z} BY <1>2
<1> HIDE DEF x, y, z
<1> QED BY <1>3, <1>4, <1>5, <1>6

(***************************************************************************)
(* Starting the sync loop keeps the session good and its replica           *)
(* unchanged.                                                              *)
(***************************************************************************)
LEMMA GoodStartSync ==
  ASSUME NEW n \in Nat, NEW D, NEW t, Good(t, n, D)
  PROVE  Good(StartSync(t), n, D) /\ SameReplica(StartSync(t), t)
<1> DEFINE u == [t EXCEPT !.status = "catching-up"]
<1>1. Good(u, n, D) /\ SameReplica(u, t)
  BY DEF Good, Grounded, Sessions, Indexed, Statuses, SameReplica
<1> HIDE DEF u
<1>2. Good(SyncTop(u), n, D) /\ SameReplica(SyncTop(u), u) BY <1>1, GoodSyncTop
<1>3. StartSync(t) \in {t, SyncTop(u)} BY DEF StartSync, u
<1> QED BY <1>1, <1>2, <1>3 DEF SameReplica

(***************************************************************************)
(* Learning of a head the server has keeps the session good.               *)
(***************************************************************************)
LEMMA GoodRaiseTarget ==
  ASSUME NEW n \in Nat, NEW D, NEW t, Good(t, n, D), NEW rev \in Nat, rev <= n
  PROVE  Good(RaiseTarget(t, rev), n, D) /\ SameReplica(RaiseTarget(t, rev), t)
BY DEF RaiseTarget, Larger, Good, Grounded, Sessions, Indexed, SameReplica

(***************************************************************************)
(* Asking for a resync keeps the session good.                             *)
(***************************************************************************)
LEMMA GoodResyncFlag ==
  ASSUME NEW n \in Nat, NEW D, NEW t, Good(t, n, D)
  PROVE  /\ Good([t EXCEPT !.resync = TRUE], n, D)
         /\ SameReplica([t EXCEPT !.resync = TRUE], t)
BY DEF Good, Grounded, Sessions, Indexed, SameReplica

(***************************************************************************)
(* A request to catch up with a head the server has keeps the session      *)
(* good.                                                                   *)
(***************************************************************************)
LEMMA GoodRequestCatchUp ==
  ASSUME NEW n \in Nat, NEW D, NEW t, Good(t, n, D), NEW rev \in Nat, rev <= n
  PROVE  Good(RequestCatchUp(t, rev), n, D) /\ SameReplica(RequestCatchUp(t, rev), t)
<1> DEFINE u == RaiseTarget(t, rev)
<1>1. Good(u, n, D) /\ SameReplica(u, t) BY GoodRaiseTarget
<1> HIDE DEF u
<1>2. Good(StartSync(u), n, D) /\ SameReplica(StartSync(u), u) BY <1>1, GoodStartSync
<1> QED BY <1>1, <1>2 DEF RequestCatchUp, SameReplica, u

(***************************************************************************)
(* A request to resync keeps the session good.                             *)
(***************************************************************************)
LEMMA GoodRequestResync ==
  ASSUME NEW n \in Nat, NEW D, NEW t, Good(t, n, D)
  PROVE  Good(RequestResync(t), n, D) /\ SameReplica(RequestResync(t), t)
<1> DEFINE u == [t EXCEPT !.resync = TRUE]
<1>1. Good(u, n, D) /\ SameReplica(u, t) BY GoodResyncFlag
<1> HIDE DEF u
<1>2. Good(StartSync(u), n, D) /\ SameReplica(StartSync(u), u) BY <1>1, GoodStartSync
<1> QED BY <1>1, <1>2 DEF RequestResync, SameReplica, u

(***************************************************************************)
(* The sync loop's finalizer keeps the session good and its replica        *)
(* unchanged.                                                              *)
(***************************************************************************)
LEMMA GoodSyncFinally ==
  ASSUME NEW n \in Nat, NEW D, NEW t, Good(t, n, D)
  PROVE  Good(SyncFinally(t), n, D) /\ SameReplica(SyncFinally(t), t)
<1> DEFINE u == [t EXCEPT !.sync = SyncAt("idle", 0),
                          !.status = IF @ = "catching-up" THEN "live" ELSE @]
           y == SyncAt("idle", 0)
<1>0. y \in Syncs /\ y.reply.rev = 0 /\ y.reply.kind = "none" BY SyncAtType
<1> HIDE DEF y
<1>1. Good(u, n, D) /\ SameReplica(u, t)
  <2>1. u = [t EXCEPT !.sync = y, !.status = IF @ = "catching-up" THEN "live" ELSE @]
    BY DEF y
  <2> HIDE DEF u
  <2>2. t \in Sessions /\ t.syncTarget <= n BY DEF Good, Grounded
  <2>3. /\ u \in Sessions /\ SameReplica(u, t) /\ SameRest(u, t) /\ u.sync = y
        /\ u.pump = t.pump /\ u.syncTarget = t.syncTarget
    BY <1>0, <2>1, <2>2 DEF Sessions, Statuses, SameReplica, SameRest
  <2> QED BY <1>0, <2>2, <2>3, Frame
<1> HIDE DEF u
<1>2. SyncFinally(t) \in {StartSync(u), Pump(u)} BY DEF SyncFinally, u
<1> QED BY <1>1, <1>2, GoodStartSync, GoodPump DEF SameReplica

-----------------------------------------------------------------------------
(***************************************************************************)
(* Rebase.                                                                 *)
(***************************************************************************)

(***************************************************************************)
(* Splicing a record out of a stack leaves entries that were on it.        *)
(***************************************************************************)
TakenFrom(p, q) == \A i \in 1..Len(p) : \E j \in 1..Len(q) : p[i] = q[j]

(***************************************************************************)
(* What comes after the first k elements of a sequence of numbers.         *)
(***************************************************************************)
LEMMA SuffixType ==
  ASSUME NEW q \in Seq(Nat), NEW k \in Nat, k <= Len(q)
  PROVE  /\ SubSeq(q, k + 1, Len(q)) \in Seq(Nat)
         /\ Len(SubSeq(q, k + 1, Len(q))) = Len(q) - k
         /\ \A i \in 1..(Len(q) - k) :
              SubSeq(q, k + 1, Len(q))[i] = q[k + i] /\ k + i \in 1..Len(q)
<1>1. Len(q) \in Nat OBVIOUS
<1>2. Len(SubSeq(q, k + 1, Len(q))) = Len(q) - k BY <1>1
<1>3. SubSeq(q, k + 1, Len(q)) \in Seq(Nat)
  <2>1. k + 1 \in Int /\ \A i \in k + 1..Len(q) : q[i] \in Nat BY <1>1
  <2> QED BY <1>1, <2>1
<1>4. \A i \in 1..(Len(q) - k) :
        SubSeq(q, k + 1, Len(q))[i] = q[k + i] /\ k + i \in 1..Len(q) BY <1>1
<1> QED BY <1>2, <1>3, <1>4

(***************************************************************************)
(* Without leaves a stack of record numbers that were on the stack before. *)
(***************************************************************************)
LEMMA WithoutType ==
  ASSUME NEW q \in Seq(Nat), NEW r
  PROVE  Without(q, r) \in Seq(Nat) /\ TakenFrom(Without(q, r), q)
<1>1. CASE \E i \in 1..Len(q) : q[i] = r
  <2> DEFINE k == CHOOSE i \in 1..Len(q) : q[i] = r
             a == SubSeq(q, 1, k - 1)
             b == SubSeq(q, k + 1, Len(q))
  <2>1. k \in 1..Len(q) BY <1>1
  <2>2. Without(q, r) = a \o b BY <1>1 DEF Without
  <2> HIDE DEF k
  <2>3. /\ a \in Seq(Nat) /\ Len(a) = k - 1
        /\ \A i \in 1..(k - 1) : a[i] = q[i] /\ i \in 1..Len(q)
    BY <2>1
  <2>4. /\ b \in Seq(Nat) /\ Len(b) = Len(q) - k
        /\ \A i \in 1..(Len(q) - k) : b[i] = q[k + i] /\ k + i \in 1..Len(q)
    <3>1. k \in Nat /\ k <= Len(q) BY <2>1
    <3> QED BY <3>1, SuffixType
  <2> HIDE DEF a, b
  <2>5. /\ a \o b \in Seq(Nat) /\ Len(a \o b) = Len(a) + Len(b)
        /\ Len(a) \in Nat /\ Len(b) \in Nat
        /\ \A i \in 1..(Len(a) + Len(b)) :
             (a \o b)[i] = IF i <= Len(a) THEN a[i] ELSE b[i - Len(a)]
    <3>1. a \in Seq(Nat) /\ b \in Seq(Nat) BY <2>3, <2>4
    <3> QED BY <3>1
  <2>6. ASSUME NEW i \in 1..Len(a \o b) PROVE \E j \in 1..Len(q) : (a \o b)[i] = q[j]
    <3>1. CASE i <= Len(a)
      <4>1. i \in 1..(k - 1) /\ (a \o b)[i] = a[i]
        <5>1. Len(a) = k - 1 /\ k \in Int BY <2>1, <2>3
        <5> QED BY <5>1, <2>5, <3>1
      <4> QED BY <4>1, <2>3
    <3>2. CASE i > Len(a)
      <4>1. i \in 1..(Len(a) + Len(b)) BY <2>5
      <4>2. (a \o b)[i] = b[i - Len(a)] BY <4>1, <2>5, <3>2
      <4>3. Len(b) = Len(q) - k BY <2>4
      <4>4. i - Len(a) \in 1..Len(b)
        <5>1. Len(a) \in Nat /\ Len(b) \in Nat BY <2>5
        <5> HIDE <2>6
        <5> QED BY <4>1, <5>1, <3>2
      <4> QED BY <4>2, <4>3, <4>4, <2>4
    <3>3. Len(a) \in Nat /\ i \in Int BY <2>5
    <3>4. i <= Len(a) \/ i > Len(a) BY <3>3
    <3> QED BY <3>1, <3>2, <3>4
  <2> QED BY <2>2, <2>5, <2>6 DEF TakenFrom
<1>2. CASE ~\E i \in 1..Len(q) : q[i] = r
  BY <1>2 DEF Without, TakenFrom
<1> QED BY <1>1, <1>2

(***************************************************************************)
(* Dropping a record from both stacks disturbs neither the replica nor the *)
(* control fields, in the middle of a rebase (Grounded) and outside of one *)
(* (Good).                                                                 *)
(***************************************************************************)
LEMMA GoodRemoveRecord ==
  ASSUME NEW n \in Nat, NEW D, NEW t, NEW r
  PROVE  /\ Grounded(t, n, D) =>
              Grounded(RemoveRecord(t, r), n, D) /\ SameReplica(RemoveRecord(t, r), t)
         /\ Good(t, n, D) =>
              Good(RemoveRecord(t, r), n, D) /\ SameControl(RemoveRecord(t, r), t)
<1> SUFFICES ASSUME Grounded(t, n, D)
             PROVE  /\ Grounded(RemoveRecord(t, r), n, D)
                    /\ SameReplica(RemoveRecord(t, r), t)
                    /\ SameControl(RemoveRecord(t, r), t)
  BY DEF Good, SameReplica
<1> DEFINE U == Without(t.undo, r)
           R == Without(t.redo, r)
<1>1. t.undo \in Seq(Nat) /\ t.redo \in Seq(Nat) /\ t \in Sessions BY DEF Grounded, Sessions
<1>2. /\ U \in Seq(Nat) /\ TakenFrom(U, t.undo)
      /\ R \in Seq(Nat) /\ TakenFrom(R, t.redo)
  BY <1>1, WithoutType
<1>3. RemoveRecord(t, r) = [t EXCEPT !.undo = U, !.redo = R] BY DEF RemoveRecord
<1> HIDE DEF U, R
<1>4. Indexed(RemoveRecord(t, r))
  <2>1. /\ RemoveRecord(t, r).undo = U /\ RemoveRecord(t, r).redo = R
        /\ RemoveRecord(t, r).recs = t.recs
    BY <1>1, <1>3 DEF Sessions
  <2>2. Indexed(t) BY DEF Grounded
  <2> HIDE DEF RemoveRecord
  <2> QED BY <1>2, <2>1, <2>2 DEF Indexed, TakenFrom
<1>5. SameReplica(RemoveRecord(t, r), t) /\ SameControl(RemoveRecord(t, r), t)
  BY <1>1, <1>3 DEF SameReplica, SameControl, Sessions
<1>6. RemoveRecord(t, r) \in Sessions BY <1>1, <1>2, <1>3 DEF Sessions
<1>7. Grounded(RemoveRecord(t, r), n, D) BY <1>4, <1>5, <1>6 DEF Grounded, SameControl
<1> QED BY <1>5, <1>7

(***************************************************************************)
(* Re-executing one intention keeps the session good and its control where *)
(* it was.                                                                 *)
(***************************************************************************)
LEMMA GoodReexecute ==
  ASSUME NEW n \in Nat, NEW D, NEW t, Good(t, n, D), NEW e \in Entries, NEW sk
  PROVE  Good(Reexecute(t, e, sk), n, D) /\ SameControl(Reexecute(t, e, sk), t)
<1>0. t \in Sessions /\ Grounded(t, n, D) BY DEF Good, Grounded
<1>1. CASE e.intent \in sk
  BY <1>1 DEF Reexecute, SameControl
<1>2. CASE e.intent \notin sk /\ Commits(t.doc, e.cmd)
  <2> DEFINE p == Forward(t.doc, e.cmd)
             w == Wire(p)
             kept == {a \in e.attempts : a.base >= t.confirmedRevision}
             m == IF e.origin = "undo" THEN Invert(p) ELSE p
             o == t.opCounter + 1
             x == [e EXCEPT !.opId = o, !.predicted = w, !.attempts = kept]
             d == Apply(t.doc, w)
             R == [t.recs EXCEPT ![e.rec] = m]
             q == Append(t.pending, x)
             u == [t EXCEPT !.doc = d, !.opCounter = o, !.recs = R, !.pending = q]
  <2>1. Reexecute(t, e, sk) = u BY <1>2 DEF Reexecute
  <2>2. t.doc \in Docs /\ e.cmd \in Invocations /\ o \in Nat /\ t.recs \in Seq(PatchOps)
    BY <1>0 DEF Sessions, Entries
  <2> HIDE DEF o
  <2>3. p \in PatchOps /\ w \in WirePatches /\ Applies(t.doc, w) BY <2>2, ForwardFits
  <2> HIDE DEF p, w
  <2>4. m \in PatchOps BY <2>3, InvertType
  <2>5. d \in Docs BY <2>2, <2>3, ApplyType
  <2>6. kept \in SUBSET Attempts BY DEF Entries
  <2> HIDE DEF m, d, kept
  <2>7. x \in Entries /\ x.predicted = w BY <2>2, <2>3, <2>6 DEF Entries
  <2> HIDE DEF x
  <2>8. q \in Seq(Entries) /\ t.pending \in Seq(Entries) BY <1>0, <2>7 DEF Sessions
  <2>9. Chained(t.confirmed, q, d)
    BY <2>2, <2>3, <2>7, <2>8, ChainAppend DEF Good, d
  <2>10. R \in Seq(PatchOps) /\ Len(R) = Len(t.recs)
    <3>1. R \in Seq(PatchOps) BY <2>2, <2>4, ExceptType
    <3>2. Len(R) = Len(t.recs) BY <2>2, <2>4, ExceptType
    <3> QED BY <3>1, <3>2
  <2> HIDE DEF q, R
  <2>11. /\ u \in Sessions /\ SameControl(u, t) /\ u.doc = d /\ u.pending = q /\ u.recs = R
         /\ u.undo = t.undo /\ u.redo = t.redo
    BY <1>0, <2>2, <2>5, <2>8, <2>10 DEF Sessions, SameControl
  <2> HIDE DEF u
  <2>12. Grounded(u, n, D) BY <1>0, <2>10, <2>11 DEF Grounded, Indexed, SameControl
  <2> QED BY <2>1, <2>9, <2>11, <2>12 DEF Good, SameControl
<1>3. CASE e.intent \notin sk /\ ~Commits(t.doc, e.cmd)
  <2> DEFINE v == RemoveRecord(t, e.rec)
             f == IF Fails(t.doc, e.cmd) THEN "conflict" ELSE "dissolved"
             F == [v.fate EXCEPT ![e.intent] = f]
             u == [v EXCEPT !.fate = F]
  <2>1. Reexecute(t, e, sk) = u BY <1>3 DEF Reexecute
  <2>2. Good(v, n, D) /\ SameControl(v, t) BY GoodRemoveRecord
  <2> HIDE DEF v
  <2>3. v \in Sessions BY <2>2 DEF Good, Grounded
  <2>4. F \in Seq(Fates)
    <3>1. f \in Fates BY DEF Fates
    <3>2. v.fate \in Seq(Fates) BY <2>3 DEF Sessions
    <3> HIDE DEF f
    <3> QED BY <3>1, <3>2, ExceptType
  <2> HIDE DEF F
  <2>5. u \in Sessions /\ SameReplica(u, v) /\ SameRest(u, v) /\ SameControl(u, v)
    BY <2>3, <2>4 DEF Sessions, SameReplica, SameRest, SameControl
  <2> HIDE DEF u
  <2>6. Good(u, n, D) BY <2>2, <2>5 DEF Good, Grounded, Indexed, SameReplica, SameRest, SameControl
  <2> QED BY <2>1, <2>2, <2>5, <2>6 DEF SameControl
<1> QED BY <1>1, <1>2, <1>3

(***************************************************************************)
(* A run of rebase's loop over the queue of t, through good sessions with  *)
(* the control of t, that ends in what Rebase computes.                    *)
(***************************************************************************)
Emptied(t) == [t EXCEPT !.doc = t.confirmed, !.pending = <<>>]

RebasePass(g, t, sk, n, D) ==
  /\ g[0] = Emptied(t)
  /\ \A i \in 1..Len(t.pending) : g[i] = Reexecute(g[i - 1], t.pending[i], sk)
  /\ \A i \in 0..Len(t.pending) :
       g[i] \in Sessions /\ Good(g[i], n, D) /\ SameControl(g[i], t)
  /\ Rebase(t, sk) = g[Len(t.pending)]

(***************************************************************************)
(* From any grounded session, whatever its optimistic document was before, *)
(* there is such a run.  The loop's passes are functions on the good       *)
(* sessions with the control of t, so Iterate gives a run of the loop, and *)
(* with it the recursive function RebaseRun.                               *)
(***************************************************************************)
LEMMA RebaseIsRun ==
  ASSUME NEW n \in Nat, NEW D, NEW t, Grounded(t, n, D), NEW sk
  PROVE  \E g : RebasePass(g, t, sk, n, D)
<1> DEFINE k == Len(t.pending)
           base == [t EXCEPT !.doc = t.confirmed, !.pending = <<>>]
           X == {u \in Sessions : Good(u, n, D) /\ SameControl(u, t)}
           Pass(u, i) == Reexecute(u, t.pending[i], sk)
           step == [i \in 1..k |-> [u \in X |-> Pass(u, i)]]
           R(g) == [i \in 0..k |-> IF i = 0 THEN base ELSE Pass(g[i - 1], i)]
<1>0. t \in Sessions /\ k \in Nat /\ t.pending \in Seq(Entries) BY DEF Grounded, Sessions
<1>1. base \in X
  <2>1. base \in Sessions /\ SameControl(base, t) /\ SameRest(base, t)
        /\ base.doc = t.confirmed /\ base.pending = <<>> /\ t.confirmed \in Docs
    <3>1. <<>> \in Seq(Entries) OBVIOUS
    <3>2. t.confirmed \in Docs BY <1>0 DEF Sessions
    <3>3. base \in Sessions BY <1>0, <3>1, <3>2 DEF Sessions
    <3> QED BY <1>0, <3>2, <3>3 DEF Sessions, SameControl, SameRest
  <2> HIDE DEF base
  <2>2. Grounded(base, n, D) BY <2>1 DEF Grounded, Indexed, SameControl, SameRest
  <2>3. Chained(base.confirmed, base.pending, base.doc)
    BY <2>1, ChainEmpty DEF SameControl
  <2> QED BY <2>1, <2>2, <2>3 DEF Good
<1>2. ASSUME NEW i \in 1..k, NEW u \in X PROVE Pass(u, i) \in X
  <2>1. t.pending[i] \in Entries BY <1>0
  <2>2. Good(u, n, D) /\ SameControl(u, t) OBVIOUS
  <2>3. Good(Pass(u, i), n, D) /\ SameControl(Pass(u, i), u)
    BY <2>1, <2>2, GoodReexecute
  <2> HIDE DEF Pass
  <2>4. SameControl(Pass(u, i), t) BY <2>2, <2>3 DEF SameControl
  <2>5. Pass(u, i) \in Sessions BY <2>3 DEF Good, Grounded
  <2> QED BY <2>3, <2>4, <2>5
<1> HIDE DEF X, base, Pass
<1>3. step \in [1..k -> [X -> X]] BY <1>2
<1>4. PICK f \in [0..k -> X] : f[0] = base /\ \A i \in 1..k : f[i] = step[i][f[i - 1]]
  <2> HIDE DEF step, k
  <2>1. \E f : RunOf(f, X, k, base, step) BY <1>0, <1>1, <1>3, Iterate
  <2> QED BY <2>1 DEF RunOf
<1>5. f = R(f)
  <2>1. ASSUME NEW i \in 0..k PROVE f[i] = IF i = 0 THEN base ELSE Pass(f[i - 1], i)
    <3>1. CASE i = 0 BY <3>1, <1>4
    <3>2. CASE i # 0
      <4>1. i \in 1..k /\ i - 1 \in 0..k BY <3>2, <1>0
      <4>2. f[i - 1] \in X BY <4>1
      <4>3. f[i] = step[i][f[i - 1]] BY <4>1, <1>4
      <4> QED BY <4>1, <4>2, <4>3, <3>2
    <3> QED BY <3>1, <3>2
  <2> QED BY <2>1
<1> DEFINE g == RebaseRun(t, sk)
<1>6. g = R(g)
  <2>1. \E h : h = R(h) BY <1>5
  <2> QED BY <2>1 DEF RebaseRun, base, Pass
<1> HIDE DEF g
<1>7. \A i \in 0..k : g[i] = IF i = 0 THEN base ELSE Pass(g[i - 1], i)
  <2> HIDE DEF k
  <2> QED BY <1>6
<1> DEFINE S == {i \in 0..k : g[i] \in X}
<1>8. 0 \in S BY <1>0, <1>1, <1>7
<1>9. \A i \in 0..k : i < k /\ i \in S => i + 1 \in S
  <2> SUFFICES ASSUME NEW i \in 0..k, i < k, g[i] \in X PROVE i + 1 \in S
    OBVIOUS
  <2>1. i + 1 \in 1..k /\ i + 1 \in 0..k /\ i + 1 # 0 /\ (i + 1) - 1 = i BY <1>0
  <2>2. g[i + 1] = Pass(g[i], i + 1) BY <2>1, <1>7
  <2>3. g[i + 1] \in X BY <2>1, <2>2, <1>2
  <2> QED BY <2>1, <2>3
<1> HIDE DEF S, k
<1>10. 0..k \subseteq S BY <1>0, <1>8, <1>9, BoundedInduction
<1>11. \A i \in 0..k : g[i] \in X BY <1>10 DEF S
<1>12. Rebase(t, sk) = g[k] BY DEF Rebase, g, k
<1>13. \A i \in 1..k : g[i] = Reexecute(g[i - 1], t.pending[i], sk)
  <2>1. ASSUME NEW i \in 1..k PROVE g[i] = Pass(g[i - 1], i)
    <3>1. i \in 0..k /\ i # 0 BY <1>0
    <3> QED BY <3>1, <1>7
  <2> QED BY <2>1 DEF Pass
<1>14. g[0] = Emptied(t)
  <2>1. 0 \in 0..k BY <1>0
  <2> QED BY <2>1, <1>7 DEF base, Emptied
<1>15. RebasePass(g, t, sk, n, D) BY <1>11, <1>12, <1>13, <1>14 DEF RebasePass, X, k
<1> QED BY <1>15

(***************************************************************************)
(* A rebase makes any grounded session good and moves no control.          *)
(***************************************************************************)
LEMMA GoodRebase ==
  ASSUME NEW n \in Nat, NEW D, NEW t, Grounded(t, n, D), NEW sk
  PROVE  Good(Rebase(t, sk), n, D) /\ SameControl(Rebase(t, sk), t)
<1>1. PICK g : RebasePass(g, t, sk, n, D) BY RebaseIsRun
<1>2. Len(t.pending) \in 0..Len(t.pending)
  <2>1. t.pending \in Seq(Entries) BY DEF Grounded, Sessions
  <2> QED BY <2>1
<1> QED BY <1>1, <1>2 DEF RebasePass

(***************************************************************************)
(* Induction over the passes of a rebase: what the emptied session has,    *)
(* and every pass hands on, the rebased session has.                       *)
(***************************************************************************)
LEMMA RebaseInduction ==
  ASSUME NEW n \in Nat, NEW D, NEW t, Grounded(t, n, D), NEW sk, NEW X,
         Emptied(t) \in X[0],
         \A i \in 1..Len(t.pending) : \A u \in X[i - 1] :
            Good(u, n, D) /\ SameControl(u, t) => Reexecute(u, t.pending[i], sk) \in X[i]
  PROVE  Rebase(t, sk) \in X[Len(t.pending)]
<1> DEFINE k == Len(t.pending)
<1>0. k \in Nat
  <2>1. t.pending \in Seq(Entries) BY DEF Grounded, Sessions
  <2> QED BY <2>1
<1>1. PICK g : RebasePass(g, t, sk, n, D) BY RebaseIsRun
<1>2. /\ g[0] = Emptied(t)
      /\ \A i \in 1..k : g[i] = Reexecute(g[i - 1], t.pending[i], sk)
      /\ \A i \in 0..k : Good(g[i], n, D) /\ SameControl(g[i], t)
      /\ Rebase(t, sk) = g[k]
  BY <1>1 DEF RebasePass
<1> DEFINE S == {i \in 0..k : g[i] \in X[i]}
<1>3. 0 \in S BY <1>0, <1>2
<1>4. \A i \in 0..k : i < k /\ i \in S => i + 1 \in S
  <2> SUFFICES ASSUME NEW i \in 0..k, i < k, g[i] \in X[i] PROVE i + 1 \in S
    OBVIOUS
  <2>1. i + 1 \in 1..k /\ i + 1 \in 0..k /\ (i + 1) - 1 = i BY <1>0
  <2>2. g[i + 1] = Reexecute(g[i], t.pending[i + 1], sk) BY <2>1, <1>2
  <2>3. Reexecute(g[i], t.pending[i + 1], sk) \in X[i + 1] BY <2>1, <1>2
  <2> QED BY <2>1, <2>2, <2>3
<1> HIDE DEF S, k
<1>5. 0..k \subseteq S BY <1>0, <1>3, <1>4, BoundedInduction
<1>6. k \in S BY <1>0, <1>5
<1>7. g[k] \in X[k] BY <1>6 DEF S
<1> QED BY <1>2, <1>7 DEF k

-----------------------------------------------------------------------------
(***************************************************************************)
(* Ordered ingress of the operation at revision rev of the log l.          *)
(***************************************************************************)

(***************************************************************************)
(* Advancing confirmed over the next operation of the log leaves it the    *)
(* server's document at that revision.                                     *)
(***************************************************************************)
LEMMA GroundedAdvance ==
  ASSUME NEW l, NEW D, ServerOK(l, D), NEW t, Good(t, Len(l), D), NEW rev \in 1..Len(l),
         rev = t.confirmedRevision + 1
  PROVE  Grounded(Advance(t, rev, l[rev]), Len(l), D)
<1> DEFINE d == Apply(t.confirmed, l[rev].patch)
           u == [t EXCEPT !.confirmed = d, !.confirmedRevision = rev]
<1>1. t \in Sessions /\ t.confirmedRevision \in Nat /\ t.confirmed = D[t.confirmedRevision]
  BY DEF Good, Grounded, Sessions
<1>2. d = D[rev] /\ d \in Docs /\ rev \in Nat /\ rev <= Len(l)
  <2>1. rev - 1 = t.confirmedRevision /\ Len(l) \in Nat BY <1>1 DEF ServerOK
  <2>2. D[rev] = Apply(D[rev - 1], l[rev].patch) /\ D[rev] \in Docs BY <2>1 DEF ServerOK
  <2> QED BY <1>1, <2>1, <2>2
<1>3. Advance(t, rev, l[rev]) = u BY DEF Advance
<1> HIDE DEF d
<1>4. /\ u \in Sessions /\ SameRest(u, t) /\ u.confirmed = d /\ u.confirmedRevision = rev
      /\ u.pump = t.pump /\ u.sync = t.sync /\ u.syncTarget = t.syncTarget
  BY <1>1, <1>2 DEF Sessions, SameRest
<1> HIDE DEF u
<1>5. Grounded(u, Len(l), D) BY <1>2, <1>4 DEF Good, Grounded, Indexed, SameRest
<1> QED BY <1>3, <1>5

(***************************************************************************)
(* Acknowledging the head: whether confirmed is recomputed or, with        *)
(* nothing behind the head, taken over from the optimistic document, it is *)
(* the server's document, and the rest of the queue is chained from it.    *)
(***************************************************************************)
LEMMA GoodAck ==
  ASSUME NEW l, NEW D, ServerOK(l, D), NEW t, Good(t, Len(l), D), NEW rev \in 1..Len(l),
         ~IngestFails(t, rev, l[rev]), IsPendingHead(t, l[rev])
  PROVE  /\ Good(Ack(t, rev, l[rev]), Len(l), D)
         /\ Ack(t, rev, l[rev]).confirmedRevision = rev
<1> DEFINE op == l[rev]
           c == IF Len(t.pending) = 1 THEN t.doc ELSE Apply(t.confirmed, op.patch)
           q == Tail(t.pending)
           u == [t EXCEPT !.confirmed = c, !.confirmedRevision = rev, !.pending = q]
<1>1. /\ t \in Sessions /\ t.confirmedRevision \in Nat /\ t.confirmed = D[t.confirmedRevision]
      /\ t.pending \in Seq(Entries) /\ t.pending # <<>>
      /\ Chained(t.confirmed, t.pending, t.doc)
  BY DEF Good, Grounded, Sessions, IsPendingHead
<1>2. rev = t.confirmedRevision + 1 /\ op.patch = t.pending[1].predicted
  BY <1>1 DEF IngestFails
<1>3. D[rev] = Apply(t.confirmed, op.patch) /\ D[rev] \in Docs /\ Len(l) \in Nat
  <2>1. rev - 1 = t.confirmedRevision /\ Len(l) \in Nat BY <1>1, <1>2 DEF ServerOK
  <2> QED BY <1>1, <2>1 DEF ServerOK
<1>4. c = D[rev]
  <2>1. CASE Len(t.pending) = 1
    <3>1. t.doc = Apply(t.confirmed, t.pending[1].predicted) BY <1>1, <2>1, ChainOne
    <3> QED BY <1>2, <1>3, <2>1, <3>1
  <2>2. CASE Len(t.pending) # 1 BY <1>3, <2>2
  <2> QED BY <2>1, <2>2
<1>5. Chained(D[rev], q, t.doc)
  <2>1. Chained(Apply(t.confirmed, t.pending[1].predicted), q, t.doc) BY <1>1, ChainTail
  <2> QED BY <1>2, <1>3, <2>1
<1>6. q \in Seq(Entries) BY <1>1
<1>7. Ack(t, rev, op) = u BY DEF Ack
<1> HIDE DEF c, q
<1>8. /\ u \in Sessions /\ SameRest(u, t) /\ u.confirmed = c /\ u.confirmedRevision = rev
      /\ u.pending = q /\ u.doc = t.doc
      /\ u.pump = t.pump /\ u.sync = t.sync /\ u.syncTarget = t.syncTarget
  <2>1. c \in Docs /\ rev \in Nat /\ t.pending \in Seq(Entries) BY <1>1, <1>3, <1>4
  <2>2. u \in Sessions BY <1>1, <1>6, <2>1 DEF Sessions
  <2> QED BY <1>1, <2>2 DEF Sessions, SameRest
<1> HIDE DEF u
<1>9. Grounded(u, Len(l), D) BY <1>3, <1>4, <1>8 DEF Good, Grounded, Indexed, SameRest
<1>10. Good(u, Len(l), D) BY <1>4, <1>5, <1>8, <1>9 DEF Good
<1> QED BY <1>7, <1>8, <1>10

(***************************************************************************)
(* Applying another participant's operation keeps the session good.        *)
(***************************************************************************)
LEMMA GoodApplyForeign ==
  ASSUME NEW l, NEW D, ServerOK(l, D), NEW t, Good(t, Len(l), D), NEW rev \in 1..Len(l),
         rev = t.confirmedRevision + 1
  PROVE  /\ Good(ApplyForeign(t, rev, l[rev]), Len(l), D)
         /\ ApplyForeign(t, rev, l[rev]).confirmedRevision = rev
<1> DEFINE u == Advance(t, rev, l[rev])
           v == Rebase(u, {})
<1>0. Len(l) \in Nat BY DEF ServerOK
<1>1. Grounded(u, Len(l), D) BY GroundedAdvance
<1>2. u.confirmedRevision = rev BY DEF Advance, Good, Grounded, Sessions
<1> HIDE DEF u
<1>3. Good(v, Len(l), D) /\ SameControl(v, u) BY <1>0, <1>1, GoodRebase
<1> HIDE DEF v
<1> QED BY <1>2, <1>3 DEF ApplyForeign, u, v, SameControl, SameReplica

(***************************************************************************)
(* Confirming an intention out of the middle of the queue keeps the        *)
(* session good: the others re-execute on the new confirmed document.      *)
(***************************************************************************)
LEMMA GoodConfirmPending ==
  ASSUME NEW l, NEW D, ServerOK(l, D), NEW t, Good(t, Len(l), D), NEW rev \in 1..Len(l),
         rev = t.confirmedRevision + 1
  PROVE  /\ Good(ConfirmPending(t, rev, l[rev]), Len(l), D)
         /\ ConfirmPending(t, rev, l[rev]).confirmedRevision = rev
<1> DEFINE e == t.pending[ClaimOf(t, l[rev])]
           u == Advance(t, rev, l[rev])
           w == RemoveRecord(u, e.rec)
           v == Rebase(w, {e.intent})
<1>0. Len(l) \in Nat BY DEF ServerOK
<1>1. Grounded(u, Len(l), D) BY GroundedAdvance
<1>2. u.confirmedRevision = rev BY DEF Advance, Good, Grounded, Sessions
<1>3. ConfirmPending(t, rev, l[rev]) = v BY DEF ConfirmPending
<1> HIDE DEF u, e
<1>4. Grounded(w, Len(l), D) /\ SameReplica(w, u) BY <1>0, <1>1, GoodRemoveRecord
<1> HIDE DEF w
<1>5. Good(v, Len(l), D) /\ SameControl(v, w) BY <1>0, <1>4, GoodRebase
<1> HIDE DEF v
<1> QED BY <1>2, <1>3, <1>4, <1>5 DEF SameControl, SameReplica

(***************************************************************************)
(* Every way an operation enters keeps the session good.                   *)
(***************************************************************************)
LEMMA GoodIngestOrdered ==
  ASSUME NEW l, NEW D, ServerOK(l, D), NEW t, Good(t, Len(l), D), NEW rev \in 1..Len(l),
         ~IngestFails(t, rev, l[rev])
  PROVE  /\ Good(IngestOrdered(t, rev, l[rev]), Len(l), D)
         /\ IngestOrdered(t, rev, l[rev]).confirmedRevision = rev
<1>1. rev = t.confirmedRevision + 1 BY DEF IngestFails
<1> QED BY <1>1, GoodAck, GoodApplyForeign, GoodConfirmPending DEF IngestOrdered

(***************************************************************************)
(* Whatever revision an operation arrives with, the session stays good.    *)
(***************************************************************************)
LEMMA GoodHandleServerOp ==
  ASSUME NEW l, NEW D, ServerOK(l, D), NEW t, Good(t, Len(l), D), NEW rev \in 1..Len(l)
  PROVE  Good(HandleServerOp(t, rev, l[rev]), Len(l), D)
<1>0. Len(l) \in Nat /\ rev \in Nat /\ rev <= Len(l) BY DEF ServerOK
<1>1. Good(RequestCatchUp(t, rev), Len(l), D) BY <1>0, GoodRequestCatchUp
<1>2. Good(RequestResync(RaiseTarget(t, rev)), Len(l), D)
  <2>1. Good(RaiseTarget(t, rev), Len(l), D) BY <1>0, GoodRaiseTarget
  <2> QED BY <1>0, <2>1, GoodRequestResync
<1>3. ASSUME ~IngestFails(t, rev, l[rev])
      PROVE  Good(Pump(IngestOrdered(t, rev, l[rev])), Len(l), D)
  <2>1. Good(IngestOrdered(t, rev, l[rev]), Len(l), D) BY <1>3, GoodIngestOrdered
  <2> QED BY <1>0, <2>1, GoodPump
<1> QED BY <1>1, <1>2, <1>3 DEF HandleServerOp

-----------------------------------------------------------------------------
(***************************************************************************)
(* What a sync response does.                                              *)
(***************************************************************************)

(***************************************************************************)
(* One operation of a page, and with it the whole page.                    *)
(***************************************************************************)
LEMMA GoodPageStep ==
  ASSUME NEW l, NEW D, ServerOK(l, D), NEW acc, Good(acc.t, Len(l), D),
         acc \in [t : Sessions, progressed : BOOLEAN, broken : BOOLEAN],
         NEW rev \in 1..Len(l)
  PROVE  /\ PageStep(acc, rev, l[rev]) \in [t : Sessions, progressed : BOOLEAN,
                                            broken : BOOLEAN]
         /\ Good(PageStep(acc, rev, l[rev]).t, Len(l), D)
<1> DEFINE x == [RaiseTarget(acc.t, rev) EXCEPT !.resync = TRUE]
           y == IngestOrdered(acc.t, rev, l[rev])
<1>0. Len(l) \in Nat /\ rev \in Nat /\ rev <= Len(l) BY DEF ServerOK
<1>1. Good(x, Len(l), D)
  <2>1. Good(RaiseTarget(acc.t, rev), Len(l), D) BY <1>0, GoodRaiseTarget
  <2> QED BY <1>0, <2>1, GoodResyncFlag
<1>2. ~IngestFails(acc.t, rev, l[rev]) => Good(y, Len(l), D) BY GoodIngestOrdered
<1>3. \/ PageStep(acc, rev, l[rev]) = acc
      \/ PageStep(acc, rev, l[rev]) = [acc EXCEPT !.broken = TRUE, !.t = x]
      \/ /\ ~IngestFails(acc.t, rev, l[rev])
         /\ PageStep(acc, rev, l[rev]) = [acc EXCEPT !.t = y, !.progressed = TRUE]
  BY DEF PageStep
<1> HIDE DEF x, y
<1>4. x \in Sessions BY <1>1 DEF Good, Grounded
<1>5. ~IngestFails(acc.t, rev, l[rev]) => y \in Sessions BY <1>2 DEF Good, Grounded
<1> QED BY <1>1, <1>2, <1>3, <1>4, <1>5

(***************************************************************************)
(* A run of ingestPage's loop over a fetched page, through good sessions.  *)
(***************************************************************************)
Pages == [t : Sessions, progressed : BOOLEAN, broken : BOOLEAN]

PagePass(g, t, after, ops, n, D) ==
  /\ g[0] = [t |-> t, progressed |-> FALSE, broken |-> FALSE]
  /\ \A i \in 1..Len(ops) : g[i] = PageStep(g[i - 1], after + i, ops[i])
  /\ \A i \in 0..Len(ops) : g[i] \in Pages /\ Good(g[i].t, n, D)
  /\ PageRun(t, after, ops)[Len(ops)] = g[Len(ops)]

(***************************************************************************)
(* Over a page of the server's log there is such a run.                    *)
(***************************************************************************)
LEMMA PageIsRun ==
  ASSUME NEW l, NEW D, ServerOK(l, D), NEW t, Good(t, Len(l), D), NEW after \in Nat,
         NEW ops \in Seq(ServerOps), after + Len(ops) <= Len(l),
         \A i \in 1..Len(ops) : ops[i] = l[after + i]
  PROVE  \E g : PagePass(g, t, after, ops, Len(l), D)
<1> DEFINE k == Len(ops)
           base == [t |-> t, progressed |-> FALSE, broken |-> FALSE]
           Accs == [t : Sessions, progressed : BOOLEAN, broken : BOOLEAN]
           X == {a \in Accs : Good(a.t, Len(l), D)}
           Pass(a, i) == PageStep(a, after + i, ops[i])
           step == [i \in 1..k |-> [a \in X |-> Pass(a, i)]]
           R(g) == [i \in 0..k |-> IF i = 0 THEN base ELSE Pass(g[i - 1], i)]
<1>0. k \in Nat /\ Len(l) \in Nat BY DEF ServerOK
<1>1. base \in X BY DEF Good, Grounded
<1>2. ASSUME NEW i \in 1..k, NEW a \in X PROVE Pass(a, i) \in X
  <2>1. after + i \in 1..Len(l) /\ ops[i] = l[after + i] BY <1>0
  <2>2. Good(a.t, Len(l), D) /\ a \in Accs OBVIOUS
  <2> QED BY <2>1, <2>2, GoodPageStep
<1> HIDE DEF X, base, Pass
<1>3. step \in [1..k -> [X -> X]] BY <1>2
<1>4. PICK f \in [0..k -> X] : f[0] = base /\ \A i \in 1..k : f[i] = step[i][f[i - 1]]
  <2> HIDE DEF step, k
  <2>1. \E f : RunOf(f, X, k, base, step) BY <1>0, <1>1, <1>3, Iterate
  <2> QED BY <2>1 DEF RunOf
<1>5. f = R(f)
  <2>1. ASSUME NEW i \in 0..k PROVE f[i] = IF i = 0 THEN base ELSE Pass(f[i - 1], i)
    <3>1. CASE i = 0 BY <3>1, <1>4
    <3>2. CASE i # 0
      <4>1. i \in 1..k /\ i - 1 \in 0..k BY <3>2, <1>0
      <4>2. f[i - 1] \in X BY <4>1
      <4>3. f[i] = step[i][f[i - 1]] BY <4>1, <1>4
      <4> QED BY <4>1, <4>2, <4>3, <3>2
    <3> QED BY <3>1, <3>2
  <2> QED BY <2>1
<1> DEFINE g == PageRun(t, after, ops)
<1>6. g = R(g)
  <2>1. \E h : h = R(h) BY <1>5
  <2> QED BY <2>1 DEF PageRun, base, Pass
<1> HIDE DEF g
<1>7. \A i \in 0..k : g[i] = IF i = 0 THEN base ELSE Pass(g[i - 1], i)
  <2> HIDE DEF k
  <2> QED BY <1>6
<1> DEFINE S == {i \in 0..k : g[i] \in X}
<1>8. 0 \in S BY <1>0, <1>1, <1>7
<1>9. \A i \in 0..k : i < k /\ i \in S => i + 1 \in S
  <2> SUFFICES ASSUME NEW i \in 0..k, i < k, g[i] \in X PROVE i + 1 \in S
    OBVIOUS
  <2>1. i + 1 \in 1..k /\ i + 1 \in 0..k /\ i + 1 # 0 /\ (i + 1) - 1 = i BY <1>0
  <2>2. g[i + 1] = Pass(g[i], i + 1) BY <2>1, <1>7
  <2>3. g[i + 1] \in X BY <2>1, <2>2, <1>2
  <2> QED BY <2>1, <2>3
<1> HIDE DEF S, k
<1>10. 0..k \subseteq S BY <1>0, <1>8, <1>9, BoundedInduction
<1>11. \A i \in 0..k : g[i] \in X BY <1>10 DEF S
<1>12. \A i \in 1..k : g[i] = PageStep(g[i - 1], after + i, ops[i])
  <2>1. ASSUME NEW i \in 1..k PROVE g[i] = Pass(g[i - 1], i)
    <3>1. i \in 0..k /\ i # 0 BY <1>0
    <3> QED BY <3>1, <1>7
  <2> QED BY <2>1 DEF Pass
<1>13. g[0] = [t |-> t, progressed |-> FALSE, broken |-> FALSE]
  <2>1. 0 \in 0..k BY <1>0
  <2> QED BY <2>1, <1>7 DEF base
<1>14. PageRun(t, after, ops)[Len(ops)] = g[k] BY DEF g, k
<1>15. PagePass(g, t, after, ops, Len(l), D)
  BY <1>11, <1>12, <1>13, <1>14 DEF PagePass, X, k, Pages
<1> QED BY <1>15

(***************************************************************************)
(* Induction over the operations of a page: what the session has before    *)
(* the first, and every operation hands on, it has after the last.         *)
(***************************************************************************)
LEMMA PageInduction ==
  ASSUME NEW l, NEW D, ServerOK(l, D), NEW t, Good(t, Len(l), D), NEW after \in Nat,
         NEW ops \in Seq(ServerOps), after + Len(ops) <= Len(l),
         \A i \in 1..Len(ops) : ops[i] = l[after + i],
         NEW X, [t |-> t, progressed |-> FALSE, broken |-> FALSE] \in X,
         \A rev \in 1..Len(l) : \A acc \in X :
            acc \in Pages /\ Good(acc.t, Len(l), D) => PageStep(acc, rev, l[rev]) \in X
  PROVE  PageRun(t, after, ops)[Len(ops)] \in X
<1> DEFINE k == Len(ops)
<1>0. k \in Nat /\ Len(l) \in Nat BY DEF ServerOK
<1>1. PICK g : PagePass(g, t, after, ops, Len(l), D) BY PageIsRun
<1>2. /\ g[0] = [t |-> t, progressed |-> FALSE, broken |-> FALSE]
      /\ \A i \in 1..k : g[i] = PageStep(g[i - 1], after + i, ops[i])
      /\ \A i \in 0..k : g[i] \in Pages /\ Good(g[i].t, Len(l), D)
      /\ PageRun(t, after, ops)[k] = g[k]
  BY <1>1 DEF PagePass
<1> DEFINE S == {i \in 0..k : g[i] \in X}
<1>3. 0 \in S BY <1>0, <1>2
<1>4. \A i \in 0..k : i < k /\ i \in S => i + 1 \in S
  <2> SUFFICES ASSUME NEW i \in 0..k, i < k, g[i] \in X PROVE i + 1 \in S
    OBVIOUS
  <2>1. i + 1 \in 1..k /\ i + 1 \in 0..k /\ (i + 1) - 1 = i BY <1>0
  <2>2. g[i + 1] = PageStep(g[i], after + (i + 1), ops[i + 1]) BY <2>1, <1>2
  <2>3. after + (i + 1) \in 1..Len(l) /\ ops[i + 1] = l[after + (i + 1)] BY <2>1, <1>0
  <2>4. g[i] \in Pages /\ Good(g[i].t, Len(l), D) BY <1>2
  <2>5. PageStep(g[i], after + (i + 1), l[after + (i + 1)]) \in X BY <2>3, <2>4
  <2> QED BY <2>1, <2>2, <2>3, <2>5
<1> HIDE DEF S, k
<1>5. 0..k \subseteq S BY <1>0, <1>3, <1>4, BoundedInduction
<1>6. k \in S BY <1>0, <1>5
<1>7. g[k] \in X BY <1>6 DEF S
<1> QED BY <1>2, <1>7 DEF k

(***************************************************************************)
(* By induction over a fetched page, the session stays good through it.    *)
(***************************************************************************)
LEMMA GoodPageRun ==
  ASSUME NEW l, NEW D, ServerOK(l, D), NEW t, Good(t, Len(l), D), NEW after \in Nat,
         NEW ops \in Seq(ServerOps), after + Len(ops) <= Len(l),
         \A i \in 1..Len(ops) : ops[i] = l[after + i]
  PROVE  /\ PageRun(t, after, ops)[Len(ops)].t \in Sessions
         /\ Good(PageRun(t, after, ops)[Len(ops)].t, Len(l), D)
<1>1. PICK g : PagePass(g, t, after, ops, Len(l), D) BY PageIsRun
<1>2. Len(ops) \in 0..Len(ops) OBVIOUS
<1>3. Good(g[Len(ops)].t, Len(l), D) BY <1>1, <1>2 DEF PagePass
<1> QED BY <1>1, <1>3 DEF PagePass, Good, Grounded

(***************************************************************************)
(* A fetched page, whole or cut, and the move of the sync loop that        *)
(* follows, keep the session good.                                         *)
(***************************************************************************)
LEMMA GoodIngestPage ==
  ASSUME NEW l, NEW D, ServerOK(l, D), NEW t, Good(t, Len(l), D), NEW after \in Nat,
         NEW head \in Nat, head <= Len(l)
  PROVE  /\ Good(IngestPage(t, after, SubSeq(l, after + 1, head)), Len(l), D)
         /\ Good(IngestCut(t, after, SubSeq(l, after + 1, head)), Len(l), D)
<1> DEFINE ops == SubSeq(l, after + 1, head)
           u == PageRun(t, after, ops)[Len(ops)].t
<1>0. Len(l) \in Nat /\ l \in Seq(ServerOps) BY DEF ServerOK
<1>1. /\ ops \in Seq(ServerOps)
      /\ after + Len(ops) <= Len(l) \/ Len(ops) = 0
      /\ \A i \in 1..Len(ops) : ops[i] = l[after + i]
  <2>1. head \in 0..Len(l) /\ after + 1 \in Nat BY <1>0
  <2>2. \A i \in after + 1..head : l[i] \in ServerOps BY <1>0, <2>1
  <2>3. ops \in Seq(ServerOps) BY <1>0, <2>1, <2>2
  <2>4. after + Len(ops) <= Len(l) \/ Len(ops) = 0 BY <1>0, <2>1
  <2>5. \A i \in 1..Len(ops) : ops[i] = l[after + i] BY <1>0, <2>1
  <2> QED BY <2>3, <2>4, <2>5
<1>2. Good(u, Len(l), D)
  <2>1. CASE after + Len(ops) <= Len(l) BY <1>1, <2>1, GoodPageRun
  <2>2. CASE Len(ops) = 0 /\ ~(after + Len(ops) <= Len(l))
    <3>1. 0 + Len(ops) <= Len(l) /\ PageRun(t, after, ops) = PageRun(t, 0, ops)
      BY <2>2, <1>0 DEF PageRun
    <3>2. \A i \in 1..Len(ops) : ops[i] = l[0 + i] BY <2>2
    <3> QED BY <1>1, <3>1, <3>2, GoodPageRun
  <2> QED BY <1>1, <2>1, <2>2
<1>3. \/ IngestPage(t, after, ops) = [u EXCEPT !.sync = SyncAt("delay", 0)]
      \/ IngestPage(t, after, ops) = SyncTop(u)
  BY DEF IngestPage
<1> DEFINE v == [u EXCEPT !.resync = TRUE]
<1>6. IngestCut(t, after, ops) = SyncTop(v) BY DEF IngestCut
<1> HIDE DEF u
<1>4. Good([u EXCEPT !.sync = SyncAt("delay", 0)], Len(l), D) BY <1>0, <1>2, SetSync
<1>5. Good(SyncTop(u), Len(l), D) BY <1>0, <1>2, GoodSyncTop
<1>7. Good(v, Len(l), D) BY <1>0, <1>2, GoodResyncFlag
<1> HIDE DEF v
<1>8. Good(SyncTop(v), Len(l), D) BY <1>0, <1>7, GoodSyncTop
<1> QED BY <1>3, <1>4, <1>5, <1>6, <1>8

(***************************************************************************)
(* Adopting a checkpoint that is the server's document at its revision.    *)
(***************************************************************************)
LEMMA GoodAdoptSnapshot ==
  ASSUME NEW n \in Nat, NEW D, NEW t, Good(t, n, D), NEW rev \in Nat, rev <= n,
         NEW doc \in Docs, doc = D[rev]
  PROVE  Good(AdoptSnapshot(t, rev, doc), n, D)
<1> DEFINE given == {t.pending[i].intent : i \in Ambiguous(t, rev)}
           tgt == Larger(Larger(t.syncTarget, t.confirmedRevision), rev)
           ground == [t EXCEPT !.syncTarget = tgt, !.confirmed = doc,
                               !.confirmedRevision = rev, !.undo = <<>>, !.redo = <<>>]
           r == Rebase(ground, given)
           F == [i \in DOMAIN r.fate |-> IF i \in given THEN "ambiguous" ELSE r.fate[i]]
           v == [r EXCEPT !.fate = F]
<1>0. t \in Sessions /\ Grounded(t, n, D) BY DEF Good, Grounded
<1>1. tgt \in Nat /\ tgt <= n BY <1>0 DEF Grounded, Sessions, Larger
<1>2. AdoptSnapshot(t, rev, doc) = SyncTop(v) BY DEF AdoptSnapshot
<1> HIDE DEF tgt, given
<1>3. /\ ground \in Sessions /\ ground.syncTarget = tgt /\ ground.confirmed = doc
      /\ ground.confirmedRevision = rev /\ ground.undo = <<>> /\ ground.redo = <<>>
      /\ ground.pump = t.pump /\ ground.sync = t.sync /\ ground.pub = t.pub
  <2>1. <<>> \in Seq(Nat) OBVIOUS
  <2> QED BY <1>0, <1>1, <2>1 DEF Sessions
<1> HIDE DEF ground
<1>4. Grounded(ground, n, D) BY <1>0, <1>1, <1>3 DEF Grounded, Indexed
<1>5. Good(r, n, D) BY <1>4, GoodRebase
<1>6. r \in Sessions /\ r.fate \in Seq(Fates) BY <1>5 DEF Good, Grounded, Sessions
<1> HIDE DEF r
<1>7. F \in Seq(Fates)
  <2>1. Len(r.fate) \in Nat /\ DOMAIN r.fate = 1..Len(r.fate) BY <1>6
  <2>2. F \in [1..Len(r.fate) -> Fates] BY <1>6, <2>1 DEF Fates
  <2> QED BY <2>1, <2>2
<1> HIDE DEF F
<1>8. /\ v \in Sessions /\ SameReplica(v, r) /\ SameRest(v, r)
      /\ v.pump = r.pump /\ v.sync = r.sync /\ v.syncTarget = r.syncTarget
  BY <1>6, <1>7 DEF Sessions, SameReplica, SameRest
<1> HIDE DEF v
<1>9. Good(v, n, D) BY <1>5, <1>8 DEF Good, Grounded, Indexed, SameReplica, SameRest
<1> QED BY <1>2, <1>9, GoodSyncTop

-----------------------------------------------------------------------------
(***************************************************************************)
(* The user's calls.                                                       *)
(***************************************************************************)
LEMMA GoodRun ==
  ASSUME NEW n \in Nat, NEW D, NEW t, Good(t, n, D), NEW c \in Invocations,
         NEW o \in Origins, NEW r \in Nat
  PROVE  /\ Good(Run(t, c, o, r), n, D)
         /\ Run(t, c, o, r).undo = t.undo /\ Run(t, c, o, r).redo = t.redo
         /\ Len(Run(t, c, o, r).recs) = Len(t.recs) + 1
<1> DEFINE p == Forward(t.doc, c)
           w == Wire(p)
           d == Apply(t.doc, w)
           k == t.opCounter + 1
           intent == Len(t.fate) + 1
           m == Len(t.recs) + 1
           entry == [opId |-> k, cmd |-> c, origin |-> o, predicted |-> w,
                     attempts |-> {}, intent |-> intent,
                     rec |-> IF r = 0 THEN m ELSE r]
           q == Append(t.pending, entry)
           F == Append(t.fate, "open")
           R == Append(t.recs, p)
           u == [t EXCEPT !.doc = d, !.opCounter = k, !.pending = q, !.fate = F,
                          !.recs = R]
<1>0. /\ t \in Sessions /\ t.doc \in Docs /\ k \in Nat /\ intent \in Nat /\ m \in Nat
      /\ t.pending \in Seq(Entries) /\ t.fate \in Seq(Fates) /\ t.recs \in Seq(PatchOps)
  BY DEF Good, Grounded, Sessions
<1>1. Run(t, c, o, r) = Pump(u) BY <1>0 DEF Run, Sessions
<1> HIDE DEF k, intent, m
<1>2. p \in PatchOps /\ w \in WirePatches /\ Applies(t.doc, w) BY <1>0, ForwardFits
<1>3. d \in Docs BY <1>0, <1>2, ApplyType
<1> HIDE DEF p, w
<1>4. entry \in Entries /\ entry.predicted = w BY <1>0, <1>2 DEF Entries
<1> HIDE DEF entry
<1>5. q \in Seq(Entries) /\ Chained(t.confirmed, q, d)
  BY <1>0, <1>2, <1>4, ChainAppend DEF Good
<1>6. F \in Seq(Fates) BY <1>0 DEF Fates
<1>7. R \in Seq(PatchOps) /\ Len(R) = Len(t.recs) + 1 BY <1>0, <1>2
<1> HIDE DEF d, q, F, R
<1>8. u \in Sessions BY <1>0, <1>3, <1>5, <1>6, <1>7 DEF Sessions
<1>9. /\ SameControl(u, t) /\ u.doc = d /\ u.pending = q /\ u.recs = R
      /\ u.undo = t.undo /\ u.redo = t.redo
  <2>1. SameControl(u, t) BY <1>0 DEF Sessions, SameControl
  <2>2. u.doc = d /\ u.pending = q /\ u.recs = R BY <1>0 DEF Sessions
  <2>3. u.undo = t.undo /\ u.redo = t.redo BY <1>0 DEF Sessions
  <2> QED BY <2>1, <2>2, <2>3
<1> HIDE DEF u
<1>10. Grounded(u, n, D)
  <2>1. Indexed(u)
    <3>1. Indexed(t) /\ Len(t.recs) \in Nat BY <1>0 DEF Good, Grounded, Sessions
    <3>2. u.undo = t.undo /\ u.redo = t.redo /\ Len(u.recs) = Len(t.recs) + 1
      BY <1>7, <1>9
    <3> QED BY <3>1, <3>2 DEF Indexed
  <2> QED BY <1>8, <1>9, <2>1 DEF Good, Grounded, SameControl
<1>11. Good(u, n, D) BY <1>5, <1>9, <1>10 DEF Good, SameControl
<1>12. Good(Pump(u), n, D) BY <1>11, GoodPump
<1>13. Pump(u).undo = u.undo /\ Pump(u).redo = u.redo /\ Pump(u).recs = u.recs
  BY <1>8 DEF Pump, Sessions
<1> QED BY <1>1, <1>7, <1>9, <1>12, <1>13

(***************************************************************************)
(* Replacing the history stacks of a good session by indexed ones.         *)
(***************************************************************************)
LEMMA SetHistory ==
  ASSUME NEW n \in Nat, NEW D, NEW t, Good(t, n, D),
         NEW U \in Seq(Nat), NEW R \in Seq(Nat),
         \A i \in 1..Len(U) : U[i] \in 1..Len(t.recs),
         \A i \in 1..Len(R) : R[i] \in 1..Len(t.recs)
  PROVE  Good([t EXCEPT !.undo = U, !.redo = R], n, D)
<1> DEFINE u == [t EXCEPT !.undo = U, !.redo = R]
<1>1. t \in Sessions BY DEF Good, Grounded
<1>2. /\ u \in Sessions /\ SameReplica(u, t) /\ SameControl(u, t)
      /\ u.undo = U /\ u.redo = R /\ u.recs = t.recs
  BY <1>1 DEF Sessions, SameReplica, SameControl
<1> HIDE DEF u
<1>3. Indexed(u) BY <1>2 DEF Indexed
<1>4. Good(u, n, D) BY <1>2, <1>3 DEF Good, Grounded, SameReplica, SameControl
<1> QED BY <1>4 DEF u

(***************************************************************************)
(* A dispatched command keeps the session good, its undo stack bounded by  *)
(* MaxUndo included.                                                       *)
(***************************************************************************)
LEMMA GoodDispatchOn ==
  ASSUME NEW n \in Nat, NEW D, NEW t, Good(t, n, D), NEW c \in Invocations
  PROVE  Good(DispatchOn(t, c), n, D)
<1> DEFINE v == Run(t, c, "dispatch", 0)
           a == Append(v.undo, Len(v.recs))
           U == Bounded(a)
           R == <<>>
<1>1. Good(v, n, D) BY GoodRun DEF Origins
<1>2. Len(v.recs) \in 1..Len(v.recs)
  <2>1. Len(v.recs) = Len(t.recs) + 1 BY GoodRun DEF Origins
  <2>2. t.recs \in Seq(PatchOps) BY DEF Good, Grounded, Sessions
  <2> QED BY <2>1, <2>2
<1>3. DispatchOn(t, c) = [v EXCEPT !.undo = U, !.redo = R] BY DEF DispatchOn
<1> HIDE DEF v
<1>4. v.undo \in Seq(Nat) /\ Indexed(v) BY <1>1 DEF Good, Grounded, Sessions
<1>5. a \in Seq(Nat) /\ \A i \in 1..Len(a) : a[i] \in 1..Len(v.recs)
  BY <1>2, <1>4 DEF Indexed
<1> HIDE DEF a
<1>6. U \in Seq(Nat) /\ \A i \in 1..Len(U) : U[i] \in 1..Len(v.recs)
  <2>1. CASE U = a BY <1>5, <2>1
  <2>2. CASE U = Tail(a)
    <3>1. a # <<>> BY <1>4 DEF a
    <3>2. Tail(a) \in Seq(Nat) /\ \A i \in 1..Len(Tail(a)) : Tail(a)[i] \in 1..Len(v.recs)
      BY <1>5, <3>1
    <3> QED BY <2>2, <3>2
  <2> QED BY <2>1, <2>2 DEF Bounded
<1>7. R \in Seq(Nat) /\ \A i \in 1..Len(R) : R[i] \in 1..Len(v.recs) OBVIOUS
<1> HIDE DEF U, R
<1>8. Good([v EXCEPT !.undo = U, !.redo = R], n, D) BY <1>1, <1>6, <1>7, SetHistory
<1> QED BY <1>3, <1>8

(***************************************************************************)
(* Taking the newest record off a stack leaves records that were on it.    *)
(***************************************************************************)
LEMMA FrontType ==
  ASSUME NEW q \in Seq(Nat), q # <<>>, NEW m \in Nat, \A i \in 1..Len(q) : q[i] \in 1..m
  PROVE  /\ Front(q) \in Seq(Nat) /\ \A i \in 1..Len(Front(q)) : Front(q)[i] \in 1..m
         /\ Last(q) \in 1..m
BY DEF Front, Last

(***************************************************************************)
(* Putting a record on a stack of a session that has it.                   *)
(***************************************************************************)
LEMMA AppendType ==
  ASSUME NEW q \in Seq(Nat), NEW m \in Nat, NEW r \in 1..m, NEW k \in Nat, m <= k,
         \A i \in 1..Len(q) : q[i] \in 1..m
  PROVE  /\ Append(q, r) \in Seq(Nat)
         /\ \A i \in 1..Len(Append(q, r)) : Append(q, r)[i] \in 1..k
         /\ \A i \in 1..Len(q) : q[i] \in 1..k
OBVIOUS

(***************************************************************************)
(* What undo and redo send out is an invocation of session.patch.          *)
(***************************************************************************)
LEMMA SessionPatchType ==
  ASSUME NEW p \in PatchOps PROVE SessionPatch(Wire(p)) \in Invocations
BY DEF SessionPatch, Wire, PatchOps, Invocations

(***************************************************************************)
(* Undo and redo keep the session good, whether they replay the record or  *)
(* only discard it.                                                        *)
(***************************************************************************)
LEMMA GoodUndo ==
  ASSUME NEW n \in Nat, NEW D, NEW t, Good(t, n, D), t.undo # <<>>
  PROVE  Good(ReplayOn(t, "undo", "redo", "undo"), n, D)
<1> DEFINE r == Last(t.undo)
           p == Invert(t.recs[r])
           U == Front(t.undo)
           m == Len(t.recs)
           popped == [t EXCEPT !.undo = U]
           c == SessionPatch(Wire(p))
           ran == Run(popped, c, "undo", r)
           R == Append(ran.redo, r)
<1>0. /\ t \in Sessions /\ t.undo \in Seq(Nat) /\ t.redo \in Seq(Nat)
      /\ t.recs \in Seq(PatchOps) /\ m \in Nat /\ Indexed(t)
  BY DEF Good, Grounded, Sessions
<1>1. U \in Seq(Nat) /\ (\A i \in 1..Len(U) : U[i] \in 1..m) /\ r \in 1..m
  BY <1>0, FrontType DEF Indexed
<1>2. p \in PatchOps BY <1>0, <1>1, InvertType
<1>3. \/ ReplayOn(t, "undo", "redo", "undo") = popped
      \/ ReplayOn(t, "undo", "redo", "undo") = [ran EXCEPT !.redo = R]
  BY DEF ReplayOn
<1> HIDE DEF U, r, p
<1>4. Good(popped, n, D)
  <2>1. popped = [t EXCEPT !.undo = U, !.redo = t.redo] BY <1>0 DEF Sessions
  <2>2. \A i \in 1..Len(t.redo) : t.redo[i] \in 1..m BY <1>0 DEF Indexed
  <2>3. Good([t EXCEPT !.undo = U, !.redo = t.redo], n, D)
    BY <1>0, <1>1, <2>2, SetHistory
  <2> QED BY <2>1, <2>3
<1>5. popped.undo = U /\ popped.redo = t.redo /\ popped.recs = t.recs
  BY <1>0 DEF Sessions
<1> HIDE DEF popped
<1>6. c \in Invocations BY <1>2, SessionPatchType
<1> HIDE DEF c
<1>7. /\ Good(ran, n, D) /\ ran.undo = U /\ ran.redo = t.redo /\ Len(ran.recs) = m + 1
  BY <1>1, <1>4, <1>5, <1>6, GoodRun DEF Origins
<1>8. /\ R \in Seq(Nat)
      /\ \A i \in 1..Len(R) : R[i] \in 1..(m + 1)
      /\ \A i \in 1..Len(U) : U[i] \in 1..(m + 1)
  <2>1. \A i \in 1..Len(t.redo) : t.redo[i] \in 1..m BY <1>0 DEF Indexed
  <2>2. m + 1 \in Nat /\ m <= m + 1 BY <1>0
  <2> HIDE DEF m
  <2>3. Append(t.redo, r) \in Seq(Nat)
        /\ \A i \in 1..Len(Append(t.redo, r)) : Append(t.redo, r)[i] \in 1..(m + 1)
    BY <1>0, <1>1, <2>1, <2>2, AppendType
  <2>4. \A i \in 1..Len(U) : U[i] \in 1..(m + 1)
    BY <1>0, <1>1, <2>2, AppendType
  <2> QED BY <1>7, <2>3, <2>4
<1>9. ran \in Sessions BY <1>7 DEF Good, Grounded
<1> HIDE DEF ran, R
<1>10. [ran EXCEPT !.redo = R] = [ran EXCEPT !.undo = U, !.redo = R]
  BY <1>7, <1>9 DEF Sessions
<1>11. Good([ran EXCEPT !.undo = U, !.redo = R], n, D)
  BY <1>1, <1>7, <1>8, SetHistory
<1> QED BY <1>3, <1>4, <1>10, <1>11 DEF popped

(***************************************************************************)
(* The mirror image for redo.                                              *)
(***************************************************************************)
LEMMA GoodRedo ==
  ASSUME NEW n \in Nat, NEW D, NEW t, Good(t, n, D), t.redo # <<>>
  PROVE  Good(ReplayOn(t, "redo", "undo", "redo"), n, D)
<1> DEFINE r == Last(t.redo)
           p == t.recs[r]
           R == Front(t.redo)
           m == Len(t.recs)
           popped == [t EXCEPT !.redo = R]
           c == SessionPatch(Wire(p))
           ran == Run(popped, c, "redo", r)
           U == Append(ran.undo, r)
<1>0. /\ t \in Sessions /\ t.undo \in Seq(Nat) /\ t.redo \in Seq(Nat)
      /\ t.recs \in Seq(PatchOps) /\ m \in Nat /\ Indexed(t)
  BY DEF Good, Grounded, Sessions
<1>1. R \in Seq(Nat) /\ (\A i \in 1..Len(R) : R[i] \in 1..m) /\ r \in 1..m
  BY <1>0, FrontType DEF Indexed
<1>2. p \in PatchOps BY <1>0, <1>1
<1>3. \/ ReplayOn(t, "redo", "undo", "redo") = popped
      \/ ReplayOn(t, "redo", "undo", "redo") = [ran EXCEPT !.undo = U]
  BY DEF ReplayOn
<1> HIDE DEF R, r, p
<1>4. Good(popped, n, D)
  <2>1. popped = [t EXCEPT !.undo = t.undo, !.redo = R] BY <1>0 DEF Sessions
  <2>2. \A i \in 1..Len(t.undo) : t.undo[i] \in 1..m BY <1>0 DEF Indexed
  <2>3. Good([t EXCEPT !.undo = t.undo, !.redo = R], n, D)
    BY <1>0, <1>1, <2>2, SetHistory
  <2> QED BY <2>1, <2>3
<1>5. popped.undo = t.undo /\ popped.redo = R /\ popped.recs = t.recs
  BY <1>0 DEF Sessions
<1> HIDE DEF popped
<1>6. c \in Invocations BY <1>2, SessionPatchType
<1> HIDE DEF c
<1>7. /\ Good(ran, n, D) /\ ran.undo = t.undo /\ ran.redo = R /\ Len(ran.recs) = m + 1
  BY <1>1, <1>4, <1>5, <1>6, GoodRun DEF Origins
<1>8. /\ U \in Seq(Nat)
      /\ \A i \in 1..Len(U) : U[i] \in 1..(m + 1)
      /\ \A i \in 1..Len(R) : R[i] \in 1..(m + 1)
  <2>1. \A i \in 1..Len(t.undo) : t.undo[i] \in 1..m BY <1>0 DEF Indexed
  <2>2. m + 1 \in Nat /\ m <= m + 1 BY <1>0
  <2> HIDE DEF m
  <2>3. Append(t.undo, r) \in Seq(Nat)
        /\ \A i \in 1..Len(Append(t.undo, r)) : Append(t.undo, r)[i] \in 1..(m + 1)
    BY <1>0, <1>1, <2>1, <2>2, AppendType
  <2>4. \A i \in 1..Len(R) : R[i] \in 1..(m + 1)
    BY <1>0, <1>1, <2>2, AppendType
  <2> QED BY <1>7, <2>3, <2>4
<1>9. ran \in Sessions BY <1>7 DEF Good, Grounded
<1> HIDE DEF ran, U
<1>10. [ran EXCEPT !.undo = U] = [ran EXCEPT !.undo = U, !.redo = R]
  BY <1>7, <1>9 DEF Sessions
<1>11. Good([ran EXCEPT !.undo = U, !.redo = R], n, D)
  BY <1>1, <1>7, <1>8, SetHistory
<1> QED BY <1>3, <1>4, <1>10, <1>11 DEF popped

(***************************************************************************)
(* Closing, and starting or settling a checkpoint publication.             *)
(***************************************************************************)
LEMMA GoodCloseOn ==
  ASSUME NEW n \in Nat, NEW D, NEW t, Good(t, n, D)
  PROVE  Good(CloseOn(t), n, D)
BY DEF CloseOn, Good, Grounded, Sessions, Indexed, Statuses

(***************************************************************************)
(* A publication captures the confirmed document, which is the server's at *)
(* that revision.                                                          *)
(***************************************************************************)
LEMMA GoodPublishOn ==
  ASSUME NEW n \in Nat, NEW D, NEW t, Good(t, n, D)
  PROVE  Good(PublishOn(t), n, D)
<1> DEFINE b == [pc |-> "put", rev |-> t.confirmedRevision, doc |-> t.confirmed]
           u == [t EXCEPT !.pub = b]
<1>0. t \in Sessions /\ t.confirmedRevision \in Nat /\ t.confirmed \in Docs
  BY DEF Good, Grounded, Sessions
<1>1. b \in Publications /\ b.rev = t.confirmedRevision /\ b.doc = t.confirmed
  BY <1>0 DEF Publications
<1> HIDE DEF b
<1>2. /\ u \in Sessions /\ SameReplica(u, t) /\ Indexed(u) = Indexed(t) /\ u.pub = b
      /\ u.pump = t.pump /\ u.sync = t.sync /\ u.syncTarget = t.syncTarget
  BY <1>0, <1>1 DEF Sessions, SameReplica, Indexed
<1> HIDE DEF u
<1>3. Good(u, n, D) BY <1>1, <1>2 DEF Good, Grounded, SameReplica
<1> QED BY <1>3 DEF PublishOn, u, b

(***************************************************************************)
(* A settled publication leaves the session good, whether the pump waited  *)
(* for it or not.                                                          *)
(***************************************************************************)
LEMMA GoodPublishedOn ==
  ASSUME NEW n \in Nat, NEW D, D[0] = InitialDoc, NEW t, Good(t, n, D), NEW ok \in BOOLEAN
  PROVE  Good(PublishedOn(t, ok), n, D)
<1> DEFINE p == IF t.pump.pc # "publish" THEN t.pump ELSE PumpAt(IF ok THEN "ready" ELSE "delay")
           b == NoPublication
           u == [t EXCEPT !.pub = b]
<1>0. t \in Sessions BY DEF Good, Grounded
<1>1. b \in Publications /\ b.rev = 0 /\ b.doc = InitialDoc
  BY SessionAssumption DEF NoPublication, Publications, SessionAssumption
<1> HIDE DEF b
<1>2. /\ u \in Sessions /\ SameReplica(u, t) /\ Indexed(u) = Indexed(t) /\ u.pub = b
      /\ u.pump = t.pump /\ u.sync = t.sync /\ u.syncTarget = t.syncTarget
  BY <1>0, <1>1 DEF Sessions, SameReplica, Indexed
<1>3. PublishedOn(t, ok) = [u EXCEPT !.pump = p] BY <1>0 DEF PublishedOn, Sessions, b
<1> HIDE DEF u
<1>4. Good(u, n, D) BY <1>1, <1>2 DEF Good, Grounded, SameReplica
<1>5. /\ p \in Pumps /\ p.reply.rev <= n
      /\ p.reply.kind = "accepted" => p.reply.rev >= 1
  <2>1. CASE t.pump.pc # "publish" BY <1>0, <2>1 DEF Good, Grounded, Sessions
  <2>2. CASE t.pump.pc = "publish"
    <3>1. p = PumpAt("ready") \/ p = PumpAt("delay") BY <2>2
    <3> HIDE DEF p
    <3> QED BY <3>1, PumpAtType
  <2> QED BY <2>1, <2>2
<1> HIDE DEF p
<1> QED BY <1>3, <1>4, <1>5, SetPump

-----------------------------------------------------------------------------
(***************************************************************************)
(* Events and answers.                                                     *)
(***************************************************************************)

(***************************************************************************)
(* What a good session knows stays right as the server's log grows.        *)
(***************************************************************************)
LEMMA GoodExtends ==
  ASSUME NEW n \in Nat, NEW m \in Nat, n <= m, NEW D, NEW E,
         \A r \in 0..n : E[r] = D[r], NEW t, Good(t, n, D)
  PROVE  Good(t, m, E)
<1>1. /\ t \in Sessions /\ t.confirmedRevision \in 0..n /\ t.pub.rev \in 0..n
      /\ t.syncTarget \in Nat /\ t.pump.reply.rev \in Nat /\ t.sync.reply.rev \in 0..n
  <2>1. t \in Sessions BY DEF Good, Grounded
  <2>2. t.sync.reply.rev \in Nat BY <2>1 DEF Sessions, Syncs, SyncReplies, NoReply
  <2>3. t.pub.rev \in Nat BY <2>1 DEF Sessions, Publications
  <2>4. t.pump.reply.rev \in Nat BY <2>1 DEF Sessions, Pumps, PostReplies, NoReply
  <2>5. t.confirmedRevision \in Nat /\ t.syncTarget \in Nat BY <2>1 DEF Sessions
  <2> QED BY <2>1, <2>2, <2>3, <2>4, <2>5 DEF Good, Grounded
<1> QED BY <1>1 DEF Good, Grounded

(***************************************************************************)
(* An answer that lands in the pump or in the sync loop.                   *)
(***************************************************************************)
LEMMA SetPumpReply ==
  ASSUME NEW n \in Nat, NEW D, NEW t, Good(t, n, D), NEW x \in PostReplies, x.rev <= n,
         x.kind = "accepted" => x.rev >= 1
  PROVE  Good([t EXCEPT !.pump.reply = x], n, D)
<1> DEFINE p == [t.pump EXCEPT !.reply = x]
<1>1. t.pump \in Pumps BY DEF Good, Grounded, Sessions
<1>2. p \in Pumps /\ p.reply = x BY <1>1 DEF Pumps
<1>3. [t EXCEPT !.pump.reply = x] = [t EXCEPT !.pump = p] OBVIOUS
<1> HIDE DEF p
<1> QED BY <1>2, <1>3, SetPump

(***************************************************************************)
(* The same for the sync loop; a checkpoint must be the server's document. *)
(***************************************************************************)
LEMMA SetSyncReply ==
  ASSUME NEW n \in Nat, NEW D, NEW t, Good(t, n, D), NEW x \in SyncReplies, x.rev <= n,
         x.kind = "snapshot" => x.doc = D[x.rev]
  PROVE  Good([t EXCEPT !.sync.reply = x], n, D)
<1> DEFINE y == [t.sync EXCEPT !.reply = x]
           u == [t EXCEPT !.sync = y]
<1>1. t \in Sessions /\ t.sync \in Syncs BY DEF Good, Grounded, Sessions
<1>2. y \in Syncs /\ y.reply = x BY <1>1 DEF Syncs
<1>3. [t EXCEPT !.sync.reply = x] = u OBVIOUS
<1> HIDE DEF y
<1>4. /\ u \in Sessions /\ SameReplica(u, t) /\ SameRest(u, t) /\ u.sync = y
      /\ u.pump = t.pump /\ u.syncTarget = t.syncTarget
  BY <1>1, <1>2 DEF Sessions, SameReplica, SameRest
<1> HIDE DEF u
<1>5. Good(u, n, D)
  BY <1>2, <1>4 DEF Good, Grounded, Indexed, SameReplica, SameRest
<1> QED BY <1>3, <1>5

(***************************************************************************)
(* Connection state.                                                       *)
(***************************************************************************)
LEMMA SetConnected ==
  ASSUME NEW n \in Nat, NEW D, NEW t, Good(t, n, D), NEW b \in BOOLEAN
  PROVE  Good([t EXCEPT !.connected = b], n, D)
BY DEF Good, Grounded, Sessions, Indexed

(***************************************************************************)
(* The descriptor that opens a stream keeps the session good.              *)
(***************************************************************************)
LEMMA GoodOnConnected ==
  ASSUME NEW n \in Nat, NEW D, NEW t, Good(t, n, D), NEW rev \in Nat, rev <= n
  PROVE  Good(OnConnected(t, rev), n, D)
<1> DEFINE up == [t EXCEPT !.connected = TRUE]
<1>1. Good(up, n, D) BY SetConnected
<1>2. OnConnected(t, rev) \in {up, RequestCatchUp(up, rev)} BY DEF OnConnected
<1> HIDE DEF up
<1>3. Good(RequestCatchUp(up, rev), n, D) BY <1>1, GoodRequestCatchUp
<1> QED BY <1>1, <1>2, <1>3

(***************************************************************************)
(* Every frame the stream can carry keeps the session good.                *)
(***************************************************************************)
LEMMA GoodHandleEvent ==
  ASSUME ServerOK(log, docs), NEW t, Good(t, Tip, docs), NEW f \in Frames, f.rev <= Tip,
         f.kind = "op" => f.rev >= 1
  PROVE  Good(HandleEvent(t, f), Tip, docs)
<1>0. Tip \in Nat /\ f.rev \in Nat BY DEF ServerOK, Tip, Frames
<1>1. f.kind = "op" => Good(HandleServerOp(t, f.rev, log[f.rev]), Tip, docs)
  <2> SUFFICES ASSUME f.kind = "op"
               PROVE  Good(HandleServerOp(t, f.rev, log[f.rev]), Tip, docs)
    OBVIOUS
  <2>1. f.rev \in 1..Len(log) BY <1>0 DEF Tip
  <2> QED BY <2>1, GoodHandleServerOp DEF Tip
<1>2. Good(RequestResync(t), Tip, docs) BY <1>0, GoodRequestResync
<1>3. Good(OnConnected(t, f.rev), Tip, docs) BY <1>0, GoodOnConnected
<1>4. Good([t EXCEPT !.connected = FALSE], Tip, docs) BY <1>0, SetConnected
<1>5. Good(CloseOn(t), Tip, docs) BY <1>0, GoodCloseOn
<1>7. Good(Fail(t), Tip, docs) BY <1>0, GoodFail
<1>6. \/ HandleEvent(t, f) = t
      \/ HandleEvent(t, f) = Fail(t)
      \/ f.kind = "op" /\ HandleEvent(t, f) = HandleServerOp(t, f.rev, log[f.rev])
      \/ HandleEvent(t, f) = RequestResync(t)
      \/ HandleEvent(t, f) = OnConnected(t, f.rev)
      \/ HandleEvent(t, f) = [t EXCEPT !.connected = FALSE]
      \/ HandleEvent(t, f) = CloseOn(t)
  BY DEF HandleEvent, Frames
<1> QED BY <1>1, <1>2, <1>3, <1>4, <1>5, <1>6, <1>7

(***************************************************************************)
(* Every answer to a submission keeps the session good.                    *)
(***************************************************************************)
LEMMA GoodGiveUp ==
  ASSUME NEW n \in Nat, NEW D, NEW t, Good(t, n, D), NEW rev \in Nat, rev <= n
  PROVE  /\ Good([RequestResync(RaiseTarget(t, rev)) EXCEPT !.pump = PumpAt("exit")], n, D)
         /\ Good([RequestCatchUp(t, rev) EXCEPT !.pump = PumpAt("exit")], n, D)
<1> DEFINE u == RaiseTarget(t, rev)
           v == RequestResync(u)
           w == RequestCatchUp(t, rev)
<1>1. Good(u, n, D) BY GoodRaiseTarget
<1> HIDE DEF u
<1>2. Good(v, n, D) BY <1>1, GoodRequestResync
<1>3. Good(w, n, D) BY GoodRequestCatchUp
<1> HIDE DEF v, w
<1>4. Good([v EXCEPT !.pump = PumpAt("exit")], n, D) BY <1>2, GoodPumpExit
<1>5. Good([w EXCEPT !.pump = PumpAt("exit")], n, D) BY <1>3, GoodPumpExit
<1> QED BY <1>4, <1>5 DEF u, v, w

(***************************************************************************)
(* An accepted submission keeps the session good, although the server may  *)
(* answer with the revision of an earlier attempt.                         *)
(***************************************************************************)
LEMMA GoodOnAccepted ==
  ASSUME ServerOK(log, docs), NEW t, Good(t, Tip, docs), NEW req, NEW rev \in 1..Tip
  PROVE  Good(OnAccepted(t, req, rev), Tip, docs)
<1> DEFINE h == HandleServerOp(t, rev, log[rev])
<1>0. Tip \in Nat /\ rev \in Nat /\ rev <= Tip BY DEF ServerOK, Tip
<1>1. Good(PumpTop(t), Tip, docs) BY <1>0, GoodPumpTop
<1>2. Good([RequestResync(RaiseTarget(t, rev)) EXCEPT !.pump = PumpAt("exit")], Tip, docs)
  BY <1>0, GoodGiveUp
<1>3. Good(h, Tip, docs) BY GoodHandleServerOp DEF Tip
<1>4. OnAccepted(t, req, rev) \in
        {PumpTop(t), [RequestResync(RaiseTarget(t, rev)) EXCEPT !.pump = PumpAt("exit")],
         [h EXCEPT !.pump = PumpAt("exit")], PumpTop(h)}
  BY DEF OnAccepted
<1> HIDE DEF h
<1>5. Good([h EXCEPT !.pump = PumpAt("exit")], Tip, docs) BY <1>0, <1>3, GoodPumpExit
<1>6. Good(PumpTop(h), Tip, docs) BY <1>0, <1>3, GoodPumpTop
<1> QED BY <1>1, <1>2, <1>4, <1>5, <1>6

(***************************************************************************)
(* A mangled acceptance keeps the session good.                            *)
(***************************************************************************)
LEMMA GoodOnMangled ==
  ASSUME NEW n \in Nat, NEW D, NEW t, Good(t, n, D), NEW rev \in Nat, rev <= n
  PROVE  Good(OnMangled(t, rev), n, D)
BY GoodPumpTop, GoodGiveUp DEF OnMangled

(***************************************************************************)
(* A refusal for a stale base keeps the session good.                      *)
(***************************************************************************)
LEMMA GoodOnStaleBase ==
  ASSUME NEW n \in Nat, NEW D, NEW t, Good(t, n, D), NEW rev \in Nat, rev <= n, NEW req
  PROVE  Good(OnStaleBase(t, req, rev), n, D)
BY GoodPumpTop, GoodGiveUp DEF OnStaleBase

-----------------------------------------------------------------------------
(***************************************************************************)
(* The steps.                                                              *)
(***************************************************************************)

(***************************************************************************)
(* A turn of the session that leaves server and network alone preserves    *)
(* the invariant when it leaves a good session.                            *)
(***************************************************************************)
LEMMA SessionTurn ==
  ASSUME IInv, UNCHANGED <<serverVars, netVars>>, Good(s', Tip, docs)
  PROVE  IInv'
BY DEF IInv, serverVars, netVars, Tip

(***************************************************************************)
(* The facts about the current state that every step starts from.          *)
(***************************************************************************)
LEMMA Here ==
  ASSUME IInv
  PROVE  /\ Tip \in Nat /\ ServerOK(log, docs) /\ Good(s, Tip, docs) /\ s \in Sessions
         /\ docs[0] = InitialDoc
         /\ s.pump \in Pumps /\ s.pump.reply \in PostReplies /\ s.pump.reply.rev <= Tip
         /\ s.pump.reply.kind = "accepted" => s.pump.reply.rev >= 1
         /\ s.sync \in Syncs /\ s.sync.reply \in SyncReplies /\ s.sync.reply.rev <= Tip
         /\ s.sync.reply.kind = "snapshot" => s.sync.reply.doc = docs[s.sync.reply.rev]
         /\ s.pub \in Publications /\ s.pub.rev <= Tip /\ s.pub.doc = docs[s.pub.rev]
<1>1. ServerOK(log, docs) /\ Good(s, Tip, docs) BY DEF IInv
<1>2. Tip \in Nat /\ docs[0] = InitialDoc BY <1>1 DEF ServerOK, Tip
<1>3. s \in Sessions /\ s.pump \in Pumps /\ s.sync \in Syncs /\ s.pub \in Publications
  BY <1>1 DEF Good, Grounded, Sessions
<1>4. s.pump.reply \in PostReplies /\ s.sync.reply \in SyncReplies
  BY <1>3 DEF Pumps, Syncs
<1> QED BY <1>1, <1>2, <1>3, <1>4 DEF Good, Grounded

(***************************************************************************)
(* Appending an operation to the log keeps the server's documents in step  *)
(* with it.                                                                *)
(***************************************************************************)
LEMMA CommitKeeps ==
  ASSUME IInv, NEW actor \in {Me, Peer}, NEW opId \in Nat, NEW patch \in WirePatches,
         NEW intent \in Nat, NEW origin \in Origins \cup {"remote"},
         Commit(actor, opId, patch, intent, origin), zombies' \subseteq Requests
  PROVE  /\ Tip' = Tip + 1
         /\ Good(s, Tip + 1, docs')
         /\ Good(s', Tip + 1, docs') => IInv'
<1> DEFINE op == [actor |-> actor, opId |-> opId, base |-> Tip, patch |-> patch,
                  intent |-> intent, origin |-> origin]
           d == Apply(docs[Tip], patch)
<1>0. Tip \in Nat /\ ServerOK(log, docs) /\ Good(s, Tip, docs) BY Here
<1>1. op \in ServerOps BY <1>0 DEF ServerOps
<1>2. docs \in [0..Tip -> Docs] /\ log \in Seq(ServerOps) /\ Len(log) = Tip
  BY <1>0 DEF ServerOK, Tip
<1>3. d \in Docs
  <2>1. docs[Tip] \in Docs BY <1>0, <1>2
  <2> QED BY <2>1, ApplyType
<1>4. log' = Append(log, op) /\ docs' = [r \in 0..(Tip + 1) |-> IF r <= Tip THEN docs[r] ELSE d]
  BY DEF Commit
<1> HIDE DEF op
<1>5. /\ log' \in Seq(ServerOps) /\ Len(log') = Tip + 1 /\ log'[Tip + 1] = op
      /\ \A r \in 1..Tip : log'[r] = log[r]
  BY <1>0, <1>1, <1>2, <1>4
<1>6. /\ docs' \in [0..(Tip + 1) -> Docs] /\ docs'[Tip + 1] = d
      /\ \A r \in 0..Tip : docs'[r] = docs[r]
  <2> HIDE DEF d
  <2> QED BY <1>0, <1>2, <1>3, <1>4
<1>7. ServerOK(log', docs')
  <2>1. docs'[0] = InitialDoc
    <3>1. 0 \in 0..Tip BY <1>0
    <3> QED BY <3>1, <1>0, <1>6 DEF ServerOK
  <2>2. ASSUME NEW r \in 1..(Tip + 1)
        PROVE  docs'[r] = Apply(docs'[r - 1], log'[r].patch)
    <3>1. CASE r <= Tip
      <4>1. r \in 1..Tip /\ r \in 0..Tip /\ r - 1 \in 0..Tip BY <3>1, <1>0
      <4>2. docs[r] = Apply(docs[r - 1], log[r].patch) BY <4>1, <1>0, <1>2 DEF ServerOK
      <4> QED BY <4>1, <4>2, <1>5, <1>6
    <3>2. CASE r = Tip + 1
      <4>1. r - 1 = Tip /\ Tip \in 0..Tip BY <3>2, <1>0
      <4>2. docs'[r - 1] = docs[Tip] BY <4>1, <1>6
      <4>3. log'[r].patch = patch BY <3>2, <1>5 DEF op
      <4>4. docs'[r] = d BY <3>2, <1>6
      <4> QED BY <4>2, <4>3, <4>4
    <3> QED BY <3>1, <3>2, <1>0
  <2> HIDE DEF d
  <2> QED BY <1>5, <1>6, <2>1, <2>2 DEF ServerOK
<1>8. Good(s, Tip + 1, docs')
  <2>1. Tip + 1 \in Nat /\ Tip <= Tip + 1 BY <1>0
  <2> QED BY <1>0, <1>6, <2>1, GoodExtends
<1>9. Tip' = Tip + 1 BY <1>5 DEF Tip
<1>10. /\ ckpt' \in [rev : 0..(Tip + 1), doc : Docs] /\ ckpt'.doc = docs'[ckpt'.rev]
       /\ floor' \in 0..(Tip + 1) /\ alive' \in BOOLEAN /\ wsUp' \in BOOLEAN
  <2>1. /\ ckpt \in [rev : 0..Tip, doc : Docs] /\ ckpt.doc = docs[ckpt.rev]
        /\ floor \in 0..Tip /\ alive \in BOOLEAN /\ wsUp \in BOOLEAN
    BY DEF IInv
  <2>2. ckpt' = ckpt /\ floor' = floor /\ alive' = alive /\ wsUp' = wsUp BY DEF Commit
  <2> HIDE DEF d
  <2> QED BY <1>0, <1>6, <2>1, <2>2
<1>11. /\ ws' \in Seq(Frames)
       /\ \A i \in 1..Len(ws') : ws'[i].rev <= Tip + 1 /\ (ws'[i].kind = "op" => ws'[i].rev >= 1)
  <2> DEFINE x == [kind |-> "op", rev |-> Tip + 1]
  <2>1. x \in Frames /\ x.rev = Tip + 1 /\ x.rev >= 1 BY <1>0 DEF Frames
  <2>2. /\ ws \in Seq(Frames)
        /\ \A i \in 1..Len(ws) : ws[i].rev <= Tip /\ (ws[i].kind = "op" => ws[i].rev >= 1)
    BY DEF IInv
  <2>3. ws' = ws \/ ws' = Append(ws, x) BY DEF Commit
  <2>4. \A i \in 1..Len(ws) : ws[i].rev \in Nat
    <3>1. \A i \in 1..Len(ws) : ws[i] \in Frames BY <2>2
    <3> QED BY <3>1 DEF Frames
  <2> HIDE DEF x, d
  <2>5. CASE ws' = ws BY <1>0, <2>2, <2>4, <2>5
  <2>6. CASE ws' = Append(ws, x)
    <3>1. ws' \in Seq(Frames) /\ Len(ws') = Len(ws) + 1 BY <2>1, <2>2, <2>6
    <3>2. ASSUME NEW i \in 1..Len(ws')
          PROVE  ws'[i].rev <= Tip + 1 /\ (ws'[i].kind = "op" => ws'[i].rev >= 1)
      <4>1. CASE i \in 1..Len(ws)
        <5>1. ws'[i] = ws[i] BY <2>2, <2>6, <4>1
        <5>2. ws[i].rev <= Tip /\ ws[i].rev \in Nat /\ (ws[i].kind = "op" => ws[i].rev >= 1)
          BY <2>2, <2>4, <4>1
        <5>3. ws[i].rev <= Tip + 1 BY <5>2, <1>0
        <5> QED BY <5>1, <5>2, <5>3
      <4>2. CASE i = Len(ws) + 1
        <5>1. ws'[i] = x BY <2>2, <2>6, <4>2
        <5> QED BY <5>1, <2>1, <1>0
      <4> QED BY <3>1, <4>1, <4>2, <2>2
    <3> QED BY <3>1, <3>2
  <2> QED BY <2>3, <2>5, <2>6
<1>12. Good(s', Tip + 1, docs') => IInv'
  <2> HIDE DEF d
  <2> QED BY <1>7, <1>9, <1>10, <1>11 DEF IInv
<1> QED BY <1>8, <1>9, <1>12

(***************************************************************************)
(* The server commits only well-formed patches of well-formed commands.    *)
(***************************************************************************)
LEMMA CommandsAreInvocations == Commands \subseteq Invocations
BY DEF Commands, Invocations, Slots

(***************************************************************************)
(* A frame joins the end of the stream.                                    *)
(***************************************************************************)
Announced(q, n) ==
  /\ q \in Seq(Frames)
  /\ \A i \in 1..Len(q) : q[i].rev <= n /\ (q[i].kind = "op" => q[i].rev >= 1)

(***************************************************************************)
(* A frame that speaks of revisions the server has can join the stream.    *)
(***************************************************************************)
LEMMA FrameAppended ==
  ASSUME NEW n \in Nat, NEW q, Announced(q, n), NEW x \in Frames, x.rev <= n,
         x.kind = "op" => x.rev >= 1
  PROVE  Announced(Append(q, x), n)
<1> DEFINE p == Append(q, x)
<1>0. q \in Seq(Frames) /\ Len(q) \in Nat BY DEF Announced
<1>1. p \in Seq(Frames) /\ Len(p) = Len(q) + 1 BY <1>0
<1>2. ASSUME NEW i \in 1..Len(p)
      PROVE  p[i].rev <= n /\ (p[i].kind = "op" => p[i].rev >= 1)
  <2>1. CASE i \in 1..Len(q)
    <3>1. p[i] = q[i] BY <1>0, <2>1
    <3> QED BY <3>1, <2>1 DEF Announced
  <2>2. CASE i = Len(q) + 1
    <3>1. p[i] = x BY <1>0, <2>2
    <3> QED BY <3>1
  <2> QED BY <1>0, <1>1, <2>1, <2>2
<1> QED BY <1>1, <1>2 DEF Announced

(***************************************************************************)
(* The server's steps.                                                     *)
(***************************************************************************)
LEMMA ServerKeeps == ASSUME IInv, ServerStep PROVE IInv'
<1> USE Here
<1>1. CASE ServePost
  <2> DEFINE req == s.pump.req
             yes == [kind |-> "accepted", rev |-> Tip + 1]
  <2>1. req \in Requests
    <3>1. s.pump.pc = "post" BY <1>1 DEF ServePost, AwaitingPost
    <3> QED BY <3>1, Here DEF Pumps
  <2>2. CASE /\ Acceptable(req)
             /\ Commit(Me, req.opId, req.patch, req.intent, req.origin)
             /\ s' = [s EXCEPT !.pump.reply = yes]
    <3>1. zombies' \subseteq Requests BY <1>1 DEF ServePost, IInv
    <3>2. /\ req.opId \in Nat /\ req.patch \in WirePatches /\ req.intent \in Nat
          /\ req.origin \in Origins \cup {"remote"}
      BY <2>1 DEF Requests
    <3> HIDE DEF req
    <3>3. Good(s, Tip + 1, docs') /\ (Good(s', Tip + 1, docs') => IInv')
      BY <2>2, <3>1, <3>2, CommitKeeps
    <3>4. yes \in PostReplies /\ yes.rev = Tip + 1 /\ yes.rev >= 1 BY DEF PostReplies
    <3> HIDE DEF yes
    <3>5. Tip + 1 \in Nat BY Here
    <3>6. Good([s EXCEPT !.pump.reply = yes], Tip + 1, docs') BY <3>3, <3>4, <3>5, SetPumpReply
    <3> QED BY <2>2, <3>3, <3>6
  <2>3. CASE /\ s' = [s EXCEPT !.pump.reply = Refusal(req)]
             /\ UNCHANGED <<serverVars, ws, wsUp>>
    <3>1. /\ Refusal(req) \in PostReplies /\ Refusal(req).rev <= Tip
          /\ Refusal(req).kind = "accepted" => Refusal(req).rev >= 1
      <4>0. floor \in 0..Tip BY DEF IInv
      <4>1. Duplicates(req) \subseteq 1..Tip BY <4>0, Here DEF Duplicates
      <4>2. Duplicates(req) # {} =>
              (CHOOSE r \in Duplicates(req) : TRUE) \in Duplicates(req)
        OBVIOUS
      <4> QED BY <4>1, <4>2, Here DEF Refusal, PostReplies
    <3> HIDE DEF req
    <3>2. Good(s', Tip, docs) BY <2>3, <3>1, SetPumpReply
    <3>3. UNCHANGED <<serverVars, netVars>> BY <1>1, <2>3 DEF ServePost, netVars
    <3> QED BY <3>2, <3>3, SessionTurn
  <2> QED BY <1>1, <2>2, <2>3 DEF ServePost
<1>2. CASE ServeSync
  <2>1. UNCHANGED <<serverVars, netVars>> BY <1>2 DEF ServeSync
  <2> DEFINE x == [kind |-> "snapshot", rev |-> ckpt.rev, doc |-> ckpt.doc]
             y == [kind |-> IF s.sync.after < floor THEN "gone" ELSE "ops", rev |-> Tip]
  <2>2. x \in SyncReplies /\ x.rev <= Tip /\ (x.kind = "snapshot" => x.doc = docs[x.rev])
    BY DEF IInv, SyncReplies
  <2>3. y \in SyncReplies /\ y.rev <= Tip /\ (y.kind = "snapshot" => y.doc = docs[y.rev])
    BY Here DEF SyncReplies
  <2>4. s' = [s EXCEPT !.sync.reply = x] \/ s' = [s EXCEPT !.sync.reply = y]
    BY <1>2 DEF ServeSync
  <2> HIDE DEF x, y
  <2>5. Good(s', Tip, docs) BY <2>2, <2>3, <2>4, SetSyncReply
  <2> QED BY <2>1, <2>5, SessionTurn
<1>3. CASE ServePut
  <2>1. Good([s EXCEPT !.pub.pc = "put-ok"], Tip, docs)
        /\ Good([s EXCEPT !.pub.pc = "put-conflict"], Tip, docs)
    BY Here DEF Good, Grounded, Sessions, Indexed, Publications
  <2>2. Good(s', Tip, docs) BY <1>3, <2>1 DEF ServePut
  <2>3. log' = log /\ docs' = docs /\ floor' = floor /\ alive' = alive
        /\ zombies' = zombies /\ ws' = ws /\ wsUp' = wsUp
    BY <1>3 DEF ServePut, netVars
  <2>4. ckpt' \in [rev : 0..Tip, doc : Docs] /\ ckpt'.doc = docs[ckpt'.rev]
    <3>1. ckpt' = ckpt \/ ckpt' = [rev |-> s.pub.rev, doc |-> s.pub.doc]
      BY <1>3 DEF ServePut
    <3>2. s.pub.rev \in Nat /\ s.pub.doc \in Docs BY Here DEF Publications
    <3> QED BY <3>1, <3>2, Here DEF IInv
  <2> QED BY <2>2, <2>3, <2>4 DEF IInv, Tip
<1> QED BY <1>1, <1>2, <1>3 DEF ServerStep

(***************************************************************************)
(* The other participants' steps.                                          *)
(***************************************************************************)
LEMMA PeerKeeps == ASSUME IInv, PeerStep PROVE IInv'
<1>1. CASE ForeignOp
  <2>1. PICK c \in Commands : Commit(Peer, 0, Wire(Forward(docs[Tip], c)), 0, "remote")
    BY <1>1 DEF ForeignOp
  <2> DEFINE w == Wire(Forward(docs[Tip], c))
  <2>2. w \in WirePatches
    <3>1. docs[Tip] \in Docs BY Here DEF ServerOK, Tip
    <3>2. c \in Invocations BY CommandsAreInvocations
    <3> QED BY <3>1, <3>2, ForwardFits
  <2> HIDE DEF w
  <2>3. zombies' \subseteq Requests /\ s' = s BY <1>1 DEF ForeignOp, IInv
  <2>4. Commit(Peer, 0, w, 0, "remote") BY <2>1 DEF w
  <2>5. Good(s, Tip + 1, docs') /\ (Good(s', Tip + 1, docs') => IInv')
    BY <2>2, <2>3, <2>4, CommitKeeps
  <2> QED BY <2>3, <2>5
<1>2. CASE ForeignCheckpoint
  <2>1. PICK r \in (ckpt.rev + 1)..Tip : ckpt' = [rev |-> r, doc |-> docs[r]]
    BY <1>2 DEF ForeignCheckpoint
  <2>2. r \in 0..Tip BY Here DEF IInv
  <2>3. docs[r] \in Docs BY <2>2, Here DEF ServerOK, Tip
  <2>4. /\ log' = log /\ docs' = docs /\ floor' = floor /\ alive' = alive
        /\ zombies' = zombies /\ ws' = ws /\ wsUp' = wsUp /\ s' = s
    BY <1>2 DEF ForeignCheckpoint, netVars
  <2>5. ckpt' \in [rev : 0..Tip, doc : Docs] /\ ckpt'.doc = docs[ckpt'.rev]
    BY <2>1, <2>2, <2>3
  <2> QED BY <2>4, <2>5 DEF IInv, Tip
<1>3. CASE Compact
  <2>1. floor' \in 0..Tip BY <1>3 DEF Compact, IInv
  <2>2. /\ log' = log /\ docs' = docs /\ ckpt' = ckpt /\ alive' = alive
        /\ zombies' = zombies /\ ws' = ws /\ wsUp' = wsUp /\ s' = s
    BY <1>3 DEF Compact, netVars
  <2> QED BY <2>1, <2>2 DEF IInv, Tip
<1>4. CASE DeleteSession
  <2> DEFINE x == [kind |-> "session-closed", rev |-> 0]
  <2>1. /\ log' = log /\ docs' = docs /\ ckpt' = ckpt /\ floor' = floor
        /\ zombies' = zombies /\ wsUp' = wsUp /\ s' = s /\ alive' = FALSE
        /\ (ws' = ws \/ ws' = Append(ws, x))
    BY <1>4 DEF DeleteSession
  <2>2. x \in Frames /\ x.rev <= Tip /\ x.kind # "op" BY Here DEF Frames
  <2> HIDE DEF x
  <2>3. /\ ws' \in Seq(Frames)
        /\ \A i \in 1..Len(ws') : ws'[i].rev <= Tip /\ (ws'[i].kind = "op" => ws'[i].rev >= 1)
    <3>1. Announced(ws, Tip) BY DEF IInv, Announced
    <3>2. Announced(ws', Tip) BY <2>1, <2>2, <3>1, Here, FrameAppended
    <3> QED BY <3>2 DEF Announced
  <2> QED BY <2>1, <2>3 DEF IInv, Tip
<1> QED BY <1>1, <1>2, <1>3, <1>4 DEF PeerStep

(***************************************************************************)
(* Faults.                                                                 *)
(***************************************************************************)
LEMMA FaultKeeps == ASSUME IInv, FaultStep PROVE IInv'
<1>1. CASE RefusePost
  <2>1. PICK kind \in {"forbidden", "protocol-unsupported"} :
          s' = [s EXCEPT !.pump.reply = [kind |-> kind, rev |-> 0]]
    BY <1>1 DEF RefusePost
  <2> DEFINE x == [kind |-> kind, rev |-> 0]
  <2>2. x \in PostReplies /\ x.rev <= Tip /\ (x.kind = "accepted" => x.rev >= 1)
    BY Here DEF PostReplies
  <2> HIDE DEF x
  <2>3. s' = [s EXCEPT !.pump.reply = x] BY <2>1 DEF x
  <2>4. Good(s', Tip, docs) BY <2>2, <2>3, Here, SetPumpReply
  <2>5. UNCHANGED <<serverVars, netVars>> BY <1>1 DEF RefusePost
  <2> QED BY <2>4, <2>5, SessionTurn
<1>2. CASE MangleReply
  <2>0. PICK kind \in {"invalid", "mangled"} : s' = [s EXCEPT !.pump.reply.kind = kind]
    BY <1>2 DEF MangleReply
  <2> DEFINE x == [s.pump.reply EXCEPT !.kind = kind]
  <2>1. x \in PostReplies /\ x.rev <= Tip /\ (x.kind = "accepted" => x.rev >= 1)
    <3>1. s.pump.reply.kind = "accepted" BY <1>2 DEF MangleReply
    <3> QED BY <3>1, Here DEF PostReplies, NoReply
  <2>2. s' = [s EXCEPT !.pump.reply = x] BY <2>0
  <2> HIDE DEF x
  <2>3. Good(s', Tip, docs) BY <2>1, <2>2, Here, SetPumpReply
  <2>4. UNCHANGED <<serverVars, netVars>> BY <1>2 DEF MangleReply
  <2> QED BY <2>3, <2>4, SessionTurn
<1>3. CASE ServeZombie
  <2>1. PICK z \in zombies :
          /\ zombies' = zombies \ {z}
          /\ \/ Commit(Me, z.opId, z.patch, z.intent, z.origin)
             \/ UNCHANGED <<serverVars, ws, wsUp>>
    BY <1>3 DEF ServeZombie
  <2>2. zombies' \subseteq Requests /\ z \in Requests /\ s' = s
    BY <1>3, <2>1 DEF ServeZombie, IInv
  <2>3. /\ z.opId \in Nat /\ z.patch \in WirePatches /\ z.intent \in Nat
        /\ z.origin \in Origins \cup {"remote"}
    BY <2>2 DEF Requests
  <2>4. CASE Commit(Me, z.opId, z.patch, z.intent, z.origin)
    <3>1. Good(s, Tip + 1, docs') /\ (Good(s', Tip + 1, docs') => IInv')
      BY <2>2, <2>3, <2>4, CommitKeeps
    <3> QED BY <2>2, <3>1
  <2>5. CASE UNCHANGED <<serverVars, ws, wsUp>>
    BY <2>2, <2>5 DEF IInv, serverVars, Tip
  <2> QED BY <2>1, <2>4, <2>5
<1>4. CASE StreamDrop
  <2> DEFINE x == [kind |-> "disconnected", rev |-> 0]
  <2>1. ws' = <<x>> /\ wsUp' = FALSE /\ UNCHANGED <<serverVars, zombies, s>>
    BY <1>4 DEF StreamDrop
  <2>2. x \in Frames /\ x.rev <= Tip /\ x.kind # "op" BY Here DEF Frames
  <2> HIDE DEF x
  <2>3. /\ ws' \in Seq(Frames)
        /\ \A i \in 1..Len(ws') : ws'[i].rev <= Tip /\ (ws'[i].kind = "op" => ws'[i].rev >= 1)
    BY <2>1, <2>2
  <2> QED BY <2>1, <2>3 DEF IInv, serverVars, Tip
<1>5. CASE GarbageFrame
  <2> DEFINE x == [kind |-> "garbage", rev |-> 0]
  <2>1. ws' = Append(ws, x) /\ UNCHANGED <<serverVars, zombies, wsUp, s>>
    BY <1>5 DEF GarbageFrame
  <2>2. x \in Frames /\ x.rev <= Tip /\ x.kind # "op" BY Here DEF Frames
  <2> HIDE DEF x
  <2>3. Announced(ws', Tip)
    <3>1. Announced(ws, Tip) BY DEF IInv, Announced
    <3> QED BY <2>1, <2>2, <3>1, Here, FrameAppended
  <2> QED BY <2>1, <2>3 DEF IInv, serverVars, Tip, Announced
<1>6. CASE PumpError
  <2>1. Good(s', Tip, docs)
    <3>1. \/ s' = [s EXCEPT !.pump = PumpAt("delay")]
          \/ s' = [s EXCEPT !.pump = PumpAt("exit")]
      BY <1>6 DEF PumpError
    <3>2. Good([s EXCEPT !.pump = PumpAt("delay")], Tip, docs) BY Here, GoodPumpExit
    <3>3. Good([s EXCEPT !.pump = PumpAt("exit")], Tip, docs) BY Here, GoodPumpExit
    <3> QED BY <3>1, <3>2, <3>3
  <2>2. zombies' \subseteq Requests
    <3>1. s.pump.req \in Requests BY <1>6, Here DEF PumpError, Pumps
    <3> QED BY <1>6, <3>1 DEF PumpError, IInv
  <2>3. UNCHANGED <<serverVars, ws, wsUp>> BY <1>6 DEF PumpError
  <2> QED BY <2>1, <2>2, <2>3 DEF IInv, serverVars, Tip
<1>7. CASE SyncError
  <2> DEFINE u == Fail(s)
  <2>1. Good(u, Tip, docs) BY Here, GoodFail
  <2>2. s' = [u EXCEPT !.sync = SyncAt("exit", 0)] BY <1>7 DEF SyncError
  <2> HIDE DEF u
  <2>3. Good(s', Tip, docs)
    <3>1. Good([u EXCEPT !.sync = SyncAt("exit", 0)], Tip, docs) BY <2>1, Here, SetSync
    <3> QED BY <2>2, <3>1
  <2>4. UNCHANGED <<serverVars, netVars>> BY <1>7 DEF SyncError
  <2> QED BY <2>3, <2>4, SessionTurn
<1>8. CASE PublishError
  <2>1. Good(PublishedOn(s, FALSE), Tip, docs) BY Here, GoodPublishedOn
  <2>2. s' = PublishedOn(s, FALSE) /\ UNCHANGED <<serverVars, netVars>>
    BY <1>8 DEF PublishError
  <2> QED BY <2>1, <2>2, SessionTurn
<1>9. CASE ManglePage
  <2>0. s.sync.reply.kind = "ops" /\ s.sync.after \in Nat
    BY <1>9, Here DEF ManglePage, Sessions, Syncs
  <2>1. PICK k \in s.sync.after..(s.sync.reply.rev - 1) :
          s' = [s EXCEPT !.sync.reply = [kind |-> "cut", rev |-> k]]
    BY <1>9 DEF ManglePage
  <2> DEFINE x == [kind |-> "cut", rev |-> k]
  <2>2. x \in SyncReplies /\ x.rev <= Tip /\ x.kind # "snapshot"
    <3>1. s.sync.reply.rev \in Nat /\ s.sync.reply.rev <= Tip
      BY <2>0, Here DEF SyncReplies, Syncs, NoReply
    <3>2. k \in Nat /\ k <= Tip BY <2>0, <3>1, Here
    <3> QED BY <3>2 DEF SyncReplies
  <2>3. s' = [s EXCEPT !.sync.reply = x] BY <2>1
  <2> HIDE DEF x
  <2>4. Good(s', Tip, docs) BY <2>2, <2>3, Here, SetSyncReply
  <2>5. UNCHANGED <<serverVars, netVars>> BY <1>9 DEF ManglePage
  <2> QED BY <2>4, <2>5, SessionTurn
<1>10. CASE StreamMismatch
  <2> DEFINE x == [kind |-> "mismatch", rev |-> 0]
  <2>1. ws' = Append(ws, x) /\ wsUp' = TRUE /\ UNCHANGED <<serverVars, zombies, s>>
    BY <1>10 DEF StreamMismatch
  <2>2. x \in Frames /\ x.rev <= Tip /\ x.kind # "op" BY Here DEF Frames
  <2> HIDE DEF x
  <2>3. Announced(ws', Tip)
    <3>1. Announced(ws, Tip) BY DEF IInv, Announced
    <3> QED BY <2>1, <2>2, <3>1, Here, FrameAppended
  <2> QED BY <2>1, <2>3 DEF IInv, serverVars, Tip, Announced
<1> QED BY <1>1, <1>2, <1>3, <1>4, <1>5, <1>6, <1>7, <1>8, <1>9, <1>10 DEF FaultStep

(***************************************************************************)
(* The user's calls.                                                       *)
(***************************************************************************)
LEMMA UserKeeps == ASSUME IInv, UserStep PROVE IInv'
<1>1. UNCHANGED <<serverVars, netVars>>
  BY DEF UserStep, Dispatch, Undo, Redo, ClearHistory, Close
<1>2. Good(s', Tip, docs)
  <2>1. CASE Dispatch
    <3>1. PICK c \in Commands : s' = DispatchOn(s, c) BY <2>1 DEF Dispatch
    <3>2. c \in Invocations BY CommandsAreInvocations
    <3>3. Good(DispatchOn(s, c), Tip, docs) BY <3>2, Here, GoodDispatchOn
    <3> QED BY <3>1, <3>3
  <2>2. CASE Undo
    <3>1. s.undo # <<>> /\ s' = ReplayOn(s, "undo", "redo", "undo") BY <2>2 DEF Undo
    <3> QED BY <3>1, Here, GoodUndo
  <2>3. CASE Redo
    <3>1. s.redo # <<>> /\ s' = ReplayOn(s, "redo", "undo", "redo") BY <2>3 DEF Redo
    <3> QED BY <3>1, Here, GoodRedo
  <2>4. CASE ClearHistory
    <3>1. s' = [s EXCEPT !.undo = <<>>, !.redo = <<>>] BY <2>4 DEF ClearHistory
    <3>2. <<>> \in Seq(Nat) /\ \A i \in 1..Len(<<>>) : <<>>[i] \in 1..Len(s.recs) OBVIOUS
    <3>3. Good([s EXCEPT !.undo = <<>>, !.redo = <<>>], Tip, docs)
      BY <3>2, Here, SetHistory
    <3> QED BY <3>1, <3>3
  <2>5. CASE Close
    <3> DEFINE u == PublishOn(s)
    <3>1. Good(u, Tip, docs) BY Here, GoodPublishOn
    <3>2. s' = CloseOn(s) \/ s' = CloseOn(u) BY <2>5 DEF Close
    <3> HIDE DEF u
    <3> QED BY <3>1, <3>2, Here, GoodCloseOn
  <2> QED BY <2>1, <2>2, <2>3, <2>4, <2>5 DEF UserStep
<1> QED BY <1>1, <1>2, SessionTurn

(***************************************************************************)
(* The session's own turns.                                                *)
(***************************************************************************)
LEMMA PumpReplyKeeps == ASSUME IInv, PumpReply PROVE Good(s', Tip, docs)
<1> DEFINE reply == s.pump.reply
           req == s.pump.req
           failed == Fail(s)
           published == PublishOn(s)
           resynced == RequestResync(s)
<1>1. reply \in PostReplies /\ reply.rev \in Nat /\ reply.rev <= Tip
  BY Here DEF PostReplies, NoReply
<1>2. \/ s' = [s EXCEPT !.pump = PumpAt("exit")]
      \/ reply.kind = "accepted" /\ s' = OnAccepted(s, req, reply.rev)
      \/ s' = OnMangled(s, reply.rev)
      \/ s' = OnStaleBase(s, req, reply.rev)
      \/ s' = [published EXCEPT !.pump = PumpAt("publish")]
      \/ s' = [failed EXCEPT !.pump = PumpAt("exit")]
      \/ s' = [resynced EXCEPT !.pump = PumpAt("exit")]
      \/ s' = [failed EXCEPT !.pump = PumpAt("exit"), !.denied = TRUE]
  <2>1. reply # NoReply /\ reply.kind # "none"
    <3>1. s.pump.pc = "post" /\ reply # NoReply BY DEF PumpReply
    <3> QED BY <3>1, <1>1 DEF NoReply, PostReplies
  <2>2. s.status \in Statuses BY Here DEF Sessions
  <2> QED BY <1>1, <2>1, <2>2, PumpReply DEF PumpReply, PostReplies, Statuses
<1>3. Good(failed, Tip, docs) /\ Good(published, Tip, docs) /\ Good(resynced, Tip, docs)
  BY Here, GoodFail, GoodPublishOn, GoodRequestResync
<1> HIDE DEF failed, published, resynced
<1>4. Good([s EXCEPT !.pump = PumpAt("exit")], Tip, docs) BY Here, GoodPumpExit
<1>5. reply.kind = "accepted" => Good(OnAccepted(s, req, reply.rev), Tip, docs)
  <2> SUFFICES ASSUME reply.kind = "accepted"
               PROVE  Good(OnAccepted(s, req, reply.rev), Tip, docs)
    OBVIOUS
  <2>1. reply.rev \in 1..Tip BY <1>1, Here
  <2> HIDE DEF reply, req
  <2> QED BY <2>1, Here, GoodOnAccepted
<1>6. Good(OnMangled(s, reply.rev), Tip, docs) BY <1>1, Here, GoodOnMangled
<1>7. Good(OnStaleBase(s, req, reply.rev), Tip, docs) BY <1>1, Here, GoodOnStaleBase
<1>8. Good([published EXCEPT !.pump = PumpAt("publish")], Tip, docs)
  BY <1>3, Here, GoodPumpExit
<1>9. Good([failed EXCEPT !.pump = PumpAt("exit")], Tip, docs) BY <1>3, Here, GoodPumpExit
<1>10. Good([failed EXCEPT !.pump = PumpAt("exit"), !.denied = TRUE], Tip, docs)
  <2> DEFINE v == [failed EXCEPT !.pump = PumpAt("exit")]
  <2>1. Good(v, Tip, docs) BY <1>9
  <2>2. [failed EXCEPT !.pump = PumpAt("exit"), !.denied = TRUE] = [v EXCEPT !.denied = TRUE]
    OBVIOUS
  <2> HIDE DEF v
  <2>3. Good([v EXCEPT !.denied = TRUE], Tip, docs)
    BY <2>1 DEF Good, Grounded, Sessions, Indexed
  <2> QED BY <2>2, <2>3
<1>11. Good([resynced EXCEPT !.pump = PumpAt("exit")], Tip, docs)
  BY <1>3, Here, GoodPumpExit
<1> QED BY <1>2, <1>4, <1>5, <1>6, <1>7, <1>8, <1>9, <1>10, <1>11

(***************************************************************************)
(* Every answer to the sync loop leaves a good session.                    *)
(***************************************************************************)
LEMMA SyncReplyKeeps == ASSUME IInv, SyncReply PROVE Good(s', Tip, docs)
<1> DEFINE reply == s.sync.reply
           again == [s EXCEPT !.resync = TRUE]
<1>1. /\ reply \in SyncReplies /\ reply.rev \in Nat /\ reply.rev <= Tip
      /\ reply.kind = "snapshot" => reply.doc = docs[reply.rev] /\ reply.doc \in Docs
      /\ s.sync.after \in Nat
  BY Here DEF SyncReplies, Syncs, NoReply
<1>2. \/ s' = SyncTop(s)
      \/ s' = SyncTop(again)
      \/ reply.kind = "snapshot" /\ s' = AdoptSnapshot(s, reply.rev, reply.doc)
      \/ s' = IngestPage(s, s.sync.after, SubSeq(log, s.sync.after + 1, reply.rev))
      \/ s' = IngestCut(s, s.sync.after, SubSeq(log, s.sync.after + 1, reply.rev))
  <2>1. reply # NoReply /\ reply.kind \in {"ops", "cut", "gone", "snapshot"}
    <3>1. reply # NoReply BY DEF SyncReply
    <3> QED BY <3>1, <1>1 DEF SyncReplies
  <2>2. s.resync \in BOOLEAN BY Here DEF Sessions
  <2> QED BY <2>1, <2>2, SyncReply DEF SyncReply
<1>3. Good(again, Tip, docs) BY Here, GoodResyncFlag
<1> HIDE DEF again
<1>4. Good(SyncTop(s), Tip, docs) /\ Good(SyncTop(again), Tip, docs)
  BY <1>3, Here, GoodSyncTop
<1>5. reply.kind = "snapshot" => Good(AdoptSnapshot(s, reply.rev, reply.doc), Tip, docs)
  BY <1>1, Here, GoodAdoptSnapshot
<1>6. /\ Good(IngestPage(s, s.sync.after, SubSeq(log, s.sync.after + 1, reply.rev)), Tip, docs)
      /\ Good(IngestCut(s, s.sync.after, SubSeq(log, s.sync.after + 1, reply.rev)), Tip, docs)
  BY <1>1, Here, GoodIngestPage DEF Tip
<1> QED BY <1>2, <1>4, <1>5, <1>6

(***************************************************************************)
(* Every turn of the session preserves the invariant.                      *)
(***************************************************************************)
LEMMA SessionKeeps == ASSUME IInv, SessionStep PROVE IInv'
<1>1. UNCHANGED <<serverVars, netVars>>
  BY DEF SessionStep, PumpStart, PumpReply, PumpDelayOver, PumpEnd, SyncReply,
         SyncDelayOver, SyncEnd, PublishPeriodic, PublishReply
<1>2. Good(s', Tip, docs)
  <2>1. CASE PumpStart \/ PumpDelayOver
    <3>1. s' = PumpTop(s) BY <2>1 DEF PumpStart, PumpDelayOver
    <3> QED BY <3>1, Here, GoodPumpTop
  <2>2. CASE PumpReply BY <2>2, PumpReplyKeeps
  <2>3. CASE PumpEnd
    <3>1. s' = PumpFinally(s) BY <2>3 DEF PumpEnd
    <3> QED BY <3>1, Here, GoodPumpFinally
  <2>4. CASE SyncReply BY <2>4, SyncReplyKeeps
  <2>5. CASE SyncDelayOver
    <3>1. s' = SyncTop(s) BY <2>5 DEF SyncDelayOver
    <3> QED BY <3>1, Here, GoodSyncTop
  <2>6. CASE SyncEnd
    <3>1. s' = SyncFinally(s) BY <2>6 DEF SyncEnd
    <3> QED BY <3>1, Here, GoodSyncFinally
  <2>7. CASE PublishPeriodic
    <3>1. s' = PublishOn(s) BY <2>7 DEF PublishPeriodic
    <3> QED BY <3>1, Here, GoodPublishOn
  <2>8. CASE PublishReply
    <3>1. s' = PublishedOn(s, TRUE) \/ s' = PublishedOn(s, FALSE) BY <2>8 DEF PublishReply
    <3> QED BY <3>1, Here, GoodPublishedOn
  <2> QED BY <2>1, <2>2, <2>3, <2>4, <2>5, <2>6, <2>7, <2>8 DEF SessionStep
<1> QED BY <1>1, <1>2, SessionTurn

(***************************************************************************)
(* The event stream.                                                       *)
(***************************************************************************)
LEMMA StreamKeeps == ASSUME IInv, StreamOpen \/ Deliver PROVE IInv'
<1>0. Announced(ws, Tip) BY DEF IInv, Announced
<1>1. CASE StreamOpen
  <2> DEFINE x == IF alive THEN [kind |-> "connected", rev |-> Tip]
                  ELSE [kind |-> "session-closed", rev |-> 0]
  <2>1. ws' = Append(ws, x) /\ wsUp' = TRUE /\ UNCHANGED <<serverVars, zombies, s>>
    BY <1>1 DEF StreamOpen
  <2>2. x \in Frames /\ x.rev <= Tip /\ x.kind # "op" BY Here DEF Frames
  <2> HIDE DEF x
  <2>3. Announced(ws', Tip) BY <1>0, <2>1, <2>2, Here, FrameAppended
  <2> QED BY <2>1, <2>3 DEF IInv, serverVars, Tip, Announced
<1>2. CASE Deliver
  <2>1. /\ ws # <<>> /\ ws' = Tail(ws) /\ s' = HandleEvent(s, ws[1])
        /\ UNCHANGED <<serverVars, zombies, wsUp>>
    BY <1>2 DEF Deliver
  <2>2. /\ ws[1] \in Frames /\ ws[1].rev <= Tip /\ (ws[1].kind = "op" => ws[1].rev >= 1)
    BY <1>0, <2>1 DEF Announced
  <2>3. Good(s', Tip, docs) BY <2>1, <2>2, Here, GoodHandleEvent
  <2>4. Announced(ws', Tip)
    <3>1. /\ ws' \in Seq(Frames) /\ Len(ws') = Len(ws) - 1
          /\ \A i \in 1..Len(ws') : ws'[i] = ws[i + 1] /\ i + 1 \in 1..Len(ws)
      BY <1>0, <2>1 DEF Announced
    <3> QED BY <1>0, <3>1 DEF Announced
  <2> QED BY <2>1, <2>3, <2>4 DEF IInv, serverVars, Tip, Announced
<1> QED BY <1>1, <1>2

-----------------------------------------------------------------------------
(***************************************************************************)
(* The theorems.                                                           *)
(***************************************************************************)

(***************************************************************************)
(* The session that has just adopted the checkpoint is good.               *)
(***************************************************************************)
LEMMA InitKeeps == ASSUME Init PROVE IInv
<1>1. log = <<>> /\ Tip = 0 /\ docs \in [0..0 -> Docs] /\ docs[0] = InitialDoc
  BY SessionAssumption DEF Init, Tip, SessionAssumption
<1>2. ServerOK(log, docs) BY <1>1 DEF ServerOK, Tip
<1>3. s \in Sessions
  <2>1. PumpAt("idle") \in Pumps /\ SyncAt("idle", 0) \in Syncs
    BY PumpAtType, SyncAtType
  <2>2. NoPublication \in Publications
    BY SessionAssumption DEF NoPublication, Publications, SessionAssumption
  <2> QED BY <2>1, <2>2, SessionAssumption
          DEF Init, NewSession, Sessions, SessionAssumption, Statuses
<1>4. Grounded(s, Tip, docs)
  <2>1. /\ s.confirmed = InitialDoc /\ s.confirmedRevision = 0 /\ s.syncTarget = 0
        /\ s.pump = PumpAt("idle") /\ s.sync = SyncAt("idle", 0) /\ s.pub = NoPublication
        /\ s.undo = <<>> /\ s.redo = <<>>
    BY DEF Init, NewSession
  <2>2. PumpAt("idle").reply.rev = 0 /\ PumpAt("idle").reply.kind = "none" BY PumpAtType
  <2>3. SyncAt("idle", 0).reply.rev = 0 /\ SyncAt("idle", 0).reply.kind = "none"
    BY SyncAtType
  <2>4. NoPublication.rev = 0 /\ NoPublication.doc = InitialDoc BY DEF NoPublication
  <2> QED BY <1>1, <1>3, <2>1, <2>2, <2>3, <2>4 DEF Grounded, Indexed
<1>5. Chained(s.confirmed, s.pending, s.doc)
  <2>1. s.confirmed = InitialDoc /\ s.pending = <<>> /\ s.doc = InitialDoc
    BY DEF Init, NewSession
  <2> QED BY <2>1, ChainEmpty, SessionAssumption DEF SessionAssumption
<1>6. /\ ckpt \in [rev : 0..Tip, doc : Docs] /\ ckpt.doc = docs[ckpt.rev]
      /\ floor \in 0..Tip /\ alive \in BOOLEAN /\ zombies \subseteq Requests
      /\ ws = <<>> /\ wsUp \in BOOLEAN
  <2>1. ckpt = [rev |-> 0, doc |-> InitialDoc] BY DEF Init
  <2>2. InitialDoc \in Docs /\ 0 \in 0..Tip BY <1>1, SessionAssumption DEF SessionAssumption
  <2>3. ckpt \in [rev : 0..Tip, doc : Docs] /\ ckpt.doc = docs[ckpt.rev]
    BY <1>1, <2>1, <2>2
  <2> QED BY <2>2, <2>3 DEF Init
<1> QED BY <1>2, <1>4, <1>5, <1>6 DEF IInv, Good

(***************************************************************************)
(* Every step preserves the inductive invariant.                           *)
(***************************************************************************)
LEMMA NextKeeps == ASSUME IInv, [Next]_vars PROVE IInv'
<1>1. CASE Next
  BY <1>1, ServerKeeps, FaultKeeps, PeerKeeps, UserKeeps, SessionKeeps, StreamKeeps DEF Next
<1>2. CASE UNCHANGED vars BY <1>2 DEF vars, serverVars, netVars, IInv, Tip
<1> QED BY <1>1, <1>2

(***************************************************************************)
(* The inductive invariant holds in every reachable state.                 *)
(***************************************************************************)
THEOREM Invariance == Spec => []IInv
<1>1. Init => IInv BY InitKeeps
<1>2. IInv /\ [Next]_vars => IInv' BY NextKeeps
<1> QED BY <1>1, <1>2, PTL DEF Spec

(***************************************************************************)
(* Types, and no revision the server has not reached yet.                  *)
(***************************************************************************)
THEOREM TypeCorrect == Spec => []TypeOK
<1>1. IInv => TypeOK
  <2> SUFFICES ASSUME IInv PROVE TypeOK
    OBVIOUS
  <2>1. /\ log \in Seq(ServerOps) /\ docs \in [0..Tip -> Docs]
    BY Here DEF ServerOK, Tip
  <2>2. Indexed(s) /\ s.confirmedRevision <= Tip /\ s.syncTarget <= Tip
    BY Here DEF Good, Grounded
  <2>3. s.undo \in Seq(Nat) /\ s.redo \in Seq(Nat) /\ s.recs \in Seq(PatchOps)
    BY Here DEF Sessions
  <2>4. /\ DOMAIN s.undo = 1..Len(s.undo) /\ DOMAIN s.redo = 1..Len(s.redo)
        /\ DOMAIN s.recs = 1..Len(s.recs)
    BY <2>3
  <2>5. DOMAIN ws = 1..Len(ws) BY DEF IInv
  <2> QED BY <2>1, <2>2, <2>4, <2>5, Here DEF IInv, TypeOK, Indexed
<1> QED BY <1>1, Invariance, PTL

(***************************************************************************)
(* The confirmed document is the server's log applied up to the confirmed  *)
(* revision.                                                               *)
(***************************************************************************)
THEOREM ConfirmedCorrect == Spec => []ConfirmedIsLogPrefix
<1>1. IInv => ConfirmedIsLogPrefix BY DEF IInv, Good, Grounded, ConfirmedIsLogPrefix
<1> QED BY <1>1, Invariance, PTL

(***************************************************************************)
(* The optimistic document is confirmed with the queued patches applied in *)
(* order, each of which fits where it is applied.                          *)
(***************************************************************************)
THEOREM OptimisticCorrect == Spec => []OptimisticIsRebase
<1>1. IInv => OptimisticIsRebase
  <2> SUFFICES ASSUME IInv PROVE OptimisticIsRebase
    OBVIOUS
  <2>1. s.confirmed \in Docs /\ s.pending \in Seq(Entries) BY Here DEF Sessions
  <2>2. Chained(s.confirmed, s.pending, s.doc) BY Here DEF Good
  <2> QED BY <2>1, <2>2, ChainIsReplay DEF OptimisticIsRebase
<1> QED BY <1>1, Invariance, PTL

(***************************************************************************)
(* The checkpoint the server serves is a prefix of its log.                *)
(***************************************************************************)
THEOREM CheckpointCorrect == Spec => []CheckpointIsLogPrefix
<1>1. IInv => CheckpointIsLogPrefix BY DEF IInv, CheckpointIsLogPrefix
<1> QED BY <1>1, Invariance, PTL

(***************************************************************************)
(* Nothing changes the documents, the revision or the queue of a session   *)
(* that is closed or has failed, and nothing revives it.                   *)
(***************************************************************************)
Frozen(u, t) ==
  /\ u.status = t.status \/ u.status = "closed"
  /\ SameReplica(u, t) /\ u.recs = t.recs
  /\ Len(u.undo) <= Len(t.undo) /\ Len(u.redo) <= Len(t.redo)

(***************************************************************************)
(* The loops of a terminal session wind down without touching its replica. *)
(***************************************************************************)
LEMMA TerminalWindsDown ==
  ASSUME NEW t \in Sessions, Terminal(t)
  PROVE  /\ Frozen(PumpTop(t), t) /\ Frozen(PumpFinally(t), t)
         /\ Frozen(SyncTop(t), t) /\ Frozen(SyncFinally(t), t)
         /\ \A f : Frozen(HandleEvent(t, f), t)
         /\ Frozen(CloseOn(t), t) /\ Frozen(PublishOn(t), t)
         /\ \A ok : Frozen(PublishedOn(t, ok), t)
<1>0. Len(t.undo) \in Nat /\ Len(t.redo) \in Nat BY DEF Sessions
<1> USE <1>0 DEF Terminal, Frozen, SameReplica, Sessions
<1>1. Frozen(PumpTop(t), t) BY DEF PumpTop
<1>2. Frozen(PumpFinally(t), t) BY DEF PumpFinally
<1>3. Frozen(SyncTop(t), t) BY DEF SyncTop
<1>4. Frozen(SyncFinally(t), t) BY DEF SyncFinally, Pump
<1>5. \A f : Frozen(HandleEvent(t, f), t) BY DEF HandleEvent
<1>6. Frozen(CloseOn(t), t) BY DEF CloseOn
<1>7. Frozen(PublishOn(t), t) BY DEF PublishOn
<1>8. \A ok : Frozen(PublishedOn(t, ok), t) BY DEF PublishedOn
<1> QED BY <1>1, <1>2, <1>3, <1>4, <1>5, <1>6, <1>7, <1>8

(***************************************************************************)
(* A step of a terminal session leaves it frozen.                          *)
(***************************************************************************)
LEMMA TerminalStep == ASSUME IInv, Terminal(s), [Next]_vars PROVE Frozen(s', s)
<1>0. s \in Sessions /\ Len(s.undo) \in Nat /\ Len(s.redo) \in Nat BY Here DEF Sessions
<1>1. CASE UNCHANGED s BY <1>0, <1>1 DEF Frozen, SameReplica
<1>9. ASSUME NEW x, \/ s' = [s EXCEPT !.pump = x] \/ s' = [s EXCEPT !.sync = x]
                    \/ s' = [s EXCEPT !.pub = x]
      PROVE  Frozen(s', s)
  <2>1. SameReplica(s', s) /\ s'.status = s.status /\ s'.recs = s.recs
    BY <1>0, <1>9 DEF SameReplica, Sessions
  <2>2. s'.undo = s.undo /\ s'.redo = s.redo BY <1>0, <1>9 DEF Sessions
  <2> QED BY <1>0, <2>1, <2>2 DEF Frozen
<1>10. ASSUME NEW x, \/ s' = [s EXCEPT !.pump.reply = x] \/ s' = [s EXCEPT !.pump.reply.kind = x]
                     \/ s' = [s EXCEPT !.sync.reply = x]
       PROVE  Frozen(s', s)
  <2>1. CASE s' = [s EXCEPT !.pump.reply = x]
    <3>1. s' = [s EXCEPT !.pump = [s.pump EXCEPT !.reply = x]] BY <2>1
    <3> QED BY <1>9, <3>1
  <2>2. CASE s' = [s EXCEPT !.pump.reply.kind = x]
    <3>1. s' = [s EXCEPT !.pump = [s.pump EXCEPT !.reply = [s.pump.reply EXCEPT !.kind = x]]]
      BY <2>2
    <3> QED BY <1>9, <3>1
  <2>3. CASE s' = [s EXCEPT !.sync.reply = x]
    <3>1. s' = [s EXCEPT !.sync = [s.sync EXCEPT !.reply = x]] BY <2>3
    <3> QED BY <1>9, <3>1
  <2> QED BY <1>10, <2>1, <2>2, <2>3
<1>2. CASE ServerStep
  <2>1. \/ \E x : s' = [s EXCEPT !.pump.reply = x]
        \/ \E x : s' = [s EXCEPT !.sync.reply = x]
        \/ \E x : s' = [s EXCEPT !.pub = x]
    BY <1>2 DEF ServerStep, ServePost, ServeSync, ServePut
  <2> QED BY <1>9, <1>10, <2>1
<1>3. CASE FaultStep
  <2>1. CASE RefusePost \/ MangleReply \/ ManglePage \/ PumpError
    <3>1. \/ \E x : s' = [s EXCEPT !.pump.reply = x]
          \/ \E x : s' = [s EXCEPT !.pump.reply.kind = x]
          \/ \E x : s' = [s EXCEPT !.sync.reply = x]
          \/ \E x : s' = [s EXCEPT !.pump = x]
      BY <2>1 DEF RefusePost, MangleReply, ManglePage, PumpError
    <3> QED BY <1>9, <1>10, <3>1
  <2>2. CASE SyncError
    BY <1>0, <2>2 DEF SyncError, Fail, Frozen, SameReplica, Sessions
  <2>3. CASE PublishError BY <1>0, <2>3, TerminalWindsDown DEF PublishError
  <2>4. CASE ServeZombie \/ StreamDrop \/ StreamMismatch \/ GarbageFrame
    BY <1>1, <2>4 DEF ServeZombie, StreamDrop, StreamMismatch, GarbageFrame
  <2> QED BY <1>3, <2>1, <2>2, <2>3, <2>4 DEF FaultStep
<1>4. CASE PeerStep
  BY <1>1, <1>4 DEF PeerStep, ForeignOp, ForeignCheckpoint, Compact, DeleteSession
<1>5. CASE UserStep
  <2>1. CASE Dispatch BY <2>1 DEF Dispatch
  <2>2. CASE Undo \/ Redo
    <3>1. ASSUME NEW q \in Seq(Nat), q # <<>> PROVE Len(Front(q)) <= Len(q)
      BY <3>1 DEF Front
    <3>2. s.undo \in Seq(Nat) /\ s.redo \in Seq(Nat) BY <1>0 DEF Sessions
    <3>3. \/ s.undo # <<>> /\ s' = [s EXCEPT !.undo = Front(@)]
          \/ s.redo # <<>> /\ s' = [s EXCEPT !.redo = Front(@)]
      BY <2>2 DEF Undo, Redo, ReplayOn
    <3>4. \/ s.undo # <<>> /\ s'.undo = Front(s.undo) /\ s'.redo = s.redo
          \/ s.redo # <<>> /\ s'.redo = Front(s.redo) /\ s'.undo = s.undo
      BY <1>0, <3>3 DEF Sessions
    <3>5. Len(s'.undo) <= Len(s.undo) /\ Len(s'.redo) <= Len(s.redo)
      BY <1>0, <3>1, <3>2, <3>4
    <3>6. SameReplica(s', s) /\ s'.status = s.status /\ s'.recs = s.recs
      BY <1>0, <3>3 DEF Sessions, SameReplica
    <3> QED BY <3>5, <3>6 DEF Frozen
  <2>3. CASE ClearHistory
    BY <1>0, <2>3 DEF ClearHistory, Frozen, SameReplica, Sessions
  <2>4. CASE Close
    <3> DEFINE a == PublishOn(s)
    <3>1. /\ a \in {s} \cup {[s EXCEPT !.pub = x] : x \in {a.pub}}
          /\ s' = CloseOn(s) \/ s' = CloseOn(a)
      BY <1>0, <2>4 DEF Close, PublishOn, Sessions
    <3>2. s' = [s EXCEPT !.connected = FALSE, !.status = "closed"]
          \/ \E x : s' = [s EXCEPT !.pub = x, !.connected = FALSE, !.status = "closed"]
      <4> HIDE DEF a
      <4> QED BY <3>1 DEF CloseOn
    <3>3. /\ SameReplica(s', s) /\ s'.status = "closed" /\ s'.recs = s.recs
          /\ s'.undo = s.undo /\ s'.redo = s.redo
      BY <1>0, <3>2 DEF SameReplica, Sessions
    <3> QED BY <1>0, <3>3 DEF Frozen
  <2> QED BY <1>5, <2>1, <2>2, <2>3, <2>4 DEF UserStep
<1>6. CASE SessionStep
  <2>1. CASE PumpStart \/ PumpDelayOver \/ PumpEnd \/ SyncDelayOver \/ SyncEnd
    BY <1>0, <2>1, TerminalWindsDown
       DEF PumpStart, PumpDelayOver, PumpEnd, SyncDelayOver, SyncEnd
  <2>2. CASE PumpReply
    <3>1. s' = [s EXCEPT !.pump = PumpAt("exit")] BY <2>2 DEF PumpReply, Terminal
    <3> QED BY <1>0, <3>1 DEF Frozen, SameReplica, Sessions
  <2>3. CASE SyncReply
    <3>1. s' = SyncTop(s) BY <2>3 DEF SyncReply, Terminal
    <3> QED BY <1>0, <3>1, TerminalWindsDown
  <2>4. CASE PublishPeriodic \/ PublishReply
    BY <1>0, <2>4, TerminalWindsDown DEF PublishPeriodic, PublishReply
  <2> QED BY <1>6, <2>1, <2>2, <2>3, <2>4 DEF SessionStep
<1>7. CASE StreamOpen BY <1>1, <1>7 DEF StreamOpen
<1>8. CASE Deliver BY <1>0, <1>8, TerminalWindsDown DEF Deliver
<1> QED BY <1>1, <1>2, <1>3, <1>4, <1>5, <1>6, <1>7, <1>8 DEF Next, vars

(***************************************************************************)
(* Terminal states are final: whatever arrives late and whatever the user  *)
(* calls, the status stays (or closes), revision, documents, queue and     *)
(* history records stay as the session left them, and the stacks of undo   *)
(* and redo, which the user may still pop or clear, gain nothing.          *)
(***************************************************************************)
THEOREM TerminalFinal == Spec => TerminalIsFrozen
<1>1. IInv /\ [Next]_vars =>
        [Terminal(s) =>
           /\ s'.status = s.status \/ s'.status = "closed"
           /\ s'.confirmed = s.confirmed /\ s'.confirmedRevision = s.confirmedRevision
           /\ s'.doc = s.doc /\ s'.pending = s.pending /\ s'.recs = s.recs
           /\ Len(s'.undo) <= Len(s.undo) /\ Len(s'.redo) <= Len(s.redo)]_vars
  BY TerminalStep DEF Frozen, SameReplica
<1> QED BY <1>1, Invariance, PTL DEF Spec, TerminalIsFrozen

-----------------------------------------------------------------------------
(***************************************************************************)
(* Wake-ups.                                                               *)
(*                                                                         *)
(* Reach is the furthest revision the session has or has been told of.  A  *)
(* session is awake when no work of its is left lying: a live one owes no  *)
(* synchronisation and its pump rests only over an empty queue, and one    *)
(* that is catching up has its sync loop running.                          *)
(***************************************************************************)
Reach(t) == Larger(t.confirmedRevision, t.syncTarget)

Awake(t) ==
  /\ t.status = "live" =>
       /\ t.sync.pc = "idle" /\ t.sync.reply = NoReply
       /\ ~t.resync /\ t.confirmedRevision >= t.syncTarget
       /\ t.pump.pc = "idle" => t.pending = <<>>
  /\ t.status = "catching-up" => t.sync.pc # "idle"

(***************************************************************************)
(* Somebody waiting for the session's edits sees of a step from t to u     *)
(* what SettlingSession allows.                                            *)
(***************************************************************************)
Settles(u, t) ==
  LET kept == u.status = t.status /\ Len(u.pending) = Len(t.pending)
      idle == t.pump.pc = "idle"
      rests == u.pump.pc = "idle"
      open == t.status \in {"live", "catching-up"}
  IN  \/ kept /\ (rests => idle)
      \/ open /\ u.status = t.status /\ Len(u.pending) = Len(t.pending) + 1 /\ ~rests
      \/ open /\ u.status = t.status /\ Len(u.pending) < Len(t.pending) /\ (rests => idle)
      \/ /\ t.status = "live" /\ u.status = "catching-up"
         /\ Len(u.pending) = Len(t.pending) /\ (rests <=> idle)
      \/ /\ t.status = "catching-up" /\ u.status = "live"
         /\ Len(u.pending) = Len(t.pending) /\ ~rests
      \/ kept /\ ~idle /\ rests /\ ~(t.status = "live" /\ t.pending # <<>>)
      \/ /\ \/ open /\ u.status \in {"closed", "error"}
            \/ t.status = "error" /\ u.status = "closed"
         /\ Len(u.pending) = Len(t.pending) /\ (rests <=> idle)

Onward(u, t) == Awake(u) /\ Reach(t) <= Reach(u) /\ Settles(u, t)

SameSync(u, t) ==
  /\ u.status = t.status /\ u.sync = t.sync /\ u.resync = t.resync
  /\ u.syncTarget = t.syncTarget /\ u.confirmedRevision = t.confirmedRevision

SameWork(u, t) == u.pump = t.pump /\ u.pending = t.pending

(***************************************************************************)
(* The larger of two numbers.                                              *)
(***************************************************************************)
LEMMA LargerIsMax ==
  ASSUME NEW a \in Nat, NEW b \in Nat
  PROVE  Larger(a, b) \in Nat /\ a <= Larger(a, b) /\ b <= Larger(a, b)
         /\ (Larger(a, b) = a \/ Larger(a, b) = b)
BY DEF Larger

(***************************************************************************)
(* Telling the pump wakes it, and changes nothing else.                    *)
(***************************************************************************)
LEMMA PumpFacts ==
  ASSUME NEW t \in Sessions
  PROVE  /\ SameSync(Pump(t), t) /\ Pump(t).pending = t.pending /\ Pump(t).pump.pc # "idle"
         /\ Pump(t).fate = t.fate
BY DEF Pump, PumpAt, Sessions, SameSync

(***************************************************************************)
(* The head of the pump's loop leaves a busy pump and the length of the    *)
(* queue.                                                                  *)
(***************************************************************************)
LEMMA PumpTopFacts ==
  ASSUME NEW t \in Sessions
  PROVE  /\ SameSync(PumpTop(t), t) /\ Len(PumpTop(t).pending) = Len(t.pending)
         /\ PumpTop(t).pump.pc # "idle"
         /\ t.pending = <<>> => PumpTop(t).pending = <<>>
<1>1. CASE t.pending # <<>> /\ t.status = "live" /\ ~Syncing(t)
  <2> DEFINE head == Head(t.pending)
             attempt == [opId |-> head.opId, base |-> t.confirmedRevision,
                         patch |-> head.predicted]
             again == \E a \in head.attempts : a.opId = head.opId
             atts == IF again THEN t.pending[1].attempts
                     ELSE t.pending[1].attempts \cup {attempt}
             q == [t.pending EXCEPT ![1].attempts = atts]
             p == [pc |-> "post", reply |-> NoReply,
                   req |-> [opId |-> head.opId, base |-> t.confirmedRevision,
                            patch |-> head.predicted, intent |-> head.intent,
                            origin |-> head.origin]]
             u == [t EXCEPT !.pending = q]
  <2>1. PumpTop(t) = [u EXCEPT !.pump = p] BY <1>1 DEF PumpTop
  <2>2. p.pc = "post" OBVIOUS
  <2>3. Len(q) = Len(t.pending) BY DEF Sessions
  <2> HIDE DEF p, q, atts
  <2> QED BY <1>1, <2>1, <2>2, <2>3 DEF Sessions, SameSync
<1>2. CASE ~(t.pending # <<>> /\ t.status = "live" /\ ~Syncing(t))
  BY <1>2 DEF PumpTop, PumpAt, Sessions, SameSync
<1> QED BY <1>1, <1>2

(***************************************************************************)
(* The pump rests only where there is nothing it could send.               *)
(***************************************************************************)
LEMMA PumpFinallyFacts ==
  ASSUME NEW t \in Sessions
  PROVE  /\ SameSync(PumpFinally(t), t) /\ PumpFinally(t).pending = t.pending
         /\ PumpFinally(t).pump.pc = "idle" =>
              ~(t.pending # <<>> /\ t.status = "live" /\ ~Syncing(t))
<1> DEFINE u == [t EXCEPT !.pump = PumpAt("idle")]
<1>1. u \in Sessions /\ SameSync(u, t) /\ u.pending = t.pending
  BY PumpAtType DEF Sessions, SameSync
<1>2. PumpFinally(t) = IF t.pending # <<>> /\ t.status = "live" /\ ~Syncing(t) THEN Pump(u) ELSE u
  BY DEF PumpFinally
<1> HIDE DEF u
<1>3. SameSync(Pump(u), u) /\ Pump(u).pending = u.pending /\ Pump(u).pump.pc # "idle"
  BY <1>1, PumpFacts
<1> QED BY <1>1, <1>2, <1>3 DEF SameSync

(***************************************************************************)
(* The head of the sync loop leaves the loop running.                      *)
(***************************************************************************)
LEMMA SyncTopFacts ==
  ASSUME NEW t \in Sessions
  PROVE  /\ SameWork(SyncTop(t), t) /\ SyncTop(t).status = t.status
         /\ SyncTop(t).syncTarget = t.syncTarget
         /\ SyncTop(t).confirmedRevision = t.confirmedRevision
         /\ SyncTop(t).sync.pc # "idle"
BY DEF SyncTop, SyncAt, Sessions, SameWork

(***************************************************************************)
(* Asking for synchronisation gets it, unless the session has ended or is  *)
(* at it already.                                                          *)
(***************************************************************************)
LEMMA StartSyncFacts ==
  ASSUME NEW t \in Sessions
  PROVE  /\ SameWork(StartSync(t), t)
         /\ StartSync(t).syncTarget = t.syncTarget
         /\ StartSync(t).confirmedRevision = t.confirmedRevision
         /\ Terminal(t) \/ Syncing(t) => StartSync(t) = t
         /\ ~(Terminal(t) \/ Syncing(t)) =>
              StartSync(t).status = "catching-up" /\ StartSync(t).sync.pc # "idle"
<1> DEFINE u == [t EXCEPT !.status = "catching-up"]
<1>1. /\ u \in Sessions /\ SameWork(u, t) /\ u.status = "catching-up"
      /\ u.syncTarget = t.syncTarget /\ u.confirmedRevision = t.confirmedRevision
  BY DEF Sessions, Statuses, SameWork
<1>2. StartSync(t) = IF Terminal(t) \/ Syncing(t) THEN t ELSE SyncTop(u) BY DEF StartSync
<1> HIDE DEF u
<1> QED BY <1>1, <1>2, SyncTopFacts DEF SameWork

(***************************************************************************)
(* A session that has not ended falls behind when it is told of a head or  *)
(* has to resync.                                                          *)
(***************************************************************************)
FallsBehind(u, t) ==
  /\ SameWork(u, t) /\ u.confirmedRevision = t.confirmedRevision
  /\ u.status = "catching-up" /\ u.sync.pc # "idle"

(* The requests for a catch-up or a resync start the loop and raise its target. *)
LEMMA RequestFacts ==
  ASSUME NEW t \in Sessions, Awake(t), ~Terminal(t), NEW rev \in Nat
  PROVE  /\ FallsBehind(RequestCatchUp(t, rev), t)
         /\ RequestCatchUp(t, rev).syncTarget = Larger(t.syncTarget, rev)
         /\ FallsBehind(RequestResync(t), t) /\ RequestResync(t).syncTarget = t.syncTarget
         /\ FallsBehind(RequestResync(RaiseTarget(t, rev)), t)
         /\ RequestResync(RaiseTarget(t, rev)).syncTarget = Larger(t.syncTarget, rev)
<1> DEFINE a == RaiseTarget(t, rev)
           b == [t EXCEPT !.resync = TRUE]
           c == [a EXCEPT !.resync = TRUE]
           m == Larger(t.syncTarget, rev)
<1>0. m \in Nat BY LargerIsMax DEF Sessions
<1>1. a = [t EXCEPT !.syncTarget = m] BY DEF RaiseTarget
<1> HIDE DEF m
<1>2. a \in Sessions /\ b \in Sessions /\ c \in Sessions BY <1>0, <1>1 DEF Sessions
<1>3. /\ \A x \in {a, b, c} : /\ SameWork(x, t) /\ x.confirmedRevision = t.confirmedRevision
                              /\ x.status = t.status /\ x.sync = t.sync
      /\ a.syncTarget = m /\ b.syncTarget = t.syncTarget /\ c.syncTarget = m
  BY <1>0, <1>1 DEF Sessions, SameWork
<1>4. /\ RequestCatchUp(t, rev) = StartSync(a) /\ RequestResync(t) = StartSync(b)
      /\ RequestResync(RaiseTarget(t, rev)) = StartSync(c)
  BY DEF RequestCatchUp, RequestResync
<1> HIDE DEF a, b, c
<1>5. ASSUME NEW x \in {a, b, c}
      PROVE  FallsBehind(StartSync(x), t) /\ StartSync(x).syncTarget = x.syncTarget
  <2>1. x \in Sessions BY <1>2
  <2>2. t.status \in {"live", "catching-up"} BY DEF Terminal, Sessions, Statuses
  <2>3. CASE t.status = "live"
    <3>1. ~(Terminal(x) \/ Syncing(x)) BY <1>3, <2>3 DEF Awake, Terminal, Syncing
    <3> QED BY <1>3, <2>1, <3>1, StartSyncFacts DEF FallsBehind, SameWork
  <2>4. CASE t.status = "catching-up"
    <3>1. Syncing(x) /\ x.sync.pc # "idle" BY <1>3, <2>4 DEF Awake, Syncing
    <3>2. StartSync(x) = x BY <2>1, <3>1, StartSyncFacts
    <3> QED BY <1>3, <2>4, <3>1, <3>2 DEF FallsBehind
  <2> QED BY <2>2, <2>3, <2>4
<1>6. /\ FallsBehind(StartSync(a), t) /\ StartSync(a).syncTarget = m
      /\ FallsBehind(StartSync(b), t) /\ StartSync(b).syncTarget = t.syncTarget
      /\ FallsBehind(StartSync(c), t) /\ StartSync(c).syncTarget = m
  BY <1>3, <1>5
<1> QED BY <1>4, <1>6 DEF m

(***************************************************************************)
(* A rebase never makes the queue longer.                                  *)
(***************************************************************************)
LEMMA RebaseShortens ==
  ASSUME NEW n \in Nat, NEW D, NEW t, Grounded(t, n, D), NEW sk
  PROVE  /\ Len(Rebase(t, sk).pending) <= Len(t.pending)
         /\ SameSync(Rebase(t, sk), t) /\ Rebase(t, sk).pump = t.pump
<1> DEFINE k == Len(t.pending)
           X == [i \in 0..k |-> {u \in Sessions : Len(u.pending) <= i}]
<1>0. k \in Nat /\ t \in Sessions /\ t.pending \in Seq(Entries) BY DEF Grounded, Sessions
<1>1. Emptied(t) \in X[0]
  <2>1. Emptied(t).pending = <<>> /\ Emptied(t) \in Sessions
    <3>1. <<>> \in Seq(Entries) /\ t.confirmed \in Docs BY <1>0 DEF Sessions
    <3> QED BY <1>0, <3>1 DEF Emptied, Sessions
  <2>2. Len(Emptied(t).pending) <= 0 /\ 0 \in 0..k BY <1>0, <2>1
  <2> QED BY <2>1, <2>2
<1>2. ASSUME NEW i \in 1..k, NEW u \in X[i - 1], Good(u, n, D)
      PROVE  Reexecute(u, t.pending[i], sk) \in X[i]
  <2> DEFINE e == t.pending[i]
             v == Reexecute(u, e, sk)
  <2>1. e \in Entries /\ i - 1 \in 0..k /\ i \in 0..k BY <1>0
  <2>2. u \in Sessions /\ Len(u.pending) <= i - 1 BY <2>1
  <2>3. v \in Sessions
    <3>1. Good(v, n, D) BY <1>2, <2>1, GoodReexecute
    <3> QED BY <3>1 DEF Good, Grounded
  <2>4. Len(v.pending) <= i
    <3>1. u.pending \in Seq(Entries) BY <2>2 DEF Sessions
    <3>2. v.pending = u.pending \/ \E x : v.pending = Append(u.pending, x)
      BY <2>2 DEF Reexecute, RemoveRecord, Sessions
    <3> QED BY <2>2, <3>1, <3>2
  <2> HIDE DEF v
  <2> QED BY <2>1, <2>3, <2>4 DEF v
<1> HIDE DEF X, k
<1>3. Rebase(t, sk) \in X[Len(t.pending)] BY <1>1, <1>2, RebaseInduction DEF k
<1>4. k \in 0..k BY <1>0
<1>5. Len(Rebase(t, sk).pending) <= Len(t.pending) BY <1>3, <1>4 DEF X, k
<1>6. SameControl(Rebase(t, sk), t) BY GoodRebase
<1> QED BY <1>5, <1>6 DEF SameControl, SameSync

(***************************************************************************)
(* An operation that is taken up advances the session by one revision,     *)
(* and leaves no longer a queue and no other control.                      *)
(***************************************************************************)
Advances(u, t, rev) ==
  /\ Len(u.pending) <= Len(t.pending)
  /\ u.status = t.status /\ u.sync = t.sync /\ u.resync = t.resync
  /\ u.syncTarget = t.syncTarget /\ u.confirmedRevision = rev

(* An operation that fits advances the session by one revision.            *)
LEMMA IngestFacts ==
  ASSUME NEW l, NEW D, ServerOK(l, D), NEW t, Good(t, Len(l), D), NEW rev \in 1..Len(l),
         ~IngestFails(t, rev, l[rev])
  PROVE  /\ Advances(IngestOrdered(t, rev, l[rev]), t, rev)
         /\ IngestOrdered(t, rev, l[rev]).pump = t.pump
<1> DEFINE op == l[rev]
           u == Advance(t, rev, op)
<1>0. /\ Len(l) \in Nat /\ t \in Sessions /\ rev = t.confirmedRevision + 1
      /\ t.pending \in Seq(Entries)
  BY DEF ServerOK, Good, Grounded, Sessions, IngestFails
<1>1. /\ SameWork(u, t) /\ u.status = t.status /\ u.sync = t.sync /\ u.resync = t.resync
      /\ u.syncTarget = t.syncTarget /\ u.confirmedRevision = rev
  BY <1>0 DEF Advance, Sessions, SameWork
<1>2. Grounded(u, Len(l), D) BY <1>0, GroundedAdvance
<1>3. CASE IsPendingHead(t, op)
  <2>1. IngestOrdered(t, rev, op) = Ack(t, rev, op) BY <1>3 DEF IngestOrdered
  <2>2. t.pending # <<>> BY <1>3 DEF IsPendingHead
  <2>3. Len(Tail(t.pending)) <= Len(t.pending) BY <1>0, <2>2
  <2> QED BY <1>0, <2>1, <2>3 DEF Ack, Sessions, Advances
<1> HIDE DEF u
<1>4. CASE ~IsPendingHead(t, op) /\ IsAttempt(t, op)
  <2> DEFINE e == t.pending[ClaimOf(t, op)]
             w == RemoveRecord(u, e.rec)
  <2>1. IngestOrdered(t, rev, op) = Rebase(w, {e.intent})
    BY <1>4 DEF IngestOrdered, ConfirmPending, u
  <2> HIDE DEF e
  <2>2. Grounded(w, Len(l), D) BY <1>0, <1>2, GoodRemoveRecord
  <2>3. SameSync(w, u) /\ w.pump = u.pump /\ w.pending = u.pending
    <3>1. u \in Sessions BY <1>2 DEF Grounded
    <3> QED BY <3>1 DEF RemoveRecord, Sessions, SameSync
  <2> HIDE DEF w
  <2>4. /\ Len(Rebase(w, {e.intent}).pending) <= Len(w.pending)
        /\ SameSync(Rebase(w, {e.intent}), w) /\ Rebase(w, {e.intent}).pump = w.pump
    BY <1>0, <2>2, RebaseShortens
  <2> QED BY <1>1, <2>1, <2>3, <2>4 DEF SameSync, SameWork, Advances
<1>5. CASE ~IsPendingHead(t, op) /\ ~IsAttempt(t, op)
  <2>1. IngestOrdered(t, rev, op) = Rebase(u, {})
    BY <1>5 DEF IngestOrdered, ApplyForeign, u
  <2>2. /\ Len(Rebase(u, {}).pending) <= Len(u.pending)
        /\ SameSync(Rebase(u, {}), u) /\ Rebase(u, {}).pump = u.pump
    BY <1>0, <1>2, RebaseShortens
  <2> QED BY <1>1, <2>1, <2>2 DEF SameSync, SameWork, Advances
<1> QED BY <1>3, <1>4, <1>5

(***************************************************************************)
(* An ordered operation, however it arrives, is behind the session, puts   *)
(* it behind, or advances it and wakes the pump.                           *)
(***************************************************************************)
LEMMA HandleFacts ==
  ASSUME NEW l, NEW D, ServerOK(l, D), NEW t, Good(t, Len(l), D), Awake(t), ~Terminal(t),
         NEW rev \in 1..Len(l), NEW u, u = HandleServerOp(t, rev, l[rev])
  PROVE  /\ Reach(t) <= Reach(u) /\ rev <= Reach(u)
         /\ \/ u = t
            \/ FallsBehind(u, t)
            \/ Advances(u, t, rev) /\ u.pump.pc # "idle" /\ rev = t.confirmedRevision + 1
<1>0. /\ Len(l) \in Nat /\ t \in Sessions /\ rev \in Nat
      /\ t.confirmedRevision \in Nat /\ t.syncTarget \in Nat
  BY DEF ServerOK, Good, Grounded, Sessions
<1>1. CASE rev <= t.confirmedRevision
  <2>1. u = t BY <1>1 DEF HandleServerOp
  <2> QED BY <1>0, <1>1, <2>1 DEF Reach, Larger
<1>2. CASE rev > t.confirmedRevision + 1
  <2>1. u = RequestCatchUp(t, rev) BY <1>0, <1>2 DEF HandleServerOp
  <2>2. FallsBehind(u, t) /\ u.syncTarget = Larger(t.syncTarget, rev)
    BY <1>0, <2>1, RequestFacts
  <2> QED BY <1>0, <2>2 DEF FallsBehind, Reach, Larger
<1>3. CASE rev = t.confirmedRevision + 1 /\ IngestFails(t, rev, l[rev])
  <2>1. u = RequestResync(RaiseTarget(t, rev)) BY <1>0, <1>3 DEF HandleServerOp
  <2>2. FallsBehind(u, t) /\ u.syncTarget = Larger(t.syncTarget, rev)
    BY <1>0, <2>1, RequestFacts
  <2> QED BY <1>0, <2>2 DEF FallsBehind, Reach, Larger
<1>4. CASE rev = t.confirmedRevision + 1 /\ ~IngestFails(t, rev, l[rev])
  <2> DEFINE v == IngestOrdered(t, rev, l[rev])
  <2>1. u = Pump(v) BY <1>0, <1>4 DEF HandleServerOp
  <2>2. Advances(v, t, rev) /\ Good(v, Len(l), D) BY <1>4, IngestFacts, GoodIngestOrdered
  <2>3. v \in Sessions BY <2>2 DEF Good, Grounded
  <2> HIDE DEF v
  <2>4. Advances(u, t, rev) /\ u.pump.pc # "idle"
    BY <2>1, <2>2, <2>3, PumpFacts DEF Advances, SameSync
  <2> QED BY <1>0, <1>4, <2>4 DEF Advances, Reach, Larger
<1> QED BY <1>0, <1>1, <1>2, <1>3, <1>4

(***************************************************************************)
(* What the handlers do, in these terms.                                   *)
(***************************************************************************)
LEMMA BehindIsOnward ==
  ASSUME NEW t \in Sessions, NEW u, ~Terminal(t), FallsBehind(u, t), Reach(t) <= Reach(u)
  PROVE  Onward(u, t)
<1>1. t.status \in {"live", "catching-up"} BY DEF Terminal, Sessions, Statuses
<1>2. /\ u.pump = t.pump /\ u.pending = t.pending
      /\ u.status = "catching-up" /\ u.sync.pc # "idle"
  BY DEF FallsBehind, SameWork
<1>3. Awake(u) BY <1>2 DEF Awake
<1>4. Settles(u, t) BY <1>1, <1>2 DEF Settles
<1> QED BY <1>3, <1>4 DEF Onward

(***************************************************************************)
(* Taking up the next operation is onward.                                 *)
(***************************************************************************)
LEMMA AdvanceIsOnward ==
  ASSUME NEW t \in Sessions, NEW u \in Sessions, Awake(t), ~Terminal(t),
         NEW rev \in Nat, rev = t.confirmedRevision + 1, Advances(u, t, rev),
         u.pump.pc # "idle"
  PROVE  Onward(u, t)
<1>0. /\ t.confirmedRevision \in Nat /\ t.syncTarget \in Nat
      /\ Len(t.pending) \in Nat /\ Len(u.pending) \in Nat
  <2>1. t.pending \in Seq(Entries) /\ u.pending \in Seq(Entries) BY DEF Sessions
  <2>2. t.confirmedRevision \in Nat /\ t.syncTarget \in Nat BY DEF Sessions
  <2> QED BY <2>1, <2>2
<1>1. Awake(u) BY <1>0 DEF Awake, Advances
<1>2. Reach(t) <= Reach(u) BY <1>0 DEF Reach, Larger, Advances
<1>3. Settles(u, t)
  <2>1. t.status \in {"live", "catching-up"} BY DEF Terminal, Sessions, Statuses
  <2>2. Len(u.pending) = Len(t.pending) \/ Len(u.pending) < Len(t.pending)
    BY <1>0 DEF Advances
  <2>3. u.status = t.status BY DEF Advances
  <2> QED BY <2>1, <2>2, <2>3 DEF Settles
<1> QED BY <1>1, <1>2, <1>3 DEF Onward

(***************************************************************************)
(* A session that only changes in its fields off the control stays onward. *)
(***************************************************************************)
LEMMA SameIsOnward ==
  ASSUME NEW t \in Sessions, NEW u, Awake(t), SameSync(u, t),
         Len(u.pending) = Len(t.pending), t.pending = <<>> => u.pending = <<>>,
         u.pump.pc = "idle" => t.pump.pc = "idle"
  PROVE  Onward(u, t)
<1>1. Awake(u) BY DEF Awake, SameSync
<1>2. t.confirmedRevision \in Nat /\ t.syncTarget \in Nat BY DEF Sessions
<1>3. Reach(t) <= Reach(u) BY <1>2 DEF Reach, Larger, SameSync
<1>4. Settles(u, t) BY DEF Settles, SameSync
<1> QED BY <1>1, <1>3, <1>4 DEF Onward

(***************************************************************************)
(* Every frame of the stream moves the session onward.                     *)
(***************************************************************************)
LEMMA EventIsOnward ==
  ASSUME ServerOK(log, docs), NEW t, Good(t, Tip, docs), Awake(t),
         NEW f \in Frames, f.rev <= Tip, f.kind = "op" => f.rev >= 1
  PROVE  /\ Onward(HandleEvent(t, f), t)
         /\ ~Terminal(t) /\ f.kind \in {"op", "connected"} => f.rev <= Reach(HandleEvent(t, f))
         /\ ~Terminal(t) /\ f.kind \in {"session-closed", "mismatch"} =>
              Terminal(HandleEvent(t, f))
<1> DEFINE u == HandleEvent(t, f)
<1>0. /\ Tip \in Nat /\ f.rev \in Nat /\ t \in Sessions
      /\ t.confirmedRevision \in Nat /\ t.syncTarget \in Nat
  BY DEF ServerOK, Tip, Frames, Good, Grounded, Sessions
<1>1. CASE Terminal(t)
  <2>1. u = t BY <1>1 DEF HandleEvent
  <2>2. Onward(t, t) BY <1>0, SameIsOnward DEF SameSync
  <2> QED BY <1>1, <2>1, <2>2
<1>2. CASE ~Terminal(t) /\ f.kind = "op"
  <2>1. u = HandleServerOp(t, f.rev, log[f.rev]) BY <1>2 DEF HandleEvent
  <2>2. f.rev \in 1..Len(log) /\ ServerOK(log, docs) /\ Good(t, Len(log), docs)
    BY <1>0, <1>2 DEF Tip
  <2> HIDE DEF u
  <2>3. /\ Reach(t) <= Reach(u) /\ f.rev <= Reach(u)
        /\ \/ u = t
           \/ FallsBehind(u, t)
           \/ /\ Advances(u, t, f.rev) /\ u.pump.pc # "idle"
              /\ f.rev = t.confirmedRevision + 1
    BY <1>2, <2>1, <2>2, HandleFacts
  <2>4. u \in Sessions
    <3>1. Good(u, Len(log), docs) BY <2>1, <2>2, GoodHandleServerOp
    <3> QED BY <3>1 DEF Good, Grounded
  <2>5. Onward(t, t) BY <1>0, SameIsOnward DEF SameSync
  <2>6. Onward(u, t) BY <1>0, <1>2, <2>3, <2>4, <2>5, BehindIsOnward, AdvanceIsOnward
  <2> QED BY <1>2, <2>3, <2>6 DEF u
<1>3. CASE ~Terminal(t) /\ f.kind = "garbage"
  <2>1. u = RequestResync(t) BY <1>3 DEF HandleEvent
  <2> HIDE DEF u
  <2>2. FallsBehind(u, t) /\ u.syncTarget = t.syncTarget BY <1>0, <1>3, <2>1, RequestFacts
  <2>3. Reach(t) <= Reach(u) BY <1>0, <2>2 DEF FallsBehind, Reach, Larger
  <2>4. Onward(u, t) BY <1>0, <1>3, <2>2, <2>3, BehindIsOnward
  <2> QED BY <1>3, <2>4 DEF u
<1>4. CASE ~Terminal(t) /\ f.kind = "connected"
  <2> DEFINE up == [t EXCEPT !.connected = TRUE]
  <2>1. u = IF f.rev > up.confirmedRevision THEN RequestCatchUp(up, f.rev) ELSE up
    <3>1. up.confirmedRevision = t.confirmedRevision BY <1>0 DEF Sessions
    <3> QED BY <1>4, <3>1 DEF HandleEvent, OnConnected
  <2>2. up \in Sessions /\ SameSync(up, t) /\ SameWork(up, t)
    BY <1>0 DEF Sessions, SameSync, SameWork
  <2> HIDE DEF u, up
  <2>3. Awake(up) /\ ~Terminal(up) BY <1>4, <2>2 DEF Awake, Terminal, SameSync, SameWork
  <2>4. CASE f.rev > up.confirmedRevision
    <3>1. FallsBehind(u, up) /\ u.syncTarget = Larger(up.syncTarget, f.rev)
      BY <1>0, <2>1, <2>2, <2>3, <2>4, RequestFacts
    <3>2. FallsBehind(u, t) /\ u.syncTarget = Larger(t.syncTarget, f.rev)
      BY <2>2, <3>1 DEF FallsBehind, SameSync, SameWork
    <3>3. Reach(t) <= Reach(u) /\ f.rev <= Reach(u)
      BY <1>0, <3>2 DEF FallsBehind, Reach, Larger
    <3>4. Onward(u, t) BY <1>0, <1>4, <3>2, <3>3, BehindIsOnward
    <3> QED BY <1>4, <3>3, <3>4 DEF u
  <2>5. CASE f.rev <= up.confirmedRevision
    <3>1. u = up
      <4>1. up.confirmedRevision \in Nat BY <2>2 DEF Sessions
      <4> QED BY <1>0, <2>1, <2>5, <4>1
    <3>2. Onward(u, t) BY <1>0, <2>2, <3>1, SameIsOnward DEF SameWork
    <3>3. f.rev <= Reach(u) BY <1>0, <2>2, <2>5, <3>1 DEF SameSync, Reach, Larger
    <3> QED BY <1>4, <3>2, <3>3 DEF u
  <2>6. up.confirmedRevision \in Nat BY <2>2 DEF Sessions
  <2> QED BY <1>0, <2>4, <2>5, <2>6
<1>5. CASE ~Terminal(t) /\ f.kind = "disconnected"
  <2>1. u = [t EXCEPT !.connected = FALSE] BY <1>5 DEF HandleEvent
  <2>2. SameSync(u, t) /\ SameWork(u, t) BY <1>0, <2>1 DEF Sessions, SameSync, SameWork
  <2>3. Onward(u, t) BY <1>0, <2>2, SameIsOnward DEF SameWork
  <2> QED BY <1>5, <2>3
<1>6. CASE ~Terminal(t) /\ f.kind = "session-closed"
  <2>1. u = CloseOn(t) BY <1>6 DEF HandleEvent
  <2>2. /\ SameWork(u, t) /\ u.status = "closed" /\ u.syncTarget = t.syncTarget
        /\ u.confirmedRevision = t.confirmedRevision
    BY <1>0, <2>1 DEF CloseOn, Sessions, SameWork
  <2>3. t.status \in {"live", "catching-up"} BY <1>0, <1>6 DEF Terminal, Sessions, Statuses
  <2>4. Settles(u, t) BY <2>2, <2>3 DEF Settles, SameWork
  <2>5. Awake(u) /\ Reach(t) <= Reach(u) BY <1>0, <2>2 DEF Awake, Reach, Larger
  <2> QED BY <1>6, <2>2, <2>4, <2>5 DEF Onward, Terminal
<1>7. CASE ~Terminal(t) /\ f.kind = "mismatch"
  <2>1. u = [t EXCEPT !.status = "error", !.connected = FALSE] BY <1>7 DEF HandleEvent, Fail
  <2>2. /\ u.pending = t.pending /\ u.pump = t.pump /\ u.status = "error"
        /\ u.syncTarget = t.syncTarget /\ u.confirmedRevision = t.confirmedRevision
    BY <1>0, <2>1 DEF Sessions
  <2>3. t.status \in {"live", "catching-up"} BY <1>0, <1>7 DEF Terminal, Sessions, Statuses
  <2>4. Settles(u, t) BY <2>2, <2>3 DEF Settles
  <2>5. Awake(u) /\ Reach(t) <= Reach(u) BY <1>0, <2>2 DEF Awake, Reach, Larger
  <2> QED BY <1>7, <2>2, <2>4, <2>5 DEF Onward, Terminal
<1> QED BY <1>1, <1>2, <1>3, <1>4, <1>5, <1>6, <1>7 DEF Frames

(***************************************************************************)
(* Sending the pump elsewhere than to rest.                                *)
(***************************************************************************)
LEMMA Repumped ==
  ASSUME NEW t \in Sessions, NEW u \in Sessions, Onward(u, t), t.pump.pc # "idle",
         NEW pc \in {"ready", "publish", "delay", "exit"}
  PROVE  Onward([u EXCEPT !.pump = PumpAt(pc)], t)
<1> DEFINE v == [u EXCEPT !.pump = PumpAt(pc)]
<1>1. /\ SameSync(v, u) /\ v.pending = u.pending /\ v.pump.pc # "idle"
  BY PumpAtType DEF Sessions, SameSync
<1> HIDE DEF v
<1>2. Awake(v) BY <1>1 DEF Onward, Awake, SameSync
<1>3. Reach(v) = Reach(u) BY <1>1 DEF Reach, SameSync
<1>4. Settles(v, t)
  <2>1. u.status = v.status /\ Len(u.pending) = Len(v.pending) BY <1>1 DEF SameSync
  <2> QED BY <1>1, <2>1 DEF Onward, Settles
<1> QED BY <1>2, <1>3, <1>4 DEF Onward, v

(***************************************************************************)
(* The head of the pump's loop, in a session whose pump is at work.        *)
(***************************************************************************)
LEMMA PumpTopOnward ==
  ASSUME NEW t \in Sessions, NEW u \in Sessions, Onward(u, t), t.pump.pc # "idle"
  PROVE  Onward(PumpTop(u), t)
<1> DEFINE v == PumpTop(u)
<1>1. /\ SameSync(v, u) /\ Len(v.pending) = Len(u.pending) /\ v.pump.pc # "idle"
  BY PumpTopFacts
<1> HIDE DEF v
<1>2. Awake(v) BY <1>1 DEF Onward, Awake, SameSync
<1>3. Reach(v) = Reach(u) BY <1>1 DEF Reach, SameSync
<1>4. Settles(v, t)
  <2>1. u.status = v.status BY <1>1 DEF SameSync
  <2> QED BY <1>1, <2>1 DEF Onward, Settles
<1> QED BY <1>2, <1>3, <1>4 DEF Onward, v

(***************************************************************************)
(* An awake session is onward from itself.                                 *)
(***************************************************************************)
LEMMA StillOnward == ASSUME NEW t \in Sessions, Awake(t) PROVE Onward(t, t)
BY SameIsOnward DEF SameSync

(***************************************************************************)
(* Giving a submission up for a synchronisation.                           *)
(***************************************************************************)
LEMMA GiveUpOnward ==
  ASSUME NEW n \in Nat, NEW D, NEW t, Good(t, n, D), Awake(t), ~Terminal(t),
         t.pump.pc # "idle", NEW rev \in Nat, rev <= n
  PROVE  /\ Onward([RequestResync(RaiseTarget(t, rev)) EXCEPT !.pump = PumpAt("exit")], t)
         /\ Onward([RequestResync(t) EXCEPT !.pump = PumpAt("exit")], t)
         /\ Onward([RequestCatchUp(t, rev) EXCEPT !.pump = PumpAt("exit")], t)
<1> DEFINE a == RequestResync(RaiseTarget(t, rev))
           b == RequestResync(t)
           c == RequestCatchUp(t, rev)
<1>0. t \in Sessions /\ t.confirmedRevision \in Nat /\ t.syncTarget \in Nat
  BY DEF Good, Grounded, Sessions
<1>1. /\ FallsBehind(a, t) /\ a.syncTarget = Larger(t.syncTarget, rev)
      /\ FallsBehind(b, t) /\ b.syncTarget = t.syncTarget
      /\ FallsBehind(c, t) /\ c.syncTarget = Larger(t.syncTarget, rev)
  BY <1>0, RequestFacts
<1>2. a \in Sessions /\ b \in Sessions /\ c \in Sessions
  <2>1. Good(RaiseTarget(t, rev), n, D) BY GoodRaiseTarget
  <2>2. Good(a, n, D) BY <2>1, GoodRequestResync
  <2>3. Good(b, n, D) /\ Good(c, n, D) BY GoodRequestResync, GoodRequestCatchUp
  <2> QED BY <2>2, <2>3 DEF Good, Grounded
<1> HIDE DEF a, b, c
<1>3. Reach(t) <= Reach(a) /\ Reach(t) <= Reach(b) /\ Reach(t) <= Reach(c)
  BY <1>0, <1>1 DEF FallsBehind, Reach, Larger
<1>4. Onward(a, t) /\ Onward(b, t) /\ Onward(c, t) BY <1>0, <1>1, <1>3, BehindIsOnward
<1>5. /\ Onward([a EXCEPT !.pump = PumpAt("exit")], t)
      /\ Onward([b EXCEPT !.pump = PumpAt("exit")], t)
      /\ Onward([c EXCEPT !.pump = PumpAt("exit")], t)
  BY <1>0, <1>2, <1>4, Repumped
<1> QED BY <1>5 DEF a, b, c

(***************************************************************************)
(* An accepting answer moves a live session onward.                        *)
(***************************************************************************)
LEMMA AcceptedOnward ==
  ASSUME ServerOK(log, docs), NEW t, Good(t, Tip, docs), Awake(t), ~Terminal(t),
         t.pump.pc # "idle", NEW req, NEW rev \in 1..Tip
  PROVE  Onward(OnAccepted(t, req, rev), t)
<1> DEFINE h == HandleServerOp(t, rev, log[rev])
           a == [RequestResync(RaiseTarget(t, rev)) EXCEPT !.pump = PumpAt("exit")]
<1>0. /\ Tip \in Nat /\ rev \in Nat /\ rev <= Tip /\ t \in Sessions
      /\ rev \in 1..Len(log) /\ Good(t, Len(log), docs)
  BY DEF ServerOK, Tip, Good, Grounded
<1>1. Onward(PumpTop(t), t) BY <1>0, StillOnward, PumpTopOnward
<1>2. Onward(a, t) BY <1>0, GiveUpOnward
<1>3. OnAccepted(t, req, rev) \in {PumpTop(t), a, [h EXCEPT !.pump = PumpAt("exit")], PumpTop(h)}
  BY DEF OnAccepted
<1>4. /\ Reach(t) <= Reach(h)
      /\ \/ h = t
         \/ FallsBehind(h, t)
         \/ Advances(h, t, rev) /\ h.pump.pc # "idle" /\ rev = t.confirmedRevision + 1
  BY <1>0, HandleFacts
<1>5. h \in Sessions
  <2>1. Good(h, Len(log), docs) BY <1>0, GoodHandleServerOp
  <2> QED BY <2>1 DEF Good, Grounded
<1> HIDE DEF h, a
<1>6. Onward(h, t) BY <1>0, <1>4, <1>5, StillOnward, BehindIsOnward, AdvanceIsOnward
<1>7. Onward([h EXCEPT !.pump = PumpAt("exit")], t) /\ Onward(PumpTop(h), t)
  BY <1>0, <1>5, <1>6, Repumped, PumpTopOnward
<1> QED BY <1>1, <1>2, <1>3, <1>7

(***************************************************************************)
(* Failing, closing and publishing.                                        *)
(***************************************************************************)
LEMMA FailFacts ==
  ASSUME NEW t \in Sessions
  PROVE  /\ SameWork(Fail(t), t) /\ Fail(t).sync = t.sync /\ Fail(t).syncTarget = t.syncTarget
         /\ Fail(t).confirmedRevision = t.confirmedRevision
         /\ Terminal(t) => Fail(t).status = t.status
         /\ ~Terminal(t) => Fail(t).status = "error"
BY DEF Fail, Sessions, SameWork

(***************************************************************************)
(* A step that leaves an ended session, its work and its revisions.        *)
(***************************************************************************)
LEMMA EndIsOnward ==
  ASSUME NEW t \in Sessions, NEW u, Terminal(u), t.status # "closed",
         u.status = t.status \/ t.status # "error" \/ u.status = "closed",
         u.pending = t.pending, u.pump.pc = "idle" <=> t.pump.pc = "idle",
         u.syncTarget = t.syncTarget, u.confirmedRevision = t.confirmedRevision
  PROVE  Onward(u, t)
<1>1. Awake(u) BY DEF Awake, Terminal
<1>2. Reach(t) <= Reach(u) BY DEF Reach, Larger, Sessions
<1>3. Settles(u, t)
  <2>1. t.status \in {"live", "catching-up", "error"} BY DEF Sessions, Statuses
  <2>2. u.status \in {"closed", "error"} BY DEF Terminal
  <2> QED BY <2>1, <2>2 DEF Settles
<1> QED BY <1>1, <1>2, <1>3 DEF Onward

(***************************************************************************)
(* Every answer to a submission moves the session onward.                  *)
(***************************************************************************)
LEMMA PumpReplyOnward == ASSUME IInv, Awake(s), PumpReply PROVE Onward(s', s)
<1> DEFINE reply == s.pump.reply
           a == [Fail(s) EXCEPT !.pump = PumpAt("exit")]
           b == [Fail(s) EXCEPT !.pump = PumpAt("exit"), !.denied = TRUE]
           c == [PublishOn(s) EXCEPT !.pump = PumpAt("publish")]
<1>0. /\ Tip \in Nat /\ s \in Sessions /\ s.pump.pc # "idle" /\ Good(s, Tip, docs)
      /\ reply \in PostReplies /\ reply.rev \in Nat /\ reply.rev <= Tip
      /\ reply.kind = "accepted" => reply.rev \in 1..Tip
  <2>1. s.pump.pc = "post" BY DEF PumpReply
  <2>2. reply.rev \in Nat BY Here DEF PostReplies, NoReply
  <2> QED BY <2>1, <2>2, Here
<1>1. CASE s.status # "live"
  <2>1. s' = [s EXCEPT !.pump = PumpAt("exit")] BY <1>1 DEF PumpReply
  <2> QED BY <1>0, <2>1, StillOnward, Repumped
<1>2. CASE s.status = "live"
  <2>0. ~Terminal(s) BY <1>2 DEF Terminal
  <2>1. \/ reply.kind = "accepted" /\ s' = OnAccepted(s, s.pump.req, reply.rev)
        \/ s' = [RequestResync(s) EXCEPT !.pump = PumpAt("exit")]
        \/ s' = OnMangled(s, reply.rev)
        \/ s' = OnStaleBase(s, s.pump.req, reply.rev)
        \/ s' = a \/ s' = b \/ s' = c
    <3>1. reply # NoReply /\ reply.kind \in {"accepted", "invalid", "mangled", "stale-base",
                                "snapshot-required", "protocol-unsupported", "forbidden"}
      <4>1. reply # NoReply BY DEF PumpReply
      <4> QED BY <1>0, <4>1 DEF PostReplies
    <3> QED BY <1>2, <3>1 DEF PumpReply
  <2>2. reply.kind = "accepted" => Onward(OnAccepted(s, s.pump.req, reply.rev), s)
    BY <1>0, <2>0, Here, AcceptedOnward
  <2>3. /\ Onward([RequestResync(s) EXCEPT !.pump = PumpAt("exit")], s)
        /\ Onward(PumpTop(s), s)
        /\ Onward([RequestResync(RaiseTarget(s, reply.rev)) EXCEPT !.pump = PumpAt("exit")], s)
        /\ Onward([RequestCatchUp(s, reply.rev) EXCEPT !.pump = PumpAt("exit")], s)
    BY <1>0, <2>0, GiveUpOnward, StillOnward, PumpTopOnward
  <2>4. Onward(OnMangled(s, reply.rev), s) BY <2>3 DEF OnMangled
  <2>5. Onward(OnStaleBase(s, s.pump.req, reply.rev), s) BY <2>3 DEF OnStaleBase
  <2>6. Onward(a, s) /\ Onward(b, s)
    <3>1. /\ a.status = "error" /\ a.pump.pc # "idle" /\ a.pending = s.pending
          /\ a.syncTarget = s.syncTarget /\ a.confirmedRevision = s.confirmedRevision
          /\ b.status = "error" /\ b.pump.pc # "idle" /\ b.pending = s.pending
          /\ b.syncTarget = s.syncTarget /\ b.confirmedRevision = s.confirmedRevision
      BY <1>0, <1>2, PumpAtType DEF Fail, Terminal, Sessions
    <3> HIDE DEF a, b
    <3>2. Terminal(a) /\ Terminal(b) BY <3>1 DEF Terminal
    <3> QED BY <1>0, <1>2, <3>1, <3>2, EndIsOnward
  <2>7. Onward(c, s)
    <3>1. Good(PublishOn(s), Tip, docs) BY <1>0, GoodPublishOn
    <3>2. PublishOn(s) \in Sessions BY <3>1 DEF Good, Grounded
    <3>3. SameSync(PublishOn(s), s) /\ SameWork(PublishOn(s), s)
      BY <1>0 DEF PublishOn, Sessions, SameSync, SameWork
    <3>4. Onward(PublishOn(s), s) BY <1>0, <3>3, SameIsOnward DEF SameWork
    <3> QED BY <1>0, <3>2, <3>4, Repumped
  <2> HIDE DEF a, b, c
  <2> QED BY <2>1, <2>2, <2>3, <2>4, <2>5, <2>6, <2>7
<1> QED BY <1>1, <1>2

-----------------------------------------------------------------------------
(***************************************************************************)
(* Synchronising: a session that is catching up, its queue no longer than  *)
(* before, its revision or its target at least as far.                     *)
(***************************************************************************)
Catching(u, t) ==
  /\ u.status = t.status /\ u.pump = t.pump
  /\ Len(u.pending) <= Len(t.pending)
  /\ Reach(t) <= Reach(u)

(***************************************************************************)
(* The head of the sync loop, after any such change.                       *)
(***************************************************************************)
LEMMA SyncTopOnward ==
  ASSUME NEW t \in Sessions, t.status = "catching-up", NEW u \in Sessions, Catching(u, t),
         NEW v, v = SyncTop(u) \/ v = [u EXCEPT !.sync = SyncAt("delay", 0)]
  PROVE  Onward(v, t)
<1>1. /\ v.status = "catching-up" /\ v.sync.pc # "idle" /\ v.pump = t.pump
      /\ v.pending = u.pending
      /\ v.syncTarget = u.syncTarget /\ v.confirmedRevision = u.confirmedRevision
  <2>1. CASE v = SyncTop(u)
    BY <2>1, SyncTopFacts DEF SameWork, Catching
  <2>2. CASE v = [u EXCEPT !.sync = SyncAt("delay", 0)]
    BY <2>2, SyncAtType DEF Sessions, Catching
  <2> QED BY <2>1, <2>2
<1>2. Awake(v) BY <1>1 DEF Awake
<1>3. Reach(t) <= Reach(v) BY <1>1 DEF Catching, Reach
<1>4. Settles(v, t)
  <2>1. Len(t.pending) \in Nat /\ Len(u.pending) \in Nat BY DEF Sessions
  <2>2. Len(v.pending) = Len(t.pending) \/ Len(v.pending) < Len(t.pending)
    BY <1>1, <2>1 DEF Catching
  <2> QED BY <1>1, <2>2 DEF Settles
<1> QED BY <1>2, <1>3, <1>4 DEF Onward

(***************************************************************************)
(* A fetched page.                                                         *)
(***************************************************************************)
LEMMA PageOnward ==
  ASSUME NEW l, NEW D, ServerOK(l, D), NEW t, Good(t, Len(l), D), t.status = "catching-up",
         NEW after \in Nat, NEW head \in Nat, head <= Len(l)
  PROVE  /\ Onward(IngestPage(t, after, SubSeq(l, after + 1, head)), t)
         /\ Onward(IngestCut(t, after, SubSeq(l, after + 1, head)), t)
<1> DEFINE ops == SubSeq(l, after + 1, head)
           u == PageRun(t, after, ops)[Len(ops)].t
           X == {acc \in Pages : Catching(acc.t, t)}
           start == [t |-> t, progressed |-> FALSE, broken |-> FALSE]
<1>0. /\ Len(l) \in Nat /\ l \in Seq(ServerOps) /\ t \in Sessions
      /\ t.confirmedRevision \in Nat /\ t.syncTarget \in Nat
  BY DEF ServerOK, Good, Grounded, Sessions
<1>1. /\ ops \in Seq(ServerOps)
      /\ after + Len(ops) <= Len(l) \/ Len(ops) = 0
      /\ \A i \in 1..Len(ops) : ops[i] = l[after + i]
  <2>1. head \in 0..Len(l) /\ after + 1 \in Nat BY <1>0
  <2>2. \A i \in after + 1..head : l[i] \in ServerOps BY <1>0, <2>1
  <2>3. ops \in Seq(ServerOps) BY <1>0, <2>1, <2>2
  <2>4. after + Len(ops) <= Len(l) \/ Len(ops) = 0 BY <1>0, <2>1
  <2>5. \A i \in 1..Len(ops) : ops[i] = l[after + i] BY <1>0, <2>1
  <2> QED BY <2>3, <2>4, <2>5
<1>2. start \in X
  <2>1. Catching(t, t)
    <3>1. Len(t.pending) \in Nat BY <1>0 DEF Sessions
    <3>2. Reach(t) \in Nat BY <1>0 DEF Reach, Larger
    <3> QED BY <3>1, <3>2 DEF Catching
  <2>2. start \in Pages BY <1>0 DEF Pages
  <2> QED BY <2>1, <2>2
<1>3. ASSUME NEW rev \in 1..Len(l), NEW acc \in X, acc \in Pages, Good(acc.t, Len(l), D)
      PROVE  PageStep(acc, rev, l[rev]) \in X
  <2> DEFINE x == [RaiseTarget(acc.t, rev) EXCEPT !.resync = TRUE]
             y == IngestOrdered(acc.t, rev, l[rev])
  <2>0. /\ rev \in Nat /\ acc.t \in Sessions /\ acc.t.confirmedRevision \in Nat
        /\ acc.t.syncTarget \in Nat /\ Catching(acc.t, t)
    BY <1>0, <1>3 DEF Good, Grounded, Sessions
  <2>1. \/ PageStep(acc, rev, l[rev]) = acc
        \/ PageStep(acc, rev, l[rev]) = [acc EXCEPT !.broken = TRUE, !.t = x]
        \/ /\ ~IngestFails(acc.t, rev, l[rev])
           /\ PageStep(acc, rev, l[rev]) = [acc EXCEPT !.t = y, !.progressed = TRUE]
    BY DEF PageStep
  <2>2. x \in Sessions /\ Catching(x, t)
    <3> DEFINE m == Larger(acc.t.syncTarget, rev)
    <3>1. m \in Nat /\ acc.t.syncTarget <= m BY <2>0, LargerIsMax
    <3>2. x = [[acc.t EXCEPT !.syncTarget = m] EXCEPT !.resync = TRUE] BY DEF RaiseTarget
    <3> HIDE DEF m, x
    <3>3. /\ x \in Sessions /\ x.status = acc.t.status /\ x.pump = acc.t.pump
          /\ x.pending = acc.t.pending /\ x.syncTarget = m
          /\ x.confirmedRevision = acc.t.confirmedRevision
      BY <2>0, <3>1, <3>2 DEF Sessions
    <3>4. Reach(acc.t) <= Reach(x) /\ Reach(acc.t) \in Nat /\ Reach(x) \in Nat
      BY <2>0, <3>1, <3>3 DEF Reach, Larger
    <3>5. Reach(t) \in Nat BY <1>0 DEF Reach, Larger
    <3> QED BY <2>0, <3>3, <3>4, <3>5 DEF Catching
  <2>3. ~IngestFails(acc.t, rev, l[rev]) => y \in Sessions /\ Catching(y, t)
    <3> SUFFICES ASSUME ~IngestFails(acc.t, rev, l[rev])
                 PROVE  y \in Sessions /\ Catching(y, t)
      OBVIOUS
    <3>1. Advances(y, acc.t, rev) /\ y.pump = acc.t.pump BY <1>3, IngestFacts
    <3>2. y \in Sessions
      <4>1. Good(y, Len(l), D) BY <1>3, GoodIngestOrdered
      <4> QED BY <4>1 DEF Good, Grounded
    <3>3. rev = acc.t.confirmedRevision + 1 BY DEF IngestFails
    <3> HIDE DEF y
    <3>4. /\ Len(y.pending) \in Nat /\ Len(acc.t.pending) \in Nat /\ Len(t.pending) \in Nat
      <4>1. y.pending \in Seq(Entries) BY <3>2 DEF Sessions
      <4>2. acc.t.pending \in Seq(Entries) BY <2>0 DEF Sessions
      <4>3. t.pending \in Seq(Entries) BY <1>0 DEF Sessions
      <4> QED BY <4>1, <4>2, <4>3
    <3>5. Reach(acc.t) <= Reach(y) /\ Reach(acc.t) \in Nat /\ Reach(y) \in Nat
      <4>1. y.confirmedRevision = acc.t.confirmedRevision + 1 /\ y.syncTarget = acc.t.syncTarget
        BY <3>1, <3>3 DEF Advances
      <4> QED BY <2>0, <4>1 DEF Reach, Larger
    <3>6. Reach(t) \in Nat BY <1>0 DEF Reach, Larger
    <3>7. Reach(t) <= Reach(y)
      <4>1. Reach(t) <= Reach(acc.t) BY <2>0 DEF Catching
      <4> QED BY <3>5, <3>6, <4>1
    <3>8. Len(y.pending) <= Len(t.pending)
      <4>1. Len(y.pending) <= Len(acc.t.pending) /\ Len(acc.t.pending) <= Len(t.pending)
        BY <2>0, <3>1 DEF Catching, Advances
      <4> QED BY <3>4, <4>1
    <3>9. y.status = t.status /\ y.pump = t.pump
      BY <2>0, <3>1 DEF Catching, Advances
    <3> QED BY <3>2, <3>7, <3>8, <3>9 DEF Catching
  <2> HIDE DEF x, y
  <2> QED BY <1>3, <2>1, <2>2, <2>3 DEF Pages
<1> HIDE DEF X, start
<1>4. PageRun(t, after, ops)[Len(ops)] \in X
  <2> HIDE DEF ops
  <2>1. CASE after + Len(ops) <= Len(l)
    BY <1>1, <1>2, <1>3, <2>1, PageInduction DEF start
  <2>2. CASE Len(ops) = 0 /\ ~(after + Len(ops) <= Len(l))
    <3>1. 0 + Len(ops) <= Len(l) /\ PageRun(t, after, ops) = PageRun(t, 0, ops)
      BY <2>2, <1>0 DEF PageRun
    <3>2. \A i \in 1..Len(ops) : ops[i] = l[0 + i] BY <2>2
    <3> QED BY <1>1, <1>2, <1>3, <3>1, <3>2, PageInduction DEF start
  <2> QED BY <1>1, <2>1, <2>2
<1>5. u \in Sessions /\ Catching(u, t) BY <1>4 DEF X, Pages
<1>6. \/ IngestPage(t, after, ops) = [u EXCEPT !.sync = SyncAt("delay", 0)]
      \/ IngestPage(t, after, ops) = SyncTop(u)
  BY DEF IngestPage
<1> DEFINE v == [u EXCEPT !.resync = TRUE]
<1>7. IngestCut(t, after, ops) = SyncTop(v) BY DEF IngestCut
<1> HIDE DEF u
<1>8. /\ v \in Sessions /\ v.status = u.status /\ v.pump = u.pump /\ v.pending = u.pending
      /\ v.syncTarget = u.syncTarget /\ v.confirmedRevision = u.confirmedRevision
  BY <1>5 DEF Sessions
<1> HIDE DEF v
<1>9. Catching(v, t) BY <1>5, <1>8 DEF Catching, Reach
<1> QED BY <1>0, <1>5, <1>6, <1>7, <1>8, <1>9, SyncTopOnward

(***************************************************************************)
(* A checkpoint, even one behind the session.                              *)
(***************************************************************************)
LEMMA SnapshotOnward ==
  ASSUME NEW n \in Nat, NEW D, NEW t, Good(t, n, D), t.status = "catching-up",
         NEW rev \in Nat, rev <= n, NEW doc \in Docs, doc = D[rev]
  PROVE  Onward(AdoptSnapshot(t, rev, doc), t)
<1> DEFINE given == {t.pending[i].intent : i \in Ambiguous(t, rev)}
           tgt == Larger(Larger(t.syncTarget, t.confirmedRevision), rev)
           ground == [t EXCEPT !.syncTarget = tgt, !.confirmed = doc,
                               !.confirmedRevision = rev, !.undo = <<>>, !.redo = <<>>]
           r == Rebase(ground, given)
           F == [i \in DOMAIN r.fate |-> IF i \in given THEN "ambiguous" ELSE r.fate[i]]
           v == [r EXCEPT !.fate = F]
<1>0. /\ t \in Sessions /\ Grounded(t, n, D)
      /\ t.confirmedRevision \in Nat /\ t.syncTarget \in Nat
  BY DEF Good, Grounded, Sessions
<1>1. /\ tgt \in Nat /\ tgt <= n
      /\ t.syncTarget <= tgt /\ t.confirmedRevision <= tgt /\ rev <= tgt
  BY <1>0 DEF Grounded, Larger
<1>2. AdoptSnapshot(t, rev, doc) = SyncTop(v) BY DEF AdoptSnapshot
<1> HIDE DEF tgt, given
<1>3. /\ ground \in Sessions /\ ground.syncTarget = tgt /\ ground.confirmed = doc
      /\ ground.confirmedRevision = rev /\ ground.undo = <<>> /\ ground.redo = <<>>
      /\ ground.pump = t.pump /\ ground.sync = t.sync /\ ground.pub = t.pub
      /\ ground.status = t.status /\ ground.pending = t.pending
  <2>1. <<>> \in Seq(Nat) OBVIOUS
  <2> QED BY <1>0, <1>1, <2>1 DEF Sessions
<1> HIDE DEF ground
<1>4. Grounded(ground, n, D) BY <1>0, <1>1, <1>3 DEF Grounded, Indexed
<1>5. /\ Good(r, n, D) /\ Len(r.pending) <= Len(ground.pending)
      /\ SameSync(r, ground) /\ r.pump = ground.pump
  BY <1>4, GoodRebase, RebaseShortens
<1>6. r \in Sessions /\ r.fate \in Seq(Fates) BY <1>5 DEF Good, Grounded, Sessions
<1> HIDE DEF r
<1>7. F \in Seq(Fates)
  <2>1. Len(r.fate) \in Nat /\ DOMAIN r.fate = 1..Len(r.fate) BY <1>6
  <2>2. F \in [1..Len(r.fate) -> Fates] BY <1>6, <2>1 DEF Fates
  <2> QED BY <2>1, <2>2
<1> HIDE DEF F
<1>8. v \in Sessions /\ SameSync(v, r) /\ SameWork(v, r)
  BY <1>6, <1>7 DEF Sessions, SameSync, SameWork
<1> HIDE DEF v
<1>9. Catching(v, t)
  <2>1. v.status = t.status /\ v.pump = t.pump /\ v.syncTarget = tgt
        /\ v.confirmedRevision = rev /\ Len(v.pending) <= Len(t.pending)
    BY <1>3, <1>5, <1>8 DEF SameSync, SameWork
  <2>2. Reach(t) <= Reach(v) BY <1>0, <1>1, <2>1 DEF Reach, Larger
  <2> QED BY <2>1, <2>2 DEF Catching
<1> QED BY <1>0, <1>2, <1>8, <1>9, SyncTopOnward

(***************************************************************************)
(* A step of an ended session that leaves its queue and revisions and does *)
(* not put its pump to rest.                                               *)
(***************************************************************************)
LEMMA EndedIsOnward ==
  ASSUME NEW t \in Sessions, Terminal(t), NEW u, u.status = t.status,
         u.pending = t.pending, u.pump.pc = "idle" => t.pump.pc = "idle",
         u.syncTarget = t.syncTarget, u.confirmedRevision = t.confirmedRevision
  PROVE  Onward(u, t)
<1>1. Awake(u) BY DEF Awake, Terminal
<1>2. Reach(t) <= Reach(u) BY DEF Reach, Larger, Sessions
<1>3. Settles(u, t) BY DEF Settles
<1> QED BY <1>1, <1>2, <1>3 DEF Onward

(***************************************************************************)
(* Every answer to the sync loop moves the session onward.  A live session *)
(* waits for none.                                                         *)
(***************************************************************************)
LEMMA SyncReplyOnward == ASSUME IInv, Awake(s), SyncReply PROVE Onward(s', s)
<1> DEFINE reply == s.sync.reply
           again == [s EXCEPT !.resync = TRUE]
<1>0. /\ Tip \in Nat /\ s \in Sessions /\ Good(s, Tip, docs) /\ ServerOK(log, docs)
      /\ reply \in SyncReplies /\ reply.rev \in Nat /\ reply.rev <= Tip
      /\ reply.kind = "snapshot" => reply.doc = docs[reply.rev] /\ reply.doc \in Docs
      /\ s.sync.after \in Nat
  BY Here DEF SyncReplies, Syncs, NoReply
<1>1. reply # NoReply BY DEF SyncReply
<1>2. s.status # "live" BY <1>1 DEF Awake
<1>3. CASE Terminal(s)
  <2>1. s' = SyncTop(s) BY <1>3 DEF SyncReply, Terminal
  <2>2. /\ SameWork(SyncTop(s), s) /\ SyncTop(s).status = s.status
        /\ SyncTop(s).syncTarget = s.syncTarget
        /\ SyncTop(s).confirmedRevision = s.confirmedRevision
    BY <1>0, SyncTopFacts
  <2> QED BY <1>0, <1>3, <2>1, <2>2, EndedIsOnward DEF SameWork
<1>4. CASE s.status = "catching-up"
  <2>1. \/ s' = SyncTop(s)
        \/ s' = SyncTop(again)
        \/ reply.kind = "snapshot" /\ s' = AdoptSnapshot(s, reply.rev, reply.doc)
        \/ s' = IngestPage(s, s.sync.after, SubSeq(log, s.sync.after + 1, reply.rev))
        \/ s' = IngestCut(s, s.sync.after, SubSeq(log, s.sync.after + 1, reply.rev))
    <3>1. reply.kind \in {"ops", "cut", "gone", "snapshot"} BY <1>0, <1>1 DEF SyncReplies
    <3>2. s.resync \in BOOLEAN BY <1>0 DEF Sessions
    <3> QED BY <1>4, <3>1, <3>2 DEF SyncReply
  <2>2. /\ again \in Sessions /\ again.status = s.status /\ again.pump = s.pump
        /\ again.pending = s.pending /\ again.syncTarget = s.syncTarget
        /\ again.confirmedRevision = s.confirmedRevision
    BY <1>0 DEF Sessions
  <2> HIDE DEF again
  <2>3. Catching(s, s) /\ Catching(again, s)
    <3>1. s.pending \in Seq(Entries) BY <1>0 DEF Sessions
    <3>2. Len(s.pending) \in Nat BY <3>1
    <3>3. Reach(s) \in Nat BY <1>0 DEF Reach, Larger, Sessions
    <3>4. Reach(again) = Reach(s) BY <2>2 DEF Reach
    <3> QED BY <2>2, <3>2, <3>3, <3>4 DEF Catching
  <2>4. Onward(SyncTop(s), s) /\ Onward(SyncTop(again), s)
    BY <1>0, <1>4, <2>2, <2>3, SyncTopOnward
  <2>5. reply.kind = "snapshot" => Onward(AdoptSnapshot(s, reply.rev, reply.doc), s)
    BY <1>0, <1>4, SnapshotOnward
  <2>6. /\ Onward(IngestPage(s, s.sync.after, SubSeq(log, s.sync.after + 1, reply.rev)), s)
        /\ Onward(IngestCut(s, s.sync.after, SubSeq(log, s.sync.after + 1, reply.rev)), s)
    BY <1>0, <1>4, PageOnward DEF Tip
  <2> QED BY <2>1, <2>4, <2>5, <2>6
<1> QED BY <1>0, <1>2, <1>3, <1>4 DEF Terminal, Sessions, Statuses

(***************************************************************************)
(* The end of the sync loop: what arrived meanwhile starts it over, and    *)
(* otherwise the pump it was gating is woken.                              *)
(***************************************************************************)
LEMMA SyncEndOnward ==
  ASSUME NEW t \in Sessions, Awake(t), t.sync.pc = "exit"
  PROVE  Onward(SyncFinally(t), t)
<1> DEFINE r == [t EXCEPT !.sync = SyncAt("idle", 0),
                          !.status = IF @ = "catching-up" THEN "live" ELSE @]
           behind == r.resync \/ r.confirmedRevision < r.syncTarget
           u == SyncFinally(t)
<1>0. /\ t.status \in {"catching-up", "closed", "error"}
      /\ t.confirmedRevision \in Nat /\ t.syncTarget \in Nat
  BY DEF Awake, Sessions, Statuses
<1>1. u = IF r.status = "live" /\ behind THEN StartSync(r) ELSE Pump(r) BY DEF SyncFinally
<1>2. /\ r \in Sessions /\ r.sync.pc = "idle" /\ r.sync.reply = NoReply
      /\ r.pump = t.pump /\ r.pending = t.pending
      /\ r.syncTarget = t.syncTarget /\ r.confirmedRevision = t.confirmedRevision
      /\ r.status = IF t.status = "catching-up" THEN "live" ELSE t.status
  <2>1. SyncAt("idle", 0) \in Syncs /\ SyncAt("idle", 0).pc = "idle" BY SyncAtType
  <2>2. SyncAt("idle", 0).reply = NoReply BY DEF SyncAt
  <2> QED BY <2>1, <2>2, <1>0 DEF Sessions, Statuses
<1> HIDE DEF u, r
<1>3. CASE r.status = "live" /\ behind
  <2>1. ~(Terminal(r) \/ Syncing(r)) /\ ~Terminal(t)
    BY <1>0, <1>2, <1>3 DEF Terminal, Syncing
  <2>2. FallsBehind(u, t) /\ u.syncTarget = t.syncTarget
    BY <1>1, <1>2, <1>3, <2>1, StartSyncFacts DEF FallsBehind, SameWork
  <2>3. Reach(t) <= Reach(u) BY <1>0, <2>2 DEF FallsBehind, Reach, Larger
  <2> QED BY <2>1, <2>2, <2>3, BehindIsOnward DEF u
<1>4. CASE ~(r.status = "live" /\ behind)
  <2>1. /\ SameSync(u, r) /\ u.pending = r.pending /\ u.pump.pc # "idle"
    BY <1>1, <1>2, <1>4, PumpFacts
  <2>2. CASE t.status = "catching-up"
    <3>1. u.status = "live" /\ u.sync.pc = "idle" /\ u.sync.reply = NoReply
      BY <1>2, <2>1, <2>2 DEF SameSync
    <3>2. ~u.resync /\ u.confirmedRevision >= u.syncTarget
      BY <1>0, <1>2, <1>4, <2>1, <2>2 DEF SameSync
    <3>3. Awake(u) BY <2>1, <3>1, <3>2 DEF Awake
    <3>4. Reach(t) <= Reach(u) BY <1>0, <1>2, <2>1 DEF SameSync, Reach, Larger
    <3>5. Settles(u, t) BY <1>2, <2>1, <2>2, <3>1 DEF Settles
    <3> QED BY <3>3, <3>4, <3>5 DEF Onward, u
  <2>3. CASE t.status \in {"closed", "error"}
    <3>1. /\ u.status = t.status /\ u.pending = t.pending /\ u.syncTarget = t.syncTarget
          /\ u.confirmedRevision = t.confirmedRevision
      BY <1>2, <2>1, <2>3 DEF SameSync
    <3> QED BY <2>1, <2>3, <3>1, EndedIsOnward DEF Terminal, u
  <2> QED BY <1>0, <2>2, <2>3
<1> QED BY <1>3, <1>4

(***************************************************************************)
(* The other turns of the sync loop.                                       *)
(***************************************************************************)
LEMMA SyncTurnOnward ==
  ASSUME NEW t \in Sessions, Awake(t), t.sync.pc # "idle"
  PROVE  /\ Onward(SyncTop(t), t)
         /\ Onward([Fail(t) EXCEPT !.sync = SyncAt("exit", 0)], t)
<1> DEFINE f == Fail(t)
           g == [f EXCEPT !.sync = SyncAt("exit", 0)]
<1>0. t.status \in {"catching-up", "closed", "error"} BY DEF Awake, Sessions, Statuses
<1>1. f = t \/ f = [t EXCEPT !.status = "error", !.connected = FALSE] BY DEF Fail
<1>2. f \in Sessions BY <1>1 DEF Sessions, Statuses
<1>3. /\ SameWork(f, t) /\ f.syncTarget = t.syncTarget
      /\ f.confirmedRevision = t.confirmedRevision
      /\ Terminal(t) => f.status = t.status
      /\ ~Terminal(t) => f.status = "error"
  BY FailFacts
<1> HIDE DEF f
<1>4. /\ g.pump = f.pump /\ g.pending = f.pending /\ g.syncTarget = f.syncTarget
      /\ g.confirmedRevision = f.confirmedRevision /\ g.status = f.status
  BY <1>2 DEF Sessions
<1> HIDE DEF g
<1>5. /\ SameWork(SyncTop(t), t) /\ SyncTop(t).status = t.status
      /\ SyncTop(t).syncTarget = t.syncTarget
      /\ SyncTop(t).confirmedRevision = t.confirmedRevision
  BY SyncTopFacts
<1>6. CASE Terminal(t)
  <2>1. Onward(SyncTop(t), t) BY <1>5, <1>6, EndedIsOnward DEF SameWork
  <2>2. Onward(g, t) BY <1>3, <1>4, <1>6, EndedIsOnward DEF SameWork
  <2> QED BY <2>1, <2>2 DEF g, f
<1>7. CASE ~Terminal(t)
  <2>1. t.status = "catching-up" BY <1>0, <1>7 DEF Terminal
  <2>2. Catching(t, t)
    <3>1. t.pending \in Seq(Entries) BY DEF Sessions
    <3>2. Len(t.pending) \in Nat BY <3>1
    <3>3. Reach(t) \in Nat BY DEF Reach, Larger, Sessions
    <3> QED BY <3>2, <3>3 DEF Catching
  <2>3. Onward(SyncTop(t), t) BY <2>1, <2>2, SyncTopOnward
  <2>4. Terminal(g) BY <1>3, <1>4, <1>7 DEF Terminal
  <2>5. Onward(g, t) BY <1>3, <1>4, <2>1, <2>4, EndIsOnward DEF SameWork
  <2> QED BY <2>3, <2>5 DEF g, f
<1> QED BY <1>6, <1>7

(***************************************************************************)
(* The pump comes to rest.                                                 *)
(***************************************************************************)
LEMMA PumpEndOnward ==
  ASSUME NEW t \in Sessions, Awake(t), t.pump.pc = "exit"
  PROVE  Onward(PumpFinally(t), t)
<1> DEFINE u == PumpFinally(t)
<1>1. /\ SameSync(u, t) /\ u.pending = t.pending
      /\ u.pump.pc = "idle" => ~(t.pending # <<>> /\ t.status = "live" /\ ~Syncing(t))
  BY PumpFinallyFacts
<1> HIDE DEF u
<1>2. u.pump.pc = "idle" => ~(t.status = "live" /\ t.pending # <<>>)
  BY <1>1 DEF Awake, Syncing
<1>3. Awake(u) BY <1>1, <1>2 DEF Awake, SameSync
<1>4. t.confirmedRevision \in Nat /\ t.syncTarget \in Nat BY DEF Sessions
<1>5. Reach(t) <= Reach(u) BY <1>1, <1>4 DEF Reach, Larger, SameSync
<1>6. Settles(u, t) BY <1>1, <1>2 DEF Settles, SameSync
<1> QED BY <1>3, <1>5, <1>6 DEF Onward, u

(***************************************************************************)
(* Running a command, field by field.                                      *)
(***************************************************************************)
RunEntry(t, c, o, r) ==
  [opId |-> t.opCounter + 1, cmd |-> c, origin |-> o, predicted |-> Wire(Forward(t.doc, c)),
   attempts |-> {}, intent |-> Len(t.fate) + 1, rec |-> IF r = 0 THEN Len(t.recs) + 1 ELSE r]

(* Run queues one entry and records its inverse, nothing else.             *)
LEMMA RunShape ==
  ASSUME NEW t \in Sessions, NEW c \in Invocations, NEW o \in Origins, NEW r \in Nat,
         NEW u, u = Run(t, c, o, r)
  PROVE  /\ u \in Sessions /\ SameSync(u, t) /\ u.pump.pc # "idle"
         /\ RunEntry(t, c, o, r) \in Entries
         /\ u.pending = Append(t.pending, RunEntry(t, c, o, r))
         /\ u.opCounter = t.opCounter + 1
         /\ u.fate = Append(t.fate, "open")
         /\ u.recs = Append(t.recs, Forward(t.doc, c)) /\ Forward(t.doc, c) \in PatchOps
         /\ u.undo = t.undo /\ u.redo = t.redo
         /\ t.pump.pc # "idle" => u.pump = t.pump
<1> DEFINE p == Forward(t.doc, c)
           x == RunEntry(t, c, o, r)
           d == Apply(t.doc, Wire(p))
           k == t.opCounter + 1
           q == Append(t.pending, x)
           F == Append(t.fate, "open")
           R == Append(t.recs, p)
           v == [t EXCEPT !.doc = d, !.opCounter = k, !.pending = q, !.fate = F, !.recs = R]
<1>0. /\ t.doc \in Docs /\ t.recs \in Seq(PatchOps) /\ t.fate \in Seq(Fates)
      /\ t.pending \in Seq(Entries) /\ t.opCounter \in Nat
      /\ Len(t.recs) \in Nat /\ Len(t.fate) \in Nat /\ k \in Nat
  BY DEF Sessions
<1>1. p \in PatchOps /\ Wire(p) \in WirePatches /\ d \in Docs
  BY <1>0, ForwardFits, ApplyType
<1>2. u = Pump(v) BY <1>0 DEF Run, RunEntry, Sessions
<1> HIDE DEF p, d
<1>3. x \in Entries BY <1>0, <1>1 DEF Entries, RunEntry, p
<1> HIDE DEF x
<1>4. R \in Seq(PatchOps) /\ q \in Seq(Entries) BY <1>0, <1>1, <1>3
<1>5. F \in Seq(Fates) BY <1>0 DEF Fates
<1> HIDE DEF k, q, F, R
<1>6. v \in Sessions BY <1>0, <1>1, <1>4, <1>5 DEF Sessions
<1>7. /\ SameSync(v, t) /\ v.pending = q /\ v.opCounter = k /\ v.fate = F /\ v.recs = R
      /\ v.undo = t.undo /\ v.redo = t.redo /\ v.pump = t.pump
  <2>1. SameSync(v, t) BY DEF Sessions, SameSync
  <2>2. v.pending = q /\ v.opCounter = k /\ v.fate = F /\ v.recs = R BY DEF Sessions
  <2>3. v.undo = t.undo /\ v.redo = t.redo /\ v.pump = t.pump BY DEF Sessions
  <2> QED BY <2>1, <2>2, <2>3
<1> HIDE DEF v
<1>8. /\ u \in Sessions /\ SameSync(u, v) /\ u.pump.pc # "idle" /\ u.pending = v.pending
      /\ u.opCounter = v.opCounter /\ u.fate = v.fate /\ u.recs = v.recs
      /\ u.undo = v.undo /\ u.redo = v.redo
      /\ v.pump.pc # "idle" => u.pump = v.pump
  <2> DEFINE w == PumpAt("ready")
  <2>1. w \in Pumps /\ w.pc # "idle" BY PumpAtType
  <2>2. u = IF v.pump.pc = "idle" THEN [v EXCEPT !.pump = w] ELSE v BY <1>2 DEF Pump
  <2> HIDE DEF w
  <2>3. CASE v.pump.pc = "idle"
    <3>1. u = [v EXCEPT !.pump = w] BY <2>2, <2>3
    <3>2. u \in Sessions /\ u.pump = w BY <1>6, <2>1, <3>1 DEF Sessions
    <3> QED BY <1>6, <2>1, <2>3, <3>1, <3>2 DEF Sessions, SameSync
  <2>4. CASE v.pump.pc # "idle" BY <1>6, <2>2, <2>4 DEF SameSync
  <2> QED BY <2>3, <2>4
<1>9. SameSync(u, t) BY <1>7, <1>8 DEF SameSync
<1>10. /\ u.pending = q /\ u.opCounter = k /\ u.fate = F /\ u.recs = R
       /\ u.undo = t.undo /\ u.redo = t.redo
       /\ t.pump.pc # "idle" => u.pump = t.pump
  BY <1>7, <1>8
<1> HIDE DEF SameSync, Entries
<1> QED BY <1>1, <1>3, <1>8, <1>9, <1>10 DEF p, k, q, F, R, x

(***************************************************************************)
(* Running a command enqueues one intention and wakes the pump.            *)
(***************************************************************************)
Issues(u, t) ==
  SameSync(u, t) /\ Len(u.pending) = Len(t.pending) + 1 /\ u.pump.pc # "idle"

(* For the refinement: Run is the issuing of one intention.                *)
LEMMA RunIssues ==
  ASSUME NEW t \in Sessions, NEW c \in Invocations, NEW o \in Origins, NEW r \in Nat
  PROVE  Issues(Run(t, c, o, r), t)
<1>1. t.pending \in Seq(Entries) BY DEF Sessions
<1>2. /\ SameSync(Run(t, c, o, r), t) /\ Run(t, c, o, r).pump.pc # "idle"
      /\ RunEntry(t, c, o, r) \in Entries
      /\ Run(t, c, o, r).pending = Append(t.pending, RunEntry(t, c, o, r))
  BY RunShape
<1> QED BY <1>1, <1>2 DEF Issues

(***************************************************************************)
(* A session that has not ended may take a command.                        *)
(***************************************************************************)
LEMMA IssueIsOnward ==
  ASSUME NEW t \in Sessions, Awake(t), ~Terminal(t), NEW u, Issues(u, t)
  PROVE  Onward(u, t)
<1>0. t.confirmedRevision \in Nat /\ t.syncTarget \in Nat BY DEF Sessions
<1>1. t.status \in {"live", "catching-up"} BY DEF Terminal, Sessions, Statuses
<1>2. Awake(u) BY DEF Awake, Issues, SameSync
<1>3. Reach(t) <= Reach(u) BY <1>0 DEF Reach, Larger, Issues, SameSync
<1>4. Settles(u, t) BY <1>1 DEF Settles, Issues, SameSync
<1> QED BY <1>2, <1>3, <1>4 DEF Onward

(***************************************************************************)
(* The user's calls move the session onward.                               *)
(***************************************************************************)
LEMMA DispatchOnward ==
  ASSUME NEW n \in Nat, NEW D, NEW t, Good(t, n, D), Awake(t), ~Terminal(t),
         NEW c \in Invocations
  PROVE  Onward(DispatchOn(t, c), t)
<1> DEFINE ran == Run(t, c, "dispatch", 0)
           u == DispatchOn(t, c)
<1>0. t \in Sessions BY DEF Good, Grounded
<1>1. Issues(ran, t) BY <1>0, RunIssues DEF Origins
<1>2. ran \in Sessions
  <2>1. Good(ran, n, D) BY GoodRun DEF Origins
  <2> QED BY <2>1 DEF Good, Grounded
<1>3. u = [ran EXCEPT !.undo = Bounded(Append(@, Len(ran.recs))), !.redo = <<>>]
  BY DEF DispatchOn
<1> HIDE DEF ran, u
<1>4. SameSync(u, ran) /\ SameWork(u, ran) BY <1>2, <1>3 DEF Sessions, SameSync, SameWork
<1>5. Issues(u, t) BY <1>1, <1>4 DEF Issues, SameSync, SameWork
<1> QED BY <1>0, <1>5, IssueIsOnward DEF u

(***************************************************************************)
(* Undoing moves the session onward, whether the record replays or not.    *)
(***************************************************************************)
LEMMA UndoOnward ==
  ASSUME NEW n \in Nat, NEW D, NEW t, Good(t, n, D), Awake(t), t.undo # <<>>
  PROVE  Onward(ReplayOn(t, "undo", "redo", "undo"), t)
<1> DEFINE r == Last(t.undo)
           p == Invert(t.recs[r])
           popped == [t EXCEPT !.undo = Front(@)]
           ran == Run(popped, SessionPatch(Wire(p)), "undo", r)
           u == ReplayOn(t, "undo", "redo", "undo")
<1>0. /\ t \in Sessions /\ t.undo \in Seq(Nat) /\ t.redo \in Seq(Nat)
      /\ t.recs \in Seq(PatchOps) /\ Len(t.recs) \in Nat
  BY DEF Good, Grounded, Sessions
<1>1. /\ Front(t.undo) \in Seq(Nat)
      /\ \A i \in 1..Len(Front(t.undo)) : Front(t.undo)[i] \in 1..Len(t.recs)
      /\ r \in 1..Len(t.recs)
      /\ \A i \in 1..Len(t.redo) : t.redo[i] \in 1..Len(t.recs)
  <2>1. /\ \A i \in 1..Len(t.undo) : t.undo[i] \in 1..Len(t.recs)
        /\ \A i \in 1..Len(t.redo) : t.redo[i] \in 1..Len(t.recs)
    BY DEF Good, Grounded, Indexed
  <2> QED BY <1>0, <2>1, FrontType
<1>2. p \in PatchOps /\ r \in Nat
  <2>1. t.recs[r] \in PatchOps BY <1>0, <1>1
  <2> QED BY <2>1, <1>1, InvertType
<1>3. Good(popped, n, D) /\ SameSync(popped, t) /\ SameWork(popped, t)
  <2>1. Good([t EXCEPT !.undo = Front(t.undo), !.redo = t.redo], n, D)
    BY <1>0, <1>1, SetHistory
  <2>2. [t EXCEPT !.undo = Front(t.undo), !.redo = t.redo] = popped BY <1>0 DEF Sessions
  <2>3. SameSync(popped, t) /\ SameWork(popped, t) BY <1>0 DEF Sessions, SameSync, SameWork
  <2> QED BY <2>1, <2>2, <2>3
<1>4. u = IF Terminal(t) \/ t.doc[p.key] # p.old THEN popped
          ELSE [ran EXCEPT !.redo = Append(@, r)]
  BY DEF ReplayOn
<1>5. popped \in Sessions BY <1>3 DEF Good, Grounded
<1> HIDE DEF popped, u
<1>6. CASE u = popped BY <1>0, <1>3, <1>6, SameIsOnward DEF u, SameWork
<1>7. CASE ~Terminal(t) /\ u = [ran EXCEPT !.redo = Append(@, r)]
  <2>1. SessionPatch(Wire(p)) \in Invocations BY <1>2, SessionPatchType
  <2> HIDE DEF p, r
  <2>2. Issues(ran, popped) /\ Good(ran, n, D)
    BY <1>2, <1>3, <1>5, <2>1, RunIssues, GoodRun DEF Origins
  <2>3. ran \in Sessions BY <2>2 DEF Good, Grounded
  <2> HIDE DEF ran
  <2>4. SameSync(u, ran) /\ SameWork(u, ran)
    BY <1>7, <2>3 DEF Sessions, SameSync, SameWork
  <2>5. Issues(u, t) BY <1>3, <2>2, <2>4 DEF Issues, SameSync, SameWork
  <2> QED BY <1>0, <1>7, <2>5, IssueIsOnward DEF u
<1> QED BY <1>4, <1>6, <1>7

(***************************************************************************)
(* And so does redoing.                                                    *)
(***************************************************************************)
LEMMA RedoOnward ==
  ASSUME NEW n \in Nat, NEW D, NEW t, Good(t, n, D), Awake(t), t.redo # <<>>
  PROVE  Onward(ReplayOn(t, "redo", "undo", "redo"), t)
<1> DEFINE r == Last(t.redo)
           p == t.recs[r]
           popped == [t EXCEPT !.redo = Front(@)]
           ran == Run(popped, SessionPatch(Wire(p)), "redo", r)
           u == ReplayOn(t, "redo", "undo", "redo")
<1>0. /\ t \in Sessions /\ t.undo \in Seq(Nat) /\ t.redo \in Seq(Nat)
      /\ t.recs \in Seq(PatchOps) /\ Len(t.recs) \in Nat
  BY DEF Good, Grounded, Sessions
<1>1. /\ Front(t.redo) \in Seq(Nat)
      /\ \A i \in 1..Len(Front(t.redo)) : Front(t.redo)[i] \in 1..Len(t.recs)
      /\ r \in 1..Len(t.recs)
      /\ \A i \in 1..Len(t.undo) : t.undo[i] \in 1..Len(t.recs)
  <2>1. /\ \A i \in 1..Len(t.undo) : t.undo[i] \in 1..Len(t.recs)
        /\ \A i \in 1..Len(t.redo) : t.redo[i] \in 1..Len(t.recs)
    BY DEF Good, Grounded, Indexed
  <2> QED BY <1>0, <2>1, FrontType
<1>2. p \in PatchOps /\ r \in Nat
  <2>1. t.recs[r] \in PatchOps BY <1>0, <1>1
  <2> QED BY <2>1, <1>1
<1>3. Good(popped, n, D) /\ SameSync(popped, t) /\ SameWork(popped, t)
  <2>1. Good([t EXCEPT !.undo = t.undo, !.redo = Front(t.redo)], n, D)
    BY <1>0, <1>1, SetHistory
  <2>2. [t EXCEPT !.undo = t.undo, !.redo = Front(t.redo)] = popped BY <1>0 DEF Sessions
  <2>3. SameSync(popped, t) /\ SameWork(popped, t) BY <1>0 DEF Sessions, SameSync, SameWork
  <2> QED BY <2>1, <2>2, <2>3
<1>4. u = IF Terminal(t) \/ t.doc[p.key] # p.old THEN popped
          ELSE [ran EXCEPT !.undo = Append(@, r)]
  BY DEF ReplayOn
<1>5. popped \in Sessions BY <1>3 DEF Good, Grounded
<1> HIDE DEF popped, u
<1>6. CASE u = popped BY <1>0, <1>3, <1>6, SameIsOnward DEF u, SameWork
<1>7. CASE ~Terminal(t) /\ u = [ran EXCEPT !.undo = Append(@, r)]
  <2>1. SessionPatch(Wire(p)) \in Invocations BY <1>2, SessionPatchType
  <2> HIDE DEF p, r
  <2>2. Issues(ran, popped) /\ Good(ran, n, D)
    BY <1>2, <1>3, <1>5, <2>1, RunIssues, GoodRun DEF Origins
  <2>3. ran \in Sessions BY <2>2 DEF Good, Grounded
  <2> HIDE DEF ran
  <2>4. SameSync(u, ran) /\ SameWork(u, ran)
    BY <1>7, <2>3 DEF Sessions, SameSync, SameWork
  <2>5. Issues(u, t) BY <1>3, <2>2, <2>4 DEF Issues, SameSync, SameWork
  <2> QED BY <1>0, <1>7, <2>5, IssueIsOnward DEF u
<1> QED BY <1>4, <1>6, <1>7

(***************************************************************************)
(* Publishing and closing.                                                 *)
(***************************************************************************)
LEMMA PublishOnward ==
  ASSUME NEW t \in Sessions, Awake(t)
  PROVE  /\ Onward(PublishOn(t), t)
         /\ \A ok \in BOOLEAN : Onward(PublishedOn(t, ok), t)
         /\ t.status # "closed" =>
              Onward(CloseOn(t), t) /\ Onward(CloseOn(PublishOn(t)), t)
<1> DEFINE a == PublishOn(t)
<1>1. /\ SameSync(a, t) /\ SameWork(a, t)
      /\ a = t \/ \E x : a = [t EXCEPT !.pub = x]
  BY DEF PublishOn, Sessions, SameSync, SameWork
<1>2. Onward(a, t) BY <1>1, SameIsOnward DEF SameWork
<1>3. ASSUME NEW ok \in BOOLEAN
      PROVE  Onward(PublishedOn(t, ok), t)
  <2> DEFINE u == PublishedOn(t, ok)
             pc == IF ok THEN "ready" ELSE "delay"
  <2>1. u = [t EXCEPT !.pub = NoPublication,
                      !.pump = IF @.pc # "publish" THEN @ ELSE PumpAt(pc)]
    BY DEF PublishedOn
  <2>2. PumpAt(pc).pc # "idle" BY DEF PumpAt
  <2> HIDE DEF pc
  <2>3. SameSync(u, t) /\ u.pending = t.pending
    BY <2>1 DEF Sessions, SameSync
  <2>4. u.pump.pc = "idle" => t.pump.pc = "idle" BY <2>1, <2>2 DEF Sessions
  <2> HIDE DEF u
  <2> QED BY <2>3, <2>4, SameIsOnward DEF u
<1>4. ASSUME t.status # "closed", NEW b \in {t, a}
      PROVE  Onward(CloseOn(b), t)
  <2>1. /\ CloseOn(b).status = "closed" /\ CloseOn(b).pending = t.pending
        /\ CloseOn(b).pump = t.pump /\ CloseOn(b).syncTarget = t.syncTarget
        /\ CloseOn(b).confirmedRevision = t.confirmedRevision
    BY <1>1, <1>4 DEF CloseOn, Sessions
  <2>2. Terminal(CloseOn(b)) BY <2>1 DEF Terminal
  <2> QED BY <1>4, <2>1, <2>2, EndIsOnward
<1> QED BY <1>2, <1>3, <1>4

(***************************************************************************)
(* Answers from the server wait in the session until its next turn.        *)
(***************************************************************************)
LEMMA AnswerOnward ==
  ASSUME IInv, Awake(s), ServerStep \/ RefusePost \/ MangleReply \/ ManglePage
  PROVE  Onward(s', s)
<1>0. s \in Sessions /\ s.pump \in Pumps /\ s.sync \in Syncs /\ s.pub \in Publications BY Here
<1>1. CASE \E p : s' = [s EXCEPT !.pump = p] /\ p.pc = s.pump.pc
  <2>1. SameSync(s', s) /\ s'.pending = s.pending /\ s'.pump.pc = s.pump.pc
    BY <1>0, <1>1 DEF Sessions, SameSync
  <2> QED BY <1>0, <2>1, SameIsOnward
<1>2. CASE ServePost \/ RefusePost \/ MangleReply
  <2>1. \/ \E x : s' = [s EXCEPT !.pump.reply = x]
        \/ \E x : s' = [s EXCEPT !.pump.reply.kind = x]
    BY <1>2 DEF ServePost, RefusePost, MangleReply
  <2>2. ASSUME NEW x PROVE [s.pump EXCEPT !.reply = x].pc = s.pump.pc
    BY <1>0 DEF Pumps
  <2>3. CASE \E x : s' = [s EXCEPT !.pump.reply = x]
    <3>1. PICK x : s' = [s EXCEPT !.pump.reply = x] BY <2>3
    <3>2. s' = [s EXCEPT !.pump = [s.pump EXCEPT !.reply = x]] BY <3>1
    <3> QED BY <1>1, <2>2, <3>2
  <2>4. CASE \E x : s' = [s EXCEPT !.pump.reply.kind = x]
    <3>1. PICK x : s' = [s EXCEPT !.pump.reply.kind = x] BY <2>4
    <3>2. s' = [s EXCEPT !.pump = [s.pump EXCEPT !.reply = [s.pump.reply EXCEPT !.kind = x]]]
      BY <3>1
    <3> QED BY <1>1, <2>2, <3>2
  <2> QED BY <2>1, <2>3, <2>4
<1>3. CASE ServeSync \/ ManglePage
  <2>1. PICK x : s' = [s EXCEPT !.sync = [s.sync EXCEPT !.reply = x]]
    BY <1>3 DEF ServeSync, ManglePage
  <2>2. s.sync.pc # "idle" \/ s.sync.reply # NoReply
    BY <1>3 DEF ServeSync, ManglePage, NoReply
  <2>3. [s.sync EXCEPT !.reply = x].pc = s.sync.pc BY <1>0 DEF Syncs
  <2>4. /\ SameWork(s', s) /\ s'.status = s.status /\ s'.syncTarget = s.syncTarget
        /\ s'.confirmedRevision = s.confirmedRevision /\ s'.sync.pc = s.sync.pc
    BY <1>0, <2>1, <2>3 DEF Sessions, SameWork
  <2>5. s.status # "live" BY <2>2 DEF Awake
  <2>6. Awake(s') BY <2>4, <2>5 DEF Awake
  <2>7. Reach(s) <= Reach(s') BY <1>0, <2>4 DEF Reach, Larger, Sessions
  <2>8. Settles(s', s) BY <2>4 DEF Settles, SameWork
  <2> QED BY <2>6, <2>7, <2>8 DEF Onward
<1>4. CASE ServePut
  <2>1. PICK x : s' = [s EXCEPT !.pub = x] BY <1>4 DEF ServePut
  <2>2. SameSync(s', s) /\ SameWork(s', s) BY <1>0, <2>1 DEF Sessions, SameSync, SameWork
  <2> QED BY <1>0, <2>2, SameIsOnward DEF SameWork
<1> QED BY <1>2, <1>3, <1>4 DEF ServerStep

(***************************************************************************)
(* Every step of the system leaves the session awake, forgets no revision  *)
(* it has or was told of, and is a step of SettlingSession.                *)
(***************************************************************************)
LEMMA StepOnward == ASSUME IInv, Awake(s), [Next]_vars PROVE Onward(s', s)
<1>0. /\ s \in Sessions /\ Tip \in Nat /\ Good(s, Tip, docs) /\ ServerOK(log, docs)
  BY Here
<1>1. CASE UNCHANGED s BY <1>0, <1>1, StillOnward
<1>2. CASE ServerStep \/ RefusePost \/ MangleReply \/ ManglePage BY <1>2, AnswerOnward
<1>3. CASE \/ ServeZombie \/ StreamDrop \/ StreamMismatch \/ GarbageFrame \/ PeerStep
           \/ StreamOpen
  BY <1>1, <1>3 DEF ServeZombie, StreamDrop, StreamMismatch, GarbageFrame, PeerStep, ForeignOp,
                    ForeignCheckpoint, Compact, DeleteSession, StreamOpen
<1>4. CASE PumpError
  <2>1. s.pump.pc # "idle" BY <1>4 DEF PumpError
  <2>2. s' = [s EXCEPT !.pump = PumpAt("delay")] \/ s' = [s EXCEPT !.pump = PumpAt("exit")]
    BY <1>4 DEF PumpError
  <2>3. /\ Onward([s EXCEPT !.pump = PumpAt("delay")], s)
        /\ Onward([s EXCEPT !.pump = PumpAt("exit")], s)
    BY <1>0, <2>1, StillOnward, Repumped
  <2> QED BY <2>2, <2>3
<1>5. CASE PumpStart \/ PumpDelayOver
  <2>1. s.pump.pc # "idle" /\ s' = PumpTop(s) BY <1>5 DEF PumpStart, PumpDelayOver
  <2> QED BY <1>0, <2>1, StillOnward, PumpTopOnward
<1>6. CASE PumpReply BY <1>6, PumpReplyOnward
<1>7. CASE PumpEnd
  <2>1. s.pump.pc = "exit" /\ s' = PumpFinally(s) BY <1>7 DEF PumpEnd
  <2> QED BY <1>0, <2>1, PumpEndOnward
<1>8. CASE SyncReply BY <1>8, SyncReplyOnward
<1>9. CASE SyncDelayOver
  <2>1. s.sync.pc # "idle" /\ s' = SyncTop(s) BY <1>9 DEF SyncDelayOver
  <2> QED BY <1>0, <2>1, SyncTurnOnward
<1>10. CASE SyncError
  <2>1. s.sync.pc # "idle" /\ s' = [Fail(s) EXCEPT !.sync = SyncAt("exit", 0)]
    BY <1>10 DEF SyncError
  <2> QED BY <1>0, <2>1, SyncTurnOnward
<1>11. CASE SyncEnd
  <2>1. s.sync.pc = "exit" /\ s' = SyncFinally(s) BY <1>11 DEF SyncEnd
  <2> QED BY <1>0, <2>1, SyncEndOnward
<1>12. CASE PublishPeriodic \/ PublishReply \/ PublishError
  <2>1. s' = PublishOn(s) \/ s' = PublishedOn(s, TRUE) \/ s' = PublishedOn(s, FALSE)
    BY <1>12 DEF PublishPeriodic, PublishReply, PublishError
  <2> QED BY <1>0, <2>1, PublishOnward
<1>13. CASE Dispatch
  <2>1. PICK c \in Commands : ~Terminal(s) /\ s' = DispatchOn(s, c) BY <1>13 DEF Dispatch
  <2>2. c \in Invocations BY CommandsAreInvocations
  <2> QED BY <1>0, <2>1, <2>2, DispatchOnward
<1>14. CASE Undo
  <2>1. s.undo # <<>> /\ s' = ReplayOn(s, "undo", "redo", "undo") BY <1>14 DEF Undo
  <2> QED BY <1>0, <2>1, UndoOnward
<1>15. CASE Redo
  <2>1. s.redo # <<>> /\ s' = ReplayOn(s, "redo", "undo", "redo") BY <1>15 DEF Redo
  <2> QED BY <1>0, <2>1, RedoOnward
<1>16. CASE ClearHistory
  <2>1. s' = [s EXCEPT !.undo = <<>>, !.redo = <<>>] BY <1>16 DEF ClearHistory
  <2>2. SameSync(s', s) /\ SameWork(s', s) BY <1>0, <2>1 DEF Sessions, SameSync, SameWork
  <2> QED BY <1>0, <2>2, SameIsOnward DEF SameWork
<1>17. CASE Close
  <2>1. s.status # "closed" /\ (s' = CloseOn(s) \/ s' = CloseOn(PublishOn(s)))
    BY <1>17 DEF Close
  <2> QED BY <1>0, <2>1, PublishOnward
<1>18. CASE Deliver
  <2>1. ws # <<>> /\ s' = HandleEvent(s, ws[1]) BY <1>18 DEF Deliver
  <2>2. ws[1] \in Frames /\ ws[1].rev <= Tip /\ (ws[1].kind = "op" => ws[1].rev >= 1)
    BY <2>1 DEF IInv
  <2> QED BY <1>0, <2>1, <2>2, EventIsOnward
<1>19. CASE Next
  <2> USE <1>2, <1>3, <1>4, <1>5, <1>6, <1>7, <1>8, <1>9, <1>10, <1>11, <1>12, <1>13,
          <1>14, <1>15, <1>16, <1>17, <1>18
  <2>1. CASE FaultStep BY <2>1 DEF FaultStep
  <2>2. CASE UserStep BY <2>2 DEF UserStep
  <2>3. CASE SessionStep BY <2>3 DEF SessionStep
  <2> QED BY <1>19, <2>1, <2>2, <2>3 DEF Next
<1> QED BY <1>1, <1>19 DEF vars

-----------------------------------------------------------------------------
(***************************************************************************)
(* The stream: while it is up and does not end the session, every revision *)
(* is one the session has or was told of, or some frame on its way tells   *)
(* it.                                                                     *)
(***************************************************************************)
Tells(f, r) ==
  \/ f.kind = "op" /\ f.rev = r
  \/ f.kind = "connected" /\ f.rev >= r

Ends(q) == \E j \in 1..Len(q) : q[j].kind \in {"session-closed", "mismatch"}

Heard(t, q, n) ==
  \A r \in 1..n : r <= Reach(t) \/ \E j \in 1..Len(q) : Tells(q[j], r)

Follows(t, q, up, n) == up /\ ~Terminal(t) /\ ~Ends(q) => Heard(t, q, n)

WakeInv == IInv /\ Awake(s) /\ Follows(s, ws, wsUp, Tip)

(***************************************************************************)
(* An ended session stays ended, and the reach of a session is a revision. *)
(***************************************************************************)
LEMMA OnwardEnds ==
  ASSUME NEW t \in Sessions, NEW u \in Sessions, Onward(u, t)
  PROVE  /\ Reach(t) \in Nat /\ Reach(u) \in Nat /\ Reach(t) <= Reach(u)
         /\ Terminal(t) => Terminal(u)
<1>1. Reach(t) \in Nat /\ Reach(u) \in Nat BY DEF Reach, Larger, Sessions
<1>2. Terminal(t) => Terminal(u) BY DEF Onward, Settles, Terminal
<1> QED BY <1>1, <1>2 DEF Onward

(***************************************************************************)
(* Going on and hearing more both keep the session informed.               *)
(***************************************************************************)
LEMMA FollowsAppended ==
  ASSUME NEW t \in Sessions, NEW u \in Sessions, Onward(u, t), NEW q \in Seq(Frames),
         NEW n \in Nat, NEW m \in Nat, NEW up \in BOOLEAN, Follows(t, q, up, n),
         NEW x \in Frames, \A r \in 1..m : r <= n \/ Tells(x, r)
  PROVE  Follows(u, Append(q, x), up, m)
<1> DEFINE p == Append(q, x)
<1>1. SUFFICES ASSUME up, ~Terminal(u), ~Ends(p)
               PROVE  Heard(u, p, m)
  BY DEF Follows
<1>2. /\ Len(p) = Len(q) + 1 /\ Len(q) \in Nat /\ p[Len(q) + 1] = x
      /\ \A j \in 1..Len(q) : p[j] = q[j]
  OBVIOUS
<1> HIDE DEF p
<1>3. ~Ends(q) BY <1>1, <1>2 DEF Ends
<1>4. Heard(t, q, n) BY <1>1, <1>3, OnwardEnds DEF Follows
<1>5. ASSUME NEW r \in 1..m
      PROVE  r <= Reach(u) \/ \E j \in 1..Len(p) : Tells(p[j], r)
  <2>1. CASE r <= n
    <3>1. r \in 1..n BY <2>1
    <3>2. CASE r <= Reach(t)
      <4>1. Reach(t) \in Nat /\ Reach(u) \in Nat /\ Reach(t) <= Reach(u) BY OnwardEnds
      <4> QED BY <3>2, <4>1
    <3>3. CASE \E j \in 1..Len(q) : Tells(q[j], r)
      <4>1. PICK j \in 1..Len(q) : Tells(q[j], r) BY <3>3
      <4>2. j \in 1..Len(p) /\ p[j] = q[j] BY <1>2
      <4> QED BY <4>1, <4>2
    <3> QED BY <1>4, <3>1, <3>2, <3>3 DEF Heard
  <2>2. CASE Tells(x, r)
    <3>1. Len(q) + 1 \in 1..Len(p) BY <1>2
    <3> QED BY <1>2, <2>2, <3>1
  <2> QED BY <2>1, <2>2
<1> QED BY <1>5 DEF Heard, p

(***************************************************************************)
(* The session going on, with nothing said.                                *)
(***************************************************************************)
LEMMA FollowsOn ==
  ASSUME NEW t \in Sessions, NEW u \in Sessions, Onward(u, t), NEW q, NEW n \in Nat, NEW up,
         Follows(t, q, up, n)
  PROVE  Follows(u, q, up, n)
<1>1. SUFFICES ASSUME up, ~Terminal(u), ~Ends(q)
               PROVE  Heard(u, q, n)
  BY DEF Follows
<1>2. Heard(t, q, n) BY <1>1, OnwardEnds DEF Follows
<1>3. ASSUME NEW r \in 1..n, r <= Reach(t) PROVE r <= Reach(u)
  <2>1. Reach(t) \in Nat /\ Reach(u) \in Nat /\ Reach(t) <= Reach(u) BY OnwardEnds
  <2> QED BY <1>3, <2>1
<1> QED BY <1>2, <1>3 DEF Heard

(***************************************************************************)
(* Delivering a frame: what it told, the session has taken note of.        *)
(***************************************************************************)
LEMMA FollowsDelivered ==
  ASSUME WakeInv, Deliver, s' \in Sessions, Onward(s', s)
  PROVE  Follows(s', ws', wsUp', Tip)
<1> DEFINE f == ws[1]
<1>0. /\ ws \in Seq(Frames) /\ ws # <<>> /\ ws' = Tail(ws) /\ wsUp' = wsUp
      /\ s' = HandleEvent(s, f) /\ s \in Sessions /\ Tip \in Nat
  BY Here DEF WakeInv, IInv, Deliver
<1>1. SUFFICES ASSUME wsUp, ~Terminal(s'), ~Ends(ws')
               PROVE  Heard(s', ws', Tip)
  BY <1>0 DEF Follows
<1>2. ~Terminal(s) BY <1>0, <1>1, OnwardEnds
<1>3. /\ f.kind \in {"op", "connected"} => f.rev <= Reach(s')
      /\ f.kind \notin {"session-closed", "mismatch"}
  <2>1. f \in Frames /\ f.rev <= Tip /\ (f.kind = "op" => f.rev >= 1)
    BY <1>0 DEF WakeInv, IInv
  <2>2. IInv /\ Awake(s) BY DEF WakeInv
  <2> QED BY <1>0, <1>1, <1>2, <2>1, <2>2, Here, EventIsOnward
<1>4. /\ Len(ws') = Len(ws) - 1 /\ Len(ws) \in Nat
      /\ \A j \in 1..Len(ws) : j # 1 => j - 1 \in 1..Len(ws') /\ ws'[j - 1] = ws[j]
  BY <1>0
<1>5. ~Ends(ws)
  <2> SUFFICES ASSUME NEW j \in 1..Len(ws), ws[j].kind \in {"session-closed", "mismatch"}
               PROVE  FALSE
    BY DEF Ends
  <2> QED BY <1>1, <1>3, <1>4 DEF Ends
<1>6. Heard(s, ws, Tip) BY <1>1, <1>2, <1>5 DEF WakeInv, Follows
<1>7. ASSUME NEW r \in 1..Tip
      PROVE  r <= Reach(s') \/ \E j \in 1..Len(ws') : Tells(ws'[j], r)
  <2>0. Reach(s) \in Nat /\ Reach(s') \in Nat /\ Reach(s) <= Reach(s') BY <1>0, OnwardEnds
  <2>1. CASE r <= Reach(s) BY <2>0, <2>1
  <2>2. CASE \E j \in 1..Len(ws) : Tells(ws[j], r)
    <3>1. PICK j \in 1..Len(ws) : Tells(ws[j], r) BY <2>2
    <3>2. CASE j = 1
      <4>1. f \in Frames BY <1>0
      <4>2. f.rev \in Nat /\ r <= f.rev /\ f.kind \in {"op", "connected"}
        BY <3>1, <3>2, <4>1 DEF Tells, Frames
      <4>3. f.rev <= Reach(s') BY <1>3, <4>2
      <4> QED BY <2>0, <4>2, <4>3
    <3>3. CASE j # 1 BY <1>4, <3>1, <3>3
    <3> QED BY <3>2, <3>3
  <2> QED BY <1>6, <2>1, <2>2 DEF Heard
<1> QED BY <1>7 DEF Heard

(***************************************************************************)
(* Every step keeps the session awake and informed.                        *)
(***************************************************************************)
LEMMA WakeKeeps == ASSUME WakeInv, [Next]_vars PROVE WakeInv'
<1>0. /\ IInv /\ IInv' /\ Awake(s) /\ Tip \in Nat /\ s \in Sessions /\ s' \in Sessions
      /\ ws \in Seq(Frames) /\ wsUp \in BOOLEAN
  <2>1. IInv /\ Awake(s) BY DEF WakeInv
  <2>2. IInv' BY <2>1, NextKeeps
  <2>3. s' \in Sessions BY <2>2 DEF IInv, Good, Grounded
  <2> QED BY <2>1, <2>2, <2>3, Here DEF IInv
<1>1. Onward(s', s) BY <1>0, StepOnward
<1>2. Follows(s, ws, wsUp, Tip) BY DEF WakeInv
<1> SUFFICES Follows(s', ws', wsUp', Tip')
  BY <1>0, <1>1 DEF WakeInv, Onward
<1>3. ASSUME UNCHANGED <<log, ws, wsUp>>
      PROVE  Follows(s', ws', wsUp', Tip')
  <2>1. Tip' = Tip BY <1>3 DEF Tip
  <2> QED BY <1>0, <1>1, <1>2, <1>3, <2>1, FollowsOn
<1>4. ASSUME NEW x \in Frames, ws' = Append(ws, x), wsUp' = wsUp, Tip' \in Nat,
             \A r \in 1..Tip' : r <= Tip \/ Tells(x, r)
      PROVE  Follows(s', ws', wsUp', Tip')
  BY <1>0, <1>1, <1>2, <1>4, FollowsAppended
<1>5. ASSUME NEW actor, NEW opId, NEW patch, NEW intent, NEW origin,
             Commit(actor, opId, patch, intent, origin)
      PROVE  Follows(s', ws', wsUp', Tip')
  <2> DEFINE x == [kind |-> "op", rev |-> Tip + 1]
             op == [actor |-> actor, opId |-> opId, base |-> Tip, patch |-> patch,
                    intent |-> intent, origin |-> origin]
  <2>1. Tip' = Tip + 1
    <3>1. log' = Append(log, op) BY <1>5 DEF Commit
    <3> HIDE DEF op
    <3>2. log \in Seq(ServerOps) BY <1>0 DEF IInv, ServerOK
    <3> QED BY <3>1, <3>2 DEF Tip
  <2>2. wsUp' = wsUp /\ ws' = IF wsUp THEN Append(ws, x) ELSE ws BY <1>5 DEF Commit
  <2>3. CASE wsUp
    <3>1. x \in Frames BY <1>0 DEF Frames
    <3>2. \A r \in 1..(Tip + 1) : r <= Tip \/ Tells(x, r) BY <1>0 DEF Tells
    <3>3. Tip' \in Nat /\ \A r \in 1..Tip' : r <= Tip \/ Tells(x, r) BY <1>0, <2>1, <3>2
    <3> QED BY <1>4, <2>2, <2>3, <3>1, <3>3
  <2>4. CASE ~wsUp BY <2>2, <2>4 DEF Follows
  <2> QED BY <2>3, <2>4
<1>6. CASE ServePost \/ ServeZombie \/ ForeignOp
  <2>1. \/ \E actor, opId, patch, intent, origin : Commit(actor, opId, patch, intent, origin)
        \/ UNCHANGED <<log, ws, wsUp>>
    BY <1>6 DEF ServePost, ServeZombie, ForeignOp, serverVars
  <2> QED BY <1>3, <1>5, <2>1
<1>7. CASE StreamDrop BY <1>7 DEF StreamDrop, Follows
<1>8. CASE StreamOpen
  <2> DEFINE x == IF alive THEN [kind |-> "connected", rev |-> Tip]
                  ELSE [kind |-> "session-closed", rev |-> 0]
  <2>1. /\ ws' = Append(ws, x) /\ Tip' = Tip /\ x \in Frames
    <3>1. ws' = Append(ws, x) /\ log' = log BY <1>8 DEF StreamOpen, serverVars
    <3>2. x \in Frames BY <1>0 DEF Frames
    <3> QED BY <3>1, <3>2 DEF Tip
  <2>5. x.kind = "session-closed" \/ (x.kind = "connected" /\ x.rev = Tip) OBVIOUS
  <2> HIDE DEF x
  <2>2. Len(ws') \in Nat /\ Len(ws') \in 1..Len(ws') /\ ws'[Len(ws')] = x BY <1>0, <2>1
  <2>3. CASE x.kind = "session-closed"
    <3>1. Ends(ws') BY <2>2, <2>3 DEF Ends
    <3> QED BY <3>1 DEF Follows
  <2>4. CASE x.kind = "connected" /\ x.rev = Tip
    <3>1. \A r \in 1..Tip : Tells(x, r) BY <1>0, <2>4 DEF Tells
    <3>2. Heard(s', ws', Tip) BY <2>2, <3>1 DEF Heard
    <3> QED BY <2>1, <3>2 DEF Follows
  <2> QED BY <2>3, <2>4, <2>5
<1>9. CASE GarbageFrame
  <2>1. [kind |-> "garbage", rev |-> 0] \in Frames BY DEF Frames
  <2>2. /\ ws' = Append(ws, [kind |-> "garbage", rev |-> 0]) /\ wsUp' = wsUp /\ Tip' = Tip
    BY <1>9 DEF GarbageFrame, serverVars, Tip
  <2>3. \A r \in 1..Tip' : r <= Tip BY <1>0, <2>2
  <2> QED BY <1>0, <1>4, <2>1, <2>2, <2>3
<1>10. CASE DeleteSession
  <2>1. [kind |-> "session-closed", rev |-> 0] \in Frames BY DEF Frames
  <2>2. /\ wsUp' = wsUp /\ Tip' = Tip /\ log' = log
        /\ \/ ws' = Append(ws, [kind |-> "session-closed", rev |-> 0])
           \/ ws' = ws
    BY <1>10 DEF DeleteSession, Tip
  <2>3. \A r \in 1..Tip' : r <= Tip BY <1>0, <2>2
  <2> QED BY <1>0, <1>3, <1>4, <2>1, <2>2, <2>3
<1>11. CASE Deliver
  <2>1. Tip' = Tip BY <1>11 DEF Deliver, serverVars, Tip
  <2> QED BY <1>0, <1>1, <1>11, <2>1, FollowsDelivered
<1>17. CASE StreamMismatch
  <2>1. [kind |-> "mismatch", rev |-> 0] \in Frames BY DEF Frames
  <2>2. ws' = Append(ws, [kind |-> "mismatch", rev |-> 0]) BY <1>17 DEF StreamMismatch
  <2>3. /\ Len(ws') \in 1..Len(ws')
        /\ ws'[Len(ws')] = [kind |-> "mismatch", rev |-> 0]
    BY <1>0, <2>1, <2>2
  <2>4. Ends(ws') BY <2>3 DEF Ends
  <2> QED BY <2>4 DEF Follows
<1>12. CASE \/ UserStep \/ SessionStep \/ ServeSync \/ ServePut \/ RefusePost \/ MangleReply
            \/ ManglePage \/ PumpError \/ SyncError \/ PublishError \/ ForeignCheckpoint
            \/ Compact
  <2>1. UNCHANGED <<log, ws, wsUp>>
    BY <1>12
       DEF UserStep, Dispatch, Undo, Redo, ClearHistory, Close, SessionStep, PumpStart,
           PumpReply, PumpDelayOver, PumpEnd, SyncReply, SyncDelayOver, SyncEnd,
           PublishPeriodic, PublishReply, ServeSync, ServePut, RefusePost, MangleReply,
           ManglePage, PumpError, SyncError, PublishError, ForeignCheckpoint, Compact, serverVars, netVars
  <2> QED BY <1>3, <2>1
<1>13. CASE UNCHANGED vars BY <1>3, <1>13 DEF vars, serverVars, netVars
<1> USE <1>6, <1>7, <1>8, <1>9, <1>10, <1>11, <1>12, <1>17
<1>14. CASE ServerStep BY <1>14 DEF ServerStep
<1>15. CASE FaultStep BY <1>15 DEF FaultStep
<1>16. CASE PeerStep BY <1>16 DEF PeerStep
<1> QED BY <1>13, <1>14, <1>15, <1>16 DEF Next

(***************************************************************************)
(* The session starts at rest, its stream still down.                      *)
(***************************************************************************)
LEMMA WakeStarts == ASSUME Init PROVE WakeInv
<1>1. IInv BY InitKeeps
<1>2. /\ s.status = "live" /\ s.sync = SyncAt("idle", 0) /\ s.resync = FALSE
      /\ s.confirmedRevision = 0 /\ s.syncTarget = 0 /\ s.pending = <<>> /\ wsUp = FALSE
  BY DEF Init, NewSession
<1>3. SyncAt("idle", 0).pc = "idle" /\ SyncAt("idle", 0).reply = NoReply BY DEF SyncAt
<1> QED BY <1>1, <1>2, <1>3 DEF WakeInv, Awake, Follows

(***************************************************************************)
(* No wake-up is lost: a live session that does not synchronise has        *)
(* reached every head it was told of, and with the stream up and emptied   *)
(* that is the server's; if its pump rests, nothing is queued.             *)
(***************************************************************************)
THEOREM WakeUpCorrect == Spec => []NoLostWakeUp
<1>1. Init => WakeInv BY WakeStarts
<1>2. WakeInv /\ [Next]_vars => WakeInv' BY WakeKeeps
<1>3. WakeInv => NoLostWakeUp
  <2> SUFFICES ASSUME WakeInv, s.status = "live"
               PROVE  /\ s.confirmedRevision >= s.syncTarget /\ ~s.resync
                      /\ wsUp /\ ws = <<>> => s.confirmedRevision = Tip
                      /\ s.pump.pc = "idle" => s.pending = <<>>
    BY DEF NoLostWakeUp
  <2>1. /\ s.confirmedRevision >= s.syncTarget /\ ~s.resync
        /\ s.pump.pc = "idle" => s.pending = <<>>
    BY DEF WakeInv, Awake
  <2>2. ASSUME wsUp, ws = <<>> PROVE s.confirmedRevision = Tip
    <3>1. ~Terminal(s) /\ ~Ends(ws) BY <2>2 DEF Terminal, Ends
    <3>2. Heard(s, ws, Tip) BY <2>2, <3>1 DEF WakeInv, Follows
    <3>3. /\ Tip \in Nat /\ s.confirmedRevision \in Nat /\ s.syncTarget \in Nat
          /\ s.confirmedRevision <= Tip
      BY Here DEF WakeInv, Good, Grounded, Sessions
    <3>4. Reach(s) = s.confirmedRevision BY <2>1, <3>3 DEF Reach, Larger
    <3>5. ASSUME Tip # 0 PROVE Tip <= s.confirmedRevision
      <4>1. Tip \in 1..Tip BY <3>3, <3>5
      <4> QED BY <2>2, <3>2, <3>4, <4>1 DEF Heard
    <3> QED BY <3>3, <3>5
  <2> QED BY <2>1, <2>2
<1> QED BY <1>1, <1>2, <1>3, PTL DEF Spec

(***************************************************************************)
(* The session keeps the promises settle() and the agent build on: every   *)
(* step of its specification is a step of SettlingSession, or changes      *)
(* nothing SettlingSession speaks of.                                      *)
(***************************************************************************)
THEOREM Refinement == Spec => ImplementsSettling
<1>1. Init => WakeInv BY WakeStarts
<1>2. WakeInv /\ [Next]_vars => WakeInv' BY WakeKeeps
<1>3. Init => Settling!Init
  <2> SUFFICES ASSUME Init PROVE Settling!Init
    OBVIOUS
  <2>1. s.status = "live" /\ s.pending = <<>> /\ s.pump = PumpAt("idle")
    BY DEF Init, NewSession
  <2>2. PumpAt("idle").pc = "idle" BY PumpAtType
  <2> QED BY <2>1, <2>2 DEF Settling!Init
<1>4. WakeInv /\ [Next]_vars => [Settling!Next]_(Settling!vars)
  <2> SUFFICES ASSUME WakeInv, [Next]_vars PROVE [Settling!Next]_(Settling!vars)
    OBVIOUS
  <2>1. WakeInv' BY WakeKeeps
  <2>2. IInv /\ Awake(s) /\ IInv' BY <2>1 DEF WakeInv
  <2>3. s \in Sessions /\ s' \in Sessions BY <2>2, Here DEF IInv, Good, Grounded
  <2>4. Settles(s', s) BY <2>2, StepOnward DEF Onward
  <2>5. /\ s.pending \in Seq(Entries) /\ s'.pending \in Seq(Entries)
        /\ s.status \in Statuses
    BY <2>3 DEF Sessions
  <2>6. /\ Len(s.pending) \in Nat /\ Len(s'.pending) \in Nat
        /\ s.pending # <<>> <=> Len(s.pending) > 0
    BY <2>5
  <2> DEFINE st == s.status
             su == s'.status
             n == Len(s.pending)
             m == Len(s'.pending)
             a == s.pump.pc # "idle"
             b == s'.pump.pc # "idle"
             open == st \in {"live", "catching-up"}
  <2>7. \/ su = st /\ m = n /\ (b = a \/ b)
        \/ open /\ su = st /\ m = n + 1 /\ b
        \/ open /\ su = st /\ m < n /\ (b = a \/ b)
        \/ st = "live" /\ su = "catching-up" /\ m = n /\ b = a
        \/ st = "catching-up" /\ su = "live" /\ m = n /\ b
        \/ su = st /\ m = n /\ a /\ ~b /\ ~(st = "live" /\ n > 0)
        \/ /\ \/ open /\ su \in {"closed", "error"}
              \/ st = "error" /\ su = "closed"
           /\ m = n /\ b = a
    BY <2>4, <2>6 DEF Settles
  <2>8. m < n => m \in 0..(n - 1) BY <2>6
  <2> HIDE DEF st, su, n, m, a, b
  <2>9. \/ open /\ m = n + 1 /\ b = TRUE /\ su = st
        \/ open /\ m \in 0..(n - 1) /\ b \in {a, TRUE} /\ su = st
        \/ b = TRUE /\ su = st /\ m = n
        \/ st = "live" /\ su = "catching-up" /\ m = n /\ b = a
        \/ st = "catching-up" /\ su = "live" /\ b = TRUE /\ m = n
        \/ a /\ ~(st = "live" /\ n > 0) /\ b = FALSE /\ su = st /\ m = n
        \/ /\ \/ open /\ su \in {"closed", "error"}
              \/ st = "error" /\ su = "closed"
           /\ m = n /\ b = a
        \/ su = st /\ m = n /\ b = a
    <3>1. a \in BOOLEAN /\ b \in BOOLEAN BY DEF a, b
    <3> QED BY <2>7, <2>8, <3>1 DEF open
  <2>10. (su = st /\ m = n /\ b = a) => Settling!vars' = Settling!vars
    BY DEF Settling!vars, st, su, n, m, a, b
  <2> QED
    BY <2>9, <2>10
       DEF Settling!Next, Settling!Issue, Settling!Resolve, Settling!Nudge,
           Settling!FallBehind, Settling!CatchUp, Settling!PumpStops, Settling!End,
           Settling!Open, st, su, n, m, a, b, open
<1> QED BY <1>1, <1>2, <1>3, <1>4, PTL DEF Spec, ImplementsSettling, Settling!Spec

-----------------------------------------------------------------------------
(***************************************************************************)
(* The ledger of intentions.                                               *)
(*                                                                         *)
(* What a session, the log and the requests on their way (Z) hold of one   *)
(* another.  Queue: every queued intention is one the session started, has *)
(* a record, and is queued once.                                           *)
(***************************************************************************)
Queue(t) ==
  /\ Len(t.recs) = Len(t.fate)
  /\ \A j \in 1..Len(t.pending) :
       /\ t.pending[j].intent \in 1..Len(t.fate)
       /\ t.pending[j].rec \in 1..Len(t.recs)
       /\ \A m \in 1..Len(t.pending) : t.pending[m].intent = t.pending[j].intent => m = j

(***************************************************************************)
(* Stacks: a record is on at most one history stack, at most once, and     *)
(* only as the record of the intention of its number, which was not given  *)
(* up.                                                                     *)
(***************************************************************************)
On(q, x) == \E i \in 1..Len(q) : q[i] = x
OnStack(t, x) == On(t.undo, x) \/ On(t.redo, x)

Injective(q) == \A i, j \in 1..Len(q) : q[i] = q[j] => i = j

Stacks(t) ==
  /\ Injective(t.undo) /\ Injective(t.redo)
  /\ \A x : ~(On(t.undo, x) /\ On(t.redo, x))
  /\ \A x : OnStack(t, x) =>
       /\ x \in 1..Len(t.recs) /\ t.fate[x] = "open"
       /\ \A j \in 1..Len(t.pending) : t.pending[j].intent = x => t.pending[j].rec = x

(***************************************************************************)
(* Recorded: the last queued intention tied to a record is the one the     *)
(* record describes, mirrored for an undo.                                 *)
(***************************************************************************)
Mirror(e, p) == Wire(IF e.origin = "undo" THEN Invert(p) ELSE p)

Superseded(q, i) == \E j \in 1..Len(q) : j > i /\ q[j].rec = q[i].rec

Recorded(t) ==
  \A i \in 1..Len(t.pending) :
    Superseded(t.pending, i) \/ t.pending[i].predicted = Mirror(t.pending[i], t.recs[t.pending[i].rec])

Books(t) == Queue(t) /\ Stacks(t) /\ Recorded(t)

(***************************************************************************)
(* Minting: an opId this participant uses, in the log, on the way or in    *)
(* its queue, belongs to one intention.                                    *)
(***************************************************************************)
Sent(l, Z, k, i) ==
  \/ \E r \in 1..Len(l) : l[r].actor = Me /\ l[r].opId = k /\ l[r].intent = i
  \/ \E q \in Z : q.opId = k /\ q.intent = i

Uses(e, k) == e.opId = k \/ \E a \in e.attempts : a.opId = k

Held(q, k, i) == \E j \in 1..Len(q) : q[j].intent = i /\ Uses(q[j], k)

Minting(t, l, Z) ==
  \A k, i : Sent(l, Z, k, i) \/ Held(t.pending, k, i) =>
    /\ k \in 0..t.opCounter /\ i \in 1..Len(t.fate)
    /\ \A m : Sent(l, Z, k, m) \/ Held(t.pending, k, m) => m = i

(***************************************************************************)
(* Heads: only the head of the queue was ever submitted, and under its     *)
(* present opId only on the revision the session is at.                    *)
(***************************************************************************)
Heads(t) ==
  /\ \A j \in 1..Len(t.pending) : j > 1 => t.pending[j].attempts = {}
  /\ t.pending # <<>> =>
       \A a \in t.pending[1].attempts :
         a.opId = t.pending[1].opId => a.base = t.confirmedRevision

(***************************************************************************)
(* Unseen: a queued intention that is committed already was committed      *)
(* after the session's revision, by an attempt the session remembers.      *)
(***************************************************************************)
Remembers(e, k, b) == \E a \in e.attempts : a.opId = k /\ a.base = b

Unseen(t, l) ==
  \A j \in 1..Len(t.pending) : \A r \in 1..Len(l) :
    l[r].intent = t.pending[j].intent =>
      r > t.confirmedRevision /\ Remembers(t.pending[j], l[r].opId, r - 1)

(***************************************************************************)
(* Ahead: a request on its way was built before any commit of its          *)
(* intention, and while it could still be accepted the session remembers   *)
(* it.                                                                     *)
(***************************************************************************)
Ahead(t, l, Z) ==
  \A q \in Z :
    /\ q.base <= Len(l)
    /\ \A r \in 1..Len(l) : l[r].intent = q.intent => q.base < r
    /\ q.base = Len(l) =>
         \A j \in 1..Len(t.pending) :
           t.pending[j].intent = q.intent => Remembers(t.pending[j], q.opId, q.base)

(***************************************************************************)
(* Kept: an intention that nobody was told to be lost is queued or in the  *)
(* log.                                                                    *)
(***************************************************************************)
Logged(l, x) == \E r \in 1..Len(l) : l[r].intent = x
Queued(q, x) == \E j \in 1..Len(q) : q[j].intent = x

Kept(t, l) ==
  \A x \in 1..Len(t.fate) : t.fate[x] = "open" => Queued(t.pending, x) \/ Logged(l, x)

Tally(t, l, Z) ==
  Minting(t, l, Z) /\ Heads(t) /\ Unseen(t, l) /\ Ahead(t, l, Z)

Ledger(t, l, Z) == Books(t) /\ Tally(t, l, Z) /\ Kept(t, l)

(***************************************************************************)
(* The log itself: only this participant's operations carry its            *)
(* intentions, each of them at most once.                                  *)
(***************************************************************************)
Honest(l) ==
  /\ \A r \in 1..Len(l) : l[r].actor = Me \/ l[r].intent = 0
  /\ \A q, r \in 1..Len(l) : l[q].intent = l[r].intent /\ l[q].intent # 0 => q = r

Travelling(t, z) == IF t.pump.pc = "post" THEN z \cup {t.pump.req} ELSE z

(***************************************************************************)
(* A change of the session that the ledger does not see.                   *)
(***************************************************************************)
SameBooks(u, t) ==
  /\ u.pending = t.pending /\ u.recs = t.recs /\ u.fate = t.fate
  /\ u.undo = t.undo /\ u.redo = t.redo
  /\ u.opCounter = t.opCounter /\ u.confirmedRevision = t.confirmedRevision

Quiet(u, t) ==
  SameBooks(u, t) /\ (u.pump.pc = "post" => t.pump.pc = "post" /\ u.pump.req = t.pump.req)

(* A turn that leaves the books alone and sends nothing new keeps them.    *)
LEMMA QuietLedger ==
  ASSUME NEW l, NEW Z, NEW Y, Y \subseteq Z, NEW t, Ledger(t, l, Z), NEW u, SameBooks(u, t)
  PROVE  Ledger(u, l, Y)
<1>1. Books(u) BY DEF Ledger, Books, Queue, Stacks, OnStack, Recorded, SameBooks
<1>2. \A k, i : Sent(l, Y, k, i) => Sent(l, Z, k, i) BY DEF Sent
<1>3. Minting(u, l, Y) BY <1>2 DEF Ledger, Tally, Minting, SameBooks
<1>4. Heads(u) /\ Unseen(u, l) BY DEF Ledger, Tally, Heads, Unseen, SameBooks
<1>5. Ahead(u, l, Y) BY DEF Ledger, Tally, Ahead, SameBooks
<1>6. Kept(u, l) BY DEF Ledger, Kept, SameBooks
<1> QED BY <1>1, <1>3, <1>4, <1>5, <1>6 DEF Ledger, Tally

-----------------------------------------------------------------------------
(* Splicing, and one pass of the rebase.                                   *)

(***************************************************************************)
(* A record that is on a stack once is off it after Without, and nothing   *)
(* else is.                                                                *)
(***************************************************************************)
LEMMA WithoutSkips ==
  ASSUME NEW q \in Seq(Nat), NEW k \in 1..Len(q)
  PROVE  LET w == SubSeq(q, 1, k - 1) \o SubSeq(q, k + 1, Len(q))
         IN  /\ Len(w) = Len(q) - 1
             /\ \A i \in 1..Len(w) : w[i] = IF i < k THEN q[i] ELSE q[i + 1]
<1> DEFINE a == SubSeq(q, 1, k - 1)
           b == SubSeq(q, k + 1, Len(q))
<1>0. k \in Nat /\ k >= 1 /\ k <= Len(q) /\ Len(q) \in Nat OBVIOUS
<1>1. /\ a \in Seq(Nat) /\ Len(a) = k - 1
      /\ \A i \in 1..(k - 1) : a[i] = q[i]
  OBVIOUS
<1>2. /\ b \in Seq(Nat) /\ Len(b) = Len(q) - k
      /\ \A i \in 1..(Len(q) - k) : b[i] = q[k + i]
  BY <1>0, SuffixType
<1> HIDE DEF a, b
<1>3. /\ Len(a \o b) = Len(a) + Len(b)
      /\ \A i \in 1..(Len(a) + Len(b)) :
           (a \o b)[i] = IF i <= Len(a) THEN a[i] ELSE b[i - Len(a)]
  <2>1. a \in Seq(Nat) /\ b \in Seq(Nat) BY <1>1, <1>2
  <2> QED BY <2>1
<1>4. Len(a \o b) = Len(q) - 1 BY <1>0, <1>1, <1>2, <1>3
<1>5. ASSUME NEW i \in 1..Len(a \o b)
      PROVE  (a \o b)[i] = IF i < k THEN q[i] ELSE q[i + 1]
  <2>0. i \in Nat /\ i >= 1 /\ i <= Len(q) - 1 BY <1>0, <1>4
  <2>1. (a \o b)[i] = IF i <= Len(a) THEN a[i] ELSE b[i - Len(a)] BY <1>3
  <2>2. CASE i < k
    <3>1. i <= Len(a) /\ i \in 1..(k - 1) BY <1>0, <1>1, <2>0, <2>2
    <3> QED BY <1>1, <2>1, <2>2, <3>1
  <2>3. CASE ~(i < k)
    <3>1. ~(i <= Len(a)) /\ i - Len(a) \in 1..(Len(q) - k) /\ k + (i - Len(a)) = i + 1
      BY <1>0, <1>1, <2>0, <2>3
    <3> QED BY <1>2, <2>1, <2>3, <3>1
  <2> QED BY <2>2, <2>3
<1> QED BY <1>4, <1>5 DEF a, b

(***************************************************************************)
(* The same of the operator.                                               *)
(***************************************************************************)
LEMMA WithoutFacts ==
  ASSUME NEW q \in Seq(Nat), Injective(q), NEW r
  PROVE  /\ Injective(Without(q, r)) /\ ~On(Without(q, r), r)
         /\ \A x : On(Without(q, r), x) => On(q, x)
<1>1. CASE \E i \in 1..Len(q) : q[i] = r
  <2> DEFINE k == CHOOSE i \in 1..Len(q) : q[i] = r
             w == SubSeq(q, 1, k - 1) \o SubSeq(q, k + 1, Len(q))
  <2>1. k \in 1..Len(q) /\ q[k] = r BY <1>1
  <2>2. Without(q, r) = w BY <1>1 DEF Without
  <2> HIDE DEF k
  <2>3. /\ Len(w) = Len(q) - 1
        /\ \A i \in 1..Len(w) : w[i] = IF i < k THEN q[i] ELSE q[i + 1]
    BY <2>1, WithoutSkips
  <2> HIDE DEF w
  <2>4. Len(q) \in Nat /\ k \in Nat BY <2>1
  <2>5. ASSUME NEW i \in 1..Len(w)
        PROVE  \E j \in 1..Len(q) : j = (IF i < k THEN i ELSE i + 1) /\ w[i] = q[j] /\ j # k
    BY <2>1, <2>3, <2>4
  <2>6. Injective(w)
    <3> SUFFICES ASSUME NEW i \in 1..Len(w), NEW j \in 1..Len(w), w[i] = w[j] PROVE i = j
      BY DEF Injective
    <3>1. PICK a \in 1..Len(q) : a = (IF i < k THEN i ELSE i + 1) /\ w[i] = q[a] BY <2>5
    <3>2. PICK b \in 1..Len(q) : b = (IF j < k THEN j ELSE j + 1) /\ w[j] = q[b] BY <2>5
    <3>3. a = b BY <3>1, <3>2 DEF Injective
    <3> QED BY <2>4, <3>1, <3>2, <3>3
  <2>7. ~On(w, r) BY <2>1, <2>5 DEF On, Injective
  <2>8. \A x : On(w, x) => On(q, x) BY <2>5 DEF On
  <2> QED BY <2>2, <2>6, <2>7, <2>8
<1>2. CASE ~\E i \in 1..Len(q) : q[i] = r
  BY <1>2 DEF Without, On
<1> QED BY <1>1, <1>2

(***************************************************************************)
(* A pass of rebase's loop skips the intention, enqueues it again, or      *)
(* drops it.                                                               *)
(***************************************************************************)
Enqueues(u, t, e) ==
  \E p \in PatchOps, x \in Entries :
    /\ x.intent = e.intent /\ x.rec = e.rec /\ x.origin = e.origin
    /\ x.attempts = {a \in e.attempts : a.base >= t.confirmedRevision}
    /\ x.opId = t.opCounter + 1 /\ x.predicted = Wire(p)
    /\ u.pending = Append(t.pending, x) /\ u.opCounter = t.opCounter + 1
    /\ u.recs = [t.recs EXCEPT ![e.rec] = IF e.origin = "undo" THEN Invert(p) ELSE p]
    /\ u.fate = t.fate /\ u.undo = t.undo /\ u.redo = t.redo

Drops(u, t, e) ==
  /\ u.pending = t.pending /\ u.opCounter = t.opCounter /\ u.recs = t.recs
  /\ u.undo = Without(t.undo, e.rec) /\ u.redo = Without(t.redo, e.rec)
  /\ \E f \in {"conflict", "dissolved"} : u.fate = [t.fate EXCEPT ![e.intent] = f]

(* A rebase skips an entry, queues it again or drops it.                   *)
LEMMA ReexecuteShape ==
  ASSUME NEW t \in Sessions, NEW e \in Entries, NEW sk
  PROVE  \/ e.intent \in sk /\ Reexecute(t, e, sk) = t
         \/ e.intent \notin sk /\ Enqueues(Reexecute(t, e, sk), t, e)
         \/ e.intent \notin sk /\ Drops(Reexecute(t, e, sk), t, e)
<1>1. CASE e.intent \in sk
  BY <1>1 DEF Reexecute
<1>2. CASE e.intent \notin sk /\ Commits(t.doc, e.cmd)
  <2> DEFINE p == Forward(t.doc, e.cmd)
             w == Wire(p)
             kept == {a \in e.attempts : a.base >= t.confirmedRevision}
             m == IF e.origin = "undo" THEN Invert(p) ELSE p
             o == t.opCounter + 1
             x == [e EXCEPT !.opId = o, !.predicted = w, !.attempts = kept]
             d == Apply(t.doc, w)
             R == [t.recs EXCEPT ![e.rec] = m]
             q == Append(t.pending, x)
             u == [t EXCEPT !.doc = d, !.opCounter = o, !.recs = R, !.pending = q]
  <2>1. Reexecute(t, e, sk) = u BY <1>2 DEF Reexecute
  <2>2. t.doc \in Docs /\ e.cmd \in Invocations /\ o \in Nat BY DEF Sessions, Entries
  <2>3. p \in PatchOps /\ w \in WirePatches BY <2>2, ForwardFits
  <2> HIDE DEF p
  <2>4. kept \in SUBSET Attempts BY DEF Entries
  <2>5. /\ x \in Entries /\ x.intent = e.intent /\ x.rec = e.rec /\ x.origin = e.origin
        /\ x.attempts = kept /\ x.opId = o /\ x.predicted = w
    <3> HIDE DEF kept, o, w
    <3> QED BY <2>2, <2>3, <2>4 DEF Entries
  <2>6. /\ u.pending = q /\ u.opCounter = o /\ u.recs = R
        /\ u.fate = t.fate /\ u.undo = t.undo /\ u.redo = t.redo
    <3> HIDE DEF q, R, o, d
    <3> QED BY DEF Sessions
  <2> HIDE DEF u, x
  <2>7. Enqueues(u, t, e) BY <2>3, <2>5, <2>6 DEF Enqueues
  <2> QED BY <1>2, <2>1, <2>7
<1>3. CASE e.intent \notin sk /\ ~Commits(t.doc, e.cmd)
  <2> DEFINE U == Without(t.undo, e.rec)
             R == Without(t.redo, e.rec)
             v == [t EXCEPT !.undo = U, !.redo = R]
             f == IF Fails(t.doc, e.cmd) THEN "conflict" ELSE "dissolved"
             F == [v.fate EXCEPT ![e.intent] = f]
             u == [v EXCEPT !.fate = F]
  <2>1. Reexecute(t, e, sk) = u BY <1>3 DEF Reexecute, RemoveRecord
  <2>2. f \in {"conflict", "dissolved"} OBVIOUS
  <2> HIDE DEF f
  <2>3. /\ v.pending = t.pending /\ v.opCounter = t.opCounter /\ v.recs = t.recs
        /\ v.undo = U /\ v.redo = R /\ v.fate = t.fate
    <3> HIDE DEF U, R
    <3> QED BY DEF Sessions
  <2>4. /\ u.pending = v.pending /\ u.opCounter = v.opCounter /\ u.recs = v.recs
        /\ u.undo = v.undo /\ u.redo = v.redo /\ u.fate = F
    <3>1. v.fate \in Seq(Fates) /\ DOMAIN v = DOMAIN t BY DEF Sessions
    <3> HIDE DEF F
    <3> QED BY <3>1 DEF Sessions
  <2> HIDE DEF u
  <2>5. F = [t.fate EXCEPT ![e.intent] = f] BY <2>3
  <2> HIDE DEF F, v
  <2>6. Drops(u, t, e) BY <2>2, <2>3, <2>4, <2>5 DEF Drops, U, R
  <2> QED BY <1>3, <2>1, <2>6
<1> QED BY <1>1, <1>2, <1>3

(***************************************************************************)
(* What i passes of a rebase that skips the intentions sk have made of the *)
(* session g.                                                              *)
(***************************************************************************)
Survivor(x, e, rev) ==
  /\ x.intent = e.intent /\ x.rec = e.rec /\ x.origin = e.origin
  /\ x.attempts = {a \in e.attempts : a.base >= rev}

Survivors(u, g, sk, i) ==
  \A j \in 1..Len(u.pending) :
    /\ \E k \in 1..i : /\ Survivor(u.pending[j], g.pending[k], g.confirmedRevision)
                       /\ j > 1 => k > 1
                       /\ g.pending[k].intent \notin sk
    /\ g.opCounter < u.pending[j].opId /\ u.pending[j].opId <= u.opCounter
    /\ \A m \in 1..Len(u.pending) :
         \/ u.pending[m].intent = u.pending[j].intent
         \/ u.pending[m].opId = u.pending[j].opId
         => m = j

Accounted(u, g, sk, i) ==
  \A k \in 1..i : \/ g.pending[k].intent \in sk
                  \/ Queued(u.pending, g.pending[k].intent)
                  \/ u.fate[g.pending[k].intent] # "open"

Stacked(u, g) ==
  /\ Injective(u.undo) /\ Injective(u.redo)
  /\ \A x : On(u.undo, x) => On(g.undo, x)
  /\ \A x : On(u.redo, x) => On(g.redo, x)
  /\ \A x : OnStack(u, x) => u.fate[x] = "open"

Counted(u, g) ==
  /\ Len(u.recs) = Len(g.recs) /\ Len(u.fate) = Len(g.fate) /\ u.opCounter >= g.opCounter
  /\ u.confirmedRevision = g.confirmedRevision
  /\ \A x \in 1..Len(u.fate) : u.fate[x] = "open" => g.fate[x] = "open"

Rebased(u, g, sk, i) ==
  Counted(u, g) /\ Survivors(u, g, sk, i) /\ Accounted(u, g, sk, i) /\ Recorded(u) /\ Stacked(u, g)

(***************************************************************************)
(* Appending to a queue.                                                   *)
(***************************************************************************)
LEMMA Appended ==
  ASSUME NEW S, NEW q \in Seq(S), NEW x
  PROVE  /\ Len(Append(q, x)) = Len(q) + 1 /\ Append(q, x)[Len(q) + 1] = x
         /\ \A j \in 1..Len(q) : Append(q, x)[j] = q[j]
         /\ \A j \in 1..(Len(q) + 1) : j \in 1..Len(q) \/ j = Len(q) + 1
         /\ Len(q) \in Nat
OBVIOUS

(***************************************************************************)
(* A pass that re-executes.                                                *)
(***************************************************************************)
LEMMA EnqueuePass ==
  ASSUME NEW g \in Sessions, NEW u \in Sessions, NEW v, NEW sk, Queue(g),
         NEW i \in 1..Len(g.pending), Rebased(u, g, sk, i - 1),
         g.pending[i].intent \notin sk, Enqueues(v, u, g.pending[i]),
         v.confirmedRevision = u.confirmedRevision
  PROVE  Rebased(v, g, sk, i)
<1> DEFINE e == g.pending[i]
           n == Len(u.pending)
<1>0. /\ g.pending \in Seq(Entries) /\ u.pending \in Seq(Entries) /\ u.recs \in Seq(PatchOps)
      /\ u.opCounter \in Nat /\ g.opCounter \in Nat
  BY DEF Sessions
<1>1. i \in Nat /\ i - 1 \in Nat /\ i >= 1 /\ i \in 1..i /\ \A k \in 1..i : k \in 1..(i - 1) \/ k = i
  BY <1>0
<1>2. /\ e.rec \in 1..Len(u.recs)
      /\ \A k \in 1..(i - 1) : g.pending[k].intent # e.intent
  <2>1. e.rec \in 1..Len(g.recs) BY DEF Queue
  <2>2. ASSUME NEW k \in 1..(i - 1), g.pending[k].intent = e.intent PROVE FALSE
    <3>1. k \in 1..Len(g.pending) /\ k # i BY <1>0, <1>1
    <3> QED BY <2>2, <3>1 DEF Queue
  <2> QED BY <2>1, <2>2 DEF Rebased, Counted
<1>3. PICK p \in PatchOps, x \in Entries :
        /\ x.intent = e.intent /\ x.rec = e.rec /\ x.origin = e.origin
        /\ x.attempts = {a \in e.attempts : a.base >= u.confirmedRevision}
        /\ x.opId = u.opCounter + 1 /\ x.predicted = Wire(p)
        /\ v.pending = Append(u.pending, x) /\ v.opCounter = u.opCounter + 1
        /\ v.recs = [u.recs EXCEPT ![e.rec] = IF e.origin = "undo" THEN Invert(p) ELSE p]
        /\ v.fate = u.fate /\ v.undo = u.undo /\ v.redo = u.redo
  BY DEF Enqueues
<1> HIDE DEF e
<1>4. /\ Len(v.pending) = n + 1 /\ v.pending[n + 1] = x /\ n \in Nat
      /\ \A j \in 1..n : v.pending[j] = u.pending[j]
      /\ \A j \in 1..(n + 1) : j \in 1..n \/ j = n + 1
  BY <1>0, <1>3, Appended
<1> HIDE DEF n
<1>5. Counted(v, g)
  <2>1. Len(v.recs) = Len(u.recs) BY <1>0, <1>3
  <2> QED BY <1>0, <1>3, <2>1 DEF Rebased, Counted
<1>6. Survivors(v, g, sk, i)
  <2>1. Survivor(x, e, g.confirmedRevision) BY <1>3 DEF Survivor, Rebased, Counted
  <2>2. ASSUME NEW j \in 1..n
        PROVE  /\ \E k \in 1..(i - 1) : /\ Survivor(u.pending[j], g.pending[k], g.confirmedRevision)
                                        /\ j > 1 => k > 1
                                        /\ g.pending[k].intent \notin sk
               /\ g.opCounter < u.pending[j].opId /\ u.pending[j].opId <= u.opCounter
               /\ \A m \in 1..n : \/ u.pending[m].intent = u.pending[j].intent
                                  \/ u.pending[m].opId = u.pending[j].opId
                                  => m = j
    BY DEF Rebased, Survivors, n
  <2>3. n >= 1 => i > 1
    <3> SUFFICES ASSUME n >= 1 PROVE i > 1
      OBVIOUS
    <3>1. 1 \in 1..n BY <1>4
    <3>2. PICK k \in 1..(i - 1) : TRUE BY <2>2, <3>1
    <3> QED BY <1>1, <3>2
  <2>4. \A j \in 1..n : u.pending[j].intent # x.intent /\ u.pending[j].opId # x.opId
    <3> SUFFICES ASSUME NEW j \in 1..n
                 PROVE  u.pending[j].intent # x.intent /\ u.pending[j].opId # x.opId
      OBVIOUS
    <3>1. u.pending[j].intent # x.intent BY <1>2, <1>3, <2>2 DEF Survivor
    <3>2. u.pending[j] \in Entries BY <1>0 DEF n
    <3>3. u.pending[j].opId \in Nat /\ u.pending[j].opId <= u.opCounter BY <2>2, <3>2 DEF Entries
    <3>4. x.opId = u.opCounter + 1 BY <1>3
    <3> QED BY <1>0, <3>1, <3>3, <3>4
  <2>5. ASSUME NEW j \in 1..(n + 1)
        PROVE  \E k \in 1..i : /\ Survivor(v.pending[j], g.pending[k], g.confirmedRevision)
                               /\ j > 1 => k > 1
                               /\ g.pending[k].intent \notin sk
    <3>1. CASE j \in 1..n
      <4>1. PICK k \in 1..(i - 1) : /\ Survivor(u.pending[j], g.pending[k], g.confirmedRevision)
                                    /\ j > 1 => k > 1
                                    /\ g.pending[k].intent \notin sk
        BY <2>2, <3>1
      <4>2. k \in 1..i BY <1>1
      <4>3. v.pending[j] = u.pending[j] BY <1>4, <3>1
      <4> QED BY <4>1, <4>2, <4>3
    <3>2. CASE j = n + 1
      <4>1. v.pending[j] = x /\ (j > 1 => i > 1) BY <1>4, <2>3, <3>2
      <4>2. Survivor(v.pending[j], g.pending[i], g.confirmedRevision)
        BY <2>1, <4>1 DEF e
      <4> QED BY <1>1, <4>1, <4>2
    <3> QED BY <1>4, <3>1, <3>2
  <2>6. ASSUME NEW j \in 1..(n + 1)
        PROVE  g.opCounter < v.pending[j].opId /\ v.pending[j].opId <= v.opCounter
    <3>1. CASE j \in 1..n
      <4>1. u.pending[j] \in Entries BY <1>0, <3>1 DEF n
      <4>2. u.pending[j].opId \in Nat BY <4>1 DEF Entries
      <4>3. g.opCounter < u.pending[j].opId /\ u.pending[j].opId <= u.opCounter BY <2>2, <3>1
      <4>4. v.pending[j] = u.pending[j] BY <1>4, <3>1
      <4> QED BY <1>0, <1>3, <4>2, <4>3, <4>4
    <3>2. CASE j = n + 1
      <4>1. u.opCounter >= g.opCounter BY DEF Rebased, Counted
      <4>2. v.pending[j].opId = u.opCounter + 1 BY <1>3, <1>4, <3>2
      <4> QED BY <1>0, <1>3, <4>1, <4>2
    <3> QED BY <1>4, <3>1, <3>2
  <2>7. ASSUME NEW j \in 1..(n + 1), NEW m \in 1..(n + 1),
               \/ v.pending[m].intent = v.pending[j].intent
               \/ v.pending[m].opId = v.pending[j].opId
        PROVE  m = j
    <3>1. CASE j \in 1..n /\ m \in 1..n
      <4>1. v.pending[j] = u.pending[j] /\ v.pending[m] = u.pending[m] BY <1>4, <3>1
      <4> QED BY <2>2, <2>7, <3>1, <4>1
    <3>2. CASE j \in 1..n /\ m = n + 1
      <4>1. v.pending[j] = u.pending[j] /\ v.pending[m] = x BY <1>4, <3>2
      <4> QED BY <2>4, <2>7, <3>2, <4>1
    <3>3. CASE j = n + 1 /\ m \in 1..n
      <4>1. v.pending[j] = x /\ v.pending[m] = u.pending[m] BY <1>4, <3>3
      <4> QED BY <2>4, <2>7, <3>3, <4>1
    <3> QED BY <1>4, <3>1, <3>2, <3>3
  <2> QED BY <1>4, <2>5, <2>6, <2>7 DEF Survivors
<1>7. \A y : Queued(u.pending, y) \/ x.intent = y => Queued(v.pending, y)
  <2>1. \A j \in 1..n : j \in 1..(n + 1) BY <1>4
  <2>2. n + 1 \in 1..(n + 1) BY <1>4
  <2> QED BY <1>4, <2>1, <2>2 DEF Queued, n
<1>8. Accounted(v, g, sk, i)
  <2> SUFFICES ASSUME NEW k \in 1..i
               PROVE  \/ g.pending[k].intent \in sk
                      \/ Queued(v.pending, g.pending[k].intent)
                      \/ v.fate[g.pending[k].intent] # "open"
    BY DEF Accounted
  <2>1. CASE k \in 1..(i - 1) BY <1>3, <1>7, <2>1 DEF Rebased, Accounted
  <2>2. CASE k = i BY <1>3, <1>7, <2>2 DEF e
  <2> QED BY <1>1, <2>1, <2>2
<1>9. Recorded(v)
  <2> SUFFICES ASSUME NEW j \in 1..(n + 1)
               PROVE  \/ Superseded(v.pending, j)
                      \/ v.pending[j].predicted = Mirror(v.pending[j], v.recs[v.pending[j].rec])
    BY <1>4 DEF Recorded
  <2>0. n + 1 \in 1..(n + 1) /\ \A m \in 1..n : m \in 1..(n + 1) /\ n + 1 > m BY <1>4
  <2>1. CASE j = n + 1
    <3>1. v.pending[j] = x BY <1>4, <2>1
    <3>2. v.recs[x.rec] = IF e.origin = "undo" THEN Invert(p) ELSE p BY <1>0, <1>2, <1>3
    <3>3. Invert(Invert(p)) = p BY DEF Invert, PatchOps
    <3>4. Mirror(x, v.recs[x.rec]) = Wire(p) BY <1>3, <3>2, <3>3 DEF Mirror
    <3> QED BY <1>3, <3>1, <3>4
  <2>2. CASE j \in 1..n
    <3>0. v.pending[j] = u.pending[j] BY <1>4, <2>2
    <3>1. CASE u.pending[j].rec = x.rec
      <4>1. n + 1 > j /\ v.pending[n + 1].rec = v.pending[j].rec BY <1>4, <2>0, <2>2, <3>0, <3>1
      <4> QED BY <1>4, <2>0, <4>1 DEF Superseded
    <3>2. CASE u.pending[j].rec # x.rec
      <4>1. v.recs[u.pending[j].rec] = u.recs[u.pending[j].rec] BY <1>0, <1>3, <3>2
      <4>2. \/ Superseded(u.pending, j)
            \/ u.pending[j].predicted = Mirror(u.pending[j], u.recs[u.pending[j].rec])
        BY <2>2 DEF Rebased, Recorded, n
      <4>3. Superseded(u.pending, j) => Superseded(v.pending, j)
        BY <1>4, <2>0, <2>2 DEF Superseded, n
      <4> QED BY <3>0, <4>1, <4>2, <4>3
    <3> QED BY <3>1, <3>2
  <2> QED BY <1>4, <2>1, <2>2
<1>10. Stacked(v, g) BY <1>3 DEF Rebased, Stacked, OnStack
<1> QED BY <1>5, <1>6, <1>8, <1>9, <1>10 DEF Rebased

(***************************************************************************)
(* A pass that drops.                                                      *)
(***************************************************************************)
LEMMA DropPass ==
  ASSUME NEW g \in Sessions, NEW u \in Sessions, NEW v, NEW sk, Queue(g), Stacks(g),
         NEW i \in 1..Len(g.pending), Rebased(u, g, sk, i - 1),
         Drops(v, u, g.pending[i]), v.confirmedRevision = u.confirmedRevision
  PROVE  Rebased(v, g, sk, i)
<1> DEFINE e == g.pending[i]
<1>0. /\ g.pending \in Seq(Entries) /\ u.fate \in Seq(Fates)
      /\ u.undo \in Seq(Nat) /\ u.redo \in Seq(Nat)
  BY DEF Sessions
<1>1. i \in Nat /\ i >= 1 /\ \A k \in 1..i : k \in 1..(i - 1) \/ k = i BY <1>0
<1>2. e.intent \in 1..Len(u.fate)
  <2>1. e.intent \in 1..Len(g.fate) BY DEF Queue
  <2> QED BY <2>1 DEF Rebased, Counted
<1>3. PICK f \in {"conflict", "dissolved"} : v.fate = [u.fate EXCEPT ![e.intent] = f] BY DEF Drops
<1>4. /\ Len(v.fate) = Len(u.fate) /\ v.fate[e.intent] # "open"
      /\ \A x : x # e.intent => v.fate[x] = u.fate[x]
  BY <1>0, <1>2, <1>3
<1>5. /\ v.pending = u.pending /\ v.opCounter = u.opCounter /\ v.recs = u.recs
      /\ v.undo = Without(u.undo, e.rec) /\ v.redo = Without(u.redo, e.rec)
  BY DEF Drops
<1> HIDE DEF e
<1>6. Counted(v, g) BY <1>4, <1>5 DEF Rebased, Counted
<1>7. Survivors(v, g, sk, i)
  <2>1. \A k \in 1..(i - 1) : k \in 1..i BY <1>1
  <2> QED BY <1>5, <2>1 DEF Rebased, Survivors
<1>8. Accounted(v, g, sk, i)
  <2> SUFFICES ASSUME NEW k \in 1..i
               PROVE  \/ g.pending[k].intent \in sk
                      \/ Queued(v.pending, g.pending[k].intent)
                      \/ v.fate[g.pending[k].intent] # "open"
    BY DEF Accounted
  <2>1. CASE k \in 1..(i - 1)
    <3>1. \/ g.pending[k].intent \in sk \/ Queued(u.pending, g.pending[k].intent)
          \/ u.fate[g.pending[k].intent] # "open"
      BY <2>1 DEF Rebased, Accounted
    <3> QED BY <1>4, <1>5, <3>1
  <2>2. CASE k = i BY <1>4, <2>2 DEF e
  <2> QED BY <1>1, <2>1, <2>2
<1>9. Recorded(v) BY <1>5 DEF Rebased, Recorded
<1>10. Stacked(v, g)
  <2>0. /\ Injective(u.undo) /\ Injective(u.redo)
        /\ \A x : On(u.undo, x) => On(g.undo, x)
        /\ \A x : On(u.redo, x) => On(g.redo, x)
        /\ \A x : OnStack(u, x) => u.fate[x] = "open"
    BY DEF Rebased, Stacked
  <2>1. /\ Injective(v.undo) /\ ~On(v.undo, e.rec) /\ \A x : On(v.undo, x) => On(u.undo, x)
    BY <1>0, <1>5, <2>0, WithoutFacts
  <2>2. /\ Injective(v.redo) /\ ~On(v.redo, e.rec) /\ \A x : On(v.redo, x) => On(u.redo, x)
    BY <1>0, <1>5, <2>0, WithoutFacts
  <2>3. ASSUME NEW x, OnStack(v, x) PROVE v.fate[x] = "open"
    <3>1. OnStack(u, x) /\ OnStack(g, x) /\ x # e.rec BY <2>0, <2>1, <2>2, <2>3 DEF OnStack
    <3>2. x # e.intent
      <4>1. e.intent = x => e.rec = x BY <3>1 DEF Stacks, e
      <4> QED BY <3>1, <4>1
    <3> QED BY <1>4, <2>0, <3>1, <3>2
  <2> QED BY <2>0, <2>1, <2>2, <2>3 DEF Stacked
<1> QED BY <1>6, <1>7, <1>8, <1>9, <1>10 DEF Rebased

(***************************************************************************)
(* A whole rebase.                                                         *)
(***************************************************************************)
LEMMA RebaseResult ==
  ASSUME NEW n \in Nat, NEW D, NEW g, Grounded(g, n, D), Queue(g), Stacks(g), NEW sk
  PROVE  Rebased(Rebase(g, sk), g, sk, Len(g.pending))
<1> DEFINE k == Len(g.pending)
           X == [i \in 0..k |-> {u \in Sessions : Rebased(u, g, sk, i)}]
<1>0. /\ k \in Nat /\ g \in Sessions /\ g.pending \in Seq(Entries) /\ g.opCounter \in Nat
  BY DEF Grounded, Sessions
<1>1. Emptied(g) \in X[0]
  <2> DEFINE b == Emptied(g)
  <2>1. /\ b.pending = <<>> /\ b \in Sessions /\ b.fate = g.fate /\ b.recs = g.recs
        /\ b.undo = g.undo /\ b.redo = g.redo /\ b.opCounter = g.opCounter
        /\ b.confirmedRevision = g.confirmedRevision
    <3>1. <<>> \in Seq(Entries) /\ g.confirmed \in Docs BY <1>0 DEF Sessions
    <3> QED BY <1>0, <3>1 DEF Emptied, Sessions
  <2> HIDE DEF b
  <2>2. Counted(b, g) BY <1>0, <2>1 DEF Counted
  <2>3. Survivors(b, g, sk, 0) /\ Accounted(b, g, sk, 0) /\ Recorded(b)
    BY <2>1 DEF Survivors, Accounted, Recorded
  <2>4. Stacked(b, g) BY <2>1 DEF Stacks, Stacked, OnStack
  <2>5. Rebased(b, g, sk, 0) BY <2>2, <2>3, <2>4 DEF Rebased
  <2>6. 0 \in 0..k BY <1>0
  <2> QED BY <2>1, <2>5, <2>6 DEF b
<1>2. ASSUME NEW i \in 1..k, NEW u \in X[i - 1], Good(u, n, D), SameControl(u, g)
      PROVE  Reexecute(u, g.pending[i], sk) \in X[i]
  <2> DEFINE e == g.pending[i]
             v == Reexecute(u, e, sk)
  <2>1. e \in Entries /\ i - 1 \in 0..k /\ i \in 0..k /\ i \in Nat BY <1>0
  <2>2. u \in Sessions /\ Rebased(u, g, sk, i - 1) BY <2>1
  <2>3. v \in Sessions /\ v.confirmedRevision = u.confirmedRevision
    <3>1. Good(v, n, D) /\ SameControl(v, u) BY <1>2, <2>1, GoodReexecute
    <3> QED BY <3>1 DEF Good, Grounded, SameControl
  <2>4. \/ e.intent \in sk /\ v = u
        \/ e.intent \notin sk /\ Enqueues(v, u, e)
        \/ e.intent \notin sk /\ Drops(v, u, e)
    BY <2>1, <2>2, ReexecuteShape
  <2> HIDE DEF v
  <2>5. CASE e.intent \in sk /\ v = u
    <3>1. \A m \in 1..i : m \in 1..(i - 1) \/ m = i BY <2>1
    <3>2. \A m \in 1..(i - 1) : m \in 1..i BY <2>1
    <3>3. Survivors(v, g, sk, i) BY <2>2, <2>5, <3>2 DEF Rebased, Survivors
    <3>4. Accounted(v, g, sk, i) BY <2>2, <2>5, <3>1 DEF Rebased, Accounted
    <3>5. Rebased(v, g, sk, i) BY <2>2, <2>5, <3>3, <3>4 DEF Rebased
    <3> QED BY <2>1, <2>3, <3>5 DEF v
  <2>6. CASE e.intent \notin sk /\ Enqueues(v, u, e)
    <3>1. Rebased(v, g, sk, i) BY <1>0, <2>2, <2>3, <2>6, EnqueuePass
    <3> QED BY <2>1, <2>3, <3>1 DEF v
  <2>7. CASE e.intent \notin sk /\ Drops(v, u, e)
    <3>1. Rebased(v, g, sk, i) BY <1>0, <2>2, <2>3, <2>7, DropPass
    <3> QED BY <2>1, <2>3, <3>1 DEF v
  <2> QED BY <2>4, <2>5, <2>6, <2>7
<1> HIDE DEF X, k
<1>3. Rebase(g, sk) \in X[Len(g.pending)] BY <1>1, <1>2, RebaseInduction DEF k
<1>4. k \in 0..k BY <1>0
<1> QED BY <1>3, <1>4 DEF X, k

(***************************************************************************)
(* Kept, but for the intentions sk.                                        *)
(***************************************************************************)
KeptBut(t, l, sk) ==
  \A x \in 1..Len(t.fate) :
    t.fate[x] = "open" => x \in sk \/ Queued(t.pending, x) \/ Logged(l, x)

(***************************************************************************)
(* The ledger of a session about to rebase.  The intentions sk that are    *)
(* skipped may be committed already; those of the others that are, are     *)
(* remembered.                                                             *)
(***************************************************************************)
Due(g, l, Z, sk) ==
  /\ Queue(g) /\ Stacks(g) /\ Minting(g, l, Z) /\ Ahead(g, l, Z)
  /\ \A j \in 1..Len(g.pending) : j > 1 => g.pending[j].attempts = {}
  /\ \A j \in 1..Len(g.pending) : \A r \in 1..Len(l) :
       l[r].intent = g.pending[j].intent =>
         \/ g.pending[j].intent \in sk
         \/ r > g.confirmedRevision /\ Remembers(g.pending[j], l[r].opId, r - 1)
  /\ KeptBut(g, l, sk)

(***************************************************************************)
(* An entry a rebase enqueued again uses a fresh opId, or one of the       *)
(* entry's own.                                                            *)
(***************************************************************************)
Fresh(u, g, k, i) ==
  /\ k \in (g.opCounter + 1)..u.opCounter
  /\ \E m : Held(g.pending, m, i)
  /\ \E j \in 1..Len(u.pending) : u.pending[j].intent = i /\ u.pending[j].opId = k

(* An opId of the rebased queue is its old one or freshly minted.          *)
LEMMA RebasedUses ==
  ASSUME NEW g \in Sessions, NEW u \in Sessions, NEW sk, Survivors(u, g, sk, Len(g.pending)),
         NEW k, NEW i, Held(u.pending, k, i)
  PROVE  Held(g.pending, k, i) \/ Fresh(u, g, k, i)
<1>1. PICK j \in 1..Len(u.pending) : u.pending[j].intent = i /\ Uses(u.pending[j], k) BY DEF Held
<1>2. PICK m \in 1..Len(g.pending) : Survivor(u.pending[j], g.pending[m], g.confirmedRevision)
  BY DEF Survivors
<1>3. g.pending[m].intent = i BY <1>1, <1>2 DEF Survivor
<1>4. CASE u.pending[j].opId = k
  <2>1. g.opCounter < u.pending[j].opId /\ u.pending[j].opId <= u.opCounter BY DEF Survivors
  <2>2. Held(g.pending, g.pending[m].opId, i) BY <1>3 DEF Held, Uses
  <2>3. u.pending \in Seq(Entries) BY DEF Sessions
  <2>4. u.pending[j] \in Entries BY <2>3
  <2>5. k \in Nat /\ g.opCounter \in Nat /\ u.opCounter \in Nat
    BY <1>4, <2>4 DEF Entries, Sessions
  <2>6. k \in (g.opCounter + 1)..u.opCounter BY <1>4, <2>1, <2>5
  <2> QED BY <1>1, <1>4, <2>2, <2>6 DEF Fresh
<1>5. CASE \E a \in u.pending[j].attempts : a.opId = k
  <2>1. PICK a \in g.pending[m].attempts : a.opId = k BY <1>2, <1>5 DEF Survivor
  <2> QED BY <1>3, <2>1 DEF Held, Uses
<1> QED BY <1>1, <1>4, <1>5 DEF Uses

(***************************************************************************)
(* A rebase keeps opIds unambiguous.                                       *)
(***************************************************************************)
LEMMA RebasedMinting ==
  ASSUME NEW g \in Sessions, NEW u \in Sessions, NEW sk, Counted(u, g),
         Survivors(u, g, sk, Len(g.pending)), NEW l, NEW Z, Minting(g, l, Z)
  PROVE  Minting(u, l, Z)
<1>0. g.opCounter \in Nat /\ u.opCounter \in Nat /\ u.opCounter >= g.opCounter
  BY DEF Sessions, Counted
<1>1. ASSUME NEW k, NEW i, Sent(l, Z, k, i) \/ Held(g.pending, k, i)
      PROVE  /\ k \in 0..g.opCounter /\ i \in 1..Len(g.fate)
             /\ \A m : Sent(l, Z, k, m) \/ Held(g.pending, k, m) => m = i
  BY <1>1 DEF Minting
<1>2. ASSUME NEW k, NEW i, Held(u.pending, k, i) PROVE Held(g.pending, k, i) \/ Fresh(u, g, k, i)
  BY <1>2, RebasedUses
<1>3. ASSUME NEW k, NEW i, NEW m, Fresh(u, g, k, i), Fresh(u, g, k, m) PROVE m = i
  BY <1>3 DEF Survivors, Fresh
<1>4. ASSUME NEW k, NEW i, Fresh(u, g, k, i)
      PROVE  k \in 0..u.opCounter /\ k \notin 0..g.opCounter /\ i \in 1..Len(g.fate)
  <2>1. k \in (g.opCounter + 1)..u.opCounter BY <1>4 DEF Fresh
  <2>2. k \in 0..u.opCounter /\ k \notin 0..g.opCounter BY <1>0, <2>1
  <2>3. PICK m : Held(g.pending, m, i) BY <1>4 DEF Fresh
  <2> QED BY <1>1, <2>2, <2>3
<1>5. SUFFICES ASSUME NEW k, NEW i, Sent(l, Z, k, i) \/ Held(u.pending, k, i)
               PROVE  /\ k \in 0..u.opCounter /\ i \in 1..Len(g.fate)
                      /\ \A m : Sent(l, Z, k, m) \/ Held(u.pending, k, m) => m = i
  BY DEF Minting, Counted
<1>6. CASE Sent(l, Z, k, i) \/ Held(g.pending, k, i)
  <2>1. k \in 0..g.opCounter /\ i \in 1..Len(g.fate) BY <1>1, <1>6
  <2>2. k \in 0..u.opCounter BY <1>0, <2>1
  <2>3. ASSUME NEW m, Sent(l, Z, k, m) \/ Held(u.pending, k, m) PROVE m = i
    <3>1. Sent(l, Z, k, m) \/ Held(g.pending, k, m) BY <1>2, <1>4, <2>1, <2>3
    <3> QED BY <1>1, <1>6, <3>1
  <2> QED BY <2>1, <2>2, <2>3
<1>7. CASE Fresh(u, g, k, i)
  <2>1. k \in 0..u.opCounter /\ k \notin 0..g.opCounter /\ i \in 1..Len(g.fate) BY <1>4, <1>7
  <2>2. ASSUME NEW m, Sent(l, Z, k, m) \/ Held(u.pending, k, m) PROVE m = i
    <3>1. Fresh(u, g, k, m) BY <1>1, <1>2, <2>1, <2>2
    <3> QED BY <1>3, <1>7, <3>1
  <2> QED BY <2>1, <2>2
<1> QED BY <1>2, <1>5, <1>6, <1>7

(***************************************************************************)
(* A rebase settles the accounts, but for the intentions it was told to    *)
(* skip.                                                                   *)
(***************************************************************************)
LEMMA RebasedLedger ==
  ASSUME NEW n \in Nat, NEW D, NEW g, Grounded(g, n, D), NEW sk,
         NEW l \in Seq(ServerOps), NEW Z, Due(g, l, Z, sk), g.confirmedRevision <= Len(l)
  PROVE  LET u == Rebase(g, sk)
         IN  /\ Books(u) /\ Tally(u, l, Z) /\ KeptBut(u, l, sk)
             /\ \A x : On(u.undo, x) => On(g.undo, x)
             /\ \A x : On(u.redo, x) => On(g.redo, x)
<1> DEFINE u == Rebase(g, sk)
           k == Len(g.pending)
<1>1. g \in Sessions /\ u \in Sessions
  <2>1. Good(u, n, D) BY GoodRebase
  <2> QED BY <2>1 DEF Good, Grounded
<1>2. Rebased(u, g, sk, k) BY RebaseResult DEF Due
<1> HIDE DEF u
<1>3. Counted(u, g) /\ Survivors(u, g, sk, k) /\ Accounted(u, g, sk, k) /\ Recorded(u) /\ Stacked(u, g)
  BY <1>2 DEF Rebased
<1>4. /\ g.confirmedRevision \in Nat /\ u.confirmedRevision = g.confirmedRevision /\ Len(l) \in Nat
      /\ u.opCounter \in Nat /\ g.opCounter \in Nat
  BY <1>1, <1>3 DEF Sessions, Counted
<1>5. ASSUME NEW j \in 1..Len(u.pending)
      PROVE  \E m \in 1..k : /\ Survivor(u.pending[j], g.pending[m], g.confirmedRevision)
                             /\ j > 1 => m > 1
                             /\ g.pending[m].intent \notin sk
  BY <1>3 DEF Survivors
<1>6. Queue(u)
  <2>1. Len(u.recs) = Len(u.fate) /\ Len(u.fate) = Len(g.fate) /\ Len(u.recs) = Len(g.recs)
    BY <1>3 DEF Counted, Due, Queue
  <2>2. ASSUME NEW j \in 1..Len(u.pending)
        PROVE  u.pending[j].intent \in 1..Len(u.fate) /\ u.pending[j].rec \in 1..Len(u.recs)
    <3>1. PICK m \in 1..k : Survivor(u.pending[j], g.pending[m], g.confirmedRevision) BY <1>5
    <3>2. g.pending[m].intent \in 1..Len(g.fate) /\ g.pending[m].rec \in 1..Len(g.recs)
      BY DEF Due, Queue
    <3> QED BY <2>1, <3>1, <3>2 DEF Survivor
  <2>3. \A j, m \in 1..Len(u.pending) : u.pending[m].intent = u.pending[j].intent => m = j
    BY <1>3 DEF Survivors
  <2> QED BY <2>1, <2>2, <2>3 DEF Queue
<1>7. Stacks(u)
  <2>0. /\ \A x : ~(On(g.undo, x) /\ On(g.redo, x))
        /\ \A x : OnStack(g, x) =>
             /\ x \in 1..Len(g.recs)
             /\ \A m \in 1..k : g.pending[m].intent = x => g.pending[m].rec = x
    BY DEF Due, Stacks
  <2>1. \A x : OnStack(u, x) => OnStack(g, x) /\ u.fate[x] = "open"
    BY <1>3 DEF Stacked, OnStack
  <2>2. \A x : ~(On(u.undo, x) /\ On(u.redo, x)) BY <1>3, <2>0 DEF Stacked
  <2>3. ASSUME NEW x, OnStack(u, x), NEW j \in 1..Len(u.pending), u.pending[j].intent = x
        PROVE  u.pending[j].rec = x
    <3>1. PICK m \in 1..k : Survivor(u.pending[j], g.pending[m], g.confirmedRevision) BY <1>5
    <3>2. g.pending[m].intent = x BY <2>3, <3>1 DEF Survivor
    <3>3. g.pending[m].rec = x BY <2>0, <2>1, <2>3, <3>2
    <3> QED BY <3>1, <3>3 DEF Survivor
  <2>4. \A x : OnStack(u, x) => x \in 1..Len(u.recs) BY <1>3, <2>0, <2>1 DEF Counted
  <2>5. Injective(u.undo) /\ Injective(u.redo) BY <1>3 DEF Stacked
  <2> QED BY <2>1, <2>2, <2>3, <2>4, <2>5 DEF Stacks
<1>8. Minting(u, l, Z)
  <2>1. Minting(g, l, Z) BY DEF Due
  <2> HIDE DEF k
  <2> QED BY <1>1, <1>3, <2>1, RebasedMinting DEF k
<1>9. Heads(u)
  <2>1. ASSUME NEW j \in 1..Len(u.pending), j > 1 PROVE u.pending[j].attempts = {}
    <3>1. PICK m \in 1..k : /\ Survivor(u.pending[j], g.pending[m], g.confirmedRevision)
                            /\ j > 1 => m > 1
      BY <1>5
    <3>2. g.pending[m].attempts = {} BY <2>1, <3>1 DEF Due
    <3> QED BY <3>1, <3>2 DEF Survivor
  <2>2. ASSUME u.pending # <<>>, NEW a \in u.pending[1].attempts PROVE a.opId # u.pending[1].opId
    <3>0. u.pending \in Seq(Entries) BY <1>1 DEF Sessions
    <3>1. 1 \in 1..Len(u.pending) BY <2>2, <3>0
    <3>2. PICK m \in 1..k : Survivor(u.pending[1], g.pending[m], g.confirmedRevision)
      BY <1>5, <3>1
    <3>3. a \in g.pending[m].attempts BY <2>2, <3>2 DEF Survivor
    <3>4. Held(g.pending, a.opId, g.pending[m].intent) BY <3>3 DEF Held, Uses
    <3>5. a.opId \in 0..g.opCounter BY <3>4 DEF Due, Minting
    <3>6. g.opCounter < u.pending[1].opId BY <1>3, <3>1 DEF Survivors
    <3>7. u.pending[1] \in Entries BY <3>0, <3>1
    <3>8. u.pending[1].opId \in Nat BY <3>7 DEF Entries
    <3> QED BY <1>4, <3>5, <3>6, <3>8
  <2> QED BY <2>1, <2>2 DEF Heads
<1>10. ASSUME NEW j \in 1..Len(u.pending), NEW m \in 1..k, NEW o, NEW b \in Nat,
              Survivor(u.pending[j], g.pending[m], g.confirmedRevision),
              Remembers(g.pending[m], o, b), b >= g.confirmedRevision
       PROVE  Remembers(u.pending[j], o, b)
  BY <1>10 DEF Survivor, Remembers
<1>11. Unseen(u, l)
  <2> SUFFICES ASSUME NEW j \in 1..Len(u.pending), NEW r \in 1..Len(l),
                      l[r].intent = u.pending[j].intent
               PROVE  r > u.confirmedRevision /\ Remembers(u.pending[j], l[r].opId, r - 1)
    BY DEF Unseen
  <2>1. PICK m \in 1..k : /\ Survivor(u.pending[j], g.pending[m], g.confirmedRevision)
                          /\ g.pending[m].intent \notin sk
    BY <1>5
  <2>2. l[r].intent = g.pending[m].intent BY <2>1 DEF Survivor
  <2>3. r > g.confirmedRevision /\ Remembers(g.pending[m], l[r].opId, r - 1)
    BY <2>1, <2>2 DEF Due
  <2>4. r - 1 \in Nat /\ r - 1 >= g.confirmedRevision BY <1>4, <2>3
  <2>5. Remembers(u.pending[j], l[r].opId, r - 1) BY <1>10, <2>1, <2>3, <2>4
  <2> QED BY <1>4, <2>3, <2>5
<1>12. Ahead(u, l, Z)
  <2>1. ASSUME NEW q \in Z, q.base = Len(l), NEW j \in 1..Len(u.pending),
               u.pending[j].intent = q.intent
        PROVE  Remembers(u.pending[j], q.opId, q.base)
    <3>1. PICK m \in 1..k : Survivor(u.pending[j], g.pending[m], g.confirmedRevision) BY <1>5
    <3>2. g.pending[m].intent = q.intent BY <2>1, <3>1 DEF Survivor
    <3>3. Remembers(g.pending[m], q.opId, q.base) BY <2>1, <3>2 DEF Due, Ahead
    <3>4. q.base \in Nat /\ q.base >= g.confirmedRevision BY <1>4, <2>1
    <3> QED BY <1>10, <3>1, <3>3, <3>4
  <2>2. Ahead(g, l, Z) BY DEF Due
  <2> QED BY <2>1, <2>2 DEF Ahead
<1>13. KeptBut(u, l, sk)
  <2> SUFFICES ASSUME NEW x \in 1..Len(u.fate), u.fate[x] = "open", ~Logged(l, x), x \notin sk
               PROVE  Queued(u.pending, x)
    BY DEF KeptBut
  <2>1. x \in 1..Len(g.fate) /\ g.fate[x] = "open" BY <1>3 DEF Counted
  <2>2. PICK m \in 1..k : g.pending[m].intent = x BY <2>1 DEF Due, KeptBut, Queued
  <2> QED BY <1>3, <2>2 DEF Accounted
<1>14. /\ \A x : On(u.undo, x) => On(g.undo, x)
       /\ \A x : On(u.redo, x) => On(g.redo, x)
  BY <1>3 DEF Stacked
<1>15. Books(u) /\ Tally(u, l, Z)
  BY <1>3, <1>6, <1>7, <1>8, <1>9, <1>11, <1>12 DEF Books, Tally
<1> QED BY <1>13, <1>14, <1>15 DEF u

-----------------------------------------------------------------------------
(* Ordered ingress.                                                        *)

(***************************************************************************)
(* Stacks that only lost records.                                          *)
(***************************************************************************)
Sheds(u, t) ==
  /\ Injective(u.undo) /\ Injective(u.redo)
  /\ \A x : On(u.undo, x) => On(t.undo, x)
  /\ \A x : On(u.redo, x) => On(t.redo, x)

SameWrit(u, t) ==
  u.pending = t.pending /\ u.recs = t.recs /\ u.fate = t.fate /\ u.opCounter = t.opCounter

(***************************************************************************)
(* The stacks stay sound when they only lose records.                      *)
(***************************************************************************)
LEMMA ShedStacks ==
  ASSUME NEW t, Stacks(t), NEW u, SameWrit(u, t), Sheds(u, t)
  PROVE  Stacks(u)
<1>1. \A x : OnStack(u, x) => OnStack(t, x) BY DEF Sheds, OnStack
<1>2. /\ Injective(u.undo) /\ Injective(u.redo)
      /\ \A x : ~(On(u.undo, x) /\ On(u.redo, x))
  BY DEF Sheds, Stacks
<1>3. ASSUME NEW x, OnStack(u, x)
      PROVE  /\ x \in 1..Len(u.recs) /\ u.fate[x] = "open"
             /\ \A j \in 1..Len(u.pending) : u.pending[j].intent = x => u.pending[j].rec = x
  <2>1. OnStack(t, x) BY <1>1, <1>3
  <2> QED BY <2>1 DEF Stacks, SameWrit
<1> QED BY <1>2, <1>3 DEF Stacks

(***************************************************************************)
(* A session that is about to rebase on the operation at revision rev is   *)
(* due if the intention of that operation, where it is queued, is skipped. *)
(***************************************************************************)
LEMMA AdvancedDue ==
  ASSUME NEW l \in Seq(ServerOps), NEW Z, NEW t \in Sessions, Ledger(t, l, Z), NEW w, NEW sk,
         SameWrit(w, t), Sheds(w, t), NEW rev \in 1..Len(l), rev = t.confirmedRevision + 1,
         w.confirmedRevision = rev,
         \A j \in 1..Len(t.pending) : l[rev].intent = t.pending[j].intent => l[rev].intent \in sk
  PROVE  Due(w, l, Z, sk)
<1>0. t.confirmedRevision \in Nat BY DEF Sessions
<1>1. Queue(w) BY DEF Ledger, Books, Queue, SameWrit
<1>2. Stacks(w) BY ShedStacks DEF Ledger, Books
<1>3. Minting(w, l, Z) BY DEF Ledger, Tally, Minting, SameWrit
<1>4. Ahead(w, l, Z) BY DEF Ledger, Tally, Ahead, SameWrit
<1>5. \A j \in 1..Len(w.pending) : j > 1 => w.pending[j].attempts = {}
  BY DEF Ledger, Tally, Heads, SameWrit
<1>6. ASSUME NEW j \in 1..Len(w.pending), NEW r \in 1..Len(l), l[r].intent = w.pending[j].intent
      PROVE  \/ w.pending[j].intent \in sk
             \/ r > w.confirmedRevision /\ Remembers(w.pending[j], l[r].opId, r - 1)
  <2>1. r > t.confirmedRevision /\ Remembers(w.pending[j], l[r].opId, r - 1)
    BY <1>6 DEF Ledger, Tally, Unseen, SameWrit
  <2>2. CASE r = rev BY <1>6, <2>2 DEF SameWrit
  <2>3. CASE r # rev
    <3>1. r > rev BY <1>0, <2>1, <2>3
    <3> QED BY <2>1, <3>1
  <2> QED BY <2>2, <2>3
<1>7. KeptBut(w, l, sk) BY DEF Ledger, Kept, KeptBut, SameWrit
<1> QED BY <1>1, <1>2, <1>3, <1>4, <1>5, <1>6, <1>7 DEF Due

(***************************************************************************)
(* The claim of an attempt names an entry that holds the attempt.          *)
(***************************************************************************)
LEMMA ClaimHolds ==
  ASSUME NEW t \in Sessions, NEW op, IsAttempt(t, op)
  PROVE  /\ ClaimOf(t, op) \in 1..Len(t.pending)
         /\ \E a \in t.pending[ClaimOf(t, op)].attempts : a.opId = op.opId
<1> DEFINE S == AttemptsOf(t, op)
<1>1. S \subseteq Nat /\ S # {}
  <2>1. t.pending \in Seq(Entries) BY DEF Sessions
  <2> QED BY <2>1 DEF IsAttempt, AttemptsOf
<1>2. ClaimOf(t, op) = CHOOSE i \in S : \A j \in S : i <= j BY DEF ClaimOf
<1> HIDE DEF S
<1>3. \E i \in S : \A j \in S : i <= j BY <1>1, Smallest
<1>4. ClaimOf(t, op) \in S BY <1>2, <1>3
<1> QED BY <1>4 DEF S, AttemptsOf

(***************************************************************************)
(* Applying another participant's operation.                               *)
(***************************************************************************)
LEMMA ForeignLedger ==
  ASSUME NEW l, NEW D, ServerOK(l, D), Honest(l), NEW t, Good(t, Len(l), D),
         NEW Z, Ledger(t, l, Z), NEW rev \in 1..Len(l), rev = t.confirmedRevision + 1,
         ~IsAttempt(t, l[rev])
  PROVE  Ledger(ApplyForeign(t, rev, l[rev]), l, Z)
<1> DEFINE g == Advance(t, rev, l[rev])
           u == Rebase(g, {})
<1>0. t \in Sessions /\ l \in Seq(ServerOps) /\ Len(l) \in Nat BY DEF Good, Grounded, ServerOK
<1>1. /\ SameWrit(g, t) /\ g.undo = t.undo /\ g.redo = t.redo /\ g.confirmedRevision = rev
  BY <1>0 DEF Advance, Sessions, SameWrit
<1>2. Grounded(g, Len(l), D) BY GroundedAdvance
<1> HIDE DEF g
<1>3. ASSUME NEW j \in 1..Len(t.pending) PROVE l[rev].intent # t.pending[j].intent
  <2> SUFFICES ASSUME l[rev].intent = t.pending[j].intent PROVE FALSE
    OBVIOUS
  <2>1. Remembers(t.pending[j], l[rev].opId, rev - 1) BY DEF Ledger, Tally, Unseen
  <2>2. l[rev].actor # Me BY <2>1 DEF Remembers, IsAttempt, AttemptsOf
  <2>3. l[rev].intent = 0 BY <2>2 DEF Honest
  <2>4. t.pending[j].intent \in 1..Len(t.fate) BY DEF Ledger, Books, Queue
  <2>5. t.fate \in Seq(Fates) BY <1>0 DEF Sessions
  <2> QED BY <2>3, <2>4, <2>5
<1>4. Sheds(g, t) BY <1>1 DEF Sheds, Ledger, Books, Stacks
<1>5. Due(g, l, Z, {}) BY <1>0, <1>1, <1>3, <1>4, AdvancedDue
<1>6. g.confirmedRevision <= Len(l) BY <1>2 DEF Grounded
<1>7. Books(u) /\ Tally(u, l, Z) /\ KeptBut(u, l, {})
  BY <1>0, <1>2, <1>5, <1>6, RebasedLedger
<1> HIDE DEF u
<1>8. Ledger(u, l, Z) BY <1>7 DEF Ledger, Kept, KeptBut
<1> QED BY <1>8 DEF ApplyForeign, u, g

(***************************************************************************)
(* Confirming an intention by an older attempt of it: the operation is     *)
(* that intention's.                                                       *)
(***************************************************************************)
LEMMA ConfirmLedger ==
  ASSUME NEW l, NEW D, ServerOK(l, D), NEW t, Good(t, Len(l), D),
         NEW Z, Ledger(t, l, Z), NEW rev \in 1..Len(l), rev = t.confirmedRevision + 1,
         IsAttempt(t, l[rev])
  PROVE  Ledger(ConfirmPending(t, rev, l[rev]), l, Z)
<1> DEFINE g == Advance(t, rev, l[rev])
           e == t.pending[ClaimOf(t, l[rev])]
           w == RemoveRecord(g, e.rec)
           u == Rebase(w, {e.intent})
<1>0. t \in Sessions /\ l \in Seq(ServerOps) /\ Len(l) \in Nat BY DEF Good, Grounded, ServerOK
<1>1. e.intent = l[rev].intent
  <2>1. /\ ClaimOf(t, l[rev]) \in 1..Len(t.pending)
        /\ \E a \in e.attempts : a.opId = l[rev].opId
    BY <1>0, ClaimHolds
  <2>2. Held(t.pending, l[rev].opId, e.intent) BY <2>1 DEF Held, Uses
  <2>3. l[rev].actor = Me BY DEF IsAttempt
  <2>4. Sent(l, Z, l[rev].opId, l[rev].intent) BY <2>3 DEF Sent
  <2> HIDE DEF e
  <2>5. Minting(t, l, Z) BY DEF Ledger, Tally
  <2> QED BY <2>2, <2>4, <2>5 DEF Minting
<1> HIDE DEF e
<1>2. /\ SameWrit(g, t) /\ g.undo = t.undo /\ g.redo = t.redo /\ g.confirmedRevision = rev
  BY <1>0 DEF Advance, Sessions, SameWrit
<1>3. Grounded(g, Len(l), D) BY GroundedAdvance
<1> HIDE DEF g
<1>4. g \in Sessions BY <1>3 DEF Grounded
<1>5. /\ Grounded(w, Len(l), D) BY <1>0, <1>3, GoodRemoveRecord
<1>6. /\ SameWrit(w, g) /\ w.confirmedRevision = g.confirmedRevision
      /\ w.undo = Without(t.undo, e.rec) /\ w.redo = Without(t.redo, e.rec)
  <2> DEFINE U == Without(g.undo, e.rec)
             R == Without(g.redo, e.rec)
  <2>1. w = [g EXCEPT !.undo = U, !.redo = R] BY DEF RemoveRecord
  <2>2. U = Without(t.undo, e.rec) /\ R = Without(t.redo, e.rec) BY <1>2
  <2> HIDE DEF U, R, w
  <2> QED BY <1>4, <2>1, <2>2 DEF Sessions, SameWrit
<1> HIDE DEF w
<1>7. SameWrit(w, t) /\ w.confirmedRevision = rev BY <1>2, <1>6 DEF SameWrit
<1>8. Sheds(w, t)
  <2>1. t.undo \in Seq(Nat) /\ t.redo \in Seq(Nat) BY <1>0 DEF Sessions
  <2>2. Injective(t.undo) /\ Injective(t.redo) BY DEF Ledger, Books, Stacks
  <2>3. Injective(w.undo) /\ \A x : On(w.undo, x) => On(t.undo, x)
    BY <1>6, <2>1, <2>2, WithoutFacts
  <2>4. Injective(w.redo) /\ \A x : On(w.redo, x) => On(t.redo, x)
    BY <1>6, <2>1, <2>2, WithoutFacts
  <2> QED BY <2>3, <2>4 DEF Sheds
<1>9. Due(w, l, Z, {e.intent}) BY <1>0, <1>1, <1>7, <1>8, AdvancedDue
<1>10. w.confirmedRevision <= Len(l) BY <1>5 DEF Grounded
<1>11. Books(u) /\ Tally(u, l, Z) /\ KeptBut(u, l, {e.intent})
  BY <1>0, <1>5, <1>9, <1>10, RebasedLedger
<1> HIDE DEF u
<1>12. Logged(l, e.intent) BY <1>1 DEF Logged
<1>13. Ledger(u, l, Z) BY <1>11, <1>12 DEF Ledger, Kept, KeptBut
<1> QED BY <1>13 DEF ConfirmPending, u, w, g, e

(***************************************************************************)
(* The rest of a queue.                                                    *)
(***************************************************************************)
LEMMA TailFacts ==
  ASSUME NEW S, NEW q \in Seq(S), q # <<>>
  PROVE  /\ Len(q) \in Nat /\ 1 \in 1..Len(q) /\ Len(Tail(q)) = Len(q) - 1
         /\ \A j \in 1..Len(Tail(q)) : Tail(q)[j] = q[j + 1] /\ j + 1 \in 1..Len(q) /\ j + 1 > 1
         /\ \A j \in 1..Len(q) : j > 1 => j - 1 \in 1..Len(Tail(q)) /\ Tail(q)[j - 1] = q[j]
         /\ Head(q) = q[1]
<1>1. Len(q) \in Nat /\ Len(q) >= 1 /\ Len(Tail(q)) = Len(q) - 1 /\ Head(q) = q[1] OBVIOUS
<1>2. \A j \in 1..(Len(q) - 1) : Tail(q)[j] = q[j + 1] OBVIOUS
<1>3. \A j \in 1..Len(q) : j > 1 => j - 1 \in 1..(Len(q) - 1) /\ (j - 1) + 1 = j BY <1>1
<1>4. \A j \in 1..Len(q) : j > 1 => Tail(q)[j - 1] = q[j] BY <1>2, <1>3
<1> QED BY <1>1, <1>2, <1>3, <1>4

(***************************************************************************)
(* An acknowledgement of the head.                                         *)
(***************************************************************************)
LEMMA AckLedger ==
  ASSUME NEW l, NEW D, ServerOK(l, D), NEW t, Good(t, Len(l), D),
         NEW Z, Ledger(t, l, Z), NEW rev \in 1..Len(l), rev = t.confirmedRevision + 1,
         IsPendingHead(t, l[rev])
  PROVE  Ledger(Ack(t, rev, l[rev]), l, Z)
<1> DEFINE u == Ack(t, rev, l[rev])
           q == t.pending
<1>0. t \in Sessions /\ l \in Seq(ServerOps) /\ q \in Seq(Entries) /\ q # <<>>
  BY DEF Good, Grounded, ServerOK, Sessions, IsPendingHead
<1>1. /\ u.pending = Tail(q) /\ u.recs = t.recs /\ u.fate = t.fate /\ u.undo = t.undo
      /\ u.redo = t.redo /\ u.opCounter = t.opCounter
  <2> DEFINE c == IF Len(q) = 1 THEN t.doc ELSE Apply(t.confirmed, l[rev].patch)
  <2>1. u = [t EXCEPT !.confirmed = c, !.confirmedRevision = rev, !.pending = Tail(t.pending)]
    BY DEF Ack
  <2> HIDE DEF c, u
  <2> QED BY <1>0, <2>1 DEF Sessions
<1> HIDE DEF u
<1>2. /\ Len(q) \in Nat /\ 1 \in 1..Len(q) /\ Head(q) = q[1]
      /\ \A j \in 1..Len(u.pending) : u.pending[j] = q[j + 1] /\ j + 1 \in 1..Len(q) /\ j + 1 > 1
      /\ \A j \in 1..Len(q) : j > 1 => j - 1 \in 1..Len(u.pending) /\ u.pending[j - 1] = q[j]
      /\ Len(u.pending) \in Nat
  <2>1. Tail(q) \in Seq(Entries) BY <1>0
  <2> HIDE DEF q
  <2>2. /\ Len(q) \in Nat /\ 1 \in 1..Len(q) /\ Head(q) = q[1]
        /\ \A j \in 1..Len(Tail(q)) : Tail(q)[j] = q[j + 1] /\ j + 1 \in 1..Len(q) /\ j + 1 > 1
        /\ \A j \in 1..Len(q) : j > 1 => j - 1 \in 1..Len(Tail(q)) /\ Tail(q)[j - 1] = q[j]
    BY <1>0, TailFacts
  <2> QED BY <1>1, <2>1, <2>2
<1>3. Queue(t) /\ Stacks(t) /\ Recorded(t) /\ Minting(t, l, Z) /\ Heads(t) /\ Unseen(t, l)
      /\ Ahead(t, l, Z) /\ Kept(t, l)
  BY DEF Ledger, Books, Tally
<1>4. Queue(u)
  <2>1. Len(u.recs) = Len(u.fate) BY <1>1, <1>3 DEF Queue
  <2>2. ASSUME NEW j \in 1..Len(u.pending)
        PROVE  /\ u.pending[j].intent \in 1..Len(u.fate) /\ u.pending[j].rec \in 1..Len(u.recs)
               /\ \A m \in 1..Len(u.pending) : u.pending[m].intent = u.pending[j].intent => m = j
    <3>1. u.pending[j].intent \in 1..Len(u.fate) /\ u.pending[j].rec \in 1..Len(u.recs)
      BY <1>1, <1>2, <1>3 DEF Queue
    <3>2. ASSUME NEW m \in 1..Len(u.pending), u.pending[m].intent = u.pending[j].intent
          PROVE  m = j
      <4>1. u.pending[j] = q[j + 1] /\ j + 1 \in 1..Len(q) BY <1>2
      <4>2. u.pending[m] = q[m + 1] /\ m + 1 \in 1..Len(q) BY <1>2
      <4>3. m + 1 = j + 1 BY <1>3, <3>2, <4>1, <4>2 DEF Queue
      <4>4. m \in Int /\ j \in Int OBVIOUS
      <4> QED BY <4>3, <4>4
    <3> QED BY <3>1, <3>2
  <2> QED BY <2>1, <2>2 DEF Queue
<1>5. Stacks(u)
  <2>1. ASSUME NEW x, OnStack(u, x), NEW j \in 1..Len(u.pending), u.pending[j].intent = x
        PROVE  u.pending[j].rec = x
    <3>1. OnStack(t, x) BY <1>1, <2>1 DEF OnStack
    <3>2. u.pending[j] = q[j + 1] /\ j + 1 \in 1..Len(q) BY <1>2
    <3> QED BY <1>3, <2>1, <3>1, <3>2 DEF Stacks
  <2>2. /\ Injective(u.undo) /\ Injective(u.redo)
        /\ \A x : ~(On(u.undo, x) /\ On(u.redo, x))
        /\ \A x : OnStack(u, x) => x \in 1..Len(u.recs) /\ u.fate[x] = "open"
    BY <1>1, <1>3 DEF Stacks, OnStack
  <2> QED BY <2>1, <2>2 DEF Stacks
<1>6. Recorded(u)
  <2> SUFFICES ASSUME NEW j \in 1..Len(u.pending), ~Superseded(u.pending, j)
               PROVE  u.pending[j].predicted = Mirror(u.pending[j], u.recs[u.pending[j].rec])
    BY DEF Recorded
  <2>1. u.pending[j] = q[j + 1] /\ j + 1 \in 1..Len(q) BY <1>2
  <2>2. ~Superseded(q, j + 1)
    <3> SUFFICES ASSUME NEW m \in 1..Len(q), m > j + 1, q[m].rec = q[j + 1].rec PROVE FALSE
      BY DEF Superseded
    <3>0. m > 1 /\ m - 1 > j BY <1>2
    <3>1. m - 1 \in 1..Len(u.pending) /\ u.pending[m - 1] = q[m] /\ m - 1 > j BY <1>2, <3>0
    <3> QED BY <2>1, <3>1 DEF Superseded
  <2> QED BY <1>1, <1>3, <2>1, <2>2 DEF Recorded
<1>7. Minting(u, l, Z)
  <2>1. ASSUME NEW k, NEW i, Held(u.pending, k, i) PROVE Held(q, k, i)
    BY <1>2, <2>1 DEF Held
  <2> QED BY <1>1, <1>3, <2>1 DEF Minting
<1>8. \A j \in 1..Len(u.pending) : u.pending[j].attempts = {} BY <1>2, <1>3 DEF Heads
<1>9. Heads(u)
  <2>1. u.pending # <<>> => 1 \in 1..Len(u.pending)
    <3>1. u.pending \in Seq(Entries) BY <1>0, <1>1
    <3> QED BY <3>1
  <2> QED BY <1>8, <2>1 DEF Heads
<1>10. Unseen(u, l)
  <2> SUFFICES ASSUME NEW j \in 1..Len(u.pending), NEW r \in 1..Len(l),
                      l[r].intent = u.pending[j].intent
               PROVE  FALSE
    BY DEF Unseen
  <2>1. u.pending[j] = q[j + 1] /\ j + 1 \in 1..Len(q) BY <1>2
  <2>2. Remembers(u.pending[j], l[r].opId, r - 1) BY <1>3, <2>1 DEF Unseen
  <2> QED BY <1>8, <2>2 DEF Remembers
<1>11. Ahead(u, l, Z)
  <2>1. ASSUME NEW z \in Z, z.base = Len(l), NEW j \in 1..Len(u.pending),
               u.pending[j].intent = z.intent
        PROVE  Remembers(u.pending[j], z.opId, z.base)
    <3>1. u.pending[j] = q[j + 1] /\ j + 1 \in 1..Len(q) BY <1>2
    <3> QED BY <1>3, <2>1, <3>1 DEF Ahead
  <2> QED BY <1>3, <2>1 DEF Ahead
<1>12. Kept(u, l)
  <2>1. q[1].intent = l[rev].intent
    <3>1. l[rev].actor = Me /\ q[1].opId = l[rev].opId BY <1>2 DEF IsPendingHead
    <3>2. Sent(l, Z, l[rev].opId, l[rev].intent) BY <3>1 DEF Sent
    <3>3. Held(q, l[rev].opId, q[1].intent) BY <1>2, <3>1 DEF Held, Uses
    <3> QED BY <1>3, <3>2, <3>3 DEF Minting
  <2> SUFFICES ASSUME NEW x \in 1..Len(u.fate), u.fate[x] = "open", ~Logged(l, x)
               PROVE  Queued(u.pending, x)
    BY DEF Kept
  <2>2. Queued(q, x) BY <1>1, <1>3 DEF Kept
  <2>3. PICK j \in 1..Len(q) : q[j].intent = x BY <2>2 DEF Queued
  <2>4. j # 1 BY <2>1, <2>3 DEF Logged
  <2>5. j > 1 BY <1>2, <2>4
  <2> QED BY <1>2, <2>3, <2>5 DEF Queued
<1>13. Books(u) /\ Tally(u, l, Z)
  BY <1>4, <1>5, <1>6, <1>7, <1>9, <1>10, <1>11 DEF Books, Tally
<1> QED BY <1>12, <1>13 DEF Ledger, u

(***************************************************************************)
(* Whatever is ingested, the accounts stay settled.                        *)
(***************************************************************************)
LEMMA IngestLedger ==
  ASSUME NEW l, NEW D, ServerOK(l, D), Honest(l), NEW t, Good(t, Len(l), D),
         NEW Z, Ledger(t, l, Z), NEW rev \in 1..Len(l), ~IngestFails(t, rev, l[rev])
  PROVE  Ledger(IngestOrdered(t, rev, l[rev]), l, Z)
<1>1. rev = t.confirmedRevision + 1 BY DEF IngestFails
<1> QED BY <1>1, AckLedger, ConfirmLedger, ForeignLedger DEF IngestOrdered

-----------------------------------------------------------------------------
(* Adopting a checkpoint.                                                  *)

(***************************************************************************)
(* The head of the sync loop touches no books.                             *)
(***************************************************************************)
LEMMA SyncTopBooks ==
  ASSUME NEW t \in Sessions PROVE SameBooks(SyncTop(t), t) /\ SyncTop(t).pump = t.pump
BY DEF SyncTop, SyncAt, Sessions, SameBooks

(***************************************************************************)
(* A session before the rebase on a checkpoint at rev: an intention with   *)
(* an attempt the checkpoint might contain is skipped.                     *)
(***************************************************************************)
LEMMA SnapshotDue ==
  ASSUME NEW t \in Sessions, NEW l \in Seq(ServerOps), NEW Z, Ledger(t, l, Z),
         NEW rev \in Nat, NEW g, SameWrit(g, t), g.undo = <<>>, g.redo = <<>>,
         g.confirmedRevision = rev
  PROVE  Due(g, l, Z, {t.pending[i].intent : i \in Ambiguous(t, rev)})
<1> DEFINE given == {t.pending[i].intent : i \in Ambiguous(t, rev)}
<1>1. Queue(t) /\ Stacks(t) /\ Minting(t, l, Z) /\ Heads(t) /\ Unseen(t, l)
      /\ Ahead(t, l, Z) /\ Kept(t, l)
  BY DEF Ledger, Books, Tally
<1>2. Queue(g) BY <1>1 DEF Queue, SameWrit
<1>3. Stacks(g)
  <2>1. Len(<<>>) = 0 OBVIOUS
  <2>2. Injective(<<>>) /\ \A x : ~On(<<>>, x) BY <2>1 DEF Injective, On
  <2> QED BY <2>2 DEF Stacks, OnStack
<1>4. Minting(g, l, Z) BY <1>1 DEF Minting, SameWrit
<1>5. Ahead(g, l, Z) BY <1>1 DEF Ahead, SameWrit
<1>6. \A j \in 1..Len(g.pending) : j > 1 => g.pending[j].attempts = {}
  BY <1>1 DEF Heads, SameWrit
<1>7. ASSUME NEW j \in 1..Len(g.pending), NEW r \in 1..Len(l), l[r].intent = g.pending[j].intent
      PROVE  \/ g.pending[j].intent \in given
             \/ r > g.confirmedRevision /\ Remembers(g.pending[j], l[r].opId, r - 1)
  <2>1. j \in 1..Len(t.pending) /\ g.pending[j] = t.pending[j] BY DEF SameWrit
  <2>2. Remembers(t.pending[j], l[r].opId, r - 1) BY <1>1, <1>7, <2>1 DEF Unseen
  <2>3. r \in Int OBVIOUS
  <2>4. CASE r - 1 < rev
    <3>1. j \in Ambiguous(t, rev) BY <2>1, <2>2, <2>4 DEF Ambiguous, Remembers
    <3> QED BY <2>1, <3>1
  <2>5. CASE ~(r - 1 < rev)
    <3>1. r > rev BY <2>3, <2>5
    <3> QED BY <2>1, <2>2, <3>1
  <2> QED BY <2>4, <2>5
<1> HIDE DEF given
<1>8. KeptBut(g, l, given) BY <1>1 DEF Kept, KeptBut, SameWrit
<1>9. Due(g, l, Z, given) BY <1>2, <1>3, <1>4, <1>5, <1>6, <1>7, <1>8 DEF Due
<1> QED BY <1>9 DEF given

(***************************************************************************)
(* Reporting what was given up, once it is out of the queue and off the    *)
(* stacks.                                                                 *)
(***************************************************************************)
Told(r, given) ==
  [r EXCEPT !.fate = [i \in DOMAIN @ |-> IF i \in given THEN "ambiguous" ELSE @[i]]]

(* The intentions a resync cannot decide are reported as ambiguous.        *)
LEMMA ToldLedger ==
  ASSUME NEW r \in Sessions, NEW l, NEW Z, Books(r), Tally(r, l, Z), NEW given,
         KeptBut(r, l, given), \A x : ~OnStack(r, x)
  PROVE  /\ Told(r, given) \in Sessions /\ Ledger(Told(r, given), l, Z)
         /\ Told(r, given).pump = r.pump
<1> DEFINE F == [i \in DOMAIN r.fate |-> IF i \in given THEN "ambiguous" ELSE r.fate[i]]
           v == [r EXCEPT !.fate = F]
<1>0. Told(r, given) = v BY DEF Told
<1>1. r.fate \in Seq(Fates) BY DEF Sessions
<1>2. Len(r.fate) \in Nat /\ DOMAIN r.fate = 1..Len(r.fate) BY <1>1
<1>3. F \in [1..Len(r.fate) -> Fates] BY <1>1, <1>2 DEF Fates
<1>4. F \in Seq(Fates) /\ Len(F) = Len(r.fate) BY <1>2, <1>3
<1>5. \A x \in 1..Len(F) : F[x] = "open" => r.fate[x] = "open" /\ x \notin given BY <1>2, <1>4
<1> HIDE DEF F
<1>6. /\ v \in Sessions /\ v.pending = r.pending /\ v.recs = r.recs /\ v.fate = F
      /\ v.undo = r.undo /\ v.redo = r.redo /\ v.opCounter = r.opCounter
      /\ v.confirmedRevision = r.confirmedRevision /\ v.pump = r.pump
  BY <1>4 DEF Sessions
<1> HIDE DEF v
<1>7. Queue(v) BY <1>4, <1>6 DEF Books, Queue
<1>8. Stacks(v) BY <1>6 DEF Books, Stacks, OnStack
<1>9. Recorded(v) BY <1>6 DEF Books, Recorded
<1>10. Minting(v, l, Z) BY <1>4, <1>6 DEF Tally, Minting
<1>11. Heads(v) BY <1>6 DEF Tally, Heads
<1>12. Unseen(v, l) BY <1>6 DEF Tally, Unseen
<1>13. Ahead(v, l, Z) BY <1>6 DEF Tally, Ahead
<1>14. Kept(v, l) BY <1>4, <1>5, <1>6 DEF Kept, KeptBut
<1>15. Ledger(v, l, Z)
  BY <1>7, <1>8, <1>9, <1>10, <1>11, <1>12, <1>13, <1>14 DEF Ledger, Books, Tally
<1> QED BY <1>0, <1>6, <1>15

(***************************************************************************)
(* Adopting a checkpoint keeps the accounts settled.                       *)
(***************************************************************************)
LEMMA SnapshotLedger ==
  ASSUME NEW n \in Nat, NEW D, NEW t, Good(t, n, D), NEW l \in Seq(ServerOps), n = Len(l),
         NEW Z, Ledger(t, l, Z), NEW rev \in Nat, rev <= n, NEW doc \in Docs, doc = D[rev]
  PROVE  /\ Ledger(AdoptSnapshot(t, rev, doc), l, Z)
         /\ AdoptSnapshot(t, rev, doc).pump = t.pump
<1> DEFINE given == {t.pending[i].intent : i \in Ambiguous(t, rev)}
           tgt == Larger(Larger(t.syncTarget, t.confirmedRevision), rev)
           ground == [t EXCEPT !.syncTarget = tgt, !.confirmed = doc,
                               !.confirmedRevision = rev, !.undo = <<>>, !.redo = <<>>]
           r == Rebase(ground, given)
           v == Told(r, given)
<1>0. t \in Sessions /\ Grounded(t, n, D) BY DEF Good, Grounded
<1>1. tgt \in Nat /\ tgt <= n BY <1>0 DEF Grounded, Sessions, Larger
<1>2. AdoptSnapshot(t, rev, doc) = SyncTop(v) BY DEF AdoptSnapshot, Told
<1> HIDE DEF tgt
<1>3. /\ ground \in Sessions /\ ground.syncTarget = tgt /\ ground.confirmed = doc
      /\ ground.confirmedRevision = rev /\ ground.undo = <<>> /\ ground.redo = <<>>
      /\ ground.pump = t.pump /\ ground.sync = t.sync /\ ground.pub = t.pub
      /\ SameWrit(ground, t)
  <2>1. <<>> \in Seq(Nat) OBVIOUS
  <2> QED BY <1>0, <1>1, <2>1 DEF Sessions, SameWrit
<1> HIDE DEF ground
<1>4. Grounded(ground, n, D) BY <1>0, <1>1, <1>3 DEF Grounded, Indexed
<1>5. Due(ground, l, Z, given) BY <1>0, <1>3, SnapshotDue
<1> HIDE DEF given
<1>6. Good(r, n, D) /\ SameControl(r, ground) BY <1>4, GoodRebase
<1>7. r \in Sessions /\ r.pump = t.pump BY <1>3, <1>6 DEF Good, Grounded, SameControl
<1> HIDE DEF r
<1>8. /\ Books(r) /\ Tally(r, l, Z) /\ KeptBut(r, l, given)
      /\ \A x : On(r.undo, x) => On(ground.undo, x)
      /\ \A x : On(r.redo, x) => On(ground.redo, x)
  <2>1. ground.confirmedRevision <= Len(l) BY <1>3
  <2> QED BY <1>4, <1>5, <2>1, RebasedLedger DEF r
<1>9. \A x : ~OnStack(r, x)
  <2>1. Len(<<>>) = 0 OBVIOUS
  <2>2. \A x : ~On(<<>>, x) BY <2>1 DEF On
  <2> QED BY <1>3, <1>8, <2>2 DEF OnStack
<1>10. v \in Sessions /\ Ledger(v, l, Z) /\ v.pump = r.pump
  BY <1>7, <1>8, <1>9, ToldLedger
<1> HIDE DEF v
<1>11. SameBooks(SyncTop(v), v) /\ SyncTop(v).pump = v.pump BY <1>10, SyncTopBooks
<1>12. Ledger(SyncTop(v), l, Z) BY <1>10, <1>11, QuietLedger
<1> QED BY <1>2, <1>7, <1>10, <1>11, <1>12

-----------------------------------------------------------------------------
(* The handlers.                                                           *)

(***************************************************************************)
(* From t to u nothing is submitted, and the accounts stay settled.        *)
(***************************************************************************)
SameTrip(u, t) == u.pump.pc = "post" => t.pump.pc = "post" /\ u.pump.req = t.pump.req

Keeps(u, t, l) == SameTrip(u, t) /\ \A Z : Ledger(t, l, Z) => Ledger(u, l, Z)

(***************************************************************************)
(* A change outside the books keeps them.                                  *)
(***************************************************************************)
LEMMA BooksKeep ==
  ASSUME NEW u, NEW t, NEW l, SameBooks(u, t), SameTrip(u, t) PROVE Keeps(u, t, l)
BY QuietLedger DEF Keeps

(***************************************************************************)
(* One change after the other.                                             *)
(***************************************************************************)
LEMMA KeepsTwice ==
  ASSUME NEW u, NEW v, NEW t, NEW l, Keeps(v, t, l), Keeps(u, v, l) PROVE Keeps(u, t, l)
BY DEF Keeps, SameTrip

(***************************************************************************)
(* A session that keeps its books submits no more than it did.             *)
(***************************************************************************)
LEMMA KeptTrip ==
  ASSUME NEW u, NEW t, NEW l, NEW z, Keeps(u, t, l), Ledger(t, l, Travelling(t, z))
  PROVE  Ledger(u, l, Travelling(u, z))
<1>1. Ledger(u, l, Travelling(t, z)) BY DEF Keeps
<1>2. Travelling(u, z) \subseteq Travelling(t, z) BY DEF Keeps, SameTrip, Travelling
<1> QED BY <1>1, <1>2, QuietLedger DEF SameBooks

(***************************************************************************)
(* Waking the pump, asking for synchronisation, and the ends of the loops  *)
(* touch no books.                                                         *)
(***************************************************************************)
LEMMA PumpBooks ==
  ASSUME NEW t \in Sessions PROVE SameBooks(Pump(t), t) /\ SameTrip(Pump(t), t)
BY DEF Pump, PumpAt, Sessions, SameBooks, SameTrip

(***************************************************************************)
(* Sending the pump elsewhere than to a submission touches no books.       *)
(***************************************************************************)
LEMMA PumpAtBooks ==
  ASSUME NEW t \in Sessions, NEW pc, pc # "post"
  PROVE  LET u == [t EXCEPT !.pump = PumpAt(pc)] IN SameBooks(u, t) /\ SameTrip(u, t)
BY DEF PumpAt, Sessions, SameBooks, SameTrip

(***************************************************************************)
(* Starting the sync loop touches no books.                                *)
(***************************************************************************)
LEMMA StartSyncBooks ==
  ASSUME NEW t \in Sessions PROVE SameBooks(StartSync(t), t) /\ StartSync(t).pump = t.pump
<1> DEFINE u == [t EXCEPT !.status = "catching-up"]
<1>1. u \in Sessions /\ SameBooks(u, t) /\ u.pump = t.pump BY DEF Sessions, Statuses, SameBooks
<1>2. StartSync(t) = IF Terminal(t) \/ Syncing(t) THEN t ELSE SyncTop(u) BY DEF StartSync
<1> HIDE DEF u
<1>3. SameBooks(SyncTop(u), u) /\ SyncTop(u).pump = u.pump BY <1>1, SyncTopBooks
<1> QED BY <1>1, <1>2, <1>3 DEF SameBooks

(***************************************************************************)
(* Asking for a catch-up or a resync touches no books.                     *)
(***************************************************************************)
LEMMA RequestBooks ==
  ASSUME NEW t \in Sessions, NEW rev \in Nat
  PROVE  \A u \in {RequestCatchUp(t, rev), RequestResync(t), RequestResync(RaiseTarget(t, rev))} :
           SameBooks(u, t) /\ u.pump = t.pump
<1> DEFINE a == RaiseTarget(t, rev)
           b == [t EXCEPT !.resync = TRUE]
           c == [a EXCEPT !.resync = TRUE]
           m == Larger(t.syncTarget, rev)
<1>0. m \in Nat BY LargerIsMax DEF Sessions
<1>1. a = [t EXCEPT !.syncTarget = m] BY DEF RaiseTarget
<1> HIDE DEF m
<1>2. a \in Sessions /\ b \in Sessions /\ c \in Sessions BY <1>0, <1>1 DEF Sessions
<1>3. \A x \in {a, b, c} : SameBooks(x, t) /\ x.pump = t.pump
  <2>1. SameBooks(a, t) /\ a.pump = t.pump /\ DOMAIN a = DOMAIN t
    <3> HIDE DEF a
    <3> QED BY <1>0, <1>1 DEF Sessions, SameBooks
  <2>2. SameBooks(b, t) /\ b.pump = t.pump BY DEF Sessions, SameBooks
  <2> HIDE DEF a
  <2>3. SameBooks(c, a) /\ c.pump = a.pump BY <2>1 DEF Sessions, SameBooks
  <2> HIDE DEF b, c
  <2>4. SameBooks(c, t) BY <2>1, <2>3 DEF SameBooks
  <2> QED BY <2>1, <2>2, <2>3, <2>4
<1>4. /\ RequestCatchUp(t, rev) = StartSync(a) /\ RequestResync(t) = StartSync(b)
      /\ RequestResync(RaiseTarget(t, rev)) = StartSync(c)
  BY DEF RequestCatchUp, RequestResync
<1> HIDE DEF a, b, c
<1>5. ASSUME NEW x \in {a, b, c} PROVE SameBooks(StartSync(x), t) /\ StartSync(x).pump = t.pump
  <2>1. x \in Sessions BY <1>2
  <2>2. SameBooks(StartSync(x), x) /\ StartSync(x).pump = x.pump BY <2>1, StartSyncBooks
  <2> QED BY <1>3, <2>2 DEF SameBooks
<1> QED BY <1>4, <1>5

(***************************************************************************)
(* An ordered operation keeps the books.                                   *)
(***************************************************************************)
LEMMA HandleKeeps ==
  ASSUME NEW l, NEW D, ServerOK(l, D), Honest(l), NEW t, Good(t, Len(l), D),
         NEW rev \in 1..Len(l), NEW u, u = HandleServerOp(t, rev, l[rev])
  PROVE  Keeps(u, t, l)
<1>0. t \in Sessions /\ rev \in Nat /\ t.confirmedRevision \in Nat BY DEF Good, Grounded, Sessions
<1>1. \A x \in {RequestCatchUp(t, rev), RequestResync(RaiseTarget(t, rev))} :
        SameBooks(x, t) /\ x.pump = t.pump
  BY <1>0, RequestBooks
<1>2. CASE u = t
  BY <1>2 DEF Keeps, SameTrip
<1>3. CASE u \in {RequestCatchUp(t, rev), RequestResync(RaiseTarget(t, rev))}
  <2>1. SameBooks(u, t) /\ SameTrip(u, t) BY <1>1, <1>3 DEF SameTrip
  <2> QED BY <2>1, BooksKeep
<1>4. CASE ~IngestFails(t, rev, l[rev]) /\ u = Pump(IngestOrdered(t, rev, l[rev]))
  <2> DEFINE v == IngestOrdered(t, rev, l[rev])
  <2>1. Good(v, Len(l), D) BY <1>4, GoodIngestOrdered
  <2>2. v \in Sessions BY <2>1 DEF Good, Grounded
  <2>3. v.pump = t.pump BY <1>4, IngestFacts
  <2>4. \A Z : Ledger(t, l, Z) => Ledger(v, l, Z) BY <1>4, IngestLedger
  <2> HIDE DEF v
  <2>5. Keeps(v, t, l) BY <2>3, <2>4 DEF Keeps, SameTrip
  <2>6. Keeps(u, v, l)
    <3>1. SameBooks(Pump(v), v) /\ SameTrip(Pump(v), v) BY <2>2, PumpBooks
    <3>2. u = Pump(v) BY <1>4 DEF v
    <3> QED BY <3>1, <3>2, BooksKeep
  <2> QED BY <2>5, <2>6, KeepsTwice
<1>5. \/ u = t
      \/ u \in {RequestCatchUp(t, rev), RequestResync(RaiseTarget(t, rev))}
      \/ ~IngestFails(t, rev, l[rev]) /\ u = Pump(IngestOrdered(t, rev, l[rev]))
  BY DEF HandleServerOp
<1> QED BY <1>2, <1>3, <1>4, <1>5

(***************************************************************************)
(* A frame keeps the books.                                                *)
(***************************************************************************)
LEMMA EventKeeps ==
  ASSUME IInv, Honest(log), NEW f \in Frames, f.rev <= Tip, f.kind = "op" => f.rev >= 1
  PROVE  Keeps(HandleEvent(s, f), s, log)
<1> DEFINE v == HandleEvent(s, f)
           w == [s EXCEPT !.connected = TRUE]
<1>0. s \in Sessions /\ f.rev \in Nat BY DEF IInv, Good, Grounded, Frames
<1>1. CASE Terminal(s)
  <2>1. v = s BY <1>1 DEF HandleEvent
  <2> HIDE DEF v
  <2> QED BY <2>1 DEF v, Keeps, SameTrip
<1>2. CASE ~Terminal(s) /\ f.kind = "op"
  <2>1. v = HandleServerOp(s, f.rev, log[f.rev]) BY <1>2 DEF HandleEvent
  <2>2. f.rev \in 1..Len(log) BY <1>0, <1>2 DEF Tip
  <2>3. ServerOK(log, docs) /\ Good(s, Len(log), docs) BY DEF IInv, Tip
  <2> HIDE DEF v
  <2> QED BY <2>1, <2>2, <2>3, HandleKeeps DEF v
<1>3. CASE ~Terminal(s) /\ f.kind = "garbage"
  <2>1. v = RequestResync(s) BY <1>3 DEF HandleEvent
  <2> HIDE DEF v
  <2>2. SameBooks(v, s) /\ SameTrip(v, s) BY <1>0, <2>1, RequestBooks DEF SameTrip
  <2> QED BY <2>2, BooksKeep DEF v
<1>4. CASE ~Terminal(s) /\ f.kind = "connected"
  <2>1. v = IF f.rev > s.confirmedRevision THEN RequestCatchUp(w, f.rev) ELSE w
    BY <1>4 DEF HandleEvent, OnConnected
  <2>2. w \in Sessions /\ SameBooks(w, s) /\ w.pump = s.pump BY <1>0 DEF Sessions, SameBooks
  <2> HIDE DEF v, w
  <2>3. SameBooks(RequestCatchUp(w, f.rev), w) /\ RequestCatchUp(w, f.rev).pump = w.pump
    BY <1>0, <2>2, RequestBooks
  <2>4. SameBooks(v, s) /\ SameTrip(v, s) BY <2>1, <2>2, <2>3 DEF SameBooks, SameTrip
  <2> QED BY <2>4, BooksKeep DEF v
<1>5. CASE ~Terminal(s) /\ f.kind \in {"disconnected", "session-closed", "mismatch"}
  <2>1. v \in {[s EXCEPT !.connected = FALSE],
               [s EXCEPT !.connected = FALSE, !.status = "closed"],
               [s EXCEPT !.status = "error", !.connected = FALSE]}
    BY <1>5 DEF HandleEvent, CloseOn, Fail
  <2> HIDE DEF v
  <2>2. SameBooks(v, s) /\ SameTrip(v, s) BY <1>0, <2>1 DEF Sessions, SameBooks, SameTrip
  <2> QED BY <2>2, BooksKeep DEF v
<1> QED BY <1>1, <1>2, <1>3, <1>4, <1>5 DEF Frames

(***************************************************************************)
(* A fetched page keeps the books.                                         *)
(***************************************************************************)
LEMMA PageKeeps ==
  ASSUME NEW l, NEW D, ServerOK(l, D), Honest(l), NEW t, Good(t, Len(l), D),
         NEW after \in Nat, NEW head \in Nat, head <= Len(l)
  PROVE  /\ Keeps(IngestPage(t, after, SubSeq(l, after + 1, head)), t, l)
         /\ Keeps(IngestCut(t, after, SubSeq(l, after + 1, head)), t, l)
<1> DEFINE ops == SubSeq(l, after + 1, head)
           u == PageRun(t, after, ops)[Len(ops)].t
           X == {acc \in Pages : Keeps(acc.t, t, l)}
           start == [t |-> t, progressed |-> FALSE, broken |-> FALSE]
<1>0. /\ Len(l) \in Nat /\ l \in Seq(ServerOps) /\ t \in Sessions
      /\ t.confirmedRevision \in Nat /\ t.syncTarget \in Nat
  BY DEF ServerOK, Good, Grounded, Sessions
<1>1. /\ ops \in Seq(ServerOps)
      /\ after + Len(ops) <= Len(l) \/ Len(ops) = 0
      /\ \A i \in 1..Len(ops) : ops[i] = l[after + i]
  <2>1. head \in 0..Len(l) /\ after + 1 \in Nat BY <1>0
  <2>2. \A i \in after + 1..head : l[i] \in ServerOps BY <1>0, <2>1
  <2>3. ops \in Seq(ServerOps) BY <1>0, <2>1, <2>2
  <2>4. after + Len(ops) <= Len(l) \/ Len(ops) = 0 BY <1>0, <2>1
  <2>5. \A i \in 1..Len(ops) : ops[i] = l[after + i] BY <1>0, <2>1
  <2> QED BY <2>3, <2>4, <2>5
<1>2. start \in X
  <2>1. Keeps(t, t, l) BY DEF Keeps, SameTrip
  <2>2. start \in Pages BY <1>0 DEF Pages
  <2> QED BY <2>1, <2>2
<1>3. ASSUME NEW rev \in 1..Len(l), NEW acc \in X, acc \in Pages, Good(acc.t, Len(l), D)
      PROVE  PageStep(acc, rev, l[rev]) \in X
  <2> DEFINE a == acc.t
             x == [RaiseTarget(a, rev) EXCEPT !.resync = TRUE]
             y == IngestOrdered(a, rev, l[rev])
  <2>0. rev \in Nat /\ a \in Sessions /\ a.syncTarget \in Nat /\ Keeps(a, t, l)
    BY <1>0, <1>3 DEF Good, Grounded, Sessions
  <2>1. \/ PageStep(acc, rev, l[rev]) = acc
        \/ PageStep(acc, rev, l[rev]) = [acc EXCEPT !.broken = TRUE, !.t = x]
        \/ /\ ~IngestFails(a, rev, l[rev])
           /\ PageStep(acc, rev, l[rev]) = [acc EXCEPT !.t = y, !.progressed = TRUE]
    BY DEF PageStep
  <2>2. x \in Sessions /\ Keeps(x, t, l)
    <3> DEFINE m == Larger(a.syncTarget, rev)
    <3>1. m \in Nat BY <2>0, LargerIsMax
    <3>2. x = [[a EXCEPT !.syncTarget = m] EXCEPT !.resync = TRUE] BY DEF RaiseTarget
    <3> HIDE DEF m, x, a
    <3>3. x \in Sessions /\ SameBooks(x, a) /\ SameTrip(x, a)
      BY <2>0, <3>1, <3>2 DEF Sessions, SameBooks, SameTrip
    <3>4. Keeps(x, a, l) BY <3>3, BooksKeep
    <3> QED BY <2>0, <3>3, <3>4, KeepsTwice
  <2>3. ~IngestFails(a, rev, l[rev]) => y \in Sessions /\ Keeps(y, t, l)
    <3> SUFFICES ASSUME ~IngestFails(a, rev, l[rev]) PROVE y \in Sessions /\ Keeps(y, t, l)
      OBVIOUS
    <3>1. y.pump = a.pump BY <1>3, IngestFacts
    <3>2. y \in Sessions
      <4>1. Good(y, Len(l), D) BY <1>3, GoodIngestOrdered
      <4> QED BY <4>1 DEF Good, Grounded
    <3>3. \A Z : Ledger(a, l, Z) => Ledger(y, l, Z) BY <1>3, IngestLedger
    <3> HIDE DEF y, a
    <3>4. Keeps(y, a, l) BY <3>1, <3>3 DEF Keeps, SameTrip
    <3> QED BY <2>0, <3>2, <3>4, KeepsTwice
  <2> HIDE DEF x, y
  <2> QED BY <1>3, <2>1, <2>2, <2>3 DEF Pages
<1> HIDE DEF X, start
<1>4. PageRun(t, after, ops)[Len(ops)] \in X
  <2> HIDE DEF ops
  <2>1. CASE after + Len(ops) <= Len(l)
    BY <1>1, <1>2, <1>3, <2>1, PageInduction DEF start
  <2>2. CASE Len(ops) = 0 /\ ~(after + Len(ops) <= Len(l))
    <3>1. 0 + Len(ops) <= Len(l) /\ PageRun(t, after, ops) = PageRun(t, 0, ops)
      BY <2>2, <1>0 DEF PageRun
    <3>2. \A i \in 1..Len(ops) : ops[i] = l[0 + i] BY <2>2
    <3> QED BY <1>1, <1>2, <1>3, <3>1, <3>2, PageInduction DEF start
  <2> QED BY <1>1, <2>1, <2>2
<1>5. u \in Sessions /\ Keeps(u, t, l) BY <1>4 DEF X, Pages
<1> DEFINE w == [u EXCEPT !.sync = SyncAt("delay", 0)]
           v == [u EXCEPT !.resync = TRUE]
<1>6. IngestPage(t, after, ops) = w \/ IngestPage(t, after, ops) = SyncTop(u) BY DEF IngestPage
<1>11. IngestCut(t, after, ops) = SyncTop(v) BY DEF IngestCut
<1> HIDE DEF u
<1>12. v \in Sessions /\ SameBooks(v, u) /\ v.pump = u.pump BY <1>5 DEF Sessions, SameBooks
<1> HIDE DEF v
<1>13. SameBooks(SyncTop(v), v) /\ SyncTop(v).pump = v.pump BY <1>12, SyncTopBooks
<1>14. SameBooks(SyncTop(v), u) /\ SameTrip(SyncTop(v), u)
  BY <1>12, <1>13 DEF SameBooks, SameTrip
<1>15. Keeps(SyncTop(v), t, l)
  <2>1. Keeps(SyncTop(v), u, l) BY <1>14, BooksKeep
  <2> QED BY <1>5, <2>1, KeepsTwice
<1>7. SameBooks(w, u) /\ SameTrip(w, u) BY <1>5 DEF Sessions, SameBooks, SameTrip
<1>8. SameBooks(SyncTop(u), u) /\ SameTrip(SyncTop(u), u) BY <1>5, SyncTopBooks DEF SameTrip
<1> HIDE DEF w
<1>9. Keeps(w, u, l) /\ Keeps(SyncTop(u), u, l) BY <1>7, <1>8, BooksKeep
<1>10. Keeps(w, t, l) /\ Keeps(SyncTop(u), t, l) BY <1>5, <1>9, KeepsTwice
<1> QED BY <1>6, <1>10, <1>11, <1>15

(***************************************************************************)
(* Every turn of the sync loop keeps the books.                            *)
(***************************************************************************)
LEMMA SyncReplyLedger ==
  ASSUME IInv, Honest(log), NEW Y, Ledger(s, log, Y), SyncReply PROVE Keeps(s', s, log)
<1> DEFINE reply == s.sync.reply
           again == [s EXCEPT !.resync = TRUE]
<1>0. /\ Tip \in Nat /\ s \in Sessions /\ Good(s, Tip, docs) /\ ServerOK(log, docs)
      /\ reply \in SyncReplies /\ reply.rev \in Nat /\ reply.rev <= Tip
      /\ reply.kind = "snapshot" => reply.doc = docs[reply.rev] /\ reply.doc \in Docs
      /\ s.sync.after \in Nat
  BY Here DEF SyncReplies, Syncs, NoReply
<1>1. reply # NoReply BY DEF SyncReply
<1>2. \/ s' = SyncTop(s)
      \/ s' = SyncTop(again)
      \/ reply.kind = "snapshot" /\ s' = AdoptSnapshot(s, reply.rev, reply.doc)
      \/ s' = IngestPage(s, s.sync.after, SubSeq(log, s.sync.after + 1, reply.rev))
      \/ s' = IngestCut(s, s.sync.after, SubSeq(log, s.sync.after + 1, reply.rev))
  <2>1. reply.kind \in {"ops", "cut", "gone", "snapshot"} BY <1>0, <1>1 DEF SyncReplies
  <2>2. s.resync \in BOOLEAN BY <1>0 DEF Sessions
  <2> QED BY <2>1, <2>2 DEF SyncReply
<1>3. again \in Sessions /\ SameBooks(again, s) /\ again.pump = s.pump
  BY <1>0 DEF Sessions, SameBooks
<1> HIDE DEF again
<1>4. Keeps(SyncTop(s), s, log)
  <2>1. SameBooks(SyncTop(s), s) /\ SameTrip(SyncTop(s), s) BY <1>0, SyncTopBooks DEF SameTrip
  <2> QED BY <2>1, BooksKeep
<1>5. Keeps(SyncTop(again), s, log)
  <2>1. SameBooks(SyncTop(again), again) /\ SyncTop(again).pump = again.pump BY <1>3, SyncTopBooks
  <2>2. SameBooks(SyncTop(again), s) /\ SameTrip(SyncTop(again), s)
    BY <1>3, <2>1 DEF SameBooks, SameTrip
  <2> QED BY <2>2, BooksKeep
<1>6. reply.kind = "snapshot" => Keeps(AdoptSnapshot(s, reply.rev, reply.doc), s, log)
  <2> SUFFICES ASSUME reply.kind = "snapshot"
               PROVE  Keeps(AdoptSnapshot(s, reply.rev, reply.doc), s, log)
    OBVIOUS
  <2> DEFINE v == AdoptSnapshot(s, reply.rev, reply.doc)
  <2>0. log \in Seq(ServerOps) /\ Tip = Len(log) BY <1>0 DEF ServerOK, Tip
  <2>1. ASSUME NEW Z, Ledger(s, log, Z) PROVE Ledger(v, log, Z) /\ v.pump = s.pump
    BY <1>0, <2>0, <2>1, SnapshotLedger
  <2>2. SameTrip(v, s) BY <2>1 DEF SameTrip
  <2> HIDE DEF v
  <2>3. Keeps(v, s, log) BY <2>1, <2>2 DEF Keeps
  <2> QED BY <2>3 DEF v
<1>7. /\ Keeps(IngestPage(s, s.sync.after, SubSeq(log, s.sync.after + 1, reply.rev)), s, log)
      /\ Keeps(IngestCut(s, s.sync.after, SubSeq(log, s.sync.after + 1, reply.rev)), s, log)
  BY <1>0, PageKeeps DEF Tip
<1> QED BY <1>2, <1>4, <1>5, <1>6, <1>7

(***************************************************************************)
(* The other turns of the sync loop, and the rests of both loops.          *)
(***************************************************************************)
LEMMA TurnsKeep ==
  ASSUME NEW t \in Sessions, NEW l
  PROVE  /\ Keeps(SyncTop(t), t, l)
         /\ Keeps([Fail(t) EXCEPT !.sync = SyncAt("exit", 0)], t, l)
         /\ Keeps(SyncFinally(t), t, l)
         /\ Keeps(PumpFinally(t), t, l)
<1> DEFINE f == Fail(t)
           g == [f EXCEPT !.sync = SyncAt("exit", 0)]
           r == [t EXCEPT !.sync = SyncAt("idle", 0),
                          !.status = IF @ = "catching-up" THEN "live" ELSE @]
           i == [t EXCEPT !.pump = PumpAt("idle")]
<1>1. Keeps(SyncTop(t), t, l)
  <2>1. SameBooks(SyncTop(t), t) /\ SameTrip(SyncTop(t), t) BY SyncTopBooks DEF SameTrip
  <2> QED BY <2>1, BooksKeep
<1>2. Keeps(g, t, l)
  <2>1. f = t \/ f = [t EXCEPT !.status = "error", !.connected = FALSE] BY DEF Fail
  <2>2. f \in Sessions /\ SameBooks(f, t) /\ f.pump = t.pump
    BY <2>1 DEF Sessions, Statuses, SameBooks
  <2> HIDE DEF f
  <2>3. SameBooks(g, f) /\ g.pump = f.pump BY <2>2 DEF Sessions, SameBooks
  <2> HIDE DEF g
  <2>4. SameBooks(g, t) /\ SameTrip(g, t) BY <2>2, <2>3 DEF SameBooks, SameTrip
  <2> QED BY <2>4, BooksKeep
<1>3. Keeps(SyncFinally(t), t, l)
  <2>1. SyncFinally(t) = StartSync(r) \/ SyncFinally(t) = Pump(r) BY DEF SyncFinally
  <2>2. r \in Sessions /\ SameBooks(r, t) /\ SameTrip(r, t)
    BY SyncAtType DEF Sessions, Statuses, SameBooks, SameTrip
  <2> HIDE DEF r
  <2>3. SameBooks(StartSync(r), r) /\ SameTrip(StartSync(r), r)
    BY <2>2, StartSyncBooks DEF SameTrip
  <2>4. SameBooks(Pump(r), r) /\ SameTrip(Pump(r), r) BY <2>2, PumpBooks
  <2>5. Keeps(r, t, l) /\ Keeps(StartSync(r), r, l) /\ Keeps(Pump(r), r, l)
    BY <2>2, <2>3, <2>4, BooksKeep
  <2> QED BY <2>1, <2>5, KeepsTwice
<1>4. Keeps(PumpFinally(t), t, l)
  <2>1. PumpFinally(t) = Pump(i) \/ PumpFinally(t) = i BY DEF PumpFinally
  <2>2. i \in Sessions BY PumpAtType DEF Sessions
  <2>3. SameBooks(i, t) /\ SameTrip(i, t) BY PumpAtBooks
  <2> HIDE DEF i
  <2>4. SameBooks(Pump(i), i) /\ SameTrip(Pump(i), i) BY <2>2, PumpBooks
  <2>5. Keeps(i, t, l) /\ Keeps(Pump(i), i, l) BY <2>3, <2>4, BooksKeep
  <2> QED BY <2>1, <2>5, KeepsTwice
<1> QED BY <1>1, <1>2, <1>3, <1>4

-----------------------------------------------------------------------------
(* Submitting.                                                             *)

(***************************************************************************)
(* The head of the pump's loop either ends the loop, or posts the head of  *)
(* the queue and remembers the attempt.                                    *)
(***************************************************************************)
Posts(u, t) ==
  LET head == t.pending[1]
  IN  /\ t.pending # <<>> /\ Len(u.pending) = Len(t.pending)
      /\ \A j \in 1..Len(t.pending) : j > 1 => u.pending[j] = t.pending[j]
      /\ u.pending[1].intent = head.intent /\ u.pending[1].rec = head.rec
      /\ u.pending[1].origin = head.origin /\ u.pending[1].predicted = head.predicted
      /\ u.pending[1].opId = head.opId
      /\ head.attempts \subseteq u.pending[1].attempts
      /\ \A a \in u.pending[1].attempts :
           \/ a \in head.attempts
           \/ a.opId = head.opId /\ a.base = t.confirmedRevision
      /\ \E a \in u.pending[1].attempts : a.opId = head.opId
      /\ u.pump.pc = "post" /\ u.pump.req.opId = head.opId
      /\ u.pump.req.base = t.confirmedRevision /\ u.pump.req.intent = head.intent
      /\ u.recs = t.recs /\ u.fate = t.fate /\ u.undo = t.undo /\ u.redo = t.redo
      /\ u.opCounter = t.opCounter /\ u.confirmedRevision = t.confirmedRevision

(* The pump either leaves or posts the head of the queue.                  *)
LEMMA PumpTopShape ==
  ASSUME NEW t \in Sessions
  PROVE  PumpTop(t) = [t EXCEPT !.pump = PumpAt("exit")] \/ Posts(PumpTop(t), t)
<1>1. CASE t.pending # <<>> /\ t.status = "live" /\ ~Syncing(t)
  <2> DEFINE head == Head(t.pending)
             attempt == [opId |-> head.opId, base |-> t.confirmedRevision,
                         patch |-> head.predicted]
             again == \E a \in head.attempts : a.opId = head.opId
             atts == IF again THEN t.pending[1].attempts
                     ELSE t.pending[1].attempts \cup {attempt}
             x == [t.pending[1] EXCEPT !.attempts = atts]
             q == [t.pending EXCEPT ![1] = x]
             req == [opId |-> head.opId, base |-> t.confirmedRevision,
                     patch |-> head.predicted, intent |-> head.intent,
                     origin |-> head.origin]
             p == [pc |-> "post", reply |-> NoReply, req |-> req]
             u == [t EXCEPT !.pending = q]
             v == [u EXCEPT !.pump = p]
  <2>1. PumpTop(t) = v BY <1>1 DEF PumpTop
  <2>2. t.pending \in Seq(Entries) /\ t.pending # <<>> BY <1>1 DEF Sessions
  <2>3. head = t.pending[1] /\ 1 \in 1..Len(t.pending) BY <2>2
  <2>4. head \in Entries BY <2>2, <2>3
  <2>5. /\ t.pending[1].attempts \subseteq atts
        /\ \A a \in atts : \/ a \in t.pending[1].attempts
                           \/ a.opId = head.opId /\ a.base = t.confirmedRevision
        /\ \E a \in atts : a.opId = head.opId
    <3>1. attempt.opId = head.opId /\ attempt.base = t.confirmedRevision OBVIOUS
    <3> HIDE DEF attempt
    <3>2. CASE again
      <4>1. atts = t.pending[1].attempts BY <3>2
      <4>2. \E a \in t.pending[1].attempts : a.opId = head.opId BY <2>3, <3>2
      <4> HIDE DEF atts, head
      <4> QED BY <4>1, <4>2
    <3>3. CASE ~again
      <4>1. atts = t.pending[1].attempts \cup {attempt} BY <3>3
      <4> HIDE DEF atts, head
      <4> QED BY <3>1, <4>1
    <3> QED BY <3>2, <3>3
  <2> HIDE DEF atts
  <2>6. /\ x.intent = head.intent /\ x.rec = head.rec /\ x.origin = head.origin
        /\ x.predicted = head.predicted /\ x.opId = head.opId /\ x.attempts = atts
    <3> HIDE DEF head
    <3> QED BY <2>3, <2>4 DEF Entries
  <2> HIDE DEF x
  <2>7. Len(q) = Len(t.pending) /\ q[1] = x
        /\ \A j \in 1..Len(t.pending) : j > 1 => q[j] = t.pending[j]
    <3>1. DOMAIN t.pending = 1..Len(t.pending) /\ Len(t.pending) \in Nat BY <2>2
    <3>2. q[1] = x /\ \A j \in 1..Len(t.pending) : j > 1 => q[j] = t.pending[j] BY <2>3, <3>1
    <3>3. Len(q) = Len(t.pending) BY <2>2
    <3> QED BY <3>2, <3>3
  <2>8. /\ req.opId = head.opId /\ req.base = t.confirmedRevision /\ req.intent = head.intent
        /\ p.pc = "post" /\ p.req = req
    OBVIOUS
  <2> HIDE DEF q, req, head
  <2>9. /\ v.pending = q /\ v.pump = p /\ v.recs = t.recs /\ v.fate = t.fate
        /\ v.undo = t.undo /\ v.redo = t.redo /\ v.opCounter = t.opCounter
        /\ v.confirmedRevision = t.confirmedRevision
    <3> HIDE DEF p
    <3> QED BY DEF Sessions
  <2> HIDE DEF v, p
  <2>10. /\ v.pending[1].intent = t.pending[1].intent /\ v.pending[1].rec = t.pending[1].rec
         /\ v.pending[1].origin = t.pending[1].origin /\ v.pending[1].opId = t.pending[1].opId
         /\ v.pending[1].predicted = t.pending[1].predicted /\ v.pending[1].attempts = atts
    BY <2>3, <2>6, <2>7, <2>9
  <2>11. /\ v.pump.pc = "post" /\ v.pump.req.opId = t.pending[1].opId
         /\ v.pump.req.base = t.confirmedRevision /\ v.pump.req.intent = t.pending[1].intent
    BY <2>3, <2>8, <2>9
  <2>12. /\ t.pending # <<>> /\ Len(v.pending) = Len(t.pending)
         /\ \A j \in 1..Len(t.pending) : j > 1 => v.pending[j] = t.pending[j]
    BY <2>2, <2>7, <2>9
  <2>13. /\ t.pending[1].attempts \subseteq v.pending[1].attempts
         /\ \A a \in v.pending[1].attempts :
              \/ a \in t.pending[1].attempts
              \/ a.opId = t.pending[1].opId /\ a.base = t.confirmedRevision
         /\ \E a \in v.pending[1].attempts : a.opId = t.pending[1].opId
    BY <2>3, <2>5, <2>10
  <2>14. Posts(v, t)
    <3> HIDE DEF again, attempt, u
    <3> QED BY <2>9, <2>10, <2>11, <2>12, <2>13 DEF Posts
  <2> QED BY <2>1, <2>14
<1>2. CASE ~(t.pending # <<>> /\ t.status = "live" /\ ~Syncing(t))
  BY <1>2 DEF PumpTop
<1> QED BY <1>1, <1>2

(***************************************************************************)
(* A submission enters the books of what is on its way.                    *)
(***************************************************************************)
LEMMA PostLedger ==
  ASSUME NEW t \in Sessions, NEW l, NEW z, Ledger(t, l, z), Len(l) \in Nat,
         t.confirmedRevision <= Len(l), NEW u, Posts(u, t)
  PROVE  Ledger(u, l, z \cup {u.pump.req})
<1> DEFINE q == t.pending
           n == Len(q)
           w == u.pending
           y == u.pump.req
           Z == z \cup {y}
<1>0. q \in Seq(Entries) /\ n \in Nat /\ t.confirmedRevision \in Nat /\ 1 \in 1..n
  <2>1. q \in Seq(Entries) /\ t.confirmedRevision \in Nat BY DEF Sessions
  <2>2. q # <<>> BY DEF Posts
  <2> QED BY <2>1, <2>2
<1>1. \A j \in 1..n : j = 1 \/ j > 1 BY <1>0
<1>2. /\ Len(w) = n
      /\ \A j \in 1..n : j > 1 => w[j] = q[j]
      /\ w[1].intent = q[1].intent /\ w[1].rec = q[1].rec /\ w[1].origin = q[1].origin
      /\ w[1].predicted = q[1].predicted /\ w[1].opId = q[1].opId
      /\ q[1].attempts \subseteq w[1].attempts
      /\ \A a \in w[1].attempts :
           \/ a \in q[1].attempts
           \/ a.opId = q[1].opId /\ a.base = t.confirmedRevision
      /\ \E a \in w[1].attempts : a.opId = q[1].opId
      /\ y.opId = q[1].opId /\ y.base = t.confirmedRevision /\ y.intent = q[1].intent
      /\ u.recs = t.recs /\ u.fate = t.fate /\ u.undo = t.undo /\ u.redo = t.redo
      /\ u.opCounter = t.opCounter /\ u.confirmedRevision = t.confirmedRevision
  BY DEF Posts
<1>3. /\ Queue(t) /\ Stacks(t) /\ Recorded(t) /\ Minting(t, l, z) /\ Heads(t) /\ Unseen(t, l)
      /\ Ahead(t, l, z) /\ Kept(t, l)
  BY DEF Ledger, Books, Tally
<1> HIDE DEF y, w
<1>4. \A j \in 1..n : /\ w[j].intent = q[j].intent /\ w[j].rec = q[j].rec
                      /\ w[j].origin = q[j].origin /\ w[j].predicted = q[j].predicted
                      /\ w[j].opId = q[j].opId /\ q[j].attempts \subseteq w[j].attempts
  BY <1>1, <1>2
<1>5. Queue(u) BY <1>2, <1>3, <1>4 DEF Queue, w
<1>6. Stacks(u) BY <1>2, <1>3, <1>4 DEF Stacks, OnStack, w
<1>7. Recorded(u)
  <2>1. \A j \in 1..n : Superseded(q, j) => Superseded(w, j) BY <1>2, <1>4 DEF Superseded
  <2>2. \A j \in 1..n : Mirror(w[j], u.recs[w[j].rec]) = Mirror(q[j], t.recs[q[j].rec])
    BY <1>2, <1>4 DEF Mirror
  <2> QED BY <1>2, <1>3, <1>4, <2>1, <2>2 DEF Recorded, w
<1>8. \A k, i : Held(w, k, i) => Held(q, k, i)
  <2> SUFFICES ASSUME NEW k, NEW i, NEW j \in 1..n, w[j].intent = i, Uses(w[j], k)
               PROVE  q[j].intent = i /\ Uses(q[j], k)
    BY <1>2 DEF Held
  <2>1. CASE j = 1 BY <1>2, <2>1 DEF Uses
  <2>2. CASE j > 1 BY <1>2, <2>2
  <2> QED BY <1>1, <2>1, <2>2
<1>9. \A k, i : Sent(l, Z, k, i) => Sent(l, z, k, i) \/ Held(q, k, i)
  <2> SUFFICES ASSUME NEW k, NEW i, Sent(l, Z, k, i), ~Sent(l, z, k, i) PROVE Held(q, k, i)
    OBVIOUS
  <2>1. y.opId = k /\ y.intent = i BY DEF Sent
  <2> QED BY <1>0, <1>2, <2>1 DEF Held, Uses
<1>10. Minting(u, l, Z) BY <1>2, <1>3, <1>8, <1>9 DEF Minting, w
<1>11. Heads(u)
  <2>1. \A j \in 1..n : j > 1 => w[j].attempts = {} BY <1>2, <1>3 DEF Heads
  <2>2. \A a \in w[1].attempts : a.opId = w[1].opId => a.base = t.confirmedRevision
    <3>1. \A a \in q[1].attempts : a.opId = q[1].opId => a.base = t.confirmedRevision
      BY <1>0, <1>3 DEF Heads
    <3> QED BY <1>2, <3>1
  <2> QED BY <1>2, <2>1, <2>2 DEF Heads, w
<1>12. \A j \in 1..n : \A k, b : Remembers(q[j], k, b) => Remembers(w[j], k, b)
  BY <1>4 DEF Remembers
<1>13. Unseen(u, l) BY <1>2, <1>3, <1>4, <1>12 DEF Unseen, w
<1>14. Ahead(u, l, Z)
  <2> SUFFICES ASSUME NEW x \in Z
               PROVE  /\ x.base <= Len(l)
                      /\ \A r \in 1..Len(l) : l[r].intent = x.intent => x.base < r
                      /\ x.base = Len(l) =>
                           \A j \in 1..n : w[j].intent = x.intent => Remembers(w[j], x.opId, x.base)
    BY <1>2 DEF Ahead, w
  <2>1. CASE x \in z BY <1>3, <1>4, <1>12, <2>1 DEF Ahead
  <2>2. CASE x = y
    <3>1. x.base <= Len(l) BY <1>2, <2>2
    <3>2. ASSUME NEW r \in 1..Len(l), l[r].intent = x.intent PROVE x.base < r
      <4>1. r > t.confirmedRevision BY <1>0, <1>2, <1>3, <2>2, <3>2 DEF Unseen
      <4> QED BY <1>0, <1>2, <2>2, <4>1
    <3>3. ASSUME NEW j \in 1..n, w[j].intent = x.intent PROVE Remembers(w[j], x.opId, x.base)
      <4>1. j = 1 BY <1>0, <1>2, <1>3, <1>4, <2>2, <3>3 DEF Queue
      <4>2. PICK a \in w[1].attempts : a.opId = q[1].opId BY <1>2
      <4>3. a.base = t.confirmedRevision BY <1>0, <1>2, <1>3, <4>2 DEF Heads
      <4> QED BY <1>2, <2>2, <4>1, <4>2, <4>3 DEF Remembers
    <3> QED BY <3>1, <3>2, <3>3
  <2> QED BY <2>1, <2>2
<1>15. Kept(u, l)
  <2>1. \A x : Queued(q, x) => Queued(w, x) BY <1>2, <1>4 DEF Queued
  <2> QED BY <1>2, <1>3, <2>1 DEF Kept, w
<1> QED BY <1>5, <1>6, <1>7, <1>10, <1>11, <1>13, <1>14, <1>15 DEF Ledger, Books, Tally, y, w

(***************************************************************************)
(* The head of the pump's loop keeps the ledger: what it submits is on its *)
(* way.                                                                    *)
(***************************************************************************)
LEMMA PumpTopLedger ==
  ASSUME NEW t \in Sessions, NEW l, NEW Z, Ledger(t, l, Z), NEW z, z \subseteq Z,
         Len(l) \in Nat, t.confirmedRevision <= Len(l)
  PROVE  Ledger(PumpTop(t), l, Travelling(PumpTop(t), z))
<1> DEFINE e == [t EXCEPT !.pump = PumpAt("exit")]
           u == PumpTop(t)
<1>1. Ledger(t, l, z) BY QuietLedger DEF SameBooks
<1>2. CASE u = e
  <2>1. SameBooks(e, t) /\ e.pump.pc = "exit" BY DEF PumpAt, Sessions, SameBooks
  <2> HIDE DEF e
  <2>2. Ledger(e, l, z) BY <1>1, <2>1, QuietLedger
  <2> QED BY <1>2, <2>1, <2>2 DEF Travelling
<1>3. CASE Posts(u, t)
  <2> HIDE DEF u
  <2>1. Ledger(u, l, z \cup {u.pump.req}) BY <1>1, <1>3, PostLedger
  <2>2. u.pump.pc = "post" BY <1>3 DEF Posts
  <2>3. Ledger(u, l, Travelling(u, z)) BY <2>1, <2>2 DEF Travelling
  <2> QED BY <2>3 DEF u
<1> QED BY <1>2, <1>3, PumpTopShape

(***************************************************************************)
(* After a change that keeps the books, the pump may go elsewhere.         *)
(***************************************************************************)
LEMMA RepumpedKeeps ==
  ASSUME NEW t, NEW l, NEW u \in Sessions, Keeps(u, t, l), NEW pc, pc # "post"
  PROVE  Keeps([u EXCEPT !.pump = PumpAt(pc)], t, l)
<1> DEFINE v == [u EXCEPT !.pump = PumpAt(pc)]
<1>1. SameBooks(v, u) /\ SameTrip(v, u) BY PumpAtBooks
<1> HIDE DEF v
<1>2. Keeps(v, u, l) BY <1>1, BooksKeep
<1>3. Keeps(v, t, l) BY <1>2, KeepsTwice
<1> QED BY <1>3 DEF v

(***************************************************************************)
(* Giving a submission up for a synchronisation, failing, and publishing.  *)
(***************************************************************************)
LEMMA GiveUpKeeps ==
  ASSUME NEW n \in Nat, NEW D, NEW t, Good(t, n, D), NEW l, NEW rev \in Nat, rev <= n
  PROVE  /\ Keeps([RequestResync(RaiseTarget(t, rev)) EXCEPT !.pump = PumpAt("exit")], t, l)
         /\ Keeps([RequestResync(t) EXCEPT !.pump = PumpAt("exit")], t, l)
         /\ Keeps([RequestCatchUp(t, rev) EXCEPT !.pump = PumpAt("exit")], t, l)
         /\ Keeps([Fail(t) EXCEPT !.pump = PumpAt("exit")], t, l)
         /\ Keeps([Fail(t) EXCEPT !.pump = PumpAt("exit"), !.denied = TRUE], t, l)
         /\ Keeps([PublishOn(t) EXCEPT !.pump = PumpAt("publish")], t, l)
<1> DEFINE a == RequestResync(RaiseTarget(t, rev))
           b == RequestResync(t)
           c == RequestCatchUp(t, rev)
           f == Fail(t)
           h == [f EXCEPT !.pump = PumpAt("exit"), !.denied = TRUE]
           p == PublishOn(t)
<1>0. t \in Sessions BY DEF Good, Grounded
<1>1. a \in Sessions /\ b \in Sessions /\ c \in Sessions
  <2>1. Good(RaiseTarget(t, rev), n, D) BY GoodRaiseTarget
  <2>2. Good(a, n, D) BY <2>1, GoodRequestResync
  <2>3. Good(b, n, D) /\ Good(c, n, D) BY GoodRequestResync, GoodRequestCatchUp
  <2> QED BY <2>2, <2>3 DEF Good, Grounded
<1>2. \A x \in {a, b, c} : SameBooks(x, t) /\ x.pump = t.pump BY <1>0, RequestBooks
<1>3. f \in Sessions /\ SameBooks(f, t) /\ f.pump = t.pump
  <2>1. f = t \/ f = [t EXCEPT !.status = "error", !.connected = FALSE] BY DEF Fail
  <2> HIDE DEF f
  <2> QED BY <1>0, <2>1 DEF Sessions, Statuses, SameBooks
<1>4. p \in Sessions /\ SameBooks(p, t) /\ p.pump = t.pump
  <2>1. p \in Sessions
    <3>1. Good(p, n, D) BY GoodPublishOn
    <3> QED BY <3>1 DEF Good, Grounded
  <2> QED BY <1>0, <2>1 DEF PublishOn, Sessions, SameBooks
<1> HIDE DEF a, b, c, f, p
<1>5. ASSUME NEW x \in {a, b, c, f, p} PROVE x \in Sessions /\ Keeps(x, t, l)
  <2>1. x \in Sessions /\ SameBooks(x, t) /\ SameTrip(x, t)
    BY <1>1, <1>2, <1>3, <1>4 DEF SameTrip
  <2> QED BY <2>1, BooksKeep
<1>6. \A x \in {a, b, c, f, p} : /\ Keeps([x EXCEPT !.pump = PumpAt("exit")], t, l)
                                 /\ Keeps([x EXCEPT !.pump = PumpAt("publish")], t, l)
  BY <1>5, RepumpedKeeps
<1>7. Keeps(h, t, l)
  <2>1. SameBooks(h, f) /\ h.pump.pc # "post" BY <1>3 DEF Sessions, SameBooks, PumpAt
  <2> HIDE DEF h
  <2>2. SameBooks(h, t) /\ SameTrip(h, t) BY <1>3, <2>1 DEF SameBooks, SameTrip
  <2> QED BY <2>2, BooksKeep
<1> QED BY <1>6, <1>7 DEF a, b, c, f, p

(***************************************************************************)
(* An accepting answer.                                                    *)
(***************************************************************************)
LEMMA AcceptedLedger ==
  ASSUME ServerOK(log, docs), Honest(log), NEW t, Good(t, Tip, docs),
         NEW z, Ledger(t, log, Travelling(t, z)), NEW req, NEW rev \in 1..Tip
  PROVE  Ledger(OnAccepted(t, req, rev), log, Travelling(OnAccepted(t, req, rev), z))
<1> DEFINE h == HandleServerOp(t, rev, log[rev])
           a == [RequestResync(RaiseTarget(t, rev)) EXCEPT !.pump = PumpAt("exit")]
           b == [h EXCEPT !.pump = PumpAt("exit")]
           v == OnAccepted(t, req, rev)
<1>0. /\ Tip \in Nat /\ rev \in Nat /\ rev <= Tip /\ Tip = Len(log)
      /\ rev \in 1..Len(log) /\ Good(t, Len(log), docs)
  BY DEF ServerOK, Tip
<1>1. v \in {PumpTop(t), a, b, PumpTop(h)} BY DEF OnAccepted
<1>2. Good(h, Len(log), docs) BY <1>0, GoodHandleServerOp
<1>3. /\ t \in Sessions /\ t.confirmedRevision <= Len(log)
      /\ h \in Sessions /\ h.confirmedRevision <= Len(log)
  BY <1>0, <1>2 DEF Good, Grounded
<1>4. Keeps(h, t, log) BY <1>0, HandleKeeps
<1>5. Keeps(a, t, log) BY <1>0, GiveUpKeeps
<1> HIDE DEF h, a, v
<1>6. Keeps(b, t, log) BY <1>3, <1>4, RepumpedKeeps
<1> HIDE DEF b
<1>7. Ledger(a, log, Travelling(a, z)) /\ Ledger(b, log, Travelling(b, z))
  BY <1>5, <1>6, KeptTrip
<1>8. z \subseteq Travelling(t, z) BY DEF Travelling
<1>9. Ledger(PumpTop(t), log, Travelling(PumpTop(t), z)) BY <1>0, <1>3, <1>8, PumpTopLedger
<1>10. Ledger(h, log, Travelling(t, z)) BY <1>4 DEF Keeps
<1>11. Ledger(PumpTop(h), log, Travelling(PumpTop(h), z))
  BY <1>0, <1>3, <1>8, <1>10, PumpTopLedger
<1> QED BY <1>1, <1>7, <1>9, <1>11 DEF v

(***************************************************************************)
(* Every answer to a submission, and its failure.                          *)
(***************************************************************************)
LEMMA PumpReplyLedger ==
  ASSUME IInv, Honest(log), Ledger(s, log, Travelling(s, zombies)), PumpReply
  PROVE  Ledger(s', log, Travelling(s', zombies))
<1> DEFINE reply == s.pump.reply
           x == [s EXCEPT !.pump = PumpAt("exit")]
           a == [Fail(s) EXCEPT !.pump = PumpAt("exit")]
           b == [Fail(s) EXCEPT !.pump = PumpAt("exit"), !.denied = TRUE]
           c == [PublishOn(s) EXCEPT !.pump = PumpAt("publish")]
           d == [RequestResync(s) EXCEPT !.pump = PumpAt("exit")]
           e == [RequestResync(RaiseTarget(s, reply.rev)) EXCEPT !.pump = PumpAt("exit")]
           f == [RequestCatchUp(s, reply.rev) EXCEPT !.pump = PumpAt("exit")]
<1>0. /\ Tip \in Nat /\ s \in Sessions /\ Good(s, Tip, docs) /\ ServerOK(log, docs)
      /\ reply \in PostReplies /\ reply.rev \in Nat /\ reply.rev <= Tip
      /\ reply.kind = "accepted" => reply.rev \in 1..Tip
  <2>1. reply.rev \in Nat BY Here DEF PostReplies, NoReply
  <2> QED BY <2>1, Here
<1>1. \/ reply.kind = "accepted" /\ s' = OnAccepted(s, s.pump.req, reply.rev)
      \/ s' \in {x, a, b, c, d, e, f, PumpTop(s)}
  <2>1. reply # NoReply BY DEF PumpReply
  <2>2. reply.kind \in {"accepted", "invalid", "mangled", "stale-base",
                        "snapshot-required", "protocol-unsupported", "forbidden"}
    BY <1>0, <2>1 DEF PostReplies
  <2>3. \/ s' = x
        \/ reply.kind = "accepted" /\ s' = OnAccepted(s, s.pump.req, reply.rev)
        \/ s' = d \/ s' = OnMangled(s, reply.rev)
        \/ s' = OnStaleBase(s, s.pump.req, reply.rev)
        \/ s' = a \/ s' = b \/ s' = c
    BY <2>1, <2>2 DEF PumpReply
  <2>4. OnMangled(s, reply.rev) \in {PumpTop(s), e} BY DEF OnMangled
  <2>5. OnStaleBase(s, s.pump.req, reply.rev) \in {PumpTop(s), f} BY DEF OnStaleBase
  <2> HIDE DEF x, a, b, c, d, e, f, reply
  <2> QED BY <2>3, <2>4, <2>5
<1>2. reply.kind = "accepted" =>
        LET v == OnAccepted(s, s.pump.req, reply.rev) IN Ledger(v, log, Travelling(v, zombies))
  BY <1>0, AcceptedLedger
<1>3. \A u \in {a, b, c, d, e, f} : Keeps(u, s, log)
  <2> HIDE DEF reply
  <2>1. /\ Keeps(e, s, log) /\ Keeps(d, s, log) /\ Keeps(f, s, log)
        /\ Keeps(a, s, log) /\ Keeps(b, s, log) /\ Keeps(c, s, log)
    BY <1>0, GiveUpKeeps
  <2> HIDE DEF a, b, c, d, e, f
  <2> QED BY <2>1
<1>4. Keeps(x, s, log)
  <2>1. Keeps(s, s, log) BY DEF Keeps, SameTrip
  <2> QED BY <1>0, <2>1, RepumpedKeeps
<1> HIDE DEF x, a, b, c, d, e, f, reply
<1>5. \A u \in {x, a, b, c, d, e, f} : Ledger(u, log, Travelling(u, zombies))
  BY <1>3, <1>4, KeptTrip
<1>6. Ledger(PumpTop(s), log, Travelling(PumpTop(s), zombies))
  <2>1. zombies \subseteq Travelling(s, zombies) BY DEF Travelling
  <2>2. s.confirmedRevision <= Len(log) /\ Len(log) \in Nat
    BY <1>0 DEF Good, Grounded, Tip
  <2> QED BY <1>0, <2>1, <2>2, PumpTopLedger
<1> QED BY <1>1, <1>2, <1>5, <1>6

(***************************************************************************)
(* A submission given up may still be on its way.                          *)
(***************************************************************************)
LEMMA PumpErrorLedger ==
  ASSUME IInv, Ledger(s, log, Travelling(s, zombies)), PumpError
  PROVE  Ledger(s', log, Travelling(s', zombies'))
<1> DEFINE pc == IF s.status = "live" THEN "delay" ELSE "exit"
           u == [s EXCEPT !.pump = PumpAt(pc)]
<1>0. s \in Sessions BY Here
<1>1. s' = u /\ s.pump.pc = "post" BY DEF PumpError
<1>2. zombies' \subseteq zombies \cup {s.pump.req} BY DEF PumpError
<1>3. SameBooks(u, s) /\ u.pump.pc # "post" BY <1>0 DEF Sessions, SameBooks, PumpAt
<1> HIDE DEF u
<1>4. Travelling(u, zombies') \subseteq Travelling(s, zombies)
  BY <1>1, <1>2, <1>3 DEF Travelling
<1>5. Ledger(u, log, Travelling(u, zombies')) BY <1>3, <1>4, QuietLedger
<1> QED BY <1>1, <1>5

-----------------------------------------------------------------------------
(* New intentions.                                                         *)

(***************************************************************************)
(* A new intention is enqueued: it is not in the books yet.  Its patch is  *)
(* the record it is tied to (mirrored for an undo), which is its own or    *)
(* one that is on no stack.                                                *)
(***************************************************************************)
Enrolls(u, t, x, p) ==
  /\ u.pending = Append(t.pending, x) /\ u.fate = Append(t.fate, "open")
  /\ u.recs = Append(t.recs, p) /\ u.opCounter = t.opCounter + 1
  /\ u.confirmedRevision = t.confirmedRevision
  /\ x.intent = Len(t.fate) + 1 /\ x.opId = t.opCounter + 1 /\ x.attempts = {}
  /\ x.rec \in 1..(Len(t.recs) + 1)
  /\ x.predicted = Mirror(x, u.recs[x.rec])

(* The books after one more intention.                                     *)
LEMMA EnrollLedger ==
  ASSUME NEW t \in Sessions, NEW l, NEW Z, Ledger(t, l, Z), Honest(l), NEW u,
         NEW x \in Entries, NEW p \in PatchOps, Enrolls(u, t, x, p),
         u.undo \in Seq(Nat), u.redo \in Seq(Nat), Stacks(u)
  PROVE  Ledger(u, l, Z)
<1> DEFINE q == t.pending
           n == Len(q)
           w == u.pending
<1>0. /\ q \in Seq(Entries) /\ n \in Nat /\ t.fate \in Seq(Fates) /\ t.recs \in Seq(PatchOps)
      /\ t.opCounter \in Nat /\ Len(t.fate) \in Nat /\ Len(t.recs) \in Nat
  BY DEF Sessions
<1>1. /\ Len(w) = n + 1 /\ w[n + 1] = x
      /\ \A j \in 1..n : w[j] = q[j]
      /\ \A j \in 1..(n + 1) : j \in 1..n \/ j = n + 1
  BY <1>0, Appended DEF Enrolls
<1>2. /\ Len(u.fate) = Len(t.fate) + 1 /\ u.fate[Len(t.fate) + 1] = "open"
      /\ \A j \in 1..Len(t.fate) : u.fate[j] = t.fate[j]
      /\ \A j \in 1..(Len(t.fate) + 1) : j \in 1..Len(t.fate) \/ j = Len(t.fate) + 1
  BY <1>0, Appended DEF Enrolls
<1>3. /\ Len(u.recs) = Len(t.recs) + 1
      /\ \A j \in 1..Len(t.recs) : u.recs[j] = t.recs[j]
  BY <1>0, Appended DEF Enrolls
<1>4. /\ Queue(t) /\ Recorded(t) /\ Minting(t, l, Z) /\ Heads(t) /\ Unseen(t, l)
      /\ Ahead(t, l, Z) /\ Kept(t, l)
  BY DEF Ledger, Books, Tally
<1>5. /\ x.intent = Len(t.fate) + 1 /\ x.opId = t.opCounter + 1 /\ x.attempts = {}
      /\ x.rec \in 1..(Len(t.recs) + 1) /\ x.predicted = Mirror(x, u.recs[x.rec])
      /\ u.opCounter = t.opCounter + 1 /\ u.confirmedRevision = t.confirmedRevision
  BY DEF Enrolls
<1> HIDE DEF w, n
<1>6. \A j \in 1..n : /\ q[j].intent \in 1..Len(t.fate) /\ q[j].rec \in 1..Len(t.recs)
                      /\ q[j].intent # x.intent
  BY <1>0, <1>4, <1>5 DEF Queue, n
<1>7. Queue(u)
  <2>1. Len(u.recs) = Len(u.fate) BY <1>2, <1>3, <1>4 DEF Queue
  <2> SUFFICES ASSUME NEW j \in 1..(n + 1)
               PROVE  /\ w[j].intent \in 1..Len(u.fate) /\ w[j].rec \in 1..Len(u.recs)
                      /\ \A m \in 1..(n + 1) : w[m].intent = w[j].intent => m = j
    BY <1>1, <2>1 DEF Queue, w
  <2>2. CASE j \in 1..n
    <3>1. w[j] = q[j] /\ w[j].intent \in 1..Len(t.fate) /\ w[j].rec \in 1..Len(t.recs)
      BY <1>1, <1>6, <2>2
    <3>2. w[j].intent \in 1..Len(u.fate) /\ w[j].rec \in 1..Len(u.recs)
      BY <1>0, <1>2, <1>3, <3>1
    <3>3. ASSUME NEW m \in 1..(n + 1), w[m].intent = w[j].intent PROVE m = j
      <4>1. CASE m \in 1..n BY <1>1, <1>4, <2>2, <3>1, <3>3, <4>1 DEF Queue, n
      <4>2. CASE m = n + 1 BY <1>1, <1>6, <2>2, <3>1, <3>3, <4>2
      <4> QED BY <1>1, <4>1, <4>2
    <3> QED BY <3>2, <3>3
  <2>3. CASE j = n + 1
    <3>1. w[j] = x BY <1>1, <2>3
    <3>2. x.intent \in 1..Len(u.fate) /\ x.rec \in 1..Len(u.recs)
      BY <1>0, <1>2, <1>3, <1>5
    <3>3. ASSUME NEW m \in 1..(n + 1), w[m].intent = x.intent PROVE m = j
      BY <1>1, <1>6, <2>3, <3>3
    <3> QED BY <3>1, <3>2, <3>3
  <2> QED BY <1>1, <2>2, <2>3
<1>8. Recorded(u)
  <2> SUFFICES ASSUME NEW j \in 1..(n + 1), ~Superseded(w, j)
               PROVE  w[j].predicted = Mirror(w[j], u.recs[w[j].rec])
    BY <1>1 DEF Recorded, w
  <2>1. CASE j = n + 1 BY <1>1, <1>5, <2>1
  <2>2. CASE j \in 1..n
    <3>1. w[j] = q[j] /\ q[j].rec \in 1..Len(t.recs) BY <1>1, <1>6, <2>2
    <3>2. ~Superseded(q, j)
      <4>1. \A m \in 1..n : m \in 1..(n + 1) BY <1>0 DEF n
      <4> QED BY <1>1, <2>2, <4>1 DEF Superseded, n
    <3>3. q[j].predicted = Mirror(q[j], t.recs[q[j].rec]) BY <1>4, <2>2, <3>2 DEF Recorded, n
    <3> QED BY <1>3, <3>1, <3>3
  <2> QED BY <1>1, <2>1, <2>2
<1>9. \A k, i : Held(w, k, i) => Held(q, k, i) \/ (k = x.opId /\ i = x.intent)
  <2> SUFFICES ASSUME NEW k, NEW i, NEW j \in 1..(n + 1), w[j].intent = i, Uses(w[j], k)
               PROVE  Held(q, k, i) \/ (k = x.opId /\ i = x.intent)
    BY <1>1 DEF Held, w
  <2>1. CASE j \in 1..n BY <1>1, <2>1 DEF Held, n
  <2>2. CASE j = n + 1 BY <1>1, <1>5, <2>2 DEF Uses
  <2> QED BY <1>1, <2>1, <2>2
<1>10. \A k, i : Sent(l, Z, k, i) \/ Held(q, k, i) =>
         /\ k \in 0..t.opCounter /\ i \in 1..Len(t.fate)
         /\ \A m : Sent(l, Z, k, m) \/ Held(q, k, m) => m = i
  BY <1>4 DEF Minting
<1>11. Minting(u, l, Z)
  <2> SUFFICES ASSUME NEW k, NEW i, Sent(l, Z, k, i) \/ Held(w, k, i)
               PROVE  /\ k \in 0..u.opCounter /\ i \in 1..Len(u.fate)
                      /\ \A m : Sent(l, Z, k, m) \/ Held(w, k, m) => m = i
    BY DEF Minting, w
  <2>1. CASE Sent(l, Z, k, i) \/ Held(q, k, i)
    <3>1. k \in 0..t.opCounter /\ i \in 1..Len(t.fate) BY <1>10, <2>1
    <3>2. k \in 0..u.opCounter /\ i \in 1..Len(u.fate) /\ k # x.opId
      BY <1>0, <1>2, <1>5, <3>1
    <3>3. \A m : Sent(l, Z, k, m) \/ Held(q, k, m) => m = i BY <1>10, <2>1
    <3> QED BY <1>9, <3>2, <3>3
  <2>2. CASE k = x.opId /\ i = x.intent
    <3>1. ~(k \in 0..t.opCounter) BY <1>0, <1>5, <2>2
    <3>2. \A m : ~Sent(l, Z, k, m) /\ ~Held(q, k, m) BY <1>10, <3>1
    <3>3. k \in 0..u.opCounter /\ i \in 1..Len(u.fate) BY <1>0, <1>2, <1>5, <2>2
    <3> QED BY <1>9, <2>2, <3>2, <3>3
  <2> QED BY <1>9, <2>1, <2>2
<1>12. Heads(u)
  <2>1. ASSUME NEW j \in 1..(n + 1), j > 1 PROVE w[j].attempts = {}
    <3>1. CASE j \in 1..n
      <4>1. q[j].attempts = {} BY <1>4, <2>1, <3>1 DEF Heads, n
      <4> QED BY <1>1, <3>1, <4>1
    <3>2. CASE j = n + 1 BY <1>1, <1>5, <3>2
    <3> QED BY <1>1, <3>1, <3>2
  <2>2. ASSUME NEW a \in w[1].attempts, a.opId = w[1].opId PROVE a.base = t.confirmedRevision
    <3>1. CASE 1 \in 1..n
      <4>1. w[1] = q[1] /\ q # <<>> BY <1>0, <1>1, <3>1 DEF n
      <4> QED BY <1>4, <2>2, <4>1 DEF Heads
    <3>2. CASE ~(1 \in 1..n)
      <4>1. n \in Nat BY <1>0 DEF n
      <4>2. 1 = n + 1 BY <3>2, <4>1
      <4>3. w[1] = x BY <1>1, <4>2
      <4> QED BY <1>5, <2>2, <4>3
    <3> QED BY <3>1, <3>2
  <2> QED BY <1>1, <1>5, <2>1, <2>2 DEF Heads, w
<1>13. x.intent \notin 1..Len(t.fate) /\ x.intent # 0 BY <1>0, <1>5
<1>14. \A r \in 1..Len(l) : l[r].intent # x.intent
  <2> SUFFICES ASSUME NEW r \in 1..Len(l), l[r].intent = x.intent PROVE FALSE
    OBVIOUS
  <2>1. l[r].actor = Me BY <1>13 DEF Honest
  <2>2. Sent(l, Z, l[r].opId, x.intent) BY <2>1 DEF Sent
  <2> QED BY <1>10, <1>13, <2>2
<1>15. \A y \in Z : y.intent # x.intent
  <2> SUFFICES ASSUME NEW y \in Z, y.intent = x.intent PROVE FALSE
    OBVIOUS
  <2>1. Sent(l, Z, y.opId, x.intent) BY DEF Sent
  <2> QED BY <1>10, <1>13, <2>1
<1>16. Unseen(u, l)
  <2> SUFFICES ASSUME NEW j \in 1..(n + 1), NEW r \in 1..Len(l), l[r].intent = w[j].intent
               PROVE  r > t.confirmedRevision /\ Remembers(w[j], l[r].opId, r - 1)
    BY <1>1, <1>5 DEF Unseen, w
  <2>1. CASE j \in 1..n
    <3>1. w[j] = q[j] BY <1>1, <2>1
    <3> QED BY <1>4, <2>1, <3>1 DEF Unseen, n
  <2>2. CASE j = n + 1 BY <1>1, <1>14, <2>2
  <2> QED BY <1>1, <2>1, <2>2
<1>17. Ahead(u, l, Z)
  <2> SUFFICES ASSUME NEW y \in Z
               PROVE  /\ y.base <= Len(l)
                      /\ \A r \in 1..Len(l) : l[r].intent = y.intent => y.base < r
                      /\ y.base = Len(l) => \A j \in 1..(n + 1) :
                           w[j].intent = y.intent => Remembers(w[j], y.opId, y.base)
    BY <1>1 DEF Ahead, w
  <2>1. /\ y.base <= Len(l)
        /\ \A r \in 1..Len(l) : l[r].intent = y.intent => y.base < r
        /\ y.base = Len(l) => \A j \in 1..n :
             q[j].intent = y.intent => Remembers(q[j], y.opId, y.base)
    BY <1>4 DEF Ahead, n
  <2>2. \A j \in 1..(n + 1) : w[j].intent = y.intent => j \in 1..n /\ w[j] = q[j]
    BY <1>1, <1>15
  <2> QED BY <2>1, <2>2
<1>18. Kept(u, l)
  <2> SUFFICES ASSUME NEW y \in 1..(Len(t.fate) + 1), u.fate[y] = "open"
               PROVE  Queued(w, y) \/ Logged(l, y)
    BY <1>2 DEF Kept, w
  <2>0. n + 1 \in 1..(n + 1) /\ \A j \in 1..n : j \in 1..(n + 1) BY <1>0 DEF n
  <2>1. CASE y \in 1..Len(t.fate)
    <3>1. t.fate[y] = "open" BY <1>2, <2>1
    <3>2. Queued(q, y) \/ Logged(l, y) BY <1>4, <2>1, <3>1 DEF Kept
    <3>3. Queued(q, y) => Queued(w, y) BY <1>1, <2>0 DEF Queued, n
    <3> QED BY <3>2, <3>3
  <2>2. CASE y = Len(t.fate) + 1 BY <1>1, <1>5, <2>0, <2>2 DEF Queued
  <2> QED BY <1>2, <2>1, <2>2
<1> QED BY <1>7, <1>8, <1>11, <1>12, <1>16, <1>17, <1>18 DEF Ledger, Books, Tally, w

(***************************************************************************)
(* Taking the top of a stack off.                                          *)
(***************************************************************************)
LEMMA PopFacts ==
  ASSUME NEW q \in Seq(Nat), q # <<>>, Injective(q)
  PROVE  /\ Front(q) \in Seq(Nat) /\ Injective(Front(q)) /\ ~On(Front(q), Last(q))
         /\ \A x : On(Front(q), x) => On(q, x)
         /\ On(q, Last(q)) /\ Last(q) \in Nat
<1> DEFINE n == Len(q)
           f == Front(q)
<1>1. n \in Nat /\ n >= 1 /\ n \in 1..n /\ \A i \in 1..(n - 1) : i \in 1..n /\ i # n
  OBVIOUS
<1>2. f \in Seq(Nat) /\ Len(f) = n - 1 /\ \A i \in 1..(n - 1) : f[i] = q[i]
  <2> DEFINE m == n - 1
             g == SubSeq(q, 1, m)
  <2>1. m \in Nat /\ m <= Len(q) BY <1>1
  <2> HIDE DEF m
  <2>2. g \in Seq(Nat) /\ Len(g) = m /\ \A i \in 1..m : g[i] = q[i] BY <2>1
  <2> QED BY <2>2 DEF Front, m
<1>3. Last(q) = q[n] /\ q[n] \in Nat BY <1>1 DEF Last
<1> HIDE DEF f, n
<1>4. Injective(f) BY <1>1, <1>2 DEF Injective, n
<1>5. ~On(f, q[n]) BY <1>1, <1>2 DEF On, Injective, n
<1>6. \A x : On(f, x) => On(q, x) BY <1>1, <1>2 DEF On, n
<1>7. On(q, q[n]) BY <1>1 DEF On, n
<1> QED BY <1>2, <1>3, <1>4, <1>5, <1>6, <1>7 DEF f

(***************************************************************************)
(* Putting a record on a stack that does not have it.                      *)
(***************************************************************************)
LEMMA PushFacts ==
  ASSUME NEW q \in Seq(Nat), Injective(q), NEW r \in Nat, ~On(q, r)
  PROVE  /\ Append(q, r) \in Seq(Nat) /\ Injective(Append(q, r))
         /\ \A x : On(Append(q, r), x) => On(q, x) \/ x = r
<1> DEFINE a == Append(q, r)
           n == Len(q)
<1>1. a \in Seq(Nat) OBVIOUS
<1>2. /\ Len(a) = n + 1 /\ a[n + 1] = r /\ \A j \in 1..n : a[j] = q[j]
      /\ \A j \in 1..(n + 1) : j \in 1..n \/ j = n + 1
  BY Appended
<1> HIDE DEF a, n
<1>3. Injective(a)
  <2> SUFFICES ASSUME NEW i \in 1..(n + 1), NEW j \in 1..(n + 1), a[i] = a[j] PROVE i = j
    BY <1>2 DEF Injective
  <2>1. \A m \in 1..n : a[m] # r BY <1>2 DEF On, n
  <2>2. CASE i \in 1..n /\ j \in 1..n BY <1>2, <2>2 DEF Injective, n
  <2>3. CASE i = n + 1 \/ j = n + 1 BY <1>2, <2>1, <2>3
  <2> QED BY <1>2, <2>2, <2>3
<1>4. \A x : On(a, x) => On(q, x) \/ x = r BY <1>2 DEF On, n
<1> QED BY <1>1, <1>3, <1>4 DEF a

(***************************************************************************)
(* The bound of the undo stack drops its oldest record.                    *)
(***************************************************************************)
LEMMA BoundedFacts ==
  ASSUME NEW q \in Seq(Nat), Injective(q)
  PROVE  /\ Bounded(q) \in Seq(Nat) /\ Injective(Bounded(q))
         /\ \A x : On(Bounded(q), x) => On(q, x)
<1>1. CASE Bounded(q) = q BY <1>1
<1>2. CASE q # <<>> /\ Bounded(q) = Tail(q)
  <2>1. Tail(q) \in Seq(Nat) BY <1>2
  <2>2. /\ Len(Tail(q)) = Len(q) - 1
        /\ \A j \in 1..Len(Tail(q)) : Tail(q)[j] = q[j + 1] /\ j + 1 \in 1..Len(q) /\ j + 1 > 1
    BY <1>2, TailFacts
  <2> DEFINE w == Tail(q)
  <2> HIDE DEF w
  <2>3. Injective(w)
    <3> SUFFICES ASSUME NEW i \in 1..Len(w), NEW j \in 1..Len(w), w[i] = w[j] PROVE i = j
      BY DEF Injective
    <3>1. q[i + 1] = q[j + 1] /\ i + 1 \in 1..Len(q) /\ j + 1 \in 1..Len(q) BY <2>2 DEF w
    <3>2. i + 1 = j + 1 BY <3>1 DEF Injective
    <3>3. i \in Int /\ j \in Int OBVIOUS
    <3> QED BY <3>2, <3>3
  <2>4. \A x : On(w, x) => On(q, x) BY <2>2 DEF On, w
  <2> QED BY <1>2, <2>1, <2>3, <2>4 DEF w
<1>3. Bounded(q) = q \/ (q # <<>> /\ Bounded(q) = Tail(q))
  <2>1. CASE q = <<>>
    <3>1. Len(q) = 0 /\ MaxUndo \in Nat BY <2>1, SessionAssumption
    <3>2. ~(Len(q) > MaxUndo) BY <3>1
    <3> QED BY <3>2 DEF Bounded
  <2>2. CASE q # <<>> BY <2>2 DEF Bounded
  <2> QED BY <2>1, <2>2
<1> QED BY <1>1, <1>2, <1>3

(***************************************************************************)
(* A record that may be on a stack, and stacks of such records, perhaps    *)
(* with the new one.                                                       *)
(***************************************************************************)
Stackable(t, x) ==
  /\ x \in 1..Len(t.recs) /\ t.fate[x] = "open"
  /\ \A j \in 1..Len(t.pending) : t.pending[j].intent = x => t.pending[j].rec = x

(* The stacks after one more intention.                                    *)
LEMMA EnrolledStacks ==
  ASSUME NEW t \in Sessions, Queue(t), NEW u, NEW x \in Entries, NEW p,
         Enrolls(u, t, x, p), Injective(u.undo), Injective(u.redo),
         \A y : ~(On(u.undo, y) /\ On(u.redo, y)),
         \A y : OnStack(u, y) => Stackable(t, y) \/ (y = x.intent /\ x.rec = y)
  PROVE  Stacks(u)
<1> DEFINE q == t.pending
           n == Len(q)
           w == u.pending
<1>0. /\ q \in Seq(Entries) /\ n \in Nat /\ t.fate \in Seq(Fates) /\ t.recs \in Seq(PatchOps)
      /\ Len(t.fate) \in Nat /\ Len(t.recs) \in Nat
  BY DEF Sessions
<1>1. /\ Len(w) = n + 1 /\ w[n + 1] = x
      /\ \A j \in 1..n : w[j] = q[j]
      /\ \A j \in 1..(n + 1) : j \in 1..n \/ j = n + 1
  BY <1>0, Appended DEF Enrolls
<1>2. /\ Len(u.fate) = Len(t.fate) + 1 /\ u.fate[Len(t.fate) + 1] = "open"
      /\ \A j \in 1..Len(t.fate) : u.fate[j] = t.fate[j]
  BY <1>0, Appended DEF Enrolls
<1>3. Len(u.recs) = Len(t.recs) + 1 BY <1>0, Appended DEF Enrolls
<1>4. /\ x.intent = Len(t.fate) + 1 /\ Len(t.recs) = Len(t.fate)
      /\ \A j \in 1..n : q[j].intent \in 1..Len(t.fate)
  BY DEF Enrolls, Queue, n
<1> HIDE DEF w, n
<1>5. ASSUME NEW y, OnStack(u, y)
      PROVE  /\ y \in 1..Len(u.recs) /\ u.fate[y] = "open"
             /\ \A j \in 1..Len(w) : w[j].intent = y => w[j].rec = y
  <2>1. CASE Stackable(t, y)
    <3>1. /\ y \in 1..Len(t.recs) /\ t.fate[y] = "open"
          /\ \A j \in 1..n : q[j].intent = y => q[j].rec = y
      BY <2>1 DEF Stackable, n
    <3>2. y \in 1..Len(u.recs) /\ u.fate[y] = "open" /\ y # x.intent
      BY <1>0, <1>2, <1>3, <1>4, <3>1
    <3> QED BY <1>1, <3>1, <3>2
  <2>2. CASE y = x.intent /\ x.rec = y
    <3>1. y \in 1..Len(u.recs) /\ u.fate[y] = "open" BY <1>0, <1>2, <1>3, <1>4, <2>2
    <3>2. \A j \in 1..n : w[j].intent # y BY <1>0, <1>1, <1>4, <2>2
    <3> QED BY <1>1, <2>2, <3>1, <3>2
  <2> QED BY <1>5, <2>1, <2>2
<1> QED BY <1>5 DEF Stacks, w

(***************************************************************************)
(* Running a command enrolls a new intention.                              *)
(***************************************************************************)
LEMMA RunEnrolls ==
  ASSUME NEW t \in Sessions, Queue(t), NEW c \in Invocations, NEW o \in Origins, NEW r \in Nat,
         r = 0 => o # "undo",
         r # 0 => /\ r \in 1..Len(t.recs)
                  /\ Forward(t.doc, c) = (IF o = "undo" THEN Invert(t.recs[r]) ELSE t.recs[r])
  PROVE  Enrolls(Run(t, c, o, r), t, RunEntry(t, c, o, r), Forward(t.doc, c))
<1> DEFINE u == Run(t, c, o, r)
           x == RunEntry(t, c, o, r)
           p == Forward(t.doc, c)
<1>1. /\ SameSync(u, t) /\ x \in Entries /\ u.pending = Append(t.pending, x)
      /\ u.opCounter = t.opCounter + 1 /\ u.fate = Append(t.fate, "open")
      /\ u.recs = Append(t.recs, p) /\ p \in PatchOps
  <2>1. u = Run(t, c, o, r) OBVIOUS
  <2> HIDE DEF u
  <2>2. SameSync(u, t) /\ x \in Entries /\ u.pending = Append(t.pending, x) BY <2>1, RunShape
  <2>3. /\ u.opCounter = t.opCounter + 1 /\ u.fate = Append(t.fate, "open")
        /\ u.recs = Append(t.recs, p) /\ p \in PatchOps
    BY <2>1, RunShape
  <2> QED BY <2>2, <2>3
<1>2. t.recs \in Seq(PatchOps) BY DEF Sessions
<1>3. /\ x.intent = Len(t.fate) + 1 /\ x.opId = t.opCounter + 1 /\ x.attempts = {}
      /\ x.rec = (IF r = 0 THEN Len(t.recs) + 1 ELSE r) /\ x.predicted = Wire(p) /\ x.origin = o
  BY DEF RunEntry
<1> HIDE DEF u, x, p
<1>4. /\ Len(t.recs) \in Nat /\ u.recs[Len(t.recs) + 1] = p
      /\ \A j \in 1..Len(t.recs) : u.recs[j] = t.recs[j]
  BY <1>1, <1>2, Appended
<1>5. x.rec \in 1..(Len(t.recs) + 1) /\ x.predicted = Mirror(x, u.recs[x.rec])
  <2>1. CASE r = 0
    <3>1. u.recs[x.rec] = p /\ x.rec \in 1..(Len(t.recs) + 1) BY <1>3, <1>4, <2>1
    <3> QED BY <1>3, <2>1, <3>1 DEF Mirror
  <2>2. CASE r # 0
    <3>1. u.recs[x.rec] = t.recs[r] /\ x.rec \in 1..(Len(t.recs) + 1) BY <1>3, <1>4, <2>2
    <3>2. p = IF o = "undo" THEN Invert(t.recs[r]) ELSE t.recs[r] BY <2>2 DEF p
    <3> QED BY <1>3, <3>1, <3>2 DEF Mirror
  <2> QED BY <2>1, <2>2
<1> QED BY <1>1, <1>3, <1>5 DEF Enrolls, SameSync, u, x, p

(***************************************************************************)
(* Running a command submits nothing.                                      *)
(***************************************************************************)
LEMMA RunTrip ==
  ASSUME NEW t \in Sessions, NEW c, NEW o, NEW r PROVE SameTrip(Run(t, c, o, r), t)
<1> DEFINE p == Forward(t.doc, c)
           d == Apply(t.doc, Wire(p))
           k == t.opCounter + 1
           q == Append(t.pending, RunEntry(t, c, o, r))
           F == Append(t.fate, "open")
           R == Append(t.recs, p)
           v == [t EXCEPT !.doc = d, !.opCounter = k, !.pending = q, !.fate = F, !.recs = R]
<1>1. Run(t, c, o, r) = Pump(v) BY DEF Run, RunEntry, Sessions
<1> HIDE DEF p, d, k, q, F, R
<1>2. DOMAIN v = DOMAIN t BY DEF Sessions
<1>3. v.pump = t.pump BY DEF Sessions
<1>4. "pump" \in DOMAIN t BY DEF Sessions
<1> HIDE DEF v
<1>5. Pump(v).pump = v.pump \/ Pump(v).pump = PumpAt("ready") BY <1>2, <1>4 DEF Pump
<1> QED BY <1>1, <1>3, <1>5 DEF SameTrip, PumpAt

(***************************************************************************)
(* A command the user gives.                                               *)
(***************************************************************************)
LEMMA DispatchLedger ==
  ASSUME NEW t \in Sessions, NEW l, Honest(l), NEW Z, Ledger(t, l, Z), NEW c \in Invocations
  PROVE  /\ Ledger(DispatchOn(t, c), l, Z)
         /\ SameTrip(DispatchOn(t, c), t)
<1> DEFINE x == RunEntry(t, c, "dispatch", 0)
           p == Forward(t.doc, c)
           ran == Run(t, c, "dispatch", 0)
           k == Len(ran.recs)
           U == Bounded(Append(ran.undo, k))
           u == [ran EXCEPT !.undo = U, !.redo = <<>>]
<1>0. Queue(t) /\ Stacks(t) BY DEF Ledger, Books
<1>1. /\ ran \in Sessions /\ x \in Entries /\ p \in PatchOps /\ ran.undo = t.undo
      /\ t.pump.pc # "idle" => ran.pump = t.pump
  BY RunShape DEF Origins
<1>2. Enrolls(ran, t, x, p) BY <1>0, RunEnrolls DEF Origins
<1>3. DispatchOn(t, c) = u BY DEF DispatchOn
<1>4. x.rec = Len(t.recs) + 1 BY DEF RunEntry
<1> HIDE DEF ran, x, p
<1>5. t.undo \in Seq(Nat) /\ t.recs \in Seq(PatchOps) /\ t.fate \in Seq(Fates) BY DEF Sessions
<1>6. k = Len(t.recs) + 1 /\ k \in Nat /\ k = x.intent
  <2>1. ran.recs = Append(t.recs, p) /\ x.intent = Len(t.fate) + 1 BY <1>2 DEF Enrolls
  <2>2. Len(t.recs) = Len(t.fate) BY <1>0 DEF Queue
  <2>3. Len(ran.recs) = Len(t.recs) + 1 /\ Len(t.recs) \in Nat BY <1>5, <2>1, Appended
  <2> QED BY <2>1, <2>2, <2>3
<1> HIDE DEF k
<1>7. Injective(t.undo) /\ ~On(t.undo, k)
  <2>1. On(t.undo, k) => k \in 1..Len(t.recs) BY <1>0 DEF Stacks, OnStack
  <2>2. Len(t.recs) \in Nat BY <1>5
  <2> QED BY <1>0, <1>6, <2>1, <2>2 DEF Stacks
<1>8. /\ Append(t.undo, k) \in Seq(Nat) /\ Injective(Append(t.undo, k))
      /\ \A y : On(Append(t.undo, k), y) => On(t.undo, y) \/ y = k
  BY <1>5, <1>6, <1>7, PushFacts
<1>9. /\ U \in Seq(Nat) /\ Injective(U)
      /\ \A y : On(U, y) => On(t.undo, y) \/ y = k
  BY <1>1, <1>8, BoundedFacts
<1> HIDE DEF U
<1>10. /\ u.undo = U /\ u.redo = <<>> /\ u.pending = ran.pending /\ u.fate = ran.fate
       /\ u.recs = ran.recs /\ u.opCounter = ran.opCounter /\ u.pump = ran.pump
       /\ u.confirmedRevision = ran.confirmedRevision
  BY <1>1 DEF Sessions
<1> HIDE DEF u
<1>11. Enrolls(u, t, x, p) BY <1>2, <1>10 DEF Enrolls
<1>12. \A y : ~On(u.redo, y) /\ Injective(u.redo)
  <2>1. Len(<<>>) = 0 OBVIOUS
  <2> QED BY <1>10, <2>1 DEF On, Injective
<1>13. Stacks(u)
  <2>0. \A y : OnStack(t, y) => Stackable(t, y) BY <1>0 DEF Stacks, Stackable
  <2>1. \A y : OnStack(u, y) => Stackable(t, y) \/ (y = x.intent /\ x.rec = y)
    BY <1>4, <1>6, <1>9, <1>10, <1>12, <2>0 DEF OnStack
  <2>2. Injective(u.undo) BY <1>9, <1>10
  <2> QED BY <1>0, <1>1, <1>11, <1>12, <2>1, <2>2, EnrolledStacks
<1>14. u.undo \in Seq(Nat) /\ u.redo \in Seq(Nat) BY <1>9, <1>10
<1>15. Ledger(u, l, Z) BY <1>1, <1>11, <1>13, <1>14, EnrollLedger
<1>16. SameTrip(u, t)
  <2>1. SameTrip(ran, t) BY RunTrip DEF ran
  <2> QED BY <1>10, <2>1 DEF SameTrip
<1> QED BY <1>3, <1>15, <1>16

(***************************************************************************)
(* Discarding records from the stacks.                                     *)
(***************************************************************************)
Trims(U, q) == U \in Seq(Nat) /\ Injective(U) /\ \A x : On(U, x) => On(q, x)

Trimmed(t, U, R) == [t EXCEPT !.undo = U, !.redo = R]

(* Records that no longer fit leave the stacks.                            *)
LEMMA DiscardLedger ==
  ASSUME NEW t \in Sessions, NEW l, NEW Z, Ledger(t, l, Z), NEW U, NEW R,
         Trims(U, t.undo), Trims(R, t.redo), NEW u, u = Trimmed(t, U, R)
  PROVE  /\ u \in Sessions /\ Ledger(u, l, Z) /\ u.pump = t.pump /\ u.doc = t.doc
         /\ u.recs = t.recs /\ u.undo = U /\ u.redo = R
<1>1. /\ u \in Sessions /\ u.pump = t.pump /\ u.doc = t.doc /\ u.undo = U /\ u.redo = R
      /\ u.confirmedRevision = t.confirmedRevision /\ SameWrit(u, t)
  BY DEF Sessions, SameWrit, Trims, Trimmed
<1>2. Books(t) /\ Tally(t, l, Z) /\ Kept(t, l) BY DEF Ledger
<1>3. Queue(u) /\ Recorded(u) BY <1>1, <1>2 DEF Books, Queue, Recorded, SameWrit
<1>4. Stacks(u) BY <1>1, <1>2 DEF Books, Stacks, OnStack, SameWrit, Trims
<1>5. Minting(u, l, Z) /\ Heads(u) /\ Unseen(u, l) /\ Ahead(u, l, Z)
  BY <1>1, <1>2 DEF Tally, Minting, Heads, Unseen, Ahead, SameWrit
<1>6. Kept(u, l) BY <1>1, <1>2 DEF Kept, SameWrit
<1>7. Ledger(u, l, Z) BY <1>3, <1>4, <1>5, <1>6 DEF Ledger, Books, Tally
<1> QED BY <1>1, <1>7 DEF SameWrit

(***************************************************************************)
(* A replayed record moves to the other stack.                             *)
(***************************************************************************)
SameQueue(u, v) ==
  /\ u.pending = v.pending /\ u.fate = v.fate /\ u.recs = v.recs
  /\ u.opCounter = v.opCounter /\ u.confirmedRevision = v.confirmedRevision
  /\ SameTrip(u, v)

Restacked(u, t) ==
  /\ u.undo \in Seq(Nat) /\ u.redo \in Seq(Nat)
  /\ Injective(u.undo) /\ Injective(u.redo)
  /\ \A x : ~(On(u.undo, x) /\ On(u.redo, x))
  /\ \A x : OnStack(u, x) => Stackable(t, x)

(* An undo or a redo replays its record as a new intention.                *)
LEMMA ReplayLedger ==
  ASSUME NEW t \in Sessions, NEW l, Honest(l), NEW Z, Ledger(t, l, Z),
         NEW o \in Origins, NEW r \in 1..Len(t.recs), NEW p \in PatchOps,
         p = (IF o = "undo" THEN Invert(t.recs[r]) ELSE t.recs[r]),
         t.doc[p.key] = p.old, NEW ran, ran = Run(t, SessionPatch(Wire(p)), o, r),
         NEW u, SameQueue(u, ran), Restacked(u, t)
  PROVE  Ledger(u, l, Z) /\ SameTrip(u, t)
<1> DEFINE c == SessionPatch(Wire(p))
           x == RunEntry(t, c, o, r)
<1>0. Queue(t) /\ Stacks(t) BY DEF Ledger, Books
<1>1. c \in Invocations BY SessionPatchType
<1>2. Forward(t.doc, c) = p BY DEF Forward, SessionPatch, Wire, PatchOps
<1>3. r \in Nat /\ r # 0 OBVIOUS
<1> HIDE DEF c
<1>4. Enrolls(ran, t, x, p) BY <1>0, <1>1, <1>2, <1>3, RunEnrolls DEF c
<1>5. x \in Entries BY <1>1, <1>3, RunShape
<1> HIDE DEF x
<1>6. Enrolls(u, t, x, p) BY <1>4 DEF Enrolls, SameQueue
<1>7. Stacks(u)
  <2>1. /\ Injective(u.undo) /\ Injective(u.redo) /\ \A y : ~(On(u.undo, y) /\ On(u.redo, y))
        /\ \A y : OnStack(u, y) => Stackable(t, y)
    BY DEF Restacked
  <2> QED BY <1>0, <1>5, <1>6, <2>1, EnrolledStacks
<1>8. Ledger(u, l, Z)
  <2>1. u.undo \in Seq(Nat) /\ u.redo \in Seq(Nat) BY DEF Restacked
  <2> QED BY <1>5, <1>6, <1>7, <2>1, EnrollLedger
<1>9. SameTrip(ran, t) BY RunTrip
<1>10. SameTrip(u, t) BY <1>9 DEF SameTrip, SameQueue
<1> QED BY <1>8, <1>10

(***************************************************************************)
(* Undoing.                                                                *)
(***************************************************************************)
LEMMA UndoLedger ==
  ASSUME NEW n \in Nat, NEW D, NEW t, Good(t, n, D), NEW l, Honest(l), NEW Z, Ledger(t, l, Z),
         t.undo # <<>>
  PROVE  LET u == ReplayOn(t, "undo", "redo", "undo") IN Ledger(u, l, Z) /\ SameTrip(u, t)
<1> DEFINE r == Last(t.undo)
           p == Invert(t.recs[r])
           U == Front(t.undo)
           d == [t EXCEPT !.undo = U, !.redo = t.redo]
           ran == Run(d, SessionPatch(Wire(p)), "undo", r)
           R == Append(t.redo, r)
           e == [ran EXCEPT !.redo = R]
           u == ReplayOn(t, "undo", "redo", "undo")
<1>0. /\ t \in Sessions /\ t.undo \in Seq(Nat) /\ t.redo \in Seq(Nat)
      /\ t.recs \in Seq(PatchOps) /\ Stacks(t)
  BY DEF Good, Grounded, Sessions, Ledger, Books
<1>1. /\ U \in Seq(Nat) /\ Injective(U) /\ ~On(U, r)
      /\ \A x : On(U, x) => On(t.undo, x)
      /\ On(t.undo, r) /\ r \in Nat
  BY <1>0, PopFacts DEF Stacks
<1>2. /\ Injective(t.redo) /\ ~On(t.redo, r) /\ \A x : ~(On(t.undo, x) /\ On(t.redo, x))
      /\ \A x : OnStack(t, x) => Stackable(t, x)
  BY <1>0, <1>1 DEF Stacks, Stackable
<1>3. OnStack(t, r) /\ r \in 1..Len(t.recs) BY <1>1, <1>2 DEF OnStack, Stackable
<1>4. p \in PatchOps
  <2>1. t.recs[r] \in PatchOps BY <1>0, <1>3
  <2> QED BY <2>1, InvertType
<1>5. [t EXCEPT !.undo = Front(@)] = d BY <1>0 DEF Sessions
<1>6. u = d \/ (t.doc[p.key] = p.old /\ u = [ran EXCEPT !.redo = Append(@, r)])
  BY <1>5 DEF ReplayOn
<1> HIDE DEF U, u, r
<1>7. /\ d \in Sessions /\ Ledger(d, l, Z) /\ d.pump = t.pump /\ d.doc = t.doc
      /\ d.recs = t.recs /\ d.undo = U /\ d.redo = t.redo
  <2>1. d = Trimmed(t, U, t.redo) BY DEF Trimmed
  <2>2. Trims(U, t.undo) /\ Trims(t.redo, t.redo) BY <1>0, <1>1, <1>2 DEF Trims
  <2> HIDE DEF d
  <2> QED BY <1>0, <2>1, <2>2, DiscardLedger
<1>8. \A x : Stackable(t, x) => Stackable(d, x)
  <2>1. d.pending = t.pending /\ d.fate = t.fate BY <1>0 DEF Sessions
  <2> QED BY <1>7, <2>1 DEF Stackable
<1> HIDE DEF d
<1>9. CASE u = d BY <1>7, <1>9 DEF SameTrip, u
<1>10. CASE t.doc[p.key] = p.old /\ u = [ran EXCEPT !.redo = Append(@, r)]
  <2>1. SessionPatch(Wire(p)) \in Invocations BY <1>4, SessionPatchType
  <2> HIDE DEF p
  <2>2. ran \in Sessions /\ ran.undo = U /\ ran.redo = t.redo
    <3>1. ran = Run(d, SessionPatch(Wire(p)), "undo", r) /\ "undo" \in Origins BY DEF Origins
    <3> HIDE DEF ran
    <3> QED BY <1>1, <1>7, <2>1, <3>1, RunShape
  <2>3. u = e BY <1>10, <2>2
  <2>4. /\ R \in Seq(Nat) /\ Injective(R) /\ \A x : On(R, x) => On(t.redo, x) \/ x = r
    BY <1>0, <1>1, <1>2, PushFacts
  <2> HIDE DEF ran, R
  <2>5. /\ e.pump = ran.pump /\ e.pending = ran.pending /\ e.fate = ran.fate
        /\ e.recs = ran.recs /\ e.opCounter = ran.opCounter
        /\ e.confirmedRevision = ran.confirmedRevision /\ e.undo = U /\ e.redo = R
    BY <2>2, <2>4 DEF Sessions
  <2> HIDE DEF e
  <2>6. SameQueue(e, ran) BY <2>5 DEF SameQueue, SameTrip
  <2>7. Restacked(e, d)
    <3>1. \A x : ~(On(U, x) /\ On(R, x)) BY <1>1, <1>2, <2>4
    <3>2. \A x : On(U, x) \/ On(R, x) => Stackable(d, x)
      BY <1>1, <1>2, <1>3, <1>8, <2>4 DEF OnStack
    <3> QED BY <1>1, <2>4, <2>5, <3>1, <3>2 DEF Restacked, OnStack
  <2>8. p = (IF "undo" = "undo" THEN Invert(d.recs[r]) ELSE d.recs[r]) BY <1>7 DEF p
  <2>9. /\ d.doc[p.key] = p.old /\ r \in 1..Len(d.recs)
        /\ ran = Run(d, SessionPatch(Wire(p)), "undo", r) /\ "undo" \in Origins
    BY <1>3, <1>7, <1>10 DEF ran, Origins
  <2>10. Ledger(e, l, Z) /\ SameTrip(e, d)
    BY <1>4, <1>7, <2>6, <2>7, <2>8, <2>9, ReplayLedger
  <2>11. SameTrip(e, t) BY <1>7, <2>10 DEF SameTrip
  <2> QED BY <2>3, <2>10, <2>11 DEF u
<1> QED BY <1>6, <1>9, <1>10

(***************************************************************************)
(* Redoing.                                                                *)
(***************************************************************************)
LEMMA RedoLedger ==
  ASSUME NEW n \in Nat, NEW D, NEW t, Good(t, n, D), NEW l, Honest(l), NEW Z, Ledger(t, l, Z),
         t.redo # <<>>
  PROVE  LET u == ReplayOn(t, "redo", "undo", "redo") IN Ledger(u, l, Z) /\ SameTrip(u, t)
<1> DEFINE r == Last(t.redo)
           p == t.recs[r]
           R == Front(t.redo)
           d == [t EXCEPT !.undo = t.undo, !.redo = R]
           ran == Run(d, SessionPatch(Wire(p)), "redo", r)
           U == Append(t.undo, r)
           e == [ran EXCEPT !.undo = U]
           u == ReplayOn(t, "redo", "undo", "redo")
<1>0. /\ t \in Sessions /\ t.undo \in Seq(Nat) /\ t.redo \in Seq(Nat)
      /\ t.recs \in Seq(PatchOps) /\ Stacks(t)
  BY DEF Good, Grounded, Sessions, Ledger, Books
<1>1. /\ R \in Seq(Nat) /\ Injective(R) /\ ~On(R, r)
      /\ \A x : On(R, x) => On(t.redo, x)
      /\ On(t.redo, r) /\ r \in Nat
  BY <1>0, PopFacts DEF Stacks
<1>2. /\ Injective(t.undo) /\ ~On(t.undo, r) /\ \A x : ~(On(t.undo, x) /\ On(t.redo, x))
      /\ \A x : OnStack(t, x) => Stackable(t, x)
  BY <1>0, <1>1 DEF Stacks, Stackable
<1>3. OnStack(t, r) /\ r \in 1..Len(t.recs) BY <1>1, <1>2 DEF OnStack, Stackable
<1>4. p \in PatchOps
  <2>1. t.recs[r] \in PatchOps BY <1>0, <1>3
  <2> QED BY <2>1
<1>5. [t EXCEPT !.redo = Front(@)] = d BY <1>0 DEF Sessions
<1>6. u = d \/ (t.doc[p.key] = p.old /\ u = [ran EXCEPT !.undo = Append(@, r)])
  BY <1>5 DEF ReplayOn
<1> HIDE DEF R, u, r
<1>7. /\ d \in Sessions /\ Ledger(d, l, Z) /\ d.pump = t.pump /\ d.doc = t.doc
      /\ d.recs = t.recs /\ d.undo = t.undo /\ d.redo = R
  <2>1. d = Trimmed(t, t.undo, R) BY DEF Trimmed
  <2>2. Trims(t.undo, t.undo) /\ Trims(R, t.redo) BY <1>0, <1>1, <1>2 DEF Trims
  <2> HIDE DEF d
  <2> QED BY <1>0, <2>1, <2>2, DiscardLedger
<1>8. \A x : Stackable(t, x) => Stackable(d, x)
  <2>1. d.pending = t.pending /\ d.fate = t.fate BY <1>0 DEF Sessions
  <2> QED BY <1>7, <2>1 DEF Stackable
<1> HIDE DEF d
<1>9. CASE u = d BY <1>7, <1>9 DEF SameTrip, u
<1>10. CASE t.doc[p.key] = p.old /\ u = [ran EXCEPT !.undo = Append(@, r)]
  <2>1. SessionPatch(Wire(p)) \in Invocations BY <1>4, SessionPatchType
  <2> HIDE DEF p
  <2>2. ran \in Sessions /\ ran.undo = t.undo /\ ran.redo = R
    <3>1. ran = Run(d, SessionPatch(Wire(p)), "redo", r) /\ "redo" \in Origins BY DEF Origins
    <3> HIDE DEF ran
    <3> QED BY <1>1, <1>7, <2>1, <3>1, RunShape
  <2>3. u = e BY <1>10, <2>2
  <2>4. /\ U \in Seq(Nat) /\ Injective(U) /\ \A x : On(U, x) => On(t.undo, x) \/ x = r
    BY <1>0, <1>1, <1>2, PushFacts
  <2> HIDE DEF ran, U
  <2>5. /\ e.pump = ran.pump /\ e.pending = ran.pending /\ e.fate = ran.fate
        /\ e.recs = ran.recs /\ e.opCounter = ran.opCounter
        /\ e.confirmedRevision = ran.confirmedRevision /\ e.undo = U /\ e.redo = R
    BY <2>2, <2>4 DEF Sessions
  <2> HIDE DEF e
  <2>6. SameQueue(e, ran) BY <2>5 DEF SameQueue, SameTrip
  <2>7. Restacked(e, d)
    <3>1. \A x : ~(On(U, x) /\ On(R, x)) BY <1>1, <1>2, <2>4
    <3>2. \A x : On(U, x) \/ On(R, x) => Stackable(d, x)
      BY <1>1, <1>2, <1>3, <1>8, <2>4 DEF OnStack
    <3> QED BY <1>1, <2>4, <2>5, <3>1, <3>2 DEF Restacked, OnStack
  <2>8. p = (IF "redo" = "undo" THEN Invert(d.recs[r]) ELSE d.recs[r]) BY <1>7 DEF p
  <2>9. /\ d.doc[p.key] = p.old /\ r \in 1..Len(d.recs)
        /\ ran = Run(d, SessionPatch(Wire(p)), "redo", r) /\ "redo" \in Origins
    BY <1>3, <1>7, <1>10 DEF ran, Origins
  <2>10. Ledger(e, l, Z) /\ SameTrip(e, d)
    BY <1>4, <1>7, <2>6, <2>7, <2>8, <2>9, ReplayLedger
  <2>11. SameTrip(e, t) BY <1>7, <2>10 DEF SameTrip
  <2> QED BY <2>3, <2>10, <2>11 DEF u
<1> QED BY <1>6, <1>9, <1>10

(***************************************************************************)
(* Publishing, closing, and the answers of the server touch no books.      *)
(***************************************************************************)
LEMMA PublishKeeps ==
  ASSUME NEW t \in Sessions, NEW l
  PROVE  /\ Keeps(PublishOn(t), t, l)
         /\ \A ok \in BOOLEAN : Keeps(PublishedOn(t, ok), t, l)
         /\ Keeps(CloseOn(t), t, l) /\ Keeps(CloseOn(PublishOn(t)), t, l)
<1> DEFINE a == PublishOn(t)
<1>1. a = t \/ \E x : a = [t EXCEPT !.pub = x] BY DEF PublishOn
<1>2. SameBooks(a, t) /\ a.pump = t.pump /\ DOMAIN a = DOMAIN t BY <1>1 DEF Sessions, SameBooks
<1> HIDE DEF a
<1>3. Keeps(a, t, l)
  <2>1. SameTrip(a, t) BY <1>2 DEF SameTrip
  <2> QED BY <1>2, <2>1, BooksKeep
<1>4. ASSUME NEW ok \in BOOLEAN PROVE Keeps(PublishedOn(t, ok), t, l)
  <2> DEFINE u == PublishedOn(t, ok)
             pc == IF ok THEN "ready" ELSE "delay"
             pump == IF t.pump.pc # "publish" THEN t.pump ELSE PumpAt(pc)
  <2>1. u = [t EXCEPT !.pub = NoPublication, !.pump = pump] BY DEF PublishedOn, Sessions
  <2>2. pump = t.pump \/ pump.pc # "post" BY DEF PumpAt
  <2> HIDE DEF pump, u
  <2>3. SameBooks(u, t) /\ u.pump = pump BY <2>1 DEF Sessions, SameBooks
  <2>4. SameTrip(u, t) BY <2>2, <2>3 DEF SameTrip
  <2>5. Keeps(u, t, l) BY <2>3, <2>4, BooksKeep
  <2> QED BY <2>5 DEF u
<1>5. ASSUME NEW b \in {t, a} PROVE Keeps(CloseOn(b), t, l)
  <2>0. SameBooks(b, t) /\ b.pump = t.pump /\ DOMAIN b = DOMAIN t BY <1>2 DEF SameBooks
  <2> DEFINE u == CloseOn(b)
  <2>1. SameBooks(u, b) /\ u.pump = b.pump BY <2>0 DEF CloseOn, Sessions, SameBooks
  <2> HIDE DEF u
  <2>2. SameBooks(u, t) /\ SameTrip(u, t) BY <2>0, <2>1 DEF SameBooks, SameTrip
  <2>3. Keeps(u, t, l) BY <2>2, BooksKeep
  <2> QED BY <2>3 DEF u
<1> QED BY <1>3, <1>4, <1>5 DEF a

(***************************************************************************)
(* An answer waits in the session until its next turn.                     *)
(***************************************************************************)
LEMMA AnswerBooks ==
  ASSUME IInv, ServerStep \/ RefusePost \/ MangleReply \/ ManglePage
  PROVE  SameBooks(s', s) /\ s'.pump.pc = s.pump.pc /\ s'.pump.req = s.pump.req
<1>0. s \in Sessions /\ s.pump \in Pumps /\ s.sync \in Syncs /\ s.pub \in Publications BY Here
<1>1. CASE \E p : s' = [s EXCEPT !.pump = p] /\ p.pc = s.pump.pc /\ p.req = s.pump.req
  BY <1>0, <1>1 DEF Sessions, SameBooks
<1>2. CASE ServePost \/ RefusePost \/ MangleReply
  <2>1. \/ \E x : s' = [s EXCEPT !.pump.reply = x]
        \/ \E x : s' = [s EXCEPT !.pump.reply.kind = x]
    BY <1>2 DEF ServePost, RefusePost, MangleReply
  <2>2. ASSUME NEW x PROVE /\ [s.pump EXCEPT !.reply = x].pc = s.pump.pc
                           /\ [s.pump EXCEPT !.reply = x].req = s.pump.req
    BY <1>0 DEF Pumps
  <2>3. CASE \E x : s' = [s EXCEPT !.pump.reply = x]
    <3>1. PICK x : s' = [s EXCEPT !.pump.reply = x] BY <2>3
    <3>2. s' = [s EXCEPT !.pump = [s.pump EXCEPT !.reply = x]] BY <3>1
    <3> QED BY <1>1, <2>2, <3>2
  <2>4. CASE \E x : s' = [s EXCEPT !.pump.reply.kind = x]
    <3>1. PICK x : s' = [s EXCEPT !.pump.reply.kind = x] BY <2>4
    <3>2. s' = [s EXCEPT !.pump = [s.pump EXCEPT !.reply = [s.pump.reply EXCEPT !.kind = x]]]
      BY <3>1
    <3> QED BY <1>1, <2>2, <3>2
  <2> QED BY <2>1, <2>3, <2>4
<1>3. CASE ServeSync \/ ManglePage
  <2>1. PICK x : s' = [s EXCEPT !.sync = x]
    <3>1. PICK x : s' = [s EXCEPT !.sync = [s.sync EXCEPT !.reply = x]]
      BY <1>3 DEF ServeSync, ManglePage
    <3> QED BY <3>1
  <2> QED BY <1>0, <2>1 DEF Sessions, SameBooks
<1>4. CASE ServePut
  <2>1. PICK x : s' = [s EXCEPT !.pub = x] BY <1>4 DEF ServePut
  <2> QED BY <1>0, <2>1 DEF Sessions, SameBooks
<1> QED BY <1>2, <1>3, <1>4 DEF ServerStep

(***************************************************************************)
(* The server commits: an operation of another participant, or one of the  *)
(* requests on their way, which is then the only commit of its intention.  *)
(***************************************************************************)
Asked(op, l, Z) ==
  \/ op.actor # Me /\ op.intent = 0
  \/ op.actor = Me /\ \E q \in Z : q.opId = op.opId /\ q.intent = op.intent /\ q.base = Len(l)

(***************************************************************************)
(* Such a commit keeps log and ledger.                                     *)
(***************************************************************************)
LEMMA CommitLedger ==
  ASSUME NEW l \in Seq(ServerOps), Honest(l), NEW t \in Sessions, NEW Z, Z \subseteq Requests,
         Ledger(t, l, Z), t.confirmedRevision <= Len(l), NEW op \in ServerOps, Asked(op, l, Z),
         NEW m, m = Append(l, op)
  PROVE  Honest(m) /\ Ledger(t, m, Z)
<1>0. Len(l) \in Nat /\ t.confirmedRevision \in Nat BY DEF Sessions
<1>1. /\ Len(m) = Len(l) + 1 /\ m[Len(l) + 1] = op
      /\ \A r \in 1..Len(l) : m[r] = l[r]
      /\ \A r \in 1..Len(m) : r \in 1..Len(l) \/ r = Len(l) + 1
  OBVIOUS
<1>2. /\ Queue(t) /\ Minting(t, l, Z) /\ Heads(t) /\ Unseen(t, l) /\ Ahead(t, l, Z) /\ Kept(t, l)
      /\ Books(t)
  BY DEF Ledger, Tally, Books
<1>3. \A q \in Z : q.base \in Nat BY DEF Requests
<1>4. ASSUME op.actor = Me
      PROVE  \E q \in Z : q.opId = op.opId /\ q.intent = op.intent /\ q.base = Len(l)
  BY <1>4 DEF Asked
<1>5. op.intent = 0 \/ op.actor = Me BY DEF Asked
<1>6. \A r \in 1..Len(l) : l[r].intent = op.intent => op.intent = 0
  <2> SUFFICES ASSUME NEW r \in 1..Len(l), l[r].intent = op.intent, op.intent # 0 PROVE FALSE
    OBVIOUS
  <2>1. PICK q \in Z : q.opId = op.opId /\ q.intent = op.intent /\ q.base = Len(l) BY <1>4, <1>5
  <2>2. q.base < r BY <1>2, <2>1 DEF Ahead
  <2> QED BY <1>0, <2>1, <2>2
<1>7. Honest(m)
  <2>1. \A r \in 1..Len(m) : m[r].actor = Me \/ m[r].intent = 0 BY <1>1, <1>5 DEF Honest
  <2>2. ASSUME NEW q \in 1..Len(m), NEW r \in 1..Len(m), m[q].intent = m[r].intent, m[q].intent # 0
        PROVE  q = r
    <3>1. CASE q \in 1..Len(l) /\ r \in 1..Len(l) BY <1>1, <2>2, <3>1 DEF Honest
    <3>2. CASE q \in 1..Len(l) /\ r = Len(l) + 1 BY <1>1, <1>6, <2>2, <3>2
    <3>3. CASE q = Len(l) + 1 /\ r \in 1..Len(l) BY <1>1, <1>6, <2>2, <3>3
    <3> QED BY <1>1, <3>1, <3>2, <3>3
  <2> QED BY <2>1, <2>2 DEF Honest
<1>8. Minting(t, m, Z)
  <2>1. ASSUME NEW k, NEW i, Sent(m, Z, k, i) PROVE Sent(l, Z, k, i)
    <3>1. CASE \E q \in Z : q.opId = k /\ q.intent = i BY <3>1 DEF Sent
    <3>2. CASE \E r \in 1..Len(m) : m[r].actor = Me /\ m[r].opId = k /\ m[r].intent = i
      <4>1. PICK r \in 1..Len(m) : m[r].actor = Me /\ m[r].opId = k /\ m[r].intent = i BY <3>2
      <4>2. CASE r \in 1..Len(l) BY <1>1, <4>1, <4>2 DEF Sent
      <4>3. CASE r = Len(l) + 1
        <5>1. op.actor = Me /\ op.opId = k /\ op.intent = i BY <1>1, <4>1, <4>3
        <5> QED BY <1>4, <5>1 DEF Sent
      <4> QED BY <1>1, <4>2, <4>3
    <3> QED BY <2>1, <3>1, <3>2 DEF Sent
  <2> QED BY <1>2, <2>1 DEF Minting
<1>9. Unseen(t, m)
  <2> SUFFICES ASSUME NEW j \in 1..Len(t.pending), NEW r \in 1..Len(m),
                      m[r].intent = t.pending[j].intent
               PROVE  r > t.confirmedRevision /\ Remembers(t.pending[j], m[r].opId, r - 1)
    BY DEF Unseen
  <2>1. CASE r \in 1..Len(l) BY <1>1, <1>2, <2>1 DEF Unseen
  <2>2. CASE r = Len(l) + 1
    <3>1. m[r] = op /\ op.intent = t.pending[j].intent BY <1>1, <2>2
    <3>2. op.intent # 0 BY <1>2, <3>1 DEF Queue
    <3>3. PICK q \in Z : q.opId = op.opId /\ q.intent = op.intent /\ q.base = Len(l)
      BY <1>4, <1>5, <3>2
    <3>4. Remembers(t.pending[j], q.opId, q.base) BY <1>2, <3>1, <3>3 DEF Ahead
    <3>5. r > t.confirmedRevision /\ r - 1 = q.base BY <1>0, <2>2, <3>3
    <3> QED BY <3>1, <3>3, <3>4, <3>5
  <2> QED BY <1>1, <2>1, <2>2
<1>10. Ahead(t, m, Z)
  <2> SUFFICES ASSUME NEW q \in Z
               PROVE  /\ q.base <= Len(m) /\ q.base # Len(m)
                      /\ \A r \in 1..Len(m) : m[r].intent = q.intent => q.base < r
    BY DEF Ahead
  <2>1. q.base \in Nat /\ q.base <= Len(l) BY <1>2, <1>3 DEF Ahead
  <2>2. \A r \in 1..Len(l) : m[r].intent = q.intent => q.base < r BY <1>1, <1>2 DEF Ahead
  <2>3. q.base < Len(l) + 1 BY <1>0, <2>1
  <2> QED BY <1>0, <1>1, <2>1, <2>2, <2>3
<1>11. Kept(t, m)
  <2>1. \A x : Logged(l, x) => Logged(m, x) BY <1>0, <1>1 DEF Logged
  <2> QED BY <1>2, <2>1 DEF Kept
<1> QED BY <1>2, <1>7, <1>8, <1>9, <1>10, <1>11 DEF Ledger, Tally

-----------------------------------------------------------------------------
(***************************************************************************)
(* The ledger is kept by every step.                                       *)
(***************************************************************************)
LedgerInv == IInv /\ Honest(log) /\ Ledger(s, log, Travelling(s, zombies))

(***************************************************************************)
(* What is on its way are requests.                                        *)
(***************************************************************************)
LEMMA TravellingType == ASSUME IInv PROVE Travelling(s, zombies) \subseteq Requests
<1>1. s.pump \in Pumps /\ zombies \subseteq Requests BY Here DEF IInv
<1>2. s.pump.pc = "post" => s.pump.req \in Requests BY <1>1 DEF Pumps
<1> QED BY <1>1, <1>2 DEF Travelling

(***************************************************************************)
(* A commit of one of the requests on their way, or of another             *)
(* participant.                                                            *)
(***************************************************************************)
LEMMA CommitInLedger ==
  ASSUME LedgerInv, NEW actor \in {Me, Peer}, NEW opId \in Nat, NEW patch \in WirePatches,
         NEW intent \in Nat, NEW origin \in Origins \cup {"remote"},
         Commit(actor, opId, patch, intent, origin),
         \/ actor = Peer /\ intent = 0
         \/ \E q \in Travelling(s, zombies) :
              actor = Me /\ q.opId = opId /\ q.intent = intent /\ q.base = Tip
  PROVE  Honest(log') /\ Ledger(s, log', Travelling(s, zombies))
<1> DEFINE op == [actor |-> actor, opId |-> opId, base |-> Tip, patch |-> patch,
                  intent |-> intent, origin |-> origin]
           Z == Travelling(s, zombies)
<1>1. /\ IInv /\ Honest(log) /\ Ledger(s, log, Z) BY DEF LedgerInv
<1>2. /\ Tip \in Nat /\ s \in Sessions /\ log \in Seq(ServerOps) /\ Tip = Len(log)
      /\ s.confirmedRevision <= Len(log)
  BY <1>1, Here DEF ServerOK, Tip, Good, Grounded
<1>3. op \in ServerOps BY <1>2 DEF ServerOps
<1>4. log' = Append(log, op) BY DEF Commit
<1>5. op.actor = actor /\ op.opId = opId /\ op.intent = intent OBVIOUS
<1>6. Z \subseteq Requests BY <1>1, TravellingType
<1> HIDE DEF op
<1>7. Asked(op, log, Z)
  <2>1. CASE actor = Peer /\ intent = 0 BY <1>5, <2>1 DEF Asked, Me, Peer
  <2>2. CASE \E q \in Z : actor = Me /\ q.opId = opId /\ q.intent = intent /\ q.base = Tip
    BY <1>2, <1>5, <2>2 DEF Asked
  <2> QED BY <2>1, <2>2
<1> HIDE DEF Z
<1>8. Honest(log') /\ Ledger(s, log', Z) BY <1>1, <1>2, <1>3, <1>4, <1>6, <1>7, CommitLedger
<1> QED BY <1>8 DEF Z

(***************************************************************************)
(* An answer of the server, with the commit it may stand for.              *)
(***************************************************************************)
LEMMA ServerLedger ==
  ASSUME LedgerInv, ServerStep \/ RefusePost \/ MangleReply \/ ManglePage
  PROVE  Honest(log') /\ Ledger(s', log', Travelling(s', zombies'))
<1>1. /\ IInv /\ Honest(log) /\ Ledger(s, log, Travelling(s, zombies)) BY DEF LedgerInv
<1>2. SameBooks(s', s) /\ s'.pump.pc = s.pump.pc /\ s'.pump.req = s.pump.req
  BY <1>1, AnswerBooks
<1>3. zombies' = zombies
  BY DEF ServerStep, ServePost, ServeSync, ServePut, RefusePost, MangleReply, ManglePage,
         serverVars, netVars
<1>4. Travelling(s', zombies') = Travelling(s, zombies) BY <1>2, <1>3 DEF Travelling
<1>5. Honest(log') /\ Ledger(s, log', Travelling(s, zombies))
  <2>1. CASE log' = log BY <1>1, <2>1
  <2>2. CASE ServePost
    <3> DEFINE req == s.pump.req
    <3>1. s.pump.pc = "post" BY <2>2 DEF ServePost, AwaitingPost
    <3>2. req \in Travelling(s, zombies) BY <3>1 DEF Travelling
    <3>3. req \in Requests BY <1>1, <3>2, TravellingType
    <3>4. CASE Acceptable(req) /\ Commit(Me, req.opId, req.patch, req.intent, req.origin)
      <4>1. req.base = Tip BY <3>4 DEF Acceptable
      <4>2. /\ req.opId \in Nat /\ req.patch \in WirePatches /\ req.intent \in Nat
            /\ req.origin \in Origins \cup {"remote"}
        BY <3>3 DEF Requests
      <4> QED BY <3>2, <3>4, <4>1, <4>2, CommitInLedger
    <3> QED BY <2>1, <2>2, <3>4 DEF ServePost, serverVars
  <2>3. CASE ServeSync \/ ServePut \/ RefusePost \/ MangleReply \/ ManglePage
    BY <2>1, <2>3 DEF ServeSync, ServePut, RefusePost, MangleReply, ManglePage, serverVars
  <2> QED BY <2>2, <2>3 DEF ServerStep
<1>6. Ledger(s', log', Travelling(s, zombies)) BY <1>2, <1>5, QuietLedger
<1> QED BY <1>4, <1>5, <1>6

(***************************************************************************)
(* What happens outside the session: late requests, other participants,    *)
(* and the stream.                                                         *)
(***************************************************************************)
LEMMA OutsideLedger ==
  ASSUME LedgerInv,
         \/ ServeZombie \/ PeerStep \/ StreamDrop \/ StreamMismatch \/ GarbageFrame \/ StreamOpen
  PROVE  Honest(log') /\ Ledger(s', log', Travelling(s', zombies'))
<1>1. /\ IInv /\ Honest(log) /\ Ledger(s, log, Travelling(s, zombies)) BY DEF LedgerInv
<1>2. s' = s /\ zombies' \subseteq zombies
  BY DEF ServeZombie, PeerStep, ForeignOp, ForeignCheckpoint, Compact, DeleteSession, StreamDrop,
         StreamMismatch, GarbageFrame, StreamOpen, serverVars, netVars
<1>3. Travelling(s', zombies') \subseteq Travelling(s, zombies) BY <1>2 DEF Travelling
<1>4. SameBooks(s', s) BY <1>2 DEF SameBooks
<1>5. Honest(log') /\ Ledger(s, log', Travelling(s, zombies))
  <2>1. CASE log' = log BY <1>1, <2>1
  <2>2. CASE ServeZombie
    <3>1. PICK z \in zombies :
            \/ Acceptable(z) /\ Commit(Me, z.opId, z.patch, z.intent, z.origin)
            \/ log' = log
      BY <2>2 DEF ServeZombie, serverVars
    <3>2. z \in Travelling(s, zombies) BY DEF Travelling
    <3>3. z \in Requests BY <1>1, <3>2, TravellingType
    <3>4. CASE Acceptable(z) /\ Commit(Me, z.opId, z.patch, z.intent, z.origin)
      <4>1. z.base = Tip BY <3>4 DEF Acceptable
      <4>2. /\ z.opId \in Nat /\ z.patch \in WirePatches /\ z.intent \in Nat
            /\ z.origin \in Origins \cup {"remote"}
        BY <3>3 DEF Requests
      <4> QED BY <3>2, <3>4, <4>1, <4>2, CommitInLedger
    <3> QED BY <2>1, <3>1, <3>4
  <2>3. CASE ForeignOp
    <3>1. PICK c \in Commands :
            Commit(Peer, 0, Wire(Forward(docs[Tip], c)), 0, "remote")
      BY <2>3 DEF ForeignOp
    <3>2. docs[Tip] \in Docs BY <1>1, Here DEF ServerOK, Tip
    <3>3. c \in Invocations BY CommandsAreInvocations
    <3>4. Wire(Forward(docs[Tip], c)) \in WirePatches BY <3>2, <3>3, ForwardFits
    <3> QED BY <3>1, <3>4, CommitInLedger
  <2>4. CASE \/ ForeignCheckpoint \/ Compact \/ DeleteSession \/ StreamDrop \/ GarbageFrame
             \/ StreamMismatch \/ StreamOpen
    BY <2>1, <2>4
       DEF ForeignCheckpoint, Compact, DeleteSession, StreamDrop, StreamMismatch, GarbageFrame,
           StreamOpen, serverVars
  <2> QED BY <2>2, <2>3, <2>4 DEF PeerStep
<1>6. Ledger(s', log', Travelling(s', zombies')) BY <1>3, <1>4, <1>5, QuietLedger
<1> QED BY <1>5, <1>6

(***************************************************************************)
(* A turn of the session that keeps the ledger whatever is on its way.     *)
(***************************************************************************)
LEMMA KeepsLedger ==
  ASSUME LedgerInv, log' = log, zombies' = zombies, Keeps(s', s, log)
  PROVE  Honest(log') /\ Ledger(s', log', Travelling(s', zombies'))
<1>1. Ledger(s, log, Travelling(s, zombies)) /\ Honest(log) BY DEF LedgerInv
<1>2. Ledger(s', log, Travelling(s', zombies)) BY <1>1, KeptTrip
<1> QED BY <1>1, <1>2

(***************************************************************************)
(* The user's calls.                                                       *)
(***************************************************************************)
LEMMA UserLedger ==
  ASSUME LedgerInv, UserStep
  PROVE  Honest(log') /\ Ledger(s', log', Travelling(s', zombies'))
<1> DEFINE Z == Travelling(s, zombies)
<1>0. /\ Tip \in Nat /\ s \in Sessions /\ Good(s, Tip, docs)
      /\ Honest(log) /\ Ledger(s, log, Z)
  BY Here DEF LedgerInv
<1>1. log' = log /\ zombies' = zombies
  BY DEF UserStep, Dispatch, Undo, Redo, ClearHistory, Close, serverVars, netVars
<1>2. ASSUME Ledger(s', log, Z), SameTrip(s', s)
      PROVE  Ledger(s', log', Travelling(s', zombies'))
  <2>1. Travelling(s', zombies') \subseteq Z BY <1>1, <1>2 DEF Travelling, SameTrip
  <2>2. SameBooks(s', s') BY DEF SameBooks
  <2> HIDE DEF Z
  <2> QED BY <1>1, <1>2, <2>1, <2>2, QuietLedger
<1> HIDE DEF Z
<1>3. CASE Dispatch
  <2>1. PICK c \in Commands : s' = DispatchOn(s, c) BY <1>3 DEF Dispatch
  <2>2. c \in Invocations BY CommandsAreInvocations
  <2>3. Ledger(DispatchOn(s, c), log, Z) /\ SameTrip(DispatchOn(s, c), s)
    BY <1>0, <2>2, DispatchLedger
  <2> QED BY <1>0, <1>1, <1>2, <2>1, <2>3
<1>4. CASE Undo
  <2>1. s.undo # <<>> /\ s' = ReplayOn(s, "undo", "redo", "undo") BY <1>4 DEF Undo
  <2>2. Ledger(s', log, Z) /\ SameTrip(s', s) BY <1>0, <2>1, UndoLedger
  <2> QED BY <1>0, <1>1, <1>2, <2>2
<1>5. CASE Redo
  <2>1. s.redo # <<>> /\ s' = ReplayOn(s, "redo", "undo", "redo") BY <1>5 DEF Redo
  <2>2. Ledger(s', log, Z) /\ SameTrip(s', s) BY <1>0, <2>1, RedoLedger
  <2> QED BY <1>0, <1>1, <1>2, <2>2
<1>6. CASE ClearHistory
  <2>1. s' = Trimmed(s, <<>>, <<>>) BY <1>6 DEF ClearHistory, Trimmed
  <2>2. Trims(<<>>, s.undo) /\ Trims(<<>>, s.redo)
    <3>1. <<>> \in Seq(Nat) /\ Len(<<>>) = 0 OBVIOUS
    <3> QED BY <3>1 DEF Trims, Injective, On
  <2>3. Ledger(s', log, Z) /\ s'.pump = s.pump BY <1>0, <2>1, <2>2, DiscardLedger
  <2>4. SameTrip(s', s) BY <2>3 DEF SameTrip
  <2> QED BY <1>0, <1>1, <1>2, <2>3, <2>4
<1>7. CASE Close
  <2>1. s' = CloseOn(s) \/ s' = CloseOn(PublishOn(s)) BY <1>7 DEF Close
  <2>2. Keeps(s', s, log) BY <1>0, <2>1, PublishKeeps
  <2> QED BY <1>1, <2>2, KeepsLedger
<1> QED BY <1>3, <1>4, <1>5, <1>6, <1>7 DEF UserStep

(***************************************************************************)
(* The session's own turns, the frames it is delivered and the failures of *)
(* what it waits for.                                                      *)
(***************************************************************************)
LEMMA TurnLedger ==
  ASSUME LedgerInv,
         SessionStep \/ Deliver \/ PumpError \/ SyncError \/ PublishError
  PROVE  Honest(log') /\ Ledger(s', log', Travelling(s', zombies'))
<1> DEFINE Z == Travelling(s, zombies)
<1>0. /\ IInv /\ Tip \in Nat /\ s \in Sessions /\ Good(s, Tip, docs)
      /\ Honest(log) /\ Ledger(s, log, Z)
  BY Here DEF LedgerInv
<1>1. log' = log
  BY DEF SessionStep, PumpStart, PumpReply, PumpDelayOver, PumpEnd, SyncReply, SyncDelayOver,
         SyncEnd, PublishPeriodic, PublishReply, Deliver, PumpError, SyncError, PublishError,
         serverVars
<1>2. CASE PumpError
  <2>1. Ledger(s', log, Travelling(s', zombies')) BY <1>0, <1>2, PumpErrorLedger
  <2> QED BY <1>0, <1>1, <2>1
<1>3. ASSUME SessionStep \/ Deliver \/ SyncError \/ PublishError PROVE zombies' = zombies
  BY <1>3
     DEF SessionStep, PumpStart, PumpReply, PumpDelayOver, PumpEnd, SyncReply, SyncDelayOver,
         SyncEnd, PublishPeriodic, PublishReply, Deliver, SyncError, PublishError, netVars
<1>4. CASE PumpStart \/ PumpDelayOver
  <2>1. s' = PumpTop(s) /\ zombies' = zombies
    BY <1>3, <1>4 DEF PumpStart, PumpDelayOver, SessionStep
  <2>2. zombies \subseteq Z /\ Len(log) \in Nat /\ s.confirmedRevision <= Len(log)
    BY <1>0 DEF Travelling, Tip, Good, Grounded
  <2> HIDE DEF Z
  <2>3. Ledger(PumpTop(s), log, Travelling(PumpTop(s), zombies)) BY <1>0, <2>2, PumpTopLedger
  <2> QED BY <1>0, <1>1, <2>1, <2>3
<1>5. CASE PumpReply
  <2>1. zombies' = zombies BY <1>3, <1>5 DEF SessionStep
  <2>2. Ledger(s', log, Travelling(s', zombies)) BY <1>0, <1>5, PumpReplyLedger
  <2> QED BY <1>0, <1>1, <2>1, <2>2
<1>6. ASSUME zombies' = zombies, Keeps(s', s, log)
      PROVE  Honest(log') /\ Ledger(s', log', Travelling(s', zombies'))
  BY <1>1, <1>6, KeepsLedger
<1>7. CASE PumpEnd \/ SyncDelayOver \/ SyncEnd \/ SyncError
  <2>1. zombies' = zombies BY <1>3, <1>7 DEF SessionStep
  <2>2. s' \in {PumpFinally(s), SyncTop(s), SyncFinally(s),
                [Fail(s) EXCEPT !.sync = SyncAt("exit", 0)]}
    BY <1>7 DEF PumpEnd, SyncDelayOver, SyncEnd, SyncError
  <2>3. Keeps(s', s, log) BY <1>0, <2>2, TurnsKeep
  <2> QED BY <1>6, <2>1, <2>3
<1>8. CASE SyncReply
  <2>1. zombies' = zombies BY <1>3, <1>8 DEF SessionStep
  <2>2. Keeps(s', s, log) BY <1>0, <1>8, SyncReplyLedger
  <2> QED BY <1>6, <2>1, <2>2
<1>9. CASE PublishPeriodic \/ PublishReply \/ PublishError
  <2>1. zombies' = zombies BY <1>3, <1>9 DEF SessionStep
  <2>2. s' \in {PublishOn(s), PublishedOn(s, TRUE), PublishedOn(s, FALSE)}
    BY <1>9 DEF PublishPeriodic, PublishReply, PublishError
  <2>3. Keeps(s', s, log) BY <1>0, <2>2, PublishKeeps
  <2> QED BY <1>6, <2>1, <2>3
<1>10. CASE Deliver
  <2>1. zombies' = zombies BY <1>3, <1>10
  <2>2. ws # <<>> /\ s' = HandleEvent(s, ws[1]) BY <1>10 DEF Deliver
  <2>3. ws[1] \in Frames /\ ws[1].rev <= Tip /\ (ws[1].kind = "op" => ws[1].rev >= 1)
    BY <1>0, <2>2 DEF IInv
  <2>4. Keeps(s', s, log) BY <1>0, <2>2, <2>3, EventKeeps
  <2> QED BY <1>6, <2>1, <2>4
<1> QED BY <1>2, <1>4, <1>5, <1>7, <1>8, <1>9, <1>10 DEF SessionStep

(***************************************************************************)
(* Every step keeps the ledger.                                            *)
(***************************************************************************)
LEMMA LedgerKeeps == ASSUME LedgerInv, [Next]_vars PROVE LedgerInv'
<1>1. IInv' BY NextKeeps DEF LedgerInv
<1> SUFFICES Honest(log') /\ Ledger(s', log', Travelling(s', zombies'))
  BY <1>1 DEF LedgerInv
<1>2. CASE UNCHANGED vars
  <2>1. log' = log /\ zombies' = zombies /\ s' = s BY <1>2 DEF vars, serverVars, netVars
  <2>2. Honest(log) /\ Ledger(s, log, Travelling(s, zombies)) BY DEF LedgerInv
  <2> QED BY <2>1, <2>2
<1>3. CASE FaultStep BY <1>3, ServerLedger, OutsideLedger, TurnLedger DEF FaultStep
<1>4. CASE Next BY <1>3, <1>4, ServerLedger, OutsideLedger, TurnLedger, UserLedger DEF Next
<1> QED BY <1>2, <1>4

(***************************************************************************)
(* A new session holds nothing and nothing is held of it.                  *)
(***************************************************************************)
LEMMA LedgerStarts == ASSUME Init PROVE LedgerInv
<1>1. IInv BY InitKeeps
<1>2. /\ log = <<>> /\ zombies = {} /\ s.pending = <<>> /\ s.recs = <<>> /\ s.fate = <<>>
      /\ s.undo = <<>> /\ s.redo = <<>> /\ s.pump = PumpAt("idle")
  BY DEF Init, NewSession
<1>3. PumpAt("idle").pc = "idle" BY DEF PumpAt
<1>4. Travelling(s, zombies) = {} BY <1>2, <1>3 DEF Travelling
<1>5. Len(log) = 0 /\ Len(s.pending) = 0 /\ Len(s.recs) = 0 /\ Len(s.fate) = 0
      /\ Len(s.undo) = 0 /\ Len(s.redo) = 0
  BY <1>2
<1>6. Honest(log) BY <1>5 DEF Honest
<1>7. Books(s) BY <1>5 DEF Books, Queue, Stacks, Injective, OnStack, On, Recorded
<1>8. Minting(s, log, {}) BY <1>5 DEF Minting, Sent, Held
<1>9. Heads(s) BY <1>2, <1>5 DEF Heads
<1>10. Unseen(s, log) /\ Ahead(s, log, {}) /\ Kept(s, log) BY <1>5 DEF Unseen, Ahead, Kept
<1> QED BY <1>1, <1>4, <1>6, <1>7, <1>8, <1>9, <1>10 DEF LedgerInv, Ledger, Tally

(***************************************************************************)
(* The history record tied to a queued intention is the record of its      *)
(* latest re-execution, mirrored for an undo, and no record of a dropped   *)
(* intention can be undone or redone.                                      *)
(***************************************************************************)
THEOREM HistoryCorrect == Spec => []HistoryFollowsPending
<1>1. LedgerInv => HistoryFollowsPending
  <2> SUFFICES ASSUME LedgerInv PROVE HistoryFollowsPending
    OBVIOUS
  <2>1. s \in Sessions /\ Stacks(s) /\ Recorded(s) BY Here DEF LedgerInv, Ledger, Books
  <2>2. DOMAIN s.pending = 1..Len(s.pending) /\ DOMAIN s.undo = 1..Len(s.undo)
        /\ DOMAIN s.redo = 1..Len(s.redo)
    BY <2>1 DEF Sessions
  <2>3. ASSUME NEW i \in DOMAIN s.pending,
               \A j \in DOMAIN s.pending : j > i => s.pending[j].rec # s.pending[i].rec
        PROVE  s.pending[i].predicted =
                 Wire(IF s.pending[i].origin = "undo" THEN Invert(s.recs[s.pending[i].rec])
                      ELSE s.recs[s.pending[i].rec])
    BY <2>1, <2>2, <2>3 DEF Recorded, Superseded, Mirror
  <2>4. \A i \in DOMAIN s.undo : s.fate[s.undo[i]] = "open"
    BY <2>1, <2>2 DEF Stacks, OnStack, On
  <2>5. \A i \in DOMAIN s.redo : s.fate[s.redo[i]] = "open"
    BY <2>1, <2>2 DEF Stacks, OnStack, On
  <2> QED BY <2>3, <2>4, <2>5 DEF HistoryFollowsPending
<1> QED BY <1>1, LedgerStarts, LedgerKeeps, PTL DEF Spec

(***************************************************************************)
(* An intention is committed at most once, through retries, lost answers,  *)
(* reminted opIds, late requests and resynchronisation.                    *)
(***************************************************************************)
THEOREM OnceOnly == Spec => []AtMostOnce
<1>1. LedgerInv => AtMostOnce BY DEF LedgerInv, Honest, AtMostOnce, Tip
<1> QED BY <1>1, LedgerStarts, LedgerKeeps, PTL DEF Spec

(***************************************************************************)
(* No intention disappears silently: one that was not reported as lost is  *)
(* queued or in the log.                                                   *)
(***************************************************************************)
THEOREM NothingLost == Spec => []NothingLostSilently
<1>1. LedgerInv => NothingLostSilently
  <2> SUFFICES ASSUME LedgerInv, NEW i \in DOMAIN s.fate, s.fate[i] = "open"
               PROVE  \/ \E j \in DOMAIN s.pending : s.pending[j].intent = i
                      \/ \E r \in 1..Tip : log[r].intent = i
    BY DEF NothingLostSilently
  <2>1. s \in Sessions /\ Kept(s, log) BY Here DEF LedgerInv, Ledger
  <2>2. DOMAIN s.pending = 1..Len(s.pending) /\ DOMAIN s.fate = 1..Len(s.fate)
    BY <2>1 DEF Sessions
  <2> QED BY <2>1, <2>2 DEF Kept, Queued, Logged, Tip
<1> QED BY <1>1, LedgerStarts, LedgerKeeps, PTL DEF Spec
=============================================================================
