---------------------- MODULE NativeExecutionInvariants ----------------------
(***************************************************************************)
(* What NativeExecutionProofs proves of every state: the types, what makes *)
(* a store sound, and the inductive invariants IInv (nothing is shown that *)
(* is not so), QInv (what is missing will come) and LInv (no log record is *)
(* lost), with the words they are told in.                                 *)
(***************************************************************************)
EXTENDS NativeExecution

-----------------------------------------------------------------------------
(* Types.                                                                  *)

Nodes == {"none", "running"} \cup NodeEnds
Statuses == {"queued", "running"} \cup Terminal
Entries ==
  [status : Statuses, node : Nodes, still : BOOLEAN, ring : SUBSET Slots,
   logs : Seq(Nat), dropped : Nat, heard : SUBSET Nat, hydrated : BOOLEAN,
   lostNote : BOOLEAN, queuedAt : Nat, endedAt : Nat]
Stores ==
  [map : UNION {[S -> Entries] : S \in SUBSET Jobs}, order : Seq(Jobs), lost : SUBSET Jobs,
   pins : [Jobs -> Nat], evicted : Seq(Jobs), unconfirmed : SUBSET Jobs, gone : SUBSET Jobs]

-----------------------------------------------------------------------------
(* A sound store.                                                          *)

(* The logs of an entry: the newest records that reached it, in order, and
   the number of those it had to drop. *)
Ascending(e) == \A a, b \in DOMAIN e.logs : a < b => e.logs[a] < e.logs[b]
Newest(e) ==
  \A n \in e.heard \ ToSet(e.logs) :
    Len(e.logs) = LogCap /\ \A i \in DOMAIN e.logs : n < e.logs[i]
Booked(e) ==
  /\ IsFiniteSet(e.heard) /\ ToSet(e.logs) \subseteq e.heard /\ Len(e.logs) <= LogCap
  /\ Ascending(e) /\ Newest(e)
  /\ e.dropped + Len(e.logs) <= Cardinality(e.heard)

(* The shape of a store: finitely many entries, each in the order. *)
Listed(t) == \A j \in Known(t) : \E i \in 1..Len(t.order) : t.order[i] = j
Formed(t) ==
  /\ t \in Stores /\ IsFiniteSet(Known(t)) /\ Listed(t)
  /\ \A j \in Known(t) : IsFiniteSet(t.map[j].ring) /\ Booked(t.map[j])

(* The two bounds, and that only ends in V are shown as final. *)
Capped(t) == Cardinality(Known(t)) > EntryCap => Evictable(t) = {}
Fits(t) ==
  \/ Cardinality(Frames(t, Budgeted(t))) <= PreviewBudget
  \/ Cardinality(Budgeted(t)) = 1
Truthful(t, V) ==
  \A j \in Known(t) : IsAuthoritativeTerminal(t, j) => <<j, t.map[j].status>> \in V

Sound(t, V) == Formed(t) /\ Fits(t) /\ Truthful(t, V)

(* What an operation that takes t to u may do to a sound store. *)
Keeps(u, t, V) == Sound(u, V) /\ u.lost \subseteq t.lost /\ (Capped(t) => Capped(u))

-----------------------------------------------------------------------------
(* What is shown of one run.                                               *)

(* The node state, "none" also where there is no entry, and whether an end
   is shown that news cannot change. *)
Node(t, j) == IF j \in Known(t) THEN t.map[j].node ELSE "none"
Final(t, j) == j \in Known(t) /\ IsAuthoritativeTerminal(t, j)

(* The log records that reached the entry. *)
Told(t, j) == IF j \in Known(t) THEN t.map[j].heard ELSE {}
Got(t, j, n) == j \in t.gone \/ n \in Told(t, j)

(* From t to u the run j comes to be shown with node state n, and an end
   that was shown of it stays, as do its log records: or it was evicted,
   now or before. *)
Turns(u, t, j, n) ==
  /\ j \in t.gone => j \in u.gone
  /\ \/ j \in u.gone
     \/ /\ j \in ToSet(u.evicted) => j \in ToSet(t.evicted)
        /\ Node(u, j) = n /\ (Final(t, j) => Final(u, j))
        /\ Told(t, j) \subseteq Told(u, j)

Leaves(u, t, j) == Turns(u, t, j, Node(t, j))
Spares(u, t) == \A k : Leaves(u, t, k)

(* An event of j turns j and leaves what is shown of the others.           *)
Shows(u, t, j, n) == Turns(u, t, j, n) /\ \A k : k # j => Leaves(u, t, k)

Finishes(u, j) == j \in u.gone \/ Final(u, j)

-----------------------------------------------------------------------------
(* The preview budget.                                                     *)

(* From t to u no entry holds more frames, and none comes under the budget
   that was not. *)
Milder(u, t) ==
  /\ Budgeted(u) \subseteq Budgeted(t)
  /\ \A k \in Budgeted(u) : Images(u.map[k]) \subseteq Images(t.map[k])

(* From t to u nothing becomes final, and nothing loses its protection. *)
Quieter(u, t) ==
  /\ Known(u) = Known(t)
  /\ \A k \in Known(t) :
       IsAuthoritativeTerminal(u, k) =>
         IsAuthoritativeTerminal(t, k) /\ u.map[k].status = t.map[k].status
  /\ u.unconfirmed \subseteq t.unconfirmed /\ u.pins = t.pins

-----------------------------------------------------------------------------
(* The entry cap.                                                          *)

(* From t to u entries go, and nothing else changes. *)
Fewer(u, t) ==
  /\ Known(u) \subseteq Known(t)
  /\ \A k \in Known(u) : /\ u.map[k] = t.map[k]
                         /\ k \in u.lost <=> k \in t.lost
                         /\ k \in u.unconfirmed <=> k \in t.unconfirmed
  /\ u.lost \subseteq t.lost /\ u.pins = t.pins
  /\ t.gone \subseteq u.gone /\ Known(t) \ Known(u) \subseteq u.gone
  /\ ToSet(u.evicted) \subseteq ToSet(t.evicted) \cup u.gone

-----------------------------------------------------------------------------
(* The client.                                                             *)

States == {"unborn", "none", "queued", "running"} \cup Ended
EndOf == [run_finished |-> "completed", completed |-> "completed",
          failed |-> "error", cancelled |-> "interrupted"]

(* The frames of a stream in which only the runs in V have an end. *)
Messages(V) ==
  {f \in [job : Jobs, kind : {"run_started", "node", "preview", "log"} \cup Ends, seq : Nat,
          arg : Nat \cup Nodes \cup {Still}] :
     /\ f.kind = "node" => f.arg \in Nodes
     /\ f.kind = "preview" => f.arg \in Slots \cup {Still}
     /\ f.kind = "log" => f.arg \in Nat
     /\ f.kind \in Ends => <<f.job, EndOf[f.kind]>> \in V}

(* The exchanges with such a server. *)
Records == [state : States, node : Nodes, journal : BOOLEAN]
Pages == [upto : Nat, latest : Nat, logs : SUBSET Nat]
Spans == [after : Nat, pages : Nat]
Answered(r, V) == r.body[1] \in Records
                  /\ (r.body[1].state \in Ended => <<r.job, Shown[r.body[1].state]>> \in V)
Exchanges(V) ==
  {r \in [kind : {"submit", "reconcile", "page", "sight", "hydrate"}, job : Jobs,
          arg : Nat \cup Spans, phase : {"sent", "served", "failed"},
          body : {<<>>} \cup {<<b>> : b \in Records \cup Pages}] :
     /\ r.phase # "served" => r.body = <<>>
     /\ r.kind = "submit" => r.arg = 0
     /\ r.kind = "page" => r.arg \in Spans /\ (r.body # <<>> => r.body[1] \in Pages)
     /\ r.kind = "reconcile" => r.arg \in Nat /\ (r.body # <<>> => Answered(r, V))}

Conns(V) ==
  [up : BOOLEAN, wire : Seq(Messages(V)), terminal : SUBSET Jobs, seen : SUBSET Jobs,
   passes : SUBSET Jobs, holes : SUBSET Jobs, cursor : [Jobs -> Nat]]
Tracks == [gen : Nat, ran : Nat, busy : BOOLEAN, todo : Seq(Jobs), covered : SUBSET Jobs]
Clients(V) ==
  {c \in [store : Stores, conn : Conns(V), track : Tracks, http : SUBSET Exchanges(V), now : Nat] :
     Sound(c.store, V) /\ Capped(c.store)}

(* A pass is under way and waits for one exchange, or the newest reconnect
   has had its pass. *)
Asked(c) == {r \in c.http : r.kind = "reconcile"}
Passing(c) ==
  /\ c.track.ran <= c.track.gen
  /\ IF c.track.busy
     THEN /\ c.track.todo # <<>>
          /\ \E q \in c.http : /\ Asked(c) = {q} /\ q.arg = c.track.ran
                               /\ q.job = Head(c.track.todo)
     ELSE Asked(c) = {} /\ c.track.ran = c.track.gen

(* What a turn of the client that has nothing to do with its passes does
   to it: it asks for other things, and gives no run up for lost. *)
Aside(d, c, V) ==
  /\ d \in Clients(V) /\ d.track = c.track /\ d.now = c.now
  /\ d.store.lost \subseteq c.store.lost /\ c.http \subseteq d.http
  /\ \A r \in d.http \ c.http : r.phase = "sent" /\ r.kind \in {"sight", "hydrate", "page"}

(* A turn that changes nothing of what is shown, nor of what comes. *)
Calm(d, c) ==
  /\ d.conn.wire = c.conn.wire /\ d.conn.terminal = c.conn.terminal /\ d.conn.up = c.conn.up
  /\ Spares(d.store, c.store)

(* A turn that leaves the notes on backfills alone, and their questions. *)
Beside(d, c) ==
  /\ d.conn.passes = c.conn.passes /\ d.conn.holes = c.conn.holes
  /\ d.conn.cursor = c.conn.cursor
  /\ \A r : r.kind = "page" => (r \in d.http <=> r \in c.http)

(* Evicted means gone: so it is wherever a run is followed. *)
Tidy(t, j) == j \in ToSet(t.evicted) => j \in t.gone

(* What a frame says of the node of its run, and what comes of a frame. *)
Said(c, f) ==
  IF f.kind = "node" THEN f.arg
  ELSE IF f.kind = "failed" /\ f.job \notin c.conn.terminal THEN "error"
  ELSE Node(c.store, f.job)

IsEnd(c, f) == f.kind \in Ends /\ f.job \notin c.conn.terminal

Minds(d, c, f) ==
  /\ d.conn.wire = c.conn.wire /\ d.conn.up = c.conn.up
  /\ d.conn.terminal = IF f.kind \in Ends THEN c.conn.terminal \union {f.job} ELSE c.conn.terminal
  /\ Shows(d.store, c.store, f.job, Said(c, f))
  /\ IsEnd(c, f) => Finishes(d.store, f.job)
  /\ f.kind = "log" => Got(d.store, f.job, f.arg)

-----------------------------------------------------------------------------
(* Passes.                                                                 *)

(* A pass that has its answer and has not asked again. *)
Between(c) ==
  /\ Asked(c) = {} /\ c.track.busy /\ c.track.ran <= c.track.gen /\ c.track.todo # <<>>

(* Of the jobs a pass covers, those it has yet to hear of, and the rest. *)
Awaited(k, j) == k.busy /\ j \in ToSet(k.todo)
Settled(k) == {j \in k.covered : j \notin ToSet(k.todo)}

(* What the next step of the pass does to the client. *)
Paced(d, c, V) ==
  /\ d \in Clients(V) /\ Passing(d) /\ d.store = c.store /\ d.conn = c.conn
  /\ d.track.gen = c.track.gen /\ c.http \subseteq d.http
  /\ \A r \in d.http \ c.http : r.phase = "sent" /\ r.kind = "reconcile"

-----------------------------------------------------------------------------
(* The system.                                                             *)

Runs ==
  [state : States, known : BOOLEAN, talks : BOOLEAN, journal : BOOLEAN, node : Nodes,
   seq : Nat, logs : SUBSET Nat, shed : SUBSET Nat]

(* The ends there have been. *)
Verdicts == {<<j, Shown[server[j].state]>> : j \in {k \in Jobs : server[k].state \in Ended}}

(* A job exists once its submission was served. *)
Submissions ==
  \A r \in http : r.kind = "submit" /\ r.phase = "sent" => server[r.job].state = "none"

IInv ==
  /\ Client \in Clients(Verdicts) /\ server \in [Jobs -> Runs]
  /\ Passing(Client) /\ Submissions

-----------------------------------------------------------------------------
(* What is shown once all is quiet.                                        *)

(* The node states that may come before n, and n: a node runs again after
   it was done. *)
Below(n) == IF n = "none" THEN {"none"} ELSE {"none", "running", "done", n}

(* To show m for n is right, or late by a rerun. *)
Matches(m, n) == m = n \/ (m = "done" /\ n = "running")

OnTheWire(w, j, K) == \E i \in 1..Len(w) : w[i].job = j /\ w[i].kind \in K

(* The node frames of j on the wire lead to n: an earlier state is
   followed by n. *)
InOrder(w, j, n) ==
  \A i \in 1..Len(w) : w[i].job = j /\ w[i].kind = "node" =>
    /\ w[i].arg \in Below(n) \ {"none"}
    /\ w[i].arg # n =>
         \E k \in 1..Len(w) : i < k /\ w[k].job = j /\ w[k].kind = "node" /\ w[k].arg = n

(* What comes to a connection o will tell the last node state of j, or its
   end. *)
NodeComes(o, j) ==
  \/ OnTheWire(o.wire, j, {"node"})
  \/ OnTheWire(o.wire, j, {"failed"}) /\ j \notin o.terminal
EndComes(o, j) == OnTheWire(o.wire, j, Ends)

(* A store t never is ahead of the run R that it shows as j. *)
Behind(t, o, R, j) ==
  /\ InOrder(o.wire, j, R.node)
  /\ R.state = "failed" <=> R.node = "error"
  /\ \/ j \in t.gone
     \/ /\ j \notin ToSet(t.evicted) /\ Node(t, j) \in Below(R.node)
        /\ j \in o.terminal => Final(t, j)

(* With a record of node state n and state s in hand, what is missing to
   show the run R as it is will come: or the run was evicted.  A record of
   a failed node only helps while the connection takes news of the end. *)
Caught(t, o, R, j, n, s) ==
  j \in t.gone \/
  /\ \/ NodeComes(o, j) \/ Matches(Node(t, j), R.node)
     \/ Matches(n, R.node) /\ (n = "error" => j \notin o.terminal)
  /\ R.state \in Ended => s \in Ended \/ Final(t, j) \/ EndComes(o, j)

(* The node of a failed run whose end the connection has is shown as
   failed, or will be. *)
FailureShows(t, o, R, j) ==
  R.state = "failed" /\ j \in o.terminal =>
    j \in t.gone \/ NodeComes(o, j) \/ Node(t, j) = "error"

(* A turn from t, o to u, p that loses nothing of that. *)
Nearer(u, p, t, o, R, j) ==
  Behind(t, o, R, j) =>
    /\ Behind(u, p, R, j)
    /\ FailureShows(t, o, R, j) => FailureShows(u, p, R, j)
    /\ \A n, s : Caught(t, o, R, j, n, s) => Caught(u, p, R, j, n, s)

(* A frame in hand is the first of the wire w, of which v is left, or one
   that is made of a record, the wire staying as it is. *)
Takes(w, v, f) ==
  \/ v = w /\ f.kind # "node"
  \/ w # <<>> /\ f = Head(w) /\ v = Tail(w)

(* The end that V has of j, if any, is the one that its run R had. *)
EndsAre(V, j, R) == \A x : <<j, x>> \in V => R.state \in Ended /\ x = Shown[R.state]

(* A turn of the client that takes nothing from the wire and loses
   nothing, of j, which is R at the server, and of the others. *)
Closer(d, c, R, j) ==
  /\ d.conn.wire = c.conn.wire /\ d.conn.up = c.conn.up
  /\ Nearer(d.store, d.conn, c.store, c.conn, R, j)
  /\ \A k, Q : k # j => Nearer(d.store, d.conn, c.store, c.conn, Q, k)

-----------------------------------------------------------------------------
(* What is missing will come: in every state.                              *)

(* The newest pass is the one for this connection. *)
Up == conn.up /\ track.ran = track.gen

(* The store never is ahead of the server, on no connection nothing comes,
   and once the newest pass has heard of a run, what is missing of it will
   come; so it will of a run whose record is on its way.  Of one it is yet
   to hear of no failure is lost. *)
Silent == ~conn.up => conn.wire = <<>>
AllBehind == \A j \in Jobs : Behind(store, conn, server[j], j)
CoveredCaught ==
  Up => \A j \in track.covered :
          Awaited(track, j) \/ Caught(store, conn, server[j], j, "none", "none")
AwaitedShow ==
  Up => \A j \in ToSet(track.todo) : FailureShows(store, conn, server[j], j)
RecordsCaught ==
  \A r \in http : r.kind = "reconcile" /\ r.body # <<>> =>
    LET R == server[r.job]
    IN  /\ r.body[1].node \in Below(R.node)
        /\ r.body[1].node = "error" => r.body[1].state = "failed"
        /\ Up => Caught(store, conn, R, r.job, r.body[1].node, r.body[1].state)
QInv == Silent /\ AllBehind /\ CoveredCaught /\ AwaitedShow /\ RecordsCaught

(* What a step does to what is followed of one run. *)
Followed(j) ==
  /\ Below(server[j].node) \subseteq Below(server'[j].node)
  /\ Behind(store, conn, server[j], j) =>
       /\ Behind(store', conn', server'[j], j)
       /\ conn'.up => /\ FailureShows(store, conn, server[j], j) =>
                           FailureShows(store', conn', server'[j], j)
                      /\ \A n, s : Caught(store, conn, server[j], j, n, s) =>
                                     Caught(store', conn', server'[j], j, n, s)

(* Frames that tell what changes of a run when its record O becomes R. *)
Telling(fs, m, O, R) ==
  /\ O.state \notin Ended /\ Below(O.node) \subseteq Below(R.node)
  /\ R.state = "failed" <=> R.node = "error"
  /\ \A i \in 1..m : fs[i].kind = "node" => fs[i].arg = R.node /\ R.node # "none"
  /\ \/ R.node = O.node
     \/ \E i \in 1..m : fs[i].kind = "node"
     \/ O.node = "none" /\ \E i \in 1..m : fs[i].kind = "failed"
  /\ R.state \in Ended => \E i \in 1..m : fs[i].kind \in Ends

-----------------------------------------------------------------------------
(* The log records of a run.                                               *)

LogComes(w, j, n) == \E i \in 1..Len(w) : w[i].job = j /\ w[i].kind = "log" /\ w[i].arg = n

(* An exchange r will bring record n of run j, or break its backfill off. *)
Reaches(r, j, n) ==
  /\ r.kind = "page" /\ r.job = j
  /\ \/ r.phase # "sent" /\ r.body = <<>>
     \/ r.arg.after < n /\ (r.body # <<>> => n <= r.body[1].latest)

(* Every record of a run, which is R at the server, that the live socket
   did not shed has come or will: so it is for sure on a connection whose
   backfill has left no holes. *)
Tracked(c, R, j) ==
  \A n \in R.logs \ R.shed : \/ Got(c.store, j, n) \/ LogComes(c.conn.wire, j, n)
                             \/ \E r \in c.http : Reaches(r, j, n)
Sure(c, R, j) ==
  c.conn.up /\ j \notin c.conn.holes /\ R.seq <= PageLimit * MaxPages => Tracked(c, R, j)

(* The records up to m have come; a page that was served is one of the
   run; and a question asks for what has not come. *)
Read(c, R, j, m) == m <= R.seq /\ \A n \in R.logs : n <= m => Got(c.store, j, n)
Turned(r, R) ==
  LET page == r.body[1]
  IN  /\ r.arg.after <= page.upto /\ page.upto <= page.latest /\ page.latest <= R.seq
      /\ page.upto = r.arg.after + PageLimit \/ page.upto = page.latest
      /\ \A n \in R.logs : r.arg.after < n /\ n <= page.upto => n \in page.logs
RightPage(c, r, R) ==
  /\ r.arg.pages \in 1..MaxPages /\ PageLimit * (r.arg.pages - 1) <= r.arg.after
  /\ Read(c, R, r.job, r.arg.after)
  /\ r.body # <<>> => Turned(r, R)

(* What backfills rely on. *)
Heeds(c, S) ==
  /\ \A j \in Jobs : Read(c, S[j], j, c.conn.cursor[j])
  /\ \A r \in c.http : r.kind = "page" => RightPage(c, r, S[r.job])
  /\ \A j \in c.conn.passes : Sure(c, S[j], j)

(* A turn of the client that loses no record, and one that besides leaves
   backfills alone. *)
Advances(d, c, S) ==
  Heeds(c, S) => Heeds(d, S) /\ \A j \in Jobs : Sure(c, S[j], j) => Sure(d, S[j], j)
Retains(d, c) ==
  /\ Beside(d, c) /\ d.conn.up = c.conn.up
  /\ \A j, n : Got(c.store, j, n) => Got(d.store, j, n)
  /\ \A j, n : LogComes(c.conn.wire, j, n) => LogComes(d.conn.wire, j, n) \/ Got(d.store, j, n)

-----------------------------------------------------------------------------
(* No record is lost: in every state.                                      *)

(* From R to Q a run goes on: its new records are numbered on, and who is
   connected is told of those that are not shed. *)
Grows(Q, R, c, j) ==
  /\ R.seq <= Q.seq /\ R.logs \subseteq Q.logs /\ R.shed \subseteq Q.shed
  /\ Q.journal = R.journal
  /\ \A n \in Q.logs \ R.logs :
       /\ R.seq < n /\ n <= Q.seq
       /\ c.conn.up /\ n \notin Q.shed => LogComes(c.conn.wire, j, n)

(* Once the newest pass has heard of a run with a journal, its records
   have come or will; records are numbered; a record tells of a journal
   if there is one. *)
CoveredSure ==
  track.ran = track.gen =>
    \A j \in track.covered : Awaited(track, j) \/ ~server[j].journal \/ Sure(Client, server[j], j)
Numbered == \A j \in Jobs : server[j].logs \subseteq 1..server[j].seq
JournalsTold ==
  \A r \in http : r.kind = "reconcile" /\ r.body # <<>> =>
    r.body[1].journal = server[r.job].journal
LInv == Heeds(Client, server) /\ CoveredSure /\ Numbered /\ JournalsTold
=============================================================================
