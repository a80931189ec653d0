----------------------------- MODULE EditorProofs -----------------------------
(***************************************************************************)
(* Proofs about the local document store: however commands, undo and redo  *)
(* follow each other, from every well formed document, no allocation       *)
(* cursor goes back while what it belongs to is there, and no command      *)
(* gives out a group id that a mode panel is still bound to; and from one  *)
(* in which nothing dangles, none is reached in which something does.      *)
(***************************************************************************)
EXTENDS Editor, FiniteSetTheorems, SequenceTheorems, WellFoundedInduction, TLAPS

-----------------------------------------------------------------------------
(* What a step of the user may do to a document.                              *)

DocFields == {"graphs", "view", "tags", "tops", "panels", "panelSeq"}
GraphFields == {"nodes", "links", "nets", "reroutes", "sources", "selectors", "boundary", "next"}
ViewFields == {"nodes", "reroutes", "sources", "selectors", "groups", "seq", "collapsed", "guides"}
TopFields == {"body", "links", "sup", "next"}

FamiliesGrow(a, b) ==
  \A n \in DOMAIN a.nodes \intersect DOMAIN b.nodes :
    \A f \in Families : FamilyOf(a.nodes[n], f).seq <= FamilyOf(b.nodes[n], f).seq

(* A definition is edited: its cursor moves up, never beyond what an id may *)
(* hold, and so do the cursors of the families of the nodes that stay.      *)
GraphGrows(a, b) ==
  /\ GraphFormed(b)
  /\ a.next <= b.next
  /\ b.next = a.next \/ b.next <= MaxOrdinal
  /\ FamiliesGrow(a, b)

(* The canvas of g: its cursor moves up, no group a panel is bound to appears. *)
ViewGrows(d, e, g) ==
  /\ ViewOf(d, g).seq <= ViewOf(e, g).seq
  /\ (ViewOf(e, g).groups \ ViewOf(d, g).groups) \intersect BoundGroups(d, g) = {}

(* The canvas v shows only what the definition a has: as ViewFollows says of *)
(* every canvas.  It goes on doing so when the definition loses nothing.     *)
Follows(a, v) ==
  /\ v.nodes \subseteq DOMAIN a.nodes
  /\ v.reroutes \subseteq a.reroutes
  /\ v.sources \subseteq a.sources
  /\ v.selectors \subseteq DOMAIN a.selectors
  /\ v.collapsed \subseteq DOMAIN a.nets
  /\ v.guides \subseteq v.collapsed
HasAll(a, b) ==
  /\ DOMAIN a.nodes \subseteq DOMAIN b.nodes
  /\ a.reroutes \subseteq b.reroutes
  /\ a.sources \subseteq b.sources
  /\ DOMAIN a.selectors \subseteq DOMAIN b.selectors
  /\ DOMAIN a.nets \subseteq DOMAIN b.nets

(* No canvas is left with what its definition lost. *)
StillFollows(d, e) == ViewFollows(d) => ViewFollows(e)

Grows(d, e) ==
  /\ WellFormed(e)
  /\ StillFollows(d, e)
  /\ \A g \in DOMAIN d.graphs \intersect DOMAIN e.graphs :
       GraphGrows(d.graphs[g], e.graphs[g]) /\ ViewGrows(d, e, g)
  /\ DOMAIN d.view \intersect DOMAIN e.graphs \subseteq DOMAIN e.view
  /\ DOMAIN e.graphs \ DOMAIN d.graphs \subseteq DOMAIN e.view
  /\ \A o \in DOMAIN d.tops : o \in DOMAIN e.tops /\ d.tops[o].next <= e.tops[o].next
  /\ d.panelSeq <= e.panelSeq

(* Nothing is given out, nothing a cursor belongs to comes or goes. *)
GraphTrims(a, b) ==
  /\ GraphFields \subseteq DOMAIN b
  /\ b.next = a.next
  /\ b.nodes = a.nodes /\ b.selectors = a.selectors
  /\ AllIds(b) \subseteq AllIds(a)
ViewTrims(v, w) == ViewFields \subseteq DOMAIN w /\ w.seq = v.seq /\ w.groups = v.groups
Trims(d, e) ==
  /\ DocFields \subseteq DOMAIN e
  /\ DOMAIN e.graphs = DOMAIN d.graphs
  /\ \A g \in DOMAIN d.graphs : GraphTrims(d.graphs[g], e.graphs[g])
  /\ DOMAIN e.view = DOMAIN d.view
  /\ \A g \in DOMAIN d.view : ViewTrims(d.view[g], e.view[g])
  /\ DOMAIN e.tops = DOMAIN d.tops
  /\ \A o \in DOMAIN d.tops : TopFields \subseteq DOMAIN e.tops[o] /\ e.tops[o].next = d.tops[o].next
  /\ e.panels = d.panels /\ e.panelSeq = d.panelSeq

(* Only the definition g and its canvas differ. *)
Edits(d, e, g) ==
  /\ DocFields \subseteq DOMAIN e
  /\ DOMAIN e.graphs = DOMAIN d.graphs
  /\ \A h \in DOMAIN d.graphs : h # g => e.graphs[h] = d.graphs[h]
  /\ DOMAIN d.view \subseteq DOMAIN e.view /\ DOMAIN e.view \subseteq DOMAIN d.view \union {g}
  /\ \A h \in DOMAIN d.view : h # g => e.view[h] = d.view[h]
  /\ g \in DOMAIN e.view => ViewFormed(e.view[g])
  /\ e.tops = d.tops /\ e.panels = d.panels /\ e.panelSeq = d.panelSeq

(* The stages of a command: the document grows, its nodes and panels stay as *)
(* they are.                                                                 *)
Stage(d, e) ==
  /\ WellFormed(d) /\ Grows(d, e)
  /\ DOMAIN e.graphs = DOMAIN d.graphs
  /\ \A g \in DOMAIN d.graphs : e.graphs[g].nodes = d.graphs[g].nodes
  /\ e.panels = d.panels

SetGraph(d, g, b) == [d EXCEPT !.graphs[g] = b]
SetView(d, g, v) == [d EXCEPT !.view[g] = v]

(* Other wires, nets, ... with ids that were given out. *)
Keeps(a, b) ==
  /\ GraphFields \subseteq DOMAIN b
  /\ b.next = a.next
  /\ b.nodes = a.nodes
  /\ SelectorsFormed(b.selectors)
  /\ AllIds(b) \subseteq 0 .. a.next - 1
  /\ HasAll(a, b)

-----------------------------------------------------------------------------
(* Numbers.                                                                   *)

(* A set of natural numbers has a least one.                                *)
LEMMA Smallest ==
  ASSUME NEW S, S \subseteq Nat, S # {}
  PROVE  Min(S) \in S /\ \A x \in S : Min(S) <= x
<1> DEFINE R == OpToRel(<, Nat)
<1>1. IsWellFoundedOn(R, Nat)  BY NatLessThanWellFounded
<1>2. \A p \in Nat \X Nat : p[1] < p[2] => p \in R  BY DEF OpToRel
<1> HIDE DEF R
<1>3. PICK x \in S : \A y \in S : ~ (<<y, x>> \in R)  BY <1>1, WFMin
<1>4. ASSUME NEW y \in S PROVE x <= y
  <2>1. <<y, x>> \in Nat \X Nat /\ <<y, x>>[1] = y /\ <<y, x>>[2] = x  OBVIOUS
  <2>2. ~(y < x)  BY <1>2, <1>3, <2>1
  <2> QED BY <2>2
<1> QED BY <1>4 DEF Min

(* A finite one has a greatest one.                                         *)
LEMMA Largest ==
  ASSUME NEW S, S \subseteq Nat, S # {}, IsFiniteSet(S)
  PROVE  Max(S) \in S /\ \A x \in S : x <= Max(S)
<1> DEFINE Unbounded == {X \in SUBSET S : \A n \in Nat : \E x \in X : x > n}
           R == StrictSubsetOrdering(S)
<1>1. S \notin Unbounded
  <2> SUFFICES ASSUME S \in Unbounded PROVE FALSE  OBVIOUS
  <2>1. IsWellFoundedOn(R, SUBSET S)
    BY FS_StrictSubsetOrderingWellFounded, FS_FiniteSubsetsOfFinite
  <2>2. Unbounded \subseteq SUBSET S /\ Unbounded # {}  OBVIOUS
  <2> HIDE DEF R, Unbounded
  <2>3. PICK X \in Unbounded : \A Y \in Unbounded : ~ (<<Y, X>> \in R)  BY <2>1, <2>2, WFMin
  <2>4. X \subseteq S /\ \A n \in Nat : \E x \in X : x > n  BY <2>3 DEF Unbounded
  <2>5. PICK x \in X : x > 0  BY <2>4
  <2>6. <<X \ {x}, X>> \in R  BY <2>4, <2>5 DEF R, StrictSubsetOrdering
  <2>7. X \ {x} \notin Unbounded  BY <2>3, <2>6
  <2>8. PICK n \in Nat : \A y \in X \ {x} : ~(y > n)  BY <2>4, <2>7 DEF Unbounded
  <2>9. x \in Nat  BY <2>4, <2>5
  <2>10. CASE x <= n
    <3>1. PICK y \in X : y > n  BY <2>4
    <3> QED BY <2>8, <2>9, <2>10, <3>1
  <2>11. CASE ~(x <= n)
    <3>1. PICK y \in X : y > x  BY <2>4, <2>9
    <3> QED BY <2>4, <2>8, <2>9, <2>11, <3>1
  <2> QED BY <2>10, <2>11
<1>2. PICK n \in Nat : \A x \in S : ~(x > n)  BY <1>1
<1> HIDE DEF Unbounded
<1> DEFINE Bounds == {m \in Nat : \A x \in S : x <= m}
<1>3. n \in Bounds  BY <1>2
<1>4. PICK u \in Bounds : \A m \in Bounds : u <= m  BY <1>3, Smallest
<1>5. u \in S
  <2> SUFFICES ASSUME u \notin S PROVE FALSE  OBVIOUS
  <2>1. PICK x \in S : TRUE  OBVIOUS
  <2>2. x \in Nat /\ x <= u /\ x # u  BY <1>4, <2>1
  <2>3. u - 1 \in Nat  BY <1>4, <2>2
  <2>4. \A y \in S : y <= u - 1  BY <1>4
  <2>5. u - 1 \in Bounds  BY <2>3, <2>4
  <2> QED BY <1>4, <2>3, <2>5
<1>6. \A x \in S : u >= x  BY <1>4
<1>7. ASSUME NEW v \in S, \A x \in S : v >= x PROVE v = u  BY <1>4, <1>5, <1>7
<1> QED BY <1>4, <1>5, <1>6, <1>7 DEF Max

-----------------------------------------------------------------------------
(* The relations compose.                                                     *)

(* An empty canvas shows nothing.                                           *)
LEMMA EmptyFollows ==
  ASSUME NEW a
  PROVE  Follows(a, EmptyView)
BY DEF Follows, EmptyView

(* What canvases show, one by one.                                          *)
LEMMA EachFollows ==
  ASSUME NEW d
  PROVE  ViewFollows(d) <=>
           \A g \in DOMAIN d.view : g \in DOMAIN d.graphs /\ Follows(d.graphs[g], d.view[g])
BY DEF ViewFollows, Follows

(* A canvas goes on showing what there is, of a definition that loses nothing. *)
LEMMA FollowsMore ==
  ASSUME NEW a, NEW b, HasAll(a, b), NEW v, Follows(a, v)
  PROVE  Follows(b, v)
BY DEF Follows, HasAll

(* So do all of them, where no canvas changes.                              *)
LEMMA SameCanvases ==
  ASSUME NEW d, NEW e, e.view = d.view,
         \A g \in DOMAIN d.graphs : g \in DOMAIN e.graphs /\ HasAll(d.graphs[g], e.graphs[g])
  PROVE  StillFollows(d, e)
BY EachFollows, FollowsMore DEF StillFollows

(* And where neither canvases nor definitions do.                           *)
LEMMA SameShown ==
  ASSUME NEW d, NEW e, e.graphs = d.graphs, e.view = d.view
  PROVE  StillFollows(d, e)
BY DEF StillFollows, ViewFollows

(* A document that is left as it is, is trimmed.                            *)
LEMMA TrimsSelf ==
  ASSUME NEW d, WellFormed(d)
  PROVE  Trims(d, d)
BY DEF WellFormed, Trims, GraphFormed, GraphTrims, ViewFormed, ViewTrims, EmptyView, NoTopology,
       DocFields, GraphFields, ViewFields, TopFields

(* Trimming twice is trimming.                                              *)
LEMMA TrimsTwice ==
  ASSUME NEW d, NEW e, NEW f, Trims(d, e), Trims(e, f)
  PROVE  Trims(d, f)
BY DEF Trims, GraphTrims, ViewTrims

(* A trimmed document has the same canvas cursors and groups.               *)
LEMMA TrimsView ==
  ASSUME NEW d, NEW e, Trims(d, e), NEW g
  PROVE  ViewOf(e, g).seq = ViewOf(d, g).seq /\ ViewOf(e, g).groups = ViewOf(d, g).groups
BY DEF Trims, ViewTrims, ViewOf

(* Trimming leaves a well formed document.                                  *)
LEMMA TrimsFormed ==
  ASSUME NEW d, NEW e, WellFormed(d), Trims(d, e)
  PROVE  WellFormed(e)
<1>1. ASSUME NEW g \in DOMAIN e.graphs PROVE GraphFormed(e.graphs[g])
  BY <1>1 DEF WellFormed, Trims, GraphFormed, GraphTrims, GraphFields
<1>2. ASSUME NEW g \in DOMAIN e.view PROVE ViewFormed(e.view[g])
  BY <1>2 DEF WellFormed, Trims, ViewFormed, ViewTrims, ViewFields, EmptyView
<1> QED BY <1>1, <1>2 DEF WellFormed, Trims, DocFields, TopFields, NoTopology

(* A document that is left as it is, grows.                                 *)
LEMMA GrowsSelf ==
  ASSUME NEW d, WellFormed(d)
  PROVE  Grows(d, d)
<1>1. \A g \in DOMAIN d.graphs : FamiliesGrow(d.graphs[g], d.graphs[g])
  BY DEF WellFormed, GraphFormed, NodeFormed, FamilyFormed, FamiliesGrow, FamilyOf
<1>2. \A g \in DOMAIN d.graphs : ViewGrows(d, d, g)
  BY DEF WellFormed, ViewFormed, ViewGrows, ViewOf, EmptyView
<1>3. StillFollows(d, d)  BY DEF StillFollows
<1> QED BY <1>1, <1>2, <1>3 DEF WellFormed, Grows, GraphGrows, GraphFormed

(* What grows once it is trimmed, grows.                                    *)
LEMMA GrowsTrimmed ==
  ASSUME NEW d, NEW r, NEW e, Trims(d, r), StillFollows(d, r), Grows(r, e)
  PROVE  Grows(d, e)
<1>1. ASSUME NEW g \in DOMAIN d.graphs \intersect DOMAIN e.graphs
      PROVE  GraphGrows(d.graphs[g], e.graphs[g])
  BY <1>1 DEF Trims, GraphTrims, Grows, GraphGrows, FamiliesGrow
<1>2. ASSUME NEW g \in DOMAIN d.graphs \intersect DOMAIN e.graphs
      PROVE  ViewGrows(d, e, g)
  <2>1. ViewGrows(r, e, g)  BY <1>2 DEF Trims, Grows
  <2>2. BoundGroups(d, g) = BoundGroups(r, g)  BY DEF Trims, BoundGroups
  <2> QED BY <2>1, <2>2, TrimsView DEF ViewGrows
<1>3. WellFormed(e) /\ d.panelSeq <= e.panelSeq  BY DEF Trims, Grows
<1>4. \A o \in DOMAIN d.tops : o \in DOMAIN e.tops /\ d.tops[o].next <= e.tops[o].next
  BY DEF Trims, Grows
<1>5. /\ DOMAIN d.view \intersect DOMAIN e.graphs \subseteq DOMAIN e.view
      /\ DOMAIN e.graphs \ DOMAIN d.graphs \subseteq DOMAIN e.view
  BY DEF Trims, Grows
<1>6. StillFollows(d, e)  BY DEF Grows, StillFollows
<1> QED BY <1>1, <1>2, <1>3, <1>4, <1>5, <1>6 DEF Grows

(* A trimmed document grows, if its canvases still follow.                  *)
LEMMA TrimsGrow ==
  ASSUME NEW d, NEW e, WellFormed(d), Trims(d, e), StillFollows(d, e)
  PROVE  Grows(d, e)
BY TrimsFormed, GrowsSelf, GrowsTrimmed

(* A document grows when one definition, or its canvas, does.               *)
LEMMA EditGrows ==
  ASSUME NEW d, NEW e, NEW g \in DOMAIN d.graphs, WellFormed(d), Edits(d, e, g),
         GraphGrows(d.graphs[g], e.graphs[g]), ViewGrows(d, e, g),
         Follows(d.graphs[g], ViewOf(d, g)) => Follows(e.graphs[g], ViewOf(e, g))
  PROVE  Grows(d, e)
<1>1. ASSUME NEW h \in DOMAIN d.graphs, h # g
      PROVE  GraphFormed(e.graphs[h]) /\ GraphGrows(d.graphs[h], e.graphs[h]) /\ ViewGrows(d, e, h)
  <2>1. e.graphs[h] = d.graphs[h]  BY <1>1 DEF Edits
  <2>2. ViewOf(e, h) = ViewOf(d, h)  BY <1>1 DEF Edits, ViewOf
  <2>3. Grows(d, d)  BY GrowsSelf
  <2> QED BY <2>1, <2>2, <2>3, <1>1 DEF Grows, GraphGrows, ViewGrows, WellFormed
<1>2. GraphFormed(e.graphs[g])  BY DEF GraphGrows
<1>3. ASSUME NEW h \in DOMAIN e.view PROVE ViewFormed(e.view[h])
  BY <1>3 DEF Edits, WellFormed
<1>4. WellFormed(e)  BY <1>1, <1>2, <1>3 DEF Edits, WellFormed, DocFields, TopFields, NoTopology
<1>5. StillFollows(d, e)
  <2> SUFFICES ASSUME ViewFollows(d), NEW h \in DOMAIN e.view
               PROVE  h \in DOMAIN e.graphs /\ Follows(e.graphs[h], e.view[h])
    BY EachFollows DEF StillFollows
  <2>1. \A k \in DOMAIN d.view : k \in DOMAIN d.graphs /\ Follows(d.graphs[k], d.view[k])
    BY EachFollows
  <2>2. CASE h # g  BY <2>1, <2>2 DEF Edits
  <2>3. CASE h = g
    <3>1. Follows(d.graphs[g], ViewOf(d, g))  BY <2>1, EmptyFollows DEF ViewOf
    <3> QED BY <2>3, <3>1 DEF Edits, ViewOf
  <2> QED BY <2>2, <2>3
<1> QED BY <1>1, <1>4, <1>5 DEF Grows, Edits, WellFormed

-----------------------------------------------------------------------------
(* The helpers that take away.                                                *)

(* Suppressions that go take nothing with them.                             *)
LEMMA DropSuppressionsTrims ==
  ASSUME NEW d, NEW gone, WellFormed(d)
  PROVE  Trims(d, DropSuppressions(d, gone))
<1> USE DEF DropSuppressions
<1>1. Trims(d, d)  BY TrimsSelf
<1> QED BY <1>1 DEF Trims, DocFields, TopFields

(* Tags that go take nothing with them.                                     *)
LEMMA DropNetTagsTrims ==
  ASSUME NEW d, NEW g, NEW N, WellFormed(d)
  PROVE  Trims(d, DropNetTags(d, g, N))
<1>1. Trims(d, d)  BY TrimsSelf
<1> QED BY <1>1 DEF Trims, DropNetTags, DocFields

(* The same for the tags of sinks.                                          *)
LEMMA DropSinkTagsTrims ==
  ASSUME NEW d, NEW g, NEW D, WellFormed(d)
  PROVE  Trims(d, DropSinkTags(d, g, D))
<1>1. Trims(d, d)  BY TrimsSelf
<1> QED BY <1>1 DEF Trims, DropSinkTags, DocFields

(* The display of nets that go is forgotten, nothing else.                  *)
LEMMA PruneNetDisplayTrims ==
  ASSUME NEW d, NEW g, NEW N, WellFormed(d)
  PROVE  Trims(d, PruneNetDisplay(d, g, N))
<1>1. Trims(d, d)  BY TrimsSelf
<1>2. CASE g \notin DOMAIN d.view  BY <1>1, <1>2 DEF PruneNetDisplay
<1>3. CASE g \in DOMAIN d.view
  BY <1>1, <1>3 DEF Trims, PruneNetDisplay, DocFields, ViewTrims, ViewFields
<1> QED BY <1>2, <1>3

(* Definitions and canvases have nothing to do with suppressions.           *)
LEMMA DropSuppressionsSame ==
  ASSUME NEW d, NEW gone, WellFormed(d)
  PROVE  LET r == DropSuppressions(d, gone)
         IN  DOMAIN r = DOMAIN d /\ r.graphs = d.graphs /\ r.view = d.view /\ r.panels = d.panels
BY DEF WellFormed, DropSuppressions

(* A definition has all it has.                                             *)
LEMMA HasAllSelf ==
  ASSUME NEW a
  PROVE  HasAll(a, a)
BY DEF HasAll

(* Links that go from one definition take their suppressions with them.     *)
LEMMA RemoveLinksTrims ==
  ASSUME NEW d, NEW g \in DOMAIN d.graphs, NEW L, WellFormed(d)
  PROVE  Trims(d, RemoveLinks(d, g, L))
<1> DEFINE r == DropLinkSuppressions(d, g, L)
           e == RemoveLinks(d, g, L)
<1>1. Trims(d, r)  BY DropSuppressionsTrims DEF DropLinkSuppressions
<1>2. WellFormed(r)  BY <1>1, TrimsFormed
<1>3. Trims(r, r)  BY <1>2, TrimsSelf
<1>4. g \in DOMAIN r.graphs  BY <1>1 DEF Trims
<1> HIDE DEF r
<1>5. e = [r EXCEPT !.graphs[g].links = Minus(@, L)]  BY DEF RemoveLinks, r
<1>6. GraphTrims(r.graphs[g], e.graphs[g])
  <2>0. "graphs" \in DOMAIN r  BY <1>3 DEF Trims, DocFields
  <2>1. e.graphs[g] = [r.graphs[g] EXCEPT !.links = Minus(@, L)]
    BY <2>0, <1>4, <1>5
  <2>2. DOMAIN Minus(r.graphs[g].links, L) \subseteq DOMAIN r.graphs[g].links  BY DEF Minus, Restrict
  <2>3. GraphFields \subseteq DOMAIN r.graphs[g]  BY <1>3, <1>4 DEF Trims, GraphTrims
  <2> HIDE DEF e
  <2> QED BY <2>1, <2>2, <2>3 DEF GraphTrims, GraphFields, AllIds
<1>7. Trims(r, e)  BY <1>3, <1>4, <1>5, <1>6 DEF Trims, DocFields
<1> QED BY <1>1, <1>7, TrimsTwice

(* Nothing on a canvas is of a link.                                        *)
LEMMA RemoveLinksFollows ==
  ASSUME NEW d, NEW g \in DOMAIN d.graphs, NEW L, WellFormed(d)
  PROVE  StillFollows(d, RemoveLinks(d, g, L))
<1> DEFINE r == DropLinkSuppressions(d, g, L)
           e == RemoveLinks(d, g, L)
<1>1. DOMAIN r = DOMAIN d /\ r.graphs = d.graphs /\ r.view = d.view
  BY DropSuppressionsSame DEF DropLinkSuppressions
<1>2. {"graphs", "view"} \subseteq DOMAIN r /\ GraphFields \subseteq DOMAIN r.graphs[g]
  BY <1>1 DEF WellFormed, GraphFormed, GraphFields
<1> HIDE DEF r
<1>3. e = [r EXCEPT !.graphs[g].links = Minus(@, L)]  BY DEF RemoveLinks, r
<1>4. HasAll(r.graphs[g], [r.graphs[g] EXCEPT !.links = Minus(@, L)])
  BY <1>2 DEF HasAll, GraphFields
<1>5. /\ e.view = d.view
      /\ \A h \in DOMAIN d.graphs : h \in DOMAIN e.graphs /\ HasAll(d.graphs[h], e.graphs[h])
  BY <1>1, <1>2, <1>3, <1>4, HasAllSelf
<1> QED BY <1>5, SameCanvases

(* Sinks that go.                                                           *)
LEMMA RemoveSinksTrims ==
  ASSUME NEW d, NEW g \in DOMAIN d.graphs, NEW D, WellFormed(d)
  PROVE  Trims(d, RemoveSinks(d, g, D))
<1> DEFINE r == DropNetSuppressions(d, g, D)
           e == [r EXCEPT !.graphs[g].nets =
                    [n \in DOMAIN @ |-> [@[n] EXCEPT !.sinks = {s \in @ : <<n, s>> \notin D}]]]
<1>1. Trims(d, r)  BY DropSuppressionsTrims DEF DropNetSuppressions
<1>2. WellFormed(r)  BY <1>1, TrimsFormed
<1>3. Trims(r, r)  BY <1>2, TrimsSelf
<1>4. g \in DOMAIN r.graphs  BY <1>1 DEF Trims
<1>5. RemoveSinks(d, g, D) = DropSinkTags(e, g, D)  BY DEF RemoveSinks
<1> HIDE DEF r
<1>6. GraphTrims(r.graphs[g], e.graphs[g])
  BY <1>3, <1>4 DEF Trims, GraphTrims, GraphFields, AllIds, DocFields
<1>7. Trims(r, e)  BY <1>3, <1>4, <1>6 DEF Trims, DocFields
<1>8. Trims(d, e)  BY <1>1, <1>7, TrimsTwice
<1> HIDE DEF e
<1>9. Trims(e, DropSinkTags(e, g, D))  BY <1>8, TrimsFormed, DropSinkTagsTrims
<1> QED BY <1>5, <1>8, <1>9, TrimsTwice

(* Nothing on a canvas is of a sink alone.                                  *)
LEMMA RemoveSinksFollows ==
  ASSUME NEW d, NEW g \in DOMAIN d.graphs, NEW D, WellFormed(d)
  PROVE  StillFollows(d, RemoveSinks(d, g, D))
<1> DEFINE r == DropNetSuppressions(d, g, D)
           e == [r EXCEPT !.graphs[g].nets =
                    [n \in DOMAIN @ |-> [@[n] EXCEPT !.sinks = {s \in @ : <<n, s>> \notin D}]]]
           f == RemoveSinks(d, g, D)
<1>1. DOMAIN r = DOMAIN d /\ r.graphs = d.graphs /\ r.view = d.view
  BY DropSuppressionsSame DEF DropNetSuppressions
<1>2. {"graphs", "view", "tags"} \subseteq DOMAIN r /\ GraphFields \subseteq DOMAIN r.graphs[g]
  BY <1>1 DEF WellFormed, GraphFormed, GraphFields
<1>3. f = DropSinkTags(e, g, D)  BY DEF RemoveSinks
<1> HIDE DEF r, f
<1>4. g \in DOMAIN r.graphs  BY <1>1
<1>5. HasAll(r.graphs[g], e.graphs[g])
  BY <1>2, <1>4 DEF HasAll, GraphFields
<1>6. /\ {"graphs", "view", "tags"} \subseteq DOMAIN e
      /\ e.view = r.view /\ DOMAIN e.graphs = DOMAIN r.graphs
      /\ \A h \in DOMAIN r.graphs : h # g => e.graphs[h] = r.graphs[h]
  BY <1>2, <1>4
<1> HIDE DEF e
<1>7. f.view = e.view /\ f.graphs = e.graphs  BY <1>3, <1>6 DEF DropSinkTags
<1>8. /\ f.view = d.view
      /\ \A h \in DOMAIN d.graphs : h \in DOMAIN f.graphs /\ HasAll(d.graphs[h], f.graphs[h])
  BY <1>1, <1>5, <1>6, <1>7, HasAllSelf
<1> QED BY <1>8, SameCanvases DEF f

(* Nets that go, with their tags and their display.                         *)
LEMMA RemoveNetsTrims ==
  ASSUME NEW d, NEW g \in DOMAIN d.graphs, NEW N, WellFormed(d)
  PROVE  Trims(d, RemoveNets(d, g, N))
<1> DEFINE r == DropNetSuppressions(d, g, DeliveriesOf(d.graphs[g], N))
           e == [r EXCEPT !.graphs[g].nets = Minus(@, N)]
           f == DropNetTags(e, g, N)
<1>1. Trims(d, r)  BY DropSuppressionsTrims DEF DropNetSuppressions
<1>2. WellFormed(r)  BY <1>1, TrimsFormed
<1>3. Trims(r, r)  BY <1>2, TrimsSelf
<1>4. g \in DOMAIN r.graphs  BY <1>1 DEF Trims
<1>5. RemoveNets(d, g, N) = PruneNetDisplay(f, g, N)  BY DEF RemoveNets
<1> HIDE DEF r
<1>6. GraphTrims(r.graphs[g], e.graphs[g])
  <2>0. "graphs" \in DOMAIN r  BY <1>3 DEF Trims, DocFields
  <2>1. e.graphs[g] = [r.graphs[g] EXCEPT !.nets = Minus(@, N)]
    BY <2>0, <1>4
  <2>2. DOMAIN Minus(r.graphs[g].nets, N) \subseteq DOMAIN r.graphs[g].nets  BY DEF Minus, Restrict
  <2>3. GraphFields \subseteq DOMAIN r.graphs[g]  BY <1>3, <1>4 DEF Trims, GraphTrims
  <2> HIDE DEF e
  <2> QED BY <2>1, <2>2, <2>3 DEF GraphTrims, GraphFields, AllIds
<1>7. Trims(r, e)  BY <1>3, <1>4, <1>6 DEF Trims, DocFields
<1>8. Trims(d, e)  BY <1>1, <1>7, TrimsTwice
<1> HIDE DEF e
<1>9. Trims(e, f)  BY <1>8, TrimsFormed, DropNetTagsTrims
<1>10. Trims(d, f)  BY <1>8, <1>9, TrimsTwice
<1> HIDE DEF f
<1>11. Trims(f, PruneNetDisplay(f, g, N))  BY <1>10, TrimsFormed, PruneNetDisplayTrims
<1> QED BY <1>5, <1>10, <1>11, TrimsTwice

(* Nets go from the canvas too.                                             *)
LEMMA RemoveNetsFollows ==
  ASSUME NEW d, NEW g \in DOMAIN d.graphs, NEW N, WellFormed(d)
  PROVE  StillFollows(d, RemoveNets(d, g, N))
<1> DEFINE r == DropNetSuppressions(d, g, DeliveriesOf(d.graphs[g], N))
           e == [r EXCEPT !.graphs[g].nets = Minus(@, N)]
           f == DropNetTags(e, g, N)
           p == PruneNetDisplay(f, g, N)
<1>1. DOMAIN r = DOMAIN d /\ r.graphs = d.graphs /\ r.view = d.view
  BY DropSuppressionsSame DEF DropNetSuppressions
<1>2. /\ {"graphs", "view", "tags"} \subseteq DOMAIN r /\ GraphFields \subseteq DOMAIN r.graphs[g]
      /\ g \in DOMAIN d.view => ViewFields \subseteq DOMAIN d.view[g]
  BY <1>1 DEF WellFormed, GraphFormed, GraphFields, ViewFormed, EmptyView, ViewFields
<1>3. RemoveNets(d, g, N) = p  BY DEF RemoveNets
<1> HIDE DEF r
<1>4. f.view = d.view /\ f.graphs = e.graphs /\ {"graphs", "view"} \subseteq DOMAIN f
  BY <1>1, <1>2 DEF DropNetTags
<1>5. /\ DOMAIN e.graphs = DOMAIN d.graphs
      /\ \A h \in DOMAIN d.graphs : h # g => e.graphs[h] = d.graphs[h]
      /\ e.graphs[g] = [d.graphs[g] EXCEPT !.nets = Minus(@, N)]
  BY <1>1, <1>2
<1> HIDE DEF e, f
<1>6. /\ p.graphs = e.graphs
      /\ DOMAIN p.view = DOMAIN d.view
      /\ \A h \in DOMAIN d.view : h # g => p.view[h] = d.view[h]
      /\ g \in DOMAIN d.view =>
           p.view[g] = [[d.view[g] EXCEPT !.collapsed = @ \ N] EXCEPT !.guides = @ \ N]
  BY <1>4 DEF PruneNetDisplay
<1>7. DOMAIN Minus(d.graphs[g].nets, N) = DOMAIN d.graphs[g].nets \ N
  BY DEF Minus, Restrict
<1>8. ASSUME g \in DOMAIN d.view, Follows(d.graphs[g], d.view[g])
      PROVE  Follows(e.graphs[g], p.view[g])
  <2> DEFINE a == d.graphs[g]
             v == d.view[g]
             w == [[v EXCEPT !.collapsed = @ \ N] EXCEPT !.guides = @ \ N]
             b == [a EXCEPT !.nets = Minus(@, N)]
  <2>1. GraphFields \subseteq DOMAIN a /\ ViewFields \subseteq DOMAIN v /\ Follows(a, v)
    BY <1>1, <1>2, <1>8
  <2>2. DOMAIN Minus(a.nets, N) = DOMAIN a.nets \ N  BY <1>7
  <2> HIDE DEF a, v
  <2>3. Follows(b, w)  BY <2>1, <2>2 DEF Follows, GraphFields, ViewFields
  <2> QED BY <1>5, <1>6, <1>8, <2>3 DEF a, v
<1>9. StillFollows(d, p)
  BY <1>5, <1>6, <1>8, EachFollows DEF StillFollows
<1> QED BY <1>3, <1>9

(* What drives an endpoint.                                                 *)
LEMMA RemoveDriverTrims ==
  ASSUME NEW d, NEW g \in DOMAIN d.graphs, NEW to, WellFormed(d)
  PROVE  Trims(d, RemoveDriver(d, g, to))
<1> DEFINE L == LinksInto(d.graphs[g], to)
           D == DeliveriesInto(d.graphs[g], to)
           r == RemoveLinks(d, g, L)
<1>1. Trims(d, r)  BY RemoveLinksTrims
<1>2. WellFormed(r) /\ g \in DOMAIN r.graphs  BY <1>1, TrimsFormed DEF Trims
<1>3. RemoveDriver(d, g, to) = RemoveSinks(r, g, D)  BY DEF RemoveDriver
<1> HIDE DEF r, D
<1>4. Trims(r, RemoveSinks(r, g, D))  BY <1>2, RemoveSinksTrims
<1> QED BY <1>1, <1>3, <1>4, TrimsTwice

(* Which is a link, or a sink.                                              *)
LEMMA RemoveDriverFollows ==
  ASSUME NEW d, NEW g \in DOMAIN d.graphs, NEW to, WellFormed(d)
  PROVE  StillFollows(d, RemoveDriver(d, g, to))
<1> DEFINE L == LinksInto(d.graphs[g], to)
           D == DeliveriesInto(d.graphs[g], to)
           r == RemoveLinks(d, g, L)
<1>1. Trims(d, r) /\ StillFollows(d, r)  BY RemoveLinksTrims, RemoveLinksFollows
<1>2. WellFormed(r) /\ g \in DOMAIN r.graphs  BY <1>1, TrimsFormed DEF Trims
<1>3. RemoveDriver(d, g, to) = RemoveSinks(r, g, D)  BY DEF RemoveDriver
<1> HIDE DEF r, D
<1>4. StillFollows(r, RemoveSinks(r, g, D))  BY <1>2, RemoveSinksFollows
<1> QED BY <1>1, <1>3, <1>4 DEF StillFollows

-----------------------------------------------------------------------------
(* Stages.                                                                    *)

(* What a well formed document has.                                         *)
LEMMA Formed ==
  ASSUME NEW d, WellFormed(d)
  PROVE  /\ {"graphs", "view", "tags", "tops", "panels", "panelSeq"} \subseteq DOMAIN d
         /\ d.panelSeq \in Nat
         /\ \A g \in DOMAIN d.graphs :
              /\ GraphFormed(d.graphs[g])
              /\ GraphFields \subseteq DOMAIN d.graphs[g]
              /\ d.graphs[g].next \in Nat
              /\ \A n \in DOMAIN d.graphs[g].nodes : \A f \in Families :
                   FamilyOf(d.graphs[g].nodes[n], f).seq \in Nat
         /\ \A g \in DOMAIN d.view :
              g \in DOMAIN d.graphs /\ ViewFormed(d.view[g]) /\ ViewFields \subseteq DOMAIN d.view[g]
         /\ \A g : ViewOf(d, g).seq \in Nat
         /\ \A o \in DOMAIN d.tops : d.tops[o].next \in Nat
<1>1. \A g \in DOMAIN d.graphs : \A n \in DOMAIN d.graphs[g].nodes : \A f \in Families :
        FamilyOf(d.graphs[g].nodes[n], f).seq \in Nat
  BY DEF WellFormed, GraphFormed, NodeFormed, FamilyFormed, FamilyOf
<1>2. \A g : ViewOf(d, g).seq \in Nat  BY DEF WellFormed, ViewFormed, ViewOf, EmptyView
<1>3. \A g \in DOMAIN d.view :
        g \in DOMAIN d.graphs /\ ViewFormed(d.view[g]) /\ ViewFields \subseteq DOMAIN d.view[g]
  BY DEF WellFormed, ViewFormed, ViewFields, EmptyView
<1>4. \A g \in DOMAIN d.graphs :
        /\ GraphFormed(d.graphs[g])
        /\ GraphFields \subseteq DOMAIN d.graphs[g]
        /\ d.graphs[g].next \in Nat
  BY DEF WellFormed, GraphFormed, GraphFields
<1> QED BY <1>1, <1>2, <1>3, <1>4 DEF WellFormed

(* What grows from a stage of a command, grows.                             *)
LEMMA StageGrows ==
  ASSUME NEW d, NEW r, NEW e, Stage(d, r), Grows(r, e)
  PROVE  Grows(d, e)
<1> WellFormed(d) /\ WellFormed(r) /\ WellFormed(e)  BY DEF Stage, Grows
<1>1. ASSUME NEW g \in DOMAIN d.graphs \intersect DOMAIN e.graphs
      PROVE  GraphGrows(d.graphs[g], e.graphs[g])
  <2> DEFINE a == d.graphs[g]
             b == r.graphs[g]
             c == e.graphs[g]
  <2>1. GraphGrows(a, b) /\ GraphGrows(b, c) /\ b.nodes = a.nodes
    BY <1>1 DEF Stage, Grows
  <2>2. a.next \in Nat /\ b.next \in Nat /\ c.next \in Nat  BY <1>1, Formed DEF Stage
  <2> HIDE DEF a, b, c
  <2>3. a.next <= c.next /\ (c.next = a.next \/ c.next <= MaxOrdinal)  BY <2>1, <2>2 DEF GraphGrows
  <2>4. FamiliesGrow(a, c)  BY <2>1 DEF GraphGrows, FamiliesGrow
  <2>5. GraphFormed(c)  BY <2>1 DEF GraphGrows
  <2> QED BY <2>3, <2>4, <2>5 DEF GraphGrows, a, c
<1>2. ASSUME NEW g \in DOMAIN d.graphs \intersect DOMAIN e.graphs
      PROVE  ViewGrows(d, e, g)
  <2>1. ViewGrows(d, r, g) /\ ViewGrows(r, e, g)  BY <1>2 DEF Stage, Grows
  <2>2. BoundGroups(d, g) = BoundGroups(r, g)  BY DEF Stage, BoundGroups
  <2>3. ViewOf(d, g).seq \in Nat /\ ViewOf(r, g).seq \in Nat /\ ViewOf(e, g).seq \in Nat  BY Formed
  <2> QED BY <2>1, <2>2, <2>3 DEF ViewGrows
<1>3. d.panelSeq <= e.panelSeq
  <2>1. d.panelSeq <= r.panelSeq /\ r.panelSeq <= e.panelSeq  BY DEF Stage, Grows
  <2> QED BY <2>1, Formed
<1>4. ASSUME NEW o \in DOMAIN d.tops PROVE o \in DOMAIN e.tops /\ d.tops[o].next <= e.tops[o].next
  <2>1. o \in DOMAIN r.tops /\ d.tops[o].next <= r.tops[o].next  BY <1>4 DEF Stage, Grows
  <2>2. o \in DOMAIN e.tops /\ r.tops[o].next <= e.tops[o].next  BY <2>1 DEF Grows
  <2> QED BY <1>4, <2>1, <2>2, Formed
<1>5. /\ DOMAIN d.view \intersect DOMAIN e.graphs \subseteq DOMAIN e.view
      /\ DOMAIN e.graphs \ DOMAIN d.graphs \subseteq DOMAIN e.view
  BY DEF Stage, Grows
<1>6. StillFollows(d, e)  BY DEF Stage, Grows, StillFollows
<1> QED BY <1>1, <1>2, <1>3, <1>4, <1>5, <1>6 DEF Grows

(* A stage after what grows, where no panel changed.                        *)
LEMMA GrowsStage ==
  ASSUME NEW d, NEW r, NEW e, WellFormed(d), Grows(d, r), r.panels = d.panels, Stage(r, e)
  PROVE  Grows(d, e)
<1> WellFormed(r) /\ WellFormed(e) /\ DOMAIN e.graphs = DOMAIN r.graphs /\ Grows(r, e)
  BY DEF Stage, Grows
<1>1. ASSUME NEW g \in DOMAIN d.graphs \intersect DOMAIN e.graphs
      PROVE  GraphGrows(d.graphs[g], e.graphs[g])
  <2> DEFINE a == d.graphs[g]
             b == r.graphs[g]
             c == e.graphs[g]
  <2>1. GraphGrows(a, b) /\ GraphGrows(b, c) /\ c.nodes = b.nodes
    BY <1>1 DEF Stage, Grows
  <2>2. a.next \in Nat /\ b.next \in Nat /\ c.next \in Nat  BY <1>1, Formed
  <2> HIDE DEF a, b, c
  <2>3. a.next <= c.next /\ (c.next = a.next \/ c.next <= MaxOrdinal)  BY <2>1, <2>2 DEF GraphGrows
  <2>4. FamiliesGrow(a, c)  BY <2>1 DEF GraphGrows, FamiliesGrow
  <2>5. GraphFormed(c)  BY <2>1 DEF GraphGrows
  <2> QED BY <2>3, <2>4, <2>5 DEF GraphGrows, a, c
<1>2. ASSUME NEW g \in DOMAIN d.graphs \intersect DOMAIN e.graphs
      PROVE  ViewGrows(d, e, g)
  <2>1. ViewGrows(d, r, g) /\ ViewGrows(r, e, g)  BY <1>2 DEF Grows
  <2>2. BoundGroups(d, g) = BoundGroups(r, g)  BY DEF BoundGroups
  <2>3. ViewOf(d, g).seq \in Nat /\ ViewOf(r, g).seq \in Nat /\ ViewOf(e, g).seq \in Nat  BY Formed
  <2> QED BY <2>1, <2>2, <2>3 DEF ViewGrows
<1>3. d.panelSeq <= e.panelSeq
  <2>1. d.panelSeq <= r.panelSeq /\ r.panelSeq <= e.panelSeq  BY DEF Grows
  <2> QED BY <2>1, Formed
<1>4. ASSUME NEW o \in DOMAIN d.tops PROVE o \in DOMAIN e.tops /\ d.tops[o].next <= e.tops[o].next
  <2>1. o \in DOMAIN r.tops /\ d.tops[o].next <= r.tops[o].next  BY <1>4 DEF Grows
  <2>2. o \in DOMAIN e.tops /\ r.tops[o].next <= e.tops[o].next  BY <2>1 DEF Grows
  <2> QED BY <1>4, <2>1, <2>2, Formed
<1>5. /\ DOMAIN d.view \intersect DOMAIN e.graphs \subseteq DOMAIN e.view
      /\ DOMAIN e.graphs \ DOMAIN d.graphs \subseteq DOMAIN e.view
  BY DEF Grows
<1>6. StillFollows(d, e)  BY DEF Stage, Grows, StillFollows
<1> QED BY <1>1, <1>2, <1>3, <1>4, <1>5, <1>6 DEF Grows

(* Stages follow each other.                                                *)
LEMMA StageTwice ==
  ASSUME NEW d, NEW r, NEW e, Stage(d, r), Stage(r, e)
  PROVE  Stage(d, e)
<1>1. Grows(d, e)  BY StageGrows DEF Stage
<1> QED BY <1>1 DEF Stage

(* Trimming is a stage.                                                     *)
LEMMA TrimsStage ==
  ASSUME NEW d, NEW e, WellFormed(d), Trims(d, e), StillFollows(d, e)
  PROVE  Stage(d, e)
BY TrimsGrow DEF Stage, Trims, GraphTrims

(* A stage may keep the document as it is.                                  *)
LEMMA StageSelf ==
  ASSUME NEW d, WellFormed(d)
  PROVE  Stage(d, d)
BY GrowsSelf DEF Stage

(* What a stage leaves.                                                     *)
LEMMA StageFormed ==
  ASSUME NEW d, NEW e, Stage(d, e)
  PROVE  WellFormed(d) /\ WellFormed(e) /\ DOMAIN e.graphs = DOMAIN d.graphs /\ Grows(d, e)
BY DEF Stage, Grows

(* A definition is given another value.                                     *)
LEMMA SetGraphIs ==
  ASSUME NEW d, WellFormed(d), NEW g \in DOMAIN d.graphs, NEW b
  PROVE  /\ SetGraph(d, g, b).graphs[g] = b
         /\ DOMAIN SetGraph(d, g, b).graphs = DOMAIN d.graphs
         /\ SetGraph(d, g, b).view = d.view
         /\ Edits(d, SetGraph(d, g, b), g)
<1>1. /\ {"graphs", "view", "tags", "tops", "panels", "panelSeq"} \subseteq DOMAIN d
      /\ g \in DOMAIN d.view => ViewFormed(d.view[g])
  BY Formed
<1> QED BY <1>1 DEF SetGraph, Edits, DocFields

(* The document grows with the definition.                                  *)
LEMMA SetGraphGrows ==
  ASSUME NEW d, WellFormed(d), NEW g \in DOMAIN d.graphs, NEW b, GraphGrows(d.graphs[g], b),
         HasAll(d.graphs[g], b)
  PROVE  Grows(d, SetGraph(d, g, b))
<1>1. ViewGrows(d, d, g)  BY GrowsSelf DEF Grows
<1>2. ViewGrows(d, SetGraph(d, g, b), g)  BY <1>1, SetGraphIs DEF ViewGrows, ViewOf
<1>3. ViewOf(SetGraph(d, g, b), g) = ViewOf(d, g)  BY SetGraphIs DEF ViewOf
<1> QED BY <1>2, <1>3, SetGraphIs, EditGrows, FollowsMore

(* Where its nodes stay, that is a stage.                                   *)
LEMMA SetGraphStage ==
  ASSUME NEW d, WellFormed(d), NEW g \in DOMAIN d.graphs, NEW b, Keeps(d.graphs[g], b)
  PROVE  Stage(d, SetGraph(d, g, b))
<1> DEFINE a == d.graphs[g]
           e == SetGraph(d, g, b)
<1>1. GraphGrows(a, a)  BY GrowsSelf DEF Grows
<1>2. GraphGrows(a, b)
  BY <1>1 DEF GraphGrows, GraphFormed, Keeps, FamiliesGrow, GraphFields
<1>3. Grows(d, e)  BY <1>2, SetGraphGrows DEF Keeps
<1> QED BY <1>3, SetGraphIs DEF Stage, Edits, Keeps

(* The canvas of a definition is given another value.                       *)
LEMMA SetViewStage ==
  ASSUME NEW d, WellFormed(d), NEW g \in DOMAIN d.view, NEW v, ViewFormed(v),
         d.view[g].seq <= v.seq, (v.groups \ d.view[g].groups) \intersect BoundGroups(d, g) = {},
         Follows(d.graphs[g], d.view[g]) => Follows(d.graphs[g], v)
  PROVE  Stage(d, SetView(d, g, v))
<1> DEFINE e == SetView(d, g, v)
<1>1. {"graphs", "view", "tags", "tops", "panels", "panelSeq"} \subseteq DOMAIN d /\ g \in DOMAIN d.graphs
  BY Formed
<1>2. Edits(d, e, g) /\ e.view[g] = v /\ e.graphs = d.graphs /\ g \in DOMAIN e.view
  BY <1>1 DEF SetView, Edits, DocFields
<1>3. ViewGrows(d, e, g)  BY <1>2 DEF ViewGrows, ViewOf
<1>4. GraphGrows(d.graphs[g], e.graphs[g])  BY <1>1, <1>2, GrowsSelf DEF Grows
<1>5. ViewOf(d, g) = d.view[g] /\ ViewOf(e, g) = v  BY <1>2 DEF ViewOf
<1>6. Grows(d, e)  BY <1>1, <1>2, <1>3, <1>4, <1>5, EditGrows
<1> QED BY <1>2, <1>6 DEF Stage, Edits

(* A definition is given a canvas.                                          *)
LEMMA WithViewStage ==
  ASSUME NEW d, WellFormed(d), NEW g \in DOMAIN d.graphs
  PROVE  /\ Stage(d, WithView(d, g))
         /\ g \in DOMAIN WithView(d, g).view
         /\ WithView(d, g).graphs = d.graphs
         /\ WithView(d, g).view[g] = ViewOf(d, g)
<1> DEFINE e == WithView(d, g)
<1>1. CASE g \in DOMAIN d.view  BY <1>1, StageSelf DEF WithView, ViewOf
<1>2. CASE g \notin DOMAIN d.view
  <2>1. {"graphs", "view", "tags", "tops", "panels", "panelSeq"} \subseteq DOMAIN d  BY Formed
  <2>2. e = [d EXCEPT !.view = Put(@, g, EmptyView)]  BY <1>2 DEF WithView
  <2>3. ViewFormed(EmptyView)  BY FS_EmptySet DEF ViewFormed, EmptyView
  <2>4. /\ DOMAIN e.view = DOMAIN d.view \union {g}
        /\ e.view[g] = EmptyView
        /\ \A h \in DOMAIN d.view : e.view[h] = d.view[h]
    BY <1>2, <2>1, <2>2 DEF Put
  <2>5. Edits(d, e, g) /\ e.graphs = d.graphs
    BY <2>1, <2>2, <2>3, <2>4 DEF Edits, DocFields
  <2>6. ViewOf(e, g) = ViewOf(d, g)  BY <1>2, <2>4 DEF ViewOf
  <2>7. ViewGrows(d, e, g)  BY <2>6, GrowsSelf DEF ViewGrows, Grows
  <2>8. GraphGrows(d.graphs[g], e.graphs[g])  BY <2>5, GrowsSelf DEF Grows
  <2>9. Grows(d, e)  BY <2>5, <2>6, <2>7, <2>8, EditGrows
  <2> QED BY <1>2, <2>4, <2>5, <2>6, <2>9 DEF Stage, Edits, ViewOf
<1> QED BY <1>1, <1>2

(* The cursor of a definition moves.                                        *)
LEMMA AdvancedStage ==
  ASSUME NEW d, WellFormed(d), NEW g \in DOMAIN d.graphs, NEW k \in Nat, CanMint(d, g, k)
  PROVE  /\ Stage(d, Advanced(d, g, k))
         /\ g \in DOMAIN Advanced(d, g, k).graphs
         /\ Advanced(d, g, k).graphs[g].next = d.graphs[g].next + k
         /\ Advanced(d, g, k).graphs[g].links = d.graphs[g].links
<1> DEFINE a == d.graphs[g]
           b == [a EXCEPT !.next = @ + k]
           e == SetGraph(d, g, b)
<1>1. Advanced(d, g, k) = e  BY DEF Advanced, SetGraph
<1>2. GraphFields \subseteq DOMAIN a /\ GraphFormed(a) /\ a.next \in Nat /\ GraphGrows(a, a)
  BY Formed, GrowsSelf DEF Grows
<1>3. a.next + k <= MaxOrdinal  BY DEF CanMint
<1> HIDE DEF a
<1>4. /\ DOMAIN b = DOMAIN a /\ b.next = a.next + k
      /\ b.nodes = a.nodes /\ b.links = a.links /\ b.selectors = a.selectors
      /\ AllIds(b) = AllIds(a) /\ HasAll(a, b)
  BY <1>2 DEF GraphFields, AllIds, HasAll
<1> HIDE DEF b
<1>5. GraphFormed(b)  BY <1>2, <1>4 DEF GraphFormed
<1>6. GraphGrows(a, b)  BY <1>2, <1>3, <1>4, <1>5 DEF GraphGrows, FamiliesGrow
<1>7. Grows(d, e)  BY <1>4, <1>6, SetGraphGrows DEF a
<1>8. Stage(d, e)  BY <1>4, <1>7, SetGraphIs DEF Stage, Edits, a
<1> QED BY <1>1, <1>4, <1>8, SetGraphIs DEF a

(* The links of a definition are others, with ids that were given out.      *)
LEMMA LinksStage ==
  ASSUME NEW d, WellFormed(d), NEW g \in DOMAIN d.graphs, NEW links,
         DOMAIN links \subseteq 0 .. d.graphs[g].next - 1
  PROVE  LET e == [d EXCEPT !.graphs[g].links = links]
         IN  /\ Stage(d, e)
             /\ DOMAIN e.graphs = DOMAIN d.graphs
             /\ e.graphs[g].links = links
             /\ e.graphs[g].next = d.graphs[g].next
<1> DEFINE a == d.graphs[g]
           b == [a EXCEPT !.links = links]
           e == SetGraph(d, g, b)
<1>1. [d EXCEPT !.graphs[g].links = links] = e  BY DEF SetGraph
<1>2. GraphFields \subseteq DOMAIN a /\ AllIds(a) \subseteq 0 .. a.next - 1 /\ SelectorsFormed(a.selectors)
  BY Formed DEF GraphFormed
<1> HIDE DEF a
<1>3. Keeps(a, b)  BY <1>2 DEF Keeps, HasAll, GraphFields, AllIds, a
<1>4. b.links = links /\ b.next = a.next  BY <1>2 DEF GraphFields
<1> HIDE DEF b
<1>5. Stage(d, e)  BY <1>3, SetGraphStage DEF a
<1> QED BY <1>1, <1>4, <1>5, SetGraphIs DEF a

(* The nets of a definition are others, with ids that were given out.       *)
LEMMA NetsStage ==
  ASSUME NEW d, WellFormed(d), NEW g \in DOMAIN d.graphs, NEW nets,
         DOMAIN nets \subseteq 0 .. d.graphs[g].next - 1,
         DOMAIN d.graphs[g].nets \subseteq DOMAIN nets
  PROVE  Stage(d, [d EXCEPT !.graphs[g].nets = nets])
<1> DEFINE a == d.graphs[g]
           b == [a EXCEPT !.nets = nets]
<1>1. [d EXCEPT !.graphs[g].nets = nets] = SetGraph(d, g, b)  BY DEF SetGraph
<1>2. /\ GraphFields \subseteq DOMAIN a /\ AllIds(a) \subseteq 0 .. a.next - 1 /\ SelectorsFormed(a.selectors)
      /\ DOMAIN a.nets \subseteq DOMAIN nets
  BY Formed DEF GraphFormed
<1> HIDE DEF a
<1>3. Keeps(a, b)  BY <1>2 DEF Keeps, HasAll, GraphFields, AllIds, a
<1> HIDE DEF b
<1> QED BY <1>1, <1>3, SetGraphStage DEF a

(* The same for its reroutes and its value sources.                         *)
LEMMA PointsStage ==
  ASSUME NEW d, WellFormed(d), NEW g \in DOMAIN d.graphs, NEW S,
         S \subseteq 0 .. d.graphs[g].next - 1
  PROVE  /\ d.graphs[g].reroutes \subseteq S => Stage(d, [d EXCEPT !.graphs[g].reroutes = S])
         /\ d.graphs[g].sources \subseteq S => Stage(d, [d EXCEPT !.graphs[g].sources = S])
<1> DEFINE a == d.graphs[g]
           b == [a EXCEPT !.reroutes = S]
           c == [a EXCEPT !.sources = S]
<1>1. /\ [d EXCEPT !.graphs[g].reroutes = S] = SetGraph(d, g, b)
      /\ [d EXCEPT !.graphs[g].sources = S] = SetGraph(d, g, c)
  BY DEF SetGraph
<1>2. GraphFields \subseteq DOMAIN a /\ AllIds(a) \subseteq 0 .. a.next - 1 /\ SelectorsFormed(a.selectors)
  BY Formed DEF GraphFormed
<1> HIDE DEF a
<1>3. a.reroutes \subseteq S => Keeps(a, b)  BY <1>2 DEF Keeps, HasAll, GraphFields, AllIds, a
<1>4. a.sources \subseteq S => Keeps(a, c)  BY <1>2 DEF Keeps, HasAll, GraphFields, AllIds, a
<1> HIDE DEF b, c
<1> QED BY <1>1, <1>3, <1>4, SetGraphStage DEF a

(* The same for its selectors.                                              *)
LEMMA SelectorsStage ==
  ASSUME NEW d, WellFormed(d), NEW g \in DOMAIN d.graphs, NEW selectors, SelectorsFormed(selectors),
         DOMAIN selectors \subseteq 0 .. d.graphs[g].next - 1,
         DOMAIN d.graphs[g].selectors \subseteq DOMAIN selectors
  PROVE  Stage(d, [d EXCEPT !.graphs[g].selectors = selectors])
<1> DEFINE a == d.graphs[g]
           b == [a EXCEPT !.selectors = selectors]
<1>1. [d EXCEPT !.graphs[g].selectors = selectors] = SetGraph(d, g, b)  BY DEF SetGraph
<1>2. /\ GraphFields \subseteq DOMAIN a /\ AllIds(a) \subseteq 0 .. a.next - 1 /\ SelectorsFormed(a.selectors)
      /\ DOMAIN a.selectors \subseteq DOMAIN selectors
  BY Formed DEF GraphFormed
<1> HIDE DEF a
<1>3. Keeps(a, b)  BY <1>2 DEF Keeps, HasAll, GraphFields, AllIds, a
<1> HIDE DEF b
<1> QED BY <1>1, <1>3, SetGraphStage DEF a

(* The same for its boundary.                                               *)
LEMMA BoundaryStage ==
  ASSUME NEW d, WellFormed(d), NEW g \in DOMAIN d.graphs, NEW boundary
  PROVE  Stage(d, [d EXCEPT !.graphs[g].boundary = boundary])
<1> DEFINE a == d.graphs[g]
           b == [a EXCEPT !.boundary = boundary]
<1>1. [d EXCEPT !.graphs[g].boundary = boundary] = SetGraph(d, g, b)  BY DEF SetGraph
<1>2. GraphFields \subseteq DOMAIN a /\ AllIds(a) \subseteq 0 .. a.next - 1 /\ SelectorsFormed(a.selectors)
  BY Formed DEF GraphFormed
<1> HIDE DEF a
<1>3. Keeps(a, b)  BY <1>2 DEF Keeps, HasAll, GraphFields, AllIds, a
<1> HIDE DEF b
<1> QED BY <1>1, <1>3, SetGraphStage DEF a

(* Places on the canvas of a definition: anything but its groups and cursor. *)
LEMMA PlacesStage ==
  ASSUME NEW d, WellFormed(d), NEW g \in DOMAIN d.view, NEW v, ViewTrims(d.view[g], v),
         Follows(d.graphs[g], d.view[g]) => Follows(d.graphs[g], v)
  PROVE  Stage(d, SetView(d, g, v))
<1>1. ViewFormed(d.view[g])  BY Formed
<1>2. ViewFormed(v)  BY <1>1 DEF ViewTrims, ViewFormed, ViewFields, EmptyView
<1>3. d.view[g].seq <= v.seq /\ v.groups \ d.view[g].groups = {}  BY <1>1 DEF ViewTrims, ViewFormed
<1> QED BY <1>2, <1>3, SetViewStage

(* A definition and its canvas change together.                             *)
LEMMA TogetherGrows ==
  ASSUME NEW d, WellFormed(d), NEW g \in DOMAIN d.graphs, NEW b, GraphGrows(d.graphs[g], b), NEW v,
         g \in DOMAIN d.view =>
           /\ ViewTrims(d.view[g], v)
           /\ Follows(d.graphs[g], d.view[g]) => Follows(b, v)
  PROVE  Grows(d, IF g \in DOMAIN d.view THEN SetView(SetGraph(d, g, b), g, v) ELSE SetGraph(d, g, b))
<1> DEFINE r == SetGraph(d, g, b)
           e == IF g \in DOMAIN d.view THEN SetView(r, g, v) ELSE r
<1>1. r.graphs[g] = b /\ DOMAIN r.graphs = DOMAIN d.graphs /\ r.view = d.view /\ Edits(d, r, g)
  BY SetGraphIs
<1> HIDE DEF r
<1>2. ViewGrows(d, d, g)  BY GrowsSelf DEF Grows
<1>3. CASE g \in DOMAIN d.view
  <2>1. e = [r EXCEPT !.view[g] = v]  BY <1>3 DEF SetView
  <2>2. ViewFormed(d.view[g])  BY <1>3, Formed
  <2>3. ViewFormed(v) /\ v.seq = d.view[g].seq /\ v.groups = d.view[g].groups
    BY <1>3, <2>2 DEF ViewTrims, ViewFormed, ViewFields, EmptyView
  <2> HIDE DEF e
  <2>4. e.graphs = r.graphs /\ e.view[g] = v /\ DOMAIN e.view = DOMAIN d.view
    BY <1>1, <1>3, <2>1 DEF Edits, DocFields
  <2>5. Edits(d, e, g)  BY <1>1, <1>3, <2>1, <2>3 DEF Edits, DocFields
  <2>6. ViewOf(d, g) = d.view[g] /\ ViewOf(e, g) = v  BY <1>3, <2>4 DEF ViewOf
  <2>7. ViewGrows(d, e, g)  BY <1>2, <2>3, <2>6 DEF ViewGrows
  <2>8. Grows(d, e)  BY <1>1, <1>3, <2>4, <2>5, <2>6, <2>7, EditGrows
  <2> QED BY <2>8 DEF e, r
<1>4. CASE g \notin DOMAIN d.view
  <2>1. e = r  BY <1>4
  <2>2. ViewOf(d, g) = EmptyView /\ ViewOf(r, g) = EmptyView  BY <1>1, <1>4 DEF ViewOf
  <2>3. ViewGrows(d, r, g)  BY <1>2, <2>2 DEF ViewGrows
  <2>4. Grows(d, r)  BY <1>1, <2>2, <2>3, EditGrows, EmptyFollows
  <2> QED BY <2>1, <2>4 DEF r
<1> QED BY <1>3, <1>4

(* A link is added.                                                         *)
LEMMA AddLinkStage ==
  ASSUME NEW d, WellFormed(d), NEW g \in DOMAIN d.graphs, NEW l \in Nat, l < d.graphs[g].next,
         NEW from, NEW to
  PROVE  LET e == AddLink(d, g, l, from, to)
         IN  /\ Stage(d, e)
             /\ DOMAIN e.graphs = DOMAIN d.graphs
             /\ e.graphs[g].next = d.graphs[g].next
<1> DEFINE links == Put(d.graphs[g].links, l, [from |-> from, to |-> to])
<1>1. GraphFormed(d.graphs[g])  BY Formed
<1>2. DOMAIN links = DOMAIN d.graphs[g].links \union {l}  BY DEF Put
<1>3. DOMAIN links \subseteq 0 .. d.graphs[g].next - 1
  BY <1>1, <1>2 DEF GraphFormed, AllIds
<1>4. AddLink(d, g, l, from, to) = [d EXCEPT !.graphs[g].links = links]  BY DEF AddLink
<1> HIDE DEF links
<1> QED BY <1>3, <1>4, LinksStage

-----------------------------------------------------------------------------
(* The commands that wire.                                                    *)

(* What drives an endpoint goes: a stage.                                   *)
LEMMA RemoveDriverStage ==
  ASSUME NEW d, WellFormed(d), NEW g \in DOMAIN d.graphs, NEW to
  PROVE  LET r == RemoveDriver(d, g, to)
         IN  /\ Stage(d, r) /\ WellFormed(r)
             /\ g \in DOMAIN r.graphs
             /\ r.graphs[g].next = d.graphs[g].next
<1> DEFINE r == RemoveDriver(d, g, to)
<1>1. Trims(d, r) /\ StillFollows(d, r)  BY RemoveDriverTrims, RemoveDriverFollows
<1> HIDE DEF r
<1>2. Stage(d, r) /\ WellFormed(r)  BY <1>1, TrimsStage, TrimsFormed
<1> QED BY <1>1, <1>2 DEF Trims, GraphTrims, r

(* The same for links.                                                      *)
LEMMA RemoveLinksStage ==
  ASSUME NEW d, WellFormed(d), NEW g \in DOMAIN d.graphs, NEW L
  PROVE  LET r == RemoveLinks(d, g, L)
         IN  /\ Stage(d, r) /\ WellFormed(r)
             /\ g \in DOMAIN r.graphs
             /\ r.graphs[g].next = d.graphs[g].next
<1> DEFINE r == RemoveLinks(d, g, L)
<1>1. Trims(d, r) /\ StillFollows(d, r)  BY RemoveLinksTrims, RemoveLinksFollows
<1> HIDE DEF r
<1>2. Stage(d, r) /\ WellFormed(r)  BY <1>1, TrimsStage, TrimsFormed
<1> QED BY <1>1, <1>2 DEF Trims, GraphTrims, r

(* link.connect                                                             *)
LEMMA LinkConnectGrows ==
  ASSUME NEW d, WellFormed(d), NEW g \in DOMAIN d.graphs, NEW from, NEW to,
         NEW e \in LinkConnect(d, g, from, to)
  PROVE  Grows(d, e)
<1> DEFINE r == RemoveDriver(d, g, to)
           s == Advanced(r, g, 1)
<1>1. e = AddLink(s, g, Mint(d, g, 0), from, to) /\ CanMint(d, g, 1)
  BY DEF LinkConnect, When
<1>2. /\ Stage(d, r) /\ WellFormed(r) /\ g \in DOMAIN r.graphs
      /\ r.graphs[g].next = d.graphs[g].next
  BY RemoveDriverStage
<1> HIDE DEF r
<1>3. CanMint(r, g, 1)  BY <1>1, <1>2 DEF CanMint
<1>4. /\ Stage(r, s) /\ g \in DOMAIN s.graphs
      /\ s.graphs[g].next = r.graphs[g].next + 1
  BY <1>2, <1>3, AdvancedStage
<1> HIDE DEF s
<1>5. Mint(d, g, 0) \in Nat /\ Mint(d, g, 0) < s.graphs[g].next
  BY <1>2, <1>4, Formed DEF Mint
<1>6. Stage(s, e)  BY <1>1, <1>4, <1>5, AddLinkStage, StageFormed
<1> QED BY <1>2, <1>4, <1>6, StageTwice, StageFormed

(* link.rewire                                                              *)
LEMMA LinkRewireGrows ==
  ASSUME NEW d, WellFormed(d), NEW g \in DOMAIN d.graphs, NEW l, NEW to,
         NEW e \in LinkRewire(d, g, l, to)
  PROVE  Grows(d, e)
<1> DEFINE r == RemoveDriver(d, g, to)
           links == [r.graphs[g].links EXCEPT ![l].to = to]
<1>1. CASE e = d  BY <1>1, GrowsSelf
<1>2. CASE e = [r EXCEPT !.graphs[g].links = links]
  <2>1. Stage(d, r) /\ WellFormed(r) /\ g \in DOMAIN r.graphs  BY RemoveDriverStage
  <2> HIDE DEF r
  <2>2. GraphFormed(r.graphs[g])  BY <2>1, Formed
  <2>3. DOMAIN links \subseteq 0 .. r.graphs[g].next - 1  BY <2>2 DEF GraphFormed, AllIds
  <2> HIDE DEF links
  <2>4. Stage(r, e)  BY <1>2, <2>1, <2>3, LinksStage
  <2> QED BY <2>1, <2>4, StageTwice, StageFormed
<1>3. e = d \/ e = [r EXCEPT !.graphs[g].links = links]  BY DEF LinkRewire, When
<1> QED BY <1>1, <1>2, <1>3

(* link.rewireSource                                                        *)
LEMMA LinkRewireSourceGrows ==
  ASSUME NEW d, WellFormed(d), NEW g \in DOMAIN d.graphs, NEW L, NEW from,
         NEW e \in LinkRewireSource(d, g, L, from)
  PROVE  Grows(d, e)
<1>1. PICK links : e = [d EXCEPT !.graphs[g].links = links] /\ DOMAIN links = DOMAIN d.graphs[g].links
  BY DEF LinkRewireSource, When
<1>2. GraphFormed(d.graphs[g])  BY Formed
<1>3. DOMAIN links \subseteq 0 .. d.graphs[g].next - 1  BY <1>1, <1>2 DEF GraphFormed, AllIds
<1> QED BY <1>1, <1>3, LinksStage, StageFormed

(* link.disconnect                                                          *)
LEMMA LinkDisconnectGrows ==
  ASSUME NEW d, WellFormed(d), NEW g \in DOMAIN d.graphs, NEW l,
         NEW e \in LinkDisconnect(d, g, l)
  PROVE  Grows(d, e)
BY RemoveLinksTrims, RemoveLinksFollows, TrimsGrow DEF LinkDisconnect

(* net.create                                                               *)
LEMMA NetCreateGrows ==
  ASSUME NEW d, WellFormed(d), NEW g \in DOMAIN d.graphs, NEW name, NEW source,
         NEW e \in NetCreate(d, g, name, source)
  PROVE  Grows(d, e)
<1> DEFINE s == Advanced(d, g, 1)
           net == [name |-> Trim(name), source |-> source, sinks |-> {}]
           nets == Put(s.graphs[g].nets, d.graphs[g].next, net)
<1>1. CanMint(d, g, 1) /\ e = [s EXCEPT !.graphs[g].nets = Put(@, Mint(d, g, 0), net)]
  BY DEF NetCreate, When
<1>2. /\ Stage(d, s) /\ WellFormed(s) /\ g \in DOMAIN s.graphs
      /\ s.graphs[g].next = d.graphs[g].next + 1
  BY <1>1, AdvancedStage, StageFormed
<1>3. Mint(d, g, 0) = d.graphs[g].next /\ d.graphs[g].next \in Nat  BY Formed DEF Mint
<1>4. e = [s EXCEPT !.graphs[g].nets = nets]  BY <1>1, <1>3
<1> HIDE DEF s, net
<1>5. GraphFormed(s.graphs[g])  BY <1>2, Formed
<1>6. DOMAIN nets = DOMAIN s.graphs[g].nets \union {d.graphs[g].next}  BY DEF Put
<1>7. DOMAIN nets \subseteq 0 .. s.graphs[g].next - 1
  BY <1>2, <1>3, <1>5, <1>6 DEF GraphFormed, AllIds
<1>9. DOMAIN s.graphs[g].nets \subseteq DOMAIN nets  BY <1>6
<1> HIDE DEF nets
<1>8. Stage(s, e)  BY <1>2, <1>4, <1>7, <1>9, NetsStage
<1> QED BY <1>2, <1>8, StageTwice, StageFormed

(* Nets of which none has a new id.                                         *)
LEMMA NetsGrow ==
  ASSUME NEW d, WellFormed(d), NEW g \in DOMAIN d.graphs, NEW nets,
         DOMAIN nets = DOMAIN d.graphs[g].nets
  PROVE  Stage(d, [d EXCEPT !.graphs[g].nets = nets])
<1>1. GraphFormed(d.graphs[g])  BY Formed
<1>2. DOMAIN nets \subseteq 0 .. d.graphs[g].next - 1  BY <1>1 DEF GraphFormed, AllIds
<1> QED BY <1>2, NetsStage

(* net.connectInput                                                         *)
LEMMA NetConnectInputGrows ==
  ASSUME NEW d, WellFormed(d), NEW g \in DOMAIN d.graphs, NEW net, NEW to,
         NEW e \in NetConnectInput(d, g, net, to)
  PROVE  Grows(d, e)
<1> DEFINE r == RemoveDriver(d, g, to)
           nets == [r.graphs[g].nets EXCEPT ![net].sinks = @ \union {to}]
<1>1. CASE e = d  BY <1>1, GrowsSelf
<1>2. CASE e = [r EXCEPT !.graphs[g].nets = nets]
  <2>1. Stage(d, r) /\ WellFormed(r) /\ g \in DOMAIN r.graphs  BY RemoveDriverStage
  <2>2. DOMAIN nets = DOMAIN r.graphs[g].nets  OBVIOUS
  <2> HIDE DEF r, nets
  <2>3. Stage(r, e)  BY <1>2, <2>1, <2>2, NetsGrow
  <2> QED BY <2>1, <2>3, StageTwice, StageFormed
<1>3. e = d \/ e = [r EXCEPT !.graphs[g].nets = nets]  BY DEF NetConnectInput, When
<1> QED BY <1>1, <1>2, <1>3

(* net.disconnectInput                                                      *)
LEMMA NetDisconnectInputGrows ==
  ASSUME NEW d, WellFormed(d), NEW g \in DOMAIN d.graphs, NEW to,
         NEW e \in NetDisconnectInput(d, g, to)
  PROVE  Grows(d, e)
<1> DEFINE D == DeliveriesInto(d.graphs[g], to)
<1>1. e = RemoveSinks(d, g, D)  BY DEF NetDisconnectInput, When
<1> HIDE DEF D
<1> QED BY <1>1, RemoveSinksTrims, RemoveSinksFollows, TrimsGrow

(* net.setSource                                                            *)
LEMMA NetSetSourceGrows ==
  ASSUME NEW d, WellFormed(d), NEW g \in DOMAIN d.graphs, NEW net, NEW source,
         NEW e \in NetSetSource(d, g, net, source)
  PROVE  Grows(d, e)
<1> DEFINE nets == [d.graphs[g].nets EXCEPT ![net].source = source]
<1>1. e = d \/ e = [d EXCEPT !.graphs[g].nets = nets]  BY DEF NetSetSource, When
<1>2. DOMAIN nets = DOMAIN d.graphs[g].nets  OBVIOUS
<1> HIDE DEF nets
<1> QED BY <1>1, <1>2, GrowsSelf, NetsGrow, StageFormed

(* net.rename                                                               *)
LEMMA NetRenameGrows ==
  ASSUME NEW d, WellFormed(d), NEW g \in DOMAIN d.graphs, NEW net, NEW name,
         NEW e \in NetRename(d, g, net, name)
  PROVE  Grows(d, e)
<1> DEFINE nets == [d.graphs[g].nets EXCEPT ![net].name = Trim(name)]
<1>1. e = [d EXCEPT !.graphs[g].nets = nets]  BY DEF NetRename, When
<1>2. DOMAIN nets = DOMAIN d.graphs[g].nets  OBVIOUS
<1> HIDE DEF nets
<1> QED BY <1>1, <1>2, NetsGrow, StageFormed

(* net.remove                                                               *)
LEMMA NetRemoveGrows ==
  ASSUME NEW d, WellFormed(d), NEW g \in DOMAIN d.graphs, NEW net,
         NEW e \in NetRemove(d, g, net)
  PROVE  Grows(d, e)
BY RemoveNetsTrims, RemoveNetsFollows, TrimsGrow DEF NetRemove

(* net.resetView                                                            *)
LEMMA NetResetViewGrows ==
  ASSUME NEW d, WellFormed(d), NEW g, NEW net, NEW tag,
         NEW e \in NetResetView(d, g, net, tag)
  PROVE  Grows(d, e)
<1>1. e = [d EXCEPT !.tags = @ \ {tag}]  BY DEF NetResetView, When
<1>2. Trims(d, d)  BY TrimsSelf
<1>3. Trims(d, e)  BY <1>1, <1>2 DEF Trims, DocFields
<1>4. StillFollows(d, e)  BY <1>1, Formed DEF StillFollows, ViewFollows
<1> QED BY <1>3, <1>4, TrimsGrow

(* A new reroute, value source or selector is placed: its id is the last    *)
(* one given out.                                                           *)
LEMMA PlacedStage ==
  ASSUME NEW d, WellFormed(d), NEW g \in DOMAIN d.graphs, NEW x \in Nat, x < d.graphs[g].next
  PROVE  LET v == WithView(d, g)
             r == [v EXCEPT !.graphs[g].reroutes = @ \union {x}]
             s == [v EXCEPT !.graphs[g].sources = @ \union {x}]
         IN  /\ Stage(d, SetView(r, g, [r.view[g] EXCEPT !.reroutes = @ \union {x}]))
             /\ Stage(d, SetView(s, g, [s.view[g] EXCEPT !.sources = @ \union {x}]))
<1> DEFINE v == WithView(d, g)
           a == v.graphs[g]
           r == [v EXCEPT !.graphs[g].reroutes = @ \union {x}]
           s == [v EXCEPT !.graphs[g].sources = @ \union {x}]
<1>1. Stage(d, v) /\ g \in DOMAIN v.view /\ v.graphs = d.graphs  BY WithViewStage
<1>2. WellFormed(v)  BY <1>1, StageFormed
<1> HIDE DEF v
<1>3. GraphFormed(a)  BY <1>1, <1>2, Formed
<1>4. /\ a.reroutes \union {x} \subseteq 0 .. a.next - 1
      /\ a.sources \union {x} \subseteq 0 .. a.next - 1
  BY <1>1, <1>3 DEF GraphFormed, AllIds
<1>5. Stage(v, r) /\ Stage(v, s)  BY <1>1, <1>2, <1>4, PointsStage
<1>6. r.view = v.view /\ s.view = v.view  OBVIOUS
<1>12. /\ r.graphs[g] = [v.graphs[g] EXCEPT !.reroutes = @ \union {x}]
       /\ s.graphs[g] = [v.graphs[g] EXCEPT !.sources = @ \union {x}]
  BY <1>1, <1>2, Formed
<1>13. GraphFields \subseteq DOMAIN v.graphs[g]  BY <1>1, <1>2, Formed
<1> HIDE DEF r, s
<1>7. WellFormed(r) /\ WellFormed(s)  BY <1>5, StageFormed
<1>8. ViewFields \subseteq DOMAIN v.view[g]  BY <1>1, <1>2, Formed
<1>9. /\ ViewTrims(v.view[g], [v.view[g] EXCEPT !.reroutes = @ \union {x}])
      /\ ViewTrims(v.view[g], [v.view[g] EXCEPT !.sources = @ \union {x}])
  BY <1>8 DEF ViewTrims, ViewFields
<1>14. /\ Follows(r.graphs[g], v.view[g]) =>
            Follows(r.graphs[g], [v.view[g] EXCEPT !.reroutes = @ \union {x}])
       /\ Follows(s.graphs[g], v.view[g]) =>
            Follows(s.graphs[g], [v.view[g] EXCEPT !.sources = @ \union {x}])
  BY <1>8, <1>12, <1>13 DEF Follows, GraphFields, ViewFields
<1>10. /\ Stage(r, SetView(r, g, [r.view[g] EXCEPT !.reroutes = @ \union {x}]))
       /\ Stage(s, SetView(s, g, [s.view[g] EXCEPT !.sources = @ \union {x}]))
  BY <1>1, <1>6, <1>7, <1>9, <1>14, PlacesStage
<1>11. Stage(d, r) /\ Stage(d, s)  BY <1>1, <1>5, StageTwice
<1> QED BY <1>10, <1>11, StageTwice DEF v, r, s

(* reroute.add                                                              *)
LEMMA RerouteAddGrows ==
  ASSUME NEW d, WellFormed(d), NEW g \in DOMAIN d.graphs, NEW e \in RerouteAdd(d, g)
  PROVE  Grows(d, e)
<1> DEFINE s == Advanced(d, g, 1)
           v == WithView(s, g)
           x == Mint(d, g, 0)
           r == [v EXCEPT !.graphs[g].reroutes = @ \union {x}]
<1>1. CanMint(d, g, 1) /\ e = SetView(r, g, [r.view[g] EXCEPT !.reroutes = @ \union {x}])
  BY DEF RerouteAdd, When, SetView
<1>2. /\ Stage(d, s) /\ WellFormed(s) /\ g \in DOMAIN s.graphs
      /\ s.graphs[g].next = d.graphs[g].next + 1
  BY <1>1, AdvancedStage, StageFormed
<1>3. x \in Nat /\ x < s.graphs[g].next  BY <1>2, Formed DEF Mint
<1> HIDE DEF s, x
<1>4. Stage(s, e)  BY <1>1, <1>2, <1>3, PlacedStage
<1> QED BY <1>2, <1>4, StageTwice, StageFormed

(* valueSource.add                                                          *)
LEMMA ValueSourceAddGrows ==
  ASSUME NEW d, WellFormed(d), NEW g \in DOMAIN d.graphs, NEW e \in ValueSourceAdd(d, g)
  PROVE  Grows(d, e)
<1> DEFINE s == Advanced(d, g, 1)
           v == WithView(s, g)
           x == Mint(d, g, 0)
           r == [v EXCEPT !.graphs[g].sources = @ \union {x}]
<1>1. CanMint(d, g, 1) /\ e = SetView(r, g, [r.view[g] EXCEPT !.sources = @ \union {x}])
  BY DEF ValueSourceAdd, When, SetView
<1>2. /\ Stage(d, s) /\ WellFormed(s) /\ g \in DOMAIN s.graphs
      /\ s.graphs[g].next = d.graphs[g].next + 1
  BY <1>1, AdvancedStage, StageFormed
<1>3. x \in Nat /\ x < s.graphs[g].next  BY <1>2, Formed DEF Mint
<1> HIDE DEF s, x
<1>4. Stage(s, e)  BY <1>1, <1>2, <1>3, PlacedStage
<1> QED BY <1>2, <1>4, StageTwice, StageFormed

(* reroute.insert                                                           *)
LEMMA RerouteInsertGrows ==
  ASSUME NEW d, WellFormed(d), NEW g \in DOMAIN d.graphs, NEW l, NEW e \in RerouteInsert(d, g, l)
  PROVE  Grows(d, e)
<1> DEFINE link == d.graphs[g].links[l]
           x == Mint(d, g, 0)
           s == Advanced(d, g, 3)
           cut == RemoveLinks(s, g, {l})
           half == AddLink(cut, g, Mint(d, g, 1), link.from, Reroute(x))
           split == AddLink(half, g, Mint(d, g, 2), Reroute(x), link.to)
           v == WithView(split, g)
           r == [v EXCEPT !.graphs[g].reroutes = @ \union {x}]
<1>1. e = SetView(r, g, [r.view[g] EXCEPT !.reroutes = @ \union {x}])
  BY DEF RerouteInsert, When, SetView
<1> HIDE DEF r, v
<1>0. CanMint(d, g, 3)  BY DEF RerouteInsert, When
<1>2. /\ x \in Nat /\ x < d.graphs[g].next + 3
      /\ Mint(d, g, 1) \in Nat /\ Mint(d, g, 1) < d.graphs[g].next + 3
      /\ Mint(d, g, 2) \in Nat /\ Mint(d, g, 2) < d.graphs[g].next + 3
  BY Formed DEF Mint
<1>3. /\ Stage(d, s) /\ WellFormed(s) /\ g \in DOMAIN s.graphs
      /\ s.graphs[g].next = d.graphs[g].next + 3
  BY <1>0, AdvancedStage, StageFormed
<1> HIDE DEF s, link, x
<1>4. /\ Stage(s, cut) /\ WellFormed(cut) /\ g \in DOMAIN cut.graphs
      /\ cut.graphs[g].next = d.graphs[g].next + 3
  BY <1>3, RemoveLinksStage
<1> HIDE DEF cut
<1>5. /\ Stage(cut, half) /\ WellFormed(half) /\ g \in DOMAIN half.graphs
      /\ half.graphs[g].next = d.graphs[g].next + 3
  BY <1>2, <1>4, AddLinkStage, StageFormed
<1> HIDE DEF half
<1>6. /\ Stage(half, split) /\ WellFormed(split) /\ g \in DOMAIN split.graphs
      /\ split.graphs[g].next = d.graphs[g].next + 3
  BY <1>2, <1>5, AddLinkStage, StageFormed
<1> HIDE DEF split
<1>7. Stage(split, e)  BY <1>1, <1>2, <1>6, PlacedStage DEF r, v
<1>8. Stage(d, half)  BY <1>3, <1>4, <1>5, StageTwice
<1> QED BY <1>6, <1>7, <1>8, StageTwice, StageFormed

(* Reroutes that go, from the definition and from its canvas.               *)
LEMMA DropReroutesStage ==
  ASSUME NEW d, WellFormed(d), NEW g \in DOMAIN d.graphs, NEW R
  PROVE  Stage(d, DropReroutes(d, g, R))
<1> DEFINE a == d.graphs[g]
           b == [a EXCEPT !.reroutes = @ \ R]
           v == [d.view[g] EXCEPT !.reroutes = @ \ R]
           r == SetGraph(d, g, b)
           e == DropReroutes(d, g, R)
<1>1. GraphFormed(a) /\ GraphFields \subseteq DOMAIN a /\ GraphGrows(a, a)
  BY Formed, GrowsSelf DEF Grows
<1>2. r.view = d.view  BY SetGraphIs
<1>3. e = IF g \in DOMAIN d.view THEN SetView(r, g, v) ELSE r
  BY <1>2 DEF DropReroutes, SetGraph, SetView
<1> HIDE DEF a
<1>4. /\ DOMAIN b = DOMAIN a /\ b.nodes = a.nodes /\ b.selectors = a.selectors /\ b.next = a.next
      /\ b.nets = a.nets /\ b.sources = a.sources /\ b.reroutes = a.reroutes \ R
      /\ AllIds(b) \subseteq AllIds(a)
  BY <1>1 DEF GraphFields, AllIds
<1> HIDE DEF b
<1>5. GraphGrows(a, b)
  <2>1. GraphFormed(b)  BY <1>1, <1>4 DEF GraphFormed
  <2> QED BY <1>1, <1>4, <2>1 DEF GraphGrows, FamiliesGrow
<1>6. ASSUME g \in DOMAIN d.view
      PROVE  ViewTrims(d.view[g], v) /\ (Follows(a, d.view[g]) => Follows(b, v))
  <2>1. ViewFields \subseteq DOMAIN d.view[g]  BY <1>6, Formed
  <2> QED BY <1>4, <2>1 DEF ViewTrims, ViewFields, Follows
<1> HIDE DEF v
<1>7. Grows(d, e)  BY <1>3, <1>5, <1>6, TogetherGrows DEF a, r
<1> HIDE DEF e
<1>8. /\ DOMAIN e.graphs = DOMAIN d.graphs /\ e.panels = d.panels
      /\ \A h \in DOMAIN d.graphs : e.graphs[h].nodes = d.graphs[h].nodes
  <2>1. /\ DOMAIN r.graphs = DOMAIN d.graphs /\ r.panels = d.panels
        /\ \A h \in DOMAIN d.graphs : r.graphs[h].nodes = d.graphs[h].nodes
    BY <1>4, SetGraphIs DEF Edits, a
  <2>2. e.graphs = r.graphs /\ e.panels = r.panels
    <3>1. DocFields \subseteq DOMAIN r  BY SetGraphIs DEF Edits
    <3> HIDE DEF r
    <3> QED BY <1>3, <3>1 DEF SetView, DocFields
  <2> QED BY <2>1, <2>2
<1> QED BY <1>7, <1>8 DEF Stage, e

(* reroute.remove                                                           *)
LEMMA RerouteRemoveGrows ==
  ASSUME NEW d, WellFormed(d), NEW g \in DOMAIN d.graphs, NEW R, NEW reconnect,
         NEW e \in RerouteRemove(d, g, R, reconnect)
  PROVE  Grows(d, e)
<1>1. PICK touching, leaving, new :
        /\ leaving \subseteq DOMAIN d.graphs[g].links
        /\ CanMint(d, g, Cardinality(leaving))
        /\ DOMAIN new = {Mint(d, g, k - 1) : k \in 1 .. Cardinality(leaving)}
        /\ e = DropReroutes(
                 [RemoveLinks(Advanced(d, g, Cardinality(leaving)), g, touching) EXCEPT
                     !.graphs[g].links = PutAll(@, new)], g, R)
  BY DEF RerouteRemove, When
<1> DEFINE K == Cardinality(leaving)
           s == Advanced(d, g, K)
           cut == RemoveLinks(s, g, touching)
           links == PutAll(cut.graphs[g].links, new)
           r == [cut EXCEPT !.graphs[g].links = links]
<1>2. GraphFormed(d.graphs[g]) /\ d.graphs[g].next \in Nat  BY Formed
<1>3. K \in Nat
  <2>1. leaving \subseteq 0 .. d.graphs[g].next - 1  BY <1>1, <1>2 DEF GraphFormed, AllIds
  <2>2. IsFiniteSet(0 .. d.graphs[g].next - 1)  BY <1>2, FS_Interval
  <2> QED BY <2>1, <2>2, FS_Subset, FS_CardinalityType
<1> HIDE DEF K
<1>4. /\ Stage(d, s) /\ WellFormed(s) /\ g \in DOMAIN s.graphs
      /\ s.graphs[g].next = d.graphs[g].next + K
  BY <1>1, <1>3, AdvancedStage, StageFormed DEF K
<1>5. e = DropReroutes(r, g, R)  BY <1>1 DEF K
<1> HIDE DEF s
<1>6. /\ Stage(s, cut) /\ WellFormed(cut) /\ g \in DOMAIN cut.graphs
      /\ cut.graphs[g].next = d.graphs[g].next + K
  BY <1>4, RemoveLinksStage
<1> HIDE DEF cut
<1>7. DOMAIN links \subseteq 0 .. cut.graphs[g].next - 1
  <2>1. DOMAIN links = DOMAIN cut.graphs[g].links \union DOMAIN new  BY DEF PutAll
  <2>2. DOMAIN cut.graphs[g].links \subseteq 0 .. cut.graphs[g].next - 1
    BY <1>6, Formed DEF GraphFormed, AllIds
  <2>3. DOMAIN new \subseteq 0 .. cut.graphs[g].next - 1
    <3>1. ASSUME NEW k \in 1 .. K PROVE Mint(d, g, k - 1) \in 0 .. cut.graphs[g].next - 1
      BY <1>2, <1>3, <1>6, <3>1 DEF Mint
    <3> QED BY <1>1, <3>1 DEF K
  <2> HIDE DEF links
  <2> QED BY <2>1, <2>2, <2>3
<1> HIDE DEF links
<1>8. Stage(cut, r) /\ WellFormed(r) /\ DOMAIN r.graphs = DOMAIN cut.graphs
  BY <1>6, <1>7, LinksStage, StageFormed
<1> HIDE DEF r
<1>9. Stage(r, e)  BY <1>5, <1>6, <1>8, DropReroutesStage
<1>10. Stage(d, r)  BY <1>4, <1>6, <1>8, StageTwice
<1> QED BY <1>9, <1>10, StageTwice, StageFormed

(* selector.add                                                             *)
LEMMA SelectorAddGrows ==
  ASSUME NEW d, WellFormed(d), NEW g \in DOMAIN d.graphs, NEW count, NEW e \in SelectorAdd(d, g, count)
  PROVE  Grows(d, e)
<1> DEFINE s == Advanced(d, g, count + 1)
           v == WithView(s, g)
           x == Mint(d, g, 0)
           sel == [cands |-> [k \in 1 .. count |-> x + k], pick |-> x + 1]
           selectors == Put(v.graphs[g].selectors, x, sel)
           r == [v EXCEPT !.graphs[g].selectors = selectors]
           w == [r.view[g] EXCEPT !.selectors = @ \union {x}]
<1>1. /\ count \in 1 .. MaxCandidates
      /\ CanMint(d, g, count + 1)
      /\ e = SetView(r, g, w)
  BY DEF SelectorAdd, When, SetView
<1>2. count + 1 \in Nat  BY <1>1, MaxCandidatesIsNat
<1>3. /\ Stage(d, s) /\ WellFormed(s) /\ g \in DOMAIN s.graphs
      /\ s.graphs[g].next = d.graphs[g].next + (count + 1)
  BY <1>1, <1>2, AdvancedStage, StageFormed
<1>4. x \in Nat /\ x < s.graphs[g].next
  BY <1>1, <1>3, Formed, MaxCandidatesIsNat DEF Mint
<1> HIDE DEF s, x
<1>5. /\ Stage(s, v) /\ WellFormed(v) /\ g \in DOMAIN v.view
      /\ v.graphs = s.graphs
  BY <1>3, WithViewStage, StageFormed
<1> HIDE DEF v, sel
<1>6. /\ DOMAIN selectors = DOMAIN v.graphs[g].selectors \union {x}
      /\ selectors[x] = sel
      /\ \A y \in DOMAIN v.graphs[g].selectors : y # x => selectors[y] = v.graphs[g].selectors[y]
  BY DEF Put
<1>7. GraphFormed(v.graphs[g])  BY <1>3, <1>5, Formed
<1>17. DOMAIN v.graphs[g].selectors \subseteq DOMAIN selectors  BY <1>6
<1>8. DOMAIN selectors \subseteq 0 .. v.graphs[g].next - 1
  BY <1>4, <1>5, <1>6, <1>7 DEF GraphFormed, AllIds
<1> HIDE DEF selectors
<1>15. SelectorFormed(sel)
  <2>1. count \in Nat /\ \A k \in 1 .. count : x + k \in Nat  BY <1>1, <1>4, MaxCandidatesIsNat
  <2>2. sel.cands \in Seq(Nat)  BY <2>1, IsASeq DEF sel
  <2> QED BY <2>2 DEF SelectorFormed, sel
<1>16. SelectorsFormed(selectors)  BY <1>6, <1>7, <1>15 DEF SelectorsFormed, GraphFormed
<1>9. Stage(v, r) /\ WellFormed(r)  BY <1>3, <1>5, <1>8, <1>16, <1>17, SelectorsStage, StageFormed
<1>10. r.view = v.view  OBVIOUS
<1>18. x \in DOMAIN r.graphs[g].selectors
  <2>1. g \in DOMAIN v.graphs /\ GraphFields \subseteq DOMAIN v.graphs[g] /\ DocFields \subseteq DOMAIN v
    BY <1>3, <1>5, Formed DEF DocFields
  <2> QED BY <1>6, <2>1 DEF GraphFields, DocFields
<1> HIDE DEF r
<1>11. ViewFields \subseteq DOMAIN r.view[g]  BY <1>5, <1>10, Formed
<1>12. ViewTrims(r.view[g], w)  BY <1>11 DEF ViewTrims, ViewFields
<1>19. Follows(r.graphs[g], r.view[g]) => Follows(r.graphs[g], w)
  BY <1>11, <1>18 DEF Follows, ViewFields
<1> HIDE DEF w
<1>13. Stage(r, e)  BY <1>1, <1>5, <1>9, <1>10, <1>12, <1>19, PlacesStage
<1>14. Stage(d, r)  BY <1>3, <1>5, <1>9, StageTwice
<1> QED BY <1>13, <1>14, StageTwice, StageFormed

(* One selector is another, of the same id.                                 *)
LEMMA SelectorGrows ==
  ASSUME NEW d, WellFormed(d), NEW g \in DOMAIN d.graphs, NEW s, NEW sel,
         s \in DOMAIN d.graphs[g].selectors => SelectorFormed(sel)
  PROVE  Stage(d, [d EXCEPT !.graphs[g].selectors[s] = sel])
<1> DEFINE old == d.graphs[g].selectors
           selectors == [old EXCEPT ![s] = sel]
<1>1. GraphFormed(d.graphs[g])  BY Formed
<1>2. DOMAIN selectors \subseteq 0 .. d.graphs[g].next - 1  BY <1>1 DEF GraphFormed, AllIds
<1>3. SelectorsFormed(selectors)  BY <1>1 DEF GraphFormed, SelectorsFormed
<1>5. DOMAIN selectors = DOMAIN d.graphs[g].selectors  OBVIOUS
<1>4. [d EXCEPT !.graphs[g].selectors[s] = sel] = [d EXCEPT !.graphs[g].selectors = selectors]  OBVIOUS
<1> HIDE DEF selectors
<1> QED BY <1>2, <1>3, <1>4, <1>5, SelectorsStage

(* The candidates of a selector.                                            *)
LEMMA Candidates ==
  ASSUME NEW d, WellFormed(d), NEW g \in DOMAIN d.graphs, NEW s \in DOMAIN d.graphs[g].selectors
  PROVE  SelectorFormed(d.graphs[g].selectors[s])
BY Formed DEF GraphFormed, SelectorsFormed

(* selector.setPolicy                                                       *)
LEMMA SelectorSetPolicyGrows ==
  ASSUME NEW d, WellFormed(d), NEW g \in DOMAIN d.graphs, NEW s, NEW pick,
         NEW e \in SelectorSetPolicy(d, g, s, pick)
  PROVE  Grows(d, e)
<1> DEFINE old == d.graphs[g].selectors[s]
           sel == [old EXCEPT !.pick = pick]
<1>1. e = [d EXCEPT !.graphs[g].selectors[s] = sel]  BY DEF SelectorSetPolicy, When
<1>2. s \in DOMAIN d.graphs[g].selectors => SelectorFormed(old)  BY Candidates
<1> HIDE DEF old
<1>3. s \in DOMAIN d.graphs[g].selectors => SelectorFormed(sel)  BY <1>2 DEF SelectorFormed
<1> HIDE DEF sel
<1> QED BY <1>1, <1>3, SelectorGrows, StageFormed

(* selector.reorderCandidates                                               *)
LEMMA SelectorReorderCandidatesGrows ==
  ASSUME NEW d, WellFormed(d), NEW g \in DOMAIN d.graphs, NEW s, NEW order \in Seq(Nat),
         NEW e \in SelectorReorderCandidates(d, g, s, order)
  PROVE  Grows(d, e)
<1> DEFINE old == d.graphs[g].selectors[s]
           sel == [old EXCEPT !.cands = order]
<1>1. e = [d EXCEPT !.graphs[g].selectors[s] = sel]  BY DEF SelectorReorderCandidates, When
<1>2. s \in DOMAIN d.graphs[g].selectors => SelectorFormed(old)  BY Candidates
<1> HIDE DEF old
<1>3. s \in DOMAIN d.graphs[g].selectors => SelectorFormed(sel)  BY <1>2 DEF SelectorFormed
<1> HIDE DEF sel
<1> QED BY <1>1, <1>3, SelectorGrows, StageFormed

(* selector.addCandidate                                                    *)
LEMMA SelectorAddCandidateGrows ==
  ASSUME NEW d, WellFormed(d), NEW g \in DOMAIN d.graphs, NEW s, NEW e \in SelectorAddCandidate(d, g, s)
  PROVE  Grows(d, e)
<1> DEFINE r == Advanced(d, g, 1)
           old == r.graphs[g].selectors[s]
           x == Mint(d, g, 0)
           sel == [old EXCEPT !.cands = Append(@, x)]
<1>1. CanMint(d, g, 1) /\ e = [r EXCEPT !.graphs[g].selectors[s] = sel]
  BY DEF SelectorAddCandidate, When
<1>2. Stage(d, r) /\ WellFormed(r) /\ g \in DOMAIN r.graphs
  BY <1>1, AdvancedStage, StageFormed
<1>3. x \in Nat  BY Formed DEF Mint
<1> HIDE DEF r, x
<1>4. s \in DOMAIN r.graphs[g].selectors => SelectorFormed(old)  BY <1>2, Candidates
<1> HIDE DEF old
<1>5. s \in DOMAIN r.graphs[g].selectors => SelectorFormed(sel)
  BY <1>3, <1>4, AppendProperties DEF SelectorFormed
<1> HIDE DEF sel
<1>6. Stage(r, e)  BY <1>1, <1>2, <1>5, SelectorGrows
<1> QED BY <1>2, <1>6, StageTwice, StageFormed

(* A sequence without one of its elements.                                  *)
LEMMA RemoveAtSeq ==
  ASSUME NEW S, NEW s \in Seq(S), NEW i \in 1 .. Len(s)
  PROVE  RemoveAt(s, i) \in Seq(S)
<1>1. Len(s) \in Nat /\ \A k \in 1 .. Len(s) : s[k] \in S  BY ElementOfSeq, LenProperties
<1>2. SubSeq(s, 1, i - 1) \in Seq(S)
  <2>1. \A k \in 1 .. i - 1 : s[k] \in S  BY <1>1
  <2> QED BY <1>1, <2>1, SubSeqProperties
<1>3. SubSeq(s, i + 1, Len(s)) \in Seq(S)
  <2>1. \A k \in i + 1 .. Len(s) : s[k] \in S  BY <1>1
  <2> QED BY <1>1, <2>1, SubSeqProperties
<1> QED BY <1>2, <1>3, ConcatProperties DEF RemoveAt

(* selector.removeCandidate                                                 *)
LEMMA SelectorRemoveCandidateGrows ==
  ASSUME NEW d, WellFormed(d), NEW g \in DOMAIN d.graphs, NEW s, NEW c,
         NEW e \in SelectorRemoveCandidate(d, g, s, c)
  PROVE  Grows(d, e)
<1> DEFINE cands == d.graphs[g].selectors[s].cands
           k == CHOOSE i \in DOMAIN cands : cands[i] = c
           kept == RemoveAt(cands, k)
           L == LinksInto(d.graphs[g], Candidate(s, c))
           pick == d.graphs[g].selectors[s].pick
           r == RemoveLinks(d, g, L)
           sel == [cands |-> kept, pick |-> IF pick = c THEN kept[1] ELSE pick]
<1>1. c \in Range(cands) /\ e = [r EXCEPT !.graphs[g].selectors[s] = sel]
  BY DEF SelectorRemoveCandidate, When
<1>3. Trims(d, r)  BY RemoveLinksTrims
<1>4. Stage(d, r) /\ WellFormed(r) /\ g \in DOMAIN r.graphs  BY RemoveLinksStage
<1>5. ASSUME s \in DOMAIN r.graphs[g].selectors PROVE SelectorFormed(sel)
  <2>1. s \in DOMAIN d.graphs[g].selectors  BY <1>3, <1>5 DEF Trims, GraphTrims
  <2>2. cands \in Seq(Nat)  BY <2>1, Candidates DEF SelectorFormed
  <2>3. k \in DOMAIN cands  BY <1>1 DEF Range
  <2>4. k \in 1 .. Len(cands)  BY <2>2, <2>3, LenProperties
  <2> HIDE DEF cands, k
  <2>5. RemoveAt(cands, k) \in Seq(Nat)  BY <2>2, <2>4, RemoveAtSeq
  <2> QED BY <2>5 DEF SelectorFormed
<1> HIDE DEF r, sel
<1>6. Stage(r, e)  BY <1>1, <1>4, <1>5, SelectorGrows
<1> QED BY <1>4, <1>6, StageTwice, StageFormed

-----------------------------------------------------------------------------
(* The commands that add and delete nodes.                                    *)

(* What is deleted from a definition.                                       *)
LEMMA GraphWithoutGrows ==
  ASSUME NEW a, NEW del, GraphFormed(a), GraphGrows(a, a)
  PROVE  GraphGrows(a, GraphWithout(a, del))
<1> DEFINE b == GraphWithout(a, del)
           nodes == Minus(a.nodes, del.nodes)
           selectors == Minus(a.selectors, del.selectors)
<1>1. /\ DOMAIN nodes \subseteq DOMAIN a.nodes
      /\ \A n \in DOMAIN nodes : nodes[n] = a.nodes[n]
      /\ DOMAIN selectors \subseteq DOMAIN a.selectors
      /\ \A s \in DOMAIN selectors : selectors[s] = a.selectors[s]
  BY DEF Minus, Restrict
<1>2. {"nodes", "links", "nets", "reroutes", "sources", "selectors", "boundary", "next"} \subseteq DOMAIN a
  BY DEF GraphFormed
<1>3. /\ DOMAIN b = DOMAIN a
      /\ b.nodes = nodes /\ b.selectors = selectors
      /\ b.links = a.links /\ b.nets = a.nets /\ b.next = a.next
      /\ b.reroutes \subseteq a.reroutes /\ b.sources \subseteq a.sources
  <2> HIDE DEF nodes, selectors
  <2> QED BY <1>2 DEF GraphWithout, nodes, selectors
<1> HIDE DEF b, nodes, selectors
<1>4. AllIds(b) \subseteq AllIds(a)  BY <1>1, <1>3 DEF AllIds
<1>5. GraphFormed(b)  BY <1>1, <1>2, <1>3, <1>4 DEF GraphFormed, SelectorsFormed
<1>6. FamiliesGrow(a, b)  BY <1>1, <1>3 DEF GraphGrows, FamiliesGrow
<1> QED BY <1>3, <1>5, <1>6 DEF GraphGrows, b

(* And from its canvas.                                                     *)
LEMMA RemoveItemsGrows ==
  ASSUME NEW d, WellFormed(d), NEW g \in DOMAIN d.graphs, NEW del
  PROVE  Grows(d, RemoveItems(d, g, del))
<1> DEFINE a == d.graphs[g]
           b == GraphWithout(a, del)
           r == SetGraph(d, g, b)
           v == PlacesWithout(d.view[g], del)
<1>1. r.view = d.view  BY SetGraphIs
<1>2. RemoveItems(d, g, del) = IF g \in DOMAIN d.view THEN SetView(r, g, v) ELSE r
  BY <1>1 DEF RemoveItems, SetGraph, SetView
<1>3. GraphGrows(a, b)  BY GraphWithoutGrows, Formed, GrowsSelf DEF Grows
<1>4. ASSUME g \in DOMAIN d.view
      PROVE  ViewTrims(d.view[g], v) /\ (Follows(a, d.view[g]) => Follows(b, v))
  <2>1. ViewFields \subseteq DOMAIN d.view[g]  BY <1>4, Formed
  <2>2. ViewTrims(d.view[g], v)  BY <2>1 DEF ViewTrims, ViewFields, PlacesWithout
  <2>3. GraphFields \subseteq DOMAIN a  BY Formed
  <2>4. /\ v.nodes = d.view[g].nodes \ del.nodes
        /\ v.reroutes = d.view[g].reroutes \ del.reroutes
        /\ v.sources = d.view[g].sources \ del.sources
        /\ v.selectors = d.view[g].selectors \ del.selectors
        /\ v.collapsed = d.view[g].collapsed /\ v.guides = d.view[g].guides
    BY <2>1 DEF ViewFields, PlacesWithout
  <2> HIDE DEF a, v
  <2>5. /\ DOMAIN b.nodes = DOMAIN a.nodes \ del.nodes
        /\ b.reroutes = a.reroutes \ del.reroutes
        /\ b.sources = a.sources \ del.sources
        /\ DOMAIN b.selectors = DOMAIN a.selectors \ del.selectors
        /\ b.nets = a.nets
    BY <2>3 DEF GraphFields, GraphWithout, Minus, Restrict
  <2> HIDE DEF b
  <2> QED BY <2>2, <2>4, <2>5 DEF Follows
<1> HIDE DEF b, v
<1> QED BY <1>2, <1>3, <1>4, TogetherGrows

(* deleteCascade                                                            *)
LEMMA DeleteItemsGrows ==
  ASSUME NEW d, WellFormed(d), NEW g \in DOMAIN d.graphs, NEW del, NEW L, NEW S,
         NEW e \in DeleteItems(d, g, del, L, S)
  PROVE  Grows(d, e)
<1>1. PICK M, cut, silent :
        e = RemoveItems(RemoveNets(RemoveSinks(RemoveLinks(d, g, M), g, cut), g, silent), g, del)
  BY DEF DeleteItems, DeleteCascade, When
<1> DEFINE p == RemoveLinks(d, g, M)
           q == RemoveSinks(p, g, cut)
           r == RemoveNets(q, g, silent)
<1>2. e = RemoveItems(r, g, del)  BY <1>1
<1>3. Trims(d, p) /\ StillFollows(d, p) /\ WellFormed(p) /\ g \in DOMAIN p.graphs
  BY RemoveLinksTrims, RemoveLinksFollows, TrimsFormed DEF Trims
<1> HIDE DEF p
<1>4. Trims(p, q) /\ StillFollows(p, q) /\ WellFormed(q) /\ g \in DOMAIN q.graphs
  BY <1>3, RemoveSinksTrims, RemoveSinksFollows, TrimsFormed DEF Trims
<1> HIDE DEF q
<1>5. Trims(q, r) /\ StillFollows(q, r) /\ WellFormed(r) /\ g \in DOMAIN r.graphs
  BY <1>4, RemoveNetsTrims, RemoveNetsFollows, TrimsFormed DEF Trims
<1> HIDE DEF r
<1>6. Trims(d, r)  BY <1>3, <1>4, <1>5, TrimsTwice
<1>8. StillFollows(d, r)  BY <1>3, <1>4, <1>5 DEF StillFollows
<1>7. Grows(r, e)  BY <1>2, <1>5, RemoveItemsGrows
<1> QED BY <1>6, <1>7, <1>8, GrowsTrimmed

(* valueSource.remove                                                       *)
LEMMA ValueSourceRemoveGrows ==
  ASSUME NEW d, WellFormed(d), NEW g \in DOMAIN d.graphs, NEW V, NEW e \in ValueSourceRemove(d, g, V)
  PROVE  Grows(d, e)
BY DeleteItemsGrows DEF ValueSourceRemove

(* node.add                                                                 *)
LEMMA NodeAddGrows ==
  ASSUME NEW d, WellFormed(d), NEW g \in DOMAIN d.graphs, NEW node, NodeFormed(node),
         NEW e \in NodeAdd(d, g, node)
  PROVE  Grows(d, e)
<1> DEFINE x == Mint(d, g, 0)
           s == Advanced(d, g, 1)
           v == WithView(s, g)
           a == v.graphs[g]
           nodes == Put(a.nodes, x, node)
           b == [a EXCEPT !.nodes = nodes]
           r == SetGraph(v, g, b)
           w == [r.view[g] EXCEPT !.nodes = @ \union {x}]
<1>1. CanMint(d, g, 1) /\ e = SetView(r, g, w)
  BY DEF NodeAdd, When, SetGraph, SetView
<1> HIDE DEF r, w, b, v
<1>2. /\ Stage(d, s) /\ WellFormed(s) /\ g \in DOMAIN s.graphs
      /\ s.graphs[g].next = d.graphs[g].next + 1
      /\ DOMAIN s.graphs[g].nodes = DOMAIN d.graphs[g].nodes
  BY <1>1, AdvancedStage, StageFormed DEF Stage
<1>3. x \in Nat /\ x < s.graphs[g].next /\ x \notin DOMAIN d.graphs[g].nodes
  <2>1. GraphFormed(d.graphs[g])  BY Formed
  <2> QED BY <2>1, <1>2 DEF Mint, GraphFormed, AllIds
<1> HIDE DEF s, x
<1>4. /\ Stage(s, v) /\ WellFormed(v) /\ g \in DOMAIN v.view
      /\ v.graphs = s.graphs
  BY <1>2, WithViewStage, StageFormed DEF v
<1>5. GraphFormed(a) /\ GraphFields \subseteq DOMAIN a /\ GraphGrows(a, a)
  BY <1>2, <1>4, Formed, GrowsSelf DEF Grows
<1>6. x \in 0 .. a.next - 1 /\ x \notin DOMAIN a.nodes  BY <1>2, <1>3, <1>4, Formed
<1> HIDE DEF a
<1>7. /\ DOMAIN nodes = DOMAIN a.nodes \union {x}
      /\ nodes[x] = node
      /\ \A n \in DOMAIN a.nodes : nodes[n] = a.nodes[n]
  BY <1>6 DEF Put
<1> HIDE DEF nodes
<1>8. GraphGrows(a, b)
  <2>1. /\ DOMAIN b = DOMAIN a
        /\ b.nodes = nodes /\ b.next = a.next /\ b.selectors = a.selectors
        /\ AllIds(b) \subseteq AllIds(a) \union {x}
    BY <1>5, <1>7 DEF b, GraphFields, AllIds
  <2>2. GraphFormed(b)  BY <1>5, <1>6, <1>7, <2>1 DEF GraphFormed
  <2>3. FamiliesGrow(a, b)  BY <1>5, <1>7, <2>1 DEF GraphGrows, FamiliesGrow
  <2> QED BY <1>5, <2>1, <2>2, <2>3 DEF GraphGrows
<1>15. HasAll(a, b) /\ x \in DOMAIN b.nodes
  BY <1>5, <1>7 DEF HasAll, b, GraphFields
<1>9. /\ Grows(v, r) /\ WellFormed(r) /\ r.view = v.view /\ r.panels = v.panels
      /\ r.graphs[g] = b
  BY <1>2, <1>4, <1>8, <1>15, SetGraphGrows, SetGraphIs DEF Grows, Edits, r, a
<1>10. ViewFields \subseteq DOMAIN r.view[g]  BY <1>4, <1>9, Formed
<1>11. ViewTrims(r.view[g], w)  BY <1>10 DEF ViewTrims, ViewFields, w
<1>16. Follows(r.graphs[g], r.view[g]) => Follows(r.graphs[g], w)
  BY <1>9, <1>10, <1>15 DEF Follows, ViewFields, w
<1>12. Stage(r, e)  BY <1>1, <1>4, <1>9, <1>11, <1>16, PlacesStage
<1>13. Grows(v, e)  BY <1>4, <1>9, <1>12, GrowsStage
<1>14. Stage(d, v)  BY <1>2, <1>4, StageTwice
<1> QED BY <1>13, <1>14, StageGrows

-----------------------------------------------------------------------------
(* The commands of structure.                                                 *)

(* Whatever a boundary command does, it only changes the boundary.          *)
LEMMA BoundaryCommandsGrow ==
  ASSUME NEW d, WellFormed(d), NEW g \in DOMAIN d.graphs, NEW side, NEW id, NEW b
  PROVE  /\ \A e \in BoundaryAddItem(d, g, side, id, b) : Grows(d, e)
         /\ \A e \in BoundarySetBinding(d, g, side, id, b) : Grows(d, e)
         /\ \A e \in BoundaryUnbind(d, g, side, id, b) : Grows(d, e)
         /\ \A e \in BoundaryAddBinding(d, g, id, b) : Grows(d, e)
         /\ \A e \in BoundaryRemoveBinding(d, g, id, b) : Grows(d, e)
<1>1. \A x : Grows(d, [d EXCEPT !.graphs[g].boundary = x])
  BY BoundaryStage, StageFormed
<1>2. ASSUME NEW e \in BoundaryAddItem(d, g, side, id, b) PROVE Grows(d, e)
  <2>1. PICK x : e = [d EXCEPT !.graphs[g].boundary = x]  BY DEF BoundaryAddItem, When
  <2> QED BY <1>1, <2>1
<1>3. ASSUME NEW e \in BoundarySetBinding(d, g, side, id, b) PROVE Grows(d, e)
  <2>1. PICK x : e = [d EXCEPT !.graphs[g].boundary = x]  BY DEF BoundarySetBinding, When, SetItem
  <2> QED BY <1>1, <2>1
<1>4. ASSUME NEW e \in BoundaryUnbind(d, g, side, id, b) PROVE Grows(d, e)
  <2>1. \E k, item : e = DropItem(d, g, side, k) \/ e = SetItem(d, g, side, k, item)
    BY DEF BoundaryUnbind, UnbindItem, When
  <2>2. PICK x : e = [d EXCEPT !.graphs[g].boundary = x]
    BY <2>1 DEF SetItem, DropItem
  <2> QED BY <1>1, <2>2
<1>5. ASSUME NEW e \in BoundaryAddBinding(d, g, id, b) PROVE Grows(d, e)
  <2>1. PICK x : e = [d EXCEPT !.graphs[g].boundary = x]  BY DEF BoundaryAddBinding, When
  <2> QED BY <1>1, <2>1
<1>6. ASSUME NEW e \in BoundaryRemoveBinding(d, g, id, b) PROVE Grows(d, e)
  <2>1. PICK x : e = [d EXCEPT !.graphs[g].boundary = x]  BY DEF BoundaryRemoveBinding, When
  <2> QED BY <1>1, <2>1
<1> QED BY <1>2, <1>3, <1>4, <1>5, <1>6

(* One node is given another value: the cursors of its families move up.    *)
LEMMA NodeGrows ==
  ASSUME NEW d, WellFormed(d), NEW g \in DOMAIN d.graphs, NEW n \in DOMAIN d.graphs[g].nodes,
         NEW node, NodeFormed(node),
         \A f \in Families : FamilyOf(d.graphs[g].nodes[n], f).seq <= FamilyOf(node, f).seq
  PROVE  /\ GraphGrows(d.graphs[g], [d.graphs[g] EXCEPT !.nodes[n] = node])
         /\ HasAll(d.graphs[g], [d.graphs[g] EXCEPT !.nodes[n] = node])
<1> DEFINE a == d.graphs[g]
           nodes == [a.nodes EXCEPT ![n] = node]
           b == [a EXCEPT !.nodes = nodes]
<1>2. GraphFormed(a) /\ GraphFields \subseteq DOMAIN a /\ GraphGrows(a, a)
  BY Formed, GrowsSelf DEF Grows
<1>3. /\ DOMAIN nodes = DOMAIN a.nodes /\ nodes[n] = node
      /\ \A m \in DOMAIN a.nodes : m # n => nodes[m] = a.nodes[m]
  OBVIOUS
<1> HIDE DEF nodes
<1>4. /\ DOMAIN b = DOMAIN a /\ AllIds(b) = AllIds(a) /\ HasAll(a, b)
      /\ b.nodes = nodes /\ b.next = a.next /\ b.selectors = a.selectors
  <2> HIDE DEF a
  <2> QED BY <1>2, <1>3 DEF GraphFields, AllIds, HasAll, a
<1> HIDE DEF b
<1>5. GraphFormed(b)  BY <1>2, <1>3, <1>4 DEF GraphFormed
<1>6. FamiliesGrow(a, b)  BY <1>2, <1>3, <1>4 DEF GraphGrows, FamiliesGrow
<1>7. GraphGrows(a, b)  BY <1>2, <1>4, <1>5, <1>6 DEF GraphGrows
<1>8. [d.graphs[g] EXCEPT !.nodes[n] = node] = b  BY Zenon DEF b, nodes
<1> QED BY <1>4, <1>7, <1>8

(* So the document grows.                                                   *)
LEMMA SetNodeGrows ==
  ASSUME NEW d, WellFormed(d), NEW g \in DOMAIN d.graphs, NEW n \in DOMAIN d.graphs[g].nodes,
         NEW node, NodeFormed(node),
         \A f \in Families : FamilyOf(d.graphs[g].nodes[n], f).seq <= FamilyOf(node, f).seq
  PROVE  Grows(d, [d EXCEPT !.graphs[g].nodes[n] = node])
<1> DEFINE b == [d.graphs[g] EXCEPT !.nodes[n] = node]
<1>1. [d EXCEPT !.graphs[g].nodes[n] = node] = SetGraph(d, g, b)  BY DEF SetGraph
<1>2. GraphGrows(d.graphs[g], b) /\ HasAll(d.graphs[g], b)  BY NodeGrows
<1> HIDE DEF b
<1> QED BY <1>1, <1>2, SetGraphGrows

(* The next member a family offers is beyond those it has.                  *)
LEMMA NextMember ==
  ASSUME NEW seq \in Nat, NEW members, members \subseteq Nat, IsFiniteSet(members)
  PROVE  LET m == Max({seq} \union {x + 1 : x \in members})
         IN  m \in Nat /\ seq <= m /\ \A x \in members : x < m
<1> DEFINE S == {x + 1 : x \in members}
           T == {seq} \union S
           next == [x \in members |-> x + 1]
<1>1. IsFiniteSet(S)
  <2>1. next \in Surjection(members, S)  BY DEF Surjection
  <2> HIDE DEF next, S
  <2> QED BY <2>1, FS_Surjection
<1>2. IsFiniteSet(T)  BY <1>1, FS_Singleton, FS_Union
<1>3. T \subseteq Nat /\ T # {}  OBVIOUS
<1>4. \A x \in members : x + 1 \in T  OBVIOUS
<1>5. seq \in T  OBVIOUS
<1> HIDE DEF T
<1>6. Max(T) \in T /\ \A x \in T : x <= Max(T)  BY <1>2, <1>3, Largest
<1>7. Max(T) \in Nat  BY <1>3, <1>6
<1>8. \A x \in members : x < Max(T)  BY <1>4, <1>6, <1>7
<1> QED BY <1>5, <1>6, <1>7, <1>8 DEF T

(* dynamic.materialize                                                      *)
LEMMA DynamicMaterializeGrows ==
  ASSUME NEW d, WellFormed(d), NEW g \in DOMAIN d.graphs, NEW n \in DOMAIN d.graphs[g].nodes,
         NEW f, NEW members, members \subseteq Nat, IsFiniteSet(members),
         NEW e \in DynamicMaterialize(d, g, n, f, members)
  PROVE  Grows(d, e)
<1> DEFINE old == d.graphs[g].nodes[n]
           family == FamilyOf(old, f)
           all == family.members \union members
           grown == [members |-> all, seq |-> Max({family.seq} \union {m + 1 : m \in all})]
           dyn == Put(old.dyn, f, grown)
           node == [old EXCEPT !.dyn = dyn]
<1>1. e = [d EXCEPT !.graphs[g].nodes[n] = node]  BY DEF DynamicMaterialize, When
<1>2. NodeFormed(old)  BY Formed DEF GraphFormed
<1>3. family.seq \in Nat /\ family.members \subseteq Nat /\ IsFiniteSet(family.members)
  BY <1>2, FS_EmptySet DEF NodeFormed, FamilyFormed, FamilyOf
<1> HIDE DEF old, family
<1>4. all \subseteq Nat /\ IsFiniteSet(all)  BY <1>3, FS_Union
<1> HIDE DEF all
<1>5. grown.seq \in Nat /\ family.seq <= grown.seq  BY <1>3, <1>4, NextMember
<1>6. FamilyFormed(grown)  BY <1>4, <1>5 DEF FamilyFormed
<1> HIDE DEF grown
<1>7. /\ DOMAIN dyn = DOMAIN old.dyn \union {f}
      /\ dyn[f] = grown
      /\ \A x \in DOMAIN old.dyn : x # f => dyn[x] = old.dyn[x]
  BY DEF Put
<1> HIDE DEF dyn
<1>8. node.dyn = dyn /\ DOMAIN node = DOMAIN old  BY <1>2 DEF NodeFormed
<1> HIDE DEF node
<1>9. NodeFormed(node)  BY <1>2, <1>6, <1>7, <1>8 DEF NodeFormed
<1>10. ASSUME NEW x \in Families PROVE FamilyOf(old, x).seq <= FamilyOf(node, x).seq
  <2>1. CASE x = f  BY <1>5, <1>7, <1>8, <2>1 DEF FamilyOf, family
  <2>2. CASE x # f  BY <1>2, <1>7, <1>8, <2>2 DEF FamilyOf, NodeFormed, FamilyFormed
  <2> QED BY <2>1, <2>2
<1> QED BY <1>1, <1>9, <1>10, SetNodeGrows DEF old

(* dynamic.compact                                                          *)
LEMMA DynamicCompactGrows ==
  ASSUME NEW d, WellFormed(d), NEW g \in DOMAIN d.graphs, NEW n \in DOMAIN d.graphs[g].nodes,
         NEW e \in DynamicCompact(d, g, n)
  PROVE  Grows(d, e)
<1> DEFINE old == d.graphs[g].nodes[n]
<1>1. PICK used :
        e = d \/ e = [d EXCEPT !.graphs[g].nodes[n].dyn =
                         [f \in DOMAIN old.dyn |->
                            [members |-> old.dyn[f].members \intersect used[f],
                             seq |-> Max({old.dyn[f].seq} \union {m + 1 : m \in old.dyn[f].members})]]]
  <2> DEFINE used == [f \in DOMAIN old.dyn |->
                        {a[2] : a \in {x \in AddressesOn(d, g, n) : Len(x) = 2 /\ x[1] = f}}]
  <2>1. e = d \/ e = [d EXCEPT !.graphs[g].nodes[n].dyn =
                         [f \in DOMAIN old.dyn |->
                            [members |-> old.dyn[f].members \intersect used[f],
                             seq |-> Max({old.dyn[f].seq} \union {m + 1 : m \in old.dyn[f].members})]]]
    BY DEF DynamicCompact
  <2> QED BY <2>1
<1> DEFINE dyn == [f \in DOMAIN old.dyn |->
                     [members |-> old.dyn[f].members \intersect used[f],
                      seq |-> Max({old.dyn[f].seq} \union {m + 1 : m \in old.dyn[f].members})]]
           node == [old EXCEPT !.dyn = dyn]
<1>2. CASE e = d  BY <1>2, GrowsSelf
<1>3. CASE e # d
  <2>1. e = [d EXCEPT !.graphs[g].nodes[n] = node]  BY <1>1, <1>3
  <2>2. NodeFormed(old)  BY Formed DEF GraphFormed
  <2> HIDE DEF old
  <2>3. ASSUME NEW f \in DOMAIN old.dyn
        PROVE  FamilyFormed(dyn[f]) /\ old.dyn[f].seq <= dyn[f].seq
    <3>1. /\ old.dyn[f].seq \in Nat /\ old.dyn[f].members \subseteq Nat
          /\ IsFiniteSet(old.dyn[f].members)
      BY <2>2, <2>3 DEF NodeFormed, FamilyFormed
    <3>2. dyn[f].members \subseteq old.dyn[f].members /\ {"members", "seq"} \subseteq DOMAIN dyn[f]
      OBVIOUS
    <3>3. dyn[f].seq \in Nat /\ old.dyn[f].seq <= dyn[f].seq  BY <3>1, NextMember
    <3> QED BY <3>1, <3>2, <3>3, FS_Subset DEF FamilyFormed
  <2>4. DOMAIN dyn = DOMAIN old.dyn  OBVIOUS
  <2> HIDE DEF dyn
  <2>5. node.dyn = dyn /\ DOMAIN node = DOMAIN old  BY <2>2 DEF NodeFormed
  <2> HIDE DEF node
  <2>6. NodeFormed(node)  BY <2>2, <2>3, <2>4, <2>5 DEF NodeFormed
  <2>7. ASSUME NEW f \in Families PROVE FamilyOf(old, f).seq <= FamilyOf(node, f).seq
    BY <2>3, <2>4, <2>5 DEF FamilyOf
  <2> QED BY <2>1, <2>6, <2>7, SetNodeGrows DEF old
<1> QED BY <1>2, <1>3

(* The contract of a repeated node: nothing a cursor belongs to.            *)
LEMMA SetRegionGrows ==
  ASSUME NEW d, WellFormed(d), NEW g \in DOMAIN d.graphs, NEW n \in DOMAIN d.graphs[g].nodes,
         NEW region, NEW e \in SetRegion(d, g, n, region)
  PROVE  Grows(d, e)
<1> DEFINE old == d.graphs[g].nodes[n]
           node == [old EXCEPT !.region = region]
<1>1. e = [d EXCEPT !.graphs[g].nodes[n] = node]  BY DEF SetRegion, When
<1>2. NodeFormed(old)  BY Formed DEF GraphFormed
<1>3. \A f \in Families : FamilyOf(old, f).seq \in Nat  BY Formed
<1> HIDE DEF old
<1>4. DOMAIN node = DOMAIN old /\ node.dyn = old.dyn  BY <1>2 DEF NodeFormed
<1> HIDE DEF node
<1>5. NodeFormed(node)  BY <1>2, <1>4 DEF NodeFormed
<1>6. \A f \in Families : FamilyOf(old, f).seq <= FamilyOf(node, f).seq  BY <1>3, <1>4 DEF FamilyOf
<1> QED BY <1>1, <1>5, <1>6, SetNodeGrows DEF old

(* region.setPortRole, setOutputRole, setContinueOutput, setBinding,        *)
(* setMaxIterations                                                         *)
LEMMA RegionCommandsGrow ==
  ASSUME NEW d, WellFormed(d), NEW g \in DOMAIN d.graphs, NEW n \in DOMAIN d.graphs[g].nodes, NEW x, NEW role
  PROVE  /\ \A e \in RegionSetPortRole(d, g, n, x, role) : Grows(d, e)
         /\ \A e \in RegionSetOutputRole(d, g, n, x, role) : Grows(d, e)
         /\ \A e \in RegionSetContinueOutput(d, g, n, x) : Grows(d, e)
         /\ \A e \in RegionSetBinding(d, g, n, x) : Grows(d, e)
         /\ \A e \in RegionSetMaxIterations(d, g, n, x) : Grows(d, e)
<1> \A region : \A e \in SetRegion(d, g, n, region) : Grows(d, e)  BY SetRegionGrows
<1>1. ASSUME NEW e \in RegionSetPortRole(d, g, n, x, role) PROVE Grows(d, e)
  <2>1. PICK region : e \in SetRegion(d, g, n, region)  BY DEF RegionSetPortRole
  <2> QED BY <2>1
<1>2. ASSUME NEW e \in RegionSetOutputRole(d, g, n, x, role) PROVE Grows(d, e)
  <2>1. PICK region : e \in SetRegion(d, g, n, region)  BY DEF RegionSetOutputRole
  <2> QED BY <2>1
<1>3. ASSUME NEW e \in RegionSetContinueOutput(d, g, n, x) PROVE Grows(d, e)
  <2>1. PICK region : e \in SetRegion(d, g, n, region)  BY DEF RegionSetContinueOutput
  <2> QED BY <2>1
<1>4. ASSUME NEW e \in RegionSetBinding(d, g, n, x) PROVE Grows(d, e)
  <2>1. PICK region : e \in SetRegion(d, g, n, region)  BY DEF RegionSetBinding
  <2> QED BY <2>1
<1>5. ASSUME NEW e \in RegionSetMaxIterations(d, g, n, x) PROVE Grows(d, e)
  <2>1. PICK region : e \in SetRegion(d, g, n, region)  BY DEF RegionSetMaxIterations
  <2> QED BY <2>1
<1> QED BY <1>1, <1>2, <1>3, <1>4, <1>5

(* Panels that are bound to groups of definitions that are there.           *)
PanelsFormed(d, panels) ==
  /\ DOMAIN panels \subseteq Nat /\ IsFiniteSet(DOMAIN panels)
  /\ \A s \in DOMAIN panels :
       /\ IsFiniteSet(panels[s])
       /\ \A b \in panels[s] : b[1] \in DOMAIN d.graphs /\ b[2] \in Nat

(* Other panels, and a surface cursor that moves up.                        *)
LEMMA PanelsGrow ==
  ASSUME NEW d, WellFormed(d), NEW e, DOMAIN e = DOMAIN d,
         e.graphs = d.graphs, e.view = d.view, e.tops = d.tops,
         PanelsFormed(d, e.panels), e.panelSeq \in Nat, d.panelSeq <= e.panelSeq
  PROVE  Grows(d, e)
<1>1. WellFormed(e)  BY DEF WellFormed, PanelsFormed
<1>2. Grows(d, d)  BY GrowsSelf
<1>3. ASSUME NEW g \in DOMAIN d.graphs PROVE ViewGrows(d, e, g)
  BY <1>2, <1>3 DEF Grows, ViewGrows, ViewOf
<1> QED BY <1>1, <1>2, <1>3, SameShown DEF Grows

(* surface.add                                                              *)
LEMMA SurfaceAddGrows ==
  ASSUME NEW d, WellFormed(d), NEW bindings, IsFiniteSet(bindings),
         \A b \in bindings : b[1] \in DOMAIN d.graphs /\ b[2] \in Nat,
         NEW e \in SurfaceAdd(d, bindings)
  PROVE  Grows(d, e)
<1> DEFINE s == Max({d.panelSeq} \union {k + 1 : k \in DOMAIN d.panels})
           panels == Put(d.panels, s, bindings)
<1>1. e = [d EXCEPT !.panels = panels, !.panelSeq = s + 1]  BY DEF SurfaceAdd, When
<1>2. /\ d.panelSeq \in Nat /\ DOMAIN d.panels \subseteq Nat /\ IsFiniteSet(DOMAIN d.panels)
      /\ {"graphs", "view", "tags", "tops", "panels", "panelSeq"} \subseteq DOMAIN d
  BY DEF WellFormed
<1>3. s \in Nat /\ d.panelSeq <= s  BY <1>2, NextMember
<1> HIDE DEF s
<1>4. /\ DOMAIN panels = DOMAIN d.panels \union {s}
      /\ panels[s] = bindings
      /\ \A k \in DOMAIN d.panels : k # s => panels[k] = d.panels[k]
  BY DEF Put
<1> HIDE DEF panels
<1>5. IsFiniteSet(DOMAIN panels)  BY <1>2, <1>4, FS_AddElement
<1>6. PanelsFormed(d, panels)  BY <1>2, <1>3, <1>4, <1>5 DEF PanelsFormed, WellFormed
<1>7. s + 1 \in Nat /\ d.panelSeq <= s + 1  BY <1>2, <1>3
<1>8. /\ DOMAIN e = DOMAIN d /\ e.graphs = d.graphs /\ e.view = d.view /\ e.tops = d.tops
      /\ e.panels = panels /\ e.panelSeq = s + 1
  BY <1>1, <1>2
<1> QED BY <1>6, <1>7, <1>8, PanelsGrow

(* surface.update                                                           *)
LEMMA SurfaceUpdateGrows ==
  ASSUME NEW d, WellFormed(d), NEW s, NEW bindings, IsFiniteSet(bindings),
         \A b \in bindings : b[1] \in DOMAIN d.graphs /\ b[2] \in Nat,
         NEW e \in SurfaceUpdate(d, s, bindings)
  PROVE  Grows(d, e)
<1> DEFINE panels == [d.panels EXCEPT ![s] = bindings]
<1>1. s \in DOMAIN d.panels /\ e = [d EXCEPT !.panels = panels]  BY DEF SurfaceUpdate, When
<1>2. PanelsFormed(d, panels)  BY <1>1 DEF PanelsFormed, WellFormed
<1> HIDE DEF panels
<1>3. d.panelSeq \in Nat /\ {"graphs", "view", "tags", "tops", "panels", "panelSeq"} \subseteq DOMAIN d
  BY Formed
<1>4. /\ DOMAIN e = DOMAIN d /\ e.graphs = d.graphs /\ e.view = d.view /\ e.tops = d.tops
      /\ e.panels = panels /\ e.panelSeq = d.panelSeq
  BY <1>1, <1>3
<1>5. d.panelSeq <= e.panelSeq  BY <1>3, <1>4
<1> QED BY <1>2, <1>3, <1>4, <1>5, PanelsGrow

(* surface.remove                                                           *)
LEMMA SurfaceRemoveGrows ==
  ASSUME NEW d, WellFormed(d), NEW s, NEW e \in SurfaceRemove(d, s)
  PROVE  Grows(d, e)
<1> DEFINE panels == Minus(d.panels, {s})
<1>1. e = [d EXCEPT !.panels = panels]  BY DEF SurfaceRemove, When
<1>2. DOMAIN panels \subseteq DOMAIN d.panels /\ \A k \in DOMAIN panels : panels[k] = d.panels[k]
  BY DEF Minus, Restrict
<1> HIDE DEF panels
<1>3. PanelsFormed(d, panels)  BY <1>2, FS_Subset DEF PanelsFormed, WellFormed
<1>4. d.panelSeq \in Nat /\ {"graphs", "view", "tags", "tops", "panels", "panelSeq"} \subseteq DOMAIN d
  BY Formed
<1>5. /\ DOMAIN e = DOMAIN d /\ e.graphs = d.graphs /\ e.view = d.view /\ e.tops = d.tops
      /\ e.panels = panels /\ e.panelSeq = d.panelSeq
  BY <1>1, <1>4
<1>6. d.panelSeq <= e.panelSeq  BY <1>4, <1>5
<1> QED BY <1>3, <1>4, <1>5, <1>6, PanelsGrow

-----------------------------------------------------------------------------
(* Groups, and what is shown.                                                 *)

(* The groups of a definition that panels are bound to are finitely many,   *)
(* and none where the definition is not there.                              *)
LEMMA BoundFinite ==
  ASSUME NEW d, WellFormed(d), NEW g
  PROVE  /\ BoundGroups(d, g) \subseteq Nat
         /\ IsFiniteSet(BoundGroups(d, g))
         /\ g \notin DOMAIN d.graphs => BoundGroups(d, g) = {}
<1> DEFINE P == DOMAIN d.panels
           R == Range(d.panels)
           U == UNION R
           X == {x \in U : x[1] = g}
           panel == [s \in P |-> d.panels[s]]
           second == [b \in X |-> b[2]]
<1>1. /\ IsFiniteSet(P)
      /\ \A s \in P : /\ IsFiniteSet(d.panels[s])
                      /\ \A b \in d.panels[s] : b[1] \in DOMAIN d.graphs /\ b[2] \in Nat
  BY DEF WellFormed
<1>2. IsFiniteSet(R)
  <2>1. panel \in Surjection(P, R)  BY DEF Surjection, Range
  <2> HIDE DEF panel, P, R
  <2> QED BY <1>1, <2>1, FS_Surjection
<1>3. \A T \in R : IsFiniteSet(T)  BY <1>1 DEF Range
<1>4. \A b \in U : b[1] \in DOMAIN d.graphs /\ b[2] \in Nat  BY <1>1 DEF Range
<1> HIDE DEF R
<1>5. IsFiniteSet(U)  BY <1>2, <1>3, FS_UNION
<1>6. BoundGroups(d, g) = {b[2] : b \in X}  BY DEF BoundGroups, R
<1> HIDE DEF U
<1>7. IsFiniteSet(X)  BY <1>5, FS_Subset
<1>8. X \subseteq U /\ \A b \in X : b[1] = g  OBVIOUS
<1>9. second \in Surjection(X, {b[2] : b \in X})  BY DEF Surjection
<1> HIDE DEF X, second
<1>10. IsFiniteSet(BoundGroups(d, g))  BY <1>6, <1>7, <1>9, FS_Surjection
<1> QED BY <1>4, <1>6, <1>8, <1>10

(* The next group is beyond the cursor, the groups there are and those that *)
(* panels are bound to.                                                     *)
LEMMA NextGroup ==
  ASSUME NEW d, WellFormed(d), NEW g
  PROVE  /\ GroupFloor(d, g) \in Nat
         /\ ViewOf(d, g).seq <= GroupFloor(d, g)
         /\ \A k \in ViewOf(d, g).groups \union BoundGroups(d, g) : k < GroupFloor(d, g)
<1> DEFINE S == ViewOf(d, g).groups \union BoundGroups(d, g)
<1>1. ViewOf(d, g).seq \in Nat /\ ViewOf(d, g).groups \subseteq Nat /\ IsFiniteSet(ViewOf(d, g).groups)
  BY FS_EmptySet DEF WellFormed, ViewFormed, ViewOf, EmptyView
<1>2. S \subseteq Nat /\ IsFiniteSet(S)  BY <1>1, BoundFinite, FS_Union
<1>3. GroupFloor(d, g) = Max({ViewOf(d, g).seq} \union {k + 1 : k \in S})  BY DEF GroupFloor
<1> HIDE DEF S
<1>4. LET m == Max({ViewOf(d, g).seq} \union {x + 1 : x \in S})
      IN  m \in Nat /\ ViewOf(d, g).seq <= m /\ \A x \in S : x < m
  BY <1>1, <1>2, NextMember
<1> QED BY <1>3, <1>4 DEF S

(* view.createGroup                                                         *)
LEMMA ViewCreateGroupGrows ==
  ASSUME NEW d, WellFormed(d), NEW g \in DOMAIN d.graphs, NEW e \in ViewCreateGroup(d, g)
  PROVE  Grows(d, e)
<1> DEFINE k == GroupFloor(d, g)
           v == WithView(d, g)
           a == [v.view[g] EXCEPT !.seq = k + 1]
           p == SetView(v, g, a)
           b == [p.view[g] EXCEPT !.groups = @ \union {k}]
<1>1. e = SetView(p, g, b)
  <2>1. e = [WithView(d, g) EXCEPT !.view[g].seq = k + 1, !.view[g].groups = @ \union {k}]
    BY Zenon DEF ViewCreateGroup, When
  <2> HIDE DEF k
  <2> QED BY <2>1, Zenon DEF SetView
<1>2. k \in Nat /\ ViewOf(d, g).seq <= k /\ k \notin BoundGroups(d, g)
  BY NextGroup
<1> HIDE DEF a, b, k
<1>3. /\ Stage(d, v) /\ WellFormed(v) /\ g \in DOMAIN v.view
      /\ v.view[g] = ViewOf(d, g) /\ BoundGroups(v, g) = BoundGroups(d, g)
  BY WithViewStage, StageFormed DEF Stage, BoundGroups
<1> HIDE DEF v
<1>4. ViewFormed(v.view[g]) /\ ViewFields \subseteq DOMAIN v.view[g]  BY <1>3, Formed
<1>5. DOMAIN a = DOMAIN v.view[g] /\ a.seq = k + 1 /\ a.groups = v.view[g].groups
  BY <1>4 DEF a, ViewFields
<1>6. ViewFormed(a) /\ v.view[g].seq <= a.seq
  BY <1>2, <1>3, <1>4, <1>5 DEF ViewFormed
<1>13. \A x : Follows(x, v.view[g]) => Follows(x, a)  BY <1>4 DEF a, ViewFields, Follows
<1>7. Stage(v, p)  BY <1>3, <1>5, <1>6, <1>13, SetViewStage
<1>8. /\ WellFormed(p) /\ DOMAIN p.view = DOMAIN v.view /\ p.view[g] = a
      /\ BoundGroups(p, g) = BoundGroups(v, g)
  <2>1. "view" \in DOMAIN v  BY <1>3, Formed
  <2> QED BY <1>3, <1>7, <2>1, StageFormed DEF SetView, Stage, BoundGroups
<1> HIDE DEF p
<1>9. DOMAIN b = DOMAIN a /\ b.seq = a.seq /\ b.groups = a.groups \union {k}
  BY <1>4, <1>5, <1>8 DEF b, ViewFields
<1>10. ViewFormed(b)  BY <1>2, <1>6, <1>9, FS_AddElement DEF ViewFormed
<1>11. a.seq <= b.seq /\ (b.groups \ a.groups) \intersect BoundGroups(p, g) = {}
  BY <1>2, <1>3, <1>6, <1>8, <1>9 DEF ViewFormed
<1>14. \A x : Follows(x, p.view[g]) => Follows(x, b)  BY <1>4, <1>5, <1>8 DEF b, ViewFields, Follows
<1>12. Stage(p, e)  BY <1>1, <1>3, <1>8, <1>10, <1>11, <1>14, SetViewStage
<1> QED BY <1>3, <1>7, <1>12, StageTwice, StageFormed

(* view.removeGroup                                                         *)
LEMMA ViewRemoveGroupGrows ==
  ASSUME NEW d, WellFormed(d), NEW g \in DOMAIN d.graphs, NEW k, NEW e \in ViewRemoveGroup(d, g, k)
  PROVE  Grows(d, e)
<1> DEFINE a == [d.view[g] EXCEPT !.seq = GroupFloor(d, g)]
           p == SetView(d, g, a)
           b == [p.view[g] EXCEPT !.groups = @ \ {k}]
<1>1. k \in ViewOf(d, g).groups /\ e = SetView(p, g, b)
  <2> DEFINE seq == GroupFloor(d, g)
  <2>1. /\ k \in ViewOf(d, g).groups
        /\ e = [d EXCEPT !.view[g].seq = seq, !.view[g].groups = @ \ {k}]
    BY Zenon DEF ViewRemoveGroup, When
  <2> HIDE DEF seq
  <2>2. SetView(p, g, b) = [d EXCEPT !.view[g].seq = seq, !.view[g].groups = @ \ {k}]
    BY Zenon DEF SetView, seq
  <2> QED BY <2>1, <2>2
<1>2. g \in DOMAIN d.view  BY <1>1 DEF ViewOf, EmptyView
<1>3. GroupFloor(d, g) \in Nat /\ d.view[g].seq <= GroupFloor(d, g)  BY <1>2, NextGroup DEF ViewOf
<1> HIDE DEF a, b
<1>4. ViewFormed(d.view[g]) /\ ViewFields \subseteq DOMAIN d.view[g]  BY <1>2, Formed
<1>5. DOMAIN a = DOMAIN d.view[g] /\ a.seq = GroupFloor(d, g) /\ a.groups = d.view[g].groups
  BY <1>4 DEF a, ViewFields
<1>6. ViewFormed(a) /\ d.view[g].seq <= a.seq  BY <1>3, <1>4, <1>5 DEF ViewFormed
<1>13. \A x : Follows(x, d.view[g]) => Follows(x, a)  BY <1>4 DEF a, ViewFields, Follows
<1>7. Stage(d, p)  BY <1>2, <1>5, <1>6, <1>13, SetViewStage
<1>8. WellFormed(p) /\ g \in DOMAIN p.view /\ p.view[g] = a
  <2>1. "view" \in DOMAIN d  BY Formed
  <2> QED BY <1>2, <1>7, <2>1, StageFormed DEF SetView
<1> HIDE DEF p
<1>9. DOMAIN b = DOMAIN a /\ b.seq = a.seq /\ b.groups = a.groups \ {k}
  BY <1>4, <1>5, <1>8 DEF b, ViewFields
<1>10. ViewFormed(b)  BY <1>6, <1>9, FS_Subset DEF ViewFormed
<1>11. a.seq <= b.seq /\ (b.groups \ a.groups) = {}  BY <1>6, <1>9 DEF ViewFormed
<1>14. \A x : Follows(x, p.view[g]) => Follows(x, b)  BY <1>4, <1>5, <1>8 DEF b, ViewFields, Follows
<1>12. Stage(p, e)  BY <1>1, <1>8, <1>10, <1>11, <1>14, SetViewStage
<1> QED BY <1>7, <1>12, StageTwice, StageFormed

(* The canvas of a definition shows something else, with its groups.        *)
LEMMA ShowGrows ==
  ASSUME NEW d, WellFormed(d), NEW g \in DOMAIN d.graphs, NEW v, ViewTrims(ViewOf(d, g), v),
         Follows(d.graphs[g], ViewOf(d, g)) => Follows(d.graphs[g], v)
  PROVE  Grows(d, [WithView(d, g) EXCEPT !.view[g] = v])
<1> DEFINE w == WithView(d, g)
<1>1. /\ Stage(d, w) /\ WellFormed(w) /\ g \in DOMAIN w.view /\ w.view[g] = ViewOf(d, g)
      /\ w.graphs = d.graphs
  BY WithViewStage, StageFormed
<1> HIDE DEF w
<1>2. Stage(w, SetView(w, g, v))  BY <1>1, PlacesStage
<1> QED BY <1>1, <1>2, StageTwice, StageFormed DEF SetView, w

(* Whether the canvas has an entry or not, it has these fields.             *)
LEMMA ViewFieldsThere ==
  ASSUME NEW d, WellFormed(d), NEW g
  PROVE  ViewFields \subseteq DOMAIN ViewOf(d, g)
BY Formed DEF ViewOf, EmptyView, ViewFields

(* view.setNetDisplay                                                       *)
LEMMA ViewSetNetDisplayGrows ==
  ASSUME NEW d, WellFormed(d), NEW g \in DOMAIN d.graphs, NEW net, NEW mode,
         NEW e \in ViewSetNetDisplay(d, g, net, mode)
  PROVE  Grows(d, e)
<1> DEFINE c == IF mode # "noodle" THEN ViewOf(d, g).collapsed \union {net} ELSE ViewOf(d, g).collapsed \ {net}
           s == IF mode = "guide" THEN ViewOf(d, g).guides \union {net} ELSE ViewOf(d, g).guides \ {net}
<1>1. /\ net \in DOMAIN d.graphs[g].nets
      /\ \/ e = d
         \/ e = [WithView(d, g) EXCEPT !.view[g] = [ViewOf(d, g) EXCEPT !.collapsed = c, !.guides = s]]
  BY Zenon DEF ViewSetNetDisplay, When
<1> DEFINE v == [ViewOf(d, g) EXCEPT !.collapsed = c, !.guides = s]
<1>2. ViewTrims(ViewOf(d, g), v)  BY ViewFieldsThere DEF ViewTrims, ViewFields
<1>4. Follows(d.graphs[g], ViewOf(d, g)) => Follows(d.graphs[g], v)
  BY <1>1, ViewFieldsThere DEF Follows, ViewFields
<1> HIDE DEF v
<1>3. Grows(d, [WithView(d, g) EXCEPT !.view[g] = v])  BY <1>2, <1>4, ShowGrows
<1> QED BY <1>1, <1>3, GrowsSelf DEF v

(* view.setNetCollapsed                                                     *)
LEMMA ViewSetNetCollapsedGrows ==
  ASSUME NEW d, WellFormed(d), NEW g \in DOMAIN d.graphs, NEW net, NEW collapsed,
         NEW e \in ViewSetNetCollapsed(d, g, net, collapsed)
  PROVE  Grows(d, e)
BY GrowsSelf, ViewSetNetDisplayGrows DEF ViewSetNetCollapsed

(* view.setAllNetsDisplay                                                   *)
LEMMA ViewSetAllNetsDisplayGrows ==
  ASSUME NEW d, WellFormed(d), NEW g \in DOMAIN d.graphs, NEW mode,
         NEW e \in ViewSetAllNetsDisplay(d, g, mode)
  PROVE  Grows(d, e)
<1> DEFINE nets == DOMAIN d.graphs[g].nets
           c == IF mode = "noodle" THEN {} ELSE nets
           s == IF mode = "guide" THEN nets ELSE {}
<1>1. \/ e = d
      \/ e = [WithView(d, g) EXCEPT !.view[g] = [ViewOf(d, g) EXCEPT !.collapsed = c, !.guides = s]]
  BY Zenon DEF ViewSetAllNetsDisplay
<1> DEFINE v == [ViewOf(d, g) EXCEPT !.collapsed = c, !.guides = s]
<1>2. ViewTrims(ViewOf(d, g), v)  BY ViewFieldsThere DEF ViewTrims, ViewFields
<1>4. Follows(d.graphs[g], ViewOf(d, g)) => Follows(d.graphs[g], v)
  BY ViewFieldsThere DEF Follows, ViewFields
<1> HIDE DEF v
<1>3. Grows(d, [WithView(d, g) EXCEPT !.view[g] = v])  BY <1>2, <1>4, ShowGrows
<1> QED BY <1>1, <1>3, GrowsSelf DEF v

(* selection.move                                                           *)
LEMMA SelectionMoveGrows ==
  ASSUME NEW d, WellFormed(d), NEW g \in DOMAIN d.graphs, NEW nodes, NEW reroutes, NEW tags,
         NEW e \in SelectionMove(d, g, nodes, reroutes, tags)
  PROVE  Grows(d, e)
<1> DEFINE r == [d EXCEPT !.tags = @ \union tags]
           w == WithView(r, g)
           a == [w.view[g] EXCEPT !.nodes = @ \union nodes]
           p == SetView(w, g, a)
           c == w.view[g].reroutes \union reroutes
           b == [p.view[g] EXCEPT !.reroutes = c]
<1>1. e = r \/ e = SetView(p, g, b)
  <2>1. e = r \/ e = [w EXCEPT !.view[g].nodes = @ \union nodes, !.view[g].reroutes = @ \union reroutes]
    BY Zenon DEF SelectionMove, When
  <2> HIDE DEF w
  <2> QED BY <2>1, Zenon DEF SetView
<1>10. nodes \subseteq DOMAIN d.graphs[g].nodes /\ reroutes \subseteq d.graphs[g].reroutes
  BY DEF SelectionMove, When
<1>2. Trims(d, r) /\ r.graphs = d.graphs /\ r.view = d.view
  <2>1. Trims(d, d)  BY TrimsSelf
  <2> QED BY <2>1 DEF Trims, DocFields
<1> HIDE DEF r
<1>11. StillFollows(d, r)  BY <1>2, SameShown
<1>3. Stage(d, r) /\ WellFormed(r) /\ g \in DOMAIN r.graphs
  BY <1>2, <1>11, TrimsStage, TrimsFormed DEF Trims
<1>4. Stage(r, w) /\ WellFormed(w) /\ g \in DOMAIN w.view /\ w.graphs = d.graphs
  BY <1>2, <1>3, WithViewStage, StageFormed
<1> HIDE DEF w
<1>5. ViewTrims(w.view[g], a)  BY <1>4, Formed DEF ViewTrims, ViewFields
<1>12. /\ Follows(w.graphs[g], w.view[g]) => Follows(w.graphs[g], a)
       /\ a.reroutes = w.view[g].reroutes
  BY <1>4, <1>10, Formed DEF Follows, ViewFields
<1> HIDE DEF a
<1>6. Stage(w, p) /\ WellFormed(p)  BY <1>4, <1>5, <1>12, PlacesStage, StageFormed
<1>7. g \in DOMAIN p.view /\ p.graphs = w.graphs /\ p.view[g].reroutes = w.view[g].reroutes
  <2>1. {"graphs", "view"} \subseteq DOMAIN w  BY <1>4, Formed
  <2> QED BY <1>4, <1>12, <2>1 DEF SetView
<1> HIDE DEF p
<1>8. ViewTrims(p.view[g], b)  BY <1>6, <1>7, Formed DEF ViewTrims, ViewFields
<1>13. Follows(p.graphs[g], p.view[g]) => Follows(p.graphs[g], b)
  BY <1>4, <1>6, <1>7, <1>10, Formed DEF Follows, ViewFields
<1> HIDE DEF b
<1>9. Stage(p, SetView(p, g, b))  BY <1>6, <1>7, <1>8, <1>13, PlacesStage
<1> QED BY <1>1, <1>3, <1>4, <1>6, <1>9, StageTwice, StageFormed

-----------------------------------------------------------------------------
(* Wiring local to occurrences.                                               *)

(* Only that differs, and its cursors move up.                              *)
TopsGrow(d, e) ==
  /\ DocFields \subseteq DOMAIN e
  /\ e.graphs = d.graphs /\ e.view = d.view /\ e.panels = d.panels /\ e.panelSeq = d.panelSeq
  /\ \A o \in DOMAIN d.tops : o \in DOMAIN e.tops /\ d.tops[o].next <= e.tops[o].next
  /\ \A o \in DOMAIN e.tops : TopFields \subseteq DOMAIN e.tops[o] /\ e.tops[o].next \in Nat

(* The local wiring of a well formed document.                              *)
LEMMA TopsFormed ==
  ASSUME NEW d, WellFormed(d)
  PROVE  /\ DocFields \subseteq DOMAIN d
         /\ \A o \in DOMAIN d.tops : TopFields \subseteq DOMAIN d.tops[o] /\ d.tops[o].next \in Nat
BY DEF WellFormed, DocFields, TopFields, NoTopology

(* The document grows with its local wiring.                                *)
LEMMA TopsGrowGrows ==
  ASSUME NEW d, NEW e, WellFormed(d), TopsGrow(d, e)
  PROVE  WellFormed(e) /\ Grows(d, e)
<1>1. WellFormed(e)  BY DEF WellFormed, TopsGrow, DocFields, TopFields, NoTopology
<1>2. Grows(d, d)  BY GrowsSelf
<1>3. ASSUME NEW g \in DOMAIN d.graphs PROVE ViewGrows(d, e, g)
  BY <1>2, <1>3 DEF Grows, ViewGrows, ViewOf, TopsGrow
<1>4. /\ e.graphs = d.graphs /\ e.view = d.view /\ e.panelSeq = d.panelSeq
      /\ \A o \in DOMAIN d.tops : o \in DOMAIN e.tops /\ d.tops[o].next <= e.tops[o].next
  BY DEF TopsGrow
<1> QED BY <1>1, <1>2, <1>3, <1>4, SameShown DEF Grows

(* One change of it after another.                                          *)
LEMMA TopsGrowTwice ==
  ASSUME NEW d, NEW r, NEW e, WellFormed(d), TopsGrow(d, r), TopsGrow(r, e)
  PROVE  TopsGrow(d, e)
<1>1. ASSUME NEW o \in DOMAIN d.tops PROVE o \in DOMAIN e.tops /\ d.tops[o].next <= e.tops[o].next
  <2>1. o \in DOMAIN r.tops /\ d.tops[o].next <= r.tops[o].next  BY <1>1 DEF TopsGrow
  <2>2. o \in DOMAIN e.tops /\ r.tops[o].next <= e.tops[o].next  BY <2>1 DEF TopsGrow
  <2>3. d.tops[o].next \in Nat  BY <1>1, TopsFormed
  <2>4. r.tops[o].next \in Nat  BY <2>1 DEF TopsGrow
  <2>5. e.tops[o].next \in Nat  BY <2>2 DEF TopsGrow
  <2> QED BY <2>1, <2>2, <2>3, <2>4, <2>5
<1> QED BY <1>1 DEF TopsGrow

(* Nothing changed.                                                         *)
LEMMA TopsGrowSelf ==
  ASSUME NEW d, WellFormed(d)
  PROVE  TopsGrow(d, d)
BY TopsFormed DEF TopsGrow

SetTop(d, o, t) == [d EXCEPT !.tops[o] = t]

(* The wiring of one owner is another.                                      *)
LEMMA TopEdited ==
  ASSUME NEW d, WellFormed(d), NEW o, NEW t,
         o \in DOMAIN d.tops => /\ TopFields \subseteq DOMAIN t
                                /\ t.next \in Nat /\ d.tops[o].next <= t.next
  PROVE  /\ TopsGrow(d, SetTop(d, o, t)) /\ WellFormed(SetTop(d, o, t))
         /\ DOMAIN SetTop(d, o, t).tops = DOMAIN d.tops
         /\ o \in DOMAIN SetTop(d, o, t).tops => SetTop(d, o, t).tops[o] = t
<1> DEFINE e == SetTop(d, o, t)
<1>1. DocFields \subseteq DOMAIN d  BY TopsFormed
<1>2. /\ DOMAIN e = DOMAIN d
      /\ e.graphs = d.graphs /\ e.view = d.view /\ e.panels = d.panels /\ e.panelSeq = d.panelSeq
      /\ DOMAIN e.tops = DOMAIN d.tops
      /\ o \in DOMAIN e.tops => e.tops[o] = t
      /\ \A p \in DOMAIN d.tops : p # o => e.tops[p] = d.tops[p]
  BY <1>1 DEF DocFields, SetTop
<1> HIDE DEF e
<1>3. TopsGrow(d, e)
  <2>1. ASSUME NEW p \in DOMAIN d.tops PROVE d.tops[p].next <= e.tops[p].next
    BY <1>2, <2>1, TopsFormed
  <2>2. ASSUME NEW p \in DOMAIN e.tops PROVE TopFields \subseteq DOMAIN e.tops[p] /\ e.tops[p].next \in Nat
    BY <1>2, <2>2, TopsFormed
  <2> QED BY <1>1, <1>2, <2>1, <2>2 DEF TopsGrow
<1> QED BY <1>2, <1>3, TopsGrowGrows DEF e

SetTopLinks(d, o, x) == [d EXCEPT !.tops[o].links = x]
SetTopSup(d, o, x) == [d EXCEPT !.tops[o].sup = x]
SetTopNext(d, o, x) == [d EXCEPT !.tops[o].next = x]

(* The links, the suppressions, the cursor of one owner are others.         *)
LEMMA TopPartsEdited ==
  ASSUME NEW d, WellFormed(d), NEW o, NEW x
  PROVE  /\ LET e == SetTopLinks(d, o, x)
            IN  /\ TopsGrow(d, e) /\ WellFormed(e) /\ DOMAIN e.tops = DOMAIN d.tops
                /\ o \in DOMAIN d.tops => e.tops[o].next = d.tops[o].next
         /\ LET e == SetTopSup(d, o, x)
            IN  /\ TopsGrow(d, e) /\ WellFormed(e) /\ DOMAIN e.tops = DOMAIN d.tops
                /\ o \in DOMAIN d.tops => e.tops[o].next = d.tops[o].next
         /\ x \in Nat /\ (o \in DOMAIN d.tops => d.tops[o].next <= x) =>
               TopsGrow(d, SetTopNext(d, o, x))
<1> DEFINE t == d.tops[o]
           a == [t EXCEPT !.links = x]
           b == [t EXCEPT !.sup = x]
           c == [t EXCEPT !.next = x]
           p == SetTopLinks(d, o, x)
           q == SetTopSup(d, o, x)
           r == SetTopNext(d, o, x)
<1>1. p = SetTop(d, o, a) /\ q = SetTop(d, o, b) /\ r = SetTop(d, o, c)
  BY DEF SetTop, SetTopLinks, SetTopSup, SetTopNext
<1> HIDE DEF p, q, r
<1>2. o \in DOMAIN d.tops => TopFields \subseteq DOMAIN t /\ t.next \in Nat  BY TopsFormed
<1> HIDE DEF t
<1>3. o \in DOMAIN d.tops => /\ TopFields \subseteq DOMAIN a /\ a.next = t.next
                             /\ TopFields \subseteq DOMAIN b /\ b.next = t.next
                             /\ TopFields \subseteq DOMAIN c /\ c.next = x
  BY <1>2 DEF TopFields
<1> HIDE DEF a, b, c
<1>4. o \in DOMAIN d.tops => /\ a.next \in Nat /\ t.next <= a.next
                             /\ b.next \in Nat /\ t.next <= b.next
  BY <1>2, <1>3
<1>5. /\ TopsGrow(d, p) /\ WellFormed(p) /\ DOMAIN p.tops = DOMAIN d.tops
      /\ o \in DOMAIN d.tops => p.tops[o] = a
  BY <1>1, <1>3, <1>4, TopEdited DEF t
<1>6. /\ TopsGrow(d, q) /\ WellFormed(q) /\ DOMAIN q.tops = DOMAIN d.tops
      /\ o \in DOMAIN d.tops => q.tops[o] = b
  BY <1>1, <1>3, <1>4, TopEdited DEF t
<1>7. ASSUME x \in Nat, o \in DOMAIN d.tops => t.next <= x PROVE TopsGrow(d, r)
  <2>1. o \in DOMAIN d.tops => TopFields \subseteq DOMAIN c /\ c.next \in Nat /\ d.tops[o].next <= c.next
    BY <1>3, <1>7 DEF t
  <2> QED BY <1>1, <2>1, TopEdited
<1>8. o \in DOMAIN d.tops => p.tops[o].next = d.tops[o].next /\ q.tops[o].next = d.tops[o].next
  BY <1>3, <1>5, <1>6 DEF t
<1> QED BY <1>5, <1>6, <1>7, <1>8 DEF p, q, r, t

(* ensureTopology                                                           *)
LEMMA WithTopologyGrows ==
  ASSUME NEW d, WellFormed(d), NEW o
  PROVE  LET e == WithTopology(d, o)
         IN  /\ TopsGrow(d, e) /\ WellFormed(e)
             /\ o \in DOMAIN e.tops /\ e.tops[o].next = TopologyOf(d, o).next
<1> DEFINE e == WithTopology(d, o)
<1>1. CASE o \in DOMAIN d.tops  BY <1>1, TopsGrowSelf DEF WithTopology, TopologyOf
<1>2. CASE o \notin DOMAIN d.tops
  <2> DEFINE t == [NoTopology EXCEPT !.body = GraphAt(d, o)]
             tops == Put(d.tops, o, t)
  <2>1. e = [d EXCEPT !.tops = tops]  BY <1>2 DEF WithTopology
  <2>2. TopFields \subseteq DOMAIN t /\ t.next = 0  BY DEF NoTopology, TopFields
  <2> HIDE DEF t
  <2>3. /\ DOMAIN tops = DOMAIN d.tops \union {o} /\ tops[o] = t
        /\ \A p \in DOMAIN d.tops : tops[p] = d.tops[p]
    BY <1>2 DEF Put
  <2> HIDE DEF tops
  <2>4. DocFields \subseteq DOMAIN d  BY TopsFormed
  <2>5. /\ DOMAIN e = DOMAIN d
        /\ e.graphs = d.graphs /\ e.view = d.view /\ e.panels = d.panels /\ e.panelSeq = d.panelSeq
        /\ e.tops = tops
    BY <2>1, <2>4 DEF DocFields
  <2> HIDE DEF e
  <2>6. \A p \in DOMAIN d.tops : d.tops[p].next <= tops[p].next  BY <2>3, TopsFormed
  <2>7. \A p \in DOMAIN tops : TopFields \subseteq DOMAIN tops[p] /\ tops[p].next \in Nat
    BY <2>2, <2>3, TopsFormed
  <2>8. TopsGrow(d, e)  BY <2>3, <2>4, <2>5, <2>6, <2>7 DEF TopsGrow
  <2>9. TopologyOf(d, o).next = 0  BY <1>2 DEF TopologyOf, NoTopology
  <2> QED BY <2>2, <2>3, <2>5, <2>8, <2>9, TopsGrowGrows DEF e
<1> QED BY <1>1, <1>2

(* removeIdentity                                                           *)
LEMMA RemoveIdentityGrows ==
  ASSUME NEW d, WellFormed(d), NEW o, NEW id
  PROVE  TopsGrow(d, RemoveIdentity(d, o, id)) /\ WellFormed(RemoveIdentity(d, o, id))
<1> DEFINE r == WithTopology(d, o)
<1>1. TopsGrow(d, r) /\ WellFormed(r)  BY WithTopologyGrows
<1> HIDE DEF r
<1>2. PICK x, y : \/ RemoveIdentity(d, o, id) = SetTopLinks(d, o, x)
                  \/ RemoveIdentity(d, o, id) = SetTopSup(r, o, y)
  BY Zenon DEF RemoveIdentity, SetTopLinks, SetTopSup, r
<1>3. TopsGrow(d, SetTopLinks(d, o, x)) /\ WellFormed(SetTopLinks(d, o, x))  BY TopPartsEdited
<1>4. TopsGrow(r, SetTopSup(r, o, y)) /\ WellFormed(SetTopSup(r, o, y))  BY <1>1, TopPartsEdited
<1>5. TopsGrow(d, SetTopSup(r, o, y))  BY <1>1, <1>4, TopsGrowTwice
<1> QED BY <1>2, <1>3, <1>4, <1>5

(* addLocalLink                                                             *)
LEMMA AddLocalLinkGrows ==
  ASSUME NEW d, WellFormed(d), NEW o, NEW from, NEW to
  PROVE  TopsGrow(d, AddLocalLink(d, o, from, to))
<1> DEFINE r == WithTopology(d, o)
<1>1. TopsGrow(d, r) /\ WellFormed(r) /\ o \in DOMAIN r.tops  BY WithTopologyGrows
<1>2. PICK x : AddLocalLink(d, o, from, to) =
                 [r EXCEPT !.tops[o].links = x, !.tops[o].next = r.tops[o].next + 1]
  BY Zenon DEF AddLocalLink
<1> HIDE DEF r
<1> DEFINE p == SetTopLinks(r, o, x)
           n == r.tops[o].next + 1
<1>3. AddLocalLink(d, o, from, to) = SetTopNext(p, o, n)
  BY <1>2, Zenon DEF SetTopLinks, SetTopNext
<1>4. /\ TopsGrow(r, p) /\ WellFormed(p) /\ o \in DOMAIN p.tops
      /\ p.tops[o].next = r.tops[o].next
  BY <1>1, TopPartsEdited
<1>5. r.tops[o].next \in Nat  BY <1>1, TopsFormed
<1> HIDE DEF p
<1>6. n \in Nat /\ p.tops[o].next <= n  BY <1>4, <1>5
<1> HIDE DEF n
<1>7. TopsGrow(p, SetTopNext(p, o, n))  BY <1>4, <1>6, TopPartsEdited
<1>8. TopsGrow(d, p)  BY <1>1, <1>4, TopsGrowTwice
<1> QED BY <1>3, <1>7, <1>8, TopsGrowTwice

(* What is displaced goes.                                                  *)
LEMMA DisplaceGrows ==
  ASSUME NEW d, WellFormed(d), NEW o, NEW displaced
  PROVE  TopsGrow(d, Displace(d, o, displaced)) /\ WellFormed(Displace(d, o, displaced))
BY TopsGrowSelf, RemoveIdentityGrows DEF Displace

(* What one link, or a suppression taken back, adds.                        *)
LEMMA JoinedGrows ==
  ASSUME NEW d, WellFormed(d), NEW o, NEW from, NEW to, NEW hidden, NEW e \in Joined(d, o, from, to, hidden)
  PROVE  TopsGrow(d, e)
<1>1. PICK x : e = SetTopSup(d, o, x) \/ e = AddLocalLink(d, o, from, to)
  BY Zenon DEF Joined, When, SetTopSup
<1>2. TopsGrow(d, SetTopSup(d, o, x))  BY TopPartsEdited
<1> QED BY <1>1, <1>2, AddLocalLinkGrows

(* occurrence.link.connect                                                  *)
LEMMA LocalConnectGrows ==
  ASSUME NEW d, WellFormed(d), NEW o, NEW from, NEW to, NEW e \in LocalConnect(d, o, from, to)
  PROVE  Grows(d, e)
<1>1. PICK displaced : e \in ConnectOver(d, o, from, to, displaced)
  BY Zenon DEF LocalConnect, Planned
<1> DEFINE r == Displace(d, o, displaced)
<1>2. PICK hidden : e \in Joined(r, o, from, to, hidden)
  BY <1>1, Zenon DEF ConnectOver, JoinOn
<1>3. TopsGrow(d, r) /\ WellFormed(r)  BY DisplaceGrows
<1> HIDE DEF r
<1>4. TopsGrow(r, e)  BY <1>2, <1>3, JoinedGrows
<1> QED BY <1>3, <1>4, TopsGrowTwice, TopsGrowGrows

(* occurrence.link.disconnect                                               *)
LEMMA LocalDisconnectGrows ==
  ASSUME NEW d, WellFormed(d), NEW o, NEW link, NEW e \in LocalDisconnect(d, o, link)
  PROVE  Grows(d, e)
<1>1. e = RemoveIdentity(d, o, link.id)  BY Zenon DEF LocalDisconnect, Planned
<1> QED BY <1>1, RemoveIdentityGrows, TopsGrowGrows

(* occurrence.link.rewire                                                   *)
LEMMA LocalRewireGrows ==
  ASSUME NEW d, WellFormed(d), NEW o, NEW link, NEW to, NEW e \in LocalRewire(d, o, link, to)
  PROVE  Grows(d, e)
<1>1. PICK displaced : e \in RewireOver(d, o, link, to, displaced)
  BY Zenon DEF LocalRewire, Planned
<1> DEFINE r == Displace(d, o, displaced)
           s == RemoveIdentity(r, o, link.id)
<1>2. e \in Rejoined(r, o, link, to)  BY <1>1, Zenon DEF RewireOver
<1>3. TopsGrow(d, r) /\ WellFormed(r)  BY DisplaceGrows
<1> HIDE DEF r
<1>4. PICK x : e = SetTopLinks(r, o, x) \/ e = AddLocalLink(s, o, link.authored.from, to)
  BY <1>2, Zenon DEF Rejoined, When, SetTopLinks
<1>5. TopsGrow(r, s) /\ WellFormed(s)  BY <1>3, RemoveIdentityGrows
<1> HIDE DEF s
<1>6. TopsGrow(s, AddLocalLink(s, o, link.authored.from, to))  BY <1>5, AddLocalLinkGrows
<1>7. TopsGrow(r, SetTopLinks(r, o, x))  BY <1>3, TopPartsEdited
<1>8. TopsGrow(r, e)  BY <1>3, <1>4, <1>5, <1>6, <1>7, TopsGrowTwice
<1> QED BY <1>3, <1>8, TopsGrowTwice, TopsGrowGrows

(* occurrence.link.rewireSource                                             *)
LEMMA LocalRewireSourceGrows ==
  ASSUME NEW d, WellFormed(d), NEW o, NEW links, NEW from, NEW e \in LocalRewireSource(d, o, links, from)
  PROVE  Grows(d, e)
<1> DEFINE replaced == {x \in links : ~IsLocal(x.id)}
           n == TopologyOf(d, o).next + Cardinality(replaced)
           r == WithTopology(d, o)
<1>1. IsFiniteSet(links)  BY Zenon DEF LocalRewireSource
<1>2. PICK x, y : e = [r EXCEPT !.tops[o].links = x, !.tops[o].sup = y, !.tops[o].next = n]
  BY Zenon DEF LocalRewireSource, Planned
<1>3. TopsGrow(d, r) /\ WellFormed(r) /\ o \in DOMAIN r.tops /\ r.tops[o].next = TopologyOf(d, o).next
  BY WithTopologyGrows
<1>4. Cardinality(replaced) \in Nat  BY <1>1, FS_Subset, FS_CardinalityType
<1>5. r.tops[o].next \in Nat  BY <1>3, TopsFormed
<1> HIDE DEF replaced
<1>6. n \in Nat /\ r.tops[o].next <= n  BY <1>3, <1>4, <1>5
<1> HIDE DEF r, n
<1> DEFINE p == SetTopLinks(r, o, x)
           q == SetTopSup(p, o, y)
<1>7. e = SetTopNext(q, o, n)  BY <1>2, Zenon DEF SetTopLinks, SetTopSup, SetTopNext
<1>8. /\ TopsGrow(r, p) /\ WellFormed(p) /\ o \in DOMAIN p.tops /\ p.tops[o].next = r.tops[o].next
  BY <1>3, TopPartsEdited
<1> HIDE DEF p
<1>9. /\ TopsGrow(p, q) /\ WellFormed(q) /\ o \in DOMAIN q.tops /\ q.tops[o].next = p.tops[o].next
  BY <1>8, TopPartsEdited
<1> HIDE DEF q
<1>10. q.tops[o].next <= n  BY <1>6, <1>8, <1>9
<1>11. TopsGrow(q, e)  BY <1>6, <1>7, <1>9, <1>10, TopPartsEdited
<1>12. TopsGrow(d, p)  BY <1>3, <1>8, TopsGrowTwice
<1>13. TopsGrow(d, q)  BY <1>9, <1>12, TopsGrowTwice
<1> QED BY <1>11, <1>13, TopsGrowTwice, TopsGrowGrows

-----------------------------------------------------------------------------
(* Definitions come and go.                                                   *)

(* Canvases of definitions that were there go on following, new ones start. *)
LEMMA NewCanvases ==
  ASSUME NEW d, NEW e, DOMAIN e.view \subseteq DOMAIN e.graphs,
         \A g \in DOMAIN e.view \intersect DOMAIN d.graphs :
            Follows(d.graphs[g], ViewOf(d, g)) => Follows(e.graphs[g], e.view[g]),
         \A g \in DOMAIN e.view \ DOMAIN d.graphs : ViewFollows(d) => Follows(e.graphs[g], e.view[g])
  PROVE  StillFollows(d, e)
<1> SUFFICES ASSUME ViewFollows(d), NEW g \in DOMAIN e.view PROVE Follows(e.graphs[g], e.view[g])
  BY EachFollows DEF StillFollows
<1>1. CASE g \notin DOMAIN d.graphs  BY <1>1
<1>2. CASE g \in DOMAIN d.graphs
  <2>1. Follows(d.graphs[g], ViewOf(d, g))  BY EachFollows, EmptyFollows DEF ViewOf
  <2> QED BY <1>2, <2>1
<1> QED BY <1>1, <1>2

(* Definitions appear, others grow, and the local wiring keeps its cursors. *)
DefinitionsGrow(d, e) ==
  /\ StillFollows(d, e)
  /\ DocFields \subseteq DOMAIN e
  /\ DOMAIN d.graphs \subseteq DOMAIN e.graphs
  /\ \A g \in DOMAIN d.graphs : GraphGrows(d.graphs[g], e.graphs[g]) /\ ViewGrows(d, e, g)
  /\ \A g \in DOMAIN e.graphs \ DOMAIN d.graphs : GraphFormed(e.graphs[g]) /\ g \in DOMAIN e.view
  /\ DOMAIN d.view \subseteq DOMAIN e.view /\ DOMAIN e.view \subseteq DOMAIN e.graphs
  /\ \A g \in DOMAIN e.view : ViewFormed(e.view[g])
  /\ e.panels = d.panels /\ e.panelSeq = d.panelSeq
  /\ DOMAIN e.tops = DOMAIN d.tops
  /\ \A o \in DOMAIN d.tops : TopFields \subseteq DOMAIN e.tops[o] /\ e.tops[o].next = d.tops[o].next

(* So the document grows.                                                   *)
LEMMA DefinitionsGrowGrows ==
  ASSUME NEW d, NEW e, WellFormed(d), DefinitionsGrow(d, e)
  PROVE  Grows(d, e)
<1>1. \A o \in DOMAIN d.tops : d.tops[o].next \in Nat  BY TopsFormed
<1>2. d.panelSeq \in Nat  BY Formed
<1>3. \A g \in DOMAIN e.graphs : GraphFormed(e.graphs[g])  BY DEF DefinitionsGrow, GraphGrows
<1>4. PanelsFormed(d, d.panels) /\ DOMAIN d.graphs \subseteq DOMAIN e.graphs /\ e.panels = d.panels
  BY DEF WellFormed, PanelsFormed, DefinitionsGrow
<1>5. PanelsFormed(e, e.panels)  BY <1>4 DEF PanelsFormed
<1>6. WellFormed(e)
  BY <1>1, <1>2, <1>3, <1>5 DEF WellFormed, PanelsFormed, DefinitionsGrow, DocFields, TopFields, NoTopology
<1> QED BY <1>1, <1>2, <1>6 DEF Grows, DefinitionsGrow

(* subgraph.import                                                          *)
LEMMA SubgraphImportGrows ==
  ASSUME NEW d, WellFormed(d), NEW graphs, NEW views, NEW e \in SubgraphImport(d, graphs, views),
         \A g \in DOMAIN graphs : GraphFormed(graphs[g]),
         \A g \in DOMAIN views : ViewFormed(views[g]) /\ Follows(graphs[g], views[g])
  PROVE  Grows(d, e)
<1> DEFINE news == [g \in DOMAIN graphs |-> IF g \in DOMAIN views THEN views[g] ELSE EmptyView]
           G == PutAll(d.graphs, graphs)
           V == PutAll(d.view, news)
<1>1. /\ DOMAIN graphs \intersect DOMAIN d.graphs = {}
      /\ e = [d EXCEPT !.graphs = G, !.view = V]
  BY Zenon DEF SubgraphImport, When
<1>2. ViewFormed(EmptyView)  BY FS_EmptySet DEF ViewFormed, EmptyView
<1>3. /\ DOMAIN news = DOMAIN graphs /\ \A g \in DOMAIN graphs : ViewFormed(news[g]) /\ Follows(graphs[g], news[g])
  BY <1>2, EmptyFollows
<1> HIDE DEF news
<1>4. /\ DOMAIN G = DOMAIN d.graphs \union DOMAIN graphs
      /\ \A g \in DOMAIN graphs : G[g] = graphs[g]
      /\ \A g \in DOMAIN d.graphs : G[g] = d.graphs[g]
  BY <1>1 DEF PutAll
<1>5. DOMAIN d.view \subseteq DOMAIN d.graphs /\ \A g \in DOMAIN d.view : ViewFormed(d.view[g])
  BY Formed
<1>6. /\ DOMAIN V = DOMAIN d.view \union DOMAIN graphs
      /\ \A g \in DOMAIN graphs : V[g] = news[g]
      /\ \A g \in DOMAIN d.view : V[g] = d.view[g]
  BY <1>1, <1>3, <1>5 DEF PutAll
<1> HIDE DEF G, V
<1>7. /\ DocFields \subseteq DOMAIN d
      /\ \A o \in DOMAIN d.tops : TopFields \subseteq DOMAIN d.tops[o]
  BY TopsFormed
<1>8. /\ DocFields \subseteq DOMAIN e /\ e.graphs = G /\ e.view = V
      /\ e.panels = d.panels /\ e.panelSeq = d.panelSeq /\ e.tops = d.tops
  BY <1>1, <1>7 DEF DocFields
<1>9. ASSUME NEW g \in DOMAIN d.graphs
      PROVE  GraphGrows(d.graphs[g], e.graphs[g]) /\ ViewGrows(d, e, g)
  <2>1. GraphGrows(d.graphs[g], d.graphs[g]) /\ ViewGrows(d, d, g)  BY GrowsSelf DEF Grows
  <2>2. ViewOf(e, g) = ViewOf(d, g)  BY <1>1, <1>6, <1>8 DEF ViewOf
  <2> QED BY <1>4, <1>8, <2>1, <2>2 DEF ViewGrows
<1>11. StillFollows(d, e)
  <2>1. ASSUME NEW h \in DOMAIN e.view \intersect DOMAIN d.graphs
        PROVE  e.graphs[h] = d.graphs[h] /\ e.view[h] = ViewOf(d, h)
    BY <1>1, <1>4, <1>6, <1>8 DEF ViewOf
  <2>2. ASSUME NEW h \in DOMAIN e.view \ DOMAIN d.graphs
        PROVE  Follows(e.graphs[h], e.view[h])
    BY <1>3, <1>4, <1>5, <1>6, <1>8
  <2>3. DOMAIN e.view \subseteq DOMAIN e.graphs  BY <1>4, <1>5, <1>6, <1>8
  <2> QED BY <2>1, <2>2, <2>3, NewCanvases
<1>10. DefinitionsGrow(d, e)
  BY <1>3, <1>4, <1>5, <1>6, <1>7, <1>8, <1>9, <1>11 DEF DefinitionsGrow
<1> QED BY <1>10, DefinitionsGrowGrows

(* A fresh definition is a new one.                                         *)
LEMMA Fresh ==
  ASSUME NEW d, CanDefine(d)
  PROVE  FreshDefinition(d) \notin DOMAIN d.graphs
<1> DEFINE F == FreeDefinitions(d)
<1>1. DOMAIN Definitions = 1 .. Len(Definitions) /\ Len(Definitions) \in Nat
  BY DefinitionsAreDistinct
<1>2. F \subseteq DOMAIN Definitions /\ \A k \in F : Definitions[k] \notin DOMAIN d.graphs
  BY DEF FreeDefinitions
<1>3. F # {} /\ FreshDefinition(d) = Definitions[Min(F)]  BY DEF CanDefine, FreshDefinition
<1> HIDE DEF F
<1>4. F \subseteq Nat  BY <1>1, <1>2
<1>5. Min(F) \in F  BY <1>3, <1>4, Smallest
<1> QED BY <1>2, <1>3, <1>5

(* occurrence.localize                                                      *)
LEMMA LocalizeGrows ==
  ASSUME NEW d, WellFormed(d), NEW g \in DOMAIN d.graphs, NEW n \in DOMAIN d.graphs[g].nodes,
         NEW e \in Localize(d, g, n)
  PROVE  Grows(d, e)
<1> DEFINE def == d.graphs[g].nodes[n].body
           fresh == FreshDefinition(d)
           node == [d.graphs[g].nodes[n] EXCEPT !.body = fresh]
           b == [d.graphs[g] EXCEPT !.nodes[n] = node]
           G == Put([d.graphs EXCEPT ![g] = b], fresh, d.graphs[def])
           V == Put(d.view, fresh, ViewOf(d, def))
           route(r) == [k \in DOMAIN r |-> IF r[k].graph = def THEN [r[k] EXCEPT !.graph = fresh] ELSE r[k]]
           end(x) == IF x[1] = "boundary" THEN [x EXCEPT ![4] = route(@)] ELSE x
           suppression(x) ==
             IF x[1] # "leg" THEN x
             ELSE <<"leg", IF x[2][2] = def THEN [x[2] EXCEPT ![2] = fresh] ELSE x[2], route(x[3])>>
           moved(o) ==
             IF PlaceOn(d, o, g, n) = 0 THEN d.tops[o]
             ELSE [d.tops[o] EXCEPT
                     !.body = IF PlaceOn(d, o, g, n) = Len(o) THEN fresh ELSE @,
                     !.links = [l \in DOMAIN @ |-> [from |-> end(@[l].from), to |-> end(@[l].to)]],
                     !.sup = {suppression(x) : x \in @}]
           tops == [o \in DOMAIN d.tops |-> moved(o)]
           tags == d.tags \union {[t EXCEPT ![1] = fresh] : t \in {x \in d.tags : x[1] = def}}
<1>1. /\ def \in DOMAIN d.graphs /\ CanDefine(d)
      /\ e = [d EXCEPT !.graphs = G, !.view = V, !.tags = tags, !.tops = tops]
  BY Zenon DEF Localize, When
<1>2. ASSUME NEW o \in DOMAIN d.tops
      PROVE  \/ moved(o) = d.tops[o]
             \/ \E x, y, z : moved(o) = [d.tops[o] EXCEPT !.body = x, !.links = y, !.sup = z]
  <2> HIDE DEF end, suppression, fresh
  <2> QED BY Zenon
<1> HIDE DEF moved, tags, b, V, G
<1>3. ASSUME NEW o \in DOMAIN d.tops
      PROVE  TopFields \subseteq DOMAIN tops[o] /\ tops[o].next = d.tops[o].next
  <2>1. TopFields \subseteq DOMAIN d.tops[o]  BY TopsFormed
  <2>2. tops[o] = moved(o)  OBVIOUS
  <2>3. CASE moved(o) = d.tops[o]  BY <2>1, <2>2, <2>3
  <2>4. CASE \E x, y, z : moved(o) = [d.tops[o] EXCEPT !.body = x, !.links = y, !.sup = z]
    <3> HIDE DEF tops
    <3> QED BY <2>1, <2>2, <2>4 DEF TopFields
  <2> QED BY <1>2, <2>3, <2>4
<1>4. DOMAIN tops = DOMAIN d.tops  OBVIOUS
<1> HIDE DEF tops
<1>5. /\ DocFields \subseteq DOMAIN e /\ e.graphs = G /\ e.view = V /\ e.tops = tops
      /\ e.panels = d.panels /\ e.panelSeq = d.panelSeq
  BY <1>1, TopsFormed DEF DocFields
<1>6. fresh \notin DOMAIN d.graphs  BY <1>1, Fresh
<1>7. GraphGrows(d.graphs[g], b) /\ HasAll(d.graphs[g], b)
  <2> DEFINE a == d.graphs[g].nodes[n]
  <2>1. NodeFormed(a)  BY Formed DEF GraphFormed
  <2>2. NodeFormed(node) /\ node.dyn = a.dyn
    <3> HIDE DEF a, fresh
    <3> QED BY <2>1 DEF NodeFormed, a
  <2>3. \A f \in Families : FamilyOf(a, f).seq \in Nat /\ FamilyOf(node, f) = FamilyOf(a, f)
    BY <2>2, Formed DEF FamilyOf
  <2> HIDE DEF node
  <2> QED BY <2>2, <2>3, NodeGrows DEF b
<1> HIDE DEF fresh
<1>8. /\ DOMAIN G = DOMAIN d.graphs \union {fresh}
      /\ G[fresh] = d.graphs[def] /\ G[g] = b
      /\ \A h \in DOMAIN d.graphs : h # g => G[h] = d.graphs[h]
  BY <1>6 DEF Put, G
<1>9. /\ DOMAIN d.view \subseteq DOMAIN d.graphs
      /\ \A h \in DOMAIN d.view : ViewFormed(d.view[h])
      /\ ViewFormed(ViewOf(d, def)) /\ GraphFormed(d.graphs[def])
  <2>1. ViewFormed(EmptyView)  BY FS_EmptySet DEF ViewFormed, EmptyView
  <2> QED BY <1>1, <2>1, Formed DEF ViewOf
<1>10. /\ DOMAIN V = DOMAIN d.view \union {fresh}
       /\ V[fresh] = ViewOf(d, def)
       /\ \A h \in DOMAIN d.view : V[h] = d.view[h]
  BY <1>6, <1>9 DEF Put, V
<1>11. ASSUME NEW h \in DOMAIN d.graphs
       PROVE  GraphGrows(d.graphs[h], e.graphs[h]) /\ ViewGrows(d, e, h)
  <2>1. GraphGrows(d.graphs[h], d.graphs[h]) /\ ViewGrows(d, d, h)  BY GrowsSelf DEF Grows
  <2>2. ViewOf(e, h) = ViewOf(d, h)  BY <1>5, <1>6, <1>10 DEF ViewOf
  <2> QED BY <1>5, <1>7, <1>8, <2>1, <2>2 DEF ViewGrows
<1>13. StillFollows(d, e)
  <2>1. ASSUME NEW h \in DOMAIN d.view
        PROVE  Follows(d.graphs[h], ViewOf(d, h)) => Follows(e.graphs[h], e.view[h])
    <3>1. e.view[h] = ViewOf(d, h)  BY <1>5, <1>10 DEF ViewOf
    <3>2. HasAll(d.graphs[h], e.graphs[h])  BY <1>5, <1>7, <1>8, <1>9, HasAllSelf
    <3> QED BY <3>1, <3>2, FollowsMore
  <2>2. ViewFollows(d) => Follows(e.graphs[fresh], e.view[fresh])
    <3>1. ViewFollows(d) => Follows(d.graphs[def], ViewOf(d, def))
      BY EachFollows, EmptyFollows DEF ViewOf
    <3> QED BY <1>5, <1>8, <1>10, <3>1
  <2> QED BY <1>5, <1>6, <1>8, <1>9, <1>10, <2>1, <2>2, NewCanvases
<1> HIDE DEF def
<1>12. DefinitionsGrow(d, e)
  BY <1>3, <1>4, <1>5, <1>8, <1>9, <1>10, <1>11, <1>13 DEF DefinitionsGrow
<1> QED BY <1>12, DefinitionsGrowGrows

(* removeDefinitionSupportState: with definitions go their canvas, and the  *)
(* bindings of panels to their groups.                                      *)
LEMMA WithoutDefinitionsGrows ==
  ASSUME NEW d, WellFormed(d), NEW G
  PROVE  Grows(d, WithoutDefinitions(d, G))
<1> DEFINE e == WithoutDefinitions(d, G)
           panels == [s \in DOMAIN d.panels |-> {b \in d.panels[s] : b[1] \notin G}]
<1>1. DocFields \subseteq DOMAIN d  BY TopsFormed
<1>2. /\ DocFields \subseteq DOMAIN e
      /\ e.graphs = Minus(d.graphs, G) /\ e.view = Minus(d.view, G) /\ e.panels = panels
      /\ e.panelSeq = d.panelSeq /\ e.tops = d.tops
  BY <1>1 DEF WithoutDefinitions, DocFields
<1> HIDE DEF e
<1>3. /\ DOMAIN e.graphs = DOMAIN d.graphs \ G /\ DOMAIN e.view = DOMAIN d.view \ G
      /\ \A h \in DOMAIN e.graphs : e.graphs[h] = d.graphs[h]
      /\ \A h \in DOMAIN e.view : e.view[h] = d.view[h]
  BY <1>2 DEF Minus, Restrict
<1>4. ASSUME NEW s \in DOMAIN d.panels
      PROVE  /\ IsFiniteSet(panels[s])
             /\ \A b \in panels[s] : b[1] \in DOMAIN e.graphs /\ b[2] \in Nat
  <2>1. IsFiniteSet(d.panels[s]) /\ \A b \in d.panels[s] : b[1] \in DOMAIN d.graphs /\ b[2] \in Nat
    BY DEF WellFormed
  <2>2. panels[s] \subseteq d.panels[s] /\ \A b \in panels[s] : b[1] \notin G  OBVIOUS
  <2> HIDE DEF panels
  <2> QED BY <1>3, <2>1, <2>2, FS_Subset
<1>5. DOMAIN panels = DOMAIN d.panels  OBVIOUS
<1> HIDE DEF panels
<1>6. PanelsFormed(e, e.panels)  BY <1>2, <1>4, <1>5 DEF PanelsFormed, WellFormed
<1>7. WellFormed(e)  BY <1>2, <1>3, <1>6, TopsFormed DEF WellFormed, PanelsFormed, DocFields, TopFields, NoTopology
<1>8. ASSUME NEW h \in DOMAIN d.graphs \intersect DOMAIN e.graphs
      PROVE  GraphGrows(d.graphs[h], e.graphs[h]) /\ ViewGrows(d, e, h)
  <2>1. GraphGrows(d.graphs[h], d.graphs[h]) /\ ViewGrows(d, d, h)  BY GrowsSelf DEF Grows
  <2>2. ViewOf(e, h) = ViewOf(d, h)  BY <1>3 DEF ViewOf
  <2> QED BY <1>3, <2>1, <2>2 DEF ViewGrows
<1>9. \A o \in DOMAIN d.tops : d.tops[o].next \in Nat  BY TopsFormed
<1>10. StillFollows(d, e)  BY <1>3, EachFollows DEF StillFollows
<1> QED BY <1>2, <1>3, <1>7, <1>8, <1>9, <1>10, Formed DEF Grows, e

(* subgraph.deleteDefinition, subgraph.removeUnusedDefinitions              *)
LEMMA DefinitionsGoGrows ==
  ASSUME NEW d, WellFormed(d), NEW g, NEW e \in DeleteDefinition(d, g) \union RemoveUnusedDefinitions(d)
  PROVE  Grows(d, e)
<1>1. e = WithoutDefinitions(d, {g}) \/ e = WithoutDefinitions(d, Unused(d))
  BY Zenon DEF DeleteDefinition, RemoveUnusedDefinitions, When
<1> QED BY <1>1, WithoutDefinitionsGrows

-----------------------------------------------------------------------------
(* Counting.                                                                  *)

(* In a finite set that is strictly ordered, every rank is taken.           *)
LEMMA Ranked ==
  ASSUME NEW S, IsFiniteSet(S), NEW R,
         \A x \in S : <<x, x>> \notin R,
         \A x, y \in S : x = y \/ <<x, y>> \in R \/ <<y, x>> \in R,
         \A x, y, z \in S : <<x, y>> \in R /\ <<y, z>> \in R => <<x, z>> \in R,
         NEW k \in 1 .. Cardinality(S)
  PROVE  \E x \in S : Cardinality({y \in S : <<y, x>> \in R}) = k - 1
<1> DEFINE n == Cardinality(S)
           below(x) == {y \in S : <<y, x>> \in R}
           rank == [x \in S |-> Cardinality(below(x)) + 1]
<1>1. n \in Nat  BY FS_CardinalityType
<1>2. ASSUME NEW x \in S
      PROVE  IsFiniteSet(below(x)) /\ Cardinality(below(x)) \in 0 .. n - 1
  <2>1. below(x) \subseteq S /\ x \notin below(x)  OBVIOUS
  <2> HIDE DEF below
  <2>2. /\ IsFiniteSet(below(x)) /\ Cardinality(below(x)) <= n /\ Cardinality(below(x)) # n
    BY <2>1, FS_Subset
  <2>3. Cardinality(below(x)) \in Nat  BY <2>2, FS_CardinalityType
  <2> QED BY <1>1, <2>2, <2>3
<1>3. ASSUME NEW x \in S, NEW y \in S, <<x, y>> \in R
      PROVE  Cardinality(below(x)) < Cardinality(below(y))
  <2>1. below(x) \subseteq below(y) /\ x \in below(y) /\ x \notin below(x)  BY <1>3
  <2> HIDE DEF below
  <2>2. Cardinality(below(x)) <= Cardinality(below(y)) /\ Cardinality(below(x)) # Cardinality(below(y))
    BY <1>2, <2>1, FS_Subset
  <2> QED BY <1>2, <2>2
<1> HIDE DEF below
<1>4. rank \in [S -> 1 .. n]
  <2>1. ASSUME NEW x \in S PROVE Cardinality(below(x)) + 1 \in 1 .. n  BY <1>1, <1>2
  <2> QED BY <2>1
<1>5. \A x, y \in S : rank[x] = rank[y] => x = y
  <2> SUFFICES ASSUME NEW x \in S, NEW y \in S, x # y PROVE rank[x] # rank[y]  OBVIOUS
  <2>1. <<x, y>> \in R \/ <<y, x>> \in R  OBVIOUS
  <2>2. Cardinality(below(x)) # Cardinality(below(y))  BY <1>2, <1>3, <2>1
  <2> QED BY <1>2, <2>2
<1>6. rank \in Injection(S, 1 .. n)  BY <1>4, <1>5 DEF Injection, IsInjective
<1>7. IsFiniteSet(1 .. n) /\ Cardinality(1 .. n) = n  BY <1>1, FS_Interval
<1> HIDE DEF rank
<1>8. rank \in Surjection(S, 1 .. n)  BY <1>6, <1>7, FS_Injection
<1>9. PICK x \in S : rank[x] = k  BY <1>8 DEF Surjection
<1>10. Cardinality(below(x)) = k - 1  BY <1>2, <1>9 DEF rank
<1> QED BY <1>10 DEF below

(* The place of an element of a sequence.                                   *)
LEMMA IndexIs ==
  ASSUME NEW s, Len(s) \in Nat, NEW x
  PROVE  /\ Index(s, x) \in Nat
         /\ (\E i \in 1 .. Len(s) : s[i] = x) => /\ Index(s, x) \in 1 .. Len(s)
                                                 /\ s[Index(s, x)] = x
<1> DEFINE I == {i \in 1 .. Len(s) : s[i] = x}
<1>1. Index(s, x) = IF I # {} THEN Min(I) ELSE 0  BY DEF Index, SelectInSeq
<1>2. I \subseteq Nat  OBVIOUS
<1>3. I # {} => Min(I) \in I
  <2> HIDE DEF I
  <2> QED BY <1>2, Smallest
<1> QED BY <1>1, <1>3

-----------------------------------------------------------------------------
(* Extracting a selection.                                                    *)

(* What a selection, and what lies wholly in it, is taken from.             *)
TakenFrom(gr, sel, cut) ==
  /\ sel.nodes \subseteq DOMAIN gr.nodes /\ sel.sources \subseteq gr.sources
  /\ sel.selectors \subseteq DOMAIN gr.selectors /\ sel.reroutes \subseteq gr.reroutes
  /\ cut.inner \subseteq DOMAIN gr.links
  /\ cut.innerNets \subseteq DOMAIN gr.nets /\ cut.outwardNets \subseteq DOMAIN gr.nets

(* Ids are natural numbers, finitely many.                                  *)
LEMMA IdsFinite ==
  ASSUME NEW gr, GraphFormed(gr), NEW S, S \subseteq AllIds(gr)
  PROVE  S \subseteq Nat /\ IsFiniteSet(S)
<1>1. gr.next \in Nat /\ S \subseteq 0 .. gr.next - 1  BY DEF GraphFormed
<1> DEFINE I == 0 .. gr.next - 1
<1>2. IsFiniteSet(I)  BY <1>1, FS_Interval
<1>3. I \subseteq Nat /\ S \subseteq I  BY <1>1
<1> HIDE DEF I
<1> QED BY <1>2, <1>3, FS_Subset

(* Tagged, they still are.                                                  *)
LEMMA TaggedFinite ==
  ASSUME NEW S, IsFiniteSet(S), NEW kind
  PROVE  IsFiniteSet(Tagged(kind, S))
<1> DEFINE f == [x \in S |-> <<kind, x>>]
<1>1. f \in Surjection(S, Tagged(kind, S))  BY DEF Surjection, Tagged
<1> HIDE DEF f
<1> QED BY <1>1, FS_Surjection

(* The candidates of a selector are finitely many.                          *)
LEMMA BranchesFinite ==
  ASSUME NEW gr, GraphFormed(gr), NEW s \in DOMAIN gr.selectors
  PROVE  IsFiniteSet(Branches(gr, s))
<1> DEFINE c == gr.selectors[s].cands
           f == [k \in 1 .. Len(c) |-> <<"candidate", s, c[k]>>]
<1>1. c \in Seq(Nat)  BY DEF GraphFormed, SelectorsFormed, SelectorFormed
<1>2. Branches(gr, s) = {<<"candidate", s, x>> : x \in Range(c)}  BY DEF Branches
<1> HIDE DEF c
<1>3. Range(c) = {c[k] : k \in 1 .. Len(c)}  BY <1>1 DEF Range
<1>4. f \in Surjection(1 .. Len(c), Branches(gr, s))  BY <1>2, <1>3 DEF Surjection
<1>5. IsFiniteSet(1 .. Len(c))  BY <1>1, FS_Interval
<1> HIDE DEF f
<1> QED BY <1>4, <1>5, FS_Surjection

(* What moves is finite; every thing that moves is one of these.            *)
LEMMA InnerItemsAre ==
  ASSUME NEW gr, GraphFormed(gr), NEW sel, NEW cut, TakenFrom(gr, sel, cut)
  PROVE  /\ IsFiniteSet(InnerItems(gr, sel, cut))
         /\ \A x \in InnerItems(gr, sel, cut) :
              \/ \E i \in sel.nodes : x = <<"node", i>>
              \/ \E i \in sel.sources : x = <<"source", i>>
              \/ \E i \in sel.selectors : x = <<"selector", i>>
              \/ \E i \in sel.selectors : \E c \in Range(gr.selectors[i].cands) : x = <<"candidate", i, c>>
              \/ \E i \in sel.reroutes : x = <<"reroute", i>>
              \/ \E i \in DOMAIN gr.links : x = <<"link", i>>
              \/ \E i \in DOMAIN gr.nets : x = <<"net", i>>
<1> DEFINE nets == cut.innerNets \union {n \in cut.outwardNets : cut.sinks[n] # {}}
           all == {Branches(gr, s) : s \in sel.selectors}
           f == [s \in sel.selectors |-> Branches(gr, s)]
<1>1. nets \subseteq DOMAIN gr.nets  BY DEF TakenFrom
<1>2. /\ IsFiniteSet(sel.nodes) /\ IsFiniteSet(sel.sources) /\ IsFiniteSet(sel.selectors)
      /\ IsFiniteSet(sel.reroutes) /\ IsFiniteSet(cut.inner) /\ IsFiniteSet(nets)
  <2>1. /\ sel.nodes \subseteq AllIds(gr) /\ sel.sources \subseteq AllIds(gr) /\ sel.selectors \subseteq AllIds(gr)
        /\ sel.reroutes \subseteq AllIds(gr) /\ cut.inner \subseteq AllIds(gr) /\ nets \subseteq AllIds(gr)
    BY <1>1 DEF TakenFrom, AllIds
  <2> QED BY <2>1, IdsFinite
<1>3. IsFiniteSet(UNION all)
  <2>1. f \in Surjection(sel.selectors, all)  BY DEF Surjection
  <2>2. \A T \in all : IsFiniteSet(T)  BY BranchesFinite DEF TakenFrom
  <2> HIDE DEF f, all
  <2> QED BY <1>2, <2>1, <2>2, FS_Surjection, FS_UNION
<1>4. InnerItems(gr, sel, cut) =
        Tagged("node", sel.nodes) \union Tagged("source", sel.sources)
          \union Tagged("selector", sel.selectors) \union (UNION all)
          \union Tagged("reroute", sel.reroutes) \union Tagged("link", cut.inner) \union Tagged("net", nets)
  BY DEF InnerItems
<1>5. ASSUME NEW x \in UNION all
      PROVE  \E i \in sel.selectors : \E c \in Range(gr.selectors[i].cands) : x = <<"candidate", i, c>>
  BY <1>5 DEF Branches
<1> HIDE DEF all, nets
<1>6. IsFiniteSet(InnerItems(gr, sel, cut))
  <2> DEFINE a == Tagged("node", sel.nodes)
             b == Tagged("source", sel.sources)
             c == Tagged("selector", sel.selectors)
             e == Tagged("reroute", sel.reroutes)
             l == Tagged("link", cut.inner)
             n == Tagged("net", nets)
  <2>1. /\ IsFiniteSet(a) /\ IsFiniteSet(b) /\ IsFiniteSet(c) /\ IsFiniteSet(e) /\ IsFiniteSet(l)
        /\ IsFiniteSet(n)
    BY <1>2, TaggedFinite
  <2>2. InnerItems(gr, sel, cut) = a \union b \union c \union (UNION all) \union e \union l \union n
    BY <1>4
  <2> HIDE DEF a, b, c, e, l, n
  <2> DEFINE p == a \union b
             q == c \union (UNION all)
             r == e \union l
             s == p \union q
             t == r \union n
  <2>3. IsFiniteSet(p) /\ IsFiniteSet(q) /\ IsFiniteSet(r)  BY <1>3, <2>1, FS_Union
  <2>4. InnerItems(gr, sel, cut) = s \union t  BY <2>2
  <2> HIDE DEF p, q, r
  <2>5. IsFiniteSet(s) /\ IsFiniteSet(t)  BY <2>1, <2>3, FS_Union
  <2> HIDE DEF s, t
  <2> QED BY <2>4, <2>5, FS_Union
<1>7. ASSUME NEW x \in InnerItems(gr, sel, cut)
      PROVE  \/ \E i \in sel.nodes : x = <<"node", i>>
             \/ \E i \in sel.sources : x = <<"source", i>>
             \/ \E i \in sel.selectors : x = <<"selector", i>>
             \/ \E i \in sel.selectors : \E c \in Range(gr.selectors[i].cands) : x = <<"candidate", i, c>>
             \/ \E i \in sel.reroutes : x = <<"reroute", i>>
             \/ \E i \in DOMAIN gr.links : x = <<"link", i>>
             \/ \E i \in DOMAIN gr.nets : x = <<"net", i>>
  <2>1. x \in UNION all \/ x \notin UNION all  OBVIOUS
  <2>2. x \notin UNION all =>
          \/ \E i \in sel.nodes : x = <<"node", i>>
          \/ \E i \in sel.sources : x = <<"source", i>>
          \/ \E i \in sel.selectors : x = <<"selector", i>>
          \/ \E i \in sel.reroutes : x = <<"reroute", i>>
          \/ \E i \in cut.inner : x = <<"link", i>>
          \/ \E i \in nets : x = <<"net", i>>
    BY <1>4 DEF Tagged
  <2> QED BY <1>1, <1>5, <2>1, <2>2 DEF TakenFrom
<1> QED BY <1>6, <1>7

(* What is moved is told apart by its rank, its id and its branch.          *)
LEMMA InnerKeys ==
  ASSUME NEW gr, GraphFormed(gr), NEW sel, NEW cut, TakenFrom(gr, sel, cut)
  PROVE  LET M == InnerItems(gr, sel, cut)
         IN  /\ \A x \in M : Rank(x) \in Nat /\ x[2] \in Nat /\ Branch(gr, x) \in Nat
             /\ \A x, y \in M :
                  Rank(x) = Rank(y) /\ x[2] = y[2] /\ Branch(gr, x) = Branch(gr, y) => x = y
<1> DEFINE M == InnerItems(gr, sel, cut)
           Plain(x) == \/ x = <<"node", x[2]>> /\ Rank(x) = 1
                       \/ x = <<"source", x[2]>> /\ Rank(x) = 2
                       \/ x = <<"selector", x[2]>> /\ Rank(x) = 3
                       \/ x = <<"reroute", x[2]>> /\ Rank(x) = 4
                       \/ x = <<"link", x[2]>> /\ Rank(x) = 5
                       \/ x = <<"net", x[2]>> /\ Rank(x) = 6
           Choice(x) == /\ x = <<"candidate", x[2], x[3]>> /\ Rank(x) = 3
                        /\ x[2] \in DOMAIN gr.selectors
                        /\ x[3] \in Range(gr.selectors[x[2]].cands)
<1>1. AllIds(gr) \subseteq Nat  BY IdsFinite
<1>2. ASSUME NEW x \in M PROVE x[2] \in Nat /\ (Plain(x) \/ Choice(x))
  <2>1. CASE \E i \in sel.nodes : x = <<"node", i>>
    BY <1>1, <2>1 DEF TakenFrom, AllIds, Rank
  <2>2. CASE \E i \in sel.sources : x = <<"source", i>>
    BY <1>1, <2>2 DEF TakenFrom, AllIds, Rank
  <2>3. CASE \E i \in sel.selectors : x = <<"selector", i>>
    BY <1>1, <2>3 DEF TakenFrom, AllIds, Rank
  <2>4. CASE \E i \in sel.selectors : \E c \in Range(gr.selectors[i].cands) : x = <<"candidate", i, c>>
    BY <1>1, <2>4 DEF TakenFrom, AllIds, Rank
  <2>5. CASE \E i \in sel.reroutes : x = <<"reroute", i>>
    BY <1>1, <2>5 DEF TakenFrom, AllIds, Rank
  <2>6. CASE \E i \in DOMAIN gr.links : x = <<"link", i>>
    BY <1>1, <2>6 DEF AllIds, Rank
  <2>7. CASE \E i \in DOMAIN gr.nets : x = <<"net", i>>
    BY <1>1, <2>7 DEF AllIds, Rank
  <2> HIDE DEF Plain, Choice
  <2> QED BY <2>1, <2>2, <2>3, <2>4, <2>5, <2>6, <2>7, InnerItemsAre
<1>3. ASSUME NEW x \in M, Plain(x)
      PROVE  Rank(x) \in Nat /\ Branch(gr, x) = 0
  BY <1>3 DEF Branch
<1>4. ASSUME NEW x \in M, Choice(x)
      PROVE  LET c == gr.selectors[x[2]].cands
             IN  /\ Branch(gr, x) \in 1 .. Len(c) /\ Len(c) \in Nat
                 /\ c[Branch(gr, x)] = x[3] /\ Rank(x) \in Nat
  <2> DEFINE c == gr.selectors[x[2]].cands
  <2>1. c \in Seq(Nat)  BY <1>4 DEF GraphFormed, SelectorsFormed, SelectorFormed
  <2>2. x[3] \in Range(c) /\ x[1] = "candidate"  BY <1>4
  <2>3. Branch(gr, x) = Index(c, x[3])  BY <2>2 DEF Branch
  <2> HIDE DEF c
  <2>4. \E i \in 1 .. Len(c) : c[i] = x[3]  BY <2>1, <2>2 DEF Range
  <2>5. Index(c, x[3]) \in 1 .. Len(c) /\ c[Index(c, x[3])] = x[3]  BY <2>1, <2>4, IndexIs
  <2> QED BY <1>4, <2>1, <2>3, <2>5 DEF c
<1>5. ASSUME NEW x \in M, NEW y \in M,
             Rank(x) = Rank(y), x[2] = y[2], Branch(gr, x) = Branch(gr, y)
      PROVE  x = y
  <2>1. CASE Plain(x) /\ Plain(y)  BY <1>5, <2>1
  <2>2. CASE Choice(x) /\ Choice(y)
    <3>1. x[3] = y[3]  BY <1>4, <1>5, <2>2
    <3> QED BY <1>5, <2>2, <3>1
  <2>3. CASE (Choice(x) /\ Plain(y)) \/ (Plain(x) /\ Choice(y))
    <3> HIDE DEF Plain, Choice
    <3> QED BY <1>3, <1>4, <1>5, <2>3
  <2> HIDE DEF Plain, Choice, M
  <2>4. (Plain(x) \/ Choice(x)) /\ (Plain(y) \/ Choice(y))  BY <1>2
  <2> QED BY <2>1, <2>2, <2>3, <2>4, Zenon
<1> HIDE DEF Plain, Choice
<1>6. ASSUME NEW x \in M PROVE Rank(x) \in Nat /\ x[2] \in Nat /\ Branch(gr, x) \in Nat
  BY <1>2, <1>3, <1>4
<1> QED BY <1>5, <1>6

(* The order numbers all that is moved.                                     *)
LEMMA InnerOrderIs ==
  ASSUME NEW gr, GraphFormed(gr), NEW sel, NEW cut, TakenFrom(gr, sel, cut)
  PROVE  LET order == InnerOrder(gr, sel, cut)
         IN  /\ Len(order) \in Nat /\ DOMAIN order = 1 .. Len(order)
             /\ \A k \in DOMAIN order : order[k] \in InnerItems(gr, sel, cut)
<1> DEFINE M == InnerItems(gr, sel, cut)
           R == {p \in M \X M : CountedBefore(gr, p[1], p[2])}
           order == InnerOrder(gr, sel, cut)
<1>1. IsFiniteSet(M) /\ Cardinality(M) \in Nat  BY InnerItemsAre, FS_CardinalityType
<1>2. /\ \A x \in M : Rank(x) \in Nat /\ x[2] \in Nat /\ Branch(gr, x) \in Nat
      /\ \A x, y \in M :
           Rank(x) = Rank(y) /\ x[2] = y[2] /\ Branch(gr, x) = Branch(gr, y) => x = y
  BY InnerKeys
<1>3. order = [k \in 1 .. Cardinality(M) |->
                CHOOSE x \in M : Cardinality({y \in M : CountedBefore(gr, y, x)}) = k - 1]
  BY DEF InnerOrder
<1> HIDE DEF M
<1>4. \A x, y \in M : <<x, y>> \in R <=> CountedBefore(gr, x, y)  OBVIOUS
<1>5. \A x \in M : ~CountedBefore(gr, x, x)  BY <1>2 DEF CountedBefore
<1>6. \A x, y \in M : x = y \/ CountedBefore(gr, x, y) \/ CountedBefore(gr, y, x)
  BY <1>2 DEF CountedBefore
<1>7. \A x, y, z \in M : CountedBefore(gr, x, y) /\ CountedBefore(gr, y, z) => CountedBefore(gr, x, z)
  BY <1>2 DEF CountedBefore
<1> HIDE DEF R
<1>8. ASSUME NEW k \in 1 .. Cardinality(M)
      PROVE  \E x \in M : Cardinality({y \in M : CountedBefore(gr, y, x)}) = k - 1
  <2>1. /\ \A x \in M : <<x, x>> \notin R
        /\ \A x, y \in M : x = y \/ <<x, y>> \in R \/ <<y, x>> \in R
        /\ \A x, y, z \in M : <<x, y>> \in R /\ <<y, z>> \in R => <<x, z>> \in R
    BY <1>4, <1>5, <1>6, <1>7
  <2>2. PICK x \in M : Cardinality({y \in M : <<y, x>> \in R}) = k - 1
    BY <1>1, <2>1, Ranked
  <2>3. {y \in M : <<y, x>> \in R} = {y \in M : CountedBefore(gr, y, x)}  BY <1>4
  <2> QED BY <2>2, <2>3
<1>9. ASSUME NEW k \in 1 .. Cardinality(M) PROVE order[k] \in M  BY <1>3, <1>8
<1>10. DOMAIN order = 1 .. Cardinality(M)  BY <1>3
<1>11. order \in Seq(M) /\ Len(order) = Cardinality(M)
  <2>1. order = [k \in 1 .. Cardinality(M) |-> order[k]]  BY <1>3
  <2> HIDE DEF order
  <2> QED BY <1>1, <1>9, <1>10, <2>1
<1> QED BY <1>1, <1>9, <1>10, <1>11 DEF M

(* The new definition is well formed.                                       *)
LEMMA ExtractedFormed ==
  ASSUME NEW gr, GraphFormed(gr), NEW sel, NEW cut, TakenFrom(gr, sel, cut)
  PROVE  GraphFormed(Extracted(gr, sel, cut))
<1> DEFINE order == InnerOrder(gr, sel, cut)
           M == InnerItems(gr, sel, cut)
           nodes == [k \in Those(order, "node") |-> gr.nodes[order[k][2]]]
           b == Extracted(gr, sel, cut)
<1>1. b = [nodes |-> nodes, sources |-> Those(order, "source"), selectors |-> ExtractedSelectors(gr, order),
           reroutes |-> Those(order, "reroute"), links |-> ExtractedLinks(gr, order),
           nets |-> ExtractedNets(gr, cut, order), boundary |-> ExtractedBoundary(gr, sel, cut, order),
           next |-> Len(order) + 1]
  BY DEF Extracted
<1>2. /\ DOMAIN ExtractedLinks(gr, order) = Those(order, "link")
      /\ DOMAIN ExtractedNets(gr, cut, order) = Those(order, "net")
      /\ DOMAIN ExtractedSelectors(gr, order) = Those(order, "selector")
  BY Zenon DEF ExtractedLinks, ExtractedNets, ExtractedSelectors
<1>3. /\ Len(order) \in Nat /\ DOMAIN order = 1 .. Len(order)
      /\ \A k \in DOMAIN order : order[k] \in M
  BY InnerOrderIs
<1>4. \A x \in M : /\ x[1] = "node" => x[2] \in DOMAIN gr.nodes
                   /\ x[1] = "selector" => x[2] \in DOMAIN gr.selectors
  <2> HIDE DEF M
  <2>1. ASSUME NEW x \in M
        PROVE  /\ x[1] = "node" => x[2] \in DOMAIN gr.nodes
               /\ x[1] = "selector" => x[2] \in DOMAIN gr.selectors
    BY InnerItemsAre DEF TakenFrom, M
  <2> QED BY <2>1
<1> HIDE DEF order, M, b
<1>5. \A kind : Those(order, kind) \subseteq 0 .. Len(order)  BY <1>3 DEF Those
<1>6. \A k \in DOMAIN nodes : NodeFormed(nodes[k])
  BY <1>3, <1>4 DEF GraphFormed, Those
<1>7. SelectorsFormed(ExtractedSelectors(gr, order))
  <2> DEFINE S == ExtractedSelectors(gr, order)
  <2> SUFFICES ASSUME NEW k \in DOMAIN S PROVE SelectorFormed(S[k])  BY DEF SelectorsFormed
  <2> DEFINE s == order[k][2]
             cands == gr.selectors[s].cands
             num == [j \in DOMAIN cands |-> Index(order, <<"candidate", s, cands[j]>>)]
  <2>1. k \in Those(order, "selector")  BY <1>2
  <2>2. s \in DOMAIN gr.selectors  BY <1>3, <1>4, <2>1 DEF Those
  <2>3. cands \in Seq(Nat)  BY <2>2 DEF GraphFormed, SelectorsFormed, SelectorFormed
  <2>4. \E pick : S[k] = [cands |-> num, pick |-> pick]  BY <2>1 DEF ExtractedSelectors
  <2> HIDE DEF s, cands, S
  <2>5. num \in Seq(Nat)
    <3>1. \A j \in DOMAIN cands : num[j] \in Nat  BY <1>3, IndexIs
    <3>2. DOMAIN num = 1 .. Len(cands) /\ Len(cands) \in Nat  BY <2>3
    <3>3. num \in [1 .. Len(cands) -> Nat]  BY <2>3, <3>1
    <3> HIDE DEF num
    <3> QED BY <3>2, <3>3, SeqDef
  <2> HIDE DEF num
  <2> QED BY <2>4, <2>5 DEF SelectorFormed
<1> HIDE DEF nodes
<1>8. /\ {"nodes", "links", "nets", "reroutes", "sources", "selectors", "boundary", "next"} \subseteq DOMAIN b
      /\ b.nodes = nodes /\ b.selectors = ExtractedSelectors(gr, order) /\ b.next = Len(order) + 1
      /\ DOMAIN b.links = Those(order, "link") /\ DOMAIN b.nets = Those(order, "net")
      /\ b.reroutes = Those(order, "reroute") /\ b.sources = Those(order, "source")
  BY <1>1, <1>2
<1>9. DOMAIN nodes = Those(order, "node")  BY DEF nodes
<1>10. AllIds(b) \subseteq 0 .. b.next - 1  BY <1>2, <1>3, <1>5, <1>8, <1>9 DEF AllIds
<1> QED BY <1>3, <1>6, <1>7, <1>8, <1>10 DEF GraphFormed, b

(* What stays, with the occurrence, has grown.                              *)
LEMMA RemainingGrows ==
  ASSUME NEW gr, GraphFormed(gr), GraphFields \subseteq DOMAIN gr, GraphGrows(gr, gr),
         gr.next + 1 <= MaxOrdinal, NEW sel, NEW cut, NEW fresh
  PROVE  GraphGrows(gr, Remaining(gr, sel, cut, gr.next, fresh))
<1> DEFINE occ == gr.next
           node == [body |-> fresh, dyn |-> <<>>, vals |-> {}, region |-> NoRegion]
           kept == Minus(gr.nodes, sel.nodes)
           nodes == Put(kept, occ, node)
           selectors == Minus(gr.selectors, sel.selectors)
           links == RemainingLinks(gr, sel, cut, occ)
           nets == RemainingNets(gr, sel, cut, occ)
           boundary == RemainingBoundary(gr, sel, cut, occ)
           b == Remaining(gr, sel, cut, occ, fresh)
<1>1. b = [gr EXCEPT !.nodes = nodes, !.sources = @ \ sel.sources, !.selectors = selectors,
                     !.reroutes = @ \ sel.reroutes, !.links = links, !.nets = nets,
                     !.boundary = boundary, !.next = @ + 1]
  BY Zenon DEF Remaining
<1>2. DOMAIN links \subseteq DOMAIN gr.links /\ DOMAIN nets \subseteq DOMAIN gr.nets
  <2>1. \E X, Y : DOMAIN links = DOMAIN gr.links \ X /\ DOMAIN nets = DOMAIN gr.nets \ Y
    BY Zenon DEF RemainingLinks, RemainingNets
  <2> HIDE DEF links, nets
  <2> QED BY <2>1
<1>3. NodeFormed(node)  BY DEF NodeFormed
<1>4. /\ DOMAIN kept \subseteq DOMAIN gr.nodes
      /\ \A n \in DOMAIN kept : kept[n] = gr.nodes[n]
      /\ DOMAIN selectors \subseteq DOMAIN gr.selectors
      /\ \A s \in DOMAIN selectors : selectors[s] = gr.selectors[s]
  BY DEF Minus, Restrict
<1>5. gr.next \in Nat /\ occ \in Nat /\ AllIds(gr) \subseteq 0 .. occ - 1  BY DEF GraphFormed
<1>6. occ \notin DOMAIN gr.nodes  BY <1>5 DEF AllIds
<1> HIDE DEF kept, node, selectors, links, nets, boundary
<1>7. /\ DOMAIN nodes = DOMAIN kept \union {occ}
      /\ nodes[occ] = node /\ \A n \in DOMAIN kept : n # occ => nodes[n] = kept[n]
  BY DEF Put
<1> HIDE DEF nodes
<1>8. /\ GraphFields \subseteq DOMAIN b
      /\ b.nodes = nodes /\ b.sources = gr.sources \ sel.sources /\ b.selectors = selectors
      /\ b.reroutes = gr.reroutes \ sel.reroutes /\ b.links = links /\ b.nets = nets
      /\ b.next = occ + 1
  BY <1>1 DEF GraphFields
<1> HIDE DEF b, occ
<1>9. AllIds(b) \subseteq AllIds(gr) \union {occ}  BY <1>2, <1>4, <1>7, <1>8 DEF AllIds
<1>10. GraphFormed(b)
  <2>1. \A n \in DOMAIN b.nodes : NodeFormed(b.nodes[n])
    BY <1>3, <1>4, <1>7, <1>8 DEF GraphFormed
  <2>2. SelectorsFormed(b.selectors)  BY <1>4, <1>8 DEF GraphFormed, SelectorsFormed
  <2>3. b.next \in Nat /\ AllIds(b) \subseteq 0 .. b.next - 1  BY <1>5, <1>8, <1>9
  <2> QED BY <1>8, <2>1, <2>2, <2>3 DEF GraphFormed, GraphFields
<1>11. FamiliesGrow(gr, b)
  <2>1. ASSUME NEW n \in DOMAIN gr.nodes \intersect DOMAIN b.nodes PROVE b.nodes[n] = gr.nodes[n]
    BY <1>4, <1>6, <1>7, <1>8
  <2> QED BY <2>1 DEF GraphGrows, FamiliesGrow
<1>12. gr.next <= b.next /\ b.next <= MaxOrdinal  BY <1>5, <1>8 DEF occ
<1> QED BY <1>10, <1>11, <1>12 DEF GraphGrows, b, occ

(* What can be selected.                                                    *)
Selectable(d, g, sel) ==
  /\ sel.nodes \subseteq DOMAIN d.graphs[g].nodes /\ sel.sources \subseteq d.graphs[g].sources
  /\ sel.selectors \subseteq DOMAIN d.graphs[g].selectors /\ sel.reroutes \subseteq d.graphs[g].reroutes
  /\ sel.groups \subseteq ViewOf(d, g).groups

(* What lies wholly in a selection is of the definition.                    *)
LEMMA CutsTaken ==
  ASSUME NEW d, NEW g, NEW sel, Selectable(d, g, sel)
  PROVE  TakenFrom(d.graphs[g], sel, Cuts(d.graphs[g], sel))
<1> DEFINE gr == d.graphs[g]
           cut == Cuts(gr, sel)
<1>1. /\ cut.inner \subseteq DOMAIN gr.links /\ cut.innerNets \subseteq DOMAIN gr.nets
      /\ cut.outwardNets \subseteq DOMAIN gr.nets
  BY DEF Cuts
<1> HIDE DEF cut
<1> QED BY <1>1 DEF Selectable, TakenFrom, cut

(* The canvas that stays, and that of the new definition.                   *)
LEMMA ViewsFormed ==
  ASSUME NEW d, WellFormed(d), NEW g, NEW sel, sel.groups \subseteq ViewOf(d, g).groups,
         NEW cut, NEW occ, NEW v, NEW order
  PROVE  LET w == ViewWithout(d, g, sel, cut, occ)
             x == ViewExtracted(v, sel, order)
         IN  /\ ViewFormed(w) /\ ViewOf(d, g).seq <= w.seq /\ w.groups \subseteq ViewOf(d, g).groups
             /\ ViewFormed(x)
<1> DEFINE a == ViewOf(d, g)
           w == ViewWithout(d, g, sel, cut, occ)
           x == ViewExtracted(v, sel, order)
           seq == IF sel.groups = {} THEN a.seq ELSE GroupFloor(d, g)
<1>1. ViewFormed(EmptyView) /\ ViewFields \subseteq DOMAIN EmptyView
  BY FS_EmptySet DEF ViewFormed, EmptyView, ViewFields
<1>2. ViewFormed(a) /\ ViewFields \subseteq DOMAIN a
  BY <1>1, Formed DEF ViewOf
<1>3. seq \in Nat /\ a.seq <= seq  BY <1>2, NextGroup DEF ViewFormed
<1>4. w = [a EXCEPT !.nodes = (@ \ sel.nodes) \union {occ}, !.reroutes = @ \ sel.reroutes,
                    !.sources = @ \ sel.sources, !.selectors = @ \ sel.selectors,
                    !.groups = @ \ sel.groups, !.seq = seq,
                    !.collapsed = @ \ cut.innerNets, !.guides = @ \ cut.innerNets]
  BY Zenon DEF ViewWithout
<1> HIDE DEF seq
<1>5. ViewFields \subseteq DOMAIN w /\ w.seq = seq /\ w.groups = a.groups \ sel.groups
  <2> HIDE DEF a, w
  <2> QED BY <1>2, <1>4 DEF ViewFields
<1>6. IsFiniteSet(a.groups)  BY <1>2 DEF ViewFormed
<1>7. IsFiniteSet(a.groups \ sel.groups) /\ IsFiniteSet(sel.groups)  BY <1>6, FS_Subset
<1> HIDE DEF w
<1>8. ViewFormed(w)
  BY <1>2, <1>3, <1>5, <1>7 DEF ViewFormed, ViewFields, EmptyView
<1> DEFINE n == Cardinality(sel.groups)
<1>9. n \in Nat  BY <1>7, FS_CardinalityType
<1>10. ViewFields \subseteq DOMAIN x /\ x.seq = n /\ x.groups = 0 .. n - 1
  BY DEF ViewExtracted, ViewFields
<1> HIDE DEF x, n
<1>11. x.groups \subseteq Nat /\ IsFiniteSet(x.groups)  BY <1>9, <1>10, FS_Interval
<1>12. ViewFormed(x)  BY <1>9, <1>10, <1>11 DEF ViewFormed, ViewFields, EmptyView
<1> QED BY <1>3, <1>5, <1>8, <1>12 DEF w, x

(* What is shown of what stays is of what stays.                            *)
LEMMA RemainingFollows ==
  ASSUME NEW d, WellFormed(d), NEW g \in DOMAIN d.graphs, NEW sel, NEW cut, NEW occ, NEW fresh,
         Follows(d.graphs[g], ViewOf(d, g))
  PROVE  Follows(Remaining(d.graphs[g], sel, cut, occ, fresh), ViewWithout(d, g, sel, cut, occ))
<1> DEFINE gr == d.graphs[g]
           a == ViewOf(d, g)
           b == Remaining(gr, sel, cut, occ, fresh)
           w == ViewWithout(d, g, sel, cut, occ)
           nodes == Put(Minus(gr.nodes, sel.nodes), occ,
                        [body |-> fresh, dyn |-> <<>>, vals |-> {}, region |-> NoRegion])
           nets == RemainingNets(gr, sel, cut, occ)
           links == RemainingLinks(gr, sel, cut, occ)
           boundary == RemainingBoundary(gr, sel, cut, occ)
           selectors == Minus(gr.selectors, sel.selectors)
           seq == IF sel.groups = {} THEN a.seq ELSE GroupFloor(d, g)
<1>1. GraphFields \subseteq DOMAIN gr /\ ViewFields \subseteq DOMAIN a  BY Formed, ViewFieldsThere
<1>2. b = [gr EXCEPT !.nodes = nodes, !.sources = @ \ sel.sources, !.selectors = selectors,
                     !.reroutes = @ \ sel.reroutes, !.links = links, !.nets = nets,
                     !.boundary = boundary, !.next = @ + 1]
  BY Zenon DEF Remaining
<1>3. w = [a EXCEPT !.nodes = (@ \ sel.nodes) \union {occ}, !.reroutes = @ \ sel.reroutes,
                    !.sources = @ \ sel.sources, !.selectors = @ \ sel.selectors,
                    !.groups = @ \ sel.groups, !.seq = seq,
                    !.collapsed = @ \ cut.innerNets, !.guides = @ \ cut.innerNets]
  BY Zenon DEF ViewWithout
<1>4. DOMAIN nets = DOMAIN gr.nets \ cut.innerNets  BY Zenon DEF RemainingNets
<1>5. /\ DOMAIN nodes = (DOMAIN gr.nodes \ sel.nodes) \union {occ}
      /\ DOMAIN selectors = DOMAIN gr.selectors \ sel.selectors
  BY DEF Put, Minus, Restrict
<1> HIDE DEF gr, a, nodes, nets, links, boundary, selectors, seq, b, w
<1>6. /\ b.nodes = nodes /\ b.sources = gr.sources \ sel.sources /\ b.selectors = selectors
      /\ b.reroutes = gr.reroutes \ sel.reroutes /\ b.nets = nets
  BY <1>1, <1>2 DEF GraphFields
<1>7. /\ w.nodes = (a.nodes \ sel.nodes) \union {occ} /\ w.reroutes = a.reroutes \ sel.reroutes
      /\ w.sources = a.sources \ sel.sources /\ w.selectors = a.selectors \ sel.selectors
      /\ w.collapsed = a.collapsed \ cut.innerNets /\ w.guides = a.guides \ cut.innerNets
  BY <1>1, <1>3 DEF ViewFields
<1>8. Follows(gr, a)  BY DEF gr, a
<1>9. Follows(b, w)  BY <1>4, <1>5, <1>6, <1>7, <1>8 DEF Follows
<1> QED BY <1>9 DEF b, w, gr

(* What is shown of the new definition is of it.                            *)
LEMMA ExtractedFollows ==
  ASSUME NEW gr, NEW sel, NEW cut, NEW v, v.guides \subseteq v.collapsed
  PROVE  Follows(Extracted(gr, sel, cut), ViewExtracted(v, sel, InnerOrder(gr, sel, cut)))
<1> DEFINE order == InnerOrder(gr, sel, cut)
           nodes == [k \in Those(order, "node") |-> gr.nodes[order[k][2]]]
           of(nets) == {k \in Those(order, "net") : order[k][2] \in nets}
           b == Extracted(gr, sel, cut)
           w == ViewExtracted(v, sel, order)
<1>1. b = [nodes |-> nodes, sources |-> Those(order, "source"), selectors |-> ExtractedSelectors(gr, order),
           reroutes |-> Those(order, "reroute"), links |-> ExtractedLinks(gr, order),
           nets |-> ExtractedNets(gr, cut, order), boundary |-> ExtractedBoundary(gr, sel, cut, order),
           next |-> Len(order) + 1]
  BY DEF Extracted
<1>2. /\ DOMAIN ExtractedNets(gr, cut, order) = Those(order, "net")
      /\ DOMAIN ExtractedSelectors(gr, order) = Those(order, "selector")
      /\ DOMAIN nodes = Those(order, "node")
  BY Zenon DEF ExtractedNets, ExtractedSelectors
<1>3. w = [nodes |-> Those(order, "node"), reroutes |-> Those(order, "reroute"),
           sources |-> Those(order, "source"), selectors |-> Those(order, "selector"),
           groups |-> 0 .. Cardinality(sel.groups) - 1, seq |-> Cardinality(sel.groups),
           collapsed |-> of(v.collapsed), guides |-> of(v.guides)]
  BY Zenon DEF ViewExtracted
<1>4. of(v.guides) \subseteq of(v.collapsed) /\ of(v.collapsed) \subseteq Those(order, "net")
  OBVIOUS
<1> HIDE DEF b, w, nodes, of, order
<1>5. Follows(b, w)  BY <1>1, <1>2, <1>3, <1>4 DEF Follows
<1> QED BY <1>5 DEF b, w, order

(* subgraph.extract                                                         *)
LEMMA ExtractGrows ==
  ASSUME NEW d, WellFormed(d), NEW g \in DOMAIN d.graphs, NEW sel, Selectable(d, g, sel),
         NEW e \in Extract(d, g, sel)
  PROVE  Grows(d, e)
<1> DEFINE gr == d.graphs[g]
           cut == Cuts(gr, sel)
           order == InnerOrder(gr, sel, cut)
           fresh == FreshDefinition(d)
           occ == gr.next
           b == Remaining(gr, sel, cut, occ, fresh)
           x == Extracted(gr, sel, cut)
           v == ViewWithout(d, g, sel, cut, occ)
           w == ViewExtracted(ViewOf(d, g), sel, order)
           H == [d.graphs EXCEPT ![g] = b]
           W == Put(d.view, g, v)
           G == Put(H, fresh, x)
           V == Put(W, fresh, w)
           tags == TagsMoved(d.tags, g, cut, order, fresh)
<1>1. gr.next \in Nat /\ Mint(d, g, 0) = occ  BY Formed DEF Mint
<1>2. CanDefine(d) /\ CanMint(d, g, 1) /\ e = [d EXCEPT !.graphs = G, !.view = V, !.tags = tags]
  <2>1. /\ CanDefine(d) /\ CanMint(d, g, 1)
        /\ e = [d EXCEPT
                  !.graphs = Put([@ EXCEPT ![g] = Remaining(gr, sel, cut, Mint(d, g, 0), fresh)],
                                 fresh, x),
                  !.view = Put(Put(@, g, ViewWithout(d, g, sel, cut, Mint(d, g, 0))), fresh, w),
                  !.tags = TagsMoved(@, g, cut, order, fresh)]
    BY Zenon DEF Extract, When
  <2> QED BY <1>1, <2>1, Zenon
<1>3. GraphFormed(gr) /\ GraphFields \subseteq DOMAIN gr /\ GraphGrows(gr, gr)
  BY Formed, GrowsSelf DEF Grows
<1>4. gr.next + 1 <= MaxOrdinal  BY <1>2 DEF CanMint
<1>16. Follows(gr, ViewOf(d, g)) => Follows(b, v)  BY RemainingFollows
<1>17. ViewFollows(d) => Follows(x, w)
  <2>1. ViewFollows(d) => ViewOf(d, g).guides \subseteq ViewOf(d, g).collapsed
    BY DEF ViewFollows, ViewOf, EmptyView
  <2> QED BY <2>1, ExtractedFollows
<1> HIDE DEF gr
<1>5. GraphGrows(gr, b)  BY <1>3, <1>4, RemainingGrows
<1>6. GraphFormed(x)  BY <1>3, CutsTaken, ExtractedFormed DEF gr
<1>7. ViewFormed(v) /\ ViewOf(d, g).seq <= v.seq /\ v.groups \subseteq ViewOf(d, g).groups /\ ViewFormed(w)
  BY ViewsFormed DEF Selectable
<1>8. fresh \notin DOMAIN d.graphs  BY <1>2, Fresh
<1>9. /\ DOMAIN d.view \subseteq DOMAIN d.graphs
      /\ \A h \in DOMAIN d.view : ViewFormed(d.view[h])
  BY Formed
<1> HIDE DEF b, x, v, w, fresh, cut, order, tags
<1>10. /\ DOMAIN G = DOMAIN d.graphs \union {fresh}
       /\ G[fresh] = x /\ G[g] = b
       /\ \A h \in DOMAIN d.graphs : h # g => G[h] = d.graphs[h]
  BY <1>8 DEF Put
<1>11. /\ DOMAIN V = DOMAIN d.view \union {g, fresh}
       /\ V[fresh] = w /\ V[g] = v
       /\ \A h \in DOMAIN d.view : h # g => V[h] = d.view[h]
  BY <1>8, <1>9 DEF Put
<1> HIDE DEF G, V
<1>12. /\ DocFields \subseteq DOMAIN e /\ e.graphs = G /\ e.view = V /\ e.tops = d.tops
       /\ e.panels = d.panels /\ e.panelSeq = d.panelSeq
  BY <1>2, TopsFormed DEF DocFields
<1>13. ASSUME NEW h \in DOMAIN d.graphs
       PROVE  GraphGrows(d.graphs[h], e.graphs[h]) /\ ViewGrows(d, e, h)
  <2>1. GraphGrows(d.graphs[h], d.graphs[h]) /\ ViewGrows(d, d, h)  BY GrowsSelf DEF Grows
  <2>2. CASE h # g
    <3>1. ViewOf(e, h) = ViewOf(d, h)  BY <1>8, <1>11, <1>12, <2>2 DEF ViewOf
    <3> QED BY <1>10, <1>12, <2>1, <2>2, <3>1 DEF ViewGrows
  <2>3. CASE h = g
    <3>1. ViewOf(e, h) = v  BY <1>11, <1>12, <2>3 DEF ViewOf
    <3> QED BY <1>5, <1>7, <1>10, <1>12, <2>3, <3>1 DEF ViewGrows, gr
  <2> QED BY <2>2, <2>3
<1>14. \A o \in DOMAIN d.tops : TopFields \subseteq DOMAIN d.tops[o]  BY TopsFormed
<1>18. StillFollows(d, e)
  <2>1. ASSUME NEW h \in DOMAIN e.view \intersect DOMAIN d.graphs
        PROVE  Follows(d.graphs[h], ViewOf(d, h)) => Follows(e.graphs[h], e.view[h])
    <3>1. CASE h = g  BY <1>10, <1>11, <1>12, <1>16, <3>1 DEF gr
    <3>2. CASE h # g  BY <1>8, <1>10, <1>11, <1>12, <2>1, <3>2 DEF ViewOf
    <3> QED BY <3>1, <3>2
  <2>2. ASSUME NEW h \in DOMAIN e.view \ DOMAIN d.graphs
        PROVE  ViewFollows(d) => Follows(e.graphs[h], e.view[h])
    BY <1>9, <1>10, <1>11, <1>12, <1>17, <2>2
  <2> QED BY <1>9, <1>10, <1>11, <1>12, <2>1, <2>2, NewCanvases
<1>15. DefinitionsGrow(d, e)
  BY <1>6, <1>7, <1>9, <1>10, <1>11, <1>12, <1>13, <1>14, <1>18 DEF DefinitionsGrow
<1> QED BY <1>15, DefinitionsGrowGrows

-----------------------------------------------------------------------------
(* What a command leaves behind.                                              *)

(* A step of the user that is no undo or redo: the document grows, breaks no  *)
(* rule, and a record is kept of it.                                          *)
Recorded(from, to, whole) == [from |-> from, to |-> to, whole |-> whole]
Committed ==
  \/ UNCHANGED <<doc, undo, redo>>
  \/ /\ Grows(doc, doc') /\ Flaws(doc') = {} /\ redo' = <<>>
     /\ \E whole : undo' = Newest(Append(undo, Recorded(doc, doc', whole)))

(* A command of which every result grows the document is committed.         *)
LEMMA CommitStep ==
  ASSUME NEW results, \A e \in results : Grows(doc, e), NEW whole, Commit(results, whole)
  PROVE  Committed
<1>1. PICK d \in results \ {doc} : Proposed(d, whole)  BY DEF Commit
<1>2. \/ UNCHANGED <<doc, undo, redo>>
      \/ /\ doc' = d /\ Flaws(d) = {} /\ redo' = <<>>
         /\ undo' = Newest(Append(undo, Recorded(doc, d, whole)))
  BY <1>1 DEF Proposed, Recorded
<1> QED BY <1>2 DEF Committed

(* So is one that no record treats as a whole.                              *)
LEMMA DispatchStep ==
  ASSUME NEW results, \A e \in results : Grows(doc, e), Dispatch(results)
  PROVE  Committed
BY CommitStep DEF Dispatch

(* Links.                                                                   *)
LEMMA EditLinksStep ==
  ASSUME WellFormed(doc), EditLinks
  PROVE  Committed
<1>1. \A id \in Graphs : \A from, to : Dispatch(LinkConnect(doc, id, from, to)) => Committed
  BY DispatchStep, LinkConnectGrows DEF Graphs
<1>2. \A id \in Graphs : \A l, to : Dispatch(LinkRewire(doc, id, l, to)) => Committed
  BY DispatchStep, LinkRewireGrows DEF Graphs
<1>3. \A id \in Graphs : \A L, from : Dispatch(LinkRewireSource(doc, id, L, from)) => Committed
  BY DispatchStep, LinkRewireSourceGrows DEF Graphs
<1>4. \A id \in Graphs : \A l : Dispatch(LinkDisconnect(doc, id, l)) => Committed
  BY DispatchStep, LinkDisconnectGrows DEF Graphs
<1> QED BY <1>1, <1>2, <1>3, <1>4 DEF EditLinks

(* Nets.                                                                    *)
LEMMA EditNetsStep ==
  ASSUME WellFormed(doc), EditNets
  PROVE  Committed
<1>1. \A id \in Graphs : \A name, source : Dispatch(NetCreate(doc, id, name, source)) => Committed
  BY DispatchStep, NetCreateGrows DEF Graphs
<1>2. \A id \in Graphs : \A n, to : Dispatch(NetConnectInput(doc, id, n, to)) => Committed
  BY DispatchStep, NetConnectInputGrows DEF Graphs
<1>3. \A id \in Graphs : \A n, from : Dispatch(NetSetSource(doc, id, n, from)) => Committed
  BY DispatchStep, NetSetSourceGrows DEF Graphs
<1>4. \A id \in Graphs : \A n, name : Dispatch(NetRename(doc, id, n, name)) => Committed
  BY DispatchStep, NetRenameGrows DEF Graphs
<1>5. \A id \in Graphs : \A n : Dispatch(NetRemove(doc, id, n)) => Committed
  BY DispatchStep, NetRemoveGrows DEF Graphs
<1>6. \A id \in Graphs : \A to : Dispatch(NetDisconnectInput(doc, id, to)) => Committed
  BY DispatchStep, NetDisconnectInputGrows DEF Graphs
<1>7. \A id \in Graphs : \A n, t : Dispatch(NetResetView(doc, id, n, t)) => Committed
  BY DispatchStep, NetResetViewGrows
<1> QED BY <1>1, <1>2, <1>3, <1>4, <1>5, <1>6, <1>7 DEF EditNets

(* Reroutes and value sources.                                              *)
LEMMA EditPointsStep ==
  ASSUME WellFormed(doc), EditReroutes \/ EditSources
  PROVE  Committed
<1>1. \A id \in Graphs : Dispatch(RerouteAdd(doc, id)) => Committed
  BY DispatchStep, RerouteAddGrows DEF Graphs
<1>2. \A id \in Graphs : \A l : Dispatch(RerouteInsert(doc, id, l)) => Committed
  BY DispatchStep, RerouteInsertGrows DEF Graphs
<1>3. \A id \in Graphs : \A R, reconnect : Dispatch(RerouteRemove(doc, id, R, reconnect)) => Committed
  BY DispatchStep, RerouteRemoveGrows DEF Graphs
<1>4. \A id \in Graphs : Dispatch(ValueSourceAdd(doc, id)) => Committed
  BY DispatchStep, ValueSourceAddGrows DEF Graphs
<1>5. \A id \in Graphs : \A V : Dispatch(ValueSourceRemove(doc, id, V)) => Committed
  BY DispatchStep, ValueSourceRemoveGrows DEF Graphs
<1>6. EditReroutes => Committed  BY <1>1, <1>2, <1>3 DEF EditReroutes
<1>7. EditSources => Committed  BY <1>4, <1>5 DEF EditSources
<1> QED BY <1>6, <1>7

(* Selectors.                                                               *)
LEMMA EditSelectorsStep ==
  ASSUME WellFormed(doc), EditSelectors
  PROVE  Committed
<1>1. \A id \in Graphs : \A count : Dispatch(SelectorAdd(doc, id, count)) => Committed
  BY DispatchStep, SelectorAddGrows DEF Graphs
<1>2. \A id \in Graphs : \A s, c : Dispatch(SelectorSetPolicy(doc, id, s, c)) => Committed
  BY DispatchStep, SelectorSetPolicyGrows DEF Graphs
<1>3. \A id \in Graphs : \A s : Dispatch(SelectorAddCandidate(doc, id, s)) => Committed
  BY DispatchStep, SelectorAddCandidateGrows DEF Graphs
<1>4. \A id \in Graphs : \A s, c : Dispatch(SelectorRemoveCandidate(doc, id, s, c)) => Committed
  BY DispatchStep, SelectorRemoveCandidateGrows DEF Graphs
<1>5. \A id \in Graphs : \A s \in DOMAIN doc.graphs[id].selectors :
        Dispatch(SelectorReorderCandidates(doc, id, s, Reverse(doc.graphs[id].selectors[s].cands)))
          => Committed
  <2> SUFFICES ASSUME NEW id \in Graphs, NEW s \in DOMAIN doc.graphs[id].selectors
               PROVE  LET cands == doc.graphs[id].selectors[s].cands
                      IN  Dispatch(SelectorReorderCandidates(doc, id, s, Reverse(cands))) => Committed
    OBVIOUS
  <2> DEFINE cands == doc.graphs[id].selectors[s].cands
  <2>1. cands \in Seq(Nat)  BY Candidates DEF Graphs, SelectorFormed
  <2> HIDE DEF cands
  <2>2. Len(cands) \in Nat /\ \A k \in 1 .. Len(cands) : cands[k] \in Nat
    BY <2>1, ElementOfSeq, LenProperties
  <2>3. Reverse(cands) \in Seq(Nat)  BY <2>2 DEF Reverse
  <2> QED BY <2>3, DispatchStep, SelectorReorderCandidatesGrows DEF Graphs, cands
<1> QED BY <1>1, <1>2, <1>3, <1>4, <1>5 DEF EditSelectors

(* What is deleted, or added, on one canvas.                                *)
LEMMA EditNodesStep ==
  ASSUME WellFormed(doc), Delete \/ EditNodes
  PROVE  Committed
<1>1. \A id \in Graphs : \A items, L, S : Dispatch(DeleteItems(doc, id, items, L, S)) => Committed
  BY DispatchStep, DeleteItemsGrows DEF Graphs
<1>2. \A id \in Graphs : \A body :
        Dispatch(NodeAdd(doc, id, [body |-> body, dyn |-> <<>>, vals |-> {}, region |-> NoRegion]))
          => Committed
  <2>1. \A body : NodeFormed([body |-> body, dyn |-> <<>>, vals |-> {}, region |-> NoRegion])
    BY DEF NodeFormed
  <2> QED BY <2>1, DispatchStep, NodeAddGrows DEF Graphs
<1>3. Delete => Committed  BY <1>1 DEF Delete
<1>4. EditNodes => Committed  BY <1>2 DEF EditNodes
<1> QED BY <1>3, <1>4

(* Wiring local to occurrences.                                             *)
LEMMA EditOccurrenceStep ==
  ASSUME WellFormed(doc), EditOccurrence
  PROVE  Committed
<1>1. \A o, from, to : Dispatch(LocalConnect(doc, o, from, to)) => Committed
  BY DispatchStep, LocalConnectGrows
<1>2. \A o, x : Dispatch(LocalDisconnect(doc, o, x)) => Committed
  BY DispatchStep, LocalDisconnectGrows
<1>3. \A o, x, to : Dispatch(LocalRewire(doc, o, x, to)) => Committed
  BY DispatchStep, LocalRewireGrows
<1>4. \A o, X, from : Dispatch(LocalRewireSource(doc, o, X, from)) => Committed
  BY DispatchStep, LocalRewireSourceGrows
<1> QED BY <1>1, <1>2, <1>3, <1>4 DEF EditOccurrence

(* The boundary of a definition.                                            *)
LEMMA EditBoundaryStep ==
  ASSUME WellFormed(doc), EditBoundary
  PROVE  Committed
<1>1. \A id \in Graphs : \A side, item, b :
        /\ Dispatch(BoundaryAddItem(doc, id, side, item, b)) => Committed
        /\ Dispatch(BoundarySetBinding(doc, id, side, item, b)) => Committed
        /\ Dispatch(BoundaryUnbind(doc, id, side, item, b)) => Committed
        /\ Dispatch(BoundaryAddBinding(doc, id, item, b)) => Committed
        /\ Dispatch(BoundaryRemoveBinding(doc, id, item, b)) => Committed
  BY DispatchStep, BoundaryCommandsGrow DEF Graphs
<1> QED BY <1>1 DEF EditBoundary

(* Families of ports.                                                       *)
LEMMA EditFamiliesStep ==
  ASSUME WellFormed(doc), EditFamilies
  PROVE  Committed
<1>1. \A id \in Graphs : \A n \in DOMAIN doc.graphs[id].nodes : \A f \in Families :
        Dispatch(DynamicMaterialize(doc, id, n, f, {FamilyOf(doc.graphs[id].nodes[n], f).seq}))
          => Committed
  <2> SUFFICES ASSUME NEW id \in Graphs, NEW n \in DOMAIN doc.graphs[id].nodes, NEW f \in Families
               PROVE  LET members == {FamilyOf(doc.graphs[id].nodes[n], f).seq}
                      IN  Dispatch(DynamicMaterialize(doc, id, n, f, members)) => Committed
    OBVIOUS
  <2> DEFINE members == {FamilyOf(doc.graphs[id].nodes[n], f).seq}
  <2>1. members \subseteq Nat  BY Formed DEF Graphs
  <2>2. IsFiniteSet(members)  BY FS_Singleton
  <2> HIDE DEF members
  <2>3. \A e \in DynamicMaterialize(doc, id, n, f, members) : Grows(doc, e)
    BY <2>1, <2>2, DynamicMaterializeGrows DEF Graphs
  <2> QED BY <2>3, DispatchStep DEF members
<1>2. \A id \in Graphs : \A n \in DOMAIN doc.graphs[id].nodes :
        Dispatch(DynamicCompact(doc, id, n)) => Committed
  BY DispatchStep, DynamicCompactGrows DEF Graphs
<1> QED BY <1>1, <1>2 DEF EditFamilies

(* Repeated nodes.                                                          *)
LEMMA EditRegionsStep ==
  ASSUME WellFormed(doc), EditRegions
  PROVE  Committed
<1>1. \A id \in Graphs : \A n \in DOMAIN doc.graphs[id].nodes : \A x, role :
        /\ Dispatch(RegionSetPortRole(doc, id, n, x, role)) => Committed
        /\ Dispatch(RegionSetOutputRole(doc, id, n, x, role)) => Committed
        /\ Dispatch(RegionSetContinueOutput(doc, id, n, x)) => Committed
        /\ Dispatch(RegionSetBinding(doc, id, n, x)) => Committed
        /\ Dispatch(RegionSetMaxIterations(doc, id, n, x)) => Committed
  BY DispatchStep, RegionCommandsGrow DEF Graphs
<1> QED BY Zenon, <1>1 DEF EditRegions

(* Mode panels: what they are bound to is there.                            *)
LEMMA EditPanelsStep ==
  ASSUME WellFormed(doc), EditPanels
  PROVE  Committed
<1> DEFINE there == UNION {{<<g, k>> : k \in doc.view[g].groups} : g \in DOMAIN doc.view}
<1>1. \A b \in there : b[1] \in DOMAIN doc.graphs /\ b[2] \in Nat
  <2> SUFFICES ASSUME NEW g \in DOMAIN doc.view, NEW k \in doc.view[g].groups
               PROVE  g \in DOMAIN doc.graphs /\ k \in Nat
    OBVIOUS
  <2> QED BY Formed DEF ViewFormed
<1> HIDE DEF there
<1>2. ASSUME NEW b \in AtMostOne(there)
      PROVE  IsFiniteSet(b) /\ \A x \in b : x[1] \in DOMAIN doc.graphs /\ x[2] \in Nat
  <2>1. b = {} \/ \E x \in there : b = {x}  BY <1>2 DEF AtMostOne
  <2>2. IsFiniteSet(b)  BY <2>1, FS_EmptySet, FS_Singleton
  <2> QED BY <1>1, <2>1, <2>2
<1>3. \A b \in AtMostOne(there) : Dispatch(SurfaceAdd(doc, b)) => Committed
  <2> SUFFICES ASSUME NEW b \in AtMostOne(there) PROVE \A e \in SurfaceAdd(doc, b) : Grows(doc, e)
    BY DispatchStep
  <2> QED BY <1>2, SurfaceAddGrows
<1>4. \A b \in AtMostOne(there) : \A s : Dispatch(SurfaceUpdate(doc, s, b)) => Committed
  <2> SUFFICES ASSUME NEW b \in AtMostOne(there), NEW s
               PROVE \A e \in SurfaceUpdate(doc, s, b) : Grows(doc, e)
    BY DispatchStep
  <2> QED BY <1>2, SurfaceUpdateGrows
<1>5. \A s : Dispatch(SurfaceRemove(doc, s)) => Committed
  BY DispatchStep, SurfaceRemoveGrows
<1> QED BY <1>3, <1>4, <1>5 DEF EditPanels, there

(* What the canvas remembers.                                               *)
LEMMA EditViewsStep ==
  ASSUME WellFormed(doc), EditGroups \/ EditDisplay
  PROVE  Committed
<1>1. \A id \in Graphs : Dispatch(ViewCreateGroup(doc, id)) => Committed
  BY DispatchStep, ViewCreateGroupGrows DEF Graphs
<1>2. \A id \in Graphs : \A k : Dispatch(ViewRemoveGroup(doc, id, k)) => Committed
  BY DispatchStep, ViewRemoveGroupGrows DEF Graphs
<1>3. \A id \in Graphs : \A n, mode : Dispatch(ViewSetNetDisplay(doc, id, n, mode)) => Committed
  BY DispatchStep, ViewSetNetDisplayGrows DEF Graphs
<1>4. \A id \in Graphs : \A n, collapsed : Dispatch(ViewSetNetCollapsed(doc, id, n, collapsed)) => Committed
  BY DispatchStep, ViewSetNetCollapsedGrows DEF Graphs
<1>5. \A id \in Graphs : \A mode : Dispatch(ViewSetAllNetsDisplay(doc, id, mode)) => Committed
  BY DispatchStep, ViewSetAllNetsDisplayGrows DEF Graphs
<1>6. \A id \in Graphs : \A nodes, reroutes, tags :
        Dispatch(SelectionMove(doc, id, nodes, reroutes, tags)) => Committed
  BY DispatchStep, SelectionMoveGrows DEF Graphs
<1>7. EditGroups => Committed  BY <1>1, <1>2 DEF EditGroups
<1>8. EditDisplay => Committed  BY <1>3, <1>4, <1>5, <1>6 DEF EditDisplay
<1> QED BY <1>7, <1>8

(* Definitions that come and go, and a selection that becomes one.          *)
LEMMA EditDefinitionsStep ==
  ASSUME WellFormed(doc), EditDefinitions \/ EditExtract
  PROVE  Committed
<1>1. ASSUME NEW id PROVE Dispatch(SubgraphImport(doc, [x \in {id} |-> Imported], <<>>)) => Committed
  <2> DEFINE graphs == [x \in {id} |-> Imported]
  <2>1. GraphFormed(Imported)
    <3>1. AllIds(Imported) = {}  BY DEF AllIds, Imported
    <3> QED BY <3>1 DEF GraphFormed, Imported, SelectorsFormed
  <2>2. \A g \in DOMAIN graphs : GraphFormed(graphs[g])  BY <2>1
  <2> HIDE DEF graphs
  <2>3. DOMAIN <<>> = {}  OBVIOUS
  <2>4. \A e \in SubgraphImport(doc, graphs, <<>>) : Grows(doc, e)
    BY <2>2, <2>3, SubgraphImportGrows
  <2> QED BY <2>4, DispatchStep DEF graphs
<1>2. \A id \in Graphs : \A n \in DOMAIN doc.graphs[id].nodes : Dispatch(Localize(doc, id, n)) => Committed
  BY DispatchStep, LocalizeGrows DEF Graphs
<1>3. \A id \in Graphs : Dispatch(DeleteDefinition(doc, id)) => Committed
  BY DispatchStep, DefinitionsGoGrows
<1>4. Dispatch(RemoveUnusedDefinitions(doc)) => Committed
  BY DispatchStep, DefinitionsGoGrows
<1>5. \A id \in Graphs : \A sel \in Selections(doc, id) : Commit(Extract(doc, id, sel), {id}) => Committed
  <2> SUFFICES ASSUME NEW id \in Graphs, NEW sel \in Selections(doc, id)
               PROVE  \A e \in Extract(doc, id, sel) : Grows(doc, e)
    BY CommitStep
  <2>1. Selectable(doc, id, sel)  BY DEF Selections, Selectable
  <2> QED BY <2>1, ExtractGrows DEF Graphs
<1>6. EditDefinitions => Committed  BY <1>1, <1>2, <1>3, <1>4 DEF EditDefinitions
<1>7. EditExtract => Committed  BY <1>5 DEF EditExtract
<1> QED BY <1>6, <1>7

(* Whatever the user asks for.                                              *)
LEMMA EditStep ==
  ASSUME WellFormed(doc), Edit
  PROVE  Committed
BY EditLinksStep, EditNetsStep, EditPointsStep, EditSelectorsStep, EditNodesStep, EditOccurrenceStep,
   EditBoundaryStep, EditFamiliesStep, EditRegionsStep, EditPanelsStep, EditViewsStep,
   EditDefinitionsStep
   DEF Edit

-----------------------------------------------------------------------------
(* The rules, those of local wiring aside.                                    *)

(* A document that breaks none of them.                                     *)
RulesKept(d) ==
  /\ \A g \in DOMAIN d.graphs : GraphSound(d.graphs[g])
  /\ \A g \in DOMAIN d.graphs : MembersThere(d.graphs[g])
  /\ \A g \in DOMAIN d.graphs : NoCycle(d.graphs[g])
  /\ Root \in DOMAIN d.graphs /\ InstancesResolve(d)
  /\ \A g \in DOMAIN d.graphs : \A n \in DOMAIN d.graphs[g].nodes :
        d.graphs[g].nodes[n].region # NoRegion => RegionSound(d, d.graphs[g], n)
  /\ NoRecursion(d)

(* It has no flaw but in its local wiring.                                  *)
LEMMA RulesAre ==
  ASSUME NEW d
  PROVE  Flaws(d) \subseteq {"topology"} <=> RulesKept(d)
<1> DEFINE graph == \E g \in DOMAIN d.graphs : ~GraphSound(d.graphs[g])
           member == \E g \in DOMAIN d.graphs : ~MembersThere(d.graphs[g])
           cycle == \E g \in DOMAIN d.graphs : ~NoCycle(d.graphs[g])
           instance == Root \notin DOMAIN d.graphs \/ ~InstancesResolve(d)
           region == \E g \in DOMAIN d.graphs : \E n \in DOMAIN d.graphs[g].nodes :
                        d.graphs[g].nodes[n].region # NoRegion /\ ~RegionSound(d, d.graphs[g], n)
           recursion == ~NoRecursion(d)
           topology == ~TopologiesSound(d)
           broken(rule) == CASE rule = "graph" -> graph
                             [] rule = "member" -> member
                             [] rule = "cycle" -> cycle
                             [] rule = "instance" -> instance
                             [] rule = "region" -> region
                             [] rule = "recursion" -> recursion
                             [] OTHER -> topology
<1>1. Flaws(d) = {r \in {"graph", "member", "cycle", "instance", "region", "recursion", "topology"} :
                    broken(r)}
  BY Zenon DEF Flaws
<1>2. RulesKept(d) <=> ~(graph \/ member \/ cycle \/ instance \/ region \/ recursion)
  BY Zenon DEF RulesKept
<1> HIDE DEF graph, member, cycle, instance, region, recursion, topology
<1>3. /\ broken("graph") <=> graph
      /\ broken("member") <=> member
      /\ broken("cycle") <=> cycle
      /\ broken("instance") <=> instance
      /\ broken("region") <=> region
      /\ broken("recursion") <=> recursion
  OBVIOUS
<1> HIDE DEF broken
<1> QED BY <1>1, <1>2, <1>3

(* A definition with the same in it, of which the cursors may be higher and *)
(* families may be gone: it breaks no more rules.                           *)
NodeLooser(m, n) ==
  /\ n.body = m.body /\ n.vals = m.vals /\ n.region = m.region
  /\ \A f \in DOMAIN n.dyn : f \in DOMAIN m.dyn /\ n.dyn[f].members = m.dyn[f].members
SameWiring(a, b) ==
  /\ b.links = a.links /\ b.nets = a.nets /\ b.reroutes = a.reroutes
  /\ b.sources = a.sources /\ b.selectors = a.selectors /\ b.boundary = a.boundary
  /\ DOMAIN b.nodes = DOMAIN a.nodes
GraphLooser(a, b) ==
  /\ SameWiring(a, b)
  /\ \A n \in DOMAIN a.nodes : NodeLooser(a.nodes[n], b.nodes[n])
  /\ b.next \in Nat /\ a.next <= b.next
Looser(d, e) ==
  /\ \A g \in DOMAIN d.graphs : GraphFormed(d.graphs[g])
  /\ DOMAIN e.graphs = DOMAIN d.graphs
  /\ \A g \in DOMAIN d.graphs : GraphLooser(d.graphs[g], e.graphs[g])

(* The same endpoints are there.                                            *)
LEMMA KnownToo ==
  ASSUME NEW a, NEW b, SameWiring(a, b), NEW e
  PROVE  EndpointKnown(b, e) <=> EndpointKnown(a, e)
BY DEF SameWiring, EndpointKnown

(* Ids and candidates are numbers.                                          *)
LEMMA IdsAreNumbers ==
  ASSUME NEW a, GraphFormed(a)
  PROVE  a.next \in Nat /\ AllIds(a) \union CandidateIds(a) \subseteq Nat
<1>1. a.next \in Nat /\ AllIds(a) \subseteq 0 .. a.next - 1  BY DEF GraphFormed
<1>2. \A s \in DOMAIN a.selectors : a.selectors[s].cands \in Seq(Nat)
  BY DEF GraphFormed, SelectorsFormed, SelectorFormed
<1>3. \A s \in DOMAIN a.selectors : Range(a.selectors[s].cands) \subseteq Nat
  <2> SUFFICES ASSUME NEW s \in DOMAIN a.selectors, NEW k \in DOMAIN a.selectors[s].cands
               PROVE  a.selectors[s].cands[k] \in Nat
    BY DEF Range
  <2> QED BY <1>2, LenProperties, ElementOfSeq
<1> QED BY <1>1, <1>3 DEF CandidateIds

(* What a definition obeys on its own.                                      *)
LEMMA SoundToo ==
  ASSUME NEW a, GraphFormed(a), NEW b, GraphLooser(a, b), GraphSound(a)
  PROVE  GraphSound(b)
<1>1. SameWiring(a, b) /\ b.next \in Nat /\ a.next <= b.next  BY DEF GraphLooser
<1>2. a.next \in Nat /\ AllIds(a) \union CandidateIds(a) \subseteq Nat  BY IdsAreNumbers
<1>3. AllIds(b) = AllIds(a) /\ CandidateIds(b) = CandidateIds(a)
  BY <1>1 DEF SameWiring, AllIds, CandidateIds
<1>4. IdsBelowCursor(a) /\ LinksLand(a) /\ NetsLand(a) /\ OneDriver(a) /\ SelectorsPick(a) /\ BoundaryBinds(a)
  BY DEF GraphSound
<1>5. IdsBelowCursor(b)
  <2>1. \A i \in AllIds(a) \union CandidateIds(a) : i < a.next  BY <1>4 DEF IdsBelowCursor
  <2>2. \A i \in AllIds(b) \union CandidateIds(b) : i < b.next  BY <1>1, <1>2, <1>3, <2>1
  <2> QED BY <1>1, <1>3, <1>4, <2>2, Zenon DEF IdsBelowCursor, SameWiring
<1>6. LinksLand(b)  BY <1>1, <1>4, KnownToo DEF LinksLand, SameWiring
<1>7. NetsLand(b)  BY <1>1, <1>4, KnownToo DEF NetsLand, NetEnds, SameWiring
<1>8. OneDriver(b)
  <2>1. \A e : LinksInto(b, e) = LinksInto(a, e) /\ NetsInto(b, e) = NetsInto(a, e)
    BY <1>1 DEF SameWiring, LinksInto, NetsInto
  <2> QED BY <1>1, <1>4, <2>1, Zenon DEF OneDriver, SameWiring
<1>9. SelectorsPick(b)  BY <1>1, <1>4, Zenon DEF SelectorsPick, SameWiring
<1>10. BoundaryBinds(b)  BY <1>1, <1>4, Zenon DEF BoundaryBinds, Items, SameWiring
<1> QED BY <1>5, <1>6, <1>7, <1>8, <1>9, <1>10 DEF GraphSound

(* No member is missing of a family that is left.                           *)
LEMMA MembersToo ==
  ASSUME NEW a, NEW b, GraphLooser(a, b), MembersThere(a)
  PROVE  MembersThere(b)
<1> DEFINE ends(g) == (UNION {LinkEnds(g, l) : l \in DOMAIN g.links})
                        \union UNION {NetEnds(g, n) : n \in DOMAIN g.nets}
<1>1. SameWiring(a, b)  BY DEF GraphLooser
<1>2. ends(b) = ends(a)
  <2>1. \A l : LinkEnds(b, l) = LinkEnds(a, l)  BY <1>1 DEF LinkEnds, SameWiring
  <2>2. \A n : NetEnds(b, n) = NetEnds(a, n)  BY <1>1 DEF NetEnds, SameWiring
  <2> QED BY <1>1, <2>1, <2>2 DEF SameWiring
<1>3. \A e \in ends(a) : EndpointKnown(a, e) => MemberThere(a, e)  BY Zenon DEF MembersThere
<1> HIDE DEF ends
<1>4. ASSUME NEW e \in ends(b), EndpointKnown(b, e) PROVE MemberThere(b, e)
  <2> SUFFICES ASSUME Kind(e) = "port", MemberMissing(b.nodes[e[2]], e[3]) PROVE FALSE
    BY DEF MemberThere
  <2>1. EndpointKnown(a, e)  BY <1>1, <1>4, KnownToo
  <2>2. e[2] \in DOMAIN a.nodes  BY <2>1 DEF EndpointKnown, OnNode
  <2>3. NodeLooser(a.nodes[e[2]], b.nodes[e[2]])  BY <2>2 DEF GraphLooser
  <2>4. MemberMissing(a.nodes[e[2]], e[3])  BY <2>3 DEF NodeLooser, MemberMissing
  <2> QED BY <1>2, <1>3, <1>4, <2>1, <2>4 DEF MemberThere
<1> QED BY <1>4 DEF ends, MembersThere

(* Chains are the same.                                                     *)
LEMMA CyclesToo ==
  ASSUME NEW a, NEW b, SameWiring(a, b)
  PROVE  NoCycle(b) <=> NoCycle(a)
<1>1. /\ b.links = a.links /\ b.nets = a.nets /\ b.reroutes = a.reroutes /\ b.selectors = a.selectors
  BY DEF SameWiring
<1>2. \A e : Feeds(b, e) = Feeds(a, e)
  <2> SUFFICES ASSUME NEW e PROVE Feeds(b, e) = Feeds(a, e)  OBVIOUS
  <2> DEFINE links == a.links
             nets == a.nets
             From(S) == {links[l].from : l \in S}
             feeds == CASE Kind(e) \in {"reroute", "candidate"} -> From(LinksInto(a, e))
                        [] Kind(e) = "selector" ->
                             From({l \in DOMAIN links : /\ Kind(links[l].to) = "candidate"
                                                        /\ links[l].to[2] = e[2]})
                        [] Kind(e) = "tap" ->
                             IF LinksInto(a, Port(e[2], e[3])) # {} THEN From(LinksInto(a, Port(e[2], e[3])))
                             ELSE {nets[n].source : n \in NetsInto(a, Port(e[2], e[3]))}
                        [] OTHER -> {}
  <2>1. LinksInto(b, e) = LinksInto(a, e)  BY <1>1 DEF LinksInto
  <2>2. LinksInto(b, Port(e[2], e[3])) = LinksInto(a, Port(e[2], e[3]))  BY <1>1 DEF LinksInto
  <2>3. NetsInto(b, Port(e[2], e[3])) = NetsInto(a, Port(e[2], e[3]))  BY <1>1 DEF NetsInto
  <2>4. Feeds(a, e) = feeds  BY Zenon DEF Feeds
  <2>5. b.links = links /\ b.nets = nets  BY <1>1
  <2> HIDE DEF links, nets
  <2>6. Feeds(b, e) = feeds  BY <2>1, <2>2, <2>3, <2>5 DEF Feeds
  <2> QED BY <2>4, <2>6
<1>3. \A E, kinds : UpstreamVia(b, E, kinds) = UpstreamVia(a, E, kinds)
  <2> SUFFICES ASSUME NEW E, NEW kinds PROVE UpstreamVia(b, E, kinds) = UpstreamVia(a, E, kinds)
    OBVIOUS
  <2> DEFINE N == Cardinality(DOMAIN a.links) + 1
             A(up) == [i \in 0 .. N |->
                         IF i = 0 THEN E
                         ELSE LET below == up[i - 1]
                              IN  below \union UNION {Feeds(a, e) : e \in {x \in below : Kind(x) \in kinds}}]
             B(up) == [i \in 0 .. N |->
                         IF i = 0 THEN E
                         ELSE LET below == up[i - 1]
                              IN  below \union UNION {Feeds(b, e) : e \in {x \in below : Kind(x) \in kinds}}]
  <2>1. \A up : A(up) = B(up)  BY <1>2
  <2>2. UpstreamVia(a, E, kinds) = (CHOOSE up : up = A(up))[N]  BY Zenon DEF UpstreamVia
  <2>3. UpstreamVia(b, E, kinds) = (CHOOSE up : up = B(up))[N]  BY <1>1, Zenon DEF UpstreamVia
  <2> HIDE DEF A, B
  <2>4. (CHOOSE up : up = A(up)) = (CHOOSE up : up = B(up))  BY <2>1, Zenon
  <2> QED BY <2>2, <2>3, <2>4
<1>4. \A E : Upstream(b, E) = Upstream(a, E)  BY <1>3, Zenon DEF Upstream
<1> QED BY <1>1, <1>2, <1>4, Zenon DEF NoCycle

(* Instances name the same definitions.                                     *)
LEMMA InstancesToo ==
  ASSUME NEW d, NEW e, Looser(d, e)
  PROVE  /\ InstancesResolve(d) => InstancesResolve(e)
         /\ NoRecursion(d) => NoRecursion(e)
<1>1. DOMAIN e.graphs = DOMAIN d.graphs  BY DEF Looser
<1>2. ASSUME NEW g \in DOMAIN d.graphs
      PROVE  /\ DOMAIN e.graphs[g].nodes = DOMAIN d.graphs[g].nodes
             /\ \A n \in DOMAIN d.graphs[g].nodes : e.graphs[g].nodes[n].body = d.graphs[g].nodes[n].body
  BY DEF Looser, GraphLooser, SameWiring, NodeLooser
<1>3. InstancesResolve(d) => InstancesResolve(e)  BY <1>1, <1>2 DEF InstancesResolve
<1>4. \A g \in DOMAIN d.graphs : Uses(e, {g}) = Uses(d, {g})
  <2> SUFFICES ASSUME NEW g \in DOMAIN d.graphs PROVE Uses(e, {g}) = Uses(d, {g})  OBVIOUS
  <2> DEFINE used(x) == {x.graphs[g].nodes[n].body : n \in DOMAIN x.graphs[g].nodes}
  <2>1. used(e) = used(d)  BY <1>2
  <2>2. Uses(e, {g}) = DOMAIN d.graphs \intersect used(e)  BY <1>1 DEF Uses
  <2>3. Uses(d, {g}) = DOMAIN d.graphs \intersect used(d)  BY DEF Uses
  <2> QED BY <2>1, <2>2, <2>3
<1>5. NoRecursion(d) => NoRecursion(e)  BY <1>1, <1>4 DEF NoRecursion
<1> QED BY <1>3, <1>5

(* Nodes that repeat their body are given the same.                         *)
LEMMA RegionsToo ==
  ASSUME NEW d, NEW e, Looser(d, e), NEW g \in DOMAIN d.graphs, NEW n \in DOMAIN d.graphs[g].nodes,
         RegionSound(d, d.graphs[g], n)
  PROVE  RegionSound(e, e.graphs[g], n)
<1> DEFINE a == d.graphs[g]
           b == e.graphs[g]
           def == a.nodes[n].body
<1>1. SameWiring(a, b) /\ b.nodes[n].body = def /\ b.nodes[n].region = a.nodes[n].region
      /\ b.nodes[n].vals = a.nodes[n].vals
  BY DEF Looser, GraphLooser, NodeLooser
<1>2. DOMAIN e.graphs = DOMAIN d.graphs  BY DEF Looser
<1>3. \A id : HasInput(b, n, id) <=> HasInput(a, n, id)
  <2> SUFFICES ASSUME NEW id PROVE HasInput(b, n, id) <=> HasInput(a, n, id)  OBVIOUS
  <2>1. b.links = a.links /\ b.nets = a.nets  BY <1>1 DEF SameWiring
  <2> HIDE DEF a, b
  <2> QED BY <1>1, <2>1, Zenon DEF HasInput
<1>4. CASE def \notin DOMAIN d.graphs
  <2>1. def # NoGraph  BY DEF RegionSound
  <2> HIDE DEF a, b, def
  <2> QED BY <1>1, <1>2, <1>4, <2>1, Zenon DEF RegionSound, b
<1>5. CASE def \in DOMAIN d.graphs
  <2> DEFINE x == d.graphs[def]
             y == e.graphs[def]
  <2>1. y.boundary = x.boundary  BY <1>5 DEF Looser, GraphLooser, SameWiring
  <2>2. InIds(y) = InIds(x) /\ OutIds(y) = OutIds(x)  BY <2>1, Zenon DEF InIds, OutIds
  <2>3. RegionSound(d, a, n)  OBVIOUS
  <2>4. d.graphs[a.nodes[n].body] = x /\ e.graphs[b.nodes[n].body] = y  BY <1>1
  <2> HIDE DEF a, b, x, y
  <2>5. RegionSound(e, b, n)
    BY <1>1, <1>2, <1>3, <2>1, <2>2, <2>3, <2>4, Zenon DEF RegionSound
  <2> QED BY <2>5 DEF b
<1> QED BY <1>4, <1>5

(* No more rules are broken.                                                *)
LEMMA RulesToo ==
  ASSUME NEW d, NEW e, Looser(d, e), RulesKept(d)
  PROVE  RulesKept(e)
<1>1. DOMAIN e.graphs = DOMAIN d.graphs  BY DEF Looser
<1>2. \A g \in DOMAIN d.graphs : GraphFormed(d.graphs[g]) /\ GraphLooser(d.graphs[g], e.graphs[g])
  BY DEF Looser
<1>3. \A g \in DOMAIN e.graphs : GraphSound(e.graphs[g])  BY <1>1, <1>2, SoundToo DEF RulesKept
<1>4. \A g \in DOMAIN e.graphs : MembersThere(e.graphs[g])  BY <1>1, <1>2, MembersToo DEF RulesKept
<1>5. \A g \in DOMAIN e.graphs : NoCycle(e.graphs[g])
  BY <1>1, <1>2, CyclesToo DEF RulesKept, GraphLooser
<1>6. /\ Root \in DOMAIN e.graphs /\ InstancesResolve(e)
      /\ NoRecursion(e)
  BY <1>1, InstancesToo DEF RulesKept
<1>7. ASSUME NEW g \in DOMAIN e.graphs, NEW n \in DOMAIN e.graphs[g].nodes,
             e.graphs[g].nodes[n].region # NoRegion
      PROVE  RegionSound(e, e.graphs[g], n)
  <2>1. /\ n \in DOMAIN d.graphs[g].nodes
        /\ e.graphs[g].nodes[n].region = d.graphs[g].nodes[n].region
    BY <1>1, <1>2 DEF GraphLooser, SameWiring, NodeLooser
  <2>2. RegionSound(d, d.graphs[g], n)  BY <1>1, <1>7, <2>1 DEF RulesKept
  <2> QED BY <1>1, <2>1, <2>2, RegionsToo
<1> QED BY <1>3, <1>4, <1>5, <1>6, <1>7 DEF RulesKept

(* What undo and redo restore: a definition with the same in it, of which   *)
(* the cursors may be higher and families may be left without members.      *)
NodeRestores(m, n) ==
  /\ n.body = m.body /\ n.vals = m.vals /\ n.region = m.region
  /\ \A f \in DOMAIN n.dyn :
       n.dyn[f].members # {} => f \in DOMAIN m.dyn /\ n.dyn[f].members = m.dyn[f].members
GraphRestores(a, b) ==
  /\ SameWiring(a, b)
  /\ \A n \in DOMAIN a.nodes : NodeRestores(a.nodes[n], b.nodes[n])
  /\ a.next <= b.next

(* A definition without the families that are left without members.         *)
Emptied(a, b) ==
  /\ SameWiring(a, b) /\ b.next = a.next /\ GraphFormed(b)
  /\ \A n \in DOMAIN a.nodes :
       /\ b.nodes[n].body = a.nodes[n].body
       /\ b.nodes[n].vals = a.nodes[n].vals
       /\ b.nodes[n].region = a.nodes[n].region
       /\ DOMAIN b.nodes[n].dyn = {f \in DOMAIN a.nodes[n].dyn : a.nodes[n].dyn[f].members # {}}
       /\ \A f \in DOMAIN b.nodes[n].dyn : b.nodes[n].dyn[f] = a.nodes[n].dyn[f]

(* That is what the rules are asked of.                                     *)
LEMMA WithoutEmptiedIs ==
  ASSUME NEW d, WellFormed(d)
  PROVE  LET w == WithoutEmptied(d)
         IN  /\ DOMAIN w.graphs = DOMAIN d.graphs
             /\ \A g \in DOMAIN d.graphs : Emptied(d.graphs[g], w.graphs[g])
<1> DEFINE left(n) == {f \in DOMAIN n.dyn : n.dyn[f].members # {}}
           node(n) == [n EXCEPT !.dyn = Restrict(n.dyn, left(n))]
           graph(a) == [a EXCEPT !.nodes = [n \in DOMAIN a.nodes |-> node(a.nodes[n])]]
           G == [g \in DOMAIN d.graphs |-> graph(d.graphs[g])]
           w == WithoutEmptied(d)
<1>1. w = [d EXCEPT !.graphs = G]  BY Zenon DEF WithoutEmptied
<1>2. DocFields \subseteq DOMAIN d  BY TopsFormed
<1>3. w.graphs = G  BY <1>1, <1>2 DEF DocFields
<1>4. ASSUME NEW n, NodeFormed(n)
      PROVE  /\ NodeFormed(node(n)) /\ node(n).body = n.body /\ node(n).vals = n.vals
             /\ node(n).region = n.region /\ DOMAIN node(n).dyn = left(n)
             /\ \A f \in left(n) : node(n).dyn[f] = n.dyn[f]
  <2> DEFINE k == Restrict(n.dyn, left(n))
  <2>1. DOMAIN k = left(n) /\ \A f \in left(n) : k[f] = n.dyn[f]  BY DEF Restrict
  <2>2. left(n) \subseteq DOMAIN n.dyn  OBVIOUS
  <2> HIDE DEF k, left
  <2>3. node(n) = [n EXCEPT !.dyn = k]  BY DEF k
  <2> QED BY <1>4, <2>1, <2>2, <2>3 DEF NodeFormed
<1>5. ASSUME NEW a, GraphFormed(a) PROVE Emptied(a, graph(a))
  <2> DEFINE N == [n \in DOMAIN a.nodes |-> node(a.nodes[n])]
             b == graph(a)
  <2>1. DOMAIN N = DOMAIN a.nodes /\ \A n \in DOMAIN a.nodes : N[n] = node(a.nodes[n])  OBVIOUS
  <2>2. b = [a EXCEPT !.nodes = N]  OBVIOUS
  <2>3. \A n \in DOMAIN a.nodes : NodeFormed(a.nodes[n])  BY <1>5 DEF GraphFormed
  <2> HIDE DEF N, b, node
  <2>4. /\ GraphFields \subseteq DOMAIN b /\ b.nodes = N /\ b.next = a.next
        /\ b.links = a.links /\ b.nets = a.nets /\ b.reroutes = a.reroutes
        /\ b.sources = a.sources /\ b.selectors = a.selectors /\ b.boundary = a.boundary
    BY <1>5, <2>2 DEF GraphFormed, GraphFields
  <2>5. SameWiring(a, b)  BY <2>1, <2>4 DEF SameWiring
  <2>6. AllIds(b) = AllIds(a)  BY <2>1, <2>4 DEF AllIds
  <2>7. GraphFormed(b)
    BY <1>4, <1>5, <2>1, <2>3, <2>4, <2>6 DEF GraphFormed, GraphFields
  <2>8. Emptied(a, b)  BY <1>4, <2>1, <2>3, <2>4, <2>5, <2>7 DEF Emptied, left
  <2> QED BY <2>8 DEF b
<1>6. \A g \in DOMAIN d.graphs : GraphFormed(d.graphs[g])  BY Formed
<1> HIDE DEF w, graph
<1> QED BY <1>3, <1>5, <1>6 DEF w

(* The rules ask no more of it.                                             *)
LEMMA EmptiedLooser ==
  ASSUME NEW d, WellFormed(d)
  PROVE  Looser(d, WithoutEmptied(d))
<1> DEFINE w == WithoutEmptied(d)
<1>1. /\ DOMAIN w.graphs = DOMAIN d.graphs
      /\ \A g \in DOMAIN d.graphs : Emptied(d.graphs[g], w.graphs[g])
  BY WithoutEmptiedIs
<1> HIDE DEF w
<1>2. ASSUME NEW g \in DOMAIN d.graphs
      PROVE  GraphFormed(d.graphs[g]) /\ GraphLooser(d.graphs[g], w.graphs[g])
  <2>1. GraphFormed(d.graphs[g]) /\ d.graphs[g].next \in Nat  BY Formed DEF GraphFormed
  <2>2. Emptied(d.graphs[g], w.graphs[g])  BY <1>1
  <2>3. \A n \in DOMAIN d.graphs[g].nodes : NodeLooser(d.graphs[g].nodes[n], w.graphs[g].nodes[n])
    BY <2>2 DEF Emptied, NodeLooser
  <2> QED BY <2>1, <2>2, <2>3 DEF Emptied, GraphLooser
<1>3. Looser(d, w)  BY <1>1, <1>2 DEF Looser
<1> QED BY <1>3 DEF w

(* And no more of what was restored than of what it was restored to.        *)
LEMMA RestoredLooser ==
  ASSUME NEW d, WellFormed(d), NEW e, WellFormed(e), DOMAIN e.graphs = DOMAIN d.graphs,
         \A g \in DOMAIN d.graphs : GraphRestores(d.graphs[g], e.graphs[g])
  PROVE  Looser(WithoutEmptied(d), WithoutEmptied(e))
<1> DEFINE v == WithoutEmptied(d)
           w == WithoutEmptied(e)
<1>1. /\ DOMAIN v.graphs = DOMAIN d.graphs
      /\ \A g \in DOMAIN d.graphs : Emptied(d.graphs[g], v.graphs[g])
  BY WithoutEmptiedIs
<1>2. /\ DOMAIN w.graphs = DOMAIN e.graphs
      /\ \A g \in DOMAIN e.graphs : Emptied(e.graphs[g], w.graphs[g])
  BY WithoutEmptiedIs
<1> HIDE DEF v, w
<1>3. ASSUME NEW g \in DOMAIN d.graphs
      PROVE  GraphFormed(v.graphs[g]) /\ GraphLooser(v.graphs[g], w.graphs[g])
  <2> DEFINE a == d.graphs[g]
             b == e.graphs[g]
             x == v.graphs[g]
             y == w.graphs[g]
  <2>1. Emptied(a, x) /\ Emptied(b, y) /\ GraphRestores(a, b)  BY <1>1, <1>2, <1>3
  <2> HIDE DEF a, b, x, y
  <2>2. SameWiring(x, y)  BY <2>1 DEF Emptied, GraphRestores, SameWiring
  <2>3. ASSUME NEW n \in DOMAIN x.nodes PROVE NodeLooser(x.nodes[n], y.nodes[n])
    <3>1. n \in DOMAIN a.nodes /\ n \in DOMAIN b.nodes  BY <2>1, <2>3 DEF Emptied, GraphRestores, SameWiring
    <3>2. NodeRestores(a.nodes[n], b.nodes[n])  BY <2>1, <3>1 DEF GraphRestores
    <3> QED BY <2>1, <3>1, <3>2 DEF Emptied, NodeRestores, NodeLooser
  <2>4. GraphFormed(x) /\ y.next \in Nat /\ x.next <= y.next
    BY <2>1 DEF Emptied, GraphRestores, GraphFormed
  <2>5. GraphFormed(x) /\ GraphLooser(x, y)  BY <2>2, <2>3, <2>4 DEF GraphLooser
  <2> QED BY <2>5 DEF x, y
<1>4. Looser(v, w)  BY <1>1, <1>2, <1>3 DEF Looser
<1> QED BY <1>4 DEF v, w

-----------------------------------------------------------------------------
(* Undo and redo.                                                             *)

(* The families of a node keep their cursors, or take those recorded.       *)
LEMMA KeepNodeFormed ==
  ASSUME NEW a, \A f \in DOMAIN a.dyn : FamilyFormed(a.dyn[f]), NEW b, NodeFormed(b)
  PROVE  LET c == KeepNode(a, b)
         IN  /\ NodeFormed(c) /\ NodeRestores(b, c)
             /\ \A f : FamilyOf(a, f).seq <= FamilyOf(c, f).seq
<1> DEFINE k == KeepFamilies(a.dyn, b.dyn)
           c == KeepNode(a, b)
<1>1. DOMAIN k = DOMAIN a.dyn \union DOMAIN b.dyn  BY DEF KeepFamilies
<1>2. \A f \in DOMAIN b.dyn : FamilyFormed(b.dyn[f])  BY DEF NodeFormed
<1>3. ASSUME NEW f \in DOMAIN k
      PROVE  /\ FamilyFormed(k[f]) /\ (f \in DOMAIN a.dyn => a.dyn[f].seq <= k[f].seq)
             /\ k[f].members = {} \/ (f \in DOMAIN b.dyn /\ k[f].members = b.dyn[f].members)
  <2>1. CASE f \notin DOMAIN a.dyn
    <3>1. k[f] = b.dyn[f]  BY <1>3, <2>1 DEF KeepFamilies
    <3> QED BY <1>1, <1>2, <1>3, <2>1, <3>1
  <2>2. CASE f \in DOMAIN a.dyn /\ f \notin DOMAIN b.dyn
    <3>1. k[f] = [a.dyn[f] EXCEPT !.members = {}]  BY <1>3, <2>2 DEF KeepFamilies
    <3> DEFINE x == a.dyn[f]
    <3>2. FamilyFormed(x)  BY <2>2
    <3> HIDE DEF k, x
    <3>3. k[f] = [x EXCEPT !.members = {}]  BY <3>1 DEF x
    <3>4. FamilyFormed(k[f]) /\ k[f].seq = x.seq /\ x.seq \in Nat /\ k[f].members = {}
      BY <3>2, <3>3, FS_EmptySet DEF FamilyFormed
    <3> QED BY <3>4 DEF x
  <2>3. CASE f \in DOMAIN a.dyn /\ f \in DOMAIN b.dyn
    <3> DEFINE x == a.dyn[f]
               y == b.dyn[f]
    <3>1. k[f] = [y EXCEPT !.seq = Higher(@, x.seq)]  BY <1>3, <2>3 DEF KeepFamilies
    <3>2. FamilyFormed(x) /\ FamilyFormed(y)  BY <1>2, <2>3
    <3> HIDE DEF k, x, y
    <3>3. FamilyFormed(k[f]) /\ x.seq <= k[f].seq /\ k[f].members = y.members
      BY <3>1, <3>2 DEF FamilyFormed, Higher
    <3> QED BY <2>3, <3>3 DEF x, y
  <2> QED BY <2>1, <2>2, <2>3
<1>4. c = [b EXCEPT !.dyn = k]  BY Zenon DEF KeepNode
<1> HIDE DEF k, c
<1>5. /\ NodeFormed(c) /\ c.dyn = k
      /\ c.body = b.body /\ c.vals = b.vals /\ c.region = b.region
  BY <1>3, <1>4 DEF NodeFormed
<1>7. NodeRestores(b, c)  BY <1>3, <1>5 DEF NodeRestores
<1>6. ASSUME NEW f PROVE FamilyOf(a, f).seq <= FamilyOf(c, f).seq
  BY <1>1, <1>3, <1>5 DEF FamilyOf, FamilyFormed
<1> QED BY <1>5, <1>6, <1>7 DEF c

(* So does a definition; where its nodes are written as a whole, the id     *)
(* cursor alone is kept.                                                    *)
Kept(a, b, whole, c) ==
  /\ GraphFormed(c) /\ a.next <= c.next
  /\ GraphRestores(b, c)
  /\ ~whole => FamiliesGrow(a, c)

(* It does.                                                                 *)
LEMMA KeepCursorsFormed ==
  ASSUME NEW a, GraphFormed(a), NEW b, GraphFormed(b), NEW whole \in BOOLEAN
  PROVE  Kept(a, b, whole, KeepCursors(a, b, whole))
<1> DEFINE N == KeepNodes(a.nodes, b.nodes, whole)
           next == Higher(b.next, a.next)
           c == KeepCursors(a, b, whole)
<1>1. c = [b EXCEPT !.next = next, !.nodes = N]  BY Zenon DEF KeepCursors
<1>2. next \in Nat /\ a.next <= next /\ b.next <= next  BY DEF GraphFormed, Higher
<1>3. ASSUME NEW n \in DOMAIN b.nodes
      PROVE  /\ NodeFormed(N[n]) /\ NodeRestores(b.nodes[n], N[n])
             /\ ~whole /\ n \in DOMAIN a.nodes =>
                  \A f : FamilyOf(a.nodes[n], f).seq <= FamilyOf(N[n], f).seq
  <2>1. NodeFormed(b.nodes[n])  BY DEF GraphFormed
  <2>2. CASE whole \/ n \notin DOMAIN a.nodes
    <3>1. N[n] = b.nodes[n]  BY <2>2 DEF KeepNodes
    <3>2. NodeRestores(N[n], N[n])  BY DEF NodeRestores
    <3> QED BY <2>1, <2>2, <3>1, <3>2
  <2>3. CASE ~(whole \/ n \notin DOMAIN a.nodes)
    <3>1. \A f \in DOMAIN a.nodes[n].dyn : FamilyFormed(a.nodes[n].dyn[f])
      BY <2>3 DEF GraphFormed, NodeFormed
    <3>2. N[n] = KeepNode(a.nodes[n], b.nodes[n])  BY <2>3 DEF KeepNodes
    <3> HIDE DEF N
    <3> QED BY <2>1, <3>1, <3>2, KeepNodeFormed
  <2> QED BY <2>2, <2>3
<1>4. DOMAIN N = DOMAIN b.nodes  BY DEF KeepNodes
<1> HIDE DEF N, next, c
<1>5. /\ GraphFields \subseteq DOMAIN c /\ c.next = next /\ c.nodes = N
      /\ c.links = b.links /\ c.nets = b.nets /\ c.reroutes = b.reroutes
      /\ c.sources = b.sources /\ c.selectors = b.selectors /\ c.boundary = b.boundary
  BY <1>1 DEF GraphFormed, GraphFields
<1>6. AllIds(c) = AllIds(b)  BY <1>4, <1>5 DEF AllIds
<1>7. AllIds(c) \subseteq 0 .. c.next - 1
  <2>1. AllIds(b) \subseteq 0 .. b.next - 1 /\ b.next \in Nat  BY DEF GraphFormed
  <2> QED BY <1>2, <1>5, <1>6, <2>1
<1>8. GraphFormed(c)
  BY <1>2, <1>3, <1>4, <1>5, <1>7 DEF GraphFormed, GraphFields
<1>9. ~whole => FamiliesGrow(a, c)  BY <1>3, <1>4, <1>5 DEF FamiliesGrow
<1>10. GraphRestores(b, c)  BY <1>2, <1>3, <1>4, <1>5 DEF GraphRestores, SameWiring
<1> QED BY <1>2, <1>5, <1>8, <1>9, <1>10 DEF c, Kept

(* Two documents of which the definitions have the same occurrences in them *)
(* place every occurrence alike.                                            *)
LEMMA SamePlaces ==
  ASSUME NEW d, NEW e, DOMAIN e.graphs = DOMAIN d.graphs,
         \A g \in DOMAIN d.graphs : DOMAIN e.graphs[g].nodes = DOMAIN d.graphs[g].nodes,
         \A g \in DOMAIN d.graphs : \A n \in DOMAIN d.graphs[g].nodes :
            e.graphs[g].nodes[n].body = d.graphs[g].nodes[n].body,
         NEW path
  PROVE  GraphAt(e, path) = GraphAt(d, path)
<1>1. ASSUME NEW g, NEW n PROVE BodyIn(e, g, n) = BodyIn(d, g, n)
  <2>1. CASE g \in DOMAIN d.graphs /\ n \in DOMAIN d.graphs[g].nodes
    BY <2>1, Zenon DEF BodyIn
  <2>2. CASE ~(g \in DOMAIN d.graphs /\ n \in DOMAIN d.graphs[g].nodes)
    BY <2>2, Zenon DEF BodyIn
  <2> QED BY <2>1, <2>2
<1> DEFINE A(f) == [k \in 0 .. Len(path) |-> IF k = 0 THEN Root ELSE BodyIn(e, f[k - 1], path[k])]
           B(f) == [k \in 0 .. Len(path) |-> IF k = 0 THEN Root ELSE BodyIn(d, f[k - 1], path[k])]
<1>2. \A f : A(f) = B(f)  BY <1>1
<1>3. GraphAt(e, path) = (CHOOSE f : f = A(f))[Len(path)]  BY Zenon DEF GraphAt
<1>4. GraphAt(d, path) = (CHOOSE f : f = B(f))[Len(path)]  BY Zenon DEF GraphAt
<1> HIDE DEF A, B
<1>5. (CHOOSE f : f = A(f)) = (CHOOSE f : f = B(f))  BY <1>2, Zenon
<1> QED BY <1>3, <1>4, <1>5

(* What a replay makes of each part of the document.                        *)
Replayed(from, to, now, whole, e) ==
  /\ DocFields \subseteq DOMAIN e
  /\ e.panels = to.panels /\ e.panelSeq = Higher(to.panelSeq, now.panelSeq)
  /\ DOMAIN e.graphs = DOMAIN to.graphs
  /\ \A g \in DOMAIN to.graphs :
       e.graphs[g] = IF g \in DOMAIN now.graphs
                     THEN KeepCursors(now.graphs[g], to.graphs[g], g \in whole)
                     ELSE to.graphs[g]
  /\ DOMAIN e.view = DOMAIN to.view \union ViewSkeletons(from, to, now)
  /\ \A g \in DOMAIN e.view : e.view[g] = KeepView(from, to, now, g)
  /\ DOMAIN e.tops = DOMAIN to.tops \union TopologySkeletons(from, to, now)
  /\ \A o \in DOMAIN e.tops : e.tops[o] = KeepTopology(from, to, now, o)

(* It does.                                                                 *)
LEMMA ReplayIs ==
  ASSUME NEW from, NEW to, DocFields \subseteq DOMAIN to, NEW now, NEW whole
  PROVE  Replayed(from, to, now, whole, Replay(from, to, now, whole))
<1> DEFINE G == [g \in DOMAIN to.graphs |->
                   IF g \in DOMAIN now.graphs
                   THEN KeepCursors(now.graphs[g], to.graphs[g], g \in whole)
                   ELSE to.graphs[g]]
           V == [g \in DOMAIN to.view \union ViewSkeletons(from, to, now) |-> KeepView(from, to, now, g)]
           T == [o \in DOMAIN to.tops \union TopologySkeletons(from, to, now) |->
                   KeepTopology(from, to, now, o)]
           S == Higher(to.panelSeq, now.panelSeq)
           e == Replay(from, to, now, whole)
<1>1. e = [to EXCEPT !.graphs = G, !.panelSeq = S, !.view = V, !.tops = T]
  BY Zenon DEF Replay
<1>2. /\ DOMAIN G = DOMAIN to.graphs
      /\ \A g \in DOMAIN to.graphs :
           G[g] = IF g \in DOMAIN now.graphs
                  THEN KeepCursors(now.graphs[g], to.graphs[g], g \in whole)
                  ELSE to.graphs[g]
  BY Zenon
<1>3. /\ DOMAIN V = DOMAIN to.view \union ViewSkeletons(from, to, now)
      /\ \A g \in DOMAIN V : V[g] = KeepView(from, to, now, g)
  BY Zenon
<1>4. /\ DOMAIN T = DOMAIN to.tops \union TopologySkeletons(from, to, now)
      /\ \A o \in DOMAIN T : T[o] = KeepTopology(from, to, now, o)
  BY Zenon
<1> HIDE DEF G, V, T, S, e
<1>5. /\ DocFields \subseteq DOMAIN e /\ e.graphs = G /\ e.panelSeq = S /\ e.view = V /\ e.tops = T
      /\ e.panels = to.panels
  BY <1>1 DEF DocFields
<1>6. Replayed(from, to, now, whole, e)  BY <1>2, <1>3, <1>4, <1>5, Zenon DEF S, Replayed
<1> QED BY <1>6 DEF e

(* The canvas a replay shows: its cursor is the higher one.                 *)
LEMMA ReplayView ==
  ASSUME NEW from, NEW to, WellFormed(to), NEW now, WellFormed(now),
         NEW g \in DOMAIN to.view \union ViewSkeletons(from, to, now)
  PROVE  LET v == KeepView(from, to, now, g) IN ViewFormed(v) /\ ViewOf(now, g).seq <= v.seq
<1> DEFINE v == KeepView(from, to, now, g)
           a == now.view[g]
           b == to.view[g]
<1>1. /\ g \in DOMAIN now.view => ViewFormed(a)
      /\ g \in DOMAIN to.view => ViewFormed(b)
  BY Formed
<1>2. ViewFormed(EmptyView) /\ EmptyView.seq = 0 /\ "seq" \in DOMAIN EmptyView
  BY FS_EmptySet DEF ViewFormed, EmptyView
<1>3. CASE g \notin DOMAIN to.view
  <2>1. g \in DOMAIN now.view  BY <1>3 DEF ViewSkeletons
  <2>2. ViewOf(now, g) = a  BY <2>1 DEF ViewOf
  <2>3. v = a \/ v = [EmptyView EXCEPT !.seq = a.seq]  BY <1>3 DEF KeepView
  <2> HIDE DEF v, a
  <2>4. ViewFormed(v) /\ v.seq = a.seq /\ a.seq \in Nat
    BY <1>1, <1>2, <2>1, <2>3, FS_EmptySet DEF ViewFormed, EmptyView
  <2> QED BY <2>2, <2>4 DEF v
<1>4. CASE g \in DOMAIN to.view /\ g \notin DOMAIN now.view
  <2>1. v = b /\ ViewOf(now, g) = EmptyView  BY <1>4 DEF KeepView, ViewOf
  <2> QED BY <1>1, <1>2, <1>4, <2>1 DEF ViewFormed
<1>5. CASE g \in DOMAIN to.view /\ g \in DOMAIN now.view
  <2>1. v = [b EXCEPT !.seq = Higher(@, a.seq)] /\ ViewOf(now, g) = a
    BY <1>5 DEF KeepView, ViewOf
  <2> HIDE DEF v, a, b
  <2>2. ViewFormed(v) /\ a.seq <= v.seq
    BY <1>1, <1>5, <2>1 DEF ViewFormed, EmptyView, Higher
  <2> QED BY <2>1, <2>2 DEF v
<1> QED BY <1>3, <1>4, <1>5

(* So is that of the wiring of an occurrence.                               *)
LEMMA ReplayTopology ==
  ASSUME NEW from, NEW to, WellFormed(to), NEW now, WellFormed(now),
         NEW o \in DOMAIN to.tops \union TopologySkeletons(from, to, now)
  PROVE  LET t == KeepTopology(from, to, now, o)
         IN  TopFields \subseteq DOMAIN t /\ t.next \in Nat /\ TopologyOf(now, o).next <= t.next
<1> DEFINE t == KeepTopology(from, to, now, o)
           a == now.tops[o]
           b == to.tops[o]
<1>1. /\ o \in DOMAIN now.tops => TopFields \subseteq DOMAIN a /\ a.next \in Nat
      /\ o \in DOMAIN to.tops => TopFields \subseteq DOMAIN b /\ b.next \in Nat
  BY TopsFormed, Formed
<1>2. NoTopology.next = 0 /\ TopFields \subseteq DOMAIN NoTopology  BY DEF NoTopology, TopFields
<1>3. CASE o \notin DOMAIN to.tops
  <2>1. o \in DOMAIN now.tops  BY <1>3 DEF TopologySkeletons
  <2>2. TopologyOf(now, o) = a  BY <2>1 DEF TopologyOf
  <2>3. t = a \/ t = [NoTopology EXCEPT !.body = a.body, !.next = a.next]
    BY <1>3 DEF KeepTopology
  <2> HIDE DEF t, a
  <2>4. TopFields \subseteq DOMAIN t /\ t.next = a.next
    BY <1>1, <1>2, <2>1, <2>3 DEF TopFields
  <2> QED BY <1>1, <2>1, <2>2, <2>4 DEF t
<1>4. CASE o \in DOMAIN to.tops /\ o \notin DOMAIN now.tops
  <2>1. t = b /\ TopologyOf(now, o) = NoTopology  BY <1>4 DEF KeepTopology, TopologyOf
  <2> QED BY <1>1, <1>2, <1>4, <2>1
<1>5. CASE o \in DOMAIN to.tops /\ o \in DOMAIN now.tops
  <2>1. t = [b EXCEPT !.next = Higher(@, a.next)] /\ TopologyOf(now, o) = a
    BY <1>5 DEF KeepTopology, TopologyOf
  <2> HIDE DEF t, a, b
  <2>2. TopFields \subseteq DOMAIN t /\ t.next \in Nat /\ a.next <= t.next
    BY <1>1, <1>5, <2>1 DEF TopFields, Higher
  <2> QED BY <2>1, <2>2 DEF t
<1> QED BY <1>3, <1>4, <1>5

(* A replay between well formed documents leaves one, provided that the     *)
(* canvas state it lets live is of definitions that are there; and none of  *)
(* the cursors goes back.                                                   *)
ReplaySound(from, to, now, whole, e) ==
  /\ WellFormed(e)
  /\ DOMAIN e.graphs = DOMAIN to.graphs
  /\ DOMAIN e.view = DOMAIN to.view \union ViewSkeletons(from, to, now)
  /\ CursorsKept(now, e)
  /\ FamiliesKept(now, e, whole)
  /\ \A g \in DOMAIN to.graphs : GraphRestores(to.graphs[g], e.graphs[g])
  /\ \A g \in DOMAIN e.view : e.view[g] = KeepView(from, to, now, g)

(* It does.                                                                 *)
LEMMA ReplayKeeps ==
  ASSUME NEW from, NEW to, WellFormed(to), NEW now, WellFormed(now), NEW whole,
         ViewSkeletons(from, to, now) \subseteq DOMAIN to.graphs
  PROVE  ReplaySound(from, to, now, whole, Replay(from, to, now, whole))
<1> DEFINE e == Replay(from, to, now, whole)
           views == ViewSkeletons(from, to, now)
           tops == TopologySkeletons(from, to, now)
<1>1. DocFields \subseteq DOMAIN to  BY TopsFormed
<1>2. Replayed(from, to, now, whole, e)  BY <1>1, ReplayIs
<1> HIDE DEF e
<1>3. /\ DocFields \subseteq DOMAIN e
      /\ e.panels = to.panels /\ e.panelSeq = Higher(to.panelSeq, now.panelSeq)
      /\ DOMAIN e.graphs = DOMAIN to.graphs
      /\ DOMAIN e.view = DOMAIN to.view \union views
      /\ \A g \in DOMAIN e.view : e.view[g] = KeepView(from, to, now, g)
      /\ DOMAIN e.tops = DOMAIN to.tops \union tops
      /\ \A o \in DOMAIN e.tops : e.tops[o] = KeepTopology(from, to, now, o)
  BY <1>2 DEF Replayed
<1>4. \A g \in DOMAIN to.graphs :
        e.graphs[g] = IF g \in DOMAIN now.graphs
                      THEN KeepCursors(now.graphs[g], to.graphs[g], g \in whole)
                      ELSE to.graphs[g]
  BY <1>2 DEF Replayed
<1>5. ASSUME NEW g \in DOMAIN to.graphs
      PROVE  /\ GraphFormed(e.graphs[g])
             /\ GraphRestores(to.graphs[g], e.graphs[g])
             /\ g \in DOMAIN now.graphs =>
                  /\ now.graphs[g].next <= e.graphs[g].next
                  /\ g \notin whole => FamiliesGrow(now.graphs[g], e.graphs[g])
  <2>1. GraphFormed(to.graphs[g])  BY Formed
  <2>2. CASE g \notin DOMAIN now.graphs
    <3>1. e.graphs[g] = to.graphs[g]  BY <1>4, <2>2
    <3>2. GraphRestores(to.graphs[g], to.graphs[g])
      BY <2>1 DEF GraphRestores, SameWiring, NodeRestores, GraphFormed
    <3> QED BY <2>1, <2>2, <3>1, <3>2
  <2>3. CASE g \in DOMAIN now.graphs
    <3> DEFINE w == g \in whole
    <3>1. w \in BOOLEAN /\ GraphFormed(now.graphs[g])  BY <2>3, Formed
    <3>2. e.graphs[g] = KeepCursors(now.graphs[g], to.graphs[g], w)  BY <1>4, <2>3
    <3> HIDE DEF w
    <3>3. Kept(now.graphs[g], to.graphs[g], w, e.graphs[g])
      BY <2>1, <3>1, <3>2, KeepCursorsFormed
    <3> QED BY <3>3 DEF w, Kept
  <2> QED BY <2>2, <2>3
<1>6. ASSUME NEW g \in DOMAIN e.view
      PROVE  g \in DOMAIN e.graphs /\ ViewFormed(e.view[g]) /\ ViewOf(now, g).seq <= e.view[g].seq
  <2>1. g \in DOMAIN e.graphs  BY <1>3, Formed
  <2>2. g \in DOMAIN to.view \union views  BY <1>3
  <2> HIDE DEF views
  <2>3. e.view[g] = KeepView(from, to, now, g)  BY <1>3
  <2> QED BY <2>1, <2>2, <2>3, ReplayView DEF views
<1>7. ASSUME NEW o \in DOMAIN e.tops
      PROVE  /\ TopFields \subseteq DOMAIN e.tops[o] /\ e.tops[o].next \in Nat
             /\ TopologyOf(now, o).next <= e.tops[o].next
  <2>1. o \in DOMAIN to.tops \union tops  BY <1>3
  <2> HIDE DEF tops
  <2>2. e.tops[o] = KeepTopology(from, to, now, o)  BY <1>3
  <2> QED BY <2>1, <2>2, ReplayTopology DEF tops
<1>8. e.panelSeq \in Nat /\ now.panelSeq <= e.panelSeq
  <2>1. to.panelSeq \in Nat /\ now.panelSeq \in Nat  BY Formed
  <2> QED BY <1>3, <2>1 DEF Higher
<1>9. /\ DOMAIN to.panels \subseteq Nat /\ IsFiniteSet(DOMAIN to.panels)
      /\ \A s \in DOMAIN to.panels :
            /\ IsFiniteSet(to.panels[s])
            /\ \A b \in to.panels[s] : b[1] \in DOMAIN to.graphs /\ b[2] \in Nat
  BY DEF WellFormed
<1>10. WellFormed(e)
  <2>1. DOMAIN e.view \subseteq DOMAIN e.graphs /\ \A g \in DOMAIN e.view : ViewFormed(e.view[g])
    BY <1>6
  <2>2. \A g \in DOMAIN e.graphs : GraphFormed(e.graphs[g])  BY <1>3, <1>5
  <2>3. \A o \in DOMAIN e.tops : DOMAIN NoTopology \subseteq DOMAIN e.tops[o] /\ e.tops[o].next \in Nat
    BY <1>7 DEF NoTopology, TopFields
  <2> QED BY <1>3, <1>8, <1>9, <2>1, <2>2, <2>3 DEF WellFormed, DocFields
<1>11. CursorsKept(now, e)
  <2>1. \A g \in DOMAIN now.graphs \intersect DOMAIN e.graphs : now.graphs[g].next <= e.graphs[g].next
    BY <1>3, <1>5
  <2>2. ASSUME NEW g \in DOMAIN now.view
        PROVE  ViewOf(now, g).seq <= ViewOf(e, g).seq \/ g \notin DOMAIN e.graphs
    <3>1. CASE g \in DOMAIN e.view  BY <1>6, <3>1 DEF ViewOf
    <3>2. CASE g \notin DOMAIN e.view /\ g \in DOMAIN e.graphs
      <4>1. ~(now.view[g].seq > 0)  BY <1>3, <3>2 DEF ViewSkeletons
      <4>2. now.view[g].seq \in Nat  BY Formed DEF ViewFormed
      <4>3. ViewOf(now, g) = now.view[g] /\ ViewOf(e, g).seq = 0  BY <3>2 DEF ViewOf, EmptyView
      <4> QED BY <4>1, <4>2, <4>3
    <3> QED BY <3>1, <3>2
  <2>3. ASSUME NEW o \in DOMAIN now.tops
        PROVE  TopologyOf(now, o).next <= TopologyOf(e, o).next \/ GraphAt(e, o) = NoGraph
    <3>1. CASE o \in DOMAIN e.tops  BY <1>7, <3>1 DEF TopologyOf
    <3>2. CASE o \notin DOMAIN e.tops /\ GraphAt(e, o) # NoGraph
      <4> DEFINE X(h) == e.graphs[h].nodes
                 Y(h) == to.graphs[h].nodes
      <4>5. ASSUME NEW h \in DOMAIN to.graphs
            PROVE  DOMAIN X(h) = DOMAIN Y(h) /\ \A n \in DOMAIN Y(h) : X(h)[n].body = Y(h)[n].body
        BY <1>5 DEF GraphRestores, SameWiring, NodeRestores
      <4>1. GraphAt(e, o) = GraphAt(to, o)  BY <1>3, <4>5, SamePlaces
      <4>2. ~(now.tops[o].next > 0)  BY <1>3, <3>2, <4>1 DEF TopologySkeletons
      <4>3. now.tops[o].next \in Nat  BY TopsFormed
      <4>4. TopologyOf(now, o) = now.tops[o] /\ TopologyOf(e, o).next = 0
        BY <3>2, Zenon DEF TopologyOf, NoTopology
      <4> QED BY <4>2, <4>3, <4>4
    <3> QED BY <3>1, <3>2
  <2> QED BY <1>8, <2>1, <2>2, <2>3 DEF CursorsKept
<1>12. FamiliesKept(now, e, whole)
  BY <1>3, <1>5 DEF FamiliesKept, FamiliesGrow
<1>13. ReplaySound(from, to, now, whole, e)  BY <1>3, <1>5, <1>10, <1>11, <1>12 DEF ReplaySound
<1> QED BY <1>13 DEF e

-----------------------------------------------------------------------------
(* The history, record by record.                                             *)

Sequence(s) == s \in Seq(Range(s))

(* A sequence is a function of the numbers up to its length.                *)
LEMMA SequenceIs ==
  ASSUME NEW s, NEW n \in Nat, DOMAIN s = 1 .. n, s = [k \in 1 .. n |-> s[k]]
  PROVE  Sequence(s) /\ Len(s) = n
<1>1. s \in [1 .. n -> Range(s)]  BY Zenon DEF Range
<1>2. s \in Seq(Range(s))  BY <1>1, SeqDef
<1> QED BY <1>2, LenProperties DEF Sequence

(* One record more.                                                         *)
LEMMA Appended ==
  ASSUME NEW s, Sequence(s), NEW x
  PROVE  LET t == Append(s, x)
         IN  /\ Sequence(t) /\ Len(s) \in Nat /\ Len(t) = Len(s) + 1 /\ t # <<>>
             /\ t[Len(t)] = x
             /\ \A k \in 1 .. Len(s) : t[k] = s[k]
<1> DEFINE S == Range(s) \union {x}
           t == Append(s, x)
<1>1. s \in Seq(S)
  <2>1. s \in Seq(Range(s))  BY DEF Sequence
  <2>2. Range(s) \subseteq S  OBVIOUS
  <2> HIDE DEF S
  <2> QED BY <2>1, <2>2, SeqDef
<1>2. /\ t \in Seq(S) /\ Len(s) \in Nat /\ Len(t) = Len(s) + 1
      /\ \A k \in 1 .. Len(s) : t[k] = s[k]
      /\ t[Len(s) + 1] = x
  BY <1>1, AppendProperties, LenProperties
<1> HIDE DEF t
<1>3. DOMAIN t = 1 .. Len(t) /\ t = [k \in 1 .. Len(t) |-> t[k]]  BY <1>2, LenProperties
<1>4. Sequence(t)
  <2>1. Len(t) \in Nat  BY <1>2
  <2> QED BY <1>3, <2>1, SequenceIs
<1>5. t # <<>>  BY <1>2
<1> QED BY <1>2, <1>4, <1>5 DEF t

(* One record less.                                                         *)
LEMMA Popped ==
  ASSUME NEW s, Sequence(s), s # <<>>
  PROVE  LET t == Front(s)
         IN  /\ Sequence(t) /\ Len(t) \in Nat /\ Len(s) = Len(t) + 1
             /\ Last(s) = s[Len(s)]
             /\ \A k \in 1 .. Len(t) : t[k] = s[k]
<1> DEFINE t == Front(s)
           n == Len(s) - 1
<1>1. s \in Seq(Range(s))  BY DEF Sequence
<1>2. Len(s) \in Nat /\ Len(s) # 0  BY <1>1, EmptySeq, LenProperties
<1>3. n \in Nat  BY <1>2
<1>4. t = SubSeq(s, 1, n)  BY DEF Front
<1>5. \A k \in 1 .. n : s[k] \in Range(s)  BY <1>1, <1>2, ElementOfSeq
<1> HIDE DEF t
<1>6. t \in Seq(Range(s)) /\ Len(t) = n /\ \A k \in 1 .. n : t[k] = s[k]
  <2> HIDE DEF n
  <2>1. 1 \in Int /\ n \in Int  BY <1>3
  <2>2. /\ t \in Seq(Range(s))
        /\ Len(t) = IF 1 <= n THEN n - 1 + 1 ELSE 0
        /\ \A k \in 1 .. n - 1 + 1 : t[k] = s[1 + k - 1]
    BY <1>4, <1>5, <2>1, SubSeqProperties
  <2>3. Len(t) = n /\ n - 1 + 1 = n  BY <1>3, <2>2
  <2> QED BY <1>3, <2>2, <2>3
<1>7. DOMAIN t = 1 .. n /\ t = [k \in 1 .. n |-> t[k]]  BY <1>6, LenProperties
<1>8. Sequence(t)  BY <1>3, <1>7, SequenceIs
<1> QED BY <1>2, <1>3, <1>6, <1>8 DEF t, Last

(* The oldest records go.                                                   *)
LEMMA NewestIs ==
  ASSUME NEW s, Sequence(s)
  PROVE  LET t == Newest(s)
         IN  /\ Sequence(t) /\ Len(t) \in Nat
             /\ \E m \in Nat : /\ Len(s) = Len(t) + m
                               /\ \A k \in 1 .. Len(t) : t[k] = s[k + m]
<1> DEFINE first == Higher(1, Len(s) - MaxUndo + 1)
           t == Newest(s)
           n == Len(s) - first + 1
<1>1. s \in Seq(Range(s))  BY DEF Sequence
<1>2. Len(s) \in Nat  BY <1>1, LenProperties
<1>3. first \in Nat /\ 1 <= first /\ first <= Len(s) + 1  BY <1>2, BoundsAreNat DEF Higher
<1>4. t = SubSeq(s, first, Len(s))  BY DEF Newest
<1> HIDE DEF t, first
<1>5. n \in Nat  BY <1>2, <1>3
<1>6. \A k \in first .. Len(s) : s[k] \in Range(s)  BY <1>1, <1>2, <1>3, ElementOfSeq
<1>7. t \in Seq(Range(s)) /\ Len(t) = n /\ \A k \in 1 .. n : t[k] = s[k + first - 1]
  BY <1>2, <1>3, <1>4, <1>6, SubSeqProperties
<1>8. DOMAIN t = 1 .. n /\ t = [k \in 1 .. n |-> t[k]]  BY <1>7, LenProperties
<1>9. Sequence(t)  BY <1>5, <1>8, SequenceIs
<1>10. first - 1 \in Nat /\ Len(s) = n + (first - 1)  BY <1>2, <1>3
<1>11. \A k \in 1 .. n : t[k] = s[k + (first - 1)]
  <2> SUFFICES ASSUME NEW k \in 1 .. n PROVE t[k] = s[k + (first - 1)]  OBVIOUS
  <2>1. k + first - 1 = k + (first - 1)  BY <1>3
  <2> QED BY <1>7, <2>1
<1> QED BY <1>5, <1>7, <1>9, <1>10, <1>11 DEF t

(* What a record was made of: a step of the user.                           *)
RecordSound(r) == WellFormed(r.from) /\ Grows(r.from, r.to)

(* Two canvases show the same.                                              *)
ShowsSame(v, w) ==
  /\ w.nodes = v.nodes /\ w.reroutes = v.reroutes /\ w.sources = v.sources
  /\ w.selectors = v.selectors /\ w.collapsed = v.collapsed /\ w.guides = v.guides

(* Of one document to the next one recorded, definitions are the same, no   *)
(* canvas state was given up, and no canvas shows more or less.             *)
Leads(a, b) ==
  /\ DOMAIN a.graphs = DOMAIN b.graphs /\ DOMAIN a.view \subseteq DOMAIN b.view
  /\ \A g \in DOMAIN b.view : ShowsSame(ViewOf(a, g), b.view[g])

(* The records that can be undone lead, one after the other, to d.          *)
UndoSound(s, d) ==
  /\ Sequence(s)
  /\ \A k \in 1 .. Len(s) : RecordSound(s[k])
  /\ \A k \in 1 .. Len(s) - 1 : Leads(s[k].to, s[k + 1].from)
  /\ Len(s) > 0 => Leads(s[Len(s)].to, d)

(* Those that can be redone lead on, the last one first.  A definition of d *)
(* of which they show no canvas down to one of them is there at that one,   *)
(* and its canvas shows nothing: no redo brings back canvas state of a      *)
(* definition that goes, or of one that is not what it was.                 *)
Shown(r) == DOMAIN r.from.view \union DOMAIN r.to.view
RedoSound(s, d) ==
  /\ Sequence(s)
  /\ \A k \in 1 .. Len(s) : RecordSound(s[k])
  /\ \A k \in 1 .. Len(s) - 1 : Leads(s[k + 1].to, s[k].from)
  /\ \A k \in 1 .. Len(s), g \in DOMAIN d.view :
       (\A i \in k .. Len(s) : g \notin Shown(s[i])) =>
         g \in DOMAIN s[k].to.graphs /\ ShowsSame(EmptyView, d.view[g])

HistoryInv ==
  /\ WellFormed(doc)
  /\ UndoSound(undo, doc)
  /\ RedoSound(redo, doc)
  /\ Len(undo) > 0 /\ Len(redo) > 0 => Leads(undo[Len(undo)].to, redo[Len(redo)].from)

(* A document leads to itself, and one leads on to where the next one does. *)
LEMMA LeadsOn ==
  /\ \A a : Leads(a, a)
  /\ \A a, b, c : Leads(a, b) /\ Leads(b, c) => Leads(a, c)
<1>1. \A a : Leads(a, a)  BY DEF Leads, ShowsSame, ViewOf
<1>2. ASSUME NEW a, NEW b, NEW c, Leads(a, b), Leads(b, c) PROVE Leads(a, c)
  <2>1. ASSUME NEW g \in DOMAIN c.view PROVE ShowsSame(ViewOf(a, g), c.view[g])
    <3>1. ShowsSame(ViewOf(b, g), c.view[g])  BY <1>2 DEF Leads
    <3>2. CASE g \in DOMAIN b.view
      <4>1. ViewOf(b, g) = b.view[g] /\ ShowsSame(ViewOf(a, g), b.view[g])
        BY <1>2, <3>2 DEF Leads, ViewOf
      <4> QED BY <3>1, <4>1 DEF ShowsSame
    <3>3. CASE g \notin DOMAIN b.view
      <4>1. ViewOf(b, g) = ViewOf(a, g)  BY <1>2, <3>3 DEF Leads, ViewOf
      <4> QED BY <3>1, <4>1
    <3> QED BY <3>2, <3>3
  <2>2. DOMAIN a.graphs = DOMAIN c.graphs /\ DOMAIN a.view \subseteq DOMAIN c.view
    BY <1>2 DEF Leads
  <2> QED BY <2>1, <2>2 DEF Leads
<1> QED BY <1>1, <1>2

(* A replay leads on, provided that the canvases it lets live, of which the *)
(* record knows nothing, show nothing.                                      *)
LEMMA ReplayLeads ==
  ASSUME NEW from, NEW to, WellFormed(to), NEW now, NEW whole, NEW e,
         ReplaySound(from, to, now, whole, e),
         \A g \in DOMAIN now.view \ (DOMAIN from.view \union DOMAIN to.view) :
            ShowsSame(EmptyView, now.view[g])
  PROVE  Leads(to, e)
<1>1. /\ DOMAIN e.graphs = DOMAIN to.graphs
      /\ DOMAIN e.view = DOMAIN to.view \union ViewSkeletons(from, to, now)
      /\ \A g \in DOMAIN e.view : e.view[g] = KeepView(from, to, now, g)
  BY DEF ReplaySound
<1>2. ASSUME NEW g \in DOMAIN e.view PROVE ShowsSame(ViewOf(to, g), e.view[g])
  <2> DEFINE v == e.view[g]
             b == to.view[g]
  <2>1. v = KeepView(from, to, now, g)  BY <1>1
  <2>2. CASE g \in DOMAIN to.view
    <3>1. ViewFormed(b) /\ ViewOf(to, g) = b  BY <2>2, Formed DEF ViewOf
    <3>2. v = b \/ v = [b EXCEPT !.seq = Higher(@, now.view[g].seq)]
      BY <2>1, <2>2 DEF KeepView
    <3> HIDE DEF v, b
    <3>3. ShowsSame(b, v)  BY <3>1, <3>2 DEF ViewFormed, EmptyView, ShowsSame
    <3> QED BY <3>1, <3>3 DEF v
  <2>3. CASE g \notin DOMAIN to.view
    <3>1. g \in DOMAIN now.view  BY <1>1, <2>3 DEF ViewSkeletons
    <3>2. ViewOf(to, g) = EmptyView  BY <2>3 DEF ViewOf
    <3>3. CASE g \in DOMAIN from.view
      <4>1. v = [EmptyView EXCEPT !.seq = now.view[g].seq]  BY <2>1, <2>3, <3>3 DEF KeepView
      <4> HIDE DEF v
      <4>2. ShowsSame(EmptyView, v)  BY <4>1 DEF EmptyView, ShowsSame
      <4> QED BY <3>2, <4>2 DEF v
    <3>4. CASE g \notin DOMAIN from.view
      <4>1. v = now.view[g]  BY <2>1, <2>3, <3>4 DEF KeepView
      <4> QED BY <2>3, <3>1, <3>2, <3>4, <4>1
    <3> QED BY <3>3, <3>4
  <2> QED BY <2>2, <2>3
<1> QED BY <1>1, <1>2 DEF Leads

(* There is nothing wrong with no records.                                  *)
LEMMA NoRecords ==
  ASSUME NEW d
  PROVE  UndoSound(<<>>, d) /\ RedoSound(<<>>, d) /\ Len(<<>>) = 0
<1>1. Len(<<>>) = 0 /\ Sequence(<<>>)
  <2>1. <<>> \in Seq(Range(<<>>))  BY EmptySeq
  <2> QED BY <2>1, EmptySeq DEF Sequence
<1>2. \A k \in 1 .. 0 : FALSE  OBVIOUS
<1> QED BY <1>1, <1>2 DEF UndoSound, RedoSound

(* A record of which the step led to d, after the others.                   *)
LEMMA UndoAppended ==
  ASSUME NEW s, NEW d, UndoSound(s, d), NEW r, RecordSound(r), NEW e,
         Len(s) > 0 => Leads(s[Len(s)].to, r.from), Leads(r.to, e)
  PROVE  UndoSound(Append(s, r), e)
<1> DEFINE t == Append(s, r)
<1>1. /\ Sequence(t) /\ Len(s) \in Nat /\ Len(t) = Len(s) + 1 /\ t[Len(t)] = r
      /\ \A k \in 1 .. Len(s) : t[k] = s[k]
  BY Appended DEF UndoSound
<1> HIDE DEF t
<1>2. ASSUME NEW k \in 1 .. Len(t) PROVE RecordSound(t[k])
  <2>1. k \in 1 .. Len(s) \/ k = Len(t)  BY <1>1
  <2> QED BY <1>1, <2>1 DEF UndoSound
<1>3. ASSUME NEW k \in 1 .. Len(t) - 1 PROVE Leads(t[k].to, t[k + 1].from)
  <2>1. k \in 1 .. Len(s)  BY <1>1
  <2>2. k + 1 \in 1 .. Len(s) \/ (k = Len(s) /\ k + 1 = Len(t))  BY <1>1
  <2>3. t[k] = s[k]  BY <1>1, <2>1
  <2>4. CASE k + 1 \in 1 .. Len(s)
    <3>1. t[k + 1] = s[k + 1] /\ k \in 1 .. Len(s) - 1  BY <1>1, <2>1, <2>4
    <3> QED BY <2>3, <3>1 DEF UndoSound
  <2>5. CASE k = Len(s) /\ k + 1 = Len(t)
    <3>1. t[k + 1] = r /\ Len(s) > 0  BY <1>1, <2>1, <2>5
    <3> QED BY <2>3, <2>5, <3>1
  <2> QED BY <2>2, <2>4, <2>5
<1>4. UndoSound(t, e)  BY <1>1, <1>2, <1>3 DEF UndoSound
<1> QED BY <1>4 DEF t

(* The oldest records may go.                                               *)
LEMMA UndoNewest ==
  ASSUME NEW s, NEW d, UndoSound(s, d)
  PROVE  UndoSound(Newest(s), d)
<1> DEFINE t == Newest(s)
<1>1. Sequence(s)  BY DEF UndoSound
<1>2. Sequence(t) /\ Len(t) \in Nat  BY <1>1, NewestIs
<1>3. PICK m \in Nat : Len(s) = Len(t) + m /\ \A k \in 1 .. Len(t) : t[k] = s[k + m]
  BY <1>1, NewestIs
<1> HIDE DEF t
<1>4. ASSUME NEW k \in 1 .. Len(t) PROVE RecordSound(t[k])
  <2>1. k + m \in 1 .. Len(s)  BY <1>2, <1>3
  <2> QED BY <1>3, <2>1 DEF UndoSound
<1>5. ASSUME NEW k \in 1 .. Len(t) - 1 PROVE Leads(t[k].to, t[k + 1].from)
  <2>1. k + m \in 1 .. Len(s) - 1 /\ k \in 1 .. Len(t) /\ k + 1 \in 1 .. Len(t)
        /\ k + 1 + m = k + m + 1
    BY <1>2, <1>3
  <2>2. t[k] = s[k + m] /\ t[k + 1] = s[k + m + 1]  BY <1>3, <2>1
  <2> QED BY <2>1, <2>2 DEF UndoSound
<1>6. ASSUME Len(t) > 0 PROVE Leads(t[Len(t)].to, d)
  <2>1. Len(t) \in 1 .. Len(t) /\ Len(t) + m = Len(s) /\ Len(s) > 0  BY <1>2, <1>3, <1>6
  <2> QED BY <1>3, <2>1 DEF UndoSound
<1>7. UndoSound(t, d)  BY <1>2, <1>4, <1>5, <1>6 DEF UndoSound
<1> QED BY <1>7 DEF t

(* The last record may go, when its step was undone.                        *)
LEMMA UndoPopped ==
  ASSUME NEW s, NEW d, UndoSound(s, d), s # <<>>, NEW e, Leads(Last(s).from, e)
  PROVE  UndoSound(Front(s), e)
<1> DEFINE t == Front(s)
<1>1. /\ Sequence(t) /\ Len(t) \in Nat /\ Len(s) = Len(t) + 1 /\ Last(s) = s[Len(s)]
      /\ \A k \in 1 .. Len(t) : t[k] = s[k]
  BY Popped DEF UndoSound
<1> HIDE DEF t
<1>2. ASSUME NEW k \in 1 .. Len(t) PROVE RecordSound(t[k])
  BY <1>1 DEF UndoSound
<1>3. ASSUME NEW k \in 1 .. Len(t) - 1 PROVE Leads(t[k].to, t[k + 1].from)
  <2>1. k \in 1 .. Len(s) - 1 /\ k \in 1 .. Len(t) /\ k + 1 \in 1 .. Len(t)  BY <1>1
  <2> QED BY <1>1, <2>1 DEF UndoSound
<1>4. ASSUME Len(t) > 0 PROVE Leads(t[Len(t)].to, e)
  <2> DEFINE n == Len(t)
  <2>1. n \in 1 .. Len(s) - 1 /\ n \in 1 .. Len(t) /\ n + 1 = Len(s)  BY <1>1, <1>4
  <2>2. Leads(s[n].to, s[n + 1].from)  BY <2>1 DEF UndoSound
  <2>3. Leads(s[n].to, Last(s).from) /\ t[n] = s[n]  BY <1>1, <2>1, <2>2
  <2> QED BY <2>3, LeadsOn
<1>5. UndoSound(t, e)  BY <1>1, <1>2, <1>3, <1>4 DEF UndoSound
<1> QED BY <1>5 DEF t

(* A record of which the step was undone, after the others.                 *)
LEMMA RedoAppended ==
  ASSUME NEW s, NEW d, RedoSound(s, d), WellFormed(d), NEW r, RecordSound(r),
         DOMAIN d.graphs = DOMAIN r.to.graphs,
         Len(s) > 0 => Leads(r.to, s[Len(s)].from),
         NEW e, DOMAIN e.view \subseteq DOMAIN r.from.view \union DOMAIN d.view, Leads(r.from, e)
  PROVE  RedoSound(Append(s, r), e)
<1> DEFINE t == Append(s, r)
<1>1. /\ Sequence(t) /\ Len(s) \in Nat /\ Len(t) = Len(s) + 1 /\ t[Len(t)] = r
      /\ \A k \in 1 .. Len(s) : t[k] = s[k]
  BY Appended DEF RedoSound
<1> HIDE DEF t
<1>2. ASSUME NEW k \in 1 .. Len(t) PROVE RecordSound(t[k])
  <2>1. k \in 1 .. Len(s) \/ k = Len(t)  BY <1>1
  <2> QED BY <1>1, <2>1 DEF RedoSound
<1>3. ASSUME NEW k \in 1 .. Len(t) - 1 PROVE Leads(t[k + 1].to, t[k].from)
  <2>1. k \in 1 .. Len(s)  BY <1>1
  <2>2. k + 1 \in 1 .. Len(s) \/ (k = Len(s) /\ k + 1 = Len(t))  BY <1>1
  <2>3. t[k] = s[k]  BY <1>1, <2>1
  <2>4. CASE k + 1 \in 1 .. Len(s)
    <3>1. t[k + 1] = s[k + 1] /\ k \in 1 .. Len(s) - 1  BY <1>1, <2>1, <2>4
    <3> QED BY <2>3, <3>1 DEF RedoSound
  <2>5. CASE k = Len(s) /\ k + 1 = Len(t)
    <3>1. t[k + 1] = r /\ Len(s) > 0  BY <1>1, <2>1, <2>5
    <3> QED BY <2>3, <2>5, <3>1
  <2> QED BY <2>2, <2>4, <2>5
<1>4. ASSUME NEW k \in 1 .. Len(t), NEW g \in DOMAIN e.view,
             \A i \in k .. Len(t) : g \notin Shown(t[i])
      PROVE  g \in DOMAIN t[k].to.graphs /\ ShowsSame(EmptyView, e.view[g])
  <2>1. Len(t) \in k .. Len(t)  BY <1>1
  <2>2. g \notin Shown(r)  BY <1>1, <1>4, <2>1
  <2>6. ShowsSame(EmptyView, e.view[g])
    <3>1. ViewOf(r.from, g) = EmptyView  BY <2>2 DEF Shown, ViewOf
    <3> QED BY <1>4, <3>1 DEF Leads
  <2>3. g \in DOMAIN d.view  BY <2>2 DEF Shown
  <2>4. CASE k = Len(t)
    <3>1. g \in DOMAIN d.graphs  BY <2>3, Formed
    <3> QED BY <1>1, <2>4, <2>6, <3>1
  <2>5. CASE k # Len(t)
    <3>1. k \in 1 .. Len(s) /\ t[k] = s[k]  BY <1>1, <2>5
    <3>2. \A i \in k .. Len(s) : i \in 1 .. Len(s) /\ i \in k .. Len(t)  BY <1>1, <3>1
    <3>3. \A i \in k .. Len(s) : g \notin Shown(s[i])  BY <1>1, <1>4, <3>2
    <3> QED BY <2>3, <2>6, <3>1, <3>3 DEF RedoSound
  <2> QED BY <2>4, <2>5
<1>5. RedoSound(t, e)  BY <1>1, <1>2, <1>3, <1>4 DEF RedoSound
<1> QED BY <1>5 DEF t

(* The last record may go, when its step was done again.                    *)
LEMMA RedoPopped ==
  ASSUME NEW s, NEW d, RedoSound(s, d), s # <<>>, NEW e,
         DOMAIN e.view \subseteq
           DOMAIN Last(s).to.view \union ViewSkeletons(Last(s).from, Last(s).to, d),
         Leads(Last(s).to, e)
  PROVE  RedoSound(Front(s), e)
<1> DEFINE t == Front(s)
           r == Last(s)
<1>1. /\ Sequence(t) /\ Len(t) \in Nat /\ Len(s) = Len(t) + 1 /\ r = s[Len(s)]
      /\ \A k \in 1 .. Len(t) : t[k] = s[k]
  BY Popped DEF RedoSound
<1>2. \A g \in DOMAIN e.view :
        \/ g \in DOMAIN r.to.view
        \/ /\ g \in DOMAIN d.view /\ g \notin DOMAIN r.to.view
           /\ g \notin DOMAIN r.from.view \/ g \in DOMAIN r.to.graphs
  BY DEF ViewSkeletons
<1> HIDE DEF t, r
<1>3. ASSUME NEW k \in 1 .. Len(t) PROVE RecordSound(t[k])
  BY <1>1 DEF RedoSound
<1>4. ASSUME NEW k \in 1 .. Len(t) - 1 PROVE Leads(t[k + 1].to, t[k].from)
  <2>1. k \in 1 .. Len(s) - 1 /\ k \in 1 .. Len(t) /\ k + 1 \in 1 .. Len(t)  BY <1>1
  <2> QED BY <1>1, <2>1 DEF RedoSound
<1>5. ASSUME NEW k \in 1 .. Len(t), NEW g \in DOMAIN e.view,
             \A i \in k .. Len(t) : g \notin Shown(t[i])
      PROVE  g \in DOMAIN t[k].to.graphs /\ ShowsSame(EmptyView, e.view[g])
  <2>1. g \notin DOMAIN r.to.view
    <3> DEFINE n == Len(t)
    <3>1. n \in 1 .. Len(s) - 1 /\ n \in 1 .. n /\ n \in k .. n /\ n + 1 = Len(s)  BY <1>1
    <3>2. Leads(s[n + 1].to, s[n].from)  BY <3>1 DEF RedoSound
    <3>3. Leads(r.to, t[n].from)  BY <1>1, <3>1, <3>2
    <3>4. g \notin Shown(t[n])  BY <1>5, <3>1
    <3> QED BY <3>3, <3>4 DEF Leads, Shown
  <2>2. g \in DOMAIN d.view /\ (g \notin DOMAIN r.from.view \/ g \in DOMAIN r.to.graphs)
    BY <1>2, <2>1
  <2>3. g \notin DOMAIN r.from.view
    <3>1. Len(s) \in 1 .. Len(s)  BY <1>1
    <3>2. RecordSound(r)  BY <1>1, <3>1 DEF RedoSound
    <3> QED BY <2>1, <2>2, <3>2 DEF RecordSound, Grows
  <2>4. g \notin Shown(r)  BY <2>1, <2>3 DEF Shown
  <2>5. \A i \in k .. Len(s) : (i \in k .. Len(t) /\ i \in 1 .. Len(t)) \/ i = Len(s)  BY <1>1
  <2>6. \A i \in k .. Len(s) : g \notin Shown(s[i])  BY <1>1, <1>5, <2>4, <2>5
  <2>7. k \in 1 .. Len(s)  BY <1>1
  <2>8. g \in DOMAIN s[k].to.graphs  BY <2>2, <2>6, <2>7 DEF RedoSound
  <2>9. ShowsSame(EmptyView, e.view[g])
    <3>1. ViewOf(r.to, g) = EmptyView  BY <2>1 DEF ViewOf
    <3>2. Leads(r.to, e)  BY DEF r
    <3> QED BY <1>5, <3>1, <3>2 DEF Leads
  <2> QED BY <1>1, <2>8, <2>9
<1>6. RedoSound(t, e)  BY <1>1, <1>3, <1>4, <1>5 DEF RedoSound
<1> QED BY <1>6 DEF t

-----------------------------------------------------------------------------
(* Every step keeps the history sound, and no step takes a cursor back.       *)

(* The document is the one recorded again, but for the cursors and for what *)
(* shows nothing.                                                           *)
Restored(d) ==
  /\ WellFormed(d) /\ Leads(d, doc')
  /\ \A g \in DOMAIN d.graphs : GraphRestores(d.graphs[g], doc'.graphs[g])

(* Undo.                                                                    *)
LEMMA UndoStep ==
  ASSUME HistoryInv, Undo
  PROVE  /\ HistoryInv' /\ CursorsKept(doc, doc') /\ FamiliesKept(doc, doc', WrittenWhole)
         /\ Restored(Last(undo).from)
<1> DEFINE r == Last(undo)
           n == Len(undo)
           skeletons == ViewSkeletons(r.to, r.from, doc)
<1>1. /\ undo # <<>> /\ doc' = Replay(r.to, r.from, doc, r.whole)
      /\ redo' = Append(redo, r) /\ undo' = Front(undo)
  BY DEF Undo
<1>2. WellFormed(doc) /\ UndoSound(undo, doc) /\ RedoSound(redo, doc)  BY DEF HistoryInv
<1>3. Sequence(undo) /\ Sequence(redo)  BY <1>2 DEF UndoSound, RedoSound
<1>4. /\ Sequence(undo') /\ Len(undo') \in Nat /\ n = Len(undo') + 1 /\ r = undo[n]
      /\ \A k \in 1 .. Len(undo') : undo'[k] = undo[k]
  BY <1>1, <1>3, Popped
<1>5. n > 0 /\ n \in 1 .. n  BY <1>4
<1> HIDE DEF r
<1>6. RecordSound(r) /\ Leads(r.to, doc)  BY <1>2, <1>4, <1>5 DEF UndoSound
<1>7. WellFormed(r.from) /\ Grows(r.from, r.to)  BY <1>6 DEF RecordSound
<1>8. skeletons \subseteq DOMAIN r.from.graphs
  <2> SUFFICES ASSUME NEW g \in skeletons, g \notin DOMAIN r.from.graphs PROVE FALSE  OBVIOUS
  <2>1. g \in DOMAIN doc.view /\ g \notin DOMAIN r.to.view  BY DEF ViewSkeletons
  <2>2. g \in DOMAIN r.to.graphs  BY <1>2, <1>6, <2>1, Formed DEF Leads
  <2> QED BY <1>7, <2>1, <2>2 DEF Grows
<1>9. /\ WellFormed(doc')
      /\ DOMAIN doc'.graphs = DOMAIN r.from.graphs
      /\ DOMAIN doc'.view = DOMAIN r.from.view \union skeletons
      /\ CursorsKept(doc, doc')
      /\ FamiliesKept(doc, doc', r.whole)
      /\ \A g \in DOMAIN r.from.graphs : GraphRestores(r.from.graphs[g], doc'.graphs[g])
      /\ Leads(r.from, doc')
  <2>1. ReplaySound(r.to, r.from, doc, r.whole, doc')
    BY <1>1, <1>2, <1>7, <1>8, ReplayKeeps
  <2>2. \A g \in DOMAIN doc.view \ DOMAIN r.to.view : ShowsSame(EmptyView, doc.view[g])
    BY <1>6 DEF Leads, ViewOf
  <2>3. Leads(r.from, doc')  BY <1>7, <2>1, <2>2, ReplayLeads
  <2> QED BY <2>1, <2>3 DEF ReplaySound
<1>10. FamiliesKept(doc, doc', WrittenWhole)
  <2>1. proposed' = proposed  BY DEF Undo
  <2>2. \A g \in DOMAIN doc.graphs : g \in r.whole => g \in WrittenWhole
    BY <1>1, <2>1 DEF WrittenWhole, r
  <2>3. FamiliesKept(doc, doc', r.whole)  BY <1>9
  <2> QED BY <2>2, <2>3 DEF FamiliesKept
<1>11. UndoSound(undo', doc')  BY <1>1, <1>2, <1>9, UndoPopped DEF r
<1>12. Len(redo) > 0 => Leads(r.to, redo[Len(redo)].from)
  BY <1>4, <1>5 DEF HistoryInv
<1>13. RedoSound(redo', doc')
  <2>1. DOMAIN doc'.view \subseteq DOMAIN r.from.view \union DOMAIN doc.view
    BY <1>9 DEF ViewSkeletons
  <2>2. DOMAIN doc.graphs = DOMAIN r.to.graphs  BY <1>6 DEF Leads
  <2> QED BY <1>1, <1>2, <1>6, <1>9, <1>12, <2>1, <2>2, RedoAppended
<1>14. Len(undo') > 0 /\ Len(redo') > 0 => Leads(undo'[Len(undo')].to, redo'[Len(redo')].from)
  <2> SUFFICES ASSUME Len(undo') > 0 PROVE Leads(undo'[Len(undo')].to, redo'[Len(redo')].from)
    OBVIOUS
  <2>1. redo'[Len(redo')] = r  BY <1>1, <1>3, Appended
  <2> DEFINE m == Len(undo')
  <2>2. m \in 1 .. n - 1 /\ m \in 1 .. m /\ m + 1 = n  BY <1>4
  <2>3. Leads(undo[m].to, undo[m + 1].from)  BY <1>2, <2>2 DEF UndoSound
  <2> QED BY <1>4, <2>1, <2>2, <2>3
<1>15. HistoryInv'  BY <1>9, <1>11, <1>13, <1>14 DEF HistoryInv
<1>16. Restored(Last(undo).from)  BY <1>7, <1>9 DEF Restored, r
<1> QED BY <1>9, <1>10, <1>15, <1>16

(* Redo.                                                                    *)
LEMMA RedoStep ==
  ASSUME HistoryInv, Redo
  PROVE  /\ HistoryInv' /\ CursorsKept(doc, doc') /\ FamiliesKept(doc, doc', WrittenWhole)
         /\ Restored(Last(redo).to)
<1> DEFINE r == Last(redo)
           n == Len(redo)
           skeletons == ViewSkeletons(r.from, r.to, doc)
<1>1. /\ redo # <<>> /\ doc' = Replay(r.from, r.to, doc, r.whole)
      /\ undo' = Append(undo, r) /\ redo' = Front(redo)
  BY DEF Redo
<1>2. WellFormed(doc) /\ UndoSound(undo, doc) /\ RedoSound(redo, doc)  BY DEF HistoryInv
<1>3. Sequence(undo) /\ Sequence(redo)  BY <1>2 DEF UndoSound, RedoSound
<1>4. /\ Sequence(redo') /\ Len(redo') \in Nat /\ n = Len(redo') + 1 /\ r = redo[n]
      /\ \A k \in 1 .. Len(redo') : redo'[k] = redo[k]
  BY <1>1, <1>3, Popped
<1>5. n > 0 /\ n \in 1 .. n  BY <1>4
<1> HIDE DEF r
<1>6. RecordSound(r)  BY <1>2, <1>4, <1>5 DEF RedoSound
<1>7. WellFormed(r.from) /\ WellFormed(r.to)  BY <1>6 DEF RecordSound, Grows
<1>8. skeletons \subseteq DOMAIN r.to.graphs
  <2> SUFFICES ASSUME NEW g \in skeletons, g \notin DOMAIN r.to.graphs PROVE FALSE  OBVIOUS
  <2>1. g \in DOMAIN doc.view /\ g \notin DOMAIN r.to.view /\ g \notin DOMAIN r.from.view
    BY DEF ViewSkeletons
  <2>2. \A i \in n .. n : g \notin Shown(redo[i])  BY <1>4, <1>5, <2>1 DEF Shown
  <2>3. g \in DOMAIN redo[n].to.graphs  BY <1>2, <1>5, <2>1, <2>2 DEF RedoSound
  <2> QED BY <1>4, <2>3
<1>9. /\ WellFormed(doc')
      /\ DOMAIN doc'.graphs = DOMAIN r.to.graphs
      /\ DOMAIN doc'.view = DOMAIN r.to.view \union skeletons
      /\ CursorsKept(doc, doc')
      /\ FamiliesKept(doc, doc', r.whole)
      /\ \A g \in DOMAIN r.to.graphs : GraphRestores(r.to.graphs[g], doc'.graphs[g])
      /\ Leads(r.to, doc')
  <2>1. ReplaySound(r.from, r.to, doc, r.whole, doc')
    BY <1>1, <1>2, <1>7, <1>8, ReplayKeeps
  <2>2. ASSUME NEW g \in DOMAIN doc.view \ (DOMAIN r.from.view \union DOMAIN r.to.view)
        PROVE  ShowsSame(EmptyView, doc.view[g])
    <3>1. \A i \in n .. n : g \notin Shown(redo[i])  BY <1>4, <1>5, <2>2 DEF Shown
    <3> QED BY <1>2, <1>5, <2>2, <3>1 DEF RedoSound
  <2>3. Leads(r.to, doc')  BY <1>7, <2>1, <2>2, ReplayLeads
  <2> QED BY <2>1, <2>3 DEF ReplaySound
<1>10. FamiliesKept(doc, doc', WrittenWhole)
  <2>1. proposed' = proposed  BY DEF Redo
  <2>2. \A g \in DOMAIN doc.graphs : g \in r.whole => g \in WrittenWhole
    BY <1>1, <2>1 DEF WrittenWhole, r
  <2>3. FamiliesKept(doc, doc', r.whole)  BY <1>9
  <2> QED BY <2>2, <2>3 DEF FamiliesKept
<1>11. UndoSound(undo', doc')
  <2>2. Len(undo) > 0 => Leads(undo[Len(undo)].to, r.from)  BY <1>4, <1>5 DEF HistoryInv
  <2> QED BY <1>1, <1>2, <1>6, <1>9, <2>2, UndoAppended
<1>12. RedoSound(redo', doc')
  BY <1>1, <1>2, <1>9, RedoPopped DEF r
<1>13. Len(undo') > 0 /\ Len(redo') > 0 => Leads(undo'[Len(undo')].to, redo'[Len(redo')].from)
  <2> SUFFICES ASSUME Len(redo') > 0 PROVE Leads(undo'[Len(undo')].to, redo'[Len(redo')].from)
    OBVIOUS
  <2>1. undo'[Len(undo')] = r  BY <1>1, <1>3, Appended
  <2> DEFINE m == Len(redo')
  <2>2. m \in 1 .. n - 1 /\ m \in 1 .. m /\ m + 1 = n  BY <1>4
  <2>3. Leads(redo[m + 1].to, redo[m].from)  BY <1>2, <2>2 DEF RedoSound
  <2> QED BY <1>4, <2>1, <2>2, <2>3
<1>14. HistoryInv'  BY <1>9, <1>11, <1>12, <1>13 DEF HistoryInv
<1>15. Restored(Last(redo).to)  BY <1>7, <1>9 DEF Restored, r
<1> QED BY <1>9, <1>10, <1>14, <1>15

(* A document that grows takes no cursor back, and moves none too far.      *)
LEMMA GrowsKeeps ==
  ASSUME NEW d, WellFormed(d), NEW e, Grows(d, e)
  PROVE  /\ CursorsKept(d, e) /\ FamiliesKept(d, e, {}) /\ CursorsBounded(d, e)
         /\ \A s \in DOMAIN d.panels : \A b \in d.panels[s] : Resolves(e, b) => Resolves(d, b)
<1>1. CursorsKept(d, e)
  <2>1. \A g \in DOMAIN d.graphs \intersect DOMAIN e.graphs : d.graphs[g].next <= e.graphs[g].next
    BY DEF Grows, GraphGrows
  <2>2. \A g \in DOMAIN d.view : ViewOf(d, g).seq <= ViewOf(e, g).seq \/ g \notin DOMAIN e.graphs
    BY Formed DEF Grows, ViewGrows
  <2>3. \A o \in DOMAIN d.tops : TopologyOf(d, o).next <= TopologyOf(e, o).next
    BY DEF Grows, TopologyOf
  <2>4. d.panelSeq <= e.panelSeq  BY DEF Grows
  <2> QED BY <2>1, <2>2, <2>3, <2>4 DEF CursorsKept
<1>2. FamiliesKept(d, e, {})  BY DEF Grows, GraphGrows, FamiliesGrow, FamiliesKept
<1>3. CursorsBounded(d, e)  BY DEF Grows, GraphGrows, CursorsBounded
<1>4. ASSUME NEW s \in DOMAIN d.panels, NEW b \in d.panels[s], Resolves(e, b)
      PROVE  Resolves(d, b)
  <2>1. b[1] \in DOMAIN d.graphs  BY DEF WellFormed
  <2>2. b[1] \in DOMAIN e.graphs /\ b[2] \in ViewOf(e, b[1]).groups  BY <1>4 DEF Resolves
  <2>3. ViewGrows(d, e, b[1])  BY <2>1, <2>2 DEF Grows
  <2>4. b[2] \in BoundGroups(d, b[1])
    <3>1. b \in UNION Range(d.panels)  BY Zenon DEF Range
    <3> QED BY <3>1, Zenon DEF BoundGroups
  <2> QED BY <2>1, <2>2, <2>3, <2>4 DEF ViewGrows, Resolves
<1> QED BY <1>1, <1>2, <1>3, <1>4

(* A committed step is recorded, and no step of the history can be redone.  *)
LEMMA CommittedStep ==
  ASSUME HistoryInv, Committed
  PROVE  /\ HistoryInv'
         /\ CursorsKept(doc, doc') /\ FamiliesKept(doc, doc', {}) /\ CursorsBounded(doc, doc')
         /\ \A s \in DOMAIN doc.panels : \A b \in doc.panels[s] : Resolves(doc', b) => Resolves(doc, b)
<1>1. WellFormed(doc) /\ UndoSound(undo, doc)  BY DEF HistoryInv
<1>2. CASE UNCHANGED <<doc, undo, redo>>
  <2>1. HistoryInv'  BY <1>2 DEF HistoryInv
  <2>2. Grows(doc, doc')  BY <1>1, <1>2, GrowsSelf
  <2> QED BY <1>1, <2>1, <2>2, GrowsKeeps
<1>3. CASE /\ Grows(doc, doc') /\ Flaws(doc') = {} /\ redo' = <<>>
           /\ \E whole : undo' = Newest(Append(undo, Recorded(doc, doc', whole)))
  <2>1. PICK whole : undo' = Newest(Append(undo, Recorded(doc, doc', whole)))  BY <1>3
  <2> DEFINE r == Recorded(doc, doc', whole)
  <2>2. r.from = doc /\ r.to = doc'  BY DEF Recorded
  <2> HIDE DEF r
  <2>3. RecordSound(r)  BY <1>1, <1>3, <2>2 DEF RecordSound
  <2>4. Len(undo) > 0 => Leads(undo[Len(undo)].to, r.from)  BY <1>1, <2>2 DEF UndoSound
  <2>5. Leads(r.to, doc')  BY <2>2, LeadsOn
  <2>6. UndoSound(Append(undo, r), doc')  BY <1>1, <2>3, <2>4, <2>5, UndoAppended
  <2>7. UndoSound(undo', doc')  BY <2>1, <2>6, UndoNewest DEF r
  <2>8. RedoSound(redo', doc') /\ Len(redo') = 0  BY <1>3, NoRecords
  <2>9. WellFormed(doc')  BY <1>3 DEF Grows
  <2>10. HistoryInv'  BY <2>7, <2>8, <2>9 DEF HistoryInv
  <2> QED BY <1>1, <1>3, <2>10, GrowsKeeps
<1> QED BY <1>2, <1>3 DEF Committed

(* What an edit keeps of the cursors and the groups, and what undo and redo *)
(* keep: they may take back cursors of families in a definition whose nodes *)
(* the record they replay writes in one piece.                              *)
EditKeeps ==
  /\ CursorsKept(doc, doc') /\ FamiliesKept(doc, doc', {}) /\ CursorsBounded(doc, doc')
  /\ \A s \in DOMAIN doc.panels : \A b \in doc.panels[s] : Resolves(doc', b) => Resolves(doc, b)
HistoryKeeps ==
  /\ CursorsKept(doc, doc') /\ FamiliesKept(doc, doc', WrittenWhole)
  /\ proposed' = proposed

(* Every step keeps the history sound and takes no cursor back; an edit     *)
(* gives out no group that is bound.                                        *)
LEMMA EveryStep ==
  ASSUME HistoryInv, Next
  PROVE  HistoryInv' /\ (EditKeeps \/ HistoryKeeps)
<1>1. WellFormed(doc)  BY DEF HistoryInv
<1>2. CASE Edit
  <2>1. Committed  BY <1>1, <1>2, EditStep
  <2> QED BY <2>1, CommittedStep DEF EditKeeps
<1>3. CASE Undo
  <2>1. proposed' = proposed  BY <1>3 DEF Undo
  <2> QED BY <1>3, <2>1, UndoStep DEF HistoryKeeps
<1>4. CASE Redo
  <2>1. proposed' = proposed  BY <1>4 DEF Redo
  <2> QED BY <1>4, <2>1, RedoStep DEF HistoryKeeps
<1>5. CASE ClearHistory
  <2>1. doc' = doc /\ undo' = <<>> /\ redo' = <<>>  BY <1>5 DEF ClearHistory
  <2>2. UndoSound(undo', doc') /\ RedoSound(redo', doc') /\ Len(undo') = 0  BY <2>1, NoRecords
  <2>3. HistoryInv'  BY <1>1, <2>1, <2>2 DEF HistoryInv
  <2>4. Grows(doc, doc')  BY <1>1, <2>1, GrowsSelf
  <2> QED BY <1>1, <2>3, <2>4, GrowsKeeps DEF EditKeeps
<1> QED BY <1>2, <1>3, <1>4, <1>5 DEF Next, History

(* The history is sound: every document is well formed, the ones recorded   *)
(* too, each record is of a step of the user, and the records lead from one *)
(* to the next; a replay patches the document it was made for, but for the  *)
(* cursors.                                                                 *)
THEOREM HistoryStaysSound == Spec => []HistoryInv
<1>1. Init => HistoryInv
  <2>1. SUFFICES ASSUME Init PROVE HistoryInv  OBVIOUS
  <2>2. WellFormed(doc) /\ undo = <<>> /\ redo = <<>>  BY <2>1 DEF Init, Opened
  <2>3. UndoSound(undo, doc) /\ RedoSound(redo, doc) /\ Len(undo) = 0  BY <2>2, NoRecords
  <2> QED BY <2>2, <2>3 DEF HistoryInv
<1>2. HistoryInv /\ [Next]_vars => HistoryInv'
  <2>1. HistoryInv /\ Next => HistoryInv'  BY EveryStep
  <2>2. HistoryInv /\ UNCHANGED vars => HistoryInv'  BY DEF vars, HistoryInv
  <2> QED BY <2>1, <2>2
<1> QED BY <1>1, <1>2, PTL DEF Spec

(* No allocation cursor goes back while what it belongs to is there, by     *)
(* commands, undo and redo in any order: an id given out once names nothing *)
(* else later.  No command moves one beyond the largest integer an id may   *)
(* hold.  One step is not held to it: undo or redo of an extraction, which  *)
(* writes the nodes of the definition extracted from in one piece, may take *)
(* back the cursors of their families (and does: CursorsAreMonotonic).      *)
THEOREM CursorsDoNotRewind == Spec => CursorsNeverRewind
<1>1. HistoryInv /\ Next =>
        /\ CursorsKept(doc, doc') /\ FamiliesKept(doc, doc', WrittenWhole)
        /\ proposed' # proposed => CursorsBounded(doc, doc')
  BY EveryStep DEF EditKeeps, HistoryKeeps, FamiliesKept
<1>2. HistoryInv /\ [Next]_vars =>
        [/\ CursorsKept(doc, doc')
         /\ FamiliesKept(doc, doc', WrittenWhole)
         /\ proposed' # proposed => CursorsBounded(doc, doc')]_vars
  BY <1>1
<1> QED BY <1>2, HistoryStaysSound, PTL DEF Spec, CursorsNeverRewind

(* No command gives out a group id that a mode panel is still bound to: a   *)
(* binding that is broken finds a group again by undo or redo only.         *)
THEOREM BindingsAreNotRetargeted == Spec => NoBindingIsRetargeted
<1>1. HistoryInv /\ Next =>
        (proposed' # proposed =>
          \A s \in DOMAIN doc.panels \intersect DOMAIN doc'.panels :
              \A b \in doc.panels[s] \intersect doc'.panels[s] : Resolves(doc', b) => Resolves(doc, b))
  BY EveryStep DEF EditKeeps, HistoryKeeps
<1>2. HistoryInv /\ [Next]_vars =>
        [proposed' # proposed =>
          \A s \in DOMAIN doc.panels \intersect DOMAIN doc'.panels :
              \A b \in doc.panels[s] \intersect doc'.panels[s] : Resolves(doc', b) => Resolves(doc, b)]_vars
  BY <1>1
<1> QED BY <1>2, HistoryStaysSound, PTL DEF Spec, NoBindingIsRetargeted

-----------------------------------------------------------------------------
(* Nothing is left dangling.                                                  *)

(* A document of which the canvases show what there is, and which breaks no *)
(* rule but of local wiring, families left without members aside.           *)
Tidy(d) == ViewFollows(d) /\ RulesKept(WithoutEmptied(d))
RecordTidy(r) == Tidy(r.from) /\ Tidy(r.to)
Tidies(s) == \A k \in 1 .. Len(s) : RecordTidy(s[k])
TidyInv == Tidy(doc) /\ Tidies(undo) /\ Tidies(redo)

(* A committed document is one, when the one before it was: the rules were  *)
(* asked of it.                                                             *)
LEMMA CommittedTidy ==
  ASSUME NEW d, NEW e, Grows(d, e), Flaws(e) = {}, Tidy(d)
  PROVE  Tidy(e)
<1>1. ViewFollows(e)  BY DEF Tidy, Grows, StillFollows
<1>2. RulesKept(e)  BY RulesAre
<1>3. Looser(e, WithoutEmptied(e))  BY EmptiedLooser DEF Grows
<1>4. RulesKept(WithoutEmptied(e))  BY <1>2, <1>3, RulesToo
<1> QED BY <1>1, <1>4 DEF Tidy

(* So is one that was restored, when the one recorded was.                  *)
LEMMA RestoredTidy ==
  ASSUME NEW d, Restored(d), WellFormed(doc'), Tidy(d)
  PROVE  Tidy(doc')
<1> DEFINE e == doc'
<1>1. /\ WellFormed(d) /\ Leads(d, e) /\ WellFormed(e)
      /\ \A g \in DOMAIN d.graphs : GraphRestores(d.graphs[g], e.graphs[g])
  BY DEF Restored
<1> HIDE DEF e
<1>2. DOMAIN e.graphs = DOMAIN d.graphs  BY <1>1 DEF Leads
<1>3. ViewFollows(e)
  <2> SUFFICES ASSUME NEW g \in DOMAIN e.view
               PROVE  g \in DOMAIN e.graphs /\ Follows(e.graphs[g], e.view[g])
    BY EachFollows
  <2>1. g \in DOMAIN e.graphs  BY <1>1, Formed
  <2>2. Follows(d.graphs[g], ViewOf(d, g))
    BY EachFollows, EmptyFollows DEF Tidy, ViewOf
  <2>3. ShowsSame(ViewOf(d, g), e.view[g])  BY <1>1 DEF Leads
  <2>4. SameWiring(d.graphs[g], e.graphs[g])  BY <1>1, <1>2, <2>1 DEF GraphRestores
  <2>5. Follows(e.graphs[g], e.view[g])  BY <2>2, <2>3, <2>4 DEF Follows, ShowsSame, SameWiring
  <2> QED BY <2>1, <2>5
<1>4. Looser(WithoutEmptied(d), WithoutEmptied(e))  BY <1>1, <1>2, RestoredLooser
<1>5. RulesKept(WithoutEmptied(e))  BY <1>4, RulesToo DEF Tidy
<1>6. Tidy(e)  BY <1>3, <1>5 DEF Tidy
<1> QED BY <1>6 DEF e

(* Records come and go.                                                     *)
LEMMA TidyRecords ==
  ASSUME NEW s, Sequence(s), Tidies(s)
  PROVE  /\ \A r : RecordTidy(r) => Tidies(Append(s, r))
         /\ Tidies(Newest(s))
         /\ s # <<>> => Tidies(Front(s)) /\ RecordTidy(Last(s))
<1>1. ASSUME NEW r, RecordTidy(r) PROVE Tidies(Append(s, r))
  <2> DEFINE t == Append(s, r)
  <2>1. /\ Len(s) \in Nat /\ Len(t) = Len(s) + 1 /\ t[Len(t)] = r
        /\ \A k \in 1 .. Len(s) : t[k] = s[k]
    BY Appended
  <2> HIDE DEF t
  <2>2. ASSUME NEW k \in 1 .. Len(t) PROVE RecordTidy(t[k])
    <3>1. k \in 1 .. Len(s) \/ k = Len(t)  BY <2>1
    <3> QED BY <1>1, <2>1, <3>1 DEF Tidies
  <2>3. Tidies(t)  BY <2>2 DEF Tidies
  <2> QED BY <2>3 DEF t
<1>2. Tidies(Newest(s))
  <2> DEFINE t == Newest(s)
  <2>1. Len(t) \in Nat  BY NewestIs
  <2>2. PICK m \in Nat : Len(s) = Len(t) + m /\ \A k \in 1 .. Len(t) : t[k] = s[k + m]
    BY NewestIs
  <2> HIDE DEF t
  <2>3. ASSUME NEW k \in 1 .. Len(t) PROVE RecordTidy(t[k])
    <3>1. k + m \in 1 .. Len(s)  BY <2>1, <2>2
    <3> QED BY <2>2, <3>1 DEF Tidies
  <2>4. Tidies(t)  BY <2>3 DEF Tidies
  <2> QED BY <2>4 DEF t
<1>3. ASSUME s # <<>> PROVE Tidies(Front(s)) /\ RecordTidy(Last(s))
  <2> DEFINE t == Front(s)
  <2>1. /\ Len(t) \in Nat /\ Len(s) = Len(t) + 1 /\ Last(s) = s[Len(s)]
        /\ \A k \in 1 .. Len(t) : t[k] = s[k]
    BY <1>3, Popped
  <2> HIDE DEF t
  <2>2. RecordTidy(Last(s))
    <3>1. Len(s) \in 1 .. Len(s)  BY <2>1
    <3> QED BY <2>1, <3>1 DEF Tidies
  <2>3. ASSUME NEW k \in 1 .. Len(t) PROVE RecordTidy(t[k])
    <3>1. k \in 1 .. Len(s)  BY <2>1
    <3> QED BY <2>1, <3>1 DEF Tidies
  <2>4. Tidies(t)  BY <2>3 DEF Tidies
  <2> QED BY <2>2, <2>4 DEF t
<1> QED BY <1>1, <1>2, <1>3

(* Every step leaves a tidy document, and a history of tidy ones.           *)
LEMMA TidyStep ==
  ASSUME HistoryInv, TidyInv, Next
  PROVE  TidyInv'
<1>1. WellFormed(doc) /\ Sequence(undo) /\ Sequence(redo)
  BY DEF HistoryInv, UndoSound, RedoSound
<1>2. Tidy(doc) /\ Tidies(undo) /\ Tidies(redo)  BY DEF TidyInv
<1>3. \A k \in 1 .. 0 : FALSE  OBVIOUS
<1>4. Tidies(<<>>)  BY <1>3, NoRecords DEF Tidies
<1>5. CASE Edit
  <2>1. Committed  BY <1>1, <1>5, EditStep
  <2>2. CASE UNCHANGED <<doc, undo, redo>>  BY <1>2, <2>2 DEF TidyInv, Tidies
  <2>3. CASE /\ Grows(doc, doc') /\ Flaws(doc') = {} /\ redo' = <<>>
             /\ \E whole : undo' = Newest(Append(undo, Recorded(doc, doc', whole)))
    <3>1. PICK whole : undo' = Newest(Append(undo, Recorded(doc, doc', whole)))  BY <2>3
    <3>2. Tidy(doc')  BY <1>2, <2>3, CommittedTidy
    <3> DEFINE r == Recorded(doc, doc', whole)
    <3>3. r.from = doc /\ r.to = doc'  BY DEF Recorded
    <3> HIDE DEF r
    <3>4. Sequence(Append(undo, r))  BY <1>1, Appended
    <3>5. RecordTidy(r)  BY <1>2, <3>2, <3>3 DEF RecordTidy
    <3>6. Tidies(Append(undo, r))  BY <1>1, <1>2, <3>5, TidyRecords
    <3>7. Tidies(undo')  BY <3>1, <3>4, <3>6, TidyRecords DEF r
    <3> QED BY <1>4, <2>3, <3>2, <3>7 DEF TidyInv, Tidies
  <2> QED BY <2>1, <2>2, <2>3 DEF Committed
<1>6. CASE Undo
  <2>1. /\ undo # <<>> /\ redo' = Append(redo, Last(undo)) /\ undo' = Front(undo)
    BY <1>6 DEF Undo
  <2>2. Tidies(Front(undo)) /\ RecordTidy(Last(undo))  BY <1>1, <1>2, <2>1, TidyRecords
  <2>3. WellFormed(doc') /\ Restored(Last(undo).from)  BY <1>6, UndoStep DEF HistoryInv
  <2>4. Tidy(doc')  BY <2>2, <2>3, RestoredTidy DEF RecordTidy
  <2>5. Tidies(Append(redo, Last(undo)))  BY <1>1, <1>2, <2>2, TidyRecords
  <2> QED BY <2>1, <2>2, <2>4, <2>5 DEF TidyInv, Tidies
<1>7. CASE Redo
  <2>1. /\ redo # <<>> /\ undo' = Append(undo, Last(redo)) /\ redo' = Front(redo)
    BY <1>7 DEF Redo
  <2>2. Tidies(Front(redo)) /\ RecordTidy(Last(redo))  BY <1>1, <1>2, <2>1, TidyRecords
  <2>3. WellFormed(doc') /\ Restored(Last(redo).to)  BY <1>7, RedoStep DEF HistoryInv
  <2>4. Tidy(doc')  BY <2>2, <2>3, RestoredTidy DEF RecordTidy
  <2>5. Tidies(Append(undo, Last(redo)))  BY <1>1, <1>2, <2>2, TidyRecords
  <2> QED BY <2>1, <2>2, <2>4, <2>5 DEF TidyInv, Tidies
<1>8. CASE ClearHistory
  <2>1. doc' = doc /\ undo' = <<>> /\ redo' = <<>>  BY <1>8 DEF ClearHistory
  <2> QED BY <1>2, <1>4, <2>1 DEF TidyInv, Tidies
<1> QED BY <1>5, <1>6, <1>7, <1>8 DEF Next, History

(* From a document in which nothing dangles, no commands, undo and redo, in *)
(* whatever order, lead to one in which something does: canvases show only  *)
(* what is there, and no rule is broken, but those of local wiring and what *)
(* families left without members break.                                     *)
THEOREM NothingIsLeftDangling == Spec /\ NothingDangles => []NothingDangles
<1>1. NothingDangles <=> Tidy(doc)  BY RulesAre DEF NothingDangles, Tidy
<1>2. Init /\ NothingDangles => TidyInv
  <2> SUFFICES ASSUME Init, NothingDangles PROVE TidyInv  OBVIOUS
  <2>1. undo = <<>> /\ redo = <<>>  BY DEF Init, Opened
  <2>2. \A k \in 1 .. 0 : FALSE  OBVIOUS
  <2>3. Tidies(<<>>)  BY <2>2, NoRecords DEF Tidies
  <2> QED BY <1>1, <2>1, <2>3 DEF TidyInv
<1>3. HistoryInv /\ TidyInv /\ [Next]_vars => TidyInv'
  <2>1. HistoryInv /\ TidyInv /\ Next => TidyInv'  BY TidyStep
  <2>2. TidyInv /\ UNCHANGED vars => TidyInv'  BY DEF vars, TidyInv, Tidies
  <2> QED BY <2>1, <2>2
<1>4. TidyInv => NothingDangles  BY <1>1 DEF TidyInv
<1> QED BY <1>2, <1>3, <1>4, HistoryStaysSound, PTL DEF Spec
====
