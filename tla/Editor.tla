-------------------------------- MODULE Editor --------------------------------
(***************************************************************************)
(* The local document store (packages/core/src/commands/store.ts): one     *)
(* user edits one workflow document by commands, undoes and redoes.        *)
(*                                                                         *)
(* A history record keeps the patches between two documents; here, the two *)
(* documents.  Undo and redo patch the present document back or forward,   *)
(* except that no allocation cursor ever goes back: an id that was seen    *)
(* once never names something else later.                                  *)
(***************************************************************************)
EXTENDS OccurrenceCommands, SubgraphCommands

CONSTANTS
    MaxUndo,       \* history records kept (200 in the code)
    MaxCommands,   \* bound: documents proposed in a session
    Ins, Outs,     \* addresses of the ports that consume, that produce
    Families,      \* names of dynamic families
    Names,         \* names a net can be given, as typed
    ItemNames          \* ids a boundary item can be given

ASSUME BoundsAreNat == MaxUndo \in Nat /\ MaxCommands \in Nat

VARIABLES
    doc,        \* the committed document
    undo, redo, \* history, oldest record first
    flaws,      \* the rules the last document proposed broke: it was rejected
    proposed    \* documents proposed so far

vars == <<doc, undo, redo, flaws, proposed>>

Opened(d) == doc = d /\ undo = <<>> /\ redo = <<>> /\ flaws = {} /\ proposed = 0

-----------------------------------------------------------------------------
(* dispatch: a command that refuses, or changes nothing, leaves everything as *)
(* it is; one whose document breaks a rule is rejected as a whole.  `whole`   *)
(* names the definitions whose node map the command writes in one piece.      *)

Higher(a, b) == IF a < b THEN b ELSE a
Newest(records) == SubSeq(records, Higher(1, Len(records) - MaxUndo + 1), Len(records))

Proposed(d, whole) ==
    /\ proposed' = proposed + 1
    /\ flaws' = Flaws(d)
    /\ IF flaws' = {}
       THEN /\ doc' = d
            /\ undo' = Newest(Append(undo, [from |-> doc, to |-> d, whole |-> whole]))
            /\ redo' = <<>>
       ELSE UNCHANGED <<doc, undo, redo>>
Commit(results, whole) == \E d \in results \ {doc} : Proposed(d, whole)
Dispatch(results) == Commit(results, {})

-----------------------------------------------------------------------------
(* replayHistoryOps: from a document recorded as `from` to one recorded as    *)
(* `to`, on the present document `now`.                                       *)

\* The cursors of a definition: ids, and members of dynamic families.
KeepFamilies(now, to) ==
    [f \in DOMAIN now \union DOMAIN to |->
        IF f \notin DOMAIN now THEN to[f]
        ELSE IF f \notin DOMAIN to THEN [now[f] EXCEPT !.members = {}]
        ELSE [to[f] EXCEPT !.seq = Higher(@, now[f].seq)]]

KeepNode(now, to) == [to EXCEPT !.dyn = KeepFamilies(now.dyn, @)]
KeepNodes(now, to, whole) ==
    [n \in DOMAIN to |-> IF whole \/ n \notin DOMAIN now THEN to[n] ELSE KeepNode(now[n], to[n])]

\* Mutant: the cursor of ids is taken back.
KeepCursors_FamiliesOnly(now, to, whole) == [to EXCEPT !.nodes = KeepNodes(now.nodes, @, whole)]

KeepCursors(now, to, whole) ==
    [to EXCEPT !.next = Higher(@, now.next), !.nodes = KeepNodes(now.nodes, @, whole)]

\* Mutant: also of definitions that go with the record.
ViewSkeletons_OfAnything(from, to, now) ==
    {g \in DOMAIN now.view \ DOMAIN to.view : g \notin DOMAIN from.view \/ now.view[g].seq > 0}

\* What a remembered canvas, or local wiring, leaves behind when undone: its
\* cursor, unless what it belongs to goes with the same record.
ViewSkeletons(from, to, now) ==
    {g \in DOMAIN now.view \ DOMAIN to.view :
        g \notin DOMAIN from.view \/ (now.view[g].seq > 0 /\ g \in DOMAIN to.graphs)}
TopologySkeletons(from, to, now) ==
    {o \in DOMAIN now.tops \ DOMAIN to.tops :
        o \notin DOMAIN from.tops \/ (now.tops[o].next > 0 /\ GraphAt(to, o) # NoGraph)}

KeepView(from, to, now, g) ==
    IF g \notin DOMAIN to.view
    THEN IF g \in DOMAIN from.view THEN [EmptyView EXCEPT !.seq = now.view[g].seq] ELSE now.view[g]
    ELSE IF g \notin DOMAIN now.view THEN to.view[g]
    ELSE [to.view[g] EXCEPT !.seq = Higher(@, now.view[g].seq)]
KeepTopology(from, to, now, o) ==
    IF o \notin DOMAIN to.tops
    THEN IF o \in DOMAIN from.tops
         THEN [NoTopology EXCEPT !.body = now.tops[o].body, !.next = now.tops[o].next]
         ELSE now.tops[o]
    ELSE IF o \notin DOMAIN now.tops THEN to.tops[o]
    ELSE [to.tops[o] EXCEPT !.next = Higher(@, now.tops[o].next)]

Replay(from, to, now, whole) ==
    [to EXCEPT
       !.graphs = [g \in DOMAIN @ |->
           IF g \in DOMAIN now.graphs THEN KeepCursors(now.graphs[g], @[g], g \in whole) ELSE @[g]],
       !.panelSeq = Higher(@, now.panelSeq),
       !.view = [g \in DOMAIN @ \union ViewSkeletons(from, to, now) |-> KeepView(from, to, now, g)],
       !.tops = [o \in DOMAIN @ \union TopologySkeletons(from, to, now) |->
                    KeepTopology(from, to, now, o)]]

Undo ==
    /\ undo # <<>>
    /\ LET record == Last(undo) IN
       /\ doc' = Replay(record.to, record.from, doc, record.whole)
       /\ redo' = Append(redo, record)
    /\ undo' = Front(undo)
    /\ UNCHANGED <<flaws, proposed>>

Redo ==
    /\ redo # <<>>
    /\ LET record == Last(redo) IN
       /\ doc' = Replay(record.from, record.to, doc, record.whole)
       /\ undo' = Append(undo, record)
    /\ redo' = Front(redo)
    /\ UNCHANGED <<flaws, proposed>>

ClearHistory ==
    /\ undo \o redo # <<>>
    /\ undo' = <<>> /\ redo' = <<>>
    /\ UNCHANGED <<doc, flaws, proposed>>

History == Undo \/ Redo \/ ClearHistory

-----------------------------------------------------------------------------
(* What the user can ask for.                                                 *)

\* Widgets, and ports that cross a boundary, are no members of families here.
Single == {p \in Ins : Len(p) = 1}
Producers(g) ==
    {Port(n, p) : n \in DOMAIN g.nodes, p \in Outs} \union {Tap(n, p) : n \in DOMAIN g.nodes, p \in Single}
      \union {Reroute(r) : r \in g.reroutes} \union {Source(v) : v \in g.sources}
      \union {Selector(s) : s \in DOMAIN g.selectors}
Consumers(g) ==
    {Port(n, p) : n \in DOMAIN g.nodes, p \in Ins} \union {Reroute(r) : r \in g.reroutes}
      \union UNION {{Candidate(s, c) : c \in Range(g.selectors[s].cands)} : s \in DOMAIN g.selectors}
OutPorts(g) == {e \in Producers(g) : Kind(e) = "port"}
InPorts(g)  == {e \in Consumers(g) : Kind(e) = "port"}
Crossing(g) == {e \in Consumers(g) : Kind(e) # "port" \/ e[3] \in Single}

Graphs == DOMAIN doc.graphs
Ready == proposed < MaxCommands

EditLinks == Ready /\ \E id \in Graphs : LET g == doc.graphs[id] IN
    \/ \E from \in Producers(g), to \in Consumers(g) : Dispatch(LinkConnect(doc, id, from, to))
    \/ \E l \in DOMAIN g.links, to \in Consumers(g) : Dispatch(LinkRewire(doc, id, l, to))
    \/ \E L \in SUBSET DOMAIN g.links, from \in Producers(g) :
          L # {} /\ Dispatch(LinkRewireSource(doc, id, L, from))
    \/ \E l \in DOMAIN g.links : Dispatch(LinkDisconnect(doc, id, l))

EditNets == Ready /\ \E id \in Graphs : LET g == doc.graphs[id] IN
    \/ \E name \in Names, source \in OutPorts(g) : Dispatch(NetCreate(doc, id, name, source))
    \/ \E n \in DOMAIN g.nets : \/ \E to \in InPorts(g) : Dispatch(NetConnectInput(doc, id, n, to))
                                 \/ \E from \in OutPorts(g) : Dispatch(NetSetSource(doc, id, n, from))
                                 \/ \E name \in Names : Dispatch(NetRename(doc, id, n, name))
                                 \/ Dispatch(NetRemove(doc, id, n))
    \/ \E to \in InPorts(g) : Dispatch(NetDisconnectInput(doc, id, to))
    \/ \E t \in doc.tags : t[1] = id /\ Dispatch(NetResetView(doc, id, t[2], t))

EditReroutes == Ready /\ \E id \in Graphs : LET g == doc.graphs[id] IN
    \/ Dispatch(RerouteAdd(doc, id))
    \/ \E l \in DOMAIN g.links : Dispatch(RerouteInsert(doc, id, l))
    \/ \E R \in (SUBSET g.reroutes) \ {{}}, reconnect \in BOOLEAN :
          Dispatch(RerouteRemove(doc, id, R, reconnect))

EditSources == Ready /\ \E id \in Graphs :
    \/ Dispatch(ValueSourceAdd(doc, id))
    \/ \E V \in (SUBSET doc.graphs[id].sources) \ {{}} : Dispatch(ValueSourceRemove(doc, id, V))

EditSelectors == Ready /\ \E id \in Graphs : LET g == doc.graphs[id] IN
    \/ \E count \in 1 .. MaxCandidates + 1 : Dispatch(SelectorAdd(doc, id, count))
    \/ \E s \in DOMAIN g.selectors :
         \/ \E c \in Range(g.selectors[s].cands) \union {-1} : Dispatch(SelectorSetPolicy(doc, id, s, c))
         \/ Dispatch(SelectorAddCandidate(doc, id, s))
         \/ \E c \in Range(g.selectors[s].cands) : Dispatch(SelectorRemoveCandidate(doc, id, s, c))
         \/ Dispatch(SelectorReorderCandidates(doc, id, s, Reverse(g.selectors[s].cands)))

\* What is selected on one canvas, deleted together: here, two at most.
AtMostOne(S) == {{}} \union {{x} : x \in S}
Delete == Ready /\ \E id \in Graphs : LET g == doc.graphs[id] IN
    \E N \in AtMostOne(DOMAIN g.nodes), R \in AtMostOne(g.reroutes),
       L \in AtMostOne(DOMAIN g.links), V \in AtMostOne(g.sources),
       S \in AtMostOne(DOMAIN g.selectors),
       sinks \in AtMostOne(UNION {g.nets[n].sinks : n \in DOMAIN g.nets}) :
         /\ Cardinality(N \union R \union L \union V \union S) + Cardinality(sinks) \in 1 .. 2
         /\ Dispatch(DeleteItems(doc, id, [nodes |-> N, reroutes |-> R, sources |-> V, selectors |-> S],
                                 L, sinks))

LocalEnds(owner, side) ==
    LET g == doc.graphs[GraphAt(doc, owner)]
        legs(occ) == UNION {{[graph |-> GraphAt(doc, occ), item |-> i.id, bind |-> b] : b \in Bindings(i)}
                              : i \in Sides(doc.graphs[GraphAt(doc, occ)], side)}
        routes[k \in 1 .. Len(owner)] ==
            LET here == legs(SubSeq(owner, 1, k)) IN
            IF k = Len(owner) THEN {<<x>> : x \in here}
            ELSE {<<x[1]>> \o x[2] : x \in {p \in here \X routes[k + 1] :
                     p[1].bind[2] = owner[k + 1] /\ p[1].bind[3] = <<p[2][1].item>>}}
    IN  {<<"body", e>> : e \in IF side = "from" THEN Producers(g) ELSE Crossing(g)}
          \union UNION {{<<"boundary", SubSeq(owner, 1, k), <<r[1].item>>, r>> : r \in routes[k]}
                          : k \in 1 .. Len(owner)}

Instances(d) ==
    LET below[k \in 0 .. Cardinality(DOMAIN d.graphs)] ==
            IF k = 0 THEN {<<>>}
            ELSE below[k - 1] \union
                 {Append(x[1], x[2]) : x \in UNION
                    {{p} \X {n \in DOMAIN d.graphs[GraphAt(d, p)].nodes :
                                GraphAt(d, Append(p, n)) # NoGraph} : p \in below[k - 1]}}
    IN  below[Cardinality(DOMAIN d.graphs)] \ {<<>>}

EditOccurrence == Ready /\ \E owner \in Instances(doc) : LET links == EffectiveLinks(doc, owner) IN
    \/ \E from \in LocalEnds(owner, "from"), to \in LocalEnds(owner, "to") :
          Dispatch(LocalConnect(doc, owner, from, to))
    \/ \E x \in links : \/ Dispatch(LocalDisconnect(doc, owner, x))
                         \/ \E to \in LocalEnds(owner, "to") : Dispatch(LocalRewire(doc, owner, x, to))
    \/ \E X \in SUBSET links, from \in LocalEnds(owner, "from") :
          Dispatch(LocalRewireSource(doc, owner, X, from))

EditNodes == Ready /\ \E id \in Graphs :
    \E body \in Graphs \union {NoGraph} :
        Dispatch(NodeAdd(doc, id, [body |-> body, dyn |-> <<>>, vals |-> {}, region |-> NoRegion]))

EditBoundary == Ready /\ \E id \in Graphs : LET g == doc.graphs[id] IN
    \E side \in {"ins", "outs"}, item \in ItemNames,
       b \in {e \in Crossing(g) \union Producers(g) : OnNode(e)} :
        \/ Dispatch(BoundaryAddItem(doc, id, side, item, b))
        \/ Dispatch(BoundarySetBinding(doc, id, side, item, b))
        \/ Dispatch(BoundaryUnbind(doc, id, side, item, b))
        \/ Dispatch(BoundaryAddBinding(doc, id, item, b))
        \/ Dispatch(BoundaryRemoveBinding(doc, id, item, b))

\* A gesture uses the member on offer.
EditFamilies == Ready /\ \E id \in Graphs : \E n \in DOMAIN doc.graphs[id].nodes :
    \/ \E f \in Families :
          Dispatch(DynamicMaterialize(doc, id, n, f, {FamilyOf(doc.graphs[id].nodes[n], f).seq}))
    \/ Dispatch(DynamicCompact(doc, id, n))

EditRegions == Ready /\ \E id \in Graphs : \E n \in DOMAIN doc.graphs[id].nodes :
    \/ \E port \in ItemNames, role \in {"element", "state", "broadcast"} :
          Dispatch(RegionSetPortRole(doc, id, n, port, role))
    \/ \E out \in ItemNames, role \in {<<"gather">>, <<"flatten">>} \union {<<"state", p>> : p \in ItemNames} :
          Dispatch(RegionSetOutputRole(doc, id, n, out, role))
    \/ \E out \in ItemNames : Dispatch(RegionSetContinueOutput(doc, id, n, out))
    \/ \E binding \in {"", "cross"} : Dispatch(RegionSetBinding(doc, id, n, binding))
    \/ \E max \in {-1, 1} : Dispatch(RegionSetMaxIterations(doc, id, n, max))

\* A panel is bound to groups that are there.
EditPanels ==
    /\ Ready
    /\ \/ \E b \in AtMostOne(UNION {{<<g, k>> : k \in doc.view[g].groups} : g \in DOMAIN doc.view}) :
             \/ Dispatch(SurfaceAdd(doc, b))
             \/ \E s \in DOMAIN doc.panels : Dispatch(SurfaceUpdate(doc, s, b))
       \/ \E s \in DOMAIN doc.panels : Dispatch(SurfaceRemove(doc, s))

EditGroups == Ready /\ \E id \in Graphs :
    \/ Dispatch(ViewCreateGroup(doc, id))
    \/ \E k \in ViewOf(doc, id).groups : Dispatch(ViewRemoveGroup(doc, id, k))

EditDisplay == Ready /\ \E id \in Graphs : LET g == doc.graphs[id] IN
    \/ \E n \in DOMAIN g.nets :
          \/ \E mode \in {"noodle", "tags", "guide"} : Dispatch(ViewSetNetDisplay(doc, id, n, mode))
          \/ \E collapsed \in BOOLEAN : Dispatch(ViewSetNetCollapsed(doc, id, n, collapsed))
          \/ \E t \in {<<id, n, "source">>} \union {<<id, n, "sink", e>> : e \in g.nets[n].sinks} :
                Dispatch(SelectionMove(doc, id, {}, {}, {t}))
    \/ \E mode \in {"noodle", "tags", "guide"} : Dispatch(ViewSetAllNetsDisplay(doc, id, mode))
    \/ Dispatch(SelectionMove(doc, id, DOMAIN g.nodes, g.reroutes, {}))

\* What can be selected on one canvas.
Selections(d, id) == LET g == d.graphs[id] IN
    [nodes : SUBSET DOMAIN g.nodes, reroutes : SUBSET g.reroutes, sources : SUBSET g.sources,
     selectors : SUBSET DOMAIN g.selectors, groups : SUBSET ViewOf(d, id).groups]

\* What is imported: a definition with nothing in it.
Imported == [nodes |-> <<>>, links |-> <<>>, nets |-> <<>>, reroutes |-> {}, sources |-> {},
             selectors |-> <<>>, boundary |-> [present |-> TRUE, ins |-> <<>>, outs |-> <<>>], next |-> 1]

EditDefinitions ==
    /\ Ready
    /\ \/ \E id \in Range(Definitions) : Dispatch(SubgraphImport(doc, [x \in {id} |-> Imported], <<>>))
       \/ \E id \in Graphs : \/ \E n \in DOMAIN doc.graphs[id].nodes : Dispatch(Localize(doc, id, n))
                            \/ Dispatch(DeleteDefinition(doc, id))
       \/ Dispatch(RemoveUnusedDefinitions(doc))
EditExtract == Ready /\ \E id \in Graphs : \E sel \in Selections(doc, id) : Commit(Extract(doc, id, sel), {id})

Edit ==
    \/ EditLinks \/ EditNets \/ EditReroutes \/ EditSources \/ EditSelectors \/ Delete \/ EditNodes
    \/ EditOccurrence \/ EditBoundary \/ EditFamilies \/ EditRegions \/ EditPanels \/ EditGroups
    \/ EditDisplay \/ EditDefinitions \/ EditExtract

Next == Edit \/ History

-----------------------------------------------------------------------------
(* What a document must be for a session to open on it: ids are below the     *)
(* cursor of their definition, canvas state and panels are of definitions     *)
(* that are there.                                                            *)

FamilyFormed(f) ==
    /\ {"members", "seq"} \subseteq DOMAIN f
    /\ f.seq \in Nat /\ f.members \subseteq Nat /\ IsFiniteSet(f.members)
NodeFormed(n) ==
    /\ {"body", "dyn", "vals", "region"} \subseteq DOMAIN n
    /\ \A f \in DOMAIN n.dyn : FamilyFormed(n.dyn[f])
SelectorFormed(s) == {"cands", "pick"} \subseteq DOMAIN s /\ s.cands \in Seq(Nat)
SelectorsFormed(selectors) == \A s \in DOMAIN selectors : SelectorFormed(selectors[s])
GraphFormed(g) ==
    /\ {"nodes", "links", "nets", "reroutes", "sources", "selectors", "boundary", "next"} \subseteq DOMAIN g
    /\ g.next \in Nat
    /\ AllIds(g) \subseteq 0 .. g.next - 1
    /\ \A n \in DOMAIN g.nodes : NodeFormed(g.nodes[n])
    /\ SelectorsFormed(g.selectors)
ViewFormed(v) ==
    /\ DOMAIN EmptyView \subseteq DOMAIN v
    /\ v.seq \in Nat /\ v.groups \subseteq Nat /\ IsFiniteSet(v.groups)
WellFormed(d) ==
    /\ {"graphs", "view", "tags", "tops", "panels", "panelSeq"} \subseteq DOMAIN d
    /\ \A g \in DOMAIN d.graphs : GraphFormed(d.graphs[g])
    /\ DOMAIN d.view \subseteq DOMAIN d.graphs
    /\ \A g \in DOMAIN d.view : ViewFormed(d.view[g])
    /\ \A o \in DOMAIN d.tops :
          DOMAIN NoTopology \subseteq DOMAIN d.tops[o] /\ d.tops[o].next \in Nat
    /\ d.panelSeq \in Nat
    /\ DOMAIN d.panels \subseteq Nat /\ IsFiniteSet(DOMAIN d.panels)
    /\ \A s \in DOMAIN d.panels :
          /\ IsFiniteSet(d.panels[s])
          /\ \A b \in d.panels[s] : b[1] \in DOMAIN d.graphs /\ b[2] \in Nat

Init == WellFormed(doc) /\ Opened(doc)
Spec == Init /\ [][Next]_vars

-----------------------------------------------------------------------------
(* Properties.                                                                *)

\* The guards of the commands are complete for what a definition must obey on
\* its own: nothing a command proposes ever has to be rejected because a link
\* is loose, an input has two drivers, an id is taken or a boundary item binds
\* a node that is gone.  (Members a family has not, chains that close, contracts
\* of repeated nodes, recursion and wiring local to occurrences are left to the
\* rules.)
CommandsMindTheRules == flaws \intersect {"graph", "instance"} = {}

\* However commands, undo and redo follow each other, what is remembered about
\* a definition never outlives what it is about: canvas state, display modes,
\* links, nets and boundary items.  Local wiring may: see HistoryIsSound; and
\* so may a family of which undo left only the cursor: the node is then taken to
\* have the family, without the members that were wired before it had it.
WithoutEmptied(d) ==
    LET left(node) == {f \in DOMAIN node.dyn : node.dyn[f].members # {}}
        nodes(g) == [n \in DOMAIN g.nodes |->
                        [g.nodes[n] EXCEPT !.dyn = Restrict(g.nodes[n].dyn, left(g.nodes[n]))]]
    IN  [d EXCEPT !.graphs = [g \in DOMAIN d.graphs |-> [d.graphs[g] EXCEPT !.nodes = nodes(d.graphs[g])]]]
NothingDangles == ViewFollows(doc) /\ Flaws(WithoutEmptied(doc)) \subseteq {"topology"}

\* Extracting a selection keeps every wire: with the new occurrence unfolded,
\* links, nets, fan-out and the boundary of the definition join the same
\* endpoints as before.
Wires(g) ==
    {<<g.links[l].from, g.links[l].to>> : l \in DOMAIN g.links}
      \union (UNION {{g.nets[n].source} \X g.nets[n].sinks : n \in DOMAIN g.nets})
      \union (UNION {{<<"outside", i.id>>} \X Bindings(i) : i \in Range(g.boundary.ins)})
      \union {<<i.binds, <<"outside", i.id>>>> : i \in Range(g.boundary.outs)}
Unfolded(g, occ, inner, order) ==
    LET old(e) == CASE Kind(e) = "outside" -> e
                    [] Kind(e) = "candidate" -> order[e[3]]
                    [] OTHER -> [e EXCEPT ![2] = order[@][2]]
        outside(w) == w[1][1] = "outside" \/ w[2][1] = "outside"
        atOcc(e) == Kind(e) = "port" /\ e[2] = occ
        through(w) ==
            IF atOcc(w[2]) THEN {<<w[1], old(x[2])>> : x \in {y \in Wires(inner) : y[1] = <<"outside", w[2][3][1]>>}}
            ELSE IF atOcc(w[1]) THEN {<<old(x[1]), w[2]>> : x \in {y \in Wires(inner) : y[2] = <<"outside", w[1][3][1]>>}}
            ELSE {w}
    IN  (UNION {through(w) : w \in Wires(g)})
          \union {<<old(w[1]), old(w[2])>> : w \in {x \in Wires(inner) : ~outside(x)}}
ExtractedFrom(g) == \E f \in DOMAIN doc'.graphs \ Graphs :
    /\ doc.graphs[g].next \in DOMAIN doc'.graphs[g].nodes
    /\ doc'.graphs[g].nodes[doc.graphs[g].next].body = f
ExtractionKeepsWires ==
    [][\A g \in Graphs : proposed' # proposed /\ ExtractedFrom(g) =>
          LET old == doc.graphs[g]
              new == doc'.graphs[g]
              sel == [nodes |-> DOMAIN old.nodes \ DOMAIN new.nodes, reroutes |-> old.reroutes \ new.reroutes,
                      sources |-> old.sources \ new.sources,
                      selectors |-> DOMAIN old.selectors \ DOMAIN new.selectors]
          IN  Wires(old) = Unfolded(new, old.next, doc'.graphs[new.nodes[old.next].body],
                                    InnerOrder(old, sel, Cuts(old, sel)))]_vars

\* An occurrence that is given a definition of its own still does the same:
\* the wires in effect in every occurrence are the ones before, with what it,
\* and those around and inside it, add or hide.
InEffect(d, owner) == {<<x.from, x.to>> : x \in EffectiveLinks(d, owner)}
Localized == \E f \in DOMAIN doc'.graphs \ Graphs :
    \E g \in Graphs : \E n \in DOMAIN doc.graphs[g].nodes :
        n \in DOMAIN doc'.graphs[g].nodes /\ doc'.graphs[g].nodes[n].body = f
LocalizeKeepsEffect ==
    [][Localized => \A o \in Instances(doc) : InEffect(doc', o) = InEffect(doc, o)]_vars

\* A group id lives on in mode panels after its group: a binding that was
\* broken finds a group again only by undo or redo, never because the id was
\* given out again.
NoBindingIsRetargeted ==
    [][proposed' # proposed =>
          \A s \in DOMAIN doc.panels \intersect DOMAIN doc'.panels :
              \A b \in doc.panels[s] \intersect doc'.panels[s] : Resolves(doc', b) => Resolves(doc, b)]_vars

\* No cursor ids are allocated from ever goes back while what it belongs to is
\* there, by commands, undo and redo in any order; and no command moves the
\* cursor of a definition beyond the largest integer an id may hold.  One step
\* is not held to this: undo or redo of an extraction may take back cursors of
\* dynamic families, of the definition extracted from and of no other (see
\* CursorsAreMonotonic).
CursorsKept(d, e) ==
    /\ \A g \in DOMAIN d.graphs \intersect DOMAIN e.graphs : d.graphs[g].next <= e.graphs[g].next
    /\ \A g \in DOMAIN d.view : ViewOf(d, g).seq <= ViewOf(e, g).seq \/ g \notin DOMAIN e.graphs
    /\ \A o \in DOMAIN d.tops : TopologyOf(d, o).next <= TopologyOf(e, o).next \/ GraphAt(e, o) = NoGraph
    /\ d.panelSeq <= e.panelSeq
FamiliesKept(d, e, but) == \A g \in (DOMAIN d.graphs \intersect DOMAIN e.graphs) \ but :
    \A n \in DOMAIN d.graphs[g].nodes \intersect DOMAIN e.graphs[g].nodes :
        \A f \in Families : FamilyOf(d.graphs[g].nodes[n], f).seq <= FamilyOf(e.graphs[g].nodes[n], f).seq
\* What the record that is undone or redone in this step writes in one piece.
WrittenWhole == {g \in DOMAIN doc.graphs : proposed' = proposed /\
    \/ undo # <<>> /\ redo' = Append(redo, Last(undo)) /\ g \in Last(undo).whole
    \/ redo # <<>> /\ undo' = Append(undo, Last(redo)) /\ g \in Last(redo).whole}
CursorsBounded(d, e) == \A g \in DOMAIN d.graphs \intersect DOMAIN e.graphs :
    e.graphs[g].next = d.graphs[g].next \/ e.graphs[g].next <= MaxOrdinal
CursorsNeverRewind ==
    [][/\ CursorsKept(doc, doc')
       /\ FamiliesKept(doc, doc', WrittenWhole)
       /\ proposed' # proposed => CursorsBounded(doc, doc')]_vars

\* "Allocation cursors are monotonic FOREVER, including across undo (the
\* never-reuse contract in ids.ts): replaying an inverse patch must not rewind
\* them" (store.ts:52): that of a dynamic family included.
CursorsAreMonotonic == [][CursorsKept(doc, doc') /\ FamiliesKept(doc, doc', {})]_vars

\* Undo and redo, which no rule gates, leave a document that obeys the rules
\* ("must leave documents invariant-clean", invariants.ts:3): one that breaks
\* them has every later command rejected.
HistoryIsSound == DocumentSound(doc)
=============================================================================
