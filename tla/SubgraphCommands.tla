--------------------------- MODULE SubgraphCommands ---------------------------
(***************************************************************************)
(* The commands that make and unmake definitions                           *)
(* (commands/subgraph-commands.ts, with the audit of lifecycle/planner.ts): *)
(* importing them, extracting a selection into a new one, giving an        *)
(* occurrence a copy of its own, deleting one that is not used.            *)
(*                                                                         *)
(* The plan a command carries is made on the document it runs on.  The     *)
(* names of boundary items are numbered, extensions of links, nets and     *)
(* items are absent, tags of nets are placed relative to a node.           *)
(***************************************************************************)
EXTENDS WiringCommands, StructureCommands

CONSTANT Definitions    \* the ids new definitions are given, in this order

ASSUME DefinitionsAreDistinct == Definitions \in Seq(STRING) /\ IsInjective(Definitions)

\* freshDefinitionId: the first id that no definition has now.
FreeDefinitions(d) == {k \in DOMAIN Definitions : Definitions[k] \notin DOMAIN d.graphs}
CanDefine(d) == FreeDefinitions(d) # {}
FreshDefinition(d) == Definitions[Min(FreeDefinitions(d))]

-----------------------------------------------------------------------------
(* subgraph.import.                                                           *)

SubgraphImport(d, graphs, views) ==
    When(/\ DOMAIN graphs # {} /\ DOMAIN graphs \intersect DOMAIN d.graphs = {}
         /\ DOMAIN views \subseteq DOMAIN graphs,
         [d EXCEPT !.graphs = PutAll(@, graphs),
                   !.view = PutAll(@, [g \in DOMAIN graphs |->
                                          IF g \in DOMAIN views THEN views[g] ELSE EmptyView])])

-----------------------------------------------------------------------------
(* subgraph.extract.  A selection `sel` of a definition becomes the body of a *)
(* new one, and an occurrence of that takes its place.                        *)

\* extractionIntersectsOccurrenceTopology: wiring local to an occurrence, or
\* what it hides, touches the selection.
HiddenLocally(d, g, sel) ==
    LET linkTouched(l) == /\ l \in DOMAIN d.graphs[g].links
                          /\ \/ Gone(d.graphs[g].links[l].from, sel)
                             \/ Gone(d.graphs[g].links[l].to, sel)
        sinkTouched(n, to) == \/ to[2] \in sel.nodes
                              \/ /\ n \in DOMAIN d.graphs[g].nets
                                 /\ d.graphs[g].nets[n].source[2] \in sel.nodes
    IN  \E o \in DOMAIN d.tops : \E x \in d.tops[o].sup :
           CASE x[1] = "link" -> d.tops[o].body = g /\ linkTouched(x[2])
             [] x[1] = "netSink" -> d.tops[o].body = g /\ sinkTouched(x[2], x[3])
             [] OTHER ->
                  \/ \E k \in DOMAIN x[3] : x[3][k].graph = g /\ x[3][k].bind[2] \in sel.nodes
                  \/ /\ x[2][2] = g
                     /\ IF x[2][1] = "link" THEN linkTouched(x[2][3]) ELSE sinkTouched(x[2][3], x[2][4])

\* auditExtractionCuts: how links, nets and boundary items lie to the selection.
Cuts(gr, sel) ==
    LET from(l) == Gone(gr.links[l].from, sel)
        to(l)   == Gone(gr.links[l].to, sel)
        inside(n)  == {s \in gr.nets[n].sinks : s[2] \in sel.nodes}
        source(n)  == gr.nets[n].source[2] \in sel.nodes
        moved(i) == \E b \in Bindings(i) : b[2] \in sel.nodes
    IN  [inner   |-> {l \in DOMAIN gr.links : from(l) /\ to(l)},
         inward  |-> {l \in DOMAIN gr.links : ~from(l) /\ to(l)},
         outward |-> {l \in DOMAIN gr.links : from(l) /\ ~to(l)},
         innerNets   |-> {n \in DOMAIN gr.nets : source(n) /\ gr.nets[n].sinks = inside(n)},
         inwardNets  |-> {n \in DOMAIN gr.nets : ~source(n) /\ inside(n) # {}},
         outwardNets |-> {n \in DOMAIN gr.nets : source(n) /\ gr.nets[n].sinks # inside(n)},
         sinks |-> [n \in DOMAIN gr.nets |-> inside(n)],
         ins  |-> {k \in DOMAIN gr.boundary.ins : moved(gr.boundary.ins[k])},
         outs |-> {k \in DOMAIN gr.boundary.outs : moved(gr.boundary.outs[k])}]

\* Mutant: the fan-out of an input item is left behind.
MovedOf_FirstOnly(items, sel) ==
    LET all == SelectSeq(items, LAMBDA b : b[2] \in sel.nodes) IN SubSeq(all, 1, 1)

MovedOf(items, sel) == SelectSeq(items, LAMBDA b : b[2] \in sel.nodes)
AllOf(item) == <<item.binds>> \o item.also

\* What the boundary of the new definition cannot carry: a wire that ends on
\* something other than a port, an input that would have two drivers.
Representable(gr, sel, cut) ==
    LET driven == {gr.links[l].to : l \in cut.inner \union cut.inward}
                    \union UNION {cut.sinks[n] : n \in cut.innerNets \union cut.inwardNets}
    IN  /\ \A l \in cut.inward : Kind(gr.links[l].to) = "port"
        /\ \A l \in cut.outward : OnNode(gr.links[l].from)
        /\ \A k \in cut.ins : Range(MovedOf(AllOf(gr.boundary.ins[k]), sel)) \intersect driven = {}

Index(s, x) == SelectInSeq(s, LAMBDA y : y = x)

\* Inside, ids are counted anew: nodes, sources, selectors with their
\* candidates, reroutes, links and nets.
Tagged(kind, S) == {<<kind, x>> : x \in S}
Branches(gr, s) == {<<"candidate", s, c>> : c \in Range(gr.selectors[s].cands)}
InnerItems(gr, sel, cut) ==
    Tagged("node", sel.nodes) \union Tagged("source", sel.sources)
      \union Tagged("selector", sel.selectors) \union (UNION {Branches(gr, s) : s \in sel.selectors})
      \union Tagged("reroute", sel.reroutes) \union Tagged("link", cut.inner)
      \union Tagged("net", cut.innerNets \union {n \in cut.outwardNets : cut.sinks[n] # {}})
Rank(x) == CASE x[1] = "node" -> 1 [] x[1] = "source" -> 2 [] x[1] \in {"selector", "candidate"} -> 3
             [] x[1] = "reroute" -> 4 [] x[1] = "link" -> 5 [] OTHER -> 6
Branch(gr, x) == IF x[1] # "candidate" THEN 0 ELSE Index(gr.selectors[x[2]].cands, x[3])
CountedBefore(gr, x, y) ==
    \/ Rank(x) < Rank(y)
    \/ /\ Rank(x) = Rank(y)
       /\ x[2] < y[2] \/ (x[2] = y[2] /\ Branch(gr, x) < Branch(gr, y))
InnerOrder(gr, sel, cut) ==
    LET moved == InnerItems(gr, sel, cut) IN
    [k \in 1 .. Cardinality(moved) |->
        CHOOSE x \in moved : Cardinality({y \in moved : CountedBefore(gr, y, x)}) = k - 1]

\* remapEndpoint
Moved(order, e) ==
    LET id(x) == Index(order, x) IN
    CASE OnNode(e) -> [e EXCEPT ![2] = id(<<"node", @>>)]
      [] Kind(e) = "candidate" -> Candidate(id(<<"selector", e[2]>>), id(e))
      [] OTHER -> [e EXCEPT ![2] = id(<<e[1], @>>)]

\* The items of the new boundary, in order, each with what it stands for: the
\* source of links or a net that lead in, or an item of the old boundary; the
\* ports that lead out.
Entering(gr, sel, cut) ==
    LET sorted(S) == SetToSortSeq(S, LAMBDA a, b : a[2] < b[2])
        link(from) == [of |-> <<"link", from>>, promoted |-> FALSE, targets |->
                         sorted({gr.links[l].to : l \in {x \in cut.inward : gr.links[x].from = from}})]
        net(n) == [of |-> <<"net", n>>, promoted |-> FALSE, targets |-> sorted(cut.sinks[n])]
        item(k) == [of |-> <<"item", k>>, promoted |-> gr.boundary.ins[k].promoted,
                    targets |-> MovedOf(AllOf(gr.boundary.ins[k]), sel)]
    IN  SetToSeq({link(from) : from \in {gr.links[l].from : l \in cut.inward}})
          \o SetToSeq({net(n) : n \in cut.inwardNets}) \o SetToSeq({item(k) : k \in cut.ins})
Leaving(gr, cut) ==
    SetToSeq({gr.links[l].from : l \in cut.outward} \union {gr.nets[n].source : n \in cut.outwardNets}
               \union {gr.boundary.outs[k].binds : k \in cut.outs})
ItemName(side, k) == side \o ToString(k)

\* The new definition.
Those(order, kind) == {k \in DOMAIN order : order[k][1] = kind}
ExtractedSelectors(gr, order) ==
    [k \in Those(order, "selector") |->
        LET s == order[k][2]
            id(c) == Index(order, <<"candidate", s, c>>)
        IN  [cands |-> [j \in DOMAIN gr.selectors[s].cands |-> id(gr.selectors[s].cands[j])],
             pick |-> IF gr.selectors[s].pick = -1 THEN -1 ELSE id(gr.selectors[s].pick)]]
ExtractedLinks(gr, order) ==
    [k \in Those(order, "link") |-> [from |-> Moved(order, gr.links[order[k][2]].from),
                                     to |-> Moved(order, gr.links[order[k][2]].to)]]
ExtractedNets(gr, cut, order) ==
    [k \in Those(order, "net") |-> [gr.nets[order[k][2]] EXCEPT
        !.source = Moved(order, @), !.sinks = {Moved(order, e) : e \in cut.sinks[order[k][2]]}]]
ExtractedBoundary(gr, sel, cut, order) ==
    LET entering == Entering(gr, sel, cut)
        leaving == Leaving(gr, cut)
        targets(k) == [j \in DOMAIN entering[k].targets |-> Moved(order, entering[k].targets[j])]
    IN  [present |-> TRUE,
         ins |-> [k \in DOMAIN entering |->
                     [id |-> ItemName("in", k), binds |-> targets(k)[1], also |-> Tail(targets(k)),
                      promoted |-> entering[k].promoted]],
         outs |-> [k \in DOMAIN leaving |->
                     [id |-> ItemName("out", k), binds |-> Moved(order, leaving[k]), also |-> <<>>,
                      promoted |-> FALSE]]]
Extracted(gr, sel, cut) ==
    LET order == InnerOrder(gr, sel, cut) IN
    [nodes |-> [k \in Those(order, "node") |-> gr.nodes[order[k][2]]],
     sources |-> Those(order, "source"), selectors |-> ExtractedSelectors(gr, order),
     reroutes |-> Those(order, "reroute"), links |-> ExtractedLinks(gr, order),
     nets |-> ExtractedNets(gr, cut, order), boundary |-> ExtractedBoundary(gr, sel, cut, order),
     next |-> Len(order) + 1]

\* What stays, around the occurrence `occ` of the definition `fresh`.  Wires
\* now end on the occurrence.
Entry(gr, sel, cut, occ, of) ==
    LET entering == Entering(gr, sel, cut) IN
    Port(occ, <<ItemName("in", CHOOSE k \in DOMAIN entering : entering[k].of = of)>>)
Exit(gr, cut, occ, e) == Port(occ, <<ItemName("out", Index(Leaving(gr, cut), e))>>)

\* Of the links one source sends in, the one to the first target stays.
RemainingLinks(gr, sel, cut, occ) ==
    LET kept == {l \in cut.inward :
                    LET group == {x \in cut.inward : gr.links[x].from = gr.links[l].from}
                    IN  \A x \in group : gr.links[l].to[2] <= gr.links[x].to[2] /\
                            (gr.links[l].to[2] = gr.links[x].to[2] => l <= x)}
    IN  [l \in DOMAIN gr.links \ (cut.inner \union (cut.inward \ kept)) |->
            IF l \in kept
            THEN [gr.links[l] EXCEPT !.to = Entry(gr, sel, cut, occ, <<"link", gr.links[l].from>>)]
            ELSE IF l \in cut.outward THEN [gr.links[l] EXCEPT !.from = Exit(gr, cut, occ, @)]
            ELSE gr.links[l]]
RemainingNets(gr, sel, cut, occ) ==
    [n \in DOMAIN gr.nets \ cut.innerNets |->
        IF n \in cut.inwardNets
        THEN [gr.nets[n] EXCEPT !.sinks = (@ \ cut.sinks[n]) \union {Entry(gr, sel, cut, occ, <<"net", n>>)}]
        ELSE IF n \in cut.outwardNets
        THEN [gr.nets[n] EXCEPT !.source = Exit(gr, cut, occ, @), !.sinks = @ \ cut.sinks[n]]
        ELSE gr.nets[n]]

\* rewriteEnclosingInput: the first moved binding becomes the occurrence.
Redirected(gr, sel, cut, occ, k) ==
    LET all == AllOf(gr.boundary.ins[k])
        first == CHOOSE j \in DOMAIN all :
                    all[j][2] \in sel.nodes /\ \A i \in 1 .. j - 1 : all[i][2] \notin sel.nodes
        new == SelectSeq([all EXCEPT ![first] = Entry(gr, sel, cut, occ, <<"item", k>>)],
                         LAMBDA b : b[2] \notin sel.nodes)
    IN  [gr.boundary.ins[k] EXCEPT !.binds = new[1], !.also = Tail(new)]
RemainingBoundary(gr, sel, cut, occ) ==
    [gr.boundary EXCEPT
        !.ins = [k \in DOMAIN @ |-> IF k \in cut.ins THEN Redirected(gr, sel, cut, occ, k) ELSE @[k]],
        !.outs = [k \in DOMAIN @ |->
            IF k \in cut.outs THEN [@[k] EXCEPT !.binds = Exit(gr, cut, occ, @)] ELSE @[k]]]
Remaining(gr, sel, cut, occ, fresh) ==
    [gr EXCEPT
        !.nodes = Put(Minus(@, sel.nodes), occ,
                      [body |-> fresh, dyn |-> <<>>, vals |-> {}, region |-> NoRegion]),
        !.sources = @ \ sel.sources, !.selectors = Minus(@, sel.selectors),
        !.reroutes = @ \ sel.reroutes, !.links = RemainingLinks(gr, sel, cut, occ),
        !.nets = RemainingNets(gr, sel, cut, occ),
        !.boundary = RemainingBoundary(gr, sel, cut, occ), !.next = @ + 1]

\* What the canvas of the definition remembers, before and after, and of the
\* new one.  Groups are counted anew.
ViewWithout(d, g, sel, cut, occ) ==
    LET v == ViewOf(d, g) IN
    [v EXCEPT !.nodes = (@ \ sel.nodes) \union {occ}, !.reroutes = @ \ sel.reroutes,
              !.sources = @ \ sel.sources, !.selectors = @ \ sel.selectors,
              !.groups = @ \ sel.groups,
              !.seq = IF sel.groups = {} THEN @ ELSE GroupFloor(d, g),
              !.collapsed = @ \ cut.innerNets, !.guides = @ \ cut.innerNets]
ViewExtracted(v, sel, order) ==
    LET of(nets) == {k \in Those(order, "net") : order[k][2] \in nets} IN
    [nodes |-> Those(order, "node"), reroutes |-> Those(order, "reroute"),
     sources |-> Those(order, "source"), selectors |-> Those(order, "selector"),
     groups |-> 0 .. Cardinality(sel.groups) - 1, seq |-> Cardinality(sel.groups),
     collapsed |-> of(v.collapsed), guides |-> of(v.guides)]

\* The tags of a net that moved as a whole move with it.
TagsMoved(tags, g, cut, order, fresh) ==
    {IF t[1] # g \/ t[2] \notin cut.innerNets THEN t
     ELSE LET net == Index(order, <<"net", t[2]>>) IN
          IF Len(t) = 3 THEN <<fresh, net, t[3]>> ELSE <<fresh, net, t[3], Moved(order, t[4])>> : t \in tags}

Extract(d, g, sel) ==
    LET gr == d.graphs[g]
        cut == Cuts(gr, sel)
        order == InnerOrder(gr, sel, cut)
        fresh == FreshDefinition(d)
        occ == Mint(d, g, 0)
    IN  When(/\ sel.nodes \union sel.sources \union sel.selectors # {}
             /\ ~NeededLocally(d, g, sel) /\ ~HiddenLocally(d, g, sel)
             /\ sel.groups \intersect BoundGroups(d, g) = {}
             /\ Representable(gr, sel, cut)
             /\ CanDefine(d) /\ CanMint(d, g, 1),
             [d EXCEPT
                !.graphs = Put([@ EXCEPT ![g] = Remaining(gr, sel, cut, occ, fresh)],
                               fresh, Extracted(gr, sel, cut)),
                !.view = Put(Put(@, g, ViewWithout(d, g, sel, cut, occ)),
                             fresh, ViewExtracted(ViewOf(d, g), sel, order)),
                !.tags = TagsMoved(@, g, cut, order, fresh)])

-----------------------------------------------------------------------------
(* occurrence.localize: one of several occurrences gets a copy of their       *)
(* definition, and wiring local to it follows.                                *)

Occurrences(d, def) ==
    UNION {{<<g, n>> : n \in {m \in DOMAIN d.graphs[g].nodes : d.graphs[g].nodes[m].body = def}}
              : g \in DOMAIN d.graphs}

\* The place of node n of g on the owner path; 0 where it is not on it.
PlaceOn(d, owner, g, n) ==
    LET at == {k \in DOMAIN owner : owner[k] = n /\ GraphAt(d, SubSeq(owner, 1, k - 1)) = g}
    IN  IF at = {} THEN 0 ELSE CHOOSE k \in at : TRUE

\* Mutant: wiring local to the occurrence does not follow.
Localize_LeavesWiring(d, g, n) ==
    LET def == d.graphs[g].nodes[n].body
        fresh == FreshDefinition(d)
    IN  When(def \in DOMAIN d.graphs /\ Cardinality(Occurrences(d, def)) >= 2 /\ CanDefine(d),
             [d EXCEPT !.graphs = Put([@ EXCEPT ![g].nodes[n].body = fresh], fresh, d.graphs[def]),
                       !.view = Put(@, fresh, ViewOf(d, def)),
                       !.tops = Restrict(@, {o \in DOMAIN @ : PlaceOn(d, o, g, n) = 0})])

Localize(d, g, n) ==
    LET def == d.graphs[g].nodes[n].body
        fresh == FreshDefinition(d)
        route(r) == [k \in DOMAIN r |-> IF r[k].graph = def THEN [r[k] EXCEPT !.graph = fresh] ELSE r[k]]
        end(e) == IF e[1] = "boundary" THEN [e EXCEPT ![4] = route(@)] ELSE e
        \* remapSuppression
        suppression(x) ==
            IF x[1] # "leg" THEN x
            ELSE <<"leg", IF x[2][2] = def THEN [x[2] EXCEPT ![2] = fresh] ELSE x[2], route(x[3])>>
        \* remapLocalizedTopology
        local(o) ==
            LET t == d.tops[o]
                place == PlaceOn(d, o, g, n)
            IN  IF place = 0 THEN t
                ELSE [t EXCEPT !.body = IF place = Len(o) THEN fresh ELSE @,
                               !.links = [l \in DOMAIN @ |-> [from |-> end(@[l].from), to |-> end(@[l].to)]],
                               !.sup = {suppression(x) : x \in @}]
    IN  When(def \in DOMAIN d.graphs /\ Cardinality(Occurrences(d, def)) >= 2 /\ CanDefine(d),
             [d EXCEPT !.graphs = Put([@ EXCEPT ![g].nodes[n].body = fresh], fresh, d.graphs[def]),
                       !.view = Put(@, fresh, ViewOf(d, def)),
                       !.tags = @ \union {[t EXCEPT ![1] = fresh] : t \in {x \in @ : x[1] = def}},
                       !.tops = [o \in DOMAIN @ |-> local(o)]])

-----------------------------------------------------------------------------
(* subgraph.deleteDefinition and subgraph.removeUnusedDefinitions.            *)

Unused(d) ==
    LET reached[i \in 0 .. Cardinality(DOMAIN d.graphs)] ==
            IF i = 0 THEN {Root} ELSE LET s == reached[i - 1] IN s \union Uses(d, s)
    IN  DOMAIN d.graphs \ reached[Cardinality(DOMAIN d.graphs)]

\* removeDefinitionSupportState
WithoutDefinitions(d, G) ==
    [d EXCEPT !.graphs = Minus(@, G), !.view = Minus(@, G),
              !.tags = {t \in @ : t[1] \notin G},
              !.panels = [s \in DOMAIN @ |-> {b \in @[s] : b[1] \notin G}]]

DeleteDefinition(d, g) ==
    When(g \in Unused(d) /\ g \notin Uses(d, Unused(d) \ {g}), WithoutDefinitions(d, {g}))
RemoveUnusedDefinitions(d) == When(Unused(d) # {}, WithoutDefinitions(d, Unused(d)))
===============================================================================
