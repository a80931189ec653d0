--------------------------- MODULE WorkflowDocument ---------------------------
(***************************************************************************)
(* The workflow document (packages/core/src/format/document.ts), the rules *)
(* a committed one obeys (packages/core/src/invariants.ts) and the helpers *)
(* the commands share to keep a document consistent while they edit it.    *)
(*                                                                         *)
(* A document is a record:                                                 *)
(*   graphs  definition id -> graph; Root is the one that runs             *)
(*   view    definition id -> what its canvas remembers (partial)          *)
(*   tags    authored places of net endpoint tags                          *)
(*   tops    instance path -> wiring local to that occurrence              *)
(*   panels  surface -> the <<definition, group>> its mode panel is bound  *)
(*           to; panelSeq is the cursor of surface ids                     *)
(*                                                                         *)
(* Ids are the ordinals the per-definition cursor `next` mints; the letter *)
(* the code puts before the ordinal only tells the kind.  A node whose     *)
(* `body` is not NoGraph is an instance of that definition.  Positions,    *)
(* sizes, titles, colours and the values of widgets are not represented,   *)
(* their presence is.                                                      *)
(***************************************************************************)
EXTENDS Integers, FiniteSets, SequencesExt

CONSTANT MaxOrdinal    \* the largest ordinal cursor (Number.MAX_SAFE_INTEGER)

ASSUME MaxOrdinalIsNat == MaxOrdinal \in Nat

Root == "root"
NoGraph == ""

-----------------------------------------------------------------------------
(* Endpoints.  A port address is <<port>>, or <<family, member>> on a dynamic *)
(* family.                                                                    *)

Port(n, p)      == <<"port", n, p>>
Tap(n, p)       == <<"tap", n, p>>
Reroute(r)      == <<"reroute", r>>
Source(v)       == <<"source", v>>
Selector(s)     == <<"selector", s>>
Candidate(s, c) == <<"candidate", s, c>>

Kind(e) == e[1]
OnNode(e) == Kind(e) \in {"port", "tap"}

\* An address below a family the node has, of a member it has not.
MemberMissing(node, p) ==
    /\ Len(p) = 2
    /\ p[1] \in DOMAIN node.dyn
    /\ p[2] \notin node.dyn[p[1]].members

\* endpointError: what an endpoint names is there, dynamic members aside.
EndpointKnown(g, e) ==
    CASE OnNode(e)            -> e[2] \in DOMAIN g.nodes
      [] Kind(e) = "reroute"  -> e[2] \in g.reroutes
      [] Kind(e) = "source"   -> e[2] \in g.sources
      [] Kind(e) = "selector" -> e[2] \in DOMAIN g.selectors
      [] OTHER                -> /\ e[2] \in DOMAIN g.selectors
                                 /\ e[3] \in Range(g.selectors[e[2]].cands)

MemberThere(g, e) == Kind(e) = "port" => ~MemberMissing(g.nodes[e[2]], e[3])
EndpointOk(g, e) == EndpointKnown(g, e) /\ MemberThere(g, e)

Produces(e) == Kind(e) # "candidate"
Consumes(e) == Kind(e) \in {"port", "reroute", "candidate"}

LinksInto(g, e) == {l \in DOMAIN g.links : g.links[l].to = e}
NetsInto(g, e)  == {n \in DOMAIN g.nets : e \in g.nets[n].sinks}

\* What an endpoint takes its data from, one step up: a reroute from its
\* driver, a selector from every candidate, a tap from what drives its input.
Feeds(g, e) ==
    LET From(S) == {g.links[l].from : l \in S} IN
    CASE Kind(e) \in {"reroute", "candidate"} -> From(LinksInto(g, e))
      [] Kind(e) = "selector" ->
           From({l \in DOMAIN g.links : /\ Kind(g.links[l].to) = "candidate"
                                        /\ g.links[l].to[2] = e[2]})
      [] Kind(e) = "tap" ->
           LET input == Port(e[2], e[3]) IN
           IF LinksInto(g, input) # {} THEN From(LinksInto(g, input))
           ELSE {g.nets[n].source : n \in NetsInto(g, input)}
      [] OTHER -> {}

\* Everything upstream of the endpoints of E, those of E included, through
\* endpoints of the given kinds only.
UpstreamVia(g, E, kinds) ==
    LET up[i \in 0 .. Cardinality(DOMAIN g.links) + 1] ==
            IF i = 0 THEN E
            ELSE LET below == up[i - 1]
                 IN  below \union UNION {Feeds(g, e) : e \in {x \in below : Kind(x) \in kinds}}
    IN  up[Cardinality(DOMAIN g.links) + 1]

Junctions == {"reroute", "candidate", "selector"}
Upstream(g, E) == UpstreamVia(g, E, Junctions \union {"tap"})

-----------------------------------------------------------------------------
(* checkGraphDef: the rules of one definition.                               *)

CandidateIds(g) == UNION {Range(g.selectors[s].cands) : s \in DOMAIN g.selectors}
AllIds(g) == DOMAIN g.nodes \union DOMAIN g.links \union DOMAIN g.nets
                 \union g.reroutes \union g.sources \union DOMAIN g.selectors

\* I6: no id is used twice in a definition, none is at or above the cursor.
IdsBelowCursor(g) ==
    /\ \A i \in AllIds(g) \union CandidateIds(g) : i < g.next
    /\ Cardinality(AllIds(g)) =
         Cardinality(DOMAIN g.nodes) + Cardinality(DOMAIN g.links)
           + Cardinality(DOMAIN g.nets) + Cardinality(g.reroutes)
           + Cardinality(g.sources) + Cardinality(DOMAIN g.selectors)

LinkEnds(g, l) == {g.links[l].from, g.links[l].to}
NetEnds(g, n)  == {g.nets[n].source} \union g.nets[n].sinks

\* I3 and the endpoint half of I10, I11: a link joins what produces to what
\* consumes, both present.
LinksLand(g) == \A l \in DOMAIN g.links :
    /\ EndpointKnown(g, g.links[l].from) /\ Produces(g.links[l].from)
    /\ EndpointKnown(g, g.links[l].to) /\ Consumes(g.links[l].to)

\* I4: a net runs from a port of the definition to ports of it.
NetsLand(g) == \A n \in DOMAIN g.nets :
    \A e \in NetEnds(g, n) : EndpointKnown(g, e)

\* No link or net ends on a member its family has not.
MembersThere(g) ==
    \A e \in (UNION {LinkEnds(g, l) : l \in DOMAIN g.links}) \union UNION {NetEnds(g, n) : n \in DOMAIN g.nets} :
        EndpointKnown(g, e) => MemberThere(g, e)

\* I5, I9, I11: an input, a reroute and a candidate have one driver at most.
OneDriver(g) ==
    LET targets == {g.links[l].to : l \in DOMAIN g.links}
                     \union UNION {g.nets[n].sinks : n \in DOMAIN g.nets}
    IN  \A e \in targets :
            Cardinality(LinksInto(g, e)) + Cardinality(NetsInto(g, e)) <= 1

\* I9, I11: chains of reroutes, selectors and widget taps never close.
NoCycle(g) ==
    \A e \in {Reroute(r) : r \in g.reroutes}
               \union {Selector(s) : s \in DOMAIN g.selectors}
               \union {g.links[l].from : l \in DOMAIN g.links} :
        e \notin Upstream(g, Feeds(g, e))

\* I11: candidates are distinct, a fixed pick names one of them.
SelectorsPick(g) == \A s \in DOMAIN g.selectors :
    /\ IsInjective(g.selectors[s].cands)
    /\ g.selectors[s].pick \in Range(g.selectors[s].cands) \union {-1}

Items(g) == Range(g.boundary.ins) \union Range(g.boundary.outs)
Bindings(item) == {item.binds} \union Range(item.also)

\* I7: boundary items have ids of their own and bind nodes of the definition.
BoundaryBinds(g) ==
    /\ \A i \in Items(g) : \A b \in Bindings(i) : b[2] \in DOMAIN g.nodes
    /\ Cardinality({i.id : i \in Items(g)}) = Len(g.boundary.ins) + Len(g.boundary.outs)

GraphSound(g) ==
    /\ IdsBelowCursor(g) /\ LinksLand(g) /\ NetsLand(g) /\ OneDriver(g)
    /\ SelectorsPick(g) /\ BoundaryBinds(g)

-----------------------------------------------------------------------------
(* checkRegion: what an instance that repeats its body must declare.         *)

NoRegion == [kind |-> "none", elements |-> {}, states |-> {}, roles |-> <<>>,
             cont |-> "", max |-> -1, binding |-> ""]

InIds(g)  == {g.boundary.ins[k].id : k \in DOMAIN g.boundary.ins}
OutIds(g) == {g.boundary.outs[k].id : k \in DOMAIN g.boundary.outs}

\* An outer value, link or net reaches boundary input id of node n.
HasInput(g, n, id) ==
    \/ <<id>> \in g.nodes[n].vals
    \/ \E l \in DOMAIN g.links :
          LET e == g.links[l].to IN Kind(e) = "port" /\ e[2] = n /\ e[3][1] = id
    \/ \E k \in DOMAIN g.nets : \E e \in g.nets[k].sinks : e[2] = n /\ e[3][1] = id

StateOutputs(r, port) == {o \in DOMAIN r.roles : r.roles[o] = <<"state", port>>}

\* I12.
RegionSound(d, g, n) ==
    LET r == g.nodes[n].region
        body == d.graphs[g.nodes[n].body]
        ins == InIds(body)
        outs == OutIds(body)
    IN  /\ g.nodes[n].body # NoGraph
        /\ g.nodes[n].body \in DOMAIN d.graphs =>
             /\ body.boundary.present
             /\ r.elements \union r.states \subseteq ins
             /\ r.elements \intersect r.states = {}
             /\ \A k \in DOMAIN body.boundary.ins :
                  body.boundary.ins[k].id \in r.elements => ~body.boundary.ins[k].promoted
             /\ \A id \in r.elements \union r.states : HasInput(g, n, id)
             /\ DOMAIN r.roles \subseteq outs \ {r.cont}
             /\ \A o \in DOMAIN r.roles :
                  r.roles[o][1] = "state" => r.roles[o][2] \in r.states
             /\ \A id \in r.states : Cardinality(StateOutputs(r, id)) = 1
             /\ r.cont \in outs \union {""}
             /\ outs \ {r.cont} # {}
             /\ r.max # 0
             /\ CASE r.kind = "map"  -> r.elements # {} /\ r.states = {} /\ r.cont = ""
                  [] r.kind = "fold" -> r.elements # {} /\ r.states # {} /\ r.cont = ""
                  [] OTHER -> /\ r.elements = {} /\ r.states # {} /\ r.cont # ""
                              /\ r.max > 0 /\ r.binding \notin {"cross", "broadcast"}

\* I1: instances name definitions that exist.
InstancesResolve(d) ==
    \A g \in DOMAIN d.graphs : \A n \in DOMAIN d.graphs[g].nodes :
        d.graphs[g].nodes[n].body \in DOMAIN d.graphs \union {NoGraph}

\* I2: no definition contains itself, directly or through others: of those of
\* any set, one contains none of them.
Uses(d, G) == DOMAIN d.graphs \intersect
    UNION {{d.graphs[g].nodes[n].body : n \in DOMAIN d.graphs[g].nodes} : g \in G}
NoRecursion(d) ==
    \A G \in (SUBSET DOMAIN d.graphs) \ {{}} : \E g \in G : Uses(d, {g}) \intersect G = {}

-----------------------------------------------------------------------------
(* checkOccurrenceTopologies: wiring that belongs to one instance only.  Its  *)
(* owner is the path of instance nodes from the root.  A local link joins     *)
(* <<"body", endpoint>> of the body definition, or <<"boundary", occurrence,  *)
(* port, route>>: the outer port of the owner or of an instance around it,    *)
(* and the boundary items through which it reaches the body.                  *)

\* The definition a node is an instance of, and the one an instance path leads
\* into; NoGraph where it breaks off.
BodyIn(d, g, n) ==
    IF /\ g \in DOMAIN d.graphs
       /\ n \in DOMAIN d.graphs[g].nodes
       /\ d.graphs[g].nodes[n].body \in DOMAIN d.graphs
    THEN d.graphs[g].nodes[n].body ELSE NoGraph
GraphAt(d, path) ==
    LET at[k \in 0 .. Len(path)] == IF k = 0 THEN Root ELSE BodyIn(d, at[k - 1], path[k])
    IN  at[Len(path)]

Sides(g, side) == IF side = "from" THEN Range(g.boundary.outs) ELSE Range(g.boundary.ins)

\* routeMatchesOwnerChain: from `port` of the instance at `occ`, the legs of
\* the route lead, one boundary item each, down to the owner's body.
RouteMatches(d, owner, side, occ, port, route) ==
    /\ Len(route) = Len(owner) - Len(occ) + 1
    /\ \A k \in DOMAIN route :
         LET leg == route[k]
             g   == d.graphs[leg.graph]
             address == IF k = 1 THEN port ELSE route[k - 1].bind[3]
         IN  /\ leg.graph = GraphAt(d, SubSeq(owner, 1, Len(occ) + k - 1))
             /\ address = <<leg.item>>
             /\ \E i \in Sides(g, side) : i.id = leg.item /\ leg.bind \in Bindings(i)
             /\ leg.bind[2] \in DOMAIN g.nodes
             /\ Kind(leg.bind) = "port" =>
                  ~MemberMissing(g.nodes[leg.bind[2]], leg.bind[3])
             /\ k < Len(route) =>
                  Kind(leg.bind) = "port" /\ leg.bind[2] = owner[Len(occ) + k]

RegionIndex == Port(0, <<"index">>)

LocalEndOk(d, owner, side, e) ==
    LET body == d.graphs[GraphAt(d, owner)] IN
    IF e[1] = "boundary"
    THEN /\ IsPrefix(e[2], owner) /\ e[2] # <<>>
         /\ RouteMatches(d, owner, side, e[2], e[3], e[4])
    ELSE \/ /\ EndpointOk(body, e[2])
            /\ IF side = "from" THEN Produces(e[2]) ELSE Consumes(e[2])
         \/ /\ side = "from" /\ e[2] = RegionIndex
            /\ d.graphs[GraphAt(d, Front(owner))].nodes[Last(owner)].region # NoRegion

\* The ports a delivery of a definition runs between, with their sides.
DeliveryEnds(d, del) ==
    LET g == d.graphs[del[2]] IN
    IF del[2] \notin DOMAIN d.graphs THEN {}
    ELSE IF del[1] = "link"
         THEN IF del[3] \notin DOMAIN g.links THEN {}
              ELSE {x \in {<<"from", g.links[del[3]].from>>, <<"to", g.links[del[3]].to>>} :
                      Kind(x[2]) = "port"}
         ELSE IF del[3] \in DOMAIN g.nets /\ del[4] \in g.nets[del[3]].sinks
              THEN {<<"from", g.nets[del[3]].source>>, <<"to", del[4]>>} ELSE {}

\* A suppression: a link of the body (it may be gone already), a delivery of a
\* net of the body, or one leg of a delivery around the owner.
SuppressionOk(d, owner, x) ==
    CASE x[1] = "link" -> TRUE
      [] x[1] = "netSink" ->
           LET body == d.graphs[GraphAt(d, owner)]
           IN  x[2] \in DOMAIN body.nets /\ x[3] \in body.nets[x[2]].sinks
      [] OTHER -> Cardinality({y \in DeliveryEnds(d, x[2]) : \E k \in DOMAIN owner :
                     /\ GraphAt(d, SubSeq(owner, 1, k - 1)) = x[2][2]
                     /\ owner[k] = y[2][2]
                     /\ RouteMatches(d, owner, y[1], SubSeq(owner, 1, k), y[2][3], x[3])}) = 1

TopologiesSound(d) == \A owner \in DOMAIN d.tops :
    LET t == d.tops[owner] IN
    /\ GraphAt(d, owner) # NoGraph
    /\ t.body = GraphAt(d, owner)
    /\ \A l \in DOMAIN t.links :
         /\ l < t.next
         /\ LocalEndOk(d, owner, "from", t.links[l].from)
         /\ LocalEndOk(d, owner, "to", t.links[l].to)
    /\ \A x \in t.sup : SuppressionOk(d, owner, x)

\* checkDocument: the kinds of rules a document breaks.
Flaws(d) ==
    LET broken(rule) ==
            CASE rule = "graph" -> \E g \in DOMAIN d.graphs : ~GraphSound(d.graphs[g])
              [] rule = "member" -> \E g \in DOMAIN d.graphs : ~MembersThere(d.graphs[g])
              [] rule = "cycle" -> \E g \in DOMAIN d.graphs : ~NoCycle(d.graphs[g])
              [] rule = "instance" -> Root \notin DOMAIN d.graphs \/ ~InstancesResolve(d)
              [] rule = "region" ->
                   \E g \in DOMAIN d.graphs : \E n \in DOMAIN d.graphs[g].nodes :
                       /\ d.graphs[g].nodes[n].region # NoRegion
                       /\ ~RegionSound(d, d.graphs[g], n)
              [] rule = "recursion" -> ~NoRecursion(d)
              [] OTHER -> ~TopologiesSound(d)
    IN  {r \in {"graph", "member", "cycle", "instance", "region", "recursion", "topology"} : broken(r)}
DocumentSound(d) == Flaws(d) = {}

\* checkViewState finds no warning either (I8).
ViewFollows(d) == \A g \in DOMAIN d.view :
    LET v == d.view[g] IN
    /\ g \in DOMAIN d.graphs
    /\ v.nodes \subseteq DOMAIN d.graphs[g].nodes
    /\ v.reroutes \subseteq d.graphs[g].reroutes
    /\ v.sources \subseteq d.graphs[g].sources
    /\ v.selectors \subseteq DOMAIN d.graphs[g].selectors
    /\ v.collapsed \subseteq DOMAIN d.graphs[g].nets
    /\ v.guides \subseteq v.collapsed

-----------------------------------------------------------------------------
(* What commands share.  A command leaves one document, or none: it refused.  *)

When(accepted, result) == IF accepted THEN {result} ELSE {}

\* Functions that are partial maps of the document: drop keys, set one, set
\* those of another map.
Minus(f, S) == Restrict(f, DOMAIN f \ S)
Put(f, k, v) == [x \in DOMAIN f \union {k} |-> IF x = k THEN v ELSE f[x]]
PutAll(f, h) == [x \in DOMAIN f \union DOMAIN h |-> IF x \in DOMAIN h THEN h[x] ELSE f[x]]

\* ensureViewGraph.
EmptyView == [nodes |-> {}, reroutes |-> {}, sources |-> {}, selectors |-> {},
              groups |-> {}, seq |-> 0, collapsed |-> {}, guides |-> {}]
WithView(d, g) == IF g \in DOMAIN d.view THEN d
                  ELSE [d EXCEPT !.view = Put(@, g, EmptyView)]
ViewOf(d, g) == IF g \in DOMAIN d.view THEN d.view[g] ELSE EmptyView

\* What nets deliver to an endpoint, and all they deliver, as <<net, sink>>.
DeliveriesInto(g, e) == {<<n, e>> : n \in NetsInto(g, e)}
DeliveriesOf(g, N) == UNION {{<<n, s>> : s \in g.nets[n].sinks} : n \in N}

\* removeAuthoredNetViews for the tags of nets, or of some of their sinks.
DropNetTags(d, g, N) == [d EXCEPT !.tags = {t \in @ : ~(t[1] = g /\ t[2] \in N)}]
DropSinkTags(d, g, D) ==
    [d EXCEPT !.tags = {t \in @ : ~(t[1] = g /\ Len(t) = 4 /\ <<t[2], t[4]>> \in D)}]

\* pruneNetDisplayState.
PruneNetDisplay(d, g, N) ==
    IF g \notin DOMAIN d.view THEN d
    ELSE [d EXCEPT !.view[g].collapsed = @ \ N, !.view[g].guides = @ \ N]

\* The suppressions of every occurrence that one of the rows (body, suppression) names go.
DropSuppressions(d, gone) ==
    [d EXCEPT !.tops = [o \in DOMAIN @ |->
        [@[o] EXCEPT !.sup = {x \in @ : <<d.tops[o].body, x>> \notin gone}]]]
SuppressionRows(d) ==
    UNION {{<<d.tops[o].body, x>> : x \in d.tops[o].sup} : o \in DOMAIN d.tops}

\* removeNetDeliverySuppressions.
DropNetSuppressions(d, g, D) ==
    DropSuppressions(d, {row \in SuppressionRows(d) : LET x == row[2] IN
        \/ x[1] = "netSink" /\ row[1] = g /\ <<x[2], x[3]>> \in D
        \/ /\ x[1] = "leg" /\ x[2][1] = "netSink"
           /\ x[2][2] = g /\ <<x[2][3], x[2][4]>> \in D})

\* removeProjectedLinkSuppressions.
DropLinkSuppressions(d, g, L) ==
    DropSuppressions(d, {row \in SuppressionRows(d) : LET x == row[2] IN
        x[1] = "leg" /\ x[2][1] = "link" /\ x[2][2] = g /\ x[2][3] \in L})

\* removeDefinitionLink, for several links at once.
RemoveLinks(d, g, L) ==
    [DropLinkSuppressions(d, g, L) EXCEPT !.graphs[g].links = Minus(@, L)]

\* Nets lose some sinks, or go with everything that hangs on them.
RemoveSinks(d, g, D) ==
    DropSinkTags([DropNetSuppressions(d, g, D) EXCEPT
        !.graphs[g].nets = [n \in DOMAIN @ |->
            [@[n] EXCEPT !.sinks = {s \in @ : <<n, s>> \notin D}]]], g, D)
RemoveNets(d, g, N) ==
    PruneNetDisplay(
        DropNetTags([DropNetSuppressions(d, g, DeliveriesOf(d.graphs[g], N))
                       EXCEPT !.graphs[g].nets = Minus(@, N)], g, N), g, N)

\* graphAllocator: ids count up from the cursor of the definition.  Minting
\* throws, and refuses the command, once the cursor is at the largest integer
\* the document can hold.
Mint(d, g, k) == d.graphs[g].next + k

CanMint(d, g, k) == d.graphs[g].next + k <= MaxOrdinal
Advanced(d, g, k) == [d EXCEPT !.graphs[g].next = @ + k]
=============================================================================
