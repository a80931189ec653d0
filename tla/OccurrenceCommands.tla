-------------------------- MODULE OccurrenceCommands --------------------------
(***************************************************************************)
(* Wiring that belongs to one instance of a definition: the links that are *)
(* in effect inside it (compile/effective-topology.ts) and the commands    *)
(* that change them (commands/occurrence-link-commands.ts).  An owner is   *)
(* the path of instance nodes that leads into the occurrence.              *)
(*                                                                         *)
(* Boundary items bind single ports here: families of dynamic members that *)
(* cross a boundary, and the schema check of a port's direction, are not   *)
(* represented; no item binds the same port twice.  A command is planned   *)
(* on the document it runs on.                                             *)
(***************************************************************************)
EXTENDS WorkflowDocument

-----------------------------------------------------------------------------
(* The effective topology of an occurrence.  An end in effect is <<path,      *)
(* endpoint>>: the endpoint of the definition the path leads into.  A link in *)
(* effect is [id, from, to, authored]: what it comes from, its ends, and the  *)
(* ends as the document names them.                                           *)

\* resolveOccurrenceEndpoint: through the legs of the route to the body.
LegAt(occ, route, k) == occ \o [j \in 1 .. k - 1 |-> route[j].bind[2]]
RouteResolves(d, owner, side, occ, route) ==
    /\ IsPrefix(occ, owner)
    /\ \A k \in DOMAIN route :
         LET body == GraphAt(d, LegAt(occ, route, k)) IN
         /\ body # NoGraph /\ body = route[k].graph
         /\ \E i \in Sides(d.graphs[body], side) :
               i.id = route[k].item /\ route[k].bind \in Bindings(i)
         /\ Kind(route[k].bind) = "tap" => side = "from" /\ k = Len(route)
    /\ route # <<>> /\ Last(route).graph = GraphAt(d, owner)

InBody(owner, e) == <<owner, e>>
ResolveEnd(d, owner, side, e) ==
    IF e[1] = "body"
    THEN IF OnNode(e[2]) /\ e[2][2] = 0
         THEN IF /\ side = "from" /\ e[2] = RegionIndex
                 /\ d.graphs[GraphAt(d, Front(owner))].nodes[Last(owner)].region # NoRegion
              THEN {InBody(owner, e[2])} ELSE {}
         ELSE {InBody(owner, e[2])}
    ELSE IF RouteResolves(d, owner, side, e[2], e[4])
         THEN {<<LegAt(e[2], e[4], Len(e[4])), Last(e[4]).bind>>} ELSE {}

\* The deliveries of a definition: its links, and its nets sink by sink.
LinkDelivery(g, l)     == <<"link", g, l>>
SinkDelivery(g, n, to) == <<"netSink", g, n, to>>
Deliveries(d, g) ==
    {[of |-> LinkDelivery(g, l), from |-> d.graphs[g].links[l].from, to |-> d.graphs[g].links[l].to]
        : l \in DOMAIN d.graphs[g].links}
    \union UNION {{[of |-> SinkDelivery(g, n, s), from |-> d.graphs[g].nets[n].source, to |-> s]
                     : s \in d.graphs[g].nets[n].sinks} : n \in DOMAIN d.graphs[g].nets}

\* How an occurrence names, in its suppressions, a delivery of its own body.
Suppressed(x) == IF x[1] = "link" THEN <<"link", x[3]>> ELSE <<"netSink", x[3], x[4]>>

NoTopology == [body |-> NoGraph, links |-> <<>>, sup |-> {}, next |-> 0]
TopologyOf(d, owner) == IF owner \in DOMAIN d.tops THEN d.tops[owner] ELSE NoTopology

\* projectedEndpoints: what an outer port of the owner is bound to inside.
Crossings(d, owner, side, port) ==
    LET g == GraphAt(d, owner)
        items == {i \in Sides(d.graphs[g], side) : <<i.id>> = port}
        legs == UNION {{<<[graph |-> g, item |-> i.id, bind |-> b]>> : b \in Bindings(i)} : i \in items}
    IN  {r \in legs : RouteResolves(d, owner, side, owner, r)}

\* A link around the owner, carried through one end of it into the body.
Projected(d, owner, p) ==
    LET sup == TopologyOf(d, owner).sup
        at(end) == LET e == p.link[end] IN
                   IF Kind(e[2]) = "port" /\ e[2][2] = Last(owner)
                   THEN {[p EXCEPT !.route = @ \o leg,
                                   !.link[end] = InBody(owner, leg[1].bind),
                                   !.link.id = IF p.of = <<>> THEN @ ELSE <<"leg", p.of, p.route \o leg>>]
                           : leg \in Crossings(d, owner, end, e[2][3])}
                   ELSE {}
    \* Only the node of an end is compared, not the definition it is in.
    IN  {x \in at("from") \union at("to") : x.of = <<>> \/ <<"leg", x.of, x.route>> \notin sup}

\* effectiveOccurrenceTopology.  `own` are the links of the body, `legs` those
\* of the surroundings that reach into it, both as [link, of, route] so that
\* they can be carried further down: the delivery they come from and the route
\* so far.
Effective(d, owner) ==
    LET shared(g, path, sup) ==
            {[link |-> [id |-> <<"shared", x.of>>, from |-> <<path, x.from>>, to |-> <<path, x.to>>,
                        authored |-> [from |-> <<"body", x.from>>, to |-> <<"body", x.to>>]],
              of |-> x.of, route |-> <<>>] :
                x \in {y \in Deliveries(d, g) : Suppressed(y.of) \notin sup}}
        local(o) ==
            UNION {{[link |-> [id |-> <<"local", o, l>>, from |-> from, to |-> to,
                               authored |-> TopologyOf(d, o).links[l]], of |-> <<>>, route |-> <<>>] :
                      from \in ResolveEnd(d, o, "from", TopologyOf(d, o).links[l].from),
                      to \in ResolveEnd(d, o, "to", TopologyOf(d, o).links[l].to)}
                     : l \in DOMAIN TopologyOf(d, o).links}
        at[k \in 0 .. Len(owner)] ==
            IF k = 0 THEN [own |-> shared(Root, <<>>, {}), legs |-> {}]
            ELSE LET o == SubSeq(owner, 1, k)
                     around == at[k - 1].own \union at[k - 1].legs
                 IN  [own  |-> shared(GraphAt(d, o), o, TopologyOf(d, o).sup) \union local(o),
                      legs |-> UNION {Projected(d, o, p) : p \in around}]
    IN  at[Len(owner)]

EffectiveLinks(d, owner) ==
    LET eff == Effective(d, owner) IN {p.link : p \in eff.own \union eff.legs}

\* The effective topology has no errors: local links resolve, the body is the
\* recorded one, every endpoint has one driver, and no chain is closed.
Into(d, owner, eff) ==
    {p.link : p \in eff.own}
      \union (IF d.tops = <<>> THEN {}
              ELSE {x \in {p.link : p \in eff.legs} : GraphAt(d, x.to[1]) = GraphAt(d, owner)})
OneEffectiveDriver(d, owner) ==
    \A x, y \in Into(d, owner, Effective(d, owner)) : x.to[2] = y.to[2] => x = y

AsLinks(list) == [k \in DOMAIN list |-> [from |-> list[k].from[2], to |-> list[k].to[2]]]
WithLinks(g, links) ==
    [g EXCEPT !.nets = <<>>,
              !.links = AsLinks(SetToSeq({x \in links : x.from[2] # RegionIndex}))]
ChainsSound(g) == LinksLand(g) /\ MembersThere(g) /\ NoCycle(g)
LocalSound(d, owner, own) ==
    /\ d.tops[owner].body = GraphAt(d, owner)
    /\ ChainsSound(WithLinks(d.graphs[GraphAt(d, owner)], own))
    /\ \A l \in DOMAIN d.tops[owner].links : \E x \in own : x.id = <<"local", owner, l>>

EffectiveSound(d, owner) ==
    /\ owner \in DOMAIN d.tops => LocalSound(d, owner, {p.link : p \in Effective(d, owner).own})
    \* a topology of its own around the occurrence has no errors either
    /\ \A k \in DOMAIN owner : OneEffectiveDriver(d, SubSeq(owner, 1, k))

-----------------------------------------------------------------------------
(* The commands.                                                              *)

DriversOf(links, to) == {x \in links : x.to = to}
IsLocal(id) == id[1] = "local"
OwnedBy(id, owner) == IsLocal(id) => id[2] = owner

\* The only leg of a delivery is the delivery: it cannot be taken away here.
SoleLeg(d, owner, id) ==
    /\ id[1] = "leg"
    /\ Cardinality({p \in Effective(d, owner).legs : p.of = id[2]}) <= 1

\* ensureTopology
WithTopology(d, owner) ==
    IF owner \in DOMAIN d.tops THEN d
    ELSE [d EXCEPT !.tops = Put(@, owner, [NoTopology EXCEPT !.body = GraphAt(d, owner)])]

\* removeIdentity: a local link goes, any other is suppressed for this owner.
SuppressionFor(id) == IF id[1] = "shared" THEN Suppressed(id[2]) ELSE id
RemoveIdentity(d, owner, id) ==
    IF IsLocal(id) THEN [d EXCEPT !.tops[owner].links = Minus(@, {id[3]})]
    ELSE [WithTopology(d, owner) EXCEPT !.tops[owner].sup = @ \union {SuppressionFor(id)}]

\* unsuppressExactBodyDelivery: the shared link that already runs there.
HiddenDelivery(d, owner, from, to) ==
    {x \in Deliveries(d, GraphAt(d, owner)) :
        /\ from[1] = "body" /\ to[1] = "body" /\ x.from = from[2] /\ x.to = to[2]
        /\ Suppressed(x.of) \in TopologyOf(d, owner).sup}

\* addLocalLink
CanMintLocal(d, owner) == TopologyOf(d, owner).next <= MaxOrdinal
AddLocalLink(d, owner, from, to) ==
    LET l == TopologyOf(d, owner).next IN
    [WithTopology(d, owner) EXCEPT !.tops[owner].links = Put(@, l, [from |-> from, to |-> to]),
                                   !.tops[owner].next = @ + 1]

\* A plan exists only where the topology is sound before and after.
Planned(d, owner, candidate) ==
    IF \A x \in {d} \union candidate : EffectiveSound(x, owner) THEN candidate ELSE {}

\* At most one link is displaced.
Displace(d, owner, displaced) ==
    IF displaced = {} THEN d
    ELSE RemoveIdentity(d, owner, (CHOOSE x \in displaced : TRUE).id)
DisplacedBy(d, owner, links, to) == UNION {DriversOf(links, end) : end \in ResolveEnd(d, owner, "to", to)}

\* occurrence.link.connect: a shared link that is hidden there is shown again.
Joined(cleared, owner, from, to, hidden) ==
    IF hidden # {} THEN {[cleared EXCEPT !.tops[owner].sup = @ \ {Suppressed(x.of)}] : x \in hidden}
    ELSE IF from[1] = "body" /\ to[1] = "body" /\ from[2] # RegionIndex THEN {}
    ELSE When(CanMintLocal(cleared, owner), AddLocalLink(cleared, owner, from, to))
JoinOn(cleared, owner, from, to) ==
    Joined(cleared, owner, from, to, HiddenDelivery(cleared, owner, from, to))
ConnectOver(d, owner, from, to, displaced) ==
    IF /\ ResolveEnd(d, owner, "from", from) # {} /\ ResolveEnd(d, owner, "to", to) # {}
       /\ Cardinality(displaced) <= 1
       /\ \A x \in displaced : OwnedBy(x.id, owner) /\ ~SoleLeg(d, owner, x.id)
    THEN JoinOn(Displace(d, owner, displaced), owner, from, to) ELSE {}
LocalConnect(d, owner, from, to) ==
    Planned(d, owner,
        ConnectOver(d, owner, from, to, DisplacedBy(d, owner, EffectiveLinks(d, owner), to)))

\* occurrence.link.disconnect
LocalDisconnect(d, owner, link) ==
    IF OwnedBy(link.id, owner) /\ ~SoleLeg(d, owner, link.id)
    THEN Planned(d, owner, {RemoveIdentity(d, owner, link.id)}) ELSE {}

\* occurrence.link.rewire
Rewirable(owner, link, end) ==
    /\ OwnedBy(link.id, owner) /\ link.id[1] # "leg"
    /\ link.id[1] = "shared" => end[1] # "body"
Rejoined(cleared, owner, link, to) ==
    IF IsLocal(link.id) THEN {[cleared EXCEPT !.tops[owner].links[link.id[3]].to = to]}
    ELSE When(CanMintLocal(cleared, owner),
              AddLocalLink(RemoveIdentity(cleared, owner, link.id), owner, link.authored.from, to))
RewireOver(d, owner, link, to, displaced) ==
    IF /\ Rewirable(owner, link, to)
       /\ ResolveEnd(d, owner, "to", to) # {}
       /\ Cardinality(displaced) <= 1
       /\ \A x \in displaced : OwnedBy(x.id, owner)
    THEN Rejoined(Displace(d, owner, displaced), owner, link, to) ELSE {}
LocalRewire(d, owner, link, to) ==
    Planned(d, owner,
        RewireOver(d, owner, link, to, DisplacedBy(d, owner, EffectiveLinks(d, owner) \ {link}, to)))

\* occurrence.link.rewireSource, of several links at once
LocalRewireSource(d, owner, links, from) ==
    LET next == TopologyOf(d, owner).next
        local == {x.id[3] : x \in {y \in links : IsLocal(y.id)}}
        replaced == {x \in links : ~IsLocal(x.id)}
        order == SetToSeq(replaced)
        moved == [WithTopology(d, owner) EXCEPT
                    !.tops[owner].links =
                        PutAll([l \in DOMAIN @ |-> IF l \in local THEN [@[l] EXCEPT !.from = from] ELSE @[l]],
                               [l \in next .. next + Cardinality(replaced) - 1 |->
                                   [from |-> from, to |-> order[l - next + 1].authored.to]]),
                    !.tops[owner].sup = @ \union {SuppressionFor(x.id) : x \in replaced},
                    !.tops[owner].next = next + Cardinality(replaced)]
    IN  IF /\ links # {} /\ IsFiniteSet(links) /\ \A x \in links : Rewirable(owner, x, from)
           /\ ResolveEnd(d, owner, "from", from) # {}
           /\ \A x \in links : \A y \in EffectiveLinks(d, owner) \ {x} :
                 y.to = x.to => OwnedBy(y.id, owner)
           /\ TopologyOf(d, owner).next + Cardinality(links) - 1 <= MaxOrdinal
        THEN Planned(d, owner, {moved}) ELSE {}
=============================================================================
