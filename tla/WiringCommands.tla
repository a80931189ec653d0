---------------------------- MODULE WiringCommands ----------------------------
(***************************************************************************)
(* The commands of core-commands.ts that change what is connected to what: *)
(* links, named nets, reroutes, value sources, selectors and deletion.     *)
(* A command is an operator from a document and its parameters to the set  *)
(* of documents it can leave: none when it refuses, the document itself    *)
(* when there is nothing to do.  Parameters of the wrong JSON shape are    *)
(* left out; g is always a definition of the document.                     *)
(***************************************************************************)
EXTENDS WorkflowDocument

CONSTANT MaxCandidates    \* branches a selector may have (MAX_SELECTOR_CANDIDATES)

ASSUME MaxCandidatesIsNat == MaxCandidates \in Nat

-----------------------------------------------------------------------------
(* What may be connected.                                                     *)

\* wouldCreateTapCycle: follows reroutes and taps, stops at selectors.
TapCycle(g, from, to) ==
    LET trial == [g EXCEPT !.links = Put(Minus(@, LinksInto(g, to)), g.next, [from |-> from, to |-> to])]
    IN  from \in UpstreamVia(trial, Feeds(trial, from), {"reroute", "tap"})

\* connectError: upstream of a reroute or a selector is walked through
\* junctions, not through taps.
Connectable(g, from, to) ==
    LET above == UpstreamVia(g, {from}, Junctions) IN
    /\ Produces(from) /\ Consumes(to)
    /\ Kind(from) = "port" /\ Kind(to) = "port" => from[2] # to[2]
    /\ Kind(from) = "tap" => to # Port(from[2], from[3]) /\ ~TapCycle(g, from, to)
    /\ Kind(to) = "reroute" => to \notin above
    /\ Kind(to) = "candidate" => Selector(to[2]) \notin above

\* occurrenceDriverConflict: an instance wired this input for itself.
PortsMeet(a, b) == a[1] = b[1] /\ (Len(a) = 1 \/ Len(b) = 1 \/ a = b)
BoundaryTargets(d, e, g, to) ==
    \/ /\ GraphAt(d, Front(e[2])) = g
       /\ Last(e[2]) = to[2] /\ PortsMeet(e[3], to[3])
    \/ \E k \in DOMAIN e[4] :
          LET leg == e[4][k] IN
          /\ leg.graph = g /\ Kind(leg.bind) = "port"
          /\ leg.bind[2] = to[2] /\ PortsMeet(leg.bind[3], to[3])
DrivenLocally(d, g, to) ==
    \E o \in DOMAIN d.tops : \E l \in DOMAIN d.tops[o].links :
        LET e == d.tops[o].links[l].to IN
        IF e[1] = "body" THEN d.tops[o].body = g /\ e[2] = to
        ELSE Kind(to) = "port" /\ BoundaryTargets(d, e, g, to)

\* Mutant: the nets that drive the endpoint stay.
RemoveDriver_LinksOnly(d, g, to) == RemoveLinks(d, g, LinksInto(d.graphs[g], to))

\* removeDriver.
RemoveDriver(d, g, to) ==
    RemoveSinks(RemoveLinks(d, g, LinksInto(d.graphs[g], to)), g, DeliveriesInto(d.graphs[g], to))

AddLink(d, g, l, from, to) ==
    [d EXCEPT !.graphs[g].links = Put(@, l, [from |-> from, to |-> to])]

-----------------------------------------------------------------------------
(* Links.                                                                     *)

LinkConnect(d, g, from, to) ==
    When(/\ EndpointKnown(d.graphs[g], from) /\ EndpointKnown(d.graphs[g], to)
         /\ Connectable(d.graphs[g], from, to)
         /\ ~DrivenLocally(d, g, to)
         /\ CanMint(d, g, 1),
         AddLink(Advanced(RemoveDriver(d, g, to), g, 1), g, Mint(d, g, 0), from, to))

LinkRewire(d, g, l, to) ==
    LET link == d.graphs[g].links[l] IN
    IF link.to = to THEN {d}
    ELSE When(/\ EndpointKnown(d.graphs[g], to)
              /\ Connectable(d.graphs[g], link.from, to)
              /\ ~DrivenLocally(d, g, to),
              [RemoveDriver(d, g, to) EXCEPT !.graphs[g].links[l].to = to])

LinkRewireSource(d, g, L, from) ==
    LET links == d.graphs[g].links
        moved == {l \in L : links[l].from # from}
    IN  When(/\ EndpointKnown(d.graphs[g], from)
             /\ \A l \in moved : Connectable(d.graphs[g], from, links[l].to),
             [d EXCEPT !.graphs[g].links =
                 [l \in DOMAIN @ |-> IF l \in moved THEN [@[l] EXCEPT !.from = from] ELSE @[l]]])

LinkDisconnect(d, g, l) == {RemoveLinks(d, g, {l})}

-----------------------------------------------------------------------------
(* Named nets.  A name as typed is <<word>> or <<word, "pad">>: with blanks   *)
(* around it.                                                                 *)

Trim(name) == <<name[1]>>

\* netNameError: the typed name is compared, the trimmed one is stored.
NameFree(g, name, net) ==
    \A n \in DOMAIN g.nets \ {net} : g.nets[n].name # name

NetCreate(d, g, name, source) ==
    When(/\ NameFree(d.graphs[g], name, -1)
         /\ source[2] \in DOMAIN d.graphs[g].nodes
         /\ CanMint(d, g, 1),
         [Advanced(d, g, 1) EXCEPT !.graphs[g].nets =
             Put(@, Mint(d, g, 0), [name |-> Trim(name), source |-> source, sinks |-> {}])])

NetConnectInput(d, g, net, to) ==
    LET n == d.graphs[g].nets[net] IN
    IF n.source[2] # to[2] /\ to \in n.sinks THEN {d}
    ELSE When(/\ to[2] \in DOMAIN d.graphs[g].nodes
              /\ n.source[2] # to[2]
              /\ ~DrivenLocally(d, g, to),
              [RemoveDriver(d, g, to) EXCEPT !.graphs[g].nets[net].sinks = @ \union {to}])

NetDisconnectInput(d, g, to) ==
    LET D == DeliveriesInto(d.graphs[g], to)
    IN  When(D # {}, RemoveSinks(d, g, D))

NetSetSource(d, g, net, source) ==
    LET n == d.graphs[g].nets[net] IN
    IF n.source = source THEN {d}
    ELSE When(/\ source[2] \in DOMAIN d.graphs[g].nodes
              /\ \A s \in n.sinks : s[2] # source[2],
              [d EXCEPT !.graphs[g].nets[net].source = source])

NetRename(d, g, net, name) ==
    When(NameFree(d.graphs[g], name, net),
         [d EXCEPT !.graphs[g].nets[net].name = Trim(name)])

NetRemove(d, g, net) == {RemoveNets(d, g, {net})}

\* The authored place of one tag of the net is forgotten.
NetResetView(d, g, net, tag) ==
    When(/\ tag \in d.tags /\ tag[1] = g /\ tag[2] = net
         /\ Len(tag) = 4 => tag[4] \in d.graphs[g].nets[net].sinks,
         [d EXCEPT !.tags = @ \ {tag}])

-----------------------------------------------------------------------------
(* Reroutes and value sources.                                                *)

RerouteAdd(d, g) ==
    LET r == Mint(d, g, 0) IN
    When(CanMint(d, g, 1),
         [WithView(Advanced(d, g, 1), g) EXCEPT !.graphs[g].reroutes = @ \union {r},
                                                !.view[g].reroutes = @ \union {r}])

\* The link is replaced by one into the new reroute and one out of it.
RerouteInsert(d, g, l) ==
    LET link == d.graphs[g].links[l]
        r == Mint(d, g, 0)
        cut == RemoveLinks(Advanced(d, g, 3), g, {l})
        split == AddLink(AddLink(cut, g, Mint(d, g, 1), link.from, Reroute(r)),
                         g, Mint(d, g, 2), Reroute(r), link.to)
    IN  When(CanMint(d, g, 3),
             [WithView(split, g) EXCEPT !.graphs[g].reroutes = @ \union {r},
                                        !.view[g].reroutes = @ \union {r}])

DropReroutes(d, g, R) ==
    IF g \in DOMAIN d.view
    THEN [d EXCEPT !.graphs[g].reroutes = @ \ R, !.view[g].reroutes = @ \ R]
    ELSE [d EXCEPT !.graphs[g].reroutes = @ \ R]

\* survivingSource: the first endpoint above the reroute e that stays; none
\* when the chain is not driven.
SurvivingSource(g, e, R) ==
    LET up[i \in 0 .. Cardinality(R)] ==
            IF i = 0 THEN {e}
            ELSE LET below == up[i - 1] IN
                 UNION {IF Kind(x) = "reroute" /\ x[2] \in R THEN Feeds(g, x) ELSE {x} : x \in below}
    IN  {x \in up[Cardinality(R)] : ~(Kind(x) = "reroute" /\ x[2] \in R)}

\* What a deletion takes away, and whether wiring local to an instance needs it
\* (occurrenceDeletionConflict).
Nothing == [nodes |-> {}, reroutes |-> {}, sources |-> {}, selectors |-> {}]
Gone(e, del) ==
    CASE OnNode(e)            -> e[2] \in del.nodes
      [] Kind(e) = "reroute"  -> e[2] \in del.reroutes
      [] Kind(e) = "source"   -> e[2] \in del.sources
      [] OTHER                -> e[2] \in del.selectors
NeededLocally(d, g, del) == \E o \in DOMAIN d.tops :
    \/ \E k \in DOMAIN o : GraphAt(d, SubSeq(o, 1, k - 1)) = g /\ o[k] \in del.nodes
    \/ \E l \in DOMAIN d.tops[o].links :
         \E e \in {d.tops[o].links[l].from, d.tops[o].links[l].to} :
             IF e[1] = "boundary"
             THEN \E k \in DOMAIN e[4] : e[4][k].graph = g /\ e[4][k].bind[2] \in del.nodes
             ELSE d.tops[o].body = g /\ Gone(e[2], del)

\* reroute.remove: with `reconnect` the consumers below are linked to what was
\* above.
RerouteRemove(d, g, R, reconnect) ==
    LET links == d.graphs[g].links
        Inside(e) == Kind(e) = "reroute" /\ e[2] \in R
        touching == {l \in DOMAIN links : Inside(links[l].from) \/ Inside(links[l].to)}
        leaving == {l \in touching : /\ reconnect /\ ~Inside(links[l].to)
                                     /\ SurvivingSource(d.graphs[g], links[l].from, R) # {}}
        order == SetToSortSeq(leaving, <)
        joined(l) == [from |-> CHOOSE x \in SurvivingSource(d.graphs[g], links[l].from, R) : TRUE,
                      to |-> links[l].to]
    IN  When(/\ ~NeededLocally(d, g, [Nothing EXCEPT !.reroutes = R])
             /\ CanMint(d, g, Cardinality(leaving)),
             DropReroutes(
                 [RemoveLinks(Advanced(d, g, Cardinality(leaving)), g, touching) EXCEPT
                     !.graphs[g].links =
                         PutAll(@, [i \in {Mint(d, g, k - 1) : k \in 1 .. Cardinality(leaving)} |->
                                       joined(order[i - Mint(d, g, -1)])])],
                 g, R))

ValueSourceAdd(d, g) ==
    LET v == Mint(d, g, 0) IN
    When(CanMint(d, g, 1),
         [WithView(Advanced(d, g, 1), g) EXCEPT !.graphs[g].sources = @ \union {v},
                                                !.view[g].sources = @ \union {v}])

-----------------------------------------------------------------------------
(* Deletion.                                                                  *)

PruneItems(items, nodes) ==
    LET kept == SelectSeq(items, LAMBDA i : i.binds[2] \notin nodes)
    IN  [k \in DOMAIN kept |->
            [kept[k] EXCEPT !.also = SelectSeq(@, LAMBDA b : b[2] \notin nodes)]]

GraphWithout(gr, del) ==
    [gr EXCEPT !.nodes = Minus(@, del.nodes), !.reroutes = @ \ del.reroutes,
               !.sources = @ \ del.sources, !.selectors = Minus(@, del.selectors),
               !.boundary.ins = PruneItems(@, del.nodes), !.boundary.outs = PruneItems(@, del.nodes)]
PlacesWithout(v, del) ==
    [v EXCEPT !.nodes = @ \ del.nodes, !.reroutes = @ \ del.reroutes,
              !.sources = @ \ del.sources, !.selectors = @ \ del.selectors]
RemoveItems(d, g, del) ==
    LET bare == [d EXCEPT !.graphs[g] = GraphWithout(@, del)] IN
    IF g \in DOMAIN d.view THEN [bare EXCEPT !.view[g] = PlacesWithout(@, del)] ELSE bare

\* deleteCascade: the links L and the sinks S, what `del` names, and all that
\* hangs on it.
DeleteCascade(d, g, del, L, S) ==
    LET gr == d.graphs[g]
        touched == {l \in DOMAIN gr.links : Gone(gr.links[l].from, del) \/ Gone(gr.links[l].to, del)}
        unlinked == RemoveLinks(d, g, L \union touched)
        silent == {n \in DOMAIN gr.nets : gr.nets[n].source[2] \in del.nodes}
        cut == {x \in DeliveriesOf(gr, DOMAIN gr.nets \ silent) : x[2] \in S \/ Gone(x[2], del)}
    IN  RemoveItems(RemoveNets(RemoveSinks(unlinked, g, cut), g, silent), g, del)

\* node.remove, valueSource.remove, selector.remove and graph.deleteItems.
DeleteItems(d, g, del, L, S) ==
    When(~NeededLocally(d, g, del), DeleteCascade(d, g, del, L, S))
NodeRemove(d, g, N) == DeleteItems(d, g, [Nothing EXCEPT !.nodes = N], {}, {})
ValueSourceRemove(d, g, V) == DeleteItems(d, g, [Nothing EXCEPT !.sources = V], {}, {})
SelectorRemove(d, g, S) == DeleteItems(d, g, [Nothing EXCEPT !.selectors = S], {}, {})

\* node.add, without a region contract or with one.
NodeAdd(d, g, node) ==
    LET n == Mint(d, g, 0) IN
    When(node.body \in DOMAIN d.graphs \union {NoGraph} /\ CanMint(d, g, 1),
         [WithView(Advanced(d, g, 1), g) EXCEPT !.graphs[g].nodes = Put(@, n, node),
                                                !.view[g].nodes = @ \union {n}])

-----------------------------------------------------------------------------
(* Selectors.  pick = -1 is the random policy.                                *)

\* selector.add: the first candidate is picked.
SelectorAdd(d, g, count) ==
    LET s == Mint(d, g, 0) IN
    When(count \in 1 .. MaxCandidates /\ CanMint(d, g, count + 1),
         [WithView(Advanced(d, g, count + 1), g) EXCEPT
             !.graphs[g].selectors =
                 Put(@, s, [cands |-> [k \in 1 .. count |-> s + k], pick |-> s + 1]),
             !.view[g].selectors = @ \union {s}])

SelectorSetPolicy(d, g, s, pick) ==
    When(pick \in Range(d.graphs[g].selectors[s].cands) \union {-1},
         [d EXCEPT !.graphs[g].selectors[s].pick = pick])

SelectorAddCandidate(d, g, s) ==
    When(Len(d.graphs[g].selectors[s].cands) < MaxCandidates /\ CanMint(d, g, 1),
         [Advanced(d, g, 1) EXCEPT
             !.graphs[g].selectors[s].cands = Append(@, Mint(d, g, 0))])

\* The link into the candidate goes, a pick of it moves to the first that stays.
\* Candidates are distinct: it is there once.
SelectorRemoveCandidate(d, g, s, c) ==
    LET sel == d.graphs[g].selectors[s]
        kept == RemoveAt(sel.cands, CHOOSE k \in DOMAIN sel.cands : sel.cands[k] = c)
    IN  When(c \in Range(sel.cands) /\ Len(sel.cands) > 1,
             [RemoveLinks(d, g, LinksInto(d.graphs[g], Candidate(s, c))) EXCEPT
                 !.graphs[g].selectors[s] =
                     [cands |-> kept, pick |-> IF sel.pick = c THEN kept[1] ELSE sel.pick]])

SelectorReorderCandidates(d, g, s, order) ==
    When(/\ IsInjective(order)
         /\ Range(order) = Range(d.graphs[g].selectors[s].cands),
         [d EXCEPT !.graphs[g].selectors[s].cands = order])
=============================================================================
