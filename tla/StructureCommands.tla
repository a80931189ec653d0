--------------------------- MODULE StructureCommands ---------------------------
(***************************************************************************)
(* The commands that change what a definition shows to the outside and     *)
(* what is remembered about it: its boundary (boundary-commands.ts), the   *)
(* dynamic families of a node (dynamic-commands.ts), the contract of a     *)
(* node that repeats its body (core-commands.ts), mode panels              *)
(* (surface-commands.ts), groups and the display of nets (core-commands.ts). *)
(* Commands are written as in WiringCommands.                              *)
(*                                                                         *)
(* Boundary items bind single ports, families are flat, a mode panel is    *)
(* its bindings to groups; titles, colours, sizes, positions and node      *)
(* modes are not represented.                                              *)
(***************************************************************************)
EXTENDS WorkflowDocument

CONSTANT MaxMember    \* the largest member number of a family (MAX_MEMBER_ORDINAL)

ASSUME MaxMemberIsNat == MaxMember \in Nat

-----------------------------------------------------------------------------
(* Boundary items.  Targets of input items are unique over all items, primary *)
(* (`binds`) and fan-out (`also`) alike; outputs may show one source twice.   *)

ItemIds(g) == InIds(g) \union OutIds(g)
InTargets(g) == UNION {Bindings(i) : i \in Range(g.boundary.ins)}
At(items, id) == CHOOSE k \in DOMAIN items : items[k].id = id
SetItem(d, g, side, k, item) == [d EXCEPT !.graphs[g].boundary[side][k] = item]
DropItem(d, g, side, k) == [d EXCEPT !.graphs[g].boundary[side] = RemoveAt(@, k)]

BoundaryAddItem(d, g, side, id, b) ==
    When(/\ b[2] \in DOMAIN d.graphs[g].nodes
         /\ id \notin ItemIds(d.graphs[g])
         /\ side = "ins" => Kind(b) = "port" /\ b \notin InTargets(d.graphs[g]),
         [d EXCEPT !.graphs[g].boundary = [@ EXCEPT
             !.present = TRUE,
             ![side] = Append(@, [id |-> id, binds |-> b, also |-> <<>>, promoted |-> FALSE])]])

BoundaryAddBinding(d, g, id, b) ==
    LET k == At(d.graphs[g].boundary.ins, id) IN
    When(/\ id \in InIds(d.graphs[g]) /\ Kind(b) = "port"
         /\ b[2] \in DOMAIN d.graphs[g].nodes
         /\ b \notin InTargets(d.graphs[g]),
         [d EXCEPT !.graphs[g].boundary.ins[k].also = Append(@, b)])

\* The primary binding is not removed this way.
BoundaryRemoveBinding(d, g, id, b) ==
    LET k == At(d.graphs[g].boundary.ins, id) IN
    When(id \in InIds(d.graphs[g]) /\ b \in Range(d.graphs[g].boundary.ins[k].also),
         [d EXCEPT !.graphs[g].boundary.ins[k].also = SelectSeq(@, LAMBDA x : x # b)])

BoundarySetBinding(d, g, side, id, b) ==
    LET items == d.graphs[g].boundary[side]
        k == At(items, id)
        others == (UNION {Bindings(items[j]) : j \in DOMAIN items \ {k}}) \union Range(items[k].also)
    IN  When(/\ \E i \in Range(items) : i.id = id
             /\ side = "ins" => Kind(b) = "port" /\ b \notin others
             /\ b[2] \in DOMAIN d.graphs[g].nodes,
             SetItem(d, g, side, k, [items[k] EXCEPT !.binds = b]))

\* boundary.unbind: the first fan-out target takes the place of a primary one,
\* an item without targets goes.
Unbound(item, b) ==
    IF item.binds # b THEN [item EXCEPT !.also = SelectSeq(@, LAMBDA x : x # b)]
    ELSE [item EXCEPT !.binds = Head(item.also), !.also = Tail(@)]
UnbindItem(d, g, side, k, b) ==
    LET item == d.graphs[g].boundary[side][k] IN
    IF item.binds = b /\ (side = "outs" \/ item.also = <<>>) THEN {DropItem(d, g, side, k)}
    ELSE When(side = "ins" /\ b \in Bindings(item), SetItem(d, g, side, k, Unbound(item, b)))
BoundaryUnbind(d, g, side, id, b) ==
    LET items == d.graphs[g].boundary[side] IN
    IF \A i \in Range(items) : i.id # id THEN {} ELSE UnbindItem(d, g, side, At(items, id), b)

-----------------------------------------------------------------------------
(* Dynamic families.  A family keeps its members and a cursor, so that the    *)
(* next member offered is one that was never seen.                            *)

FamilyOf(node, f) == IF f \in DOMAIN node.dyn THEN node.dyn[f] ELSE [members |-> {}, seq |-> 0]

\* dynamic.materialize: the members a gesture used become part of the node.
DynamicMaterialize(d, g, n, f, members) ==
    LET family == FamilyOf(d.graphs[g].nodes[n], f)
        fresh == members \ family.members
        grown == [members |-> family.members \union members,
                  seq |-> Max({family.seq} \union {m + 1 : m \in family.members \union members})]
    IN  When(fresh # {} => family.seq <= MaxMember /\ \A m \in fresh : m <= MaxMember,
             [d EXCEPT !.graphs[g].nodes[n].dyn = Put(@, f, grown)])

\* What names members of a node: its wires, the wiring local to occurrences,
\* the boundary, values.
AddressesOn(d, g, n) ==
    LET gr == d.graphs[g]
        ends == (UNION {{gr.links[l].from, gr.links[l].to} : l \in DOMAIN gr.links})
                  \union (UNION {{gr.nets[k].source} \union gr.nets[k].sinks : k \in DOMAIN gr.nets})
                  \union UNION {Bindings(i) : i \in Items(gr)}
        local == {x \in UNION {UNION {{d.tops[o].links[l].from, d.tops[o].links[l].to}
                                        : l \in DOMAIN d.tops[o].links}
                                 : o \in {p \in DOMAIN d.tops : d.tops[p].body = g}} : x[1] = "body"}
    IN  {e[3] : e \in {x \in ends \union {y[2] : y \in local} : Kind(x) = "port" /\ x[2] = n}}
          \union gr.nodes[n].vals

\* dynamic.compact: members nothing names go, their numbers are not used again.
\* Where wiring local to an occurrence does not resolve, nothing is given up.
DynamicCompact(d, g, n) ==
    LET dyn == d.graphs[g].nodes[n].dyn
        used(f) == {a[2] : a \in {x \in AddressesOn(d, g, n) : Len(x) = 2 /\ x[1] = f}}
        kept == [f \in DOMAIN dyn |->
                    [members |-> dyn[f].members \intersect used(f),
                     seq |-> Max({dyn[f].seq} \union {m + 1 : m \in dyn[f].members})]]
    IN  IF TopologiesSound(d) THEN {[d EXCEPT !.graphs[g].nodes[n].dyn = kept]} ELSE {d}

-----------------------------------------------------------------------------
(* The contract of a repeated node.  What the roles of ports may be together  *)
(* is decided by the rules of the document.                                   *)

SetRegion(d, g, n, region) ==
    When(d.graphs[g].nodes[n].region # NoRegion,
         [d EXCEPT !.graphs[g].nodes[n].region = region])

\* Output roles that feed state back through another port.
NotState(roles, port) == Restrict(roles, {o \in DOMAIN roles : roles[o] # <<"state", port>>})

RegionSetPortRole(d, g, n, port, role) ==
    LET r == d.graphs[g].nodes[n].region IN
    SetRegion(d, g, n,
        [r EXCEPT !.elements = (@ \ {port}) \union {x \in {port} : role = "element"},
                  !.states = (@ \ {port}) \union {x \in {port} : role = "state"},
                  !.roles = IF role = "state" THEN @ ELSE NotState(@, port)])

\* role: <<"gather">>, <<"compact">>, <<"flatten">> or <<"state", port>>;
\* gathering is what an output does without a role.
RegionSetOutputRole(d, g, n, out, role) ==
    LET r == d.graphs[g].nodes[n].region
        rest == Minus(IF role[1] = "state" THEN NotState(r.roles, role[2]) ELSE r.roles, {out})
    IN  SetRegion(d, g, n,
            [r EXCEPT !.cont = IF @ = out THEN "" ELSE @,
                      !.roles = IF role = <<"gather">> THEN rest ELSE Put(rest, out, role)])

RegionSetContinueOutput(d, g, n, out) ==
    LET r == d.graphs[g].nodes[n].region IN
    SetRegion(d, g, n, [r EXCEPT !.cont = out, !.roles = Minus(@, {out})])

\* "" is zip.
RegionSetBinding(d, g, n, binding) ==
    SetRegion(d, g, n, [d.graphs[g].nodes[n].region EXCEPT !.binding = binding])

\* -1 is no limit.
RegionSetMaxIterations(d, g, n, max) ==
    SetRegion(d, g, n, [d.graphs[g].nodes[n].region EXCEPT !.max = max])

-----------------------------------------------------------------------------
(* Mode panels and the groups they are bound to.  A binding outlives its      *)
(* group, and is then shown as broken.                                        *)

SurfaceAdd(d, bindings) ==
    LET s == Max({d.panelSeq} \union {k + 1 : k \in DOMAIN d.panels}) IN
    When(s < MaxOrdinal,
         [d EXCEPT !.panels = Put(@, s, bindings), !.panelSeq = s + 1])
SurfaceUpdate(d, s, bindings) == When(s \in DOMAIN d.panels, [d EXCEPT !.panels[s] = bindings])
SurfaceRemove(d, s) == When(s \in DOMAIN d.panels, [d EXCEPT !.panels = Minus(@, {s})])

BoundGroups(d, g) == {b[2] : b \in {x \in UNION Range(d.panels) : x[1] = g}}

\* Mutant: only the groups that are there count.
GroupFloor_LiveOnly(d, g) == Max({0} \union {k + 1 : k \in ViewOf(d, g).groups})

\* groupAllocationFloor.
GroupFloor(d, g) ==
    Max({ViewOf(d, g).seq} \union {k + 1 : k \in ViewOf(d, g).groups \union BoundGroups(d, g)})

ViewCreateGroup(d, g) ==
    LET k == GroupFloor(d, g) IN
    When(k < MaxOrdinal,
         [WithView(d, g) EXCEPT !.view[g].seq = k + 1, !.view[g].groups = @ \union {k}])

ViewRemoveGroup(d, g, k) ==
    When(k \in ViewOf(d, g).groups,
         [d EXCEPT !.view[g].seq = GroupFloor(d, g), !.view[g].groups = @ \ {k}])

Resolves(d, b) == b[1] \in DOMAIN d.graphs /\ b[2] \in ViewOf(d, b[1]).groups

-----------------------------------------------------------------------------
(* What the canvas remembers.                                                 *)

\* view.setNetDisplay and, without "guide" and from either display to tags,
\* view.setNetCollapsed: a guide is drawn only between collapsed ends.
ViewSetNetDisplay(d, g, net, mode) ==
    LET with(S, in) == IF in THEN S \union {net} ELSE S \ {net}
        shown == [ViewOf(d, g) EXCEPT !.collapsed = with(@, mode # "noodle"),
                                      !.guides = with(@, mode = "guide")]
    IN  When(net \in DOMAIN d.graphs[g].nets,
             IF shown = ViewOf(d, g) THEN d ELSE [WithView(d, g) EXCEPT !.view[g] = shown])

ViewSetNetCollapsed(d, g, net, collapsed) ==
    IF collapsed /\ net \in ViewOf(d, g).collapsed THEN {d}
    ELSE ViewSetNetDisplay(d, g, net, IF collapsed THEN "tags" ELSE "noodle")

ViewSetAllNetsDisplay(d, g, mode) ==
    LET nets == DOMAIN d.graphs[g].nets
        shown == [ViewOf(d, g) EXCEPT !.collapsed = IF mode = "noodle" THEN {} ELSE nets,
                                      !.guides = IF mode = "guide" THEN nets ELSE {}]
    IN  {IF shown = ViewOf(d, g) THEN d ELSE [WithView(d, g) EXCEPT !.view[g] = shown]}

\* selection.move: what is moved is given a place, and so are endpoint tags.
SelectionMove(d, g, nodes, reroutes, tags) ==
    LET gr == d.graphs[g]
        placed == [d EXCEPT !.tags = @ \union tags]
    IN  When(/\ nodes \subseteq DOMAIN gr.nodes /\ reroutes \subseteq gr.reroutes
             /\ \A t \in tags : /\ t[1] = g /\ t[2] \in DOMAIN gr.nets
                                /\ Len(t) = 4 => t[4] \in gr.nets[t[2]].sinks,
             IF nodes \union reroutes = {} THEN placed
             ELSE [WithView(placed, g) EXCEPT !.view[g].nodes = @ \union nodes,
                                              !.view[g].reroutes = @ \union reroutes])
===============================================================================
