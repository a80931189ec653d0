------------------------------- MODULE MCEditor -------------------------------
(* Documents to start from, and values for the constants of Editor. *)
EXTENDS Editor

In == <<"in">>
Out == <<"out">>
PortsDef == {In}
InsDef == PortsDef \union {<<"fam", 0>>}
OutsDef == {Out}
NamesDef == {<<"a">>}
ItemNamesDef == {"in", "acc", "out"}
FamiliesDef == {"fam"}
DefinitionsDef == <<"g0", "g1">>

PlainNode == [body |-> NoGraph, dyn |-> <<>>, vals |-> {}, region |-> NoRegion]
Instance(def) == [PlainNode EXCEPT !.body = def]
EmptyGraph == [nodes |-> <<>>, links |-> <<>>, nets |-> <<>>, reroutes |-> {}, sources |-> {},
               selectors |-> <<>>, boundary |-> [present |-> FALSE, ins |-> <<>>, outs |-> <<>>],
               next |-> 1]
Blank == [graphs |-> (Root :> EmptyGraph), view |-> <<>>, tags |-> {}, tops |-> <<>>,
          panels |-> <<>>, panelSeq |-> 0]
Item(id, b, also) == [id |-> id, binds |-> b, also |-> also, promoted |-> FALSE]
Wire(from, to) == [from |-> from, to |-> to]

\* Three nodes: the first drives the second through a reroute, the third
\* through a net; the third feeds a selector, as a source does.
Wired == [Blank EXCEPT
    !.graphs = (Root :> [EmptyGraph EXCEPT
        !.nodes = [n \in 1 .. 3 |-> PlainNode],
        !.reroutes = {4}, !.sources = {5},
        !.selectors = (6 :> [cands |-> <<7, 8>>, pick |-> 7]),
        !.links = (9 :> Wire(Port(1, Out), Reroute(4))) @@ (10 :> Wire(Reroute(4), Port(2, In)))
                    @@ (11 :> Wire(Source(5), Candidate(6, 7))) @@ (12 :> Wire(Port(3, Out), Candidate(6, 8))),
        !.nets = (13 :> [name |-> <<"a">>, source |-> Port(1, Out), sinks |-> {Port(3, In)}]),
        !.next = 14]),
    !.view = (Root :> [EmptyView EXCEPT !.nodes = 1 .. 3, !.collapsed = {13}, !.guides = {13},
                                        !.groups = {0}, !.seq = 1]),
    !.tags = {<<Root, 13, "source">>, <<Root, 13, "sink", Port(3, In)>>}]

\* A definition of two nodes, used twice.  One occurrence has wiring of its own.
SubGraph == [EmptyGraph EXCEPT
    !.nodes = (4 :> PlainNode) @@ (5 :> PlainNode),
    !.links = (6 :> Wire(Port(4, Out), Port(5, In))),
    !.boundary = [present |-> TRUE, ins |-> <<Item("in", Port(4, In), <<Port(5, <<"in2">>)>>)>>,
                  outs |-> <<Item("out", Port(5, Out), <<>>)>>],
    !.next = 7]
Shared == [Blank EXCEPT
    !.graphs = (Root :> [EmptyGraph EXCEPT
                    !.nodes = (1 :> PlainNode) @@ (2 :> Instance("sub")) @@ (3 :> Instance("sub")),
                    !.links = (6 :> Wire(Port(1, Out), Port(2, In))), !.next = 7])
                @@ ("sub" :> SubGraph),
    !.tops = (<<2>> :> [NoTopology EXCEPT !.body = "sub", !.sup = {<<"link", 6>>}])]

\* A definition used twice by another one; inside the second use, one of the
\* two ports the wire between them reaches is cut off.
Leaf == [EmptyGraph EXCEPT
    !.nodes = [n \in 1 .. 2 |-> PlainNode],
    !.boundary = [present |-> TRUE, ins |-> <<Item("in", Port(1, In), <<Port(2, In)>>)>>,
                  outs |-> <<Item("out", Port(1, Out), <<>>)>>],
    !.next = 3]
Middle == [EmptyGraph EXCEPT
    !.nodes = [n \in 1 .. 2 |-> Instance("leaf")],
    !.links = (3 :> Wire(Port(1, Out), Port(2, In))),
    !.boundary = [present |-> TRUE, ins |-> <<Item("in", Port(1, In), <<>>)>>,
                  outs |-> <<Item("out", Port(2, Out), <<>>)>>],
    !.next = 4]
Nested == [Blank EXCEPT
    !.graphs = (Root :> [EmptyGraph EXCEPT !.nodes = (1 :> Instance("middle")), !.next = 2])
                 @@ ("middle" :> Middle) @@ ("leaf" :> Leaf),
    !.tops = (<<1, 2>> :> [NoTopology EXCEPT
        !.body = "leaf", !.next = 1,
        !.sup = {<<"leg", LinkDelivery("middle", 3),
                   <<[graph |-> "leaf", item |-> "in", bind |-> Port(2, In)]>>>>},
        !.links = (0 :> Wire(<<"body", Port(1, Out)>>, <<"body", Port(2, In)>>))])]

\* A node that repeats its body, and one with a family of inputs.
Step == [Leaf EXCEPT
    !.boundary.ins = <<Item("in", Port(1, In), <<>>), Item("acc", Port(2, In), <<>>)>>]
Fold == [NoRegion EXCEPT !.kind = "fold", !.elements = {"in"}, !.states = {"acc"},
                         !.roles = ("out" :> <<"state", "acc">>)]
Repeated == [Blank EXCEPT
    !.graphs = (Root :> [EmptyGraph EXCEPT
                    !.nodes = (1 :> PlainNode)
                        @@ (2 :> [Instance("step") EXCEPT !.region = Fold, !.vals = {<<"acc">>}])
                        @@ (3 :> [PlainNode EXCEPT !.dyn = ("fam" :> [members |-> {0, 1}, seq |-> 2])]),
                    !.links = (4 :> Wire(Port(1, Out), Port(2, In)))
                                @@ (5 :> Wire(Port(2, Out), Port(3, <<"fam", 0>>))),
                    !.next = 6])
                @@ ("step" :> Step)]

\* Every kind of allocation cursor has moved once: a group bound by a mode
\* panel, a family of inputs, an occurrence with a wire of its own.
One == [EmptyGraph EXCEPT
    !.nodes = (1 :> PlainNode),
    !.boundary = [present |-> TRUE, ins |-> <<Item("in", Port(1, In), <<>>)>>,
                  outs |-> <<Item("out", Port(1, Out), <<>>)>>],
    !.next = 2]
Remembered == [Blank EXCEPT
    !.graphs = (Root :> [EmptyGraph EXCEPT
                    !.nodes = (1 :> Instance("one"))
                        @@ (2 :> [PlainNode EXCEPT !.dyn = ("fam" :> [members |-> {0}, seq |-> 1])]),
                    !.next = 3])
                @@ ("one" :> One),
    !.view = (Root :> [EmptyView EXCEPT !.groups = {0}, !.seq = 1]),
    !.tops = (<<1>> :> [NoTopology EXCEPT
        !.body = "one", !.next = 1,
        !.links = (0 :> Wire(<<"body", Port(1, Out)>>,
                             <<"boundary", <<1>>, In, <<[graph |-> "one", item |-> "in", bind |-> Port(1, In)]>>>>))]),
    !.panels = (0 :> {<<Root, 0>>}), !.panelSeq = 1]

\* Undo and redo are explored where a mode panel was made: from Remembered,
\* and from the others once a command made one.
Starts == {Wired, Shared, Nested, Repeated, Remembered}
ASSUME StartsAreWellFormed == \A d \in Starts : WellFormed(d)
EditSpec ==
    /\ \E d \in Starts : Opened(d)
    /\ [][Edit \/ (doc.panelSeq > 0 /\ History)]_vars
===============================================================================
