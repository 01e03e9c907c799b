----------------------------- MODULE RenderingMC -----------------------------
(***************************************************************************)
(* Applications for Rendering: a main component, the child it calls with   *)
(* or without content for its slot, and a leaf that both may call.  Calls  *)
(* that may be on the page together have different names.                  *)
(***************************************************************************)
EXTENDS Rendering, Contract

CONSTANT Shown      \* "agreeing", or the name of a divergent application

Items == <<[id |-> "a", on |-> TRUE], [id |-> "b", on |-> FALSE]>>

B(read) == Element("b", <<Text(read)>>)
I(tree) == Element("i", <<tree>>)
Li(trees) == ForEach(Element("li", trees))
Child(read) == Call("child", "Child", read, <<>>)
Leaf(read) == Call("leaf", "Leaf", read, <<>>)
OtherLeaf(read) == Call("other", "Leaf", read, <<>>)

Component(root, initial) == [root |-> root, initial |-> initial]
Application(pieces, root, first, second) ==
    [components |-> ("Main" :> Component(Element("main", pieces), first))
                 @@ ("Child" :> Component(root, second))
                 @@ ("Leaf" :> Component(Element("em", <<Text("p"), When("s", <<B("s")>>)>>), TRUE))
                 @@ ("Frame" :> Component(Element("q", <<Children>>), FALSE)),
     items |-> Items, cookie |-> FALSE]
Applied(pieces, roots) ==
    {Application(p, root, first, second) :
        p \in pieces, root \in roots, first \in BOOLEAN, second \in BOOLEAN}

(***************************************************************************)
(* Applications whose pages are as their templates say.                    *)
(***************************************************************************)

Plain == {
    Text("s"),
    When("s", <<B("s")>>),
    When("s", <<I(When("s", <<B("s")>>)), Text("s")>>),
    Element("ul", <<Li(<<Text("row"), Text("s")>>)>>) }

Calling == {
    Child("s"),
    When("s", <<I(Child("s"))>>),
    When("s", <<I(Child("s")), I(Call("second", "Child", "s", <<>>))>>),
    When("s", <<Element("i", <<Child("s"), When("s", <<B("s")>>)>>)>>),
    Li(<<Child("row"), When("row", <<B("s"), B("row")>>)>>),
    Li(<<Child("s"), When("s", <<Element("b", <<>>)>>)>>) }

Roots == {
    Text("p"), Leaf("p"),
    Element("div", <<Text("s"), When("p", <<B("s"), B("p")>>)>>),
    Element("div", <<When("s", <<I(When("p", <<I(Leaf("p"))>>))>>), Text("p")>>),
    Element("div", <<Li(<<Text("row"), Leaf("row"), Text("s")>>)>>),
    Element("div", <<Li(<<Leaf("s")>>), When("p", <<B("s")>>)>>) }

Content == {
    <<B("s")>>,
    <<Text("s"), When("s", <<B("s")>>)>>,
    <<Element("i", <<Leaf("s"), When("s", <<B("s"), I(OtherLeaf("s"))>>)>>)>>,
    <<Element("ul", <<Li(<<Text("row"), Leaf("row")>>)>>)>>,
    <<Call("inner", "Child", "s", <<Text("s")>>)>> }

Slotted(content) == Call("child", "Child", "s", content)

SlotRoots == {
    Element("div", <<Children>>),
    Element("div", <<Element("p", <<Text("s"), Children>>), When("p", <<B("p")>>)>>),
    Element("div", <<Call("own", "Leaf", "p", <<>>), Children, Li(<<Text("row")>>)>>) }

Agreeing ==
    Applied({<<a>> : a \in Calling} \union {<<a, b>> : a \in Plain, b \in Calling}, Roots)
      \union Applied({<<Slotted(c)>> : c \in Content}
                         \union {<<When("s", <<I(Slotted(c))>>), Text("s")>> : c \in Content},
                     SlotRoots)

(***************************************************************************)
(* Applications whose pages come to differ from their templates (README).  *)
(***************************************************************************)

With(pieces, root) == Applied({pieces}, {root})
Div(trees) == Element("div", trees)
InBrowser(apps) == {[app EXCEPT !.cookie = TRUE] : app \in apps}

Divergent ==
    [BareCallInBranch |-> With(<<When("s", <<Child("s")>>), Text("s")>>, Leaf("p")),
     BareBranchInBranch |-> With(<<When("s", <<When("s", <<B("s")>>)>>), Text("s")>>, Leaf("p")),
     NestedLoop |-> With(<<Li(<<Li(<<Text("row")>>)>>)>>, Leaf("p")),
     BranchAtRoot |-> With(<<When("s", <<Element("i", <<Child("s"), Text("s")>>)>>)>>, When("p", <<B("p")>>)),
     SlotInBranch |-> With(<<Slotted(<<B("s")>>)>>, Div(<<When("p", <<I(Children)>>)>>)),
     SlotInLoop |-> With(<<Slotted(<<B("s")>>)>>, Div(<<Li(<<Children>>)>>)),
     SlotPassedOn |-> With(<<Slotted(<<B("s")>>), Text("s"), Text("s")>>,
                           Div(<<Call("pass", "Frame", "p", <<I(Children)>>)>>)),
     CookieInBranch |-> InBrowser(With(<<When("cookie", <<B("s")>>)>>, Leaf("p"))),
     PropInRow |-> With(<<Child("s")>>, Div(<<Li(<<Text("p")>>)>>)),
     SlotInRow |-> With(<<Li(<<Slotted(<<B("s")>>)>>)>>, Div(<<Children>>)),
     ReopenedInRow |-> With(<<Li(<<When("s", <<B("s")>>)>>)>>, Leaf("p")),
     RowReadInBranch |-> With(<<Li(<<When("s", <<B("row")>>)>>)>>, Leaf("p"))]

MCApplications == IF Shown = "agreeing" THEN Agreeing ELSE Divergent[Shown]

(***************************************************************************)
(* What the compiler refuses and what the browser does                     *)
(***************************************************************************)

Known == Agreeing \union UNION Range(Divergent)

RefusedByTheCompiler ==
    With(<<When("s", <<Li(<<Text("s")>>)>>)>>, Leaf("p"))
      \union With(<<Slotted(<<B("s")>>)>>, Leaf("p"))
      \union With(<<Slotted(<<Children>>)>>, Div(<<Children>>))
      \union With(<<Slotted(<<B("s")>>)>>, Div(<<Children, Children>>))

ASSUME
    /\ \A app \in Known : Accepted(app.components)
    /\ \A app \in RefusedByTheCompiler : ~Accepted(app.components)

Deepest == 12       \* MAX_NODE_GRAPH_DEPTH

\* An element may have an event, of the loop it was lowered in.
Events(table) ==
    { [target |-> n, loop |-> table.nodes[n].within] :
        n \in { n \in Handles(table) : table.nodes[n].kind = "element" } }

\* What the compiler accepts the browser does; content without a slot it
\* refuses as well.
ASSUME
    LET Validated(app) ==
            LET tables == Lowered(app.components)
            IN  ValidApplication(tables, [name \in DOMAIN tables |-> Events(tables[name])], Deepest)
    IN  /\ \A app \in Known \ Divergent.NestedLoop : Validated(app)
        /\ \A app \in With(<<Slotted(<<B("s")>>)>>, Leaf("p")) : ~Validated(app)

\* bootstrap_payload: the records of an instance, ordered by node.
RECURSIVE GraphAt(_, _, _)
GraphAt(tables, graph, path) ==
    IF path = <<>> THEN graph
    ELSE GraphAt(tables, IF Head(path)[1] = "component"
                         THEN tables[graph].nodes[Head(path)[2]].target ELSE graph, Tail(path))

StructureOf(tables, path, records) ==
    LET graph == GraphAt(tables, "Main", path)
        Ordered(kind) ==
            SetToSortSeq({ n \in Handles(tables[graph]) :
                             <<path, n>> \in DOMAIN records /\ KindOf(tables[graph], n) = kind }, <)
        branches == Ordered("conditional")
        loops == Ordered("loop")
        Keys(items) == [i \in DOMAIN items |-> items[i].id]
    IN  [graph |-> graph,
         branches |-> [i \in DOMAIN branches |-> [node |-> branches[i],
                                                 side |-> records[<<path, branches[i]>>]]],
         loops |-> [i \in DOMAIN loops |-> [node |-> loops[i],
                                           keys |-> Keys(records[<<path, loops[i]>>])]]]

StructuresOf(compiled, records) ==
    { StructureOf(compiled.tables, path, records) : path \in { at[1] : at \in DOMAIN records } }

\* The browser takes the record of every rendering.
ASSUME \A app \in Known :
    LET compiled == Compiled(app)
        records == Document(compiled).records
    IN  /\ ValidStructure(compiled.tables, StructuresOf(compiled, records))
        /\ \A at \in DOMAIN records :
               KindOf(compiled.tables[GraphAt(compiled.tables, "Main", at[1])], at[2])
                   \in {"conditional", "loop"}

(***************************************************************************)
(* The traversals against their definitions                                *)
(***************************************************************************)

Small == 1..3
SmallKids == { <<>> } \union { <<k>> : k \in Small \union {4} } \union { <<k, l>> : k, l \in Small }
SmallTables ==
    { [root |-> root, loops |-> loops,
       nodes |-> [n \in Small |-> [kind |-> "element", kids |-> kids[n], parent |-> NoParent]]] :
        root \in Small, loops \in { <<>> } \union { <<n>> : n \in Small },
        kids \in [Small -> SmallKids] }

\* How often a node is owned, or a root.
Claims(table, n) ==
    Cardinality({ <<m, k>> \in Small \X (1..2) :
                    k \in DOMAIN table.nodes[m].kids /\ table.nodes[m].kids[k] = n })
    + (IF table.root = n THEN 1 ELSE 0) + (IF table.loops = <<n>> THEN 1 ELSE 0)

\* Every node has one owner or is a root, and is so many steps below one.
IsForest(table, deepest) ==
    /\ \A n \in Small : Range(table.nodes[n].kids) \subseteq Small /\ Claims(table, n) = 1
    /\ \E depth \in [Small -> 1..deepest] :
           \A n \in Small : \A k \in Range(table.nodes[n].kids) : depth[k] = depth[n] + 1

ASSUME \A table \in SmallTables, deepest \in 2..3 :
           ValidTopology(table, deepest) <=> IsForest(table, deepest)

SmallCalls == [Small -> UNION { [1..n -> Small] : n \in 0..2 }]

\* The components that are called from some, by way of others or not.
ASSUME \A calls \in SmallCalls :
    LET Step(from) == UNION { Range(calls[c]) : c \in from }
        Reach(c) == Step({c}) \union Step(Step({c})) \union Step(Step(Step({c})))
    IN  AcyclicCalls(calls) <=> \A c \in Small : c \notin Reach(c)

\* The props of a call are the parameters but "children", each once and of its kind.
Entries(kinds) == { [name |-> name, kind |-> kind] : name \in {"children", "a", "b"}, kind \in kinds }
ASSUME
    \A parameters, props \in UNION { [1..n -> Entries({"value", "callable"})] : n \in 0..2 } :
        ValidParameters(parameters) =>
            (ValidProps(parameters, props)
               <=> /\ Range(props) = { p \in Range(parameters) : p.name # "children" }
                   /\ Cardinality(Range(props)) = Len(props))
===============================================================================
