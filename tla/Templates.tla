------------------------------ MODULE Templates ------------------------------
(***************************************************************************)
(* What a component's template says and the node table it is lowered to    *)
(* (plec-lowering/src/node.rs).                                            *)
(*                                                                         *)
(* An expression reads one thing: the component's state "s", its prop "p", *)
(* a field of the row "row", or a cookie "cookie".  A value is on or off;  *)
(* off is falsy and shows as the empty text.                               *)
(***************************************************************************)
EXTENDS Naturals, Sequences, SequencesExt, TLC

Element(tag, kids) == [kind |-> "element", tag |-> tag, kids |-> kids]
Text(read) == [kind |-> "text", read |-> read]
When(test, sides) == [kind |-> "conditional", read |-> test, kids |-> sides]
ForEach(row) == [kind |-> "loop", kids |-> <<row>>]
Call(name, component, prop, kids) ==
    [kind |-> "component", name |-> name, target |-> component, read |-> prop, kids |-> kids]
Children == [kind |-> "slot"]

(***************************************************************************)
(* Lowering                                                                *)
(***************************************************************************)

Top == 0        \* no parent

\* A node as the table has it: kids are an element's children, a
\* conditional's sides, a call's slot content.
Node(tree, parent, kids) ==
    [kind |-> tree.kind, parent |-> parent, kids |-> kids,
     tag |-> IF tree.kind = "element" THEN tree.tag ELSE "",
     read |-> IF tree.kind \in {"text", "conditional", "component"} THEN tree.read ELSE "",
     name |-> IF tree.kind = "component" THEN tree.name ELSE "",
     target |-> IF tree.kind = "component" THEN tree.target ELSE "",
     loop |-> 0, within |-> 0]

\* loops: the row templates; active: the loop whose row is being lowered, or 0.
NoNodes == [nodes |-> <<>>, loops |-> <<>>, edges |-> <<>>, active |-> 0, made |-> 0]

Push(table, tree, parent, kids) ==
    [table EXCEPT !.nodes = Append(@, [Node(tree, parent, kids) EXCEPT !.within = table.active]),
                  !.made = Len(table.nodes) + 1]

\* edges: an expression's dependency edges are added when its node is complete.
Edges(table) == [table EXCEPT !.edges = Append(@, table.made)]

RECURSIVE Lower(_, _, _)

LowerAll(table, trees, parent) ==
    FoldLeft(LAMBDA done, tree :
                 LET next == Lower(done.table, tree, parent)
                 IN  [table |-> next, made |-> Append(done.made, next.made)],
             [table |-> table, made |-> <<>>], trees)

\* An element is there before its children and a conditional before its sides,
\* a loop comes after its row and a call after its slot content.
Fill(below, here) == [below.table EXCEPT !.nodes[here].kids = below.made, !.made = here]

LowerElement(table, tree, parent) ==
    LET here == Len(table.nodes) + 1
    IN  Fill(LowerAll(Push(table, tree, parent, <<>>), tree.kids, here), here)

LowerConditional(table, tree, parent) ==
    Edges(Fill(LowerAll(Push(table, tree, parent, <<>>), tree.kids, Top), Len(table.nodes) + 1))

\* A loop's handle is read before its row is lowered and its entry made after:
\* a loop in the row would take the same handle.
LowerLoop(table, tree, parent) ==
    LET handle == Len(table.loops) + 1
        row == LowerAll([table EXCEPT !.active = handle], tree.kids, Top)
        looped == Push([row.table EXCEPT !.active = table.active, !.loops = @ \o row.made],
                       tree, parent, <<>>)
    IN  [looped EXCEPT !.nodes[looped.made].loop = handle]

LowerCall(table, tree, parent) ==
    LET content == LowerAll(table, tree.kids, Top)
    IN  Edges(Push(content.table, tree, parent, content.made))

Lower(table, tree, parent) ==
    CASE tree.kind = "element" -> LowerElement(table, tree, parent)
      [] tree.kind = "conditional" -> LowerConditional(table, tree, parent)
      [] tree.kind = "loop" -> LowerLoop(table, tree, parent)
      [] tree.kind = "component" -> LowerCall(table, tree, parent)
      [] tree.kind = "text" -> Edges(Push(table, tree, parent, <<>>))
      [] tree.kind = "slot" -> Push(table, tree, parent, <<>>)

\* The tables of an application's components; the root is the last node of a
\* call and the first of anything else.
Lowered(components) ==
    [name \in DOMAIN components |->
        LET done == Lower(NoNodes, components[name].root, Top)
        IN  [nodes |-> done.nodes, loops |-> done.loops, edges |-> done.edges, root |-> done.made]]

RowTemplate(table, n) == table.loops[table.nodes[n].loop]

\* What the compiler accepts: a loop and a slot have an element around them, a
\* conditional's sides are one node each, content is for a component with a
\* slot, and a component has one at most.
RECURSIVE Slots(_)
Slots(tree) ==
    IF tree.kind = "slot" THEN 1
    ELSE IF tree.kind = "text" THEN 0
    ELSE FoldLeft(LAMBDA sum, kid : sum + Slots(kid), 0, tree.kids)

RECURSIVE Lowers(_, _, _)
Lowers(components, tree, inElement) ==
    LET below(nested) == \A i \in DOMAIN tree.kids : Lowers(components, tree.kids[i], nested)
    IN  CASE tree.kind = "element" -> below(TRUE)
          [] tree.kind = "conditional" -> Len(tree.kids) \in 1..2 /\ below(FALSE)
          [] tree.kind = "loop" -> inElement /\ Len(tree.kids) = 1 /\ below(FALSE)
          [] tree.kind = "component" ->
                 /\ tree.target \in DOMAIN components
                 /\ tree.kids # <<>> => Slots(components[tree.target].root) = 1
                 /\ below(FALSE)
          [] tree.kind = "text" -> TRUE
          [] tree.kind = "slot" -> inElement

Accepted(components) ==
    \A name \in DOMAIN components :
        Slots(components[name].root) <= 1 /\ Lowers(components, components[name].root, FALSE)

(***************************************************************************)
(* The meaning of a template: what is to be seen, comments and empty texts *)
(* apart, and which component instances there are.  An instance is named   *)
(* by its calls, with the rows they stand in; states gives the state of    *)
(* those that have been touched.                                           *)
(***************************************************************************)

NoItem == [id |-> "none", on |-> FALSE]

Value(read, env) ==
    CASE read = "s" -> env.s
      [] read = "p" -> env.p
      [] read = "row" -> env.item.on
      [] read = "cookie" -> env.cookie

StateOf(app, who, states) ==
    IF who \in DOMAIN states THEN states[who] ELSE app.components[who[Len(who)].component].initial

Nothing == [page |-> <<>>, who |-> {}]
Beside(a, b) == [page |-> a.page \o b.page, who |-> a.who \union b.who]

RECURSIVE Shows(_, _, _, _)

ShowAll(app, states, trees, env) ==
    FoldLeft(LAMBDA done, tree : Beside(done, Shows(app, states, tree, env)), Nothing, trees)

Instance(app, states, who, prop, cookie, slot) ==
    LET component == app.components[who[Len(who)].component]
        inside == Shows(app, states, component.root,
                        [s |-> StateOf(app, who, states), p |-> prop, item |-> NoItem,
                         cookie |-> cookie, who |-> who, slot |-> slot])
    IN  [inside EXCEPT !.who = @ \union {who}]

Shows(app, states, tree, env) ==
    CASE tree.kind = "element" ->
             LET inside == ShowAll(app, states, tree.kids, env)
             IN  [inside EXCEPT !.page = <<[tag |-> tree.tag, kids |-> @]>>]
      [] tree.kind = "text" ->
             IF Value(tree.read, env) THEN [Nothing EXCEPT !.page = <<[tag |-> "text", kids |-> <<>>]>>]
             ELSE Nothing
      [] tree.kind = "conditional" ->
             IF Value(tree.read, env) THEN Shows(app, states, tree.kids[1], env)
             ELSE ShowAll(app, states, Tail(tree.kids), env)
      [] tree.kind = "loop" ->
             FoldLeft(LAMBDA done, item :
                          Beside(done, Shows(app, states, tree.kids[1], [env EXCEPT !.item = item])),
                      Nothing, app.items)
      [] tree.kind = "component" ->
             Instance(app, states,
                      Append(env.who, [call |-> tree.name, component |-> tree.target,
                                       row |-> env.item.id]),
                      Value(tree.read, env), env.cookie, [trees |-> tree.kids, env |-> env])
      [] tree.kind = "slot" -> ShowAll(app, states, env.slot.trees, env.slot.env)

Main == <<[call |-> "root", component |-> "Main", row |-> "none"]>>
NoSlot == [trees |-> <<>>, env |-> <<>>]

Meaning(app, states) == Instance(app, states, Main, FALSE, app.cookie, NoSlot)
===============================================================================
