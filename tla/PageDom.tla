------------------------------- MODULE PageDom -------------------------------
(***************************************************************************)
(* The browser's document as the runtime uses it: nodes with an identity,  *)
(* created detached, moved and removed.  A world is a record with the      *)
(* fields dom, a sequence of nodes, made, the node an operation made, and  *)
(* refused, why the work was given up, or "no".                            *)
(***************************************************************************)
EXTENDS ServerRender

Nowhere == 0    \* no parent; before no node: at the end

DomNode(kind, mark, tag) ==
    [kind |-> kind, mark |-> mark, tag |-> tag, up |-> Nowhere, kids |-> <<>>]

\* The node that is created next.
NextNode(w) == Len(w.dom) + 1

Create(w, kind, mark, tag) ==
    [w EXCEPT !.dom = Append(@, DomNode(kind, mark, tag)), !.made = NextNode(w)]

Fragment(w) == Create(w, "fragment", NoMark, "")

Detach(w, x) ==
    LET up == w.dom[x].up
    IN  IF up = Nowhere THEN w
        ELSE [w EXCEPT !.dom[up].kids = Remove(@, x), !.dom[x].up = Nowhere]

Attach(w, x, parent, before) ==
    LET kids == w.dom[parent].kids
        at == IF before = Nowhere THEN Len(kids) + 1 ELSE SelectInSeq(kids, LAMBDA k : k = before)
    IN  [w EXCEPT !.dom[parent].kids = InsertAt(kids, at, x), !.dom[x].up = parent]

\* insertBefore moves a node that has a parent.
InsertBefore(w, x, parent, before) == Attach(Detach(w, x), x, parent, before)
\* ... the node just made
MoveMade(w, parent, before) == InsertBefore(w, w.made, parent, before)

\* What is done with each of a sequence in turn; an error ends the work.
Each(op(_, _), w, of) ==
    FoldLeft(LAMBDA v, x : IF v.refused = "no" THEN op(v, x) ELSE v, w, of)
\* The same with a set, in an order that does not matter.
EachOf(op(_, _), w, set) ==
    FoldSet(LAMBDA x, v : IF v.refused = "no" THEN op(v, x) ELSE v, w, set)

InsertAllBefore(w, fragment, parent, before) ==
    Each(LAMBDA v, x : InsertBefore(v, x, parent, before), w, w.dom[fragment].kids)

\* createComment or createElement, and appendChild.
AppendNew(w, kind, mark, tag, parent) ==
    Attach(Create(w, kind, mark, tag), NextNode(w), parent, Nowhere)

NextSibling(w, x) ==
    LET kids == w.dom[w.dom[x].up].kids
        at == SelectInSeq(kids, LAMBDA k : k = x)
    IN  IF at = Len(kids) THEN Nowhere ELSE kids[at + 1]

RECURSIVE Within(_, _)
Within(w, x) == {x} \union UNION {Within(w, k) : k \in ToSet(w.dom[x].kids)}

RECURSIVE Above(_, _)
Above(w, x) == IF w.dom[x].up = Nowhere THEN x ELSE Above(w, w.dom[x].up)

\* The siblings between two markers, with all that is in them.
Between(w, start, end) ==
    LET kids == w.dom[w.dom[start].up].kids
        place(x) == SelectInSeq(kids, LAMBDA k : k = x)
    IN  UNION {Within(w, kids[at]) : at \in place(start) + 1 .. place(end) - 1}

\* What is to be seen of nodes.
RECURSIVE Seen(_, _)
Seen(w, nodes) ==
    FoldLeft(LAMBDA page, x :
                 LET node == w.dom[x]
                 IN  page \o (IF node.kind = "element"
                              THEN <<[tag |-> node.tag, kids |-> Seen(w, node.kids)]>>
                              ELSE IF node.kind = "text" /\ node.tag = "on"
                              THEN <<[tag |-> "text", kids |-> <<>>]>> ELSE <<>>),
             <<>>, nodes)

\* The document that a parser makes of markup, below an element.
RECURSIVE Parse(_, _, _)
Parse(w, trees, parent) ==
    Each(LAMBDA v, tree :
             Parse(AppendNew(v, tree.kind, tree.mark, tree.tag, parent), tree.kids, NextNode(v)),
         w, trees)
===============================================================================
