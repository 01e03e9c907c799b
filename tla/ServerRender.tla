----------------------------- MODULE ServerRender -----------------------------
(***************************************************************************)
(* The server's rendering of an application                                *)
(* (plec-server-engine/src/ssr/render.rs): the markup with the comments    *)
(* that name every place in it, and the record of the branches and rows    *)
(* that were chosen, from which the browser adopts the page.               *)
(***************************************************************************)
EXTENDS Templates

\* A name in the markup: what it marks, the path of the component or row and
\* the node.  A path is a sequence of <<"component", call>> and
\* <<"loop", node, key>>.
Mark(role, path, node) == <<role, path, node>>
Sentinel == <<"", <<>>, 0>>
NoMark == <<"none", <<>>, 0>>

Tree(kind, mark, tag, kids) == [kind |-> kind, mark |-> mark, tag |-> tag, kids |-> kids]
Comment(role, path, node) == Tree("comment", Mark(role, path, node), "", <<>>)
Enclosed(role, path, node, inside) ==
    <<Comment(role, path, node)>> \o inside \o <<Comment(role \o "-end", path, node)>>

\* nested: records go to this component's path; row: the row it is in.
NoFrame == [component |-> "none", nodes |-> <<>>, scope |-> <<>>]
RootScope == [path |-> <<>>, s |-> FALSE, p |-> FALSE, item |-> NoItem, cookie |-> FALSE,
              nested |-> FALSE, owner |-> <<>>, slot |-> NoFrame]

\* What render_node returns: markup, and the records so far: a function from
\* <<component path, node>>.
Rendered(html, records) == [html |-> html, records |-> records]

\* A conditional in a row of the root component has no record; that of a
\* nested component keeps the last row's.
RecordBranch(records, scope, index, side) ==
    IF scope.nested \/ scope.item = NoItem THEN (<<scope.owner, index>> :> side) @@ records
    ELSE records

RECURSIVE RenderNode(_, _, _, _, _)

RenderAll(app, component, nodes, scope, records) ==
    FoldLeft(LAMBDA done, index :
                 LET next == RenderNode(app, component, index, scope, done.records)
                 IN  Rendered(done.html \o next.html, next.records),
             Rendered(<<>>, records), nodes)

\* render_component: the state initializers, then the root.  The row of the
\* call is kept.
RenderComponent(app, component, scope, records) ==
    RenderNode(app, component, app.tables[component].root,
               [scope EXCEPT !.s = app.components[component].initial], records)

\* render_loop: a row has a path of its own.
RenderRows(app, component, index, scope, records) ==
    FoldLeft(LAMBDA done, item :
                 LET path == Append(scope.path, <<"loop", index, item.id>>)
                     row == RenderNode(app, component, RowTemplate(app.tables[component], index),
                                       [scope EXCEPT !.path = path, !.item = item], done.records)
                 IN  Rendered(done.html \o Enclosed("loop", path, 0, row.html), row.records),
             Rendered(<<>>, records), app.items)

\* render_component_node: the slot's content keeps the scope of the call.
RenderCall(app, component, index, scope, records) ==
    LET node == app.tables[component].nodes[index]
        path == Append(scope.path, <<"component", index>>)
    IN  RenderComponent(app, node.target,
            [scope EXCEPT !.p = Value(node.read, scope), !.path = path, !.nested = TRUE,
                          !.owner = path,
                          !.slot = [component |-> component, nodes |-> node.kids, scope |-> scope]],
            records)

RenderNode(app, component, index, scope, records) ==
    LET node == app.tables[component].nodes[index]
        within(role, inside) ==
            Rendered(Enclosed(role, scope.path, index, inside.html), inside.records)
        side == IF Value(node.read, scope) THEN 1 ELSE IF Len(node.kids) = 2 THEN 2 ELSE 0
    IN  CASE node.kind = "element" ->
                 LET inside == RenderAll(app, component, node.kids, scope, records)
                 IN  Rendered(<<Tree("element", Mark("node", scope.path, index), node.tag,
                                     inside.html)>>, inside.records)
          [] node.kind = "text" ->
                 Rendered(<<Comment("text", scope.path, index),
                            IF Value(node.read, scope) THEN Tree("text", NoMark, "on", <<>>)
                            ELSE Tree("comment", Sentinel, "", <<>>)>>, records)
          [] node.kind = "conditional" ->
                 within("conditional",
                        RenderAll(app, component, IF side = 0 THEN <<>> ELSE <<node.kids[side]>>,
                                  scope, RecordBranch(records, scope, index, side)))
          [] node.kind = "loop" ->
                 LET rows == RenderRows(app, component, index, scope, records)
                 IN  Rendered(rows.html, (<<scope.owner, index>> :> app.items) @@ rows.records)
          [] node.kind = "slot" ->
                 within("slot", RenderAll(app, scope.slot.component, scope.slot.nodes,
                                          scope.slot.scope, records))
          [] node.kind = "component" ->
                 within("component", RenderCall(app, component, index, scope, records))

NoRecords == [at \in {} |-> 0]
Document(app) == RenderComponent(app, "Main", RootScope, NoRecords)
===============================================================================
