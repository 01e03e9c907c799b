----------------------------- MODULE PageRuntime -----------------------------
(***************************************************************************)
(* How the browser runtime builds, adopts and updates a page               *)
(* (plec-client/src/runtime.rs, and refresh_state, refresh_prop of vm.rs). *)
(* Each component instance keeps the document nodes of its own template;   *)
(* slot content belongs to the instance that wrote it.  A method is an     *)
(* operator from a world to a world:                                       *)
(*   dom, made     the document, the node just made (PageDom)              *)
(*   insts, born   TypedRuntime by instance, and how many there were       *)
(*   local, regions, skipped  the out-parameters of a row's or a page's    *)
(*                 walk                                                    *)
(*   refused       why an adoption was given up, or "no"                   *)
(* An instance has nodes (node -> document node), conds (its static        *)
(* conditional regions), rows (<<loop node, key>> -> row) and the requests *)
(* and refreshes that are queued.                                          *)
(***************************************************************************)
EXTENDS PageDom, FiniteSetsExt

None == [n \in {} |-> 0]
NoRow == [loop |-> 0, item |-> NoItem]
RowKey(row) == <<row.loop, row.item.id>>

NewInstance(component, who, path, parent, call, start, p, initial) ==
    [component |-> component, who |-> who, path |-> path, parent |-> parent, call |-> call,
     start |-> start, s |-> initial, p |-> p, nodes |-> None, conds |-> None, rows |-> None,
     requests |-> <<>>, slots |-> <<>>, refreshes |-> <<>>]

Table(w, i) == w.app.tables[w.insts[i].component]
NodeOf(w, i, n) == Table(w, i).nodes[n]
Eval(w, i, n, row) ==
    Value(NodeOf(w, i, n).read, [s |-> w.insts[i].s, p |-> w.insts[i].p, item |-> row.item,
                                 cookie |-> w.app.cookie])

\* address_path
Address(w, i, row) ==
    IF row = NoRow THEN w.insts[i].path
    ELSE Append(w.insts[i].path, <<"loop", row.loop, row.item.id>>)

\* The side a conditional selects, 0 for none.
Side(w, i, n, row) ==
    IF Eval(w, i, n, row) THEN 1 ELSE IF Len(NodeOf(w, i, n).kids) = 2 THEN 2 ELSE 0

Put(w, i, n, x, row) ==
    IF row = NoRow THEN [w EXCEPT !.made = x, !.insts[i].nodes = (n :> x) @@ @]
    ELSE [w EXCEPT !.made = x, !.local = (n :> x) @@ @]
PutMade(w, i, n, row) == Put(w, i, n, w.made, row)

\* collect_branch_handles, and the two collect_..._branch_nodes
RECURSIVE Below(_, _)
Below(nodes, n) ==
    {n} \union (IF nodes[n].kind \in {"element", "component", "conditional"}
                THEN UNION {Below(nodes, k) : k \in ToSet(nodes[n].kids)} ELSE {})
BranchNodes(w, i, n, from) ==
    [k \in Below(Table(w, i).nodes, n) \intersect DOMAIN from |-> from[k]]

Region(start, end, side, nodes) == [start |-> start, end |-> end, side |-> side, nodes |-> nodes]

(***************************************************************************)
(* Bindings and refreshes                                                  *)
(***************************************************************************)

\* The nodes with an edge from a state or prop, in the order of the edges.
Reading(w, i, kinds, reads) ==
    SelectSeq(Table(w, i).edges,
              LAMBDA n : NodeOf(w, i, n).kind \in kinds /\ NodeOf(w, i, n).read \in reads)
AnyRead == {"s", "p", "row", "cookie"}

Write(w, i, n, x, row) ==
    [w EXCEPT !.dom[x].tag = IF Eval(w, i, n, row) THEN "on" ELSE ""]

\* apply_bindings_to_nodes
ApplyTo(w, i, nodes, reads, row) ==
    Each(LAMBDA v, n : IF n \in DOMAIN nodes THEN Write(v, i, n, nodes[n], row) ELSE v,
             w, Reading(w, i, {"text"}, reads))

\* queue_component_refreshes
QueueRefreshes(w, i, nodes, row) ==
    Each(LAMBDA v, n :
                 IF n \in DOMAIN nodes
                 THEN [v EXCEPT !.insts[i].refreshes =
                          Append(@, [call |-> n, start |-> nodes[n], p |-> Eval(v, i, n, row)])]
                 ELSE v,
             w, Reading(w, i, {"component"}, AnyRead))

RowAt(w, i, at) == [loop |-> at[1], item |-> w.insts[i].rows[at].item]
RowsOf(w, i) == DOMAIN w.insts[i].rows

\* Everything that is bound or called in a row.
BindRow(w, i, at, nodes, reads) ==
    QueueRefreshes(ApplyTo(w, i, nodes, reads, RowAt(w, i, at)),
                   i, w.insts[i].rows[at].nodes, RowAt(w, i, at))

\* apply_static_bindings
ApplyStatic(w, i) ==
    LET nodes == w.insts[i].nodes
        inRows == UNION {DOMAIN row.nodes : row \in Range(w.insts[i].rows)}
    IN  EachOf(LAMBDA v, at : BindRow(v, i, at, v.insts[i].rows[at].nodes, AnyRead),
               ApplyTo(w, i, [n \in DOMAIN nodes \ inRows |-> nodes[n]], AnyRead, NoRow),
               RowsOf(w, i))

(***************************************************************************)
(* Building                                                                *)
(***************************************************************************)

RECURSIVE Instantiate(_, _, _, _, _)

InstantiateElement(w, i, n, parent, row) ==
    LET x == NextNode(w)
        made == AppendNew(w, "element", Mark("node", Address(w, i, row), n),
                          NodeOf(w, i, n).tag, parent)
    IN  Put(Each(LAMBDA v, k : Instantiate(v, i, k, x, row), made, NodeOf(w, i, n).kids),
            i, n, x, row)

InstantiateText(w, i, n, parent, row) ==
    PutMade(AppendNew(w, "text", NoMark, "", parent), i, n, row)

\* The two comments around what a node stands for; the first is what is made.
\* The second is the node after it.
Boundaries(w, role, path, n, parent) ==
    [AppendNew(AppendNew(w, "comment", Mark(role, path, n), "", parent),
               "comment", Mark(role \o "-end", path, n), "", parent)
         EXCEPT !.made = NextNode(w)]
EndOf(start) == start + 1

InstantiateCall(w, i, n, parent, row) ==
    LET path == Address(w, i, row)
        start == NextNode(w)
        request == [call |-> n, p |-> Eval(w, i, n, row), row |-> row, start |-> start,
                    end |-> EndOf(start), path |-> Append(path, <<"component", n>>),
                    adopt |-> FALSE]
    IN  PutMade([Boundaries(w, "component", path, n, parent)
                     EXCEPT !.insts[i].requests = Append(@, request)], i, n, row)

InstantiateSlot(w, i, n, parent, row) ==
    PutMade([Boundaries(w, "slot", Address(w, i, row), n, parent)
                 EXCEPT !.insts[i].slots = Append(@, EndOf(NextNode(w)))], i, n, row)

\* The selected side, if there is one, is made at the end of the parent and
\* then moved.
FillBranch(w, i, n, side, end, row) ==
    LET parent == w.dom[end].up
    IN  IF side = 0 THEN w
        ELSE MoveMade(Instantiate(w, i, NodeOf(w, i, n).kids[side], parent, row), parent, end)
SideNodes(w, i, n, side, from) ==
    IF side = 0 THEN None ELSE BranchNodes(w, i, NodeOf(w, i, n).kids[side], from)

\* The nodes of the branch go from the row to the region.
TakeRegion(w, i, n, start, side) ==
    LET nodes == SideNodes(w, i, n, side, w.local)
    IN  [w EXCEPT !.local = [k \in DOMAIN @ \ DOMAIN nodes |-> @[k]],
                  !.regions = (n :> Region(start, EndOf(start), side, nodes)) @@ @]

InstantiateRowConditional(w, i, n, parent, row) ==
    LET start == NextNode(w)
        side == Side(w, i, n, row)
        bounds == Boundaries(w, "conditional", Address(w, i, row), n, parent)
    IN  TakeRegion(Put(FillBranch(bounds, i, n, side, EndOf(start), row), i, n, start, row),
                   i, n, start, side)

\* reconcile_static_conditional: the old side is removed, the new one made,
\* kept and bound.
CloseRegion(w, i, n) ==
    LET gone == Range(w.insts[i].conds[n].nodes)
    IN  [EachOf(Detach, w, gone) EXCEPT
             !.insts[i].nodes = [k \in {k \in DOMAIN @ : @[k] \notin gone} |-> @[k]],
             !.insts[i].conds = [k \in DOMAIN @ \ {n} |-> @[k]]]
\* A mutant: what is made in a branch is not bound to its values.
KeepRegionUnbound(w, i, n, start, end, side) ==
    [w EXCEPT !.insts[i].conds =
         (n :> Region(start, end, side, SideNodes(w, i, n, side, w.insts[i].nodes))) @@ @]
KeepRegion(w, i, n, start, end, side) ==
    LET nodes == SideNodes(w, i, n, side, w.insts[i].nodes)
    IN  ApplyTo([w EXCEPT !.insts[i].conds = (n :> Region(start, end, side, nodes)) @@ @],
                i, nodes, AnyRead, NoRow)
ReconcileStatic(w, i, n) ==
    LET region == w.insts[i].conds[n]
        side == Side(w, i, n, NoRow)
    IN  IF region.side = side THEN w
        ELSE KeepRegion(FillBranch(CloseRegion(w, i, n), i, n, side, region.end, NoRow),
                        i, n, region.start, region.end, side)

InstantiateConditional(w, i, n, parent) ==
    LET start == NextNode(w)
        closed == Region(start, EndOf(start), 0, None)
    IN  [ReconcileStatic([Boundaries(w, "conditional", w.insts[i].path, n, parent)
                              EXCEPT !.insts[i].conds = (n :> closed) @@ @], i, n)
             EXCEPT !.made = start]

(***************************************************************************)
(* Rows.  The items of a loop do not change here (see KeyedRows).          *)
(***************************************************************************)

\* row_conditional_selections: the conditionals below a row's template that a
\* selected side has, outermost first.
RECURSIVE RowConditionals(_, _, _, _)
RowConditionals(w, i, n, row) ==
    LET node == NodeOf(w, i, n)
        below(kids) == FoldLeft(LAMBDA done, k : done \o RowConditionals(w, i, k, row), <<>>, kids)
        side == Side(w, i, n, row)
    IN  CASE node.kind \in {"element", "component"} -> below(node.kids)
          [] node.kind = "conditional" ->
                 <<n>> \o (IF side = 0 THEN <<>> ELSE below(<<node.kids[side]>>))
          [] OTHER -> <<>>

\* reconcile_row_conditionals, for one of them
SetRowRegion(w, i, at, n, side) ==
    [w EXCEPT !.insts[i].rows[at].conds[n].side = side,
              !.insts[i].rows[at].conds[n].nodes = SideNodes(w, i, n, side, w.local)]
ReconcileRowConditional(w, i, at, n) ==
    LET conds == w.insts[i].rows[at].conds
        side == Side(w, i, n, RowAt(w, i, at))
        closed == [EachOf(Detach, w, Range(conds[n].nodes)) EXCEPT !.local = None, !.regions = None]
    IN  IF n \notin DOMAIN conds THEN w
        ELSE IF conds[n].side = side THEN w
        ELSE SetRowRegion(FillBranch(closed, i, n, side, conds[n].end, RowAt(w, i, at)),
                          i, at, n, side)

\* update_typed_row: a branch's node is looked for behind the row's own.
RowNodes(row) ==
    FoldSet(LAMBDA region, nodes : nodes @@ region.nodes, row.nodes, Range(row.conds))
BindWholeRow(w, i, at, reads) == BindRow(w, i, at, RowNodes(w.insts[i].rows[at]), reads)
UpdateRow(w, i, at, reads) ==
    BindWholeRow(Each(LAMBDA v, n : ReconcileRowConditional(v, i, at, n), w,
                      RowConditionals(w, i, RowTemplate(Table(w, i), at[1]), RowAt(w, i, at))),
                 i, at, reads)

NewRow(w) == [w EXCEPT !.local = None, !.regions = None]
KeepRow(w, i, row) ==
    [w EXCEPT !.insts[i].rows =
         (RowKey(row) :> [item |-> row.item, nodes |-> w.local, conds |-> w.regions]) @@ @]

\* insert_typed_row
InsertRow(w, i, n, item, parent) ==
    LET row == [loop |-> n, item |-> item]
        path == Address(w, i, row)
        fragment == NextNode(w)
        start == AppendNew(NewRow(Fragment(w)), "comment", Mark("loop", path, 0), "", fragment)
        whole == AppendNew(Instantiate(start, i, RowTemplate(Table(w, i), n), fragment, row),
                           "comment", Mark("loop-end", path, 0), "", fragment)
    IN  UpdateRow(InsertAllBefore(KeepRow(whole, i, row), fragment, parent, Nowhere),
                  i, RowKey(row), AnyRead)

Instantiate(w, i, n, parent, row) ==
    LET kind == NodeOf(w, i, n).kind
    IN  CASE kind = "element" -> InstantiateElement(w, i, n, parent, row)
          [] kind = "text" -> InstantiateText(w, i, n, parent, row)
          [] kind = "component" -> InstantiateCall(w, i, n, parent, row)
          [] kind = "slot" -> InstantiateSlot(w, i, n, parent, row)
          [] kind = "conditional" ->
                 IF row = NoRow THEN InstantiateConditional(w, i, n, parent)
                 ELSE InstantiateRowConditional(w, i, n, parent, row)
          [] kind = "loop" ->
                 Each(LAMBDA v, item : InsertRow(v, i, n, item, parent), w, w.app.items)

(***************************************************************************)
(* Updates                                                                 *)
(***************************************************************************)

ReconcileReading(w, i, read) ==
    Each(LAMBDA v, n : IF n \in DOMAIN v.insts[i].conds THEN ReconcileStatic(v, i, n) ELSE v,
             w, Reading(w, i, {"conditional"}, {read}))

\* The rows that show one of the nodes, in their own or in a region's nodes.
RowsWith(w, i, nodes) ==
    {at \in RowsOf(w, i) :
        LET row == w.insts[i].rows[at]
        IN  \/ DOMAIN row.nodes \intersect nodes # {}
            \/ \E n \in DOMAIN row.conds : DOMAIN row.conds[n].nodes \intersect nodes # {}}

Rebind(w, i, read) ==
    QueueRefreshes(ApplyTo(w, i, w.insts[i].nodes, {read}, NoRow), i, w.insts[i].nodes, NoRow)

UpdateRows(w, i) ==
    EachOf(LAMBDA v, at : UpdateRow(v, i, at, {"s"}), w,
           IF Reading(w, i, {"conditional"}, {"s"}) # <<>> THEN RowsOf(w, i)
           ELSE RowsWith(w, i, ToSet(Reading(w, i, {"text", "component"}, {"s"}))))

RefreshState(w, i) == Rebind(UpdateRows(ReconcileReading(w, i, "s"), i), i, "s")
RefreshProp(w, i) == Rebind(ReconcileReading(w, i, "p"), i, "p")

(***************************************************************************)
(* Adopting what the server rendered                                       *)
(***************************************************************************)

Refuse(w, why) == [w EXCEPT !.refused = why]

\* TypedAdoptionIndex over a part of the document.
Marks(w, scope) == {w.dom[x].mark : x \in scope} \ {NoMark}
Find(w, scope, mark) == CHOOSE x \in scope : w.dom[x].mark = mark
Repeated(w, scope) ==
    {m \in Marks(w, scope) : Cardinality({x \in scope : w.dom[x].mark = m}) > 1}

\* branch_ownership_marker
Owner(w, i, path, n) ==
    LET kind == NodeOf(w, i, n).kind
    IN  Mark(IF kind = "element" THEN "node" ELSE kind, path, n)

\* The text node that follows its marker, or a new one where the sentinel is.
ClaimText(w, marker) ==
    LET next == NextSibling(w, marker)
    IN  IF next = Nowhere \/ (next # Nowhere /\ w.dom[next].kind = "comment")
        THEN InsertBefore(Create(w, "text", NoMark, ""), NextNode(w), w.dom[marker].up, next)
        ELSE IF w.dom[next].kind = "text" THEN [w EXCEPT !.made = next]
        ELSE Refuse(w, "adjacency")

\* A region's first node is the owner of the selected side, or its end.
RegionAgrees(w, i, n, path, side, start, end) ==
    LET first == NextSibling(w, start)
    IN  IF side = 0 THEN first = end
        ELSE w.dom[first].mark = Owner(w, i, path, NodeOf(w, i, n).kids[side])

\* queue_adopted_component
QueueAdopted(w, i, n, row, scope) ==
    LET path == Address(w, i, row)
        mark == Mark("component", path, n)
        start == Find(w, scope, mark)
        request == [call |-> n, p |-> Eval(w, i, n, row), row |-> row, start |-> start,
                    end |-> Find(w, scope, Mark("component-end", path, n)),
                    path |-> Append(path, <<"component", n>>), adopt |-> TRUE]
    IN  IF mark \notin Marks(w, scope) THEN Refuse(w, "component")
        ELSE Put([w EXCEPT !.insts[i].requests = Append(@, request)], i, n, start, row)

\* The nodes below the sides that are not there.
Unselected(w, i, n, side) ==
    LET kids == NodeOf(w, i, n).kids
    IN  UNION {Below(Table(w, i).nodes, kids[k]) : k \in DOMAIN kids \ {side}}

\* Markers of a conditional, if they are there and agree with the side.
Adoptable(w, i, n, path, side, scope) ==
    LET mark == Mark("conditional", path, n)
        end == Mark("conditional-end", path, n)
    IN  /\ mark \in Marks(w, scope)
        /\ RegionAgrees(w, i, n, path, side, Find(w, scope, mark), Find(w, scope, end))
RegionOf(w, n, path, side, nodes, scope) ==
    n :> Region(Find(w, scope, Mark("conditional", path, n)),
                Find(w, scope, Mark("conditional-end", path, n)), side, nodes)

RECURSIVE AdoptRowNode(_, _, _, _, _)

TakeAdoptedRegion(w, i, n, path, side, scope) ==
    LET region == RegionOf(w, n, path, side, SideNodes(w, i, n, side, w.local), scope)
    IN  [w EXCEPT !.regions = region @@ @, !.made = region[n].start,
                  !.skipped = IF side = 0 THEN @ \union Unselected(w, i, n, 0) ELSE @]

AdoptRowConditional(w, i, n, row, scope) ==
    LET path == Address(w, i, row)
        side == Side(w, i, n, row)
        put == Put(w, i, n, Find(w, scope, Mark("conditional", path, n)), row)
    IN  IF ~Adoptable(w, i, n, path, side, scope) THEN Refuse(w, "branch")
        ELSE TakeAdoptedRegion(
                 IF side = 0 THEN put ELSE AdoptRowNode(put, i, NodeOf(w, i, n).kids[side], row, scope),
                 i, n, path, side, scope)

AdoptRowNode(w, i, n, row, scope) ==
    LET node == NodeOf(w, i, n)
        mark == Owner(w, i, Address(w, i, row), n)
        here == Find(w, scope, mark)
    IN  CASE w.refused # "no" -> w
          [] node.kind = "conditional" -> AdoptRowConditional(w, i, n, row, scope)
          [] node.kind = "component" -> QueueAdopted(w, i, n, row, scope)
          [] node.kind = "loop" -> Refuse(w, "nested loop")
          [] OTHER ->
                 IF mark \notin Marks(w, scope) THEN Refuse(w, node.kind)
                 ELSE IF node.kind = "text" THEN PutMade(ClaimText(w, here), i, n, row)
                 ELSE [Each(LAMBDA v, k : AdoptRowNode(v, i, k, row, scope),
                            Put(w, i, n, here, row), node.kids) EXCEPT !.made = here]

\* adopt_loop_rows: a row's root is below the parent of its loop.
CloseAdoptedRow(w, i, row) ==
    IF w.refused # "no" THEN w
    ELSE IF w.dom[w.made].up # w.insts[i].nodes[NodeOf(w, i, row.loop).parent] THEN Refuse(w, "row")
    ELSE ApplyTo(KeepRow(w, i, row), i, w.local, AnyRead, row)
AdoptRows(w, i, n, scope) ==
    LET at == <<w.insts[i].path, n>>
        row(item) == [loop |-> n, item |-> item]
    IN  IF at \notin DOMAIN w.records \/ w.records[at] # w.app.items THEN Refuse(w, "loop")
        ELSE Each(LAMBDA v, item :
                      CloseAdoptedRow(AdoptRowNode(NewRow(v), i, RowTemplate(Table(w, i), n),
                                                   row(item), scope), i, row(item)),
                  w, w.app.items)

\* A mutant: the walk goes on to claim the nodes of sides that are not there.
AdoptRegionWhole(w, i, n, scope) ==
    LET path == w.insts[i].path
        side == w.records[<<path, n>>]
    IN  IF ~Adoptable(w, i, n, path, side, scope) THEN Refuse(w, "branch")
        ELSE [w EXCEPT !.insts[i].conds = RegionOf(w, n, path, side, None, scope) @@ @]

\* adopt_conditional_region: the record says which side is there.
AdoptRegion(w, i, n, scope) ==
    LET path == w.insts[i].path
        at == <<path, n>>
        side == w.records[at]
    IN  IF at \notin DOMAIN w.records THEN Refuse(w, "branch")
        ELSE IF ~Adoptable(w, i, n, path, side, scope) THEN Refuse(w, "branch")
        ELSE [w EXCEPT !.insts[i].conds = RegionOf(w, n, path, side, None, scope) @@ @,
                       !.skipped = @ \union Unselected(w, i, n, side)]

AdoptNode(w, i, n, scope) ==
    LET kind == NodeOf(w, i, n).kind
        mark == Owner(w, i, w.insts[i].path, n)
        here == Find(w, scope, mark)
    IN  CASE w.refused # "no" \/ n \in w.skipped -> w
          [] kind = "loop" -> AdoptRows(w, i, n, scope)
          [] kind = "conditional" -> AdoptRegion(w, i, n, scope)
          [] kind = "component" -> QueueAdopted(w, i, n, NoRow, scope)
          [] OTHER ->
                 IF mark \notin Marks(w, scope) THEN Refuse(w, kind)
                 ELSE IF kind = "text" THEN PutMade(ClaimText(w, here), i, n, NoRow)
                 ELSE Put(w, i, n, here, NoRow)

\* A mutant: an adopted region does not know what is in it.
ClaimNoBranches(w, i) == w

\* adopt: row templates are left to their loops; at the end a region takes the
\* nodes the walk has found in it.
ClaimBranches(w, i) ==
    [w EXCEPT !.insts[i].conds =
         [n \in DOMAIN @ |->
              [@[n] EXCEPT !.nodes = SideNodes(w, i, n, w.insts[i].conds[n].side, w.insts[i].nodes)]]]
RowTemplates(table) == UNION {Below(table.nodes, row) : row \in ToSet(table.loops)}
Adopt(w, i, scope) ==
    LET nodes == Table(w, i).nodes
        bind(v) == IF v.refused # "no" THEN v ELSE ApplyStatic(ClaimBranches(v, i), i)
    IN  IF Repeated(w, scope) # {} THEN Refuse(w, "duplicate")
        ELSE bind(Each(LAMBDA v, n : AdoptNode(v, i, n, scope),
                       [w EXCEPT !.skipped = RowTemplates(Table(w, i))], [n \in DOMAIN nodes |-> n]))

(***************************************************************************)
(* Component work                                                          *)
(***************************************************************************)

\* mount_before: a root that is a call has two boundaries to move.
MoveRoot(w, i, parent, end) ==
    LET next == NextSibling(w, w.made)
        moved == MoveMade(w, parent, end)
    IN  IF NodeOf(w, i, Table(w, i).root).kind = "component"
        THEN InsertBefore(moved, next, parent, end) ELSE moved
MountBefore(w, i, end) ==
    LET parent == w.dom[end].up
    IN  ApplyStatic(MoveRoot(Instantiate(w, i, Table(w, i).root, parent, NoRow), i, parent, end), i)

\* mount_slot_children, by the instance that wrote them
BindSlot(w, i, row) ==
    IF row = NoRow THEN ApplyStatic(w, i)
    ELSE [ApplyTo(w, i, w.local, AnyRead, row)
              EXCEPT !.insts[i].rows[RowKey(row)].nodes = w.local @@ @,
                     !.insts[i].rows[RowKey(row)].conds = w.regions @@ @]
MountSlotChildren(w, i, kids, end, row) ==
    LET fragment == NextNode(w)
        made == Each(LAMBDA v, k : Instantiate(v, i, k, fragment, row), NewRow(Fragment(w)), kids)
    IN  BindSlot(InsertAllBefore(made, fragment, w.dom[end].up, end), i, row)

FillSlot(w, parent, i, kids, row) ==
    LET slots == w.insts[i].slots
    IN  IF w.refused # "no" \/ kids = <<>> \/ slots = <<>> THEN w
        ELSE IF Len(slots) > 1 THEN Refuse(w, "slots")
        ELSE MountSlotChildren([w EXCEPT !.insts[i].slots = <<>>], parent, kids, slots[1], row)

Born(w, parent, request) ==
    LET call == NodeOf(w, parent, request.call)
        who == Append(w.insts[parent].who, [call |-> call.name, component |-> call.target,
                                            row |-> request.row.item.id])
    IN  [w EXCEPT !.born = @ + 1,
                  !.insts = (w.born + 1 :> NewInstance(call.target, who, request.path, parent,
                                 request.call, request.start, request.p,
                                 w.app.components[call.target].initial)) @@ @]

MountRequest(w, parent, request) ==
    LET i == w.born + 1
    IN  IF request.adopt
        THEN Adopt(Born(w, parent, request), i, Between(w, request.start, request.end))
        ELSE FillSlot(MountBefore(Born(w, parent, request), i, request.end),
                      parent, i, NodeOf(w, parent, request.call).kids, request.row)

Queued(w, queue(_)) ==
    FoldLeft(LAMBDA done, i : done \o [k \in DOMAIN queue(i) |-> [by |-> i, work |-> queue(i)[k]]],
             <<>>, SelectSeq([i \in 1..w.born |-> i], LAMBDA i : i \in DOMAIN w.insts))

RECURSIVE MountRequests(_)
MountRequests(w) ==
    LET requests == Queued(w, LAMBDA i : w.insts[i].requests)
        drained == [w EXCEPT !.insts = [i \in DOMAIN @ |-> [@[i] EXCEPT !.requests = <<>>]]]
    IN  IF w.refused # "no" \/ requests = <<>> THEN w
        ELSE MountRequests(Each(LAMBDA v, entry : MountRequest(v, entry.by, entry.work),
                                drained, requests))

\* What a refresh finds is the instance whose start marker it names.
RefreshCall(w, parent, refresh) ==
    EachOf(LAMBDA v, i : IF v.insts[i].p = refresh.p THEN v
                         ELSE RefreshProp([v EXCEPT !.insts[i].p = refresh.p], i),
           w, {i \in DOMAIN w.insts : /\ w.insts[i].parent = parent
                                      /\ w.insts[i].call = refresh.call
                                      /\ w.insts[i].start = refresh.start})

\* dispose_orphan_components
RECURSIVE DisposeOrphans(_)
DisposeOrphans(w) ==
    LET stale == {i \in DOMAIN w.insts :
                    LET root == Table(w, i).root
                    IN  /\ w.insts[i].parent # 0 /\ root \in DOMAIN w.insts[i].nodes
                        /\ w.dom[w.insts[i].nodes[root]].up = Nowhere}
    IN  IF stale = {} THEN w
        ELSE DisposeOrphans([w EXCEPT !.insts = [i \in DOMAIN @ \ stale |-> @[i]]])

\* flush_component_work
RECURSIVE Flush(_)
RefreshAll(w) ==
    LET refreshes == Queued(w, LAMBDA i : w.insts[i].refreshes)
        drained == [w EXCEPT !.insts = [i \in DOMAIN @ |-> [@[i] EXCEPT !.refreshes = <<>>]]]
    IN  IF w.refused # "no" THEN w
        ELSE IF refreshes = <<>> THEN DisposeOrphans(w)
        ELSE Flush(Each(LAMBDA v, entry : RefreshCall(v, entry.by, entry.work), drained, refreshes))
Flush(w) == RefreshAll(MountRequests(w))
===============================================================================
