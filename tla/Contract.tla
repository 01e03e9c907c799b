------------------------------- MODULE Contract -------------------------------
(***************************************************************************)
(* What the browser checks of an application before it runs it             *)
(* (plec-schema/src/typed.rs): that the nodes of a component are a forest, *)
(* that events are in the loop they name, that calls fit what they call    *)
(* and that no component calls itself.  The traversals, which the runtime  *)
(* repeats without looking, are given as the code makes them and are held  *)
(* against definitions in RenderingMC.                                     *)
(*                                                                         *)
(* A table is [nodes, loops, root] as Templates lowers it.  Left out: the  *)
(* handles of texts, strings and expressions, and the limits but that of   *)
(* the depth of nodes.                                                     *)
(***************************************************************************)
EXTENDS Naturals, Sequences, SequencesExt, FiniteSets, Functions

NoParent == 0

Handles(table) == DOMAIN table.nodes

\* The first pass of validate_topology.
HandlesInRange(table) ==
    /\ table.root \in Handles(table)
    /\ \A node \in Range(table.nodes) :
           /\ Range(node.kids) \subseteq Handles(table)
           /\ node.parent \in Handles(table) \cup {NoParent}
           /\ node.kind = "loop" => node.loop \in DOMAIN table.loops
    /\ Range(table.loops) \subseteq Handles(table)

(***************************************************************************)
(* Ownership                                                               *)
(***************************************************************************)

\* walk: the nodes that have an owner, and those to go on from.
Refused(walk) == walk.refused

\* mark_owned_node
MarkOwned(walk, index, depth) ==
    IF Refused(walk) \/ index \in walk.owned THEN [walk EXCEPT !.refused = TRUE]
    ELSE [walk EXCEPT !.owned = @ \cup {index},
                      !.stack = Append(@, [index |-> index, depth |-> depth])]

MarkAll(walk, indices, depth) ==
    FoldLeft(LAMBDA w, index : MarkOwned(w, index, depth), walk, indices)

\* The kinds whose kids the traversals go down to.
Structural == {"element", "component", "dynamic", "conditional"}
Owns(node) == IF node.kind \in Structural THEN node.kids ELSE <<>>

RECURSIVE Walked(_, _, _)
Walked(table, deepest, walk) ==
    IF Refused(walk) \/ walk.stack = <<>> THEN walk
    ELSE LET top == Last(walk.stack)
             popped == [walk EXCEPT !.stack = Front(@)]
         IN  IF top.depth > deepest THEN [walk EXCEPT !.refused = TRUE]
             ELSE Walked(table, deepest,
                         MarkAll(popped, Owns(table.nodes[top.index]), top.depth + 1))

\* validate_topology
ValidTopology(table, deepest) ==
    /\ HandlesInRange(table)
    /\ LET roots == MarkAll([owned |-> {}, stack |-> <<>>, refused |-> FALSE],
                            <<table.root>> \o table.loops, 1)
           walk == Walked(table, deepest, roots)
       IN  ~Refused(walk) /\ walk.owned = Handles(table)

(***************************************************************************)
(* Events                                                                  *)
(***************************************************************************)

\* A dynamic component's content is not looked into.
Descended == Structural \ {"dynamic"}

RECURSIVE Descends(_, _, _, _)
Descends(table, target, seen, stack) ==
    /\ stack # <<>>
    /\ LET node == table.nodes[Last(stack)]
           kids == IF node.kind \in Descended THEN node.kids ELSE <<>>
           fresh == SelectSeq(kids, LAMBDA kid : kid \notin seen)
       IN  \/ target \in Range(kids)
           \/ Descends(table, target, seen \cup Range(kids), Front(stack) \o fresh)

RECURSIVE Climbs(_, _, _, _)
Climbs(table, root, seen, index) ==
    LET node == table.nodes[index]
    IN  /\ node.kind # "dynamic" /\ node.parent # NoParent
        /\ \/ node.parent = root
           \/ node.parent \notin seen /\ Climbs(table, root, seen \cup {node.parent}, node.parent)

\* subtree_contains
SubtreeContains(table, root, target) ==
    \/ root = target
    \/ Descends(table, target, {root}, <<root>>)
    \/ Climbs(table, root, {target}, target)

NoLoop == 0

\* validate_typed_event_contract
EventInRange(table, event) ==
    /\ event.target \in Handles(table)
    /\ event.loop \in DOMAIN table.loops \cup {NoLoop}

\* An event names the loop it is in.
ValidEvent(table, event) ==
    /\ EventInRange(table, event)
    /\ table.nodes[event.target].kind = "element"
    /\ IF event.loop = NoLoop
       THEN \A row \in Range(table.loops) : ~SubtreeContains(table, row, event.target)
       ELSE SubtreeContains(table, table.loops[event.loop], event.target)

(***************************************************************************)
(* Calls                                                                   *)
(***************************************************************************)

\* validate_component_slot_target
ValidContent(target, content) ==
    LET slots == Cardinality({ n \in Handles(target) : target.nodes[n].kind = "slot" })
    IN  slots <= 1 /\ (content # <<>> => slots = 1)

Required(parameters) == SelectSeq(parameters, LAMBDA parameter : parameter.name # "children")
Names(entries) == { entry.name : entry \in Range(entries) }

\* A parameter is a value, a callable or a component, and so is a prop.
ValidParameters(parameters) == Cardinality(Names(parameters)) = Len(parameters)

\* TypedComponentApplication::validate_with_policy, the props of a call.
ValidProps(parameters, props) ==
    /\ Len(props) = Len(Required(parameters))
    /\ \A i \in DOMAIN props :
           /\ \E parameter \in Range(parameters) :
                  parameter.name = props[i].name /\ parameter.kind = props[i].kind
           /\ \A j \in 1..(i - 1) : props[j].name # props[i].name
    /\ Names(Required(parameters)) \subseteq Names(props)

\* validate_component_call_graph_acyclic: calls is a function from a component
\* to what it calls, once for every call.  The peeling starts with the
\* components nobody calls.
Drop(peel, target) ==
    LET left == peel.degree[target] - 1
    IN  [peel EXCEPT !.degree[target] = left,
                     !.queue = IF left = 0 THEN Append(@, target) ELSE @]

RECURSIVE Peeled(_, _, _)
Peeled(calls, peel, cursor) ==
    IF cursor > Len(peel.queue) THEN peel.queue
    ELSE Peeled(calls, FoldLeft(Drop, peel, calls[peel.queue[cursor]]), cursor + 1)

Callers(calls, target) ==
    UNION { { <<from, i>> : i \in { j \in DOMAIN calls[from] : calls[from][j] = target } } :
            from \in DOMAIN calls }

AcyclicCalls(calls) ==
    LET degree == [target \in DOMAIN calls |-> Cardinality(Callers(calls, target))]
        queue == SetToSeq({ target \in DOMAIN calls : degree[target] = 0 })
    IN  Len(Peeled(calls, [degree |-> degree, queue |-> queue], 1)) = Cardinality(DOMAIN calls)

\* component_call_targets
CallTargets(table) ==
    LET called == SelectSeq(table.nodes, LAMBDA node : node.kind = "component")
    IN  [i \in DOMAIN called |-> called[i].target]

(***************************************************************************)
(* The record of the branches and rows of a rendering                      *)
(* (plec-ir/src/lib.rs, validate_structure)                                *)
(***************************************************************************)

Increasing(records) == \A i, j \in DOMAIN records : i < j => records[i].node < records[j].node

KindOf(table, n) == IF n \in Handles(table) THEN table.nodes[n].kind ELSE "unknown"

\* validate_branch_selections: the alternate is side 2, none is 0.
ValidBranches(table, branches) ==
    /\ Increasing(branches)
    /\ \A branch \in Range(branches) :
           /\ KindOf(table, branch.node) = "conditional"
           /\ branch.side = 2 => Len(table.nodes[branch.node].kids) = 2

\* validate_loop_rows
ValidLoops(table, loops) ==
    /\ Increasing(loops)
    /\ \A loop \in Range(loops) :
           /\ KindOf(table, loop.node) = "loop"
           /\ IsInjective(loop.keys)

\* validate_structure, for each instance: what it was rendered from and its record.
ValidStructure(tables, structures) ==
    \A structure \in structures :
        /\ structure.graph \in DOMAIN tables
        /\ ValidBranches(tables[structure.graph], structure.branches)
        /\ ValidLoops(tables[structure.graph], structure.loops)

(***************************************************************************)
(* The application                                                         *)
(***************************************************************************)

\* An application of tables by their names, with the events of each.
ValidApplication(tables, events, deepest) ==
    /\ \A name \in DOMAIN tables :
           /\ ValidTopology(tables[name], deepest)
           /\ \A event \in events[name] : ValidEvent(tables[name], event)
           /\ \A node \in Range(tables[name].nodes) :
                  node.kind = "component" =>
                      /\ node.target \in DOMAIN tables
                      /\ ValidContent(tables[node.target], node.kids)
    /\ AcyclicCalls([name \in DOMAIN tables |-> CallTargets(tables[name])])
===============================================================================
