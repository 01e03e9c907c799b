------------------------------ MODULE KeyedRows ------------------------------
(***************************************************************************)
(* The keyed rows of a loop in the browser runtime                          *)
(* (crates/plec-client/src/runtime.rs TypedRuntime, reorder.rs, vm.rs,      *)
(* events.rs; crates/plec-runtime/src/snapshots.rs).  A mounted graph owns  *)
(* one loop that is the only child of its parent element.  The loop is fed  *)
(* whole arrays by the host, row deltas, snapshots the runtime turns into   *)
(* deltas, or the collection mutations of an action; a state of the graph   *)
(* changes in between.  The rows are never rebuilt: each operation patches  *)
(* order, rows, DOM, region slots and listeners, and the module compares    *)
(* what it leaves with what a fresh render would give.                      *)
(*                                                                          *)
(* The row template is <li>{text}{test && <b>{branch}</b>}</li>, both       *)
(* elements with a listener.  An expression is the set of what it reads:    *)
(* fields of the row ("v", "on"), the state ("s") or the row's index; what  *)
(* a node shows is the set of those reads with their values, {} for a text  *)
(* node no binding has written yet.                                         *)
(***************************************************************************)
EXTENDS Integers, FiniteSets, Sequences, SequencesExt, FiniteSetsExt, Functions

CONSTANTS
  Setups,        \* who feeds the loop, with which rows, template and limits
  AnySnapshot    \* FALSE: only snapshots that keep the order of their rows

Reads == {"v", "on", "s", "index"}
Feeds == {"host", "delta", "snapshot", "action"}
Nowhere == <<"end">>

(* A graph has finitely many keys, none of which says "at the end", and the *)
(* test of its conditional is a boolean.                                    *)
ASSUME GraphsAreTyped ==
  \A graph \in Setups :
    /\ graph.feed \in Feeds
    /\ IsFiniteSet(graph.keys) /\ Nowhere \notin graph.keys
    /\ \A value \in graph.values : value.on \in BOOLEAN
    /\ graph.text \subseteq Reads /\ graph.branch \subseteq Reads
    /\ graph.test \in {"on", "s", "index"}
    /\ graph.limit \in Nat /\ graph.regions \in Nat

VARIABLES
  setup,     \* the graph and its feed, chosen at the start
  runtime,   \* TypedRuntime: see Mounted
  projection,\* SnapshotInput.projection: the last array, or << >>
  promised,  \* the list of rows the feed has asked for
  failed     \* an operation stopped half way at the limit of mounted regions

vars == <<setup, runtime, projection, promised, failed>>

RowOf(key, value) == [id |-> key, v |-> value.v, on |-> value.on]
Rows == {RowOf(key, value) : key \in setup.keys, value \in setup.values}
AnyRow == [id : setup.keys, v : {r.v : r \in setup.values}, on : BOOLEAN]
Lists ==
  UNION {{[i \in DOMAIN order |-> RowOf(order[i], value[order[i]])]
            : value \in [ToSet(order) -> setup.values]}
         : order \in UNION {{s \in [1 .. n -> setup.keys] : IsInjective(s)}
                            : n \in 0 .. Cardinality(setup.keys)}}

KeysOf(list) == [i \in DOMAIN list |-> list[i].id]

(* Sequences: the elements that are in a set, and the first place of one.   *)
Only(seq, set) ==
  LET kept[i \in 0 .. Len(seq)] ==
        IF i = 0 THEN << >>
        ELSE IF seq[i] \in set THEN Append(kept[i - 1], seq[i]) ELSE kept[i - 1]
  IN kept[Len(seq)]
Without(seq, x) == Only(seq, ToSet(seq) \ {x})
At(seq, x) == SelectInSeq(seq, LAMBDA y : y = x)

Mounted ==
  [order |-> << >>, rows |-> << >>, children |-> << >>, flag |-> FALSE,
   collection |-> << >>, live |-> 0, budget |-> setup.regions,
   listeners |-> {}, requests |-> {}, taken |-> {}, moves |-> 0, error |-> "none"]

----------------------------------------------------------------------------
(* Expressions: typed_eval over the reads of a program. *)

Value(rt, read, values, index) ==
  CASE read = "s" -> rt.flag [] read = "index" -> index [] OTHER -> values[read]
Shows(rt, reads, values, index) == {<<r, Value(rt, r, values, index)>> : r \in reads}
Selects(rt, values, index) ==
  IF setup.test = "index" THEN index = 0 ELSE Value(rt, setup.test, values, index)

Fails(rt, what) == [rt EXCEPT !.error = what]
IndexOf(rt, key) ==
  IF Contains(rt.order, key) THEN At(rt.order, key) - 1 ELSE 0

(* next_generation: a generation is only compared with others of its key,   *)
(* and all that matters is that it is new.                                  *)
NewGeneration(taken, key) ==
  CHOOSE g \in 0 .. Cardinality(taken) :
    /\ <<key, g>> \notin taken
    /\ \A lower \in 0 .. g - 1 : <<key, lower>> \in taken

RowOwner(key, row) == <<key, row.generation, -1>>
BranchOwner(key, row) == <<key, row.generation, row.region.generation>>
OwnersOf(key, row) ==
  {RowOwner(key, row)} \cup IF row.region.selected THEN {BranchOwner(key, row)} ELSE {}
LiveOwners(rt) == UNION {OwnersOf(k, rt.rows[k]) : k \in DOMAIN rt.rows}

(* queue_listener: once for an owner that is neither installed nor queued. *)
Queue(rt, owners) == [rt EXCEPT !.requests = @ \cup (owners \ rt.listeners)]

Token(rt, key) == <<key, rt.rows[key].generation>>
InsertBefore(children, token, anchor) ==
  IF anchor = Nowhere THEN Append(children, token)
  ELSE InsertAt(children, At(children, anchor), token)
AnchorOf(rt, before) == IF before \in DOMAIN rt.rows THEN Token(rt, before) ELSE Nowhere

----------------------------------------------------------------------------
(* One row. *)

\* Mutant: the listeners of the old branch stay.
ReconcileBranchListening(rt, key, selected) ==
  LET row == rt.rows[key]
      generation == NewGeneration(rt.taken, key)
      next == [row EXCEPT !.region = [selected |-> selected, shows |-> {},
                                      generation |-> generation]]
  IN IF row.region.selected = selected THEN rt
     ELSE Queue([rt EXCEPT !.rows[key] = next, !.taken = @ \cup {<<key, generation>>}],
                IF selected THEN {BranchOwner(key, next)} ELSE {})

(* reconcile_row_conditionals: the old branch goes with its listeners, the  *)
(* new one is instantiated with its static text.                            *)
ReconcileBranch(rt, key, selected) ==
  LET row == rt.rows[key]
      generation == NewGeneration(rt.taken, key)
      next == [row EXCEPT !.region = [selected |-> selected, shows |-> {},
                                      generation |-> generation]]
  IN IF row.region.selected = selected THEN rt
     ELSE Queue([rt EXCEPT !.rows[key] = next,
                           !.listeners = @ \ {BranchOwner(key, row)},
                           !.taken = @ \cup {<<key, generation>>}],
                IF selected THEN {BranchOwner(key, next)} ELSE {})

(* Rewrite the nodes of a row whose program is in "what", at an index. *)
WriteBindings(rt, key, values, index, what) ==
  LET written(reads, old) ==
        IF reads \cap what # {} THEN Shows(rt, reads, values, index) ELSE old
      row == rt.rows[key]
      shows == IF row.region.selected THEN written(setup.branch, row.region.shows) ELSE {}
  IN [rt EXCEPT !.rows[key] = [row EXCEPT !.values = values, !.region.shows = shows,
                                          !.text = written(setup.text, row.text)]]

(* update_typed_row: every binding, or those that read the changed state;   *)
(* the bindings are evaluated at index 0.                                   *)
UpdateTypedRow(rt, key, values, what) ==
  WriteBindings(ReconcileBranch(rt, key, Selects(rt, values, IndexOf(rt, key))),
                key, values, 0, what)

\* Mutant: a changed field rewrites bindings and selects no branch.
UpdateTypedRowFieldsOnly(rt, key, values, changed) ==
  WriteBindings(rt, key, values, IndexOf(rt, key), changed)

(* update_typed_row_fields: the sinks that read a changed field. *)
UpdateTypedRowFields(rt, key, values, changed) ==
  LET index == IndexOf(rt, key)
      branched == IF setup.test \in changed
                  THEN ReconcileBranch(rt, key, Selects(rt, values, index)) ELSE rt
  IN WriteBindings(branched, key, values, index, changed)

(* update_typed_row_index, for the rows behind a change of the order; the   *)
(* nodes of a branch are not among those it rewrites.                       *)
UpdateTypedRowIndex(rt, key) ==
  LET index == IndexOf(rt, key)
      values == rt.rows[key].values
      branched == IF setup.test = "index"
                  THEN ReconcileBranch(rt, key, Selects(rt, values, index)) ELSE rt
  IN IF "index" \in setup.text
     THEN [branched EXCEPT !.rows[key].text = Shows(rt, setup.text, values, index)]
     ELSE branched
RefreshIndexRow(rt, key) ==
  IF key \notin DOMAIN rt.rows THEN Fails(rt, "row missing") ELSE UpdateTypedRowIndex(rt, key)

(* The fragment of a row: its conditional takes a slot of its own. *)
InstantiateRow(rt, key, values, index) ==
  LET inner == NewGeneration(rt.taken, key)
      outer == NewGeneration(rt.taken \cup {<<key, inner>>}, key)
  IN [values |-> values, text |-> {}, generation |-> outer,
      region |-> [selected |-> Selects(rt, values, index), shows |-> {},
                  generation |-> inner]]

(* insert_typed_row: the fragment and the row take their slots, the row is  *)
(* put into the page, written at index 0 and queued for its listeners.      *)
InsertTypedRow(rt, key, values, index, before) ==
  LET row == InstantiateRow(rt, key, values, index)
      placed == [rt EXCEPT !.rows = [k \in DOMAIN @ \cup {key} |->
                                       IF k = key THEN row ELSE @[k]],
                           !.live = @ + 2,
                           !.taken = @ \cup {<<key, row.generation>>,
                                             <<key, row.region.generation>>},
                           !.children = InsertBefore(@, <<key, row.generation>>, before)]
      updated == UpdateTypedRow(placed, key, values, Reads)
  IN IF rt.live + 2 > setup.regions THEN Fails(rt, "MOUNTED_REGION_LIMIT_EXCEEDED")
     ELSE Queue(updated, OwnersOf(key, updated.rows[key]))

(* The listeners, the slots and the DOM range of a row go with it. *)
DropRow(rt, key) ==
  LET row == rt.rows[key]
  IN [rt EXCEPT !.rows = Restrict(@, DOMAIN @ \ {key}), !.live = @ - 2,
                !.children = Without(@, Token(rt, key)),
                !.listeners = {o \in @ : ~ (o[1] = key /\ o[2] = row.generation)}]

\* Mutant: a row is moved by building it again.
RelocateByRebuilding(rt, key, anchor) ==
  LET others == Without(rt.children, Token(rt, key))
      generation == NewGeneration(rt.taken, key)
  IN [rt EXCEPT !.children = InsertBefore(others, <<key, generation>>, anchor),
                !.rows[key].generation = generation, !.moves = @ + 1]

RelocateTypedRow(rt, key, anchor) ==
  [rt EXCEPT !.children = InsertBefore(Without(@, Token(rt, key)), Token(rt, key), anchor),
             !.moves = @ + 1]

(* What an operation has to do, row by row; an error ends it.               *)
Do(rt, step) ==
  CASE step.do = "drop" -> DropRow(rt, step.key)
    [] step.do = "update" -> UpdateTypedRow(rt, step.key, step.values, step.what)
    [] step.do = "insert" ->
         InsertTypedRow(rt, step.key, step.values, step.index, AnchorOf(rt, step.before))
    [] step.do = "relocate" -> RelocateTypedRow(rt, step.key, AnchorOf(rt, step.before))
    [] step.do = "refresh" -> RefreshIndexRow(rt, step.key)
DoUnlessFailed(rt, step) == IF rt.error # "none" THEN rt ELSE Do(rt, step)
Perform(rt, steps) == FoldLeft(DoUnlessFailed, rt, steps)

Drop(key) == [do |-> "drop", key |-> key]
Update(key, values, what) == [do |-> "update", key |-> key, values |-> values, what |-> what]
Insert(key, values, index, before) ==
  [do |-> "insert", key |-> key, values |-> values, index |-> index, before |-> before]
Relocate(key, before) == [do |-> "relocate", key |-> key, before |-> before]

(* refresh_index_rows *)
RefreshIndexRows(rt, keys) ==
  Perform(rt, [i \in DOMAIN keys |-> [do |-> "refresh", key |-> keys[i]]])

----------------------------------------------------------------------------
(* The whole list: keyed_reorder_plan and reconcile_loop. *)

\* Mutant: all kept rows stay.
ReorderPlanKeepingAll(previous, desired) ==
  {i \in DOMAIN desired : Contains(previous, desired[i])}

(* A longest increasing run of distinct ranks, by patience sorting with     *)
(* parent pointers.                                                         *)
Deal(ranks, piles, c) ==
  LET slot == 1 + Cardinality({p \in DOMAIN piles.tails : ranks[piles.tails[p]] < ranks[c]})
  IN [tails |-> IF slot > Len(piles.tails) THEN Append(piles.tails, c)
                ELSE [piles.tails EXCEPT ![slot] = c],
      parents |-> Append(piles.parents, IF slot > 1 THEN piles.tails[slot - 1] ELSE 0)]
Dealt(ranks) ==
  FoldLeft(LAMBDA piles, c : Deal(ranks, piles, c),
           [tails |-> << >>, parents |-> << >>], [i \in DOMAIN ranks |-> i])
Ancestors(parents, cursor) ==
  LET chain[c \in 0 .. Len(parents)] == IF c = 0 THEN {} ELSE {c} \cup chain[parents[c]]
  IN chain[cursor]
LongestRun(ranks) ==
  IF ranks = << >> THEN {} ELSE Ancestors(Dealt(ranks).parents, Last(Dealt(ranks).tails))

(* The positions of "desired" that stay: a longest run of them that has the *)
(* previous order.                                                          *)
ReorderPlan(previous, desired) ==
  LET sequence == Only([i \in DOMAIN desired |-> i],
                       {i \in DOMAIN desired : desired[i] \in ToSet(previous)})
  IN {sequence[c] : c \in LongestRun([i \in DOMAIN sequence |->
                                       At(previous, desired[sequence[i]])])}

(* reconcile_loop: reserve the plan, drop the stale rows, update the kept   *)
(* ones, then place from right to left; the order is stored at the end.     *)
Stale(rt, desired) ==
  Only(rt.order, DOMAIN rt.rows \ ToSet(desired))
Changed(rt, list) ==
  Only(list, {row \in ToSet(list) : row.id \in DOMAIN rt.rows /\ rt.rows[row.id].values # row})
Placed(rt, list, stable) ==
  LET desired == KeysOf(list)
      step(p) ==
        LET before == IF p = Len(desired) THEN Nowhere ELSE desired[p + 1]
        IN IF desired[p] \in DOMAIN rt.rows THEN Relocate(desired[p], before)
           ELSE Insert(desired[p], list[p], p - 1, before)
      moving == Only([i \in DOMAIN desired |-> i], DOMAIN desired \ stable)
  IN [i \in DOMAIN moving |-> step(moving[Len(moving) + 1 - i])]
ReconcileLoop(rt, list) ==
  LET desired == KeysOf(list)
      planned == 2 * Cardinality(ToSet(desired) \ DOMAIN rt.rows)
      stale == Stale(rt, desired)
      changed == Changed(rt, list)
      dropped == Perform([rt EXCEPT !.budget = @ - planned],
                         [i \in DOMAIN stale |-> Drop(stale[i])])
      updated == Perform(dropped, [i \in DOMAIN changed |->
                                     Update(changed[i].id, changed[i], Reads)])
      surviving == Only(rt.order, DOMAIN dropped.rows)
      placed == Perform(updated, Placed(updated, list, ReorderPlan(surviving, desired)))
  IN IF Len(list) > setup.limit THEN Fails(rt, "LOOP_ROW_LIMIT_EXCEEDED")
     ELSE IF planned > rt.budget THEN Fails(rt, "RECONCILE_BUDGET_EXCEEDED")
     ELSE IF placed.error # "none" THEN placed
     ELSE [placed EXCEPT !.order = desired]

(* reconcile_input: the host's array replaces the collection, then the rows. *)
ReconcileInput(rt, list) ==
  IF Len(list) > setup.limit THEN Fails(rt, "LOOP_ROW_LIMIT_EXCEEDED")
  ELSE ReconcileLoop([rt EXCEPT !.collection = list], list)

----------------------------------------------------------------------------
(* Deltas. *)

Delta(kind, key, before, changes) ==
  [kind |-> kind, key |-> key, before |-> before, changes |-> changes]
Position(rt, key) == At(rt.order, key)
Patched(values, changes) ==
  [f \in DOMAIN values |-> IF f \in DOMAIN changes THEN changes[f] ELSE values[f]]
From(seq, first, last) == SubSeq(seq, first, Min({last, Len(seq)}))
PutBefore(order, key, before) ==
  IF Contains(order, before)
  THEN InsertAt(order, At(order, before), key)
  ELSE Append(order, key)

DeltaUpdate(rt, d) ==
  LET values == Patched(rt.rows[d.key].values, d.changes)
  IN IF d.key \notin DOMAIN rt.rows THEN Fails(rt, "row missing")
     ELSE IF ~ Contains(rt.order, d.key) THEN Fails(rt, "row order missing")
     ELSE IF values.id # rt.rows[d.key].values.id
     THEN Fails(rt, "STRUCTURAL_UPDATE_REQUIRES_EXPLICIT_DELTA")
     ELSE UpdateTypedRowFields(rt, d.key, values, DOMAIN d.changes)

(* The order takes the key before the row is built. *)
DeltaInsert(rt, d) ==
  LET ordered == [rt EXCEPT !.order = PutBefore(@, d.key, d.before)]
      index == Position(ordered, d.key) - 1
      inserted == InsertTypedRow(ordered, d.key, d.changes, index, AnchorOf(rt, d.before))
  IN IF d.key \in DOMAIN rt.rows THEN Fails(rt, "duplicate row key")
     ELSE IF d.before # Nowhere /\ ~ Contains(rt.order, d.before)
     THEN Fails(rt, "insert anchor missing")
     ELSE IF inserted.error # "none" THEN inserted
     ELSE RefreshIndexRows(inserted, From(inserted.order, index + 2, Len(inserted.order)))

DeltaRemove(rt, d) ==
  LET dropped == [DropRow(rt, d.key) EXCEPT !.order = Without(@, d.key)]
  IN IF ~ Contains(rt.order, d.key) THEN Fails(rt, "row missing")
     ELSE IF d.key \notin DOMAIN rt.rows
     THEN Fails([rt EXCEPT !.order = Without(@, d.key)], "row missing")
     ELSE RefreshIndexRows(dropped, From(dropped.order, Position(rt, d.key), Len(dropped.order)))

(* move_delta_row; a row already in front of its anchor is left alone. *)
DeltaMove(rt, d) ==
  LET anchor == AnchorOf(rt, d.before)
      here == At(rt.children, Token(rt, d.key))
      moved ==
        IF d.before = d.key
           \/ (anchor # Nowhere /\ here < Len(rt.children) /\ rt.children[here + 1] = anchor)
        THEN rt
        ELSE [RelocateTypedRow(rt, d.key, anchor) EXCEPT
                !.order = PutBefore(Without(@, d.key), d.key, d.before),
                !.moves = @ + 1]
      ends == {Position(rt, d.key), Position(moved, d.key)}
  IN IF ~ Contains(rt.order, d.key) \/ d.key \notin DOMAIN rt.rows
     THEN Fails(rt, "row missing")
     ELSE RefreshIndexRows(moved, From(moved.order, Min(ends), Max(ends)))

ApplyDelta(rt, d) ==
  CASE d.kind = "update" -> DeltaUpdate(rt, d)
    [] d.kind = "insert" -> DeltaInsert(rt, d)
    [] d.kind = "remove" -> DeltaRemove(rt, d)
    [] d.kind = "move" -> DeltaMove(rt, d)

(* apply_typed_deltas: in order, up to the first that fails. *)
ApplyUnlessFailed(rt, d) == IF rt.error # "none" THEN rt ELSE ApplyDelta(rt, d)
ApplyDeltas(rt, deltas) == FoldLeft(ApplyUnlessFailed, rt, deltas)

(* snapshots.rs reconcile: the stale rows, then the new array from left to  *)
(* right; a row is anchored before its right neighbour in the new array.    *)
RowDeltas(previous, next, i) ==
  LET old == KeysOf(previous)
      key == next[i].id
      before == IF i < Len(next) THEN next[i + 1].id ELSE Nowhere
      was == previous[At(old, key)]
      changes == {f \in {"v", "on"} : was[f] # next[i][f]}
  IN IF ~ Contains(old, key) THEN <<Delta("insert", key, before, next[i])>>
     ELSE (IF changes = {} THEN << >>
           ELSE <<Delta("update", key, Nowhere, Restrict(next[i], changes))>>)
          \o (IF i \in DOMAIN old /\ old[i] = key THEN << >>
              ELSE <<Delta("move", key, before, << >>)>>)
SnapshotDeltas(previous, next) ==
  LET stale == Only(KeysOf(previous), ToSet(KeysOf(previous)) \ ToSet(KeysOf(next)))
  IN [i \in DOMAIN stale |-> Delta("remove", stale[i], Nowhere, << >>)]
     \o FlattenSeq([i \in DOMAIN next |-> RowDeltas(previous, next, i)])

----------------------------------------------------------------------------
(* Steps.  An operation that succeeds installs the queued listeners and     *)
(* gives back the rest of its budget (flush_component_work,                 *)
(* install_typed_event_listeners); one that fails returns before that.      *)

Generations(rt) ==
  UNION ({{<<k, rt.rows[k].generation>>, <<k, rt.rows[k].region.generation>>}
            : k \in DOMAIN rt.rows}
           \cup {{<<o[1], o[2]>>, <<o[1], o[3]>>} : o \in rt.listeners \cup rt.requests})
Start == [runtime EXCEPT !.taken = Generations(runtime), !.moves = 0, !.error = "none"]

Installed(rt) == [rt EXCEPT !.listeners = @ \cup rt.requests, !.requests = {}]
Finish(rt, asked) ==
  /\ runtime' = IF rt.error # "none" THEN [rt EXCEPT !.taken = {}]
                ELSE [Installed(rt) EXCEPT !.taken = {}, !.budget = setup.regions]
  /\ promised' = IF rt.error = "none" THEN asked ELSE promised
  /\ failed' = (failed \/ rt.error \in {"MOUNTED_REGION_LIMIT_EXCEEDED"})

(* What an operation that stopped half way leaves behind adds up: keys of   *)
(* rows that were never built in the order, listeners of rows that are gone.*)
MaxStale == 1
WithinBounds ==
  /\ Len(runtime.order) <= Cardinality(setup.keys)
  /\ Cardinality((runtime.listeners \cup runtime.requests) \ LiveOwners(runtime)) <= MaxStale

Init ==
  /\ setup \in Setups
  /\ runtime = Mounted
  /\ projection = << >>
  /\ promised = << >>
  /\ failed = FALSE

InitializeInput(list) ==
  /\ setup.feed = "host"
  /\ Finish(ReconcileInput(Start, list), list)
  /\ UNCHANGED <<setup, projection>>

(* What a delta asks of the promised list. *)
Patch(d) ==
  LET at == At(KeysOf(promised), d.key)
      others == Only(promised, {r \in ToSet(promised) : r.id # d.key})
      put(row) == LET place == At(KeysOf(others), d.before)
                  IN IF place = 0 THEN Append(others, row) ELSE InsertAt(others, place, row)
  IN CASE d.kind = "update" -> [promised EXCEPT ![at] = Patched(@, d.changes)]
       [] d.kind = "insert" -> put(d.changes)
       [] d.kind = "remove" -> others
       [] d.kind = "move" -> IF d.before = d.key THEN promised ELSE put(promised[at])

ApplyTypedDelta(d) ==
  LET applied == ApplyDelta(Start, d)
  IN /\ setup.feed = "delta"
     /\ WithinBounds
     /\ Finish(applied, IF applied.error = "none" /\ ~ failed THEN Patch(d) ELSE promised)
     /\ UNCHANGED <<setup, projection>>

InitializeSnapshotInput(list) ==
  LET started == ReconcileInput(Start, list)
  IN /\ setup.feed = "snapshot"
     /\ runtime.collection = << >>
     /\ Finish(started, list)
     /\ projection' = IF started.error = "none" THEN list ELSE projection
     /\ UNCHANGED setup

(* Rows go, or one row is new; the rows the arrays share keep their order.  *)
OneChange(previous, next) ==
  LET old == KeysOf(previous)
      new == KeysOf(next)
  IN /\ Only(old, ToSet(new)) = Only(new, ToSet(old))
     /\ \/ ToSet(new) \subseteq ToSet(old)
        \/ ToSet(old) \subseteq ToSet(new) /\ Len(new) = Len(old) + 1

(* The projection is the new array before its deltas are applied. *)
ApplyInputSnapshot(list) ==
  LET deltas == SnapshotDeltas(projection, list)
  IN /\ setup.feed = "snapshot"
     /\ runtime.collection # << >>
     /\ AnySnapshot \/ OneChange(projection, list)
     /\ projection' = list
     /\ IF deltas = << >> THEN UNCHANGED <<runtime, promised, failed>>
        ELSE Finish(ApplyDeltas(Start, deltas), list)
     /\ UNCHANGED setup

(* mutate_collection, then invalidate_collection: a failed mutation of the  *)
(* rows does not take back the collection.                                  *)
MutateCollection(kind, row) ==
  LET keys == KeysOf(runtime.collection)
      at == At(keys, row.id)
      next == CASE kind = "append" -> Append(runtime.collection, row)
                [] kind = "keyedReplace" -> [runtime.collection EXCEPT ![at] = row]
                [] kind = "keyedRemove" -> RemoveAt(runtime.collection, at)
  IN /\ setup.feed = "action"
     /\ WithinBounds
     /\ IF (kind = "append") = (at # 0)
        THEN Finish(Fails(Start, "collection key"), promised)
        ELSE Finish(ReconcileLoop([Start EXCEPT !.collection = next], next), next)
     /\ UNCHANGED <<setup, projection>>

(* refresh_state: the rows that read the state, through their nodes or      *)
(* through a conditional of the graph.                                      *)
SetState ==
  LET flipped == [Start EXCEPT !.flag = ~ @]
      reads(row) == \/ setup.test = "s" \/ "s" \in setup.text
                    \/ row.region.selected /\ "s" \in setup.branch
      rows == SetToSeq({k \in DOMAIN flipped.rows : reads(flipped.rows[k])})
      steps == [i \in DOMAIN rows |-> Update(rows[i], flipped.rows[rows[i]].values, {"s"})]
  IN /\ WithinBounds
     /\ "s" \in setup.text \cup setup.branch \cup {setup.test}
     /\ Finish(Perform(flipped, steps), promised)
     /\ UNCHANGED <<setup, projection>>

Anchors == setup.keys \cup {Nowhere}
Deltas ==
  UNION {{Delta("insert", key, before, RowOf(key, value))
             : key \in setup.keys, before \in Anchors, value \in setup.values},
         {Delta("update", key, Nowhere, Restrict(RowOf(other, value), fields))
             : key \in setup.keys, other \in setup.keys, value \in setup.values,
               fields \in {{"v"}, {"v", "on"}, {"on"}, {"id", "v", "on"}}},
         {Delta("remove", key, Nowhere, << >>) : key \in setup.keys},
         {Delta("move", key, before, << >>) : key \in setup.keys, before \in Anchors}}

Next ==
  \/ \E list \in Lists : InitializeInput(list)
  \/ \E list \in {l \in Lists : Len(l) = 1} : InitializeSnapshotInput(list)
  \/ \E list \in Lists : ApplyInputSnapshot(list)
  \/ \E d \in Deltas : ApplyTypedDelta(d)
  \/ \E kind \in {"append", "keyedReplace", "keyedRemove"}, row \in Rows :
       MutateCollection(kind, row)
  \/ SetState

Spec == Init /\ [][Next]_vars

----------------------------------------------------------------------------
(* Properties. *)

(* The page holds one range of nodes for each row the runtime knows and     *)
(* none besides, also after an operation that stopped half way.             *)
PageHoldsTheRows ==
  /\ IsInjective(runtime.children)
  /\ ToSet(runtime.children) = {Token(runtime, k) : k \in DOMAIN runtime.rows}

(* The page holds the rows; and as long as no operation stopped half way,   *)
(* they are, in their order and with their data, the list the feed has      *)
(* asked for.                                                               *)
PageShowsThePromise ==
  /\ PageHoldsTheRows
  /\ ~ failed =>
    /\ runtime.order = KeysOf(promised)
    /\ [i \in DOMAIN runtime.children |-> runtime.rows[runtime.children[i][1]].values]
         = promised

(* Each row shows what a fresh render of its data would show: its text, the *)
(* branch its test selects and the text in that branch.                     *)
RowsShowTheirData ==
  \A k \in DOMAIN runtime.rows :
    LET row == runtime.rows[k]
        index == IndexOf(runtime, k)
        selected == Selects(runtime, row.values, index)
    IN /\ row.text = Shows(runtime, setup.text, row.values, index)
       /\ row.region.selected = selected
       /\ selected => row.region.shows = Shows(runtime, setup.branch, row.values, index)

(* Every element of a live row or branch has its listener, or will with the *)
(* next operation that succeeds; no listener outlives its row or branch     *)
(* unless an operation stopped half way.                                    *)
ListenersFollowRows ==
  LET owners == runtime.listeners \cup runtime.requests
  IN /\ LiveOwners(runtime) \subseteq owners
     /\ ~ failed => owners \subseteq LiveOwners(runtime)

(* A row that is there before and after an operation is the same nodes: its *)
(* elements, focus and listeners survive updates and moves.                 *)
KeptRowsKeepTheirNodes ==
  \A k \in DOMAIN runtime.rows \cap DOMAIN runtime'.rows :
     runtime.rows[k].generation = runtime'.rows[k].generation

(* Replacing the list relocates as few rows as can be: all kept rows but a  *)
(* longest part of them that stands in the same order before and after.     *)
MovesAreFewest ==
  setup.feed \in {"host", "action"} /\ runtime'.error = "none" /\ ~ failed =>
     LET kept == ToSet(runtime.order) \cap ToSet(runtime'.order)
         stay == {keys \in SUBSET kept : Only(runtime.order, keys) = Only(runtime'.order, keys)}
     IN runtime'.moves = Cardinality(kept) - Max({Cardinality(keys) : keys \in stay})

(* What a keyed list is for: a row lives on through every operation that    *)
(* keeps its key, and a new order disturbs no more rows than it must.       *)
KeptRowsStay == [][KeptRowsKeepTheirNodes /\ MovesAreFewest]_vars

=============================================================================
