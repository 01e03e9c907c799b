----------------------------- MODULE QueryBuilder -----------------------------
(***************************************************************************)
(* The query builder: Database instances in JavaScript, which buffer calls,*)
(* borrow one another's handles and are collected when nothing refers to   *)
(* them (plec-query/src/main/database.ts), over the registry of immutable  *)
(* builders in Rust, with its cached texts and cached verdicts             *)
(* (plec-query-core/src/builder: registry.rs, methods.rs, render.rs).      *)
(*                                                                         *)
(* A query used in another one is an instance; whether it travels as a     *)
(* handle, as its calls on top of a handle, or as rendered text is decided *)
(* when the outer one is committed.                                        *)
(***************************************************************************)
EXTENDS QueryParts

CONSTANTS
    Phrases,        \* the runs of buffered calls that are made at once
    DirectCalls,    \* calls that go to the registry at once
    Uses,           \* how one query is used in another
    MaxInstances, MaxChain, MaxHandles, MaxCallbacks

ASSUME CallsAreKnown ==
    /\ \A phrase \in Phrases : phrase # <<>> /\ \A i \in DOMAIN phrase : phrase[i] \in PlainOps
    /\ DirectCalls \subseteq PlainOps /\ Uses \subseteq QueryOps
    /\ {MaxInstances, MaxChain, MaxHandles, MaxCallbacks} \subseteq Nat

VARIABLES
    reg,        \* the registry: handle -> [parts, cached, verdict]
    made,       \* how many handles were made
    objs,       \* the instances, in the order they were made
    gone        \* the ones that are collected

vars == <<reg, made, objs, gone>>

None == 0
NoQuery == [ok |-> FALSE, text |-> NoText]

\* An instance.  cell: the handles its finalizer drops; registered: whether it has one.
\* outcome is what the last compile() gave, chain the calls it stands for.
Instance(handle, owns, pending, parent, mutable, root, chain) ==
    [handle |-> handle, cell |-> <<handle>>, registered |-> owns, pending |-> pending,
     parent |-> parent, mutable |-> mutable, root |-> root, materialized |-> None,
     outcome |-> "none", text |-> NoText, chain |-> chain]

Plain(op) == [op |-> op, rhs |-> None]
Phrase(phrase) == [i \in DOMAIN phrase |-> Plain(phrase[i])]

----------------------------------------------------------------------------
\* The registry.

Entry(parts) == [parts |-> parts, cached |-> NoQuery, verdict |-> "unknown"]

\* A state of the heap: the registry, the instances, the handles made.
Heap == [reg |-> reg, objs |-> objs, made |-> made]

RegistryInsert(heap, parts) ==
    [heap EXCEPT !.made = heap.made + 1,
                 !.reg = [h \in DOMAIN heap.reg \cup {heap.made + 1} |->
                             IF h = heap.made + 1 THEN Entry(parts) ELSE heap.reg[h]]]

\* The verdict is kept with the handle the parts were cloned from.
Verdict(entry, parts) ==
    IF entry.verdict # "unknown" THEN entry.verdict
    ELSE IF ValidateQuery(parts) THEN "valid" ELSE "invalid"

Checked(heap, handle, parts, verdict) ==
    [heap |-> [heap EXCEPT !.reg[handle].verdict = verdict], query |-> Build(parts, verdict = "valid")]

BuildQuery(heap, handle, parts) ==
    Checked(heap, handle, parts, Verdict(heap.reg[handle], parts))

WithCached(built, handle) ==
    [built EXCEPT !.heap.reg[handle].cached = built.query]

GetOrBuildQuery(heap, handle) ==
    IF handle \notin DOMAIN heap.reg THEN [heap |-> heap, query |-> NoQuery]
    ELSE IF heap.reg[handle].cached.ok
         THEN [heap |-> heap, query |-> heap.reg[handle].cached]
         ELSE WithCached(BuildQuery(heap, handle, heap.reg[handle].parts), handle)

\* The calls as they cross to Rust, applied to parts; the first that fails ends them.
RECURSIVE ApplyOps(_, _, _)
NoRhs(heap) == [heap |-> heap, query |-> NoQuery, selected |-> FALSE]
Rhs(got, selected) == [heap |-> got.heap, query |-> got.query, selected |-> selected]

InlineBuilt(child, base) ==
    IF child.parts.failed THEN NoRhs(child.heap)
    ELSE Rhs(BuildQuery(child.heap, base, child.parts), child.parts.selected)

CalledQuery(heap, call) ==
    IF call.how = "text" THEN [heap |-> heap, query |-> call.query, selected |-> call.selected]
    ELSE IF call.base \notin DOMAIN heap.reg THEN NoRhs(heap)
    ELSE IF call.how = "handle"
         THEN Rhs(GetOrBuildQuery(heap, call.base), heap.reg[call.base].parts.selected)
         ELSE InlineBuilt(ApplyOps(heap, heap.reg[call.base].parts, call.calls), call.base)

ApplyRhs(rhs, parts, op) ==
    [heap |-> rhs.heap,
     parts |-> IF rhs.query.ok THEN ApplyQuery(parts, op, rhs.query.text, rhs.selected)
               ELSE Failed(parts)]

ApplyCall(heap, parts, call) ==
    IF call.how = "plain" THEN [heap |-> heap, parts |-> ApplyPlain(parts, call.op)]
    ELSE ApplyRhs(CalledQuery(heap, call), parts, call.op)

ApplyRest(done, calls) ==
    IF calls = <<>> \/ done.parts.failed THEN done ELSE ApplyOps(done.heap, done.parts, calls)

ApplyOps(heap, parts, calls) ==
    IF calls = <<>> THEN [heap |-> heap, parts |-> parts]
    ELSE ApplyRest(ApplyCall(heap, parts, Head(calls)), Tail(calls))

ApplyToHandle(heap, handle, calls) ==
    IF handle \notin DOMAIN heap.reg THEN [heap |-> heap, parts |-> Failed(Fresh)]
    ELSE ApplyOps(heap, heap.reg[handle].parts, calls)

----------------------------------------------------------------------------
\* Committing what an instance has buffered.

PlainCall(op) == [how |-> "plain", op |-> op]

\* Mutant: a nested builder is its handle though it has calls buffered.
HandleAnyway(child) ==
    IF child.materialized # None THEN child.materialized ELSE child.handle

Committed(child) ==
    IF child.materialized # None THEN child.materialized
    ELSE IF child.pending = <<>> THEN child.handle ELSE None

\* The binary path: a nested builder is its handle, or its calls inline.
RECURSIVE SerializePendingOps(_, _)
SerializePendingOps(heap, pending) ==
    [i \in DOMAIN pending |->
        IF pending[i].rhs = None THEN PlainCall(pending[i].op)
        ELSE LET child == heap.objs[pending[i].rhs]
             IN IF Committed(child) # None
                THEN [how |-> "handle", op |-> pending[i].op, base |-> Committed(child)]
                ELSE [how |-> "inline", op |-> pending[i].op, base |-> child.handle,
                      calls |-> SerializePendingOps(heap, child.pending)]]

\* A mutable instance goes on with the new handle, another one keeps it beside the old.
Adopt(heap, o, handle) ==
    LET db == heap.objs[o]
    IN IF db.mutable
       THEN [heap EXCEPT !.objs[o] = [db EXCEPT !.handle = handle, !.pending = <<>>,
                                                !.cell = Append(db.cell, handle),
                                                !.outcome = "none"]]
       ELSE [heap EXCEPT !.objs[o].materialized = handle]

Threw(heap) == [ok |-> FALSE, heap |-> heap, handle |-> None]

CommitTo(inserted, o) ==
    [ok |-> TRUE, handle |-> inserted.made, heap |-> Adopt(inserted, o, inserted.made)]

CommitApplied(applied, o) ==
    IF applied.parts.failed THEN Threw(applied.heap)
    ELSE CommitTo(RegistryInsert(applied.heap, applied.parts), o)

CommitBinary(heap, o) ==
    CommitApplied(ApplyToHandle(heap, heap.objs[o].handle, SerializePendingOps(heap, heap.objs[o].pending)),
                  o)

\* The JSON path after a failure of the binary one: nested builders are rendered first,
\* each through its own commit.
RECURSIVE CommitHandle(_, _), ResolvePendingOps(_, _, _)
SelectedAt(committed) ==
    /\ committed.handle \in DOMAIN committed.heap.reg
    /\ committed.heap.reg[committed.handle].parts.selected

QueryOfCommitted(committed) ==
    IF ~committed.ok THEN NoRhs(committed.heap)
    ELSE Rhs(GetOrBuildQuery(committed.heap, committed.handle), SelectedAt(committed))

QueryOf(heap, o) == QueryOfCommitted(CommitHandle(heap, o))

ResolveRest(rhs, pending, calls) ==
    IF ~rhs.query.ok THEN [ok |-> FALSE, heap |-> rhs.heap, calls |-> <<>>]
    ELSE ResolvePendingOps(rhs.heap, Tail(pending),
            Append(calls, [how |-> "text", op |-> Head(pending).op, query |-> rhs.query,
                           selected |-> rhs.selected]))

ResolvePendingOps(heap, pending, calls) ==
    IF pending = <<>> THEN [ok |-> TRUE, heap |-> heap, calls |-> calls]
    ELSE IF Head(pending).rhs = None
         THEN ResolvePendingOps(heap, Tail(pending), Append(calls, PlainCall(Head(pending).op)))
         ELSE ResolveRest(QueryOf(heap, Head(pending).rhs), pending, calls)

CommitByText(resolved, o) ==
    IF ~resolved.ok THEN Threw(resolved.heap)
    ELSE CommitApplied(ApplyToHandle(resolved.heap, resolved.heap.objs[o].handle, resolved.calls), o)

CommitOr(tried, o) ==
    IF tried.ok THEN tried
    ELSE CommitByText(ResolvePendingOps(tried.heap, tried.heap.objs[o].pending, <<>>), o)

\* The handle with everything buffered applied.
CommitHandle(heap, o) ==
    IF Committed(heap.objs[o]) # None
    THEN [ok |-> TRUE, heap |-> heap, handle |-> Committed(heap.objs[o])]
    ELSE CommitOr(CommitBinary(heap, o), o)

----------------------------------------------------------------------------
\* What refers to what.

\* Mutant: a clone does not keep the instance whose handle it borrows.
RefersToUsed(db) == {db.pending[i].rhs : i \in DOMAIN db.pending} \ {None}

RECURSIVE Reach(_, _)
RefersTo(db) ==
    ({db.parent} \cup {db.pending[i].rhs : i \in DOMAIN db.pending}) \ {None}
Reach(all, from) ==
    LET more == from \cup UNION {RefersTo(all[o]) : o \in from}
    IN IF more = from THEN from ELSE Reach(all, more)

Instances == 1..Len(objs)
Usable == Instances \ gone
UsedIn(o) == \E p \in Instances \ gone : \E i \in DOMAIN objs[p].pending : objs[p].pending[i].rhs = o

\* A callback's builder that another one has taken in gets no more calls.
MayBeCalled(o) == o \in Usable /\ ~(objs[o].mutable /\ UsedIn(o))

Stays(heap) ==
    /\ heap.made <= MaxHandles
    /\ reg' = heap.reg
    /\ made' = heap.made

\* cloneWithPendingOp.
WithPending(o, calls, meant) ==
    LET db == objs[o]
    IN IF db.mutable /\ ~db.root
       THEN objs' = [objs EXCEPT ![o] = [db EXCEPT !.pending = db.pending \o calls,
                                                   !.chain = db.chain \o meant,
                                                   !.outcome = "none"]]
       ELSE /\ Len(objs) < MaxInstances
            /\ objs' = Append(objs, Instance(db.handle, FALSE, db.pending \o calls, o, db.mutable,
                                             FALSE, db.chain \o meant))

\* Buffered calls.
Chain(o, phrase) ==
    /\ MayBeCalled(o)
    /\ Len(objs[o].chain) + Len(phrase) <= MaxChain
    /\ WithPending(o, Phrase(phrase), Phrase(phrase))
    /\ UNCHANGED <<reg, made, gone>>

\* A buffered call that uses another query: one that is not made of this one.
Use(o, use, rhs) ==
    /\ MayBeCalled(o)
    /\ rhs \in Usable
    /\ (objs[o].mutable /\ ~objs[o].root) => o \notin Reach(objs, {rhs})
    /\ Len(objs[o].chain) < MaxChain
    /\ WithPending(o, <<[op |-> use, rhs |-> rhs]>>, <<[op |-> use, rhs |-> objs[rhs].chain]>>)
    /\ UNCHANGED <<reg, made, gone>>

\* with(name, callback): the builder that the callback is given.
OpenCallback ==
    /\ Len(objs) < MaxInstances
    /\ Cardinality({o \in Instances : objs[o].root}) < MaxCallbacks
    /\ \E inserted \in {RegistryInsert(Heap, Fresh)} :
          /\ Stays(inserted)
          /\ objs' = Append(objs, Instance(inserted.made, TRUE, <<>>, None, TRUE, TRUE, <<>>))
    /\ UNCHANGED gone

\* applyDirectMutation: what is buffered is committed first.
DirectlyApplied(committed, op) ==
    IF committed.ok THEN ApplyToHandle(committed.heap, committed.handle, <<PlainCall(op)>>)
    ELSE [heap |-> committed.heap, parts |-> Failed(Fresh)]

Direct(o, op) ==
    /\ MayBeCalled(o)
    /\ Len(objs) < MaxInstances
    /\ Len(objs[o].chain) < MaxChain
    /\ \E applied \in {DirectlyApplied(CommitHandle(Heap, o), op)} :
       \E inserted \in {RegistryInsert(applied.heap, applied.parts)} :
       \E chain \in {Append(objs[o].chain, Plain(op))} :
          \/ /\ applied.parts.failed
             /\ Stays(applied.heap)
             /\ objs' = applied.heap.objs
          \/ /\ ~applied.parts.failed
             /\ Stays(inserted)
             /\ objs' = IF objs[o].mutable
                        THEN [Adopt(inserted, o, inserted.made).objs EXCEPT ![o].chain = chain]
                        ELSE Append(inserted.objs, Instance(inserted.made, TRUE, <<>>, None,
                                                            FALSE, FALSE, chain))
    /\ UNCHANGED gone

\* compile(): a text that was compiled is kept.
Compile(o) ==
    /\ o \in Usable
    /\ objs[o].outcome # "text"
    /\ \E got \in {QueryOf(Heap, o)} :
          /\ Stays(got.heap)
          /\ objs' = [got.heap.objs EXCEPT ![o].outcome = IF got.query.ok THEN "text" ELSE "threw",
                                           ![o].text = got.query.text]
    /\ UNCHANGED gone

\* Mutant: the handle that an instance committed to is never registered with the finalizer.
DroppedCell(db) == IF db.registered THEN ToSet(db.cell) ELSE {}

\* The program lets go of an instance that no other refers to, and its finalizers run.
DroppedWith(db) ==
    (IF db.registered THEN ToSet(db.cell) ELSE {})
        \cup (IF db.materialized # None THEN {db.materialized} ELSE {})

Collect(o) ==
    /\ o \in Usable
    /\ \A p \in Usable : o \notin RefersTo(objs[p])
    /\ gone' = gone \cup {o}
    /\ reg' = [h \in DOMAIN reg \ DroppedWith(objs[o]) |-> reg[h]]
    /\ UNCHANGED <<made, objs>>

Init ==
    /\ reg = [h \in {1} |-> Entry(Fresh)]
    /\ made = 1
    /\ objs = <<Instance(1, TRUE, <<>>, None, FALSE, FALSE, <<>>)>>
    /\ gone = {}

Next ==
    \/ \E o \in Instances, phrase \in Phrases : Chain(o, phrase)
    \/ \E o, rhs \in Instances, use \in Uses : Use(o, use, rhs)
    \/ OpenCallback
    \/ \E o \in Instances, op \in DirectCalls : Direct(o, op)
    \/ \E o \in Instances : Compile(o)
    \/ \E o \in Instances : Collect(o)

Spec == Init /\ [][Next]_vars

----------------------------------------------------------------------------
\* What is required.

\* What a chain of calls stands for, each nested query by its own chain: no handle, no
\* cache, nothing refused but what cannot be rendered.  checked: every query in it passes
\* the validation.
RECURSIVE MeantBy(_, _, _)
Meant(chain) ==
    LET meant == MeantBy(Fresh, TRUE, chain)
    IN [query |-> Build(meant.parts, ~meant.parts.failed), selected |-> meant.parts.selected,
        checked |-> meant.checked /\ ~meant.parts.failed /\ ValidateQuery(meant.parts)]

MeantBy(parts, checked, chain) ==
    IF chain = <<>> \/ parts.failed THEN [parts |-> parts, checked |-> checked]
    ELSE LET call == Head(chain)
         IN IF call.op \in PlainOps THEN MeantBy(ApplyPlain(parts, call.op), checked, Tail(chain))
            ELSE LET rhs == Meant(call.rhs)
                 IN MeantBy(IF rhs.query.ok THEN ApplyQuery(parts, call.op, rhs.query.text, rhs.selected)
                            ELSE Failed(parts),
                            checked /\ rhs.checked, Tail(chain))

\* Whatever was compiled, committed, borrowed, inlined or collected before: a text that
\* compile() gives is the one of the calls the query was made with.
CompiledIsTheChain ==
    \A o \in Instances : objs[o].outcome = "text" => objs[o].text = Meant(objs[o].chain).query.text

\* The registry's verdict on parts that pass the validation, given for another query that was
\* inlined on top of them.
Poisoned(h) == reg[h].verdict = "invalid" /\ ValidateQuery(reg[h].parts)

\* A query whose calls are valid, and those of the queries in it, compiles: no finalizer has
\* taken a handle it needs, and a verdict on one query stands in the way of no other, unless
\* the handle of the two is one that the program compiles as well.
ValidCompiles ==
    \A o \in Usable :
        objs[o].outcome = "threw" =>
            \/ ~(Meant(objs[o].chain).checked /\ Meant(objs[o].chain).query.ok)
            \/ \E p \in Reach(objs, {o}) :
                   Committed(objs[p]) # None /\ Poisoned(Committed(objs[p]))

\* What an instance in use stands on is registered: no finalizer drops a handle that another
\* instance still borrows.
HandlesAlive ==
    \A o \in Usable :
        {objs[o].handle} \cup ({objs[o].materialized} \ {None}) \subseteq DOMAIN reg

\* A handle outlives the instances that can reach it only where a callback's builder has
\* committed on top of a handle it borrowed: its cell has no finalizer.
NothingLeaks ==
    \A h \in DOMAIN reg :
        \E o \in Instances :
            \/ o \notin gone /\ (h \in ToSet(objs[o].cell) \/ h = objs[o].materialized)
            \/ objs[o].mutable /\ ~objs[o].registered /\ h \in ToSet(objs[o].cell)

\* Handles are accounted for, in whatever order the collector lets go of clones, bases and
\* the queries that borrow from them (database.ts, _handleCell, _parent, _pendingOps).
HandlesAccounted == HandlesAlive /\ NothingLeaks

\* A text is only given for a query that passes the validation, and so do the ones in it
\* (validation.rs).  It does not hold: inlined queries of one base share its verdict.
InvalidIsRefused ==
    \A o \in Instances : objs[o].outcome = "text" => Meant(objs[o].chain).checked

=============================================================================
