------------------------------ MODULE QueryParts ------------------------------
(***************************************************************************)
(* The parts a query builder accumulates, what each call makes of them,    *)
(* what a dialect refuses and what is rendered                             *)
(* (plec-query-core: builder/mod.rs, builder/methods.rs, builder/render.rs,*)
(* dialect/mod.rs, validation.rs).                                         *)
(*                                                                         *)
(* A column, a table, a predicate or a value is not told apart from        *)
(* another: a clause is that it is there, or how often and joined by what. *)
(* A rendered query is the record of what its text holds.                  *)
(***************************************************************************)
EXTENDS Naturals, Sequences, SequencesExt, FiniteSets

\* What the dialect can do.
CONSTANT Dialect

NoJoin == [type |-> "no", by |-> <<>>]
NoInsert == [columns |-> FALSE, source |-> <<>>, target |-> "none", action |-> "none"]

Fresh ==
    [stmt |-> "none", ctes |-> <<>>, distinct |-> "no", select |-> FALSE, selected |-> FALSE,
     from |-> <<>>, joins |-> <<>>, pending |-> NoJoin, where |-> <<>>, groupBy |-> 0,
     having |-> <<>>, orderBy |-> 0, limit |-> FALSE, offset |-> FALSE, lock |-> "no",
     noWait |-> FALSE, returning |-> FALSE, compounds |-> <<>>, insert |-> NoInsert,
     assigned |-> FALSE, failed |-> FALSE]

Failed(parts) == [parts EXCEPT !.failed = TRUE]
IsDml(parts) == parts.stmt \in {"insert", "update", "delete"}
JoinOps == {"join", "rightJoin", "fullJoin"}

\* An opened join is put into the list when it has its ON or USING and the dialect has it.
JoinRefused(pending) ==
    \/ pending.by = <<>>
    \/ pending.type = "rightJoin" /\ ~Dialect.rightJoin
    \/ pending.type = "fullJoin" /\ ~Dialect.fullJoin
    \/ pending.by[1] = "using" /\ ~Dialect.using

NormalizePendingJoin(parts) ==
    IF parts.pending = NoJoin THEN parts
    ELSE IF JoinRefused(parts.pending) THEN Failed(parts)
    ELSE [parts EXCEPT !.joins = Append(parts.joins, parts.pending), !.pending = NoJoin]

ApplyJoin(parts, type) ==
    LET ready == NormalizePendingJoin(parts)
    IN IF ready.failed THEN ready
       ELSE IF type = "crossJoin"
            THEN [ready EXCEPT !.joins = Append(ready.joins, [type |-> type, by |-> <<>>])]
            ELSE [ready EXCEPT !.pending = [type |-> type, by |-> <<>>]]

UpdatePendingJoinPredicate(parts, op) ==
    LET pending == parts.pending
    IN IF \/ pending = NoJoin
          \/ op # "on" /\ pending.by = <<>>
          \/ "using" \in ToSet(pending.by)
       THEN Failed(parts)
       ELSE [parts EXCEPT !.pending.by = Append(pending.by, op)]

\* using() replaces the columns of an earlier using().
ApplyUsingColumns(parts) ==
    IF parts.pending = NoJoin \/ parts.pending.by \notin {<<>>, <<"using">>} THEN Failed(parts)
    ELSE [parts EXCEPT !.pending.by = <<"using">>]

ApplyFrom(parts, source) ==
    [parts EXCEPT !.from = source, !.stmt = "select", !.selected = FALSE, !.select = FALSE,
                  !.returning = FALSE, !.distinct = "no", !.lock = "no", !.noWait = FALSE]

ApplyStatement(parts, stmt) ==
    [parts EXCEPT !.stmt = stmt, !.insert = NoInsert, !.assigned = FALSE, !.where = <<>>,
                  !.returning = FALSE, !.selected = FALSE]

ApplyInsertSource(parts, source) ==
    [parts EXCEPT !.insert.source = source, !.returning = FALSE, !.selected = FALSE]

ApplyConflictTarget(parts, target) ==
    IF parts.insert.target \notin {"none", target} THEN Failed(parts)
    ELSE [parts EXCEPT !.insert.target = target]

ApplyLock(parts, op) ==
    IF IsDml(parts) \/ (op = "noWait" /\ parts.lock = "no") THEN Failed(parts)
    ELSE IF op = "noWait" THEN [parts EXCEPT !.noWait = TRUE]
    ELSE [parts EXCEPT !.lock = op, !.noWait = FALSE]

ApplyPredicate(parts, op) ==
    CASE op \in {"where", "andWhere"} -> [parts EXCEPT !.where = Append(parts.where, "AND")]
      [] op = "orWhere" -> [parts EXCEPT !.where = Append(parts.where, "OR")]
      [] op = "having" -> [parts EXCEPT !.having = Append(parts.having, "AND")]
      [] op = "orHaving" -> [parts EXCEPT !.having = Append(parts.having, "OR")]
      [] op = "using" -> ApplyUsingColumns(parts)
      [] OTHER -> UpdatePendingJoinPredicate(parts, op)

ApplyClause(parts, op) ==
    CASE op = "distinct" -> [parts EXCEPT !.distinct = "distinct"]
      [] op = "distinctOn" -> [parts EXCEPT !.distinct = "on"]
      [] op = "select" -> [parts EXCEPT !.select = TRUE, !.stmt = "select", !.selected = TRUE]
      [] op = "returning" -> [parts EXCEPT !.returning = TRUE, !.selected = TRUE]
      [] op = "groupBy" -> [parts EXCEPT !.groupBy = @ + 1]
      [] op = "orderBy" -> [parts EXCEPT !.orderBy = @ + 1]
      [] op = "limit" -> [parts EXCEPT !.limit = TRUE]
      [] op = "offset" -> [parts EXCEPT !.offset = TRUE]
      [] OTHER -> ApplyLock(parts, op)

ApplyDml(parts, op) ==
    CASE op = "insertInto" -> ApplyStatement(parts, "insert")
      [] op = "update" -> ApplyStatement(parts, "update")
      [] op = "deleteFrom" -> ApplyStatement(parts, "delete")
      [] op = "columns" -> [ApplyInsertSource(parts, <<>>) EXCEPT !.insert.columns = TRUE]
      [] op = "values" -> ApplyInsertSource(parts, <<"rows">>)
      [] op = "set" -> [parts EXCEPT !.assigned = TRUE, !.returning = FALSE, !.selected = FALSE]
      [] op \in {"onConflict", "onConflictOnConstraint"} -> ApplyConflictTarget(parts, op)
      [] op = "doNothing" -> [parts EXCEPT !.insert.action = "nothing"]
      [] op = "doUpdateSet" -> [parts EXCEPT !.insert.action = "update"]
      [] op = "conflictWhere" ->
           IF parts.insert.action \notin {"update", "updateWhere"} THEN Failed(parts)
           ELSE [parts EXCEPT !.insert.action = "updateWhere"]

PredicateOps ==
    {"where", "andWhere", "orWhere", "having", "orHaving", "on", "andOn", "orOn", "using"}
ClauseOps ==
    {"distinct", "distinctOn", "select", "returning", "groupBy", "orderBy", "limit", "offset",
     "forUpdate", "forShare", "noWait"}
DmlOps ==
    {"insertInto", "update", "deleteFrom", "columns", "values", "set", "onConflict",
     "onConflictOnConstraint", "doNothing", "doUpdateSet", "conflictWhere"}

\* A call that carries no other query.
ApplyPlain(parts, op) ==
    CASE op \in PredicateOps -> ApplyPredicate(parts, op)
      [] op \in ClauseOps -> ApplyClause(parts, op)
      [] op \in DmlOps -> ApplyDml(parts, op)
      [] op = "from" -> ApplyFrom(parts, <<"table">>)
      [] op \in JoinOps \cup {"crossJoin"} -> ApplyJoin(parts, op)

PlainOps == PredicateOps \cup ClauseOps \cup DmlOps \cup JoinOps \cup {"from", "crossJoin"}

\* A call that carries the rendered query of another builder.
ApplyQuery(parts, op, query, selected) ==
    CASE op = "with" ->
           [parts EXCEPT !.ctes = Append(parts.ctes, [recursive |-> FALSE, named |-> FALSE, query |-> query])]
      [] op = "withRecursive" ->
           [parts EXCEPT !.ctes = Append(parts.ctes, [recursive |-> TRUE, named |-> selected, query |-> query])]
      [] op = "fromSubquery" -> ApplyFrom(parts, <<"query", query>>)
      [] op = "joinSubquery" -> ApplyJoin(parts, "join")
      [] op = "insertSelect" -> ApplyInsertSource(parts, <<"query", query>>)
      [] OTHER ->
           LET ready == NormalizePendingJoin(parts)
           IN IF ready.failed THEN ready
              ELSE [ready EXCEPT !.compounds = Append(ready.compounds, <<op, query>>)]

CompoundOps == {"union", "unionAll", "intersect", "except"}
QueryOps == {"with", "withRecursive", "fromSubquery", "joinSubquery", "insertSelect"} \cup CompoundOps

\* What is refused before anything is rendered.
ConflictRefused(parts) ==
    LET target == parts.insert.target
        action == parts.insert.action
    IN \/ target # "none" /\ action = "none"
       \/ action # "none" /\ Dialect.conflict = "unsupported"
       \/ action # "none" /\ Dialect.conflict = "mysql" /\ target # "none"
       \/ action = "updateWhere" /\ Dialect.conflict = "mysql"
       \/ action \in {"update", "updateWhere"} /\ Dialect.conflict = "onConflict" /\ target = "none"

PaginationRefused(parts) ==
    /\ parts.limit \/ parts.offset
    /\ \/ ~Dialect.pagination
       \/ parts.offset /\ ~parts.limit /\ ~Dialect.offsetOnly
       \/ parts.offset /\ Dialect.offsetOrdered /\ parts.orderBy = 0

SqliteRefuses(parts) ==
    /\ Dialect.sqlite
    /\ \/ \E i \in DOMAIN parts.joins : parts.joins[i].type \in {"rightJoin", "fullJoin"}
       \/ parts.pending.type \in {"rightJoin", "fullJoin"}
       \/ parts.returning /\ parts.stmt = "update"

ValidateQuery(parts) ==
    /\ ~SqliteRefuses(parts)
    /\ ~NormalizePendingJoin(parts).failed
    /\ parts.distinct = "on" => Dialect.distinctOn
    /\ \A i \in DOMAIN parts.ctes :
          parts.ctes[i].recursive => (Dialect.recursiveNamed => parts.ctes[i].named)
    /\ ~ConflictRefused(parts)
    /\ parts.returning => IsDml(parts) /\ Dialect.returning
    /\ parts.lock # "no" => ~IsDml(parts) /\ Dialect.locks
    /\ ~PaginationRefused(parts)

\* What is rendered of parts that were let through; a body that lacks its target, its
\* projection or its rows is an error.
Body(parts) ==
    CASE parts.stmt = "insert" -> <<"insert", parts.insert>>
      [] parts.stmt = "update" -> <<"update", parts.where>>
      [] parts.stmt = "delete" -> <<"delete", parts.where>>
      [] OTHER -> <<"select", parts.distinct, parts.from, parts.joins, parts.where, parts.groupBy,
                    parts.having, parts.orderBy, parts.limit, parts.offset, parts.lock, parts.noWait>>

BodyLacks(parts) ==
    CASE parts.stmt = "insert" -> parts.insert.source = <<>>
      [] parts.stmt = "update" -> ~parts.assigned
      [] parts.stmt = "delete" -> FALSE
      [] OTHER -> ~parts.select

Rendered(parts) ==
    [ctes |-> parts.ctes, body |-> Body(parts), returning |-> parts.returning,
     compounds |-> parts.compounds]

NoText == [ctes |-> <<>>, body |-> <<>>, returning |-> FALSE, compounds |-> <<>>]

\* The query of parts, after a check whose verdict is given.
Build(parts, valid) ==
    LET ready == NormalizePendingJoin(parts)
    IN IF ~valid \/ ready.failed \/ BodyLacks(ready) THEN [ok |-> FALSE, text |-> NoText]
       ELSE [ok |-> TRUE, text |-> Rendered(ready)]
=============================================================================
