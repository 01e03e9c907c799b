---------------------------- MODULE KeyedRowsMC ----------------------------
(***************************************************************************)
(* The graphs and feeds TLC tries for KeyedRows.                            *)
(***************************************************************************)
EXTENDS KeyedRows

CONSTANTS a, b, c, d

Graph(feed, keys, values, text, test, branch, limit, regions) ==
  [feed |-> feed, keys |-> keys, values |-> values, text |-> text, test |-> test,
   branch |-> branch, limit |-> limit, regions |-> regions]
Plain == {[v |-> 0, on |-> FALSE]}
Toggled == {[v |-> 0, on |-> FALSE], [v |-> 1, on |-> TRUE]}
Varied == Toggled \cup {[v |-> 1, on |-> FALSE]}

\* Every feed, with templates whose nodes depend on the row, on the state and
\* on both; four rows for the order, a low limit of rows and of regions.
Working ==
  {Graph("host", {a, b, c, d}, Plain, {"v"}, "on", {}, 4, 99),
   Graph("host", {a, b, c}, Varied, {"v"}, "on", {"v", "on"}, 2, 99),
   Graph("host", {a, b, c}, Plain, {"v"}, "on", {"v"}, 3, 5),
   Graph("action", {a, b, c}, Varied, {"v", "s"}, "on", {"v", "s"}, 3, 99),
   Graph("action", {a, b, c}, Plain, {"s"}, "s", {"s"}, 3, 5),
   Graph("delta", {a, b, c}, Toggled, {"v"}, "on", {"on"}, 3, 99),
   Graph("delta", {a, b, c}, Plain, {"v", "s"}, "s", {"s"}, 3, 5),
   Graph("snapshot", {a, b, c}, Toggled, {"v"}, "on", {"on"}, 3, 99),
   Graph("snapshot", {a, b, c, d}, Plain, {"v"}, "on", {}, 4, 99)}
\* Snapshots in any order, of rows that never change.
Reordering == {Graph("snapshot", {a, b, c}, Plain, {"v"}, "on", {}, 3, 99)}
Symmetry == Permutations({a, b, c})

=============================================================================
