--------------------------- MODULE QueryBuilderMC ---------------------------
(***************************************************************************)
(* QueryBuilder on MySQL's capabilities.                                   *)
(***************************************************************************)
EXTENDS QueryBuilder

MySql ==
    [rightJoin |-> TRUE, fullJoin |-> FALSE, using |-> TRUE, distinctOn |-> FALSE,
     recursiveNamed |-> FALSE, conflict |-> "mysql", returning |-> FALSE, locks |-> FALSE,
     pagination |-> TRUE, offsetOnly |-> FALSE, offsetOrdered |-> FALSE, sqlite |-> FALSE]

\* A query, and one that MySQL refuses.
SelectPhrases == {<<"from", "select">>, <<"from", "select", "offset">>}
=============================================================================
