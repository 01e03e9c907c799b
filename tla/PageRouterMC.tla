----------------------------- MODULE PageRouterMC -----------------------------
\* Two pages of one layout with a parameter, the second with a page of its own
\* below, and a page beside them.  The root has a loader and no boundary.
EXTENDS PageRouter

MCChain ==
    "/items/1" :> <<"root", "item", "index">> @@
    "/items/2" :> <<"root", "item", "index">> @@
    "/help" :> <<"root", "help">>

MCParams ==
    "/items/1" :> <<"", "1", "1">> @@ "/items/2" :> <<"", "2", "2">> @@ "/help" :> <<"", "">>
=============================================================================
