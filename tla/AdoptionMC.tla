------------------------------ MODULE AdoptionMC ------------------------------
(***************************************************************************)
(* The sites TLC tries for Adoption: a layout with an index and a page     *)
(* below it and a page of its own; and the check of the route matcher.     *)
(***************************************************************************)
EXTENDS Adoption, RouteMatching

Route(id, parent, pattern, segments, loader, error, boundary) ==
    [id |-> id, parent |-> parent, pattern |-> pattern, segments |-> segments,
     loader |-> loader, error |-> error, boundary |-> boundary]

Site(layout, page, rootBoundary) ==
    [routes |-> <<Route("layout", Top, "path", <<Static("a")>>,
                        layout.loader, layout.error, layout.boundary),
                  Route("page", "layout", "path", <<Param("x")>>,
                        page.loader, page.error, page.boundary),
                  Route("index", "layout", "index", <<>>, FALSE, "none", FALSE),
                  Route("other", Top, "path", <<Static("b")>>, TRUE, "leaf", FALSE)>>,
     rootBoundary |-> rootBoundary]

Kinds == [loader : {TRUE}, error : {"none", "outlet", "leaf"}, boundary : BOOLEAN]
         \cup [loader : {FALSE}, error : {"none"}, boundary : BOOLEAN]

MCPaths == {<<"a", "z">>, <<"a">>, <<"b">>, <<"c">>}
MCTargets == {<<"a", "z">>, <<"b">>, <<"//">>}
MCMalformed == {<<"//">>}

\* What is below a page does not matter.
Pages == { kind \in Kinds : kind.error # "outlet" /\ (kind.boundary => kind.loader) }

OneBuild == { <<Site(layout, page, root)>> :
                layout \in Kinds, page \in Pages, root \in BOOLEAN }

\* A deployment takes a boundary, an error graph or a route away.
Without(built, id) ==
    [built EXCEPT !.routes = SelectSeq(@, LAMBDA route : route.id # id)]
Full == Site([loader |-> TRUE, error |-> "outlet", boundary |-> TRUE],
             [loader |-> TRUE, error |-> "leaf", boundary |-> FALSE], TRUE)
Bald == Site([loader |-> TRUE, error |-> "none", boundary |-> FALSE],
             [loader |-> FALSE, error |-> "none", boundary |-> FALSE], FALSE)
TwoBuilds == {<<Full, Full>>, <<Full, Bald>>, <<Bald, Full>>,
              <<Full, Without(Full, "page")>>, <<Without(Full, "layout"), Full>>}

MCSites == OneBuild \cup TwoBuilds

(***************************************************************************)
(* The matcher against its definition                                      *)
(***************************************************************************)

Parts == { <<>> } \cup { <<p>> : p \in {"a", "b"} } \cup { <<p, q>> : p, q \in {"a", "b"} }
Shapes == { <<"index", <<>>>>, <<"wildcard", <<>>>>, <<"path", <<Static("a")>>>>,
            <<"path", <<Param("x")>>>>, <<"path", <<Static("a"), Param("x")>>>> }
Small(shapes, second, third) ==
    LET route(id, parent, shape) == Route(id, parent, shape[1], shape[2], FALSE, "none", FALSE)
    IN  <<route("1", Top, shapes[1]), route("2", second, shapes[2]), route("3", third, shapes[3])>>
Manifests == { Small(shapes, second, third) :
                 shapes \in [1..3 -> Shapes], second \in {Top, "1"}, third \in {Top, "1", "2"} }

\* Where the i-th route of a chain begins.
Offset(chain, i) == FoldLeft(LAMBDA sum, route : sum + Len(route.segments), 0,
                             SubSeq(chain, 1, i - 1))

\* A chain goes down the tree, its patterns cover the path, and nothing is left
\* unless a wildcard ends it.
Matches(chain, parts) ==
    /\ chain # <<>> /\ chain[1].parent = Top
    /\ \A i \in 2..Len(chain) : chain[i].parent = chain[i - 1].id
    /\ \A i \in DOMAIN chain :
           CASE chain[i].pattern = "path" -> Covers(chain[i], parts, Offset(chain, i))
             [] chain[i].pattern = "index" -> Offset(chain, i) = Len(parts)
             [] chain[i].pattern = "wildcard" -> i = Len(chain)
    /\ Last(chain).pattern = "wildcard" \/ Offset(chain, Len(chain) + 1) = Len(parts)

ChainsOf(routes) ==
    { [i \in DOMAIN order |-> routes[order[i]]] :
        order \in { <<i>> : i \in 1..3 } \cup { <<i, j>> : i, j \in 1..3 }
                  \cup { p \in [1..3 -> 1..3] : IsInjective(p) } }

\* A path has a match if some chain matches it; of the routes that begin one,
\* the match begins with a most static one.
ASSUME MatcherFindsTheChain ==
    \A routes \in Manifests, parts \in Parts :
        LET found == [i \in DOMAIN MatchChain(routes, parts) |-> MatchChain(routes, parts)[i].route]
            all == { chain \in ChainsOf(routes) : Matches(chain, parts) }
        IN  /\ found = <<>> <=> all = {}
            /\ found # <<>> =>
                 /\ found \in all
                 /\ \A chain \in all : chain[1].pattern = "path" =>
                        /\ found[1].pattern = "path"
                        /\ StaticSegments(found[1]) >= StaticSegments(chain[1])
=============================================================================
