---------------------------- MODULE RouteMatching ----------------------------
(***************************************************************************)
(* match_route_chain of plec-schema: the chain of routes a manifest gives  *)
(* a path.  The server, the browser runtime and the Vite plugin use it.    *)
(*                                                                         *)
(* A path is the sequence of its non-empty segments.  A route's pattern is *)
(* "index" (an empty path), "wildcard" or "path" with its segments.     *)
(***************************************************************************)
EXTENDS Naturals, SequencesExt

Top == "top"        \* the parent of the routes that have none

Static(name) == [param |-> FALSE, name |-> name]
Param(name) == [param |-> TRUE, name |-> name]

\* match_route_entry: the pattern covers the parts that follow offset.
Covers(route, parts, offset) ==
    /\ Len(route.segments) <= Len(parts) - offset
    /\ \A i \in DOMAIN route.segments :
           route.segments[i].param \/ route.segments[i].name = parts[offset + i]

StaticSegments(route) == Len(SelectSeq(route.segments, LAMBDA segment : ~segment.param))

\* What the pattern binds goes over what the routes above it have bound.
Bound(route, parts, offset, params) ==
    LET named == { i \in DOMAIN route.segments : route.segments[i].param }
        last(name) == CHOOSE i \in named :
                          /\ route.segments[i].name = name
                          /\ \A j \in named : route.segments[j].name = name => j <= i
        names == { route.segments[i].name : i \in named }
    IN  [name \in names \cup DOMAIN params |->
            IF name \in names THEN parts[offset + last(name)] ELSE params[name]]

Match(route, params) == [route |-> route, params |-> params]

\* The most static first, then in the order of the manifest.
Candidates(routes, parent, parts, offset) ==
    SetToSortSeq({ i \in DOMAIN routes :
                     /\ routes[i].parent = parent /\ routes[i].pattern = "path"
                     /\ Covers(routes[i], parts, offset) },
                 LAMBDA i, j : \/ StaticSegments(routes[i]) > StaticSegments(routes[j])
                               \/ /\ StaticSegments(routes[i]) = StaticSegments(routes[j])
                                  /\ i < j)

\* The first child with the pattern, <<>> if there is none.
FirstChild(routes, parent, pattern) ==
    SelectSeq(routes, LAMBDA route : route.parent = parent /\ route.pattern = pattern)

\* A candidate is taken when its children match the rest or no rest is left;
\* <<>> is no match.
RECURSIVE MatchFrom(_, _, _, _, _)
MatchFrom(routes, parent, parts, offset, params) ==
    LET next(i) == offset + Len(routes[i].segments)
        bound(i) == Bound(routes[i], parts, offset, params)
        below(i) == MatchFrom(routes, routes[i].id, parts, next(i), bound(i))
        taken == SelectSeq(Candidates(routes, parent, parts, offset),
                           LAMBDA i : below(i) # <<>> \/ next(i) >= Len(parts))
        index == FirstChild(routes, parent, "index")
        wildcard == FirstChild(routes, parent, "wildcard")
    IN  IF taken # <<>>
        THEN <<Match(routes[Head(taken)], bound(Head(taken)))>> \o below(Head(taken))
        ELSE IF offset = Len(parts) /\ index # <<>>
        THEN <<Match(Head(index), params)>>
             \o MatchFrom(routes, Head(index).id, parts, offset, params)
        ELSE IF wildcard # <<>> THEN <<Match(Head(wildcard), params)>> ELSE <<>>

MatchChain(routes, parts) == MatchFrom(routes, Top, parts, 0, <<>>)
=============================================================================
