---------------------------- MODULE ServerDocument ----------------------------
(***************************************************************************)
(* A document request in the server engine (plec-server-engine): the       *)
(* loaders of the matched chain run one after the other, a redirect starts *)
(* the chain of its target, a not-found ends at the boundary that owns it, *)
(* and what is left is rendered with the snapshot the browser resumes      *)
(* from.  A deployment may replace the build that is served; a request     *)
(* ends with the artifact it began with.                                   *)
(***************************************************************************)
EXTENDS Naturals, SequencesExt, FiniteSetsExt

CONSTANTS
    Sites,          \* for each build its manifest, in the order of deployment
    Paths,          \* paths of the application
    Targets,        \* where a loader may redirect
    Malformed,      \* those apply_redirect_location refuses
    MaxHops,        \* MAX_REDIRECT_HOPS
    Matcher(_, _)   \* the chain of matches for routes and a path: MatchChain of
                    \* RouteMatching

\* Where a request can be for.
Locations == Paths \cup (Targets \ Malformed)

\* An application has a build; a route has an id of its own, which the compiler
\* makes of its module and its name.
ASSUME RoutesHaveIds ==
    \A builds \in Sites :
        /\ Len(builds) \in Nat \ {0} /\ DOMAIN builds = 1..Len(builds)
        /\ \A k \in DOMAIN builds : \A i, j \in DOMAIN builds[k].routes :
               builds[k].routes[i].id = builds[k].routes[j].id => i = j

\* match_route of the server and typed_route_chain of the browser, for every
\* build and path there is.
Chains == [routes \in UNION { { builds[i].routes : i \in DOMAIN builds } : builds \in Sites }
           |-> [path \in Locations |-> Matcher(routes, path)]]

\* What RouteMatching gives: a sequence of routes of the manifest, each below the
\* one before it, and none of them twice.
ASSUME ChainsDescend ==
    \A builds \in Sites, path \in Locations : \A k \in DOMAIN builds :
        LET routes == builds[k].routes
            chain == Chains[routes][path]
        IN  /\ Len(chain) \in Nat /\ DOMAIN chain = 1..Len(chain)
            /\ \A i \in DOMAIN chain :
                   /\ \E j \in DOMAIN routes : routes[j] = chain[i].route
                   /\ i > 1 => chain[i].route.parent = chain[i - 1].route.id
                   /\ \A j \in DOMAIN chain :
                          chain[j].route.id = chain[i].route.id => j = i

VARIABLES
    site,           \* the builds
    serving,        \* the build that is deployed
    request,        \* the document request under way, or NoRequest
    response        \* its answer, or NoAnswer

serverVars == <<site, serving, request, response>>

NoRequest == [at |-> "nowhere"]
NoAnswer == [kind |-> "none"]

(***************************************************************************)
(* What a chain shows                                                      *)
(***************************************************************************)

Execution(match, loader) == [match |-> match, loader |-> loader, notFound |-> FALSE]

Graph(id, kind) == [id |-> id, kind |-> kind]

\* An error graph is "none", or it has the outlet of a child or not.
HasErrorGraph(route) == route.error # "none"

\* build_route_tree: the graph an execution is rendered with.
GraphOf(execution) ==
    LET route == execution.match.route
    IN  Graph(route.id,
              IF execution.notFound THEN "notFound"
              ELSE IF execution.loader = "rejected" /\ HasErrorGraph(route) THEN "error"
              ELSE "normal")

\* The phase of the snapshot.
PhaseOf(execution) ==
    IF execution.notFound THEN "notFound"
    ELSE IF execution.loader = "rejected" THEN "error" ELSE "active"

\* The loader data a graph is rendered with: its own, never its parent's.
DataOf(execution) ==
    IF execution.loader = "resolved" THEN execution.match.route.id ELSE "none"

RootGraph(rootNotFound) == Graph("root", IF rootNotFound THEN "notFound" ELSE "normal")

\* render_component: the graph of a child has to have its outlet.  The root's
\* not-found graph has none.
OutletsThere(executions, root) ==
    /\ root.kind = "notFound" => executions = <<>>
    /\ \A i \in 1..(Len(executions) - 1) :
           GraphOf(executions[i]).kind = "error" => executions[i].match.route.error = "outlet"

\* render_application: the graphs of the page, the root's first.
Rendered(executions, root) ==
    <<[graph |-> root, phase |-> "active", data |-> "none"]>>
    \o [i \in DOMAIN executions |->
           [graph |-> GraphOf(executions[i]), phase |-> PhaseOf(executions[i]),
            data |-> DataOf(executions[i])]]

\* bootstrap_payload: none unless something matched or the root's boundary shows.
Snapshot(build, at, executions, root, rootNotFound) ==
    IF executions = <<>> /\ ~rootNotFound THEN <<>>
    ELSE <<[revision |-> build, location |-> at,
            routes |-> [i \in DOMAIN executions |->
                           [id |-> executions[i].match.route.id,
                            params |-> executions[i].match.params,
                            phase |-> PhaseOf(executions[i])]],
            loaders |-> { [id |-> executions[i].match.route.id,
                           state |-> executions[i].loader] :
                          i \in { j \in DOMAIN executions : executions[j].loader # "none" } },
            root |-> root]>>

(***************************************************************************)
(* The answers                                                             *)
(***************************************************************************)

Redirect(to) == [kind |-> "redirect", to |-> to]
\* The minimal answer for a path without a boundary: no application in it.
Bare == [kind |-> "bare"]
\* The Node host serves the application's shell when the engine fails.
Shell == [kind |-> "document", status |-> 200, rendered |-> <<>>, snapshot |-> <<>>]

Manifest == site[request.build]

\* render_executions: rootNotFound puts the root's not-found graph, if there is
\* one, in the place of the root.
Document(status, executions, rootNotFound) ==
    LET root == RootGraph(rootNotFound /\ Manifest.rootBoundary)
    IN  IF ~OutletsThere(executions, root) THEN Shell
        ELSE [kind |-> "document", status |-> status,
              rendered |-> Rendered(executions, root),
              snapshot |-> Snapshot(request.build, request.at, executions, root, rootNotFound)]

BoundaryOwners(executions) == { i \in DOMAIN executions : executions[i].match.route.boundary }

\* resolve_not_found_boundary: the deepest owner ends the page; with none the
\* root's boundary is the page.  It is TRUE of an owner, too: the page of a
\* route's boundary is rendered with rootNotFound.
NotFoundAnswer(executions) ==
    LET owners == BoundaryOwners(executions)
    IN  IF owners = {}
        THEN IF Manifest.rootBoundary THEN Document(404, <<>>, TRUE) ELSE Bare
        ELSE Document(404, [SubSeq(executions, 1, Max(owners)) EXCEPT
                                ![Max(owners)].notFound = TRUE], TRUE)

(***************************************************************************)
(* The request                                                             *)
(***************************************************************************)

\* The pass of the loop in execute_document that begins at a path.
Pass(build, path, hops) ==
    [at |-> path, build |-> build, hops |-> hops,
     chain |-> Chains[site[build].routes][path], executions |-> <<>>]

Serving == request # NoRequest
Remaining == Len(request.executions) < Len(request.chain)
Current == request.chain[Len(request.executions) + 1]

Answer(answer) ==
    /\ response' = answer
    /\ request' = NoRequest
    /\ UNCHANGED <<site, serving>>

\* A page that was reached through redirects is not rendered: the browser is
\* sent to it.
AnswerOrRedirect_Rendering(answer) == Answer(answer)

AnswerOrRedirect(answer) ==
    Answer(IF request.hops > 0 THEN Redirect(request.at) ELSE answer)

\* The compiler refuses notFound() where no boundary is declared.
MayBeNotFound ==
    \/ Manifest.rootBoundary
    \/ \E i \in 1..(Len(request.executions) + 1) : request.chain[i].route.boundary

\* A route without a loader, and a loader that succeeds or fails: the chain
\* goes on below a failure.
RunLoader ==
    /\ Serving /\ Remaining
    /\ \E state \in IF Current.route.loader THEN {"resolved", "rejected"} ELSE {"none"} :
           request' = [request EXCEPT !.executions = Append(@, Execution(Current, state))]
    /\ UNCHANGED <<site, serving, response>>

LoaderNotFound ==
    /\ Serving /\ Remaining /\ Current.route.loader /\ MayBeNotFound
    /\ AnswerOrRedirect(NotFoundAnswer(
           Append(request.executions, Execution(Current, "notFound"))))

\* The redirects of a request are counted; the last one is answered.
LoaderRedirects_Unbounded(to) ==
    /\ Serving /\ Remaining /\ Current.route.loader
    /\ IF to \in Malformed
       THEN Answer(Shell)
       ELSE /\ request' = Pass(request.build, to, request.hops)
            /\ UNCHANGED <<site, serving, response>>

LoaderRedirects(to) ==
    /\ Serving /\ Remaining /\ Current.route.loader
    /\ IF request.hops + 1 > MaxHops \/ to \in Malformed
       THEN Answer(Shell)
       ELSE /\ request' = Pass(request.build, to, request.hops + 1)
            /\ UNCHANGED <<site, serving, response>>

\* The program of the loader fails: its fuel, its calls, an expression.
LoaderBreaks ==
    /\ Serving /\ Remaining /\ Current.route.loader
    /\ Answer(Shell)

Render ==
    /\ Serving /\ ~Remaining
    /\ AnswerOrRedirect(Document(200, request.executions, FALSE))

ServerStep ==
    \/ RunLoader
    \/ LoaderNotFound
    \/ \E to \in Targets : LoaderRedirects(to)
    \/ LoaderBreaks
    \/ Render

\* A new build is served from now on.
Deploy ==
    /\ serving < Len(site)
    /\ serving' = serving + 1
    /\ UNCHANGED <<site, request, response>>

ServerInit ==
    /\ site \in Sites
    /\ serving = 1
    /\ request = NoRequest
    /\ response = NoAnswer
=============================================================================
