------------------------------ MODULE Navigation ------------------------------
(***************************************************************************)
(* The router of the browser runtime (plec-router): the chain of route     *)
(* instances below the persistent root graph, the walk that brings it to a *)
(* location, graphs delivered lazily, and what a loader's terminal outcome *)
(* does to the chain.                                                      *)
(*                                                                         *)
(* The walk is a loop that calls loaders; a loader that ends before its    *)
(* first fetch calls back into the router, which walks again inside the    *)
(* walk.  frames is that call stack.  JavaScript runs a task to its end:   *)
(* inputs, answers and deliveries come only when the stack is empty.       *)
(*                                                                         *)
(* What a loader does inside its instance is module RouteLoader; here an   *)
(* instance keeps the number of answers that can still reach it.           *)
(* Instances are the positions of the chain: an instance id is made of the *)
(* outlets above it, and every route here uses the outlet "main".          *)
(***************************************************************************)
EXTENDS Integers, SequencesExt

CONSTANTS
    Routes, Paths, Searches,
    Chain,          \* [Paths -> Seq(Routes)], match_route_chain of the manifest
    Loading,        \* routes with a loader
    Pending,        \* ... with a pending graph that replaces the route
    Erring,         \* ... with an error graph
    Boundaries,     \* ... with a not-found graph
    RootBoundary,   \* the root route has one
    Answers,        \* [Loading -> outcomes its fetches may lead to]
    Early,          \* [Loading -> outcomes it may have before any fetch; a
                    \* fetch that the host's policy denies fails at once]
    Lazy,           \* graphs that are not loaded when the router starts
    MaxHops,        \* MAX_REDIRECT_HOPS
    MaxInputs       \* bound: navigations, reloads and retries

Location == [path : Paths, search : Searches]
Nowhere == [path |-> "", search |-> ""]

Outcome(kind) == [kind |-> kind, to |-> Nowhere]
RedirectTo(to) == [kind |-> "redirect", to |-> to]
Outcomes == { Outcome(kind) : kind \in {"success", "failure", "notFound"} }
            \cup { RedirectTo(to) : to \in Location }

Graph(route, phase) == [route |-> route, phase |-> phase]
RootBoundaryGraph == Graph("root", "notFound")

ASSUME ManifestAssumption ==
    /\ Chain \in [Paths -> Seq(Routes)]
    /\ Loading \subseteq Routes /\ Boundaries \subseteq Routes
    /\ Pending \subseteq Loading /\ Erring \subseteq Loading
    /\ RootBoundary \in BOOLEAN
ASSUME LoadersAssumption ==
    /\ Answers \in [Loading -> SUBSET Outcomes]
    /\ Early \in [Loading -> SUBSET Outcomes]
\* The compiler refuses notFound() where no boundary is declared.
ASSUME BoundaryAssumption ==
    \A path \in Paths : \A i \in 1..Len(Chain[path]) :
        /\ Chain[path][i] \in Loading
        /\ Outcome("notFound") \in Answers[Chain[path][i]] \cup Early[Chain[path][i]]
        => RootBoundary \/ \E j \in 1..i : Chain[path][j] \in Boundaries
ASSUME BoundsAssumption == MaxHops \in Nat /\ MaxInputs \in Nat

VARIABLES
    location,       \* window.location
    root,           \* the graph of the root instance, "normal" or "notFound"
    instances,      \* the chain: typed, without the root
    frames,         \* navigate_typed_route calls under way, innermost last
    running,        \* position whose loader run_typed_loader is starting, or 0
    redirects,      \* typed_redirect_depth
    delivered,      \* lazy graphs registered since the start
    requests,       \* graph requests in flight, counted
    inputs          \* inputs so far

page == <<root, instances>>
calls == <<frames, running>>
loads == <<delivered, requests>>
vars == <<location, page, calls, redirects, loads, inputs>>

(***************************************************************************)
(* The manifest                                                            *)
(***************************************************************************)

Registered(graph) == graph \notin Lazy \/ graph \in delivered

\* The last boundary among the first i routes, 0 if the root's applies.
NearestBoundary(routes, i) ==
    LET owners == { j \in 1..i : routes[j] \in Boundaries }
    IN  IF owners = {} THEN 0 ELSE CHOOSE j \in owners : \A k \in owners : k <= j

BoundaryGraph(routes, i) ==
    LET owner == NearestBoundary(routes, i)
    IN  IF owner # 0 THEN {Graph(routes[owner], "notFound")}
        ELSE IF RootBoundary THEN {RootBoundaryGraph} ELSE {}

PhaseGraphs(routes, i) ==
    { Graph(routes[i], "pending") : r \in Pending \cap {routes[i]} }
    \cup { Graph(routes[i], "error") : r \in Erring \cap {routes[i]} }
    \cup BoundaryGraph(routes, i)

\* The boundary a route inherits is forgotten.
MissingGraphs_OwnBoundary(routes, i) ==
    LET own == Graph(routes[i], "normal")
        phases == IF routes[i] \in Boundaries THEN PhaseGraphs(routes, i)
                  ELSE PhaseGraphs(routes, i) \ BoundaryGraph(routes, i)
    IN  IF ~Registered(own) THEN {own}
        ELSE IF routes[i] \in Loading
             THEN { graph \in phases : ~Registered(graph) }
             ELSE {}

\* Before its route is mounted a loader's phase graphs are there too.
MissingGraphs(routes, i) ==
    LET own == Graph(routes[i], "normal")
    IN  IF ~Registered(own) THEN {own}
        ELSE IF routes[i] \in Loading
             THEN { graph \in PhaseGraphs(routes, i) : ~Registered(graph) }
             ELSE {}

\* A graph has the outlet if some route is mounted below its route.
HasOutlet(route) ==
    \E path \in Paths : \E i \in 1..(Len(Chain[path]) - 1) : Chain[path][i] = route

(***************************************************************************)
(* The instances                                                           *)
(***************************************************************************)

Mounted(route, path, search) ==
    [route |-> route, path |-> path, search |-> search, phase |-> "normal",
     graph |-> "normal", retained |-> FALSE, loads |-> 0, attached |-> TRUE]

\* Mounting another graph in an instance replaces its nodes, the outlet among
\* them: what is mounted below is no longer in the document.
DetachBelow(chain, d) ==
    [i \in DOMAIN chain |-> IF i > d THEN [chain[i] EXCEPT !.attached = FALSE] ELSE chain[i]]

\* show_typed_route_graph: the runtime on screen is replaced and its fetches
\* are invalidated, unless it is retained for its loader.
Showing(chain, d, graph) ==
    [DetachBelow(chain, d) EXCEPT ![d].graph = graph, ![d].loads = 0]

ShowingPending(chain, d) ==
    [DetachBelow(chain, d) EXCEPT ![d].graph = "pending", ![d].retained = TRUE]

\* restore_typed_route_normal, where a pending graph is shown.
Restored(chain, d) ==
    IF chain[d].retained
    THEN [Showing(chain, d, "normal") EXCEPT ![d].retained = FALSE, ![d].phase = "normal"]
    ELSE chain

\* show_typed_route_error: without an error graph the graph on screen stays.
Errored(chain, d) ==
    LET failed == [chain EXCEPT ![d].phase = "error", ![d].retained = FALSE,
                                ![d].loads = IF chain[d].retained THEN 0 ELSE @]
    IN  IF chain[d].route \in Erring THEN Showing(failed, d, "error") ELSE failed

\* handle_loader_not_found, where the owner is a route.
NotFoundAt(chain, owner) ==
    [Showing(SubSeq(chain, 1, owner), owner, "notFound")
        EXCEPT ![owner].phase = "notFound", ![owner].retained = FALSE]

Owner(chain, d) == NearestBoundary([i \in DOMAIN chain |-> chain[i].route], d)

FirstInstances(n) == SubSeq(instances, 1, IF n < Len(instances) THEN n ELSE Len(instances))

(***************************************************************************)
(* navigate_typed_route                                                    *)
(***************************************************************************)

\* The walk begins: history is written, a root boundary gives way.
Begin(to, below) ==
    /\ location' = to
    /\ root' = "normal"
    /\ frames' = Append(below, [path |-> to.path, search |-> to.search, index |-> 1])

Frame == Last(frames)
Matched == Chain[Frame.path]

Walking ==
    /\ running = 0
    /\ frames # <<>>
    /\ UNCHANGED <<location, root, redirects, inputs>>

AtRoute ==
    /\ Walking
    /\ Frame.index <= Len(Matched)

Ready ==
    /\ AtRoute
    /\ MissingGraphs(Matched, Frame.index) = {}
    /\ UNCHANGED loads

Advanced == [frames EXCEPT ![Len(frames)].index = @ + 1]

Current_AnyPath(i) ==
    /\ i <= Len(instances)
    /\ instances[i].route = Matched[i]

\* The instance at i is the route's, for this path: match_key.
Current(i) ==
    /\ i <= Len(instances)
    /\ instances[i].route = Matched[i]
    /\ instances[i].path = Frame.path

\* plec:graph-needed, for one of the missing graphs (the code takes the first);
\* the walk ends here and what is mounted stays.
RequestGraph ==
    /\ AtRoute
    /\ \E graph \in MissingGraphs(Matched, Frame.index) :
        requests' = [requests EXCEPT ![graph] = @ + 1]
    /\ frames' = Front(frames)
    /\ UNCHANGED <<instances, running, delivered>>

Keep ==
    /\ Ready
    /\ LET i == Frame.index
       IN  /\ Current(i)
           /\ instances' = [instances EXCEPT ![i].search = Frame.search]
           /\ running' = IF instances[i].search # Frame.search /\ Matched[i] \in Loading
                         THEN i ELSE 0
    /\ frames' = Advanced

\* The outlet of position i: in the graph the parent shows.
OutletShown(i) ==
    IF i = 1 THEN root = "normal"
    ELSE /\ i - 1 <= Len(instances)
         /\ instances[i - 1].graph = "normal"
         /\ HasOutlet(instances[i - 1].route)

\* Whatever was in the outlet is disposed of with all below it.
Mount ==
    /\ Ready
    /\ LET i == Frame.index
       IN  /\ ~Current(i)
           /\ OutletShown(i)
           /\ instances' = Append(FirstInstances(i - 1),
                                  Mounted(Matched[i], Frame.path, Frame.search))
           /\ running' = IF Matched[i] \in Loading THEN i ELSE 0
    /\ frames' = Advanced

\* The error ends the walk, after the old instance has been disposed of.
MountFails ==
    /\ Ready
    /\ ~Current(Frame.index)
    /\ ~OutletShown(Frame.index)
    /\ instances' = FirstInstances(Frame.index - 1)
    /\ frames' = Front(frames)
    /\ UNCHANGED running

\* What is mounted below the last route is disposed of.
Arrive ==
    /\ Walking
    /\ Frame.index > Len(Matched)
    /\ instances' = FirstInstances(Len(Matched))
    /\ frames' = Front(frames)
    /\ UNCHANGED <<running, loads>>

(***************************************************************************)
(* Loaders                                                                 *)
(***************************************************************************)

Redirect_Uncharged(to) ==
    IF redirects < MaxHops
    THEN Begin(to, frames) /\ UNCHANGED redirects
    ELSE UNCHANGED <<location, root, frames, redirects>>

\* handle_loader_redirect
Redirect(to) ==
    IF redirects < MaxHops
    THEN Begin(to, frames) /\ redirects' = redirects + 1
    ELSE UNCHANGED <<location, root, frames, redirects>>

\* handle_loader_not_found; the root's boundary replaces the whole chain.
NotFound(chain, d) ==
    LET owner == Owner(chain, d)
    IN  /\ \/ owner # 0 /\ instances' = NotFoundAt(chain, owner) /\ UNCHANGED root
           \/ owner = 0 /\ instances' = <<>> /\ root' = "notFound"
        /\ UNCHANGED <<location, frames, redirects>>

\* complete_shared_route_loader on the chain, for the instance at d.
Conclude(chain, d, outcome) ==
    CASE outcome.kind = "success" ->
            instances' = Restored(chain, d) /\ UNCHANGED <<location, root, frames, redirects>>
      [] outcome.kind = "failure" ->
            instances' = Errored(chain, d) /\ UNCHANGED <<location, root, frames, redirects>>
      [] outcome.kind = "redirect" ->
            instances' = Restored(chain, d) /\ Redirect(outcome.to)
      [] outcome.kind = "notFound" ->
            NotFound(Restored(chain, d), d)

Runnable == running # 0 /\ instances[running].graph = "normal"

\* The loader starts: phase loading, under the pending graph.
Started(chain, d) ==
    LET loading == [chain EXCEPT ![d].phase = "loading"]
    IN  IF chain[d].route \in Pending THEN ShowingPending(loading, d) ELSE loading

LoaderFetches ==
    /\ Runnable
    /\ Answers[instances[running].route] # {}
    /\ instances' = [Started(instances, running) EXCEPT ![running].loads = @ + 1]
    /\ running' = 0
    /\ UNCHANGED <<location, root, frames, redirects, loads, inputs>>

LoaderEnds ==
    /\ Runnable
    /\ \E outcome \in Early[instances[running].route] :
        Conclude(Started(instances, running), running, outcome)
    /\ running' = 0
    /\ UNCHANGED <<loads, inputs>>

\* The graph on screen is not the route's: it has no such action.  The error
\* ends the walk that wanted the loader.
LoaderFails ==
    /\ running # 0
    /\ ~Runnable
    /\ running' = 0
    /\ frames' = IF frames = <<>> THEN frames ELSE Front(frames)
    /\ UNCHANGED <<location, page, redirects, loads, inputs>>

(***************************************************************************)
(* Tasks                                                                   *)
(***************************************************************************)

AtRest == frames = <<>> /\ running = 0

\* The last fetch of a loader settles.
Settle(d) ==
    /\ AtRest
    /\ d <= Len(instances)
    /\ instances[d].loads > 0
    /\ \E outcome \in Answers[instances[d].route] :
        Conclude([instances EXCEPT ![d].loads = @ - 1], d, outcome)
    /\ UNCHANGED <<running, loads, inputs>>

\* The browser glue registers the graph and navigates to wherever the page is
\* by then, as a user would.
Deliver(graph) ==
    /\ AtRest
    /\ requests[graph] > 0
    /\ requests' = [requests EXCEPT ![graph] = @ - 1]
    /\ delivered' = delivered \cup {graph}
    /\ redirects' = 0
    /\ Begin(location, frames)
    /\ UNCHANGED <<instances, running, inputs>>

DeliveryFails(graph) ==
    /\ AtRest
    /\ requests[graph] > 0
    /\ requests' = [requests EXCEPT ![graph] = @ - 1]
    /\ UNCHANGED <<location, page, calls, redirects, delivered, inputs>>

Input ==
    /\ AtRest
    /\ inputs < MaxInputs
    /\ inputs' = inputs + 1

\* A click on a link, the back button, or a call of navigate.
Visit ==
    /\ Input
    /\ \E to \in Location : Begin(to, frames)
    /\ redirects' = 0
    /\ UNCHANGED <<instances, running, loads>>

\* An action of the route asks for its loader to run again.
Reload(d) ==
    /\ Input
    /\ d <= Len(instances)
    /\ instances[d].graph = "normal" /\ instances[d].route \in Loading
    /\ running' = d
    /\ UNCHANGED <<location, page, frames, redirects, loads>>

Retry(d) ==
    /\ Input
    /\ d <= Len(instances)
    /\ instances[d].graph = "error"
    /\ instances' = Showing(instances, d, "normal")
    /\ running' = d
    /\ UNCHANGED <<location, root, frames, redirects, loads>>

-------------------------------------------------------------------------------

\* start: the root graph is mounted and the page's location is walked.
Init ==
    /\ location \in Location
    /\ root = "normal"
    /\ instances = <<>>
    /\ frames = << [path |-> location.path, search |-> location.search, index |-> 1] >>
    /\ running = 0
    /\ redirects = 0
    /\ delivered = {}
    /\ requests = [graph \in Lazy |-> 0]
    /\ inputs = 0

Positions == 1..(CHOOSE n \in { Len(Chain[p]) : p \in Paths } :
                    \A p \in Paths : Len(Chain[p]) <= n)

Call ==
    \/ RequestGraph \/ Keep \/ Mount \/ MountFails \/ Arrive
    \/ LoaderFetches \/ LoaderEnds \/ LoaderFails

Next ==
    \/ Call
    \/ \E d \in Positions : Settle(d) \/ Reload(d) \/ Retry(d)
    \/ \E graph \in Lazy : Deliver(graph) \/ DeliveryFails(graph)
    \/ Visit

Spec == Init /\ [][Next]_vars

\* A task runs to its end; the browser settles every fetch.
Fairness ==
    /\ WF_vars(Call)
    /\ \A d \in Positions : WF_vars(Settle(d))
    /\ \A graph \in Lazy : WF_vars(Deliver(graph) \/ DeliveryFails(graph))

FairSpec == Spec /\ Fairness

(***************************************************************************)
(* Properties                                                              *)
(***************************************************************************)

Instance ==
    [route : Routes, path : Paths, search : Searches,
     phase : {"normal", "loading", "error", "notFound"},
     graph : {"normal", "pending", "error", "notFound"},
     retained : BOOLEAN, loads : Nat, attached : BOOLEAN]

\* Type invariant: the redirect budget is never exceeded, and a retained
\* runtime is one behind a pending graph.
TypeOK ==
    /\ location \in Location
    /\ root \in {"normal", "notFound"}
    /\ instances \in Seq(Instance)
    /\ \A i \in DOMAIN instances : instances[i].retained => instances[i].graph = "pending"
    /\ frames \in Seq([path : Paths, search : Searches, index : Nat \ {0}])
    /\ running \in 0..Len(instances)
    /\ redirects \in 0..MaxHops
    /\ delivered \subseteq Lazy
    /\ requests \in [Lazy -> Nat]
    /\ inputs \in 0..MaxInputs

Shows(instance, route) ==
    /\ instance.route = route
    /\ instance.path = location.path
    /\ instance.search = location.search
    /\ instance.attached

\* Between tasks, if every graph the location needs has arrived, the page
\* shows the location: the routes matched by its path, each mounted for it and
\* in the document, down to the last or to a not-found boundary that stands
\* for the rest.  Redirects, late graphs and answers end at their target.
PageShowsLocation ==
    LET matched == Chain[location.path]
    IN  AtRest /\ (\A i \in DOMAIN matched : MissingGraphs(matched, i) = {}) =>
            \/ root = "notFound" /\ instances = <<>>
            \/ /\ root = "normal"
               /\ Len(instances) <= Len(matched)
               /\ \A i \in DOMAIN instances : Shows(instances[i], matched[i])
               /\ Len(instances) < Len(matched) =>
                    instances # <<>> /\ Last(instances).graph = "notFound"

\* "a pending/error transition never races lazy graph delivery": while a
\* loader is in flight every graph its outcome can put on screen is there,
\* whichever walk mounted the instances above it.
PhaseGraphsReady ==
    \A i \in DOMAIN instances :
        instances[i].loads > 0 =>
            \A graph \in PhaseGraphs([j \in DOMAIN instances |-> instances[j].route], i) :
                Registered(graph)

Quiet ==
    /\ AtRest
    /\ \A i \in DOMAIN instances : instances[i].loads = 0
    /\ \A graph \in Lazy : requests[graph] = 0

\* Whatever the loaders answer, the page comes to rest: redirects end, though
\* every delivered graph gives them a new budget.
ComesToRest == <>[]Quiet
===============================================================================
