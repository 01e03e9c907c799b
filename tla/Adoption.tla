------------------------------- MODULE Adoption -------------------------------
(***************************************************************************)
(* A document load: the browser requests a path, the server engine answers *)
(* (ServerDocument), and startPlecRouter of plec-browser adopts the page   *)
(* that was served or mounts one of its own.                               *)
(*                                                                         *)
(* JavaScript awaits a fetch between the manifest and each graph, and a    *)
(* deployment may come in between; import, adoption and mounting are one   *)
(* task.  What the loaders of a mounted page do is module Navigation.      *)
(***************************************************************************)
EXTENDS ServerDocument

CONSTANTS
    MaxFollow,      \* redirects a browser follows
    MaxFaults       \* bound: fetches of artifacts that fail

VARIABLES
    window,         \* window.location.pathname
    stage,          \* where the load is
    follows,        \* redirects followed
    manifest,       \* the build whose manifest was fetched, 0 before
    needed,         \* graphs to fetch before the next step
    runtime,        \* the runtime: see Fresh
    outcome,        \* the adoption diagnostic
    faults

browserVars == <<window, stage, follows, manifest, needed, runtime, outcome, faults>>
vars == <<serverVars, browserVars>>

\* registered: typed_component_registry; located: the host inputs have the
\* location; seeded: they have it from a snapshot; imported: the snapshot's
\* chain, loaders and structure are kept; instances: typed, the root first.
Fresh == [registered |-> {}, located |-> FALSE, seeded |-> FALSE, imported |-> FALSE,
          instances |-> <<>>]

Ends == {"adopted", "mounted", "incomplete", "bare", "dead"}

Published == site[manifest]
Derived == Chains[Published.routes][window]
Resumed == response.snapshot[1]

(***************************************************************************)
(* The artifacts                                                           *)
(***************************************************************************)

\* Whether a build has the graph: a graph's address names no build.
HasGraph(build, graph) ==
    IF graph.id = "root"
    THEN graph.kind = "normal" \/ site[build].rootBoundary
    ELSE \E i \in DOMAIN site[build].routes :
             LET route == site[build].routes[i]
             IN  /\ route.id = graph.id
                 /\ graph.kind = "error" => HasErrorGraph(route)
                 /\ graph.kind = "notFound" => route.boundary

Registered(graph) == graph \in runtime.registered

WithNeeded == runtime.registered \cup {Head(needed)}

(***************************************************************************)
(* The gate                                                                *)
(***************************************************************************)

\* Two builds agree on their routes or the page is from another build.
RevisionAgrees(snapshot) == snapshot.revision = manifest

\* validateSsrRouteChain
ChainIsWellFormed(snapshot) ==
    /\ snapshot.routes = <<>> => Published.rootBoundary
    /\ \A i \in DOMAIN snapshot.routes : \E j \in DOMAIN Published.routes :
           Published.routes[j].id = snapshot.routes[i].id

RouteOf(entry) ==
    Published.routes[CHOOSE j \in DOMAIN Published.routes : Published.routes[j].id = entry.id]

\* The graphs of the phases that were served.
GraphsOf(entry) ==
    <<Graph(entry.id, "normal")>>
    \o (IF entry.phase = "error" /\ HasErrorGraph(RouteOf(entry))
        THEN <<Graph(entry.id, "error")>> ELSE <<>>)
    \o (IF entry.phase = "notFound" /\ RouteOf(entry).boundary
        THEN <<Graph(entry.id, "notFound")>> ELSE <<>>)

ChainGraphs(snapshot) ==
    IF snapshot.routes = <<>> THEN <<RootGraph(TRUE)>>
    ELSE FlattenSeq([i \in DOMAIN snapshot.routes |-> GraphsOf(snapshot.routes[i])])

(***************************************************************************)
(* Adoption                                                                *)
(***************************************************************************)

LoaderStates(snapshot, id) == { loader.state : loader \in { l \in snapshot.loaders : l.id = id } }

\* PlecSsrSnapshot::validate, and the location the seeds have to agree with.
Importable(snapshot) ==
    /\ RevisionAgrees(snapshot)
    /\ ChainIsWellFormed(snapshot)
    /\ \A i \in 2..Len(snapshot.routes) :
           RouteOf(snapshot.routes[i]).parent = snapshot.routes[i - 1].id
    /\ \A loader \in snapshot.loaders : \E j \in DOMAIN Published.routes :
           Published.routes[j].id = loader.id /\ Published.routes[j].loader
    /\ snapshot.location = window

\* A phase resumes from the outcome that rendered it.
PhasePairs(entry, route, snapshot) ==
    LET states == LoaderStates(snapshot, entry.id)
    IN  IF ~route.loader THEN entry.phase # "error"
        ELSE CASE entry.phase = "active" -> "resolved" \in states
               [] entry.phase = "error" -> "rejected" \in states
               [] entry.phase = "notFound" -> states \cap {"notFound", "resolved"} # {}

EntryAgrees(entry, match, snapshot) ==
    /\ entry.id = match.route.id
    /\ entry.params = match.params
    /\ PhasePairs(entry, match.route, snapshot)

\* ssr_chain_agreement: a chain that ends at a boundary owner is a prefix of
\* the chain of the location, any other is that chain.
Agreement(snapshot) ==
    LET routes == snapshot.routes
        n == Len(routes)
    IN  IF routes = <<>>
        THEN IF Published.rootBoundary THEN "rootBoundary" ELSE "mismatch"
        ELSE IF n > Len(Derived) THEN "mismatch"
        ELSE IF routes[n].phase = "notFound"
        THEN IF routes[n].id = Derived[n].route.id /\ Derived[n].route.boundary
             THEN "boundary" ELSE "mismatch"
        ELSE IF n = Len(Derived)
                /\ \A i \in 1..n : EntryAgrees(routes[i], Derived[i], snapshot)
             THEN "exact" ELSE "mismatch"

\* The routes whose data a route can have: a normal graph takes what its loader
\* resolved or else the data of its parent.
Sources(graphs, states, i) ==
    { j \in 1..i : "resolved" \in states[j] /\ \A k \in j..i : graphs[k].kind = "normal" }

\* The parent's data goes first.
ResumedData_Parent(graphs, states, i) ==
    LET sources == Sources(graphs, states, i)
    IN  IF sources = {} THEN "none" ELSE graphs[Min(sources)].id

\* The data of a route: that of the nearest, itself first.
ResumedData(graphs, states, i) ==
    LET sources == Sources(graphs, states, i)
    IN  IF sources = {} THEN "none" ELSE graphs[Max(sources)].id

\* How adopt_typed_route goes along the chain: the graph each route claims,
\* and how many routes it reaches.  A route's graph has to be there, its loader
\* to have an outcome, a rejected one to have its error graph, and the parent's
\* graph to have the outlet.
AdoptRoutes(snapshot, agreement) ==
    LET n == IF agreement = "mismatch" THEN 0 ELSE Len(snapshot.routes)
        routes == [i \in 1..n |-> Derived[i].route]
        states == [i \in 1..n |-> LoaderStates(snapshot, routes[i].id)]
        graphs == [i \in 1..n |->
                      Graph(routes[i].id,
                            IF agreement = "boundary" /\ i = n THEN "notFound"
                            ELSE IF "rejected" \in states[i] THEN "error" ELSE "normal")]
        claims(i) ==
            /\ graphs[i].kind = "error" => HasErrorGraph(routes[i])
            /\ Registered(graphs[i])
            /\ routes[i].loader => states[i] # {}
            /\ i > 1 /\ graphs[i - 1].kind = "error" => routes[i - 1].error = "outlet"
        stops == { i \in 1..n : ~claims(i) }
    IN  [complete |-> agreement # "mismatch" /\ stops = {},
         instances |-> [i \in 1..(IF stops = {} THEN n ELSE Min(stops) - 1) |->
                           [graph |-> graphs[i], data |-> ResumedData(graphs, states, i), origin |-> "adopted",
                            phase |-> IF graphs[i].kind = "normal" THEN "active"
                                      ELSE graphs[i].kind]]]

\* start_adopt_snapshot: whether it succeeds, and the runtime it leaves.  The
\* root is claimed before a chain that disagrees is found out.
StartAdopt(snapshot) ==
    LET agreement == Agreement(snapshot)
        root == RootGraph(agreement = "rootBoundary")
        seeded == [runtime EXCEPT !.located = TRUE, !.seeded = TRUE, !.imported = TRUE]
        claimed == <<[graph |-> root, phase |-> "active", data |-> "none", origin |-> "adopted"]>>
        adoption == AdoptRoutes(snapshot, agreement)
    IN  IF runtime.instances # <<>> \/ ~Importable(snapshot)
        THEN [succeeds |-> FALSE, runtime |-> runtime]
        ELSE IF ~Registered(root) THEN [succeeds |-> FALSE, runtime |-> seeded]
        ELSE [succeeds |-> adoption.complete,
              runtime |-> [seeded EXCEPT !.instances = claimed \o adoption.instances]]

\* The instances stay.
Abandoned_Instances(left) ==
    [left EXCEPT !.located = @ /\ ~left.seeded, !.seeded = FALSE, !.imported = FALSE]

\* abandon_adoption: the inputs that were seeded are removed, the location
\* that the browser had set among them.
Abandoned(left) ==
    [left EXCEPT !.instances = <<>>, !.located = @ /\ ~left.seeded,
                 !.seeded = FALSE, !.imported = FALSE]

(***************************************************************************)
(* A page of the browser's own                                             *)
(***************************************************************************)

\* The graphs a route needs before it is mounted: its own and, with a loader,
\* those of the phases the loader may end in.
MountGraphs(i) ==
    LET route == Derived[i].route
        owners == { j \in 1..i : Derived[j].route.boundary }
    IN  <<Graph(route.id, "normal")>>
        \o (IF route.loader /\ HasErrorGraph(route) THEN <<Graph(route.id, "error")>> ELSE <<>>)
        \o (IF ~route.loader THEN <<>>
            ELSE IF owners # {} THEN <<Graph(Derived[Max(owners)].route.id, "notFound")>>
            ELSE IF Published.rootBoundary THEN <<RootGraph(TRUE)>> ELSE <<>>)

MissingGraphs(registered, i) == SelectSeq(MountGraphs(i), LAMBDA graph : graph \notin registered)

\* The first route of the chain that lacks a graph, 0 if none does.
Lacking(registered) ==
    LET lacking == { i \in DOMAIN Derived : MissingGraphs(registered, i) # <<>> }
    IN  IF lacking = {} THEN 0 ELSE Min(lacking)

Mounted(graph) == [graph |-> graph, phase |-> "active", data |-> "none", origin |-> "mounted"]

\* The root and n routes: instances that are there stay, the rest is mounted.
Mount(instances, n) ==
    [i \in 1..(n + 1) |->
        IF i \in DOMAIN instances THEN instances[i]
        ELSE Mounted(IF i = 1 THEN RootGraph(FALSE)
                     ELSE Graph(Derived[i - 1].route.id, "normal"))]

\* navigate_typed_route: the chain is mounted up to a route that lacks a graph;
\* then the graph is asked for.
Mounting(left, registered) ==
    \E lacking \in {Lacking(registered)} :
        IF lacking = 0
        THEN /\ runtime' = [left EXCEPT !.registered = registered,
                                        !.instances = Mount(@, Len(Derived))]
             /\ stage' = "mounted"
             /\ needed' = <<>>
        ELSE /\ runtime' = [left EXCEPT !.registered = registered,
                                        !.instances = Mount(@, lacking - 1)]
             /\ stage' = "mounting"
             /\ needed' = <<Head(MissingGraphs(registered, lacking))>>

(***************************************************************************)
(* The load                                                                *)
(***************************************************************************)

Open(path) ==
    /\ stage = "idle"
    /\ window' = path
    /\ request' = Pass(serving, path, 0)
    /\ stage' = "requested"
    /\ UNCHANGED <<site, serving, response, follows, manifest, needed, runtime, outcome, faults>>

FollowRedirect ==
    /\ stage = "requested" /\ response.kind = "redirect"
    /\ IF follows < MaxFollow
       THEN /\ window' = response.to
            /\ request' = Pass(serving, response.to, 0)
            /\ response' = NoAnswer
            /\ follows' = follows + 1
            /\ UNCHANGED stage
       ELSE stage' = "dead" /\ UNCHANGED <<window, request, response, follows>>
    /\ UNCHANGED <<site, serving, manifest, needed, runtime, outcome, faults>>

Receive ==
    /\ stage = "requested" /\ response.kind \in {"document", "bare"}
    /\ stage' = IF response.kind = "bare" THEN "bare" ELSE "manifest"
    /\ UNCHANGED <<serverVars, window, follows, manifest, needed, runtime, outcome, faults>>

\* The manifest, the location of the page as host inputs; next is the root.
LoadManifest ==
    /\ stage = "manifest"
    /\ manifest' = serving
    /\ runtime' = [runtime EXCEPT !.located = TRUE]
    /\ needed' = <<RootGraph(FALSE)>>
    /\ stage' = "root"
    /\ UNCHANGED <<serverVars, window, follows, outcome, faults>>

\* With the root's graph startPlecRouter goes on to the gate.
LoadRootGraph ==
    LET refusing(code) == outcome' = code /\ Mounting(runtime, WithNeeded)
    IN  /\ stage = "root"
        /\ IF response.snapshot = <<>> THEN refusing("none")
           ELSE IF ~RevisionAgrees(Resumed) THEN refusing("stale-revision")
           ELSE IF ~ChainIsWellFormed(Resumed) THEN refusing("route-chain")
           ELSE /\ runtime' = [runtime EXCEPT !.registered = WithNeeded]
                /\ needed' = ChainGraphs(Resumed)
                /\ stage' = "graphs"
                /\ UNCHANGED outcome
        /\ UNCHANGED <<serverVars, window, follows, manifest, faults>>

LoadChainGraph ==
    /\ stage = "graphs" /\ needed # <<>> /\ HasGraph(serving, Head(needed))
    /\ runtime' = [runtime EXCEPT !.registered = WithNeeded]
    /\ needed' = Tail(needed)
    /\ UNCHANGED <<serverVars, window, stage, follows, manifest, outcome, faults>>

Adopt ==
    /\ stage = "graphs" /\ needed = <<>>
    /\ \E result \in {StartAdopt(Resumed)} :
          IF result.succeeds
           THEN /\ runtime' = result.runtime
                /\ outcome' = "adopted" /\ stage' = "adopted"
                /\ UNCHANGED needed
           ELSE outcome' = "refused" /\ Mounting(Abandoned(result.runtime), runtime.registered)
    /\ UNCHANGED <<serverVars, window, follows, manifest, faults>>

LoadNeededGraph ==
    /\ stage = "mounting" /\ HasGraph(serving, Head(needed))
    /\ Mounting(runtime, WithNeeded)
    /\ UNCHANGED <<serverVars, window, follows, manifest, outcome, faults>>

\* A graph is not there, or the network fails.
Unavailable ==
    \/ stage \in {"manifest", "root"} /\ faults < MaxFaults
    \/ /\ stage \in {"graphs", "mounting"} /\ needed # <<>>
       /\ ~HasGraph(serving, Head(needed)) \/ faults < MaxFaults

FetchFails ==
    /\ Unavailable
    /\ faults' = Min({faults + 1, MaxFaults})
    /\ IF stage = "graphs"
       THEN outcome' = "fetch" /\ Mounting(Abandoned(runtime), runtime.registered)
       ELSE /\ stage' = IF stage = "mounting" THEN "incomplete" ELSE "dead"
            /\ UNCHANGED <<runtime, needed, outcome>>
    /\ UNCHANGED <<serverVars, window, follows, manifest>>

BrowserStep ==
    \/ FollowRedirect
    \/ Receive
    \/ LoadManifest
    \/ LoadRootGraph
    \/ LoadChainGraph
    \/ Adopt
    \/ LoadNeededGraph
    \/ FetchFails

Init ==
    /\ ServerInit
    /\ window = <<>> /\ stage = "idle" /\ follows = 0
    /\ manifest = 0 /\ needed = <<>> /\ runtime = Fresh
    /\ outcome = "none" /\ faults = 0

Next ==
    \/ \E path \in Paths : Open(path)
    \/ ServerStep /\ UNCHANGED browserVars
    \/ Deploy /\ stage \notin Ends /\ UNCHANGED browserVars
    \/ BrowserStep

Spec == Init /\ [][Next]_vars

\* The server works a request off and a fetch is answered: as long as anything
\* can happen, something does.  Deployments are bounded.
FairSpec == Spec /\ WF_vars(Next)

(***************************************************************************)
(* Properties                                                              *)
(***************************************************************************)

\* The page the browser has was rendered for the path in its address bar,
\* whatever redirects led there (execute_document answers 307 after a hop).
PageOfItsAddress ==
    stage # "requested" /\ response.kind = "document" /\ response.snapshot # <<>>
    => Resumed.location = window

\* The browser refuses a page of its own build only for a loader that was
\* rejected on a route without an error graph: on every other outcome of the
\* loaders the two agree about the chain, its boundary and its phases.
RefusedForAnErrorGraph ==
    outcome = "refused"
    => \E i \in DOMAIN Resumed.routes :
           Resumed.routes[i].phase = "error" /\ ~HasErrorGraph(RouteOf(Resumed.routes[i]))

\* A page is refused only so, and an adopted page is the page that was served:
\* the same graph in the same phase in every outlet, and in a normal graph the
\* data its loader resolved; and it is of the build whose manifest the browser has.
AdoptedAsServed ==
    /\ RefusedForAnErrorGraph
    /\ stage = "adopted" =>
        /\ Resumed.revision = manifest
        /\ Len(runtime.instances) = Len(response.rendered)
        /\ \A i \in DOMAIN runtime.instances :
               LET shown == runtime.instances[i]
                   served == response.rendered[i]
               IN  /\ shown.graph = served.graph /\ shown.phase = served.phase
                   /\ shown.phase = "active" /\ i > 1 /\ Derived[i - 1].route.loader
                      => shown.data = served.data

\* A page the browser mounts holds nothing of an adoption that was abandoned:
\* no instance, no imported outcome, no seeded input.
MountedFresh ==
    stage \in {"mounting", "mounted"}
    => /\ ~runtime.imported /\ ~runtime.seeded
       /\ \A i \in DOMAIN runtime.instances : runtime.instances[i].origin = "mounted"

\* Every load ends, though loaders redirect and a deployment comes between.
LoadEnds == <>(stage \in Ends)

\* notFound() is answered with status 404 and the page of its boundary, or with
\* a redirect to where the browser will get it (docs/ssr-architecture.md).  The
\* code does not do so where both the route and the root have a boundary.
NotFoundIs404 ==
    [][LoaderNotFound /\ response'.kind = "document" => response'.status = 404]_vars
=============================================================================
