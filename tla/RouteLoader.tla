---------------------------- MODULE RouteLoader ----------------------------
(***************************************************************************)
(* One route position of the browser runtime: the typed graph instance     *)
(* that occupies an outlet, the loader of its route, its phase graphs, and *)
(* the browser fetches that loaders and actions leave in flight.           *)
(*                                                                         *)
(* The instance owns one runtime that is on screen and, while a pending    *)
(* graph covers a running loader, the normal runtime kept alive behind it. *)
(* A fetch remembers the graph generation it was started under; when it    *)
(* settles it may act only on a live runtime of that generation.           *)
(*                                                                         *)
(* Every action is one JavaScript task: an event listener, a navigation    *)
(* or the continuation of one fetch runs to completion before the next.    *)
(* The code mutates the instance in several calls within a task, so an     *)
(* action is a composition of functions on the instance's whole state (a   *)
(* world), read with Now and written back with Become.                     *)
(***************************************************************************)
EXTENDS Integers, FiniteSets

CONSTANTS
    PendingMode,      \* the route's pendingMode, "replace" or "retain"
    HasPending,       \* the route declares a pending graph
    HasError,         \* ... an error graph
    HasNotFound,      \* ... a not-found graph (else a boundary above takes over)
    Searches,         \* query strings the location can have
    FetchLimit,       \* MAX_IN_FLIGHT_FETCHES
    FetchesPerAction, \* MAX_FETCHES_PER_ACTION
    PhaseActions,     \* pending and error graphs have actions that fetch
    MachineErrors,    \* resuming a loader may fail inside the action machine
    MaxInputs         \* bound: navigations, events and retries in a behaviour

ASSUME ModeAssumption == PendingMode \in {"replace", "retain"}
ASSUME GraphsAssumption ==
    {HasPending, HasError, HasNotFound, PhaseActions, MachineErrors} \subseteq BOOLEAN
ASSUME LimitsAssumption ==
    /\ FetchLimit \in Nat
    /\ FetchesPerAction \in Nat
    /\ MaxInputs \in Nat

Places == {"shown", "retained"}
Graphs == {"none", "normal", "pending", "error", "notFound"}
Phases == {"normal", "loading", "error", "notFound"}

(* How a loader run ends. "redirect" leaves the route; "redirectRefused"   *)
(* is a redirect the router rejects (hop budget, malformed target).        *)
Outcomes == {"success", "failure", "redirect", "redirectRefused", "notFound"}

(* Query strings of a location; "" is a location without one.              *)
Queries == Searches \union {""}

(* A loader run, stamped with what it was started for: the query string    *)
(* and the mount of the instance. NoRun stands for "no loader data".       *)
Run == [n : Nat, search : Queries, mount : Nat]
NoRun == [n |-> 0, search |-> "", mount |-> 0]

Runtime ==
    [ id          : Nat,         \* generation it was created with: its identity
      graph       : Graphs,      \* the graph it runs
      generation  : Nat,         \* graph_generation
      controllers : SUBSET Nat,  \* abort_controllers: request ids in flight
      nextFetch   : Nat,         \* next_fetch_id
      queued      : BOOLEAN,     \* pending_fetches is non-empty
      reload      : BOOLEAN ]    \* route_reload_requested

Absent ==
    [ id |-> 0, graph |-> "none", generation |-> 0, controllers |-> {},
      nextFetch |-> 0, queued |-> FALSE, reload |-> FALSE ]

Fetch ==
    [ kind       : {"loader", "action"},
      holder     : Nat,      \* id of the runtime that registered the controller
      request    : Nat,      \* request_id
      generation : Nat,      \* the generation the continuation asks for
      mount      : Nat,      \* mount of the instance it was started under
      run        : Run,      \* the loader run it belongs to, NoRun for an action
      nth        : Nat,      \* which fetch of its action this is
      aborted    : BOOLEAN ]

VARIABLES
    typedGeneration, \* RuntimeState.typed_generation
    slots,           \* RegionTracker.in_flight_fetches
    runtimes,        \* TypedGraphInstance.runtime and .loader_runtime
    phase,           \* TypedRouteState.phase
    search,          \* TypedRouteState.location, its query string
    loaderData,      \* TypedGraphInstance.loader_data: the run it came from
    fetches,         \* browser fetches not yet settled
    mounted,         \* id of the instance's first runtime: names the mount
    lastRun,         \* loader runs started so far
    faulted,         \* an unwrap() met a missing instance
    inputs           \* user inputs so far, at most MaxInputs

vars == <<typedGeneration, slots, runtimes, phase, search, loaderData,
          fetches, mounted, lastRun, faulted, inputs>>

World ==
    [ typedGeneration : Nat, slots : Nat, runtimes : [Places -> Runtime],
      phase : Phases, search : Queries, loaderData : Run,
      fetches : SUBSET Fetch, mounted : Nat, lastRun : Nat, faulted : BOOLEAN ]

Now ==
    [ typedGeneration |-> typedGeneration, slots |-> slots, runtimes |-> runtimes,
      phase |-> phase, search |-> search, loaderData |-> loaderData,
      fetches |-> fetches, mounted |-> mounted, lastRun |-> lastRun,
      faulted |-> faulted ]

(* The state after an action; the \E evaluates the world once.             *)
Become(next) == \E w \in {next} :
    /\ typedGeneration' = w.typedGeneration
    /\ slots' = w.slots
    /\ runtimes' = w.runtimes
    /\ phase' = w.phase
    /\ search' = w.search
    /\ loaderData' = w.loaderData
    /\ fetches' = w.fetches
    /\ mounted' = w.mounted
    /\ lastRun' = w.lastRun
    /\ faulted' = w.faulted

-----------------------------------------------------------------------------
(* Runtimes and generations *)

Present(w, p) == w.runtimes[p].graph # "none"

(* release_fetch subtracts one per controller and saturates at zero.       *)
Released(count, n) == IF n <= count THEN count - n ELSE 0

Aborted(f, runtime) ==
    [f EXCEPT !.aborted = @ \/ (f.holder = runtime.id /\ f.request \in runtime.controllers)]

(* A runtime as invalidate_fetches leaves it, and as a new controller does.*)
Quieted(runtime) ==
    [runtime EXCEPT !.generation = @ + 1, !.controllers = {}, !.queued = FALSE]

Registered(runtime) ==
    [runtime EXCEPT !.nextFetch = @ + 1,
                    !.controllers = @ \union {runtime.nextFetch + 1}]

(* Slip of invalidate_fetches: the generation does not move on.            *)
Invalidate_KeepsGeneration(w, p) ==
    [w EXCEPT !.slots = Released(@, Cardinality(w.runtimes[p].controllers)),
              !.fetches = {Aborted(f, w.runtimes[p]) : f \in @},
              !.runtimes[p] = [w.runtimes[p] EXCEPT !.controllers = {}, !.queued = FALSE]]

(* invalidate_fetches: first the generation moves on, then every           *)
(* controller is aborted and gives its slot back.                          *)
Invalidate(w, p) ==
    [w EXCEPT !.slots = Released(@, Cardinality(w.runtimes[p].controllers)),
              !.fetches = {Aborted(f, w.runtimes[p]) : f \in @},
              !.runtimes[p] = Quieted(@)]

Drop(w, p) == [Invalidate(w, p) EXCEPT !.runtimes[p] = Absent]

(* A runtime is given the next generation and mounted; mounting starts by  *)
(* invalidating, which adds one.                                           *)
Fresh(w, graph) ==
    [ id |-> w.typedGeneration + 1, graph |-> graph,
      generation |-> w.typedGeneration + 2, controllers |-> {},
      nextFetch |-> 0, queued |-> FALSE, reload |-> FALSE ]

Show(w, graph) ==
    [w EXCEPT !.typedGeneration = @ + 1, !.runtimes["shown"] = Fresh(w, graph)]

(* show_typed_route_graph(preserve_loader = false | true) *)
Replace(w, graph) == Show(Drop(w, "shown"), graph)

Cover(w, graph) ==
    Show([w EXCEPT !.runtimes["retained"] = w.runtimes["shown"]], graph)

(* The retained runtime takes the screen, and nothing is behind it.        *)
Uncovered(rs) == [p \in Places |-> IF p = "shown" THEN rs["retained"] ELSE Absent]

(* Slip: the phase is left as it was.                                      *)
Restore_KeepsPhase(w) ==
    LET quiet == Drop(Invalidate(w, "retained"), "shown")
    IN  [quiet EXCEPT !.runtimes = Uncovered(@)]

(* restore_typed_route_normal: the retained runtime is mounted again       *)
(* (invalidating it) and what covered it is invalidated and dropped.       *)
Restore(w) ==
    LET quiet == Drop(Invalidate(w, "retained"), "shown")
    IN  [quiet EXCEPT !.runtimes = Uncovered(@),
                      !.phase = "normal"]

Uncover(w) == IF Present(w, "retained") THEN Restore(w) ELSE w

(* show_typed_route_error and show_typed_route_not_found: without the      *)
(* boundary graph the phase changes and what is on screen stays.           *)
ShowBoundary(w, boundary, declared) ==
    LET quiet == [Drop(w, "retained") EXCEPT !.phase = boundary]
    IN  IF declared THEN Replace(quiet, boundary) ELSE quiet

ShowError(w) == ShowBoundary(w, "error", HasError)
ShowNotFound(w) == ShowBoundary(w, "notFound", HasNotFound)

(* Slip: the retained runtime goes without being invalidated.              *)
Unmount_ForgetsRetained(w) ==
    [Drop(w, "shown") EXCEPT !.runtimes["retained"] = Absent,
                             !.phase = "normal", !.loaderData = NoRun]

(* dispose_typed_instance *)
Unmount(w) ==
    [Drop(Drop(w, "retained"), "shown") EXCEPT !.phase = "normal", !.loaderData = NoRun]

(* mount_typed_graph and the route state mount_typed_child gives it *)
Mount(w, s) ==
    [Show(w, "normal") EXCEPT !.mounted = w.typedGeneration + 1,
                              !.phase = "normal",
                              !.search = s,
                              !.loaderData = NoRun]

-----------------------------------------------------------------------------
(* Fetches *)

CanAcquire(w) == w.slots < FetchLimit

NewFetch(w, p, kind, run, nth) ==
    [ kind |-> kind, holder |-> w.runtimes[p].id,
      request |-> w.runtimes[p].nextFetch + 1,
      generation |-> w.runtimes[p].generation,
      mount |-> w.mounted, run |-> run, nth |-> nth, aborted |-> FALSE ]

(* acquire_fetch, a fresh request id, its controller, and the request.     *)
StartFetch(w, p, kind, run, nth) ==
    [w EXCEPT !.slots = @ + 1,
              !.fetches = @ \union {NewFetch(w, p, kind, run, nth)},
              !.runtimes[p] = Registered(@)]

TryFetch(w, p, kind, run, nth) ==
    IF CanAcquire(w) THEN StartFetch(w, p, kind, run, nth) ELSE w

(* runtime_for_generation: the places whose runtime answers to g, the one  *)
(* on screen first.                                                        *)
Answers(w, p, g) ==
    /\ Present(w, p)
    /\ w.runtimes[p].generation = g
    /\ p = "retained" => w.runtimes["shown"].generation # g

(* The controller of a settled request is removed; only if it was still    *)
(* there is the slot released.                                             *)
Release(w, p, request) ==
    IF request \in w.runtimes[p].controllers
    THEN [w EXCEPT !.slots = Released(@, 1), !.runtimes[p].controllers = @ \ {request}]
    ELSE w

-----------------------------------------------------------------------------
(* Loader runs *)

(* Slip: a refused redirect leaves the pending graph up.                   *)
CompleteLoader_StaysCovered(w, run, outcome) ==
    CASE outcome = "success"         -> Uncover([w EXCEPT !.loaderData = run])
      [] outcome = "failure"         -> ShowError(w)
      [] outcome = "redirectRefused" -> w
      [] outcome = "redirect"        -> Unmount(Uncover(w))
      [] outcome = "notFound"        -> ShowNotFound(Uncover(w))

(* complete_shared_route_loader and defer_terminal_loader_outcome, with    *)
(* what the router's listeners do at once with a redirect or a not-found.  *)
CompleteLoader(w, run, outcome) ==
    CASE outcome = "success"         -> Uncover([w EXCEPT !.loaderData = run])
      [] outcome = "failure"         -> ShowError(w)
      [] outcome = "redirectRefused" -> Uncover(w)
      [] outcome = "redirect"        -> Unmount(Uncover(w))
      [] outcome = "notFound"        -> IF HasNotFound THEN ShowNotFound(Uncover(w))
                                        ELSE Unmount(Uncover(w))

(* The loader action is looked up in the graph on screen; a phase graph    *)
(* has no such action and the call returns an error, changing nothing.     *)
CanRun(w) == w.runtimes["shown"].graph = "normal"

(* Slip: the pending graph is never shown.                                 *)
Begin_NeverCovers(w, s) == [w EXCEPT !.lastRun = @ + 1, !.search = s, !.phase = "loading"]

Begin(w, s) ==
    LET begun == [w EXCEPT !.lastRun = @ + 1, !.search = s, !.phase = "loading"]
    IN  IF HasPending /\ PendingMode = "replace" THEN Cover(begun, "pending") ELSE begun

(* run_typed_loader. "suspends": the run reached its first fetch; any      *)
(* other outcome: it ended without one.                                    *)
RunLoader(w, s, outcome) ==
    LET run == [n |-> w.lastRun + 1, search |-> s, mount |-> w.mounted]
        begun == Begin(w, s)
        p == IF Present(begun, "retained") THEN "retained" ELSE "shown"
    IN  IF ~CanRun(w) THEN w
        ELSE IF outcome # "suspends" THEN CompleteLoader(begun, run, outcome)
        ELSE IF CanAcquire(begun) THEN StartFetch(begun, p, "loader", run, 1)
        ELSE ShowError(begun)

Starts == Outcomes \union {"suspends"}

-----------------------------------------------------------------------------
(* Actions *)

Init ==
    /\ typedGeneration = 0
    /\ slots = 0
    /\ runtimes = [p \in Places |-> Absent]
    /\ phase = "normal"
    /\ search = ""
    /\ loaderData = NoRun
    /\ fetches = {}
    /\ mounted = 0
    /\ lastRun = 0
    /\ faulted = FALSE
    /\ inputs = 0

(* A user input: the page is alive, and the bound is not reached.          *)
Input(w) ==
    /\ ~faulted
    /\ inputs < MaxInputs
    /\ inputs' = inputs + 1
    /\ Become(w)

OnRoute == Present(Now, "shown")

(* navigate_typed_route to another match of this outlet (another route or  *)
(* other parameters): the old instance goes, a new one is mounted under    *)
(* the same instance id, and its loader runs.                              *)
Enter(s, start) == Input(RunLoader(Mount(Unmount(Now), s), s, start))

(* navigate_typed_route to this match with another query string: the       *)
(* location is updated in place, then the loader runs.                     *)
ChangeSearch(s, start) ==
    /\ OnRoute
    /\ s # search
    /\ Input(RunLoader([Now EXCEPT !.search = s], s, start))

(* navigate_typed_route elsewhere *)
Leave ==
    /\ OnRoute
    /\ Input(Unmount(Now))

(* retry_typed_route, from the error graph's own action *)
Retry(start) ==
    /\ runtimes["shown"].graph = "error"
    /\ phase = "error"
    /\ Input(RunLoader(Replace(Now, "normal"), search, start))

(* The graph on screen can run an action that fetches.                     *)
HasActions == \/ runtimes["shown"].graph = "normal"
              \/ OnRoute /\ PhaseActions

(* An action's synchronous part on the graph on screen: it may queue a     *)
(* fetch (at most one waits at a time) and may ask for a reload.           *)
Acted(fetch, reload) ==
    LET shown == runtimes["shown"]
    IN  [Now EXCEPT !.runtimes["shown"] = [shown EXCEPT !.queued = shown.queued \/ fetch,
                                                        !.reload = shown.reload \/ reload]]

(* complete_typed_action on the runtime on screen: the queue is taken from *)
(* the instance found now, under the generation it has now.                *)
StartQueued(w) ==
    IF ~Present(w, "shown") THEN [w EXCEPT !.faulted = TRUE]
    ELSE IF ~w.runtimes["shown"].queued THEN w
    ELSE TryFetch([w EXCEPT !.runtimes["shown"].queued = FALSE], "shown", "action", NoRun, 1)

(* dispatch_typed_event: the action, the reload it or an earlier           *)
(* continuation asked for (reload_typed_route), then the queued fetches.   *)
(* A reload that cannot run returns early and leaves the queue.            *)
Event(fetch, reload, start) ==
    LET acted == Acted(fetch, reload)
        cleared == [acted EXCEPT !.runtimes["shown"].reload = FALSE]
    IN  /\ HasActions
        /\ fetch => ~runtimes["shown"].queued
        /\ Input(IF ~acted.runtimes["shown"].reload THEN StartQueued(acted)
                 ELSE IF ~CanRun(cleared) THEN cleared
                 ELSE StartQueued(RunLoader(cleared, search, start)))

(* dispatch_typed_callbacks: an event inside a child component runs an     *)
(* action of this route through a callback property. Only the component's  *)
(* own reload flag is looked at afterwards.                                *)
Callback(fetch, reload) ==
    /\ HasActions
    /\ fetch => ~runtimes["shown"].queued
    /\ Input(StartQueued(Acted(fetch, reload)))

(* complete_typed_fetch. The action ends ("done"), ends having asked for a *)
(* reload ("reload"), or fetches again.                                    *)
ResumeAction(w, p, f, step) ==
    LET released == Release(w, p, f.request)
    IN  CASE step = "done"   -> released
          [] step = "reload" -> [released EXCEPT !.runtimes[p].reload = TRUE]
          [] step = "again"  -> TryFetch(released, p, "action", NoRun, f.nth + 1)

Steps == {"done", "reload", "again"}

(* complete_typed_loader_fetch. A "machineError", or a second fetch over   *)
(* the in-flight limit, is returned to the console and to nobody else.     *)
ResumeLoader(w, p, f, step) ==
    LET released == Release(w, p, f.request)
    IN  CASE step = "machineError" -> released
          [] step = "again"        -> TryFetch(released, p, "loader", f.run, f.nth + 1)
          [] step \in Outcomes     -> CompleteLoader(released, f.run, step)

LoaderSteps == Outcomes \union {"again"} \union (IF MachineErrors THEN {"machineError"} ELSE {})

Settled(f) == [Now EXCEPT !.fetches = @ \ {f}]

(* A settled fetch that no live runtime answers to changes nothing else.   *)
SettleStale(f) ==
    /\ ~faulted
    /\ \A p \in Places : ~Answers(Now, p, f.generation)
    /\ Become(Settled(f))
    /\ UNCHANGED inputs

SettleAction(f, p, step) ==
    /\ ~faulted
    /\ f.kind = "action"
    /\ Answers(Now, p, f.generation)
    /\ step = "again" => f.nth < FetchesPerAction
    /\ Become(ResumeAction(Settled(f), p, f, step))
    /\ UNCHANGED inputs

SettleLoader(f, p, step) ==
    /\ ~faulted
    /\ f.kind = "loader"
    /\ Answers(Now, p, f.generation)
    /\ step = "again" => f.nth < FetchesPerAction
    /\ Become(ResumeLoader(Settled(f), p, f, step))
    /\ UNCHANGED inputs

Settle ==
    \E f \in fetches :
        \/ SettleStale(f)
        \/ \E p \in Places :
              \/ \E step \in Steps : SettleAction(f, p, step)
              \/ \E step \in LoaderSteps : SettleLoader(f, p, step)

Next ==
    \/ \E s \in Searches, start \in Starts : Enter(s, start) \/ ChangeSearch(s, start)
    \/ Leave
    \/ \E start \in Starts : Retry(start)
    \/ \E fetch, reload \in BOOLEAN, start \in Starts : Event(fetch, reload, start)
    \/ \E fetch, reload \in BOOLEAN : Callback(fetch, reload)
    \/ Settle

Spec == Init /\ [][Next]_vars

(* A browser settles every fetch: it answers, fails or is aborted.         *)
FairSpec == Spec /\ WF_vars(Settle)
-----------------------------------------------------------------------------
(* Properties *)

TypeOK ==
    /\ Now \in World
    /\ inputs \in Nat

(* The in-flight count is exactly the number of abort controllers held by  *)
(* the runtimes of the route, through every mount, cover, restore and      *)
(* disposal: no slot of the fetch limit leaks and none is given back twice.*)
Controllers(w, p) == w.runtimes[p].controllers

SlotsMatchControllers ==
    /\ \A p \in Places : IsFiniteSet(Controllers(Now, p))
    /\ slots = Cardinality(Controllers(Now, "shown"))
               + Cardinality(Controllers(Now, "retained"))

(* A normal runtime is kept behind the screen only while a pending graph   *)
(* covers it, so covering never overwrites (and leaks) an earlier one.     *)
RetainedOnlyUnderPending ==
    Present(Now, "retained") =>
        /\ runtimes["retained"].graph = "normal"
        /\ runtimes["shown"].graph = "pending"
        /\ phase = "loading"

(* A generation names at most one of the two live runtimes, although both  *)
(* a fresh mount and a restore advance generations on their own:           *)
(* runtime_for_generation never hides the retained one.                    *)
LookupUnambiguous ==
    Present(Now, "retained") =>
        runtimes["retained"].generation # runtimes["shown"].generation

(* Fetches started under an earlier mount of this outlet never find a      *)
(* runtime, although the instance id is reused by the next route.          *)
OldMountsAreSilent ==
    \A f \in fetches : f.mount # mounted =>
        \A p \in Places : ~Answers(Now, p, f.generation)

(* Loader data on an instance was loaded for that instance: never by a     *)
(* run of the route that occupied the outlet before.                       *)
NoForeignData == loaderData # NoRun => loaderData.mount = mounted

(* A fetch in flight and not aborted has its controller in a live runtime, *)
(* and every controller has its fetch: whatever replaces a runtime aborts  *)
(* what it started. (docs/mutations.md: fetches are aborted when their     *)
(* graph is disposed.)                                                     *)
ControllersAreLive ==
    /\ \A p \in Places : Present(Now, p) =>
          Controllers(Now, p) = {f.request : f \in {g \in fetches :
                                    g.holder = runtimes[p].id /\ ~g.aborted}}
    /\ \A f \in fetches : f.aborted \/
          \E p \in Places : Present(Now, p) /\ f.holder = runtimes[p].id

(* An aborted fetch that settles late resumes nothing: it leaves the       *)
(* flight and the route is as it was. (The comment of invalidate_fetches.) *)
AbortedSettlesSilently ==
    [][\A f \in fetches : f.aborted /\ f \notin fetches' =>
          UNCHANGED <<typedGeneration, slots, runtimes, phase, search,
                      loaderData, mounted, lastRun>>]_vars

(* The graph on screen is the one of the phase, when a pending graph       *)
(* replaces the normal one and the boundaries are declared.                *)
PhaseShowsItsGraph ==
    OnRoute => runtimes["shown"].graph =
        IF phase = "loading" THEN "pending" ELSE phase

(* Data of an older loader run never replaces data of a newer one.         *)
CommitsInOrder ==
    [][loaderData' # loaderData /\ loaderData' # NoRun =>
          loaderData'.n > loaderData.n]_vars

(* Committed data was loaded for the query string the route is at. The     *)
(* code does not keep to it: a navigation under a pending graph cannot     *)
(* start the loader again.                                                 *)
CommitsForLocation ==
    [][loaderData' # loaderData /\ loaderData' # NoRun =>
          loaderData'.search = search']_vars

(* Between two tasks the route on screen holds no reload request: what an  *)
(* action asked for has been started. (docs/mutations.md, useReload.) It   *)
(* does not hold of a reload asked for after an await.                     *)
ReloadServed == OnRoute => ~runtimes["shown"].reload

(* A pending graph is replaced in the end: by the route, by a boundary, or *)
(* because the user left.                                                  *)
PendingSettles == (runtimes["shown"].graph = "pending") ~> (runtimes["shown"].graph # "pending")
=============================================================================
