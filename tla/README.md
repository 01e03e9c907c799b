# Formal models of plec

TLA+ models of the parts of plec whose correctness depends on order: what the browser
runtime does with navigations, events and fetch completions that interleave, how a page the
server rendered is adopted and kept equal to its data by patches, what actions publish when
several are suspended at once, and what the hosts and build loops around them do with
requests, failures and shutdown. TLC checks the models on small instances; TLAPS proves the
safety results that are marked as theorems for every value of the constants.

```
tlasany M.tla                               parse
tlc -workers 2 -config <Run>.cfg <Module>   one run of PROJECT.json
tlapm <Module>Proofs.tla                    proofs
```

## 1. Inventory

plec compiles a TypeScript/JSX application to typed artifacts (graphs with state slots,
bindings, actions, component calls and routes). The same artifacts run in a Rust server
engine that renders HTML and in a wasm runtime in the browser.

| part | source | state | operations | what is hard | model |
|---|---|---|---|---|---|
| route loader and phase graphs | `plec-client/src/{route,fetch,state}.rs` | per outlet: runtime on screen, retained runtime, phase, location, loader data; page-wide in-flight count | mount, navigate, query change, loader start and completion, retry, reload, phase graphs, dispose | late answers after the graph changed, two runtimes behind one instance id, a count with two ways to give back | `RouteLoader` |
| actions in the browser | `plec-client/src/{events,vm}.rs` | queued and in-flight fetches, reload flag | event, callback to a parent, resume | what is read after an await or a nested call | `RouteLoader` |
| action machine | `plec-action/src/lib.rs` | frames, callers, finalizers, fuel and fetch budget | step, call, suspend, resume, return | finalizers across calls and suspensions | `ActionMachine` |
| action lowering | `plec-lowering/src/action.rs` | none (compile time) | try/catch/finally, calls | failure targets of nested blocks | `ActionSource` |
| expressions | `plec-compiler/src/hir_builder.rs`, `plec-lowering/src/expression.rs`, `plec-eval` | operand stack | translate, lower to a stack program, evaluate | one evaluator for server and browser that is to be JavaScript's | `Expressions`, `JavaScript` |
| schema contract | `plec-schema/src/typed.rs`, `plec-ir/src/lib.rs` | none that outlives a call | what the browser refuses to run | walks over tables that may be cyclic; checks the runtime relies on | `Contract`, `ActionContract` |
| mutations | `plec-client/src/vm.rs`, `plec-lowering/src/component.rs` | four state slots per mutation | start, publish, reset with the graph | overlapping invocations, numbers that repeat | `Mutation` |
| router | `plec-router/src/navigation.rs` | chain of instances, requested graphs, redirect depth | navigate, lazy delivery, redirect, not found | a loader that changes the chain while it is walked | `Navigation` |
| document loads: server engine, lifecycle and adoption, browser bootstrap | `plec-server-engine/src/{document,loader,artifact}.rs`, `plec-runtime/src/lifecycle.rs`, `plec-browser/src/index.ts`, `plec-schema/src/routing.rs` | request and chain; imported snapshot, registered graphs, host inputs | run the chain's loaders, redirect, boundaries, snapshot; import, adopt, abandon, mount | two sides that compute one chain each, deployments in between, half-adopted state | `Adoption` |
| rendering: templates, server rendering, reactive updates | `plec-lowering/src/node.rs`, `plec-server-engine/src/ssr`, `plec-client/src/{runtime,bindings,vm}.rs` | node tables; markup with marker comments; DOM nodes, regions, component instances, slots | lower, render, adopt node by node, mount, refresh after a change of state | a page that is patched, never rendered again | `Rendering` |
| keyed rows: snapshots, deltas, reorder | `plec-client/src/{runtime,reorder}.rs`, `plec-runtime/src/snapshots.rs` | order, rows, regions, listeners, last projection | diff, apply, reorder, patch, reconcile | limits that stop an operation half way, stale rows | `KeyedRows` |
| node host | `packages/plec-node/src`, `plec-node-bindings/src/application.rs` | admissions, reserved bytes, callback permits, native operations, shutdown | serve, call back, disconnect, time out, drain, close | two threads, cancellation, lost wake-ups | `NodeHost` |
| development loop | `packages/plec-vite/src/index.js`, `bin/dev.mjs` | sources, candidate and active output, hosts, pages | watch, build, decide, promote, exchange, clean up | changes during a build, failures between file operations | `DevHost` |
| TypeScript router | `packages/plec/src/routes/router.ts` | committed chain, versions, reload map, hops | navigate, reload, answer, commit | stale versions | `PageRouter` |
| query builder | `packages/plec-query/src/main/database.ts`, `plec-query-core/src` | registry of builders, buffered calls, finalizers, cached texts and verdicts | clause calls, clone, inline, compile, collect | handles shared between garbage-collected objects, stale caches | `QueryBuilder` |
| cookies, compiler front end, build and publish, inspection | `plec-client/src/cookie.rs`, `plec-parser`, `plec-compiler`, `plec-hir`, `plec-build`, `plec-inspect` | none that outlives a call | translation, validation | see "Not modelled" | none |

(Rust paths are below `crates/`.)

How they interact. A compiled application is served by the node host, or by the development
loop that exchanges hosts under its visitors. A document request runs the loaders of the
matched chain in the server engine and renders the chain with a snapshot; the browser
bootstrap fetches the manifest and the graphs, and the runtime either adopts the served
nodes or mounts its own. From then on the router mounts a chain of graph instances, one per
outlet, and asks an instance to run its loader. Loader and actions run on the action machine
until a capability (a fetch) suspends them; the client starts the browser fetch, keeps an
abort controller and an in-flight slot for it, and resumes the machine in the fetch's
continuation, after finding the runtime again by instance id and graph generation. A
loader's outcome goes back to the route (data, error graph, not-found boundary) or to the
router (redirect); an action's goes to state slots and collections, from which bindings,
conditionals, rows and child components are patched. JavaScript gives every continuation a
task of its own: tasks interleave, and nothing interleaves within one.

The properties that make each part correct: a late answer never acts on another graph than
the one that asked; every slot, permit, reservation and handle is given back once; the graph
on screen is that of the phase and the chain that of the location; data on screen is that
of the latest load; a pending graph goes away; the latest started mutation owns the
published state; a compiled action does what its source says; the page is what a fresh
render of its data would be, whether it was mounted, adopted or patched, and however far an
operation came; server and browser agree on every page that is adopted; redirects, loads,
builds and shutdowns end. `PROJECT.json` lists the hazards line by line.

## 2. Modules

| module | role |
|---|---|
| `RouteLoader` | one outlet: runtimes, phases, loader runs, fetches in flight, and its properties |
| `RouteLoaderInvariant`, `RouteLoaderProofs` | the inductive invariant, checked by TLC before it was proved; its proof and the safety theorems; what fetches, commits and phases add to it; the theorems about `Mutation` |
| `MutationContract` | what `docs/mutations.md` promises of a mutation's published state |
| `Mutation` | one mutation of a route graph and the life of its owner, and its refinement to `MutationContract` |
| `ActionMachine` | the machine that runs compiled actions, one instruction per step |
| `ActionSource` | action source, its lowering to instructions and its meaning; the machine's runs are held against the meaning |
| `Expressions` | expressions: the front end's translation, the stack programs and their evaluator |
| `JavaScript` | what the same source means in JavaScript |
| `ActionContract` | what the browser checks of compiled code |
| `ActionsMC` | the programs: statements, and expressions of every kind |
| `Navigation`, `NavigationSites` | the router's walk along the chain of route instances, lazy graphs, redirects, boundaries; two sites |
| `NavigationProofs` | its invariant and the theorems about the page and its graphs |
| `RouteMatching` | the matcher that server, browser and build share |
| `ServerDocument` | a document request in the server engine; the matcher is a parameter |
| `Adoption`, `AdoptionMC` | composes `ServerDocument` with the bootstrap and the runtime that adopts its page; the sites, and a reference for the matcher |
| `AdoptionProofs` | its invariant and the theorems about adopted and mounted pages |
| `Templates` | templates and the node tables they are lowered to |
| `ServerRender` | the server's markup and its record of branches and rows |
| `PageDom`, `PageRuntime` | the browser's document; how the runtime adopts, mounts and updates it |
| `Rendering`, `RenderingMC` | composes the four: lower, render, adopt or mount, touch states; the applications |
| `Contract` | what the browser checks of node tables, events, calls and a rendering's record |
| `KeyedRows`, `KeyedRowsMC` | the rows of a loop under arrays, deltas, snapshots, mutations and state changes |
| `KeyedRowsOperations` | what each step and each operation makes of the rows, and the reorder plan, as lemmas |
| `KeyedRowsProofs` | the invariant of the rows, and the theorems about page, data, listeners and moves |
| `NodeHost`, `NodeHostProofs` | dispatcher, API handlers, native operations, shutdown; invariant and theorems |
| `DevHost`, `DevHostProofs` | the development loop; invariant and theorems |
| `PageRouter`, `PageRouterMC`, `PageRouterProofs` | the TypeScript router of a page; its routes; invariant and theorems |
| `QueryParts` | what the query builder accumulates, refuses and renders |
| `QueryBuilder`, `QueryBuilderMC` | database instances in JavaScript over the registry in Rust |

Every `MaxX` constant is a bound of the instance, not of the code, unless its comment names
the constant of the code. Where a run does not check deadlock, the system may stop: the
inputs are bounded, and a page, a host or a session that nobody uses does nothing.

### RouteLoader and the code

The variables are the fields of the same names (`typed_generation`, the region tracker's
in-flight count as `slots`, `TypedGraphInstance.runtime` and `.loader_runtime` as
`runtimes["shown"]` and `["retained"]`, `TypedRouteState.phase` and `.location`,
`loader_data`), the browser fetches that have not settled, and counters that name mounts and
loader runs so that properties can speak of them. An action is one JavaScript task. Because
the code changes the instance in several calls within a task, the calls are operators from a
world (the record of all state) to a world, named after the methods, and an action chains
them: `Enter` is `dispose_typed_instance`, `mount_typed_child`, `run_typed_loader`; `Event`
is the action, `reload_typed_route`, the start of the queued fetches; `SettleLoader` is
`complete_typed_loader_fetch` with everything it calls.

Abstractions. One outlet of the chain; the instance id is reused by whatever is mounted
there, as in the code. A host-policy denial, which completes a fetch at once, is the outcome
it leads to. A redirect leaves the route; a redirect to the same route with another query
string is a refused redirect followed by a navigation. Pending and error graphs have no
loader action at the loader's index, so running the loader on them fails as it does in the
code when the index is out of range. At most one fetch is queued at a time. Errors of the
machine when an action starts change nothing and are left out. Cookies complete within the
task and hold no slot. Generations are natural numbers (the code saturates at 2^64).
`faulted` stands for the panic of an `unwrap()` while the instance map is borrowed: nothing
runs after it.

Bounds. `MaxInputs` (3 or 4) bounds navigations, events and retries; everything else is
finite because fetches per action are limited. Four inputs allow two loads to race, a mount
to be replaced while fetches of the earlier one are in flight, and a reload on top of both.
`FetchLimit = 2` makes the page-wide limit reachable; two query strings make two locations
of one match. Both runs replace the route by its pending graph; the theorems hold in either
pending mode.

Fairness. `FairSpec` adds weak fairness of `Settle`: the browser settles every fetch, by an
answer, an error or an abort. No user input is assumed.

### Mutation and the code

The four state slots of the lowered mutation (`invocation`, `pending`, `error`, `data`), with
an outcome named by the invocation it comes from; the suspended invocations, each with the
number in its frame and the generation its fetch will ask for; and what the owner's life
does: `Load`, `RestoreOwner` (behind a pending graph: host inputs, mount, fetches
invalidated), `SetInPlace` (no pending graph: host inputs only), `Dispose`, `MountOwner`.
`SettleInvocation` is `complete_typed_fetch`. Whether loading covers the route with a pending
graph is `covers`, chosen at the start: two of the properties hold only where it does. `lost`
remembers that the latest invocation was stopped without an outcome, by the machine or by the
page-wide fetch limit, after which nothing publishes. That a mount begins at a generation no
earlier fetch asks for is theorem `EarlierMountsSilent` of `RouteLoaderProofs`; `MountOwner`
relies on it. Mutations of a child component differ only in not being loaded, and are not
separately modelled. Bounds: four invocations, four loads and mounts, two fetches per action:
enough for a number to be used by three invocations at once.

### ActionMachine, ActionSource and the code

`ActionMachine` is `plec-action`: `current` and `callers` are the fields of `Continuation`,
`held` and `finalizers` those a `Suspension` carries, `finalizing` the local state of
`run_finalizers` while one of its blocks runs, `budget` the `ActionBudget`. A step is one
instruction of `drive`, or `resume` with the host's answer. Its program is a constant, so
the machine can be reasoned about for all programs. The value of an instruction is that of
its stack program in the frame; the test of a branch may go either way. The operand stack of
the machine lives between two adjacent instructions and is folded into the second.

`ActionSource` adds where the programs come from. `Compiled` is the lowering of
`plec-lowering/src/action.rs`: statements are emitted in order, the requests and calls of a
try body are redirected to its catch, its throws are relayed at the end, what nothing
catches returns the failure, and a finally block is deferred through the fetches of the
body. `Meaning` is the reference: the set of all that may be observed of the statements by
TypeScript's rules, by recursion on the statements and with no instruction in sight. The
property is that a run, at every moment, is the beginning of one of them, that in the end it
is all of one, and that it gives up early only at a limit it has really reached. The source
allows assignment only where a binding is declared, so a slot is written once and needs no
environment of its own per block.

`Expressions` follows an expression through the compiler: `Hir` is `lower_expression`,
`Program` the lowering to a stack program, `Evaluated` the evaluator of `plec-eval` that
server and browser share. `JavaScript` gives the meaning of the same source by the
language's rules, with no program in sight, and answers `Converts` where those rules ask for
a conversion of types: plec says nothing of these. An action that stores an expression must
store what JavaScript says, unless the expression is higher than the operand stack or deeper
than the nesting the evaluator allows. `ActionContract` is what the schema checks of compiled
code; every compiled program passes it.

Left out: the cases the lowering refuses (an await in an unsupported position), call
statements of actions that suspend, `return await`, awaited callable parameters, cookies and
server actions (which suspend as a fetch does), errors of the host.

Bounds: every body of one or two statements of the kinds that differ, and bodies of three
whose first two suspend; three handlers, five helpers, calls up to two deep beneath the
action with a third one refused; two thousand programs; and 3,600 that store one expression, made of every operator,
method, collection and callback over operands of every type, with a stack of three and a
nesting of two so that both limits are met (the code has 1,000 and 32). Three fetches are allowed, so the
limit is met. `MaxFuel = 14` ends the longest runs early, at every point of them; with 30
none is cut short and the property holds as well. Try blocks are not nested within one
action, and finally is run only in the one position the code supports; see the hazards.

### Navigation and the code

`instances` is the map `typed` without the root, as a sequence: an instance id is made of the
outlets above it, every route of the sites uses the outlet `main`, and an id is reused by
whatever is mounted there next. `frames` is the stack of `navigate_typed_route` calls, each
with its location and its place in the loop over the matched chain; `running` is the instance
whose loader is being started. One step is one outlet of the walk or one part of
`run_typed_loader`. The stack is deeper than one when a loader ends before its first fetch:
`dispatch_event` is synchronous, so the redirect walks inside the loop of the walk that ran
the loader. A task ends when the stack is empty, and only then do inputs, answers and
deliveries happen.

`loads` counts the answers that can still reach an instance. That those of another mount, or
of a replaced graph, cannot is what `EarlierMountsSilent` and `GenerationsApart` of
`RouteLoader` prove; replacing the runtime therefore sets it to 0. `attached` says whether an
instance is still in the document: mounting another graph in its parent replaces the
parent's nodes, the outlet among them. A graph is requested among those missing; the code
asks for the first. What an early loader does is chosen from `Early`, what a late one leads
to from `Answers`; a fetch the host denies is an early failure.

Left out: the browser's history stack (the location is what matters to the chain), hash and
route parameters beyond the path, refreshing bindings after a query change, a root graph that
is itself lazy (bootstrap loads it before it starts the router), and pending graphs in
`retain` mode, which change no graph. A chain that was adopted is in `Adoption`.

Bounds: three navigations, reloads or retries, a budget of two hops (the code has five; the
order of charge and reset is what matters), three lazy graphs (a page, its error graph and
the root boundary), two query strings, three paths. The layout of the site has a loader and a
boundary but no pending or error graph; with a pending graph the outlet below is replaced or
absent while the layout shows it, and the page's own location is not shown.

Fairness: a call runs to its end, each fetch of a live loader settles, each requested graph is
delivered or its delivery fails. No input is assumed.

### RouteMatching, ServerDocument, Adoption and the code

A site is two builds of one manifest; a path is the sequence of its segments. `MatchChain` is
the backtracking matcher of `plec-schema`; the assumption `MatcherFindsTheChain` of
`AdoptionMC` compares it with a definition by quantifiers (there is a match if some chain of
routes fits the path, it is one of those, and it begins with a most static one) over 750
manifests and seven paths. `ServerDocument` is one request: a step is one loader's outcome, and
success of the last one renders. A redirect starts the chain of its target; a chain that
completes after a redirect is answered with a 307 to its address. What a chain shows is,
outlet by outlet, the graph and the loader data. `ServerDocument` takes the matcher as the
constant `Matcher`, which `Adoption.cfg` gives as `MatchChain`, and assumes of it and of the
manifests what the proofs use: a route has an id of its own (`RoutesHaveIds`), and a chain
consists of routes of the manifest, each below the one before and none twice
(`ChainsDescend`). TLC evaluates both for the sites of the run.

`Adoption` composes it with the browser: the manifest and each graph are fetched one after
the other, deployments and failed fetches come in between, and import, adoption of each
graph, abandonment and mounting are one task each. `runtime` holds what an adoption leaves
behind: registered graphs, host inputs with or without a location, seeds, claimed instances.
The properties hold the adopted page against the address, against what the server rendered,
and a page that could not be adopted against one that never tried.

Abstractions. A response is its status and what the snapshot says; nodes are in `Rendering`.
An engine failure reaches the browser as the shell of a single-page application with status
200, as in the host. What the loaders of a mounted page do is `Navigation`. A route that may
answer not-found has a boundary or an ancestor with one (`MayBeNotFound`): the compiler
refuses others. The graph of the root's boundary is taken to have no outlet. Data of routes
without a loader, and of graphs a boundary stands for, is outside `AdoptedAsServed`: server
and browser differ about it without showing it. Graph addresses name no build, so between
the manifest and a graph nothing can be promised.

Bounds: two hops on the server (the code has five), one redirect followed by the browser, one
failed fetch; fairness is of the whole next-state relation: the document load goes on.

### Templates, ServerRender, PageDom, PageRuntime, Rendering and the code

`Lowered` turns a component's template into the node table of `plec-lowering/src/node.rs`,
with element, text, conditional, loop, call and slot nodes. `ServerRender` gives the markup as
a tree of nodes with the marker comments, and the record of branches and rows the
snapshot carries. `PageRuntime` has the runtime's methods as operators from a world to a
world, named after them: node by node it claims (adoption) or builds (mount), and after a
change of state it refreshes bindings, flips conditionals, patches rows and mounts and
refreshes the child instances it has queued. Slot content belongs to the instance that wrote
it. `Rendering` begins with the served page, then `Adoption` or `Mount`, then `SetState`: an
event that sets the state of one instance, with everything it leads to, is one step because
it is one task. `PageShowsTheState` compares the document with a direct evaluation of the
templates over the states asked for (`Meaning`); `OwnersAgree` is that the live instances are
those the templates ask for and every element and text is held by exactly one of them; `ServedIsAdopted` is that the browser
takes every page of the server.

`Accepted` of `Templates` is what the compiler lets through, `Contract` what the schema makes
the browser refuse: a node table that is no forest or too deep, events and calls that name what
is not there, cyclic calls, props that do not fit, a rendering's record that does not. The
assumptions of `RenderingMC` hold the application families against both, and the walks of
`Contract` against definitions without recursion over small tables.

Abstractions. An expression reads one thing: the component's state, its prop, a field of the
row or a cookie; a value is on or off, and off shows as the empty text. A component has one
state and one prop. The rows of a loop do not change (that is `KeyedRows`). Calls that may be
on the page together have different names. Parents are refreshed in the order of instances
where the code walks a hash map. Markers are `<<role, path, node>>` on both sides.
Attributes, listeners, static texts, outlets, host and dynamic components, host refs, budgets
and depth limits and the snapshot's own validation are left out.

Bounds: three touches, some 840 applications of three components with the nestings of
`RenderingMC`: conditionals in rows, rows and calls in branches below an element, slots with
text, branches, rows and calls. There is no fairness: the properties are of every step.

### KeyedRows and the code

A mounted graph with one loop, the only child of its parent element, whose row template is an
element with a text and a conditional branch, both with a listener. `runtime` has the fields
of `TypedRuntime` that rows touch: order, rows with their nodes and regions, listeners,
`collections`, budgets, the sequence of DOM children. An action is one call of the host or
one event with everything the code does for it: `reconcile_input` (with the reorder plan of
`reorder.rs`: longest increasing run, moves before the next stable row), `apply_delta`,
snapshot diff and deltas, collection mutations of an action, and a change of the state the
rows read. A call that meets a limit of rows or regions stops where it is, and what it left is
the state the next call finds. What such a call does row by row is a list of steps (`Drop`,
`Update`, `Insert`, `Relocate`, a refresh) that `Perform` takes up to the first that fails: the
loops of the code with their `?`. `GraphsAreTyped` says of a graph and its
rows what their types in the code say. `PageShowsThePromise` compares the page with a fresh render of
the list the feed has asked for, for each row both its nodes and what they show.

Abstractions: an expression is the set of its reads, and what a node shows is those reads
with the values they had; a listener's generation is compared per key only; the four feeds
are not mixed on one loop. Reads of the index are outside the properties: updates evaluate
at index 0, and moved rows keep the index they had. Snapshots of the run change one thing at
a time (`OneChange`). Bounds: up to four rows, two values of a field, limits of rows and
regions that are reached, `WithinBounds` for mutation and delta lists; the three keys are
symmetric.

### NodeHost and the code

One step is one task of the JavaScript thread with its microtasks, or one stretch of a native
operation between awaits or locks. `stage` places each request; `js`, `owner`, `apiHeld`,
`bytes` say what it holds; `activeRequests`, `activeApi`, `reservedBytes`, `permits`, `ops`
are the counters of the code, kept by the code's own increments and decrements, so that the
properties can compare them with the holders. The threadsafe-function queue between the
threads is in the model: a callback that is queued when its operation is cancelled still
runs, without the permit (`PermitLostOnlyByCancel`; docs/node-host.md:1423-1429). Clients
disconnect, bodies exceed their limit, handlers are detached by a deadline or a locked
Response body, and the coordinator closes, drains and gives up after its deadline at any
moment.

Abstractions: every API request takes the body path; the end of a native operation and
JavaScript learning of it are one step; bytes are counted in chunks of a body. The render of
a host component at callback capacity is not told apart from one that succeeds: the code
drops the error and sends the document with an empty fragment and status 200, where
docs/node-host.md:1428 asks for 503. Bounds: two API requests, a document and a server
action, three requests at once, one callback permit, one byte: the smallest in which
requests of each kind compete for the last of each. Fairness: what unwinds an aborted
request happens, the steps of shutdown follow one another, and the grace timer fires.
Handlers, callbacks, streams and clients are *not* assumed to settle, and shutdown ends all
the same.

### DevHost and the code

`build()` of the Vite plugin, cut at its awaits: compile into a candidate directory, decide
between an update of client parts and a new host, promote the parts by renames or exchange
the hosts, notify pages, remove what is old; plus the watcher, the visitors of a host, and
`cleanup`, which may begin at any moment. `disk` holds what each output directory has, part
by part, so that a half-finished promotion can be seen; `hosts` are the hosts started.
`Fault(at)` lets one file or host operation fail at the places of `FaultPoints`.

The run allows faults only where the code recovers. Where it does not: the rollback of a
promotion whose first rename failed removes the live part; the catch around an exchange
removes the candidate that is being served; a second build that fails inside the first call
of `build()` ends the server. Provider modules are part of the server but not of what makes
it restart. A sweep whose directory listing throws ends the process, as in the code.
Bounds: two edits, one fault, one visitor; three kinds of source. Fairness: the compiler exits
and file operations end (`Build`), the watcher reports, aborted requests end, cleanup goes
on; no edit is assumed.

### PageRouter and the code

`calls` are the loader calls under way, of loads and of reloads; a step is the piece between
two awaits: an answer, with the next loader it starts or the commit it leads to. A call whose
controller was aborted is forgotten, because its answer changes nothing. A reload that meets a
load, another route's reload or a page not yet committed is neither aborted nor outdated by
it and may commit a chain whose loaders are still running; such executions are explored, and
`CommittedWhole` and `LatestCallShows` are stated for the others (`overlapped`).
`matchRoutes` is a constant, `Chain` and `Params`; rendering a retained route whose component
contains its own outlet recurses without end and is left out. Bounds: three operations of the
user, two hops (the code has five). Fairness: loaders that have not been aborted answer.

### QueryParts, QueryBuilder and the code

`reg` is the registry of immutable builders with their cached text and verdict; `objs` are the
`Database` instances with handle, buffered calls, parent and finalizer cell. A call buffers or
commits, `compile()` commits and renders (through the binary protocol, or as JSON text when
that fails), an instance is collected when nothing refers to it, and its finalizer drops the
handles of its cell. A query used in another travels as a handle, as calls on top of a handle
or as text, which is decided when the outer one is committed. `chain` is the history of the
calls an instance stands for; `CompiledIsTheChain` compares the text with what a builder that
made the same calls without sharing or caching would give.

Abstractions: columns, tables, predicates and values are not told apart; joins of subqueries
are plain joins; warnings and strict mode, the structural cache (used by tests only), unknown
dialects and unsupported recursive queries are left out. A callback's builder that was used
in another query gets no more calls (`MayBeCalled`): the other query would change with it.
Handles a callback borrows and commits are never dropped, and `HandlesAccounted` allows that
leak. Bounds: four instances, three calls on each, three handles, one callback.

## 3. Runs

| run | states | what it shows |
|---|---|---|
| `RouteLoaderReplace` | 6 k | with a pending graph that replaces the route: screen and phase agree, unaborted fetches are exactly those of live runtimes, an aborted fetch resumes nothing, a pending graph is taken away once fetches settle |
| `RouteLoaderPhaseActions` | 143 k | with fetching pending and error graphs and machine errors: slots match controllers, generations are apart, data is committed in order, the inductive invariant holds |
| `ActionsAsWritten` | 39 k | compiled actions store, ask for and return what their source says, expressions included, and give up only at a limit |
| `Mutation` | 318 k | the contract of `docs/mutations.md` where loading covers the route; pending is true while the latest request is in flight (there) and only then (everywhere), unless that invocation was stopped |
| `NavigationArrives` | 107 k | between tasks, once its graphs have arrived, the page shows its location or the boundary that stands for it; a loader in flight has every graph its outcome may need; redirects in circles and failed deliveries end |
| `Adoption` | 37 k | the adopted page is that of the address and the one the server rendered; a page that cannot be adopted is mounted as if there had been none; every load ends |
| `Rendering` | 31 k | the page is what the templates say, served, adopted or mounted, and after every event; instances and nodes stay one to one; the browser takes the server's pages |
| `KeyedRows` | 49 k | patched rows are what a fresh render would give, their listeners follow, kept rows keep their nodes |
| `NodeHost` | 286 k | admissions, bytes, permits and operations are accounted for; a closed application is quiet; shutdown ends |
| `DevHost` | 264 k | visitors are always served, edits arrive, open pages catch up, nothing is left behind |
| `PageRouter` | 182 k | what is committed is one page, the last call's answer shows, redirects end |
| `QueryBuilder` | 447 k | compiled text is the query's calls whatever was shared or cached; what is valid compiles; no handle is dropped early or kept |

States are distinct states. The bounds of each are with its module above.

## 4. Where the code does not do what is said

Some properties were stated from a document or a comment and do not hold of the code. They
stay in the modules, or are properties the runs check under assumptions that leave the case
out; each can be reproduced by the change named here.

| property | change | what happens |
|---|---|---|
| `CommitsForLocation` | add it to `RouteLoaderReplace.cfg` | a navigation under a pending graph cannot start the loader: data of the interrupted location is committed under the new one (route.rs:200; docs/application-errors.md:19) |
| `ReloadServed` | add it to `RouteLoaderReplace.cfg` | a reload asked for after an await is not started (events.rs:581; docs/mutations.md:67-68) |
| `AbortedSettlesSilently` | `PhaseActions = TRUE` | an aborted fetch of a pending graph resumes on the restored route, whose generation it shares (docs/mutations.md:59-60) |
| `LatestStartedPublishes`, `RunningIsPending` | drop `covers =>` | after data set in place an older invocation publishes over a newer one, and `pending` is cleared under a request in flight (fetch.rs:868; docs/mutations.md:55-56) |
| `RunsAsWritten` | `Shape = "finally"` | the finally block of a try that awaits a mutation never runs (action.rs:701; the form of apps/fullstack/src/routes/todos.tsx:107-122) |
| `PageShowsLocation` | the `Old...` site of `NavigationSites`, or a pending graph for the layout | a page that redirects before its first fetch to one below a layout loses its target's page: the walk under way goes on (navigation.rs:534, 701) |
| `NotFoundIs404` | add it to `Adoption.cfg` | where the route and the root both have a boundary the server renders the root's, fails, and the shell is sent with status 200 (docs/ssr-architecture.md:71) |
| `LastBuildAvailable` | add it to `DevHost.cfg` | a first build overtaken by an edit that does not compile ends the session (docs/getting-started.md:113) |
| `PageShowsThePromise` | `AnySnapshot = TRUE`, `Setups <- Reordering` | deltas of a snapshot that inserts and moves anchor a row before one that is not there yet |
| `InvalidIsRefused` | add it to `QueryBuilder.cfg` | inlined queries of one base share its verdict: a refused one is rendered after a valid one (validation.rs:26-27) |
| `PageShowsTheState`, `OwnersAgree`, `ServedIsAdopted` | `Shown` of `Rendering.cfg` set to a name of `Divergent` | below |

The applications of `Divergent`, and what is lost in each. `Accepted` (module `Templates`)
says which forms the compiler refuses; these are not among them.

- `NestedLoop`: a `.map()` within the rows of another in one component: the loop's handle is
  taken before its row is lowered (node.rs:151), so both loops carry the inner one's.
- `BareCallInBranch`, `BareBranchInBranch`: a branch that is itself a call or a conditional:
  closing or opening it moves its start marker only. `BranchAtRoot`: the same for a component
  whose root is a conditional.
- `SlotInBranch`, `SlotInLoop`: slots in a branch or in rows are not what the server rendered
  after a flip, or not adopted.
- `RowReadInBranch`, `ReopenedInRow`, `PropInRow`: a row's branch that opens binds only what
  reads the changed field, after an adoption it is blank when it opens again, and rows that
  read a prop keep the old one.
- `SlotInRow`: slot content of a component in a row is claimed by nobody on adoption.
- `SlotPassedOn`: children passed on through a second component are lost when mounted.
- `CookieInBranch`: a conditional on a cookie keeps the server's side.

Seen while modelling and stated nowhere as properties: two values that show nothing have
sentinels of one name, for which the browser gives the whole page up (allowed by
`ServedIsAdopted`); components inside an element of a closed branch are not disposed; host
arrays with equal keys are not refused; an event handler whose own reload disposes of the
instance meets an `unwrap()` (events.rs:526); a pending graph stays up when the action
machine itself fails; the redirect budget is reset by a delivered graph (lifecycle.rs:614,
against the comment at navigation.rs:570); the entries of the node host and development loop
in section 2. Of expressions (modules `Expressions` and `JavaScript`): the property `{name}` of
an object literal is dropped (hir_builder.rs:3393, which reads key-and-value pairs and spreads
only); the callback of a `map` within another's callback reads the inner row for both; over
what is no record, `map` and `filter` see empty records; `includes` of an array searches its
JSON text (plec-eval/src/core.rs:269); and where JavaScript would convert a value, the evaluator has
rules of its own: an empty array is false, `<` and the like compare strings as 0, unary plus
does nothing, null prints as the empty text, `==` is `===` and compares records by content. The hazards of `PROJECT.json` name the lines.

## 5. Proofs

`RouteLoaderProofs` proves `Spec => []IInv` from the assumptions on the constants only, for
any limits, query strings, phase graphs, pending mode and number of inputs. `IInv` (module
`RouteLoaderInvariant`) is needed because the properties are not inductive alone: that a late
fetch finds no runtime rests on the generations of *all* fetches in flight being below those
of later mounts, which rests on a runtime being at most one generation ahead of the shared
counter (`mount` adds one on its own), exactly one under a cover. The proof follows the
calls: one lemma per method takes a good world to a good world, and each action chains the
lemmas of its calls. From `IInv`: `TypeCorrect`, `SlotsAccounted`, `RetainedIsCovered`,
`GenerationsApart`, `EarlierMountsSilent`, `DataStaysWithItsMount`.

Its second half adds to that invariant (`FullInvariance`) whose every fetch, abort
controller and committed run is. Three properties hold only under hypotheses on the declared
graphs, each of which names a case in which the code does otherwise: `NewerDataOnly`
(`CommitsInOrder`) needs `Covering`, a pending graph that takes the screen, or two runs of one
generation may end in either order; `ScreenFollowsPhase` (`PhaseShowsItsGraph`) needs
`AllDeclared`, an error graph as well, or a failed load changes the phase and leaves the
screen; `FetchesHaveControllers` and `AbortedStaysSilent` (`ControllersAreLive`,
`AbortedSettlesSilently`) need `QuietPending`, that a covering graph starts no fetch (section
4). The argument is about ids: every runtime has one of its own, a fetch names the runtime
that started it, and what is not on screen or retained was aborted when it went.

Its last part proves of `Mutation`, for any limits and number of invocations and loads, that
where loading covers the route the mutation implements `MutationContract` (`ContractKept`, a
refinement) and says pending while its latest request is in flight (`InFlightIsPending`). The
invariant is that the invocations which can still be resumed are numbered in step with their
starts: the distance between an invocation's name and its number is the same for all of them,
because whatever resets the number also changes the generation. `SetInPlace` breaks exactly
this. `PendingHasItsRun`, that pending has a request that will settle it, needs no cover; its
exception is an invocation that was stopped (`lost`).

`NavigationProofs` proves, for any manifest, answers, lazy graphs, redirect limit and number of
inputs, that a loader in flight has every graph its outcome may need (`PhaseGraphsThere`) and
that the page shows its location between tasks (`ShowsItsLocation`). `TypeCorrect`, with the
redirect budget in it, needs no hypothesis; the first of the others needs `NoEarlyRedirect`,
the second also `LeavesHavePhases`: these leave out the sites of the row `PageShowsLocation` of
section 4. Without early redirects there is at most one walk and it is the one to the location.
What it has passed is mounted for the location, unless a loader already ended at a boundary;
`Joined`, that every instance but the last shows its normal graph, makes a walk that cannot go
on stop at a boundary and nowhere else. So a finished walk leaves the chain of the location, a
chain that ends at a boundary, or a missing graph that has been requested. The order of the
chain and its comparison with the manifest are about sequences and their prefixes; where an
induction would be used, a least or greatest place is looked at instead.

`NodeHostProofs` proves, for any finite sets of requests and any limits, an invariant
(`Invariance`) with what each request holds at each stage, the counters as cardinalities of
the sets of their holders, and the order of closing. Each action's lemma shows which holders
it adds or removes and by how much its counter changes; that an action changes one holder at
a time is what makes the code's own increments right. From it: `TypeCorrect` (no counter
goes below zero), `HoldersAreCounted`, `CapacityKept`, `PermitsLostByCancel` and
`QuietWhenClosed`, which needs that an operation is registered under the lock `close()`
reads it with. `CountersAreRight` adds the reserved bytes, which are a sum over the requests:
a fold, so a recursion over sets. That a fold has the value its equation says, and that a
total moves with one value of its function, is proved by looking at a smallest set for which
it would not.

`DevHostProofs` proves, for any number of edits, failures, requests and directories, that a
session stays available (`AlwaysAvailable`), that what compiles is what is served once the
loop rests (`NoEditIsLost`), that an open page is reloaded into it (`OpenPageKeepsUp`), and
that hosts and directories are given back (`EverythingIsGivenBack`). The hypothesis
`Recoverable` leaves out the failures after which the code removes what it still serves
(section 2); the run has the same fault points. The invariant has two halves. Until cleanup
begins one host is on display, all other directories belong to the build under way, and what
is compiled or served is the sources unless a change is on its way to the loop (a notice, the
dirty flag, or a build that has yet to read). Afterwards a build and the cleanup undo each
other's work, and the invariant says only where a directory may still be left. Directories
suffice because every build beyond the first answers an edit of its own.

`PageRouterProofs` proves, for any routes, paths, loaders and redirects, that what is committed
is one page (`CommitsWholePages`) and that matches show the last call's answer
(`ShowsLatestCalls`), both for executions in which no reload has met a load (`overlapped`,
section 2). At most one loader is then under way, and the page waits at one place: the places
before it are answered, the loaders behind it not yet called. A load and a reload answer in
the same ways, so outcomes are proved once for a page that waits. That the next loader of a
chain is the least place that has one is a lemma about numbers.

`AdoptionProofs` proves, for any builds, paths, redirects, deployments and failed fetches, and
for any matcher and manifests that satisfy `ChainsDescend` and `RoutesHaveIds`, that a page is
of the address it is opened under (`PageIsOfItsAddress`), that an adopted page is the one the
server rendered and is refused only for a rejected loader without an error graph
(`AdoptionIsFaithful`), and that a mounted page holds nothing of an adoption (`MountsAreFresh`).
Server and browser never exchange the chain; each goes along its own. The invariant therefore
keeps, of a page under way, the executions it was rendered from (`Page`) and, of the browser,
what it has fetched and has still to fetch (`Gathered`). From the first, the snapshot of a page
of the browser's own build agrees with the chain the browser derives (`ServedAgrees`); from
both, every outlet claims the graph that was rendered there, and the graph has been fetched
(`ClaimsAreRendered`). The address is that of the page because a request that has been
redirected is never answered with a page, only with a redirect. The list of graphs a chain
needs is flattened from lists, a recursion over their number; where an induction would be
used, the least number at which the claim fails is looked at.

`KeyedRowsProofs` proves, on the lemmas of `KeyedRowsOperations`, for any keys, values,
limits, graphs, lists and number of operations, the four properties of the run. That the page
holds the nodes of the runtime's rows and nothing else (`PageAlwaysHoldsTheRows`), and that a
kept row keeps its nodes and a replaced list moves as few rows as can be
(`KeptRowsStayAlways`), needs no hypothesis. That the page is the list the feed has asked for
(`PageShowsThePromiseAlways`) needs `Asked`, that snapshots keep the order of the rows they
share: without it the row of section 4 fails. That listeners follow rows
(`ListenersFollowRowsAlways`) needs also `Heard`: with snapshots no branch is selected by the
index of its row, which changes between the deltas of one array, so that a branch that comes
and goes within one leaves its listener queued. That rows show their data
(`RowsShowTheirDataAlways`) needs `Steady`: nothing reads the index, which updates evaluate
as 0, and a branch that can be switched is written when it is. All graphs of the run satisfy
the three. The other invariants hold after an operation that stopped half way, so the
inductive invariant (`SpecInv`) is in two parts: `World`, which holds between any two steps
of an operation, failed or not (the page has the tokens of the rows once each, rows are of
their keys, owners have their listeners), and `InSync`, that unless something has failed
order, rows and page are the promised list. Each step on one row keeps `World`; a loop over
rows is followed by a predicate of how far it has come. For `reconcile_loop` this predicate
compares two orders on the page, the rows already in place from the right and those that
stay, and needs that the plan is a longest run of both orders (`ReorderPlanIs`): the tops of
the patience sorting's piles rise, so that the cards of a rising run lie on piles of their
own and no run is longer than there are piles, and the parents of the last top are a run with
a card on each. For deltas of snapshots it is the list between the two arrays: what is left
of the old one after the removals, with the first rows of the new in place (`AtStation`). The
only inductions are over the numbers, made by looking at the least one for which the claim
fails.

Only model-checked: the liveness properties `PendingSettles`, `ComesToRest`, `LoadEnds`,
`ShutdownEnds`, `EditsArrive`, `CallsEnd`; and everything about actions, rendering and
the query builder. `ActionSource`, `Expressions`, `JavaScript`, `Contract`, `ActionContract`,
`QueryParts`, `RouteMatching`, `Templates`, `PageRuntime` and what extends them are recursive
over the source, the query, the chain or the template: their agreement for every input would
need induction over it, which the provers at hand cannot do. That the matcher satisfies
`ChainsDescend` for every manifest is of this kind too: `Adoption` is proved from it, and TLC
evaluates it.

## 6. Not modelled

- Cookies (`plec-client/src/cookie.rs`): read and written synchronously in the task, with no
  state of their own. That a conditional on one is rendered differently by the server is in
  `RenderingMC`.
- Of expressions and the schema: decoding of artifacts, sinks and the tag policy, size limits,
  division, and the text of JSON and of a component of a URI. The compiler's translation of
  expressions, their evaluation, and the structural checks of tables, programs, calls and
  snapshots are in `Expressions`, `Contract` and `ActionContract`.
- The compiler front end (`plec-parser`, `plec-compiler`, `plec-hir`, `plec-ir`): a
  translation of TypeScript without state, whose errors lie in the breadth of the syntax.
  What it hands on is modelled from the lowering side.
- Build and publish (`plec-build`), size reports and templates of the CLI: one process that
  writes a directory front to back. The exchange of outputs under a running server is
  `DevHost`.
- Inspection and diagnostics (`plec-inspect`): reporting.
- Parts of modelled components: try blocks nested in one action, awaited callable
  parameters, `return await`; host and dynamic components, host refs, attributes and their
  bindings, outlets within rendered graphs, depth limits; inputs that are not lists of rows;
  server actions and API routes inside the engine; history and hash of the browser; asset
  preloading; expressions, schema operations, raw SQL and the native and wasm bindings of
  the query builder.
- Memory: the sharing and dropping of Rust values is the compiler's business, except where
  the code counts by hand (slots, permits, handles, regions), which is modelled.
