------------------------------ MODULE Mutation ------------------------------
(***************************************************************************)
(* One useMutation of a route graph: the state slots its wrapper action    *)
(* publishes to, the invocations whose fetches are in flight, and what the *)
(* life of the graph that owns it does to both.                            *)
(*                                                                         *)
(* The wrapper numbers each invocation from a state slot of the graph and  *)
(* compares the number when the callback ends. Loading the route again     *)
(* re-initialises every state slot, that one included: when a pending      *)
(* graph covered the route the graph is mounted anew and its fetches are   *)
(* invalidated with it, when the data is set in place they are not.        *)
(*                                                                         *)
(* The definitions every specification has carry the module's name, so that*)
(* RouteLoaderProofs can speak of a route and of its mutation.             *)
(***************************************************************************)
EXTENDS Integers, FiniteSets

CONSTANTS
    FetchesPerInvocation, \* MAX_FETCHES_PER_ACTION
    MaxStarts,        \* bound: invocations
    MaxLoads          \* bound: loads of the owner's route, and its mounts

ASSUME MutationLimits ==
    /\ FetchesPerInvocation \in Nat \ {0}
    /\ MaxStarts \in Nat
    /\ MaxLoads \in Nat

VARIABLES
    covers,     \* loading covers the route with a pending graph; never changes
    alive,      \* the owner's runtime exists
    loading,    \* runs of the route's loader in flight
    covered,    \* a pending graph is on screen while they are
    generation, \* the runtime's graph_generation
    invocation, \* the state slots of the mutation: its invocation number,
    pending,    \* mutation.pending,
    error,      \* mutation.error, as the invocation that failed
    data,       \* mutation.data, as the invocation it came from
    runs,       \* suspended invocations, each with one fetch in flight
    lost,       \* history: the latest invocation stopped without an outcome
    started,    \* invocations ever started
    loads       \* loads and mounts so far, at most MaxLoads

stateSlots == <<invocation, pending, error, data>>
owner == <<covers, alive, loading, covered, generation, loads>>
mutationVars ==
    <<covers, alive, loading, covered, generation, invocation, pending, error, data, runs,
      lost, started, loads>>

None == 0

(* A suspended invocation: its name in the order of starts, the number in  *)
(* its frame, the generation its continuation asks for, and how many       *)
(* fetches it has made.                                                    *)
InvocationRun ==
    [start : Nat, number : Nat, generation : Nat, nth : 1..FetchesPerInvocation,
     aborted : BOOLEAN]

MutationInit ==
    /\ covers \in BOOLEAN
    /\ alive = TRUE
    /\ loading = 0
    /\ covered = FALSE
    /\ generation = 1
    /\ invocation = 0
    /\ pending = FALSE
    /\ error = None
    /\ data = None
    /\ runs = {}
    /\ lost = FALSE
    /\ started = 0
    /\ loads = 0

(* mutation_start *)
Started ==
    /\ invocation' = invocation + 1
    /\ pending' = TRUE
    /\ error' = None
    /\ UNCHANGED data

Outcome(name, succeeds) ==
    /\ pending' = FALSE
    /\ error' = IF succeeds THEN None ELSE name
    /\ data' = IF succeeds THEN name ELSE data

(* Slips of mutation_publish: any invocation publishes; a failure leaves   *)
(* pending as it was.                                                      *)
Publish_Always(run, succeeds) == Outcome(run.start, succeeds) /\ UNCHANGED invocation
Publish_FailurePends(run, succeeds) ==
    /\ IF run.number = invocation /\ succeeds THEN Outcome(run.start, TRUE)
       ELSE IF run.number = invocation
       THEN error' = run.start /\ UNCHANGED <<pending, data>>
       ELSE UNCHANGED <<pending, error, data>>
    /\ UNCHANGED invocation

(* mutation_publish: only the invocation whose number is the slot's.       *)
Publish(run, succeeds) ==
    /\ IF run.number = invocation THEN Outcome(run.start, succeeds)
       ELSE UNCHANGED <<pending, error, data>>
    /\ UNCHANGED invocation

(* set_host_inputs evaluates the initialiser of every state slot again.    *)
Reinitialised ==
    /\ invocation' = 0
    /\ pending' = FALSE
    /\ error' = None
    /\ data' = None
    /\ lost' = FALSE

(* Slip: the generation stays.                                             *)
Invalidated_SameGeneration ==
    /\ UNCHANGED generation
    /\ runs' = {[r EXCEPT !.aborted = TRUE] : r \in runs}

(* invalidate_fetches *)
Invalidated ==
    /\ generation' = generation + 1
    /\ runs' = {[r EXCEPT !.aborted = TRUE] : r \in runs}

-----------------------------------------------------------------------------
(* Invocations *)

CanStart ==
    /\ alive
    /\ ~covered
    /\ started < MaxStarts
    /\ started' = started + 1
    /\ UNCHANGED owner

(* An event runs the wrapper and its callback ends without suspending.     *)
StartAndEnd(succeeds) ==
    /\ CanStart
    /\ invocation' = invocation + 1
    /\ Outcome(started + 1, succeeds)
    /\ lost' = FALSE
    /\ UNCHANGED runs

NewRun ==
    [start |-> started + 1, number |-> invocation + 1, generation |-> generation,
     nth |-> 1, aborted |-> FALSE]

StartAndFetch ==
    /\ CanStart
    /\ Started
    /\ runs' = runs \union {NewRun}
    /\ lost' = FALSE

(* The machine fails after mutationStart, or start_typed_fetch finds no    *)
(* slot: the error goes to the caller of the event listener, and the       *)
(* callback is never resumed.                                              *)
StartAndStop ==
    /\ CanStart
    /\ Started
    /\ lost' = TRUE
    /\ UNCHANGED runs

(* complete_typed_fetch asks for a runtime of the fetch's generation.      *)
Resumable(run) == alive /\ run.generation = generation

(* The run that would be published if it settled now.                      *)
IsLatest(run) == Resumable(run) /\ run.start = started

SettleStaleInvocation(run) ==
    /\ ~Resumable(run)
    /\ runs' = runs \ {run}
    /\ UNCHANGED <<stateSlots, owner, lost, started>>

SettleAndEnd(run, succeeds) ==
    /\ Resumable(run)
    /\ runs' = runs \ {run}
    /\ Publish(run, succeeds)
    /\ UNCHANGED <<owner, lost, started>>

SettleAndFetch(run) ==
    /\ Resumable(run)
    /\ run.nth < FetchesPerInvocation
    /\ runs' = (runs \ {run}) \union {[run EXCEPT !.nth = run.nth + 1]}
    /\ UNCHANGED <<stateSlots, owner, lost, started>>

(* The fetch count is exceeded, another error of the machine, or no slot.  *)
SettleAndStop(run) ==
    /\ Resumable(run)
    /\ runs' = runs \ {run}
    /\ lost' = (lost \/ IsLatest(run))
    /\ UNCHANGED <<stateSlots, owner, started>>

SettleInvocation ==
    \E run \in runs :
        \/ SettleStaleInvocation(run)
        \/ \E succeeds \in BOOLEAN : SettleAndEnd(run, succeeds)
        \/ SettleAndFetch(run)
        \/ SettleAndStop(run)

-----------------------------------------------------------------------------
(* The owner *)

(* run_typed_loader on the owner's route: navigation or useReload.         *)
Load ==
    /\ alive
    /\ ~covered
    /\ loads < MaxLoads
    /\ loads' = loads + 1
    /\ loading' = loading + 1
    /\ covered' = covers
    /\ UNCHANGED <<stateSlots, covers, alive, generation, runs, lost, started>>

(* restore_typed_route_normal: host inputs, then mount.                    *)
RestoreOwner ==
    /\ covered
    /\ loading' = 0
    /\ covered' = FALSE
    /\ Reinitialised
    /\ Invalidated
    /\ UNCHANGED <<covers, alive, started, loads>>

(* complete_shared_route_loader without a retained runtime.                *)
SetInPlace ==
    /\ loading > 0
    /\ ~covered
    /\ loading' = loading - 1
    /\ Reinitialised
    /\ UNCHANGED <<covers, alive, covered, generation, runs, started, loads>>

(* The route is left, or a boundary replaces its graph.                    *)
Dispose ==
    /\ alive
    /\ alive' = FALSE
    /\ loading' = 0
    /\ covered' = FALSE
    /\ Reinitialised
    /\ Invalidated
    /\ UNCHANGED <<covers, started, loads>>

MountOwner ==
    /\ ~alive
    /\ loads < MaxLoads
    /\ loads' = loads + 1
    /\ alive' = TRUE
    /\ generation' = generation + 1
    /\ Reinitialised
    /\ UNCHANGED <<covers, loading, covered, runs, started>>

MutationNext ==
    \/ \E succeeds \in BOOLEAN : StartAndEnd(succeeds)
    \/ StartAndFetch
    \/ StartAndStop
    \/ SettleInvocation
    \/ Load
    \/ RestoreOwner
    \/ SetInPlace
    \/ Dispose
    \/ MountOwner

MutationSpec == MutationInit /\ [][MutationNext]_mutationVars

-----------------------------------------------------------------------------
(* Properties *)

(* Every variable keeps its type; an invocation that is suspended has made *)
(* no more fetches than one action may.                                    *)
MutationTypeOK ==
    /\ covers \in BOOLEAN /\ lost \in BOOLEAN
    /\ alive \in BOOLEAN /\ loading \in Nat /\ covered \in BOOLEAN
    /\ generation \in Nat
    /\ invocation \in Nat /\ pending \in BOOLEAN
    /\ error \in Nat /\ data \in Nat
    /\ started \in Nat /\ loads \in Nat
    /\ runs \subseteq InvocationRun

(* The promise of docs/mutations.md, read through the mutation's slots.    *)
Contract == INSTANCE MutationContract WITH latest <- started

(* Where loading covers the route the published state follows the          *)
(* contract: only the latest started invocation publishes, once, and none  *)
(* after the owner was renewed. (docs/mutations.md:55)                     *)
LatestStartedPublishes ==
    /\ covers => Contract!Init
    /\ [][covers => Contract!Next]_Contract!vars

(* While the latest invocation's request is in flight the mutation of a    *)
(* covered route says it is pending, so a button disabled by it cannot     *)
(* submit a second time. (docs/mutations.md:46)                            *)
RunningIsPending == covers => \A run \in runs : IsLatest(run) => pending

(* A pending mutation has an invocation that will settle it: pending       *)
(* outlives the request it speaks of only when the machine, or the limit   *)
(* of fetches, has stopped that invocation. (docs/mutations.md:64)         *)
PendingIsRunning == pending => lost \/ \E run \in runs : IsLatest(run) /\ ~run.aborted
=============================================================================
