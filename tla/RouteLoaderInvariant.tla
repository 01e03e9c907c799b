------------------------ MODULE RouteLoaderInvariant ------------------------
(***************************************************************************)
(* The inductive invariant of RouteLoader. The safety properties alone are *)
(* not inductive: that generations stay apart rests on how far each live   *)
(* runtime's generation can be from the shared counter, and that data      *)
(* stays with its mount on the generations of the fetches still in flight. *)
(* Every part is about a world, so that the proofs can follow it through   *)
(* the calls that make up one action.                                      *)
(***************************************************************************)
EXTENDS RouteLoader

(* A place without a runtime is completely empty.                          *)
EmptyShape(w) == \A p \in Places : ~Present(w, p) => w.runtimes[p] = Absent

SlotsCounted(w) ==
    /\ \A p \in Places : IsFiniteSet(Controllers(w, p))
    /\ w.slots = Cardinality(Controllers(w, "shown")) + Cardinality(Controllers(w, "retained"))

(* Request ids are never reused, so a new controller is a new element.     *)
RequestsFresh(w) ==
    \A p \in Places : \A c \in Controllers(w, p) : c <= w.runtimes[p].nextFetch

CoverShape(w) ==
    Present(w, "retained") =>
        /\ w.runtimes["retained"].graph = "normal"
        /\ w.runtimes["shown"].graph = "pending"
        /\ w.phase = "loading"

(* The runtime on screen is at most one generation ahead of the counter:   *)
(* mounting adds one to the generation it was given. Under a cover it is   *)
(* exactly one ahead and the retained runtime is behind it.                *)
GenerationsBounded(w) ==
    /\ w.runtimes["shown"].generation <= w.typedGeneration + 1
    /\ Present(w, "retained") =>
          /\ w.runtimes["shown"].generation = w.typedGeneration + 1
          /\ w.runtimes["retained"].generation <= w.typedGeneration

(* A fetch of an earlier mount is older than every live runtime.           *)
FetchesBounded(w) ==
    \A f \in w.fetches :
        /\ f.generation <= w.typedGeneration + 1
        /\ f.mount # w.mounted =>
              \A p \in Places : Present(w, p) => f.generation < w.runtimes[p].generation

DataOwned(w) ==
    /\ w.loaderData # NoRun => w.loaderData.mount = w.mounted
    /\ \A f \in w.fetches : f.kind = "loader" => f.run.mount = f.mount

Good(w) ==
    /\ w \in World
    /\ EmptyShape(w)
    /\ SlotsCounted(w)
    /\ RequestsFresh(w)
    /\ CoverShape(w)
    /\ GenerationsBounded(w)
    /\ FetchesBounded(w)
    /\ DataOwned(w)

(* The inductive invariant: what the world of RouteLoader satisfies        *)
(* between two tasks.                                                      *)
IInv == Good(Now) /\ inputs \in Nat
=============================================================================
