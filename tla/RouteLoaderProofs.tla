------------------------- MODULE RouteLoaderProofs -------------------------
(***************************************************************************)
(* IInv is an invariant of RouteLoader for every fetch limit, every set of *)
(* query strings, every choice of phase graphs and any number of inputs,   *)
(* and with it the safety properties that TLC checks on small instances.   *)
(*                                                                         *)
(* An action is a composition of calls on one world, so the proof follows  *)
(* the calls: one lemma per call says that it takes a Good world to a Good *)
(* world under the conditions its callers establish; an action's lemma     *)
(* chains the lemmas of its calls.                                         *)
(*                                                                         *)
(* The second part adds what fetches, commits and phases need; the last is *)
(* about a mutation of the route (module Mutation), whose mounts rest on   *)
(* EarlierMountsSilent.                                                    *)
(***************************************************************************)
EXTENDS RouteLoaderInvariant, Mutation, FiniteSetTheorems, TLAPS

(* Dropping a runtime (invalidate_fetches, then take) keeps the world good; the one on screen goes first only when nothing is behind it. *)
LEMMA DropGood ==
    ASSUME NEW w, Good(w), NEW p \in Places,
           p = "shown" => ~Present(w, "retained")
    PROVE  /\ Good(Drop(w, p))
           /\ ~Present(Drop(w, p), p)
<1> DEFINE v == Drop(w, p)
           q == IF p = "shown" THEN "retained" ELSE "shown"
<1>1. /\ v.typedGeneration = w.typedGeneration
      /\ v.slots = Released(w.slots, Cardinality(Controllers(w, p)))
      /\ v.runtimes = [w.runtimes EXCEPT ![p] = Absent]
      /\ v.fetches = {Aborted(f, w.runtimes[p]) : f \in w.fetches}
      /\ v.phase = w.phase /\ v.search = w.search /\ v.loaderData = w.loaderData
      /\ v.mounted = w.mounted /\ v.lastRun = w.lastRun /\ v.faulted = w.faulted
  BY DEF Drop, Invalidate, Controllers, Good, World
<1>2. \A f \in w.fetches : Aborted(f, w.runtimes[p]) \in Fetch
  BY DEF Aborted, Good, World, Fetch
<1>3. v.slots \in Nat
  BY <1>1, FS_CardinalityType DEF Released, Good, SlotsCounted, World
<1>4. Absent \in Runtime
  BY DEF Absent, Runtime, Graphs
<1>5. v.runtimes \in [Places -> Runtime]
  BY <1>1, <1>4 DEF Good, World
<1>6. v.fetches \in SUBSET Fetch
  BY <1>1, <1>2 DEF Good, World
<1>7. v \in World
  <2>1. v = [w EXCEPT !.slots = v.slots, !.fetches = v.fetches, !.runtimes = v.runtimes]
    BY DEF Drop, Invalidate, Good, World
  <2> HIDE DEF v
  <2> QED
  BY <2>1, <1>3, <1>5, <1>6 DEF Good, World
<1>8. EmptyShape(v)
  BY <1>1 DEF EmptyShape, Good, Present, World
<1>9. SlotsCounted(v)
  <2>1. Controllers(v, p) = {}
    BY <1>1 DEF Controllers, Absent, Good, World
  <2>2. \A r \in Places : r # p => Controllers(v, r) = Controllers(w, r)
    BY <1>1 DEF Controllers, Good, World
  <2>3. \A r \in Places : IsFiniteSet(Controllers(v, r))
    BY <2>1, <2>2, FS_EmptySet DEF SlotsCounted, Good
  <2>4. /\ Cardinality(Controllers(w, "shown")) \in Nat
        /\ Cardinality(Controllers(w, "retained")) \in Nat
    BY FS_CardinalityType DEF SlotsCounted, Good, Places
  <2>5. v.slots = Cardinality(Controllers(v, "shown")) + Cardinality(Controllers(v, "retained"))
    <3> DEFINE a == Cardinality(Controllers(w, "shown"))
               b == Cardinality(Controllers(w, "retained"))
    <3>1. a \in Nat /\ b \in Nat /\ w.slots = a + b
      BY <2>4 DEF SlotsCounted, Good
    <3>2. v.slots = Released(a + b, IF p = "shown" THEN a ELSE b)
      BY <1>1, <3>1 DEF Places
    <3>3. v.slots = IF p = "shown" THEN b ELSE a
      <4> HIDE DEF a, b, v
      <4> QED
        BY <3>1, <3>2 DEF Released
    <3>4. /\ Cardinality(Controllers(v, "shown")) = IF p = "shown" THEN 0 ELSE a
          /\ Cardinality(Controllers(v, "retained")) = IF p = "shown" THEN b ELSE 0
      BY <2>1, <2>2, FS_EmptySet DEF Places
    <3> HIDE DEF a, b, v
    <3> QED
      BY <3>1, <3>3, <3>4
  <2> QED
    BY <2>3, <2>5 DEF SlotsCounted
<1>10. CoverShape(v)
  BY <1>1 DEF CoverShape, Good, Present, World, Absent, Places
<1>11. GenerationsBounded(v)
  BY <1>1 DEF GenerationsBounded, Good, Present, World, Absent, Places, Runtime
<1>12. FetchesBounded(v)
  <2>1. \A f \in w.fetches : LET g == Aborted(f, w.runtimes[p])
                             IN  g.generation = f.generation /\ g.mount = f.mount
    BY DEF Aborted, Good, World, Fetch
  <2> QED
  BY <1>1, <2>1 DEF FetchesBounded, Good, Present, World, Absent, Places
<1>13. DataOwned(v)
  BY <1>1 DEF DataOwned, Good, World, Aborted, Fetch
<1>14. RequestsFresh(v)
  BY <1>1 DEF RequestsFresh, Good, World, Absent, Controllers
<1> QED
  BY <1>1, <1>7, <1>8, <1>9, <1>10, <1>11, <1>12, <1>13, <1>14 DEF Good, Present, Absent, World

(* What dropping a runtime leaves alone. *)
LEMMA DropFields ==
    ASSUME NEW w, Good(w), NEW p \in Places
    PROVE  /\ Drop(w, p).typedGeneration = w.typedGeneration
           /\ Drop(w, p).runtimes = [w.runtimes EXCEPT ![p] = Absent]
           /\ Drop(w, p).mounted = w.mounted
           /\ Drop(w, p).phase = w.phase
           /\ \A r \in Places : r # p => (Present(Drop(w, p), r) <=> Present(w, r))
BY DEF Drop, Invalidate, Present, Good, World

(* A new runtime is one. *)
LEMMA FreshType ==
    ASSUME NEW w, w.typedGeneration \in Nat, NEW graph \in Graphs
    PROVE  Fresh(w, graph) \in Runtime
<1>1. w.typedGeneration + 1 \in Nat /\ w.typedGeneration + 2 \in Nat
  OBVIOUS
<1> QED
  BY <1>1 DEF Fresh, Runtime

(* Showing a new graph in an empty place keeps the world good. *)
LEMMA ShowGood ==
    ASSUME NEW w, Good(w), NEW graph \in Graphs \ {"none"},
           \A p \in Places : ~Present(w, p)
    PROVE  /\ Good(Show(w, graph))
           /\ ~Present(Show(w, graph), "retained")
           /\ Show(w, graph).runtimes["shown"].graph = graph
<1> DEFINE v == Show(w, graph)
<1>1. Fresh(w, graph) \in Runtime
  BY FreshType DEF Good, World
<1>2. /\ Fresh(w, graph).graph = graph
      /\ Fresh(w, graph).controllers = {}
      /\ Fresh(w, graph).generation = w.typedGeneration + 2
  BY DEF Fresh, Absent
<1>3. /\ v.typedGeneration = w.typedGeneration + 1
      /\ v.runtimes = [w.runtimes EXCEPT !["shown"] = Fresh(w, graph)]
      /\ v.slots = w.slots /\ v.fetches = w.fetches /\ v.phase = w.phase
      /\ v.loaderData = w.loaderData /\ v.mounted = w.mounted
  BY DEF Show, Good, World
<1>4. v \in World
  <2>1. v.runtimes \in [Places -> Runtime]
    BY <1>1, <1>3 DEF Good, World
  <2>2. v = [w EXCEPT !.typedGeneration = v.typedGeneration, !.runtimes = v.runtimes]
    BY DEF Show, Good, World
  <2>3. v.typedGeneration \in Nat
    BY <1>3 DEF Good, World
  <2> HIDE DEF v
  <2> QED
    BY <2>1, <2>2, <2>3 DEF Good, World
<1>5. /\ v.runtimes["shown"] = Fresh(w, graph)
      /\ v.runtimes["retained"] = w.runtimes["retained"]
      /\ ~Present(v, "retained")
  BY <1>3 DEF Good, World, Places, Present
<1>6. w.runtimes = [p \in Places |-> Absent]
  BY DEF Good, World, EmptyShape
<1>7. EmptyShape(v)
  BY <1>2, <1>5, <1>6 DEF EmptyShape, Present, Places
<1>8. SlotsCounted(v)
  <2>1. Controllers(v, "shown") = {} /\ Controllers(v, "retained") = {}
    BY <1>2, <1>5, <1>6 DEF Controllers, Absent, Places
  <2>2. w.slots = 0
    BY <1>6, FS_EmptySet DEF SlotsCounted, Good, Controllers, Absent, Places
  <2> QED
    BY <1>3, <2>1, <2>2, FS_EmptySet DEF SlotsCounted, Places
<1>9. CoverShape(v)
  BY <1>5 DEF CoverShape
<1>10. GenerationsBounded(v)
  BY <1>2, <1>3, <1>5 DEF GenerationsBounded, Good, World
<1>11. FetchesBounded(v)
  <2>1. \A f \in w.fetches : /\ f.generation \in Nat
                             /\ f.generation <= w.typedGeneration + 1
    BY DEF Good, World, Fetch, FetchesBounded
  <2> QED
    BY <1>2, <1>3, <1>5, <2>1 DEF FetchesBounded, Good, World, Places
<1>12. DataOwned(v)
  BY <1>3 DEF DataOwned, Good
<1>13. RequestsFresh(v)
  BY <1>2, <1>5 DEF RequestsFresh, Good, Controllers, Places
<1> QED
  BY <1>2, <1>4, <1>5, <1>7, <1>8, <1>9, <1>10, <1>11, <1>12, <1>13 DEF Good

(* Replacing the graph on screen (preserve_loader = false). *)
LEMMA ReplaceGood ==
    ASSUME NEW w, Good(w), NEW graph \in Graphs \ {"none"}, ~Present(w, "retained")
    PROVE  /\ Good(Replace(w, graph))
           /\ ~Present(Replace(w, graph), "retained")
           /\ Replace(w, graph).runtimes["shown"].graph = graph
<1>1. /\ Good(Drop(w, "shown"))
      /\ \A p \in Places : ~Present(Drop(w, "shown"), p)
  <2>1. "shown" \in Places /\ "retained" \in Places
    BY DEF Places
  <2>2. Good(Drop(w, "shown")) /\ ~Present(Drop(w, "shown"), "shown")
    BY <2>1, DropGood
  <2>3. ~Present(Drop(w, "shown"), "retained")
    BY <2>1, DropFields
  <2> QED
    BY <2>2, <2>3 DEF Places
<1> QED
  BY <1>1, ShowGood DEF Replace

(* Covering the normal graph by the pending one (preserve_loader = true), when the route was just set to loading. *)
LEMMA CoverGood ==
    ASSUME NEW w, Good(w), w.runtimes["shown"].graph = "normal", w.phase = "loading"
    PROVE  /\ Good(Cover(w, "pending"))
           /\ Present(Cover(w, "pending"), "retained")
           /\ Cover(w, "pending").mounted = w.mounted
<1> DEFINE v == Cover(w, "pending")
           r == w.runtimes["shown"]
<1>1. ~Present(w, "retained") /\ w.runtimes["retained"] = Absent
  BY DEF Good, CoverShape, EmptyShape, Places
<1>2. Fresh(w, "pending") \in Runtime
  BY FreshType DEF Good, World, Graphs
<1>3. /\ v.typedGeneration = w.typedGeneration + 1
      /\ v.runtimes["shown"] = Fresh(w, "pending")
      /\ v.runtimes["retained"] = r
      /\ v.slots = w.slots /\ v.fetches = w.fetches /\ v.phase = w.phase
      /\ v.loaderData = w.loaderData /\ v.mounted = w.mounted
  <2>1. Fresh([w EXCEPT !.runtimes["retained"] = r], "pending") = Fresh(w, "pending")
    BY DEF Fresh, Good, World
  <2> QED
    BY <2>1 DEF Cover, Show, Good, World, Places
<1>4. v \in World
  <2>1. v.runtimes \in [Places -> Runtime]
    <3>1. v.runtimes = [[w.runtimes EXCEPT !["retained"] = r] EXCEPT !["shown"] = Fresh(w, "pending")]
      BY DEF Cover, Show, Fresh, Good, World
    <3> QED
      BY <1>2, <3>1 DEF Good, World, Places
  <2>2. v = [w EXCEPT !.typedGeneration = v.typedGeneration, !.runtimes = v.runtimes]
    BY DEF Cover, Show, Good, World
  <2>3. v.typedGeneration \in Nat
    BY <1>3 DEF Good, World
  <2> HIDE DEF v
  <2> QED
    BY <2>1, <2>2, <2>3 DEF Good, World
<1>5. /\ v.runtimes["shown"].graph = "pending"
      /\ v.runtimes["shown"].controllers = {}
      /\ v.runtimes["shown"].generation = w.typedGeneration + 2
      /\ r.graph = "normal" /\ r.generation \in Nat
      /\ r.generation <= w.typedGeneration + 1
  BY <1>3 DEF Fresh, Good, World, Runtime, Places, GenerationsBounded
<1>6. EmptyShape(v) /\ CoverShape(v)
  BY <1>3, <1>5 DEF EmptyShape, CoverShape, Present, Places
<1>7. SlotsCounted(v)
  <2>1. Controllers(v, "shown") = {} /\ Controllers(v, "retained") = Controllers(w, "shown")
    BY <1>3, <1>5 DEF Controllers
  <2>2. Controllers(w, "retained") = {}
    BY <1>1 DEF Controllers, Absent
  <2>3. IsFiniteSet(Controllers(w, "shown")) /\ Cardinality(Controllers(w, "shown")) \in Nat
    BY FS_CardinalityType DEF SlotsCounted, Good, Places
  <2>4. w.slots = Cardinality(Controllers(w, "shown"))
    BY <2>2, <2>3, FS_EmptySet DEF SlotsCounted, Good
  <2> QED
    BY <1>3, <2>1, <2>3, <2>4, FS_EmptySet DEF SlotsCounted, Places
<1>8. GenerationsBounded(v)
  BY <1>3, <1>5 DEF GenerationsBounded, Good, World
<1>9. FetchesBounded(v)
  <2>1. \A f \in w.fetches : /\ f.generation \in Nat
                             /\ f.generation <= w.typedGeneration + 1
                             /\ f.mount # w.mounted => f.generation < r.generation
    BY DEF Good, World, Fetch, FetchesBounded, Present, Places
  <2> QED
    BY <1>3, <1>5, <2>1 DEF FetchesBounded, Good, World, Places
<1>10. DataOwned(v)
  BY <1>3 DEF DataOwned, Good
<1>11. RequestsFresh(v)
  BY <1>3, <1>5 DEF RequestsFresh, Good, Controllers, Places
<1> QED
  BY <1>3, <1>4, <1>5, <1>6, <1>7, <1>8, <1>9, <1>10, <1>11 DEF Good, Present

(* Aborting changes no field of a fetch but aborted. *)
LEMMA AbortedType ==
    ASSUME NEW f \in Fetch, NEW r \in Runtime
    PROVE  /\ Aborted(f, r) \in Fetch
           /\ Aborted(f, r).generation = f.generation
           /\ Aborted(f, r).mount = f.mount
           /\ Aborted(f, r).kind = f.kind
           /\ Aborted(f, r).run = f.run
BY DEF Aborted, Fetch

(* The saturating subtraction stays in Nat. *)
LEMMA ReleasedType ==
    ASSUME NEW count \in Nat, NEW n \in Nat
    PROVE  Released(count, n) \in Nat
BY DEF Released

(* An invalidated runtime is a runtime one generation on. *)
LEMMA QuietedType ==
    ASSUME NEW r \in Runtime
    PROVE  /\ Quieted(r) \in Runtime
           /\ Quieted(r).graph = r.graph
           /\ Quieted(r).controllers = {}
           /\ Quieted(r).generation = r.generation + 1
<1>1. r.generation + 1 \in Nat
  BY DEF Runtime
<1>2. [r EXCEPT !.generation = r.generation + 1] \in Runtime
  BY <1>1 DEF Runtime
<1>3. {} \in SUBSET Nat /\ FALSE \in BOOLEAN
  OBVIOUS
<1> QED
  BY <1>1, <1>2, <1>3 DEF Quieted, Runtime

(* The fields of a world in which one runtime was invalidated. *)
LEMMA InvalidateType ==
    ASSUME NEW w \in World, NEW p \in Places, IsFiniteSet(Controllers(w, p))
    PROVE  Invalidate(w, p) \in World
<1>1. Released(w.slots, Cardinality(w.runtimes[p].controllers)) \in Nat
  BY FS_CardinalityType, ReleasedType DEF World, Controllers
<1>2. {Aborted(f, w.runtimes[p]) : f \in w.fetches} \in SUBSET Fetch
  BY AbortedType DEF World
<1>3. Quieted(w.runtimes[p]) \in Runtime
  BY QuietedType DEF World
<1> QED
  BY <1>1, <1>2, <1>3 DEF Invalidate, World

(* Taking the pending graph away and putting the retained runtime back (restore_typed_route_normal). *)
LEMMA RestoreGood ==
    ASSUME NEW w, Good(w), Present(w, "retained")
    PROVE  /\ Good(Restore(w))
           /\ ~Present(Restore(w), "retained")
           /\ Restore(w).mounted = w.mounted
<1> DEFINE v == Restore(w)
           r == w.runtimes["retained"]
           o == w.runtimes["shown"]
           a == Cardinality(o.controllers)
           b == Cardinality(r.controllers)
<1>1. /\ v.typedGeneration = w.typedGeneration
      /\ v.runtimes["shown"] = Quieted(r)
      /\ v.runtimes["retained"] = Absent
      /\ v.slots = Released(Released(w.slots, b), a)
      /\ v.fetches = {Aborted(f, o) : f \in {Aborted(g, r) : g \in w.fetches}}
      /\ v.phase = "normal" /\ v.loaderData = w.loaderData /\ v.mounted = w.mounted
  BY DEF Restore, Uncovered, Drop, Invalidate, Good, World, Places
<1>2. r \in Runtime /\ o \in Runtime
  BY DEF Good, World, Places
<1>3. /\ Quieted(r) \in Runtime
      /\ Quieted(r).graph = "normal"
      /\ Quieted(r).controllers = {}
      /\ Quieted(r).generation = r.generation + 1
  <2>1. r.graph = "normal"
    BY DEF Good, CoverShape
  <2> QED
    BY <1>2, <2>1, QuietedType
<1>4. \A f \in v.fetches : \E g \in w.fetches :
         /\ f \in Fetch
         /\ f.generation = g.generation /\ f.mount = g.mount
         /\ f.kind = g.kind /\ f.run = g.run
  <2>1. \A g \in w.fetches : g \in Fetch
    BY DEF Good, World
  <2> QED
    BY <1>1, <1>2, <2>1, AbortedType
<1>5. v.slots = 0
  <2>1. a \in Nat /\ b \in Nat
    BY FS_CardinalityType DEF Good, SlotsCounted, Controllers, Places
  <2>2. w.slots = a + b
    BY DEF Good, SlotsCounted, Controllers
  <2> HIDE DEF a, b, v
  <2> QED
    BY <1>1, <2>1, <2>2 DEF Released
<1>6. v \in World
  <2> DEFINE i == Invalidate(w, "retained")
             j == Invalidate(i, "shown")
  <2>1. i \in World /\ Controllers(i, "shown") = Controllers(w, "shown")
    BY InvalidateType DEF Good, SlotsCounted, Places, Invalidate, World, Controllers
  <2>2. j \in World
    BY <2>1, InvalidateType DEF Good, SlotsCounted, Places
  <2>3. Absent \in Runtime
    BY DEF Absent, Runtime, Graphs
  <2>4. Drop(i, "shown") \in World
    BY <2>2, <2>3 DEF Drop, World
  <2>5. Uncovered(Drop(i, "shown").runtimes) \in [Places -> Runtime]
    BY <2>3, <2>4 DEF Uncovered, World, Places
  <2>6. v = [Drop(i, "shown") EXCEPT !.runtimes = Uncovered(@), !.phase = "normal"]
    BY DEF Restore
  <2> HIDE DEF v, i, j
  <2> QED
    BY <2>4, <2>5, <2>6 DEF World, Phases
<1>7. EmptyShape(v) /\ CoverShape(v) /\ ~Present(v, "retained")
  BY <1>1, <1>3 DEF EmptyShape, CoverShape, Present, Places, Absent
<1>8. SlotsCounted(v)
  BY <1>1, <1>3, <1>5, FS_EmptySet DEF SlotsCounted, Controllers, Places, Absent
<1>9. GenerationsBounded(v)
  BY <1>1, <1>2, <1>3, <1>7 DEF GenerationsBounded, Good, World, Runtime
<1>10. FetchesBounded(v)
  <2>1. \A f \in w.fetches : /\ f.generation \in Nat
                             /\ f.generation <= w.typedGeneration + 1
                             /\ f.mount # w.mounted => f.generation < r.generation
    BY DEF Good, World, Fetch, FetchesBounded, Places
  <2>2. r.generation \in Nat
    BY <1>2 DEF Runtime
  <2>3. SUFFICES ASSUME NEW f \in v.fetches
                 PROVE  /\ f.generation <= v.typedGeneration + 1
                        /\ f.mount # v.mounted =>
                              \A p \in Places : Present(v, p) =>
                                 f.generation < v.runtimes[p].generation
    BY DEF FetchesBounded
  <2>4. PICK g \in w.fetches : f.generation = g.generation /\ f.mount = g.mount
    BY <1>4
  <2>5. f.mount # v.mounted => f.generation < r.generation + 1
    BY <1>1, <2>1, <2>2, <2>4
  <2> QED
    BY <1>1, <1>3, <1>7, <2>1, <2>4, <2>5 DEF Places
<1>11. DataOwned(v)
  BY <1>1, <1>4 DEF DataOwned, Good
<1>12. RequestsFresh(v)
  BY <1>1, <1>3 DEF RequestsFresh, Controllers, Absent, Places
<1> QED
  BY <1>1, <1>6, <1>7, <1>8, <1>9, <1>10, <1>11, <1>12 DEF Good

(* The same when there may be nothing behind the screen. *)
LEMMA UncoverGood ==
    ASSUME NEW w, Good(w)
    PROVE  /\ Good(Uncover(w))
           /\ ~Present(Uncover(w), "retained")
           /\ Uncover(w).mounted = w.mounted
BY RestoreGood DEF Uncover

(* Nothing in Good looks at the search, the run counter or the fault flag, *)
(* fetches may only leave, and a phase matters only under a cover.         *)
LEMMA PatchGood ==
    ASSUME NEW w, Good(w), NEW v \in World,
           v.typedGeneration = w.typedGeneration, v.slots = w.slots,
           v.runtimes = w.runtimes, v.mounted = w.mounted,
           v.fetches \subseteq w.fetches,
           Present(w, "retained") => v.phase = "loading",
           v.loaderData # NoRun => v.loaderData.mount = v.mounted
    PROVE  Good(v)
<1>1. EmptyShape(v) /\ SlotsCounted(v) /\ RequestsFresh(v) /\ CoverShape(v)
  BY DEF Good, EmptyShape, SlotsCounted, RequestsFresh, CoverShape, Present, Controllers
<1>2. GenerationsBounded(v) /\ FetchesBounded(v) /\ DataOwned(v)
  BY DEF Good, GenerationsBounded, FetchesBounded, DataOwned, Present
<1> QED
  BY <1>1, <1>2 DEF Good

(* Showing an error or not-found boundary keeps the world good. *)
LEMMA ShowBoundaryGood ==
    ASSUME NEW w, Good(w), NEW boundary \in {"error", "notFound"}, NEW declared \in BOOLEAN
    PROVE  Good(ShowBoundary(w, boundary, declared))
<1> DEFINE d == Drop(w, "retained")
           quiet == [d EXCEPT !.phase = boundary]
<1>1. Good(d) /\ ~Present(d, "retained")
  BY DropGood DEF Places
<1> HIDE DEF d
<1>2. Good(quiet)
  <2>1. /\ quiet \in World
        /\ quiet.typedGeneration = d.typedGeneration /\ quiet.slots = d.slots
        /\ quiet.runtimes = d.runtimes /\ quiet.mounted = d.mounted
        /\ quiet.fetches = d.fetches /\ quiet.loaderData = d.loaderData
    BY <1>1 DEF Good, World, Phases
  <2> HIDE DEF quiet
  <2> QED
    BY <1>1, <2>1, PatchGood DEF Good, DataOwned
<1>3. ~Present(quiet, "retained")
  BY <1>1 DEF Present, Good, World
<1>4. boundary \in Graphs \ {"none"}
  BY DEF Graphs
<1>5. ShowBoundary(w, boundary, declared) = IF declared THEN Replace(quiet, boundary) ELSE quiet
  BY DEF ShowBoundary, d
<1> QED
  BY <1>2, <1>3, <1>4, <1>5, ReplaceGood

(* Disposing the instance (dispose_typed_instance) leaves nothing live. *)
LEMMA UnmountGood ==
    ASSUME NEW w, Good(w)
    PROVE  /\ Good(Unmount(w))
           /\ \A p \in Places : ~Present(Unmount(w), p)
<1> DEFINE d == Drop(Drop(w, "retained"), "shown")
           v == [d EXCEPT !.phase = "normal", !.loaderData = NoRun]
<1>1. Good(Drop(w, "retained")) /\ ~Present(Drop(w, "retained"), "retained")
  BY DropGood DEF Places
<1>2. Good(d) /\ \A p \in Places : ~Present(d, p)
  BY <1>1, DropGood, DropFields DEF Places
<1> HIDE DEF d
<1>3. /\ v.typedGeneration = d.typedGeneration /\ v.slots = d.slots
      /\ v.runtimes = d.runtimes /\ v.mounted = d.mounted
      /\ v.fetches = d.fetches /\ v.loaderData = NoRun
  BY <1>2 DEF Good, World
<1>4. v \in World
  <2>1. NoRun \in Run /\ "normal" \in Phases
    BY DEF NoRun, Run, Queries, Phases
  <2>2. d \in World
    BY <1>2 DEF Good
  <2> QED
    BY <2>1, <2>2 DEF World
<1>5. Unmount(w) = v
  BY DEF Unmount, d
<1> HIDE DEF v
<1> QED
  BY <1>2, <1>3, <1>4, <1>5, PatchGood DEF Present, Places

(* Mounting on an empty outlet: the earlier fetches are all older. *)
LEMMA MountGood ==
    ASSUME NEW w, Good(w), NEW s \in Queries, \A p \in Places : ~Present(w, p)
    PROVE  Good(Mount(w, s))
<1> DEFINE d == Show(w, "normal")
           v == Mount(w, s)
<1>1. Good(d) /\ ~Present(d, "retained") /\ d.runtimes["shown"].graph = "normal"
  BY ShowGood DEF Graphs
<1>2. /\ d.fetches = w.fetches
      /\ d.typedGeneration = w.typedGeneration + 1
      /\ d.runtimes["shown"].generation = w.typedGeneration + 2
  BY DEF Show, Fresh, Good, World, Places
<1>3. v = [d EXCEPT !.mounted = w.typedGeneration + 1, !.phase = "normal",
                    !.search = s, !.loaderData = NoRun]
  BY DEF Mount
<1>4. w.typedGeneration + 1 \in Nat /\ "normal" \in Phases /\ NoRun \in Run
  <2>1. w.typedGeneration + 1 \in Nat
    BY DEF Good, World
  <2>2. "normal" \in Phases /\ NoRun \in Run
    BY DEF Phases, NoRun, Run, Queries
  <2> QED
    BY <2>1, <2>2
<1> HIDE DEF d, v
<1>5. /\ v \in World
      /\ v.typedGeneration = d.typedGeneration /\ v.slots = d.slots
      /\ v.runtimes = d.runtimes /\ v.fetches = d.fetches /\ v.loaderData = NoRun
  BY <1>1, <1>3, <1>4 DEF Good, World
<1>6. EmptyShape(v) /\ SlotsCounted(v) /\ RequestsFresh(v) /\ CoverShape(v)
  BY <1>1, <1>5
  DEF Good, EmptyShape, SlotsCounted, RequestsFresh, CoverShape, Present, Controllers
<1>7. GenerationsBounded(v)
  BY <1>1, <1>5 DEF Good, GenerationsBounded, Present
<1>8. FetchesBounded(v)
  <2>1. \A f \in w.fetches : /\ f.generation \in Nat
                             /\ f.generation <= w.typedGeneration + 1
    BY DEF Good, World, Fetch, FetchesBounded
  <2>2. w.typedGeneration \in Nat
    BY DEF Good, World
  <2> QED
    BY <1>1, <1>2, <1>5, <2>1, <2>2 DEF FetchesBounded, Places, Present
<1>9. DataOwned(v)
  BY <1>1, <1>5 DEF Good, DataOwned
<1> QED
  BY <1>5, <1>6, <1>7, <1>8, <1>9 DEF Good, v

(* Registering a controller keeps a runtime a runtime. *)
LEMMA RegisteredType ==
    ASSUME NEW r \in Runtime
    PROVE  /\ Registered(r) \in Runtime
           /\ Registered(r).nextFetch = r.nextFetch + 1
           /\ Registered(r).controllers = r.controllers \union {r.nextFetch + 1}
           /\ Registered(r).graph = r.graph
           /\ Registered(r).generation = r.generation
<1>1. r.nextFetch + 1 \in Nat /\ r.controllers \union {r.nextFetch + 1} \in SUBSET Nat
  BY DEF Runtime
<1> QED
  BY <1>1 DEF Registered, Runtime

(* Starting a fetch takes one slot for one new controller. *)
LEMMA StartFetchGood ==
    ASSUME NEW w, Good(w), NEW p \in Places, Present(w, p),
           NEW kind \in {"loader", "action"}, NEW run \in Run, NEW nth \in Nat,
           kind = "loader" => run.mount = w.mounted
    PROVE  Good(StartFetch(w, p, kind, run, nth))
<1> DEFINE v == StartFetch(w, p, kind, run, nth)
           r == w.runtimes[p]
           n == NewFetch(w, p, kind, run, nth)
<1>1. r \in Runtime
  BY DEF Good, World
<1>2. /\ n \in Fetch /\ n.kind = kind /\ n.run = run
      /\ n.generation = r.generation /\ n.mount = w.mounted
  <2>1. r.nextFetch + 1 \in Nat /\ w.mounted \in Nat
    BY <1>1 DEF Runtime, Good, World
  <2> QED
    BY <1>1, <2>1 DEF NewFetch, Fetch, Runtime
<1>3. /\ v.typedGeneration = w.typedGeneration /\ v.slots = w.slots + 1
      /\ v.fetches = w.fetches \union {n}
      /\ v.runtimes = [w.runtimes EXCEPT ![p] = Registered(r)]
      /\ v.phase = w.phase /\ v.loaderData = w.loaderData /\ v.mounted = w.mounted
  BY DEF StartFetch, Good, World
<1>4. v = [w EXCEPT !.slots = v.slots, !.fetches = v.fetches, !.runtimes = v.runtimes]
  BY DEF StartFetch, Good, World
<1> HIDE DEF v, n
<1>5. v \in World
  <2>1. v.runtimes \in [Places -> Runtime]
    BY <1>1, <1>3, RegisteredType DEF Good, World
  <2>2. v.slots \in Nat
    BY <1>3 DEF Good, World
  <2>3. v.fetches \in SUBSET Fetch
    BY <1>2, <1>3 DEF Good, World
  <2> QED
    BY <1>4, <2>1, <2>2, <2>3 DEF Good, World
<1>6. /\ v.runtimes[p] = Registered(r)
      /\ \A q \in Places : q # p => v.runtimes[q] = w.runtimes[q]
  BY <1>3 DEF Good, World
<1>7. \A q \in Places : /\ v.runtimes[q].graph = w.runtimes[q].graph
                        /\ v.runtimes[q].generation = w.runtimes[q].generation
                        /\ Present(v, q) <=> Present(w, q)
  BY <1>1, <1>6, RegisteredType DEF Present
<1>8. EmptyShape(v)
  BY <1>6, <1>7 DEF EmptyShape, Good
<1>9. SlotsCounted(v)
  <2>1. r.nextFetch + 1 \notin r.controllers
    BY <1>1 DEF Runtime, RequestsFresh, Good, Controllers
  <2>2. IsFiniteSet(r.controllers) /\ Cardinality(r.controllers) \in Nat
    BY FS_CardinalityType DEF Good, SlotsCounted, Controllers
  <2>3. /\ IsFiniteSet(Controllers(v, p))
        /\ Cardinality(Controllers(v, p)) = Cardinality(Controllers(w, p)) + 1
    <3>1. /\ IsFiniteSet(r.controllers \union {r.nextFetch + 1})
          /\ Cardinality(r.controllers \union {r.nextFetch + 1}) = Cardinality(r.controllers) + 1
      BY <2>1, <2>2, FS_AddElement
    <3>2. Controllers(v, p) = r.controllers \union {r.nextFetch + 1}
      BY <1>1, <1>6, RegisteredType DEF Controllers
    <3> QED
      BY <3>1, <3>2 DEF Controllers
  <2>4. \A q \in Places : q # p => Controllers(v, q) = Controllers(w, q)
    BY <1>6 DEF Controllers
  <2>5. \A q \in Places : IsFiniteSet(Controllers(v, q))
    BY <2>3, <2>4 DEF Good, SlotsCounted
  <2> DEFINE a == Cardinality(Controllers(w, "shown"))
             b == Cardinality(Controllers(w, "retained"))
  <2>6. a \in Nat /\ b \in Nat /\ w.slots = a + b
    BY FS_CardinalityType DEF Good, SlotsCounted, Places
  <2>7. Cardinality(Controllers(v, "shown")) = IF p = "shown" THEN a + 1 ELSE a
    BY <2>3, <2>4 DEF Places
  <2>8. Cardinality(Controllers(v, "retained")) = IF p = "shown" THEN b ELSE b + 1
    BY <2>3, <2>4 DEF Places
  <2> HIDE DEF a, b
  <2>9. v.slots = Cardinality(Controllers(v, "shown")) + Cardinality(Controllers(v, "retained"))
    BY <1>3, <2>6, <2>7, <2>8
  <2> QED
    BY <2>5, <2>9 DEF SlotsCounted
<1>10. RequestsFresh(v)
  <2>1. \A c \in Controllers(v, p) : c <= v.runtimes[p].nextFetch
    <3>1. \A c \in r.controllers : c \in Nat /\ c <= r.nextFetch
      BY <1>1 DEF Runtime, RequestsFresh, Good, Controllers
    <3>2. r.nextFetch \in Nat
      BY <1>1 DEF Runtime
    <3> QED
      BY <1>1, <1>6, <3>1, <3>2, RegisteredType DEF Controllers
  <2> QED
    BY <1>6, <2>1 DEF RequestsFresh, Good, Controllers
<1>11. CoverShape(v) /\ GenerationsBounded(v)
  BY <1>3, <1>7 DEF CoverShape, GenerationsBounded, Good, Places
<1>12. FetchesBounded(v)
  <2>1. n.generation <= w.typedGeneration + 1
    BY <1>1, <1>2 DEF Good, GenerationsBounded, Places, World, Runtime
  <2> QED
    BY <1>2, <1>3, <1>7, <2>1 DEF FetchesBounded, Good
<1>13. DataOwned(v)
  BY <1>2, <1>3 DEF DataOwned, Good
<1> QED
  BY <1>5, <1>8, <1>9, <1>10, <1>11, <1>12, <1>13 DEF Good, v

(* The same under the in-flight limit. *)
LEMMA TryFetchGood ==
    ASSUME NEW w, Good(w), NEW p \in Places, Present(w, p),
           NEW kind \in {"loader", "action"}, NEW run \in Run, NEW nth \in Nat,
           kind = "loader" => run.mount = w.mounted
    PROVE  Good(TryFetch(w, p, kind, run, nth))
BY StartFetchGood DEF TryFetch

(* A settled request gives its slot back when its controller is there. *)
LEMMA ReleaseGood ==
    ASSUME NEW w, Good(w), NEW p \in Places, NEW request
    PROVE  LET v == Release(w, p, request)
           IN  /\ Good(v)
               /\ v.mounted = w.mounted
               /\ \A q \in Places : Present(v, q) <=> Present(w, q)
<1> DEFINE v == Release(w, p, request)
           r == w.runtimes[p]
           cs == r.controllers \ {request}
<1>1. CASE request \notin r.controllers
  BY <1>1 DEF Release, v
<1>2. CASE request \in r.controllers
  <2>1. r \in Runtime /\ cs \in SUBSET Nat
    BY DEF Good, World, Runtime
  <2>2. /\ v.typedGeneration = w.typedGeneration /\ v.slots = Released(w.slots, 1)
        /\ v.fetches = w.fetches
        /\ v.runtimes = [w.runtimes EXCEPT ![p] = [r EXCEPT !.controllers = cs]]
        /\ v.phase = w.phase /\ v.loaderData = w.loaderData /\ v.mounted = w.mounted
        /\ v = [w EXCEPT !.slots = v.slots, !.runtimes = v.runtimes]
    BY <1>2 DEF Release, Good, World
  <2> HIDE DEF v
  <2>3. v.slots \in Nat /\ v.runtimes \in [Places -> Runtime]
    BY <2>1, <2>2, ReleasedType DEF Good, World, Runtime
  <2>4. v \in World
    BY <2>2, <2>3 DEF Good, World
  <2>5. /\ v.runtimes[p].controllers = cs
        /\ v.runtimes[p].nextFetch = r.nextFetch
        /\ \A q \in Places : q # p => v.runtimes[q] = w.runtimes[q]
        /\ \A q \in Places : /\ v.runtimes[q].graph = w.runtimes[q].graph
                             /\ v.runtimes[q].generation = w.runtimes[q].generation
                             /\ Present(v, q) <=> Present(w, q)
    BY <2>1, <2>2 DEF Good, World, Runtime, Present
  <2>6. EmptyShape(v)
    <3>1. Present(w, p)
      BY <1>2 DEF Good, EmptyShape, Absent
    <3> QED
      BY <2>5, <3>1 DEF EmptyShape, Good
  <2>7. SlotsCounted(v)
    <3>1. IsFiniteSet(r.controllers) /\ Cardinality(r.controllers) \in Nat
      BY FS_CardinalityType DEF Good, SlotsCounted, Controllers
    <3>2. /\ IsFiniteSet(cs) /\ Cardinality(cs) = Cardinality(r.controllers) - 1
          /\ Cardinality(cs) \in Nat
      BY <1>2, <3>1, FS_RemoveElement, FS_CardinalityType
    <3>3. \A q \in Places : q # p => Controllers(v, q) = Controllers(w, q)
      BY <2>5 DEF Controllers
    <3>4. \A q \in Places : IsFiniteSet(Controllers(v, q))
      BY <2>5, <3>2, <3>3 DEF Good, SlotsCounted, Controllers
    <3> DEFINE a == Cardinality(Controllers(w, "shown"))
               b == Cardinality(Controllers(w, "retained"))
    <3>5. a \in Nat /\ b \in Nat /\ w.slots = a + b
      BY FS_CardinalityType DEF Good, SlotsCounted, Places
    <3>6. /\ Cardinality(Controllers(v, "shown")) = IF p = "shown" THEN a - 1 ELSE a
          /\ Cardinality(Controllers(v, "retained")) = IF p = "shown" THEN b ELSE b - 1
      BY <2>5, <3>2, <3>3 DEF Places, Controllers
    <3>7. IF p = "shown" THEN a > 0 ELSE b > 0
      BY <3>1, <3>2 DEF Places, Controllers
    <3> HIDE DEF a, b
    <3>8. v.slots = Cardinality(Controllers(v, "shown")) + Cardinality(Controllers(v, "retained"))
      BY <2>2, <3>5, <3>6, <3>7 DEF Released
    <3> QED
      BY <3>4, <3>8 DEF SlotsCounted
  <2>8. RequestsFresh(v)
    BY <2>5 DEF RequestsFresh, Good, Controllers
  <2>9. CoverShape(v) /\ GenerationsBounded(v)
    BY <2>2, <2>5 DEF CoverShape, GenerationsBounded, Good, Places
  <2>10. FetchesBounded(v) /\ DataOwned(v)
    BY <2>2, <2>5 DEF FetchesBounded, DataOwned, Good
  <2> QED
    BY <2>2, <2>4, <2>5, <2>6, <2>7, <2>8, <2>9, <2>10 DEF Good, v
<1> QED
  BY <1>1, <1>2

(* Every outcome of a loader run keeps the world good. *)
LEMMA CompleteLoaderGood ==
    ASSUME NEW w, Good(w), NEW run \in Run, run.mount = w.mounted,
           NEW outcome \in Outcomes
    PROVE  Good(CompleteLoader(w, run, outcome))
<1>1. CASE outcome = "success"
  <2> DEFINE v == [w EXCEPT !.loaderData = run]
  <2>1. /\ v \in World /\ v.loaderData = run
        /\ v.typedGeneration = w.typedGeneration /\ v.slots = w.slots
        /\ v.runtimes = w.runtimes /\ v.mounted = w.mounted
        /\ v.fetches = w.fetches /\ v.phase = w.phase
    BY DEF Good, World
  <2> HIDE DEF v
  <2>2. Good(v)
    BY <2>1, PatchGood DEF Good, CoverShape
  <2> QED
    BY <1>1, <2>2, UncoverGood DEF CompleteLoader, v
<1>2. CASE outcome = "failure"
  BY <1>2, ShowBoundaryGood, GraphsAssumption DEF CompleteLoader, ShowError
<1>3. CASE outcome = "redirectRefused"
  BY <1>3, UncoverGood DEF CompleteLoader
<1>4. CASE outcome = "redirect"
  BY <1>4, UncoverGood, UnmountGood DEF CompleteLoader
<1>5. CASE outcome = "notFound"
  <2>1. Good(ShowNotFound(Uncover(w))) /\ Good(Unmount(Uncover(w)))
    BY UncoverGood, UnmountGood, ShowBoundaryGood, GraphsAssumption DEF ShowNotFound
  <2> QED
    BY <1>5, <2>1 DEF CompleteLoader
<1> QED
  BY <1>1, <1>2, <1>3, <1>4, <1>5 DEF Outcomes

(* Starting a loader run from a normal graph on screen. *)
LEMMA BeginGood ==
    ASSUME NEW w, Good(w), NEW s \in Queries, CanRun(w)
    PROVE  /\ Good(Begin(w, s))
           /\ Begin(w, s).mounted = w.mounted
           /\ Present(Begin(w, s), "retained") \/ Present(Begin(w, s), "shown")
<1> DEFINE v == [w EXCEPT !.lastRun = @ + 1, !.search = s, !.phase = "loading"]
<1>1. /\ v.typedGeneration = w.typedGeneration /\ v.slots = w.slots
      /\ v.runtimes = w.runtimes /\ v.mounted = w.mounted
      /\ v.fetches = w.fetches /\ v.loaderData = w.loaderData
      /\ v.phase = "loading"
  BY DEF Good, World
<1>2. v \in World
  <2>1. w.lastRun + 1 \in Nat /\ "loading" \in Phases
    BY DEF Good, World, Phases
  <2> QED
    BY <2>1 DEF Good, World
<1>3. Begin(w, s) = IF HasPending /\ PendingMode = "replace" THEN Cover(v, "pending") ELSE v
  BY DEF Begin
<1> HIDE DEF v
<1>4. Good(v)
  BY <1>1, <1>2, PatchGood DEF Good, DataOwned
<1>5. v.runtimes["shown"].graph = "normal"
  BY <1>1 DEF CanRun
<1> QED
  BY <1>1, <1>3, <1>4, <1>5, CoverGood DEF Present

(* run_typed_loader, whatever its first step is. *)
LEMMA RunLoaderGood ==
    ASSUME NEW w, Good(w), NEW s \in Queries, NEW start \in Starts
    PROVE  Good(RunLoader(w, s, start))
<1> DEFINE run == [n |-> w.lastRun + 1, search |-> s, mount |-> w.mounted]
           begun == Begin(w, s)
           p == IF Present(begun, "retained") THEN "retained" ELSE "shown"
<1>1. CASE ~CanRun(w)
  BY <1>1 DEF RunLoader
<1>2. CASE CanRun(w)
  <2>1. run \in Run /\ run.mount = w.mounted
    BY DEF Run, Good, World
  <2>2. Good(begun) /\ begun.mounted = w.mounted /\ p \in Places /\ Present(begun, p)
    BY <1>2, BeginGood DEF Places
  <2>3. RunLoader(w, s, start) =
           IF start # "suspends" THEN CompleteLoader(begun, run, start)
           ELSE IF CanAcquire(begun) THEN StartFetch(begun, p, "loader", run, 1)
           ELSE ShowError(begun)
    BY <1>2 DEF RunLoader
  <2> HIDE DEF run, begun, p
  <2>4. start # "suspends" => Good(CompleteLoader(begun, run, start))
    BY <2>1, <2>2, CompleteLoaderGood DEF Starts
  <2>5. Good(StartFetch(begun, p, "loader", run, 1))
    BY <2>1, <2>2, StartFetchGood
  <2>6. Good(ShowError(begun))
    BY <2>2, ShowBoundaryGood, GraphsAssumption DEF ShowError
  <2> QED
    BY <2>3, <2>4, <2>5, <2>6
<1> QED
  BY <1>1, <1>2

(* The queue and the reload flag of a live runtime do not matter to Good.  *)
LEMMA FlagsGood ==
    ASSUME NEW w, Good(w), NEW p \in Places, Present(w, p),
           NEW queued \in BOOLEAN, NEW reload \in BOOLEAN
    PROVE  Good([w EXCEPT !.runtimes[p] =
                    [w.runtimes[p] EXCEPT !.queued = queued, !.reload = reload]])
<1> DEFINE r == [w.runtimes[p] EXCEPT !.queued = queued, !.reload = reload]
           v == [w EXCEPT !.runtimes[p] = r]
<1>1. /\ r \in Runtime /\ r.graph = w.runtimes[p].graph
      /\ r.generation = w.runtimes[p].generation
      /\ r.controllers = w.runtimes[p].controllers
      /\ r.nextFetch = w.runtimes[p].nextFetch
  BY DEF Good, World, Runtime
<1> HIDE DEF r
<1>2. /\ v \in World
      /\ v.typedGeneration = w.typedGeneration /\ v.slots = w.slots
      /\ v.fetches = w.fetches /\ v.phase = w.phase
      /\ v.loaderData = w.loaderData /\ v.mounted = w.mounted
      /\ v.runtimes[p] = r
      /\ \A q \in Places : q # p => v.runtimes[q] = w.runtimes[q]
  BY <1>1 DEF Good, World
<1>3. \A q \in Places : /\ v.runtimes[q].graph = w.runtimes[q].graph
                        /\ v.runtimes[q].generation = w.runtimes[q].generation
                        /\ Controllers(v, q) = Controllers(w, q)
                        /\ v.runtimes[q].nextFetch = w.runtimes[q].nextFetch
                        /\ Present(v, q) <=> Present(w, q)
  BY <1>1, <1>2 DEF Present, Controllers
<1> HIDE DEF v
<1>4. EmptyShape(v)
  BY <1>2, <1>3 DEF EmptyShape, Good
<1>5. SlotsCounted(v)
  <2>1. Controllers(v, "shown") = Controllers(w, "shown")
    BY <1>3 DEF Places
  <2>2. Controllers(v, "retained") = Controllers(w, "retained")
    BY <1>3 DEF Places
  <2> QED
    BY <1>2, <2>1, <2>2 DEF SlotsCounted, Good, Places
<1>6. RequestsFresh(v)
  BY <1>3 DEF RequestsFresh, Good
<1>7. CoverShape(v) /\ GenerationsBounded(v)
  <2>1. "shown" \in Places /\ "retained" \in Places
    BY DEF Places
  <2> QED
    BY <1>2, <1>3, <2>1 DEF CoverShape, GenerationsBounded, Good
<1>8. FetchesBounded(v) /\ DataOwned(v)
  BY <1>2, <1>3 DEF FetchesBounded, DataOwned, Good
<1> QED
  BY <1>2, <1>4, <1>5, <1>6, <1>7, <1>8 DEF Good, v, r

(* Starting the queued fetches after an event. *)
LEMMA StartQueuedGood ==
    ASSUME NEW w, Good(w)
    PROVE  Good(StartQueued(w))
<1>1. CASE ~Present(w, "shown")
  <2> DEFINE v == [w EXCEPT !.faulted = TRUE]
  <2>1. /\ v \in World
        /\ v.typedGeneration = w.typedGeneration /\ v.slots = w.slots
        /\ v.runtimes = w.runtimes /\ v.mounted = w.mounted
        /\ v.fetches = w.fetches /\ v.phase = w.phase /\ v.loaderData = w.loaderData
    BY DEF Good, World
  <2> HIDE DEF v
  <2>2. Good(v)
    BY <2>1, PatchGood DEF Good, CoverShape, DataOwned
  <2> QED
    BY <1>1, <2>2 DEF StartQueued, v
<1>2. CASE Present(w, "shown")
  <2> DEFINE taken == [w EXCEPT !.runtimes["shown"].queued = FALSE]
  <2>1. w.runtimes["shown"] \in Runtime
    BY DEF Good, World, Places
  <2>2. Good(taken) /\ Present(taken, "shown")
    <3>1. w.runtimes["shown"].reload \in BOOLEAN
      BY <2>1 DEF Runtime
    <3>2. taken = [w EXCEPT !.runtimes["shown"] =
                      [w.runtimes["shown"] EXCEPT !.queued = FALSE,
                                                  !.reload = w.runtimes["shown"].reload]]
      BY <2>1 DEF Good, World, Runtime
    <3>3. Good(taken)
      BY <1>2, <3>1, <3>2, FlagsGood DEF Places
    <3>4. Present(taken, "shown")
      BY <1>2, <2>1 DEF Present, Good, World, Runtime, Places
    <3> QED
      BY <3>3, <3>4
  <2>3. NoRun \in Run
    BY DEF NoRun, Run, Queries
  <2> HIDE DEF taken
  <2>4. Good(TryFetch(taken, "shown", "action", NoRun, 1))
    BY <2>2, <2>3, TryFetchGood DEF Places
  <2> QED
    BY <1>2, <2>4 DEF StartQueued, taken
<1> QED
  BY <1>1, <1>2

(* An action that writes a good world back keeps the invariant. *)
LEMMA BecomeGood ==
    ASSUME NEW w, Good(w), Become(w)
    PROVE  Good(Now)'
<1>1. Now' = w
  BY DEF Become, Now, Good, World
<1> QED
  BY <1>1

-----------------------------------------------------------------------------
(* Every action leaves a good world good. *)

(* The invariant holds before the first mount. *)
LEMMA InitGood == Init => IInv
<1> SUFFICES ASSUME Init PROVE IInv
  OBVIOUS
<1> DEFINE w == Now
<1>1. /\ w.typedGeneration = 0 /\ w.slots = 0 /\ w.fetches = {}
      /\ w.runtimes["shown"] = Absent /\ w.runtimes["retained"] = Absent
      /\ w.loaderData = NoRun
  BY DEF Now, Init, Places
<1>2. w \in World
  <2>1. Absent \in Runtime
    BY DEF Absent, Runtime, Graphs
  <2>2. NoRun \in Run /\ "normal" \in Phases /\ "" \in Queries
    BY DEF NoRun, Run, Queries, Phases
  <2> QED
    BY <2>1, <2>2 DEF Now, Init, World
<1> HIDE DEF w
<1>3. EmptyShape(w) /\ CoverShape(w) /\ RequestsFresh(w) /\ GenerationsBounded(w)
  BY <1>1 DEF EmptyShape, CoverShape, RequestsFresh, GenerationsBounded, Present,
              Controllers, Absent, Places
<1>4. SlotsCounted(w)
  BY <1>1, FS_EmptySet DEF SlotsCounted, Controllers, Absent, Places
<1>5. FetchesBounded(w) /\ DataOwned(w)
  BY <1>1 DEF FetchesBounded, DataOwned
<1> QED
  BY <1>2, <1>3, <1>4, <1>5 DEF Good, IInv, Init, w

(* Counting a user input keeps the invariant. *)
LEMMA InputGood ==
    ASSUME NEW w, IInv, Good(w), Input(w)
    PROVE  IInv'
BY BecomeGood DEF Input, IInv

(* A query string is one of a location. *)
LEMMA SearchIsQuery ==
    ASSUME IInv
    PROVE  search \in Queries
BY DEF IInv, Good, World, Now

(* Navigation into the outlet. *)
LEMMA EnterGood ==
    ASSUME IInv, NEW s \in Searches, NEW start \in Starts, Enter(s, start)
    PROVE  IInv'
<1>1. Good(Now) /\ s \in Queries
  BY DEF IInv, Queries
<1> QED
  BY <1>1, UnmountGood, MountGood, RunLoaderGood, InputGood DEF Enter

(* Navigation to another query string. *)
LEMMA ChangeSearchGood ==
    ASSUME IInv, NEW s \in Searches, NEW start \in Starts, ChangeSearch(s, start)
    PROVE  IInv'
<1> DEFINE w == Now
           v == [w EXCEPT !.search = s]
<1>1. Good(w) /\ s \in Queries
  BY DEF IInv, Queries
<1> HIDE DEF w
<1>2. /\ v \in World
      /\ v.typedGeneration = w.typedGeneration /\ v.slots = w.slots
      /\ v.runtimes = w.runtimes /\ v.mounted = w.mounted
      /\ v.fetches = w.fetches /\ v.phase = w.phase /\ v.loaderData = w.loaderData
  BY <1>1 DEF Good, World
<1> HIDE DEF v
<1>3. Good(v)
  BY <1>1, <1>2, PatchGood DEF Good, CoverShape, DataOwned
<1>4. Good(RunLoader(v, s, start))
  BY <1>1, <1>3, RunLoaderGood
<1> QED
  BY <1>4, InputGood DEF ChangeSearch, v, w

(* Navigation away. *)
LEMMA LeaveGood ==
    ASSUME IInv, Leave
    PROVE  IInv'
BY UnmountGood, InputGood DEF Leave, IInv

(* Retry from the error graph. *)
LEMMA RetryGood ==
    ASSUME IInv, NEW start \in Starts, Retry(start)
    PROVE  IInv'
<1>1. Good(Now) /\ search \in Queries
  BY SearchIsQuery DEF IInv
<1>2. ~Present(Now, "retained")
  BY <1>1 DEF Good, CoverShape, Retry, Now
<1>3. Good(Replace(Now, "normal"))
  BY <1>1, <1>2, ReplaceGood DEF Graphs
<1> QED
  BY <1>1, <1>3, RunLoaderGood, InputGood DEF Retry

(* The synchronous part of an action. *)
LEMMA ActedGood ==
    ASSUME IInv, NEW fetch \in BOOLEAN, NEW reload \in BOOLEAN, HasActions
    PROVE  /\ Good(Acted(fetch, reload))
           /\ Present(Acted(fetch, reload), "shown")
<1> DEFINE r == runtimes["shown"]
<1>1. Good(Now) /\ Present(Now, "shown") /\ Now.runtimes["shown"] = r
  BY DEF IInv, HasActions, OnRoute, Present, Now
<1>2. r \in Runtime /\ runtimes \in [Places -> Runtime]
  BY DEF IInv, Good, World, Now, Places
<1> DEFINE queued == r.queued \/ fetch
           asked == r.reload \/ reload
<1>3. queued \in BOOLEAN /\ asked \in BOOLEAN
  OBVIOUS
<1>4. Acted(fetch, reload) =
        [Now EXCEPT !.runtimes["shown"] = [r EXCEPT !.queued = queued, !.reload = asked]]
  BY Zenon DEF Acted
<1> HIDE DEF queued, asked
<1>5. Good(Acted(fetch, reload))
  <2>1. Good([Now EXCEPT !.runtimes["shown"] =
                [Now.runtimes["shown"] EXCEPT !.queued = queued, !.reload = asked]])
    BY <1>1, <1>3, FlagsGood DEF Places
  <2> QED
    BY <1>1, <1>4, <2>1, Zenon
<1>6. Acted(fetch, reload).runtimes["shown"].graph = r.graph
  BY <1>2 DEF Acted, Now, Runtime, Places
<1> QED
  BY <1>1, <1>5, <1>6 DEF Present

(* An event on the graph on screen. *)
LEMMA EventGood ==
    ASSUME IInv, NEW fetch \in BOOLEAN, NEW reload \in BOOLEAN, NEW start \in Starts,
           Event(fetch, reload, start)
    PROVE  IInv'
<1> DEFINE acted == Acted(fetch, reload)
           cleared == [acted EXCEPT !.runtimes["shown"].reload = FALSE]
<1>1. Good(acted) /\ Present(acted, "shown")
  BY ActedGood DEF Event
<1> HIDE DEF acted
<1>2. Good(cleared)
  <2>1. acted.runtimes["shown"] \in Runtime
    BY <1>1 DEF Good, World, Places
  <2>2. acted.runtimes["shown"].queued \in BOOLEAN
    BY <2>1 DEF Runtime
  <2>3. cleared = [acted EXCEPT !.runtimes["shown"] =
                     [acted.runtimes["shown"] EXCEPT
                        !.queued = acted.runtimes["shown"].queued, !.reload = FALSE]]
    BY <1>1, <2>1 DEF Good, World, Runtime
  <2> QED
    BY <1>1, <2>2, <2>3, FlagsGood DEF Places
<1> HIDE DEF cleared
<1>3. Good(StartQueued(acted))
  BY <1>1, StartQueuedGood
<1>4. Good(StartQueued(RunLoader(cleared, search, start)))
  BY <1>2, RunLoaderGood, StartQueuedGood, SearchIsQuery
<1> QED
  BY <1>2, <1>3, <1>4, InputGood DEF Event, acted, cleared

(* An event of a child component that runs an action of the route. *)
LEMMA CallbackGood ==
    ASSUME IInv, NEW fetch \in BOOLEAN, NEW reload \in BOOLEAN, Callback(fetch, reload)
    PROVE  IInv'
BY ActedGood, StartQueuedGood, InputGood DEF Callback

(* A fetch that a live runtime answers to belongs to the current mount.    *)
LEMMA AnsweredIsCurrent ==
    ASSUME NEW w, Good(w), NEW f \in w.fetches, NEW p \in Places,
           Answers(w, p, f.generation)
    PROVE  f.mount = w.mounted
<1>1. f.generation \in Nat
  BY DEF Good, World, Fetch
<1> QED
  BY <1>1 DEF Good, FetchesBounded, Answers

(* A settled fetch leaves the flight. *)
LEMMA SettledGood ==
    ASSUME IInv, NEW f \in fetches
    PROVE  /\ Good(Settled(f))
           /\ Settled(f).mounted = mounted
           /\ \A p \in Places : Present(Settled(f), p) <=> Present(Now, p)
<1> DEFINE w == Now
           v == [w EXCEPT !.fetches = @ \ {f}]
<1>1. Good(w) /\ w.mounted = mounted
  BY DEF IInv, Now
<1> HIDE DEF w
<1>2. /\ v \in World
      /\ v.typedGeneration = w.typedGeneration /\ v.slots = w.slots
      /\ v.runtimes = w.runtimes /\ v.mounted = w.mounted
      /\ v.fetches = w.fetches \ {f} /\ v.phase = w.phase /\ v.loaderData = w.loaderData
  BY <1>1 DEF Good, World
<1> HIDE DEF v
<1>3. Good(v)
  BY <1>1, <1>2, PatchGood DEF Good, CoverShape, DataOwned
<1>4. Settled(f) = v
  BY DEF Settled, v, w
<1> QED
  BY <1>1, <1>2, <1>3, <1>4 DEF Present, w

(* A settled fetch nobody answers to. *)
LEMMA SettleStaleGood ==
    ASSUME IInv, NEW f \in fetches, SettleStale(f)
    PROVE  IInv'
BY SettledGood, BecomeGood DEF SettleStale, IInv

(* The continuation of an action. *)
LEMMA SettleActionGood ==
    ASSUME IInv, NEW f \in fetches, NEW p \in Places, NEW step \in Steps,
           SettleAction(f, p, step)
    PROVE  IInv'
<1> DEFINE w == Settled(f)
           released == Release(w, p, f.request)
<1>1. Good(w) /\ Present(w, p)
  BY SettledGood DEF SettleAction, Answers
<1> HIDE DEF w
<1>2. Good(released) /\ Present(released, p)
  BY <1>1, ReleaseGood
<1> HIDE DEF released
<1>3. Good([released EXCEPT !.runtimes[p].reload = TRUE])
  <2>1. released.runtimes[p] \in Runtime
    BY <1>2 DEF Good, World
  <2>2. released.runtimes[p].queued \in BOOLEAN
    BY <2>1 DEF Runtime
  <2>3. [released EXCEPT !.runtimes[p].reload = TRUE] =
          [released EXCEPT !.runtimes[p] =
             [released.runtimes[p] EXCEPT !.queued = released.runtimes[p].queued,
                                          !.reload = TRUE]]
    BY <1>2, <2>1 DEF Good, World, Runtime
  <2> QED
    BY <1>2, <2>2, <2>3, FlagsGood
<1>4. Good(TryFetch(released, p, "action", NoRun, f.nth + 1))
  <2>1. f.nth + 1 \in Nat
    BY DEF IInv, Good, World, Now, Fetch
  <2>2. NoRun \in Run
    BY DEF NoRun, Run, Queries
  <2> QED
    BY <1>2, <2>1, <2>2, TryFetchGood
<1>5. Good(ResumeAction(w, p, f, step))
  BY <1>2, <1>3, <1>4 DEF ResumeAction, Steps, released
<1> QED
  BY <1>5, BecomeGood DEF SettleAction, IInv, w

(* The continuation of a loader run. *)
LEMMA SettleLoaderGood ==
    ASSUME IInv, NEW f \in fetches, NEW p \in Places, NEW step \in LoaderSteps,
           SettleLoader(f, p, step)
    PROVE  IInv'
<1> DEFINE w == Settled(f)
           released == Release(w, p, f.request)
<1>1. f \in Now.fetches /\ Good(Now) /\ Now.mounted = mounted
  BY DEF Now, IInv
<1>2. /\ f.run \in Run /\ f.nth + 1 \in Nat
      /\ f.run.mount = mounted
  <2>1. f.mount = mounted
    BY <1>1, AnsweredIsCurrent DEF SettleLoader
  <2>2. f.run.mount = f.mount
    BY <1>1 DEF SettleLoader, Good, DataOwned
  <2>3. f \in Fetch
    BY <1>1 DEF Good, World
  <2> QED
    BY <2>1, <2>2, <2>3 DEF Fetch
<1>3. Good(w) /\ Present(w, p) /\ w.mounted = mounted
  BY SettledGood DEF SettleLoader, Answers
<1> HIDE DEF w
<1>4. Good(released) /\ Present(released, p) /\ released.mounted = mounted
  BY <1>3, ReleaseGood
<1> HIDE DEF released
<1>5. Good(TryFetch(released, p, "loader", f.run, f.nth + 1))
  BY <1>2, <1>4, TryFetchGood
<1>6. step \in Outcomes => Good(CompleteLoader(released, f.run, step))
  BY <1>2, <1>4, CompleteLoaderGood
<1>7. Good(ResumeLoader(w, p, f, step))
  <2>1. step = "machineError" \/ step = "again" \/ step \in Outcomes
    BY DEF LoaderSteps
  <2>2. "machineError" \notin Outcomes /\ "again" \notin Outcomes
    BY DEF Outcomes
  <2> QED
    BY <1>4, <1>5, <1>6, <2>1, <2>2 DEF ResumeLoader, released
<1> QED
  BY <1>7, BecomeGood DEF SettleLoader, IInv, w

-----------------------------------------------------------------------------
(* The inductive invariant, and the properties it carries. *)

(* IInv holds in every state of every behaviour, whatever the phase graphs, *)
(* limits, query strings and number of inputs.                              *)
THEOREM Invariance == Spec => []IInv
<1>1. Init => IInv
  BY InitGood
<1>2. IInv /\ [Next]_vars => IInv'
  <2> SUFFICES ASSUME IInv, [Next]_vars PROVE IInv'
    OBVIOUS
  <2>1. CASE \E s \in Searches, start \in Starts : Enter(s, start) \/ ChangeSearch(s, start)
    BY <2>1, EnterGood, ChangeSearchGood
  <2>2. CASE Leave
    BY <2>2, LeaveGood
  <2>3. CASE \E start \in Starts : Retry(start)
    BY <2>3, RetryGood
  <2>4. CASE \E fetch, reload \in BOOLEAN, start \in Starts : Event(fetch, reload, start)
    BY <2>4, EventGood
  <2>5. CASE \E fetch, reload \in BOOLEAN : Callback(fetch, reload)
    BY <2>5, CallbackGood
  <2>6. CASE Settle
    BY <2>6, SettleStaleGood, SettleActionGood, SettleLoaderGood DEF Settle
  <2>7. CASE UNCHANGED vars
    BY <2>7 DEF vars, IInv, Now
  <2> QED
    BY <2>1, <2>2, <2>3, <2>4, <2>5, <2>6, <2>7 DEF Next
<1> QED
  BY <1>1, <1>2, PTL DEF Spec

(* Type correctness. *)
THEOREM TypeCorrect == Spec => []TypeOK
<1>1. IInv => TypeOK
  BY DEF IInv, Good, TypeOK
<1> QED
  BY <1>1, Invariance, PTL

(* The in-flight count is the number of controllers held, for every limit   *)
(* and every interleaving of loads, covers, restores and disposals.         *)
THEOREM SlotsAccounted == Spec => []SlotsMatchControllers
<1>1. IInv => SlotsMatchControllers
  BY DEF IInv, Good, SlotsCounted, SlotsMatchControllers, Now
<1> QED
  BY <1>1, Invariance, PTL

(* A runtime is retained only while a pending graph covers it.              *)
THEOREM RetainedIsCovered == Spec => []RetainedOnlyUnderPending
<1>1. IInv => RetainedOnlyUnderPending
  BY DEF IInv, Good, CoverShape, RetainedOnlyUnderPending, Now
<1> QED
  BY <1>1, Invariance, PTL

(* The two live runtimes never share a generation.                          *)
THEOREM GenerationsApart == Spec => []LookupUnambiguous
<1>1. IInv => LookupUnambiguous
  <2> SUFFICES ASSUME IInv, Present(Now, "retained")
               PROVE  runtimes["retained"].generation # runtimes["shown"].generation
    BY DEF LookupUnambiguous
  <2>1. /\ runtimes["shown"].generation = typedGeneration + 1
        /\ runtimes["retained"].generation <= typedGeneration
    BY DEF IInv, Good, GenerationsBounded, Now
  <2>2. typedGeneration \in Nat /\ runtimes["retained"].generation \in Nat
    BY DEF IInv, Good, World, Now, Runtime, Places
  <2> QED
    BY <2>1, <2>2
<1> QED
  BY <1>1, Invariance, PTL

(* No fetch of an earlier mount finds a runtime.                            *)
THEOREM EarlierMountsSilent == Spec => []OldMountsAreSilent
<1>1. IInv => OldMountsAreSilent
  <2> SUFFICES ASSUME IInv, NEW f \in fetches, f.mount # mounted, NEW p \in Places
               PROVE  ~Answers(Now, p, f.generation)
    BY DEF OldMountsAreSilent
  <2>1. Good(Now) /\ f \in Now.fetches /\ Now.mounted = mounted
    BY DEF IInv, Now
  <2> QED
    BY <2>1, AnsweredIsCurrent
<1> QED
  BY <1>1, Invariance, PTL

(* Committed loader data belongs to the mount it is shown in.               *)
THEOREM DataStaysWithItsMount == Spec => []NoForeignData
<1>1. IInv => NoForeignData
  BY DEF IInv, Good, DataOwned, NoForeignData, Now
<1> QED
  BY <1>1, Invariance, PTL

-----------------------------------------------------------------------------
(***************************************************************************)
(* What the route keeps beyond those safety properties: which fetch every  *)
(* abort controller belongs to, in which order loader runs commit, and     *)
(* which graph a phase shows.                                              *)
(*                                                                         *)
(* Each needs a hypothesis on the constants, because the code keeps it     *)
(* only then:                                                              *)
(*   Covering      A pending graph covers a running loader, so a second    *)
(*                 run cannot begin: the loader is not found in the        *)
(*                 pending graph.  Without a cover two runs are in flight  *)
(*                 under one generation and either may end last.           *)
(*   AllDeclared   and an error graph is declared; else a failed load      *)
(*                 changes the phase and not the screen.                   *)
(*   QuietPending  A pending graph starts no fetch of its own.  When it    *)
(*                 does, the fetch is aborted by the restore but the       *)
(*                 runtime put back may reach its generation, and a late   *)
(*                 answer of it is then taken for one of that runtime.     *)
(*                                                                         *)
(* The proof again follows the calls that make up an action: FullInv adds  *)
(* to Good what Linked says of a world.                                    *)
(***************************************************************************)

(***************************************************************************)
(* The invariant                                                           *)
(***************************************************************************)

\* A pending graph takes the screen while the loader runs.
Covering == HasPending /\ PendingMode = "replace"
\* ... and a boundary has a graph to show.
AllDeclared == Covering /\ HasError
\* A graph that covers a loader starts no fetch.
QuietPending == Covering => ~PhaseActions

\* The graph on screen is the one of the phase (PhaseShowsItsGraph).
PhaseShown(w) ==
    Present(w, "shown") =>
        w.runtimes["shown"].graph = IF w.phase = "loading" THEN "pending" ELSE w.phase

\* The ids of runtimes were all given out, and no two live ones share one.
IdsKnown(w) ==
    /\ \A p \in Places : Present(w, p) => w.runtimes[p].id <= w.typedGeneration
    /\ Present(w, "retained") => w.runtimes["retained"].id # w.runtimes["shown"].id
    /\ \A f \in w.fetches : f.holder <= w.typedGeneration

\* A fetch is the one a controller of the runtime at p was made for.
HeldBy(w, f, p) ==
    /\ Present(w, p)
    /\ f.holder = w.runtimes[p].id
    /\ f.generation = w.runtimes[p].generation
    /\ f.request \in Controllers(w, p)

\* Whatever is in flight and not aborted can still be aborted.
FetchesHeld(w) == \A f \in w.fetches : ~f.aborted => \E p \in Places : HeldBy(w, f, p)

\* ... and every controller has something to abort,
ControllersUsed(w) ==
    \A p \in Places : Present(w, p) => \A c \in Controllers(w, p) :
        \E f \in w.fetches : ~f.aborted /\ f.holder = w.runtimes[p].id /\ f.request = c

\* one fetch each.
RequestsApart(w) ==
    \A f, g \in w.fetches :
        ~f.aborted /\ ~g.aborted /\ f.holder = g.holder /\ f.request = g.request => f = g

\* Aborting moved the runtime to another generation.  This is what keeps a late
\* answer silent, and it is strict: GenerationsBounded alone does not give it.
AbortedAreOld(w) ==
    \A f \in w.fetches : f.aborted =>
        \A p \in Places : Present(w, p) => f.generation < w.runtimes[p].generation

PendingIsQuiet(w) ==
    w.runtimes["shown"].graph = "pending" =>
        ~PhaseActions /\ ~w.runtimes["shown"].queued /\ Controllers(w, "shown") = {}

\* The part of the invariant about fetches.
Tracked(w) ==
    /\ IdsKnown(w)
    /\ FetchesHeld(w)
    /\ ControllersUsed(w)
    /\ RequestsApart(w)
    /\ AbortedAreOld(w)
    /\ PendingIsQuiet(w)

\* A loader fetch is of the last run, which the retained runtime waits for,
RunIsCurrent(w, f) ==
    /\ Present(w, "retained")
    /\ f.generation = w.runtimes["retained"].generation
    /\ f.run.n = w.lastRun

\* or nobody answers to it any more.
RunIsOver(w, f) ==
    \A p \in Places : Present(w, p) => f.generation < w.runtimes[p].generation

\* The part about loader runs: what is committed is older than the run under way.
Ordered(w) ==
    /\ w.loaderData.n <= w.lastRun
    /\ Present(w, "retained") => w.loaderData.n < w.lastRun
    /\ \A f \in w.fetches : f.kind = "loader" => RunIsCurrent(w, f) \/ RunIsOver(w, f)

(***************************************************************************)
(* The calls on a world, field by field                                    *)
(***************************************************************************)

\* Aborting a fetch changes its flag only, and nothing when it was set.
LEMMA AbortedKeeps ==
    ASSUME NEW f \in Fetch, NEW r \in Runtime
    PROVE  /\ Aborted(f, r) \in Fetch
           /\ Aborted(f, r).generation = f.generation /\ Aborted(f, r).holder = f.holder
           /\ Aborted(f, r).request = f.request /\ Aborted(f, r).kind = f.kind
           /\ Aborted(f, r).run = f.run
           /\ Aborted(f, r).aborted <=> f.aborted \/ (f.holder = r.id /\ f.request \in r.controllers)
           /\ ~Aborted(f, r).aborted \/ f.aborted => Aborted(f, r) = f
<1> DEFINE hit == f.holder = r.id /\ f.request \in r.controllers
<1>1. hit \in BOOLEAN /\ f.aborted \in BOOLEAN
  BY DEF Fetch
<1>2. Aborted(f, r) = [f EXCEPT !.aborted = f.aborted \/ hit]
  BY Zenon DEF Aborted
<1> HIDE DEF hit
<1>3. PICK flag \in BOOLEAN : flag = (f.aborted \/ hit)
  BY <1>1
<1>4. Aborted(f, r) = [f EXCEPT !.aborted = flag]
  BY <1>2, <1>3, Zenon
<1>5. /\ [f EXCEPT !.aborted = flag] \in Fetch
      /\ [f EXCEPT !.aborted = flag].aborted = flag
      /\ [f EXCEPT !.aborted = flag].generation = f.generation
      /\ [f EXCEPT !.aborted = flag].holder = f.holder
      /\ [f EXCEPT !.aborted = flag].request = f.request
      /\ [f EXCEPT !.aborted = flag].kind = f.kind
      /\ [f EXCEPT !.aborted = flag].run = f.run
      /\ flag = f.aborted => [f EXCEPT !.aborted = flag] = f
  BY DEF Fetch
<1>6. ~flag \/ f.aborted => flag = f.aborted
  BY <1>1, <1>3
<1> QED
  BY <1>3, <1>4, <1>5, <1>6 DEF hit

\* Drop aborts what the runtime at p has in flight and empties the place.
LEMMA DropWorld ==
    ASSUME NEW w \in World, NEW p \in Places
    PROVE  LET v == Drop(w, p)
           IN  /\ v.typedGeneration = w.typedGeneration
               /\ v.runtimes[p] = Absent
               /\ \A q \in Places : q # p => v.runtimes[q] = w.runtimes[q]
               /\ v.fetches = {Aborted(f, w.runtimes[p]) : f \in w.fetches}
               /\ v.phase = w.phase /\ v.lastRun = w.lastRun /\ v.loaderData = w.loaderData
               /\ v.mounted = w.mounted /\ v.search = w.search
               /\ v.slots = Released(w.slots, Cardinality(Controllers(w, p)))
               /\ v.faulted = w.faulted
BY DEF Drop, Invalidate, World, Controllers

\* Show puts a runtime with the next id on screen.
LEMMA ShowWorld ==
    ASSUME NEW w \in World, NEW graph
    PROVE  LET v == Show(w, graph)
           IN  /\ v.typedGeneration = w.typedGeneration + 1
               /\ v.runtimes["shown"] = Fresh(w, graph)
               /\ v.runtimes["retained"] = w.runtimes["retained"]
               /\ v.fetches = w.fetches
               /\ v.phase = w.phase /\ v.lastRun = w.lastRun /\ v.loaderData = w.loaderData
               /\ v.mounted = w.mounted
BY DEF Show, World, Places

\* Cover keeps the runtime on screen behind the new one.
LEMMA CoverWorld ==
    ASSUME NEW w \in World, NEW graph
    PROVE  LET v == Cover(w, graph)
           IN  /\ v.typedGeneration = w.typedGeneration + 1
               /\ v.runtimes["shown"] = Fresh(w, graph)
               /\ v.runtimes["retained"] = w.runtimes["shown"]
               /\ v.fetches = w.fetches
               /\ v.phase = w.phase /\ v.lastRun = w.lastRun /\ v.loaderData = w.loaderData
               /\ v.mounted = w.mounted
BY DEF Cover, Show, Fresh, World, Places

\* Restore aborts what both runtimes have in flight, one after the other.
LEMMA RestoreWorld ==
    ASSUME NEW w \in World
    PROVE  LET v == Restore(w)
           IN  /\ v.typedGeneration = w.typedGeneration
               /\ v.runtimes["shown"] = Quieted(w.runtimes["retained"])
               /\ v.runtimes["retained"] = Absent
               /\ v.fetches = {Aborted(Aborted(f, w.runtimes["retained"]), w.runtimes["shown"]) :
                                  f \in w.fetches}
               /\ v.phase = "normal" /\ v.lastRun = w.lastRun /\ v.loaderData = w.loaderData
               /\ v.mounted = w.mounted
<1> DEFINE a == Invalidate(w, "retained")
           b == Drop(a, "shown")
<1>1. /\ a.typedGeneration = w.typedGeneration
      /\ a.runtimes = [w.runtimes EXCEPT !["retained"] = Quieted(w.runtimes["retained"])]
      /\ a.fetches = {Aborted(f, w.runtimes["retained"]) : f \in w.fetches}
      /\ a.phase = w.phase /\ a.lastRun = w.lastRun /\ a.loaderData = w.loaderData
      /\ a.mounted = w.mounted
      /\ a = [w EXCEPT !.slots = a.slots, !.fetches = a.fetches, !.runtimes = a.runtimes]
  BY DEF Invalidate, World, Places
<1> HIDE DEF a
<1>2. /\ a.runtimes["shown"] = w.runtimes["shown"]
      /\ a.runtimes["retained"] = Quieted(w.runtimes["retained"])
  BY <1>1 DEF World, Places
<1>3. /\ b.typedGeneration = a.typedGeneration
      /\ b.runtimes = [a.runtimes EXCEPT !["shown"] = Absent]
      /\ b.fetches = {Aborted(f, a.runtimes["shown"]) : f \in a.fetches}
      /\ b.phase = a.phase /\ b.lastRun = a.lastRun /\ b.loaderData = a.loaderData
      /\ b.mounted = a.mounted
  BY <1>1, <1>2 DEF Drop, Invalidate, World, Places
<1>4. b.fetches = {Aborted(Aborted(f, w.runtimes["retained"]), w.runtimes["shown"]) : f \in w.fetches}
  BY <1>1, <1>2, <1>3
<1>5. b.runtimes["retained"] = Quieted(w.runtimes["retained"])
  BY <1>1, <1>2, <1>3 DEF World, Places
<1>6. Restore(w) = [b EXCEPT !.runtimes = Uncovered(@), !.phase = "normal"]
  BY DEF Restore, a, b
<1> QED
  BY <1>1, <1>3, <1>4, <1>5, <1>6 DEF Uncovered, Places

(***************************************************************************)
(* The fetches in flight                                                   *)
(***************************************************************************)

\* A fetch once aborted stays in flight, as it is, until it settles.
AbortedStay(w, v) == \A f \in w.fetches : f.aborted => f \in v.fetches

\* The two runtimes differ in their ids and their generations.
LEMMA TwoPlaces ==
    ASSUME NEW w, Good(w), Tracked(w), NEW p \in Places, NEW q \in Places,
           Present(w, p), Present(w, q), p # q
    PROVE  /\ w.runtimes[p].id # w.runtimes[q].id
           /\ w.runtimes[p].generation # w.runtimes[q].generation
<1>1. Present(w, "retained") /\ {p, q} = {"shown", "retained"}
  BY DEF Places
<1>2. w.runtimes["retained"].id # w.runtimes["shown"].id
  BY <1>1 DEF Tracked, IdsKnown
<1>3. /\ w.runtimes["shown"].generation = w.typedGeneration + 1
      /\ w.runtimes["retained"].generation <= w.typedGeneration
  BY <1>1 DEF Good, GenerationsBounded
<1>4. w.typedGeneration \in Nat /\ w.runtimes["retained"].generation \in Nat
  BY DEF Good, World, Runtime, Places
<1>5. w.runtimes["retained"].generation # w.runtimes["shown"].generation
  BY <1>3, <1>4
<1> QED
  BY <1>1, <1>2, <1>5

\* The types the arithmetic below needs.
LEMMA WorldOf ==
    ASSUME NEW w, Good(w)
    PROVE  /\ w \in World /\ w.typedGeneration \in Nat
           /\ \A p \in Places : /\ w.runtimes[p] \in Runtime /\ w.runtimes[p].id \in Nat
                                /\ w.runtimes[p].generation \in Nat
           /\ \A f \in w.fetches : f \in Fetch /\ f.generation \in Nat /\ f.holder \in Nat
                                   /\ f.aborted \in BOOLEAN
BY DEF Good, World, Runtime, Fetch

\* invalidate_fetches and take: what the runtime held is aborted with it.
LEMMA DropTracked ==
    ASSUME NEW w, Good(w), Tracked(w), NEW p \in Places,
           p = "shown" => ~Present(w, "retained")
    PROVE  Tracked(Drop(w, p)) /\ AbortedStay(w, Drop(w, p))
<1> DEFINE r == w.runtimes[p]
<1>0. PICK v : v = Drop(w, p)
  OBVIOUS
<1>1. /\ v.typedGeneration = w.typedGeneration
      /\ v.runtimes[p] = Absent
      /\ \A q \in Places : q # p => v.runtimes[q] = w.runtimes[q]
      /\ v.fetches = {Aborted(f, r) : f \in w.fetches}
  BY <1>0, WorldOf, DropWorld
<1>2. r \in Runtime
  BY WorldOf
<1>3. \A f \in w.fetches :
         /\ Aborted(f, r).generation = f.generation /\ Aborted(f, r).holder = f.holder
         /\ Aborted(f, r).request = f.request
         /\ Aborted(f, r).aborted <=> f.aborted \/ (f.holder = r.id /\ f.request \in r.controllers)
         /\ (~Aborted(f, r).aborted \/ f.aborted) => Aborted(f, r) = f
  BY <1>2, WorldOf, AbortedKeeps
<1>4. ~Present(v, p) /\ \A q \in Places : q # p => (Present(v, q) <=> Present(w, q))
  BY <1>1 DEF Present, Absent
<1>5. IdsKnown(v)
  BY <1>1, <1>3, <1>4 DEF Tracked, IdsKnown, Places
<1>6. FetchesHeld(v)
  <2> SUFFICES ASSUME NEW f \in w.fetches, ~Aborted(f, r).aborted
               PROVE  \E q \in Places : HeldBy(v, f, q)
    BY <1>1, <1>3 DEF FetchesHeld
  <2>1. ~f.aborted /\ ~(f.holder = r.id /\ f.request \in r.controllers)
    BY <1>3
  <2>2. PICK q \in Places : HeldBy(w, f, q)
    BY <2>1 DEF Tracked, FetchesHeld
  <2>3. q # p
    BY <2>1, <2>2 DEF HeldBy, Controllers
  <2>4. HeldBy(v, f, q)
    BY <1>1, <1>4, <2>2, <2>3 DEF HeldBy, Controllers
  <2> QED
    BY <2>4
<1>7. ControllersUsed(v)
  <2> SUFFICES ASSUME NEW q \in Places, Present(v, q), NEW c \in Controllers(v, q)
               PROVE  \E f \in v.fetches : ~f.aborted /\ f.holder = v.runtimes[q].id /\ f.request = c
    BY DEF ControllersUsed
  <2>1. q # p /\ Present(w, q) /\ v.runtimes[q] = w.runtimes[q] /\ c \in Controllers(w, q)
    BY <1>1, <1>4 DEF Controllers
  <2>2. PICK f \in w.fetches : ~f.aborted /\ f.holder = w.runtimes[q].id /\ f.request = c
    BY <2>1 DEF Tracked, ControllersUsed
  <2>3. ~(f.holder = r.id /\ f.request \in r.controllers)
    <3>1. CASE Present(w, p)
      BY <2>1, <2>2, <3>1, TwoPlaces
    <3>2. CASE ~Present(w, p)
      BY <3>2 DEF Good, EmptyShape, Absent
    <3> QED
      BY <3>1, <3>2
  <2>4. ~Aborted(f, r).aborted /\ Aborted(f, r) = f
    BY <1>3, <2>2, <2>3
  <2> QED
    BY <1>1, <2>1, <2>2, <2>4
<1>8. RequestsApart(v)
  BY <1>1, <1>3 DEF Tracked, RequestsApart
<1>9. AbortedAreOld(v)
  <2> SUFFICES ASSUME NEW f \in w.fetches, Aborted(f, r).aborted, NEW q \in Places, Present(v, q)
               PROVE  f.generation < w.runtimes[q].generation
    BY <1>1, <1>3, <1>4 DEF AbortedAreOld
  <2>1. q # p /\ Present(w, q)
    BY <1>4
  <2>2. CASE f.aborted
    BY <2>1, <2>2 DEF Tracked, AbortedAreOld
  <2>3. CASE ~f.aborted
    <3>1. f.holder = r.id /\ f.request \in r.controllers
      BY <1>3, <2>3
    <3>2. Present(w, p)
      BY <3>1 DEF Good, EmptyShape, Absent
    <3>3. PICK q2 \in Places : HeldBy(w, f, q2)
      BY <2>3 DEF Tracked, FetchesHeld
    <3>4. q2 = p
      BY <3>1, <3>2, <3>3, TwoPlaces DEF HeldBy
    <3>5. f.generation = r.generation
      BY <3>3, <3>4 DEF HeldBy
    <3>6. p = "retained" /\ q = "shown"
      BY <2>1 DEF Places
    <3>7. /\ w.runtimes["shown"].generation = w.typedGeneration + 1
          /\ w.runtimes["retained"].generation <= w.typedGeneration
      BY <3>2, <3>6 DEF Good, GenerationsBounded
    <3> QED
      BY <3>5, <3>6, <3>7, WorldOf
  <2> QED
    BY <2>2, <2>3
<1>10. PendingIsQuiet(v)
  <2>1. CASE p = "shown"
    BY <1>1, <2>1 DEF PendingIsQuiet, Absent
  <2>2. CASE p # "shown"
    BY <1>1, <2>2 DEF PendingIsQuiet, Tracked, Controllers, Places
  <2> QED
    BY <2>1, <2>2
<1>11. AbortedStay(w, v)
  BY <1>1, <1>3 DEF AbortedStay
<1> QED
  BY <1>0, <1>5, <1>6, <1>7, <1>8, <1>9, <1>10, <1>11 DEF Tracked

\* A runtime mounted on an empty outlet has a new id and holds nothing.
LEMMA ShowTracked ==
    ASSUME NEW w, Good(w), Tracked(w), NEW graph \in Graphs \ {"none", "pending"},
           \A p \in Places : ~Present(w, p)
    PROVE  Tracked(Show(w, graph)) /\ AbortedStay(w, Show(w, graph))
<1>0. PICK v : v = Show(w, graph)
  OBVIOUS
<1>1. /\ v.typedGeneration = w.typedGeneration + 1
      /\ v.runtimes["shown"] = Fresh(w, graph)
      /\ v.runtimes["retained"] = w.runtimes["retained"]
      /\ v.fetches = w.fetches
  BY <1>0, WorldOf, ShowWorld
<1>2. /\ v.runtimes["shown"].id = w.typedGeneration + 1
      /\ v.runtimes["shown"].generation = w.typedGeneration + 2
      /\ v.runtimes["shown"].controllers = {} /\ v.runtimes["shown"].graph = graph
  BY <1>1 DEF Fresh
<1>3. ~Present(v, "retained") /\ \A p \in Places : Present(v, p) => p = "shown"
  BY <1>1 DEF Present, Places
<1>4. \A f \in w.fetches : f.aborted
  BY DEF Tracked, FetchesHeld, HeldBy
<1>5. IdsKnown(v)
  <2>1. \A f \in w.fetches : f.holder <= w.typedGeneration + 1
    BY WorldOf DEF Tracked, IdsKnown
  <2>2. \A p \in Places : Present(v, p) => v.runtimes[p].id <= v.typedGeneration
    BY <1>1, <1>2, <1>3, WorldOf
  <2> QED
    BY <1>1, <1>3, <2>1, <2>2 DEF IdsKnown
<1>6. FetchesHeld(v) /\ RequestsApart(v)
  BY <1>1, <1>4 DEF FetchesHeld, RequestsApart
<1>7. ControllersUsed(v)
  BY <1>2, <1>3 DEF ControllersUsed, Controllers
<1>8. AbortedAreOld(v)
  <2>1. \A f \in w.fetches : f.generation < w.typedGeneration + 2
    BY WorldOf DEF Good, FetchesBounded
  <2> QED
    BY <1>1, <1>2, <1>3, <2>1 DEF AbortedAreOld
<1>9. PendingIsQuiet(v)
  BY <1>2 DEF PendingIsQuiet
<1>10. AbortedStay(w, v)
  BY <1>1 DEF AbortedStay
<1> QED
  BY <1>0, <1>5, <1>6, <1>7, <1>8, <1>9, <1>10 DEF Tracked

\* The pending graph holds nothing; the normal runtime keeps what it holds.
LEMMA CoverTracked ==
    ASSUME NEW w, Good(w), Tracked(w), w.runtimes["shown"].graph = "normal",
           ~Present(w, "retained"), ~PhaseActions
    PROVE  Tracked(Cover(w, "pending")) /\ AbortedStay(w, Cover(w, "pending"))
<1>0. PICK v : v = Cover(w, "pending")
  OBVIOUS
<1>1. /\ v.typedGeneration = w.typedGeneration + 1
      /\ v.runtimes["shown"] = Fresh(w, "pending")
      /\ v.runtimes["retained"] = w.runtimes["shown"]
      /\ v.fetches = w.fetches
  BY <1>0, WorldOf, CoverWorld
<1>2. /\ v.runtimes["shown"].id = w.typedGeneration + 1
      /\ v.runtimes["shown"].generation = w.typedGeneration + 2
      /\ v.runtimes["shown"].controllers = {} /\ v.runtimes["shown"].graph = "pending"
      /\ v.runtimes["shown"].queued = FALSE
  BY <1>1 DEF Fresh
<1>3. Present(w, "shown") /\ Present(v, "retained") /\ Present(v, "shown")
  BY <1>1, <1>2 DEF Present
<1>4. w.runtimes["shown"].id <= w.typedGeneration /\ w.typedGeneration \in Nat
      /\ w.runtimes["shown"].id \in Nat
  BY <1>3, WorldOf DEF Tracked, IdsKnown, Places
<1>5. IdsKnown(v)
  <2>1. \A f \in w.fetches : f.holder <= w.typedGeneration + 1
    BY WorldOf DEF Tracked, IdsKnown
  <2>2. \A p \in Places : v.runtimes[p].id <= v.typedGeneration
    BY <1>1, <1>2, <1>4 DEF Places
  <2>3. v.runtimes["retained"].id # v.runtimes["shown"].id
    BY <1>1, <1>2, <1>4
  <2> QED
    BY <1>1, <2>1, <2>2, <2>3 DEF IdsKnown
<1>6. FetchesHeld(v)
  <2>1. \A f \in w.fetches : ~f.aborted => HeldBy(w, f, "shown")
    BY DEF Tracked, FetchesHeld, HeldBy, Places
  <2>2. \A f \in w.fetches : HeldBy(w, f, "shown") => HeldBy(v, f, "retained")
    BY <1>1, <1>3 DEF HeldBy, Controllers
  <2> QED
    BY <1>1, <2>1, <2>2 DEF FetchesHeld, Places
<1>7. ControllersUsed(v)
  <2>1. \A c \in Controllers(w, "shown") :
           \E f \in w.fetches : ~f.aborted /\ f.holder = w.runtimes["shown"].id /\ f.request = c
    BY <1>3 DEF Tracked, ControllersUsed, Places
  <2>2. Controllers(v, "shown") = {} /\ Controllers(v, "retained") = Controllers(w, "shown")
    BY <1>1, <1>2 DEF Controllers
  <2> QED
    BY <1>1, <2>1, <2>2 DEF ControllersUsed, Places
<1>8. RequestsApart(v)
  BY <1>1 DEF Tracked, RequestsApart
<1>9. AbortedAreOld(v)
  <2>1. \A f \in w.fetches : f.generation < w.typedGeneration + 2
    BY WorldOf DEF Good, FetchesBounded
  <2>2. \A f \in w.fetches : f.aborted => f.generation < w.runtimes["shown"].generation
    BY <1>3 DEF Tracked, AbortedAreOld, Places
  <2> QED
    BY <1>1, <1>2, <2>1, <2>2 DEF AbortedAreOld, Places
<1>10. PendingIsQuiet(v)
  BY <1>2 DEF PendingIsQuiet, Controllers
<1>11. AbortedStay(w, v)
  BY <1>1 DEF AbortedStay
<1> QED
  BY <1>0, <1>5, <1>6, <1>7, <1>8, <1>9, <1>10, <1>11 DEF Tracked

\* Only runtimes, fetches and the id counter matter.
LEMMA SameTracked ==
    ASSUME NEW w, Tracked(w), NEW v, v.runtimes = w.runtimes, v.fetches = w.fetches,
           v.typedGeneration = w.typedGeneration
    PROVE  Tracked(v) /\ AbortedStay(w, v)
<1>1. \A p \in Places : (Present(v, p) <=> Present(w, p)) /\ Controllers(v, p) = Controllers(w, p)
  BY DEF Present, Controllers
<1>2. \A f, p : HeldBy(v, f, p) <=> HeldBy(w, f, p)
  BY DEF HeldBy, Present, Controllers
<1>3. IdsKnown(v) /\ FetchesHeld(v)
  BY <1>1, <1>2 DEF Tracked, IdsKnown, FetchesHeld, Places
<1>4. ControllersUsed(v) /\ RequestsApart(v) /\ AbortedAreOld(v)
  BY <1>1 DEF Tracked, ControllersUsed, RequestsApart, AbortedAreOld
<1>5. PendingIsQuiet(v)
  BY <1>1 DEF Tracked, PendingIsQuiet, Places
<1> QED
  BY <1>3, <1>4, <1>5 DEF Tracked, AbortedStay

\* restore_typed_route_normal: the retained runtime comes back one generation on
\* and what it had in flight is aborted.
LEMMA RestoreTracked ==
    ASSUME NEW w, Good(w), Tracked(w), Present(w, "retained")
    PROVE  Tracked(Restore(w)) /\ AbortedStay(w, Restore(w))
<1> DEFINE r == w.runtimes["retained"]
           s == w.runtimes["shown"]
<1>0. PICK v : v = Restore(w)
  OBVIOUS
<1>1. /\ v.typedGeneration = w.typedGeneration
      /\ v.runtimes["shown"] = Quieted(r)
      /\ v.runtimes["retained"] = Absent
      /\ v.fetches = {Aborted(Aborted(f, r), s) : f \in w.fetches}
  BY <1>0, WorldOf, RestoreWorld
<1>2. r \in Runtime /\ s \in Runtime /\ r.graph = "normal" /\ s.graph = "pending"
  BY WorldOf DEF Places, Good, CoverShape
<1>3. /\ Quieted(r).id = r.id /\ Quieted(r).generation = r.generation + 1
      /\ Quieted(r).controllers = {} /\ Quieted(r).graph = "normal"
  BY <1>2 DEF Quieted, Runtime
<1>4. Present(v, "shown") /\ ~Present(v, "retained") /\ Controllers(v, "shown") = {}
  BY <1>1, <1>3 DEF Present, Absent, Controllers
<1>5. s.controllers = {}
  BY <1>2 DEF Tracked, PendingIsQuiet, Controllers
<1>6. ASSUME NEW f \in w.fetches
      PROVE  LET g == Aborted(Aborted(f, r), s)
             IN  /\ g.aborted /\ g.holder = f.holder /\ g.generation = f.generation
                 /\ f.aborted => g = f
  <2>1. f \in Fetch
    BY WorldOf
  <2>2. PICK a : a = Aborted(f, r)
    OBVIOUS
  <2>3. /\ a \in Fetch /\ a.holder = f.holder /\ a.generation = f.generation
        /\ a.aborted <=> f.aborted \/ (f.holder = r.id /\ f.request \in r.controllers)
        /\ f.aborted => a = f
    BY <1>2, <2>1, <2>2, AbortedKeeps
  <2>4. a.aborted
    <3>1. CASE f.aborted
      BY <2>3, <3>1
    <3>2. CASE ~f.aborted
      <4>1. PICK p \in Places : HeldBy(w, f, p)
        BY <3>2 DEF Tracked, FetchesHeld
      <4>2. p = "retained"
        BY <1>5, <4>1 DEF HeldBy, Controllers, Places
      <4> QED
        BY <2>3, <4>1, <4>2 DEF HeldBy, Controllers
    <3> QED
      BY <3>1, <3>2
  <2>5. /\ Aborted(a, s).aborted /\ Aborted(a, s).holder = a.holder
        /\ Aborted(a, s).generation = a.generation /\ Aborted(a, s) = a
    BY <1>2, <2>3, <2>4, AbortedKeeps
  <2> QED
    BY <2>2, <2>3, <2>5
<1>7. ASSUME NEW f \in w.fetches
      PROVE  f.generation < r.generation + 1
  <2>1. CASE f.aborted
    <3>1. f.generation < r.generation
      BY <2>1 DEF Tracked, AbortedAreOld, Places
    <3> QED
      BY <3>1, WorldOf DEF Places
  <2>2. CASE ~f.aborted
    <3>1. PICK p \in Places : HeldBy(w, f, p)
      BY <2>2 DEF Tracked, FetchesHeld
    <3>2. p = "retained"
      BY <1>5, <3>1 DEF HeldBy, Controllers, Places
    <3>3. f.generation = r.generation
      BY <3>1, <3>2 DEF HeldBy
    <3> QED
      BY <3>3, WorldOf DEF Places
  <2> QED
    BY <2>1, <2>2
<1>8. IdsKnown(v)
  <2>1. r.id <= w.typedGeneration /\ \A f \in w.fetches : f.holder <= w.typedGeneration
    BY DEF Tracked, IdsKnown, Places
  <2> QED
    BY <1>1, <1>3, <1>4, <1>6, <2>1 DEF IdsKnown, Places
<1>9. \A f \in v.fetches : f.aborted /\ f.generation < r.generation + 1
  BY <1>1, <1>6, <1>7
<1>10. FetchesHeld(v) /\ RequestsApart(v)
  BY <1>9 DEF FetchesHeld, RequestsApart
<1>11. ControllersUsed(v)
  BY <1>4 DEF ControllersUsed, Places
<1>12. AbortedAreOld(v)
  BY <1>1, <1>3, <1>4, <1>9 DEF AbortedAreOld, Places
<1>13. PendingIsQuiet(v)
  BY <1>1, <1>3 DEF PendingIsQuiet
<1>14. AbortedStay(w, v)
  BY <1>1, <1>6 DEF AbortedStay
<1> QED
  BY <1>0, <1>8, <1>10, <1>11, <1>12, <1>13, <1>14 DEF Tracked

\* At most the queue and the reload flag of the runtime at p have changed.
Reflagged(w, v, p) ==
    /\ v.typedGeneration = w.typedGeneration /\ v.fetches = w.fetches
    /\ v.phase = w.phase /\ v.lastRun = w.lastRun /\ v.loaderData = w.loaderData
    /\ v.runtimes[p].graph = w.runtimes[p].graph
    /\ v.runtimes[p].generation = w.runtimes[p].generation
    /\ v.runtimes[p].controllers = w.runtimes[p].controllers
    /\ v.runtimes[p].id = w.runtimes[p].id
    /\ \A q \in Places : q # p => v.runtimes[q] = w.runtimes[q]

\* The flags of a runtime hold no fetch.
LEMMA FlagsTracked ==
    ASSUME NEW w, Good(w), Tracked(w), NEW p \in Places, NEW v, Reflagged(w, v, p),
           w.runtimes[p].graph = "pending" => ~v.runtimes[p].queued
    PROVE  Tracked(v) /\ AbortedStay(w, v)
<1>3. /\ v.typedGeneration = w.typedGeneration /\ v.fetches = w.fetches
      /\ \A q \in Places : q # p => v.runtimes[q] = w.runtimes[q]
  BY DEF Reflagged
<1>4. \A q \in Places : /\ v.runtimes[q].id = w.runtimes[q].id
                        /\ v.runtimes[q].generation = w.runtimes[q].generation
                        /\ Controllers(v, q) = Controllers(w, q)
                        /\ v.runtimes[q].graph = w.runtimes[q].graph
                        /\ Present(v, q) <=> Present(w, q)
  BY <1>3 DEF Reflagged, Present, Controllers
<1>5. \A f, q : q \in Places => (HeldBy(v, f, q) <=> HeldBy(w, f, q))
  BY <1>4 DEF HeldBy
<1>6. IdsKnown(v)
  <2>1. "shown" \in Places /\ "retained" \in Places
    BY DEF Places
  <2> QED
    BY <1>3, <1>4, <2>1 DEF Tracked, IdsKnown
<1>7. FetchesHeld(v)
  BY <1>3, <1>5 DEF Tracked, FetchesHeld
<1>8. ControllersUsed(v) /\ RequestsApart(v) /\ AbortedAreOld(v)
  BY <1>3, <1>4 DEF Tracked, ControllersUsed, RequestsApart, AbortedAreOld
<1>9. PendingIsQuiet(v)
  <2>1. CASE p = "shown"
    BY <1>3, <1>4, <2>1 DEF Tracked, PendingIsQuiet, Places
  <2>2. CASE p # "shown"
    BY <1>3, <1>4, <2>2 DEF Tracked, PendingIsQuiet, Places
  <2> QED
    BY <2>1, <2>2
<1> QED
  BY <1>3, <1>6, <1>7, <1>8, <1>9 DEF Tracked, AbortedStay

\* A request id is new to its runtime, so a new fetch has a controller to itself.
LEMMA StartFetchTracked ==
    ASSUME NEW w, Good(w), Tracked(w), NEW p \in Places, Present(w, p),
           w.runtimes[p].graph # "pending",
           NEW kind, NEW run, NEW nth
    PROVE  Tracked(StartFetch(w, p, kind, run, nth)) /\ AbortedStay(w, StartFetch(w, p, kind, run, nth))
<1> DEFINE r == w.runtimes[p]
<1>0. PICK v : v = StartFetch(w, p, kind, run, nth)
  OBVIOUS
<1>n. PICK new : new = NewFetch(w, p, kind, run, nth)
  OBVIOUS
<1>1. /\ v.typedGeneration = w.typedGeneration /\ v.fetches = w.fetches \union {new}
      /\ v.runtimes[p] = Registered(r)
      /\ \A q \in Places : q # p => v.runtimes[q] = w.runtimes[q]
  BY <1>0, <1>n, WorldOf DEF StartFetch, World
<1>2. /\ new.holder = r.id /\ new.request = r.nextFetch + 1 /\ new.generation = r.generation
      /\ new.aborted = FALSE
  BY <1>n DEF NewFetch
<1>3. /\ Registered(r).id = r.id /\ Registered(r).generation = r.generation
      /\ Registered(r).controllers = r.controllers \union {r.nextFetch + 1}
      /\ Registered(r).graph = r.graph
  BY WorldOf DEF Registered, Runtime
<1>4. \A q \in Places : /\ v.runtimes[q].id = w.runtimes[q].id
                        /\ v.runtimes[q].generation = w.runtimes[q].generation
                        /\ v.runtimes[q].graph = w.runtimes[q].graph
                        /\ Controllers(w, q) \subseteq Controllers(v, q)
                        /\ Present(v, q) <=> Present(w, q)
  BY <1>1, <1>3 DEF Present, Controllers
<1>5. /\ Controllers(v, p) = Controllers(w, p) \union {new.request}
      /\ \A q \in Places : q # p => Controllers(v, q) = Controllers(w, q)
  BY <1>1, <1>2, <1>3 DEF Controllers
<1>6. ASSUME NEW f \in w.fetches, ~f.aborted, f.holder = new.holder
      PROVE  f.request # new.request
  <2>1. PICK q \in Places : HeldBy(w, f, q)
    BY <1>6 DEF Tracked, FetchesHeld
  <2>2. q = p
    BY <1>2, <1>6, <2>1, TwoPlaces DEF HeldBy
  <2>3. f.request \in Controllers(w, p) /\ f.request <= r.nextFetch
    BY <2>1, <2>2 DEF HeldBy, Good, RequestsFresh
  <2>4. r.nextFetch \in Nat /\ f.request \in Nat
    BY WorldOf DEF Runtime, Fetch
  <2> QED
    BY <1>2, <2>3, <2>4
<1>7. IdsKnown(v)
  <2>1. "shown" \in Places /\ "retained" \in Places
    BY DEF Places
  <2>2. new.holder <= w.typedGeneration
    BY <1>2 DEF Tracked, IdsKnown
  <2> QED
    BY <1>1, <1>4, <2>1, <2>2 DEF Tracked, IdsKnown
<1>8. FetchesHeld(v)
  <2>1. HeldBy(v, new, p)
    BY <1>2, <1>4, <1>5 DEF HeldBy
  <2>2. \A f \in w.fetches, q \in Places : HeldBy(w, f, q) => HeldBy(v, f, q)
    BY <1>4 DEF HeldBy
  <2> QED
    BY <1>1, <2>1, <2>2 DEF Tracked, FetchesHeld
<1>9. ControllersUsed(v)
  <2> SUFFICES ASSUME NEW q \in Places, Present(v, q), NEW c \in Controllers(v, q)
               PROVE  \E f \in v.fetches : ~f.aborted /\ f.holder = v.runtimes[q].id /\ f.request = c
    BY DEF ControllersUsed
  <2>1. CASE c \in Controllers(w, q)
    BY <1>1, <1>4, <2>1 DEF Tracked, ControllersUsed
  <2>2. CASE c \notin Controllers(w, q)
    BY <1>1, <1>2, <1>4, <1>5, <2>2
  <2> QED
    BY <2>1, <2>2
<1>10. RequestsApart(v)
  BY <1>1, <1>6 DEF Tracked, RequestsApart
<1>11. AbortedAreOld(v)
  BY <1>1, <1>2, <1>4 DEF Tracked, AbortedAreOld
<1>12. PendingIsQuiet(v)
  <2>1. CASE p = "shown"
    BY <1>4, <2>1 DEF PendingIsQuiet
  <2>2. CASE p # "shown"
    BY <1>1, <1>5, <2>2 DEF Tracked, PendingIsQuiet, Places
  <2> QED
    BY <2>1, <2>2
<1>13. AbortedStay(w, v)
  BY <1>1 DEF AbortedStay
<1> QED
  BY <1>0, <1>7, <1>8, <1>9, <1>10, <1>11, <1>12, <1>13 DEF Tracked

\* A fetch that a live runtime answers to was not aborted, and is that one's.
LEMMA AnswersFacts ==
    ASSUME NEW w, Good(w), Tracked(w), NEW f \in w.fetches, NEW p \in Places,
           Answers(w, p, f.generation)
    PROVE  ~f.aborted /\ HeldBy(w, f, p) /\ w.runtimes[p].graph # "pending"
<1>1. Present(w, p) /\ w.runtimes[p].generation = f.generation
  BY DEF Answers
<1>2. ~f.aborted
  BY <1>1, WorldOf DEF Tracked, AbortedAreOld
<1>3. PICK q \in Places : HeldBy(w, f, q)
  BY <1>2 DEF Tracked, FetchesHeld
<1>4. q = p
  BY <1>1, <1>3, TwoPlaces DEF HeldBy
<1>5. p = "shown" => w.runtimes[p].graph # "pending"
  BY <1>3, <1>4 DEF HeldBy, Tracked, PendingIsQuiet
<1>6. p = "retained" => w.runtimes[p].graph # "pending"
  BY <1>1 DEF Good, CoverShape
<1> QED
  BY <1>2, <1>3, <1>4, <1>5, <1>6 DEF Places

\* A fetch that nobody answers to was aborted.
LEMMA StaleIsAborted ==
    ASSUME NEW w, Good(w), Tracked(w), NEW f \in w.fetches,
           \A p \in Places : ~Answers(w, p, f.generation)
    PROVE  f.aborted
<1> SUFFICES ASSUME ~f.aborted PROVE FALSE
  OBVIOUS
<1>1. PICK p \in Places : HeldBy(w, f, p)
  BY DEF Tracked, FetchesHeld
<1>2. p = "retained" => Present(w, "shown")
  BY <1>1 DEF HeldBy, Good, CoverShape, Present
<1>3. p = "retained" => w.runtimes["shown"].generation # f.generation
  BY <1>1, <1>2, TwoPlaces DEF HeldBy, Places
<1> QED
  BY <1>1, <1>3 DEF Answers, HeldBy

\* Its settling takes nothing from a live runtime.
LEMMA StaleTracked ==
    ASSUME NEW w, Good(w), Tracked(w), NEW f \in w.fetches, f.aborted,
           NEW v, v.runtimes = w.runtimes, v.fetches = w.fetches \ {f},
           v.typedGeneration = w.typedGeneration
    PROVE  Tracked(v)
<1>1. \A p \in Places : (Present(v, p) <=> Present(w, p)) /\ Controllers(v, p) = Controllers(w, p)
  BY DEF Present, Controllers
<1>2. \A g, p : HeldBy(v, g, p) <=> HeldBy(w, g, p)
  BY DEF HeldBy, Present, Controllers
<1>3. IdsKnown(v) /\ FetchesHeld(v)
  BY <1>1, <1>2 DEF Tracked, IdsKnown, FetchesHeld, Places
<1>4. ControllersUsed(v) /\ RequestsApart(v) /\ AbortedAreOld(v)
  BY <1>1 DEF Tracked, ControllersUsed, RequestsApart, AbortedAreOld
<1>5. PendingIsQuiet(v)
  BY <1>1 DEF Tracked, PendingIsQuiet, Places
<1> QED
  BY <1>3, <1>4, <1>5 DEF Tracked

\* A settled fetch leaves together with its controller.
LEMMA ReleasedTracked ==
    ASSUME NEW w, Good(w), Tracked(w), NEW f \in w.fetches, NEW p \in Places,
           Answers(w, p, f.generation)
    PROVE  LET v == Release([w EXCEPT !.fetches = @ \ {f}], p, f.request)
           IN  /\ Tracked(v)
               /\ v.runtimes[p].graph # "pending"
               /\ \A g \in w.fetches : g.aborted => g \in v.fetches
<1> DEFINE r == w.runtimes[p]
<1>0. PICK v : v = Release([w EXCEPT !.fetches = @ \ {f}], p, f.request)
  OBVIOUS
<1>h. ~f.aborted /\ HeldBy(w, f, p) /\ r.graph # "pending"
  BY AnswersFacts
<1>1. /\ v.typedGeneration = w.typedGeneration /\ v.fetches = w.fetches \ {f}
      /\ v.runtimes[p] = [r EXCEPT !.controllers = @ \ {f.request}]
      /\ \A q \in Places : q # p => v.runtimes[q] = w.runtimes[q]
  BY <1>0, <1>h, WorldOf DEF Release, World, HeldBy, Controllers
<1>2. /\ v.runtimes[p].id = r.id /\ v.runtimes[p].generation = r.generation
      /\ v.runtimes[p].graph = r.graph /\ v.runtimes[p].queued = r.queued
      /\ v.runtimes[p].controllers = r.controllers \ {f.request}
  BY <1>1, WorldOf DEF Runtime
<1>4. \A q \in Places : /\ v.runtimes[q].id = w.runtimes[q].id
                        /\ v.runtimes[q].generation = w.runtimes[q].generation
                        /\ v.runtimes[q].graph = w.runtimes[q].graph
                        /\ v.runtimes[q].queued = w.runtimes[q].queued
                        /\ Present(v, q) <=> Present(w, q)
  BY <1>1, <1>2 DEF Present
<1>5. /\ Controllers(v, p) = Controllers(w, p) \ {f.request}
      /\ \A q \in Places : q # p => Controllers(v, q) = Controllers(w, q)
  BY <1>1, <1>2 DEF Controllers
<1>6. IdsKnown(v)
  <2>1. "shown" \in Places /\ "retained" \in Places
    BY DEF Places
  <2> QED
    BY <1>1, <1>4, <2>1 DEF Tracked, IdsKnown
<1>7. FetchesHeld(v)
  <2> SUFFICES ASSUME NEW g \in w.fetches, g # f, ~g.aborted
               PROVE  \E q \in Places : HeldBy(v, g, q)
    BY <1>1 DEF FetchesHeld
  <2>1. PICK q \in Places : HeldBy(w, g, q)
    BY DEF Tracked, FetchesHeld
  <2>2. q = p => g.request # f.request
    BY <1>h, <2>1 DEF HeldBy, Tracked, RequestsApart
  <2>3. HeldBy(v, g, q)
    BY <1>4, <1>5, <2>1, <2>2 DEF HeldBy
  <2> QED
    BY <2>3
<1>8. ControllersUsed(v)
  <2> SUFFICES ASSUME NEW q \in Places, Present(v, q), NEW c \in Controllers(v, q)
               PROVE  \E g \in v.fetches : ~g.aborted /\ g.holder = v.runtimes[q].id /\ g.request = c
    BY DEF ControllersUsed
  <2>1. PICK g \in w.fetches : ~g.aborted /\ g.holder = w.runtimes[q].id /\ g.request = c
    BY <1>4, <1>5 DEF Tracked, ControllersUsed
  <2>2. g # f
    <3>1. CASE q = p
      BY <1>5, <2>1, <3>1
    <3>2. CASE q # p
      BY <1>h, <1>4, <2>1, <3>2, TwoPlaces DEF HeldBy
    <3> QED
      BY <3>1, <3>2
  <2> QED
    BY <1>1, <1>4, <2>1, <2>2
<1>9. RequestsApart(v) /\ AbortedAreOld(v)
  BY <1>1, <1>4 DEF Tracked, RequestsApart, AbortedAreOld
<1>10. PendingIsQuiet(v)
  <2>1. Controllers(v, "shown") \subseteq Controllers(w, "shown")
    BY <1>5 DEF Places
  <2> QED
    BY <1>4, <2>1 DEF Tracked, PendingIsQuiet, Places
<1> QED
  BY <1>0, <1>h, <1>1, <1>2, <1>6, <1>7, <1>8, <1>9, <1>10 DEF Tracked

(***************************************************************************)
(* The order of the loader runs                                            *)
(***************************************************************************)

\* No loader run can still commit.
AllOver(w) == \A f \in w.fetches : f.kind = "loader" => RunIsOver(w, f)

\* Fetches may leave.
LEMMA SameOrdered ==
    ASSUME NEW w, Ordered(w), NEW v, v.runtimes = w.runtimes, v.fetches \subseteq w.fetches,
           v.lastRun = w.lastRun, v.loaderData = w.loaderData
    PROVE  Ordered(v)
BY DEF Ordered, RunIsCurrent, RunIsOver, Present

\* Runs commit only from behind a cover.
LEMMA RunsOver ==
    ASSUME NEW w, Good(w), Ordered(w), ~Present(w, "retained")
    PROVE  AllOver(w)
BY DEF Ordered, RunIsCurrent, AllOver

\* Dropping a runtime ends the runs it waited for.
LEMMA DropOrdered ==
    ASSUME NEW w, Good(w), Ordered(w), NEW p \in Places,
           p = "shown" => ~Present(w, "retained")
    PROVE  Ordered(Drop(w, p))
<1> DEFINE r == w.runtimes[p]
<1>0. PICK v : v = Drop(w, p)
  OBVIOUS
<1>1. /\ v.typedGeneration = w.typedGeneration
      /\ v.runtimes[p] = Absent
      /\ \A q \in Places : q # p => v.runtimes[q] = w.runtimes[q]
      /\ v.fetches = {Aborted(f, r) : f \in w.fetches}
      /\ v.lastRun = w.lastRun /\ v.loaderData = w.loaderData
  BY <1>0, WorldOf, DropWorld
<1>2. \A f \in w.fetches :
         /\ Aborted(f, r).generation = f.generation
         /\ Aborted(f, r).kind = f.kind /\ Aborted(f, r).run = f.run
  BY WorldOf, AbortedKeeps
<1>3. ~Present(v, p) /\ \A q \in Places : q # p => (Present(v, q) <=> Present(w, q))
  BY <1>1 DEF Present, Absent
<1>4. ~Present(v, "retained")
  BY <1>3 DEF Places
<1>5. ASSUME NEW f \in w.fetches, f.kind = "loader", NEW q \in Places, Present(v, q)
      PROVE  f.generation < v.runtimes[q].generation
  <2>1. q # p /\ Present(w, q) /\ v.runtimes[q] = w.runtimes[q]
    BY <1>1, <1>3, <1>5
  <2>2. CASE RunIsOver(w, f)
    BY <2>1, <2>2 DEF RunIsOver
  <2>3. CASE RunIsCurrent(w, f)
    <3>1. Present(w, "retained") /\ p = "retained" /\ q = "shown"
      BY <2>1, <2>3 DEF RunIsCurrent, Places
    <3>2. /\ w.runtimes["shown"].generation = w.typedGeneration + 1
          /\ w.runtimes["retained"].generation <= w.typedGeneration
      BY <3>1 DEF Good, GenerationsBounded
    <3>3. f.generation = w.runtimes["retained"].generation
      BY <2>3 DEF RunIsCurrent
    <3>4. f.generation <= w.typedGeneration
      BY <3>2, <3>3
    <3> QED
      BY <2>1, <3>1, <3>2, <3>4, WorldOf
  <2> QED
    BY <1>5, <2>2, <2>3 DEF Ordered
<1>6. \A f \in v.fetches : f.kind = "loader" => RunIsOver(v, f)
  <2>1. \A f \in w.fetches : f.kind = "loader" => RunIsOver(v, Aborted(f, r))
    BY <1>2, <1>5 DEF RunIsOver
  <2> QED
    BY <1>1, <1>2, <2>1
<1> QED
  BY <1>0, <1>1, <1>4, <1>6 DEF Ordered

\* A runtime mounted on an empty outlet answers to no earlier fetch.
LEMMA ShowOrdered ==
    ASSUME NEW w, Good(w), Ordered(w), NEW graph, \A p \in Places : ~Present(w, p)
    PROVE  Ordered(Show(w, graph))
<1>0. PICK v : v = Show(w, graph)
  OBVIOUS
<1>1. /\ v.runtimes["shown"] = Fresh(w, graph) /\ v.runtimes["retained"] = w.runtimes["retained"]
      /\ v.fetches = w.fetches /\ v.lastRun = w.lastRun /\ v.loaderData = w.loaderData
  BY <1>0, WorldOf, ShowWorld
<1>2. v.runtimes["shown"].generation = w.typedGeneration + 2
  BY <1>1 DEF Fresh
<1>3. ~Present(v, "retained") /\ \A p \in Places : Present(v, p) => p = "shown"
  BY <1>1 DEF Present, Places
<1>4. \A f \in w.fetches : f.generation < w.typedGeneration + 2
  BY WorldOf DEF Good, FetchesBounded
<1>5. \A f \in v.fetches : RunIsOver(v, f)
  BY <1>1, <1>2, <1>3, <1>4 DEF RunIsOver
<1> QED
  BY <1>0, <1>1, <1>3, <1>5 DEF Ordered

\* A run begins when no other can commit any more.
LEMMA CoverOrdered ==
    ASSUME NEW w, Good(w), AllOver(w), w.runtimes["shown"].graph = "normal",
           w.loaderData.n < w.lastRun
    PROVE  Ordered(Cover(w, "pending"))
<1>0. PICK v : v = Cover(w, "pending")
  OBVIOUS
<1>1. /\ v.runtimes["shown"] = Fresh(w, "pending") /\ v.runtimes["retained"] = w.runtimes["shown"]
      /\ v.fetches = w.fetches /\ v.lastRun = w.lastRun /\ v.loaderData = w.loaderData
  BY <1>0, WorldOf, CoverWorld
<1>2. v.runtimes["shown"].generation = w.typedGeneration + 2
  BY <1>1 DEF Fresh
<1>3. \A f \in w.fetches : f.generation < w.typedGeneration + 2
  BY WorldOf DEF Good, FetchesBounded
<1>4. Present(w, "shown")
  BY DEF Present
<1>5. \A f \in w.fetches : f.kind = "loader" => f.generation < w.runtimes["shown"].generation
  BY <1>4 DEF AllOver, RunIsOver, Places
<1>6. \A f \in v.fetches : f.kind = "loader" => RunIsOver(v, f)
  BY <1>1, <1>2, <1>3, <1>5 DEF RunIsOver, Places
<1>7. v.loaderData.n <= v.lastRun /\ v.loaderData.n < v.lastRun
  <2>1. w.loaderData.n \in Nat /\ w.lastRun \in Nat
    BY WorldOf DEF World, Run
  <2> QED
    BY <1>1, <2>1
<1> QED
  BY <1>0, <1>6, <1>7 DEF Ordered

\* Putting the normal runtime back ends the run it waited for.
LEMMA RestoreOrdered ==
    ASSUME NEW w, Good(w), Present(w, "retained"), w.loaderData.n <= w.lastRun,
           \A f \in w.fetches : f.kind = "loader" => RunIsCurrent(w, f) \/ RunIsOver(w, f)
    PROVE  Ordered(Restore(w)) /\ ~Present(Restore(w), "retained")
<1> DEFINE r == w.runtimes["retained"]
           s == w.runtimes["shown"]
<1>0. PICK v : v = Restore(w)
  OBVIOUS
<1>1. /\ v.runtimes["shown"] = Quieted(r) /\ v.runtimes["retained"] = Absent
      /\ v.fetches = {Aborted(Aborted(f, r), s) : f \in w.fetches}
      /\ v.lastRun = w.lastRun /\ v.loaderData = w.loaderData
  BY <1>0, WorldOf, RestoreWorld
<1>2. r \in Runtime /\ s \in Runtime /\ r.generation \in Nat
  BY WorldOf DEF Places
<1>3. Quieted(r).generation = r.generation + 1
  BY <1>2, QuietedType
<1>4. ~Present(v, "retained") /\ \A p \in Places : Present(v, p) => p = "shown"
  BY <1>1 DEF Present, Absent, Places
<1>5. ASSUME NEW f \in w.fetches
      PROVE  LET g == Aborted(Aborted(f, r), s)
             IN  g.kind = f.kind /\ g.generation = f.generation
  <2>1. PICK a : a = Aborted(f, r)
    OBVIOUS
  <2>2. a \in Fetch /\ a.kind = f.kind /\ a.generation = f.generation
    BY <1>2, <2>1, WorldOf, AbortedKeeps
  <2>3. Aborted(a, s).kind = a.kind /\ Aborted(a, s).generation = a.generation
    BY <1>2, <2>2, AbortedKeeps
  <2> QED
    BY <2>1, <2>2, <2>3
<1>6. ASSUME NEW f \in w.fetches, f.kind = "loader"
      PROVE  f.generation < r.generation + 1
  <2>1. f.generation = r.generation \/ f.generation < r.generation
    BY <1>6 DEF RunIsCurrent, RunIsOver, Places
  <2> QED
    BY <1>2, <2>1, WorldOf
<1>7. \A f \in v.fetches : f.kind = "loader" => RunIsOver(v, f)
  BY <1>1, <1>3, <1>4, <1>5, <1>6 DEF RunIsOver
<1> QED
  BY <1>0, <1>1, <1>4, <1>7 DEF Ordered

\* Of a runtime only its generation and graph matter.
LEMMA RuntimeOrdered ==
    ASSUME NEW w, Ordered(w), NEW v, v.fetches \subseteq w.fetches,
           v.lastRun = w.lastRun, v.loaderData = w.loaderData,
           \A p \in Places : v.runtimes[p].generation = w.runtimes[p].generation
                             /\ v.runtimes[p].graph = w.runtimes[p].graph
    PROVE  Ordered(v)
<1>1. \A p \in Places : Present(v, p) <=> Present(w, p)
  BY DEF Present
<1>2. \A f : (RunIsCurrent(v, f) <=> RunIsCurrent(w, f)) /\ (RunIsOver(v, f) <=> RunIsOver(w, f))
  BY <1>1 DEF RunIsCurrent, RunIsOver, Places
<1> QED
  BY <1>1, <1>2 DEF Ordered, Places

\* A loader fetch starts on the retained runtime, for the last run.
LEMMA StartFetchOrdered ==
    ASSUME NEW w, Good(w), Ordered(w), NEW p \in Places, Present(w, p),
           NEW kind, NEW run, NEW nth,
           kind = "loader" => p = "retained" /\ run.n = w.lastRun
    PROVE  Ordered(StartFetch(w, p, kind, run, nth))
<1> DEFINE r == w.runtimes[p]
<1>0. PICK v : v = StartFetch(w, p, kind, run, nth)
  OBVIOUS
<1>n. PICK new : new = NewFetch(w, p, kind, run, nth)
  OBVIOUS
<1>1. /\ v.fetches = w.fetches \union {new}
      /\ v.runtimes[p] = Registered(r)
      /\ \A q \in Places : q # p => v.runtimes[q] = w.runtimes[q]
      /\ v.lastRun = w.lastRun /\ v.loaderData = w.loaderData
  BY <1>0, <1>n, WorldOf DEF StartFetch, World
<1>2. new.kind = kind /\ new.generation = r.generation /\ new.run = run
  BY <1>n DEF NewFetch
<1>3. Registered(r).generation = r.generation /\ Registered(r).graph = r.graph
  BY WorldOf, RegisteredType
<1>4. \A q \in Places : v.runtimes[q].generation = w.runtimes[q].generation
                        /\ v.runtimes[q].graph = w.runtimes[q].graph
                        /\ (Present(v, q) <=> Present(w, q))
  BY <1>1, <1>3 DEF Present
<1>5. \A f : (RunIsCurrent(v, f) <=> RunIsCurrent(w, f)) /\ (RunIsOver(v, f) <=> RunIsOver(w, f))
  BY <1>1, <1>4 DEF RunIsCurrent, RunIsOver, Places
<1>6. kind = "loader" => RunIsCurrent(w, new)
  BY <1>2 DEF RunIsCurrent
<1> QED
  BY <1>0, <1>1, <1>2, <1>4, <1>5, <1>6 DEF Ordered, Places

(***************************************************************************)
(* Fetches and runs together, call by call                                 *)
(***************************************************************************)

\* What a world keeps beyond Good, as far as the constants allow it.
Linked(w) ==
    /\ QuietPending => Tracked(w)
    /\ Covering => Ordered(w)

Stay(w, v) == QuietPending => AbortedStay(w, v)

\* Aborted fetches stay through a chain of calls.
LEMMA StayOn ==
    ASSUME NEW u, NEW v, NEW w, Stay(u, v), Stay(v, w)
    PROVE  Stay(u, w)
BY DEF Stay, AbortedStay

\* A call that touches neither runtimes nor fetches.
LEMMA PatchLinked ==
    ASSUME NEW w, Linked(w), NEW v, v.runtimes = w.runtimes, v.fetches = w.fetches,
           v.typedGeneration = w.typedGeneration
    PROVE  /\ v.lastRun = w.lastRun /\ v.loaderData = w.loaderData => Linked(v)
           /\ QuietPending => Tracked(v)
           /\ Stay(w, v)
BY SameTracked, SameOrdered DEF Linked, Stay

\* invalidate_fetches and take.
LEMMA DropLinked ==
    ASSUME NEW w, Good(w), Linked(w), NEW p \in Places,
           p = "shown" => ~Present(w, "retained")
    PROVE  LET v == Drop(w, p)
           IN  Linked(v) /\ Stay(w, v) /\ v.lastRun = w.lastRun /\ v.loaderData = w.loaderData
<1>1. QuietPending => Tracked(Drop(w, p)) /\ AbortedStay(w, Drop(w, p))
  BY DropTracked DEF Linked
<1>2. Covering => Ordered(Drop(w, p))
  BY DropOrdered DEF Linked
<1>3. Drop(w, p).lastRun = w.lastRun /\ Drop(w, p).loaderData = w.loaderData
  BY WorldOf, DropWorld
<1> QED
  BY <1>1, <1>2, <1>3 DEF Linked, Stay

\* Mounting a graph on an empty outlet.
LEMMA ShowLinked ==
    ASSUME NEW w, Good(w), Linked(w), NEW graph \in Graphs \ {"none", "pending"},
           \A p \in Places : ~Present(w, p)
    PROVE  LET v == Show(w, graph)
           IN  /\ Linked(v) /\ Stay(w, v) /\ v.lastRun = w.lastRun /\ v.loaderData = w.loaderData
               /\ v.phase = w.phase /\ v.runtimes["shown"].graph = graph
<1>1. QuietPending => Tracked(Show(w, graph)) /\ AbortedStay(w, Show(w, graph))
  BY ShowTracked DEF Linked
<1>2. Covering => Ordered(Show(w, graph))
  BY ShowOrdered DEF Linked
<1>3. /\ Show(w, graph).lastRun = w.lastRun /\ Show(w, graph).loaderData = w.loaderData
      /\ Show(w, graph).phase = w.phase /\ Show(w, graph).runtimes["shown"] = Fresh(w, graph)
  BY WorldOf, ShowWorld
<1>4. Fresh(w, graph).graph = graph
  BY DEF Fresh
<1> QED
  BY <1>1, <1>2, <1>3, <1>4 DEF Linked, Stay

\* show_typed_route_graph(preserve_loader = false).
LEMMA ReplaceLinked ==
    ASSUME NEW w, Good(w), Linked(w), NEW graph \in Graphs \ {"none", "pending"},
           ~Present(w, "retained")
    PROVE  LET v == Replace(w, graph)
           IN  /\ Linked(v) /\ Stay(w, v) /\ v.lastRun = w.lastRun /\ v.loaderData = w.loaderData
               /\ v.phase = w.phase /\ v.runtimes["shown"].graph = graph
<1>1. PICK d : d = Drop(w, "shown")
  OBVIOUS
<1>2. Good(d) /\ Linked(d) /\ Stay(w, d) /\ d.lastRun = w.lastRun /\ d.loaderData = w.loaderData
  BY <1>1, DropGood, DropLinked DEF Places
<1>3. d.phase = w.phase /\ \A p \in Places : ~Present(d, p)
  <2>1. d.phase = w.phase /\ (Present(d, "retained") <=> Present(w, "retained"))
    BY <1>1, DropFields DEF Places
  <2>2. ~Present(d, "shown")
    BY <1>1, DropGood DEF Places
  <2> QED
    BY <2>1, <2>2 DEF Places
<1>4. PICK v : v = Show(d, graph)
  OBVIOUS
<1>5. /\ Linked(v) /\ Stay(d, v) /\ v.lastRun = d.lastRun /\ v.loaderData = d.loaderData
      /\ v.phase = d.phase /\ v.runtimes["shown"].graph = graph
  BY <1>2, <1>3, <1>4, ShowLinked
<1>6. Stay(w, v)
  BY <1>2, <1>5, StayOn
<1> QED
  BY <1>1, <1>2, <1>3, <1>4, <1>5, <1>6 DEF Replace

\* show_typed_route_error and show_typed_route_not_found.
LEMMA ShowBoundaryLinked ==
    ASSUME NEW w, Good(w), Linked(w), NEW boundary \in {"error", "notFound"},
           NEW declared \in BOOLEAN
    PROVE  LET v == ShowBoundary(w, boundary, declared)
           IN  /\ Linked(v) /\ Stay(w, v) /\ v.lastRun = w.lastRun /\ v.loaderData = w.loaderData
               /\ declared => PhaseShown(v)
<1>1. PICK d : d = Drop(w, "retained")
  OBVIOUS
<1>2. Good(d) /\ Linked(d) /\ Stay(w, d) /\ d.lastRun = w.lastRun /\ d.loaderData = w.loaderData
      /\ ~Present(d, "retained")
  BY <1>1, DropGood, DropLinked DEF Places
<1>3. PICK quiet : quiet = [d EXCEPT !.phase = boundary]
  OBVIOUS
<1>4. /\ quiet \in World
      /\ quiet.typedGeneration = d.typedGeneration /\ quiet.slots = d.slots
      /\ quiet.runtimes = d.runtimes /\ quiet.mounted = d.mounted
      /\ quiet.fetches = d.fetches /\ quiet.loaderData = d.loaderData
      /\ quiet.lastRun = d.lastRun /\ quiet.phase = boundary
  BY <1>2, <1>3 DEF Good, World, Phases
<1>5. Good(quiet) /\ ~Present(quiet, "retained")
  BY <1>2, <1>4, PatchGood DEF Good, DataOwned, Present
<1>6. Linked(quiet) /\ Stay(w, quiet)
  <2>1. Linked(quiet) /\ Stay(d, quiet)
    BY <1>2, <1>4, PatchLinked
  <2> QED
    BY <1>2, <2>1, StayOn
<1>7. PICK v : v = Replace(quiet, boundary)
  OBVIOUS
<1>8. /\ Linked(v) /\ Stay(quiet, v) /\ v.lastRun = quiet.lastRun /\ v.loaderData = quiet.loaderData
      /\ v.phase = boundary /\ v.runtimes["shown"].graph = boundary
  BY <1>4, <1>5, <1>6, <1>7, ReplaceLinked DEF Graphs
<1>9. PhaseShown(v) /\ Stay(w, v)
  BY <1>6, <1>8, StayOn DEF PhaseShown
<1>10. ShowBoundary(w, boundary, declared) = IF declared THEN v ELSE quiet
  BY <1>1, <1>3, <1>7 DEF ShowBoundary
<1> QED
  BY <1>2, <1>4, <1>6, <1>8, <1>9, <1>10

\* dispose_typed_instance.
LEMMA UnmountLinked ==
    ASSUME NEW w, Good(w), Linked(w)
    PROVE  LET v == Unmount(w)
           IN  Linked(v) /\ Stay(w, v) /\ v.lastRun = w.lastRun /\ v.loaderData = NoRun /\ PhaseShown(v)
<1>1. PICK d : d = Drop(w, "retained")
  OBVIOUS
<1>2. Good(d) /\ Linked(d) /\ Stay(w, d) /\ d.lastRun = w.lastRun /\ d.loaderData = w.loaderData
      /\ ~Present(d, "retained")
  BY <1>1, DropGood, DropLinked DEF Places
<1>3. PICK e : e = Drop(d, "shown")
  OBVIOUS
<1>4. Good(e) /\ Linked(e) /\ Stay(d, e) /\ e.lastRun = d.lastRun
  BY <1>2, <1>3, DropGood, DropLinked DEF Places
<1>5. PICK v : v = [e EXCEPT !.phase = "normal", !.loaderData = NoRun]
  OBVIOUS
<1>6. /\ v.typedGeneration = e.typedGeneration /\ v.runtimes = e.runtimes /\ v.fetches = e.fetches
      /\ v.lastRun = e.lastRun /\ v.loaderData = NoRun
  BY <1>4, <1>5 DEF Good, World
<1>7. Unmount(w) = v
  BY <1>1, <1>3, <1>5 DEF Unmount
<1>8. \A p \in Places : ~Present(v, p)
  BY <1>7, UnmountGood
<1>9. (QuietPending => Tracked(v)) /\ Stay(e, v)
  BY <1>4, <1>6, PatchLinked
<1>10. Covering => Ordered(v)
  <2>1. v.loaderData.n <= v.lastRun
    <3>1. e.lastRun \in Nat
      BY <1>4, WorldOf DEF World
    <3>2. NoRun.n = 0
      BY DEF NoRun
    <3>3. v.loaderData.n = 0 /\ v.lastRun = e.lastRun
      BY <1>6, <3>2
    <3> QED
      BY <3>1, <3>3
  <2> QED
    BY <1>8, <2>1 DEF Ordered, RunIsOver, Places
<1>11. PhaseShown(v)
  BY <1>8 DEF PhaseShown, Places
<1> QED
  BY <1>2, <1>4, <1>6, <1>7, <1>9, <1>10, <1>11, StayOn DEF Linked

\* mount_typed_graph: the loader can run on it.
LEMMA MountLinked ==
    ASSUME NEW w, Good(w), Linked(w), NEW s \in Queries, \A p \in Places : ~Present(w, p)
    PROVE  LET v == Mount(w, s)
           IN  /\ Linked(v) /\ Stay(w, v) /\ v.lastRun = w.lastRun /\ v.loaderData = NoRun
               /\ CanRun(v)
<1>1. PICK d : d = Show(w, "normal")
  OBVIOUS
<1>2. Good(d) /\ d.runtimes["shown"].graph = "normal" /\ ~Present(d, "retained")
  BY <1>1, ShowGood DEF Graphs
<1>3. Linked(d) /\ Stay(w, d) /\ d.lastRun = w.lastRun /\ d.loaderData = w.loaderData
  BY <1>1, ShowLinked DEF Graphs
<1>4. PICK v : v = Mount(w, s)
  OBVIOUS
<1>5. /\ v.typedGeneration = d.typedGeneration /\ v.runtimes = d.runtimes /\ v.fetches = d.fetches
      /\ v.lastRun = d.lastRun /\ v.loaderData = NoRun
  BY <1>1, <1>2, <1>4 DEF Mount, Good, World
<1>6. (QuietPending => Tracked(v)) /\ Stay(d, v)
  BY <1>3, <1>5, PatchLinked
<1>7. Covering => Ordered(v)
  <2>1. v.loaderData.n <= v.lastRun
    <3>1. d.lastRun \in Nat
      BY <1>2, WorldOf DEF World
    <3>2. NoRun.n = 0
      BY DEF NoRun
    <3>3. v.loaderData.n = 0 /\ v.lastRun = d.lastRun
      BY <1>5, <3>2
    <3> QED
      BY <3>1, <3>3
  <2>2. Covering => \A f \in v.fetches : f.kind = "loader" => RunIsOver(v, f)
    BY <1>2, <1>3, <1>5 DEF Linked, Ordered, RunIsCurrent, RunIsOver, Present
  <2> QED
    BY <1>2, <1>5, <2>1, <2>2 DEF Ordered, Present
<1> QED
  BY <1>2, <1>3, <1>4, <1>5, <1>6, <1>7, StayOn DEF Linked, CanRun

\* The end of a load without data.
LEMMA UncoverLinked ==
    ASSUME NEW w, Good(w), Linked(w)
    PROVE  LET v == Uncover(w)
           IN  /\ Linked(v) /\ Stay(w, v) /\ v.lastRun = w.lastRun /\ v.loaderData = w.loaderData
               /\ Present(w, "retained") \/ PhaseShown(w) => PhaseShown(v)
<1>1. CASE Present(w, "retained")
  <2>1. PICK v : v = Restore(w)
    OBVIOUS
  <2>2. Uncover(w) = v
    BY <1>1, <2>1 DEF Uncover
  <2>3. QuietPending => Tracked(v) /\ AbortedStay(w, v)
    BY <1>1, <2>1, RestoreTracked DEF Linked
  <2>4. Covering => Ordered(v)
    BY <1>1, <2>1, RestoreOrdered DEF Linked, Ordered
  <2>5. /\ v.lastRun = w.lastRun /\ v.loaderData = w.loaderData /\ v.phase = "normal"
        /\ v.runtimes["shown"] = Quieted(w.runtimes["retained"])
    BY <2>1, WorldOf, RestoreWorld
  <2>6. w.runtimes["retained"].graph = "normal" /\ w.runtimes["retained"] \in Runtime
    BY <1>1, WorldOf DEF Good, CoverShape, Places
  <2>7. PhaseShown(v)
    BY <2>5, <2>6, QuietedType DEF PhaseShown
  <2> QED
    BY <2>2, <2>3, <2>4, <2>5, <2>7 DEF Linked, Stay
<1>2. CASE ~Present(w, "retained")
  BY <1>2 DEF Uncover, Stay, AbortedStay
<1> QED
  BY <1>1, <1>2

\* Writing the data of a run of this mount.
LEMMA DataGood ==
    ASSUME NEW w, Good(w), NEW run \in Run, run.mount = w.mounted
    PROVE  LET v == [w EXCEPT !.loaderData = run]
           IN  /\ Good(v) /\ v.loaderData = run
               /\ v.typedGeneration = w.typedGeneration /\ v.runtimes = w.runtimes
               /\ v.fetches = w.fetches /\ v.phase = w.phase /\ v.lastRun = w.lastRun
<1>1. PICK v : v = [w EXCEPT !.loaderData = run]
  OBVIOUS
<1>2. /\ v \in World /\ v.loaderData = run
      /\ v.typedGeneration = w.typedGeneration /\ v.slots = w.slots
      /\ v.runtimes = w.runtimes /\ v.mounted = w.mounted
      /\ v.fetches = w.fetches /\ v.phase = w.phase /\ v.lastRun = w.lastRun
  BY <1>1 DEF Good, World
<1>3. Good(v)
  BY <1>2, PatchGood DEF Good, CoverShape
<1> QED
  BY <1>1, <1>2, <1>3

\* The end of a load with data: it is committed and the cover goes, which ends
\* the run.  Between the two the data is that of the run still under way.
LEMMA SuccessLinked ==
    ASSUME NEW w, Good(w), Linked(w), NEW run \in Run, run.mount = w.mounted,
           Covering => Present(w, "retained") /\ run.n = w.lastRun
    PROVE  LET v == Uncover([w EXCEPT !.loaderData = run])
           IN  /\ Linked(v) /\ Stay(w, v) /\ v.lastRun = w.lastRun /\ v.loaderData = run
               /\ Covering => PhaseShown(v)
<1>1. PICK u : u = [w EXCEPT !.loaderData = run]
  OBVIOUS
<1>2. /\ Good(u) /\ u.loaderData = run
      /\ u.typedGeneration = w.typedGeneration /\ u.runtimes = w.runtimes
      /\ u.fetches = w.fetches /\ u.phase = w.phase /\ u.lastRun = w.lastRun
  BY <1>1, DataGood
<1>3. (QuietPending => Tracked(u)) /\ Stay(w, u)
  BY <1>2, PatchLinked
<1>4. CASE ~Covering
  <2>1. Linked(u)
    BY <1>3, <1>4 DEF Linked
  <2>2. PICK v : v = Uncover(u)
    OBVIOUS
  <2>3. Linked(v) /\ Stay(u, v) /\ v.lastRun = u.lastRun /\ v.loaderData = u.loaderData
    BY <1>2, <2>1, <2>2, UncoverLinked
  <2>4. Stay(w, v)
    BY <1>3, <2>3, StayOn
  <2> QED
    BY <1>1, <1>2, <1>4, <2>2, <2>3, <2>4
<1>5. CASE Covering
  <2>1. PICK v : v = Restore(u)
    OBVIOUS
  <2>2. Present(u, "retained") /\ Uncover(u) = v
    BY <1>2, <1>5, <2>1 DEF Present, Uncover
  <2>3. (QuietPending => Tracked(v)) /\ Stay(u, v)
    BY <1>2, <1>3, <2>1, <2>2, RestoreTracked DEF Stay
  <2>4. Ordered(v)
    <3>1. u.loaderData.n <= u.lastRun
      <4>1. w.lastRun \in Nat
        BY WorldOf DEF World
      <4> QED
        BY <1>2, <1>5, <4>1
    <3>2. Ordered(w)
      BY <1>5 DEF Linked
    <3>3. \A f \in u.fetches : f.kind = "loader" => RunIsCurrent(u, f) \/ RunIsOver(u, f)
      BY <1>2, <3>2 DEF Ordered, RunIsCurrent, RunIsOver, Present
    <3> QED
      BY <1>2, <2>1, <2>2, <3>1, <3>3, RestoreOrdered
  <2>5. /\ v.lastRun = u.lastRun /\ v.loaderData = u.loaderData /\ v.phase = "normal"
        /\ v.runtimes["shown"] = Quieted(u.runtimes["retained"])
    BY <1>2, <2>1, WorldOf, RestoreWorld
  <2>6. u.runtimes["retained"].graph = "normal" /\ u.runtimes["retained"] \in Runtime
    BY <1>2, <2>2, WorldOf DEF Good, CoverShape, Places
  <2>7. PhaseShown(v)
    BY <2>5, <2>6, QuietedType DEF PhaseShown
  <2>8. Stay(w, v)
    BY <1>3, <2>3, StayOn
  <2> QED
    BY <1>1, <1>2, <2>2, <2>3, <2>4, <2>5, <2>7, <2>8 DEF Linked
<1> QED
  BY <1>4, <1>5

\* complete_shared_route_loader: every outcome.
LEMMA CompleteLoaderLinked ==
    ASSUME NEW w, Good(w), Linked(w), NEW run \in Run, run.mount = w.mounted,
           NEW outcome \in Outcomes,
           Covering => Present(w, "retained") /\ run.n = w.lastRun
    PROVE  LET v == CompleteLoader(w, run, outcome)
           IN  /\ Linked(v) /\ Stay(w, v) /\ v.lastRun = w.lastRun
               /\ v.loaderData = w.loaderData \/ v.loaderData = NoRun \/ v.loaderData = run
               /\ AllDeclared => PhaseShown(v)
<1>0. HasError \in BOOLEAN /\ HasNotFound \in BOOLEAN
  BY GraphsAssumption
<1>1. CASE outcome = "success"
  BY <1>1, SuccessLinked DEF CompleteLoader, AllDeclared
<1>2. CASE outcome = "failure"
  BY <1>0, <1>2, ShowBoundaryLinked DEF CompleteLoader, ShowError, AllDeclared
<1>3. PICK u : u = Uncover(w)
  OBVIOUS
<1>4. /\ Good(u) /\ Linked(u) /\ Stay(w, u) /\ u.lastRun = w.lastRun /\ u.loaderData = w.loaderData
      /\ Covering => PhaseShown(u)
  BY <1>3, UncoverGood, UncoverLinked
<1>5. CASE outcome = "redirectRefused"
  BY <1>3, <1>4, <1>5 DEF CompleteLoader, AllDeclared
<1>6. PICK gone : gone = Unmount(u)
  OBVIOUS
<1>7. Linked(gone) /\ Stay(w, gone) /\ gone.lastRun = w.lastRun /\ gone.loaderData = NoRun
      /\ PhaseShown(gone)
  BY <1>4, <1>6, UnmountLinked, StayOn
<1>8. CASE outcome = "redirect"
  BY <1>3, <1>6, <1>7, <1>8 DEF CompleteLoader
<1>9. CASE outcome = "notFound"
  <2>1. CASE ~HasNotFound
    BY <1>3, <1>6, <1>7, <1>9, <2>1 DEF CompleteLoader
  <2>2. CASE HasNotFound
    <3>1. PICK v : v = ShowNotFound(u)
      OBVIOUS
    <3>2. Linked(v) /\ Stay(u, v) /\ v.lastRun = u.lastRun /\ v.loaderData = u.loaderData
          /\ PhaseShown(v)
      BY <1>0, <1>4, <2>2, <3>1, ShowBoundaryLinked DEF ShowNotFound
    <3>3. Stay(w, v)
      BY <1>4, <3>2, StayOn
    <3> QED
      BY <1>3, <1>4, <1>9, <2>2, <3>1, <3>2, <3>3 DEF CompleteLoader
  <2> QED
    BY <1>0, <2>1, <2>2
<1> QED
  BY <1>1, <1>2, <1>5, <1>8, <1>9 DEF Outcomes

\* A run begins; when it is covered, it is the only one.
LEMMA BeginLinked ==
    ASSUME NEW w, Good(w), Linked(w), NEW s \in Queries, CanRun(w)
    PROVE  LET v == Begin(w, s)
           IN  /\ Linked(v) /\ Stay(w, v) /\ v.lastRun = w.lastRun + 1 /\ v.loaderData = w.loaderData
               /\ Present(v, "retained") \/ v.runtimes["shown"].graph = "normal"
               /\ Covering => Present(v, "retained")
<1>1. PICK u : u = [w EXCEPT !.lastRun = @ + 1, !.search = s, !.phase = "loading"]
  OBVIOUS
<1>2. w.lastRun \in Nat /\ w.loaderData.n \in Nat /\ w.runtimes["shown"].graph = "normal"
  BY WorldOf DEF World, Run, CanRun
<1>3. /\ u.typedGeneration = w.typedGeneration /\ u.slots = w.slots
      /\ u.runtimes = w.runtimes /\ u.mounted = w.mounted
      /\ u.fetches = w.fetches /\ u.loaderData = w.loaderData
      /\ u.phase = "loading" /\ u.lastRun = w.lastRun + 1
  BY <1>1, WorldOf DEF World
<1>4. u \in World
  <2>1. w.lastRun + 1 \in Nat /\ "loading" \in Phases
    BY <1>2 DEF Phases
  <2>2. w \in World
    BY WorldOf
  <2> QED
    BY <1>1, <2>1, <2>2 DEF World
<1>5. Good(u)
  BY <1>3, <1>4, PatchGood DEF Good, DataOwned
<1>6. (QuietPending => Tracked(u)) /\ Stay(w, u)
  BY <1>3, PatchLinked
<1>7. ~Present(w, "retained") /\ ~Present(u, "retained")
  BY <1>2, <1>3 DEF Good, CoverShape, Present
<1>8. CASE ~Covering
  <2>1. Begin(w, s) = u
    BY <1>1, <1>8 DEF Begin, Covering
  <2> QED
    BY <1>2, <1>3, <1>6, <1>8, <2>1 DEF Linked
<1>9. CASE Covering
  <2>1. PICK v : v = Cover(u, "pending")
    OBVIOUS
  <2>2. Begin(w, s) = v
    BY <1>1, <1>9, <2>1 DEF Begin, Covering
  <2>3. (QuietPending => Tracked(v)) /\ Stay(u, v)
    BY <1>2, <1>3, <1>5, <1>6, <1>7, <1>9, <2>1, CoverTracked DEF QuietPending, Stay
  <2>4. Ordered(v)
    <3>1. AllOver(u)
      <4>1. AllOver(w)
        BY <1>7, <1>9, RunsOver DEF Linked
      <4> QED
        BY <1>3, <4>1 DEF AllOver, RunIsOver, Present
    <3>2. u.loaderData.n < u.lastRun
      BY <1>2, <1>3, <1>9 DEF Linked, Ordered
    <3> QED
      BY <1>2, <1>3, <1>5, <2>1, <3>1, <3>2, CoverOrdered
  <2>5. v.lastRun = u.lastRun /\ v.loaderData = u.loaderData
    BY <1>4, <2>1, CoverWorld
  <2>6. Present(v, "retained")
    BY <1>2, <1>3, <1>5, <2>1, CoverGood
  <2> QED
    BY <1>3, <1>6, <2>2, <2>3, <2>4, <2>5, <2>6, StayOn DEF Linked
<1> QED
  BY <1>8, <1>9

\* A fetch starts.
LEMMA StartFetchLinked ==
    ASSUME NEW w, Good(w), Linked(w), NEW p \in Places, Present(w, p),
           QuietPending => w.runtimes[p].graph # "pending",
           NEW kind, NEW run, NEW nth,
           Covering => (kind = "loader" => p = "retained" /\ run.n = w.lastRun)
    PROVE  LET v == StartFetch(w, p, kind, run, nth)
           IN  /\ Linked(v) /\ Stay(w, v) /\ v.lastRun = w.lastRun /\ v.loaderData = w.loaderData
               /\ PhaseShown(w) => PhaseShown(v)
               /\ \A q \in Places : v.runtimes[q].graph = w.runtimes[q].graph
<1>1. PICK v : v = StartFetch(w, p, kind, run, nth)
  OBVIOUS
<1>2. QuietPending => Tracked(v) /\ AbortedStay(w, v)
  BY <1>1, StartFetchTracked DEF Linked
<1>3. Covering => Ordered(v)
  BY <1>1, StartFetchOrdered DEF Linked
<1>4. /\ v.lastRun = w.lastRun /\ v.loaderData = w.loaderData /\ v.phase = w.phase
      /\ v.runtimes[p] = Registered(w.runtimes[p])
      /\ \A q \in Places : q # p => v.runtimes[q] = w.runtimes[q]
  BY <1>1, WorldOf DEF StartFetch, World
<1>5. Registered(w.runtimes[p]).graph = w.runtimes[p].graph
  BY WorldOf, RegisteredType
<1>6. \A q \in Places : v.runtimes[q].graph = w.runtimes[q].graph
  BY <1>4, <1>5
<1>7. PhaseShown(w) => PhaseShown(v)
  BY <1>4, <1>6 DEF PhaseShown, Present, Places
<1> QED
  BY <1>1, <1>2, <1>3, <1>4, <1>6, <1>7 DEF Linked, Stay

\* ... unless the limit is reached.
LEMMA TryFetchLinked ==
    ASSUME NEW w, Good(w), Linked(w), NEW p \in Places, Present(w, p),
           QuietPending => w.runtimes[p].graph # "pending",
           NEW kind, NEW run, NEW nth,
           Covering => (kind = "loader" => p = "retained" /\ run.n = w.lastRun)
    PROVE  LET v == TryFetch(w, p, kind, run, nth)
           IN  /\ Linked(v) /\ Stay(w, v) /\ v.lastRun = w.lastRun /\ v.loaderData = w.loaderData
               /\ PhaseShown(w) => PhaseShown(v)
<1>1. CASE CanAcquire(w)
  BY <1>1, StartFetchLinked DEF TryFetch
<1>2. CASE ~CanAcquire(w)
  BY <1>2 DEF TryFetch, Stay, AbortedStay
<1> QED
  BY <1>1, <1>2

\* run_typed_loader: any data it commits at once is of a new run, and afterwards
\* the screen shows the phase even if it did not before the loader was found.
LEMMA RunLoaderLinked ==
    ASSUME NEW w, Good(w), Linked(w), NEW s \in Queries, NEW start \in Starts
    PROVE  LET v == RunLoader(w, s, start)
           IN  /\ Linked(v) /\ Stay(w, v)
               /\ AllDeclared => (CanRun(w) \/ PhaseShown(w) => PhaseShown(v))
               /\ v.loaderData = w.loaderData \/ v.loaderData = NoRun
                  \/ v.loaderData.n > w.lastRun
<1>1. CASE ~CanRun(w)
  BY <1>1 DEF RunLoader, Stay, AbortedStay
<1>2. CASE CanRun(w)
  <2>1. PICK run : run = [n |-> w.lastRun + 1, search |-> s, mount |-> w.mounted]
    OBVIOUS
  <2>2. w.lastRun \in Nat /\ w.mounted \in Nat
    BY WorldOf DEF World
  <2>3. run \in Run /\ run.mount = w.mounted /\ run.n = w.lastRun + 1
    BY <2>1, <2>2 DEF Run
  <2>4. PICK begun : begun = Begin(w, s)
    OBVIOUS
  <2>5. /\ Linked(begun) /\ Stay(w, begun) /\ begun.lastRun = w.lastRun + 1
        /\ begun.loaderData = w.loaderData
        /\ Present(begun, "retained") \/ begun.runtimes["shown"].graph = "normal"
        /\ Covering => Present(begun, "retained")
    BY <1>2, <2>4, BeginLinked
  <2>6. Good(begun) /\ begun.mounted = w.mounted
    BY <1>2, <2>4, BeginGood
  <2>7. PICK p : p = IF Present(begun, "retained") THEN "retained" ELSE "shown"
    OBVIOUS
  <2>8. RunLoader(w, s, start) =
           IF start # "suspends" THEN CompleteLoader(begun, run, start)
           ELSE IF CanAcquire(begun) THEN StartFetch(begun, p, "loader", run, 1)
           ELSE ShowError(begun)
    BY <1>2, <2>1, <2>4, <2>7 DEF RunLoader
  <2>9. CASE start # "suspends"
    <3>1. PICK v : v = CompleteLoader(begun, run, start)
      OBVIOUS
    <3>2. /\ Linked(v) /\ Stay(begun, v)
          /\ v.loaderData = begun.loaderData \/ v.loaderData = NoRun \/ v.loaderData = run
          /\ AllDeclared => PhaseShown(v)
      BY <2>3, <2>5, <2>6, <2>9, <3>1, CompleteLoaderLinked DEF Starts
    <3>3. run.n > w.lastRun
      BY <2>2, <2>3
    <3>4. Stay(w, v)
      BY <2>5, <3>2, StayOn
    <3> QED
      BY <2>5, <2>8, <2>9, <3>1, <3>2, <3>3, <3>4
  <2>10. CASE start = "suspends" /\ CanAcquire(begun)
    <3>1. PICK v : v = StartFetch(begun, p, "loader", run, 1)
      OBVIOUS
    <3>2. /\ p \in Places /\ Present(begun, p) /\ begun.runtimes[p].graph # "pending"
          /\ Covering => p = "retained" /\ run.n = begun.lastRun
      BY <2>3, <2>5, <2>6, <2>7 DEF Places, Present, Good, CoverShape
    <3>3. /\ Linked(v) /\ Stay(begun, v) /\ v.loaderData = begun.loaderData
          /\ PhaseShown(begun) => PhaseShown(v)
      BY <2>5, <2>6, <3>1, <3>2, StartFetchLinked
    <3>4. Covering => PhaseShown(begun)
      BY <2>5, <2>6 DEF PhaseShown, Good, CoverShape
    <3>5. Stay(w, v)
      BY <2>5, <3>3, StayOn
    <3> QED
      BY <2>5, <2>8, <2>10, <3>1, <3>3, <3>4, <3>5 DEF AllDeclared
  <2>11. CASE start = "suspends" /\ ~CanAcquire(begun)
    <3>1. PICK v : v = ShowError(begun)
      OBVIOUS
    <3>2. /\ Linked(v) /\ Stay(begun, v) /\ v.loaderData = begun.loaderData
          /\ HasError => PhaseShown(v)
      BY <2>5, <2>6, <3>1, GraphsAssumption, ShowBoundaryLinked DEF ShowError
    <3>3. Stay(w, v)
      BY <2>5, <3>2, StayOn
    <3> QED
      BY <2>5, <2>8, <2>11, <3>1, <3>2, <3>3 DEF AllDeclared
  <2> QED
    BY <2>9, <2>10, <2>11
<1> QED
  BY <1>1, <1>2

\* An action that queues a fetch or asks for a reload.
LEMMA FlagsLinked ==
    ASSUME NEW w, Good(w), Linked(w), NEW p \in Places, NEW v, Reflagged(w, v, p),
           QuietPending => (w.runtimes[p].graph = "pending" => ~v.runtimes[p].queued)
    PROVE  /\ Linked(v) /\ Stay(w, v)
           /\ PhaseShown(w) => PhaseShown(v)
<1>1. QuietPending => Tracked(v) /\ AbortedStay(w, v)
  BY FlagsTracked DEF Linked
<1>2. \A q \in Places : v.runtimes[q].generation = w.runtimes[q].generation
                        /\ v.runtimes[q].graph = w.runtimes[q].graph
  BY DEF Reflagged
<1>3. Covering => Ordered(v)
  BY <1>2, RuntimeOrdered DEF Linked, Reflagged
<1>4. PhaseShown(w) => PhaseShown(v)
  BY <1>2 DEF PhaseShown, Present, Places, Reflagged
<1> QED
  BY <1>1, <1>3, <1>4 DEF Linked, Stay

\* complete_typed_action starts what was queued.
LEMMA StartQueuedLinked ==
    ASSUME NEW w, Good(w), Linked(w)
    PROVE  LET v == StartQueued(w)
           IN  /\ Linked(v) /\ Stay(w, v) /\ v.loaderData = w.loaderData
               /\ PhaseShown(w) => PhaseShown(v)
<1>1. CASE ~Present(w, "shown")
  <2>1. PICK v : v = [w EXCEPT !.faulted = TRUE]
    OBVIOUS
  <2>2. /\ v.typedGeneration = w.typedGeneration /\ v.runtimes = w.runtimes
        /\ v.fetches = w.fetches /\ v.phase = w.phase /\ v.lastRun = w.lastRun
        /\ v.loaderData = w.loaderData
    BY <2>1, WorldOf DEF World
  <2>3. Linked(v) /\ Stay(w, v)
    BY <2>2, PatchLinked
  <2>4. PhaseShown(w) => PhaseShown(v)
    BY <2>2 DEF PhaseShown, Present
  <2> QED
    BY <1>1, <2>1, <2>2, <2>3, <2>4 DEF StartQueued
<1>2. CASE Present(w, "shown") /\ ~w.runtimes["shown"].queued
  BY <1>2 DEF StartQueued, Stay, AbortedStay
<1>3. CASE Present(w, "shown") /\ w.runtimes["shown"].queued
  <2>1. PICK taken : taken = [w EXCEPT !.runtimes["shown"].queued = FALSE]
    OBVIOUS
  <2>2. w.runtimes["shown"] \in Runtime /\ w.runtimes["shown"].reload \in BOOLEAN
        /\ "shown" \in Places
    BY WorldOf DEF Runtime, Places
  <2>3. taken = [w EXCEPT !.runtimes["shown"] =
                    [w.runtimes["shown"] EXCEPT !.queued = FALSE,
                                                !.reload = w.runtimes["shown"].reload]]
    BY <2>1, <2>2, WorldOf DEF World, Runtime
  <2>4. Good(taken)
    BY <1>3, <2>2, <2>3, FlagsGood
  <2>5. /\ Linked(taken) /\ Stay(w, taken) /\ taken.loaderData = w.loaderData
        /\ PhaseShown(w) => PhaseShown(taken)
        /\ taken.runtimes["shown"].graph = w.runtimes["shown"].graph
    <3>1. Reflagged(w, taken, "shown") /\ ~taken.runtimes["shown"].queued
      BY <2>1, <2>2, WorldOf DEF Reflagged, World, Runtime
    <3>2. Linked(taken) /\ Stay(w, taken) /\ (PhaseShown(w) => PhaseShown(taken))
      BY <2>2, <3>1, FlagsLinked
    <3> QED
      BY <3>1, <3>2 DEF Reflagged
  <2>6. QuietPending => w.runtimes["shown"].graph # "pending"
    BY <1>3 DEF Linked, Tracked, PendingIsQuiet
  <2>7. PICK v : v = TryFetch(taken, "shown", "action", NoRun, 1)
    OBVIOUS
  <2>8. /\ Linked(v) /\ Stay(taken, v) /\ v.loaderData = taken.loaderData
        /\ PhaseShown(taken) => PhaseShown(v)
    <3>1. Present(taken, "shown")
      BY <1>3, <2>5 DEF Present
    <3> QED
      BY <2>2, <2>4, <2>5, <2>6, <2>7, <3>1, TryFetchLinked
  <2>9. StartQueued(w) = v
    BY <1>3, <2>1, <2>7 DEF StartQueued
  <2> QED
    BY <2>5, <2>8, <2>9, StayOn
<1> QED
  BY <1>1, <1>2, <1>3

(***************************************************************************)
(* One step                                                                *)
(***************************************************************************)

\* From w to v loader data changes to a newer run's, or goes.
InOrder(w, v) ==
    v.loaderData = w.loaderData \/ v.loaderData = NoRun \/ v.loaderData.n > w.loaderData.n

\* All that is known of a world between two tasks,
Sound(w) == Good(w) /\ Linked(w) /\ (AllDeclared => PhaseShown(w))

\* and the inductive invariant.
FullInv == Sound(Now) /\ inputs \in Nat

\* What one task may make of a world.
Advance(w, v) == Sound(v) /\ (Covering => InOrder(w, v))

\* Data of a run that begins now is newer than any committed before.
LEMMA RunInOrder ==
    ASSUME NEW w, Sound(w), NEW v, Sound(v), NEW u, u.lastRun = w.lastRun,
           u.loaderData = w.loaderData \/ u.loaderData = NoRun,
           v.loaderData = u.loaderData \/ v.loaderData = NoRun \/ v.loaderData.n > u.lastRun
    PROVE  Advance(w, v)
<1>1. CASE Covering /\ v.loaderData.n > w.lastRun
  <2>1. w.loaderData.n <= w.lastRun
    BY <1>1 DEF Sound, Linked, Ordered
  <2>2. w.lastRun \in Nat /\ w.loaderData.n \in Nat /\ v.loaderData.n \in Nat
    BY WorldOf DEF Sound, World, Run
  <2>3. v.loaderData.n > w.loaderData.n
    BY <1>1, <2>1, <2>2
  <2> QED
    BY <2>3 DEF Advance, InOrder
<1>2. CASE ~Covering \/ ~(v.loaderData.n > w.lastRun)
  BY <1>2 DEF Advance, InOrder
<1> QED
  BY <1>1, <1>2

\* navigate_typed_route to another match.
LEMMA EnterStep ==
    ASSUME NEW w, Sound(w), NEW s \in Queries, NEW start \in Starts
    PROVE  LET v == RunLoader(Mount(Unmount(w), s), s, start)
           IN  Advance(w, v) /\ Stay(w, v)
<1>1. PICK gone : gone = Unmount(w)
  OBVIOUS
<1>2. /\ Good(gone) /\ Linked(gone) /\ Stay(w, gone) /\ gone.lastRun = w.lastRun
      /\ \A p \in Places : ~Present(gone, p)
  BY <1>1, UnmountGood, UnmountLinked DEF Sound
<1>3. PICK m : m = Mount(gone, s)
  OBVIOUS
<1>4. Good(m) /\ Linked(m) /\ Stay(gone, m) /\ m.lastRun = gone.lastRun /\ m.loaderData = NoRun /\ CanRun(m)
  BY <1>2, <1>3, MountGood, MountLinked
<1>5. PICK v : v = RunLoader(m, s, start)
  OBVIOUS
<1>6. /\ Good(v) /\ Linked(v) /\ Stay(m, v)
      /\ AllDeclared => PhaseShown(v)
      /\ v.loaderData = m.loaderData \/ v.loaderData = NoRun \/ v.loaderData.n > m.lastRun
  BY <1>4, <1>5, RunLoaderGood, RunLoaderLinked
<1>7. Stay(w, v)
  BY <1>2, <1>4, <1>6, StayOn
<1>8. Advance(w, v)
  BY <1>2, <1>4, <1>6, RunInOrder DEF Sound
<1> QED
  BY <1>1, <1>3, <1>5, <1>7, <1>8

\* run_typed_loader as a task.
LEMMA RunStep ==
    ASSUME NEW w, Sound(w), NEW s \in Queries, NEW start \in Starts
    PROVE  LET v == RunLoader(w, s, start)
           IN  Advance(w, v) /\ Stay(w, v)
<1>1. PICK v : v = RunLoader(w, s, start)
  OBVIOUS
<1>2. /\ Good(v) /\ Linked(v) /\ Stay(w, v)
      /\ AllDeclared => PhaseShown(v)
      /\ v.loaderData = w.loaderData \/ v.loaderData = NoRun \/ v.loaderData.n > w.lastRun
  BY <1>1, RunLoaderGood, RunLoaderLinked DEF Sound
<1>3. Advance(w, v)
  BY <1>2, RunInOrder DEF Sound
<1> QED
  BY <1>1, <1>2, <1>3

\* navigate_typed_route to another query string.
LEMMA ChangeSearchStep ==
    ASSUME NEW w, Sound(w), NEW s \in Queries, NEW start \in Starts
    PROVE  LET v == RunLoader([w EXCEPT !.search = s], s, start)
           IN  Advance(w, v) /\ Stay(w, v)
<1>1. PICK u : u = [w EXCEPT !.search = s]
  OBVIOUS
<1>2. /\ u \in World
      /\ u.typedGeneration = w.typedGeneration /\ u.slots = w.slots
      /\ u.runtimes = w.runtimes /\ u.mounted = w.mounted
      /\ u.fetches = w.fetches /\ u.phase = w.phase /\ u.loaderData = w.loaderData
      /\ u.lastRun = w.lastRun
  BY <1>1 DEF Sound, Good, World
<1>3. Good(u)
  BY <1>2, PatchGood DEF Sound, Good, CoverShape, DataOwned
<1>4. Linked(u) /\ Stay(w, u)
  BY <1>2, PatchLinked DEF Sound
<1>5. AllDeclared => PhaseShown(u)
  BY <1>2 DEF Sound, PhaseShown, Present
<1>6. PICK v : v = RunLoader(u, s, start)
  OBVIOUS
<1>7. Advance(u, v) /\ Stay(u, v)
  BY <1>3, <1>4, <1>5, <1>6, RunStep DEF Sound
<1>8. Advance(w, v)
  BY <1>2, <1>7 DEF Advance, InOrder
<1>9. Stay(w, v)
  BY <1>4, <1>7, StayOn
<1> QED
  BY <1>1, <1>6, <1>8, <1>9

\* navigate_typed_route elsewhere.
LEMMA LeaveStep ==
    ASSUME NEW w, Sound(w)
    PROVE  Advance(w, Unmount(w)) /\ Stay(w, Unmount(w))
BY UnmountGood, UnmountLinked DEF Sound, Advance, InOrder

\* retry_typed_route: the normal graph is mounted before its loader runs.
LEMMA RetryStep ==
    ASSUME NEW w, Sound(w), w.runtimes["shown"].graph = "error",
           NEW s \in Queries, NEW start \in Starts
    PROVE  LET v == RunLoader(Replace(w, "normal"), s, start)
           IN  Advance(w, v) /\ Stay(w, v)
<1>1. ~Present(w, "retained")
  BY DEF Sound, Good, CoverShape
<1>2. PICK u : u = Replace(w, "normal")
  OBVIOUS
<1>3. /\ Good(u) /\ Linked(u) /\ Stay(w, u) /\ u.lastRun = w.lastRun
      /\ u.loaderData = w.loaderData /\ CanRun(u)
  BY <1>1, <1>2, ReplaceGood, ReplaceLinked DEF Sound, Graphs, CanRun
<1>4. PICK v : v = RunLoader(u, s, start)
  OBVIOUS
<1>5. /\ Good(v) /\ Linked(v) /\ Stay(u, v)
      /\ AllDeclared => PhaseShown(v)
      /\ v.loaderData = u.loaderData \/ v.loaderData = NoRun \/ v.loaderData.n > u.lastRun
  BY <1>3, <1>4, RunLoaderGood, RunLoaderLinked
<1>6. Stay(w, v)
  BY <1>3, <1>5, StayOn
<1>7. Advance(w, v)
  BY <1>3, <1>5, RunInOrder DEF Sound
<1> QED
  BY <1>2, <1>4, <1>6, <1>7

\* The synchronous part of an action.  A graph that has actions is not a pending
\* one, when those are quiet.
LEMMA ActedStep ==
    ASSUME FullInv, NEW fetch \in BOOLEAN, NEW reload \in BOOLEAN, HasActions
    PROVE  /\ Advance(Now, Acted(fetch, reload)) /\ Stay(Now, Acted(fetch, reload))
           /\ Acted(fetch, reload).loaderData = Now.loaderData
           /\ Acted(fetch, reload).lastRun = Now.lastRun
           /\ Present(Acted(fetch, reload), "shown")
           /\ QuietPending => Acted(fetch, reload).runtimes["shown"].graph # "pending"
<1>0. PICK w : w = Now
  OBVIOUS
<1>1. Sound(w) /\ w.runtimes["shown"] = runtimes["shown"]
  BY <1>0 DEF FullInv, Now
<1>2. PICK v : v = Acted(fetch, reload)
  OBVIOUS
<1>3. Good(v) /\ Present(v, "shown")
  BY <1>2, ActedGood DEF FullInv, Sound, IInv
<1>4. Reflagged(w, v, "shown")
  <2>1. PICK queued \in BOOLEAN, asked \in BOOLEAN :
            queued = (w.runtimes["shown"].queued \/ fetch) /\ asked = (w.runtimes["shown"].reload \/ reload)
    OBVIOUS
  <2>2. v = [w EXCEPT !.runtimes["shown"] =
                [w.runtimes["shown"] EXCEPT !.queued = queued, !.reload = asked]]
    BY <1>0, <1>1, <1>2, <2>1, Zenon DEF Acted
  <2>3. w \in World /\ w.runtimes["shown"] \in Runtime
    BY <1>1, WorldOf DEF Sound, Places
  <2> QED
    BY <2>2, <2>3 DEF Reflagged, World, Runtime, Places
<1>5. QuietPending => w.runtimes["shown"].graph # "pending"
  BY <1>1 DEF Sound, Linked, Tracked, PendingIsQuiet, HasActions
<1>6. Linked(v) /\ Stay(w, v) /\ (PhaseShown(w) => PhaseShown(v))
  BY <1>1, <1>4, <1>5, FlagsLinked DEF Sound, Places
<1>7. v.loaderData = w.loaderData /\ v.lastRun = w.lastRun
      /\ v.runtimes["shown"].graph = w.runtimes["shown"].graph
  BY <1>4 DEF Reflagged
<1> QED
  BY <1>0, <1>1, <1>2, <1>3, <1>5, <1>6, <1>7 DEF Advance, InOrder, Sound

\* The fetch it queued.
LEMMA QueuedStep ==
    ASSUME NEW w, Sound(w)
    PROVE  /\ Sound(StartQueued(w)) /\ Stay(w, StartQueued(w))
           /\ StartQueued(w).loaderData = w.loaderData
<1>1. Good(StartQueued(w))
  BY StartQueuedGood DEF Sound
<1>2. PICK v : v = StartQueued(w)
  OBVIOUS
<1>3. Linked(v) /\ Stay(w, v) /\ v.loaderData = w.loaderData /\ (PhaseShown(w) => PhaseShown(v))
  BY <1>2, StartQueuedLinked DEF Sound
<1> QED
  BY <1>1, <1>2, <1>3 DEF Sound

\* dispatch_typed_callbacks.
LEMMA CallbackStep ==
    ASSUME FullInv, NEW fetch \in BOOLEAN, NEW reload \in BOOLEAN, HasActions
    PROVE  LET v == StartQueued(Acted(fetch, reload))
           IN  Advance(Now, v) /\ Stay(Now, v)
<1>1. PICK acted : acted = Acted(fetch, reload)
  OBVIOUS
<1>2. Sound(acted) /\ Stay(Now, acted) /\ acted.loaderData = Now.loaderData
  BY <1>1, ActedStep DEF Advance
<1>3. PICK v : v = StartQueued(acted)
  OBVIOUS
<1>4. Sound(v) /\ Stay(acted, v) /\ v.loaderData = acted.loaderData
  BY <1>2, <1>3, QueuedStep
<1>5. Stay(Now, v) /\ Advance(Now, v)
  BY <1>2, <1>4, StayOn DEF Advance, InOrder
<1> QED
  BY <1>1, <1>3, <1>5

\* Setting or clearing the reload flag.
LEMMA ClearedStep ==
    ASSUME NEW w, Sound(w), NEW p \in Places, Present(w, p), NEW reload \in BOOLEAN,
           QuietPending => w.runtimes[p].graph # "pending"
    PROVE  LET v == [w EXCEPT !.runtimes[p].reload = reload]
           IN  Sound(v) /\ Stay(w, v) /\ v.loaderData = w.loaderData /\ v.lastRun = w.lastRun
<1>1. PICK v : v = [w EXCEPT !.runtimes[p].reload = reload]
  OBVIOUS
<1>2. w \in World /\ w.runtimes[p] \in Runtime /\ w.runtimes[p].queued \in BOOLEAN
  BY WorldOf DEF Sound, Runtime
<1>3. v = [w EXCEPT !.runtimes[p] =
              [w.runtimes[p] EXCEPT !.queued = w.runtimes[p].queued, !.reload = reload]]
  BY <1>1, <1>2 DEF World, Runtime
<1>4. Good(v)
  BY <1>2, <1>3, FlagsGood DEF Sound
<1>5. Reflagged(w, v, p)
  BY <1>1, <1>2 DEF Reflagged, World, Runtime
<1>6. Linked(v) /\ Stay(w, v) /\ (PhaseShown(w) => PhaseShown(v))
  BY <1>5, FlagsLinked DEF Sound
<1> QED
  BY <1>1, <1>4, <1>5, <1>6 DEF Sound, Reflagged

\* dispatch_typed_event: action, reload, queued fetch.
LEMMA EventStep ==
    ASSUME FullInv, NEW fetch \in BOOLEAN, NEW reload \in BOOLEAN, NEW start \in Starts,
           HasActions, NEW s \in Queries
    PROVE  LET acted == Acted(fetch, reload)
               cleared == [acted EXCEPT !.runtimes["shown"].reload = FALSE]
               v == IF ~acted.runtimes["shown"].reload THEN StartQueued(acted)
                    ELSE IF ~CanRun(cleared) THEN cleared
                    ELSE StartQueued(RunLoader(cleared, s, start))
           IN  Advance(Now, v) /\ Stay(Now, v)
<1>1. PICK acted : acted = Acted(fetch, reload)
  OBVIOUS
<1>2. /\ Sound(acted) /\ Stay(Now, acted)
      /\ acted.loaderData = Now.loaderData /\ acted.lastRun = Now.lastRun
      /\ Present(acted, "shown")
      /\ QuietPending => acted.runtimes["shown"].graph # "pending"
  BY <1>1, ActedStep DEF Advance
<1>3. PICK cleared : cleared = [acted EXCEPT !.runtimes["shown"].reload = FALSE]
  OBVIOUS
<1>4. /\ Sound(cleared) /\ Stay(acted, cleared)
      /\ cleared.loaderData = acted.loaderData /\ cleared.lastRun = acted.lastRun
  BY <1>2, <1>3, ClearedStep DEF Places
<1>5. PICK run : run = RunLoader(cleared, s, start)
  OBVIOUS
<1>6. Advance(cleared, run) /\ Stay(cleared, run)
  BY <1>4, <1>5, RunStep
<1>7. PICK v : v = StartQueued(run)
  OBVIOUS
<1>8. Sound(v) /\ Stay(run, v) /\ v.loaderData = run.loaderData
  BY <1>6, <1>7, QueuedStep DEF Advance
<1>9. Advance(Now, v) /\ Stay(Now, v)
  BY <1>2, <1>4, <1>6, <1>8, StayOn DEF Advance, InOrder
<1>10. Advance(Now, cleared) /\ Stay(Now, cleared)
  BY <1>2, <1>4, StayOn DEF Advance, InOrder
<1>11. Advance(Now, StartQueued(acted)) /\ Stay(Now, StartQueued(acted))
  BY <1>1, CallbackStep
<1> QED
  BY <1>1, <1>3, <1>5, <1>7, <1>9, <1>10, <1>11

\* A late answer nobody takes.
LEMMA StaleStep ==
    ASSUME NEW w, Sound(w), NEW f \in w.fetches,
           \A p \in Places : ~Answers(w, p, f.generation)
    PROVE  Advance(w, [w EXCEPT !.fetches = @ \ {f}])
<1>1. PICK v : v = [w EXCEPT !.fetches = @ \ {f}]
  OBVIOUS
<1>2. /\ v \in World
      /\ v.typedGeneration = w.typedGeneration /\ v.slots = w.slots
      /\ v.runtimes = w.runtimes /\ v.mounted = w.mounted
      /\ v.fetches = w.fetches \ {f} /\ v.phase = w.phase /\ v.loaderData = w.loaderData
      /\ v.lastRun = w.lastRun
  BY <1>1 DEF Sound, Good, World
<1>3. Good(v)
  BY <1>2, PatchGood DEF Sound, Good, CoverShape, DataOwned
<1>4. QuietPending => Tracked(v)
  BY <1>2, StaleIsAborted, StaleTracked DEF Sound, Linked
<1>5. Covering => Ordered(v)
  BY <1>2, SameOrdered DEF Sound, Linked
<1>6. AllDeclared => PhaseShown(v)
  BY <1>2 DEF Sound, PhaseShown, Present
<1> QED
  BY <1>1, <1>2, <1>3, <1>4, <1>5, <1>6 DEF Advance, InOrder, Sound, Linked

\* The start of every continuation: the request is over.
LEMMA ReleasedStep ==
    ASSUME NEW w, Sound(w), NEW f \in w.fetches, NEW p \in Places,
           Answers(w, p, f.generation)
    PROVE  LET v == Release([w EXCEPT !.fetches = @ \ {f}], p, f.request)
           IN  /\ Sound(v) /\ Present(v, p) /\ v.mounted = w.mounted
               /\ v.loaderData = w.loaderData /\ v.lastRun = w.lastRun
               /\ QuietPending => v.runtimes[p].graph # "pending" /\ ~f.aborted
               /\ Stay(w, v)
               /\ \A q \in Places : Present(v, q) <=> Present(w, q)
<1>1. PICK u : u = [w EXCEPT !.fetches = @ \ {f}]
  OBVIOUS
<1>2. /\ u \in World
      /\ u.typedGeneration = w.typedGeneration /\ u.slots = w.slots
      /\ u.runtimes = w.runtimes /\ u.mounted = w.mounted
      /\ u.fetches = w.fetches \ {f} /\ u.phase = w.phase /\ u.loaderData = w.loaderData
      /\ u.lastRun = w.lastRun
  BY <1>1 DEF Sound, Good, World
<1>3. Good(u)
  BY <1>2, PatchGood DEF Sound, Good, CoverShape, DataOwned
<1>4. PICK v : v = Release(u, p, f.request)
  OBVIOUS
<1>5. Good(v) /\ v.mounted = u.mounted /\ \A q \in Places : Present(v, q) <=> Present(u, q)
  BY <1>3, <1>4, ReleaseGood
<1>6. /\ v.phase = u.phase /\ v.lastRun = u.lastRun /\ v.loaderData = u.loaderData
      /\ v.fetches = u.fetches
      /\ \A q \in Places : v.runtimes[q].generation = u.runtimes[q].generation
                           /\ v.runtimes[q].graph = u.runtimes[q].graph
  <2>1. \A q \in Places : u.runtimes[q] \in Runtime
    BY <1>3, WorldOf
  <2> QED
    BY <1>2, <1>4, <2>1 DEF Release, World, Runtime
<1>7. QuietPending => /\ Tracked(v) /\ v.runtimes[p].graph # "pending" /\ ~f.aborted
                      /\ \A g \in w.fetches : g.aborted => g \in v.fetches
  BY <1>1, <1>4, ReleasedTracked, AnswersFacts DEF Sound, Linked
<1>8. Covering => Ordered(v)
  BY <1>2, <1>6, RuntimeOrdered DEF Sound, Linked
<1>9. AllDeclared => PhaseShown(v)
  BY <1>2, <1>6 DEF Sound, PhaseShown, Present, Places
<1>10. Present(u, p) /\ \A q \in Places : Present(u, q) <=> Present(w, q)
  BY <1>2 DEF Answers, Present
<1> QED
  BY <1>1, <1>2, <1>4, <1>5, <1>6, <1>7, <1>8, <1>9, <1>10 DEF Sound, Linked, Stay, AbortedStay

\* complete_typed_fetch.
LEMMA ResumedActionStep ==
    ASSUME NEW w, Sound(w), NEW f \in w.fetches, NEW p \in Places,
           Answers(w, p, f.generation), NEW step \in Steps
    PROVE  LET v == ResumeAction([w EXCEPT !.fetches = @ \ {f}], p, f, step)
           IN  Advance(w, v) /\ Stay(w, v)
<1>1. PICK r : r = Release([w EXCEPT !.fetches = @ \ {f}], p, f.request)
  OBVIOUS
<1>2. /\ Sound(r) /\ Present(r, p) /\ r.loaderData = w.loaderData
      /\ QuietPending => r.runtimes[p].graph # "pending"
      /\ Stay(w, r)
  BY <1>1, ReleasedStep
<1>3. PICK asked : asked = [r EXCEPT !.runtimes[p].reload = TRUE]
  OBVIOUS
<1>4. Sound(asked) /\ Stay(w, asked) /\ asked.loaderData = r.loaderData
  BY <1>2, <1>3, ClearedStep, StayOn
<1>5. PICK again : again = TryFetch(r, p, "action", NoRun, f.nth + 1)
  OBVIOUS
<1>6. Good(again)
  <2>1. f.nth + 1 \in Nat
    BY WorldOf DEF Sound, Fetch
  <2>2. NoRun \in Run
    BY DEF NoRun, Run, Queries
  <2> QED
    BY <1>2, <1>5, <2>1, <2>2, TryFetchGood DEF Sound
<1>7. /\ Linked(again) /\ Stay(r, again) /\ again.loaderData = r.loaderData
      /\ PhaseShown(r) => PhaseShown(again)
  BY <1>2, <1>5, TryFetchLinked DEF Sound
<1>8. Stay(w, again)
  BY <1>2, <1>7, StayOn
<1> QED
  BY <1>1, <1>2, <1>3, <1>4, <1>5, <1>6, <1>7, <1>8 DEF ResumeAction, Steps, Advance, InOrder, Sound

\* A loader fetch that is answered under a cover is of the last run, and data
\* committed before it is older.
LEMMA AnsweredRun ==
    ASSUME NEW w, Sound(w), NEW f \in w.fetches, NEW p \in Places,
           Answers(w, p, f.generation), f.kind = "loader"
    PROVE  /\ f.run \in Run /\ f.run.mount = w.mounted /\ f.nth + 1 \in Nat
           /\ Covering => /\ p = "retained" /\ f.run.n = w.lastRun
                          /\ w.loaderData.n < w.lastRun
<1>1. f \in Fetch /\ f.generation \in Nat
  BY WorldOf DEF Sound
<1>2. f.mount = w.mounted
  BY AnsweredIsCurrent DEF Sound
<1>3. f.run \in Run /\ f.run.mount = w.mounted /\ f.nth + 1 \in Nat
  BY <1>1, <1>2 DEF Sound, Good, DataOwned, Fetch
<1>4. CASE Covering
  <2>1. ~RunIsOver(w, f)
    BY <1>1 DEF Answers, RunIsOver
  <2>2. RunIsCurrent(w, f) /\ w.loaderData.n < w.lastRun
    BY <1>4, <2>1 DEF Sound, Linked, Ordered, RunIsCurrent
  <2>3. p = "retained"
    <3>1. /\ w.runtimes["shown"].generation = w.typedGeneration + 1
          /\ w.runtimes["retained"].generation <= w.typedGeneration
      BY <2>2 DEF Sound, Good, GenerationsBounded, RunIsCurrent
    <3>2. w.typedGeneration \in Nat /\ w.runtimes["retained"].generation \in Nat
      BY WorldOf DEF Sound, Places
    <3>3. w.runtimes[p].generation = w.runtimes["retained"].generation
      BY <2>2 DEF RunIsCurrent, Answers
    <3> QED
      BY <3>1, <3>2, <3>3 DEF Places
  <2> QED
    BY <1>3, <2>2, <2>3 DEF RunIsCurrent
<1> QED
  BY <1>3, <1>4

\* complete_typed_loader_fetch.
LEMMA ResumedLoaderStep ==
    ASSUME NEW w, Sound(w), NEW f \in w.fetches, NEW p \in Places,
           Answers(w, p, f.generation), f.kind = "loader", NEW step \in LoaderSteps
    PROVE  LET v == ResumeLoader([w EXCEPT !.fetches = @ \ {f}], p, f, step)
           IN  Advance(w, v) /\ Stay(w, v)
<1>1. PICK r : r = Release([w EXCEPT !.fetches = @ \ {f}], p, f.request)
  OBVIOUS
<1>2. /\ Sound(r) /\ Present(r, p) /\ r.mounted = w.mounted
      /\ r.loaderData = w.loaderData /\ r.lastRun = w.lastRun
      /\ QuietPending => r.runtimes[p].graph # "pending"
      /\ Stay(w, r)
  BY <1>1, ReleasedStep
<1>3. /\ f.run \in Run /\ f.run.mount = r.mounted /\ f.nth + 1 \in Nat
      /\ Covering => /\ p = "retained" /\ f.run.n = r.lastRun
                     /\ w.loaderData.n < w.lastRun
  BY <1>2, AnsweredRun
<1>4. CASE step = "machineError"
  <2>1. ResumeLoader([w EXCEPT !.fetches = @ \ {f}], p, f, step) = r
    BY <1>1, <1>4 DEF ResumeLoader, Outcomes
  <2> QED
    BY <1>2, <2>1 DEF Advance, InOrder
<1>5. CASE step = "again"
  <2>1. PICK v : v = TryFetch(r, p, "loader", f.run, f.nth + 1)
    OBVIOUS
  <2>2. Good(v)
    BY <1>2, <1>3, <2>1, TryFetchGood DEF Sound
  <2>3. /\ Linked(v) /\ Stay(r, v) /\ v.loaderData = r.loaderData
        /\ PhaseShown(r) => PhaseShown(v)
    BY <1>2, <1>3, <2>1, TryFetchLinked DEF Sound
  <2>4. Stay(w, v)
    BY <1>2, <2>3, StayOn
  <2>5. ResumeLoader([w EXCEPT !.fetches = @ \ {f}], p, f, step) = v
    BY <1>1, <1>5, <2>1 DEF ResumeLoader, Outcomes
  <2> QED
    BY <1>2, <2>2, <2>3, <2>4, <2>5 DEF Advance, InOrder, Sound
<1>6. CASE step \in Outcomes
  <2>1. PICK v : v = CompleteLoader(r, f.run, step)
    OBVIOUS
  <2>2. Good(v)
    BY <1>2, <1>3, <1>6, <2>1, CompleteLoaderGood DEF Sound
  <2>3. /\ Linked(v) /\ Stay(r, v)
        /\ v.loaderData = r.loaderData \/ v.loaderData = NoRun \/ v.loaderData = f.run
        /\ AllDeclared => PhaseShown(v)
    BY <1>2, <1>3, <1>6, <2>1, CompleteLoaderLinked DEF Sound
  <2>4. Stay(w, v)
    BY <1>2, <2>3, StayOn
  <2>5. Covering => InOrder(w, v)
    <3>1. w.loaderData.n \in Nat /\ w.lastRun \in Nat
      BY WorldOf DEF Sound, World, Run
    <3>2. Covering => f.run.n > w.loaderData.n
      BY <1>2, <1>3, <3>1
    <3> QED
      BY <1>2, <2>3, <3>2 DEF InOrder
  <2>6. ResumeLoader([w EXCEPT !.fetches = @ \ {f}], p, f, step) = v
    BY <1>1, <1>6, <2>1 DEF ResumeLoader, Outcomes
  <2> QED
    BY <2>2, <2>3, <2>4, <2>5, <2>6 DEF Advance, Sound
<1> QED
  BY <1>4, <1>5, <1>6 DEF LoaderSteps

\* Become writes the world back.
LEMMA Becomes ==
    ASSUME NEW w, Sound(w), Become(w)
    PROVE  Now' = w
BY DEF Become, Now, Sound, Good, World

\* An empty outlet.
LEMMA InitFull == Init => FullInv
<1> SUFFICES ASSUME Init PROVE FullInv
  OBVIOUS
<1>1. PICK w : w = Now
  OBVIOUS
<1>2. /\ w.runtimes["shown"] = Absent /\ w.runtimes["retained"] = Absent
      /\ w.fetches = {} /\ w.loaderData = NoRun /\ w.lastRun = 0
  BY <1>1 DEF Now, Init, Places
<1>3. \A p \in Places : w.runtimes[p] = Absent
  BY <1>2 DEF Places
<1>4. Good(w) /\ inputs \in Nat
  BY <1>1, InitGood DEF IInv
<1>5. \A p \in Places : ~Present(w, p)
  BY <1>3 DEF Present, Absent
<1>6. Tracked(w)
  BY <1>2, <1>5 DEF Tracked, IdsKnown, FetchesHeld, ControllersUsed, RequestsApart,
                    AbortedAreOld, PendingIsQuiet, Present, Absent, Places
<1>7. Ordered(w)
  <2>1. NoRun.n = 0
    BY DEF NoRun
  <2>2. w.loaderData.n = 0
    BY <1>2, <2>1
  <2> QED
    BY <1>2, <1>5, <2>2 DEF Ordered, Places
<1>8. PhaseShown(w)
  BY <1>5 DEF PhaseShown, Places
<1> QED
  BY <1>1, <1>4, <1>6, <1>7, <1>8 DEF FullInv, Sound, Linked

(***************************************************************************)
(* The theorems                                                            *)
(***************************************************************************)

\* The actions of CommitsInOrder
Newer == loaderData' # loaderData /\ loaderData' # NoRun => loaderData'.n > loaderData.n

\* and AbortedSettlesSilently.
Silent ==
    \A f \in fetches : f.aborted /\ f \notin fetches' =>
        UNCHANGED <<typedGeneration, slots, runtimes, phase, search,
                    loaderData, mounted, lastRun>>

\* What every step of the program shows.
Progress ==
    /\ FullInv'
    /\ Covering => Newer
    /\ QuietPending => Silent

\* A task that advances keeps the invariant and commits in order;
LEMMA Advanced ==
    ASSUME FullInv, NEW v, Advance(Now, v), Become(v), inputs' \in Nat
    PROVE  FullInv' /\ (Covering => Newer)
<1>1. Sound(v)
  BY DEF Advance
<1>2. Now' = v
  BY <1>1, Becomes
<1>3. FullInv'
  BY <1>1, <1>2 DEF FullInv
<1>4. loaderData' = v.loaderData /\ loaderData = Now.loaderData
  BY DEF Become, Now
<1>5. Covering => Newer
  BY <1>4 DEF Advance, InOrder, Newer
<1> QED
  BY <1>3, <1>5

\* with aborted fetches left where they are, nothing is resumed either.
LEMMA Progresses ==
    ASSUME FullInv, NEW v, Advance(Now, v), Stay(Now, v), Become(v), inputs' \in Nat
    PROVE  Progress
<1>1. fetches' = v.fetches /\ fetches = Now.fetches
  BY DEF Become, Now
<1>2. QuietPending => Silent
  BY <1>1 DEF Stay, AbortedStay, Silent
<1> QED
  BY <1>2, Advanced DEF Progress

\* A fetch settles: only here an aborted fetch can leave the flight, and then
\* nobody answers to it.
LEMMA SettleProgress ==
    ASSUME FullInv, Settle
    PROVE  Progress
<1>0. PICK f \in fetches :
          \/ SettleStale(f)
          \/ \E p \in Places :
                \/ \E step \in Steps : SettleAction(f, p, step)
                \/ \E step \in LoaderSteps : SettleLoader(f, p, step)
  BY DEF Settle
<1>1. f \in Now.fetches /\ Sound(Now) /\ inputs \in Nat
      /\ Settled(f) = [Now EXCEPT !.fetches = @ \ {f}]
  BY DEF Now, FullInv, Settled
<1>2. CASE SettleStale(f)
  <2>1. /\ \A p \in Places : ~Answers(Now, p, f.generation)
        /\ Become(Settled(f)) /\ inputs' = inputs
    BY <1>2 DEF SettleStale
  <2>2. Advance(Now, Settled(f))
    BY <1>1, <2>1, StaleStep
  <2>3. FullInv' /\ (Covering => Newer)
    BY <1>1, <2>1, <2>2, Advanced
  <2>4. UNCHANGED <<typedGeneration, slots, runtimes, phase, search,
                    loaderData, mounted, lastRun>>
    BY <2>1 DEF Become, Settled, Now
  <2> QED
    BY <2>3, <2>4 DEF Progress, Silent
<1>3. ASSUME NEW p \in Places, NEW step \in Steps, SettleAction(f, p, step)
      PROVE  Progress
  <2>1. PICK v : v = ResumeAction(Settled(f), p, f, step)
    OBVIOUS
  <2>2. Answers(Now, p, f.generation) /\ Become(v) /\ inputs' = inputs
    BY <1>3, <2>1 DEF SettleAction
  <2>3. Advance(Now, v) /\ Stay(Now, v)
    BY <1>1, <2>1, <2>2, ResumedActionStep
  <2> QED
    BY <1>1, <2>2, <2>3, Progresses
<1>4. ASSUME NEW p \in Places, NEW step \in LoaderSteps, SettleLoader(f, p, step)
      PROVE  Progress
  <2>1. PICK v : v = ResumeLoader(Settled(f), p, f, step)
    OBVIOUS
  <2>2. Answers(Now, p, f.generation) /\ f.kind = "loader" /\ Become(v) /\ inputs' = inputs
    BY <1>4, <2>1 DEF SettleLoader
  <2>3. Advance(Now, v) /\ Stay(Now, v)
    BY <1>1, <2>1, <2>2, ResumedLoaderStep
  <2> QED
    BY <1>1, <2>2, <2>3, Progresses
<1> QED
  BY <1>0, <1>2, <1>3, <1>4

\* A user input.
LEMMA InputProgress ==
    ASSUME FullInv, NEW v, Advance(Now, v), Stay(Now, v), Input(v)
    PROVE  Progress
BY Progresses DEF Input, FullInv

\* Every task.
LEMMA NextProgress ==
    ASSUME FullInv, Next
    PROVE  Progress
<1>1. Sound(Now) /\ search \in Queries /\ Now.runtimes["shown"] = runtimes["shown"]
      /\ \A s \in Searches : s \in Queries
  BY SearchIsQuery DEF FullInv, Sound, IInv, Now, Queries
<1>2. ASSUME NEW s \in Searches, NEW start \in Starts, Enter(s, start)
      PROVE  Progress
  BY <1>1, <1>2, EnterStep, InputProgress DEF Enter
<1>3. ASSUME NEW s \in Searches, NEW start \in Starts, ChangeSearch(s, start)
      PROVE  Progress
  BY <1>1, <1>3, ChangeSearchStep, InputProgress DEF ChangeSearch
<1>4. CASE Leave
  BY <1>1, <1>4, LeaveStep, InputProgress DEF Leave
<1>5. ASSUME NEW start \in Starts, Retry(start)
      PROVE  Progress
  BY <1>1, <1>5, RetryStep, InputProgress DEF Retry
<1>6. ASSUME NEW fetch \in BOOLEAN, NEW reload \in BOOLEAN, NEW start \in Starts,
             Event(fetch, reload, start)
      PROVE  Progress
  BY <1>1, <1>6, EventStep, InputProgress DEF Event
<1>7. ASSUME NEW fetch \in BOOLEAN, NEW reload \in BOOLEAN, Callback(fetch, reload)
      PROVE  Progress
  BY <1>7, CallbackStep, InputProgress DEF Callback
<1>8. CASE Settle
  BY <1>8, SettleProgress
<1> QED
  BY <1>2, <1>3, <1>4, <1>5, <1>6, <1>7, <1>8 DEF Next

\* The invariant holds in every behaviour, for every fetch limit, set of query
\* strings, choice of graphs and number of inputs.
THEOREM FullInvariance == Spec => []FullInv
<1>1. Init => FullInv
  BY InitFull
<1>2. FullInv /\ [Next]_vars => FullInv'
  <2> SUFFICES ASSUME FullInv, [Next]_vars PROVE FullInv'
    OBVIOUS
  <2>1. CASE Next
    BY <2>1, NextProgress DEF Progress
  <2>2. CASE UNCHANGED vars
    BY <2>2 DEF vars, FullInv, Now
  <2> QED
    BY <2>1, <2>2
<1> QED
  BY <1>1, <1>2, PTL DEF Spec

\* The graph on screen is the one of the route's phase, through every navigation,
\* reload, retry, failure and restore.
THEOREM ScreenFollowsPhase ==
    ASSUME AllDeclared
    PROVE  Spec => []PhaseShowsItsGraph
<1>1. FullInv => PhaseShowsItsGraph
  BY DEF FullInv, Sound, PhaseShown, PhaseShowsItsGraph, OnRoute, Present, Now
<1> QED
  BY <1>1, FullInvariance, PTL

\* Exactly the fetches in flight that are not aborted have a controller, in the
\* runtime that started them: whatever replaces a runtime aborts what it started.
THEOREM FetchesHaveControllers ==
    ASSUME QuietPending
    PROVE  Spec => []ControllersAreLive
<1>1. FullInv => ControllersAreLive
  <2> SUFFICES ASSUME FullInv PROVE ControllersAreLive
    OBVIOUS
  <2>1. PICK w : w = Now
    OBVIOUS
  <2>2. Good(w) /\ Tracked(w) /\ w.fetches = fetches /\ w.runtimes = runtimes
    BY <2>1 DEF FullInv, Sound, Linked, Now
  <2>3. ASSUME NEW p \in Places, Present(w, p)
        PROVE  Controllers(w, p) = {f.request : f \in {g \in fetches :
                                       g.holder = runtimes[p].id /\ ~g.aborted}}
    <3>1. ASSUME NEW c \in Controllers(w, p)
          PROVE  \E f \in fetches : f.holder = runtimes[p].id /\ ~f.aborted /\ c = f.request
      BY <2>2, <2>3, <3>1 DEF Tracked, ControllersUsed
    <3>2. ASSUME NEW f \in fetches, f.holder = runtimes[p].id, ~f.aborted
          PROVE  f.request \in Controllers(w, p)
      <4>1. PICK q \in Places : HeldBy(w, f, q)
        BY <2>2, <3>2 DEF Tracked, FetchesHeld
      <4>2. p = q
        BY <2>2, <2>3, <3>2, <4>1, TwoPlaces DEF HeldBy
      <4> QED
        BY <4>1, <4>2 DEF HeldBy
    <3> QED
      BY <3>1, <3>2
  <2>4. ASSUME NEW f \in fetches, ~f.aborted
        PROVE  \E p \in Places : Present(w, p) /\ f.holder = runtimes[p].id
    BY <2>2, <2>4 DEF Tracked, FetchesHeld, HeldBy
  <2> QED
    BY <2>1, <2>2, <2>3, <2>4 DEF ControllersAreLive
<1> QED
  BY <1>1, FullInvariance, PTL

\* An aborted fetch that settles late changes nothing but the flight.
THEOREM AbortedStaysSilent ==
    ASSUME QuietPending
    PROVE  Spec => AbortedSettlesSilently
<1>1. FullInv /\ [Next]_vars =>
        [\A f \in fetches : f.aborted /\ f \notin fetches' =>
            UNCHANGED <<typedGeneration, slots, runtimes, phase, search,
                        loaderData, mounted, lastRun>>]_vars
  BY NextProgress DEF Progress, Silent
<1> QED
  BY <1>1, FullInvariance, PTL DEF Spec, AbortedSettlesSilently

\* Under a pending graph loader data is only ever replaced by a newer run's.
THEOREM NewerDataOnly ==
    ASSUME Covering
    PROVE  Spec => CommitsInOrder
<1>1. FullInv /\ [Next]_vars =>
        [loaderData' # loaderData /\ loaderData' # NoRun => loaderData'.n > loaderData.n]_vars
  BY NextProgress DEF Progress, Newer
<1> QED
  BY <1>1, FullInvariance, PTL DEF Spec, CommitsInOrder

-----------------------------------------------------------------------------
(***************************************************************************)
(* What holds of the mutation protocol for any limits and any number of    *)
(* invocations and loads. Where loading covers the route, a reset of the    *)
(* slots always comes with a new generation, so the invocations that can   *)
(* still be resumed are numbered in step with their starts; this is what   *)
(* makes the number in a frame decide who is the latest.                   *)
(***************************************************************************)

(* Resumable invocations: none is from a later generation than the owner's,*)
(* their numbers run in step with their starts, the one with the slot's    *)
(* number is pending, and a number names one of them.                      *)
NoneFromLater == \A run \in runs : run.generation <= generation
InStep == \A run \in runs :
    Resumable(run) =>
        /\ run.number <= invocation
        /\ run.start = run.number + (started - invocation)
LatestPending == \A run \in runs :
    Resumable(run) /\ run.number = invocation => pending
NumbersApart == \A run, other \in runs :
    Resumable(run) /\ Resumable(other) /\ run.number = other.number => run = other
LoadingIsCovered == loading > 0 => covered

NumberInv ==
    /\ MutationTypeOK
    /\ NoneFromLater
    /\ InStep
    /\ LatestPending
    /\ NumbersApart
    /\ LoadingIsCovered

-----------------------------------------------------------------------------
(* An outcome publishes well-typed slots.                                  *)
LEMMA OutcomeType ==
    ASSUME MutationTypeOK, NEW name \in Nat, NEW succeeds \in BOOLEAN,
           Outcome(name, succeeds)
    PROVE  pending' \in BOOLEAN /\ error' \in Nat /\ data' \in Nat
<1>1. CASE succeeds
  BY <1>1 DEF Outcome, MutationTypeOK, None
<1>2. CASE ~succeeds
  BY <1>2 DEF Outcome, MutationTypeOK
<1> QED
  BY <1>1, <1>2

(* The initial state and every step keep the types, whatever the constants.*)
LEMMA MutationTypeStep == MutationTypeOK /\ [MutationNext]_mutationVars => MutationTypeOK'
<1> SUFFICES ASSUME MutationTypeOK, [MutationNext]_mutationVars PROVE MutationTypeOK'
  OBVIOUS
<1> USE MutationLimits DEF MutationTypeOK, None
<1>1. ASSUME NEW succeeds \in BOOLEAN, StartAndEnd(succeeds) PROVE MutationTypeOK'
  <2>1. pending' \in BOOLEAN /\ error' \in Nat /\ data' \in Nat
    BY <1>1, OutcomeType, started + 1 \in Nat DEF StartAndEnd
  <2>2. lost' \in BOOLEAN
    BY <1>1, Zenon DEF StartAndEnd
  <2> QED
    BY <1>1, <2>1, <2>2 DEF StartAndEnd, CanStart, owner
<1>2. CASE StartAndFetch
  <2>1. NewRun \in InvocationRun
    BY DEF NewRun, InvocationRun
  <2>2. runs' \subseteq InvocationRun
    BY <1>2, <2>1 DEF StartAndFetch
  <2>3. lost' \in BOOLEAN
    BY <1>2, Zenon DEF StartAndFetch
  <2> QED
    BY <1>2, <2>2, <2>3 DEF StartAndFetch, CanStart, Started, owner
<1>3. CASE StartAndStop
  BY <1>3 DEF StartAndStop, CanStart, Started, owner
<1>4. ASSUME NEW run \in runs, SettleStaleInvocation(run) PROVE MutationTypeOK'
  BY <1>4 DEF SettleStaleInvocation, stateSlots, owner
<1>5. ASSUME NEW run \in runs, NEW succeeds \in BOOLEAN, SettleAndEnd(run, succeeds)
      PROVE MutationTypeOK'
  <2>1. run.start \in Nat
    BY DEF InvocationRun
  <2>2. runs' \subseteq InvocationRun
    BY <1>5 DEF SettleAndEnd
  <2>3. pending' \in BOOLEAN /\ error' \in Nat /\ data' \in Nat
    BY <1>5, <2>1, OutcomeType DEF SettleAndEnd, Publish
  <2> QED
    BY <1>5, <2>2, <2>3 DEF SettleAndEnd, Publish, owner
<1>6. ASSUME NEW run \in runs, SettleAndFetch(run) PROVE MutationTypeOK'
  <2>1. [run EXCEPT !.nth = run.nth + 1] \in InvocationRun
    BY <1>6 DEF SettleAndFetch, InvocationRun
  <2>2. runs' \subseteq InvocationRun
    BY <1>6, <2>1 DEF SettleAndFetch
  <2> QED
    BY <1>6, <2>2 DEF SettleAndFetch, stateSlots, owner
<1>7. ASSUME NEW run \in runs, SettleAndStop(run) PROVE MutationTypeOK'
  <2>1. lost' \in BOOLEAN
    BY <1>7, Zenon DEF SettleAndStop
  <2> QED
    BY <1>7, <2>1 DEF SettleAndStop, stateSlots, owner
<1>8. CASE Load
  BY <1>8 DEF Load, stateSlots
<1>9. ASSUME Invalidated PROVE runs' \subseteq InvocationRun /\ generation' \in Nat
  <2>1. \A r \in runs : [r EXCEPT !.aborted = TRUE] \in InvocationRun
    BY DEF InvocationRun
  <2> QED
    BY <1>9, <2>1 DEF Invalidated
<1>10. CASE RestoreOwner
  BY <1>9, <1>10 DEF RestoreOwner, Reinitialised
<1>11. CASE SetInPlace
  <2>1. loading' \in Nat
    BY <1>11 DEF SetInPlace
  <2>2. /\ pending' \in BOOLEAN /\ error' \in Nat /\ data' \in Nat /\ invocation' \in Nat
        /\ lost' \in BOOLEAN
    BY <1>11 DEF SetInPlace, Reinitialised
  <2> QED
    BY <1>11, <2>1, <2>2 DEF SetInPlace
<1>12. CASE Dispose
  BY <1>9, <1>12 DEF Dispose, Reinitialised
<1>13. CASE MountOwner
  <2>1. alive' \in BOOLEAN
    BY <1>13, Zenon DEF MountOwner
  <2>2. /\ pending' \in BOOLEAN /\ error' \in Nat /\ data' \in Nat /\ invocation' \in Nat
        /\ lost' \in BOOLEAN
    BY <1>13 DEF MountOwner, Reinitialised
  <2> QED
    BY <1>13, <2>1, <2>2 DEF MountOwner
<1>14. CASE UNCHANGED mutationVars
  BY <1>14 DEF mutationVars
<1> QED
  BY <1>1, <1>2, <1>3, <1>4, <1>5, <1>6, <1>7, <1>8, <1>10, <1>11, <1>12,
     <1>13, <1>14 DEF MutationNext, SettleInvocation

(* Types hold at the start.                                                *)
LEMMA MutationTypeInit == MutationInit => MutationTypeOK
<1> SUFFICES ASSUME MutationInit PROVE MutationTypeOK
  OBVIOUS
<1>1. alive \in BOOLEAN /\ covers \in BOOLEAN /\ lost \in BOOLEAN
  BY Zenon DEF MutationInit
<1>2. covered \in BOOLEAN /\ pending \in BOOLEAN
  BY DEF MutationInit
<1>3. /\ loading \in Nat /\ generation \in Nat /\ invocation \in Nat /\ error \in Nat
      /\ data \in Nat /\ started \in Nat /\ loads \in Nat
      /\ runs \subseteq InvocationRun
  BY DEF MutationInit, None
<1> QED
  BY <1>1, <1>2, <1>3 DEF MutationTypeOK

(* TypeOK in every reachable state: each slot, counter and suspended       *)
(* invocation keeps its type, and none exceeds the fetches of an action.   *)
THEOREM MutationTypes == MutationSpec => []MutationTypeOK
BY MutationTypeInit, MutationTypeStep, PTL DEF MutationSpec

-----------------------------------------------------------------------------
(* What one step does to the resumable invocations, when loading covers    *)
(* the route.                                                              *)

(* A suspended invocation has a number, a start and a generation.          *)
LEMMA RunFields ==
    ASSUME MutationTypeOK, NEW run \in runs
    PROVE  run.start \in Nat /\ run.number \in Nat /\ run.generation \in Nat
BY DEF MutationTypeOK, InvocationRun

(* Renewing the owner leaves nothing to resume: the generation passes that *)
(* of every suspended invocation.                                          *)
LEMMA NothingAnswers ==
    ASSUME MutationTypeOK, NoneFromLater, generation' = generation + 1,
           \A run \in runs' : \E old \in runs : run.generation = old.generation
    PROVE  \A run \in runs' : run.generation <= generation' /\ ~Resumable(run)'
<1> SUFFICES ASSUME NEW run \in runs'
    PROVE run.generation <= generation' /\ ~Resumable(run)'
  OBVIOUS
<1>1. PICK old \in runs : run.generation = old.generation
  OBVIOUS
<1>2. old.generation \in Nat /\ old.generation <= generation /\ generation \in Nat
  BY RunFields DEF NoneFromLater, MutationTypeOK
<1> QED
  BY <1>1, <1>2 DEF Resumable

(* invalidate_fetches keeps the generation a continuation asks for.        *)
LEMMA InvalidatedGenerations ==
    ASSUME MutationTypeOK, Invalidated
    PROVE  \A run \in runs' : \E old \in runs : run.generation = old.generation
<1> SUFFICES ASSUME NEW run \in runs'
    PROVE \E old \in runs : run.generation = old.generation
  OBVIOUS
<1>1. PICK old \in runs : run = [old EXCEPT !.aborted = TRUE]
  BY DEF Invalidated
<1>2. run.generation = old.generation
  BY <1>1 DEF MutationTypeOK, InvocationRun
<1> QED
  BY <1>2

(* A run that answers after a step in which it stayed as it was, by number *)
(* and generation, answered before.                                        *)
LEMMA FewerRuns ==
    ASSUME NumberInv, UNCHANGED <<alive, generation, invocation, started, covered, loading>>,
           runs' \subseteq runs, pending' = pending
    PROVE  /\ NoneFromLater' /\ InStep' /\ LatestPending' /\ NumbersApart'
           /\ LoadingIsCovered'
<1>1. \A run \in runs' : run \in runs /\ Resumable(run)' = Resumable(run)
  BY DEF Resumable
<1>2. NoneFromLater' /\ InStep'
  BY <1>1 DEF NumberInv, NoneFromLater, InStep
<1>3. LatestPending' /\ NumbersApart'
  BY <1>1, Zenon DEF NumberInv, LatestPending, NumbersApart
<1> QED
  BY <1>2, <1>3 DEF NumberInv, LoadingIsCovered

(* The same after a step that left no run to resume.                       *)
LEMMA NoRuns ==
    ASSUME MutationTypeOK, NoneFromLater, generation' = generation + 1,
           \A run \in runs' : \E old \in runs : run.generation = old.generation,
           LoadingIsCovered'
    PROVE  /\ NoneFromLater' /\ InStep' /\ LatestPending' /\ NumbersApart'
           /\ LoadingIsCovered'
<1>1. \A run \in runs' : run.generation <= generation' /\ ~Resumable(run)'
  BY NothingAnswers
<1> QED
  BY <1>1 DEF NoneFromLater, InStep, LatestPending, NumbersApart

(* An invocation that starts is the latest, and its number is new.         *)
LEMMA StartedRuns ==
    ASSUME NumberInv, CanStart, invocation' = invocation + 1,
           \/ runs' = runs
           \/ runs' = runs \union {NewRun} /\ pending' = TRUE
    PROVE  /\ NoneFromLater' /\ InStep' /\ LatestPending' /\ NumbersApart'
           /\ LoadingIsCovered'
<1>1. /\ started' = started + 1
      /\ UNCHANGED <<alive, loading, covered, generation>>
      /\ alive = TRUE
      /\ MutationTypeOK
  BY DEF CanStart, owner, NumberInv, MutationTypeOK
<1>2. invocation \in Nat /\ started \in Nat /\ generation \in Nat
  BY <1>1 DEF MutationTypeOK
<1>3. \A run : Resumable(run)' <=> Resumable(run)
  BY <1>1 DEF Resumable
<1>4. /\ NewRun.number = invocation + 1
      /\ NewRun.start = started + 1
      /\ NewRun.generation = generation
  BY DEF NewRun
<1>5. \A run \in runs' : run \in runs \/ (run = NewRun /\ pending' = TRUE)
  BY Zenon
<1>6. \A run \in runs :
          /\ run.start \in Nat /\ run.number \in Nat
          /\ run.generation <= generation
          /\ Resumable(run) => run.number <= invocation
                            /\ run.start = run.number + (started - invocation)
  <2>1. NoneFromLater /\ InStep
    BY DEF NumberInv
  <2>2. \A run \in runs : run.start \in Nat /\ run.number \in Nat
    BY <1>1, RunFields
  <2> QED
    BY <2>1, <2>2 DEF NoneFromLater, InStep
<1>7. NoneFromLater'
  BY <1>1, <1>2, <1>4, <1>5, <1>6 DEF NoneFromLater
<1>8. InStep'
  BY <1>1, <1>2, <1>3, <1>4, <1>5, <1>6 DEF InStep
<1>9. \A run \in runs : Resumable(run) => run.number # invocation'
  BY <1>2, <1>6
<1>10. LatestPending'
  BY <1>3, <1>5, <1>9, Zenon DEF LatestPending
<1>11. NumbersApart'
  BY <1>3, <1>4, <1>5, <1>9, Zenon DEF NumbersApart, NumberInv
<1>12. LoadingIsCovered'
  BY <1>1 DEF NumberInv, LoadingIsCovered
<1> QED
  BY <1>7, <1>8, <1>10, <1>11, <1>12

(* The numbering survives every step when loading covers the route.        *)
LEMMA NumberStep == covers /\ NumberInv /\ [MutationNext]_mutationVars => NumberInv'
<1> SUFFICES ASSUME covers, NumberInv, [MutationNext]_mutationVars PROVE NumberInv'
  OBVIOUS
<1> USE DEF NumberInv
<1>0. MutationTypeOK'
  BY MutationTypeStep
<1>a. covers = TRUE
  BY DEF MutationTypeOK
<1> DEFINE Kept ==
    NoneFromLater' /\ InStep' /\ LatestPending' /\ NumbersApart' /\ LoadingIsCovered'
<1>1. ASSUME NEW succeeds \in BOOLEAN, StartAndEnd(succeeds) PROVE Kept
  BY <1>1, StartedRuns DEF StartAndEnd
<1>2. ASSUME StartAndFetch PROVE Kept
  BY <1>2, StartedRuns DEF StartAndFetch, Started
<1>3. ASSUME StartAndStop PROVE Kept
  BY <1>3, StartedRuns DEF StartAndStop, Started
<1>4. ASSUME NEW run \in runs, SettleStaleInvocation(run) PROVE Kept
  BY <1>4, FewerRuns DEF SettleStaleInvocation, stateSlots, owner
<1>5. ASSUME NEW run \in runs, NEW succeeds \in BOOLEAN, SettleAndEnd(run, succeeds)
      PROVE Kept
  <2>1. /\ UNCHANGED <<alive, generation, invocation, started, covered, loading>>
        /\ runs' = runs \ {run}
        /\ Resumable(run)
    BY <1>5 DEF SettleAndEnd, owner, Publish
  <2>2. CASE run.number # invocation
    <3>1. pending' = pending
      BY <1>5, <2>2 DEF SettleAndEnd, Publish
    <3> QED
      BY <2>1, <3>1, FewerRuns
  <2>3. CASE run.number = invocation
    <3>1. \A other \in runs' : other \in runs /\ other # run /\ (Resumable(other)' <=> Resumable(other))
      BY <2>1 DEF Resumable
    <3>2. NoneFromLater' /\ InStep'
      BY <2>1, <3>1 DEF NoneFromLater, InStep
    <3>3. \A other \in runs' : Resumable(other)' => other.number # invocation'
      BY <2>1, <2>3, <3>1, Zenon DEF NumbersApart
    <3>4. LatestPending'
      BY <3>3, Zenon DEF LatestPending
    <3>5. NumbersApart'
      BY <3>1, Zenon DEF NumbersApart
    <3> QED
      BY <2>1, <3>2, <3>4, <3>5 DEF LoadingIsCovered
  <2> QED
    BY <2>2, <2>3
<1>6. ASSUME NEW run \in runs, SettleAndFetch(run) PROVE Kept
  <2> DEFINE next == [run EXCEPT !.nth = run.nth + 1]
  <2>1. /\ next.number = run.number /\ next.start = run.start
        /\ next.generation = run.generation
    BY DEF MutationTypeOK, InvocationRun
  <2> HIDE DEF next
  <2>2. /\ UNCHANGED <<alive, generation, invocation, pending, started, covered, loading>>
        /\ runs' = (runs \ {run}) \union {next}
        /\ Resumable(run)
    BY <1>6 DEF SettleAndFetch, owner, stateSlots, next
  <2>3. \A other \in runs' :
            \/ other = next
            \/ other \in runs /\ other # run
    BY <2>2
  <2>4. \A other : Resumable(other)' <=> Resumable(other)
    BY <2>2 DEF Resumable
  <2>5. NoneFromLater' /\ InStep'
    BY <2>1, <2>2, <2>3, <2>4 DEF NoneFromLater, InStep
  <2>6. LatestPending'
    BY <2>1, <2>2, <2>3, <2>4, Zenon DEF LatestPending
  <2>7. NumbersApart'
    BY <2>1, <2>2, <2>3, <2>4, Zenon DEF NumbersApart
  <2> QED
    BY <2>2, <2>5, <2>6, <2>7 DEF LoadingIsCovered
<1>7. ASSUME NEW run \in runs, SettleAndStop(run) PROVE Kept
  BY <1>7, FewerRuns DEF SettleAndStop, stateSlots, owner
<1>8. ASSUME Load PROVE Kept
  <2>1. /\ UNCHANGED <<alive, generation, invocation, pending, started, runs>>
        /\ covered' = TRUE
    BY <1>8, <1>a DEF Load, stateSlots
  <2>2. \A other : Resumable(other)' <=> Resumable(other)
    BY <2>1 DEF Resumable
  <2>3. NoneFromLater' /\ InStep'
    BY <2>1, <2>2 DEF NoneFromLater, InStep
  <2>4. LatestPending' /\ NumbersApart'
    BY <2>1, <2>2, Zenon DEF LatestPending, NumbersApart
  <2>5. LoadingIsCovered'
    BY <2>1, Zenon DEF LoadingIsCovered
  <2> QED
    BY <2>3, <2>4, <2>5
<1>10. ASSUME RestoreOwner PROVE Kept
  <2>1. LoadingIsCovered'
    BY <1>10 DEF RestoreOwner, LoadingIsCovered
  <2> QED
    BY <1>10, <2>1, InvalidatedGenerations, NoRuns DEF RestoreOwner, Invalidated
<1>11. ASSUME SetInPlace PROVE Kept
  BY <1>11 DEF SetInPlace, LoadingIsCovered
<1>12. ASSUME Dispose PROVE Kept
  <2>1. LoadingIsCovered'
    BY <1>12 DEF Dispose, LoadingIsCovered
  <2> QED
    BY <1>12, <2>1, InvalidatedGenerations, NoRuns DEF Dispose, Invalidated
<1>13. ASSUME MountOwner PROVE Kept
  <2>1. LoadingIsCovered'
    BY <1>13 DEF MountOwner, LoadingIsCovered
  <2> QED
    BY <1>13, <2>1, NoRuns DEF MountOwner
<1>14. ASSUME UNCHANGED mutationVars PROVE Kept
  BY <1>14, FewerRuns DEF mutationVars
<1> QED
  BY <1>0, <1>1, <1>2, <1>3, <1>4, <1>5, <1>6, <1>7, <1>8, <1>10, <1>11,
     <1>12, <1>13, <1>14 DEF MutationNext, SettleInvocation

(* The numbering holds at the start.                                       *)
LEMMA NumberInit == MutationInit => NumberInv
<1> SUFFICES ASSUME MutationInit PROVE NumberInv
  OBVIOUS
<1>1. MutationTypeOK
  BY MutationTypeInit
<1>2. runs = {} /\ loading = 0
  BY DEF MutationInit
<1> QED
  BY <1>1, <1>2 DEF NumberInv, NoneFromLater, InStep, LatestPending,
     NumbersApart, LoadingIsCovered

(* What a route's loading does never changes.                              *)
LEMMA CoversStays == [MutationNext]_mutationVars => covers' = covers
<1> SUFFICES ASSUME [MutationNext]_mutationVars PROVE covers' = covers
  OBVIOUS
<1>1. ASSUME NEW run \in runs, NEW succeeds \in BOOLEAN,
             SettleStaleInvocation(run) \/ SettleAndEnd(run, succeeds) \/ SettleAndFetch(run)
               \/ SettleAndStop(run)
      PROVE covers' = covers
  BY <1>1 DEF SettleStaleInvocation, SettleAndEnd, SettleAndFetch, SettleAndStop, owner
<1>2. ASSUME NEW succeeds \in BOOLEAN,
             StartAndEnd(succeeds) \/ StartAndFetch \/ StartAndStop
      PROVE covers' = covers
  BY <1>2 DEF StartAndEnd, StartAndFetch, StartAndStop, CanStart, owner
<1>3. ASSUME Load \/ RestoreOwner \/ SetInPlace \/ Dispose \/ MountOwner PROVE covers' = covers
  BY <1>3 DEF Load, RestoreOwner, SetInPlace, Dispose, MountOwner
<1> QED
  BY <1>1, <1>2, <1>3 DEF MutationNext, SettleInvocation, mutationVars

(* Where loading covers the route the numbering is an invariant.           *)
LEMMA Numbering == MutationSpec => [](covers => NumberInv)
<1>1. (covers => NumberInv) /\ [MutationNext]_mutationVars => (covers => NumberInv)'
  BY NumberStep, CoversStays, Zenon
<1> QED
  BY <1>1, NumberInit, PTL DEF MutationSpec

(* While the latest invocation's request is in flight, the mutation is     *)
(* pending, for any limits and any number of invocations and loads, where  *)
(* loading covers the route.                                               *)
THEOREM InFlightIsPending == MutationSpec => []RunningIsPending
<1>1. (covers => NumberInv) => RunningIsPending
  <2> SUFFICES ASSUME NumberInv, NEW run \in runs, IsLatest(run) PROVE pending
    BY DEF RunningIsPending
  <2>1. Resumable(run) /\ run.start = started
    BY DEF IsLatest
  <2>2. run.start = run.number + (started - invocation)
    BY <2>1 DEF NumberInv, InStep
  <2>3. started \in Nat /\ invocation \in Nat /\ run.number \in Nat
    BY RunFields DEF NumberInv, MutationTypeOK
  <2>4. run.number = invocation
    BY <2>1, <2>2, <2>3
  <2> QED
    BY <2>1, <2>4 DEF NumberInv, LatestPending
<1> QED
  BY <1>1, Numbering, PTL

-----------------------------------------------------------------------------
(* The contract                                                            *)

(* An outcome published by the latest invocation is the contract's.        *)
LEMMA OutcomeImplements ==
    ASSUME NEW name, NEW succeeds, Outcome(name, succeeds)
    PROVE  Contract!Publish(name, succeeds)
BY DEF Outcome, Contract!Publish, None, Contract!None

(* Beginning the state anew is the contract's Renew.                       *)
LEMMA ReinitialisedImplements ==
    ASSUME Reinitialised, UNCHANGED started
    PROVE  Contract!Renew
BY DEF Reinitialised, Contract!Renew, None, Contract!None

(* Starting an invocation is the contract's Begin.                         *)
LEMMA StartedImplements ==
    ASSUME Started, started' = started + 1
    PROVE  Contract!Begin
BY DEF Started, Contract!Begin, None, Contract!None

(* Every step of the mutation is a step of the contract or leaves its      *)
(* variables alone.                                                        *)
LEMMA StepImplements == NumberInv /\ [MutationNext]_mutationVars => [Contract!Next]_Contract!vars
<1> SUFFICES ASSUME NumberInv, [MutationNext]_mutationVars PROVE [Contract!Next]_Contract!vars
  OBVIOUS
<1> DEFINE Same == UNCHANGED <<started, pending, error, data>>
<1>a. ASSUME Same PROVE UNCHANGED Contract!vars
  BY <1>a DEF Contract!vars
<1>1. ASSUME NEW succeeds \in BOOLEAN, StartAndEnd(succeeds) PROVE Contract!Next
  <2>1. Contract!BeginAndEnd(succeeds)
    BY <1>1, OutcomeImplements DEF StartAndEnd, CanStart, Contract!BeginAndEnd
  <2> QED
    BY <2>1 DEF Contract!Next
<1>2. ASSUME StartAndFetch \/ StartAndStop PROVE Contract!Next
  <2>1. Contract!Begin
    BY <1>2, StartedImplements DEF StartAndFetch, StartAndStop, CanStart
  <2> QED
    BY <2>1 DEF Contract!Next
<1>3. ASSUME NEW run \in runs,
             SettleStaleInvocation(run) \/ SettleAndFetch(run) \/ SettleAndStop(run)
      PROVE Same
  BY <1>3 DEF SettleStaleInvocation, SettleAndFetch, SettleAndStop, stateSlots
<1>4. ASSUME NEW run \in runs, NEW succeeds \in BOOLEAN, SettleAndEnd(run, succeeds)
      PROVE Same \/ Contract!Next
  <2>1. Resumable(run) /\ UNCHANGED started /\ Publish(run, succeeds)
    BY <1>4 DEF SettleAndEnd
  <2>2. CASE run.number # invocation
    BY <2>1, <2>2 DEF Publish
  <2>3. CASE run.number = invocation
    <3>1. pending
      BY <2>1, <2>3 DEF NumberInv, LatestPending
    <3>2. run.start = started
      <4>1. run.start = run.number + (started - invocation)
        BY <2>1 DEF NumberInv, InStep
      <4>2. started \in Nat /\ invocation \in Nat
        BY DEF NumberInv, MutationTypeOK
      <4> QED
        BY <2>3, <4>1, <4>2
    <3>3. Contract!Publish(started, succeeds)
      BY <2>1, <2>3, <3>2, OutcomeImplements DEF Publish
    <3>4. Contract!End(succeeds)
      BY <2>1, <3>1, <3>3 DEF Contract!End
    <3> QED
      BY <3>4 DEF Contract!Next
  <2> QED
    BY <2>2, <2>3
<1>5. ASSUME Load PROVE Same
  BY <1>5 DEF Load, stateSlots
<1>6. ASSUME RestoreOwner \/ SetInPlace \/ Dispose \/ MountOwner PROVE Contract!Next
  <2>1. Contract!Renew
    BY <1>6, ReinitialisedImplements DEF RestoreOwner, SetInPlace, Dispose, MountOwner
  <2> QED
    BY <2>1 DEF Contract!Next
<1>7. ASSUME UNCHANGED mutationVars PROVE Same
  BY <1>7 DEF mutationVars
<1> QED
  BY <1>a, <1>1, <1>2, <1>3, <1>4, <1>5, <1>6, <1>7 DEF MutationNext, SettleInvocation

(* The mutation keeps its contract, for any limits and any number of       *)
(* invocations and loads, where loading covers the route: only the latest  *)
(* started invocation ever publishes, and at most once.                    *)
THEOREM ContractKept == MutationSpec => LatestStartedPublishes
<1>1. MutationInit => Contract!Init
  BY DEF MutationInit, Contract!Init, None, Contract!None
<1>2. (covers => NumberInv) /\ [MutationNext]_mutationVars => [covers => Contract!Next]_Contract!vars
  BY StepImplements
<1> QED
  BY <1>1, <1>2, Numbering, PTL DEF MutationSpec, LatestStartedPublishes

-----------------------------------------------------------------------------
(* Pending settles                                                         *)

(* A pending mutation has a resumable run of the latest invocation, under  *)
(* the slot's number, or that invocation was stopped; starts name the runs and are not ahead of the count. *)
PendingRuns == pending => lost \/
    \E run \in runs : IsLatest(run) /\ ~run.aborted /\ run.number = invocation
StartsApart ==
    /\ \A run \in runs : run.start <= started
    /\ \A run, other \in runs : run.start = other.start => run = other

PendingInv == MutationTypeOK /\ PendingRuns /\ StartsApart

(* Both survive every step.                                                *)
LEMMA PendingStep == PendingInv /\ [MutationNext]_mutationVars => PendingInv'
<1> SUFFICES ASSUME PendingInv, [MutationNext]_mutationVars PROVE PendingInv'
  OBVIOUS
<1> USE DEF PendingInv
<1>0. MutationTypeOK'
  BY MutationTypeStep
<1> DEFINE Kept == PendingRuns' /\ StartsApart'
<1>a. started \in Nat /\ \A run \in runs : run.start \in Nat
  BY RunFields DEF MutationTypeOK
<1>b. ASSUME UNCHANGED started,
             \A run \in runs' : \E old \in runs : run.start = old.start,
             \A run, other \in runs' : run.start = other.start => run = other
      PROVE StartsApart'
  BY <1>b DEF StartsApart
<1>c. ASSUME pending' = FALSE PROVE PendingRuns'
  BY <1>c DEF PendingRuns
<1>d. ASSUME UNCHANGED started, runs' \subseteq runs PROVE StartsApart'
  BY <1>d DEF StartsApart
<1>e. ASSUME UNCHANGED started, Invalidated PROVE StartsApart'
  <2> DEFINE Off(run) == [run EXCEPT !.aborted = TRUE]
  <2>1. \A run \in runs : Off(run).start = run.start
    BY DEF MutationTypeOK, InvocationRun
  <2>2. runs' = {Off(run) : run \in runs}
    BY <1>e DEF Invalidated
  <2> HIDE DEF Off
  <2>3. \A run \in runs' : \E old \in runs : run = Off(old) /\ run.start = old.start
    BY <2>1, <2>2
  <2>4. \A run, other \in runs' : run.start = other.start => run = other
    BY <2>3 DEF StartsApart
  <2> QED
    BY <1>b, <1>e, <2>3, <2>4
<1>1. ASSUME NEW succeeds \in BOOLEAN, StartAndEnd(succeeds) PROVE Kept
  <2>1. PendingRuns'
    BY <1>1, <1>c DEF StartAndEnd, Outcome
  <2>2. started' = started + 1 /\ runs' = runs
    BY <1>1 DEF StartAndEnd, CanStart
  <2>3. StartsApart'
    BY <1>a, <2>2 DEF StartsApart
  <2> QED
    BY <2>1, <2>3
<1>2. ASSUME StartAndFetch PROVE Kept
  <2> PICK new : new = NewRun
    OBVIOUS
  <2>1. /\ started' = started + 1
        /\ runs' = runs \union {new}
        /\ UNCHANGED <<alive, generation>>
        /\ alive
        /\ invocation' = invocation + 1
    BY <1>2 DEF StartAndFetch, CanStart, Started, owner
  <2>2. /\ new.start = started + 1 /\ new.number = invocation + 1
        /\ new.generation = generation /\ ~new.aborted
    BY DEF NewRun
  <2>3. IsLatest(new)' /\ new \in runs'
    <3>1. new.start = started' /\ new.generation = generation' /\ new \in runs'
      BY <2>1, <2>2
    <3>2. alive'
      BY <2>1, Zenon
    <3> QED
      BY <3>1, <3>2, Zenon DEF IsLatest, Resumable
  <2>4. PendingRuns'
    BY <2>1, <2>2, <2>3, Zenon DEF PendingRuns
  <2>5. StartsApart'
    BY <1>a, <2>1, <2>2 DEF StartsApart
  <2> QED
    BY <2>4, <2>5
<1>3. ASSUME StartAndStop PROVE Kept
  <2>1. PendingRuns'
    BY <1>3, Zenon DEF StartAndStop, PendingRuns
  <2>2. started' = started + 1 /\ runs' = runs
    BY <1>3 DEF StartAndStop, CanStart
  <2>3. StartsApart'
    BY <1>a, <2>2 DEF StartsApart
  <2> QED
    BY <2>1, <2>3
<1>4. ASSUME NEW run \in runs, SettleStaleInvocation(run) PROVE Kept
  <2>1. /\ UNCHANGED <<alive, generation, invocation, pending, lost, started>>
        /\ runs' = runs \ {run}
        /\ ~Resumable(run)
    BY <1>4 DEF SettleStaleInvocation, stateSlots, owner
  <2>2. PendingRuns'
    <3> SUFFICES ASSUME pending', ~lost'
        PROVE \E r \in runs' : IsLatest(r)' /\ ~r.aborted /\ r.number = invocation'
      BY Zenon DEF PendingRuns
    <3>1. pending /\ ~lost
      BY <2>1, Zenon
    <3>2. PICK r \in runs : IsLatest(r) /\ ~r.aborted /\ r.number = invocation
      BY <3>1 DEF PendingRuns
    <3>3. r # run
      BY <2>1, <3>2 DEF IsLatest
    <3> QED
      BY <2>1, <3>2, <3>3 DEF IsLatest, Resumable
  <2> QED
    BY <1>d, <2>1, <2>2
<1>5. ASSUME NEW run \in runs, NEW succeeds \in BOOLEAN, SettleAndEnd(run, succeeds)
      PROVE Kept
  <2>1. /\ UNCHANGED <<alive, generation, invocation, lost, started>>
        /\ runs' = runs \ {run}
        /\ Publish(run, succeeds)
    BY <1>5 DEF SettleAndEnd, owner, Publish
  <2>2. CASE run.number = invocation
    <3>1. pending' = FALSE
      BY <2>1, <2>2 DEF Publish, Outcome
    <3> QED
      BY <1>c, <1>d, <2>1, <3>1
  <2>3. CASE run.number # invocation
    <3>1. pending' = pending
      BY <2>1, <2>3 DEF Publish
    <3>2. PendingRuns'
      <4> SUFFICES ASSUME pending', ~lost'
          PROVE \E r \in runs' : IsLatest(r)' /\ ~r.aborted /\ r.number = invocation'
        BY Zenon DEF PendingRuns
      <4>1. pending /\ ~lost
        BY <2>1, <3>1, Zenon
      <4>2. PICK r \in runs : IsLatest(r) /\ ~r.aborted /\ r.number = invocation
        BY <4>1 DEF PendingRuns
      <4>3. r # run
        BY <2>3, <4>2
      <4> QED
        BY <2>1, <4>2, <4>3 DEF IsLatest, Resumable
    <3> QED
      BY <1>d, <2>1, <3>2
  <2> QED
    BY <2>2, <2>3
<1>6. ASSUME NEW run \in runs, SettleAndFetch(run) PROVE Kept
  <2> DEFINE next == [run EXCEPT !.nth = run.nth + 1]
  <2>1. /\ next.number = run.number /\ next.start = run.start
        /\ next.generation = run.generation /\ next.aborted = run.aborted
    BY DEF MutationTypeOK, InvocationRun
  <2> HIDE DEF next
  <2>2. /\ UNCHANGED <<alive, generation, invocation, pending, lost, started>>
        /\ runs' = (runs \ {run}) \union {next}
    BY <1>6 DEF SettleAndFetch, owner, stateSlots, next
  <2>3. PendingRuns'
    <3> SUFFICES ASSUME pending', ~lost'
        PROVE \E r \in runs' : IsLatest(r)' /\ ~r.aborted /\ r.number = invocation'
      BY Zenon DEF PendingRuns
    <3>1. pending /\ ~lost
      BY <2>2, Zenon
    <3>2. PICK r \in runs : IsLatest(r) /\ ~r.aborted /\ r.number = invocation
      BY <3>1 DEF PendingRuns
    <3>3. CASE r # run
      BY <2>2, <3>2, <3>3 DEF IsLatest, Resumable
    <3>4. CASE r = run
      BY <2>1, <2>2, <3>2, <3>4 DEF IsLatest, Resumable
    <3> QED
      BY <3>3, <3>4
  <2>4. StartsApart'
    <3>1. \A r \in runs' : r = next \/ (r \in runs /\ r # run)
      BY <2>2
    <3>2. \A r, other \in runs' : r.start = other.start => r = other
      BY <2>1, <3>1 DEF StartsApart
    <3> QED
      BY <1>b, <2>1, <2>2, <3>1, <3>2
  <2> QED
    BY <2>3, <2>4
<1>7. ASSUME Load \/ UNCHANGED mutationVars PROVE Kept
  <2>1. UNCHANGED <<alive, generation, invocation, pending, lost, started, runs>>
    BY <1>7 DEF Load, stateSlots, mutationVars
  <2>2. PendingRuns'
    BY <2>1, Zenon DEF PendingRuns, IsLatest, Resumable
  <2> QED
    BY <1>d, <2>1, <2>2
<1>8. ASSUME RestoreOwner \/ Dispose PROVE Kept
  BY <1>8, <1>c, <1>e DEF RestoreOwner, Dispose, Reinitialised
<1>9. ASSUME SetInPlace \/ MountOwner PROVE Kept
  BY <1>9, <1>c, <1>d DEF SetInPlace, MountOwner, Reinitialised
<1>10. ASSUME NEW run \in runs, SettleAndStop(run) PROVE Kept
  <2>1. /\ UNCHANGED <<alive, generation, invocation, pending, started>>
        /\ runs' = runs \ {run}
        /\ lost' = (lost \/ IsLatest(run))
    BY <1>10 DEF SettleAndStop, stateSlots, owner
  <2>2. PendingRuns'
    <3> SUFFICES ASSUME pending', ~lost'
        PROVE \E r \in runs' : IsLatest(r)' /\ ~r.aborted /\ r.number = invocation'
      BY Zenon DEF PendingRuns
    <3>1. pending /\ ~lost /\ ~IsLatest(run)
      BY <2>1, Zenon
    <3>2. PICK r \in runs : IsLatest(r) /\ ~r.aborted /\ r.number = invocation
      BY <3>1 DEF PendingRuns
    <3> QED
      BY <2>1, <3>1, <3>2 DEF IsLatest, Resumable
  <2> QED
    BY <1>d, <2>1, <2>2
<1> QED
  BY <1>0, <1>1, <1>2, <1>3, <1>4, <1>5, <1>6, <1>7, <1>8, <1>9, <1>10 DEF MutationNext, SettleInvocation

(* Pending never outlives its request, for any limits and any number of    *)
(* invocations and loads, whether or not loading covers the route, unless  *)
(* the machine or the limit of fetches has stopped the latest invocation.  *)
THEOREM PendingHasItsRun == MutationSpec => []PendingIsRunning
<1>1. MutationInit => PendingInv
  <2>1. MutationInit => PendingRuns /\ StartsApart
    BY DEF MutationInit, PendingRuns, StartsApart
  <2> QED
    BY <2>1, MutationTypeInit DEF PendingInv
<1>2. PendingInv => PendingIsRunning
  BY DEF PendingInv, PendingRuns, PendingIsRunning
<1> QED
  BY <1>1, <1>2, PendingStep, PTL DEF MutationSpec
=============================================================================
