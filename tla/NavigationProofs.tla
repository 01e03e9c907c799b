-------------------------- MODULE NavigationProofs --------------------------
(***************************************************************************)
(* Proofs about Navigation: that between tasks the page shows its          *)
(* location, and that a loader in flight has every graph its outcome may   *)
(* need, for any manifest, any answers, any lazy graphs and any number of  *)
(* inputs.                                                                 *)
(*                                                                         *)
(* Two hypotheses name the sites for which the code keeps this:            *)
(*   NoEarlyRedirect   No loader redirects before its first fetch.  One    *)
(*                     that does begins a walk inside the walk, and the    *)
(*                     outer one goes on over the chain of the inner.      *)
(*   LeavesHavePhases  No layout has a pending or an error graph.  Such a  *)
(*                     graph has no outlet: the page below it leaves the   *)
(*                     document and nothing mounts it again.               *)
(*                                                                         *)
(* The argument: there is at most one walk, and it is the one to the       *)
(* location.  What it has passed is mounted for the location, unless a     *)
(* loader already ended at a boundary, above which nothing changes.  So    *)
(* when it ends, the chain is the location's, or ends at a boundary, or a  *)
(* graph is missing.  Joined, that every instance but the last shows its   *)
(* normal graph, is what makes a walk that cannot mount, or cannot run a   *)
(* loader, stop at a boundary and nowhere else.                            *)
(***************************************************************************)
EXTENDS Navigation, WellFoundedInduction, SequenceTheorems, TLAPS

(***************************************************************************)
(* The invariant                                                           *)
(***************************************************************************)

\* No loader redirects before its first fetch.
NoEarlyRedirect == \A route \in Loading : \A outcome \in Early[route] : outcome.kind # "redirect"

\* Only routes below which nothing is mounted have a pending or an error graph.
LeavesHavePhases == \A route \in Pending \cup Erring : ~HasOutlet(route)

\* The routes of a chain, as the manifest names them.
RoutesOf(chain) == [j \in DOMAIN chain |-> chain[j].route]

\* What is known of one instance: only a pending graph retains a runtime, only a
\* route that has a phase graph shows it, and a boundary has ended its loader.
Fine(x) ==
    /\ x.retained => x.graph = "pending"
    /\ x.graph = "pending" => x.route \in Pending
    /\ x.graph = "error" => x.route \in Erring
    /\ x.graph = "notFound" => x.loads = 0
    /\ x.loads > 0 => x.route \in Loading

AllFine(chain) == \A i \in 1..Len(chain) : Fine(chain[i])

\* The graphs a loader at position i may need have arrived,
PhasesThere(chain, i, have) ==
    chain[i].route \in Loading =>
        \A graph \in PhaseGraphs(RoutesOf(chain), i) : graph \notin Lazy \/ graph \in have

\* for every loader of the chain, in flight or not.
AllThere(chain, have) == \A i \in 1..Len(chain) : PhasesThere(chain, i, have)

\* The chain hangs together: every instance is in the document, each in the
\* outlet of the normal graph above it.
Joined(chain) ==
    \A i \in 1..Len(chain) :
        /\ chain[i].attached
        /\ i < Len(chain) => chain[i].graph = "normal" /\ HasOutlet(chain[i].route)

\* An instance is the one that the location has at position i.
For(x, to, i) ==
    /\ i <= Len(Chain[to.path])
    /\ x.route = Chain[to.path][i] /\ x.path = to.path /\ x.search = to.search

\* A boundary stands for the rest of the chain: the root's or the last instance's.
Ends(chain, r) ==
    \/ Len(chain) = 0 /\ r = "notFound"
    \/ Len(chain) # 0 /\ r = "normal" /\ chain[Len(chain)].graph = "notFound"

\* The chain is the location's, down to its last route or to a boundary.
IsPage(chain, r, to) ==
    /\ \A i \in 1..Len(chain) : For(chain[i], to, i)
    /\ r = "normal" \/ Len(chain) = 0
    /\ Len(chain) < Len(Chain[to.path]) => Ends(chain, r)

\* Some graph of the location has not arrived.
Lacks(to) == \E i \in DOMAIN Chain[to.path] : MissingGraphs(Chain[to.path], i) # {}

\* A walk is under way to the location, and has mounted what it passed, unless
\* a loader has ended at a boundary.  The loader it starts is at its last step.
Walk(f) ==
    /\ f.path = location.path /\ f.search = location.search
    /\ f.index \in 1..Len(Chain[f.path]) + 1
    /\ \A i \in 1..Len(instances) : i < f.index => For(instances[i], location, i)
    /\ root = "normal" \/ Len(instances) = 0
    /\ f.index = 1 => root = "normal"
    /\ f.index - 1 <= Len(instances) \/ Ends(instances, root)
    /\ running # 0 => running = f.index - 1

\* There is one walk at most.
Single == frames = <<>> \/ (Len(frames) = 1 /\ Walk(frames[1]))

\* What holds without early redirects,
OneWalk == Single /\ AllThere(instances, delivered)

\* and what holds if layouts have no phase graphs either.
Complete ==
    /\ Joined(instances)
    /\ frames = <<>> => Lacks(location) \/ IsPage(instances, root, location)

\* The inductive invariant.
IInv ==
    /\ TypeOK
    /\ AllFine(instances)
    /\ running # 0 => instances[running].route \in Loading
    /\ NoEarlyRedirect => OneWalk
    /\ NoEarlyRedirect /\ LeavesHavePhases => Complete

(***************************************************************************)
(* Chains and the graphs shown in them                                     *)
(***************************************************************************)

\* The instance is still of the same route, for the same location,
Kept(x, y) == y.route = x.route /\ y.path = x.path /\ y.search = x.search

\* and differs at most in being attached.
Twin(x, y) ==
    /\ Kept(x, y)
    /\ y.phase = x.phase /\ y.graph = x.graph /\ y.retained = x.retained /\ y.loads = x.loads

\* A chain as a function.
LEMMA ChainFacts ==
  ASSUME NEW c \in Seq(Instance)
  PROVE  /\ Len(c) \in Nat /\ DOMAIN c = 1..Len(c)
         /\ \A i \in 1..Len(c) : c[i] \in Instance
BY LenProperties, ElementOfSeq

\* A function on 1..n with instances for values is a chain.
LEMMA IsChain ==
  ASSUME NEW n \in Nat, NEW f, DOMAIN f = 1..n, f = [i \in DOMAIN f |-> f[i]],
         \A i \in 1..n : f[i] \in Instance
  PROVE  f \in Seq(Instance) /\ Len(f) = n
<1>1. f \in [1..n -> Instance]
  OBVIOUS
<1>2. f \in Seq(Instance)
  BY <1>1, SeqDef
<1>3. Len(f) = n
  BY <1>2, ChainFacts, <1>1
<1> QED
  BY <1>2, <1>3

\* DetachBelow takes instances below d out of the document and changes nothing else.
LEMMA DetachedBelow ==
  ASSUME NEW c \in Seq(Instance), NEW d \in Int
  PROVE  LET b == DetachBelow(c, d)
         IN  /\ b \in Seq(Instance) /\ Len(b) = Len(c)
             /\ \A i \in 1..Len(c) : /\ i <= d => b[i] = c[i]
                                     /\ Twin(c[i], b[i])
<1>1. PICK b : b = DetachBelow(c, d)
  OBVIOUS
<1>2. Len(c) \in Nat /\ DOMAIN c = 1..Len(c) /\ \A i \in 1..Len(c) : c[i] \in Instance
  BY ChainFacts
<1>3. /\ DOMAIN b = 1..Len(c) /\ b = [i \in DOMAIN b |-> b[i]]
      /\ \A i \in 1..Len(c) : b[i] = IF i > d THEN [c[i] EXCEPT !.attached = FALSE] ELSE c[i]
  BY <1>1, <1>2 DEF DetachBelow
<1>4. ASSUME NEW i \in 1..Len(c)
      PROVE  b[i] \in Instance /\ (i <= d => b[i] = c[i]) /\ Twin(c[i], b[i])
  <2>1. c[i] \in Instance /\ b[i] = IF i > d THEN [c[i] EXCEPT !.attached = FALSE] ELSE c[i]
    BY <1>2, <1>3
  <2>2. i \in Int
    OBVIOUS
  <2>3. Twin(c[i], c[i])
    BY DEF Twin, Kept
  <2>4. CASE i > d
    <3>1. PICK x : x = c[i]
      OBVIOUS
    <3>2. PICK y : y = [x EXCEPT !.attached = FALSE]
      OBVIOUS
    <3>3. x \in Instance
      BY <2>1, <3>1
    <3>4. y \in Instance /\ Twin(x, y)
      BY <3>2, <3>3 DEF Instance, Twin, Kept
    <3>5. b[i] = y
      BY <2>1, <2>4, <3>1, <3>2
    <3> QED
      BY <2>2, <2>4, <3>1, <3>4, <3>5
  <2>5. CASE ~(i > d)
    BY <2>1, <2>3, <2>5
  <2> QED
    BY <2>4, <2>5
<1>5. b \in Seq(Instance) /\ Len(b) = Len(c)
  BY <1>2, <1>3, <1>4, IsChain
<1> QED
  BY <1>1, <1>4, <1>5

\* One instance is replaced.
LEMMA ChainExcept ==
  ASSUME NEW c \in Seq(Instance), NEW d \in 1..Len(c), NEW x \in Instance
  PROVE  LET b == [c EXCEPT ![d] = x]
         IN  /\ b \in Seq(Instance) /\ Len(b) = Len(c) /\ b[d] = x
             /\ \A i \in 1..Len(c) : i # d => b[i] = c[i]
BY ExceptSeq

\* What an instance can show.
Graphs == {"normal", "pending", "error", "notFound"}

\* show_typed_route_graph, field by field: the instance at d shows the graph and
\* has nothing in flight; the ones below may be detached.
LEMMA ShowingIs ==
  ASSUME NEW c \in Seq(Instance), NEW d \in 1..Len(c), NEW graph \in Graphs
  PROVE  LET b == Showing(c, d, graph)
         IN  /\ b \in Seq(Instance) /\ Len(b) = Len(c)
             /\ \A i \in 1..Len(c) : /\ i < d => b[i] = c[i]
                                     /\ i # d => Twin(c[i], b[i])
             /\ Kept(c[d], b[d]) /\ b[d].graph = graph /\ b[d].loads = 0
             /\ b[d].retained = c[d].retained /\ b[d].phase = c[d].phase
             /\ b[d].attached = c[d].attached
<1>1. PICK e : e = DetachBelow(c, d)
  OBVIOUS
<1>2. /\ e \in Seq(Instance) /\ Len(e) = Len(c) /\ Len(c) \in Nat /\ d \in Int
      /\ \A i \in 1..Len(c) : (i <= d => e[i] = c[i]) /\ Twin(c[i], e[i])
  BY <1>1, DetachedBelow, ChainFacts
<1>3. e[d] \in Instance /\ e[d] = c[d] /\ d \in DOMAIN e
  BY <1>2, ChainFacts
<1>4. PICK x : x = [e[d] EXCEPT !.graph = graph, !.loads = 0]
  OBVIOUS
<1>5. x \in Instance
  BY <1>3, <1>4 DEF Instance, Graphs
<1>6. Showing(c, d, graph) = [e EXCEPT ![d] = x]
  BY <1>1, <1>3, <1>4 DEF Showing
<1>7. PICK b : b = [e EXCEPT ![d] = x]
  OBVIOUS
<1>8. /\ b \in Seq(Instance) /\ Len(b) = Len(e) /\ b[d] = x
      /\ \A i \in 1..Len(e) : i # d => b[i] = e[i]
  BY <1>2, <1>5, <1>7, ChainExcept
<1>9. /\ Kept(c[d], x) /\ x.graph = graph /\ x.loads = 0
      /\ x.retained = c[d].retained /\ x.phase = c[d].phase /\ x.attached = c[d].attached
  BY <1>3, <1>4 DEF Instance, Kept
<1>10. \A i \in 1..Len(c) : /\ i < d => b[i] = c[i]
                            /\ i # d => Twin(c[i], b[i])
  BY <1>2, <1>8
<1> QED
  BY <1>2, <1>6, <1>7, <1>8, <1>9, <1>10

(***************************************************************************)
(* What a loader changes: one instance, and what is attached below it      *)
(***************************************************************************)

\* b is c after something happened to the instance at d: its route and location
\* stay.  Only a route with a pending or an error graph shows another graph, or
\* detaches what is below.
Changed(c, b, d) ==
    /\ b \in Seq(Instance) /\ Len(b) = Len(c)
    /\ \A i \in 1..Len(c) : Kept(c[i], b[i]) /\ (i # d => Twin(c[i], b[i]))
    /\ Fine(b[d])
    /\ \/ \A i \in 1..Len(c) : b[i].attached = c[i].attached /\ b[i].graph = c[i].graph
       \/ /\ c[d].route \in Pending \cup Erring
          /\ \A i \in 1..Len(c) : i <= d => b[i].attached = c[i].attached

\* Two changes in a row are one.
LEMMA ChangedOn ==
  ASSUME NEW a, NEW b, NEW c, NEW d \in 1..Len(a), Changed(a, b, d), Changed(b, c, d)
  PROVE  Changed(a, c, d)
<1>1. Len(b) = Len(a) /\ Len(c) = Len(a) /\ c \in Seq(Instance) /\ Fine(c[d])
  BY DEF Changed
<1>2. \A i \in 1..Len(a) : Kept(a[i], c[i]) /\ (i # d => Twin(a[i], c[i]))
  BY <1>1 DEF Changed, Kept, Twin
<1>3. b[d].route = a[d].route
  BY DEF Changed, Kept
<1>4. CASE \A i \in 1..Len(a) : b[i].attached = a[i].attached /\ b[i].graph = a[i].graph
  BY <1>1, <1>2, <1>3, <1>4 DEF Changed
<1>5. CASE /\ a[d].route \in Pending \cup Erring
           /\ \A i \in 1..Len(a) : i <= d => b[i].attached = a[i].attached
  <2>1. \A i \in 1..Len(a) : i <= d => c[i].attached = b[i].attached
    BY <1>1 DEF Changed
  <2> QED
    BY <1>1, <1>2, <1>5, <2>1 DEF Changed
<1> QED
  BY <1>4, <1>5 DEF Changed

\* No change is one.
LEMMA SameChain ==
  ASSUME NEW c \in Seq(Instance), NEW d \in 1..Len(c), AllFine(c)
  PROVE  Changed(c, c, d)
BY DEF Changed, AllFine, Kept, Twin

\* A change of fields other than the graph.
LEMMA OneChanged ==
  ASSUME NEW c \in Seq(Instance), NEW d \in 1..Len(c), NEW x \in Instance,
         Kept(c[d], x), x.graph = c[d].graph, x.attached = c[d].attached, Fine(x)
  PROVE  Changed(c, [c EXCEPT ![d] = x], d)
<1>1. PICK b : b = [c EXCEPT ![d] = x]
  OBVIOUS
<1>2. /\ b \in Seq(Instance) /\ Len(b) = Len(c) /\ b[d] = x
      /\ \A i \in 1..Len(c) : i # d => b[i] = c[i]
  BY <1>1, ChainExcept
<1>3. \A i \in 1..Len(c) : /\ Kept(c[i], b[i]) /\ (i # d => Twin(c[i], b[i]))
                           /\ b[i].attached = c[i].attached /\ b[i].graph = c[i].graph
  BY <1>2 DEF Kept, Twin
<1> QED
  BY <1>1, <1>2, <1>3 DEF Changed

\* An answer more or less is awaited.
LEMMA LoadsChanged ==
  ASSUME NEW c \in Seq(Instance), NEW d \in 1..Len(c), AllFine(c), NEW n \in Nat,
         c[d].graph # "notFound", c[d].route \in Loading
  PROVE  LET b == [c EXCEPT ![d].loads = n]
         IN  Changed(c, b, d) /\ b[d].graph = c[d].graph
<1>1. c[d] \in Instance /\ d \in DOMAIN c /\ Fine(c[d])
  BY ChainFacts DEF AllFine
<1>2. PICK x : x = [c[d] EXCEPT !.loads = n]
  OBVIOUS
<1>3. /\ x \in Instance /\ Kept(c[d], x) /\ x.graph = c[d].graph /\ x.attached = c[d].attached
      /\ x.retained = c[d].retained
  BY <1>1, <1>2 DEF Instance, Kept
<1>4. Fine(x)
  BY <1>1, <1>3 DEF Fine, Kept
<1>5. [c EXCEPT ![d].loads = n] = [c EXCEPT ![d] = x]
  BY <1>1, <1>2
<1>6. [c EXCEPT ![d] = x][d] = x
  BY ChainExcept, <1>3
<1> QED
  BY <1>3, <1>4, <1>5, <1>6, OneChanged

\* Another graph is shown.
LEMMA GraphChanged ==
  ASSUME NEW c \in Seq(Instance), NEW d \in 1..Len(c),
         c[d].route \in Pending \cup Erring,
         NEW e \in Seq(Instance), Len(e) = Len(c),
         \A i \in 1..Len(c) : /\ i < d => e[i] = c[i]
                              /\ i # d => Twin(c[i], e[i]),
         NEW x \in Instance, Kept(c[d], x), x.attached = c[d].attached, Fine(x)
  PROVE  Changed(c, [e EXCEPT ![d] = x], d)
<1>1. PICK b : b = [e EXCEPT ![d] = x]
  OBVIOUS
<1>2. /\ b \in Seq(Instance) /\ Len(b) = Len(c) /\ b[d] = x
      /\ \A i \in 1..Len(c) : i # d => b[i] = e[i]
  BY <1>1, ChainExcept
<1>3. \A i \in 1..Len(c) : i <= d => i < d \/ i = d
  BY ChainFacts
<1>4. \A i \in 1..Len(c) : /\ Kept(c[i], b[i]) /\ (i # d => Twin(c[i], b[i]))
                           /\ i <= d => b[i].attached = c[i].attached
  BY <1>2, <1>3 DEF Twin
<1> QED
  BY <1>1, <1>2, <1>4 DEF Changed

\* run_typed_loader, before the loader runs.
LEMMA StartedChanged ==
  ASSUME NEW c \in Seq(Instance), NEW d \in 1..Len(c), AllFine(c),
         c[d].graph = "normal", c[d].route \in Loading
  PROVE  LET b == Started(c, d)
         IN  Changed(c, b, d) /\ b[d].graph # "notFound" /\ b[d].loads = c[d].loads
<1>1. c[d] \in Instance /\ d \in DOMAIN c /\ Fine(c[d]) /\ d \in Int
  BY ChainFacts DEF AllFine
<1>2. PICK x : x = [c[d] EXCEPT !.phase = "loading"]
  OBVIOUS
<1>3. /\ x \in Instance /\ Kept(c[d], x) /\ x.graph = c[d].graph /\ x.attached = c[d].attached
      /\ x.retained = c[d].retained /\ x.loads = c[d].loads
  BY <1>1, <1>2 DEF Instance, Kept
<1>4. Fine(x)
  BY <1>1, <1>3 DEF Fine, Kept
<1>5. PICK loading : loading = [c EXCEPT ![d] = x]
  OBVIOUS
<1>6. [c EXCEPT ![d].phase = "loading"] = loading
  BY <1>1, <1>2, <1>5
<1>7. /\ loading \in Seq(Instance) /\ Len(loading) = Len(c) /\ loading[d] = x
      /\ \A i \in 1..Len(c) : i # d => loading[i] = c[i]
  BY <1>3, <1>5, ChainExcept
<1>8. Changed(c, loading, d)
  BY <1>3, <1>4, <1>5, OneChanged
<1>9. CASE c[d].route \notin Pending
  BY <1>3, <1>6, <1>7, <1>8, <1>9 DEF Started
<1>10. CASE c[d].route \in Pending
  <2>1. PICK e : e = DetachBelow(loading, d)
    OBVIOUS
  <2>2. /\ e \in Seq(Instance) /\ Len(e) = Len(c) /\ e[d] = x
        /\ \A i \in 1..Len(c) : (i <= d => e[i] = loading[i]) /\ Twin(loading[i], e[i])
    BY <1>1, <1>7, <2>1, DetachedBelow
  <2>3. PICK y : y = [x EXCEPT !.graph = "pending", !.retained = TRUE]
    OBVIOUS
  <2>4. /\ y \in Instance /\ Kept(c[d], y) /\ y.attached = c[d].attached
        /\ y.graph = "pending" /\ y.loads = c[d].loads /\ y.retained
    BY <1>3, <2>3 DEF Instance, Kept
  <2>5. Fine(y)
    BY <1>10, <2>4 DEF Fine, Kept
  <2>6. Started(c, d) = [e EXCEPT ![d] = y]
    BY <1>3, <1>6, <1>10, <2>1, <2>2, <2>3, ChainFacts DEF Started, ShowingPending, Kept
  <2>7. \A i \in 1..Len(c) : /\ i < d => e[i] = c[i]
                             /\ i # d => Twin(c[i], e[i])
    BY <1>7, <2>2, ChainFacts
  <2>8. Changed(c, [e EXCEPT ![d] = y], d)
    BY <1>10, <2>2, <2>4, <2>5, <2>7, GraphChanged
  <2>9. [e EXCEPT ![d] = y][d] = y
    BY <2>2, <2>4, ChainExcept
  <2> QED
    BY <2>4, <2>6, <2>8, <2>9
<1> QED
  BY <1>9, <1>10

\* restore_typed_route_normal.
LEMMA RestoredChanged ==
  ASSUME NEW c \in Seq(Instance), NEW d \in 1..Len(c), AllFine(c), c[d].graph # "notFound"
  PROVE  Changed(c, Restored(c, d), d) /\ Restored(c, d)[d].graph # "notFound"
<1>1. c[d] \in Instance /\ Fine(c[d])
  BY ChainFacts DEF AllFine
<1>2. CASE ~c[d].retained
  BY <1>2, SameChain DEF Restored
<1>3. CASE c[d].retained
  <2>0. "normal" \in Graphs
    BY DEF Graphs
  <2>1. PICK e : e = Showing(c, d, "normal")
    OBVIOUS
  <2>2. /\ e \in Seq(Instance) /\ Len(e) = Len(c)
        /\ \A i \in 1..Len(c) : /\ i < d => e[i] = c[i]
                                /\ i # d => Twin(c[i], e[i])
        /\ Kept(c[d], e[d]) /\ e[d].graph = "normal" /\ e[d].loads = 0
        /\ e[d].attached = c[d].attached
    BY <2>0, <2>1, ShowingIs
  <2>3. e[d] \in Instance /\ d \in DOMAIN e
    BY <2>2, ChainFacts
  <2>4. PICK y : y = [e[d] EXCEPT !.retained = FALSE, !.phase = "normal"]
    OBVIOUS
  <2>5. /\ y \in Instance /\ Kept(c[d], y) /\ y.attached = c[d].attached
        /\ y.graph = "normal" /\ y.loads = 0 /\ ~y.retained
    BY <2>2, <2>3, <2>4 DEF Instance, Kept
  <2>6. Fine(y)
    BY <2>5 DEF Fine
  <2>7. Restored(c, d) = [e EXCEPT ![d] = y]
    BY <1>3, <2>1, <2>3, <2>4 DEF Restored
  <2>8. c[d].route \in Pending
    BY <1>1, <1>3 DEF Fine
  <2>9. Changed(c, [e EXCEPT ![d] = y], d)
    BY <2>2, <2>5, <2>6, <2>8, GraphChanged
  <2>10. [e EXCEPT ![d] = y][d] = y
    BY <2>2, <2>5, ChainExcept
  <2> QED
    BY <2>5, <2>7, <2>9, <2>10
<1> QED
  BY <1>1, <1>2, <1>3

\* show_typed_route_error.
LEMMA ErroredChanged ==
  ASSUME NEW c \in Seq(Instance), NEW d \in 1..Len(c), AllFine(c), c[d].graph # "notFound"
  PROVE  Changed(c, Errored(c, d), d)
<1>1. c[d] \in Instance /\ Fine(c[d]) /\ d \in DOMAIN c
  BY ChainFacts DEF AllFine
<1>2. PICK n \in Nat : n = (IF c[d].retained THEN 0 ELSE c[d].loads)
  BY <1>1 DEF Instance
<1>3. PICK x : x = [c[d] EXCEPT !.phase = "error", !.retained = FALSE, !.loads = n]
  OBVIOUS
<1>4. PICK failed : failed = [c EXCEPT ![d] = x]
  OBVIOUS
<1>5. [c EXCEPT ![d].phase = "error", ![d].retained = FALSE,
                ![d].loads = IF c[d].retained THEN 0 ELSE @] = failed
  BY <1>1, <1>2, <1>3, <1>4
<1>6. /\ x \in Instance /\ Kept(c[d], x) /\ x.graph = c[d].graph /\ x.attached = c[d].attached
      /\ x.loads = n /\ ~x.retained
  BY <1>1, <1>3 DEF Instance, Kept
<1>7. Fine(x)
  BY <1>1, <1>2, <1>6 DEF Fine, Kept, Instance
<1>8. Changed(c, failed, d)
  BY <1>4, <1>6, <1>7, OneChanged
<1>9. CASE c[d].route \notin Erring
  BY <1>5, <1>8, <1>9 DEF Errored
<1>10. CASE c[d].route \in Erring
  <2>1. /\ failed \in Seq(Instance) /\ Len(failed) = Len(c) /\ failed[d] = x
        /\ \A i \in 1..Len(c) : i # d => failed[i] = c[i]
    BY <1>4, <1>6, ChainExcept
  <2>2. PICK e : e = Showing(failed, d, "error")
    OBVIOUS
  <2>3. "error" \in Graphs
    BY DEF Graphs
  <2>4. /\ e \in Seq(Instance) /\ Len(e) = Len(c)
        /\ \A i \in 1..Len(c) : /\ i < d => e[i] = failed[i]
                                /\ i # d => Twin(failed[i], e[i])
        /\ Kept(x, e[d]) /\ e[d].graph = "error" /\ e[d].loads = 0
        /\ e[d].retained = x.retained /\ e[d].attached = x.attached
    BY <2>1, <2>2, <2>3, ShowingIs
  <2>5. Fine(e[d])
    BY <1>6, <1>10, <2>4 DEF Fine, Kept
  <2>6. Errored(c, d) = e
    BY <1>5, <1>10, <2>2 DEF Errored
  <2>7. \A i \in 1..Len(c) : i <= d => i < d \/ i = d
    BY ChainFacts
  <2>8. \A i \in 1..Len(c) : /\ Kept(c[i], e[i]) /\ (i # d => Twin(c[i], e[i]))
                             /\ i <= d => e[i].attached = c[i].attached
    BY <1>6, <2>1, <2>4, <2>7 DEF Twin, Kept
  <2> QED
    BY <1>10, <2>4, <2>5, <2>6, <2>8 DEF Changed
<1> QED
  BY <1>9, <1>10

\* retry_typed_route.
LEMMA RetriedChanged ==
  ASSUME NEW c \in Seq(Instance), NEW d \in 1..Len(c), AllFine(c), c[d].graph = "error"
  PROVE  Changed(c, Showing(c, d, "normal"), d)
<1>1. c[d] \in Instance /\ Fine(c[d])
  BY ChainFacts DEF AllFine
<1>2. "normal" \in Graphs
  BY DEF Graphs
<1>3. PICK e : e = Showing(c, d, "normal")
  OBVIOUS
<1>4. /\ e \in Seq(Instance) /\ Len(e) = Len(c)
      /\ \A i \in 1..Len(c) : /\ i < d => e[i] = c[i]
                              /\ i # d => Twin(c[i], e[i])
      /\ Kept(c[d], e[d]) /\ e[d].graph = "normal" /\ e[d].loads = 0
      /\ e[d].retained = c[d].retained /\ e[d].attached = c[d].attached
  BY <1>2, <1>3, ShowingIs
<1>5. Fine(e[d]) /\ c[d].route \in Erring
  BY <1>1, <1>4 DEF Fine
<1>6. \A i \in 1..Len(c) : i <= d => i < d \/ i = d
  BY ChainFacts
<1>7. \A i \in 1..Len(c) : /\ Kept(c[i], e[i]) /\ (i # d => Twin(c[i], e[i]))
                           /\ i <= d => e[i].attached = c[i].attached
  BY <1>4, <1>6 DEF Twin
<1> QED
  BY <1>3, <1>4, <1>5, <1>7 DEF Changed

\* A change keeps what is known of each instance.
LEMMA ChangedFine ==
  ASSUME NEW c \in Seq(Instance), NEW b, NEW d \in 1..Len(c), Changed(c, b, d), AllFine(c)
  PROVE  AllFine(b)
BY DEF Changed, AllFine, Twin, Kept, Fine

\* The order that the least element is taken from.
Less == { pair \in Nat \X Nat : pair[1] < pair[2] }

\* A nonempty set of numbers up to n has a greatest: the least of the distances
\* from n.
LEMMA GreatestNumber ==
  ASSUME NEW n \in Nat, NEW S \in SUBSET (1..n), S # {}
  PROVE  \E m \in S : \A k \in S : k <= m
<1>1. IsWellFoundedOn(Less, Nat)
  <2>1. OpToRel(<, Nat) = Less
    BY Zenon DEF OpToRel, Less
  <2> QED
    BY <2>1, NatLessThanWellFounded
<1>2. PICK T : T = { n - k : k \in S }
  OBVIOUS
<1>3. T \in SUBSET Nat /\ T # {}
  <2>1. \A k \in S : n - k \in Nat
    OBVIOUS
  <2> QED
    BY <1>2, <2>1
<1>4. PICK t \in T : \A u \in T : ~ (<<u, t>> \in Less)
  BY <1>1, <1>3, WFMin
<1>5. PICK m \in S : t = n - m
  BY <1>2
<1>6. ASSUME NEW k \in S
      PROVE  k <= m
  <2>1. n - k \in T /\ <<n - k, t>> \in Nat \X Nat
    BY <1>2, <1>3
  <2>2. ~ (n - k < t)
    BY <1>4, <2>1 DEF Less
  <2> QED
    BY <1>5, <2>2
<1> QED
  BY <1>5, <1>6

\* The nearest boundary is at the route or above it, or it is the root's.
LEMMA BoundaryIsAbove ==
  ASSUME NEW routes, NEW i \in Nat
  PROVE  NearestBoundary(routes, i) \in 0..i
<1>1. PICK owners : owners = { j \in 1..i : routes[j] \in Boundaries }
  OBVIOUS
<1>2. NearestBoundary(routes, i) =
         IF owners = {} THEN 0 ELSE CHOOSE j \in owners : \A k \in owners : k <= j
  BY <1>1 DEF NearestBoundary
<1>3. owners # {} => \E m \in owners : \A k \in owners : k <= m
  BY <1>1, GreatestNumber
<1>4. owners # {} => NearestBoundary(routes, i) \in owners
  BY <1>2, <1>3
<1> QED
  BY <1>1, <1>2, <1>4

\* The graphs a loader may need depend on the routes down to its own only.
LEMMA PhaseGraphsAgree ==
  ASSUME NEW r, NEW s, NEW i \in Nat \ {0}, \A j \in 1..i : r[j] = s[j]
  PROVE  PhaseGraphs(r, i) = PhaseGraphs(s, i)
<1>1. { j \in 1..i : r[j] \in Boundaries } = { j \in 1..i : s[j] \in Boundaries }
  OBVIOUS
<1>2. NearestBoundary(r, i) = NearestBoundary(s, i)
  <2>1. PICK owners : owners = { j \in 1..i : r[j] \in Boundaries }
    OBVIOUS
  <2>2. owners = { j \in 1..i : s[j] \in Boundaries }
    BY <1>1, <2>1
  <2>3. NearestBoundary(r, i) =
           IF owners = {} THEN 0 ELSE CHOOSE j \in owners : \A k \in owners : k <= j
    BY <2>1 DEF NearestBoundary
  <2>4. NearestBoundary(s, i) =
           IF owners = {} THEN 0 ELSE CHOOSE j \in owners : \A k \in owners : k <= j
    BY <2>2 DEF NearestBoundary
  <2> QED
    BY <2>3, <2>4
<1>3. NearestBoundary(r, i) # 0 => r[NearestBoundary(r, i)] = s[NearestBoundary(r, i)]
  BY BoundaryIsAbove
<1>4. BoundaryGraph(r, i) = BoundaryGraph(s, i)
  BY <1>2, <1>3 DEF BoundaryGraph
<1>5. r[i] = s[i]
  OBVIOUS
<1> QED
  BY <1>4, <1>5 DEF PhaseGraphs

\* A chain that begins with the same routes needs the same graphs.
LEMMA ThereStays ==
  ASSUME NEW c \in Seq(Instance), NEW b \in Seq(Instance), NEW have, AllThere(c, have),
         Len(b) <= Len(c), \A i \in 1..Len(b) : b[i].route = c[i].route
  PROVE  AllThere(b, have)
<1>1. /\ Len(b) \in Nat /\ Len(c) \in Nat
      /\ DOMAIN b = 1..Len(b) /\ DOMAIN c = 1..Len(c)
  BY ChainFacts
<1>2. SUFFICES ASSUME NEW i \in 1..Len(b) PROVE PhasesThere(b, i, have)
  BY DEF AllThere
<1>3. i \in 1..Len(c) /\ b[i].route = c[i].route /\ PhasesThere(c, i, have)
  BY <1>1 DEF AllThere
<1>4. \A j \in 1..i : RoutesOf(b)[j] = RoutesOf(c)[j]
  BY <1>1 DEF RoutesOf
<1>5. PhaseGraphs(RoutesOf(b), i) = PhaseGraphs(RoutesOf(c), i)
  BY <1>1, <1>4, PhaseGraphsAgree
<1> QED
  BY <1>3, <1>5 DEF PhasesThere

\* A change needs no other graphs.
LEMMA ChangedThere ==
  ASSUME NEW c \in Seq(Instance), NEW b, NEW d \in 1..Len(c), Changed(c, b, d),
         NEW have, AllThere(c, have)
  PROVE  AllThere(b, have)
BY ThereStays, ChainFacts DEF Changed, Kept

\* In a chain that hangs together a route with a phase graph is the last.
LEMMA PhasedIsLast ==
  ASSUME LeavesHavePhases, NEW c \in Seq(Instance), Joined(c), NEW d \in 1..Len(c),
         c[d].route \in Pending \cup Erring
  PROVE  d = Len(c)
BY ChainFacts DEF LeavesHavePhases, Joined

\* So what shows another graph has nothing below it to detach.
LEMMA ChangedJoined ==
  ASSUME LeavesHavePhases, NEW c \in Seq(Instance), NEW b, NEW d \in 1..Len(c), Changed(c, b, d),
         Joined(c)
  PROVE  Joined(b)
<1>1. Len(b) = Len(c) /\ Len(c) \in Nat /\ \A i \in 1..Len(c) : Kept(c[i], b[i])
  BY ChainFacts DEF Changed
<1>2. CASE \A i \in 1..Len(c) : b[i].attached = c[i].attached /\ b[i].graph = c[i].graph
  BY <1>1, <1>2 DEF Joined, Kept
<1>3. CASE /\ c[d].route \in Pending \cup Erring
           /\ \A i \in 1..Len(c) : i <= d => b[i].attached = c[i].attached
  <2>1. d = Len(c)
    BY <1>3, PhasedIsLast
  <2>2. \A i \in 1..Len(c) : b[i].attached /\ (i < Len(c) => b[i].graph = c[i].graph)
    BY <1>1, <1>3, <2>1 DEF Joined, Changed, Twin
  <2> QED
    BY <1>1, <2>2 DEF Joined, Kept
<1> QED
  BY <1>2, <1>3 DEF Changed

\* A change above a boundary leaves the boundary where it is,
LEMMA ChangedEnds ==
  ASSUME NEW c \in Seq(Instance), NEW b, NEW d \in 1..Len(c), Changed(c, b, d),
         c[d].graph # "notFound", NEW r, Ends(c, r)
  PROVE  Ends(b, r)
<1>1. Len(b) = Len(c) /\ Len(c) \in Nat
  BY ChainFacts DEF Changed
<1>2. Len(c) # 0 => Len(c) \in 1..Len(c)
  BY <1>1
<1> QED
  BY <1>1, <1>2 DEF Ends, Changed, Twin

\* and the page the location's.
LEMMA ChangedPage ==
  ASSUME NEW c \in Seq(Instance), NEW b, NEW d \in 1..Len(c), Changed(c, b, d),
         c[d].graph # "notFound", NEW r, NEW to, IsPage(c, r, to)
  PROVE  IsPage(b, r, to)
<1>1. Len(b) = Len(c) /\ \A i \in 1..Len(c) : Kept(c[i], b[i])
  BY DEF Changed
<1> QED
  BY <1>1, ChangedEnds DEF IsPage, For, Kept

(***************************************************************************)
(* Chains cut short, and the outcomes of a loader                          *)
(***************************************************************************)

\* b is c without its end.
Prefix(c, b) ==
    /\ b \in Seq(Instance) /\ Len(b) <= Len(c)
    /\ \A i \in 1..Len(b) : b[i] = c[i]

\* What is mounted above is untouched by disposing of what is below.
LEMMA PrefixKeeps ==
  ASSUME NEW c \in Seq(Instance), NEW b, Prefix(c, b)
  PROVE  /\ AllFine(c) => AllFine(b)
         /\ \A have : AllThere(c, have) => AllThere(b, have)
         /\ Joined(c) => Joined(b)
<1>1. Len(b) \in Nat /\ Len(c) \in Nat /\ \A i \in 1..Len(b) : i \in 1..Len(c)
  BY ChainFacts DEF Prefix
<1>2. \A i \in 1..Len(b) : Kept(c[i], b[i])
  BY DEF Prefix, Kept
<1>3. \A have : AllThere(c, have) => AllThere(b, have)
  BY <1>2, ThereStays DEF Prefix, Kept
<1>4. AllFine(c) => AllFine(b)
  BY <1>1 DEF Prefix, AllFine
<1>5. Joined(c) => Joined(b)
  BY <1>1 DEF Prefix, Joined
<1> QED
  BY <1>3, <1>4, <1>5

LEMMA SubSeqIs ==
  ASSUME NEW c \in Seq(Instance), NEW n \in 0..Len(c)
  PROVE  LET b == SubSeq(c, 1, n)
         IN  Prefix(c, b) /\ Len(b) = n
<1>1. Len(c) \in Nat /\ \A i \in 1..n : c[i] \in Instance
  BY ChainFacts
<1>2. /\ SubSeq(c, 1, n) \in Seq(Instance)
      /\ Len(SubSeq(c, 1, n)) = IF 1 <= n THEN n - 1 + 1 ELSE 0
      /\ \A i \in 1..n - 1 + 1 : SubSeq(c, 1, n)[i] = c[1 + i - 1]
  BY <1>1, SubSeqProperties
<1>3. Len(SubSeq(c, 1, n)) = n
  BY <1>1, <1>2
<1>4. \A i \in 1..n : SubSeq(c, 1, n)[i] = c[i]
  BY <1>1, <1>2
<1> QED
  BY <1>1, <1>2, <1>3, <1>4 DEF Prefix

\* dispose_typed_children keeps the instances above.
LEMMA FirstIs ==
  ASSUME instances \in Seq(Instance), NEW n \in Nat
  PROVE  LET b == FirstInstances(n)
         IN  Prefix(instances, b) /\ Len(b) = IF n < Len(instances) THEN n ELSE Len(instances)
<1>1. PICK m : m = IF n < Len(instances) THEN n ELSE Len(instances)
  OBVIOUS
<1>2. m \in 0..Len(instances)
  BY <1>1, ChainFacts
<1>3. FirstInstances(n) = SubSeq(instances, 1, m)
  BY <1>1 DEF FirstInstances
<1> QED
  BY <1>1, <1>2, <1>3, SubSeqIs

\* b is c down to an instance that now shows its boundary.
Cut(c, b) ==
    /\ b \in Seq(Instance) /\ Len(b) \in 1..Len(c)
    /\ \A i \in 1..Len(b) : Kept(c[i], b[i]) /\ b[i].attached = c[i].attached
    /\ \A i \in 1..Len(b) : i < Len(b) => Twin(c[i], b[i])
    /\ Fine(b[Len(b)]) /\ b[Len(b)].graph = "notFound"

\* A cut keeps what is known of the chain.
LEMMA CutKeeps ==
  ASSUME NEW c \in Seq(Instance), NEW b, Cut(c, b)
  PROVE  /\ AllFine(c) => AllFine(b)
         /\ \A have : AllThere(c, have) => AllThere(b, have)
         /\ Joined(c) => Joined(b)
<1>1. /\ Len(b) \in Nat /\ Len(c) \in Nat /\ \A i \in 1..Len(b) : i \in 1..Len(c)
      /\ \A i \in 1..Len(b) : i < Len(b) \/ i = Len(b)
  BY ChainFacts DEF Cut
<1>2. \A have : AllThere(c, have) => AllThere(b, have)
  BY <1>1, ThereStays DEF Cut, Kept
<1>3. AllFine(c) => AllFine(b)
  <2>1. \A i \in 1..Len(b) : Twin(c[i], b[i]) /\ Fine(c[i]) => Fine(b[i])
    BY DEF Twin, Kept, Fine
  <2> QED
    BY <1>1, <2>1 DEF Cut, AllFine
<1>4. Joined(c) => Joined(b)
  BY <1>1 DEF Cut, Joined, Twin, Kept
<1> QED
  BY <1>2, <1>3, <1>4

\* show_typed_route_not_found at the owner of the boundary.
LEMMA NotFoundCuts ==
  ASSUME NEW c \in Seq(Instance), AllFine(c), NEW o \in 1..Len(c)
  PROVE  Cut(c, NotFoundAt(c, o)) /\ Len(NotFoundAt(c, o)) = o
<1>1. PICK s : s = SubSeq(c, 1, o)
  OBVIOUS
<1>2. s \in Seq(Instance) /\ Len(s) = o /\ o \in Nat /\ o \in 1..Len(s) /\ Len(c) \in Nat
      /\ \A i \in 1..o : s[i] = c[i]
  BY <1>1, SubSeqIs, ChainFacts DEF Prefix
<1>3. "notFound" \in Graphs
  BY DEF Graphs
<1>4. PICK e : e = Showing(s, o, "notFound")
  OBVIOUS
<1>5. /\ e \in Seq(Instance) /\ Len(e) = o
      /\ \A i \in 1..o : i < o => e[i] = s[i]
      /\ Kept(s[o], e[o]) /\ e[o].graph = "notFound" /\ e[o].loads = 0
      /\ e[o].attached = s[o].attached
  <2>1. s \in Seq(Instance) /\ o \in 1..Len(s)
    BY <1>2
  <2>2. LET b == Showing(s, o, "notFound")
        IN  /\ b \in Seq(Instance) /\ Len(b) = Len(s)
            /\ \A i \in 1..Len(s) : i < o => b[i] = s[i]
            /\ Kept(s[o], b[o]) /\ b[o].graph = "notFound" /\ b[o].loads = 0
            /\ b[o].attached = s[o].attached
    BY <1>3, <2>1, ShowingIs
  <2> QED
    BY <1>2, <1>4, <2>2
<1>6. e[o] \in Instance /\ o \in DOMAIN e
  BY <1>2, <1>5, ChainFacts
<1>7. PICK x : x = [e[o] EXCEPT !.phase = "notFound", !.retained = FALSE]
  OBVIOUS
<1>8. /\ x \in Instance /\ Kept(e[o], x) /\ x.attached = e[o].attached
      /\ x.graph = "notFound" /\ x.loads = 0 /\ ~x.retained
  BY <1>5, <1>6, <1>7 DEF Instance, Kept
<1>9. NotFoundAt(c, o) = [e EXCEPT ![o] = x]
  BY <1>1, <1>4, <1>6, <1>7 DEF NotFoundAt
<1>10. PICK b : b = [e EXCEPT ![o] = x]
  OBVIOUS
<1>11. /\ b \in Seq(Instance) /\ Len(b) = o /\ b[o] = x
       /\ \A i \in 1..o : i # o => b[i] = e[i]
  BY <1>2, <1>5, <1>8, <1>10, ChainExcept
<1>12. Fine(x)
  BY <1>8 DEF Fine
<1>13. \A i \in 1..o : i < o => b[i] = c[i]
  BY <1>2, <1>5, <1>11
<1>14. Kept(c[o], x) /\ x.attached = c[o].attached
  BY <1>2, <1>5, <1>8 DEF Kept
<1>15. \A i \in 1..o : i < o \/ i = o
  BY <1>2
<1>16. \A i \in 1..o : Kept(c[i], b[i]) /\ b[i].attached = c[i].attached
  BY <1>11, <1>13, <1>14, <1>15 DEF Kept
<1>17. \A i \in 1..o : i < o => Twin(c[i], b[i])
  BY <1>13 DEF Twin, Kept
<1> QED
  BY <1>2, <1>8, <1>9, <1>10, <1>11, <1>12, <1>17, <1>16 DEF Cut

\* A cut at d or above, after a change at d.
LEMMA CutChanged ==
  ASSUME NEW c \in Seq(Instance), NEW b, NEW d \in 1..Len(c), Changed(c, b, d),
         NEW n, Cut(b, n), Len(n) <= d
  PROVE  Cut(c, n)
<1>1. /\ Len(n) \in Nat /\ Len(c) \in Nat /\ d \in Nat /\ Len(b) = Len(c)
      /\ \A i \in 1..Len(n) : i \in 1..Len(c) /\ i <= d
  BY ChainFacts DEF Cut, Changed
<1>2. \A i \in 1..Len(c) : Kept(c[i], b[i]) /\ (i <= d => b[i].attached = c[i].attached)
  BY <1>1 DEF Changed
<1>3. \A i \in 1..Len(n) : Kept(c[i], n[i]) /\ n[i].attached = c[i].attached
  BY <1>1, <1>2 DEF Cut, Kept
<1>4. \A i \in 1..Len(n) : i < Len(n) => Twin(c[i], n[i])
  <2>1. \A i \in 1..Len(n) : i < Len(n) => i # d /\ i \in 1..Len(c)
    BY <1>1
  <2>2. \A i \in 1..Len(n) : i < Len(n) => Twin(c[i], b[i]) /\ Twin(b[i], n[i])
    BY <2>1 DEF Changed, Cut
  <2> QED
    BY <2>2 DEF Twin, Kept
<1> QED
  BY <1>1, <1>3, <1>4 DEF Cut

\* What an outcome other than a redirect may do.
Stops(c, d) ==
    /\ UNCHANGED <<location, frames, redirects>>
    /\ \/ Changed(c, instances', d) /\ UNCHANGED root
       \/ Cut(c, instances') /\ Len(instances') <= d /\ UNCHANGED root
       \/ instances' = <<>> /\ root' = "notFound"

\* What a redirect within the budget does.
Moves(c, d, to) ==
    /\ Changed(c, instances', d)
    /\ Begin(to, frames) /\ redirects < MaxHops /\ redirects' = redirects + 1

\* complete_shared_route_loader does one or the other.
LEMMA Concludes ==
  ASSUME NEW c \in Seq(Instance), NEW d \in 1..Len(c), AllFine(c), c[d].graph # "notFound",
         NEW outcome \in Outcomes, Conclude(c, d, outcome)
  PROVE  \/ Stops(c, d)
         \/ outcome.kind = "redirect" /\ outcome.to \in Location /\ Moves(c, d, outcome.to)
<1>1. PICK b : b = Restored(c, d)
  OBVIOUS
<1>2. Changed(c, b, d) /\ b \in Seq(Instance) /\ AllFine(b) /\ Len(b) = Len(c)
  BY <1>1, RestoredChanged, ChangedFine DEF Changed
<1>3. \/ outcome.kind \in {"success", "failure", "notFound"}
      \/ outcome.kind = "redirect" /\ outcome.to \in Location
  <2>1. CASE outcome \in { Outcome(kind) : kind \in {"success", "failure", "notFound"} }
    <3>1. PICK kind \in {"success", "failure", "notFound"} : outcome = Outcome(kind)
      BY <2>1
    <3>2. outcome.kind = kind
      BY <3>1 DEF Outcome
    <3> QED
      BY <3>1, <3>2
  <2>2. CASE outcome \in { RedirectTo(to) : to \in Location }
    <3>1. PICK to \in Location : outcome = RedirectTo(to)
      BY <2>2
    <3>2. outcome.kind = "redirect" /\ outcome.to = to
      BY <3>1 DEF RedirectTo
    <3> QED
      BY <3>1, <3>2
  <2> QED
    BY <2>1, <2>2 DEF Outcomes
<1>4. CASE outcome.kind = "success"
  BY <1>1, <1>2, <1>4 DEF Conclude, Stops
<1>5. CASE outcome.kind = "failure"
  BY <1>5, ErroredChanged DEF Conclude, Stops
<1>6. CASE outcome.kind = "redirect"
  BY <1>1, <1>2, <1>3, <1>6 DEF Conclude, Stops, Moves, Redirect
<1>7. CASE outcome.kind = "notFound"
  <2>1. NotFound(b, d)
    BY <1>1, <1>7 DEF Conclude
  <2>2. PICK owner : owner = Owner(b, d)
    OBVIOUS
  <2>3. d \in Nat /\ owner \in 0..d /\ Len(c) \in Nat
    BY <2>2, BoundaryIsAbove, ChainFacts DEF Owner
  <2>4. /\ \/ owner # 0 /\ instances' = NotFoundAt(b, owner) /\ UNCHANGED root
           \/ owner = 0 /\ instances' = <<>> /\ root' = "notFound"
        /\ UNCHANGED <<location, frames, redirects>>
    BY <2>1, <2>2 DEF NotFound
  <2>5. CASE owner # 0
    <3>1. owner \in 1..Len(b) /\ owner <= d
      BY <1>2, <2>3, <2>5
    <3>2. PICK n : n = NotFoundAt(b, owner)
      OBVIOUS
    <3>3. Cut(b, n) /\ Len(n) = owner
      BY <1>2, <3>1, <3>2, NotFoundCuts
    <3>4. Cut(c, n)
      BY <1>2, <3>1, <3>3, CutChanged
    <3>5. instances' = n /\ UNCHANGED root
      BY <2>4, <2>5, <3>2
    <3> QED
      BY <2>4, <3>1, <3>3, <3>4, <3>5 DEF Stops
  <2> QED
    BY <2>4, <2>5 DEF Stops
<1> QED
  BY <1>3, <1>4, <1>5, <1>6, <1>7

(***************************************************************************)
(* The walk and what is known between two steps                            *)
(***************************************************************************)

\* A call of navigate_typed_route.
AFrame == [path : Paths, search : Searches, index : Nat \ {0}]

\* The innermost call, and the stack when it ends or advances.
LEMMA FrameFacts ==
  ASSUME frames \in Seq(AFrame), frames # <<>>
  PROVE  /\ Frame \in AFrame
         /\ Front(frames) \in Seq(AFrame)
         /\ Advanced \in Seq(AFrame)
         /\ Len(frames) = 1 => /\ Frame = frames[1] /\ Front(frames) = <<>>
                               /\ Len(Advanced) = 1
                               /\ Advanced[1] = [Frame EXCEPT !.index = @ + 1]
<1>1. Len(frames) \in Nat /\ Len(frames) # 0 /\ DOMAIN frames = 1..Len(frames)
  BY LenProperties, EmptySeq
<1>2. Len(frames) \in 1..Len(frames)
  BY <1>1
<1>3. Frame = frames[Len(frames)] /\ Frame \in AFrame
  BY <1>2, ElementOfSeq DEF Frame, Last
<1>4. Front(frames) \in Seq(AFrame) /\ (Len(frames) = 1 => Front(frames) = <<>>)
  <2>1. Front(frames) = SubSeq(frames, 1, Len(frames) - 1)
    BY DEF Front
  <2>2. \A i \in 1..Len(frames) - 1 : frames[i] \in AFrame
    BY <1>1, ElementOfSeq
  <2>3. SubSeq(frames, 1, Len(frames) - 1) \in Seq(AFrame)
    BY <1>1, <2>2, SubSeqProperties
  <2>4. Len(frames) = 1 => Len(SubSeq(frames, 1, Len(frames) - 1)) = 0
    BY <1>1, <2>2, SubSeqProperties
  <2> QED
    BY <2>1, <2>3, <2>4, EmptySeq
<1>5. PICK x : x = [Frame EXCEPT !.index = @ + 1]
  OBVIOUS
<1>6. x \in AFrame
  BY <1>3, <1>5 DEF AFrame
<1>7. Advanced = [frames EXCEPT ![Len(frames)] = x]
  BY <1>3, <1>5 DEF Advanced
<1>8. /\ Advanced \in Seq(AFrame) /\ Len(Advanced) = Len(frames)
      /\ Advanced[Len(frames)] = x
  BY <1>2, <1>6, <1>7, ExceptSeq
<1> QED
  BY <1>3, <1>4, <1>5, <1>8

\* The stack when a walk begins.
LEMMA BeginFacts ==
  ASSUME NEW to \in Location, NEW below \in Seq(AFrame)
  PROVE  LET f == [path |-> to.path, search |-> to.search, index |-> 1]
         IN  /\ f \in AFrame
             /\ Append(below, f) \in Seq(AFrame)
             /\ below = <<>> => Len(Append(below, f)) = 1 /\ Append(below, f)[1] = f
<1>1. PICK f : f = [path |-> to.path, search |-> to.search, index |-> 1]
  OBVIOUS
<1>2. f \in AFrame
  BY <1>1 DEF AFrame, Location
<1>3. /\ Append(below, f) \in Seq(AFrame) /\ Len(Append(below, f)) = Len(below) + 1
      /\ Append(below, f)[Len(below) + 1] = f
  BY <1>2, AppendProperties
<1>4. below = <<>> => Len(below) + 1 = 1
  BY EmptySeq
<1> QED
  BY <1>1, <1>2, <1>3, <1>4

\* The manifest's chains as functions.
LEMMA ManifestFacts ==
  /\ \A path \in Paths : /\ Len(Chain[path]) \in Nat
                         /\ DOMAIN Chain[path] = 1..Len(Chain[path])
                         /\ \A i \in 1..Len(Chain[path]) : Chain[path][i] \in Routes
  /\ Loading \subseteq Routes /\ Pending \subseteq Loading /\ Erring \subseteq Loading
<1>1. \A path \in Paths : Chain[path] \in Seq(Routes)
  BY ManifestAssumption
<1>2. \A path \in Paths : /\ Len(Chain[path]) \in Nat
                          /\ DOMAIN Chain[path] = 1..Len(Chain[path])
                          /\ \A i \in 1..Len(Chain[path]) : Chain[path][i] \in Routes
  BY <1>1, LenProperties, ElementOfSeq
<1> QED
  BY <1>2, ManifestAssumption

\* Every route but the last of a chain has an outlet.
LEMMA HasOutletAbove ==
  ASSUME NEW path \in Paths, NEW i \in 1..Len(Chain[path]), i # Len(Chain[path])
  PROVE  HasOutlet(Chain[path][i])
<1>1. i \in 1..(Len(Chain[path]) - 1)
  BY ManifestFacts
<1> QED
  BY <1>1 DEF HasOutlet

\* The types, in the form the steps below use them.
Known ==
    /\ instances \in Seq(Instance) /\ AllFine(instances)
    /\ Len(instances) \in Nat /\ DOMAIN instances = 1..Len(instances)
    /\ \A i \in 1..Len(instances) : instances[i] \in Instance
    /\ frames \in Seq(AFrame)
    /\ running \in 0..Len(instances)
    /\ running # 0 => running \in 1..Len(instances) /\ instances[running].route \in Loading
    /\ location \in Location /\ root \in {"normal", "notFound"}
    /\ redirects \in 0..MaxHops /\ delivered \subseteq Lazy
    /\ requests \in [Lazy -> Nat] /\ inputs \in 0..MaxInputs

LEMMA KnownFacts ==
  ASSUME IInv
  PROVE  Known
<1>1. instances \in Seq(Instance) /\ TypeOK /\ AllFine(instances)
      /\ (running # 0 => instances[running].route \in Loading)
  BY DEF IInv, TypeOK
<1>2. Len(instances) \in Nat /\ DOMAIN instances = 1..Len(instances)
      /\ \A i \in 1..Len(instances) : instances[i] \in Instance
  BY <1>1, ChainFacts
<1>3. running \in 0..Len(instances) /\ (running # 0 => running \in 1..Len(instances))
  BY <1>1, <1>2 DEF TypeOK
<1> QED
  BY <1>1, <1>2, <1>3 DEF Known, TypeOK, AFrame

\* They are all of the invariant that needs no hypothesis.
LEMMA KnownIsTyped ==
  ASSUME Known'
  PROVE  TypeOK' /\ AllFine(instances)' /\ (running # 0 => instances[running].route \in Loading)'
<1>1. \A i \in DOMAIN instances' : instances'[i].retained => instances'[i].graph = "pending"
  BY DEF Known, AllFine, Fine
<1> QED
  BY <1>1 DEF Known, TypeOK, AFrame

\* The only walk there is.
LEMMA WalkFacts ==
  ASSUME Known, Single, frames # <<>>
  PROVE  /\ Len(frames) = 1 /\ Walk(Frame) /\ Frame \in AFrame /\ Matched = Chain[location.path]
         /\ location.path \in Paths
         /\ Front(frames) = <<>> /\ Advanced \in Seq(AFrame) /\ Len(Advanced) = 1
         /\ Advanced[1] = [Frame EXCEPT !.index = @ + 1]
<1>1. Len(frames) = 1 /\ Walk(frames[1])
  BY DEF Single
<1>2. /\ Frame = frames[1] /\ Front(frames) = <<>> /\ Frame \in AFrame
      /\ Advanced \in Seq(AFrame) /\ Len(Advanced) = 1
      /\ Advanced[1] = [Frame EXCEPT !.index = @ + 1]
  BY <1>1, FrameFacts DEF Known
<1>3. Frame.path = location.path
  BY <1>1, <1>2 DEF Walk
<1> QED
  BY <1>1, <1>2, <1>3 DEF Matched, Known, Location

(***************************************************************************)
(* Steps that change or cut the chain                                      *)
(***************************************************************************)

\* A step that changes the instance at d, at which the walk stands if there is one.
LEMMA ChangedKeeps ==
  ASSUME IInv, NEW d \in 1..Len(instances), instances[d].graph # "notFound",
         Changed(instances, instances', d),
         UNCHANGED <<location, root, frames, redirects, delivered>>,
         requests' \in [Lazy -> Nat], inputs' \in 0..MaxInputs,
         running' = 0 \/ (running' = d /\ instances[d].route \in Loading),
         NoEarlyRedirect /\ frames # <<>> => d = Frame.index - 1
  PROVE  IInv'
<1>1. Known
  BY KnownFacts
<1>2. /\ instances' \in Seq(Instance) /\ Len(instances') = Len(instances)
      /\ \A i \in 1..Len(instances) : Kept(instances[i], instances'[i])
  BY DEF Changed
<1>3. AllFine(instances')
  BY <1>1, ChangedFine DEF Known
<1>4. Known'
  <2>1. /\ Len(instances') \in Nat /\ DOMAIN instances' = 1..Len(instances')
        /\ \A i \in 1..Len(instances') : instances'[i] \in Instance
    BY <1>2, ChainFacts
  <2>2. running' \in 0..Len(instances')
    BY <1>1, <1>2 DEF Known
  <2>3. running' # 0 => running' \in 1..Len(instances') /\ instances'[running'].route \in Loading
    BY <1>2 DEF Kept
  <2> QED
    BY <1>1, <1>2, <1>3, <2>1, <2>2, <2>3 DEF Known
<1>5. TypeOK' /\ AllFine(instances)' /\ (running # 0 => instances[running].route \in Loading)'
  BY <1>4, KnownIsTyped
<1>6. ASSUME NoEarlyRedirect PROVE OneWalk'
  <2>1. Single /\ AllThere(instances, delivered)
    BY <1>6 DEF IInv, OneWalk
  <2>2. AllThere(instances', delivered')
    BY <1>1, <2>1, ChangedThere DEF Known
  <2>3. ASSUME frames # <<>> PROVE Len(frames') = 1 /\ Walk(frames[1])'
    <3>1. Len(frames) = 1 /\ Walk(Frame) /\ Frame = frames[1] /\ Frame \in AFrame
      BY <1>1, <2>1, <2>3, WalkFacts, FrameFacts DEF Known
    <3>2. frames' = frames /\ d = frames[1].index - 1
      BY <1>6, <2>3, <3>1
    <3>3. \A i \in 1..Len(instances') : i < frames[1].index => For(instances'[i], location, i)
      BY <1>2, <3>1 DEF Walk, For, Kept
    <3>4. frames[1].index - 1 <= Len(instances') \/ Ends(instances', root)
      BY <1>1, <1>2, <3>1, ChangedEnds DEF Walk, Known
    <3>5. running' # 0 => running' = frames[1].index - 1
      BY <3>2
    <3> QED
      BY <1>2, <3>1, <3>2, <3>3, <3>4, <3>5 DEF Walk, For
  <2> QED
    BY <2>2, <2>3 DEF OneWalk, Single
<1>7. ASSUME NoEarlyRedirect, LeavesHavePhases PROVE Complete'
  <2>1. Complete
    BY <1>7 DEF IInv
  <2>2. Joined(instances')
    BY <1>1, <1>7, <2>1, ChangedJoined DEF Known, Complete
  <2>3. IsPage(instances, root, location) => IsPage(instances', root, location)
    BY <1>1, ChangedPage DEF Known
  <2>4. Lacks(location) => Lacks(location)'
    BY DEF Lacks, MissingGraphs, Registered
  <2> QED
    BY <2>1, <2>2, <2>3, <2>4 DEF Complete, IsPage, For, Ends
<1> QED
  BY <1>5, <1>6, <1>7 DEF IInv

\* A step that ends at the boundary of a route.
LEMMA CutsKeep ==
  ASSUME IInv, NEW d \in 1..Len(instances),
         Cut(instances, instances'), Len(instances') <= d,
         UNCHANGED <<location, root, frames, redirects, loads, inputs>>, running' = 0,
         NoEarlyRedirect /\ frames # <<>> => d = Frame.index - 1
  PROVE  IInv'
<1>1. Known
  BY KnownFacts
<1>2. /\ instances' \in Seq(Instance) /\ Len(instances') \in 1..Len(instances)
      /\ Len(instances') \in Nat /\ Len(instances) \in Nat
      /\ \A i \in 1..Len(instances') : i \in 1..Len(instances) /\ Kept(instances[i], instances'[i])
  BY <1>1 DEF Cut, Known
<1>3. AllFine(instances')
  BY <1>1, CutKeeps DEF Known
<1>4. Known'
  <2>1. /\ DOMAIN instances' = 1..Len(instances')
        /\ \A i \in 1..Len(instances') : instances'[i] \in Instance
    BY <1>2, ChainFacts
  <2> QED
    BY <1>1, <1>2, <1>3, <2>1 DEF Known, loads
<1>5. TypeOK' /\ AllFine(instances)' /\ (running # 0 => instances[running].route \in Loading)'
  BY <1>4, KnownIsTyped
<1>6. root = "normal" => Ends(instances', root)
  BY <1>2 DEF Ends, Cut
<1>7. ASSUME NoEarlyRedirect PROVE OneWalk'
  <2>1. Single /\ AllThere(instances, delivered)
    BY <1>7 DEF IInv, OneWalk
  <2>2. AllThere(instances', delivered')
    BY <1>1, <2>1, CutKeeps DEF Known, loads
  <2>3. ASSUME frames # <<>> PROVE Len(frames') = 1 /\ Walk(frames[1])'
    <3>1. Len(frames) = 1 /\ Walk(Frame) /\ Frame = frames[1] /\ Frame \in AFrame
      BY <1>1, <2>1, <2>3, WalkFacts, FrameFacts DEF Known
    <3>2. frames' = frames
      OBVIOUS
    <3>3. \A i \in 1..Len(instances') : i < frames[1].index => For(instances'[i], location, i)
      BY <1>2, <3>1 DEF Walk, For, Kept
    <3>4. root = "normal"
      BY <1>2, <3>1 DEF Walk
    <3> QED
      BY <1>6, <3>1, <3>2, <3>3, <3>4 DEF Walk, For, Ends
  <2> QED
    BY <2>2, <2>3 DEF OneWalk, Single
<1>8. ASSUME NoEarlyRedirect, LeavesHavePhases PROVE Complete'
  <2>1. Complete
    BY <1>8 DEF IInv
  <2>2. Joined(instances')
    BY <1>1, <2>1, CutKeeps DEF Known, Complete
  <2>3. IsPage(instances, root, location) => IsPage(instances', root, location)
    <3>1. IsPage(instances, root, location) => root = "normal"
      BY <1>2 DEF IsPage
    <3> QED
      BY <1>2, <1>6, <3>1 DEF IsPage, For, Kept
  <2>4. Lacks(location) => Lacks(location)'
    BY DEF Lacks, MissingGraphs, Registered, loads
  <2> QED
    BY <2>1, <2>2, <2>3, <2>4 DEF Complete, IsPage, For, Ends
<1> QED
  BY <1>5, <1>7, <1>8 DEF IInv

\* A step that ends at the root's boundary.
LEMMA EmptyKeeps ==
  ASSUME IInv, NEW d \in 1..Len(instances), instances' = <<>>, root' = "notFound",
         UNCHANGED <<location, frames, redirects, loads, inputs>>, running' = 0,
         NoEarlyRedirect /\ frames # <<>> => d = Frame.index - 1
  PROVE  IInv'
<1>1. Known
  BY KnownFacts
<1>2. instances' \in Seq(Instance) /\ Len(instances') = 0
  BY EmptySeq
<1>3. AllFine(instances') /\ AllThere(instances', delivered') /\ Joined(instances')
      /\ Ends(instances', root')
  BY <1>2 DEF AllFine, AllThere, Joined, Ends
<1>4. Known'
  <2>1. /\ Len(instances') \in Nat /\ DOMAIN instances' = 1..Len(instances')
        /\ \A i \in 1..Len(instances') : instances'[i] \in Instance
    BY <1>2, ChainFacts
  <2> QED
    BY <1>1, <1>2, <1>3, <2>1 DEF Known, loads
<1>5. TypeOK' /\ AllFine(instances)' /\ (running # 0 => instances[running].route \in Loading)'
  BY <1>4, KnownIsTyped
<1>6. ASSUME NoEarlyRedirect PROVE OneWalk'
  <2>1. Single
    BY <1>6 DEF IInv, OneWalk
  <2>2. ASSUME frames # <<>> PROVE Len(frames') = 1 /\ Walk(frames[1])'
    <3>1. Len(frames) = 1 /\ Walk(Frame) /\ Frame = frames[1] /\ Frame \in AFrame
      BY <1>1, <2>1, <2>2, WalkFacts, FrameFacts DEF Known
    <3>2. frames' = frames /\ d = frames[1].index - 1
      BY <1>6, <2>2, <3>1
    <3>3. frames[1].index # 1
      BY <3>1, <3>2 DEF AFrame
    <3> QED
      BY <1>2, <1>3, <3>1, <3>2, <3>3 DEF Walk, For, Ends
  <2> QED
    BY <1>3, <2>2 DEF OneWalk, Single
<1>7. IsPage(instances', root', location')
  BY <1>2, <1>3 DEF IsPage
<1> QED
  BY <1>3, <1>5, <1>6, <1>7 DEF IInv, Complete

\* An outcome that does not redirect.
LEMMA StopKeeps ==
  ASSUME IInv, NEW d \in 1..Len(instances), instances[d].graph # "notFound",
         Stops(instances, d), UNCHANGED <<loads, inputs>>, running' = 0,
         NoEarlyRedirect /\ frames # <<>> => d = Frame.index - 1
  PROVE  IInv'
<1>1. UNCHANGED <<location, frames, redirects>>
  BY DEF Stops
<1>2. CASE Changed(instances, instances', d) /\ UNCHANGED root
  <2>1. Known
    BY KnownFacts
  <2>2. requests' \in [Lazy -> Nat] /\ inputs' \in 0..MaxInputs /\ UNCHANGED delivered
    BY <2>1 DEF Known, loads
  <2> QED
    BY <1>1, <1>2, <2>2, ChangedKeeps
<1>3. CASE Cut(instances, instances') /\ Len(instances') <= d /\ UNCHANGED root
  BY <1>1, <1>3, CutsKeep
<1>4. CASE instances' = <<>> /\ root' = "notFound"
  BY <1>1, <1>4, EmptyKeeps
<1> QED
  BY <1>2, <1>3, <1>4 DEF Stops

(***************************************************************************)
(* The steps of the walk                                                   *)
(***************************************************************************)

\* The walk mounts a route when the graphs of its loader are there; they are the
\* ones of the chain, since that agrees with the location so far.
LEMMA ReadyThere ==
  ASSUME NEW c \in Seq(Instance), NEW path \in Paths, NEW i \in 1..Len(Chain[path]),
         i <= Len(c), MissingGraphs(Chain[path], i) = {}, delivered \subseteq Lazy,
         \A j \in 1..i : c[j].route = Chain[path][j]
  PROVE  PhasesThere(c, i, delivered)
<1>1. i \in Nat \ {0} /\ DOMAIN c = 1..Len(c) /\ Len(c) \in Nat
  BY ChainFacts
<1>2. \A j \in 1..i : RoutesOf(c)[j] = Chain[path][j]
  BY <1>1 DEF RoutesOf
<1>3. PhaseGraphs(RoutesOf(c), i) = PhaseGraphs(Chain[path], i)
  BY <1>1, <1>2, PhaseGraphsAgree
<1>4. c[i].route = Chain[path][i]
  BY <1>1
<1>5. Chain[path][i] \in Loading =>
        \A graph \in PhaseGraphs(Chain[path], i) : Registered(graph)
  BY DEF MissingGraphs
<1> QED
  BY <1>3, <1>4, <1>5 DEF PhasesThere, Registered

\* request_typed_graph: the walk ends and a graph is missing.
LEMMA RequestGraphKeeps ==
  ASSUME IInv, RequestGraph
  PROVE  IInv'
<1>1. Known
  BY KnownFacts
<1>2. PICK graph \in MissingGraphs(Matched, Frame.index) :
        requests' = [requests EXCEPT ![graph] = @ + 1]
  BY DEF RequestGraph
<1>3. UNCHANGED <<location, root, redirects, inputs, instances, running, delivered>>
      /\ frames' = Front(frames) /\ frames # <<>> /\ running = 0 /\ Frame.index <= Len(Matched)
  BY DEF RequestGraph, AtRoute, Walking
<1>4. frames' \in Seq(AFrame) /\ Frame \in AFrame
  BY <1>1, <1>3, FrameFacts DEF Known
<1>5. requests' \in [Lazy -> Nat]
  <2>1. graph \in Lazy
    BY DEF MissingGraphs, Registered
  <2>2. requests \in [Lazy -> Nat]
    BY <1>1 DEF Known
  <2> QED
    BY <1>2, <2>1, <2>2
<1>6. Known'
  BY <1>1, <1>3, <1>4, <1>5 DEF Known, AllFine
<1>7. TypeOK' /\ AllFine(instances)' /\ (running # 0 => instances[running].route \in Loading)'
  BY <1>6, KnownIsTyped
<1>8. ASSUME NoEarlyRedirect
      PROVE  OneWalk' /\ frames' = <<>> /\ Lacks(location)
  <2>1. Single /\ AllThere(instances, delivered)
    BY <1>8 DEF IInv, OneWalk
  <2>2. frames' = <<>> /\ Matched = Chain[location.path] /\ location.path \in Paths
    BY <1>1, <1>3, <2>1, WalkFacts
  <2>3. Frame.index \in DOMAIN Chain[location.path]
    BY <1>3, <1>4, <2>2, ManifestFacts DEF AFrame
  <2>4. MissingGraphs(Matched, Frame.index) # {}
    BY <1>2
  <2>5. Lacks(location)
    BY <2>2, <2>3, <2>4 DEF Lacks
  <2>6. AllThere(instances, delivered)'
    BY <1>3, <2>1 DEF AllThere, PhasesThere
  <2> QED
    BY <2>2, <2>5, <2>6 DEF OneWalk, Single
<1>9. ASSUME NoEarlyRedirect, LeavesHavePhases PROVE Complete'
  <2>1. Joined(instances)
    BY <1>9 DEF IInv, Complete
  <2>2. Lacks(location)
    BY <1>8, <1>9
  <2>3. Lacks(location)'
    BY <1>3, <2>2 DEF Lacks, MissingGraphs, Registered
  <2>4. Joined(instances)'
    BY <1>3, <2>1 DEF Joined
  <2> QED
    BY <2>3, <2>4 DEF Complete
<1> QED
  BY <1>7, <1>8, <1>9 DEF IInv

\* The walk goes on to the next route.
LEMMA AdvancedWalk ==
  ASSUME Known, Single, frames # <<>>, Frame.index <= Len(Matched), frames' = Advanced,
         UNCHANGED <<location, root>>, root = "normal", NEW i, i = Frame.index,
         i <= Len(instances'), Len(instances') \in Nat,
         \A j \in 1..Len(instances') : j < i + 1 => For(instances'[j], location, j),
         running' \in {0, i}
  PROVE  Single'
<1>1. /\ Len(frames) = 1 /\ Walk(Frame) /\ Frame \in AFrame /\ Matched = Chain[location.path]
      /\ location.path \in Paths
      /\ Len(Advanced) = 1 /\ Advanced[1] = [Frame EXCEPT !.index = @ + 1]
  BY WalkFacts
<1>2. PICK f : f = Advanced[1]
  OBVIOUS
<1>3. f.path = Frame.path /\ f.search = Frame.search /\ f.index = i + 1 /\ i \in Nat \ {0}
  BY <1>1, <1>2 DEF AFrame
<1>4. Chain[f.path] = Chain[location.path] /\ Len(Chain[location.path]) \in Nat
  BY <1>1, <1>3, ManifestFacts DEF Walk
<1>5. /\ f.path = location.path /\ f.search = location.search
      /\ f.index \in 1..Len(Chain[f.path]) + 1 /\ f.index # 1
      /\ f.index - 1 <= Len(instances')
      /\ running' # 0 => running' = f.index - 1
  BY <1>1, <1>3, <1>4 DEF Walk
<1>6. Walk(f)'
  BY <1>3, <1>5 DEF Walk, For
<1> QED
  BY <1>1, <1>2, <1>6 DEF Single

\* The instance is kept, with the new query string.
LEMMA KeepKeeps ==
  ASSUME IInv, Keep
  PROVE  IInv'
<1>1. Known
  BY KnownFacts
<1>2. PICK i : i = Frame.index
  OBVIOUS
<1>3. /\ UNCHANGED <<location, root, redirects, inputs, delivered, requests>>
      /\ frames # <<>> /\ running = 0 /\ i <= Len(Matched)
      /\ frames' = Advanced
      /\ i <= Len(instances) /\ instances[i].route = Matched[i] /\ instances[i].path = Frame.path
      /\ instances' = [instances EXCEPT ![i].search = Frame.search]
      /\ (running' = 0 \/ (running' = i /\ Matched[i] \in Loading))
  BY <1>2 DEF Keep, Ready, AtRoute, Walking, Current, loads
<1>4. Advanced \in Seq(AFrame) /\ Frame \in AFrame
  BY <1>1, <1>3, FrameFacts DEF Known
<1>5. i \in 1..Len(instances) /\ Frame.search \in Searches /\ instances[i] \in Instance
  BY <1>1, <1>2, <1>3, <1>4 DEF Known, AFrame
<1>6. PICK x : x = [instances[i] EXCEPT !.search = Frame.search]
  OBVIOUS
<1>7. /\ x \in Instance /\ x.route = instances[i].route /\ x.path = instances[i].path
      /\ x.search = Frame.search /\ x.graph = instances[i].graph
      /\ x.attached = instances[i].attached /\ x.retained = instances[i].retained
      /\ x.loads = instances[i].loads
  BY <1>5, <1>6 DEF Instance
<1>8. instances' = [instances EXCEPT ![i] = x]
  BY <1>1, <1>3, <1>5, <1>6 DEF Known
<1>9. /\ instances' \in Seq(Instance) /\ Len(instances') = Len(instances) /\ instances'[i] = x
      /\ \A j \in 1..Len(instances) : j # i => instances'[j] = instances[j]
  BY <1>1, <1>5, <1>7, <1>8, ChainExcept DEF Known
<1>10. \A j \in 1..Len(instances) : /\ instances'[j].route = instances[j].route
                                    /\ instances'[j].graph = instances[j].graph
                                    /\ instances'[j].attached = instances[j].attached
                                    /\ Fine(instances[j]) => Fine(instances'[j])
  BY <1>7, <1>9 DEF Fine
<1>11. Known'
  <2>1. /\ Len(instances') \in Nat /\ DOMAIN instances' = 1..Len(instances')
        /\ \A j \in 1..Len(instances') : instances'[j] \in Instance
    BY <1>9, ChainFacts
  <2>2. running' \in 0..Len(instances')
        /\ (running' # 0 => running' \in 1..Len(instances') /\ instances'[running'].route \in Loading)
    BY <1>1, <1>3, <1>5, <1>9, <1>10 DEF Known
  <2>3. AllFine(instances')
    BY <1>1, <1>9, <1>10 DEF Known, AllFine
  <2> QED
    BY <1>1, <1>3, <1>4, <1>9, <2>1, <2>2, <2>3 DEF Known
<1>12. TypeOK' /\ AllFine(instances)' /\ (running # 0 => instances[running].route \in Loading)'
  BY <1>11, KnownIsTyped
<1>13. ASSUME NoEarlyRedirect PROVE OneWalk' /\ frames' # <<>>
  <2>1. Single /\ AllThere(instances, delivered)
    BY <1>13 DEF IInv, OneWalk
  <2>2. AllThere(instances', delivered')
    <3>1. Len(instances') <= Len(instances)
      BY <1>1, <1>9 DEF Known
    <3> QED
      BY <1>1, <1>3, <1>9, <1>10, <2>1, <3>1, ThereStays DEF Known
  <2>3. Walk(Frame) /\ Matched = Chain[location.path] /\ location.path \in Paths
        /\ Len(Advanced) = 1
    BY <1>1, <1>3, <2>1, WalkFacts
  <2>4. root = "normal"
    BY <1>5, <2>3 DEF Walk
  <2>5. For(instances'[i], location, i)
    BY <1>3, <1>7, <1>9, <2>3 DEF For, Walk
  <2>6. \A j \in 1..Len(instances') : j < i + 1 => For(instances'[j], location, j)
    <3>1. \A j \in 1..Len(instances') : j < i + 1 => j = i \/ (j < i /\ j # i)
      BY <1>5
    <3> QED
      BY <1>2, <1>9, <2>3, <2>5, <3>1 DEF Walk
  <2>7. i <= Len(instances') /\ Len(instances') \in Nat
    BY <1>1, <1>3, <1>9 DEF Known
  <2>8. Single'
    BY <1>1, <1>2, <1>3, <2>1, <2>4, <2>6, <2>7, AdvancedWalk
  <2>9. frames' # <<>>
    <3>1. Len(frames') = 1
      BY <1>3, <2>3
    <3>2. Len(<<>>) = 0
      BY EmptySeq
    <3> QED
      BY ONLY <3>1, <3>2
  <2> QED
    BY <2>2, <2>8, <2>9 DEF OneWalk
<1>14. ASSUME NoEarlyRedirect, LeavesHavePhases PROVE Complete'
  <2>1. Joined(instances)
    BY <1>14 DEF IInv, Complete
  <2>2. Joined(instances')
    BY <1>9, <1>10, <2>1 DEF Joined
  <2> QED
    BY <1>13, <1>14, <2>2 DEF Complete
<1> QED
  BY <1>12, <1>13, <1>14 DEF IInv

\* mount_typed_child.
LEMMA MountKeeps ==
  ASSUME IInv, Mount
  PROVE  IInv'
<1>1. Known
  BY KnownFacts
<1>2. PICK i : i = Frame.index
  OBVIOUS
<1>3. PICK x : x = Mounted(Matched[i], Frame.path, Frame.search)
  OBVIOUS
<1>4. /\ UNCHANGED <<location, root, redirects, inputs, delivered, requests>>
      /\ frames # <<>> /\ running = 0 /\ i <= Len(Matched)
      /\ MissingGraphs(Matched, i) = {}
      /\ frames' = Advanced /\ OutletShown(i)
      /\ instances' = Append(FirstInstances(i - 1), x)
      /\ (running' = 0 \/ (running' = i /\ Matched[i] \in Loading))
  BY <1>2, <1>3 DEF Mount, Ready, AtRoute, Walking, loads
<1>5. Advanced \in Seq(AFrame) /\ Frame \in AFrame
  BY <1>1, <1>4, FrameFacts DEF Known
<1>6. i \in Nat \ {0} /\ i - 1 \in Nat /\ Frame.path \in Paths /\ Frame.search \in Searches
  BY <1>2, <1>5 DEF AFrame
<1>7. PICK b : b = FirstInstances(i - 1)
  OBVIOUS
<1>8. Prefix(instances, b) /\ Len(b) = i - 1
  <2>1. Prefix(instances, b)
        /\ Len(b) = IF i - 1 < Len(instances) THEN i - 1 ELSE Len(instances)
    BY <1>1, <1>6, <1>7, FirstIs DEF Known
  <2>2. i = 1 \/ i - 1 <= Len(instances)
    BY <1>4 DEF OutletShown
  <2> QED
    BY <1>1, <1>6, <2>1, <2>2 DEF Known
<1>9. Matched[i] \in Routes
  BY <1>4, <1>6, ManifestFacts DEF Matched
<1>10. /\ x \in Instance /\ x.route = Matched[i] /\ x.path = Frame.path
       /\ x.search = Frame.search /\ x.graph = "normal" /\ x.attached
       /\ ~x.retained /\ x.loads = 0
  BY <1>3, <1>6, <1>9 DEF Mounted, Instance
<1>11. /\ instances' \in Seq(Instance) /\ Len(instances') = i /\ instances'[i] = x
       /\ \A j \in 1..i - 1 : instances'[j] = instances[j] /\ j \in 1..Len(instances)
  <2>1. b \in Seq(Instance) /\ instances' = Append(b, x)
    BY <1>4, <1>7, <1>8 DEF Prefix
  <2>2. /\ instances' \in Seq(Instance) /\ Len(instances') = Len(b) + 1
        /\ instances'[Len(b) + 1] = x
        /\ \A j \in 1..Len(b) : instances'[j] = b[j]
    BY <1>10, <2>1, AppendProperties
  <2> QED
    BY <1>1, <1>6, <1>8, <2>2 DEF Prefix, Known
<1>12. \A j \in 1..i : j = i \/ (j \in 1..i - 1 /\ j # i)
  BY <1>6
<1>13. Known'
  <2>1. /\ Len(instances') \in Nat /\ DOMAIN instances' = 1..Len(instances')
        /\ \A j \in 1..Len(instances') : instances'[j] \in Instance
    BY <1>11, ChainFacts
  <2>2. running' \in 0..Len(instances')
        /\ (running' # 0 => running' \in 1..Len(instances') /\ instances'[running'].route \in Loading)
    BY <1>4, <1>6, <1>10, <1>11
  <2>3. Fine(x)
    BY <1>10 DEF Fine
  <2>4. AllFine(instances')
    BY <1>1, <1>11, <1>12, <2>3 DEF Known, AllFine
  <2> QED
    BY <1>1, <1>4, <1>5, <1>11, <2>1, <2>2, <2>4 DEF Known
<1>14. TypeOK' /\ AllFine(instances)' /\ (running # 0 => instances[running].route \in Loading)'
  BY <1>13, KnownIsTyped
<1>15. ASSUME NoEarlyRedirect PROVE OneWalk' /\ frames' # <<>>
  <2>1. Single /\ AllThere(instances, delivered)
    BY <1>15 DEF IInv, OneWalk
  <2>2. Walk(Frame) /\ Matched = Chain[location.path] /\ location.path \in Paths
        /\ Len(Advanced) = 1
    BY <1>1, <1>4, <2>1, WalkFacts
  <2>3. For(x, location, i)
    BY <1>4, <1>10, <2>2 DEF For, Walk
  <2>4. \A j \in 1..i : For(instances'[j], location, j)
    <3>1. \A j \in 1..i - 1 : For(instances[j], location, j)
      BY <1>2, <1>6, <1>11, <2>2 DEF Walk
    <3> QED
      BY <1>11, <1>12, <2>3, <3>1
  <2>5. AllThere(instances', delivered')
    <3>1. AllThere(b, delivered)
      BY <1>1, <1>8, <2>1, PrefixKeeps DEF Known
    <3>2. b \in Seq(Instance) /\ Len(b) = i - 1 /\ \A j \in 1..Len(b) : b[j] = instances'[j]
      BY <1>1, <1>8, <1>11 DEF Prefix
    <3>3. PhasesThere(instances', i, delivered)
      <4>1. i \in 1..Len(Chain[location.path]) /\ i <= Len(instances')
        BY <1>4, <1>6, <1>11, <2>2, ManifestFacts
      <4>2. \A j \in 1..i : instances'[j].route = Chain[location.path][j]
        BY <2>4 DEF For
      <4>3. MissingGraphs(Chain[location.path], i) = {}
        BY <1>4, <2>2
      <4> QED
        BY <1>1, <1>11, <2>2, <4>1, <4>2, <4>3, ReadyThere DEF Known
    <3>4. ASSUME NEW j \in 1..i - 1 PROVE PhasesThere(instances', j, delivered)
      <4>1. PhasesThere(b, j, delivered) /\ b[j] = instances'[j]
        BY <3>1, <3>2, <3>4 DEF AllThere
      <4>2. /\ j \in Nat \ {0} /\ DOMAIN b = 1..i - 1 /\ DOMAIN instances' = 1..i
            /\ \A k \in 1..j : k \in 1..i - 1 /\ k \in 1..i
        BY <1>6, <1>11, <3>2, <3>4, ChainFacts
      <4>3. \A k \in 1..j : RoutesOf(b)[k] = RoutesOf(instances')[k]
        BY <3>2, <4>2 DEF RoutesOf
      <4>4. PhaseGraphs(RoutesOf(b), j) = PhaseGraphs(RoutesOf(instances'), j)
        BY <4>2, <4>3, PhaseGraphsAgree
      <4> QED
        BY <4>1, <4>4 DEF PhasesThere
    <3> QED
      BY <1>4, <1>11, <1>12, <3>3, <3>4 DEF AllThere
  <2>6. root = "normal"
    <3>1. CASE i = 1
      BY <1>4, <3>1 DEF OutletShown
    <3>2. CASE i # 1
      <4>1. i - 1 \in 1..i - 1
        BY <1>6, <3>2
      <4>2. Len(instances) # 0
        BY <1>1, <1>11, <4>1 DEF Known
      <4> QED
        BY <2>2, <4>2 DEF Walk
    <3> QED
      BY <3>1, <3>2
  <2>7. /\ i <= Len(instances') /\ Len(instances') \in Nat /\ running' \in {0, i}
        /\ \A j \in 1..Len(instances') : j < i + 1 => For(instances'[j], location, j)
    BY <1>4, <1>6, <1>11, <2>4
  <2>8. Single'
    BY <1>1, <1>2, <1>4, <2>1, <2>6, <2>7, AdvancedWalk
  <2>9. frames' # <<>>
    <3>1. Len(frames') = 1
      BY <1>4, <2>2
    <3>2. Len(<<>>) = 0
      BY EmptySeq
    <3> QED
      BY ONLY <3>1, <3>2
  <2> QED
    BY <2>5, <2>8, <2>9 DEF OneWalk
<1>16. ASSUME NoEarlyRedirect, LeavesHavePhases PROVE Complete'
  <2>1. Joined(instances)
    BY <1>16 DEF IInv, Complete
  <2>2. ASSUME NEW j \in 1..i - 1
        PROVE  instances'[j].attached /\ instances'[j].graph = "normal"
               /\ HasOutlet(instances'[j].route)
    <3>1. j \in 1..Len(instances) /\ instances'[j] = instances[j]
      BY <1>11, <2>2
    <3>2. instances[j].attached
      BY <2>1, <3>1 DEF Joined
    <3>3. CASE j = i - 1
      <4>1. i # 1
        BY <1>6, <2>2, <3>3
      <4>2. instances[j].graph = "normal" /\ HasOutlet(instances[j].route)
        BY <1>4, <3>3, <4>1 DEF OutletShown
      <4> QED
        BY <3>1, <3>2, <4>2
    <3>4. CASE j # i - 1
      <4>1. i - 1 \in 1..Len(instances) /\ j < i - 1
        BY <1>6, <1>11, <2>2, <3>4
      <4>2. j < Len(instances)
        BY <1>1, <1>6, <2>2, <4>1 DEF Known
      <4> QED
        BY <2>1, <3>1, <3>2, <4>2 DEF Joined
    <3> QED
      BY <3>3, <3>4
  <2>3. Joined(instances')
    BY <1>6, <1>10, <1>11, <1>12, <2>2 DEF Joined
  <2> QED
    BY <1>15, <1>16, <2>3 DEF Complete
<1> QED
  BY <1>14, <1>15, <1>16 DEF IInv

\* The walk ends, with what it has passed still mounted.
LEMMA ShortKeeps ==
  ASSUME IInv, Prefix(instances, instances'), frames # <<>>, frames' = Front(frames),
         running = 0, UNCHANGED <<location, root, running, redirects, loads, inputs>>,
         NoEarlyRedirect /\ LeavesHavePhases => IsPage(instances', root, location)
  PROVE  IInv'
<1>1. Known
  BY KnownFacts
<1>2. instances' \in Seq(Instance) /\ AllFine(instances')
  BY <1>1, PrefixKeeps DEF Known, Prefix
<1>3. frames' \in Seq(AFrame)
  BY <1>1, FrameFacts DEF Known
<1>4. Known'
  <2>1. /\ Len(instances') \in Nat /\ DOMAIN instances' = 1..Len(instances')
        /\ \A j \in 1..Len(instances') : instances'[j] \in Instance
    BY <1>2, ChainFacts
  <2> QED
    BY <1>1, <1>2, <1>3, <2>1 DEF Known, loads
<1>5. TypeOK' /\ AllFine(instances)' /\ (running # 0 => instances[running].route \in Loading)'
  BY <1>4, KnownIsTyped
<1>6. ASSUME NoEarlyRedirect PROVE OneWalk'
  <2>1. Single /\ AllThere(instances, delivered)
    BY <1>6 DEF IInv, OneWalk
  <2>2. frames' = <<>>
    BY <1>1, <2>1, WalkFacts
  <2>3. AllThere(instances', delivered)
    BY <1>1, <2>1, PrefixKeeps DEF Known
  <2> QED
    BY <2>2, <2>3 DEF OneWalk, Single, loads
<1>7. ASSUME NoEarlyRedirect, LeavesHavePhases PROVE Complete'
  <2>1. Joined(instances)
    BY <1>7 DEF IInv, Complete
  <2>2. Joined(instances')
    BY <1>1, <2>1, PrefixKeeps DEF Known
  <2>3. IsPage(instances', root, location)
    BY <1>7
  <2> QED
    BY <2>2, <2>3 DEF Complete, IsPage, For, Ends
<1> QED
  BY <1>5, <1>6, <1>7 DEF IInv

\* All routes have been passed.
LEMMA ArriveKeeps ==
  ASSUME IInv, Arrive
  PROVE  IInv'
<1>1. Known
  BY KnownFacts
<1>2. /\ UNCHANGED <<location, root, running, redirects, loads, inputs>>
      /\ frames # <<>> /\ running = 0 /\ frames' = Front(frames)
      /\ Frame.index > Len(Matched) /\ instances' = FirstInstances(Len(Matched))
  BY DEF Arrive, Walking
<1>3. Frame \in AFrame /\ Len(Matched) \in Nat
  <2>1. Frame \in AFrame
    BY <1>1, <1>2, FrameFacts DEF Known
  <2> QED
    BY <2>1, ManifestFacts DEF Matched, AFrame
<1>4. /\ Prefix(instances, instances')
      /\ Len(instances') = IF Len(Matched) < Len(instances) THEN Len(Matched) ELSE Len(instances)
  BY <1>1, <1>2, <1>3, FirstIs DEF Known
<1>5. ASSUME NoEarlyRedirect PROVE IsPage(instances', root, location)
  <2>1. Walk(Frame) /\ Matched = Chain[location.path]
    <3>1. Single
      BY <1>5 DEF IInv, OneWalk
    <3> QED
      BY <1>1, <1>2, <3>1, WalkFacts
  <2>2. Frame.index = Len(Matched) + 1 /\ Frame.index - 1 = Len(Matched)
    BY <1>2, <1>3, <2>1 DEF Walk, AFrame
  <2>3. \A i \in 1..Len(instances') : /\ i \in 1..Len(instances) /\ i < Frame.index
                                      /\ instances'[i] = instances[i]
    BY <1>1, <1>3, <1>4, <2>2 DEF Prefix, Known
  <2>4. \A i \in 1..Len(instances') : For(instances'[i], location, i)
    BY <2>1, <2>3 DEF Walk
  <2>5. root = "normal" \/ Len(instances') = 0
    BY <1>1, <1>3, <1>4, <2>1 DEF Walk, Known
  <2>6. ASSUME Len(instances') < Len(Matched) PROVE Ends(instances', root)
    <3>1. Len(instances') = Len(instances) /\ Len(instances) < Len(Matched)
      BY <1>1, <1>3, <1>4, <2>6 DEF Known
    <3>2. Ends(instances, root)
      BY <1>1, <1>3, <2>1, <2>2, <3>1 DEF Walk, Known
    <3>3. Len(instances) # 0 => instances'[Len(instances)] = instances[Len(instances)]
      BY <1>1, <1>4, <3>1 DEF Prefix, Known
    <3> QED
      BY <3>1, <3>2, <3>3 DEF Ends
  <2> QED
    BY <2>1, <2>4, <2>5, <2>6 DEF IsPage
<1> QED
  BY <1>2, <1>4, <1>5, ShortKeeps

\* Only the last instance shows a pending or an error graph, and it has no outlet.
LEMMA LastNormal ==
  ASSUME LeavesHavePhases, Known, Joined(instances), NEW d \in 1..Len(instances),
         instances[d].graph # "normal", instances[d].graph # "notFound"
  PROVE  d = Len(instances) /\ ~HasOutlet(instances[d].route)
<1>1. instances[d].graph \in {"pending", "error"} /\ Fine(instances[d])
  BY DEF Known, Instance, AllFine
<1>2. instances[d].route \in Pending \cup Erring
  BY <1>1 DEF Fine
<1> QED
  BY <1>2, PhasedIsLast DEF LeavesHavePhases, Known

\* There is no outlet to mount in: the instance above shows a boundary.
LEMMA MountFailsKeeps ==
  ASSUME IInv, MountFails
  PROVE  IInv'
<1>1. Known
  BY KnownFacts
<1>2. PICK i : i = Frame.index
  OBVIOUS
<1>3. /\ UNCHANGED <<location, root, running, redirects, loads, inputs>>
      /\ frames # <<>> /\ running = 0 /\ frames' = Front(frames)
      /\ i <= Len(Matched) /\ ~OutletShown(i) /\ instances' = FirstInstances(i - 1)
  BY <1>2 DEF MountFails, Ready, AtRoute, Walking
<1>4. Frame \in AFrame /\ i \in Nat \ {0} /\ i - 1 \in Nat
  <2>1. Frame \in AFrame
    BY <1>1, <1>3, FrameFacts DEF Known
  <2> QED
    BY <1>2, <2>1 DEF AFrame
<1>5. /\ Prefix(instances, instances')
      /\ Len(instances') = IF i - 1 < Len(instances) THEN i - 1 ELSE Len(instances)
  BY <1>1, <1>3, <1>4, FirstIs DEF Known
<1>6. ASSUME NoEarlyRedirect, LeavesHavePhases PROVE IsPage(instances', root, location)
  <2>1. Walk(Frame) /\ Matched = Chain[location.path] /\ location.path \in Paths
    <3>1. Single
      BY <1>6 DEF IInv, OneWalk
    <3> QED
      BY <1>1, <1>3, <3>1, WalkFacts
  <2>2. Joined(instances)
    BY <1>6 DEF IInv, Complete
  <2>3. i # 1
    BY <1>2, <1>3, <2>1 DEF Walk, OutletShown
  <2>4. \A j \in 1..Len(instances') : /\ j \in 1..Len(instances) /\ j < i
                                      /\ instances'[j] = instances[j]
    <3>1. /\ Len(instances') \in Nat /\ Len(instances') <= i - 1
          /\ Len(instances') <= Len(instances)
      BY <1>1, <1>4, <1>5 DEF Known
    <3>2. \A j \in 1..Len(instances') : j \in 1..Len(instances) /\ j < i
      BY <1>1, <1>4, <3>1 DEF Known
    <3> QED
      BY <1>5, <3>2 DEF Prefix
  <2>5. \A j \in 1..Len(instances') : For(instances'[j], location, j)
    BY <1>2, <2>1, <2>4 DEF Walk
  <2>6. Ends(instances', root)
    <3>1. CASE i - 1 <= Len(instances)
      <4>1. i - 1 \in 1..Len(instances) /\ Len(instances') = i - 1 /\ root = "normal"
            /\ i - 1 # 0
        BY <1>1, <1>4, <1>5, <2>1, <2>3, <3>1 DEF Walk, Known
      <4>2. instances'[i - 1] = instances[i - 1] /\ For(instances[i - 1], location, i - 1)
        BY <1>4, <2>4, <2>5, <4>1
      <4>3. i - 1 \in 1..Len(Chain[location.path]) /\ i - 1 # Len(Chain[location.path])
        BY <1>3, <1>4, <2>1, <2>3, ManifestFacts
      <4>4. HasOutlet(instances[i - 1].route)
        BY <2>1, <4>2, <4>3, HasOutletAbove DEF For
      <4>5. instances[i - 1].graph # "normal"
        BY <1>3, <2>3, <3>1, <4>4 DEF OutletShown
      <4>6. instances[i - 1].graph = "notFound"
        BY <1>1, <1>6, <2>2, <4>1, <4>4, <4>5, LastNormal
      <4> QED
        BY <4>1, <4>2, <4>6 DEF Ends
    <3>2. CASE ~(i - 1 <= Len(instances))
      <4>1. Ends(instances, root) /\ Len(instances') = Len(instances)
        BY <1>1, <1>2, <1>4, <1>5, <2>1, <3>2 DEF Walk, Known
      <4>2. Len(instances) # 0 => instances'[Len(instances)] = instances[Len(instances)]
        BY <1>1, <1>5, <4>1 DEF Prefix, Known
      <4> QED
        BY <4>1, <4>2 DEF Ends
    <3> QED
      BY <3>1, <3>2
  <2>7. root = "normal" \/ Len(instances') = 0
    BY <2>6 DEF Ends
  <2> QED
    BY <2>5, <2>6, <2>7 DEF IsPage
<1> QED
  BY <1>3, <1>5, <1>6, ShortKeeps

(***************************************************************************)
(* The steps of loaders, deliveries and inputs                             *)
(***************************************************************************)

\* A loader started by the walk is that of the route passed last.
LEMMA RunningEndsTheWalk ==
  ASSUME IInv, NoEarlyRedirect, running # 0, frames # <<>>
  PROVE  running = Frame.index - 1
<1>1. Known /\ Single
  BY KnownFacts DEF IInv, OneWalk
<1> QED
  BY <1>1, WalkFacts DEF Walk

\* The loader awaits a fetch.
LEMMA LoaderFetchesKeeps ==
  ASSUME IInv, LoaderFetches
  PROVE  IInv'
<1>1. Known
  BY KnownFacts
<1>2. PICK d : d = running
  OBVIOUS
<1>3. PICK c : c = Started(instances, d)
  OBVIOUS
<1>4. /\ UNCHANGED <<location, root, frames, redirects, delivered, requests, inputs>>
      /\ running' = 0 /\ running # 0 /\ instances[d].graph = "normal"
      /\ instances' = [c EXCEPT ![d].loads = @ + 1]
  BY <1>2, <1>3 DEF LoaderFetches, Runnable, loads
<1>5. d \in 1..Len(instances) /\ instances[d].route \in Loading /\ instances[d].graph # "notFound"
  BY <1>1, <1>2, <1>4 DEF Known
<1>6. Changed(instances, c, d) /\ c[d].graph # "notFound"
  BY <1>1, <1>3, <1>4, <1>5, StartedChanged DEF Known
<1>7. /\ c \in Seq(Instance) /\ d \in 1..Len(c) /\ AllFine(c) /\ c[d].route \in Loading
  BY <1>1, <1>5, <1>6, ChangedFine DEF Changed, Kept, Known
<1>8. c[d] \in Instance /\ d \in DOMAIN c
  BY <1>7, ChainFacts
<1>9. PICK n : n = c[d].loads + 1
  OBVIOUS
<1>10. n \in Nat
  BY <1>8, <1>9 DEF Instance
<1>11. instances' = [c EXCEPT ![d].loads = n]
  BY <1>4, <1>8, <1>9
<1>12. Changed(c, instances', d)
  BY <1>6, <1>7, <1>10, <1>11, LoadsChanged
<1>13. Changed(instances, instances', d)
  BY <1>5, <1>6, <1>12, ChangedOn
<1>14. NoEarlyRedirect /\ frames # <<>> => d = Frame.index - 1
  BY <1>2, <1>4, RunningEndsTheWalk
<1>15. requests' \in [Lazy -> Nat] /\ inputs' \in 0..MaxInputs
  BY <1>1, <1>4 DEF Known
<1> QED
  BY <1>4, <1>5, <1>13, <1>14, <1>15, ChangedKeeps

\* A walk begins, with whatever chain there is.
LEMMA BeginKeeps ==
  ASSUME IInv, NEW to \in Location, Begin(to, frames),
         NoEarlyRedirect => frames = <<>>,
         running' = 0, redirects' \in 0..MaxHops,
         delivered \subseteq delivered', delivered' \subseteq Lazy,
         requests' \in [Lazy -> Nat], inputs' \in 0..MaxInputs,
         instances' \in Seq(Instance), AllFine(instances'),
         AllThere(instances, delivered) => AllThere(instances', delivered),
         LeavesHavePhases /\ Joined(instances) => Joined(instances')
  PROVE  IInv'
<1>1. Known
  BY KnownFacts
<1>2. PICK f : f = [path |-> to.path, search |-> to.search, index |-> 1]
  OBVIOUS
<1>3. location' = to /\ root' = "normal" /\ frames' = Append(frames, f)
  BY <1>2 DEF Begin
<1>4. /\ f \in AFrame /\ frames' \in Seq(AFrame)
      /\ frames = <<>> => Len(frames') = 1 /\ frames'[1] = f
  BY <1>1, <1>2, <1>3, BeginFacts DEF Known
<1>5. /\ Len(instances') \in Nat /\ DOMAIN instances' = 1..Len(instances')
      /\ \A j \in 1..Len(instances') : instances'[j] \in Instance
  BY ChainFacts
<1>6. Known'
  BY <1>1, <1>3, <1>4, <1>5 DEF Known
<1>7. TypeOK' /\ AllFine(instances)' /\ (running # 0 => instances[running].route \in Loading)'
  BY <1>6, KnownIsTyped
<1>8. f.path = to.path /\ f.search = to.search /\ f.index = 1 /\ f.path \in Paths
      /\ Len(Chain[f.path]) \in Nat
  BY <1>2, ManifestFacts DEF Location
<1>9. ASSUME NoEarlyRedirect PROVE OneWalk' /\ frames' # <<>>
  <2>1. AllThere(instances', delivered)
    BY <1>9 DEF IInv, OneWalk
  <2>2. AllThere(instances', delivered')
    BY <2>1 DEF AllThere, PhasesThere
  <2>3. Len(frames') = 1 /\ frames'[1] = f
    BY <1>4, <1>9
  <2>4. Walk(f)'
    <3>1. f.index - 1 <= Len(instances') /\ f.index \in 1..Len(Chain[f.path]) + 1
      BY <1>5, <1>8
    <3>2. \A i \in 1..Len(instances') : ~(i < f.index)
      BY <1>5, <1>8
    <3> QED
      BY <1>3, <1>8, <3>1, <3>2 DEF Walk
  <2>5. frames' # <<>>
    <3>1. Len(<<>>) = 0
      BY EmptySeq
    <3> QED
      BY ONLY <2>3, <3>1
  <2> QED
    BY <2>2, <2>3, <2>4, <2>5 DEF OneWalk, Single
<1>10. ASSUME NoEarlyRedirect, LeavesHavePhases PROVE Complete'
  <2>1. Joined(instances')
    BY <1>10 DEF IInv, Complete
  <2> QED
    BY <1>9, <1>10, <2>1 DEF Complete
<1> QED
  BY <1>7, <1>9, <1>10 DEF IInv

\* handle_loader_redirect.
LEMMA MoveKeeps ==
  ASSUME IInv, NEW d \in 1..Len(instances), NEW to \in Location, Moves(instances, d, to),
         NoEarlyRedirect => frames = <<>>,
         running' = 0, UNCHANGED <<loads, inputs>>
  PROVE  IInv'
<1>1. Known
  BY KnownFacts
<1>2. /\ Changed(instances, instances', d) /\ Begin(to, frames)
      /\ redirects < MaxHops /\ redirects' = redirects + 1
  BY DEF Moves
<1>3. redirects' \in 0..MaxHops
  BY <1>1, <1>2, BoundsAssumption DEF Known
<1>4. instances' \in Seq(Instance) /\ AllFine(instances')
  BY <1>1, <1>2, ChangedFine DEF Known, Changed
<1>5. AllThere(instances, delivered) => AllThere(instances', delivered)
  BY <1>1, <1>2, ChangedThere DEF Known
<1>6. LeavesHavePhases /\ Joined(instances) => Joined(instances')
  BY <1>1, <1>2, ChangedJoined DEF Known
<1>7. /\ delivered \subseteq delivered' /\ delivered' \subseteq Lazy
      /\ requests' \in [Lazy -> Nat] /\ inputs' \in 0..MaxInputs
  BY <1>1 DEF Known, loads
<1> QED
  BY <1>2, <1>3, <1>4, <1>5, <1>6, <1>7, BeginKeeps

\* Any outcome, after a change that led to it.
LEMMA ConcludeKeeps ==
  ASSUME IInv, NEW d \in 1..Len(instances), instances[d].graph # "notFound",
         NEW c, Changed(instances, c, d), c[d].graph # "notFound",
         NEW outcome \in Outcomes, Conclude(c, d, outcome),
         running' = 0, UNCHANGED <<loads, inputs>>,
         NoEarlyRedirect /\ frames # <<>> => d = Frame.index - 1,
         NoEarlyRedirect => frames = <<>> \/ outcome.kind # "redirect"
  PROVE  IInv'
<1>1. Known
  BY KnownFacts
<1>2. c \in Seq(Instance) /\ d \in 1..Len(c) /\ AllFine(c)
  BY <1>1, ChangedFine DEF Known, Changed
<1>3. CASE Stops(c, d)
  <2>1. UNCHANGED <<location, frames, redirects>>
    BY <1>3 DEF Stops
  <2>2. Changed(c, instances', d) => Changed(instances, instances', d)
    BY ChangedOn
  <2>3. Cut(c, instances') /\ Len(instances') <= d => Cut(instances, instances')
    BY <1>1, CutChanged DEF Known
  <2>4. Stops(instances, d)
    BY <1>3, <2>2, <2>3 DEF Stops
  <2> QED
    BY <2>4, StopKeeps
<1>4. CASE outcome.kind = "redirect" /\ outcome.to \in Location /\ Moves(c, d, outcome.to)
  <2>1. Changed(instances, instances', d)
    BY <1>4, ChangedOn DEF Moves
  <2>2. Moves(instances, d, outcome.to)
    BY <1>4, <2>1 DEF Moves
  <2>3. NoEarlyRedirect => frames = <<>>
    BY <1>4
  <2> QED
    BY <1>4, <2>2, <2>3, MoveKeeps
<1> QED
  BY <1>2, <1>3, <1>4, Concludes

\* The loader ends before its first fetch.
LEMMA LoaderEndsKeeps ==
  ASSUME IInv, LoaderEnds
  PROVE  IInv'
<1>1. Known
  BY KnownFacts
<1>2. PICK d : d = running
  OBVIOUS
<1>3. PICK c : c = Started(instances, d)
  OBVIOUS
<1>4. /\ running # 0 /\ instances[d].graph = "normal" /\ running' = 0 /\ UNCHANGED <<loads, inputs>>
  BY <1>2 DEF LoaderEnds, Runnable
<1>5. PICK outcome \in Early[instances[d].route] : Conclude(c, d, outcome)
  BY <1>2, <1>3 DEF LoaderEnds
<1>6. d \in 1..Len(instances) /\ instances[d].route \in Loading /\ instances[d].graph # "notFound"
  BY <1>1, <1>2, <1>4 DEF Known
<1>7. outcome \in Outcomes /\ (NoEarlyRedirect => outcome.kind # "redirect")
  BY <1>5, <1>6, LoadersAssumption DEF NoEarlyRedirect
<1>8. Changed(instances, c, d) /\ c[d].graph # "notFound"
  BY <1>1, <1>3, <1>4, <1>6, StartedChanged DEF Known
<1>9. NoEarlyRedirect /\ frames # <<>> => d = Frame.index - 1
  BY <1>2, <1>4, RunningEndsTheWalk
<1> QED
  BY <1>4, <1>5, <1>6, <1>7, <1>8, <1>9, ConcludeKeeps

\* The graph on screen has no such loader: it is that of a boundary, or of a
\* phase of the last route.
LEMMA LoaderFailsKeeps ==
  ASSUME IInv, LoaderFails
  PROVE  IInv'
<1>1. Known
  BY KnownFacts
<1>2. PICK d : d = running
  OBVIOUS
<1>3. /\ UNCHANGED <<location, root, instances, redirects, delivered, requests, inputs>>
      /\ running # 0 /\ running' = 0 /\ instances[d].graph # "normal"
      /\ frames' = IF frames = <<>> THEN frames ELSE Front(frames)
  BY <1>2 DEF LoaderFails, Runnable, page, loads
<1>4. d \in 1..Len(instances)
  BY <1>1, <1>2, <1>3 DEF Known
<1>5. frames' \in Seq(AFrame)
  BY <1>1, <1>3, FrameFacts DEF Known
<1>6. Known'
  BY <1>1, <1>3, <1>5 DEF Known, AllFine
<1>7. TypeOK' /\ AllFine(instances)' /\ (running # 0 => instances[running].route \in Loading)'
  BY <1>6, KnownIsTyped
<1>8. ASSUME NoEarlyRedirect PROVE OneWalk'
  <2>1. Single /\ AllThere(instances, delivered)
    BY <1>8 DEF IInv, OneWalk
  <2>2. frames' = <<>>
    BY <1>1, <1>3, <2>1, WalkFacts
  <2> QED
    BY <1>3, <2>1, <2>2 DEF OneWalk, Single, AllThere, PhasesThere
<1>9. ASSUME NoEarlyRedirect, LeavesHavePhases PROVE Complete'
  <2>1. Single /\ Complete
    BY <1>9 DEF IInv, OneWalk
  <2>2. Joined(instances)
    BY <2>1 DEF Complete
  <2>3. CASE frames = <<>>
    <3>1. Lacks(location) \/ IsPage(instances, root, location)
      BY <2>1, <2>3 DEF Complete
    <3>2. Lacks(location) => Lacks(location)'
      BY <1>3 DEF Lacks, MissingGraphs, Registered
    <3> QED
      BY <1>3, <2>2, <3>1, <3>2 DEF Complete, Joined, IsPage, For, Ends
  <2>4. CASE frames # <<>>
    <3>1. Walk(Frame) /\ location.path \in Paths /\ Frame \in AFrame /\ d = Frame.index - 1
      BY <1>1, <1>2, <1>3, <2>1, <2>4, WalkFacts DEF Walk
    <3>2. d = Len(instances)
      <4>1. ~(d < Len(instances))
        BY <1>3, <1>4, <2>2 DEF Joined
      <4>2. Len(instances) \in Nat
        BY <1>1 DEF Known
      <4> QED
        BY <1>4, <4>1, <4>2
    <3>3. \A i \in 1..Len(instances) : For(instances[i], location, i)
      BY <1>1, <3>1, <3>2 DEF Walk, Known, AFrame
    <3>4. root = "normal"
      BY <1>4, <3>1 DEF Walk
    <3>5. Len(instances) < Len(Chain[location.path]) => Ends(instances, root)
      <4>1. ASSUME Len(instances) < Len(Chain[location.path]), instances[d].graph # "notFound"
            PROVE  FALSE
        <5>1. ~HasOutlet(instances[d].route)
          BY <1>1, <1>3, <1>4, <1>9, <2>2, <4>1, LastNormal
        <5>2. instances[d].route = Chain[location.path][d]
          BY <1>4, <3>3 DEF For
        <5>3. d \in 1..Len(Chain[location.path]) /\ d # Len(Chain[location.path])
          BY <1>1, <1>4, <3>1, <3>2, <4>1, ManifestFacts DEF Known
        <5> QED
          BY <3>1, <5>1, <5>2, <5>3, HasOutletAbove
      <4> QED
        BY <1>4, <3>2, <3>4, <4>1 DEF Ends
    <3>6. IsPage(instances, root, location)
      BY <3>3, <3>4, <3>5 DEF IsPage
    <3> QED
      BY <1>3, <2>2, <3>6 DEF Complete, Joined, IsPage, For, Ends
  <2> QED
    BY <2>3, <2>4
<1> QED
  BY <1>7, <1>8, <1>9 DEF IInv

\* complete_typed_loader_fetch.
LEMMA SettleKeeps ==
  ASSUME IInv, NEW d \in Positions, Settle(d)
  PROVE  IInv'
<1>1. Known
  BY KnownFacts
<1>2. /\ frames = <<>> /\ running = 0 /\ d <= Len(instances) /\ instances[d].loads > 0
      /\ UNCHANGED <<running, loads, inputs>>
  BY DEF Settle, AtRest
<1>3. d \in 1..Len(instances)
  BY <1>1, <1>2 DEF Known, Positions
<1>4. PICK n : n = instances[d].loads - 1
  OBVIOUS
<1>5. PICK c : c = [instances EXCEPT ![d].loads = n]
  OBVIOUS
<1>6. instances[d] \in Instance /\ Fine(instances[d])
  BY <1>1, <1>3 DEF Known, AllFine
<1>7. n \in Nat /\ instances[d].route \in Loading /\ instances[d].graph # "notFound"
  BY <1>2, <1>4, <1>6 DEF Instance, Fine
<1>8. c = [instances EXCEPT ![d].loads = @ - 1]
  BY <1>1, <1>3, <1>4, <1>5 DEF Known
<1>9. PICK outcome \in Answers[instances[d].route] : Conclude(c, d, outcome)
  BY <1>8 DEF Settle
<1>10. outcome \in Outcomes
  BY <1>7, <1>9, LoadersAssumption
<1>11. Changed(instances, c, d) /\ c[d].graph # "notFound"
  BY <1>1, <1>3, <1>5, <1>7, LoadsChanged DEF Known
<1> QED
  BY <1>2, <1>3, <1>7, <1>9, <1>10, <1>11, ConcludeKeeps

\* onGraphNeeded: the graph is registered and a walk to the location begins.
LEMMA DeliverKeeps ==
  ASSUME IInv, NEW graph \in Lazy, Deliver(graph)
  PROVE  IInv'
<1>1. Known
  BY KnownFacts
<1>2. /\ frames = <<>> /\ running = 0 /\ requests[graph] > 0
      /\ requests' = [requests EXCEPT ![graph] = @ - 1]
      /\ delivered' = delivered \cup {graph} /\ redirects' = 0 /\ Begin(location, frames)
      /\ UNCHANGED <<instances, running, inputs>>
  BY DEF Deliver, AtRest
<1>3. /\ redirects' \in 0..MaxHops /\ delivered \subseteq delivered' /\ delivered' \subseteq Lazy
      /\ inputs' \in 0..MaxInputs
  BY <1>1, <1>2, BoundsAssumption DEF Known
<1>4. requests' \in [Lazy -> Nat]
  <2>1. requests \in [Lazy -> Nat]
    BY <1>1 DEF Known
  <2>2. requests[graph] - 1 \in Nat
    BY <1>2, <2>1
  <2> QED
    BY <1>2, <2>1, <2>2
<1>5. instances' \in Seq(Instance) /\ AllFine(instances') /\ instances' = instances
  BY <1>1, <1>2 DEF Known
<1> QED
  BY <1>1, <1>2, <1>3, <1>4, <1>5, BeginKeeps DEF Known

\* A click, the back button, or a call of navigate.
LEMMA VisitKeeps ==
  ASSUME IInv, Visit
  PROVE  IInv'
<1>1. Known
  BY KnownFacts
<1>2. PICK to \in Location : Begin(to, frames)
  BY DEF Visit
<1>3. /\ frames = <<>> /\ running = 0 /\ redirects' = 0
      /\ inputs < MaxInputs /\ inputs' = inputs + 1
      /\ UNCHANGED <<instances, running, delivered, requests>>
  BY DEF Visit, Input, AtRest, loads
<1>4. /\ redirects' \in 0..MaxHops /\ inputs' \in 0..MaxInputs
  BY <1>1, <1>3, BoundsAssumption DEF Known
<1>5. instances' \in Seq(Instance) /\ AllFine(instances') /\ instances' = instances
  BY <1>1, <1>3 DEF Known
<1> QED
  BY <1>1, <1>2, <1>3, <1>4, <1>5, BeginKeeps DEF Known

\* The graph does not arrive.
LEMMA DeliveryFailsKeeps ==
  ASSUME IInv, NEW graph \in Lazy, DeliveryFails(graph)
  PROVE  IInv'
<1>1. Known
  BY KnownFacts
<1>2. /\ requests' = [requests EXCEPT ![graph] = @ - 1] /\ requests[graph] > 0
      /\ UNCHANGED <<location, root, instances, frames, running, redirects, delivered, inputs>>
  BY DEF DeliveryFails, page, calls
<1>3. requests' \in [Lazy -> Nat]
  <2>1. requests \in [Lazy -> Nat]
    BY <1>1 DEF Known
  <2>2. requests[graph] - 1 \in Nat
    BY <1>2, <2>1
  <2> QED
    BY <1>2, <2>1, <2>2
<1>4. Known'
  BY <1>1, <1>2, <1>3 DEF Known, AllFine
<1>5. TypeOK' /\ AllFine(instances)' /\ (running # 0 => instances[running].route \in Loading)'
  BY <1>4, KnownIsTyped
<1>6. OneWalk => OneWalk'
  BY <1>2 DEF OneWalk, Single, AllThere, PhasesThere, Walk, For, Ends
<1>7. Complete => Complete'
  <2>1. Lacks(location) => Lacks(location)'
    BY <1>2 DEF Lacks, MissingGraphs, Registered
  <2> QED
    BY <1>2, <2>1 DEF Complete, Joined, IsPage, For, Ends
<1> QED
  BY <1>5, <1>6, <1>7 DEF IInv

\* An input finds no walk.
LEMMA RestChanges ==
  ASSUME IInv, Input, NEW d \in Positions, d <= Len(instances)
  PROVE  /\ d \in 1..Len(instances) /\ frames = <<>>
         /\ inputs' \in 0..MaxInputs
<1>1. Known
  BY KnownFacts
<1>2. d \in 1..Len(instances)
  BY <1>1 DEF Known, Positions
<1>3. frames = <<>> /\ inputs < MaxInputs /\ inputs' = inputs + 1
  BY DEF Input, AtRest
<1>4. inputs' \in 0..MaxInputs
  BY <1>1, <1>3, BoundsAssumption DEF Known
<1> QED
  BY <1>2, <1>3, <1>4

\* reload_typed_route.
LEMMA ReloadKeeps ==
  ASSUME IInv, NEW d \in Positions, Reload(d)
  PROVE  IInv'
<1>1. Known
  BY KnownFacts
<1>2. /\ d \in 1..Len(instances) /\ frames = <<>> /\ inputs' \in 0..MaxInputs
      /\ instances[d].graph = "normal" /\ instances[d].route \in Loading /\ running' = d
      /\ UNCHANGED <<location, root, instances, frames, redirects, delivered, requests>>
  BY RestChanges DEF Reload, page, loads
<1>3. Changed(instances, instances', d)
  BY <1>1, <1>2, SameChain DEF Known
<1> QED
  BY <1>1, <1>2, <1>3, ChangedKeeps DEF Known

\* retry_typed_route.
LEMMA RetryKeeps ==
  ASSUME IInv, NEW d \in Positions, Retry(d)
  PROVE  IInv'
<1>1. Known
  BY KnownFacts
<1>2. /\ d \in 1..Len(instances) /\ frames = <<>> /\ inputs' \in 0..MaxInputs
      /\ instances[d].graph = "error" /\ running' = d
      /\ instances' = Showing(instances, d, "normal")
      /\ UNCHANGED <<location, root, frames, redirects, delivered, requests>>
  BY RestChanges DEF Retry, loads
<1>3. instances[d].route \in Loading
  BY <1>1, <1>2, ManifestAssumption DEF Known, AllFine, Fine
<1>4. Changed(instances, instances', d)
  BY <1>1, <1>2, RetriedChanged DEF Known
<1> QED
  BY <1>1, <1>2, <1>3, <1>4, ChangedKeeps DEF Known

\* start.
LEMMA Starts ==
  ASSUME Init
  PROVE  IInv
<1>1. PICK f : f = [path |-> location.path, search |-> location.search, index |-> 1]
  OBVIOUS
<1>2. /\ location \in Location /\ root = "normal" /\ instances = <<>> /\ frames = <<f>>
      /\ running = 0 /\ redirects = 0 /\ delivered = {} /\ inputs = 0
      /\ requests = [graph \in Lazy |-> 0]
  BY <1>1 DEF Init
<1>3. f \in AFrame /\ f.path = location.path /\ f.search = location.search /\ f.index = 1
      /\ f.path \in Paths
  BY <1>1, <1>2 DEF AFrame, Location
<1>4. frames \in Seq(AFrame) /\ Len(frames) = 1 /\ frames[1] = f
  BY <1>2, <1>3
<1>5. instances \in Seq(Instance) /\ Len(instances) = 0
  BY <1>2, EmptySeq
<1>6. AllFine(instances) /\ AllThere(instances, delivered) /\ Joined(instances)
  BY <1>5 DEF AllFine, AllThere, Joined
<1>7. TypeOK
  <2>1. \A i \in DOMAIN instances : instances[i].retained => instances[i].graph = "pending"
    BY <1>5, <1>6, ChainFacts DEF AllFine, Fine
  <2> QED
    BY <1>2, <1>4, <1>5, <2>1, BoundsAssumption DEF TypeOK, AFrame
<1>8. Walk(f)
  BY <1>2, <1>3, <1>5, ManifestFacts DEF Walk
<1>9. frames # <<>>
  BY <1>2
<1> QED
  BY <1>2, <1>4, <1>6, <1>7, <1>8, <1>9 DEF IInv, OneWalk, Single, Complete

\* Every step keeps the invariant.
LEMMA Preserves ==
  ASSUME IInv, [Next]_vars
  PROVE  IInv'
<1>1. CASE Call
  BY <1>1, RequestGraphKeeps, KeepKeeps, MountKeeps, MountFailsKeeps, ArriveKeeps,
     LoaderFetchesKeeps, LoaderEndsKeeps, LoaderFailsKeeps DEF Call
<1>2. CASE \E d \in Positions : Settle(d) \/ Reload(d) \/ Retry(d)
  BY <1>2, SettleKeeps, ReloadKeeps, RetryKeeps
<1>3. CASE \E graph \in Lazy : Deliver(graph) \/ DeliveryFails(graph)
  BY <1>3, DeliverKeeps, DeliveryFailsKeeps
<1>4. CASE Visit
  BY <1>4, VisitKeeps
<1>5. CASE UNCHANGED vars
  <2>1. UNCHANGED <<location, root, instances, frames, running, redirects, delivered, requests,
                    inputs>>
    BY <1>5 DEF vars, page, calls, loads
  <2>2. Known /\ (Known => Known')
    BY <2>1, KnownFacts DEF Known, AllFine
  <2>3. TypeOK' /\ AllFine(instances)' /\ (running # 0 => instances[running].route \in Loading)'
    BY <2>2, KnownIsTyped
  <2>4. OneWalk => OneWalk'
    BY <2>1 DEF OneWalk, Single, AllThere, PhasesThere, Walk, For, Ends
  <2>5. Complete => Complete'
    <3>1. Lacks(location) => Lacks(location)'
      BY <2>1 DEF Lacks, MissingGraphs, Registered
    <3> QED
      BY <2>1, <3>1 DEF Complete, Joined, IsPage, For, Ends
  <2> QED
    BY <2>3, <2>4, <2>5 DEF IInv
<1> QED
  BY <1>1, <1>2, <1>3, <1>4, <1>5 DEF Next

(***************************************************************************)
(* The theorems                                                            *)
(***************************************************************************)

\* The invariant holds in every behaviour, whatever the manifest, the answers, the
\* lazy graphs, the redirect limit and the number of inputs.
THEOREM Invariance == Spec => []IInv
<1>1. Init => IInv
  BY Starts
<1>2. IInv /\ [Next]_vars => IInv'
  BY Preserves
<1> QED
  BY <1>1, <1>2, PTL DEF Spec

\* The state is typed, the redirect budget is never exceeded and only a pending
\* graph retains a runtime: for every site, early redirects included.
THEOREM TypeCorrect == Spec => []TypeOK
<1>1. IInv => TypeOK
  BY DEF IInv
<1> QED
  BY <1>1, Invariance, PTL

\* A loader in flight is one of AllThere.
LEMMA ReadyImplied ==
  ASSUME NoEarlyRedirect, IInv
  PROVE  PhaseGraphsReady
<1>1. Known /\ AllThere(instances, delivered)
  BY KnownFacts DEF IInv, OneWalk
<1>2. SUFFICES ASSUME NEW i \in 1..Len(instances), instances[i].loads > 0,
                      NEW graph \in PhaseGraphs(RoutesOf(instances), i)
               PROVE  graph \notin Lazy \/ graph \in delivered
  BY <1>1 DEF PhaseGraphsReady, RoutesOf, Registered, Known
<1>3. instances[i].route \in Loading
  BY <1>1, <1>2 DEF Known, AllFine, Fine
<1> QED
  BY <1>1, <1>2, <1>3 DEF AllThere, PhasesThere

\* Without early redirects every graph that the outcome of a loader in flight can
\* put on screen has arrived (request_typed_graph before mount_typed_child).
THEOREM PhaseGraphsThere ==
  ASSUME NoEarlyRedirect
  PROVE  Spec => []PhaseGraphsReady
<1>1. IInv => PhaseGraphsReady
  BY ReadyImplied
<1> QED
  BY <1>1, Invariance, PTL

\* A page at rest that lacks no graph is the location's.
LEMMA PageImplied ==
  ASSUME NoEarlyRedirect, LeavesHavePhases, IInv
  PROVE  PageShowsLocation
<1>1. Known /\ Complete
  BY KnownFacts DEF IInv
<1>2. PICK matched : matched = Chain[location.path]
  OBVIOUS
<1>3. SUFFICES ASSUME frames = <<>>, ~Lacks(location)
               PROVE  \/ root = "notFound" /\ instances = <<>>
                      \/ /\ root = "normal"
                         /\ Len(instances) <= Len(matched)
                         /\ \A i \in DOMAIN instances : Shows(instances[i], matched[i])
                         /\ Len(instances) < Len(matched) =>
                              instances # <<>> /\ Last(instances).graph = "notFound"
  BY <1>2 DEF PageShowsLocation, AtRest, Lacks
<1>4. IsPage(instances, root, location) /\ Joined(instances)
  BY <1>1, <1>3 DEF Complete
<1>5. \A i \in DOMAIN instances : Shows(instances[i], matched[i])
  BY <1>1, <1>2, <1>4 DEF Known, IsPage, Joined, For, Shows
<1>6. Len(matched) \in Nat
  BY <1>1, <1>2, ManifestFacts DEF Known, Location
<1>7. Len(instances) <= Len(matched)
  <2>1. Len(instances) # 0 => Len(instances) \in 1..Len(instances)
    BY <1>1 DEF Known
  <2>2. Len(instances) # 0 => Len(instances) <= Len(matched)
    BY <1>2, <1>4, <2>1 DEF IsPage, For
  <2> QED
    BY <1>1, <1>6, <2>2 DEF Known
<1>8. Len(instances) = 0 <=> instances = <<>>
  BY <1>1, EmptySeq DEF Known
<1>9. CASE root = "normal"
  <2>1. ASSUME Len(instances) < Len(matched)
        PROVE  instances # <<>> /\ Last(instances).graph = "notFound"
    BY <1>2, <1>4, <1>8, <1>9, <2>1 DEF IsPage, Ends, Last
  <2> QED
    BY <1>5, <1>7, <1>9, <2>1
<1>10. CASE root # "normal"
  BY <1>1, <1>4, <1>8, <1>10 DEF Known, IsPage
<1> QED
  BY <1>9, <1>10

\* Without early redirects and phase graphs of layouts the page shows its location
\* between tasks, through redirects, late graphs and answers, retries and reloads.
THEOREM ShowsItsLocation ==
  ASSUME NoEarlyRedirect, LeavesHavePhases
  PROVE  Spec => []PageShowsLocation
<1>1. IInv => PageShowsLocation
  BY PageImplied
<1> QED
  BY <1>1, Invariance, PTL
=============================================================================
