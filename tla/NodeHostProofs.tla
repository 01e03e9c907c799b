--------------------------- MODULE NodeHostProofs ---------------------------
(***************************************************************************)
(* Theorems about NodeHost, for any sets of requests and any limits: the   *)
(* counters of the host count, the reserved bytes are the sum of what the  *)
(* requests have reserved, the capacity of the API follows its handlers, a *)
(* permit is lost only by cancellation, and a closed application is quiet. *)
(*                                                                         *)
(* The properties rest on one invariant about each request by itself       *)
(* (Coherent: which callback and whose permit a request can have at each   *)
(* stage) and on counting.  Every step but those of shutdown is a step of  *)
(* one request; Effect says what such a step leaves alone and how each     *)
(* counter moves with the one request's membership in what it counts.      *)
(* The sum is a fold, that is a recursion over sets; what is needed of it  *)
(* is proved by looking at a smallest set for which it would not hold.     *)
(***************************************************************************)
EXTENDS NodeHost, FiniteSetTheorems, TLAPS

(* What an API request holds at each stage.                                *)
CoherentApi(r) ==
    /\ stage[r] \in {"idle", "body", "handler", "sending", "done"}
    /\ owner[r] \in {"none", "task"}
    /\ stage[r] \in {"idle", "body", "sending"} => js[r] = "none"
    /\ stage[r] = "handler" => js[r] = "running"
    /\ stage[r] = "done" => js[r] \in {"none", "running", "used", "cancelling"}
    /\ apiHeld[r] <=> stage[r] \in {"body", "handler", "sending"} \/ js[r] # "none"
    /\ owner[r] = "task" <=> js[r] = "running"

(* What a request of the native application holds at each stage.           *)
CoherentNative(r) ==
    /\ stage[r] \notin {"body", "handler"}
    /\ apiHeld[r] = FALSE
    /\ js[r] \in {"none", "queued", "running"}
    /\ stage[r] \in {"idle", "entering", "native", "answered", "sending"} =>
          js[r] = "none" /\ owner[r] = "none"
    /\ stage[r] = "queued" => js[r] \in {"queued", "running"}
    /\ stage[r] = "calling" => js[r] = "running" /\ owner[r] = "task"
    /\ owner[r] = "request" <=> stage[r] = "queued"
    /\ owner[r] = "task" => js[r] = "running"
    /\ js[r] # "none" /\ owner[r] = "none" => Cancelled(r)

Coherent(r) == IF r \in Api THEN CoherentApi(r) ELSE CoherentNative(r)

(* Closing goes one way, and before closed.                                *)
Ordered ==
    /\ closed => closing
    /\ closer # "idle" => closing
    /\ closed => Operations = {}

IInv ==
    /\ TypeOK
    /\ \A r \in Requests : Coherent(r)
    /\ HoldersCounted
    /\ Ordered

-----------------------------------------------------------------------------
(* Counting.                                                               *)

LEMMA RequestsFinite == IsFiniteSet(Requests)
  BY KindsApart, FS_Union DEF Requests

\* The number of a set's elements after one request has joined or left.
One(c, before, after) ==
    c + (IF after THEN 1 ELSE 0) - (IF before THEN 1 ELSE 0)

\* A counter that moves with one request's membership goes on counting.
LEMMA Counting ==
  ASSUME NEW S, IsFiniteSet(S), NEW T, NEW r, T \ {r} = S \ {r},
         NEW d, d = One(Cardinality(S), r \in S, r \in T)
  PROVE  d = Cardinality(T) /\ IsFiniteSet(T)
  <1>0. Cardinality(S) \in Nat
    BY FS_CardinalityType
  <1>1. CASE r \in S /\ r \in T
    <2>1. S = T
      BY <1>1
    <2>. QED
      BY <2>1, <1>0, <1>1 DEF One
  <1>2. CASE r \notin S /\ r \notin T
    <2>1. S = T
      BY <1>2
    <2>. QED
      BY <2>1, <1>0, <1>2 DEF One
  <1>3. CASE r \notin S /\ r \in T
    <2>1. T = S \cup {r}
      BY <1>3
    <2>. QED
      BY <2>1, <1>0, <1>3, FS_AddElement DEF One
  <1>4. CASE r \in S /\ r \notin T
    <2>1. T = S \ {r}
      BY <1>4
    <2>. QED
      BY <2>1, <1>0, <1>4, FS_RemoveElement DEF One
  <1>. QED
    BY <1>1, <1>2, <1>3, <1>4

-----------------------------------------------------------------------------
(* Sums.                                                                   *)

\* The numbers are well founded, so a set of them has a least one.
Below == { pair \in Nat \X Nat : pair[1] < pair[2] }

LEMMA LeastNumber ==
  ASSUME NEW S \in SUBSET Nat, S # {}
  PROVE  \E m \in S : \A k \in S : m <= k
  <1>1. IsWellFoundedOn(Below, Nat)
    <2>1. OpToRel(<, Nat) = Below
      BY Zenon DEF OpToRel, Below
    <2>. QED
      BY <2>1, NatLessThanWellFounded
  <1>2. PICK m \in S : \A k \in S : ~ (<<k, m>> \in Below)
    BY <1>1, WFMin
  <1>3. ASSUME NEW k \in S PROVE m <= k
    <2>1. <<k, m>> \in Nat \X Nat
      OBVIOUS
    <2>2. ~ (k < m)
      BY <1>2, <2>1 DEF Below
    <2>. QED
      BY <2>2
  <1>. QED
    BY <1>3

\* A family of subsets of a finite set has a smallest one.
LEMMA SmallestSet ==
  ASSUME NEW D, IsFiniteSet(D), NEW B \in SUBSET (SUBSET D), B # {}
  PROVE  \E T \in B : \A U \in B : U \subseteq T => U = T
  <1>1. IsWellFoundedOn(StrictSubsetOrdering(D), SUBSET D)
    BY FS_StrictSubsetOrderingWellFounded, FS_FiniteSubsetsOfFinite
  <1>2. PICK T \in B : \A U \in B : ~ (<<U, T>> \in StrictSubsetOrdering(D))
    BY <1>1, WFMin
  <1>. QED
    BY <1>2 DEF StrictSubsetOrdering

\* The element a fold takes out of a set next.
Chosen(s) == CHOOSE x \in s : TRUE

\* g adds up the values of f over each subset of D, as a fold does.
Adds(g, D, f) ==
    g = [s \in SUBSET D |-> IF s = {} THEN 0 ELSE f[Chosen(s)] + g[s \ {Chosen(s)}]]

LEMMA ChosenIsOne ==
  ASSUME NEW D, NEW s \in SUBSET D, s # {}
  PROVE  /\ Chosen(s) \in s /\ Chosen(s) \in D
         /\ s \ {Chosen(s)} \in SUBSET D /\ s \ {Chosen(s)} # s
  <1>1. Chosen(s) \in s
    BY DEF Chosen
  <1>. QED
    BY <1>1

\* A function that adds up the sets of at most n elements.
UpTo(g, n, D, f) ==
    \A s \in SUBSET D : Cardinality(s) <= n =>
        g[s] = IF s = {} THEN 0 ELSE f[Chosen(s)] + g[s \ {Chosen(s)}]

\* Such a function on the sets of n elements gives one on those of n + 1, so
\* there is one on all.
LEMMA OneMore ==
  ASSUME NEW D, IsFiniteSet(D), NEW f, NEW n \in Nat, NEW g, UpTo(g, n, D, f)
  PROVE  \E h : UpTo(h, n + 1, D, f)
  <1>1. PICK h : h = [s \in SUBSET D |-> IF Cardinality(s) <= n THEN g[s]
                                          ELSE f[Chosen(s)] + g[s \ {Chosen(s)}]]
    OBVIOUS
  <1>2. SUFFICES ASSUME NEW s \in SUBSET D, Cardinality(s) <= n + 1
                 PROVE  h[s] = IF s = {} THEN 0 ELSE f[Chosen(s)] + h[s \ {Chosen(s)}]
    BY DEF UpTo
  <1>3. IsFiniteSet(s) /\ Cardinality(s) \in Nat
    BY FS_Subset, FS_CardinalityType
  <1>4. h[s] = IF Cardinality(s) <= n THEN g[s] ELSE f[Chosen(s)] + g[s \ {Chosen(s)}]
    BY <1>1
  <1>5. CASE s = {}
    <2>1. Cardinality(s) <= n
      BY <1>5, FS_EmptySet
    <2>. QED
      BY <1>4, <1>5, <2>1 DEF UpTo
  <1>6. CASE s # {}
    <2>1. Chosen(s) \in s /\ s \ {Chosen(s)} \in SUBSET D
      BY <1>6, ChosenIsOne
    <2>2. PICK t : t = s \ {Chosen(s)}
      OBVIOUS
    <2>3. Cardinality(t) <= n
      <3>1. PICK x : x = Chosen(s)
        OBVIOUS
      <3>2. Cardinality(s \ {x}) = Cardinality(s) - 1
        BY <1>3, <2>1, <3>1, FS_RemoveElement
      <3>. QED
        BY <1>2, <1>3, <2>2, <3>1, <3>2
    <2>4. h[t] = g[t]
      BY <1>1, <2>1, <2>2, <2>3
    <2>5. h[s] = f[Chosen(s)] + g[t]
      BY <1>4, <1>6, <2>2 DEF UpTo
    <2>. QED
      BY <1>6, <2>2, <2>4, <2>5
  <1>. QED
    BY <1>5, <1>6

LEMMA AddsExists ==
  ASSUME NEW D, IsFiniteSet(D), NEW f
  PROVE  \E g : Adds(g, D, f)
  <1>. DEFINE Bad == { n \in Nat : ~ \E g : UpTo(g, n, D, f) }
  <1>1. 0 \notin Bad
    <2>1. PICK g : g = [s \in SUBSET D |-> 0]
      OBVIOUS
    <2>2. \A s \in SUBSET D : Cardinality(s) <= 0 => s = {} /\ g[s] = 0
      <3>. SUFFICES ASSUME NEW s \in SUBSET D, Cardinality(s) <= 0
                    PROVE  s = {} /\ g[s] = 0
        OBVIOUS
      <3>1. IsFiniteSet(s) /\ Cardinality(s) \in Nat
        BY FS_Subset, FS_CardinalityType
      <3>2. Cardinality(s) = 0
        BY <3>1
      <3>. QED
        BY <2>1, <3>1, <3>2, FS_EmptySet
    <2>3. UpTo(g, 0, D, f)
      BY <2>2 DEF UpTo
    <2>. QED
      BY <2>3
  <1>2. Bad = {}
    <2>. SUFFICES ASSUME Bad # {} PROVE FALSE
      OBVIOUS
    <2>1. PICK m \in Bad : \A k \in Bad : m <= k
      BY LeastNumber
    <2>2. m \in Nat /\ m # 0
      BY <1>1
    <2>3. m - 1 \in Nat /\ m - 1 \notin Bad
      BY <2>1, <2>2
    <2>4. PICK g : UpTo(g, m - 1, D, f)
      BY <2>3
    <2>5. \E h : UpTo(h, m - 1 + 1, D, f)
      BY <2>3, <2>4, OneMore
    <2>6. m - 1 + 1 = m
      BY <2>2
    <2>. QED
      BY <2>1, <2>5, <2>6
  <1>3. Cardinality(D) \in Nat
    BY FS_CardinalityType
  <1>4. PICK g : UpTo(g, Cardinality(D), D, f)
    BY <1>2, <1>3
  <1>5. PICK h : h = [s \in SUBSET D |-> g[s]]
    OBVIOUS
  <1>6. \A s \in SUBSET D : h[s] = IF s = {} THEN 0 ELSE f[Chosen(s)] + h[s \ {Chosen(s)}]
    <2>. SUFFICES ASSUME NEW s \in SUBSET D
                  PROVE  h[s] = IF s = {} THEN 0 ELSE f[Chosen(s)] + h[s \ {Chosen(s)}]
      OBVIOUS
    <2>1. Cardinality(s) <= Cardinality(D)
      BY FS_Subset
    <2>2. g[s] = IF s = {} THEN 0 ELSE f[Chosen(s)] + g[s \ {Chosen(s)}]
      BY <1>4, <2>1 DEF UpTo
    <2>3. s # {} => s \ {Chosen(s)} \in SUBSET D
      BY ChosenIsOne
    <2>4. h[s] = g[s] /\ (s # {} => h[s \ {Chosen(s)}] = g[s \ {Chosen(s)}])
      BY <1>5, <2>3
    <2>. QED
      BY <2>2, <2>4
  <1>7. Adds(h, D, f)
    <2>1. h = [s \in SUBSET D |-> h[s]]
      BY <1>5
    <2>2. [s \in SUBSET D |-> h[s]]
            = [s \in SUBSET D |-> IF s = {} THEN 0 ELSE f[Chosen(s)] + h[s \ {Chosen(s)}]]
      BY <1>6
    <2>. QED
      BY <2>1, <2>2 DEF Adds
  <1>. QED
    BY <1>7

\* The fold of the community modules is that sum.
Total(f) == FoldFunction(+, 0, f)

LEMMA TotalAdds ==
  ASSUME NEW D, IsFiniteSet(D), NEW f, DOMAIN f = D
  PROVE  \E g : Adds(g, D, f) /\ Total(f) = g[D]
  <1>1. PICK g : g = CHOOSE h : h = [s \in SUBSET D |->
                        IF s = {} THEN 0 ELSE f[Chosen(s)] + h[s \ {Chosen(s)}]]
    OBVIOUS
  <1>2. \E h : h = [s \in SUBSET D |->
                        IF s = {} THEN 0 ELSE f[Chosen(s)] + h[s \ {Chosen(s)}]]
    <2>1. PICK h : Adds(h, D, f)
      BY AddsExists
    <2>. QED
      BY <2>1 DEF Adds
  <1>3. Adds(g, D, f)
    BY <1>1, <1>2 DEF Adds
  <1>4. Total(f) = g[D]
    BY <1>1 DEF Total, FoldFunction, FoldFunctionOnSet, MapThenFoldSet, Chosen
  <1>. QED
    BY <1>3, <1>4

\* A sum of integers is one: there is no smallest set for which it is not.
LEMMA AddsInt ==
  ASSUME NEW D, IsFiniteSet(D), NEW f \in [D -> Int], NEW g, Adds(g, D, f)
  PROVE  \A T \in SUBSET D : g[T] \in Int
  <1>1. \A T \in SUBSET D :
            g[T] = IF T = {} THEN 0 ELSE f[Chosen(T)] + g[T \ {Chosen(T)}]
    BY DEF Adds
  <1>9. PICK Bad \in SUBSET (SUBSET D) : Bad = { T \in SUBSET D : g[T] \notin Int }
    OBVIOUS
  <1>2. SUFFICES ASSUME Bad # {} PROVE FALSE
    BY <1>9
  <1>3. PICK T \in Bad : \A U \in Bad : U \subseteq T => U = T
    BY <1>2, SmallestSet
  <1>4. T # {}
    <2>1. g[{}] = 0
      BY <1>1
    <2>2. {} \notin Bad
      BY <1>9, <2>1
    <2>. QED
      BY <1>3, <2>2
  <1>5. /\ Chosen(T) \in D /\ T \ {Chosen(T)} \in SUBSET D /\ T \ {Chosen(T)} # T
    BY <1>4, ChosenIsOne
  <1>6. T \ {Chosen(T)} \notin Bad
    BY <1>3, <1>5
  <1>7. g[T \ {Chosen(T)}] \in Int /\ f[Chosen(T)] \in Int
    BY <1>5, <1>6, <1>9
  <1>8. g[T] = f[Chosen(T)] + g[T \ {Chosen(T)}]
    BY <1>1, <1>4
  <1>. QED
    BY <1>3, <1>7, <1>8, <1>9

\* Two functions that differ at r have sums that differ by that: no set is the
\* smallest for which they do not.
LEMMA OneAdded ==
  ASSUME NEW D, IsFiniteSet(D), NEW f \in [D -> Int], NEW r \in D, NEW n \in Int,
         NEW e, \A x \in D : e[x] = IF x = r THEN n ELSE f[x],
         NEW g, Adds(g, D, f), NEW h, Adds(h, D, e)
  PROVE  \A T \in SUBSET D : h[T] = g[T] + (IF r \in T THEN n - f[r] ELSE 0)
  <1>1. \A T \in SUBSET D :
            g[T] = IF T = {} THEN 0 ELSE f[Chosen(T)] + g[T \ {Chosen(T)}]
    BY DEF Adds
  <1>2. \A T \in SUBSET D :
            h[T] = IF T = {} THEN 0 ELSE e[Chosen(T)] + h[T \ {Chosen(T)}]
    BY DEF Adds
  <1>3. \A T \in SUBSET D : g[T] \in Int
    BY AddsInt
  <1>16. PICK Bad \in SUBSET (SUBSET D) :
            Bad = { T \in SUBSET D : h[T] # g[T] + (IF r \in T THEN n - f[r] ELSE 0) }
    OBVIOUS
  <1>4. SUFFICES ASSUME Bad # {} PROVE FALSE
    BY <1>16
  <1>5. PICK T \in Bad : \A U \in Bad : U \subseteq T => U = T
    BY <1>4, SmallestSet
  <1>6. T # {}
    <2>1. h[{}] = 0 /\ g[{}] = 0 /\ r \notin {}
      BY <1>1, <1>2
    <2>2. {} \notin Bad
      BY <1>16, <2>1
    <2>. QED
      BY <1>5, <2>2
  <1>7. PICK x : x = Chosen(T)
    OBVIOUS
  <1>8. PICK U : U = T \ {x}
    OBVIOUS
  <1>9. x \in D /\ x \in T /\ U \in SUBSET D /\ U # T /\ U \subseteq T
    BY <1>6, <1>7, <1>8, ChosenIsOne
  <1>10. h[U] = g[U] + (IF r \in U THEN n - f[r] ELSE 0)
    BY <1>5, <1>9, <1>16
  <1>11. g[T] = f[x] + g[U] /\ h[T] = e[x] + h[U]
    BY <1>1, <1>2, <1>6, <1>7, <1>8
  <1>12. h[T] # g[T] + (IF r \in T THEN n - f[r] ELSE 0)
    BY <1>5, <1>16
  <1>13. f[x] \in Int /\ f[r] \in Int /\ g[U] \in Int
    BY <1>3, <1>9
  <1>14. CASE x = r
    <2>1. e[x] = n /\ r \in T /\ r \notin U
      BY <1>8, <1>9, <1>14
    <2>. QED
      BY <1>10, <1>11, <1>12, <1>13, <1>14, <2>1
  <1>15. CASE x # r
    <2>1. e[x] = f[x] /\ (r \in T <=> r \in U)
      BY <1>8, <1>9, <1>15
    <2>. QED
      BY <1>10, <1>11, <1>12, <1>13, <2>1
  <1>. QED
    BY <1>14, <1>15

\* A total moves with one value of its function.
LEMMA TotalMoves ==
  ASSUME NEW D, IsFiniteSet(D), NEW f \in [D -> Int], NEW r \in D, NEW n \in Int
  PROVE  /\ Total(f) \in Int
         /\ Total([f EXCEPT ![r] = n]) = Total(f) + n - f[r]
  <1>1. PICK e : e = [f EXCEPT ![r] = n]
    OBVIOUS
  <1>2. DOMAIN f = D /\ DOMAIN e = D
    BY <1>1
  <1>3. PICK g : Adds(g, D, f) /\ Total(f) = g[D]
    BY <1>2, TotalAdds
  <1>4. PICK h : Adds(h, D, e) /\ Total(e) = h[D]
    BY <1>2, TotalAdds
  <1>5. g[D] \in Int /\ f[r] \in Int
    BY <1>3, AddsInt
  <1>6. h[D] = g[D] + (n - f[r])
    <2>1. Adds(g, D, f) /\ Adds(h, D, e)
      BY <1>3, <1>4
    <2>3. \A x \in D : e[x] = IF x = r THEN n ELSE f[x]
      BY <1>1
    <2>2. \A T \in SUBSET D : h[T] = g[T] + (IF r \in T THEN n - f[r] ELSE 0)
      BY <2>1, <2>3, OneAdded
    <2>. QED
      BY <2>2
  <1>. QED
    BY <1>1, <1>3, <1>4, <1>5, <1>6

LEMMA TotalOfNone ==
  ASSUME NEW D, IsFiniteSet(D), NEW f, DOMAIN f = D, \A x \in D : f[x] = 0
  PROVE  Total(f) = 0
  <1>1. PICK g : Adds(g, D, f) /\ Total(f) = g[D]
    BY TotalAdds
  <1>2. \A T \in SUBSET D :
            g[T] = IF T = {} THEN 0 ELSE f[Chosen(T)] + g[T \ {Chosen(T)}]
    BY <1>1 DEF Adds
  <1>3. \A T \in SUBSET D : g[T] = 0
    <2>. PICK Bad \in SUBSET (SUBSET D) : Bad = { T \in SUBSET D : g[T] # 0 }
      OBVIOUS
    <2>1. SUFFICES ASSUME Bad # {} PROVE FALSE
      OBVIOUS
    <2>2. PICK T \in Bad : \A U \in Bad : U \subseteq T => U = T
      BY <2>1, SmallestSet
    <2>3. T # {}
      BY <1>2, <2>2
    <2>4. /\ Chosen(T) \in D /\ T \ {Chosen(T)} \in SUBSET D /\ T \ {Chosen(T)} # T
      BY <2>3, ChosenIsOne
    <2>5. g[T \ {Chosen(T)}] = 0 /\ f[Chosen(T)] = 0
      BY <2>2, <2>4
    <2>. QED
      BY <1>2, <2>2, <2>3, <2>5
  <1>. QED
    BY <1>1, <1>3

-----------------------------------------------------------------------------
(* A step of one request.                                                  *)

Alone(r) ==
    \A q \in Requests : q # r =>
        /\ stage'[q] = stage[q] /\ js'[q] = js[q] /\ owner'[q] = owner[q]
        /\ apiHeld'[q] = apiHeld[q] /\ aborted'[q] = aborted[q]

Moves(r) ==
    /\ activeRequests' = One(activeRequests, stage[r] \notin Waiting, stage'[r] \notin Waiting)
    /\ activeApi' = One(activeApi, apiHeld[r], apiHeld'[r])
    /\ permits' = One(permits, owner'[r] # "none", owner[r] # "none")
    /\ active' = One(active, stage[r] \in NativeStages, stage'[r] \in NativeStages)

\* What it needs to take: room below the limits, and no closing.
Room(r) ==
    /\ activeRequests' > activeRequests => activeRequests < MaxRequests
    /\ activeApi' > activeApi => activeApi < MaxApi
    /\ permits' < permits => permits > 0
    /\ active' > active => ~closing

Typed ==
    /\ activeRequests' \in Int /\ activeApi' \in Int /\ reservedBytes' \in Int
    /\ permits' \in Int /\ active' \in Int
    /\ stage' \in [Requests -> Stages]
    /\ aborted' \in [Requests -> BOOLEAN]
    /\ apiHeld' \in [Requests -> BOOLEAN]
    /\ bytes' \in [Requests -> Nat]
    /\ js' \in [Requests -> {"none", "queued", "running", "used", "cancelling"}]
    /\ owner' \in [Requests -> {"none", "request", "task"}]

Effect(r) ==
    /\ Typed
    /\ Alone(r)
    /\ Moves(r)
    /\ Room(r)
    /\ Coherent(r)'
    /\ UNCHANGED <<host, accepting, jsClosed, closing, closed, closer>>
    /\ notified' \in BOOLEAN

\* The step preserves the invariant.
LEMMA EffectPreserves ==
  ASSUME IInv, NEW r \in Requests, Effect(r)
  PROVE  IInv'
  <1>1. \A q \in Requests : Coherent(q)'
    <2>1. SUFFICES ASSUME NEW q \in Requests, q # r
                   PROVE  Coherent(q)'
      BY DEF Effect
    <2>2. Coherent(q)
      BY DEF IInv
    <2>. QED
      BY <2>1, <2>2 DEF Effect, Alone, Coherent, CoherentApi, CoherentNative, Cancelled
  <1>2. /\ activeRequests' = Cardinality(Admitted') /\ permits' + Cardinality(PermitHolders') = MaxCallbacks
        /\ activeApi' = Cardinality(ApiHolders') /\ active' = Cardinality(Operations')
    <2>. IsFiniteSet(Admitted) /\ IsFiniteSet(ApiHolders) /\ IsFiniteSet(PermitHolders)
         /\ IsFiniteSet(Operations)
      BY RequestsFinite, FS_Subset DEF Admitted, ApiHolders, PermitHolders, Operations
    <2>1. activeRequests' = Cardinality(Admitted')
      <3>1. Admitted' \ {r} = Admitted \ {r}
        BY DEF Effect, Alone, Admitted
      <3>2. activeRequests' = One(Cardinality(Admitted), r \in Admitted, r \in Admitted')
        BY DEF Effect, Moves, IInv, HoldersCounted, Admitted
      <3>. QED
        BY <3>1, <3>2, Counting
    <2>2. activeApi' = Cardinality(ApiHolders')
      <3>1. ApiHolders' \ {r} = ApiHolders \ {r}
        BY DEF Effect, Alone, ApiHolders
      <3>2. activeApi' = One(Cardinality(ApiHolders), r \in ApiHolders, r \in ApiHolders')
        BY DEF Effect, Moves, IInv, HoldersCounted, ApiHolders, One
      <3>. QED
        BY <3>1, <3>2, Counting
    <2>3. active' = Cardinality(Operations')
      <3>1. Operations' \ {r} = Operations \ {r}
        BY DEF Effect, Alone, Operations
      <3>2. active' = One(Cardinality(Operations), r \in Operations, r \in Operations')
        BY DEF Effect, Moves, IInv, HoldersCounted, Operations
      <3>. QED
        BY <3>1, <3>2, Counting
    <2>4. permits' + Cardinality(PermitHolders') = MaxCallbacks
      <3>1. PermitHolders' \ {r} = PermitHolders \ {r}
        BY DEF Effect, Alone, PermitHolders
      <3>2. One(Cardinality(PermitHolders), r \in PermitHolders, r \in PermitHolders')
              = Cardinality(PermitHolders')
        <4>. DEFINE d == One(Cardinality(PermitHolders), r \in PermitHolders, r \in PermitHolders')
        <4>1. d = One(Cardinality(PermitHolders), r \in PermitHolders, r \in PermitHolders')
          OBVIOUS
        <4>. HIDE DEF d
        <4>2. d = Cardinality(PermitHolders')
          BY <3>1, <4>1, Counting
        <4>. QED
          BY <4>1, <4>2
      <3>3. /\ permits' = One(permits, r \in PermitHolders', r \in PermitHolders)
            /\ permits + Cardinality(PermitHolders) = MaxCallbacks
        BY DEF Effect, Moves, IInv, HoldersCounted, PermitHolders
      <3>4. permits \in Int /\ Cardinality(PermitHolders) \in Int /\ MaxCallbacks \in Int
        BY FS_CardinalityType, LimitsAreNumbers DEF IInv, TypeOK
      <3>. QED
        BY <3>2, <3>3, <3>4 DEF One
    <2>. QED
      BY <2>1, <2>2, <2>3, <2>4
  <1>3. /\ activeRequests' \in Nat /\ activeApi' \in Nat /\ active' \in Nat
        /\ activeRequests' <= MaxRequests /\ activeApi' <= MaxApi
    <2>1. /\ IsFiniteSet(Admitted') /\ IsFiniteSet(ApiHolders') /\ IsFiniteSet(Operations')
      BY RequestsFinite, FS_Subset DEF Admitted, ApiHolders, Operations
    <2>2. activeRequests' \in Nat /\ activeApi' \in Nat /\ active' \in Nat
      BY <1>2, <2>1, FS_CardinalityType
    <2>3. activeRequests' <= activeRequests + 1 /\ activeApi' <= activeApi + 1
      BY DEF Effect, Moves, One, IInv, TypeOK
    <2>. QED
      BY <2>2, <2>3, LimitsAreNumbers DEF Effect, Room, IInv, TypeOK, HoldersCounted
  <1>4. permits' \in Nat
    <2>1. permits' >= permits - 1 /\ permits' \in Int
      BY DEF Effect, Moves, One, IInv, TypeOK
    <2>3. CASE permits > 0
      BY <2>1, <2>3 DEF IInv, TypeOK
    <2>4. permits' >= permits \/ permits > 0
      BY <2>1 DEF Effect, Room, IInv, TypeOK
    <2>. QED
      BY <2>1, <2>3, <2>4 DEF IInv, TypeOK
  <1>5. TypeOK'
    BY <1>3, <1>4 DEF Effect, Typed, IInv, TypeOK
  <1>6. Ordered'
    <2>1. closed => Operations' = {}
      <3>1. SUFFICES ASSUME closed PROVE Operations' = {}
        OBVIOUS
      <3>2. active = 0 /\ Cardinality(Operations') = active'
        BY <1>2, <3>1, FS_EmptySet DEF IInv, Ordered, HoldersCounted
      <3>3. ~(active' > active)
        BY <3>1 DEF Effect, Room, IInv, Ordered
      <3>4. active' = 0
        BY <1>3, <3>2, <3>3
      <3>5. IsFiniteSet(Operations')
        BY RequestsFinite, FS_Subset DEF Operations
      <3>. QED
        BY <3>2, <3>4, <3>5, FS_EmptySet
    <2>. QED
      BY <2>1 DEF Effect, IInv, Ordered
  <1>. QED
    BY <1>1, <1>2, <1>3, <1>5, <1>6 DEF IInv, HoldersCounted

-----------------------------------------------------------------------------
(* What each step of a request does.                                       *)

USE DEF httpVars, apiVars, callVars, nativeVars

LEMMA RefuseEffect ==
  ASSUME IInv, NEW r \in Requests, Refuse(r)
  PROVE  Effect(r)
  <1>1. TypeOK /\ Coherent(r)
    BY DEF IInv
  <1>2. Typed
    BY <1>1 DEF Refuse, TypeOK, Typed, Stages, NativeStages
  <1>3. Alone(r)
    BY <1>1 DEF Refuse, TypeOK, Alone
  <1>4. Moves(r) /\ Room(r)
    BY <1>1 DEF Refuse, TypeOK, Moves, Room, One, Admit, Coherent,
       CoherentApi, CoherentNative, Stages, NativeStages, Waiting
  <1>5. Coherent(r)'
    BY <1>1 DEF Refuse, TypeOK, Coherent, CoherentApi, CoherentNative,
       Cancelled, Stages, NativeStages
  <1>. QED
    BY <1>1, <1>2, <1>3, <1>4, <1>5 DEF Effect, TypeOK, Refuse

LEMMA TurnAwayEffect ==
  ASSUME IInv, NEW r \in Requests, NEW declared, TurnAway(r, declared)
  PROVE  Effect(r)
  <1>1. TypeOK /\ Coherent(r)
    BY DEF IInv
  <1>2. Typed
    BY <1>1 DEF TurnAway, TypeOK, Typed, Stages, NativeStages
  <1>3. Alone(r)
    BY <1>1 DEF TurnAway, TypeOK, Alone
  <1>4. Moves(r) /\ Room(r)
    BY <1>1 DEF TurnAway, TypeOK, Moves, Room, One, Admit, Coherent,
       CoherentApi, CoherentNative, Stages, NativeStages, Waiting
  <1>5. Coherent(r)'
    BY <1>1 DEF TurnAway, TypeOK, Coherent, CoherentApi, CoherentNative,
       Cancelled, Stages, NativeStages
  <1>. QED
    BY <1>1, <1>2, <1>3, <1>4, <1>5 DEF Effect, TypeOK, TurnAway

LEMMA StartApiEffect ==
  ASSUME IInv, NEW r \in Requests, NEW declared \in 0..BodyLimit + 1, StartApi(r, declared)
  PROVE  Effect(r)
  <1>1. TypeOK /\ Coherent(r)
    BY DEF IInv
  <1>. declared \in Nat
    BY LimitsAreNumbers
  <1>2. Typed
    BY <1>1 DEF StartApi, TypeOK, Typed, Stages, NativeStages
  <1>3. Alone(r)
    BY <1>1 DEF StartApi, TypeOK, Alone
  <1>4. Moves(r) /\ Room(r)
    BY <1>1 DEF StartApi, TypeOK, Moves, Room, One, Admit, Coherent,
       CoherentApi, CoherentNative, Stages, NativeStages, Waiting
  <1>5. Coherent(r)'
    BY <1>1 DEF StartApi, TypeOK, Coherent, CoherentApi, CoherentNative,
       Cancelled, Stages, NativeStages
  <1>. QED
    BY <1>1, <1>2, <1>3, <1>4, <1>5 DEF Effect, TypeOK, StartApi

LEMMA StartNativeEffect ==
  ASSUME IInv, NEW r \in Requests, StartNative(r)
  PROVE  Effect(r)
  <1>1. TypeOK /\ Coherent(r)
    BY DEF IInv
  <1>2. Typed
    BY <1>1 DEF StartNative, TypeOK, Typed, Stages, NativeStages
  <1>3. Alone(r)
    BY <1>1 DEF StartNative, TypeOK, Alone
  <1>4. Moves(r) /\ Room(r)
    BY <1>1 DEF StartNative, TypeOK, Moves, Room, One, Admit, Coherent,
       CoherentApi, CoherentNative, Stages, NativeStages, Waiting
  <1>5. Coherent(r)'
    BY <1>1 DEF StartNative, TypeOK, Coherent, CoherentApi,
       CoherentNative, Cancelled, Stages, NativeStages
  <1>. QED
    BY <1>1, <1>2, <1>3, <1>4, <1>5 DEF Effect, TypeOK, StartNative

LEMMA ReadChunkEffect ==
  ASSUME IInv, NEW r \in Requests, ReadChunk(r)
  PROVE  Effect(r)
  <1>1. TypeOK /\ Coherent(r)
    BY DEF IInv
  <1>2. Typed
    BY <1>1 DEF ReadChunk, TypeOK, Typed, Stages, NativeStages
  <1>3. Alone(r)
    BY <1>1 DEF ReadChunk, TypeOK, Alone
  <1>4. Moves(r) /\ Room(r)
    BY <1>1 DEF ReadChunk, TypeOK, Moves, Room, One, Coherent,
       CoherentApi, CoherentNative, Stages, NativeStages, Waiting
  <1>5. Coherent(r)'
    BY <1>1 DEF ReadChunk, TypeOK, Coherent, CoherentApi, CoherentNative,
       Cancelled, Stages, NativeStages
  <1>. QED
    BY <1>1, <1>2, <1>3, <1>4, <1>5 DEF Effect, TypeOK, ReadChunk

LEMMA BodyFailsEffect ==
  ASSUME IInv, NEW r \in Requests, BodyFails(r)
  PROVE  Effect(r)
  <1>1. TypeOK /\ Coherent(r)
    BY DEF IInv
  <1>2. Typed
    BY <1>1 DEF BodyFails, TypeOK, Typed, Ends, ReleaseApi, Stages,
       NativeStages
  <1>3. Alone(r)
    BY <1>1 DEF BodyFails, TypeOK, Alone, Ends, ReleaseApi
  <1>4. Moves(r) /\ Room(r)
    BY <1>1 DEF BodyFails, TypeOK, Moves, Room, One, Coherent,
       CoherentApi, CoherentNative, Ends, ReleaseApi, Stages,
       NativeStages, Waiting
  <1>5. Coherent(r)'
    BY <1>1 DEF BodyFails, TypeOK, Coherent, CoherentApi, CoherentNative,
       Cancelled, Ends, ReleaseApi, Stages, NativeStages
  <1>. QED
    BY <1>1, <1>2, <1>3, <1>4, <1>5 DEF Effect, TypeOK, BodyFails

LEMMA CallHandlerEffect ==
  ASSUME IInv, NEW r \in Requests, CallHandler(r)
  PROVE  Effect(r)
  <1>1. TypeOK /\ Coherent(r)
    BY DEF IInv
  <1>2. Typed
    BY <1>1 DEF CallHandler, TypeOK, Typed, TakePermit, Stages,
       NativeStages
  <1>3. Alone(r)
    BY <1>1 DEF CallHandler, TypeOK, Alone, TakePermit
  <1>4. Moves(r) /\ Room(r)
    BY <1>1 DEF CallHandler, TypeOK, Moves, Room, One, Coherent,
       CoherentApi, CoherentNative, TakePermit, Stages, NativeStages,
       Waiting
  <1>5. Coherent(r)'
    BY <1>1 DEF CallHandler, TypeOK, Coherent, CoherentApi,
       CoherentNative, Cancelled, TakePermit, Stages, NativeStages
  <1>. QED
    BY <1>1, <1>2, <1>3, <1>4, <1>5 DEF Effect, TypeOK, CallHandler

LEMMA HandlerAnswersEffect ==
  ASSUME IInv, NEW r \in Requests, HandlerAnswers(r)
  PROVE  Effect(r)
  <1>1. TypeOK /\ Coherent(r)
    BY DEF IInv
  <1>2. Typed
    BY <1>1 DEF HandlerAnswers, TypeOK, Typed, Ends, ReleaseApi,
       DropPermit, Stages, NativeStages
  <1>3. Alone(r)
    BY <1>1 DEF HandlerAnswers, TypeOK, Alone, Ends, ReleaseApi,
       DropPermit
  <1>4. Moves(r) /\ Room(r)
    BY <1>1 DEF HandlerAnswers, TypeOK, Moves, Room, One, Coherent,
       CoherentApi, CoherentNative, Ends, ReleaseApi, DropPermit, Stages,
       NativeStages, Waiting
  <1>5. Coherent(r)'
    BY <1>1 DEF HandlerAnswers, TypeOK, Coherent, CoherentApi,
       CoherentNative, Cancelled, Ends, ReleaseApi, DropPermit, Stages,
       NativeStages
  <1>. QED
    BY <1>1, <1>2, <1>3, <1>4, <1>5 DEF Effect, TypeOK, HandlerAnswers

LEMMA HandlerStreamsEffect ==
  ASSUME IInv, NEW r \in Requests, HandlerStreams(r)
  PROVE  Effect(r)
  <1>1. TypeOK /\ Coherent(r)
    BY DEF IInv
  <1>2. Typed
    BY <1>1 DEF HandlerStreams, TypeOK, Typed, KeepApi, DropPermit,
       Stages, NativeStages
  <1>3. Alone(r)
    BY <1>1 DEF HandlerStreams, TypeOK, Alone, KeepApi, DropPermit
  <1>4. Moves(r) /\ Room(r)
    BY <1>1 DEF HandlerStreams, TypeOK, Moves, Room, One, Coherent,
       CoherentApi, CoherentNative, KeepApi, DropPermit, Stages,
       NativeStages, Waiting
  <1>5. Coherent(r)'
    BY <1>1 DEF HandlerStreams, TypeOK, Coherent, CoherentApi,
       CoherentNative, Cancelled, KeepApi, DropPermit, Stages,
       NativeStages
  <1>. QED
    BY <1>1, <1>2, <1>3, <1>4, <1>5 DEF Effect, TypeOK, HandlerStreams

LEMMA HandlerReturnsUsedEffect ==
  ASSUME IInv, NEW r \in Requests, HandlerReturnsUsed(r)
  PROVE  Effect(r)
  <1>1. TypeOK /\ Coherent(r)
    BY DEF IInv
  <1>2. Typed
    BY <1>1 DEF HandlerReturnsUsed, TypeOK, Typed, Ends, KeepApi,
       DropPermit, Stages, NativeStages
  <1>3. Alone(r)
    BY <1>1 DEF HandlerReturnsUsed, TypeOK, Alone, Ends, KeepApi,
       DropPermit
  <1>4. Moves(r) /\ Room(r)
    BY <1>1 DEF HandlerReturnsUsed, TypeOK, Moves, Room, One, Coherent,
       CoherentApi, CoherentNative, Ends, KeepApi, DropPermit, Stages,
       NativeStages, Waiting
  <1>5. Coherent(r)'
    BY <1>1 DEF HandlerReturnsUsed, TypeOK, Coherent, CoherentApi,
       CoherentNative, Cancelled, Ends, KeepApi, DropPermit, Stages,
       NativeStages
  <1>. QED
    BY <1>1, <1>2, <1>3, <1>4, <1>5 DEF Effect, TypeOK, HandlerReturnsUsed

LEMMA DetachedSettlesEffect ==
  ASSUME IInv, NEW r \in Requests, DetachedSettles(r)
  PROVE  Effect(r)
  <1>1. TypeOK /\ Coherent(r)
    BY DEF IInv
  <1>2. Typed
    BY <1>1 DEF DetachedSettles, TypeOK, Typed, ReleaseApi, DropPermit,
       Stages, NativeStages
  <1>3. Alone(r)
    BY <1>1 DEF DetachedSettles, TypeOK, Alone, ReleaseApi, DropPermit
  <1>4. Moves(r) /\ Room(r)
    BY <1>1 DEF DetachedSettles, TypeOK, Moves, Room, One, Coherent,
       CoherentApi, CoherentNative, ReleaseApi, DropPermit, Stages,
       NativeStages, Waiting
  <1>5. Coherent(r)'
    BY <1>1 DEF DetachedSettles, TypeOK, Coherent, CoherentApi,
       CoherentNative, Cancelled, ReleaseApi, DropPermit, Stages,
       NativeStages
  <1>. QED
    BY <1>1, <1>2, <1>3, <1>4, <1>5 DEF Effect, TypeOK, DetachedSettles

LEMMA SendEndsEffect ==
  ASSUME IInv, NEW r \in Requests, SendEnds(r)
  PROVE  Effect(r)
  <1>1. TypeOK /\ Coherent(r)
    BY DEF IInv
  <1>2. Typed
    <2>1. CASE apiHeld[r]
      <3>1. ReleaseApi(r)
        BY <2>1, Zenon DEF SendEnds
      <3>. QED
        BY <1>1, <3>1 DEF SendEnds, TypeOK, Typed, Ends, ReleaseApi, Stages
    <2>2. CASE ~apiHeld[r]
      <3>1. KeepApi(r)
        BY <2>2, Zenon DEF SendEnds
      <3>. QED
        BY <1>1, <3>1 DEF SendEnds, TypeOK, Typed, Ends, KeepApi, Stages
    <2>. QED
      BY <2>1, <2>2
  <1>3. Alone(r)
    BY <1>1 DEF SendEnds, TypeOK, Alone, Ends, ReleaseApi, KeepApi
  <1>4. Moves(r) /\ Room(r)
    BY <1>1 DEF SendEnds, TypeOK, Moves, Room, One, Coherent, CoherentApi,
       CoherentNative, Ends, ReleaseApi, KeepApi, Stages, NativeStages,
       Waiting
  <1>5. Coherent(r)'
    BY <1>1 DEF SendEnds, TypeOK, Coherent, CoherentApi, CoherentNative,
       Cancelled, Ends, ReleaseApi, KeepApi, Stages, NativeStages
  <1>. QED
    BY <1>1, <1>2, <1>3, <1>4, <1>5 DEF Effect, TypeOK, SendEnds

LEMMA CancelSettlesEffect ==
  ASSUME IInv, NEW r \in Requests, CancelSettles(r)
  PROVE  Effect(r)
  <1>1. TypeOK /\ Coherent(r)
    BY DEF IInv
  <1>2. Typed
    BY <1>1 DEF CancelSettles, TypeOK, Typed, ReleaseApi, Stages,
       NativeStages
  <1>3. Alone(r)
    BY <1>1 DEF CancelSettles, TypeOK, Alone, ReleaseApi
  <1>4. Moves(r) /\ Room(r)
    BY <1>1 DEF CancelSettles, TypeOK, Moves, Room, One, Coherent,
       CoherentApi, CoherentNative, ReleaseApi, Stages, NativeStages,
       Waiting
  <1>5. Coherent(r)'
    BY <1>1 DEF CancelSettles, TypeOK, Coherent, CoherentApi,
       CoherentNative, Cancelled, ReleaseApi, Stages, NativeStages
  <1>. QED
    BY <1>1, <1>2, <1>3, <1>4, <1>5 DEF Effect, TypeOK, CancelSettles

LEMMA DisconnectEffect ==
  ASSUME IInv, NEW r \in Requests, Disconnect(r)
  PROVE  Effect(r)
  <1>1. TypeOK /\ Coherent(r)
    BY DEF IInv
  <1>2. Typed
    BY <1>1 DEF Disconnect, TypeOK, Typed, Stages, NativeStages
  <1>3. Alone(r)
    BY <1>1 DEF Disconnect, TypeOK, Alone
  <1>4. Moves(r) /\ Room(r)
    BY <1>1 DEF Disconnect, TypeOK, Moves, Room, One, Coherent,
       CoherentApi, CoherentNative, Stages, NativeStages, Waiting
  <1>5. Coherent(r)'
    BY <1>1 DEF Disconnect, TypeOK, Coherent, CoherentApi, CoherentNative,
       Cancelled, Stages, NativeStages
  <1>. QED
    BY <1>1, <1>2, <1>3, <1>4, <1>5 DEF Effect, TypeOK, Disconnect

LEMMA AbortBodyEffect ==
  ASSUME IInv, NEW r \in Requests, AbortBody(r)
  PROVE  Effect(r)
  <1>1. TypeOK /\ Coherent(r)
    BY DEF IInv
  <1>2. Typed
    BY <1>1 DEF AbortBody, TypeOK, Typed, Ends, ReleaseApi, Stages,
       NativeStages
  <1>3. Alone(r)
    BY <1>1 DEF AbortBody, TypeOK, Alone, Ends, ReleaseApi
  <1>4. Moves(r) /\ Room(r)
    BY <1>1 DEF AbortBody, TypeOK, Moves, Room, One, Coherent,
       CoherentApi, CoherentNative, Ends, ReleaseApi, Stages,
       NativeStages, Waiting
  <1>5. Coherent(r)'
    BY <1>1 DEF AbortBody, TypeOK, Coherent, CoherentApi, CoherentNative,
       Cancelled, Ends, ReleaseApi, Stages, NativeStages
  <1>. QED
    BY <1>1, <1>2, <1>3, <1>4, <1>5 DEF Effect, TypeOK, AbortBody

LEMMA AbortHandlerEffect ==
  ASSUME IInv, NEW r \in Requests, AbortHandler(r)
  PROVE  Effect(r)
  <1>1. TypeOK /\ Coherent(r)
    BY DEF IInv
  <1>2. Typed
    BY <1>1 DEF AbortHandler, TypeOK, Typed, Ends, KeepApi, Stages,
       NativeStages
  <1>3. Alone(r)
    BY <1>1 DEF AbortHandler, TypeOK, Alone, Ends, KeepApi
  <1>4. Moves(r) /\ Room(r)
    BY <1>1 DEF AbortHandler, TypeOK, Moves, Room, One, Coherent,
       CoherentApi, CoherentNative, Ends, KeepApi, Stages, NativeStages,
       Waiting
  <1>5. Coherent(r)'
    BY <1>1 DEF AbortHandler, TypeOK, Coherent, CoherentApi,
       CoherentNative, Cancelled, Ends, KeepApi, Stages, NativeStages
  <1>. QED
    BY <1>1, <1>2, <1>3, <1>4, <1>5 DEF Effect, TypeOK, AbortHandler

LEMMA AbortSendingEffect ==
  ASSUME IInv, NEW r \in Requests, AbortSending(r)
  PROVE  Effect(r)
  <1>1. TypeOK /\ Coherent(r)
    BY DEF IInv
  <1>2. Typed
    BY <1>1 DEF AbortSending, TypeOK, Typed, Ends, KeepApi, Stages,
       NativeStages
  <1>3. Alone(r)
    BY <1>1 DEF AbortSending, TypeOK, Alone, Ends, KeepApi
  <1>4. Moves(r) /\ Room(r)
    BY <1>1 DEF AbortSending, TypeOK, Moves, Room, One, Coherent,
       CoherentApi, CoherentNative, Ends, KeepApi, Stages, NativeStages,
       Waiting
  <1>5. Coherent(r)'
    BY <1>1 DEF AbortSending, TypeOK, Coherent, CoherentApi,
       CoherentNative, Cancelled, Ends, KeepApi, Stages, NativeStages
  <1>. QED
    BY <1>1, <1>2, <1>3, <1>4, <1>5 DEF Effect, TypeOK, AbortSending

LEMMA EnterNativeEffect ==
  ASSUME IInv, NEW r \in Requests, EnterNative(r)
  PROVE  Effect(r)
  <1>1. TypeOK /\ Coherent(r)
    BY DEF IInv
  <1>2. Typed
    BY <1>1 DEF EnterNative, TypeOK, Typed, Ends, Stages, NativeStages
  <1>3. Alone(r)
    BY <1>1 DEF EnterNative, TypeOK, Alone, Ends
  <1>4. Moves(r) /\ Room(r)
    BY <1>1 DEF EnterNative, TypeOK, Moves, Room, One, Coherent,
       CoherentApi, CoherentNative, Ends, Stages, NativeStages, Waiting
  <1>5. Coherent(r)'
    BY <1>1 DEF EnterNative, TypeOK, Coherent, CoherentApi,
       CoherentNative, Cancelled, Ends, Stages, NativeStages
  <1>. QED
    BY <1>1, <1>2, <1>3, <1>4, <1>5 DEF Effect, TypeOK, EnterNative

LEMMA QueueCallbackEffect ==
  ASSUME IInv, NEW r \in Requests, QueueCallback(r)
  PROVE  Effect(r)
  <1>1. TypeOK /\ Coherent(r)
    BY DEF IInv
  <1>2. Typed
    BY <1>1 DEF QueueCallback, TypeOK, Typed, TakePermit, Stages,
       NativeStages
  <1>3. Alone(r)
    BY <1>1 DEF QueueCallback, TypeOK, Alone, TakePermit
  <1>4. Moves(r) /\ Room(r)
    BY <1>1 DEF QueueCallback, TypeOK, Moves, Room, One, Coherent,
       CoherentApi, CoherentNative, TakePermit, Stages, NativeStages,
       Waiting
  <1>5. Coherent(r)'
    BY <1>1 DEF QueueCallback, TypeOK, Coherent, CoherentApi,
       CoherentNative, Cancelled, TakePermit, Stages, NativeStages
  <1>. QED
    BY <1>1, <1>2, <1>3, <1>4, <1>5 DEF Effect, TypeOK, QueueCallback

LEMMA RunCallbackEffect ==
  ASSUME IInv, NEW r \in Requests, RunCallback(r)
  PROVE  Effect(r)
  <1>1. TypeOK /\ Coherent(r)
    BY DEF IInv
  <1>2. Typed
    BY <1>1 DEF RunCallback, TypeOK, Typed, Stages, NativeStages
  <1>3. Alone(r)
    BY <1>1 DEF RunCallback, TypeOK, Alone
  <1>4. Moves(r) /\ Room(r)
    BY <1>1 DEF RunCallback, TypeOK, Moves, Room, One, Coherent,
       CoherentApi, CoherentNative, Stages, NativeStages, Waiting
  <1>5. Coherent(r)'
    BY <1>1 DEF RunCallback, TypeOK, Coherent, CoherentApi,
       CoherentNative, Cancelled, Stages, NativeStages
  <1>. QED
    BY <1>1, <1>2, <1>3, <1>4, <1>5 DEF Effect, TypeOK, RunCallback

LEMMA CallbackThrowsEffect ==
  ASSUME IInv, NEW r \in Requests, CallbackThrows(r)
  PROVE  Effect(r)
  <1>1. TypeOK /\ Coherent(r)
    BY DEF IInv
  <1>2. Typed
    BY <1>1 DEF CallbackThrows, TypeOK, Typed, DropPermit, DropOwnPermit,
       Resumed, Stages, NativeStages
  <1>3. Alone(r)
    BY <1>1 DEF CallbackThrows, TypeOK, Alone, DropPermit, DropOwnPermit,
       Resumed
  <1>4. Moves(r) /\ Room(r)
    BY <1>1 DEF CallbackThrows, TypeOK, Moves, Room, One, Coherent,
       CoherentApi, CoherentNative, DropPermit, DropOwnPermit, Resumed,
       Stages, NativeStages, Waiting
  <1>5. Coherent(r)'
    BY <1>1 DEF CallbackThrows, TypeOK, Coherent, CoherentApi,
       CoherentNative, Cancelled, DropPermit, DropOwnPermit, Resumed,
       Stages, NativeStages
  <1>. QED
    BY <1>1, <1>2, <1>3, <1>4, <1>5 DEF Effect, TypeOK, CallbackThrows

LEMMA AwaitPromiseEffect ==
  ASSUME IInv, NEW r \in Requests, AwaitPromise(r)
  PROVE  Effect(r)
  <1>1. TypeOK /\ Coherent(r)
    BY DEF IInv
  <1>2. Typed
    BY <1>1 DEF AwaitPromise, TypeOK, Typed, Stages, NativeStages
  <1>3. Alone(r)
    BY <1>1 DEF AwaitPromise, TypeOK, Alone
  <1>4. Moves(r) /\ Room(r)
    BY <1>1 DEF AwaitPromise, TypeOK, Moves, Room, One, Coherent,
       CoherentApi, CoherentNative, Stages, NativeStages, Waiting
  <1>5. Coherent(r)'
    BY <1>1 DEF AwaitPromise, TypeOK, Coherent, CoherentApi,
       CoherentNative, Cancelled, Stages, NativeStages
  <1>. QED
    BY <1>1, <1>2, <1>3, <1>4, <1>5 DEF Effect, TypeOK, AwaitPromise

LEMMA PromiseSettlesEffect ==
  ASSUME IInv, NEW r \in Requests, PromiseSettles(r)
  PROVE  Effect(r)
  <1>1. TypeOK /\ Coherent(r)
    BY DEF IInv
  <1>2. Typed
    BY <1>1 DEF PromiseSettles, TypeOK, Typed, DropPermit, Resumed,
       Stages, NativeStages
  <1>3. Alone(r)
    BY <1>1 DEF PromiseSettles, TypeOK, Alone, DropPermit, Resumed
  <1>4. Moves(r) /\ Room(r)
    BY <1>1 DEF PromiseSettles, TypeOK, Moves, Room, One, Coherent,
       CoherentApi, CoherentNative, DropPermit, Resumed, Stages,
       NativeStages, Waiting
  <1>5. Coherent(r)'
    BY <1>1 DEF PromiseSettles, TypeOK, Coherent, CoherentApi,
       CoherentNative, Cancelled, DropPermit, Resumed, Stages,
       NativeStages
  <1>. QED
    BY <1>1, <1>2, <1>3, <1>4, <1>5 DEF Effect, TypeOK, PromiseSettles

LEMMA NativeEndsEffect ==
  ASSUME IInv, NEW r \in Requests, NativeEnds(r)
  PROVE  Effect(r)
  <1>1. TypeOK /\ Coherent(r)
    BY DEF IInv
  <1>2. Typed
    BY <1>1 DEF NativeEnds, TypeOK, Typed, Ends, DropActive, Stages,
       NativeStages
  <1>3. Alone(r)
    BY <1>1 DEF NativeEnds, TypeOK, Alone, Ends, DropActive
  <1>4. Moves(r) /\ Room(r)
    BY <1>1 DEF NativeEnds, TypeOK, Moves, Room, One, Coherent,
       CoherentApi, CoherentNative, Ends, DropActive, Stages,
       NativeStages, Waiting
  <1>5. Coherent(r)'
    BY <1>1 DEF NativeEnds, TypeOK, Coherent, CoherentApi, CoherentNative,
       Cancelled, Ends, DropActive, Stages, NativeStages
  <1>. QED
    BY <1>1, <1>2, <1>3, <1>4, <1>5 DEF Effect, TypeOK, NativeEnds,
       DropActive

LEMMA NativeCancelledEffect ==
  ASSUME IInv, NEW r \in Requests, NativeCancelled(r)
  PROVE  Effect(r)
  <1>1. TypeOK /\ Coherent(r)
    BY DEF IInv
  <1>2. Typed
    BY <1>1 DEF NativeCancelled, TypeOK, Typed, Ends, DropPermit,
       DropOwnPermit, DropActive, Stages, NativeStages
  <1>3. Alone(r)
    BY <1>1 DEF NativeCancelled, TypeOK, Alone, Ends, DropPermit,
       DropOwnPermit, DropActive
  <1>4. Moves(r) /\ Room(r)
    BY <1>1 DEF NativeCancelled, TypeOK, Moves, Room, One, Coherent,
       CoherentApi, CoherentNative, Ends, DropPermit, DropOwnPermit,
       DropActive, Stages, NativeStages, Waiting
  <1>5. Coherent(r)'
    BY <1>1 DEF NativeCancelled, TypeOK, Coherent, CoherentApi,
       CoherentNative, Cancelled, Ends, DropPermit, DropOwnPermit,
       DropActive, Stages, NativeStages
  <1>. QED
    BY <1>1, <1>2, <1>3, <1>4, <1>5 DEF Effect, TypeOK, NativeCancelled,
       DropActive

LEMMA BodyCancelledEffect ==
  ASSUME IInv, NEW r \in Requests, BodyCancelled(r)
  PROVE  Effect(r)
  <1>1. TypeOK /\ Coherent(r)
    BY DEF IInv
  <1>2. Typed
    BY <1>1 DEF BodyCancelled, TypeOK, Typed, Ends, DropActive, Stages,
       NativeStages
  <1>3. Alone(r)
    BY <1>1 DEF BodyCancelled, TypeOK, Alone, Ends, DropActive
  <1>4. Moves(r) /\ Room(r)
    BY <1>1 DEF BodyCancelled, TypeOK, Moves, Room, One, Coherent,
       CoherentApi, CoherentNative, Ends, DropActive, Stages,
       NativeStages, Waiting
  <1>5. Coherent(r)'
    BY <1>1 DEF BodyCancelled, TypeOK, Coherent, CoherentApi,
       CoherentNative, Cancelled, Ends, DropActive, Stages, NativeStages
  <1>. QED
    BY <1>1, <1>2, <1>3, <1>4, <1>5 DEF Effect, TypeOK, BodyCancelled,
       DropActive

\* Every step of a request has such an effect.
LEMMA RequestSteps ==
  ASSUME IInv, NEW r \in Requests,
         Arrive(r) \/ Handle(r) \/ Disconnect(r) \/ React(r) \/ Operate(r)
  PROVE  Effect(r)
  <1>1. CASE Arrive(r)
    BY <1>1, RefuseEffect, StartNativeEffect, TurnAwayEffect, StartApiEffect DEF Arrive
  <1>2. CASE Handle(r)
    BY <1>2, ReadChunkEffect, BodyFailsEffect, CallHandlerEffect, HandlerAnswersEffect,
       HandlerStreamsEffect, HandlerReturnsUsedEffect, DetachedSettlesEffect, SendEndsEffect,
       CancelSettlesEffect DEF Handle
  <1>3. CASE React(r)
    BY <1>3, AbortBodyEffect, AbortHandlerEffect, AbortSendingEffect DEF React
  <1>4. CASE Operate(r)
    BY <1>4, EnterNativeEffect, QueueCallbackEffect, RunCallbackEffect, CallbackThrowsEffect,
       AwaitPromiseEffect, PromiseSettlesEffect, NativeEndsEffect, NativeCancelledEffect,
       BodyCancelledEffect DEF Operate
  <1>. QED
    BY <1>1, <1>2, <1>3, <1>4, DisconnectEffect

-----------------------------------------------------------------------------
(* Shutdown, which counts nothing and only ever cancels.                   *)

LEMMA ShutdownPreserves ==
  ASSUME IInv, Shutdown
  PROVE  IInv'
  <1>. USE DEF IInv
  <1>1. /\ UNCHANGED <<activeRequests, stage, apiVars, callVars, active>>
        /\ closing => closing'
        /\ \A r \in Requests : aborted[r] => aborted'[r]
    BY DEF Shutdown, Signal, Drained, GraceExpires, Forced, BeginClose, CheckActive,
           AwaitNotified, WakeCloser, TypeOK
  <1>2. TypeOK'
    BY <1>1 DEF Shutdown, Signal, Drained, GraceExpires, Forced, BeginClose, CheckActive,
           AwaitNotified, WakeCloser, TypeOK
  <1>3. \A r \in Requests : Coherent(r)'
    BY <1>1 DEF Coherent, CoherentApi, CoherentNative, Cancelled
  <1>4. HoldersCounted'
    BY <1>1 DEF HoldersCounted, Admitted, ApiHolders, PermitHolders, Operations
  <1>5. Ordered'
    <2>1. closed' => closing'
      BY <1>1 DEF Shutdown, Signal, Drained, GraceExpires, Forced, BeginClose, CheckActive,
             AwaitNotified, WakeCloser, Ordered
    <2>2. closer' # "idle" => closing'
      BY <1>1 DEF Shutdown, Signal, Drained, GraceExpires, Forced, BeginClose, CheckActive,
             AwaitNotified, WakeCloser, Ordered
    <2>3. closed' => Operations = {}
      <3>1. closed' => closed \/ active = 0
        BY DEF Shutdown, Signal, Drained, GraceExpires, Forced, BeginClose, CheckActive,
               AwaitNotified, WakeCloser
      <3>2. active = 0 => Operations = {}
        <4>1. IsFiniteSet(Operations)
          BY RequestsFinite, FS_Subset DEF Operations
        <4>. QED
          BY <4>1, FS_EmptySet DEF HoldersCounted
      <3>. QED
        BY <3>1, <3>2 DEF Ordered
    <2>. QED
      BY <1>1, <2>1, <2>2, <2>3 DEF Ordered, Operations
  <1>. QED
    BY <1>2, <1>3, <1>4, <1>5

-----------------------------------------------------------------------------
LEMMA InitIInv == Init => IInv
  <1>. SUFFICES ASSUME Init PROVE IInv
    OBVIOUS
  <1>1. TypeOK
    <2>1. /\ accepting \in BOOLEAN /\ jsClosed \in BOOLEAN /\ closing \in BOOLEAN
          /\ closed \in BOOLEAN /\ notified \in BOOLEAN
      BY Zenon DEF Init
    <2>2. /\ host = "serving" /\ closer = "idle" /\ activeRequests = 0 /\ activeApi = 0
          /\ reservedBytes = 0 /\ permits = MaxCallbacks /\ active = 0
      BY DEF Init
    <2>3. /\ stage \in [Requests -> Stages] /\ bytes \in [Requests -> Nat]
          /\ aborted \in [Requests -> BOOLEAN] /\ apiHeld \in [Requests -> BOOLEAN]
      BY DEF Init, Stages
    <2>4. /\ js \in [Requests -> {"none", "queued", "running", "used", "cancelling"}]
          /\ owner \in [Requests -> {"none", "request", "task"}]
      BY DEF Init
    <2>. QED
      BY <2>1, <2>2, <2>3, <2>4, LimitsAreNumbers DEF TypeOK
  <1>2. \A r \in Requests : Coherent(r)
    BY DEF Init, Coherent, CoherentApi, CoherentNative
  <1>3. Admitted = {} /\ ApiHolders = {} /\ PermitHolders = {} /\ Operations = {}
    BY DEF Init, Admitted, ApiHolders, PermitHolders, Operations, Waiting, NativeStages
  <1>4. HoldersCounted
    BY <1>3, FS_EmptySet, LimitsAreNumbers DEF Init, HoldersCounted
  <1>. QED
    BY <1>1, <1>2, <1>3, <1>4 DEF IInv, Init, Ordered

LEMMA NextIInv == IInv /\ [Next]_vars => IInv'
  <1>. SUFFICES ASSUME IInv, [Next]_vars PROVE IInv'
    OBVIOUS
  <1>1. CASE UNCHANGED vars
    BY <1>1 DEF vars, IInv, TypeOK, Coherent, CoherentApi, CoherentNative, Cancelled,
           HoldersCounted, Admitted, ApiHolders, PermitHolders, Operations, Ordered
  <1>2. CASE Next
    BY <1>2, RequestSteps, EffectPreserves, ShutdownPreserves DEF Next
  <1>. QED
    BY <1>1, <1>2

(* The inductive invariant holds in every reachable state, whatever the    *)
(* requests and the limits.                                                *)
THEOREM Invariance == Spec => []IInv
  BY InitIInv, NextIInv, PTL DEF Spec

(* Every variable keeps its type: no counter of admissions, permits or     *)
(* operations goes below zero.                                             *)
THEOREM TypeCorrect == Spec => []TypeOK
  <1>1. IInv => TypeOK
    BY DEF IInv
  <1>. QED
    BY <1>1, Invariance, PTL

(* The counters of http.ts, index.ts and application.rs are the numbers of *)
(* requests that hold what they count, and stay within their limits.       *)
THEOREM HoldersAreCounted == Spec => []HoldersCounted
  <1>1. IInv => HoldersCounted
    BY DEF IInv
  <1>. QED
    BY <1>1, Invariance, PTL

(* An API handler keeps its admission and its permit until its promise     *)
(* settles, and nothing else keeps an admission.                           *)
THEOREM CapacityKept == Spec => []CapacityFollowsHandlers
  <1>1. IInv => CapacityFollowsHandlers
    <2>. SUFFICES ASSUME IInv, NEW r \in Api
                  PROVE  /\ js[r] = "running" => apiHeld[r] /\ owner[r] = "task"
                         /\ apiHeld[r] => \/ stage[r] \in {"body", "handler", "sending"}
                                          \/ js[r] \in {"running", "cancelling", "used"}
      BY DEF CapacityFollowsHandlers
    <2>1. CoherentApi(r) /\ TypeOK
      BY DEF IInv, Requests, Coherent
    <2>. QED
      BY <2>1 DEF CoherentApi
  <1>. QED
    BY <1>1, Invariance, PTL

(* A callback runs without a permit only after its operation was cancelled *)
(* and has gone.                                                           *)
THEOREM PermitsLostByCancel == Spec => []PermitLostOnlyByCancel
  <1>1. IInv => PermitLostOnlyByCancel
    <2>. SUFFICES ASSUME IInv, NEW r \in Documents \cup Actions,
                         js[r] = "running", owner[r] = "none"
                  PROVE  Cancelled(r) /\ stage[r] \in {"cancelBody", "done"}
      BY DEF PermitLostOnlyByCancel
    <2>1. r \in Requests /\ r \notin Api
      BY KindsApart DEF Requests
    <2>2. CoherentNative(r) /\ stage[r] \in Stages
      BY <2>1 DEF IInv, Coherent, TypeOK
    <2>. QED
      BY <2>2 DEF CoherentNative, Stages, NativeStages
  <1>. QED
    BY <1>1, Invariance, PTL

(* Once close() has resolved, no native operation is under way.            *)
THEOREM QuietWhenClosed == Spec => []ClosedIsQuiet
  <1>1. IInv => ClosedIsQuiet
    <2>. SUFFICES ASSUME IInv, closed
                  PROVE  Operations = {} /\ \A r \in Requests : owner[r] # "request"
      BY DEF ClosedIsQuiet
    <2>1. Operations = {}
      BY DEF IInv, Ordered
    <2>2. ASSUME NEW r \in Requests, owner[r] = "request" PROVE FALSE
      BY <2>1, <2>2 DEF IInv, Coherent, CoherentApi, CoherentNative, Operations, NativeStages
    <2>. QED
      BY <2>1, <2>2
  <1>. QED
    BY <1>1, Invariance, PTL
-----------------------------------------------------------------------------
(* The bytes of API bodies.                                                *)

(* A step of one request moves what it has reserved, and the sum with it:  *)
(* up only below the limit, and only while it holds its admission.         *)
BytesMove(r) ==
    \E n \in Nat :
        /\ bytes' = [bytes EXCEPT ![r] = n]
        /\ reservedBytes' = reservedBytes + n - bytes[r]
        /\ n > bytes[r] => reservedBytes' <= MaxBytes
        /\ n > 0 => apiHeld'[r]

\* What the counting of bytes says, in this state and in the next.
Reserved ==
    /\ reservedBytes = Total(bytes)
    /\ reservedBytes <= MaxBytes
    /\ \A r \in Requests : bytes[r] > 0 => apiHeld[r]

LEMMA ReservedBytes == (BytesCounted <=> Reserved) /\ (BytesCounted' <=> Reserved')
  BY Zenon DEF BytesCounted, Reserved, Total

\* Such a step keeps the sum and its limit.
LEMMA BytesMovePreserves ==
  ASSUME IInv, Reserved, NEW r \in Requests, Alone(r), BytesMove(r)
  PROVE  Reserved'
  <1>1. /\ bytes \in [Requests -> Nat] /\ reservedBytes \in Int
        /\ reservedBytes <= MaxBytes /\ MaxBytes \in Int
    BY LimitsAreNumbers DEF IInv, TypeOK, Reserved
  <1>2. PICK n \in Nat :
            /\ bytes' = [bytes EXCEPT ![r] = n]
            /\ reservedBytes' = reservedBytes + n - bytes[r]
            /\ n > bytes[r] => reservedBytes' <= MaxBytes
            /\ n > 0 => apiHeld'[r]
    BY DEF BytesMove
  <1>3. reservedBytes' = Total(bytes')
    <2>1. PICK e : e = [bytes EXCEPT ![r] = n]
      OBVIOUS
    <2>2. bytes \in [Requests -> Int] /\ n \in Int
      BY <1>1
    <2>3. Total(e) = Total(bytes) + n - bytes[r]
      BY <2>1, <2>2, RequestsFinite, TotalMoves
    <2>4. reservedBytes = Total(bytes)
      BY DEF Reserved
    <2>5. bytes' = e
      BY <1>2, <2>1
    <2>. QED
      BY <1>2, <2>3, <2>4, <2>5
  <1>4. reservedBytes' <= MaxBytes
    <2>1. bytes[r] \in Nat
      BY <1>1
    <2>. QED
      BY <1>1, <1>2, <2>1
  <1>5. ASSUME NEW q \in Requests, bytes'[q] > 0
        PROVE  apiHeld'[q]
    <2>1. CASE q = r
      BY <1>1, <1>2, <1>5, <2>1
    <2>2. CASE q # r
      <3>1. bytes'[q] = bytes[q] /\ apiHeld'[q] = apiHeld[q]
        BY <1>1, <1>2, <2>2 DEF Alone
      <3>. QED
        BY <1>5, <3>1 DEF Reserved
    <2>. QED
      BY <2>1, <2>2
  <1>. QED
    BY <1>3, <1>4, <1>5 DEF Reserved

\* The steps that leave the reservations alone, release them, or add to them.
LEMMA BytesStay ==
  ASSUME IInv, Reserved, NEW r \in Requests, UNCHANGED apiVars
  PROVE  BytesMove(r)
  <1>1. bytes \in [Requests -> Nat] /\ reservedBytes \in Int
    BY DEF IInv, TypeOK
  <1>2. PICK n \in Nat : n = bytes[r]
    BY <1>1
  <1>3. bytes' = [bytes EXCEPT ![r] = n]
    BY <1>1, <1>2
  <1>4. reservedBytes' = reservedBytes + n - bytes[r]
    BY <1>1, <1>2
  <1>5. n > 0 => apiHeld'[r]
    BY <1>2 DEF Reserved
  <1>6. ~ (n > bytes[r])
    BY <1>2
  <1>. QED
    BY <1>3, <1>4, <1>5, <1>6 DEF BytesMove

LEMMA BytesReleased ==
  ASSUME IInv, NEW r \in Requests, ReleaseApi(r)
  PROVE  BytesMove(r)
  <1>1. bytes \in [Requests -> Nat] /\ reservedBytes \in Int
    BY DEF IInv, TypeOK
  <1>2. bytes[r] \in Nat
    BY <1>1
  <1>3. PICK n \in Nat : n = 0
    OBVIOUS
  <1>4. /\ bytes' = [bytes EXCEPT ![r] = n]
        /\ reservedBytes' = reservedBytes + n - bytes[r]
        /\ ~ (n > bytes[r]) /\ ~ (n > 0)
    BY <1>1, <1>2, <1>3 DEF ReleaseApi
  <1>. QED
    BY <1>4 DEF BytesMove

LEMMA BytesStart ==
  ASSUME IInv, Reserved, NEW r \in Requests,
         NEW declared \in 0..BodyLimit + 1, StartApi(r, declared)
  PROVE  BytesMove(r)
  <1>1. /\ bytes \in [Requests -> Nat] /\ reservedBytes \in Int
        /\ apiHeld \in [Requests -> BOOLEAN]
        /\ declared \in Nat
    BY LimitsAreNumbers DEF IInv, TypeOK
  <1>2. bytes[r] = 0
    <2>1. CoherentApi(r) /\ stage[r] = "idle"
      BY DEF IInv, Coherent, StartApi
    <2>2. ~apiHeld[r]
      BY <2>1 DEF CoherentApi
    <2>. QED
      BY <1>1, <2>2 DEF Reserved
  <1>3. /\ bytes' = [bytes EXCEPT ![r] = declared]
        /\ reservedBytes' = reservedBytes + declared
        /\ reservedBytes + declared <= MaxBytes
        /\ apiHeld'[r]
    BY <1>1 DEF StartApi
  <1>4. reservedBytes' = reservedBytes + declared - bytes[r]
    BY <1>1, <1>2, <1>3
  <1>. QED
    BY <1>1, <1>3, <1>4 DEF BytesMove

LEMMA BytesRead ==
  ASSUME IInv, NEW r \in Requests, ReadChunk(r)
  PROVE  BytesMove(r)
  <1>1. /\ bytes \in [Requests -> Nat] /\ reservedBytes \in Int
        /\ MaxBytes \in Int
    BY LimitsAreNumbers DEF IInv, TypeOK
  <1>2. PICK n \in Nat : n = bytes[r] + 1
    BY <1>1
  <1>3. apiHeld'[r]
    BY DEF ReadChunk, IInv, Coherent, CoherentApi, CoherentNative
  <1>4. /\ bytes' = [bytes EXCEPT ![r] = n]
        /\ reservedBytes' = reservedBytes + 1 /\ reservedBytes < MaxBytes
    BY <1>1, <1>2 DEF ReadChunk
  <1>5. reservedBytes' = reservedBytes + n - bytes[r] /\ reservedBytes' <= MaxBytes
    <2>1. bytes[r] \in Nat
      BY <1>1
    <2>. QED
      BY <1>1, <1>2, <1>4, <2>1
  <1>. QED
    BY <1>3, <1>4, <1>5 DEF BytesMove

LEMMA RequestBytes ==
  ASSUME IInv, Reserved, NEW r \in Requests,
         Arrive(r) \/ Handle(r) \/ Disconnect(r) \/ React(r) \/ Operate(r)
  PROVE  BytesMove(r)
  <1>1. CASE Arrive(r)
    <2>1. CASE Refuse(r) \/ StartNative(r)
      BY <2>1, BytesStay DEF Refuse, StartNative
    <2>2. CASE \E declared \in 0..BodyLimit + 1 : TurnAway(r, declared)
      BY <2>2, BytesStay DEF TurnAway
    <2>3. CASE \E declared \in 0..BodyLimit + 1 : StartApi(r, declared)
      BY <2>3, BytesStart
    <2>. QED
      BY <1>1, <2>1, <2>2, <2>3 DEF Arrive
  <1>2. CASE Handle(r)
    <2>1. CASE CallHandler(r) \/ HandlerStreams(r) \/ HandlerReturnsUsed(r)
      BY <2>1, BytesStay DEF CallHandler, HandlerStreams, HandlerReturnsUsed, KeepApi
    <2>2. CASE BodyFails(r) \/ HandlerAnswers(r) \/ DetachedSettles(r) \/ CancelSettles(r)
      BY <2>2, BytesReleased DEF BodyFails, HandlerAnswers, DetachedSettles, CancelSettles
    <2>3. CASE SendEnds(r)
      BY <2>3, BytesStay, BytesReleased DEF SendEnds, KeepApi
    <2>4. CASE ReadChunk(r)
      BY <2>4, BytesRead
    <2>. QED
      BY <1>2, <2>1, <2>2, <2>3, <2>4 DEF Handle
  <1>3. CASE React(r)
    BY <1>3, BytesStay, BytesReleased
       DEF React, AbortBody, AbortHandler, AbortSending, KeepApi
  <1>4. CASE Disconnect(r)
    BY <1>4, BytesStay DEF Disconnect
  <1>5. CASE Operate(r)
    BY <1>5, BytesStay
       DEF Operate, EnterNative, QueueCallback, RunCallback, CallbackThrows, AwaitPromise,
           PromiseSettles, NativeEnds, NativeCancelled, BodyCancelled
  <1>. QED
    BY <1>1, <1>2, <1>3, <1>4, <1>5

LEMMA InitBytes == Init => Reserved
  <1>. SUFFICES ASSUME Init PROVE Reserved
    OBVIOUS
  <1>1. DOMAIN bytes = Requests /\ \A r \in Requests : bytes[r] = 0
    BY DEF Init
  <1>2. Total(bytes) = 0
    BY <1>1, RequestsFinite, TotalOfNone
  <1>3. reservedBytes = 0 /\ 0 <= MaxBytes
    BY LimitsAreNumbers DEF Init
  <1>. QED
    BY <1>1, <1>2, <1>3 DEF Reserved

LEMMA NextBytes == IInv /\ Reserved /\ [Next]_vars => Reserved'
  <1>. SUFFICES ASSUME IInv, Reserved, [Next]_vars PROVE Reserved'
    OBVIOUS
  <1>1. UNCHANGED apiVars => Reserved'
    BY DEF Reserved
  <1>2. CASE UNCHANGED vars
    BY <1>1, <1>2 DEF vars
  <1>3. CASE Shutdown
    BY <1>1, <1>3 DEF Shutdown, Signal, Drained, GraceExpires, Forced, BeginClose, CheckActive,
           AwaitNotified, WakeCloser
  <1>4. ASSUME NEW r \in Requests,
               Arrive(r) \/ Handle(r) \/ Disconnect(r) \/ React(r) \/ Operate(r)
        PROVE  Reserved'
    <2>1. Alone(r)
      BY <1>4, RequestSteps DEF Effect
    <2>2. BytesMove(r)
      BY <1>4, RequestBytes
    <2>. QED
      BY <2>1, <2>2, BytesMovePreserves
  <1>. QED
    BY <1>2, <1>3, <1>4 DEF Next

(* The reserved bytes are the sum of what the requests have reserved, stay *)
(* within the limit, and belong to requests that hold an API admission;    *)
(* with the counters above, everything the host counts is held by somebody *)
(* and given back once (http.ts:85-99, index.ts:224-229, 286-297).         *)
THEOREM CountersAreRight == Spec => []CountersCount
  <1>1. IInv /\ BytesCounted => CountersCount
    BY DEF IInv, CountersCount
  <1>2. Spec => [](IInv /\ BytesCounted)
    BY InitIInv, NextIInv, InitBytes, NextBytes, ReservedBytes, PTL DEF Spec
  <1>. QED
    BY <1>1, <1>2, PTL
=============================================================================
