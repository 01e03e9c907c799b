--------------------------- MODULE AdoptionProofs ---------------------------
(***************************************************************************)
(* Proofs about Adoption: that the page a browser has is of its address,   *)
(* that an adopted page is the page that was served and is refused for one *)
(* reason only, and that a mounted page holds nothing of an adoption, for  *)
(* any builds, paths, redirects, deployments and failed fetches, and for   *)
(* any matcher that descends the tree of routes.                           *)
(*                                                                         *)
(* The server and the browser each go along the chain of the matcher.  The *)
(* invariant says which executions a served page was rendered from (Page)  *)
(* and what the browser has fetched when it adopts (Gathered).  From both, *)
(* the snapshot of a page of the browser's own build agrees with the chain *)
(* the browser derives (ServedAgrees), and each of its routes claims the   *)
(* graph that was rendered (ClaimsAreRendered).                            *)
(***************************************************************************)
EXTENDS Adoption, WellFoundedInduction, SequenceTheorems, TLAPS

(***************************************************************************)
(* The invariant                                                           *)
(***************************************************************************)

ChainOf(build, at) == Chains[site[build].routes][at]

\* The outcomes of a loader after which the chain goes on.
Passed(route) == IF route.loader THEN {"resolved", "rejected"} ELSE {"none"}

Executed(chain) ==
    [match : { chain[i] : i \in DOMAIN chain },
     loader : {"none", "resolved", "rejected", "notFound"}, notFound : BOOLEAN]

\* The beginning of a chain, each of its routes passed.
Running(chain, executions) ==
    /\ executions \in Seq(Executed(chain))
    /\ Len(executions) <= Len(chain)
    /\ \A i \in 1..Len(executions) :
           /\ executions[i].match = chain[i]
           /\ executions[i].loader \in Passed(chain[i].route)
           /\ executions[i].notFound = FALSE

\* One route of a page of n routes: only the last is a boundary's, and the last is
\* one unless the chain ends there.
RouteServed(chain, n, i, execution) ==
    /\ execution.match = chain[i]
    /\ \/ execution.loader \in Passed(chain[i].route)
       \/ execution.notFound /\ execution.loader = "notFound" /\ chain[i].route.loader
    /\ execution.notFound => i = n /\ chain[i].route.boundary
    /\ i = n /\ n < Len(chain) => execution.notFound

\* The executions a page is rendered from; none for the root's boundary.
Complete(chain, executions) ==
    /\ executions \in Seq(Executed(chain))
    /\ Len(executions) <= Len(chain)
    /\ \A i \in 1..Len(executions) : RouteServed(chain, Len(executions), i, executions[i])

Page(build, at, executions) ==
    LET root == RootGraph(executions = <<>>)
    IN  /\ Complete(ChainOf(build, at), executions)
        /\ executions = <<>> => site[build].rootBoundary
        /\ OutletsThere(executions, root)
        /\ response.rendered = Rendered(executions, root)
        /\ response.snapshot = Snapshot(build, at, executions, root, TRUE)

HasPage == response.kind = "document" /\ response.snapshot # <<>>

\* A request under way; an answer with a page is of the browser's address.
ServerInv ==
    /\ site \in Sites /\ serving \in DOMAIN site
    /\ Serving =>
          /\ stage = "requested" /\ response = NoAnswer
          /\ request \in [at : Locations, build : DOMAIN site, hops : Nat,
                          chain : {ChainOf(request.build, request.at)},
                          executions : {request.executions}]
          /\ Running(request.chain, request.executions)
          /\ request.hops = 0 => request.at = window
    /\ response.kind = "redirect" => response.to \in Locations
    /\ HasPage => \E build \in DOMAIN site : \E executions : Page(build, window, executions)
    /\ HasPage => window \in Locations

\* Before it adopts or mounts, the runtime is empty.
Early == {"idle", "requested", "manifest", "root", "graphs"}
Late == {"mounting", "mounted", "incomplete", "adopted"}

Shaped(r) ==
    r = [registered |-> r.registered, located |-> r.located, seeded |-> r.seeded,
         imported |-> r.imported, instances |-> r.instances]

Untouched(r) == r.seeded = FALSE /\ r.imported = FALSE /\ r.instances = <<>>

OwnOnly(r) ==
    /\ r.seeded = FALSE /\ r.imported = FALSE
    /\ \A i \in DOMAIN r.instances : r.instances[i].origin = "mounted"

\* What the chain of the snapshot needs is fetched or still to be fetched.
Gathered ==
    /\ RevisionAgrees(Resumed) /\ ChainIsWellFormed(Resumed)
    /\ RootGraph(FALSE) \in runtime.registered
    /\ needed \in Seq(Range(ChainGraphs(Resumed)))
    /\ \A graph \in Range(ChainGraphs(Resumed)) :
           graph \in runtime.registered \/ \E k \in 1..Len(needed) : needed[k] = graph

BrowserInv ==
    /\ stage \in Early \cup Late \cup {"bare", "dead"}
    /\ Shaped(runtime)
    /\ stage \in (Early \ {"idle", "requested"}) \cup Late => response.kind = "document"
    /\ stage \in {"root", "graphs"} \cup Late => manifest \in DOMAIN site
    /\ stage \in Early => Untouched(runtime) /\ outcome = "none"
    /\ stage = "idle" => response = NoAnswer
    /\ stage = "root" => needed = <<RootGraph(FALSE)>>
    /\ stage = "graphs" => HasPage /\ Gathered
    /\ stage \in {"mounting", "mounted"} => OwnOnly(runtime)
    /\ outcome = "refused" => stage \in Late

IInv ==
    /\ ServerInv
    /\ BrowserInv
    /\ AdoptedAsServed

(***************************************************************************)
(* Numbers and sequences                                                   *)
(***************************************************************************)

\* The order on the numbers as a set of pairs, which WFMin takes.
Less == { pair \in Nat \X Nat : pair[1] < pair[2] }

\* Min picks the least of any set of numbers: the route that refuses its claim.
LEMMA LeastNumber ==
  ASSUME NEW S \in SUBSET Nat, S # {}
  PROVE  Min(S) \in S /\ \A n \in S : Min(S) <= n
  <1>1. IsWellFoundedOn(Less, Nat)
    <2>1. OpToRel(<, Nat) = Less
      BY Zenon DEF OpToRel, Less
    <2>. QED
      BY <2>1, NatLessThanWellFounded
  <1>2. PICK m \in S : \A n \in S : ~ (<<n, m>> \in Less)
    BY <1>1, WFMin
  <1>3. \A n \in S : m <= n
    <2>. SUFFICES ASSUME NEW n \in S PROVE m <= n
      OBVIOUS
    <2>1. <<n, m>> \in Nat \X Nat /\ ~ (n < m)
      BY <1>2 DEF Less
    <2>. QED
      BY <2>1
  <1>. QED
    BY <1>3 DEF Min

\* Max picks the greatest of a bounded set: the deepest boundary of a chain.
LEMMA GreatestNumber ==
  ASSUME NEW b \in Nat, NEW S \in SUBSET (1..b), S # {}
  PROVE  Max(S) \in S /\ \A n \in S : n <= Max(S)
  <1>. DEFINE Below == { b - n : n \in S }
  <1>1. \A n \in S : n \in Nat /\ b - n \in Nat
    OBVIOUS
  <1>2. Below \in SUBSET Nat /\ Below # {}
    BY <1>1
  <1>3. Min(Below) \in Below /\ \A n \in Below : Min(Below) <= n
    BY <1>2, LeastNumber
  <1>4. PICK m \in S : Min(Below) = b - m
    BY <1>3
  <1>5. ASSUME NEW n \in S
        PROVE  m >= n
    <2>1. b - n \in Below
      OBVIOUS
    <2>2. b - m <= b - n
      BY <1>3, <1>4, <2>1
    <2>. QED
      BY <1>1, <2>2
  <1>. QED
    BY <1>1, <1>5 DEF Max

\* One element and then the values of a function: the root and the routes.
LEMMA PutFirst ==
  ASSUME NEW a, NEW n \in Nat, NEW s, DOMAIN s = 1..n, s = [i \in 1..n |-> s[i]]
  PROVE  /\ Len(<<a>> \o s) = n + 1 /\ DOMAIN (<<a>> \o s) = 1..(n + 1)
         /\ (<<a>> \o s)[1] = a
         /\ \A i \in 1..n : (<<a>> \o s)[i + 1] = s[i]
  <1>. DEFINE S == {a} \cup { s[i] : i \in 1..n }
  <1>1. <<a>> \in Seq(S) /\ Len(<<a>>) = 1 /\ <<a>>[1] = a
    OBVIOUS
  <1>2. s \in Seq(S) /\ Len(s) = n
    <2>1. s \in [1..n -> S]
      OBVIOUS
    <2>. QED
      BY <2>1, SeqDef
  <1>. HIDE DEF S
  <1>. QED
    BY <1>1, <1>2, ConcatProperties, LenProperties

\* The first n elements of a sequence.
LEMMA BeginningIs ==
  ASSUME NEW S, NEW s \in Seq(S), NEW n \in 0..Len(s)
  PROVE  /\ SubSeq(s, 1, n) \in Seq(S) /\ Len(SubSeq(s, 1, n)) = n
         /\ \A i \in 1..n : SubSeq(s, 1, n)[i] = s[i]
  <1>1. Len(s) \in Nat /\ \A i \in 1..n : s[i] \in S
    BY LenProperties, ElementOfSeq
  <1>2. /\ SubSeq(s, 1, n) \in Seq(S)
        /\ Len(SubSeq(s, 1, n)) = IF 1 <= n THEN n - 1 + 1 ELSE 0
        /\ \A i \in 1..(n - 1 + 1) : SubSeq(s, 1, n)[i] = s[1 + i - 1]
    BY <1>1, SubSeqProperties
  <1>3. \A i \in 1..n : SubSeq(s, 1, n)[i] = s[i]
    BY <1>1, <1>2
  <1>. QED
    BY <1>1, <1>2, <1>3

LEMMA ConcatHasBoth ==
  ASSUME NEW S, NEW a \in Seq(S), NEW b \in Seq(S)
  PROVE  a \o b \in Seq(S) /\ Range(a) \subseteq Range(a \o b) /\ Range(b) \subseteq Range(a \o b)
  <1>1. /\ a \o b \in Seq(S) /\ Len(a \o b) = Len(a) + Len(b)
        /\ \A i \in 1..(Len(a) + Len(b)) :
               (a \o b)[i] = IF i <= Len(a) THEN a[i] ELSE b[i - Len(a)]
    BY ConcatProperties
  <1>2. /\ Len(a) \in Nat /\ DOMAIN a = 1..Len(a) /\ Len(b) \in Nat /\ DOMAIN b = 1..Len(b)
        /\ DOMAIN (a \o b) = 1..(Len(a) + Len(b))
    BY <1>1, LenProperties
  <1>3. Range(a) \subseteq Range(a \o b)
    BY <1>1, <1>2 DEF Range
  <1>4. \A k \in 1..Len(b) : Len(a) + k \in 1..(Len(a) + Len(b)) /\ (a \o b)[Len(a) + k] = b[k]
    BY <1>1, <1>2
  <1>5. Range(b) \subseteq Range(a \o b)
    BY <1>2, <1>4 DEF Range
  <1>. QED
    BY <1>1, <1>3, <1>5

(***************************************************************************)
(* FlattenSeq                                                              *)
(***************************************************************************)

\* The function FlattenSeq defines, on the first n of its sequences.
Flattens(f, n, s) == f = [i \in 1..n |-> IF i = 1 THEN s[i] ELSE f[i - 1] \o s[i]]

LEMMA FlattensFurther ==
  ASSUME NEW s, NEW n \in Nat, NEW f, Flattens(f, n, s)
  PROVE  \E g : Flattens(g, n + 1, s)
  <1>1. \A i \in 1..n : f[i] = IF i = 1 THEN s[i] ELSE f[i - 1] \o s[i]
    BY DEF Flattens
  <1>2. PICK last : last = IF n = 0 THEN s[1] ELSE f[n] \o s[n + 1]
    OBVIOUS
  <1>3. PICK g : g = [i \in 1..(n + 1) |-> IF i = n + 1 THEN last ELSE f[i]]
    OBVIOUS
  <1>4. \A i \in 1..(n + 1) : g[i] = IF i = 1 THEN s[i] ELSE g[i - 1] \o s[i]
    <2>. SUFFICES ASSUME NEW i \in 1..(n + 1)
                  PROVE  g[i] = IF i = 1 THEN s[i] ELSE g[i - 1] \o s[i]
      OBVIOUS
    <2>1. CASE i = n + 1
      BY <1>2, <1>3, <2>1
    <2>2. CASE i # n + 1
      <3>1. i \in 1..n /\ g[i] = f[i]
        BY <1>3, <2>2
      <3>2. i # 1 => i - 1 \in 1..(n + 1) /\ i - 1 # n + 1 /\ g[i - 1] = f[i - 1]
        BY <1>3, <3>1
      <3>. QED
        BY <1>1, <3>1, <3>2
    <2>. QED
      BY <2>1, <2>2
  <1>5. g = [i \in 1..(n + 1) |-> IF i = 1 THEN s[i] ELSE g[i - 1] \o s[i]]
    BY ONLY <1>3, <1>4
  <1>. QED
    BY <1>5 DEF Flattens

\* There is no least number of sequences that it is not defined on.
LEMMA FlattenExists ==
  ASSUME NEW s, NEW n \in Nat
  PROVE  \E f : Flattens(f, n, s)
  <1>1. PICK Bad \in SUBSET Nat : Bad = { k \in Nat : ~ \E f : Flattens(f, k, s) }
    OBVIOUS
  <1>2. 0 \notin Bad
    <2>1. PICK f : f = [i \in 1..0 |-> 0]
      OBVIOUS
    <2>2. Flattens(f, 0, s)
      BY <2>1 DEF Flattens
    <2>. QED
      BY <1>1, <2>2
  <1>3. Bad = {}
    <2>. SUFFICES ASSUME Bad # {} PROVE FALSE
      OBVIOUS
    <2>1. PICK m \in Bad : \A k \in Bad : m <= k
      BY LeastNumber
    <2>2. m \in Nat /\ m - 1 \in Nat /\ m - 1 \notin Bad
      BY <1>2, <2>1
    <2>3. \E f : Flattens(f, m - 1, s)
      BY <1>1, <2>2
    <2>4. \E f : Flattens(f, m - 1 + 1, s)
      BY <2>2, <2>3, FlattensFurther
    <2>5. m - 1 + 1 = m
      BY <2>2
    <2>. QED
      BY <1>1, <2>1, <2>4, <2>5
  <1>. QED
    BY <1>1, <1>3

\* The sequences that are flattened are in the result: no number is the least for
\* which they are not.
LEMMA FlattenHasParts ==
  ASSUME NEW S, NEW s, Len(s) \in Nat \ {0}, \A i \in 1..Len(s) : s[i] \in Seq(S)
  PROVE  /\ FlattenSeq(s) \in Seq(S)
         /\ \A i \in 1..Len(s) : Range(s[i]) \subseteq Range(FlattenSeq(s))
  <1>1. PICK f : /\ Flattens(f, Len(s), s)
                 /\ FlattenSeq(s) = f[Len(s)]
    <2>1. PICK n \in Nat \ {0} : n = Len(s)
      OBVIOUS
    <2>2. \E f : f = [i \in 1..n |-> IF i = 1 THEN s[i] ELSE f[i - 1] \o s[i]]
      BY <2>1, FlattenExists DEF Flattens
    <2>3. PICK f : f = CHOOSE g : g = [i \in 1..n |-> IF i = 1 THEN s[i] ELSE g[i - 1] \o s[i]]
      OBVIOUS
    <2>4. f = [i \in 1..n |-> IF i = 1 THEN s[i] ELSE f[i - 1] \o s[i]]
      BY <2>2, <2>3
    <2>5. FlattenSeq(s) = f[n]
      BY <2>1, <2>3 DEF FlattenSeq
    <2>. QED
      BY <2>1, <2>4, <2>5 DEF Flattens
  <1>. DEFINE Good(k) == f[k] \in Seq(S) /\ \A i \in 1..k : Range(s[i]) \subseteq Range(f[k])
  <1>2. PICK Bad \in SUBSET Nat : Bad = { k \in 1..Len(s) : ~ Good(k) }
    <2>1. { k \in 1..Len(s) : ~ Good(k) } \in SUBSET Nat
      OBVIOUS
    <2>. QED
      BY <2>1
  <1>3. \A k \in 1..Len(s) : f[k] = IF k = 1 THEN s[k] ELSE f[k - 1] \o s[k]
    BY <1>1 DEF Flattens
  <1>4. Bad = {}
    <2>. SUFFICES ASSUME Bad # {} PROVE FALSE
      OBVIOUS
    <2>1. PICK m \in Bad : \A k \in Bad : m <= k
      BY LeastNumber
    <2>2. m \in 1..Len(s) /\ ~ Good(m)
      BY <1>2, <2>1
    <2>3. m # 1
      <3>. SUFFICES ASSUME m = 1 PROVE FALSE
        OBVIOUS
      <3>1. f[m] = s[1]
        BY <1>3, <2>2
      <3>. QED
        BY <2>2, <3>1
    <2>4. Good(m - 1)
      <3>1. m - 1 \in 1..Len(s) /\ m - 1 \notin Bad
        BY <2>1, <2>2, <2>3
      <3>. QED
        BY <1>2, <3>1
    <2>5. f[m] = f[m - 1] \o s[m]
      BY <1>3, <2>2, <2>3
    <2>6. PICK a \in Seq(S), b \in Seq(S) : a = f[m - 1] /\ b = s[m]
      BY <2>2, <2>4
    <2>7. a \o b \in Seq(S) /\ Range(a) \subseteq Range(a \o b) /\ Range(b) \subseteq Range(a \o b)
      BY ConcatHasBoth
    <2>8. f[m] \in Seq(S) /\ f[m] = a \o b
      BY <2>5, <2>6, <2>7
    <2>9. \A i \in 1..m : Range(s[i]) \subseteq Range(f[m])
      <3>. SUFFICES ASSUME NEW i \in 1..m PROVE Range(s[i]) \subseteq Range(f[m])
        OBVIOUS
      <3>1. CASE i = m
        BY <2>6, <2>7, <2>8, <3>1
      <3>2. CASE i # m
        <4>1. i \in 1..(m - 1)
          BY <2>2, <3>2
        <4>. QED
          BY <2>4, <2>6, <2>7, <2>8, <4>1
      <3>. QED
        BY <3>1, <3>2
    <2>. QED
      BY <2>2, <2>8, <2>9
  <1>5. Good(Len(s))
    <2>1. Len(s) \in 1..Len(s) /\ Len(s) \notin Bad
      BY <1>4
    <2>. QED
      BY <1>2, <2>1
  <1>. QED
    BY <1>1, <1>5

(***************************************************************************)
(* The chain                                                               *)
(***************************************************************************)

\* A route has an id of its own in a manifest.
Distinct(routes) ==
    \A i, j \in DOMAIN routes : routes[i].id = routes[j].id => i = j

\* What the matcher promises of a chain.
Descends(routes, chain) ==
    /\ Len(chain) \in Nat /\ DOMAIN chain = 1..Len(chain)
    /\ \A i \in DOMAIN chain : \E j \in DOMAIN routes : routes[j] = chain[i].route
    /\ \A i \in DOMAIN chain : i > 1 => chain[i].route.parent = chain[i - 1].route.id
    /\ \A i, j \in DOMAIN chain : chain[j].route.id = chain[i].route.id => j = i

LEMMA ChainFacts ==
  ASSUME site \in Sites, NEW build \in DOMAIN site, NEW at \in Locations
  PROVE  Descends(site[build].routes, ChainOf(build, at)) /\ Distinct(site[build].routes)
  <1>1. Distinct(site[build].routes)
    BY RoutesHaveIds DEF Distinct
  <1>2. PICK chain : chain = ChainOf(build, at)
    OBVIOUS
  <1>3. PICK routes : routes = site[build].routes
    OBVIOUS
  <1>4. /\ Len(chain) \in Nat /\ DOMAIN chain = 1..Len(chain)
        /\ \A i \in DOMAIN chain :
               /\ \E j \in DOMAIN routes : routes[j] = chain[i].route
               /\ i > 1 => chain[i].route.parent = chain[i - 1].route.id
               /\ \A j \in DOMAIN chain : chain[j].route.id = chain[i].route.id => j = i
    BY <1>2, <1>3, ChainsDescend DEF ChainOf
  <1>5. Descends(routes, chain)
    BY <1>4 DEF Descends
  <1>. QED
    BY <1>1, <1>2, <1>3, <1>5

(***************************************************************************)
(* The server                                                              *)
(***************************************************************************)

\* The loader of the next route ends and the chain goes on.
LEMMA AppendRuns ==
  ASSUME NEW chain, Len(chain) \in Nat, DOMAIN chain = 1..Len(chain),
         NEW executions, Running(chain, executions), Len(executions) < Len(chain),
         NEW state \in Passed(chain[Len(executions) + 1].route)
  PROVE  Running(chain, Append(executions, Execution(chain[Len(executions) + 1], state)))
  <1>1. PICK n \in Nat : n = Len(executions)
    BY DEF Running
  <1>2. PICK e : e = Execution(chain[n + 1], state)
    OBVIOUS
  <1>3. e.match = chain[n + 1] /\ e.loader = state /\ e.notFound = FALSE
    BY <1>2 DEF Execution
  <1>4. e \in Executed(chain)
    <2>1. state \in {"none", "resolved", "rejected"} /\ chain[n + 1] \in { chain[i] : i \in DOMAIN chain }
      BY <1>1 DEF Passed
    <2>. QED
      BY <1>2, <2>1 DEF Executed, Execution
  <1>5. PICK a : a = Append(executions, e)
    OBVIOUS
  <1>6. /\ a \in Seq(Executed(chain)) /\ Len(a) = n + 1
        /\ \A i \in 1..n : a[i] = executions[i]
        /\ a[n + 1] = e
    BY <1>1, <1>4, <1>5, AppendProperties DEF Running
  <1>7. \A i \in 1..n : /\ executions[i].match = chain[i]
                        /\ executions[i].loader \in Passed(chain[i].route)
                        /\ executions[i].notFound = FALSE
    BY <1>1 DEF Running
  <1>8. ASSUME NEW i \in 1..(n + 1)
        PROVE  /\ a[i].match = chain[i]
               /\ a[i].loader \in Passed(chain[i].route)
               /\ a[i].notFound = FALSE
    <2>1. CASE i = n + 1
      BY <1>1, <1>3, <1>6, <2>1
    <2>2. CASE i # n + 1
      <3>1. i \in 1..n
        BY <2>2
      <3>. QED
        BY <1>6, <1>7, <3>1
    <2>. QED
      BY <2>1, <2>2
  <1>9. Running(chain, a)
    <2>1. n + 1 <= Len(chain)
      BY <1>1
    <2>. QED
      BY <1>6, <1>8, <2>1 DEF Running
  <1>. QED
    BY <1>1, <1>2, <1>5, <1>9

\* The chain is run to its end.
LEMMA RunIsComplete ==
  ASSUME NEW chain, NEW executions, Running(chain, executions), Len(executions) = Len(chain)
  PROVE  Complete(chain, executions)
  <1>1. \A i \in 1..Len(executions) : RouteServed(chain, Len(executions), i, executions[i])
    BY DEF Running, RouteServed
  <1>. QED
    BY <1>1 DEF Running, Complete

\* What resolve_not_found_boundary leaves of the executions.
Cut(run) ==
    [SubSeq(run, 1, Max(BoundaryOwners(run))) EXCEPT ![Max(BoundaryOwners(run))].notFound = TRUE]

\* A loader ends with a not-found: the chain is cut at the deepest boundary.
LEMMA CutIsComplete ==
  ASSUME NEW chain, Len(chain) \in Nat, DOMAIN chain = 1..Len(chain),
         NEW executions, Running(chain, executions), Len(executions) < Len(chain),
         chain[Len(executions) + 1].route.loader,
         NEW run, run = Append(executions, Execution(chain[Len(executions) + 1], "notFound")),
         BoundaryOwners(run) # {},
         NEW cut, cut = Cut(run)
  PROVE  Complete(chain, cut) /\ cut # <<>>
  <1>1. PICK n \in Nat : n = Len(executions)
    BY DEF Running
  <1>2. PICK e : e = Execution(chain[n + 1], "notFound")
    OBVIOUS
  <1>3. e.match = chain[n + 1] /\ e.loader = "notFound" /\ e.notFound = FALSE
    BY <1>2 DEF Execution
  <1>4. e \in Executed(chain)
    <2>1. chain[n + 1] \in { chain[i] : i \in DOMAIN chain }
      BY <1>1
    <2>. QED
      BY <1>2, <2>1 DEF Executed, Execution
  <1>5. /\ run \in Seq(Executed(chain)) /\ Len(run) = n + 1
        /\ \A i \in 1..n : run[i] = executions[i]
        /\ run[n + 1] = e
    BY <1>1, <1>2, <1>4, AppendProperties DEF Running
  <1>6. DOMAIN run = 1..(n + 1)
    BY <1>5, LenProperties
  <1>7. PICK k : k = Max(BoundaryOwners(run))
    OBVIOUS
  <1>8. k \in 1..(n + 1) /\ run[k].match.route.boundary
    <2>1. BoundaryOwners(run) \in SUBSET (1..(n + 1))
      BY <1>6 DEF BoundaryOwners
    <2>2. k \in BoundaryOwners(run)
      <3>1. PICK owners \in SUBSET (1..(n + 1)) : owners = BoundaryOwners(run)
        BY <2>1
      <3>2. n + 1 \in Nat /\ owners # {}
        BY <3>1
      <3>3. Max(owners) \in owners
        BY <3>1, <3>2, GreatestNumber
      <3>. QED
        BY <1>7, <3>1, <3>3
    <2>. QED
      BY <2>1, <2>2 DEF BoundaryOwners
  <1>9. PICK s : s = SubSeq(run, 1, k)
    OBVIOUS
  <1>10. s \in Seq(Executed(chain)) /\ Len(s) = k /\ \A i \in 1..k : s[i] = run[i]
    <2>1. k \in 0..Len(run)
      BY <1>5, <1>8
    <2>. QED
      BY <1>5, <1>9, <2>1, BeginningIs
  <1>11. PICK last : last = [run[k] EXCEPT !.notFound = TRUE]
    OBVIOUS
  <1>12. /\ last \in Executed(chain) /\ last.match = run[k].match
         /\ last.loader = run[k].loader /\ last.notFound = TRUE
    <2>1. run[k] \in Executed(chain)
      BY <1>5, <1>8, ElementOfSeq
    <2>. QED
      BY <1>11, <2>1 DEF Executed
  <1>13. cut = [s EXCEPT ![k] = last]
    <2>1. cut = [s EXCEPT ![k].notFound = TRUE]
      BY <1>7, <1>9 DEF Cut
    <2>2. s[k] = run[k]
      <3>1. k \in 1..k
        BY <1>8
      <3>. QED
        BY <1>10, <3>1
    <2>. QED
      BY <1>11, <2>1, <2>2
  <1>14. /\ cut \in Seq(Executed(chain)) /\ Len(cut) = k
         /\ \A i \in 1..k : cut[i] = IF i = k THEN last ELSE run[i]
    <2>1. /\ [s EXCEPT ![k] = last] \in Seq(Executed(chain))
          /\ Len([s EXCEPT ![k] = last]) = Len(s)
          /\ \A j \in 1..Len(s) : [s EXCEPT ![k] = last][j] = IF j = k THEN last ELSE s[j]
      BY <1>8, <1>10, <1>12, ExceptSeq
    <2>. QED
      BY <1>10, <1>13, <2>1
  <1>15. \A i \in 1..n : /\ executions[i].match = chain[i]
                         /\ executions[i].loader \in Passed(chain[i].route)
                         /\ executions[i].notFound = FALSE
    BY <1>1 DEF Running
  <1>16. ASSUME NEW i \in 1..k
         PROVE  RouteServed(chain, k, i, cut[i])
    <2>1. /\ run[i].match = chain[i]
          /\ \/ run[i].loader \in Passed(chain[i].route)
             \/ i = n + 1 /\ run[i].loader = "notFound" /\ chain[i].route.loader
          /\ run[i].notFound = FALSE
      <3>1. CASE i = n + 1
        BY <1>1, <1>3, <1>5, <3>1
      <3>2. CASE i # n + 1
        <4>1. i \in 1..n
          BY <1>8, <3>2
        <4>. QED
          BY <1>5, <1>15, <4>1
      <3>. QED
        BY <3>1, <3>2
    <2>2. CASE i = k
      <3>1. /\ cut[i].match = chain[i] /\ cut[i].notFound = TRUE /\ chain[i].route.boundary
            /\ cut[i].loader = run[i].loader
        <4>1. k \in 1..k /\ run[k].match = chain[k]
          BY <1>8, <2>1, <2>2
        <4>2. k \in 1..k /\ cut[k] = last /\ run[k].match = chain[k]
          BY <1>14, <4>1
        <4>. QED
          BY <1>8, <1>12, <2>2, <4>2
      <3>. QED
        BY <2>1, <2>2, <3>1 DEF RouteServed
    <2>3. CASE i # k
      <3>1. cut[i] = run[i]
        BY <1>14, <2>3
      <3>2. i # n + 1
        BY <1>8, <2>3
      <3>3. cut[i].loader \in Passed(chain[i].route) /\ cut[i].match = chain[i] /\ cut[i].notFound = FALSE
        BY <2>1, <3>1, <3>2
      <3>. QED
        BY <2>3, <3>3 DEF RouteServed
    <2>. QED
      BY <2>2, <2>3
  <1>17. Complete(chain, cut)
    <2>1. k <= Len(chain)
      BY <1>1, <1>8
    <2>. QED
      BY <1>14, <1>16, <2>1 DEF Complete
  <1>18. cut # <<>>
    <2>1. Len(cut) # 0
      BY <1>8, <1>14
    <2>. QED
      BY <2>1
  <1>. QED
    BY <1>17, <1>18

\* What is answered with a page is rendered from the executions: the root's
\* not-found graph is the page when there are none, and when there are the page
\* is not rendered with it.
LEMMA DocumentIsPage ==
  ASSUME NEW status, NEW executions, NEW notFound \in BOOLEAN,
         NEW build, NEW at, request.build = build, request.at = at,
         Complete(ChainOf(build, at), executions),
         executions = <<>> /\ notFound => Manifest.rootBoundary,
         response' = Document(status, executions, notFound), HasPage',
         site' = site
  PROVE  Page(build, at, executions)'
  <1>1. PICK root : root = RootGraph(notFound /\ Manifest.rootBoundary)
    OBVIOUS
  <1>2. response' = IF ~OutletsThere(executions, root) THEN Shell
                    ELSE [kind |-> "document", status |-> status,
                          rendered |-> Rendered(executions, root),
                          snapshot |-> Snapshot(build, at, executions, root, notFound)]
    BY <1>1 DEF Document
  <1>3. OutletsThere(executions, root)
    BY <1>2 DEF HasPage, Shell
  <1>4. /\ response'.rendered = Rendered(executions, root)
        /\ response'.snapshot = Snapshot(build, at, executions, root, notFound)
    BY <1>2, <1>3
  <1>5. executions = <<>> => notFound
    BY <1>4 DEF HasPage, Snapshot
  <1>6. root = RootGraph(executions = <<>>)
    BY <1>1, <1>3, <1>5 DEF OutletsThere, RootGraph, Graph
  <1>7. Snapshot(build, at, executions, root, notFound)
          = Snapshot(build, at, executions, root, TRUE)
    BY <1>5 DEF Snapshot
  <1>8. executions = <<>> => site[build].rootBoundary
    BY <1>5 DEF Manifest
  <1>9. /\ Complete(ChainOf(build, at), executions)
        /\ OutletsThere(executions, RootGraph(executions = <<>>))
        /\ response'.rendered = Rendered(executions, RootGraph(executions = <<>>))
        /\ response'.snapshot = Snapshot(build, at, executions, RootGraph(executions = <<>>), TRUE)
    BY <1>3, <1>4, <1>6, <1>7
  <1>. QED
    BY <1>8, <1>9 DEF Page, ChainOf

(***************************************************************************)
(* A page of the browser's own build                                       *)
(***************************************************************************)

Served(executions) ==
    /\ site \in Sites /\ manifest \in DOMAIN site /\ window \in Locations
    /\ HasPage /\ Page(manifest, window, executions)

\* What a snapshot says of its executions.
Tells(snapshot, executions) ==
    /\ Len(snapshot.routes) = Len(executions) /\ DOMAIN snapshot.routes = 1..Len(executions)
    /\ \A i \in 1..Len(executions) :
           /\ snapshot.routes[i].id = executions[i].match.route.id
           /\ snapshot.routes[i].params = executions[i].match.params
           /\ snapshot.routes[i].phase = PhaseOf(executions[i])
    /\ snapshot.loaders = { [id |-> executions[i].match.route.id, state |-> executions[i].loader] :
                            i \in { j \in 1..Len(executions) : executions[j].loader # "none" } }
    /\ snapshot.routes = <<>> <=> Len(executions) = 0

LEMMA SnapshotTells ==
  ASSUME NEW build, NEW at, NEW executions, NEW root, NEW S, executions \in Seq(S),
         NEW snapshot, <<snapshot>> = Snapshot(build, at, executions, root, TRUE)
  PROVE  snapshot.revision = build /\ snapshot.location = at /\ Tells(snapshot, executions)
  <1>1. Len(executions) \in Nat /\ DOMAIN executions = 1..Len(executions)
    BY LenProperties
  <1>2. PICK n \in Nat : n = Len(executions)
    BY <1>1
  <1>3. PICK routes : routes = [i \in 1..n |->
                                   [id |-> executions[i].match.route.id,
                                    params |-> executions[i].match.params,
                                    phase |-> PhaseOf(executions[i])]]
    OBVIOUS
  <1>4. PICK loaders : loaders = { [id |-> executions[i].match.route.id,
                                    state |-> executions[i].loader] :
                                   i \in { j \in 1..n : executions[j].loader # "none" } }
    OBVIOUS
  <1>5. snapshot = [revision |-> build, location |-> at, routes |-> routes,
                    loaders |-> loaders, root |-> root]
    BY <1>1, <1>2, <1>3, <1>4 DEF Snapshot
  <1>6. snapshot.revision = build /\ snapshot.location = at
        /\ snapshot.routes = routes /\ snapshot.loaders = loaders
    BY <1>5
  <1>7. Len(routes) = n /\ DOMAIN routes = 1..n
    BY <1>3
  <1>8. routes = <<>> <=> n = 0
    BY <1>2, <1>3, <1>7
  <1>9. \A i \in 1..n : /\ routes[i].id = executions[i].match.route.id
                        /\ routes[i].params = executions[i].match.params
                        /\ routes[i].phase = PhaseOf(executions[i])
    BY <1>3
  <1>. QED
    BY <1>2, <1>4, <1>6, <1>7, <1>8, <1>9 DEF Tells

LEMMA PageTells ==
  ASSUME NEW build, NEW executions, HasPage, Page(build, window, executions)
  PROVE  Resumed.revision = build /\ Resumed.location = window /\ Tells(Resumed, executions)
  <1>1. PICK root : root = RootGraph(executions = <<>>)
    OBVIOUS
  <1>2. PICK snapshot : snapshot = Resumed
    OBVIOUS
  <1>3. PICK at : at = window
    OBVIOUS
  <1>4. PICK S : S = Executed(ChainOf(build, at))
    OBVIOUS
  <1>5. executions \in Seq(S) /\ response.snapshot = Snapshot(build, at, executions, root, TRUE)
    BY <1>1, <1>3, <1>4 DEF Page, Complete
  <1>6. <<snapshot>> = Snapshot(build, at, executions, root, TRUE)
    BY <1>2, <1>5 DEF HasPage, Resumed, Snapshot
  <1>7. snapshot.revision = build /\ snapshot.location = at /\ Tells(snapshot, executions)
    BY <1>5, <1>6, SnapshotTells
  <1>. QED
    BY <1>2, <1>3, <1>7

LEMMA ServedTells ==
  ASSUME NEW executions, Served(executions)
  PROVE  /\ Len(executions) \in Nat /\ DOMAIN executions = 1..Len(executions)
         /\ Len(executions) <= Len(Derived)
         /\ \A i \in 1..Len(executions) : RouteServed(Derived, Len(executions), i, executions[i])
         /\ executions = <<>> <=> Len(executions) = 0
         /\ Tells(Resumed, executions)
         /\ Resumed.revision = manifest /\ Resumed.location = window
  <1>1. Complete(Derived, executions)
    BY DEF Served, Page, ChainOf, Derived, Published
  <1>2. /\ executions \in Seq(Executed(Derived)) /\ Len(executions) <= Len(Derived)
        /\ \A i \in 1..Len(executions) : RouteServed(Derived, Len(executions), i, executions[i])
    BY <1>1 DEF Complete
  <1>3. /\ Len(executions) \in Nat /\ DOMAIN executions = 1..Len(executions)
        /\ executions = <<>> <=> Len(executions) = 0
    BY <1>2, LenProperties, EmptySeq
  <1>4. /\ Resumed.revision = manifest /\ Resumed.location = window
        /\ Tells(Resumed, executions)
    BY PageTells DEF Served
  <1>. QED
    BY <1>2, <1>3, <1>4

LEMMA DerivedDescends ==
  ASSUME site \in Sites, manifest \in DOMAIN site, window \in Locations
  PROVE  Descends(Published.routes, Derived) /\ Distinct(Published.routes)
  BY ChainFacts DEF ChainOf, Derived, Published

\* RouteOf finds the route that was served.
LEMMA RouteOfIs ==
  ASSUME NEW route, NEW j \in DOMAIN Published.routes, Published.routes[j] = route,
         Distinct(Published.routes), NEW entry, entry.id = route.id
  PROVE  RouteOf(entry) = route
  <1>1. PICK c : c = CHOOSE k \in DOMAIN Published.routes : Published.routes[k].id = entry.id
    OBVIOUS
  <1>2. c \in DOMAIN Published.routes /\ Published.routes[c].id = entry.id
    BY <1>1
  <1>3. c = j
    BY <1>2 DEF Distinct
  <1>. QED
    BY <1>1, <1>3 DEF RouteOf

LEMMA RoutesFound ==
  ASSUME NEW executions, Served(executions), NEW i \in 1..Len(executions)
  PROVE  /\ RouteOf(Resumed.routes[i]) = Derived[i].route
         /\ executions[i].match = Derived[i] /\ i \in DOMAIN Derived
         /\ Resumed.routes[i].id = Derived[i].route.id
         /\ \E j \in DOMAIN Published.routes : Published.routes[j] = Derived[i].route
  <1>1. Descends(Published.routes, Derived) /\ Distinct(Published.routes)
    BY DerivedDescends DEF Served
  <1>2. /\ Len(executions) \in Nat /\ Len(executions) <= Len(Derived)
        /\ Tells(Resumed, executions) /\ RouteServed(Derived, Len(executions), i, executions[i])
    BY ServedTells
  <1>3. executions[i].match = Derived[i] /\ Resumed.routes[i].id = Derived[i].route.id
    BY <1>2 DEF Tells, RouteServed
  <1>4. i \in DOMAIN Derived
    BY <1>1, <1>2 DEF Descends
  <1>5. PICK j \in DOMAIN Published.routes : Published.routes[j] = Derived[i].route
    BY <1>1, <1>4 DEF Descends
  <1>6. RouteOf(Resumed.routes[i]) = Derived[i].route
    BY <1>1, <1>3, <1>5, RouteOfIs
  <1>. QED
    BY <1>3, <1>4, <1>5, <1>6

\* The outcome of a loader is found under the id of its route.
LEMMA StatesFound ==
  ASSUME NEW executions, Served(executions), NEW i \in 1..Len(executions)
  PROVE  LoaderStates(Resumed, Derived[i].route.id)
             = IF executions[i].loader = "none" THEN {} ELSE {executions[i].loader}
  <1>1. Descends(Published.routes, Derived)
    BY DerivedDescends DEF Served
  <1>2. \A j \in 1..Len(executions) : j \in DOMAIN Derived /\ executions[j].match = Derived[j]
    BY RoutesFound
  <1>3. \A j \in 1..Len(executions) : executions[j].match.route.id = Derived[i].route.id => j = i
    BY <1>1, <1>2 DEF Descends
  <1>4. PICK loaders : loaders = Resumed.loaders
    OBVIOUS
  <1>5. loaders = { [id |-> executions[j].match.route.id, state |-> executions[j].loader] :
                     j \in { k \in 1..Len(executions) : executions[k].loader # "none" } }
    BY <1>4, ServedTells DEF Tells
  <1>6. ASSUME NEW l \in loaders, l.id = Derived[i].route.id
        PROVE  executions[i].loader # "none" /\ l.state = executions[i].loader
    <2>1. PICK j \in 1..Len(executions) :
              /\ executions[j].loader # "none"
              /\ l = [id |-> executions[j].match.route.id, state |-> executions[j].loader]
      BY <1>5
    <2>2. j = i
      BY <1>3, <1>6, <2>1
    <2>. QED
      BY <2>1, <2>2
  <1>7. ASSUME executions[i].loader # "none"
        PROVE  \E l \in loaders : l.id = Derived[i].route.id /\ l.state = executions[i].loader
    <2>1. PICK l : l = [id |-> executions[i].match.route.id, state |-> executions[i].loader]
      OBVIOUS
    <2>2. l \in loaders
      BY <1>5, <1>7, <2>1
    <2>. QED
      BY <1>2, <2>1, <2>2
  <1>8. LoaderStates(Resumed, Derived[i].route.id)
            = { l.state : l \in { m \in loaders : m.id = Derived[i].route.id } }
    BY <1>4 DEF LoaderStates
  <1>. QED
    BY <1>6, <1>7, <1>8

\* The snapshot of a page is of routes of the manifest.
LEMMA ChainIsFine ==
  ASSUME NEW executions, Served(executions)
  PROVE  RevisionAgrees(Resumed) /\ ChainIsWellFormed(Resumed) /\ Importable(Resumed)
  <1>1. PICK n \in Nat : n = Len(executions)
    BY ServedTells
  <1>2. /\ Len(Resumed.routes) = n /\ DOMAIN Resumed.routes = 1..n
        /\ Resumed.routes = <<>> <=> n = 0
        /\ Resumed.revision = manifest /\ Resumed.location = window
    BY <1>1, ServedTells DEF Tells
  <1>3. Descends(Published.routes, Derived)
    BY DerivedDescends DEF Served
  <1>4. \A i \in 1..n : /\ RouteOf(Resumed.routes[i]) = Derived[i].route
                        /\ executions[i].match = Derived[i] /\ i \in DOMAIN Derived
                        /\ Resumed.routes[i].id = Derived[i].route.id
                        /\ \E j \in DOMAIN Published.routes : Published.routes[j] = Derived[i].route
    BY <1>1, RoutesFound
  <1>5. \A i \in 1..n : \E j \in DOMAIN Published.routes : Published.routes[j].id = Resumed.routes[i].id
    BY <1>4
  <1>6. n = 0 => Published.rootBoundary
    BY <1>1, ServedTells DEF Served, Page, Published
  <1>7. RevisionAgrees(Resumed)
    BY <1>2 DEF RevisionAgrees
  <1>8. ChainIsWellFormed(Resumed)
    BY <1>2, <1>5, <1>6 DEF ChainIsWellFormed
  <1>9. \A i \in 2..Len(Resumed.routes) :
            RouteOf(Resumed.routes[i]).parent = Resumed.routes[i - 1].id
    <2>. SUFFICES ASSUME NEW i \in 2..n
                  PROVE  RouteOf(Resumed.routes[i]).parent = Resumed.routes[i - 1].id
      BY <1>2
    <2>1. i \in 1..n /\ i - 1 \in 1..n /\ i > 1
      OBVIOUS
    <2>2. i \in DOMAIN Derived /\ RouteOf(Resumed.routes[i]) = Derived[i].route
          /\ Resumed.routes[i - 1].id = Derived[i - 1].route.id
      BY <1>4, <2>1
    <2>3. Derived[i].route.parent = Derived[i - 1].route.id
      BY <1>3, <2>1, <2>2 DEF Descends
    <2>. QED
      BY <2>2, <2>3
  <1>10. ASSUME NEW loader \in Resumed.loaders
         PROVE  \E j \in DOMAIN Published.routes :
                    Published.routes[j].id = loader.id /\ Published.routes[j].loader
    <2>1. PICK i \in 1..n : /\ executions[i].loader # "none"
                            /\ loader.id = executions[i].match.route.id
      BY <1>1, ServedTells DEF Tells
    <2>2. RouteServed(Derived, n, i, executions[i])
      BY <1>1, <2>1, ServedTells
    <2>3. Derived[i].route.loader
      BY <2>1, <2>2 DEF RouteServed, Passed
    <2>4. loader.id = Derived[i].route.id
      BY <1>4, <2>1
    <2>. QED
      BY <1>4, <2>1, <2>3, <2>4
  <1>. QED
    BY <1>2, <1>7, <1>8, <1>9, <1>10 DEF Importable

\* The phases of a page: only the last route is a boundary's.
LEMMA PhasesServed ==
  ASSUME NEW executions, Served(executions), NEW i \in 1..Len(executions)
  PROVE  LET e == executions[i]
             route == Derived[i].route
         IN  /\ e.notFound \in BOOLEAN
             /\ Resumed.routes[i].phase = PhaseOf(e)
             /\ e.notFound => i = Len(executions) /\ route.boundary
             /\ ~e.notFound => e.loader \in Passed(route)
             /\ route.loader => e.loader \in {"resolved", "rejected", "notFound"}
             /\ ~route.loader => e.loader = "none"
             /\ i = Len(executions) /\ ~e.notFound => Len(Derived) = Len(executions)
  <1>1. PICK e : e = executions[i]
    OBVIOUS
  <1>2. PICK route : route = Derived[i].route
    OBVIOUS
  <1>3. /\ RouteServed(Derived, Len(executions), i, e)
        /\ Resumed.routes[i].phase = PhaseOf(e)
        /\ Len(executions) \in Nat /\ Len(executions) <= Len(Derived)
    BY <1>1, ServedTells DEF Tells
  <1>4. e \in Executed(Derived)
    BY <1>1, ElementOfSeq DEF Served, Page, Complete, ChainOf, Derived, Published
  <1>5. e.notFound \in BOOLEAN
    BY <1>4 DEF Executed
  <1>6. Len(Derived) \in Nat
    BY DerivedDescends DEF Served, Descends
  <1>7. /\ e.loader \in Passed(route) \/ (e.notFound /\ e.loader = "notFound" /\ route.loader)
        /\ e.notFound => i = Len(executions) /\ route.boundary
        /\ i = Len(executions) /\ Len(executions) < Len(Derived) => e.notFound
    BY <1>2, <1>3 DEF RouteServed
  <1>8. ~e.notFound => e.loader \in Passed(route)
    BY <1>7
  <1>9. /\ route.loader => e.loader \in {"resolved", "rejected", "notFound"}
        /\ ~route.loader => e.loader = "none"
    BY <1>7 DEF Passed
  <1>10. i = Len(executions) /\ ~e.notFound => Len(Derived) = Len(executions)
    BY <1>3, <1>6, <1>7
  <1>. QED
    BY <1>1, <1>2, <1>3, <1>5, <1>7, <1>8, <1>9, <1>10

AgreementOf(executions) ==
    IF executions = <<>> THEN "rootBoundary"
    ELSE IF executions[Len(executions)].notFound THEN "boundary" ELSE "exact"

\* The chain of the page is the chain the browser derives, or the part of it that
\* ends at the boundary.
LEMMA ServedAgrees ==
  ASSUME NEW executions, Served(executions)
  PROVE  Agreement(Resumed) = AgreementOf(executions)
  <1>1. PICK n \in Nat : n = Len(executions)
    BY ServedTells
  <1>2. /\ Len(Resumed.routes) = n /\ (Resumed.routes = <<>> <=> n = 0) /\ (executions = <<>> <=> n = 0)
    BY <1>1, ServedTells DEF Tells
  <1>3. n <= Len(Derived) /\ Len(Derived) \in Nat
    BY <1>1, ServedTells, DerivedDescends DEF Served, Descends
  <1>4. CASE n = 0
    <2>1. Published.rootBoundary
      BY <1>2, <1>4 DEF Served, Page, Published
    <2>. QED
      BY <1>2, <1>4, <2>1 DEF Agreement, AgreementOf
  <1>5. CASE n # 0
    <2>1. n \in 1..n /\ ~ (n > Len(Derived)) /\ Resumed.routes # <<>> /\ executions # <<>>
      BY <1>2, <1>3, <1>5
    <2>2. /\ Resumed.routes[n].phase = PhaseOf(executions[n])
          /\ executions[n].notFound => Derived[n].route.boundary
          /\ ~executions[n].notFound => Len(Derived) = n
      BY <1>1, <2>1, PhasesServed
    <2>3. Resumed.routes[n].id = Derived[n].route.id
      BY <1>1, <2>1, RoutesFound
    <2>4. CASE executions[n].notFound
      <3>1. Resumed.routes[n].phase = "notFound"
        BY <2>2, <2>4 DEF PhaseOf
      <3>2. Agreement(Resumed) = "boundary"
        BY <1>2, <2>1, <2>2, <2>3, <2>4, <3>1 DEF Agreement
      <3>. QED
        BY <1>1, <2>1, <2>4, <3>2 DEF AgreementOf
    <2>5. CASE ~executions[n].notFound
      <3>1. Resumed.routes[n].phase # "notFound"
        BY <2>2, <2>5 DEF PhaseOf
      <3>2. ASSUME NEW i \in 1..n
            PROVE  EntryAgrees(Resumed.routes[i], Derived[i], Resumed)
        <4>1. PICK e : e = executions[i]
          OBVIOUS
        <4>2. PICK route : route = Derived[i].route
          OBVIOUS
        <4>3. PICK entry : entry = Resumed.routes[i]
          OBVIOUS
        <4>4. /\ entry.phase = PhaseOf(e)
              /\ e.notFound => i = n
              /\ ~e.notFound => e.loader \in Passed(route)
          BY <1>1, <4>1, <4>2, <4>3, PhasesServed
        <4>5. ~e.notFound
          BY <2>5, <4>1, <4>4
        <4>6. LoaderStates(Resumed, route.id) = IF e.loader = "none" THEN {} ELSE {e.loader}
          BY <1>1, <4>1, <4>2, StatesFound
        <4>7. entry.id = route.id /\ entry.params = Derived[i].params
          BY <1>1, <4>1, <4>2, <4>3, RoutesFound, ServedTells DEF Tells
        <4>8. CASE ~route.loader
          <5>1. entry.phase = "active"
            BY <4>4, <4>5, <4>8 DEF PhaseOf, Passed
          <5>2. PhasePairs(entry, route, Resumed)
            BY <4>8, <5>1 DEF PhasePairs
          <5>. QED
            BY <4>2, <4>3, <4>7, <5>2 DEF EntryAgrees
        <4>9. CASE route.loader
          <5>1. e.loader \in {"resolved", "rejected"}
            BY <4>4, <4>5, <4>9 DEF Passed
          <5>2. entry.phase = IF e.loader = "rejected" THEN "error" ELSE "active"
            BY <4>4, <4>5 DEF PhaseOf
          <5>3. LoaderStates(Resumed, entry.id) = {e.loader}
            BY <4>6, <4>7, <5>1
          <5>4. PhasePairs(entry, route, Resumed)
            BY <4>9, <5>1, <5>2, <5>3 DEF PhasePairs
          <5>. QED
            BY <4>2, <4>3, <4>7, <5>4 DEF EntryAgrees
        <4>. QED
          BY <4>8, <4>9
      <3>3. Agreement(Resumed) = "exact"
        BY <1>2, <2>1, <2>2, <2>5, <3>1, <3>2 DEF Agreement
      <3>. QED
        BY <1>1, <2>1, <2>5, <3>3 DEF AgreementOf
    <2>. QED
      BY <2>4, <2>5
  <1>. QED
    BY <1>4, <1>5

(***************************************************************************)
(* The graphs of a page                                                    *)
(***************************************************************************)

\* An entry needs its normal graph and the one of the phase it was served in.
LEMMA GraphsOfEntry ==
  ASSUME NEW entry, NEW I, entry.id \in I
  PROVE  /\ GraphsOf(entry) \in Seq([id : I, kind : {"normal", "error", "notFound"}])
         /\ Graph(entry.id, "normal") \in Range(GraphsOf(entry))
         /\ entry.phase = "error" /\ HasErrorGraph(RouteOf(entry))
            => Graph(entry.id, "error") \in Range(GraphsOf(entry))
         /\ entry.phase = "notFound" /\ RouteOf(entry).boundary
            => Graph(entry.id, "notFound") \in Range(GraphsOf(entry))
  <1>1. PICK S : S = [id : I, kind : {"normal", "error", "notFound"}]
    OBVIOUS
  <1>2. \A kind \in {"normal", "error", "notFound"} :
            /\ Graph(entry.id, kind) \in S
            /\ <<Graph(entry.id, kind)>> \in Seq(S)
            /\ Graph(entry.id, kind) \in Range(<<Graph(entry.id, kind)>>)
    <2>. SUFFICES ASSUME NEW kind \in {"normal", "error", "notFound"}
                  PROVE  /\ Graph(entry.id, kind) \in S
                         /\ <<Graph(entry.id, kind)>> \in Seq(S)
                         /\ Graph(entry.id, kind) \in Range(<<Graph(entry.id, kind)>>)
      OBVIOUS
    <2>1. PICK g : g = Graph(entry.id, kind)
      OBVIOUS
    <2>2. g \in S
      BY <1>1, <2>1 DEF Graph
    <2>3. <<g>> \in Seq(S) /\ g \in Range(<<g>>)
      BY <2>2 DEF Range
    <2>. QED
      BY <2>1, <2>2, <2>3
  <1>3. PICK a : a = <<Graph(entry.id, "normal")>>
    OBVIOUS
  <1>4. PICK b : b = IF entry.phase = "error" /\ HasErrorGraph(RouteOf(entry))
                     THEN <<Graph(entry.id, "error")>> ELSE <<>>
    OBVIOUS
  <1>5. PICK c : c = IF entry.phase = "notFound" /\ RouteOf(entry).boundary
                     THEN <<Graph(entry.id, "notFound")>> ELSE <<>>
    OBVIOUS
  <1>6. a \in Seq(S) /\ b \in Seq(S) /\ c \in Seq(S)
    BY <1>2, <1>3, <1>4, <1>5
  <1>7. PICK d \in Seq(S) : d = a \o b
    BY <1>6, ConcatHasBoth
  <1>8. Range(a) \subseteq Range(d) /\ Range(b) \subseteq Range(d)
    BY <1>6, <1>7, ConcatHasBoth
  <1>9. d \o c \in Seq(S) /\ Range(d) \subseteq Range(d \o c) /\ Range(c) \subseteq Range(d \o c)
    BY <1>6, ConcatHasBoth
  <1>10. GraphsOf(entry) = d \o c
    BY <1>3, <1>4, <1>5, <1>7 DEF GraphsOf
  <1>11. Range(a) \subseteq Range(d \o c) /\ Range(b) \subseteq Range(d \o c)
    BY <1>8, <1>9
  <1>12. Graph(entry.id, "normal") \in Range(d \o c)
    BY <1>2, <1>3, <1>11
  <1>13. entry.phase = "error" /\ HasErrorGraph(RouteOf(entry))
            => Graph(entry.id, "error") \in Range(d \o c)
    BY <1>2, <1>4, <1>11
  <1>14. entry.phase = "notFound" /\ RouteOf(entry).boundary
            => Graph(entry.id, "notFound") \in Range(d \o c)
    BY <1>2, <1>5, <1>9
  <1>. QED
    BY <1>1, <1>9, <1>10, <1>12, <1>13, <1>14

\* The graph of every route that was rendered is among those the browser fetches.
LEMMA RenderedIsNeeded ==
  ASSUME NEW executions, Served(executions)
  PROVE  /\ ChainGraphs(Resumed) \in Seq(Range(ChainGraphs(Resumed)))
         /\ executions = <<>> => RootGraph(TRUE) \in Range(ChainGraphs(Resumed))
         /\ \A i \in 1..Len(executions) : GraphOf(executions[i]) \in Range(ChainGraphs(Resumed))
  <1>1. PICK n \in Nat : n = Len(executions)
    BY ServedTells
  <1>2. /\ Len(Resumed.routes) = n /\ DOMAIN Resumed.routes = 1..n
        /\ (Resumed.routes = <<>> <=> n = 0) /\ (executions = <<>> <=> n = 0)
    BY <1>1, ServedTells DEF Tells
  <1>3. CASE n = 0
    <2>1. PICK g : g = RootGraph(TRUE)
      OBVIOUS
    <2>2. ChainGraphs(Resumed) = <<g>>
      BY <1>2, <1>3, <2>1 DEF ChainGraphs
    <2>3. <<g>> \in Seq(Range(<<g>>)) /\ g \in Range(<<g>>)
      BY DEF Range
    <2>4. g \in Range(ChainGraphs(Resumed)) /\ ChainGraphs(Resumed) \in Seq(Range(ChainGraphs(Resumed)))
      BY <2>2, <2>3
    <2>5. RootGraph(TRUE) \in Range(ChainGraphs(Resumed))
      BY Zenon, <2>1, <2>4
    <2>6. \A i \in 1..Len(executions) : FALSE
      BY <1>1, <1>3
    <2>. QED
      BY <2>4, <2>5, <2>6
  <1>4. CASE n # 0
    <2>1. PICK s : s = [i \in 1..n |-> GraphsOf(Resumed.routes[i])]
      OBVIOUS
    <2>2. ChainGraphs(Resumed) = FlattenSeq(s)
      BY <1>2, <1>4, <2>1 DEF ChainGraphs
    <2>3. PICK I : I = { Resumed.routes[i].id : i \in 1..n }
      OBVIOUS
    <2>4. PICK S : S = [id : I, kind : {"normal", "error", "notFound"}]
      OBVIOUS
    <2>5. \A i \in 1..n : s[i] = GraphsOf(Resumed.routes[i]) /\ s[i] \in Seq(S)
      <3>. SUFFICES ASSUME NEW i \in 1..n
                    PROVE  s[i] = GraphsOf(Resumed.routes[i]) /\ s[i] \in Seq(S)
        OBVIOUS
      <3>1. s[i] = GraphsOf(Resumed.routes[i]) /\ Resumed.routes[i].id \in I
        BY <2>1, <2>3
      <3>2. GraphsOf(Resumed.routes[i]) \in Seq(S)
        BY <2>4, <3>1, GraphsOfEntry
      <3>. QED
        BY <3>1, <3>2
    <2>6. Len(s) = n /\ Len(s) \in Nat \ {0}
      BY <1>4, <2>1
    <2>7. PICK flat : flat = FlattenSeq(s)
      OBVIOUS
    <2>8. flat \in Seq(S) /\ \A i \in 1..n : Range(s[i]) \subseteq Range(flat)
      BY <2>5, <2>6, <2>7, FlattenHasParts
    <2>9. flat \in Seq(Range(flat))
      <3>1. Len(flat) \in Nat /\ DOMAIN flat = 1..Len(flat) /\ flat \in [1..Len(flat) -> S]
        BY <2>8, LenProperties
      <3>2. flat \in [1..Len(flat) -> Range(flat)]
        BY <3>1 DEF Range
      <3>. QED
        BY <3>1, <3>2, SeqDef
    <2>10. ASSUME NEW i \in 1..n
           PROVE  GraphOf(executions[i]) \in Range(flat)
      <3>1. PICK e : e = executions[i]
        OBVIOUS
      <3>2. PICK route : route = Derived[i].route
        OBVIOUS
      <3>3. PICK entry : entry = Resumed.routes[i]
        OBVIOUS
      <3>4. entry.id = route.id /\ RouteOf(entry) = route /\ e.match.route = route
        BY <1>1, <3>1, <3>2, <3>3, RoutesFound
      <3>5. entry.phase = PhaseOf(e) /\ (e.notFound => route.boundary)
        BY <1>1, <3>1, <3>2, <3>3, PhasesServed
      <3>6. /\ Graph(route.id, "normal") \in Range(flat)
            /\ entry.phase = "error" /\ HasErrorGraph(route) => Graph(route.id, "error") \in Range(flat)
            /\ entry.phase = "notFound" /\ route.boundary => Graph(route.id, "notFound") \in Range(flat)
        <4>1. Range(GraphsOf(entry)) \subseteq Range(flat)
          BY <2>5, <2>8, <3>3
        <4>2. \E J : entry.id \in J
          <5>1. entry.id \in {entry.id}
            OBVIOUS
          <5>. QED
            BY <5>1
        <4>3. /\ Graph(route.id, "normal") \in Range(GraphsOf(entry))
              /\ entry.phase = "error" /\ HasErrorGraph(route)
                 => Graph(route.id, "error") \in Range(GraphsOf(entry))
              /\ entry.phase = "notFound" /\ route.boundary
                 => Graph(route.id, "notFound") \in Range(GraphsOf(entry))
          BY <3>4, <4>2, GraphsOfEntry
        <4>. QED
          BY <4>1, <4>3
      <3>7. CASE e.notFound
        <4>1. entry.phase = "notFound" /\ GraphOf(e) = Graph(route.id, "notFound")
          BY <3>4, <3>5, <3>7 DEF PhaseOf, GraphOf
        <4>. QED
          BY <3>1, <3>5, <3>6, <3>7, <4>1
      <3>8. CASE ~e.notFound /\ e.loader = "rejected" /\ HasErrorGraph(route)
        <4>1. entry.phase = "error" /\ GraphOf(e) = Graph(route.id, "error")
          BY <3>4, <3>5, <3>8 DEF PhaseOf, GraphOf
        <4>. QED
          BY <3>1, <3>6, <3>8, <4>1
      <3>9. CASE ~e.notFound /\ ~ (e.loader = "rejected" /\ HasErrorGraph(route))
        <4>1. GraphOf(e) = Graph(route.id, "normal")
          BY <3>4, <3>9 DEF GraphOf
        <4>. QED
          BY <3>1, <3>6, <4>1
      <3>. QED
        BY <3>7, <3>8, <3>9
    <2>. QED
      BY <1>1, <1>2, <1>4, <2>2, <2>7, <2>9, <2>10
  <1>. QED
    BY <1>3, <1>4

(***************************************************************************)
(* Adoption                                                                *)
(***************************************************************************)

\* The parts of AdoptRoutes.
Reached(snapshot, agreement) == IF agreement = "mismatch" THEN 0 ELSE Len(snapshot.routes)
RoutesReached(snapshot, agreement) == [i \in 1..Reached(snapshot, agreement) |-> Derived[i].route]
StatesFor(snapshot, agreement) ==
    [i \in 1..Reached(snapshot, agreement) |->
        LoaderStates(snapshot, RoutesReached(snapshot, agreement)[i].id)]
GraphsClaimed(snapshot, agreement) ==
    [i \in 1..Reached(snapshot, agreement) |->
        Graph(RoutesReached(snapshot, agreement)[i].id,
              IF agreement = "boundary" /\ i = Reached(snapshot, agreement) THEN "notFound"
              ELSE IF "rejected" \in StatesFor(snapshot, agreement)[i] THEN "error" ELSE "normal")]
Claims(snapshot, agreement, i) ==
    /\ GraphsClaimed(snapshot, agreement)[i].kind = "error"
       => HasErrorGraph(RoutesReached(snapshot, agreement)[i])
    /\ Registered(GraphsClaimed(snapshot, agreement)[i])
    /\ RoutesReached(snapshot, agreement)[i].loader => StatesFor(snapshot, agreement)[i] # {}
    /\ i > 1 /\ GraphsClaimed(snapshot, agreement)[i - 1].kind = "error"
       => RoutesReached(snapshot, agreement)[i - 1].error = "outlet"
Stops(snapshot, agreement) ==
    { i \in 1..Reached(snapshot, agreement) : ~Claims(snapshot, agreement, i) }
InstancesClaimed(snapshot, agreement) ==
    [i \in 1..(IF Stops(snapshot, agreement) = {} THEN Reached(snapshot, agreement)
               ELSE Min(Stops(snapshot, agreement)) - 1) |->
        [graph |-> GraphsClaimed(snapshot, agreement)[i],
         data |-> ResumedData(GraphsClaimed(snapshot, agreement), StatesFor(snapshot, agreement), i),
         origin |-> "adopted",
         phase |-> IF GraphsClaimed(snapshot, agreement)[i].kind = "normal" THEN "active"
                   ELSE GraphsClaimed(snapshot, agreement)[i].kind]]

LEMMA AdoptRoutesIs ==
  ASSUME NEW snapshot, NEW agreement
  PROVE  AdoptRoutes(snapshot, agreement)
             = [complete |-> agreement # "mismatch" /\ Stops(snapshot, agreement) = {},
                instances |-> InstancesClaimed(snapshot, agreement)]
  BY Zenon DEF AdoptRoutes, Reached, RoutesReached, StatesFor, GraphsClaimed, Claims, Stops,
               InstancesClaimed

\* What a route claims, and whether it was rejected without an error graph.
Spurned(executions, i) ==
    /\ ~executions[i].notFound /\ executions[i].loader = "rejected"
    /\ ~HasErrorGraph(Derived[i].route)

StatesServed(execution) == IF execution.loader = "none" THEN {} ELSE {execution.loader}
KindClaimed(execution) ==
    IF execution.notFound THEN "notFound"
    ELSE IF execution.loader = "rejected" THEN "error" ELSE "normal"

LEMMA ClaimIs ==
  ASSUME NEW executions, Served(executions), NEW i \in 1..Len(executions),
         NEW agreement, agreement = AgreementOf(executions)
  PROVE  /\ Reached(Resumed, agreement) = Len(executions)
         /\ RoutesReached(Resumed, agreement)[i] = Derived[i].route
         /\ StatesFor(Resumed, agreement)[i] = StatesServed(executions[i])
         /\ GraphsClaimed(Resumed, agreement)[i]
                = Graph(Derived[i].route.id, KindClaimed(executions[i]))
         /\ ~Spurned(executions, i) => GraphsClaimed(Resumed, agreement)[i] = GraphOf(executions[i])
  <1>1. PICK n \in Nat : n = Len(executions)
    BY ServedTells
  <1>2. Reached(Resumed, agreement) = n
    BY <1>1, ServedTells DEF AgreementOf, Reached, Tells
  <1>3. PICK e : e = executions[i]
    OBVIOUS
  <1>4. PICK route : route = Derived[i].route
    OBVIOUS
  <1>5. RoutesReached(Resumed, agreement)[i] = route
    BY <1>1, <1>2, <1>4 DEF RoutesReached
  <1>6. PICK states : states = LoaderStates(Resumed, route.id)
    OBVIOUS
  <1>7. states = StatesServed(e)
    BY <1>3, <1>4, <1>6, StatesFound DEF StatesServed
  <1>8. StatesFor(Resumed, agreement)[i] = states
    BY <1>1, <1>2, <1>5, <1>6 DEF StatesFor
  <1>9. e.notFound <=> agreement = "boundary" /\ i = n
    <2>1. i = n => e = executions[Len(executions)] /\ executions # <<>>
      BY <1>1, <1>3, ServedTells
    <2>2. e.notFound => i = n
      BY <1>1, <1>3, PhasesServed
    <2>. QED
      BY <2>1, <2>2 DEF AgreementOf
  <1>10. PICK kind : kind = IF agreement = "boundary" /\ i = n THEN "notFound"
                            ELSE IF "rejected" \in states THEN "error" ELSE "normal"
    OBVIOUS
  <1>11. kind = KindClaimed(e)
    BY <1>7, <1>9, <1>10 DEF StatesServed, KindClaimed
  <1>12. GraphsClaimed(Resumed, agreement)[i] = Graph(route.id, kind)
    BY <1>1, <1>2, <1>5, <1>8, <1>10 DEF GraphsClaimed
  <1>13. e.match.route = route
    BY <1>3, <1>4, RoutesFound
  <1>14. ~Spurned(executions, i) => Graph(route.id, kind) = GraphOf(e)
    BY <1>3, <1>4, <1>11, <1>13 DEF Spurned, GraphOf, KindClaimed
  <1>. QED
    BY <1>1, <1>2, <1>3, <1>4, <1>5, <1>7, <1>8, <1>11, <1>12, <1>14

\* Every graph the page needs is registered.
AllFetched ==
    /\ RootGraph(FALSE) \in runtime.registered
    /\ \A graph \in Range(ChainGraphs(Resumed)) : graph \in runtime.registered

\* The graphs there are can be claimed, unless a loader was rejected on a route
\* without an error graph.
LEMMA ClaimsAreRendered ==
  ASSUME NEW executions, Served(executions), AllFetched,
         NEW agreement, agreement = AgreementOf(executions),
         \A i \in 1..Len(executions) : ~Spurned(executions, i)
  PROVE  Stops(Resumed, agreement) = {}
  <1>1. PICK n \in Nat : n = Len(executions)
    BY ServedTells
  <1>2. ASSUME NEW i \in 1..n
        PROVE  Claims(Resumed, agreement, i)
    <2>1. PICK e : e = executions[i]
      OBVIOUS
    <2>2. PICK route : route = Derived[i].route
      OBVIOUS
    <2>3. PICK g : g = GraphOf(e)
      OBVIOUS
    <2>4. /\ RoutesReached(Resumed, agreement)[i] = route
          /\ StatesFor(Resumed, agreement)[i] = StatesServed(e)
          /\ GraphsClaimed(Resumed, agreement)[i] = g
      BY <1>1, <2>1, <2>2, <2>3, ClaimIs
    <2>5. e.match.route = route
      BY <1>1, <2>1, <2>2, RoutesFound
    <2>6. g.kind = "error" => HasErrorGraph(route)
      BY <2>3, <2>5 DEF GraphOf, Graph
    <2>7. Registered(g)
      BY <1>1, <2>1, <2>3, RenderedIsNeeded DEF AllFetched, Registered
    <2>8. route.loader => StatesFor(Resumed, agreement)[i] # {}
      <3>1. route.loader => e.loader \in {"resolved", "rejected", "notFound"}
        BY <1>1, <2>1, <2>2, PhasesServed
      <3>. QED
        BY <2>4, <3>1 DEF StatesServed
    <2>9. i > 1 /\ GraphsClaimed(Resumed, agreement)[i - 1].kind = "error"
          => RoutesReached(Resumed, agreement)[i - 1].error = "outlet"
      <3>. SUFFICES ASSUME i > 1, GraphsClaimed(Resumed, agreement)[i - 1].kind = "error"
                    PROVE  RoutesReached(Resumed, agreement)[i - 1].error = "outlet"
        OBVIOUS
      <3>1. PICK j \in 1..n : j = i - 1 /\ j \in 1..(n - 1)
        OBVIOUS
      <3>2. /\ RoutesReached(Resumed, agreement)[j] = Derived[j].route
            /\ GraphsClaimed(Resumed, agreement)[j] = GraphOf(executions[j])
        BY <1>1, ClaimIs
      <3>3. executions[j].match = Derived[j]
        BY <1>1, RoutesFound
      <3>4. GraphOf(executions[j]).kind = "error" => executions[j].match.route.error = "outlet"
        BY <1>1, <3>1 DEF Served, Page, OutletsThere
      <3>. QED
        BY <3>1, <3>2, <3>3, <3>4
    <2>. QED
      BY <2>4, <2>6, <2>7, <2>8, <2>9 DEF Claims
  <1>3. CASE n = 0
    <2>1. Reached(Resumed, agreement) = 0
      BY <1>1, <1>3, ServedTells DEF AgreementOf, Reached, Tells
    <2>. QED
      BY <2>1 DEF Stops
  <1>4. CASE n # 0
    <2>1. Reached(Resumed, agreement) = n
      BY <1>1, <1>4, ServedTells DEF AgreementOf, Reached, Tells
    <2>. QED
      BY <1>2, <2>1 DEF Stops
  <1>. QED
    BY <1>3, <1>4

\* A page is complete only if no loader of it was rejected on such a route.
LEMMA CompleteIsUnspurned ==
  ASSUME NEW executions, Served(executions),
         NEW agreement, agreement = AgreementOf(executions),
         Stops(Resumed, agreement) = {}, NEW i \in 1..Len(executions)
  PROVE  ~Spurned(executions, i)
  <1>. SUFFICES ASSUME Spurned(executions, i) PROVE FALSE
    OBVIOUS
  <1>1. /\ Reached(Resumed, agreement) = Len(executions)
        /\ RoutesReached(Resumed, agreement)[i] = Derived[i].route
        /\ GraphsClaimed(Resumed, agreement)[i] = Graph(Derived[i].route.id, "error")
    <2>1. KindClaimed(executions[i]) = "error"
      BY DEF Spurned, KindClaimed
    <2>2. /\ Reached(Resumed, agreement) = Len(executions)
          /\ RoutesReached(Resumed, agreement)[i] = Derived[i].route
          /\ GraphsClaimed(Resumed, agreement)[i]
                 = Graph(Derived[i].route.id, KindClaimed(executions[i]))
      BY ClaimIs
    <2>. QED
      BY <2>1, <2>2
  <1>2. Claims(Resumed, agreement, i)
    BY <1>1 DEF Stops
  <1>3. GraphsClaimed(Resumed, agreement)[i].kind = "error"
    BY <1>1 DEF Graph
  <1>4. HasErrorGraph(Derived[i].route)
    BY <1>1, <1>2, <1>3 DEF Claims
  <1>. QED
    BY <1>4 DEF Spurned


\* A route that is active shows what its own loader resolved.
LEMMA OwnData ==
  ASSUME NEW graphs, NEW states, NEW i \in Nat \ {0},
         "resolved" \in states[i], graphs[i].kind = "normal"
  PROVE  ResumedData(graphs, states, i) = graphs[i].id
  <1>1. PICK sources : sources = Sources(graphs, states, i)
    OBVIOUS
  <1>2. i \in sources /\ sources \in SUBSET (1..i)
    BY <1>1 DEF Sources
  <1>3. Max(sources) \in sources /\ \A j \in sources : j <= Max(sources)
    BY <1>2, GreatestNumber
  <1>4. Max(sources) = i
    <2>1. PICK m : m = Max(sources)
      OBVIOUS
    <2>2. m \in 1..i /\ i <= m
      BY <1>2, <1>3, <2>1
    <2>. QED
      BY <2>1, <2>2
  <1>. QED
    BY <1>1, <1>2, <1>4 DEF ResumedData

\* The routes of a complete adoption are those that were rendered.
LEMMA InstancesAreRendered ==
  ASSUME NEW executions, Served(executions),
         NEW agreement, agreement = AgreementOf(executions),
         Stops(Resumed, agreement) = {}
  PROVE  LET instances == InstancesClaimed(Resumed, agreement)
         IN  /\ DOMAIN instances = 1..Len(executions)
             /\ instances = [i \in 1..Len(executions) |-> instances[i]]
             /\ \A i \in 1..Len(executions) :
                    /\ instances[i].graph = GraphOf(executions[i])
                    /\ instances[i].phase = PhaseOf(executions[i])
                    /\ instances[i].phase = "active" /\ Derived[i].route.loader
                       => instances[i].data = DataOf(executions[i])
  <1>1. PICK n \in Nat : n = Len(executions)
    BY ServedTells
  <1>2. PICK graphs : graphs = GraphsClaimed(Resumed, agreement)
    OBVIOUS
  <1>3. PICK states : states = StatesFor(Resumed, agreement)
    OBVIOUS
  <1>4. PICK instances : instances = InstancesClaimed(Resumed, agreement)
    OBVIOUS
  <1>5. Reached(Resumed, agreement) = n
    BY <1>1, ServedTells DEF AgreementOf, Reached, Tells
  <1>6. instances = [i \in 1..n |-> [graph |-> graphs[i], data |-> ResumedData(graphs, states, i),
                                     origin |-> "adopted",
                                     phase |-> IF graphs[i].kind = "normal" THEN "active"
                                               ELSE graphs[i].kind]]
    BY <1>2, <1>3, <1>4, <1>5 DEF InstancesClaimed
  <1>7. ASSUME NEW i \in 1..n
        PROVE  /\ instances[i].graph = GraphOf(executions[i])
               /\ instances[i].phase = PhaseOf(executions[i])
               /\ instances[i].phase = "active" /\ Derived[i].route.loader
                  => instances[i].data = DataOf(executions[i])
    <2>1. PICK e : e = executions[i]
      OBVIOUS
    <2>2. PICK route : route = Derived[i].route
      OBVIOUS
    <2>3. ~Spurned(executions, i)
      BY <1>1, CompleteIsUnspurned
    <2>4. /\ graphs[i] = GraphOf(e) /\ graphs[i] = Graph(route.id, KindClaimed(e))
          /\ states[i] = StatesServed(e)
      BY <1>1, <1>2, <1>3, <2>1, <2>2, <2>3, ClaimIs
    <2>5. e.match.route = route
      BY <1>1, <2>1, <2>2, RoutesFound
    <2>6. /\ instances[i].graph = graphs[i]
          /\ instances[i].data = ResumedData(graphs, states, i)
          /\ instances[i].phase = IF graphs[i].kind = "normal" THEN "active" ELSE graphs[i].kind
      BY <1>6
    <2>7. graphs[i].id = route.id /\ graphs[i].kind = KindClaimed(e)
      BY <2>4 DEF Graph
    <2>8. instances[i].phase = PhaseOf(e)
      BY <2>6, <2>7 DEF PhaseOf, KindClaimed
    <2>9. instances[i].phase = "active" /\ route.loader => instances[i].data = DataOf(e)
      <3>. SUFFICES ASSUME instances[i].phase = "active", route.loader
                    PROVE  instances[i].data = DataOf(e)
        OBVIOUS
      <3>1. ~e.notFound /\ e.loader # "rejected"
        BY <2>8 DEF PhaseOf
      <3>2. e.loader \in Passed(route)
        <4>1. ~e.notFound => e.loader \in Passed(route)
          BY <1>1, <2>1, <2>2, PhasesServed
        <4>. QED
          BY <3>1, <4>1
      <3>3. e.loader = "resolved"
        BY <3>1, <3>2 DEF Passed
      <3>4. "resolved" \in states[i] /\ graphs[i].kind = "normal"
        BY <2>4, <2>7, <3>1, <3>3 DEF StatesServed, KindClaimed
      <3>5. ResumedData(graphs, states, i) = graphs[i].id
        BY <3>4, OwnData
      <3>. QED
        BY <2>5, <2>6, <2>7, <3>3, <3>5 DEF DataOf
    <2>. QED
      BY <2>1, <2>2, <2>4, <2>6, <2>8, <2>9
  <1>8. DOMAIN instances = 1..n /\ instances = [i \in 1..n |-> instances[i]]
    BY <1>6
  <1>. QED
    BY <1>1, <1>4, <1>7, <1>8

Seeded == [runtime EXCEPT !.located = TRUE, !.seeded = TRUE, !.imported = TRUE]
RootClaim(root) == <<[graph |-> root, phase |-> "active", data |-> "none", origin |-> "adopted"]>>

\* What start_adopt_snapshot does with a page whose graphs are all there.
LEMMA StartAdoptIs ==
  ASSUME NEW executions, Served(executions), AllFetched, runtime.instances = <<>>,
         NEW agreement, agreement = AgreementOf(executions)
  PROVE  StartAdopt(Resumed)
             = [succeeds |-> Stops(Resumed, agreement) = {},
                runtime |-> [Seeded EXCEPT !.instances =
                                 RootClaim(RootGraph(executions = <<>>))
                                 \o InstancesClaimed(Resumed, agreement)]]
  <1>1. Agreement(Resumed) = agreement /\ agreement # "mismatch"
    BY ServedAgrees DEF AgreementOf
  <1>2. Importable(Resumed)
    BY ChainIsFine
  <1>3. PICK root : root = RootGraph(executions = <<>>)
    OBVIOUS
  <1>4. root = RootGraph(agreement = "rootBoundary")
    BY <1>3 DEF AgreementOf, RootGraph
  <1>5. Registered(root)
    <2>1. CASE executions = <<>>
      <3>1. root = RootGraph(TRUE)
        BY <1>3, <2>1 DEF RootGraph
      <3>. QED
        BY <2>1, <3>1, RenderedIsNeeded DEF AllFetched, Registered
    <2>2. CASE executions # <<>>
      <3>1. root = RootGraph(FALSE)
        BY <1>3, <2>2 DEF RootGraph
      <3>. QED
        BY <3>1 DEF AllFetched, Registered
    <2>. QED
      BY <2>1, <2>2
  <1>6. PICK adoption : adoption = AdoptRoutes(Resumed, agreement)
    OBVIOUS
  <1>7. StartAdopt(Resumed)
            = [succeeds |-> adoption.complete,
               runtime |-> [Seeded EXCEPT !.instances = RootClaim(root) \o adoption.instances]]
    BY <1>1, <1>2, <1>4, <1>5, <1>6 DEF StartAdopt, Seeded, RootClaim
  <1>8. adoption = [complete |-> agreement # "mismatch" /\ Stops(Resumed, agreement) = {},
                    instances |-> InstancesClaimed(Resumed, agreement)]
    BY <1>6, AdoptRoutesIs
  <1>9. /\ adoption.complete = (Stops(Resumed, agreement) = {})
        /\ adoption.instances = InstancesClaimed(Resumed, agreement)
    BY <1>1, <1>8
  <1>. QED
    BY <1>3, <1>7, <1>9

\* A page of the browser's build is adopted as it was served, or refused because a
\* loader was rejected on a route without an error graph.
LEMMA AdoptsOrRefuses ==
  ASSUME NEW executions, Served(executions), AllFetched, Shaped(runtime), runtime.instances = <<>>,
         NEW result, result = StartAdopt(Resumed)
  PROVE  /\ Shaped(result.runtime)
         /\ result.succeeds => /\ Len(result.runtime.instances) = Len(response.rendered)
                               /\ \A i \in DOMAIN result.runtime.instances :
                                      LET shown == result.runtime.instances[i]
                                          served == response.rendered[i]
                                      IN  /\ shown.graph = served.graph /\ shown.phase = served.phase
                                          /\ shown.phase = "active" /\ i > 1 /\ Derived[i - 1].route.loader
                                             => shown.data = served.data
         /\ ~result.succeeds => \E i \in DOMAIN Resumed.routes :
                                    /\ Resumed.routes[i].phase = "error"
                                    /\ ~HasErrorGraph(RouteOf(Resumed.routes[i]))
  <1>1. PICK n \in Nat : n = Len(executions)
    BY ServedTells
  <1>2. PICK agreement : agreement = AgreementOf(executions)
    OBVIOUS
  <1>3. PICK root : root = RootGraph(executions = <<>>)
    OBVIOUS
  <1>4. PICK a : a = [graph |-> root, phase |-> "active", data |-> "none", origin |-> "adopted"]
    OBVIOUS
  <1>5. PICK routes : routes = InstancesClaimed(Resumed, agreement)
    OBVIOUS
  <1>6. result = [succeeds |-> Stops(Resumed, agreement) = {},
                  runtime |-> [Seeded EXCEPT !.instances = <<a>> \o routes]]
    BY <1>2, <1>3, <1>4, <1>5, StartAdoptIs DEF RootClaim
  <1>7. PICK r : r = [Seeded EXCEPT !.instances = <<a>> \o routes]
    OBVIOUS
  <1>8. result.runtime = r /\ result.succeeds = (Stops(Resumed, agreement) = {})
    BY <1>6, <1>7
  <1>9. Shaped(r) /\ r.instances = <<a>> \o routes
    BY <1>7 DEF Seeded, Shaped
  <1>10. ASSUME Stops(Resumed, agreement) = {}
         PROVE  /\ Len(r.instances) = Len(response.rendered)
                /\ \A i \in DOMAIN r.instances :
                       LET shown == r.instances[i]
                           served == response.rendered[i]
                       IN  /\ shown.graph = served.graph /\ shown.phase = served.phase
                           /\ shown.phase = "active" /\ i > 1 /\ Derived[i - 1].route.loader
                              => shown.data = served.data
    <2>1. /\ DOMAIN routes = 1..n /\ routes = [i \in 1..n |-> routes[i]]
          /\ \A i \in 1..n :
                 /\ routes[i].graph = GraphOf(executions[i])
                 /\ routes[i].phase = PhaseOf(executions[i])
                 /\ routes[i].phase = "active" /\ Derived[i].route.loader
                    => routes[i].data = DataOf(executions[i])
      BY <1>1, <1>2, <1>5, <1>10, InstancesAreRendered
    <2>2. /\ Len(r.instances) = n + 1 /\ DOMAIN r.instances = 1..(n + 1)
          /\ r.instances[1] = a /\ \A i \in 1..n : r.instances[i + 1] = routes[i]
      BY <1>9, <2>1, PutFirst
    <2>3. PICK b : b = [graph |-> root, phase |-> "active", data |-> "none"]
      OBVIOUS
    <2>4. PICK rendered : rendered = [i \in 1..n |-> [graph |-> GraphOf(executions[i]),
                                                      phase |-> PhaseOf(executions[i]),
                                                      data |-> DataOf(executions[i])]]
      OBVIOUS
    <2>5. response.rendered = <<b>> \o rendered
      <3>1. DOMAIN executions = 1..n
        BY <1>1, ServedTells
      <3>2. response.rendered = Rendered(executions, root)
        BY <1>3 DEF Served, Page
      <3>. QED
        BY <2>3, <2>4, <3>1, <3>2 DEF Rendered
    <2>6. DOMAIN rendered = 1..n /\ rendered = [i \in 1..n |-> rendered[i]]
      BY <2>4
    <2>7. /\ Len(response.rendered) = n + 1
          /\ response.rendered[1] = b /\ \A i \in 1..n : response.rendered[i + 1] = rendered[i]
      BY <2>5, <2>6, PutFirst
    <2>8. ASSUME NEW i \in 1..(n + 1)
          PROVE  /\ r.instances[i].graph = response.rendered[i].graph
                 /\ r.instances[i].phase = response.rendered[i].phase
                 /\ r.instances[i].phase = "active" /\ i > 1 /\ Derived[i - 1].route.loader
                    => r.instances[i].data = response.rendered[i].data
      <3>1. CASE i = 1
        BY <1>4, <2>2, <2>3, <2>7, <3>1
      <3>2. CASE i # 1
        <4>1. PICK j \in 1..n : j + 1 = i /\ j = i - 1
          BY <3>2
        <4>2. r.instances[i] = routes[j] /\ response.rendered[i] = rendered[j]
          BY <2>2, <2>7, <4>1
        <4>3. /\ rendered[j].graph = GraphOf(executions[j])
              /\ rendered[j].phase = PhaseOf(executions[j])
              /\ rendered[j].data = DataOf(executions[j])
          BY <2>4
        <4>. QED
          BY <2>1, <4>1, <4>2, <4>3
      <3>. QED
        BY <3>1, <3>2
    <2>. QED
      BY <2>2, <2>7, <2>8
  <1>11. ASSUME Stops(Resumed, agreement) # {}
         PROVE  \E i \in DOMAIN Resumed.routes :
                    /\ Resumed.routes[i].phase = "error"
                    /\ ~HasErrorGraph(RouteOf(Resumed.routes[i]))
    <2>1. PICK i \in 1..n : Spurned(executions, i)
      BY <1>1, <1>2, <1>11, ClaimsAreRendered
    <2>2. RouteOf(Resumed.routes[i]) = Derived[i].route
      BY <1>1, RoutesFound
    <2>3. Resumed.routes[i].phase = "error"
      <3>1. Resumed.routes[i].phase = PhaseOf(executions[i])
        BY <1>1, PhasesServed
      <3>. QED
        BY <2>1, <3>1 DEF Spurned, PhaseOf
    <2>4. i \in DOMAIN Resumed.routes
      BY <1>1, ServedTells DEF Tells
    <2>. QED
      BY <2>1, <2>2, <2>3, <2>4 DEF Spurned
  <1>. QED
    BY <1>8, <1>9, <1>10, <1>11

(***************************************************************************)
(* The steps of the server                                                 *)
(***************************************************************************)

\* A request at the beginning of a pass.
LEMMA PassBegins ==
  ASSUME site \in Sites, NEW build \in DOMAIN site, NEW path \in Locations, NEW hops \in Nat,
         NEW r, r = Pass(build, path, hops)
  PROVE  /\ r \in [at : Locations, build : DOMAIN site, hops : Nat,
                   chain : {ChainOf(r.build, r.at)}, executions : {r.executions}]
         /\ Running(r.chain, r.executions)
         /\ r.at = path
  <1>1. PICK chain : chain = ChainOf(build, path)
    OBVIOUS
  <1>2. r = [at |-> path, build |-> build, hops |-> hops, chain |-> chain, executions |-> <<>>]
    BY <1>1 DEF Pass, ChainOf
  <1>3. Len(chain) \in Nat
    BY <1>1, ChainFacts DEF Descends
  <1>4. Running(chain, <<>>)
    BY <1>3, EmptySeq DEF Running
  <1>. QED
    BY <1>1, <1>2, <1>4

\* The request under way.
LEMMA RequestIs ==
  ASSUME ServerInv, Serving
  PROVE  /\ stage = "requested" /\ response = NoAnswer
         /\ request.build \in DOMAIN site /\ request.at \in Locations /\ request.hops \in Nat
         /\ request.chain = ChainOf(request.build, request.at)
         /\ request = [at |-> request.at, build |-> request.build, hops |-> request.hops,
                       chain |-> request.chain, executions |-> request.executions]
         /\ Len(request.chain) \in Nat /\ DOMAIN request.chain = 1..Len(request.chain)
         /\ Running(request.chain, request.executions)
         /\ Len(request.executions) \in Nat
         /\ (request.hops = 0 => request.at = window)
  <1>1. /\ stage = "requested" /\ response = NoAnswer /\ site \in Sites
        /\ request \in [at : Locations, build : DOMAIN site, hops : Nat,
                        chain : {ChainOf(request.build, request.at)},
                        executions : {request.executions}]
        /\ Running(request.chain, request.executions)
        /\ (request.hops = 0 => request.at = window)
    BY DEF ServerInv
  <1>2. /\ request.build \in DOMAIN site /\ request.at \in Locations /\ request.hops \in Nat
        /\ request.chain = ChainOf(request.build, request.at)
        /\ request = [at |-> request.at, build |-> request.build, hops |-> request.hops,
                      chain |-> request.chain, executions |-> request.executions]
    BY <1>1
  <1>3. Len(request.chain) \in Nat /\ DOMAIN request.chain = 1..Len(request.chain)
    BY <1>1, <1>2, ChainFacts DEF Descends
  <1>4. Len(request.executions) \in Nat
    BY <1>1 DEF Running
  <1>. QED
    BY <1>1, <1>2, <1>3, <1>4

\* The request is answered.
LEMMA AnswerKeeps ==
  ASSUME ServerInv, Serving, NEW answer, Answer(answer), UNCHANGED browserVars,
         answer.kind = "redirect" => answer.to \in Locations,
         HasPage' => /\ window \in Locations
                     /\ \E build \in DOMAIN site : \E executions : Page(build, window, executions)'
  PROVE  ServerInv'
  <1>1. /\ response' = answer /\ request' = NoRequest /\ site' = site /\ serving' = serving
        /\ window' = window
    BY DEF Answer, browserVars
  <1>2. (site \in Sites /\ serving \in DOMAIN site)'
    BY <1>1 DEF ServerInv
  <1>3. ~ Serving'
    BY <1>1 DEF Serving
  <1>4. (response.kind = "redirect" => response.to \in Locations)'
    BY <1>1
  <1>5. (HasPage => window \in Locations)'
    BY <1>1
  <1>6. (HasPage => \E build \in DOMAIN site : \E executions : Page(build, window, executions))'
    BY <1>1
  <1>. QED
    BY <1>2, <1>3, <1>4, <1>5, <1>6 DEF ServerInv

\* An answer without a page and without a redirect.
LEMMA PlainAnswerKeeps ==
  ASSUME ServerInv, Serving, UNCHANGED browserVars, Answer(Shell) \/ Answer(Bare)
  PROVE  ServerInv'
  <1>1. CASE Answer(Shell)
    <2>1. ~ HasPage'
      BY <1>1 DEF Answer, Shell, HasPage
    <2>2. Shell.kind # "redirect"
      BY DEF Shell
    <2>. QED
      BY <1>1, <2>1, <2>2, AnswerKeeps
  <1>2. CASE Answer(Bare)
    <2>1. ~ HasPage'
      BY <1>2 DEF Answer, Bare, HasPage
    <2>2. Bare.kind # "redirect"
      BY DEF Bare
    <2>. QED
      BY <1>2, <2>1, <2>2, AnswerKeeps
  <1>. QED
    BY <1>1, <1>2

\* A page is answered only where the browser asked for it.
LEMMA DocumentKeeps ==
  ASSUME ServerInv, Serving, UNCHANGED browserVars,
         NEW status, NEW executions, NEW notFound \in BOOLEAN,
         Complete(request.chain, executions),
         executions = <<>> /\ notFound => Manifest.rootBoundary,
         AnswerOrRedirect(Document(status, executions, notFound))
  PROVE  ServerInv'
  <1>1. /\ request.build \in DOMAIN site /\ request.at \in Locations /\ request.hops \in Nat
        /\ request.chain = ChainOf(request.build, request.at)
        /\ (request.hops = 0 => request.at = window)
    BY RequestIs
  <1>2. CASE request.hops > 0
    <2>1. Answer(Redirect(request.at))
      BY <1>2 DEF AnswerOrRedirect
    <2>2. ~ HasPage' /\ Redirect(request.at).to = request.at
      BY <2>1 DEF Answer, Redirect, HasPage
    <2>. QED
      BY <1>1, <2>1, <2>2, AnswerKeeps
  <1>3. CASE ~ (request.hops > 0)
    <2>1. PICK answer : answer = Document(status, executions, notFound)
      OBVIOUS
    <2>2. Answer(answer)
      BY <1>3, <2>1 DEF AnswerOrRedirect
    <2>3. PICK build \in DOMAIN site : build = request.build
      BY <1>1
    <2>4. PICK at \in Locations : at = request.at
      BY <1>1
    <2>5. at = window
      BY <1>1, <1>3, <2>4
    <2>6. /\ response' = Document(status, executions, notFound) /\ site' = site /\ window' = window
      BY <2>1, <2>2 DEF Answer, browserVars
    <2>7. Complete(ChainOf(build, at), executions)
      BY <1>1, <2>3, <2>4
    <2>8. HasPage' => Page(build, at, executions)'
      BY <2>3, <2>4, <2>6, <2>7, DocumentIsPage
    <2>9. HasPage' => \E b \in DOMAIN site : \E e : Page(b, window, e)'
      BY <2>5, <2>6, <2>8
    <2>10. answer.kind # "redirect"
      BY <2>1 DEF Document, Shell
    <2>. QED
      BY <2>2, <2>4, <2>5, <2>9, <2>10, AnswerKeeps
  <1>. QED
    BY <1>2, <1>3

\* A request goes on.
LEMMA UnderWay ==
  ASSUME (site \in Sites /\ serving \in DOMAIN site /\ stage = "requested" /\ response = NoAnswer)',
         request' \in [at : Locations, build : DOMAIN site', hops : Nat,
                       chain : {ChainOf(request.build, request.at)'},
                       executions : {request'.executions}],
         Running(request.chain, request.executions)',
         (request.hops = 0 => request.at = window)'
  PROVE  ServerInv'
  <1>1. response'.kind # "redirect" /\ ~ HasPage'
    BY DEF NoAnswer, HasPage
  <1>. QED
    BY <1>1 DEF ServerInv

LEMMA RunLoaderKeeps ==
  ASSUME ServerInv, RunLoader, UNCHANGED browserVars
  PROVE  ServerInv'
  <1>1. Serving /\ Remaining
    BY DEF RunLoader
  <1>2. /\ stage = "requested" /\ response = NoAnswer
        /\ request.build \in DOMAIN site /\ request.at \in Locations /\ request.hops \in Nat
        /\ request.chain = ChainOf(request.build, request.at)
        /\ request = [at |-> request.at, build |-> request.build, hops |-> request.hops,
                      chain |-> request.chain, executions |-> request.executions]
        /\ Len(request.chain) \in Nat /\ DOMAIN request.chain = 1..Len(request.chain)
        /\ Running(request.chain, request.executions)
        /\ (request.hops = 0 => request.at = window)
    BY <1>1, RequestIs
  <1>3. PICK r : r = request
    OBVIOUS
  <1>4. PICK state : /\ state \in Passed(Current.route)
                     /\ request' = [r EXCEPT !.executions = Append(@, Execution(Current, state))]
    BY <1>3 DEF RunLoader, Passed
  <1>5. PICK run : run = Append(r.executions, Execution(Current, state))
    OBVIOUS
  <1>6. request' = [at |-> r.at, build |-> r.build, hops |-> r.hops, chain |-> r.chain,
                    executions |-> run]
    BY <1>2, <1>3, <1>4, <1>5
  <1>7. Running(r.chain, run)
    BY <1>1, <1>2, <1>3, <1>4, <1>5, AppendRuns DEF Current, Remaining
  <1>8. UNCHANGED <<site, serving, response, window, stage>>
    BY DEF RunLoader, browserVars
  <1>9. ChainOf(request.build, request.at)' = r.chain
    BY <1>2, <1>3, <1>6, <1>8 DEF ChainOf
  <1>10. request' \in [at : Locations, build : DOMAIN site', hops : Nat,
                       chain : {ChainOf(request.build, request.at)'},
                       executions : {request'.executions}]
    <2>1. request'.executions = run
      BY <1>6
    <2>. QED
      BY <1>2, <1>3, <1>6, <1>8, <1>9, <2>1
  <1>11. Running(request.chain, request.executions)'
    BY <1>6, <1>7 DEF Running, Executed
  <1>12. (request.hops = 0 => request.at = window)'
    BY <1>2, <1>3, <1>6, <1>8
  <1>13. (site \in Sites /\ serving \in DOMAIN site /\ stage = "requested" /\ response = NoAnswer)'
    BY <1>2, <1>8 DEF ServerInv
  <1>. QED
    BY <1>10, <1>11, <1>12, <1>13, UnderWay

LEMMA LoaderNotFoundKeeps ==
  ASSUME ServerInv, LoaderNotFound, UNCHANGED browserVars
  PROVE  ServerInv'
  <1>1. Serving /\ Remaining /\ Current.route.loader
    BY DEF LoaderNotFound
  <1>2. /\ Len(request.chain) \in Nat /\ DOMAIN request.chain = 1..Len(request.chain)
        /\ Running(request.chain, request.executions)
    BY <1>1, RequestIs
  <1>3. PICK run : run = Append(request.executions,
                                Execution(request.chain[Len(request.executions) + 1], "notFound"))
    OBVIOUS
  <1>4. AnswerOrRedirect(NotFoundAnswer(run))
    BY <1>3 DEF LoaderNotFound, Current
  <1>5. CASE BoundaryOwners(run) = {} /\ Manifest.rootBoundary
    <2>1. NotFoundAnswer(run) = Document(404, <<>>, TRUE)
      BY <1>5 DEF NotFoundAnswer
    <2>2. Complete(request.chain, <<>>)
      BY <1>2, EmptySeq DEF Complete
    <2>3. AnswerOrRedirect(Document(404, <<>>, TRUE))
      BY <1>4, <2>1
    <2>. QED
      BY <1>1, <1>5, <2>2, <2>3, DocumentKeeps
  <1>6. CASE BoundaryOwners(run) = {} /\ ~ Manifest.rootBoundary
    <2>1. AnswerOrRedirect(Bare)
      BY <1>4, <1>6 DEF NotFoundAnswer
    <2>2. CASE request.hops > 0
      <3>1. Answer(Redirect(request.at))
        BY <2>1, <2>2 DEF AnswerOrRedirect
      <3>2. ~ HasPage' /\ Redirect(request.at).to \in Locations
        BY <1>1, <3>1, RequestIs DEF Answer, Redirect, HasPage
      <3>. QED
        BY <1>1, <3>1, <3>2, AnswerKeeps
    <2>3. CASE ~ (request.hops > 0)
      BY <1>1, <2>1, <2>3, PlainAnswerKeeps DEF AnswerOrRedirect
    <2>. QED
      BY <2>2, <2>3
  <1>7. CASE BoundaryOwners(run) # {}
    <2>1. PICK cut : cut = Cut(run)
      OBVIOUS
    <2>2. NotFoundAnswer(run) = Document(404, cut, TRUE)
      BY <1>7, <2>1 DEF NotFoundAnswer, Cut
    <2>3. Complete(request.chain, cut) /\ cut # <<>>
      <3>1. Len(request.executions) < Len(request.chain)
        BY <1>1 DEF Remaining
      <3>2. PICK chain : chain = request.chain
        OBVIOUS
      <3>3. PICK executions : executions = request.executions
        OBVIOUS
      <3>4. /\ Len(chain) \in Nat /\ DOMAIN chain = 1..Len(chain) /\ Running(chain, executions)
            /\ Len(executions) < Len(chain) /\ chain[Len(executions) + 1].route.loader
            /\ run = Append(executions, Execution(chain[Len(executions) + 1], "notFound"))
        BY <1>1, <1>2, <1>3, <3>1, <3>2, <3>3 DEF Current
      <3>5. Complete(chain, cut) /\ cut # <<>>
        BY <1>7, <2>1, <3>4, CutIsComplete
      <3>. QED
        BY <3>2, <3>5
    <2>4. AnswerOrRedirect(Document(404, cut, TRUE))
      BY <1>4, <2>2
    <2>. QED
      BY <1>1, <2>3, <2>4, DocumentKeeps
  <1>. QED
    BY <1>5, <1>6, <1>7

LEMMA LoaderRedirectsKeeps ==
  ASSUME ServerInv, NEW to \in Targets, LoaderRedirects(to), UNCHANGED browserVars
  PROVE  ServerInv'
  <1>1. Serving
    BY DEF LoaderRedirects
  <1>2. CASE request.hops + 1 > MaxHops \/ to \in Malformed
    BY <1>1, <1>2, PlainAnswerKeeps DEF LoaderRedirects
  <1>3. CASE ~ (request.hops + 1 > MaxHops \/ to \in Malformed)
    <2>1. /\ stage = "requested" /\ response = NoAnswer
          /\ request.build \in DOMAIN site /\ request.hops \in Nat
      BY <1>1, RequestIs
    <2>2. request' = Pass(request.build, to, request.hops + 1)
          /\ UNCHANGED <<site, serving, response, window, stage>>
      BY <1>3 DEF LoaderRedirects, browserVars
    <2>3. to \in Locations /\ request.hops + 1 \in Nat /\ site \in Sites
      BY <1>3, <2>1 DEF Locations, ServerInv
    <2>4. PICK r : r = request'
      OBVIOUS
    <2>5. /\ r \in [at : Locations, build : DOMAIN site, hops : Nat,
                     chain : {ChainOf(r.build, r.at)}, executions : {r.executions}]
          /\ Running(r.chain, r.executions)
      BY <2>1, <2>2, <2>3, <2>4, PassBegins
    <2>6. r.hops # 0
      BY <2>1, <2>2, <2>4 DEF Pass
    <2>7. ChainOf(request.build, request.at)' = ChainOf(r.build, r.at)
      BY <2>2, <2>4 DEF ChainOf
    <2>8. request' \in [at : Locations, build : DOMAIN site', hops : Nat,
                        chain : {ChainOf(request.build, request.at)'},
                        executions : {request'.executions}]
      BY <2>2, <2>4, <2>5, <2>7
    <2>9. Running(request.chain, request.executions)'
      BY <2>4, <2>5 DEF Running, Executed
    <2>10. (request.hops = 0 => request.at = window)'
      BY <2>4, <2>6
    <2>11. (site \in Sites /\ serving \in DOMAIN site /\ stage = "requested" /\ response = NoAnswer)'
      BY <2>1, <2>2 DEF ServerInv
    <2>. QED
      BY <2>8, <2>9, <2>10, <2>11, UnderWay
  <1>. QED
    BY <1>2, <1>3

LEMMA RenderKeeps ==
  ASSUME ServerInv, Render, UNCHANGED browserVars
  PROVE  ServerInv'
  <1>1. /\ Serving /\ ~Remaining
        /\ AnswerOrRedirect(Document(200, request.executions, FALSE))
    BY DEF Render
  <1>2. /\ Len(request.chain) \in Nat /\ Len(request.executions) \in Nat
        /\ Running(request.chain, request.executions)
    BY <1>1, RequestIs
  <1>3. Len(request.executions) = Len(request.chain)
    BY <1>1, <1>2 DEF Remaining, Running
  <1>4. Complete(request.chain, request.executions)
    BY <1>2, <1>3, RunIsComplete
  <1>. QED
    BY <1>1, <1>4, DocumentKeeps

LEMMA ServerStepKeeps ==
  ASSUME IInv, ServerStep, UNCHANGED browserVars
  PROVE  IInv'
  <1>1. Serving
    BY DEF ServerStep, RunLoader, LoaderNotFound, LoaderRedirects, LoaderBreaks, Render
  <1>2. ServerInv'
    <2>1. ServerInv
      BY DEF IInv
    <2>2. CASE RunLoader
      BY <2>1, <2>2, RunLoaderKeeps
    <2>3. CASE LoaderNotFound
      BY <2>1, <2>3, LoaderNotFoundKeeps
    <2>4. CASE \E to \in Targets : LoaderRedirects(to)
      BY <2>1, <2>4, LoaderRedirectsKeeps
    <2>5. CASE LoaderBreaks
      BY <1>1, <2>1, <2>5, PlainAnswerKeeps DEF LoaderBreaks
    <2>6. CASE Render
      BY <2>1, <2>6, RenderKeeps
    <2>. QED
      BY <2>2, <2>3, <2>4, <2>5, <2>6 DEF ServerStep
  <1>3. stage = "requested"
    BY <1>1 DEF IInv, ServerInv
  <1>4. stage' = "requested" /\ runtime' = runtime /\ outcome' = outcome
    BY <1>3 DEF browserVars
  <1>5. Shaped(runtime) /\ Untouched(runtime) /\ outcome = "none"
    BY <1>3 DEF IInv, BrowserInv, Early
  <1>6. BrowserInv'
    BY <1>4, <1>5 DEF BrowserInv, Early, Late, Shaped, Untouched
  <1>7. AdoptedAsServed'
    BY <1>4, <1>5 DEF AdoptedAsServed, RefusedForAnErrorGraph
  <1>. QED
    BY <1>2, <1>6, <1>7 DEF IInv

(***************************************************************************)
(* The steps of the browser                                                *)
(***************************************************************************)

\* A page of the browser's build.
LEMMA PageIsServed ==
  ASSUME ServerInv, HasPage, RevisionAgrees(Resumed), manifest \in DOMAIN site
  PROVE  \E executions : Served(executions)
  <1>1. PICK build \in DOMAIN site : \E executions : Page(build, window, executions)
    BY DEF ServerInv
  <1>2. PICK executions : Page(build, window, executions)
    BY <1>1
  <1>3. Resumed.revision = build
    BY <1>2, PageTells
  <1>4. build = manifest
    BY <1>3 DEF RevisionAgrees
  <1>. QED
    BY <1>2, <1>4 DEF Served, ServerInv

\* Nothing the server's invariant is about changes.
LEMMA ServerStays ==
  ASSUME ServerInv, UNCHANGED <<site, request, response, window>>,
         serving' \in DOMAIN site, Serving => stage' = "requested"
  PROVE  ServerInv'
  <1>1. (site \in Sites /\ serving \in DOMAIN site)'
    BY DEF ServerInv
  <1>2. (Serving => /\ stage = "requested" /\ response = NoAnswer
                    /\ request \in [at : Locations, build : DOMAIN site, hops : Nat,
                                    chain : {ChainOf(request.build, request.at)},
                                    executions : {request.executions}]
                    /\ Running(request.chain, request.executions)
                    /\ (request.hops = 0 => request.at = window))'
    BY DEF ServerInv, Serving, ChainOf, Running, Executed
  <1>3. (response.kind = "redirect" => response.to \in Locations)'
    BY DEF ServerInv
  <1>4. (HasPage => window \in Locations)'
    BY DEF ServerInv, HasPage
  <1>5. ASSUME NEW build, NEW executions
        PROVE  Page(build, window, executions)' <=> Page(build, window, executions)
    BY DEF Page, ChainOf
  <1>6. (HasPage => \E build \in DOMAIN site : \E executions : Page(build, window, executions))'
    BY <1>5 DEF ServerInv, HasPage
  <1>. QED
    BY <1>1, <1>2, <1>3, <1>4, <1>6 DEF ServerInv

\* Every instance that Mount puts in a page is the browser's own.
LEMMA MountingKeeps ==
  ASSUME NEW left, NEW registered, Shaped(left), OwnOnly(left), Mounting(left, registered)
  PROVE  Shaped(runtime)' /\ OwnOnly(runtime)' /\ stage' \in {"mounting", "mounted"}
  <1>1. PICK n : /\ runtime' = [left EXCEPT !.registered = registered,
                                            !.instances = Mount(left.instances, n)]
                 /\ stage' \in {"mounting", "mounted"}
    BY DEF Mounting
  <1>2. PICK instances : instances = Mount(left.instances, n)
    OBVIOUS
  <1>3. \A i \in DOMAIN instances : instances[i].origin = "mounted"
    BY <1>2 DEF Mount, Mounted, OwnOnly
  <1>4. /\ runtime' = [registered |-> registered, located |-> left.located, seeded |-> left.seeded,
                       imported |-> left.imported, instances |-> instances]
    BY <1>1, <1>2 DEF Shaped
  <1>5. PICK r : r = runtime'
    OBVIOUS
  <1>6. Shaped(r) /\ r.seeded = left.seeded /\ r.imported = left.imported /\ r.instances = instances
    BY <1>4, <1>5 DEF Shaped
  <1>7. left.seeded = FALSE /\ left.imported = FALSE
    BY DEF OwnOnly
  <1>8. OwnOnly(r)
    BY <1>3, <1>6, <1>7 DEF OwnOnly
  <1>. QED
    BY <1>1, <1>5, <1>6, <1>8 DEF Shaped, OwnOnly

\* A page of the browser's own is begun or goes on.
LEMMA MountingIsFine ==
  ASSUME ServerInv', NEW left, NEW registered, Shaped(left), OwnOnly(left), Mounting(left, registered),
         response'.kind = "document", manifest' \in DOMAIN site', RefusedForAnErrorGraph'
  PROVE  IInv'
  <1>1. Shaped(runtime)' /\ OwnOnly(runtime)' /\ stage' \in {"mounting", "mounted"}
    BY MountingKeeps
  <1>2. BrowserInv'
    BY <1>1 DEF BrowserInv, Early, Late
  <1>3. AdoptedAsServed'
    BY <1>1 DEF AdoptedAsServed
  <1>. QED
    BY <1>2, <1>3 DEF IInv

LEMMA AbandonedIs ==
  ASSUME NEW left, Shaped(left)
  PROVE  Shaped(Abandoned(left)) /\ OwnOnly(Abandoned(left))
  <1>1. PICK located : located = (left.located /\ ~left.seeded)
    OBVIOUS
  <1>2. Abandoned(left) = [registered |-> left.registered, located |-> located, seeded |-> FALSE,
                           imported |-> FALSE, instances |-> <<>>]
    <2>1. Abandoned(left) = [left EXCEPT !.instances = <<>>, !.located = located,
                                         !.seeded = FALSE, !.imported = FALSE]
      BY Zenon, <1>1 DEF Abandoned
    <2>. QED
      BY <2>1 DEF Shaped
  <1>3. PICK r : r = Abandoned(left)
    OBVIOUS
  <1>4. r.seeded = FALSE /\ r.imported = FALSE /\ r.instances = <<>> /\ Shaped(r)
    BY <1>2, <1>3 DEF Shaped
  <1>5. OwnOnly(r)
    BY <1>4 DEF OwnOnly
  <1>. QED
    BY <1>3, <1>4, <1>5

\* Whether a page was refused for its error graph does not change any more.
LEMMA RefusalStays ==
  ASSUME RefusedForAnErrorGraph, UNCHANGED <<site, response, manifest, outcome>>
  PROVE  RefusedForAnErrorGraph'
  <1>. SUFFICES ASSUME outcome = "refused"
                PROVE  (\E i \in DOMAIN Resumed.routes :
                            /\ Resumed.routes[i].phase = "error"
                            /\ ~HasErrorGraph(RouteOf(Resumed.routes[i])))'
    BY DEF RefusedForAnErrorGraph
  <1>1. PICK i \in DOMAIN Resumed.routes :
            /\ Resumed.routes[i].phase = "error" /\ ~HasErrorGraph(RouteOf(Resumed.routes[i]))
    BY DEF RefusedForAnErrorGraph
  <1>2. Resumed' = Resumed
    BY DEF Resumed
  <1>3. RouteOf(Resumed.routes[i])' = RouteOf(Resumed.routes[i])
    BY Zenon, <1>2 DEF RouteOf, Published
  <1>. QED
    BY <1>1, <1>2, <1>3 DEF HasErrorGraph

\* Nothing the browser's invariant is about changes.
LEMMA PageStays ==
  ASSUME IInv, UNCHANGED <<site, response, browserVars>>
  PROVE  BrowserInv' /\ AdoptedAsServed'
  <1>1. UNCHANGED <<site, response, window, stage, manifest, needed, runtime, outcome>>
    BY DEF browserVars
  <1>2. /\ Published' = Published /\ Derived' = Derived /\ Resumed' = Resumed
        /\ HasPage' = HasPage /\ Shaped(runtime)' = Shaped(runtime)
        /\ Untouched(runtime)' = Untouched(runtime) /\ OwnOnly(runtime)' = OwnOnly(runtime)
    BY Zenon, <1>1 DEF Published, Derived, Resumed, HasPage, Shaped, Untouched, OwnOnly
  <1>3. ChainGraphs(Resumed)' = ChainGraphs(Resumed)
    BY Zenon, <1>1 DEF ChainGraphs, GraphsOf, RouteOf, Published, Resumed
  <1>4. RevisionAgrees(Resumed) /\ ChainIsWellFormed(Resumed)
        => (RevisionAgrees(Resumed) /\ ChainIsWellFormed(Resumed))'
    BY <1>1, <1>2 DEF RevisionAgrees, ChainIsWellFormed
  <1>5. Gathered => Gathered'
    BY Zenon, <1>1, <1>3, <1>4 DEF Gathered
  <1>6. BrowserInv'
    BY Zenon, <1>1, <1>2, <1>5 DEF IInv, BrowserInv
  <1>7. RefusedForAnErrorGraph'
    BY <1>1, RefusalStays DEF IInv, AdoptedAsServed
  <1>8. AdoptedAsServed'
    BY Zenon, <1>1, <1>2, <1>7 DEF IInv, AdoptedAsServed
  <1>. QED
    BY <1>6, <1>8

LEMMA OpenKeeps ==
  ASSUME IInv, NEW path \in Paths, Open(path)
  PROVE  IInv'
  <1>1. /\ stage = "idle" /\ window' = path /\ request' = Pass(serving, path, 0)
        /\ stage' = "requested"
        /\ UNCHANGED <<site, serving, response, manifest, needed, runtime, outcome>>
    BY DEF Open
  <1>2. /\ Shaped(runtime) /\ Untouched(runtime) /\ outcome = "none" /\ response = NoAnswer
        /\ site \in Sites /\ serving \in DOMAIN site
    BY <1>1 DEF IInv, ServerInv, BrowserInv, Early
  <1>3. path \in Locations
    BY DEF Locations
  <1>4. PICK r : r = request'
    OBVIOUS
  <1>5. /\ r \in [at : Locations, build : DOMAIN site, hops : Nat,
                  chain : {ChainOf(r.build, r.at)}, executions : {r.executions}]
        /\ Running(r.chain, r.executions) /\ r.at = path
    BY <1>1, <1>2, <1>3, <1>4, PassBegins
  <1>6. ChainOf(request.build, request.at)' = ChainOf(r.build, r.at)
    BY <1>1, <1>4 DEF ChainOf
  <1>7. request' \in [at : Locations, build : DOMAIN site', hops : Nat,
                      chain : {ChainOf(request.build, request.at)'},
                      executions : {request'.executions}]
    BY <1>1, <1>4, <1>5, <1>6
  <1>8. Running(request.chain, request.executions)'
    BY <1>4, <1>5 DEF Running, Executed
  <1>9. (request.hops = 0 => request.at = window)'
    BY <1>1, <1>4, <1>5
  <1>10. ServerInv'
    BY <1>1, <1>2, <1>7, <1>8, <1>9, UnderWay
  <1>11. BrowserInv'
    BY <1>1, <1>2 DEF BrowserInv, Early, Late, Shaped, Untouched
  <1>12. AdoptedAsServed'
    BY <1>1, <1>2 DEF AdoptedAsServed, RefusedForAnErrorGraph
  <1>. QED
    BY <1>10, <1>11, <1>12 DEF IInv

LEMMA DeployKeeps ==
  ASSUME IInv, Deploy, UNCHANGED browserVars
  PROVE  IInv'
  <1>1. /\ serving < Len(site) /\ serving' = serving + 1
        /\ UNCHANGED <<site, request, response>> /\ UNCHANGED browserVars
    BY DEF Deploy
  <1>2. serving' \in DOMAIN site
    <2>1. DOMAIN site = 1..Len(site) /\ Len(site) \in Nat /\ serving \in DOMAIN site
      BY RoutesHaveIds DEF IInv, ServerInv
    <2>. QED
      BY <1>1, <2>1
  <1>3. ServerInv'
    <2>1. Serving => stage' = "requested"
      BY <1>1 DEF IInv, ServerInv, browserVars
    <2>2. ServerInv /\ UNCHANGED <<site, request, response, window>>
      BY <1>1 DEF IInv, browserVars
    <2>. QED
      BY <1>2, <2>1, <2>2, ServerStays
  <1>4. BrowserInv' /\ AdoptedAsServed'
    BY <1>1, PageStays DEF browserVars
  <1>. QED
    BY <1>3, <1>4 DEF IInv

LEMMA FollowRedirectKeeps ==
  ASSUME IInv, FollowRedirect
  PROVE  IInv'
  <1>1. /\ stage = "requested" /\ response.kind = "redirect"
        /\ UNCHANGED <<site, serving, manifest, needed, runtime, outcome>>
    BY DEF FollowRedirect
  <1>2. /\ Shaped(runtime) /\ Untouched(runtime) /\ outcome = "none"
        /\ site \in Sites /\ serving \in DOMAIN site /\ response.to \in Locations /\ ~Serving
    BY <1>1 DEF IInv, ServerInv, BrowserInv, Early, NoAnswer
  <1>3. AdoptedAsServed'
    <2>1. outcome' = "none" /\ stage' # "adopted"
      BY <1>1, <1>2 DEF FollowRedirect
    <2>. QED
      BY <2>1 DEF AdoptedAsServed, RefusedForAnErrorGraph
  <1>4. CASE follows < MaxFollow
    <2>1. /\ window' = response.to /\ request' = Pass(serving, response.to, 0)
          /\ response' = NoAnswer /\ stage' = "requested"
      BY <1>1, <1>4 DEF FollowRedirect
    <2>2. PICK path \in Locations : path = response.to
      BY <1>2
    <2>3. PICK r : r = request'
      OBVIOUS
    <2>4. /\ r \in [at : Locations, build : DOMAIN site, hops : Nat,
                    chain : {ChainOf(r.build, r.at)}, executions : {r.executions}]
          /\ Running(r.chain, r.executions) /\ r.at = path
      BY <1>2, <2>1, <2>2, <2>3, PassBegins
    <2>5. ChainOf(request.build, request.at)' = ChainOf(r.build, r.at)
      BY <1>1, <2>3 DEF ChainOf
    <2>6. request' \in [at : Locations, build : DOMAIN site', hops : Nat,
                        chain : {ChainOf(request.build, request.at)'},
                        executions : {request'.executions}]
      BY <1>1, <2>3, <2>4, <2>5
    <2>7. Running(request.chain, request.executions)'
      BY <2>3, <2>4 DEF Running, Executed
    <2>8. (request.hops = 0 => request.at = window)'
      BY <2>1, <2>2, <2>3, <2>4
    <2>9. ServerInv'
      BY <1>1, <1>2, <2>1, <2>6, <2>7, <2>8, UnderWay
    <2>10. BrowserInv'
      BY <1>1, <1>2, <2>1 DEF BrowserInv, Early, Late, Shaped, Untouched
    <2>. QED
      BY <1>3, <2>9, <2>10 DEF IInv
  <1>5. CASE ~ (follows < MaxFollow)
    <2>1. stage' = "dead" /\ UNCHANGED <<window, request, response>>
      BY <1>1, <1>5 DEF FollowRedirect
    <2>2. ServerInv'
      BY <1>1, <1>2, <2>1, ServerStays DEF IInv
    <2>3. BrowserInv'
      BY <1>1, <1>2, <2>1 DEF BrowserInv, Early, Late, Shaped
    <2>. QED
      BY <1>3, <2>2, <2>3 DEF IInv
  <1>. QED
    BY <1>4, <1>5

\* A stage at which no request is under way.
LEMMA BrowserStays ==
  ASSUME IInv, stage # "requested", UNCHANGED <<serverVars, window>>
  PROVE  ServerInv'
  <1>1. ServerInv /\ serving \in DOMAIN site /\ ~Serving
    BY DEF IInv, ServerInv
  <1>. QED
    BY <1>1, ServerStays DEF serverVars

LEMMA ReceiveKeeps ==
  ASSUME IInv, Receive
  PROVE  IInv'
  <1>1. /\ stage = "requested" /\ response.kind \in {"document", "bare"}
        /\ stage' = IF response.kind = "bare" THEN "bare" ELSE "manifest"
        /\ UNCHANGED <<serverVars, window, manifest, needed, runtime, outcome>>
    BY DEF Receive
  <1>2. /\ Shaped(runtime) /\ Untouched(runtime) /\ outcome = "none"
        /\ serving \in DOMAIN site /\ ~Serving
    BY <1>1 DEF IInv, ServerInv, BrowserInv, Early, NoAnswer
  <1>3. ServerInv'
    BY <1>1, <1>2, ServerStays DEF IInv, serverVars
  <1>4. stage' = "bare" \/ (stage' = "manifest" /\ response'.kind = "document")
    BY <1>1 DEF serverVars
  <1>5. BrowserInv'
    BY <1>1, <1>2, <1>4 DEF BrowserInv, Early, Late, Shaped, Untouched
  <1>6. AdoptedAsServed'
    BY <1>1, <1>2, <1>4 DEF AdoptedAsServed, RefusedForAnErrorGraph
  <1>. QED
    BY <1>3, <1>5, <1>6 DEF IInv

LEMMA LoadManifestKeeps ==
  ASSUME IInv, LoadManifest
  PROVE  IInv'
  <1>1. /\ stage = "manifest" /\ manifest' = serving /\ runtime' = [runtime EXCEPT !.located = TRUE]
        /\ needed' = <<RootGraph(FALSE)>> /\ stage' = "root"
        /\ UNCHANGED <<serverVars, window, outcome>>
    BY DEF LoadManifest
  <1>2. /\ Shaped(runtime) /\ Untouched(runtime) /\ outcome = "none"
        /\ serving \in DOMAIN site /\ response.kind = "document"
    BY <1>1 DEF IInv, ServerInv, BrowserInv, Early, Late
  <1>3. ServerInv'
    BY <1>1, BrowserStays
  <1>4. Shaped(runtime)' /\ Untouched(runtime)'
    BY <1>1, <1>2 DEF Shaped, Untouched
  <1>5. BrowserInv'
    BY <1>1, <1>2, <1>4 DEF BrowserInv, Early, Late, serverVars
  <1>6. AdoptedAsServed'
    BY <1>1, <1>2 DEF AdoptedAsServed, RefusedForAnErrorGraph
  <1>. QED
    BY <1>3, <1>5, <1>6 DEF IInv

LEMMA LoadRootGraphKeeps ==
  ASSUME IInv, LoadRootGraph
  PROVE  IInv'
  <1>1. stage = "root" /\ UNCHANGED <<serverVars, window, manifest>>
    BY DEF LoadRootGraph
  <1>2. /\ Shaped(runtime) /\ Untouched(runtime) /\ outcome = "none" /\ needed = <<RootGraph(FALSE)>>
        /\ manifest \in DOMAIN site /\ response.kind = "document"
    BY <1>1 DEF IInv, BrowserInv, Early, Late
  <1>3. ServerInv'
    BY <1>1, BrowserStays
  <1>4. CASE \E code \in {"none", "stale-revision", "route-chain"} :
                 outcome' = code /\ Mounting(runtime, WithNeeded)
    <2>1. OwnOnly(runtime)
      BY <1>2 DEF Untouched, OwnOnly
    <2>2. RefusedForAnErrorGraph'
      BY <1>4 DEF RefusedForAnErrorGraph
    <2>3. response'.kind = "document" /\ manifest' \in DOMAIN site'
      BY <1>1, <1>2 DEF serverVars
    <2>. QED
      BY <1>2, <1>3, <1>4, <2>1, <2>2, <2>3, MountingIsFine
  <1>5. CASE /\ response.snapshot # <<>> /\ RevisionAgrees(Resumed) /\ ChainIsWellFormed(Resumed)
             /\ runtime' = [runtime EXCEPT !.registered = WithNeeded]
             /\ needed' = ChainGraphs(Resumed) /\ stage' = "graphs" /\ UNCHANGED outcome
    <2>1. HasPage
      BY <1>2, <1>5 DEF HasPage
    <2>2. PICK executions : Served(executions)
      BY <1>2, <1>5, <2>1, PageIsServed DEF IInv
    <2>3. PICK graphs : graphs = ChainGraphs(Resumed)
      OBVIOUS
    <2>4. graphs \in Seq(Range(graphs))
      BY <2>2, <2>3, RenderedIsNeeded
    <2>5. RootGraph(FALSE) \in WithNeeded
      <3>1. Head(needed) = RootGraph(FALSE)
        BY <1>2
      <3>. QED
        BY <3>1 DEF WithNeeded
    <2>6. Shaped(runtime)' /\ Untouched(runtime)' /\ runtime'.registered = WithNeeded
      BY <1>2, <1>5 DEF Shaped, Untouched
    <2>7. ChainGraphs(Resumed)' = graphs
      BY <1>1, <2>3 DEF ChainGraphs, GraphsOf, RouteOf, Published, Resumed, serverVars
    <2>8. (RevisionAgrees(Resumed) /\ ChainIsWellFormed(Resumed))'
      BY <1>1, <1>5 DEF RevisionAgrees, ChainIsWellFormed, Published, Resumed, serverVars
    <2>9. \A graph \in Range(graphs) : \E k \in 1..Len(graphs) : graphs[k] = graph
      BY <2>4, LenProperties DEF Range
    <2>10. Gathered'
      BY <1>5, <2>3, <2>4, <2>5, <2>6, <2>7, <2>8, <2>9 DEF Gathered
    <2>11. HasPage' /\ response'.kind = "document" /\ (manifest \in DOMAIN site)'
      BY <1>1, <1>2, <2>1 DEF HasPage, serverVars
    <2>12. BrowserInv'
      BY <1>2, <1>5, <2>6, <2>10, <2>11 DEF BrowserInv, Early, Late
    <2>13. AdoptedAsServed'
      BY <1>2, <1>5 DEF AdoptedAsServed, RefusedForAnErrorGraph
    <2>. QED
      BY <1>3, <2>12, <2>13 DEF IInv
  <1>. QED
    BY <1>4, <1>5 DEF LoadRootGraph

LEMMA LoadChainGraphKeeps ==
  ASSUME IInv, LoadChainGraph
  PROVE  IInv'
  <1>1. /\ stage = "graphs" /\ needed # <<>>
        /\ runtime' = [runtime EXCEPT !.registered = WithNeeded] /\ needed' = Tail(needed)
        /\ UNCHANGED <<serverVars, window, stage, manifest, outcome>>
    BY DEF LoadChainGraph
  <1>2. /\ Shaped(runtime) /\ Untouched(runtime) /\ outcome = "none" /\ HasPage /\ Gathered
        /\ manifest \in DOMAIN site /\ response.kind = "document"
    BY <1>1 DEF IInv, BrowserInv, Early, Late
  <1>3. ServerInv'
    BY <1>1, BrowserStays
  <1>4. Shaped(runtime)' /\ Untouched(runtime)' /\ runtime'.registered = WithNeeded
    BY <1>1, <1>2 DEF Shaped, Untouched
  <1>5. PICK graphs : graphs = Range(ChainGraphs(Resumed))
    OBVIOUS
  <1>6. /\ needed \in Seq(graphs) /\ RootGraph(FALSE) \in runtime.registered
        /\ \A graph \in graphs :
               graph \in runtime.registered \/ \E k \in 1..Len(needed) : needed[k] = graph
    BY <1>2, <1>5 DEF Gathered
  <1>7. /\ Tail(needed) \in Seq(graphs) /\ Len(Tail(needed)) = Len(needed) - 1
        /\ \A i \in 1..Len(Tail(needed)) : Tail(needed)[i] = needed[i + 1]
        /\ Head(needed) = needed[1] /\ Len(needed) \in Nat
    BY <1>1, <1>6, HeadTailProperties, LenProperties
  <1>8. ASSUME NEW graph \in graphs
        PROVE  graph \in WithNeeded \/ \E k \in 1..Len(Tail(needed)) : Tail(needed)[k] = graph
    <2>1. CASE graph \in runtime.registered
      BY <2>1 DEF WithNeeded
    <2>2. CASE \E k \in 1..Len(needed) : needed[k] = graph
      <3>1. PICK k \in 1..Len(needed) : needed[k] = graph
        BY <2>2
      <3>2. CASE k = 1
        BY <1>7, <3>1, <3>2 DEF WithNeeded
      <3>3. CASE k # 1
        <4>1. k - 1 \in 1..Len(Tail(needed)) /\ k - 1 + 1 = k
          BY <1>7, <3>3
        <4>2. Tail(needed)[k - 1] = graph
          BY <1>7, <3>1, <4>1
        <4>. QED
          BY <4>1, <4>2
      <3>. QED
        BY <3>2, <3>3
    <2>. QED
      BY <1>6, <2>1, <2>2
  <1>9. Range(ChainGraphs(Resumed))' = graphs
    BY <1>1, <1>5 DEF ChainGraphs, GraphsOf, RouteOf, Published, Resumed, serverVars
  <1>10. (RevisionAgrees(Resumed) /\ ChainIsWellFormed(Resumed))'
    BY <1>1, <1>2 DEF Gathered, RevisionAgrees, ChainIsWellFormed, Published, Resumed, serverVars
  <1>11. RootGraph(FALSE) \in WithNeeded
    BY <1>6 DEF WithNeeded
  <1>12. Gathered'
    BY <1>1, <1>4, <1>7, <1>8, <1>9, <1>10, <1>11 DEF Gathered
  <1>13. HasPage' /\ response'.kind = "document" /\ (manifest \in DOMAIN site)' /\ stage' = "graphs"
    BY <1>1, <1>2 DEF HasPage, serverVars
  <1>14. BrowserInv'
    BY <1>1, <1>2, <1>4, <1>12, <1>13 DEF BrowserInv, Early, Late
  <1>15. AdoptedAsServed'
    BY <1>1, <1>2, <1>13 DEF AdoptedAsServed, RefusedForAnErrorGraph
  <1>. QED
    BY <1>3, <1>14, <1>15 DEF IInv

LEMMA AdoptKeeps ==
  ASSUME IInv, Adopt
  PROVE  IInv'
  <1>1. stage = "graphs" /\ needed = <<>> /\ UNCHANGED <<serverVars, window, manifest>>
    BY DEF Adopt
  <1>2. /\ Shaped(runtime) /\ Untouched(runtime) /\ HasPage /\ Gathered
        /\ manifest \in DOMAIN site /\ response.kind = "document"
    BY <1>1 DEF IInv, BrowserInv, Early, Late
  <1>3. ServerInv'
    BY <1>1, BrowserStays
  <1>4. PICK executions : Served(executions)
    BY <1>2, PageIsServed DEF IInv, Gathered
  <1>5. AllFetched
    <2>1. \A k \in 1..Len(needed) : FALSE
      BY <1>1
    <2>. QED
      BY <1>2, <2>1 DEF Gathered, AllFetched
  <1>6. PICK result : /\ result = StartAdopt(Resumed)
                      /\ IF result.succeeds
                         THEN /\ runtime' = result.runtime
                              /\ outcome' = "adopted" /\ stage' = "adopted"
                         ELSE /\ outcome' = "refused"
                              /\ Mounting(Abandoned(result.runtime), runtime.registered)
    BY DEF Adopt
  <1>7. /\ Shaped(result.runtime)
        /\ result.succeeds => /\ Len(result.runtime.instances) = Len(response.rendered)
                              /\ \A i \in DOMAIN result.runtime.instances :
                                     LET shown == result.runtime.instances[i]
                                         served == response.rendered[i]
                                     IN  /\ shown.graph = served.graph /\ shown.phase = served.phase
                                         /\ shown.phase = "active" /\ i > 1 /\ Derived[i - 1].route.loader
                                            => shown.data = served.data
        /\ ~result.succeeds => \E i \in DOMAIN Resumed.routes :
                                   /\ Resumed.routes[i].phase = "error"
                                   /\ ~HasErrorGraph(RouteOf(Resumed.routes[i]))
    BY <1>2, <1>4, <1>5, <1>6, AdoptsOrRefuses DEF Untouched
  <1>8. response'.kind = "document" /\ (manifest \in DOMAIN site)'
    BY <1>1, <1>2 DEF serverVars
  <1>9. CASE result.succeeds
    <2>1. runtime' = result.runtime /\ outcome' = "adopted" /\ stage' = "adopted"
      BY <1>6, <1>9
    <2>2. Shaped(runtime)'
      BY <1>7, <2>1 DEF Shaped
    <2>3. BrowserInv'
      BY <1>8, <2>1, <2>2 DEF BrowserInv, Early, Late
    <2>4. UNCHANGED <<Resumed, Derived, response>>
      BY <1>1 DEF Resumed, Derived, Published, serverVars
    <2>5. (Resumed.revision = manifest)'
      BY <1>1, <1>2, <2>4 DEF Gathered, RevisionAgrees
    <2>6. RefusedForAnErrorGraph'
      BY <2>1 DEF RefusedForAnErrorGraph
    <2>7. AdoptedAsServed'
      BY <1>7, <1>9, <2>1, <2>4, <2>5, <2>6 DEF AdoptedAsServed
    <2>. QED
      BY <1>3, <2>3, <2>7 DEF IInv
  <1>10. CASE ~result.succeeds
    <2>1. Mounting(Abandoned(result.runtime), runtime.registered)
      BY <1>6, <1>10
    <2>2. Shaped(Abandoned(result.runtime)) /\ OwnOnly(Abandoned(result.runtime))
      BY <1>7, AbandonedIs
    <2>3. RefusedForAnErrorGraph'
      BY <1>1, <1>7, <1>10 DEF RefusedForAnErrorGraph, Resumed, RouteOf, Published, serverVars
    <2>. QED
      BY <1>3, <1>8, <2>1, <2>2, <2>3, MountingIsFine
  <1>. QED
    BY <1>9, <1>10

LEMMA LoadNeededGraphKeeps ==
  ASSUME IInv, LoadNeededGraph
  PROVE  IInv'
  <1>1. /\ stage = "mounting" /\ Mounting(runtime, WithNeeded)
        /\ UNCHANGED <<serverVars, window, manifest, outcome>>
    BY DEF LoadNeededGraph
  <1>2. Shaped(runtime) /\ OwnOnly(runtime) /\ manifest \in DOMAIN site /\ response.kind = "document"
    BY <1>1 DEF IInv, BrowserInv, Early, Late
  <1>3. ServerInv'
    BY <1>1, BrowserStays
  <1>4. RefusedForAnErrorGraph'
    BY <1>1, RefusalStays DEF IInv, AdoptedAsServed, serverVars
  <1>5. response'.kind = "document" /\ (manifest \in DOMAIN site)'
    BY <1>1, <1>2 DEF serverVars
  <1>. QED
    BY <1>1, <1>2, <1>3, <1>4, <1>5, MountingIsFine

LEMMA FetchFailsKeeps ==
  ASSUME IInv, FetchFails
  PROVE  IInv'
  <1>1. /\ stage \in {"manifest", "root", "graphs", "mounting"}
        /\ UNCHANGED <<serverVars, window, manifest>>
    BY DEF FetchFails, Unavailable
  <1>2. /\ Shaped(runtime) /\ response.kind = "document"
        /\ stage # "manifest" => manifest \in DOMAIN site
        /\ stage # "mounting" => Untouched(runtime) /\ outcome = "none"
    BY <1>1 DEF IInv, BrowserInv, Early, Late
  <1>3. ServerInv'
    BY <1>1, BrowserStays
  <1>4. response'.kind = "document" /\ (stage # "manifest" => manifest' \in DOMAIN site')
    BY <1>1, <1>2 DEF serverVars
  <1>5. CASE stage = "graphs"
    <2>1. outcome' = "fetch" /\ Mounting(Abandoned(runtime), runtime.registered)
      BY <1>5 DEF FetchFails
    <2>2. Shaped(Abandoned(runtime)) /\ OwnOnly(Abandoned(runtime))
      BY <1>2, AbandonedIs
    <2>3. RefusedForAnErrorGraph'
      BY <2>1 DEF RefusedForAnErrorGraph
    <2>. QED
      BY <1>3, <1>4, <1>5, <2>1, <2>2, <2>3, MountingIsFine
  <1>6. CASE stage # "graphs"
    <2>1. /\ stage' = IF stage = "mounting" THEN "incomplete" ELSE "dead"
          /\ UNCHANGED <<runtime, needed, outcome>>
      BY <1>6 DEF FetchFails
    <2>2. Shaped(runtime)'
      BY <1>2, <2>1 DEF Shaped
    <2>3. RefusedForAnErrorGraph'
      BY <1>1, <2>1, RefusalStays DEF IInv, AdoptedAsServed, serverVars
    <2>4. CASE stage = "mounting"
      <3>1. BrowserInv'
        BY <1>4, <2>1, <2>2, <2>4 DEF BrowserInv, Early, Late
      <3>2. AdoptedAsServed'
        BY <2>1, <2>3, <2>4 DEF AdoptedAsServed
      <3>. QED
        BY <1>3, <3>1, <3>2 DEF IInv
    <2>5. CASE stage # "mounting"
      <3>1. BrowserInv'
        BY <1>2, <1>4, <2>1, <2>2, <2>5 DEF BrowserInv, Early, Late
      <3>2. AdoptedAsServed'
        BY <2>1, <2>3, <2>5 DEF AdoptedAsServed
      <3>. QED
        BY <1>3, <3>1, <3>2 DEF IInv
    <2>. QED
      BY <2>4, <2>5
  <1>. QED
    BY <1>5, <1>6

(***************************************************************************)
(* The theorems                                                            *)
(***************************************************************************)

LEMMA InitIInv ==
  ASSUME Init
  PROVE  IInv
  <1>1. /\ site \in Sites /\ serving = 1 /\ request = NoRequest /\ response = NoAnswer
        /\ stage = "idle" /\ runtime = Fresh /\ outcome = "none"
    BY DEF Init, ServerInit
  <1>2. serving \in DOMAIN site
    BY <1>1, RoutesHaveIds
  <1>3. ServerInv
    BY <1>1, <1>2 DEF ServerInv, Serving, NoAnswer, HasPage
  <1>4. BrowserInv
    BY <1>1 DEF BrowserInv, Early, Late, Fresh, Shaped, Untouched
  <1>5. AdoptedAsServed
    BY <1>1 DEF AdoptedAsServed, RefusedForAnErrorGraph
  <1>. QED
    BY <1>3, <1>4, <1>5 DEF IInv

LEMMA StutterKeeps ==
  ASSUME IInv, UNCHANGED vars
  PROVE  IInv'
  <1>1. UNCHANGED <<site, serving, request, response>> /\ UNCHANGED browserVars
    BY DEF vars, serverVars
  <1>2. ServerInv'
    <2>1. serving' \in DOMAIN site /\ (Serving => stage' = "requested")
      BY <1>1 DEF IInv, ServerInv, browserVars
    <2>2. ServerInv /\ UNCHANGED <<site, request, response, window>>
      BY <1>1 DEF IInv, browserVars
    <2>. QED
      BY <2>1, <2>2, ServerStays
  <1>3. BrowserInv' /\ AdoptedAsServed'
    BY <1>1, PageStays DEF browserVars
  <1>. QED
    BY <1>2, <1>3 DEF IInv

LEMMA NextKeeps ==
  ASSUME IInv, [Next]_vars
  PROVE  IInv'
  <1>1. CASE \E path \in Paths : Open(path)
    BY <1>1, OpenKeeps
  <1>2. CASE ServerStep /\ UNCHANGED browserVars
    BY <1>2, ServerStepKeeps
  <1>3. CASE Deploy /\ UNCHANGED browserVars
    BY <1>3, DeployKeeps
  <1>4. CASE FollowRedirect
    BY <1>4, FollowRedirectKeeps
  <1>5. CASE Receive
    BY <1>5, ReceiveKeeps
  <1>6. CASE LoadManifest
    BY <1>6, LoadManifestKeeps
  <1>7. CASE LoadRootGraph
    BY <1>7, LoadRootGraphKeeps
  <1>8. CASE LoadChainGraph
    BY <1>8, LoadChainGraphKeeps
  <1>9. CASE Adopt
    BY <1>9, AdoptKeeps
  <1>10. CASE LoadNeededGraph
    BY <1>10, LoadNeededGraphKeeps
  <1>11. CASE FetchFails
    BY <1>11, FetchFailsKeeps
  <1>12. CASE UNCHANGED vars
    BY <1>12, StutterKeeps
  <1>. QED
    BY <1>1, <1>2, <1>3, <1>4, <1>5, <1>6, <1>7, <1>8, <1>9, <1>10, <1>11, <1>12 DEF Next, BrowserStep

\* What is served and what the browser has fetched, at every moment of a load
\* (execute_document of the server engine, plec-browser index.ts).
THEOREM Invariance == Spec => []IInv
  <1>1. Init => IInv
    BY InitIInv
  <1>2. IInv /\ [Next]_vars => IInv'
    BY NextKeeps
  <1>. QED
    BY <1>1, <1>2, PTL DEF Spec

\* The page a browser has was rendered for the path in its address bar, whatever
\* redirects led there: an answer that was reached through a redirect is one
\* itself (execute_document, AnswerOrRedirect).
THEOREM PageIsOfItsAddress == Spec => []PageOfItsAddress
  <1>1. IInv => PageOfItsAddress
    <2>. SUFFICES ASSUME ServerInv, HasPage
                  PROVE  Resumed.location = window
      BY DEF IInv, PageOfItsAddress, HasPage
    <2>1. PICK build \in DOMAIN site : \E executions : Page(build, window, executions)
      BY DEF ServerInv
    <2>2. PICK executions : Page(build, window, executions)
      BY <2>1
    <2>. QED
      BY <2>2, PageTells
  <1>. QED
    BY <1>1, Invariance, PTL

\* A page is refused by the browser of its own build only for a rejected loader
\* without an error graph, and an adopted page is the page that was served
\* (ssr_chain_agreement and adopt_typed_route against execute_document and
\* render_executions).
THEOREM AdoptionIsFaithful == Spec => []AdoptedAsServed
  <1>1. IInv => AdoptedAsServed
    BY DEF IInv
  <1>. QED
    BY <1>1, Invariance, PTL

\* A page the browser mounts holds nothing of an adoption that was abandoned
\* (abandon_adoption).
THEOREM MountsAreFresh == Spec => []MountedFresh
  <1>1. IInv => MountedFresh
    BY DEF IInv, BrowserInv, OwnOnly, MountedFresh
  <1>. QED
    BY <1>1, Invariance, PTL
=============================================================================
