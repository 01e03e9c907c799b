--------------------------- MODULE PageRouterProofs ---------------------------
(***************************************************************************)
(* The proofs about PageRouter: what committedMatches and matches hold,    *)
(* for any routes, paths, loaders and redirects.                           *)
(*                                                                         *)
(* As long as no reload has met a load, at most one loader is under way.   *)
(* IInv says what the page is then: the matches are those of the location  *)
(* (IsPage), and either nothing is under way and they are committed unless *)
(* a loader failed (AtRest), or a load waits at one place, with the places *)
(* before it answered and the loaders behind it not yet called             *)
(* (UnderLoad), or a reload waits at one place of a committed page         *)
(* (UnderReload).  A load and a reload answer in the same ways, so the     *)
(* outcomes are proved once for a page that waits at a place (Waiting).    *)
(***************************************************************************)
EXTENDS PageRouter, WellFoundedInduction, SequenceTheorems, TLAPS

(***************************************************************************)
(* Least and greatest numbers                                              *)
(***************************************************************************)

\* The order on the numbers as a set of pairs, which WFMin takes.
Less == { pair \in Nat \X Nat : pair[1] < pair[2] }

\* Min picks the least element of any set of numbers, finite or not: the next
\* loader of a load, the first match that is pending.
LEMMA LeastNumber ==
  ASSUME NEW S \in SUBSET Nat, S # {}
  PROVE  Min(S) \in S /\ \A n \in S : Min(S) <= n
  <1>1. IsWellFoundedOn(Less, Nat)
    <2>1. OpToRel(<, Nat) = Less
      BY Zenon DEF OpToRel, Less
    <2>. QED
      BY <2>1, NatLessThanWellFounded
  <1>2. PICK m \in S : \A n \in S : ~ (<<n, m>> \in Less)
    BY <1>1, WFMin
  <1>3. ASSUME NEW n \in S
        PROVE  m <= n
    <2>1. <<n, m>> \in Nat \X Nat
      OBVIOUS
    <2>2. ~ (n < m)
      BY <1>2, <2>1 DEF Less
    <2>. QED
      BY <2>1, <2>2
  <1>. QED
    BY <1>3 DEF Min

\* Max picks the greatest of a bounded set: the nearest boundary above a match.
LEMMA GreatestNumber ==
  ASSUME NEW b \in Nat, NEW S \in SUBSET (1 .. b), S # {}
  PROVE  Max(S) \in S /\ \A n \in S : n <= Max(S)
  <1>. DEFINE T == { b - n : n \in S }
  <1>0. \A n \in S : n \in Nat /\ b - n \in Nat
    OBVIOUS
  <1>1. T \in SUBSET Nat /\ T # {}
    BY <1>0
  <1>2. Min(T) \in T /\ \A n \in T : Min(T) <= n
    BY <1>1, LeastNumber
  <1>3. PICK m \in S : Min(T) = b - m
    BY <1>2
  <1>4. ASSUME NEW n \in S
        PROVE  m >= n
    <2>1. b - n \in T
      OBVIOUS
    <2>2. b - m <= b - n
      BY <1>2, <1>3, <2>1
    <2>. QED
      BY <1>0, <2>2
  <1>5. \A n \in S : n \in Nat
    BY <1>0
  <1>. QED
    BY <1>4, <1>5 DEF Max

(***************************************************************************)
(* The invariant                                                           *)
(***************************************************************************)

AllRoutes == UNION { Range(Chain[path]) : path \in Paths }
AllParams == UNION { Range(Params[path]) : path \in Paths }
\* What a match of a chain is made of.
Matches ==
    [route : AllRoutes, params : AllParams, data : [params : AllParams \cup {"none"}, call : Nat],
     calls : Nat, status : {"pending", "ready", "error", "notFound"}]

\* The match at place i is for the route and the parameters of the path.
OfPath(match, path, i) == match.route = Chain[path][i] /\ match.params = Params[path][i]

\* Its data is from the last call made for it, with its own parameters.
HasLatest(match) == match.data = [params |-> match.params, call |-> match.calls]

\* A chain is the page of a path: all of its routes, or those down to a match
\* that was not found, and no match is ready with the answer of an older call.
IsPage(chain, path) ==
    /\ chain \in Seq(Matches) /\ Len(chain) \in 1 .. Len(Chain[path])
    /\ \A i \in 1 .. Len(chain) :
          /\ OfPath(chain[i], path, i)
          /\ chain[i].status = "ready" /\ chain[i].route \in Loaders => HasLatest(chain[i])
          /\ chain[i].status = "notFound" => i = Len(chain)
    /\ Len(chain) < Len(Chain[path]) => chain[Len(chain)].status = "notFound"

Answering(chain) == \A i \in 1 .. Len(chain) : chain[i].status \in {"ready", "notFound"}

\* Every match of the page was answered.
Whole(chain, path) == IsPage(chain, path) /\ Answering(chain)

\* Behind a place a load has called nothing yet.
Ahead(chain, at) ==
    \A i \in 1 .. Len(chain) : i > at =>
        chain[i].status = IF chain[i].route \in Loaders THEN "pending" ELSE "ready"

\* A load that has got to a place.
Loading(chain, path, at) ==
    /\ IsPage(chain, path) /\ Len(chain) = Len(Chain[path])
    /\ \A i \in 1 .. Len(chain) : i < at => chain[i].status = "ready"
    /\ Ahead(chain, at)

\* One loader is under way, the last one called for its match.
OneCall(of, at) ==
    \E match \in Matches :
        calls = {[of |-> of, at |-> at, number |-> matches[at].calls, attached |-> TRUE, match |-> match]}

\* Nothing is under way.  A failed loader leaves the page before committed.
AtRest ==
    /\ calls = {}
    /\ committed = matches \/ \E i \in 1 .. Len(matches) : matches[i].status = "error"

\* A load waits for the loader of one place.
UnderLoad ==
    \E at \in 1 .. Len(matches) :
        /\ Loading(matches, location, at) /\ matches[at].status = "pending"
        /\ OneCall("load", at)

\* A reload waits for the loader of one place, and the page is committed but
\* for that place.
UnderReload ==
    \E at \in 1 .. Len(matches) :
        /\ Len(matches) = Len(Chain[location]) /\ matches[at].status = "pending"
        /\ Len(committed) = Len(matches) /\ committed[at].route = matches[at].route
        /\ committed[at].params = matches[at].params
        /\ \A i \in 1 .. Len(matches) : i # at =>
              matches[i].status = "ready" /\ matches[i] = committed[i]
        /\ OneCall("reload", at)

Pages ==
    /\ committed = <<>> \/ \E path \in Paths : Whole(committed, path)
    /\ \/ matches = <<>> /\ committed = <<>> /\ calls = {}
       \/ IsPage(matches, location) /\ (AtRest \/ UnderLoad \/ UnderReload)

\* The inductive invariant.  CommittedWhole alone is not inductive: what an
\* answer commits depends on the matches and on which loaders have answered.
IInv ==
    /\ location \in Paths /\ overlapped \in BOOLEAN
    /\ ~overlapped => Pages

(***************************************************************************)
(* Chains and matches                                                      *)
(***************************************************************************)

\* matchRoutes returns the routes of a path, each once, with their parameters.
LEMMA ChainFacts ==
  ASSUME NEW path \in Paths
  PROVE  /\ Chain[path] \in Seq(AllRoutes) /\ Params[path] \in Seq(AllParams)
         /\ Len(Chain[path]) \in Nat \ {0} /\ Len(Params[path]) = Len(Chain[path])
         /\ DOMAIN Chain[path] = 1 .. Len(Chain[path])
         /\ \A i \in 1 .. Len(Chain[path]) : Chain[path][i] \in AllRoutes /\ Params[path][i] \in AllParams
         /\ \A i, j \in 1 .. Len(Chain[path]) : Chain[path][i] = Chain[path][j] => i = j
  <1>1. /\ Chain[path] \in Seq(Range(Chain[path])) \ {<<>>} /\ IsInjective(Chain[path])
        /\ Params[path] \in Seq(Range(Params[path])) /\ Len(Params[path]) = Len(Chain[path])
    BY ChainsHaveParams
  <1>2. Range(Chain[path]) \subseteq AllRoutes /\ Range(Params[path]) \subseteq AllParams
    BY DEF AllRoutes, AllParams
  <1>3. Chain[path] \in Seq(AllRoutes) /\ Params[path] \in Seq(AllParams)
    BY <1>1, <1>2
  <1>4. Len(Chain[path]) \in Nat \ {0} /\ DOMAIN Chain[path] = 1 .. Len(Chain[path])
    BY <1>1, <1>3
  <1>5. \A i \in 1 .. Len(Chain[path]) : Chain[path][i] \in AllRoutes /\ Params[path][i] \in AllParams
    BY <1>1, <1>3, <1>4
  <1>. QED
    BY <1>1, <1>3, <1>4, <1>5 DEF IsInjective

\* The chain a load begins with has called no loader.
LEMMA FreshChain ==
  ASSUME NEW path \in Paths
  PROVE  Loading([i \in DOMAIN Chain[path] |-> Match(path, i)], path, 0)
  <1>. DEFINE fresh == [i \in DOMAIN Chain[path] |-> Match(path, i)]
  <1>1. \A i \in 1 .. Len(Chain[path]) : Match(path, i) \in Matches
    BY ChainFacts DEF Match, Matches, NoData
  <1>2. fresh \in Seq(Matches) /\ Len(fresh) = Len(Chain[path])
        /\ \A i \in 1 .. Len(fresh) : fresh[i] = Match(path, i)
    BY <1>1, ChainFacts
  <1>. HIDE DEF fresh
  <1>a. \A i \in 1 .. Len(fresh) :
           /\ fresh[i].route = Chain[path][i] /\ fresh[i].params = Params[path][i]
           /\ fresh[i].status = IF Chain[path][i] \in Loaders THEN "pending" ELSE "ready"
    <2>1. \A i \in 1 .. Len(fresh) :
             /\ Match(path, i).route = Chain[path][i] /\ Match(path, i).params = Params[path][i]
             /\ Match(path, i).status = IF Chain[path][i] \in Loaders THEN "pending" ELSE "ready"
      BY DEF Match
    <2>. QED
      BY <1>2, <2>1
  <1>b. Len(fresh) \in 1 .. Len(Chain[path])
    BY <1>2, ChainFacts
  <1>3. IsPage(fresh, path)
    BY <1>2, <1>a, <1>b DEF IsPage, OfPath
  <1>4. Ahead(fresh, 0)
    BY <1>a DEF Ahead
  <1>5. \A i \in 1 .. Len(fresh) : ~ (i < 0)
    BY <1>2, ChainFacts
  <1>6. Loading(fresh, path, 0)
    BY <1>2, <1>3, <1>4, <1>5 DEF Loading
  <1>. QED
    BY <1>6 DEF fresh

\* The matches of a page, one by one.
LEMMA MatchOfPage ==
  ASSUME NEW path \in Paths, NEW chain, IsPage(chain, path), NEW i \in 1 .. Len(chain)
  PROVE  /\ chain \in Seq(Matches) /\ Len(chain) \in Nat /\ DOMAIN chain = 1 .. Len(chain)
         /\ chain[i] \in Matches /\ OfPath(chain[i], path, i)
         /\ i \in 1 .. Len(Chain[path])
  BY ChainFacts DEF IsPage

\* A match that may stand at place i of the page of a path.
Fits(match, path, i) ==
    /\ match \in Matches /\ OfPath(match, path, i) /\ match.status # "notFound"
    /\ match.status = "ready" /\ match.route \in Loaders => HasLatest(match)

\* Replacing one match of a page by one that fits leaves a page.
LEMMA PutMatch ==
  ASSUME NEW path \in Paths, NEW chain, IsPage(chain, path), Len(chain) = Len(Chain[path]),
         NEW i \in 1 .. Len(chain), NEW match, Fits(match, path, i),
         NEW put \in Seq(Matches), Len(put) = Len(chain),
         \A j \in 1 .. Len(chain) : put[j] = IF j = i THEN match ELSE chain[j]
  PROVE  IsPage(put, path)
  <1>1. chain \in Seq(Matches) /\ Len(chain) \in Nat
    BY MatchOfPage
  <1>. QED
    BY <1>1 DEF IsPage, Fits

\* loadMatch up to its await keeps the route and the parameters of the match.
LEMMA CalledMatch ==
  ASSUME NEW match \in Matches
  PROVE  /\ Called(match) \in Matches /\ Called(match).status = "pending"
         /\ Called(match).route = match.route /\ Called(match).params = match.params
  <1>1. match.calls + 1 \in Nat
    BY DEF Matches
  <1>. QED
    BY <1>1 DEF Called, Matches

\* The loop of load behind a place whose loaders have all answered: it calls
\* the next loader, or commits the page.
LEMMA AdvanceGoesOn ==
  ASSUME NEW path \in Paths, NEW chain, NEW at \in 0 .. Len(chain), Loading(chain, path, at),
         \A i \in 1 .. Len(chain) : i <= at => chain[i].status = "ready",
         committed = <<>> \/ \E old \in Paths : Whole(committed, old),
         location' = path, Advance(chain, {}, at)
  PROVE  Pages'
  <1>. DEFINE left == { i \in DOMAIN chain : i > at /\ chain[i].route \in Loaders }
              next == Min(left)
              called == [chain EXCEPT ![next] = Called(chain[next])]
  <1>1. /\ IsPage(chain, path) /\ Len(chain) = Len(Chain[path]) /\ Ahead(chain, at)
        /\ chain \in Seq(Matches) /\ Len(chain) \in Nat \ {0} /\ DOMAIN chain = 1 .. Len(chain)
    BY ChainFacts DEF Loading, IsPage
  <1>2. CASE left = {}
    <2>1. matches' = chain /\ committed' = chain /\ calls' = {}
      BY <1>2 DEF Advance
    <2>2. \A i \in 1 .. Len(chain) : chain[i].status = "ready"
      BY <1>1, <1>2 DEF Ahead
    <2>3. Whole(chain, path)
      BY <1>1, <2>2 DEF Whole, Answering
    <2>. QED
      BY <1>1, <2>1, <2>3 DEF Pages, AtRest
  <1>3. CASE left # {}
    <2>1. next \in left /\ \A i \in left : next <= i
      <3>1. left \in SUBSET Nat
        BY <1>1
      <3>. QED
        BY <1>3, <3>1, LeastNumber
    <2>2. /\ matches' = called /\ calls' = {Call("load", next, called[next])} /\ committed' = committed
      BY <1>3 DEF Advance
    <2>. HIDE DEF next
    <2>3. next \in 1 .. Len(chain) /\ next > at /\ chain[next].route \in Loaders
      BY <1>1, <2>1
    <2>4. /\ chain[next] \in Matches /\ OfPath(chain[next], path, next)
      BY <1>1, <2>3, MatchOfPage
    <2>5. /\ Called(chain[next]) \in Matches /\ Called(chain[next]).status = "pending"
          /\ OfPath(Called(chain[next]), path, next)
          /\ Called(chain[next]).route = chain[next].route
      BY <2>4, CalledMatch DEF OfPath
    <2>6. /\ IsPage(called, path) /\ Len(called) = Len(chain)
          /\ \A j \in 1 .. Len(chain) : called[j] = IF j = next THEN Called(chain[next]) ELSE chain[j]
      <3>1. PICK m : m = Called(chain[next])
        OBVIOUS
      <3>2. Fits(m, path, next)
        BY <2>5, <3>1 DEF Fits
      <3>3. called \in Seq(Matches) /\ Len(called) = Len(chain)
            /\ \A j \in 1 .. Len(chain) : called[j] = IF j = next THEN m ELSE chain[j]
        BY <1>1, <2>3, <3>1, <3>2 DEF Fits
      <3>4. IsPage(chain, path) /\ Len(chain) = Len(Chain[path]) /\ next \in 1 .. Len(chain)
        BY <1>1, <2>3
      <3>. HIDE DEF called
      <3>5. IsPage(called, path)
        BY <3>2, <3>3, <3>4, PutMatch
      <3>. QED
        BY <3>1, <3>3, <3>5
    <2>. HIDE DEF called
    <2>7. \A i \in 1 .. Len(called) : i < next => called[i].status = "ready"
      <3>. SUFFICES ASSUME NEW i \in 1 .. Len(called), i < next
                    PROVE  called[i].status = "ready"
        OBVIOUS
      <3>1. i \notin left
        BY <2>1, <2>3
      <3>2. CASE i <= at
        BY <2>6, <3>2
      <3>3. CASE i > at
        BY <1>1, <2>6, <3>1, <3>3 DEF Ahead
      <3>. QED
        BY <3>2, <3>3
    <2>8. Ahead(called, next)
      BY <1>1, <2>3, <2>6 DEF Ahead
    <2>9. Loading(called, path, next)
      BY <1>1, <2>6, <2>7, <2>8 DEF Loading
    <2>10. called[next].status = "pending" /\ called[next] \in Matches /\ next \in 1 .. Len(called)
      BY <2>3, <2>5, <2>6
    <2>11. OneCall("load", next)'
      BY <2>2, <2>10 DEF OneCall, Call
    <2>12. UnderLoad'
      BY <2>2, <2>9, <2>10, <2>11 DEF UnderLoad
    <2>. QED
      BY <2>2, <2>6, <2>12 DEF Pages
  <1>. QED
    BY <1>2, <1>3

\* load makes a page of its path, when no reload is under way.
LEMMA LoadBegins ==
  ASSUME NEW path \in Paths, NEW under, \A call \in under : call.of = "load",
         committed = <<>> \/ \E old \in Paths : Whole(committed, old),
         Load(path, under)
  PROVE  Pages'
  <1>. DEFINE fresh == [i \in DOMAIN Chain[path] |-> Match(path, i)]
  <1>1. Detached(Aborted(under), matches, 0) = {}
    BY DEF Detached, Aborted
  <1>2. location' = path /\ Advance(fresh, {}, 0)
    BY <1>1 DEF Load
  <1>3. Loading(fresh, path, 0)
    BY FreshChain
  <1>. HIDE DEF fresh
  <1>4. Len(fresh) \in Nat
    BY <1>3, MatchOfPage, ChainFacts DEF Loading, IsPage
  <1>5. 0 \in 0 .. Len(fresh) /\ \A i \in 1 .. Len(fresh) : ~ (i <= 0)
    BY <1>4
  <1>. QED
    BY <1>2, <1>3, <1>5, AdvanceGoesOn

\* A match that failed is still that of its route.
LEMMA ErrorMatch ==
  ASSUME NEW match \in Matches
  PROVE  /\ [match EXCEPT !.status = "error"] \in Matches
         /\ [match EXCEPT !.status = "error"].status = "error"
         /\ [match EXCEPT !.status = "error"].route = match.route
         /\ [match EXCEPT !.status = "error"].params = match.params
  BY DEF Matches

\* A match that is answered has the data of its last call.
LEMMA AnsweredMatch ==
  ASSUME NEW match \in Matches
  PROVE  /\ Answered(match, match.calls) \in Matches
         /\ Answered(match, match.calls).status = "ready"
         /\ Answered(match, match.calls).route = match.route
         /\ Answered(match, match.calls).params = match.params
         /\ HasLatest(Answered(match, match.calls))
  <1>1. match.params \in AllParams /\ match.calls \in Nat
    BY DEF Matches
  <1>2. [params |-> match.params, call |-> match.calls] \in [params : AllParams \cup {"none"}, call : Nat]
    BY <1>1
  <1>. QED
    BY <1>2 DEF Answered, Matches, HasLatest

(***************************************************************************)
(* The outcomes of the one loader under way                                *)
(***************************************************************************)

\* The page waits for the loader at one place; before it all have answered.
Waiting(at) ==
    /\ IsPage(matches, location) /\ Len(matches) = Len(Chain[location])
    /\ at \in 1 .. Len(matches) /\ matches[at].status = "pending"
    /\ \A i \in 1 .. Len(matches) : i < at => matches[i].status = "ready"

\* A page with one failed match is a page.
LEMMA PutError ==
  ASSUME NEW path \in Paths, NEW chain, IsPage(chain, path), Len(chain) = Len(Chain[path]),
         NEW i \in 1 .. Len(chain), NEW put,
         put = [chain EXCEPT ![i] = [chain[i] EXCEPT !.status = "error"]]
  PROVE  IsPage(put, path) /\ Len(put) = Len(chain) /\ put[i].status = "error"
  <1>1. chain[i] \in Matches /\ OfPath(chain[i], path, i)
    BY MatchOfPage
  <1>2. PICK m : m = [chain[i] EXCEPT !.status = "error"]
    OBVIOUS
  <1>3. m \in Matches /\ m.status = "error" /\ OfPath(m, path, i)
    BY <1>1, <1>2, ErrorMatch DEF OfPath
  <1>4. Fits(m, path, i)
    BY <1>3 DEF Fits
  <1>5. chain \in Seq(Matches) /\ Len(chain) \in Nat
    BY MatchOfPage
  <1>6. put \in Seq(Matches) /\ Len(put) = Len(chain)
        /\ \A j \in 1 .. Len(chain) : put[j] = IF j = i THEN m ELSE chain[j]
    BY <1>2, <1>3, <1>5
  <1>7. IsPage(put, path)
    BY <1>4, <1>6, PutMatch
  <1>. QED
    BY <1>3, <1>6, <1>7

\* When the match that is waited for fails, the page is at rest and what was
\* committed stays.
LEMMA MatchFails ==
  ASSUME location \in Paths, NEW at, Waiting(at),
         committed = <<>> \/ \E old \in Paths : Whole(committed, old),
         location' = location, committed' = committed, calls' = {},
         matches' = [matches EXCEPT ![at] = [matches[at] EXCEPT !.status = "error"]]
  PROVE  Pages'
  <1>1. IsPage(matches, location) /\ Len(matches) = Len(Chain[location]) /\ at \in 1 .. Len(matches)
    BY DEF Waiting
  <1>2. IsPage(matches', location) /\ Len(matches') = Len(matches) /\ matches'[at].status = "error"
    BY <1>1, PutError
  <1>3. AtRest'
    BY <1>1, <1>2 DEF AtRest
  <1>. QED
    BY <1>2, <1>3 DEF Pages

\* The boundary resolveNotFound chooses is at the match or above it.
LEMMA OwnerIsAbove ==
  ASSUME NEW at \in Nat \ {0}
  PROVE  Owner(at) \in 1 .. at
  <1>. DEFINE owners == { i \in 1..at : matches[i].route \in Boundaries }
  <1>1. CASE owners = {}
    BY <1>1 DEF Owner
  <1>2. CASE owners # {}
    <2>1. Max(owners) \in owners
      BY <1>2, GreatestNumber
    <2>. QED
      BY <1>2, <2>1 DEF Owner
  <1>. QED
    BY <1>1, <1>2

\* The chain that is cut at the boundary is a whole page: everything above the
\* match that was not found has answered.
LEMMA CutIsWhole ==
  ASSUME location \in Paths, NEW at, Waiting(at)
  PROVE  Whole(CutAt(Owner(at)), location)
  <1>1. /\ IsPage(matches, location) /\ Len(matches) = Len(Chain[location]) /\ at \in 1 .. Len(matches)
        /\ matches \in Seq(Matches) /\ Len(matches) \in Nat
    BY MatchOfPage DEF Waiting
  <1>2. PICK owner : owner = Owner(at)
    OBVIOUS
  <1>3. owner \in 1 .. at /\ owner \in 1 .. Len(matches) /\ owner \in Nat \ {0}
    BY <1>1, <1>2, OwnerIsAbove
  <1>4. PICK part : part = SubSeq(matches, 1, owner)
    OBVIOUS
  <1>5. /\ part \in Seq(Matches) /\ Len(part) = owner
        /\ \A i \in 1 .. owner : part[i] = matches[i]
    BY <1>1, <1>3, <1>4
  <1>6. PICK m : m = [part[owner] EXCEPT !.status = "notFound"]
    OBVIOUS
  <1>7. matches[owner] \in Matches /\ OfPath(matches[owner], location, owner) /\ part[owner] = matches[owner]
    BY <1>1, <1>3, <1>5, MatchOfPage
  <1>8. m \in Matches /\ m.status = "notFound" /\ m.route = matches[owner].route
        /\ m.params = matches[owner].params
    BY <1>6, <1>7 DEF Matches
  <1>9. PICK cut : cut = CutAt(Owner(at))
    OBVIOUS
  <1>10. cut = [part EXCEPT ![owner] = m]
    BY <1>2, <1>4, <1>6, <1>9 DEF CutAt
  <1>11. /\ cut \in Seq(Matches) /\ Len(cut) = owner /\ cut[owner] = m
         /\ \A i \in 1 .. owner : i # owner => cut[i] = matches[i]
    <2>1. /\ cut \in Seq(Matches) /\ Len(cut) = Len(part)
          /\ \A i \in 1 .. Len(part) : cut[i] = IF i = owner THEN m ELSE part[i]
      BY <1>3, <1>5, <1>8, <1>10, ExceptSeq
    <2>. QED
      BY <1>3, <1>5, <2>1
  <1>12. \A i \in 1 .. owner : i # owner =>
             cut[i].status = "ready" /\ OfPath(cut[i], location, i)
             /\ (cut[i].route \in Loaders => HasLatest(cut[i]))
    <2>. SUFFICES ASSUME NEW i \in 1 .. owner, i # owner
                  PROVE  cut[i].status = "ready" /\ OfPath(cut[i], location, i)
                         /\ (cut[i].route \in Loaders => HasLatest(cut[i]))
      OBVIOUS
    <2>1. i \in 1 .. Len(matches) /\ i < at
      BY <1>1, <1>3
    <2>2. matches[i].status = "ready"
      BY <2>1 DEF Waiting
    <2>3. OfPath(matches[i], location, i)
          /\ (matches[i].status = "ready" /\ matches[i].route \in Loaders => HasLatest(matches[i]))
      BY <1>1, <2>1 DEF IsPage
    <2>. QED
      BY <1>11, <2>2, <2>3
  <1>13. OfPath(cut[owner], location, owner) /\ cut[owner].status = "notFound"
    BY <1>7, <1>8, <1>11 DEF OfPath
  <1>14. Len(cut) \in 1 .. Len(Chain[location])
    BY <1>1, <1>3, <1>11
  <1>15. IsPage(cut, location)
    BY <1>3, <1>11, <1>12, <1>13, <1>14 DEF IsPage
  <1>16. Answering(cut)
    BY <1>3, <1>11, <1>12, <1>13 DEF Answering
  <1>. QED
    BY <1>9, <1>15, <1>16 DEF Whole

\* The match that fails when a redirect is refused is the one waited for.
LEMMA FirstPending ==
  ASSUME location \in Paths, NEW at, Waiting(at)
  PROVE  FirstPendingFails(matches) = [matches EXCEPT ![at] = [matches[at] EXCEPT !.status = "error"]]
  <1>. DEFINE pending == { i \in DOMAIN matches : matches[i].status = "pending" }
  <1>1. /\ at \in 1 .. Len(matches) /\ DOMAIN matches = 1 .. Len(matches) /\ Len(matches) \in Nat
    BY MatchOfPage DEF Waiting
  <1>2. at \in pending /\ pending \in SUBSET Nat
    BY <1>1 DEF Waiting
  <1>3. Min(pending) \in pending /\ \A i \in pending : Min(pending) <= i
    BY <1>2, LeastNumber
  <1>4. PICK least : least = Min(pending)
    OBVIOUS
  <1>5. least \in 1 .. Len(matches) /\ least <= at /\ matches[least].status = "pending"
    BY <1>1, <1>2, <1>3, <1>4
  <1>6. ~ (least < at)
    BY <1>5 DEF Waiting
  <1>7. Min(pending) = at
    BY <1>1, <1>4, <1>5, <1>6
  <1>8. pending # {}
    BY <1>2
  <1>. QED
    BY <1>7, <1>8 DEF FirstPendingFails

\* What UnderLoad says of the one call, for the outcomes.
LEMMA LoadIsWaiting ==
  ASSUME location \in Paths, UnderLoad
  PROVE  \E at \in Nat \ {0} : \E call :
            /\ Waiting(at) /\ Loading(matches, location, at)
            /\ calls = {call} /\ call.of = "load" /\ call.at = at /\ call.attached
            /\ call.number = matches[at].calls
  <1>1. PICK at \in 1 .. Len(matches) :
            /\ Loading(matches, location, at) /\ matches[at].status = "pending"
            /\ OneCall("load", at)
    BY DEF UnderLoad
  <1>2. PICK match \in Matches :
            calls = {[of |-> "load", at |-> at, number |-> matches[at].calls,
                      attached |-> TRUE, match |-> match]}
    BY <1>1 DEF OneCall
  <1>3. Waiting(at)
    BY <1>1 DEF Waiting, Loading
  <1>4. at \in Nat \ {0}
    BY <1>1, <1>3, MatchOfPage DEF Waiting
  <1>5. PICK call : call = [of |-> "load", at |-> at, number |-> matches[at].calls,
                            attached |-> TRUE, match |-> match]
    OBVIOUS
  <1>. WITNESS at \in Nat \ {0}
  <1>. WITNESS call
  <1>. QED
    BY <1>1, <1>2, <1>3, <1>5

\* A reload waits at a place, and the rest of the page is committed.
Reloading(at) ==
    /\ Waiting(at)
    /\ Len(committed) = Len(matches) /\ committed[at].route = matches[at].route
    /\ committed[at].params = matches[at].params
    /\ \A i \in 1 .. Len(matches) : i # at =>
          matches[i].status = "ready" /\ matches[i] = committed[i]

\* What UnderReload says of the one call, for the outcomes.
LEMMA ReloadIsWaiting ==
  ASSUME location \in Paths, IsPage(matches, location), UnderReload
  PROVE  \E at \in Nat \ {0} : \E call :
            /\ Reloading(at)
            /\ calls = {call} /\ call.of = "reload" /\ call.at = at /\ call.attached
            /\ call.number = matches[at].calls
  <1>1. PICK at \in 1 .. Len(matches) :
            /\ Len(matches) = Len(Chain[location]) /\ matches[at].status = "pending"
            /\ Len(committed) = Len(matches) /\ committed[at].route = matches[at].route
            /\ committed[at].params = matches[at].params
            /\ \A i \in 1 .. Len(matches) : i # at =>
                  matches[i].status = "ready" /\ matches[i] = committed[i]
            /\ OneCall("reload", at)
    BY DEF UnderReload
  <1>2. PICK match \in Matches :
            calls = {[of |-> "reload", at |-> at, number |-> matches[at].calls,
                      attached |-> TRUE, match |-> match]}
    BY <1>1 DEF OneCall
  <1>3. Len(matches) \in Nat
    BY <1>1, MatchOfPage
  <1>4. Waiting(at)
    BY <1>1, <1>3 DEF Waiting
  <1>5. Reloading(at)
    BY <1>1, <1>4 DEF Reloading
  <1>6. at \in Nat \ {0}
    BY <1>1, <1>3
  <1>7. PICK call : call = [of |-> "reload", at |-> at, number |-> matches[at].calls,
                            attached |-> TRUE, match |-> match]
    OBVIOUS
  <1>. WITNESS at \in Nat \ {0}
  <1>. WITNESS call
  <1>. QED
    BY <1>2, <1>5, <1>7

\* LoaderResolves for a load: the match shows the answer and the load goes on.
LEMMA ResolvedGoesOn ==
  ASSUME location \in Paths, NEW at \in Nat \ {0}, Waiting(at), Loading(matches, location, at),
         committed = <<>> \/ \E old \in Paths : Whole(committed, old),
         NEW call, call.of = "load", call.at = at, call.attached, call.number = matches[at].calls,
         calls = {call}, LoaderResolves(call)
  PROVE  Pages'
  <1>1. PICK m : m = Answered(matches[at], matches[at].calls)
    OBVIOUS
  <1>2. /\ IsPage(matches, location) /\ Len(matches) = Len(Chain[location]) /\ at \in 1 .. Len(matches)
        /\ Len(matches) \in Nat
    BY MatchOfPage DEF Waiting
  <1>3. matches[at] \in Matches /\ OfPath(matches[at], location, at)
    BY <1>2, MatchOfPage
  <1>4. m \in Matches /\ m.status = "ready" /\ OfPath(m, location, at) /\ HasLatest(m)
        /\ m.route = matches[at].route
    BY <1>1, <1>3, AnsweredMatch DEF OfPath
  <1>5. PICK chain : chain = [matches EXCEPT ![at] = m]
    OBVIOUS
  <1>6. /\ IsPage(chain, location) /\ Len(chain) = Len(matches)
        /\ \A j \in 1 .. Len(matches) : chain[j] = IF j = at THEN m ELSE matches[j]
    <2>1. Fits(m, location, at)
      BY <1>4 DEF Fits
    <2>2. matches \in Seq(Matches)
      BY <1>2 DEF IsPage
    <2>3. chain \in Seq(Matches) /\ Len(chain) = Len(matches)
          /\ \A j \in 1 .. Len(matches) : chain[j] = IF j = at THEN m ELSE matches[j]
      BY <1>2, <1>4, <1>5, <2>2
    <2>4. IsPage(chain, location)
      BY <1>2, <2>1, <2>3, PutMatch
    <2>. QED
      BY <2>3, <2>4
  <1>7. \A i \in 1 .. Len(chain) : i <= at => chain[i].status = "ready"
    BY <1>2, <1>4, <1>6 DEF Waiting
  <1>8. Loading(chain, location, at)
    <2>1. Ahead(chain, at)
      BY <1>2, <1>6 DEF Loading, Ahead
    <2>2. \A i \in 1 .. Len(chain) : i < at => chain[i].status = "ready"
      BY <1>2, <1>6, <1>7
    <2>. QED
      BY <1>2, <1>6, <2>1, <2>2 DEF Loading
  <1>9. ~ HasNotFound(chain)
    <2>1. DOMAIN chain = 1 .. Len(chain)
      BY <1>2, <1>6, MatchOfPage
    <2>2. \A i \in 1 .. Len(chain) : chain[i].status # "notFound"
      BY <1>2, <1>6, <1>7, <1>8 DEF Loading, Ahead
    <2>. QED
      BY <2>1, <2>2 DEF HasNotFound
  <1>10. Advance(chain, {}, at) /\ location' = location
    <2>1. Object(call) = matches[at] /\ Put(matches, call, m) = chain
      BY <1>5 DEF Object, Put
    <2>2. calls \ {call} = {}
      OBVIOUS
    <2>3. GoesOn(call, m, chain, {}) /\ location' = location
      BY <1>1, <2>1, <2>2 DEF LoaderResolves
    <2>. QED
      BY <1>4, <1>9, <2>3 DEF GoesOn
  <1>11. at \in 0 .. Len(chain)
    BY <1>2, <1>6
  <1>. QED
    BY <1>7, <1>8, <1>10, <1>11, AdvanceGoesOn

\* LoaderResolves for a reload: replacing the match of its route in
\* committedMatches makes it the chain of the page again.
LEMMA ReloadCommits ==
  ASSUME location \in Paths, NEW at \in Nat \ {0}, Reloading(at),
         NEW old \in Paths, Whole(committed, old),
         NEW call, call.of = "reload", call.at = at, call.attached, call.number = matches[at].calls,
         calls = {call}, LoaderResolves(call)
  PROVE  Pages'
  <1>1. PICK m : m = Answered(matches[at], matches[at].calls)
    OBVIOUS
  <1>2. /\ IsPage(matches, location) /\ Len(matches) = Len(Chain[location]) /\ at \in 1 .. Len(matches)
        /\ Len(matches) \in Nat /\ DOMAIN matches = 1 .. Len(matches)
    BY MatchOfPage DEF Waiting, Reloading
  <1>3. matches[at] \in Matches /\ OfPath(matches[at], location, at)
    BY <1>2, MatchOfPage
  <1>4. m \in Matches /\ m.status = "ready" /\ OfPath(m, location, at) /\ HasLatest(m)
        /\ m.route = matches[at].route
    BY <1>1, <1>3, AnsweredMatch DEF OfPath
  <1>5. PICK chain : chain = [matches EXCEPT ![at] = m]
    OBVIOUS
  <1>6. /\ IsPage(chain, location) /\ Len(chain) = Len(matches)
        /\ \A j \in 1 .. Len(matches) : chain[j] = IF j = at THEN m ELSE matches[j]
    <2>1. Fits(m, location, at)
      BY <1>4 DEF Fits
    <2>2. matches \in Seq(Matches)
      BY <1>2 DEF IsPage
    <2>3. chain \in Seq(Matches) /\ Len(chain) = Len(matches)
          /\ \A j \in 1 .. Len(matches) : chain[j] = IF j = at THEN m ELSE matches[j]
      BY <1>2, <1>4, <1>5, <2>2
    <2>4. IsPage(chain, location)
      BY <1>2, <2>1, <2>3, PutMatch
    <2>. QED
      BY <2>3, <2>4
  <1>7. Len(committed) = Len(matches) /\ committed \in Seq(Matches) /\ DOMAIN committed = 1 .. Len(matches)
    BY <1>2, MatchOfPage DEF Reloading, Whole, IsPage
  <1>8. \A i \in 1 .. Len(matches) : committed[i].route = Chain[location][i]
    <2>1. \A i \in 1 .. Len(matches) : matches[i].route = Chain[location][i]
      BY <1>2 DEF IsPage, OfPath
    <2>. QED
      BY <2>1 DEF Reloading
  <1>9. { i \in DOMAIN committed : committed[i].route = m.route } = {at}
    <2>1. m.route = Chain[location][at]
      BY <1>4 DEF OfPath
    <2>2. \A i \in 1 .. Len(matches) : Chain[location][i] = Chain[location][at] => i = at
      BY <1>2, ChainFacts
    <2>. QED
      BY <1>2, <1>7, <1>8, <2>1, <2>2
  <1>10. Min({at}) = at
    BY LeastNumber
  <1>11. matches' = chain /\ committed' = [committed EXCEPT ![at] = m] /\ calls' = {} /\ location' = location
    <2>1. Object(call) = matches[at] /\ Put(matches, call, m) = chain
      BY <1>5 DEF Object, Put
    <2>2. calls \ {call} = {} /\ {at} # {}
      OBVIOUS
    <2>. QED
      BY <1>1, <1>9, <1>10, <2>1, <2>2 DEF LoaderResolves
  <1>12. committed' = chain
    <2>1. PICK page : page = [committed EXCEPT ![at] = m]
      OBVIOUS
    <2>2. page \in Seq(Matches) /\ Len(page) = Len(committed)
          /\ \A i \in 1 .. Len(committed) : page[i] = IF i = at THEN m ELSE committed[i]
      BY <1>2, <1>4, <1>7, <2>1, ExceptSeq
    <2>3. \A i \in 1 .. Len(chain) : page[i] = chain[i]
      BY <1>6, <1>7, <2>2 DEF Reloading
    <2>4. chain \in Seq(Matches) /\ Len(page) = Len(chain)
      BY <1>6, <1>7, <2>2 DEF IsPage
    <2>5. page = chain
      BY <2>2, <2>3, <2>4
    <2>. QED
      BY <1>11, <2>1, <2>5
  <1>13. Whole(chain, location)
    <2>1. \A i \in 1 .. Len(chain) : chain[i].status = "ready"
      BY <1>4, <1>6 DEF Reloading
    <2>. QED
      BY <1>6, <2>1 DEF Whole, Answering
  <1>. QED
    BY <1>6, <1>11, <1>12, <1>13 DEF Pages, AtRest

OneUnderWay(call, at) ==
    /\ calls = {call} /\ call.of \in {"load", "reload"} /\ call.at = at /\ call.attached

\* LoaderFails, for a load and for a reload.
LEMMA FailureShows ==
  ASSUME location \in Paths, NEW at, Waiting(at), NEW call, OneUnderWay(call, at),
         committed = <<>> \/ \E old \in Paths : Whole(committed, old), LoaderFails(call)
  PROVE  Pages'
  <1>1. Object(call) = matches[at]
    BY DEF Object, OneUnderWay
  <1>2. /\ matches' = [matches EXCEPT ![at] = [matches[at] EXCEPT !.status = "error"]]
        /\ calls' = {} /\ location' = location /\ committed' = committed
    BY <1>1 DEF LoaderFails, Put, OneUnderWay
  <1>. QED
    BY <1>2, MatchFails

\* LoaderNotFound commits the chain down to the boundary.
LEMMA BoundaryShows ==
  ASSUME location \in Paths, NEW at, Waiting(at), NEW call, OneUnderWay(call, at), LoaderNotFound(call)
  PROVE  Pages'
  <1>1. PICK cut : cut = CutAt(Owner(at))
    OBVIOUS
  <1>2. Whole(cut, location)
    BY <1>1, CutIsWhole
  <1>3. /\ matches' = cut /\ committed' = cut /\ location' = location
        /\ calls' = Detached(calls \ {call}, matches, Owner(at))
    BY <1>1 DEF LoaderNotFound, OneUnderWay
  <1>4. calls' = {}
    BY <1>3 DEF Detached, OneUnderWay
  <1>. QED
    BY <1>2, <1>3, <1>4 DEF Pages, AtRest, Whole

\* LoaderRedirects begins the load of the target, or fails the match.
LEMMA RedirectIsFollowed ==
  ASSUME location \in Paths, NEW at, Waiting(at), NEW call, OneUnderWay(call, at),
         committed = <<>> \/ \E old \in Paths : Whole(committed, old),
         NEW to \in Paths \cup Invalid, LoaderRedirects(call, to)
  PROVE  Pages'
  <1>1. calls \ {call} = {}
    BY DEF OneUnderWay
  <1>2. CASE to \in Invalid \/ hops' > MaxHops
    <2>1. PICK failed : failed = [matches EXCEPT ![at] = [matches[at] EXCEPT !.status = "error"]]
      OBVIOUS
    <2>2. FirstPendingFails(matches) = failed
      BY <2>1, FirstPending
    <2>3. failed[at].status = "error"
      <3>1. IsPage(matches, location) /\ Len(matches) = Len(Chain[location]) /\ at \in 1 .. Len(matches)
        BY DEF Waiting
      <3>. QED
        BY <2>1, <3>1, PutError
    <2>4. location' = location
      BY <1>2 DEF LoaderRedirects
    <2>5. IF call.of = "load" THEN GoesOn(call, failed[at], failed, {})
          ELSE matches' = failed /\ calls' = {} /\ committed' = committed
      BY <1>1, <1>2, <2>2 DEF LoaderRedirects, OneUnderWay
    <2>6. matches' = failed /\ calls' = {} /\ committed' = committed
      BY <2>3, <2>5 DEF GoesOn
    <2>. QED
      BY <2>1, <2>4, <2>6, MatchFails
  <1>3. CASE ~ (to \in Invalid \/ hops' > MaxHops)
    <2>1. Load(to, {}) /\ to \in Paths
      BY <1>1, <1>3 DEF LoaderRedirects
    <2>. QED
      BY <2>1, LoadBegins
  <1>. QED
    BY <1>2, <1>3

\* A call under way is a load's or a reload's.
LEMMA CallsOfPages ==
  ASSUME location \in Paths, Pages
  PROVE  \A call \in calls : call.of \in {"load", "reload"}
  <1>1. calls = {} \/ UnderLoad \/ (IsPage(matches, location) /\ UnderReload)
    BY DEF Pages, AtRest
  <1>. QED
    BY <1>1, LoadIsWaiting, ReloadIsWaiting

\* Whatever the one loader under way answers leaves a page.
LEMMA AnswerKeepsPages ==
  ASSUME location \in Paths, Pages, LoaderAnswers
  PROVE  Pages'
  <1>1. PICK call \in calls :
            \/ LoaderResolves(call)
            \/ LoaderFails(call)
            \/ LoaderNotFound(call)
            \/ \E to \in Paths \cup Invalid : LoaderRedirects(call, to)
    BY DEF LoaderAnswers
  <1>2. committed = <<>> \/ \E old \in Paths : Whole(committed, old)
    BY DEF Pages
  <1>3. CASE UnderLoad
    <2>1. PICK at \in Nat \ {0}, only \in calls :
              /\ Waiting(at) /\ Loading(matches, location, at)
              /\ calls = {only} /\ only.of = "load" /\ only.at = at /\ only.attached
              /\ only.number = matches[at].calls
      BY <1>3, LoadIsWaiting
    <2>2. call = only /\ OneUnderWay(call, at)
      BY <2>1 DEF OneUnderWay
    <2>3. CASE LoaderResolves(call)
      BY <1>2, <2>1, <2>2, <2>3, ResolvedGoesOn
    <2>. QED
      BY <1>1, <1>2, <2>1, <2>2, <2>3, FailureShows, BoundaryShows, RedirectIsFollowed
  <1>4. CASE IsPage(matches, location) /\ UnderReload
    <2>1. PICK at \in Nat \ {0}, only \in calls :
              /\ Reloading(at)
              /\ calls = {only} /\ only.of = "reload" /\ only.at = at /\ only.attached
              /\ only.number = matches[at].calls
      BY <1>4, ReloadIsWaiting
    <2>2. call = only /\ OneUnderWay(call, at) /\ Waiting(at)
      BY <2>1 DEF OneUnderWay, Reloading
    <2>3. CASE LoaderResolves(call)
      <3>1. Len(committed) = Len(matches) /\ Len(matches) \in Nat \ {0}
        BY <1>4, <2>1, ChainFacts DEF Reloading, IsPage
      <3>2. committed # <<>>
        BY <3>1
      <3>3. PICK old \in Paths : Whole(committed, old)
        BY <1>2, <3>2
      <3>. QED
        BY <2>1, <2>2, <2>3, <3>3, ReloadCommits
    <2>. QED
      BY <1>1, <1>2, <2>1, <2>2, <2>3, FailureShows, BoundaryShows, RedirectIsFollowed
  <1>5. calls # {}
    BY <1>1
  <1>. QED
    BY <1>3, <1>4, <1>5 DEF Pages, AtRest

\* Two chains over the same places have the same length.
LEMMA SameLength ==
  ASSUME NEW m \in Nat, NEW n \in Nat \ {0}, 1 .. m = 1 .. n
  PROVE  m = n
  <1>1. n \in 1 .. m
    OBVIOUS
  <1>2. m \in 1 .. n
    BY <1>1
  <1>3. m <= n /\ n <= m
    BY <1>1, <1>2
  <1>. QED
    BY <1>3

\* reloadRoute on a page that is committed but for its route: the call of the
\* reload before is dropped, so that one call is under way again.
LEMMA ReloadKeepsPages ==
  ASSUME location \in Paths, Pages, NEW route \in Loaders, ReloadRoute(route), Alone(route)
  PROVE  Pages'
  <1>. DEFINE same == { i \in DOMAIN matches : matches[i].route = route }
  <1>1. same # {} /\ matches # <<>>
    BY DEF ReloadRoute
  <1>2. /\ IsPage(matches, location) /\ matches \in Seq(Matches)
        /\ Len(matches) \in Nat \ {0} /\ DOMAIN matches = 1 .. Len(matches)
    BY <1>1, ChainFacts DEF Pages, IsPage
  <1>3. PICK at : at = Min(same)
    OBVIOUS
  <1>4. at \in 1 .. Len(matches) /\ matches[at].route = route
    <2>1. same \in SUBSET Nat
      BY <1>2
    <2>2. Min(same) \in same
      BY <1>1, <2>1, LeastNumber
    <2>. QED
      BY <1>2, <1>3, <2>2
  <1>5. \A i \in 1 .. Len(matches) : i # at => matches[i].route # route
    <2>1. \A i \in 1 .. Len(matches) : matches[i].route = Chain[location][i] /\ i \in 1 .. Len(Chain[location])
      <3>1. Len(matches) \in 1 .. Len(Chain[location]) /\ Len(Chain[location]) \in Nat
        BY <1>2, ChainFacts DEF IsPage
      <3>2. \A i \in 1 .. Len(matches) : OfPath(matches[i], location, i)
        BY <1>2 DEF IsPage
      <3>3. \A i \in 1 .. Len(matches) : matches[i].route = Chain[location][i]
        BY <3>2 DEF OfPath
      <3>4. \A i \in 1 .. Len(matches) : i \in 1 .. Len(Chain[location])
        BY <3>1
      <3>. QED
        BY <3>3, <3>4
    <2>2. \A i, j \in 1 .. Len(Chain[location]) : Chain[location][i] = Chain[location][j] => i = j
      BY ChainFacts
    <2>. QED
      BY <1>4, <2>1, <2>2
  <1>6. /\ matches[at].status # "notFound" /\ matches[at].params = committed[at].params
        /\ \A i \in 1 .. Len(matches) : i # at =>
              matches[i].status = "ready" /\ matches[i] = committed[i]
    BY <1>2, <1>4, <1>5 DEF Alone
  <1>7. Len(matches) = Len(Chain[location])
    <2>1. matches[Len(matches)].status # "notFound"
      BY <1>2, <1>6
    <2>2. ~ (Len(matches) < Len(Chain[location]))
      BY <1>2, <2>1 DEF IsPage
    <2>3. Len(matches) \in 1 .. Len(Chain[location]) /\ Len(Chain[location]) \in Nat
      BY <1>2, ChainFacts DEF IsPage
    <2>. QED
      BY <2>2, <2>3
  <1>8. committed \in Seq(Matches)
    <2>1. <<>> \in Seq(Matches)
      OBVIOUS
    <2>2. \A old \in Paths : Whole(committed, old) => committed \in Seq(Matches)
      BY DEF Whole, IsPage
    <2>. QED
      BY <2>1, <2>2 DEF Pages
  <1>9. Len(committed) = Len(matches) /\ committed[at].route = matches[at].route
    <2>1. Routes(committed) = Routes(matches)
      BY DEF Alone
    <2>2. DOMAIN Routes(committed) = DOMAIN committed /\ DOMAIN Routes(matches) = DOMAIN matches
      BY DEF Routes
    <2>3. DOMAIN committed = 1 .. Len(committed) /\ Len(committed) \in Nat
      BY <1>8
    <2>4. Len(committed) = Len(matches)
      <3>1. 1 .. Len(committed) = 1 .. Len(matches)
        BY <1>2, <2>1, <2>2, <2>3
      <3>. QED
        BY <1>2, <2>3, <3>1, SameLength
    <2>5. Routes(committed)[at] = committed[at].route /\ Routes(matches)[at] = matches[at].route
      BY <1>2, <1>4, <2>3, <2>4 DEF Routes
    <2>. QED
      BY <2>1, <2>4, <2>5
  <1>10. PICK match : match = [matches[at] EXCEPT !.params = Params[location][at]]
    OBVIOUS
  <1>11. match \in Matches /\ OfPath(match, location, at) /\ match.params = matches[at].params
    <2>1. matches[at] \in Matches /\ OfPath(matches[at], location, at)
      BY <1>2, <1>4, MatchOfPage
    <2>2. match = matches[at]
      BY <1>10, <2>1 DEF OfPath, Matches
    <2>. QED
      BY <2>1, <2>2
  <1>12. PICK called : called = Called(match)
    OBVIOUS
  <1>13. Fits(called, location, at) /\ called.status = "pending" /\ called.params = matches[at].params
         /\ called.route = matches[at].route
    <2>1. OfPath(matches[at], location, at)
      BY <1>2, <1>4, MatchOfPage
    <2>. QED
      BY <1>11, <1>12, <2>1, CalledMatch DEF Fits, OfPath
  <1>14. PICK chain : chain = [matches EXCEPT ![at] = called]
    OBVIOUS
  <1>15. chain \in Seq(Matches) /\ Len(chain) = Len(matches)
         /\ \A j \in 1 .. Len(matches) : chain[j] = IF j = at THEN called ELSE matches[j]
    BY <1>2, <1>4, <1>13, <1>14 DEF Fits
  <1>16. IsPage(chain, location)
    BY <1>2, <1>4, <1>7, <1>13, <1>15, PutMatch
  <1>17. /\ matches' = chain /\ location' = location /\ committed' = committed
         /\ calls' = (calls \ OfRoute(route)) \cup {Call("reload", at, called)}
    BY <1>3, <1>10, <1>12, <1>14 DEF ReloadRoute
  <1>18. calls \ OfRoute(route) = {}
    BY DEF Alone, OfRoute
  <1>19. OneCall("reload", at)'
    <2>1. chain[at] = called /\ called \in Matches
      BY <1>4, <1>13, <1>15 DEF Fits
    <2>2. calls' = {Call("reload", at, called)}
      BY <1>17, <1>18
    <2>3. calls' = {[of |-> "reload", at |-> at, number |-> matches'[at].calls,
                     attached |-> TRUE, match |-> called]}
      BY <1>17, <2>1, <2>2 DEF Call
    <2>. QED
      BY <2>1, <2>3 DEF OneCall
  <1>20. UnderReload'
    <2>1. at \in 1 .. Len(chain) /\ Len(chain) = Len(Chain[location]) /\ chain[at].status = "pending"
      BY <1>4, <1>7, <1>13, <1>15
    <2>2. Len(committed) = Len(chain) /\ committed[at].route = chain[at].route
          /\ committed[at].params = chain[at].params
      BY <1>4, <1>6, <1>9, <1>13, <1>15
    <2>3. \A i \in 1 .. Len(chain) : i # at => chain[i].status = "ready" /\ chain[i] = committed[i]
      BY <1>6, <1>15
    <2>. QED
      BY <1>17, <1>19, <2>1, <2>2, <2>3 DEF UnderReload
  <1>. QED
    BY <1>16, <1>17, <1>20 DEF Pages

(***************************************************************************)
(* The theorems                                                            *)
(***************************************************************************)

\* A router begins without matches.
LEMMA InitWhole == Init => IInv
  BY DEF Init, IInv, Pages

\* Every operation of the router keeps the invariant, or overlaps.
LEMMA NextKeepsIInv ==
  ASSUME IInv, [Next]_vars
  PROVE  IInv'
  <1>1. CASE \E path \in Paths : Navigate(path)
    <2>1. PICK path \in Paths : Load(path, calls)
      BY <1>1 DEF Navigate
    <2>2. location' \in Paths /\ overlapped' = (overlapped \/ \E call \in calls : call.of = "reload")
      BY <2>1 DEF Load
    <2>3. ASSUME ~ overlapped'
          PROVE  Pages'
      <3>1. ~ overlapped /\ \A call \in calls : call.of # "reload"
        BY <2>2, <2>3
      <3>2. location \in Paths /\ Pages
        BY <3>1 DEF IInv
      <3>3. \A call \in calls : call.of = "load"
        BY <3>1, <3>2, CallsOfPages
      <3>4. committed = <<>> \/ \E old \in Paths : Whole(committed, old)
        BY <3>2 DEF Pages
      <3>. QED
        BY <2>1, <3>3, <3>4, LoadBegins
    <2>. QED
      BY <2>2, <2>3 DEF IInv
  <1>2. CASE \E route \in Loaders : ReloadRoute(route)
    <2>1. PICK route \in Loaders : ReloadRoute(route)
      BY <1>2
    <2>2. location' = location /\ overlapped' = (overlapped \/ ~Alone(route))
      BY <2>1 DEF ReloadRoute
    <2>3. ASSUME ~ overlapped'
          PROVE  Pages'
      <3>1. ~ overlapped /\ Alone(route)
        BY <2>2, <2>3
      <3>2. location \in Paths /\ Pages
        BY <3>1 DEF IInv
      <3>. QED
        BY <2>1, <3>1, <3>2, ReloadKeepsPages
    <2>. QED
      BY <2>2, <2>3 DEF IInv
  <1>3. CASE LoaderAnswers
    <2>1. location' \in Paths /\ overlapped' \in BOOLEAN /\ (overlapped => overlapped')
      <3>1. ASSUME NEW path \in Paths, NEW under, Load(path, under)
            PROVE  location' \in Paths /\ overlapped' \in BOOLEAN /\ (overlapped => overlapped')
        BY <3>1 DEF Load, IInv
      <3>2. CASE UNCHANGED <<location, overlapped>>
        BY <3>2 DEF IInv
      <3>. QED
        BY <1>3, <3>1, <3>2 DEF LoaderAnswers, LoaderResolves, LoaderFails, LoaderNotFound, LoaderRedirects
    <2>2. ASSUME ~ overlapped'
          PROVE  Pages'
      <3>1. location \in Paths /\ Pages
        BY <2>1, <2>2 DEF IInv
      <3>. QED
        BY <1>3, <3>1, AnswerKeepsPages
    <2>. QED
      BY <2>1, <2>2 DEF IInv
  <1>4. CASE UNCHANGED vars
    BY <1>4 DEF vars, IInv, Pages, AtRest, UnderLoad, UnderReload, OneCall
  <1>. QED
    BY <1>1, <1>2, <1>3, <1>4 DEF Next

\* The invariant holds in every behaviour.
THEOREM Invariance == Spec => []IInv
  <1>1. Init => IInv
    BY InitWhole
  <1>2. IInv /\ [Next]_vars => IInv'
    BY NextKeepsIInv
  <1>. QED
    BY <1>1, <1>2, PTL DEF Spec

\* committedMatches is the page of one path and every loader in it answered.
LEMMA WholeIsCommitted ==
  ASSUME IInv
  PROVE  CommittedWhole
  <1>. SUFFICES ASSUME ~overlapped, committed # <<>>
                PROVE  \E path \in Paths :
           /\ IsPrefix(Routes(committed), Chain[path])
           /\ ~HasNotFound(committed) => Len(committed) = Len(Chain[path])
           /\ \A i \in DOMAIN committed :
                  \/ committed[i].status = "notFound" /\ i = Len(committed)
                  \/ /\ committed[i].status = "ready"
                     /\ committed[i].params = Params[path][i]
                     /\ committed[i].route \in Loaders
                        => committed[i].data.params = Params[path][i]
    BY DEF CommittedWhole
  <1>1. PICK path \in Paths : Whole(committed, path)
    BY DEF IInv, Pages
  <1>2. /\ committed \in Seq(Matches) /\ Len(committed) \in 1 .. Len(Chain[path])
        /\ DOMAIN committed = 1 .. Len(committed) /\ Len(committed) \in Nat /\ Len(Chain[path]) \in Nat
    BY <1>1, ChainFacts DEF Whole, IsPage
  <1>a. \A i \in 1 .. Len(committed) :
           /\ OfPath(committed[i], path, i)
           /\ committed[i].status = "ready" /\ committed[i].route \in Loaders => HasLatest(committed[i])
           /\ committed[i].status = "notFound" => i = Len(committed)
           /\ committed[i].status \in {"ready", "notFound"}
    BY <1>1 DEF Whole, IsPage, Answering
  <1>b. Len(committed) < Len(Chain[path]) => committed[Len(committed)].status = "notFound"
    BY <1>1 DEF Whole, IsPage
  <1>3. IsPrefix(Routes(committed), Chain[path])
    <2>1. PICK routes : routes = Routes(committed)
      OBVIOUS
    <2>2. routes \in Seq(AllRoutes) /\ Len(routes) = Len(committed)
          /\ \A i \in 1 .. Len(committed) : routes[i] = Chain[path][i]
      <3>1. \A i \in 1 .. Len(committed) : committed[i].route = Chain[path][i] /\ Chain[path][i] \in AllRoutes
        <4>. SUFFICES ASSUME NEW i \in 1 .. Len(committed)
                      PROVE  committed[i].route = Chain[path][i] /\ Chain[path][i] \in AllRoutes
          OBVIOUS
        <4>1. i \in 1 .. Len(Chain[path])
          BY <1>2
        <4>. QED
          BY <1>a, <4>1, ChainFacts DEF OfPath
      <3>. QED
        BY <1>2, <2>1, <3>1 DEF Routes
    <2>3. Chain[path] \in Seq(AllRoutes)
      BY ChainFacts
    <2>4. SubSeq(Chain[path], 1, Len(routes)) = routes
      BY <1>2, <2>2, <2>3
    <2>. QED
      BY <1>2, <2>1, <2>2, <2>3, <2>4 DEF IsPrefix
  <1>4. ASSUME ~HasNotFound(committed)
        PROVE  Len(committed) = Len(Chain[path])
    <2>1. committed[Len(committed)].status # "notFound"
      BY <1>2, <1>4 DEF HasNotFound
    <2>. QED
      BY <1>2, <1>b, <2>1
  <1>5. ASSUME NEW i \in DOMAIN committed
        PROVE  \/ committed[i].status = "notFound" /\ i = Len(committed)
               \/ /\ committed[i].status = "ready"
                  /\ committed[i].params = Params[path][i]
                  /\ committed[i].route \in Loaders
                     => committed[i].data.params = Params[path][i]
    <2>1. i \in 1 .. Len(committed)
      BY <1>2
    <2>2. HasLatest(committed[i]) => committed[i].data.params = committed[i].params
      BY DEF HasLatest
    <2>. QED
      BY <1>a, <2>1, <2>2 DEF OfPath
  <1>. QED
    BY <1>3, <1>4, <1>5

\* A ready match shows its last call, and a page at rest is committed.
LEMMA LatestIsShown ==
  ASSUME IInv
  PROVE  LatestCallShows
  <1>. SUFFICES ASSUME ~overlapped
                PROVE  /\ \A i \in DOMAIN matches :
                             matches[i].status = "ready" /\ matches[i].route \in Loaders
                             => matches[i].data.call = matches[i].calls
                       /\ calls = {} /\ (\A i \in DOMAIN matches : matches[i].status # "error")
                          => committed = matches
    BY DEF LatestCallShows
  <1>1. Pages
    BY DEF IInv
  <1>2. CASE matches = <<>> /\ committed = <<>> /\ calls = {}
    BY <1>2
  <1>3. CASE IsPage(matches, location)
    <2>1. DOMAIN matches = 1 .. Len(matches)
      BY <1>3 DEF IsPage
    <2>2. \A i \in DOMAIN matches :
             matches[i].status = "ready" /\ matches[i].route \in Loaders
             => matches[i].data.call = matches[i].calls
      <3>1. \A i \in 1 .. Len(matches) :
               matches[i].status = "ready" /\ matches[i].route \in Loaders => HasLatest(matches[i])
        BY <1>3 DEF IsPage
      <3>2. \A i \in 1 .. Len(matches) :
               HasLatest(matches[i]) => matches[i].data.call = matches[i].calls
        BY DEF HasLatest
      <3>. QED
        BY <2>1, <3>1, <3>2
    <2>3. calls = {} => AtRest \/ (matches = <<>> /\ committed = <<>>)
      BY <1>1 DEF Pages, UnderLoad, UnderReload, OneCall
    <2>. QED
      BY <2>1, <2>2, <2>3 DEF AtRest
  <1>. QED
    BY <1>1, <1>2, <1>3 DEF Pages

\* committedMatches is a whole page of one path at any time, however the
\* loaders of a load answer: they fail, redirect or are not found, the user
\* navigates meanwhile, or reloads a route twice.
THEOREM CommitsWholePages == Spec => []CommittedWhole
  <1>1. IInv => CommittedWhole
    BY WholeIsCommitted
  <1>. QED
    BY <1>1, Invariance, PTL

\* No match shows the answer of an older call, and what is committed is what the
\* router matched once nothing is under way and nothing failed.
THEOREM ShowsLatestCalls == Spec => []LatestCallShows
  <1>1. IInv => LatestCallShows
    BY LatestIsShown
  <1>. QED
    BY <1>1, Invariance, PTL
=============================================================================
