------------------------------ MODULE PageRouter ------------------------------
(***************************************************************************)
(* PlecRouter of packages/plec: the router of a page that runs on plec     *)
(* itself.  A load runs the loaders of the matched chain one after the     *)
(* other and commits the chain when the last has answered; a route may be  *)
(* reloaded by itself.  JavaScript runs each piece up to the next await,   *)
(* and between two pieces come the answers of other loaders and the user.  *)
(*                                                                         *)
(* A load has a version and a controller and a reload has, too; each new   *)
(* one aborts the one before and takes the next version.  A call whose     *)
(* controller is aborted is forgotten here: its answer changes nothing.    *)
(***************************************************************************)
EXTENDS Naturals, SequencesExt, FiniteSetsExt

CONSTANTS
    Chain,          \* matchRoutes: for each path its routes, the root first
    Params,         \* and the parameters of each
    Loaders,        \* routes with a loader
    Boundaries,     \* routes with a notFoundComponent
    Invalid,        \* redirect targets that followLoaderRedirect refuses
    MaxHops,        \* MAX_REDIRECT_HOPS
    MaxUser         \* bound: navigations and reloads of the user

Paths == DOMAIN Chain

\* matchRoutes walks down a tree of routes: no route is in a chain twice.
ASSUME ChainsHaveParams ==
    /\ DOMAIN Params = Paths
    /\ \A path \in Paths :
          /\ Chain[path] \in Seq(Range(Chain[path])) \ {<<>>} /\ IsInjective(Chain[path])
          /\ Params[path] \in Seq(Range(Params[path])) /\ Len(Params[path]) = Len(Chain[path])
ASSUME RedirectsAreKnown == Invalid \cap Paths = {}

VARIABLES
    location,       \* the path in the address bar
    matches,        \* the chain of the location
    committed,      \* committedMatches
    calls,          \* loader calls under way
    hops,           \* redirectHops
    user,           \* operations of the user so far
    overlapped      \* a reload met a load, or another route's reload

vars == <<location, matches, committed, calls, hops, user, overlapped>>

NoData == [params |-> "none", call |-> 0]

\* A match counts the calls made for it; its data names the call it is from.
Match(path, i) ==
    [route |-> Chain[path][i], params |-> Params[path][i], data |-> NoData, calls |-> 0,
     status |-> IF Chain[path][i] \in Loaders THEN "pending" ELSE "ready"]

Routes(chain) == [i \in DOMAIN chain |-> chain[i].route]

\* A call remembers its match: the place in matches, or the match as it was
\* when the chain was replaced or cut.  A load goes on after its answer with
\* the place that follows at.
Call(of, at, match) ==
    [of |-> of, at |-> at, number |-> match.calls, attached |-> TRUE, match |-> match]

(***************************************************************************)
(* The load                                                                *)
(***************************************************************************)

\* loadMatch up to its await.
Called(match) == [match EXCEPT !.status = "pending", !.calls = @ + 1]

\* The calls of matches that are no longer in the chain keep them.
Detached(under, chain, kept) ==
    { IF call.attached /\ call.at > kept
      THEN [call EXCEPT !.attached = FALSE, !.match = chain[call.at]] ELSE call :
      call \in under }

\* this.controller?.abort(): the load before.
Aborted(under) == { call \in under : call.of # "load" }

\* The loop of load goes on behind a place of the chain: the next loader is
\* called, or with none left the chain is committed.
Advance_Early(chain, under, at) ==
    LET left == { i \in DOMAIN chain : i > at /\ chain[i].route \in Loaders }
    IN  IF left = {}
        THEN matches' = chain /\ calls' = under /\ committed' = chain
        ELSE LET next == Min(left)
                 called == [chain EXCEPT ![next] = Called(chain[next])]
             IN  /\ matches' = called
                 /\ calls' = under \cup {Call("load", next, called[next])}
                 /\ committed' = IF next = Len(chain) THEN called ELSE committed

Advance(chain, under, at) ==
    LET left == { i \in DOMAIN chain : i > at /\ chain[i].route \in Loaders }
    IN  IF left = {}
        THEN matches' = chain /\ calls' = under /\ committed' = chain
        ELSE LET next == Min(left)
                 called == [chain EXCEPT ![next] = Called(chain[next])]
             IN  /\ matches' = called
                 /\ calls' = under \cup {Call("load", next, called[next])}
                 /\ UNCHANGED committed

\* load: a new chain, and its first loader.
Load(path, under) ==
    /\ location' = path
    /\ Advance([i \in DOMAIN Chain[path] |-> Match(path, i)],
               Detached(Aborted(under), matches, 0), 0)
    /\ overlapped' = (overlapped \/ \E call \in under : call.of = "reload")

(***************************************************************************)
(* The outcomes of a loader                                                *)
(***************************************************************************)

\* The match of a call in the chain.
Put(chain, call, match) == IF call.attached THEN [chain EXCEPT ![call.at] = match] ELSE chain
Object(call) == IF call.attached THEN matches[call.at] ELSE call.match

Answered(match, number) ==
    [match EXCEPT !.status = "ready", !.data = [params |-> match.params, call |-> number]]

\* resolveNotFound: the chain is cut at the nearest boundary, or after the root.
Owner(at) ==
    LET owners == { i \in 1..at : matches[i].route \in Boundaries }
    IN  IF owners = {} THEN 1 ELSE Max(owners)

CutAt(owner) == [SubSeq(matches, 1, owner) EXCEPT ![owner].status = "notFound"]

HasNotFound(chain) == \E i \in DOMAIN chain : chain[i].status = "notFound"

\* The catch of followLoaderRedirect: the first match that is pending fails.
FirstPendingFails(chain) ==
    LET pending == { i \in DOMAIN chain : chain[i].status = "pending" }
    IN  IF pending = {} THEN chain ELSE [chain EXCEPT ![Min(pending)].status = "error"]

\* load after its await of loadMatch: the call's match is in the chain as it is.
GoesOn(call, match, chain, under) ==
    IF match.status = "error"
    THEN matches' = chain /\ calls' = under /\ UNCHANGED committed
    ELSE IF HasNotFound(chain)
    THEN matches' = chain /\ calls' = under /\ committed' = chain
    ELSE Advance(chain, under, call.at)

LoaderResolves(call) ==
    LET match == Answered(Object(call), call.number)
        chain == Put(matches, call, match)
        same == { i \in DOMAIN committed : committed[i].route = match.route }
        rest == calls \ {call}
    IN  /\ IF call.of = "load" THEN GoesOn(call, match, chain, rest)
           ELSE /\ matches' = chain
                /\ calls' = rest
                /\ committed' = IF same = {} THEN chain
                                ELSE [committed EXCEPT ![Min(same)] = match]
        /\ UNCHANGED <<location, hops, user, overlapped>>

LoaderFails(call) ==
    /\ matches' = Put(matches, call, [Object(call) EXCEPT !.status = "error"])
    /\ calls' = calls \ {call}
    /\ UNCHANGED <<location, committed, hops, user, overlapped>>

\* A reload commits what is there; a load goes on to the same.
LoaderNotFound(call) ==
    LET rest == calls \ {call}
        owner == Owner(call.at)
    IN  /\ IF call.attached
           THEN /\ matches' = CutAt(owner)
                /\ committed' = CutAt(owner)
                /\ calls' = Detached(rest, matches, owner)
           ELSE IF call.of = "load" THEN GoesOn(call, Object(call), matches, rest)
           ELSE matches' = matches /\ committed' = matches /\ calls' = rest
        /\ UNCHANGED <<location, hops, user, overlapped>>

\* followLoaderRedirect, which counts the hops since the user's last operation.
LoaderRedirects_Uncounted(call, to) ==
    LET failed == FirstPendingFails(matches)
        rest == calls \ {call}
    IN  /\ IF to \in Invalid
           THEN /\ IF call.of = "load" /\ call.attached
                   THEN GoesOn(call, failed[call.at], failed, rest)
                   ELSE matches' = failed /\ calls' = rest /\ UNCHANGED committed
                /\ UNCHANGED <<location, overlapped>>
           ELSE Load(to, rest)
        /\ UNCHANGED <<hops, user>>

LoaderRedirects(call, to) ==
    LET failed == FirstPendingFails(matches)
        rest == calls \ {call}
        match == Object(call)
    IN  /\ hops' = IF to \in Invalid THEN hops ELSE hops + 1
        /\ IF to \in Invalid \/ hops' > MaxHops
           THEN /\ IF call.of = "load"
                   THEN GoesOn(call, IF call.attached THEN failed[call.at] ELSE match,
                               failed, rest)
                   ELSE matches' = failed /\ calls' = rest /\ UNCHANGED committed
                /\ UNCHANGED <<location, overlapped>>
           ELSE Load(to, rest)
        /\ UNCHANGED user

LoaderAnswers ==
    \E call \in calls :
        \/ LoaderResolves(call)
        \/ LoaderFails(call)
        \/ LoaderNotFound(call)
        \/ \E to \in Paths \cup Invalid : LoaderRedirects(call, to)

(***************************************************************************)
(* The user                                                                *)
(***************************************************************************)

ByUser == user < MaxUser /\ user' = user + 1 /\ hops' = 0

\* navigate, start, and reload, which the back button and the error view call.
Navigate(path) ==
    /\ ByUser
    /\ Load(path, calls)

\* Nothing is under way but calls for this route, and the rest of the page is
\* committed.  A reload does not go on below a match that was not found.
Alone(route) ==
    /\ \A call \in calls : call.of = "reload" /\ Object(call).route = route
    /\ Routes(committed) = Routes(matches)
    /\ \A i \in DOMAIN matches :
           IF matches[i].route = route
           THEN matches[i].status # "notFound" /\ matches[i].params = committed[i].params
           ELSE matches[i] = committed[i] /\ matches[i].status = "ready"

OfRoute(route) == { call \in calls : call.of = "reload" /\ Object(call).route = route }

ReloadRoute_Keeping(route) ==
    LET same == { i \in DOMAIN matches : matches[i].route = route }
        at == Min(same)
        called == Called([matches[at] EXCEPT !.params = Params[location][at]])
    IN  /\ same # {} /\ route \in Loaders /\ ByUser
        /\ matches' = [matches EXCEPT ![at] = called]
        /\ calls' = calls \cup {Call("reload", at, called)}
        /\ overlapped' = (overlapped \/ ~Alone(route))
        /\ UNCHANGED <<location, committed>>

\* reloadRoute: the reload of the same route before is aborted.
ReloadRoute(route) ==
    LET same == { i \in DOMAIN matches : matches[i].route = route }
        at == Min(same)
        called == Called([matches[at] EXCEPT !.params = Params[location][at]])
    IN  /\ same # {} /\ route \in Loaders /\ ByUser
        /\ matches' = [matches EXCEPT ![at] = called]
        /\ calls' = (calls \ OfRoute(route)) \cup {Call("reload", at, called)}
        /\ overlapped' = (overlapped \/ ~Alone(route))
        /\ UNCHANGED <<location, committed>>

Init ==
    /\ location \in Paths
    /\ matches = <<>> /\ committed = <<>> /\ calls = {}
    /\ hops = 0 /\ user = 0 /\ overlapped = FALSE

Next ==
    \/ \E path \in Paths : Navigate(path)
    \/ \E route \in Loaders : ReloadRoute(route)
    \/ LoaderAnswers

Spec == Init /\ [][Next]_vars

\* A loader's promise settles: requests end or time out.
FairSpec == Spec /\ WF_vars(LoaderAnswers)

(***************************************************************************)
(* Properties                                                              *)
(***************************************************************************)

\* committedMatches is one page: the chain of a path, or its part down to a
\* not-found boundary, and every loader in it has answered for the parameters
\* of that path ("A navigation is committed atomically after every active
\* loader succeeds", router.ts).  A reload that meets a load breaks it.
CommittedWhole ==
    ~overlapped /\ committed # <<>>
    => \E path \in Paths :
           /\ IsPrefix(Routes(committed), Chain[path])
           /\ ~HasNotFound(committed) => Len(committed) = Len(Chain[path])
           /\ \A i \in DOMAIN committed :
                  \/ committed[i].status = "notFound" /\ i = Len(committed)
                  \/ /\ committed[i].status = "ready"
                     /\ committed[i].params = Params[path][i]
                     /\ committed[i].route \in Loaders
                        => committed[i].data.params = Params[path][i]

\* A match that is ready has the answer of the last call made for it, and a
\* page with nothing under way that did not fail is committed as it is.
LatestCallShows ==
    ~overlapped
    => /\ \A i \in DOMAIN matches :
              matches[i].status = "ready" /\ matches[i].route \in Loaders
              => matches[i].data.call = matches[i].calls
       /\ calls = {} /\ (\A i \in DOMAIN matches : matches[i].status # "error")
          => committed = matches

\* Redirects end: when the user leaves the page alone no call stays under way,
\* whatever the loaders answer and whatever overlaps.
CallsEnd == <>[](calls = {})
=============================================================================
