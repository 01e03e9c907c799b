------------------------------ MODULE NodeHost ------------------------------
(***************************************************************************)
(* The Node host: the HTTP dispatcher and the shutdown coordinator of      *)
(* packages/plec-node/src/http.ts, the application handler of index.ts,    *)
(* and the native application behind it                                    *)
(* (crates/plec-node-bindings/src/application.rs).                         *)
(*                                                                         *)
(* One JavaScript thread runs the dispatcher, the API handlers and the     *)
(* callbacks of the native side; the native operations run on other        *)
(* threads.  A step of the JavaScript thread is one task with all its      *)
(* microtasks; a step of the native side ends at an await or a lock.       *)
(* A request whose signal is aborted reacts before it does anything else   *)
(* on the JavaScript thread.                                               *)
(***************************************************************************)
EXTENDS Integers, FiniteSets, Functions

CONSTANTS
    Api,           \* requests for the application's API handler
    Documents,     \* requests for a server-rendered document
    Actions,       \* requests for a server action
    MaxRequests,   \* MAX_ACTIVE_REQUESTS of the dispatcher
    MaxApi,        \* MAX_ACTIVE_REQUESTS of the handler's API branch
    MaxCallbacks,  \* permits for outstanding JavaScript callbacks
    MaxBytes,      \* MAX_AGGREGATE_API_PREREAD_BYTES
    BodyLimit      \* MAX_REQUEST_BODY_BYTES

ASSUME KindsApart ==
    /\ IsFiniteSet(Api) /\ IsFiniteSet(Documents) /\ IsFiniteSet(Actions)
    /\ Api \cap Documents = {} /\ Api \cap Actions = {} /\ Documents \cap Actions = {}
ASSUME LimitsAreNumbers ==
    /\ MaxRequests \in Nat \ {0} /\ MaxApi \in Nat \ {0} /\ MaxCallbacks \in Nat \ {0}
    /\ MaxBytes \in Nat \ {0} /\ BodyLimit \in Nat \ {0}

Requests == Api \cup Documents \cup Actions

VARIABLES
    host,            \* where the shutdown coordinator is
    accepting,       \* the dispatcher admits requests
    activeRequests,  \* admissions of the dispatcher that are out
    stage,           \* where each request is
    aborted,         \* each request's abort signal
    jsClosed,        \* the handler's closed flag
    activeApi,       \* API admissions that are out
    reservedBytes,   \* bytes of API bodies that are reserved
    apiHeld,         \* whether a request's API admission is out
    bytes,           \* what a request has reserved of reservedBytes
    js,              \* the JavaScript callback a request has started
    owner,           \* who holds the callback permit of a request
    permits,         \* callback permits that are free
    closing,         \* the native application has begun to close
    closed,          \* and has closed: its snapshot is gone
    active,          \* native operations under way
    closer,          \* where the native close() is in its loop
    notified         \* its registered waiter has been notified

httpVars == <<host, accepting, activeRequests>>
apiVars == <<activeApi, reservedBytes, apiHeld, bytes>>
callVars == <<js, owner, permits>>
nativeVars == <<closing, closed, active, closer, notified>>
vars == <<httpVars, stage, aborted, jsClosed, apiVars, callVars, nativeVars>>

NativeStages == {"native", "queued", "calling", "answered", "cancelBody"}
Stages == {"idle", "body", "handler", "sending", "entering", "done"} \cup NativeStages
Waiting == {"idle", "done"}     \* stages without an admission of the dispatcher

Init ==
    /\ host = "serving" /\ accepting = TRUE /\ activeRequests = 0
    /\ stage = [r \in Requests |-> "idle"]
    /\ aborted = [r \in Requests |-> FALSE]
    /\ jsClosed = FALSE
    /\ activeApi = 0 /\ reservedBytes = 0
    /\ apiHeld = [r \in Requests |-> FALSE]
    /\ bytes = [r \in Requests |-> 0]
    /\ js = [r \in Requests |-> "none"]
    /\ owner = [r \in Requests |-> "none"]
    /\ permits = MaxCallbacks
    /\ closing = FALSE /\ closed = FALSE /\ active = 0
    /\ closer = "idle" /\ notified = FALSE

-----------------------------------------------------------------------------
(* Admissions, reservations and permits.                                   *)

Admit == accepting /\ activeRequests < MaxRequests

Ends(r) ==
    /\ stage' = [stage EXCEPT ![r] = "done"]
    /\ activeRequests' = activeRequests - 1

ReleaseApi(r) ==
    /\ apiHeld' = [apiHeld EXCEPT ![r] = FALSE]
    /\ bytes' = [bytes EXCEPT ![r] = 0]
    /\ activeApi' = activeApi - 1
    /\ reservedBytes' = reservedBytes - bytes[r]

KeepApi(r) == UNCHANGED apiVars

\* A document may call again; an action calls once.
Resumed(r) == IF r \in Actions THEN "answered" ELSE "native"

TakePermit(r, who) ==
    /\ permits > 0
    /\ permits' = permits - 1
    /\ owner' = [owner EXCEPT ![r] = who]

\* Mutant: a permit that cancellation has dropped is given back again.
DropPermit_Again(r) ==
    /\ permits' = permits + 1
    /\ owner' = [owner EXCEPT ![r] = "none"]

DropPermit(r) ==
    /\ permits' = IF owner[r] = "none" THEN permits ELSE permits + 1
    /\ owner' = [owner EXCEPT ![r] = "none"]

\* A cancelled or failed native future drops the permit only while it owns it.
DropOwnPermit(r) == IF owner[r] = "request" THEN DropPermit(r) ELSE UNCHANGED <<owner, permits>>

\* Mutant: close() registers its waiter only after it has looked at the count.
DropActive_MissesEnabled ==
    /\ active' = active - 1
    /\ notified' = (notified \/ (active = 1 /\ closer = "waiting"))

DropActive ==
    /\ active' = active - 1
    /\ notified' = (notified \/ (active = 1 /\ closer # "idle"))

-----------------------------------------------------------------------------
(* Arrival: dispatch() of http.ts up to the first await of the handler.    *)

\* The dispatcher answers 503: it has stopped, or is at its limit.
Refuse(r) ==
    /\ stage[r] = "idle"
    /\ ~Admit
    /\ stage' = [stage EXCEPT ![r] = "done"]
    /\ UNCHANGED <<httpVars, aborted, jsClosed, apiVars, callVars, nativeVars>>

\* Admitted, but the handler is closed, is at its limit of API requests, or the
\* declared length is too large or does not fit the reservations: the request
\* is answered and released at once.
TurnAway(r, declared) ==
    /\ stage[r] = "idle" /\ Admit
    /\ \/ jsClosed
       \/ r \in Api /\ activeApi >= MaxApi
       \/ r \in Api /\ (declared > BodyLimit \/ reservedBytes + declared > MaxBytes)
       \/ r \notin Api /\ closing
    /\ stage' = [stage EXCEPT ![r] = "done"]
    /\ UNCHANGED <<httpVars, aborted, jsClosed, apiVars, callVars, nativeVars>>

StartApi(r, declared) ==
    /\ stage[r] = "idle" /\ Admit /\ r \in Api /\ ~jsClosed
    /\ activeApi < MaxApi
    /\ declared <= BodyLimit /\ reservedBytes + declared <= MaxBytes
    /\ activeRequests' = activeRequests + 1
    /\ activeApi' = activeApi + 1
    /\ reservedBytes' = reservedBytes + declared
    /\ apiHeld' = [apiHeld EXCEPT ![r] = TRUE]
    /\ bytes' = [bytes EXCEPT ![r] = declared]
    /\ stage' = [stage EXCEPT ![r] = "body"]
    /\ UNCHANGED <<host, accepting, aborted, jsClosed, callVars, nativeVars>>

\* handleAction takes its place among the native operations before it returns;
\* handleDocument is an async function, which first runs on a native thread.
StartNative(r) ==
    /\ stage[r] = "idle" /\ Admit /\ r \notin Api /\ ~jsClosed /\ ~closing
    /\ activeRequests' = activeRequests + 1
    /\ IF r \in Actions
       THEN stage' = [stage EXCEPT ![r] = "native"] /\ active' = active + 1
       ELSE stage' = [stage EXCEPT ![r] = "entering"] /\ UNCHANGED active
    /\ UNCHANGED <<host, accepting, aborted, jsClosed, apiVars, callVars,
                   closing, closed, closer, notified>>

Arrive(r) ==
    \/ Refuse(r)
    \/ StartNative(r)
    \/ \E declared \in 0..BodyLimit + 1 : TurnAway(r, declared) \/ StartApi(r, declared)

-----------------------------------------------------------------------------
(* An API request on the JavaScript thread.                                *)

\* One more unit of the body than was declared or reserved before.
ReadChunk(r) ==
    /\ stage[r] = "body" /\ ~aborted[r]
    /\ bytes[r] < BodyLimit /\ reservedBytes < MaxBytes
    /\ bytes' = [bytes EXCEPT ![r] = @ + 1]
    /\ reservedBytes' = reservedBytes + 1
    /\ UNCHANGED <<httpVars, stage, aborted, jsClosed, activeApi, apiHeld, callVars, nativeVars>>

\* The body is too large, does not fit, times out or fails; the application has
\* begun to close; or there is no callback permit: answered without the handler.
BodyFails(r) ==
    /\ stage[r] = "body" /\ ~aborted[r]
    /\ ReleaseApi(r) /\ Ends(r)
    /\ UNCHANGED <<host, accepting, aborted, jsClosed, callVars, nativeVars>>

\* The body is read: permit and handler in one task.
CallHandler(r) ==
    /\ stage[r] = "body" /\ ~aborted[r] /\ ~closing
    /\ TakePermit(r, "task")
    /\ js' = [js EXCEPT ![r] = "running"]
    /\ stage' = [stage EXCEPT ![r] = "handler"]
    /\ UNCHANGED <<httpVars, aborted, jsClosed, apiVars, nativeVars>>

\* The handler's promise settles while its request waits for it: with an answer
\* that has no body to track (an error, null, HEAD, 204, no body).
HandlerAnswers(r) ==
    /\ stage[r] = "handler" /\ ~aborted[r]
    /\ js' = [js EXCEPT ![r] = "none"]
    /\ DropPermit(r) /\ ReleaseApi(r) /\ Ends(r)
    /\ UNCHANGED <<host, accepting, aborted, jsClosed, nativeVars>>

\* ... with a Response whose body is tracked until it is read or cancelled.
HandlerStreams(r) ==
    /\ stage[r] = "handler" /\ ~aborted[r]
    /\ js' = [js EXCEPT ![r] = "none"]
    /\ DropPermit(r) /\ KeepApi(r)
    /\ stage' = [stage EXCEPT ![r] = "sending"]
    /\ UNCHANGED <<httpVars, aborted, jsClosed, nativeVars>>

\* ... with a Response whose body is locked: getReader throws after
\* releaseOnReturn is cleared, so the 400 answer keeps the admission.
HandlerReturnsUsed(r) ==
    /\ stage[r] = "handler" /\ ~aborted[r]
    /\ js' = [js EXCEPT ![r] = "used"]
    /\ DropPermit(r) /\ KeepApi(r) /\ Ends(r)
    /\ UNCHANGED <<host, accepting, aborted, jsClosed, nativeVars>>

\* The promise settles after its request has gone.
DetachedSettles(r) ==
    /\ r \in Api /\ stage[r] = "done" /\ js[r] = "running"
    /\ js' = [js EXCEPT ![r] = "none"]
    /\ DropPermit(r) /\ ReleaseApi(r)
    /\ UNCHANGED <<httpVars, stage, aborted, jsClosed, nativeVars>>

\* sendResponse: the body is read to its end, or fails.
SendEnds(r) ==
    /\ stage[r] = "sending" /\ ~aborted[r]
    /\ Ends(r)
    /\ IF apiHeld[r] THEN ReleaseApi(r) ELSE KeepApi(r)
    /\ UNCHANGED <<host, accepting, aborted, jsClosed, callVars, nativeVars>>

\* The application's own cancel of a tracked body has settled.
CancelSettles(r) ==
    /\ js[r] = "cancelling"
    /\ js' = [js EXCEPT ![r] = "none"]
    /\ ReleaseApi(r)
    /\ UNCHANGED <<httpVars, stage, aborted, jsClosed, owner, permits, nativeVars>>

-----------------------------------------------------------------------------
(* The client disconnects, or shutdown aborts the request; the reactions.  *)

Disconnect(r) ==
    /\ stage[r] \notin Waiting /\ ~aborted[r]
    /\ aborted' = [aborted EXCEPT ![r] = TRUE]
    /\ UNCHANGED <<httpVars, stage, jsClosed, apiVars, callVars, nativeVars>>

AbortBody(r) ==
    /\ stage[r] = "body" /\ aborted[r]
    /\ ReleaseApi(r) /\ Ends(r)
    /\ UNCHANGED <<host, accepting, aborted, jsClosed, callVars, nativeVars>>

\* Mutant: the admission goes with the client.
AbortHandler_Releases(r) ==
    /\ stage[r] = "handler" /\ aborted[r]
    /\ Ends(r) /\ ReleaseApi(r)
    /\ UNCHANGED <<host, accepting, aborted, jsClosed, callVars, nativeVars>>

\* waitForApiHandler detaches: what the request holds stays with the promise.
AbortHandler(r) ==
    /\ stage[r] = "handler" /\ aborted[r]
    /\ Ends(r) /\ KeepApi(r)
    /\ UNCHANGED <<host, accepting, aborted, jsClosed, callVars, nativeVars>>

\* The body's reader is cancelled; an API admission waits for that.
AbortSending(r) ==
    /\ stage[r] = "sending" /\ aborted[r]
    /\ Ends(r) /\ KeepApi(r)
    /\ js' = IF r \in Api THEN [js EXCEPT ![r] = "cancelling"] ELSE js
    /\ UNCHANGED <<host, accepting, aborted, jsClosed, owner, permits, nativeVars>>

-----------------------------------------------------------------------------
(* A native operation.                                                     *)

Cancelled(r) == aborted[r] \/ closing

\* Mutant: only create_cancellation looks at closing.
EnterNative_Unchecked(r) ==
    /\ stage[r] = "entering"
    /\ stage' = [stage EXCEPT ![r] = "native"]
    /\ active' = active + 1
    /\ UNCHANGED <<httpVars, aborted, jsClosed, apiVars, callVars,
                   closing, closed, closer, notified>>

\* The first poll of handle_document.
EnterNative(r) ==
    /\ stage[r] = "entering"
    /\ IF closing
       THEN Ends(r) /\ UNCHANGED active
       ELSE /\ stage' = [stage EXCEPT ![r] = "native"]
            /\ active' = active + 1
            /\ UNCHANGED activeRequests
    /\ UNCHANGED <<host, accepting, aborted, jsClosed, apiVars, callVars,
                   closing, closed, closer, notified>>

\* render_host and invoke_action: a permit, then the call is queued for the
\* JavaScript thread.  Without a permit the operation goes on: a document gets
\* an empty fragment, an action ends with Overloaded.
QueueCallback(r) ==
    /\ stage[r] = "native"
    /\ TakePermit(r, "request")
    /\ js' = [js EXCEPT ![r] = "queued"]
    /\ stage' = [stage EXCEPT ![r] = "queued"]
    /\ UNCHANGED <<httpVars, aborted, jsClosed, apiVars, nativeVars>>

\* The JavaScript thread takes the call from its queue and calls the function,
\* whether or not the future that queued it is still there.
RunCallback(r) ==
    /\ js[r] = "queued"
    /\ js' = [js EXCEPT ![r] = "running"]
    /\ UNCHANGED <<httpVars, stage, aborted, jsClosed, apiVars, owner, permits, nativeVars>>

\* The function threw: a future that is still there has an error, no promise.
CallbackThrows(r) ==
    /\ js[r] = "queued"
    /\ js' = [js EXCEPT ![r] = "none"]
    /\ stage' = IF stage[r] = "queued" THEN [stage EXCEPT ![r] = Resumed(r)] ELSE stage
    /\ DropOwnPermit(r)
    /\ UNCHANGED <<httpVars, aborted, jsClosed, apiVars, nativeVars>>

\* Mutant: the permit is dropped when the promise is there.
AwaitPromise_DropsPermit(r) ==
    /\ stage[r] = "queued" /\ js[r] = "running"
    /\ stage' = [stage EXCEPT ![r] = "calling"]
    /\ DropPermit(r)
    /\ UNCHANGED <<httpVars, aborted, jsClosed, apiVars, js, nativeVars>>

\* The future gets the promise and gives the permit to the task that awaits it.
AwaitPromise(r) ==
    /\ stage[r] = "queued" /\ js[r] = "running"
    /\ stage' = [stage EXCEPT ![r] = "calling"]
    /\ owner' = [owner EXCEPT ![r] = "task"]
    /\ UNCHANGED <<httpVars, aborted, jsClosed, apiVars, js, permits, nativeVars>>

\* The promise settles: the task drops the permit and hands the result to the
\* future, if that still waits.  (Should it settle before the future has it,
\* the task that is then made ends at once.)
PromiseSettles(r) ==
    /\ r \notin Api /\ js[r] = "running" /\ owner[r] # "request"
    /\ js' = [js EXCEPT ![r] = "none"]
    /\ stage' = IF stage[r] = "calling" THEN [stage EXCEPT ![r] = Resumed(r)] ELSE stage
    /\ DropPermit(r)
    /\ UNCHANGED <<httpVars, aborted, jsClosed, apiVars, nativeVars>>

\* The operation ends and drops its ActiveOperation; the JavaScript thread gets
\* a response to send, or has nothing to send or nobody to send it to.
NativeEnds(r) ==
    /\ stage[r] \in {"native", "answered"}
    /\ \/ ~aborted[r]
          /\ stage' = [stage EXCEPT ![r] = "sending"] /\ UNCHANGED activeRequests
       \/ Ends(r)
    /\ DropActive
    /\ UNCHANGED <<host, accepting, aborted, jsClosed, apiVars, callVars, closing, closed, closer>>

\* Cancellation wins the select: the future is dropped where it waits.  A
\* document is done with; an action asks the JavaScript thread to cancel its body.
NativeCancelled(r) ==
    /\ stage[r] \in NativeStages \ {"cancelBody"} /\ Cancelled(r)
    /\ DropOwnPermit(r)
    /\ IF r \in Actions
       THEN /\ stage' = [stage EXCEPT ![r] = "cancelBody"]
            /\ UNCHANGED <<activeRequests, active, notified>>
       ELSE Ends(r) /\ DropActive
    /\ UNCHANGED <<host, accepting, aborted, jsClosed, apiVars, js, closing, closed, closer>>

\* The body is cancelled and the task completes with an error on the JavaScript
\* thread, which drops the ActiveOperation with it.
BodyCancelled(r) ==
    /\ stage[r] = "cancelBody"
    /\ Ends(r) /\ DropActive
    /\ UNCHANGED <<host, accepting, aborted, jsClosed, apiVars, callVars, closing, closed, closer>>

-----------------------------------------------------------------------------
(* Shutdown: createShutdownCoordinator, then close() of the handler and of *)
(* the native application.                                                 *)

Signal ==
    /\ host = "serving"
    /\ host' = "draining" /\ accepting' = FALSE
    /\ UNCHANGED <<activeRequests, stage, aborted, jsClosed, apiVars, callVars, nativeVars>>

Drained ==
    /\ host = "draining" /\ activeRequests = 0
    /\ host' = "closing" /\ jsClosed' = TRUE
    /\ UNCHANGED <<accepting, activeRequests, stage, aborted, apiVars, callVars, nativeVars>>

\* closeAllConnections and abortActiveRequests.
GraceExpires ==
    /\ host = "draining"
    /\ host' = "forcing"
    /\ aborted' = [r \in Requests |-> aborted[r] \/ stage[r] \notin Waiting]
    /\ UNCHANGED <<accepting, activeRequests, stage, jsClosed, apiVars, callVars, nativeVars>>

\* The listener has closed; what the requests do is not waited for.
Forced ==
    /\ host = "forcing"
    /\ host' = "closing" /\ jsClosed' = TRUE
    /\ UNCHANGED <<accepting, activeRequests, stage, aborted, apiVars, callVars, nativeVars>>

\* The first poll of close(): no operation begins from here on.
BeginClose ==
    /\ host = "closing" /\ ~closing
    /\ closing' = TRUE
    /\ closer' = "enabled" /\ notified' = FALSE
    /\ UNCHANGED <<httpVars, stage, aborted, jsClosed, apiVars, callVars, closed, active>>

\* With its waiter registered, close() looks at the count.
CheckActive ==
    /\ closer = "enabled"
    /\ IF active = 0
       THEN closed' = TRUE /\ closer' = "idle" /\ host' = "closed" /\ UNCHANGED notified
       ELSE closer' = "looked" /\ UNCHANGED <<closed, host, notified>>
    /\ UNCHANGED <<accepting, activeRequests, stage, aborted, jsClosed, apiVars, callVars,
                   closing, active>>

\* It has let go of the lock and awaits its waiter.
AwaitNotified ==
    /\ closer = "looked"
    /\ closer' = "waiting"
    /\ UNCHANGED <<httpVars, stage, aborted, jsClosed, apiVars, callVars,
                   closing, closed, active, notified>>

\* The waiter is notified: the loop registers again.
WakeCloser ==
    /\ closer = "waiting" /\ notified
    /\ closer' = "enabled" /\ notified' = FALSE
    /\ UNCHANGED <<httpVars, stage, aborted, jsClosed, apiVars, callVars, closing, closed, active>>

-----------------------------------------------------------------------------
Handle(r) ==
    \/ ReadChunk(r) \/ BodyFails(r) \/ CallHandler(r)
    \/ HandlerAnswers(r) \/ HandlerStreams(r) \/ HandlerReturnsUsed(r)
    \/ DetachedSettles(r) \/ SendEnds(r) \/ CancelSettles(r)

React(r) == AbortBody(r) \/ AbortHandler(r) \/ AbortSending(r)

Operate(r) ==
    \/ EnterNative(r) \/ QueueCallback(r) \/ RunCallback(r) \/ CallbackThrows(r)
    \/ AwaitPromise(r) \/ PromiseSettles(r) \/ NativeEnds(r)
    \/ NativeCancelled(r) \/ BodyCancelled(r)

Shutdown == Signal \/ Drained \/ GraceExpires \/ Forced \/ BeginClose \/ CheckActive
            \/ AwaitNotified \/ WakeCloser

Next ==
    \/ \E r \in Requests :
         Arrive(r) \/ Handle(r) \/ Disconnect(r) \/ React(r) \/ Operate(r)
    \/ Shutdown

Spec == Init /\ [][Next]_vars

\* The event loop and the native threads run, and the grace timer fires: what
\* unwinds a request, and the steps of shutdown after its signal, happen.
\* Nothing is assumed of the application: a handler, a callback or a body may
\* never settle, and a client may never read.
Unwind(r) == React(r) \/ EnterNative(r) \/ NativeCancelled(r) \/ BodyCancelled(r)
Closing == GraceExpires \/ Forced \/ BeginClose \/ CheckActive
            \/ AwaitNotified \/ WakeCloser

Fairness == (\A r \in Requests : WF_vars(Unwind(r))) /\ WF_vars(Closing)
FairSpec == Spec /\ Fairness

-----------------------------------------------------------------------------
(* Properties.                                                             *)

\* That reservedBytes is never negative is part of BytesCounted.
TypeOK ==
    /\ host \in {"serving", "draining", "forcing", "closing", "closed"}
    /\ accepting \in BOOLEAN /\ jsClosed \in BOOLEAN
    /\ closing \in BOOLEAN /\ closed \in BOOLEAN /\ notified \in BOOLEAN
    /\ activeRequests \in Nat /\ activeApi \in Nat /\ reservedBytes \in Int
    /\ permits \in Nat /\ active \in Nat
    /\ stage \in [Requests -> Stages]
    /\ aborted \in [Requests -> BOOLEAN]
    /\ apiHeld \in [Requests -> BOOLEAN]
    /\ bytes \in [Requests -> Nat]
    /\ js \in [Requests -> {"none", "queued", "running", "used", "cancelling"}]
    /\ owner \in [Requests -> {"none", "request", "task"}]
    /\ closer \in {"idle", "enabled", "looked", "waiting"}

Admitted == {r \in Requests : stage[r] \notin Waiting}
ApiHolders == {r \in Requests : apiHeld[r]}
PermitHolders == {r \in Requests : owner[r] # "none"}
Operations == {r \in Requests : stage[r] \in NativeStages}

\* The counters of the host are the numbers of requests that hold what they count.
HoldersCounted ==
    /\ activeRequests = Cardinality(Admitted) /\ activeRequests <= MaxRequests
    /\ activeApi = Cardinality(ApiHolders) /\ activeApi <= MaxApi
    /\ permits + Cardinality(PermitHolders) = MaxCallbacks
    /\ active = Cardinality(Operations)

\* The bytes of API bodies are reserved one by one and given back together
\* (index.ts:224-229, 286-297); their sum stays below the limit.
BytesCounted ==
    /\ reservedBytes = FoldFunction(+, 0, bytes)
    /\ reservedBytes <= MaxBytes
    /\ \A r \in Requests : bytes[r] > 0 => apiHeld[r]

\* Every counter of the host stands for what the requests hold, along every path
\* by which a request can end (http.ts:85-99, index.ts:224-229,
\* application.rs:632-641): nothing is released twice, and nothing is lost.
CountersCount == HoldersCounted /\ BytesCounted

\* docs/node-host.md:1417-1419: an API handler keeps its admission and its
\* callback permit until its promise settles, even when its client has gone, so
\* the limits bound the handlers that run.  And what a request still holds of the
\* API's capacity has a reason: it is being read, handled or sent, or the
\* application has yet to settle a promise of its own.  The one exception in the
\* code is a Response that was already used.
CapacityFollowsHandlers ==
    \A r \in Api :
        /\ js[r] = "running" => apiHeld[r] /\ owner[r] = "task"
        /\ apiHeld[r] => \/ stage[r] \in {"body", "handler", "sending"}
                         \/ js[r] \in {"running", "cancelling", "used"}

\* A callback that runs without a permit was queued by an operation that was
\* cancelled before it had the promise (application.rs:102-106, 161-165): no
\* operation still under way ever has such a callback.
PermitLostOnlyByCancel ==
    \A r \in Documents \cup Actions :
        js[r] = "running" /\ owner[r] = "none" =>
            Cancelled(r) /\ stage[r] \in {"cancelBody", "done"}

\* Once close() has resolved no native operation is under way and none begins:
\* the snapshot is gone (application.rs:454-458).
ClosedIsQuiet ==
    closed => Operations = {} /\ \A r \in Requests : owner[r] # "request"

\* docs/node-host.md:1435-1438: shutdown ends, although handlers, callbacks,
\* streams and clients may never settle; a close() that waits is always woken.
ShutdownEnds == (host = "draining") ~> (host = "closed")
=============================================================================
