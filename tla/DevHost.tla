------------------------------ MODULE DevHost ------------------------------
(***************************************************************************)
(* The development loop: the Vite plugin of packages/plec-vite/src/index.js*)
(* with its entry point bin/dev.mjs.  Edits are noticed by the watcher,    *)
(* `build` compiles into a candidate directory and either starts another   *)
(* Node host on it or copies its client parts under the running host, and  *)
(* `cleanup` may begin at any moment.  A step ends at an await.            *)
(***************************************************************************)
EXTENDS Integers, FiniteSets, Functions, TLC

CONSTANTS
    Kinds,        \* kinds of edits: a subset of AllKinds
    MaxEdits,     \* bound on edits
    MaxFaults,    \* bound on file operations that fail
    FaultPoints,  \* where in build() one may
    MaxRequests   \* bound on requests of one host at a time

AllKinds == {"server", "client", "provider"}

ASSUME KindsAreKnown == Kinds \subseteq AllKinds
ASSUME BoundsAreNumbers == MaxEdits \in Nat /\ MaxFaults \in Nat /\ MaxRequests \in Nat

ASSUME FaultsAreOfCalls ==
    FaultPoints \subseteq
        {"start", "restart", "drain", "remove old", "copy", "away", "in", "drop", "promoted"}

Directories == 1 .. MaxEdits + 1    \* one candidate for each build
None == 0
Parts == {"server", "client", "public"}
Missing == [k \in AllKinds |-> -1]  \* a part that is not there

VARIABLES
    source,        \* version of the sources, by kind
    sound,         \* the sources compile
    edits, faults, \* how many of either so far
    notice,        \* a change the watcher has not reported yet
    pc,            \* where build() is
    initial,       \* it is the build of configureServer
    dirty,         \* a change was reported during it
    replacementReady,
    candidate,     \* its directory
    oldHost, oldOutput,
    part, aside,   \* the part promoteClientOutput replaces, and what it has moved away
    disk,          \* what each output directory holds, part by part
    host, activeOutput,
    hosts,         \* the hosts that were started, named by their directories
    loaded,        \* what a host has read when it started
    requests,      \* requests under way in each host
    closing,
    cleaner,       \* where cleanup() is
    cleaned,       \* the host it closes
    raced,         \* a build was under way when it began
    shown          \* what an open page was last loaded from

sourceVars == <<source, sound, edits, notice>>
buildVars == <<pc, initial, dirty, replacementReady, candidate, oldHost, oldOutput, part,
               aside>>
hostVars == <<host, activeOutput, hosts, loaded, requests>>
endVars == <<closing, cleaner, cleaned, raced, shown>>
vars == <<sourceVars, faults, buildVars, disk, hostVars, endVars>>

Empty == [p \in Parts |-> Missing]
Listening == ~initial /\ pc # "gone"

(* What a visitor gets of a host: its server parts as it has loaded them, the browser's from the disk. *)
Served(d) == [k \in AllKinds |-> IF k = "client" THEN disk[d]["client"][k] ELSE loaded[d][k]]

Init ==
    /\ source = [k \in AllKinds |-> 0] /\ sound \in BOOLEAN
    /\ edits = 0 /\ faults = 0 /\ notice = FALSE
    /\ pc = "spawn" /\ initial = TRUE /\ dirty = FALSE /\ replacementReady = FALSE
    /\ candidate = None /\ oldHost = None /\ oldOutput = None
    /\ part = "client" /\ aside = Missing
    /\ disk = [d \in Directories |-> Empty]
    /\ host = None /\ activeOutput = None
    /\ hosts = [d \in Directories |-> "none"]
    /\ loaded = [d \in Directories |-> Missing]
    /\ requests = [d \in Directories |-> 0]
    /\ closing = FALSE /\ cleaner = "idle" /\ cleaned = None /\ raced = FALSE
    /\ shown = Missing

(* What a step of build() leaves alone besides what it names. *)
Keep == UNCHANGED <<sourceVars, endVars, initial>>

-----------------------------------------------------------------------------
(* Mutations of the code *)

(* dirty = false when the replacement is ready, where a report during the build is lost. *)
DirtyForgotten ==
    /\ pc = "built" /\ pc' = "loop"
    /\ replacementReady' = TRUE /\ dirty' = FALSE
    /\ Keep /\ UNCHANGED <<faults, candidate, oldHost, oldOutput, part, aside, disk, hostVars>>

(* replacementReady is reset at each turn of the loop. *)
ReadyPerTurn ==
    /\ pc = "spawn" /\ pc' = "compile"
    /\ dirty' = FALSE /\ replacementReady' = FALSE
    /\ candidate' = candidate + 1
    /\ Keep /\ UNCHANGED <<faults, oldHost, oldOutput, part, aside, disk, hostVars>>

(* The old host and output are read after the new ones have been assigned. *)
OldReadLate ==
    /\ pc \in {"start", "restart"}
    /\ pc' = IF pc = "start" THEN "built" ELSE "close"
    /\ host' = candidate /\ activeOutput' = candidate
    /\ oldHost' = candidate /\ oldOutput' = candidate
    /\ hosts' = [hosts EXCEPT ![candidate] = "open"]
    /\ loaded' = [loaded EXCEPT ![candidate] =
                     [disk[candidate]["client"] EXCEPT !["server"] = disk[candidate]["server"]["server"]]]
    /\ Keep /\ UNCHANGED <<faults, dirty, replacementReady, candidate, part, aside, disk, requests>>

(* cleanup() does not wait for the requests of the host. *)
NoDrain(d) == TRUE

(* A report during a build waits for the next one. *)
NoticeIgnored ==
    /\ notice /\ pc # "gone" /\ ~closing
    /\ notice' = FALSE
    /\ IF pc = "idle"
       THEN pc' = "spawn" /\ replacementReady' = FALSE
       ELSE UNCHANGED <<pc, replacementReady>>
    /\ UNCHANGED <<source, sound, edits, faults, initial, dirty, candidate, oldHost, oldOutput, part, aside,
                   disk, hostVars, endVars>>

(* The dispatcher admits without a limit. *)
-----------------------------------------------------------------------------
(* Edits, and the watcher *)

Edit(k, s) ==
    /\ edits < MaxEdits /\ pc # "gone" /\ ~closing
    /\ edits' = edits + 1
    /\ source' = [source EXCEPT ![k] = edits']
    /\ sound' = s
    /\ notice' = TRUE
    /\ UNCHANGED <<faults, buildVars, disk, hostVars, endVars>>

(* watcher.on('all'): build() begins, or tells the build under way.  Vite has stopped the watcher before cleanup(). *)
Notice ==
    /\ notice /\ pc # "gone" /\ ~closing
    /\ notice' = FALSE
    /\ IF pc = "idle"
       THEN /\ pc' = "spawn" /\ replacementReady' = FALSE
            /\ UNCHANGED dirty
       ELSE /\ dirty' = TRUE
            /\ UNCHANGED <<pc, replacementReady>>
    /\ UNCHANGED <<source, sound, edits, faults, initial, candidate, oldHost, oldOutput, part,
                   aside, disk, hostVars, endVars>>

-----------------------------------------------------------------------------
(* build() *)

Spawn ==
    /\ pc = "spawn" /\ pc' = "compile"
    /\ dirty' = FALSE
    /\ candidate' = candidate + 1
    /\ Keep /\ UNCHANGED <<faults, replacementReady, oldHost, oldOutput, part, aside, disk, hostVars>>

(* The compiler reads the sources at some moment of its run, and exits with an error if they are broken. *)
Compile ==
    /\ pc = "compile"
    /\ IF sound
       THEN pc' = "decide" /\ disk' = [disk EXCEPT ![candidate] = [p \in Parts |-> source]]
       ELSE pc' = "catch" /\ UNCHANGED disk
    /\ Keep /\ UNCHANGED <<faults, dirty, replacementReady, candidate, oldHost, oldOutput, part, aside, hostVars>>

Decide ==
    /\ pc = "decide"
    /\ pc' = IF activeOutput = None THEN "start" ELSE "classify"
    /\ oldOutput' = activeOutput
    /\ Keep /\ UNCHANGED <<faults, dirty, replacementReady, candidate, oldHost, part, aside, disk, hostVars>>

(* classifyBuildImpact compares the files of SERVER_OWNED; a file that is gone is a difference. *)
ClientOnly(previous) == disk[previous]["server"]["server"] = disk[candidate]["server"]["server"]

Classify ==
    /\ pc = "classify"
    /\ pc' = IF ~ClientOnly(oldOutput) THEN "restart" ELSE IF activeOutput = None THEN "catch" ELSE "copy"
    /\ oldHost' = host /\ oldOutput' = activeOutput
    /\ part' = "client"
    /\ Keep /\ UNCHANGED <<faults, dirty, replacementReady, candidate, aside, disk, hostVars>>

(* startHost and the assignments after it; the handler has read the server's parts and the providers. *)
Start ==
    /\ pc \in {"start", "restart"}
    /\ pc' = IF pc = "start" THEN "built" ELSE "close"
    /\ host' = candidate /\ activeOutput' = candidate
    /\ hosts' = [hosts EXCEPT ![candidate] = "open"]
    /\ loaded' = [loaded EXCEPT ![candidate] =
                     [disk[candidate]["client"] EXCEPT !["server"] = disk[candidate]["server"]["server"]]]
    /\ Keep /\ UNCHANGED <<faults, dirty, replacementReady, candidate, oldHost, oldOutput, part, aside, disk,
                           requests>>

(* closeHost: no admission, abort what is active; wait for it; close the handler. *)
Stopped(d) == IF d = None THEN hosts ELSE [hosts EXCEPT ![d] = IF @ = "open" THEN "stopped" ELSE @]
Closed(d) == IF d = None THEN hosts ELSE [hosts EXCEPT ![d] = "closed"]
Drained(d) == IF d = None THEN TRUE ELSE requests[d] = 0

CloseOld ==
    /\ pc = "close" /\ pc' = "drain"
    /\ hosts' = Stopped(oldHost)
    /\ Keep /\ UNCHANGED <<faults, dirty, replacementReady, candidate, oldHost, oldOutput, part, aside, disk,
                           host, activeOutput, loaded, requests>>

DrainOld ==
    /\ pc = "drain" /\ Drained(oldHost) /\ pc' = "remove old"
    /\ hosts' = Closed(oldHost)
    /\ Keep /\ UNCHANGED <<faults, dirty, replacementReady, candidate, oldHost, oldOutput, part, aside, disk,
                           host, activeOutput, loaded, requests>>

(* rm(oldOutput): without one, because cleanup() has forgotten it, the call throws. *)
RemoveOld ==
    /\ pc = "remove old"
    /\ IF oldOutput = None
       THEN pc' = "catch" /\ UNCHANGED disk
       ELSE pc' = "built" /\ disk' = [disk EXCEPT ![oldOutput] = Empty]
    /\ Keep /\ UNCHANGED <<faults, dirty, replacementReady, candidate, oldHost, oldOutput, part, aside, hostVars>>

(* promoteClientOutput, for client/ and then for public/: copy, move away, move in, drop what was moved away. *)
Copy ==
    /\ pc = "copy" /\ pc' = "away"
    /\ Keep /\ UNCHANGED <<faults, dirty, replacementReady, candidate, oldHost, oldOutput, part, aside, disk,
                           hostVars>>

(* A rename fails when cleanup() has removed the directory meanwhile. *)
MoveAway ==
    /\ pc = "away"
    /\ pc' = IF disk[oldOutput][part] = Missing THEN "catch" ELSE "in"
    /\ aside' = disk[oldOutput][part]
    /\ disk' = [disk EXCEPT ![oldOutput][part] = Missing]
    /\ Keep /\ UNCHANGED <<faults, dirty, replacementReady, candidate, oldHost, oldOutput, part, hostVars>>

MoveIn ==
    /\ pc = "in"
    /\ IF disk[oldOutput] = Empty
       THEN pc' = "catch" /\ UNCHANGED disk
       ELSE pc' = "drop" /\ disk' = [disk EXCEPT ![oldOutput][part] = disk[candidate][part]]
    /\ Keep /\ UNCHANGED <<faults, dirty, replacementReady, candidate, oldHost, oldOutput, part, aside, hostVars>>

DropAside ==
    /\ pc = "drop"
    /\ aside' = Missing
    /\ IF part = "client" THEN pc' = "copy" /\ part' = "public" ELSE pc' = "promoted" /\ UNCHANGED part
    /\ Keep /\ UNCHANGED <<faults, dirty, replacementReady, candidate, oldHost, oldOutput, disk, hostVars>>

(* The two manifests at the end of promoteClientOutput are equal or not served; then rm(candidate). *)
Promoted ==
    /\ pc = "promoted" /\ pc' = "built"
    /\ disk' = [disk EXCEPT ![candidate] = Empty]
    /\ Keep /\ UNCHANGED <<faults, dirty, replacementReady, candidate, oldHost, oldOutput, part, aside, hostVars>>

(* A file operation, or handler.close(), fails.  In the middle of a replacement the part in place is removed
   and the one that was moved away is put back, if there is one. *)
Fault ==
    /\ faults < MaxFaults
    /\ pc \in FaultPoints
    /\ faults' = faults + 1
    /\ pc' = "catch"
    /\ disk' = CASE pc = "away" -> [disk EXCEPT ![oldOutput][part] = Missing]
                 [] pc \in {"in", "drop"} /\ disk[oldOutput] # Empty -> [disk EXCEPT ![oldOutput][part] = aside]
                 [] OTHER -> disk
    /\ Keep /\ UNCHANGED <<dirty, replacementReady, candidate, oldHost, oldOutput, part, aside, hostVars>>

(* process.once('exit') removes the active output; nothing runs after it. *)
Exits == pc' = "gone" /\ disk' = IF activeOutput = None THEN disk ELSE [disk EXCEPT ![activeOutput] = Empty]

(* The catch clause: the candidate is removed, whatever it has become; the first build throws to Vite, and the
   process ends. *)
Catch ==
    /\ pc = "catch"
    /\ IF initial
       THEN pc' = "gone" /\ disk' = [d \in Directories |-> IF d \in {candidate, activeOutput} THEN Empty ELSE disk[d]]
       ELSE pc' = "loop" /\ disk' = [disk EXCEPT ![candidate] = Empty]
    /\ Keep /\ UNCHANGED <<faults, dirty, replacementReady, candidate, oldHost, oldOutput, part, aside, hostVars>>

Built ==
    /\ pc = "built" /\ pc' = "loop"
    /\ replacementReady' = TRUE
    /\ Keep /\ UNCHANGED <<faults, dirty, candidate, oldHost, oldOutput, part, aside, disk, hostVars>>

(* while (dirty && !closing); an open page is told to reload after the last turn. *)
Loop ==
    /\ pc = "loop"
    /\ IF dirty /\ ~closing
       THEN pc' = "spawn" /\ UNCHANGED <<initial, shown>>
       ELSE /\ pc' = "idle" /\ initial' = FALSE
            /\ shown' = IF ~initial /\ replacementReady /\ ~closing /\ shown # Missing THEN Served(host) ELSE shown
    /\ UNCHANGED <<sourceVars, faults, dirty, replacementReady, candidate, oldHost, oldOutput, part, aside, disk,
                   hostVars, closing, cleaner, cleaned, raced>>

Build ==
    \/ Spawn \/ Compile \/ Decide \/ Classify \/ Start \/ CloseOld \/ DrainOld \/ RemoveOld
    \/ Copy \/ MoveAway \/ MoveIn \/ DropAside \/ Promoted \/ Catch \/ Built \/ Loop

-----------------------------------------------------------------------------
(* Visitors *)

(* A request that the middleware passes to the host on display. *)
Request ==
    /\ Listening /\ ~closing /\ host # None
    /\ hosts[host] = "open" /\ requests[host] < MaxRequests
    /\ requests' = [requests EXCEPT ![host] = @ + 1]
    /\ UNCHANGED <<sourceVars, faults, buildVars, disk, host, activeOutput, hosts, loaded, endVars>>

RequestEnds(d) ==
    /\ requests[d] > 0
    /\ requests' = [requests EXCEPT ![d] = @ - 1]
    /\ UNCHANGED <<sourceVars, faults, buildVars, disk, host, activeOutput, hosts, loaded, endVars>>

Open ==
    /\ Listening /\ ~closing /\ host # None /\ hosts[host] = "open"
    /\ shown' = Served(host)
    /\ UNCHANGED <<sourceVars, faults, buildVars, disk, hostVars, closing, cleaner, cleaned, raced>>

-----------------------------------------------------------------------------
(* cleanup(), once the HTTP server closes *)

CleanStart ==
    /\ Listening /\ cleaner = "idle"
    /\ closing' = TRUE /\ cleaner' = "drain"
    /\ cleaned' = host /\ raced' = (pc # "idle")
    /\ hosts' = Stopped(host)
    /\ UNCHANGED <<sourceVars, faults, buildVars, disk, host, activeOutput, loaded, requests, shown>>

(* host = undefined, whatever it is by now. *)
CleanDrain ==
    /\ cleaner = "drain" /\ Drained(cleaned)
    /\ hosts' = Closed(cleaned) /\ host' = None
    /\ cleaner' = IF activeOutput = None THEN "done" ELSE "remove"
    /\ UNCHANGED <<sourceVars, faults, buildVars, disk, activeOutput, loaded, requests, closing, cleaned, raced,
                   shown>>

CleanRemove ==
    /\ cleaner = "remove" /\ cleaner' = "forget"
    /\ disk' = [disk EXCEPT ![activeOutput] = Empty]
    /\ UNCHANGED <<sourceVars, faults, buildVars, hostVars, closing, cleaned, raced, shown>>

CleanForget ==
    /\ cleaner = "forget" /\ cleaner' = "done"
    /\ activeOutput' = None
    /\ UNCHANGED <<sourceVars, faults, buildVars, disk, host, hosts, loaded, requests, closing, cleaned, raced,
                   shown>>

(* The sweep after it in dev.mjs calls readdir of node:fs without a callback: it throws and the process ends. *)
Exit ==
    /\ cleaner = "done" /\ pc # "gone" /\ Exits
    /\ UNCHANGED <<sourceVars, faults, initial, dirty, replacementReady, candidate, oldHost, oldOutput, part,
                   aside, hostVars, endVars>>

Clean == CleanStart \/ CleanDrain \/ CleanRemove \/ CleanForget \/ Exit

Next ==
    \/ \E k \in Kinds, s \in BOOLEAN : Edit(k, s)
    \/ Notice
    \/ Build \/ Fault
    \/ Request \/ Open
    \/ \E d \in Directories : RequestEnds(d)
    \/ Clean

Spec == Init /\ [][Next]_vars

(* The compiler exits, file operations end, aborted requests end, the watcher reports. *)
FairSpec ==
    /\ Spec
    /\ WF_vars(Notice) /\ WF_vars(Build)
    /\ \A d \in Directories : WF_vars(RequestEnds(d))
    /\ WF_vars(CleanDrain \/ CleanRemove \/ CleanForget)

-----------------------------------------------------------------------------
(* Properties *)

Contents == [AllKinds -> -1 .. MaxEdits]

SourcesTyped ==
    /\ source \in [AllKinds -> 0 .. MaxEdits] /\ sound \in BOOLEAN
    /\ edits \in 0 .. MaxEdits /\ faults \in 0 .. MaxFaults /\ notice \in BOOLEAN

BuildTyped ==
    /\ pc \in {"idle", "spawn", "compile", "decide", "classify", "start", "restart", "close", "drain",
               "remove old", "copy", "away", "in", "drop", "promoted", "built", "catch", "loop", "gone"}
    /\ initial \in BOOLEAN /\ dirty \in BOOLEAN /\ replacementReady \in BOOLEAN
    /\ part \in {"client", "public"}

NamesTyped ==
    {candidate, oldHost, oldOutput, host, activeOutput, cleaned} \subseteq Directories \cup {None}

FilesTyped ==
    /\ disk \in [Directories -> [Parts -> Contents]]
    /\ loaded \in [Directories -> Contents]
    /\ aside \in Contents /\ shown \in Contents

HostsTyped ==
    /\ hosts \in [Directories -> {"none", "open", "stopped", "closed"}]
    /\ requests \in [Directories -> 0 .. MaxRequests]
    /\ closing \in BOOLEAN /\ raced \in BOOLEAN
    /\ cleaner \in {"idle", "drain", "remove", "forget", "done"}

(* Every variable holds a value of its kind. *)
TypeOK == SourcesTyped /\ BuildTyped /\ NamesTyped /\ FilesTyped /\ HostsTyped

(* From the first page on, whatever is edited and however builds end, the middleware has a host that admits
   requests and whose output is on the disk, but for the part that promoteClientOutput is renaming. *)
StaysAvailable ==
    Listening /\ ~closing =>
        /\ host # None /\ host = activeOutput /\ hosts[host] = "open"
        /\ \A p \in Parts : disk[host][p] = Missing => pc = "in" /\ p = part /\ oldOutput = host

(* When no build is under way and no change unreported, the sources compile and no build failed otherwise,
   they are what is served: no edit falls between two builds.  Providers are the exception: the host has imported them. *)
FreshWhenIdle ==
    pc = "idle" /\ ~notice /\ ~closing /\ sound /\ faults = 0 =>
        \A k \in AllKinds \ {"provider"} : Served(host)[k] = source[k]

(* When no build is under way, an open page is of what is served now, even if the last of several builds in
   one call of build() has failed to compile. *)
PageKeepsUp == pc = "idle" /\ ~closing /\ shown # Missing /\ faults = 0 => shown = Served(host)

(* Between builds there is one host and one output directory: what a build has superseded, or left half done,
   is closed and removed. *)
SupersededIsGone ==
    pc = "idle" /\ ~closing =>
        \A d \in Directories \ {host} : hosts[d] \in {"none", "closed"} /\ disk[d] = Empty

(* A session that ends between builds has closed every host before its process ends, without cutting off a
   request, and leaves no output behind; one that ends during a build may leave that build's. *)
SessionLeavesNothing ==
    /\ cleaner = "done" /\ ~raced => \A d \in Directories : hosts[d] \in {"none", "closed"}
    /\ pc = "gone" => \A d \in Directories : disk[d] # Empty => raced /\ d \in {candidate, oldOutput}
    /\ \A d \in Directories : hosts[d] = "closed" => requests[d] = 0

(* Hosts and output directories are given back, by the builds that go on and by the session that ends. *)
NothingStaysBehind == SupersededIsGone /\ SessionLeavesNothing

(* Once edits stop, the session ends or sources that compile are served, unless a build has failed otherwise. *)
EditsArrive == <>[](closing \/ pc = "gone" \/ faults > 0 \/
    (pc = "idle" /\ (sound => \A k \in AllKinds \ {"provider"} : Served(host)[k] = source[k])))

(* What docs/getting-started.md says, and the code does not do when the first compilation of a session is overtaken
   by an edit that does not compile: a failed build leaves the last successful application available. *)
LastBuildAvailable ==
    replacementReady /\ ~closing => host # None /\ hosts[host] = "open" /\ disk[host] # Empty

=============================================================================
