--------------------------- MODULE DevHostProofs ---------------------------
(***************************************************************************)
(* Theorems about DevHost, for any number of edits, failures and requests: *)
(* what is served stays available, no edit falls between two builds, an    *)
(* open page keeps up, and hosts and output directories are given back.    *)
(*                                                                         *)
(* IInv, the inductive invariant, has two halves.  Until cleanup() begins, *)
(* one host is on display and every other directory belongs to the build   *)
(* under way (Serving), what is compiled or served is the sources unless a *)
(* change is on its way to the loop (UpToDate), and an open page is of     *)
(* what is served unless this call of build() will reload it               *)
(* (PageFollows).  Afterwards the two procedures undo each other's work    *)
(* and only where a directory may be left can be said (Leaving).           *)
(***************************************************************************)
EXTENDS DevHost, TLAPS

(* The calls whose failure the code recovers from, the hypothesis of the theorems: when handler.close(), the
   removal of the old output or the first rename of a replacement fails, the catch clause removes the directory
   that is being served, or the part that was to be moved away is removed as if it had been replaced. *)
Recoverable == FaultPoints \subseteq {"start", "restart", "copy", "in", "drop", "promoted"}

(* Where build() has a compiled candidate, is replacing the host, and is promoting client parts. *)
Compiled == {"decide", "classify", "start", "restart", "copy", "away", "in", "drop", "promoted"}
Swapping == {"close", "drain", "remove old"}
Promoting == {"copy", "away", "in", "drop", "promoted"}

(* How many builds a flag calls for. *)
Count(b) == IF b THEN 1 ELSE 0

(* Every build beyond the first answers a change of its own: the one that begins, the one the loop owes
   and the one the watcher has not reported are all of different edits, so the directories suffice. *)
BuildsCounted ==
    /\ candidate + Count(pc = "spawn" \/ dirty) + Count(notice) <= edits + 1
    /\ pc # "spawn" \/ ~initial => candidate > 0
    /\ pc = "idle" /\ ~closing => ~dirty
    /\ \A k \in AllKinds : source[k] >= 0

(* A host that was never started or is closed. *)
Ended == {"none", "closed"}

(* Directories are used in order: nothing is named, started, written or requested beyond the candidate, and
   the candidate of a build that has not started its host is nobody else's. *)
OutputsAreOfBuilds ==
    /\ \A d \in {host, activeOutput, oldHost, oldOutput, cleaned} : d <= candidate
    /\ pc \in {"compile"} \cup Compiled =>
          /\ host < candidate /\ activeOutput < candidate /\ cleaned < candidate
          /\ hosts[candidate] = "none"
    /\ \A d \in Directories :
          d > candidate => hosts[d] = "none" /\ disk[d] = Empty /\ requests[d] = 0
    /\ pc \in Promoting => oldOutput # None
    /\ pc = "compile" => disk[candidate] = Empty
    /\ \A d \in Directories : hosts[d] \in Ended => requests[d] = 0

(* The middleware's host at each point of build(); every other host has ended but the one that build() is
   closing. *)
HostOnDisplay ==
    /\ host = activeOutput
    /\ host # None => hosts[host] = "open"
    /\ host = None => initial /\ pc \in {"spawn", "compile", "decide", "start", "catch", "gone"}
    /\ pc = "start" => host = None
    /\ pc = "classify" => oldOutput = host
    /\ pc = "restart" => oldHost = host /\ oldOutput = host
    /\ pc \in Promoting => oldOutput = host
    /\ pc \in Swapping => host = candidate /\ oldHost # candidate /\ oldOutput \notin {candidate, None}
    /\ pc = "catch" => host # candidate
    /\ pc = "gone" => initial
    /\ \A d \in Directories \ {host} :
          hosts[d] \in Ended \/ (pc \in {"close", "drain"} /\ d = oldHost)

(* Whose the directories are that hold something. *)
OutputsOnDisk ==
    \A d \in Directories : disk[d] # Empty =>
        /\ pc # "gone"
        /\ \/ d = host
           \/ d = candidate /\ pc \in Compiled \cup {"catch"}
           \/ d = oldOutput /\ pc \in Swapping

(* A compiled candidate is whole, and so is what the host serves but for the part that is being renamed. *)
PartsInPlace ==
    /\ pc \in Compiled => \A p \in Parts : disk[candidate][p] # Missing
    /\ pc # "gone" /\ host # None =>
          /\ loaded[host]["server"] = disk[host]["server"]["server"]
          /\ \A p \in Parts : disk[host][p] # Missing \/ (pc = "in" /\ p = part)
    /\ pc \in Promoting =>
          /\ disk[host]["server"]["server"] = disk[candidate]["server"]["server"]
          /\ part = "public" \/ pc = "drop" => disk[host]["client"] = disk[candidate]["client"]
    /\ pc \in {"in", "drop"} => aside # Missing
    /\ pc = "promoted" => part = "public"

(* The session before cleanup(). *)
Serving == HostOnDisplay /\ OutputsOnDisk /\ PartsInPlace

(* The sources are on display. *)
Shows == \A k \in {"server", "client"} : Served(host)[k] = source[k]

(* Unless a change is reported or about to be, the candidate, and what is served once the host is replaced,
   are of the sources. *)
UpToDate ==
    ~dirty /\ ~notice =>
        /\ pc \in Compiled => \A p \in Parts : disk[candidate][p] = source
        /\ faults = 0 /\ sound => pc # "catch"
        /\ faults = 0 /\ sound /\ pc \in Swapping \cup {"built", "loop", "idle"} => Shows

(* build() may have changed what is served without having said that a replacement is ready. *)
Changing ==
    \/ pc \in Swapping \cup {"in", "drop", "promoted", "built"}
    \/ (pc \in {"copy", "away"} /\ part = "public")

(* An open page is of what is served, unless this call of build() has a reload to send. *)
PageFollows ==
    /\ initial => shown = Missing
    /\ faults = 0 /\ shown # Missing /\ (pc = "idle" \/ (~replacementReady /\ ~Changing))
       => shown = Served(host)

(* Where cleanup(), and a build that it overtakes, may have left something. *)
OutputsLeft ==
    \A d \in Directories : disk[d] # Empty =>
        /\ d \in {candidate, oldOutput, activeOutput}
        /\ pc = "spawn" => d = activeOutput
        /\ pc \in {"compile", "decide", "classify"} => d \in {candidate, activeOutput}
        /\ pc \in {"start", "restart", "gone"} => d \in {candidate, oldOutput}
        /\ cleaner = "forget" /\ d = activeOutput => raced /\ d = candidate /\ pc # "spawn"
        /\ ~raced => d = activeOutput /\ pc # "gone"

(* A session that ends between builds has only the host it closes. *)
HostsLeft ==
    ~raced =>
        /\ pc \in {"idle", "gone"}
        /\ \A d \in Directories : hosts[d] \in Ended \/ (cleaner = "drain" /\ d = cleaned)

(* The session after cleanup() has begun. *)
Leaving ==
    /\ ~initial
    /\ pc = "gone" => cleaner = "done"
    /\ OutputsLeft /\ HostsLeft

(* The inductive invariant. *)
IInv ==
    /\ TypeOK
    /\ BuildsCounted
    /\ OutputsAreOfBuilds
    /\ closing <=> cleaner # "idle"
    /\ ~closing => Serving /\ UpToDate /\ PageFollows /\ ~raced
    /\ closing => Leaving
(* The names of directories, the count of edits and the versions of the sources are natural
   numbers. *)
LEMMA Numbers ==
  ASSUME NamesTyped, SourcesTyped
  PROVE  /\ {candidate, oldHost, oldOutput, host, activeOutput, cleaned} \subseteq Nat
         /\ edits \in Nat /\ edits <= MaxEdits /\ MaxEdits \in Nat
         /\ source \in [AllKinds -> Nat]
  <1>1. \A d \in Directories \cup {None} : d \in Nat
    BY BoundsAreNumbers DEF Directories, None
  <1>. QED
    BY <1>1, BoundsAreNumbers DEF NamesTyped, SourcesTyped

(* What a directory holds, what a visitor gets of it and what a host loads of it are contents. *)
LEMMA ContentsAreTyped ==
  ASSUME SourcesTyped, FilesTyped
  PROVE  /\ Missing \in Contents /\ Empty \in [Parts -> Contents] /\ source \in Contents
         /\ \A d \in Directories :
               /\ Served(d) \in Contents
               /\ disk[d] \in [Parts -> Contents]
               /\ \A p \in Parts : disk[d][p] \in Contents
               /\ \A n \in -1 .. MaxEdits : [disk[d]["client"] EXCEPT !["server"] = n] \in Contents
  <1>1. Missing \in Contents
    BY BoundsAreNumbers DEF Missing, Contents
  <1>2. source \in Contents
    BY BoundsAreNumbers DEF Contents, SourcesTyped
  <1>3. Empty \in [Parts -> Contents]
    BY <1>1 DEF Empty
  <1>4. ASSUME NEW d \in Directories
        PROVE  /\ disk[d] \in [Parts -> Contents]
               /\ \A p \in Parts : disk[d][p] \in Contents
               /\ loaded[d] \in Contents /\ "client" \in Parts
    BY DEF Parts, FilesTyped
  <1>5. \A d \in Directories : Served(d) \in Contents
    BY <1>4 DEF Served, Contents
  <1>6. \A d \in Directories : \A n \in -1 .. MaxEdits :
           [disk[d]["client"] EXCEPT !["server"] = n] \in Contents
    BY <1>4 DEF Contents
  <1>. QED
    BY <1>1, <1>2, <1>3, <1>4, <1>5, <1>6

(* Every step keeps the sources, their counters and the watcher's notice of their kinds. *)
LEMMA SourcesStayTyped ==
  ASSUME IInv, Next
  PROVE  SourcesTyped'
  <1>. USE DEF SourcesTyped, Keep, sourceVars, buildVars, hostVars, endVars
  <1>0. SourcesTyped
    BY DEF IInv, TypeOK
  <1>1. CASE \E k \in Kinds, s \in BOOLEAN : Edit(k, s)
    BY <1>0, <1>1, KindsAreKnown, BoundsAreNumbers
    DEF Edit
  <1>2. CASE Notice
    BY <1>0, <1>2
    DEF Notice
  <1>3. CASE Fault
    BY <1>0, <1>3, BoundsAreNumbers
    DEF Fault
  <1>4. CASE UNCHANGED <<sourceVars, faults>>
    BY <1>0, <1>4
  <1>. QED
    BY <1>1, <1>2, <1>3, <1>4
    DEF Next, Build, Clean, Exits, Spawn, Compile, Decide, Classify, Start, CloseOld,
        DrainOld, RemoveOld, Copy, MoveAway, MoveIn, DropAside, Promoted, Catch, Built,
        Loop, Request, Open, RequestEnds, CleanStart, CleanDrain, CleanRemove,
        CleanForget, Exit

(* Every step keeps the state of build() of its kind. *)
LEMMA BuildStaysTyped ==
  ASSUME IInv, Next
  PROVE  BuildTyped'
  <1>. USE DEF BuildTyped, Keep, sourceVars, buildVars, hostVars, endVars
  <1>0. BuildTyped
    BY DEF IInv, TypeOK
  <1>1. CASE Spawn \/ Compile \/ Decide \/ Classify \/ Start
    BY <1>0, <1>1
    DEF Spawn, Compile, Decide, Classify, Start
  <1>2. CASE CloseOld \/ DrainOld \/ RemoveOld \/ Copy \/ MoveAway
    BY <1>0, <1>2
    DEF CloseOld, DrainOld, RemoveOld, Copy, MoveAway
  <1>3. CASE MoveIn \/ DropAside \/ Promoted \/ Catch \/ Built \/ Loop
    BY <1>0, <1>3
    DEF MoveIn, DropAside, Promoted, Catch, Built, Loop
  <1>4. CASE Notice \/ Fault \/ Exit
    BY <1>0, <1>4
    DEF Notice, Fault, Exit, Exits
  <1>5. CASE UNCHANGED <<pc, initial, dirty, replacementReady, part>>
    BY <1>0, <1>5
  <1>. QED
    BY <1>1, <1>2, <1>3, <1>4, <1>5
    DEF Next, Build, Clean, Exits, Edit, Request, Open, RequestEnds, CleanStart,
        CleanDrain, CleanRemove, CleanForget

(* Every step keeps the names of hosts and outputs directories: a build beyond the bound would need
   an edit beyond it. *)
LEMMA NamesStayTyped ==
  ASSUME IInv, Next
  PROVE  NamesTyped'
  <1>. USE DEF NamesTyped, Keep, sourceVars, buildVars, hostVars, endVars
  <1>0. NamesTyped
    BY DEF IInv, TypeOK
  <1>1. CASE Spawn
    <2>1. candidate \in Nat /\ MaxEdits \in Nat /\ candidate + 1 <= MaxEdits + 1
      BY <1>1, Numbers DEF Spawn, BuildsCounted, Count, IInv, TypeOK
    <2>2. candidate + 1 \in Directories
      BY <2>1 DEF Directories
    <2>. QED
      BY <1>0, <1>1, <2>2 DEF Spawn
  <1>2. CASE Decide \/ Classify \/ Start
    BY <1>0, <1>2
    DEF Decide, Classify, Start
  <1>3. CASE CleanStart \/ CleanDrain \/ CleanForget
    BY <1>0, <1>3
    DEF CleanStart, CleanDrain, CleanForget
  <1>4. CASE UNCHANGED <<candidate, oldHost, oldOutput, host, activeOutput, cleaned>>
    BY <1>0, <1>4
  <1>. QED
    BY <1>1, <1>2, <1>3, <1>4
    DEF Next, Build, Clean, Exits, Edit, Notice, Compile, CloseOld, DrainOld, RemoveOld,
        Copy, MoveAway, MoveIn, DropAside, Promoted, Catch, Built, Loop, Fault, Request,
        Open, RequestEnds, CleanRemove, Exit

(* Every step keeps what is on disk, loaded, moved away and shown of its kind: no file operation of
   build() names a directory that is not there. *)
LEMMA FilesStayTyped ==
  ASSUME IInv, Next
  PROVE  FilesTyped'
  <1>. USE DEF FilesTyped, Keep, sourceVars, buildVars, hostVars, endVars
  <1>0. /\ FilesTyped /\ Missing \in Contents /\ Empty \in [Parts -> Contents] /\ source \in Contents
        /\ \A d \in Directories :
               /\ Served(d) \in Contents
               /\ disk[d] \in [Parts -> Contents]
               /\ \A p \in Parts : disk[d][p] \in Contents
               /\ \A n \in -1 .. MaxEdits : [disk[d]["client"] EXCEPT !["server"] = n] \in Contents
    BY ContentsAreTyped DEF IInv, TypeOK
  <1>a. {candidate, oldOutput, host, activeOutput} \subseteq Directories \cup {None}
    BY DEF IInv, TypeOK, NamesTyped
  <1>b. /\ pc # "spawn" => candidate # None
        /\ pc \in Promoting => oldOutput # None
        /\ ~closing /\ pc = "loop" => host # None
    BY Numbers DEF IInv, TypeOK, BuildsCounted, OutputsAreOfBuilds, Serving, HostOnDisplay, None
  <1>c. part \in Parts
    BY DEF IInv, TypeOK, BuildTyped, Parts
  <1>1. CASE Compile
    BY <1>0, <1>1
    DEF Compile
  <1>2. CASE Start
    <2>1. disk[candidate]["server"]["server"] \in -1 .. MaxEdits
      BY <1>2, <1>0, <1>a, <1>b DEF Start, Parts, Contents, AllKinds
    <2>. QED
      BY <1>2, <1>0, <1>a, <1>b, <2>1 DEF Start
  <1>3. CASE RemoveOld
    BY <1>0, <1>3
    DEF RemoveOld
  <1>4. CASE MoveAway
    BY <1>0, <1>4, <1>a, <1>b, <1>c
    DEF MoveAway, Promoting
  <1>5. CASE MoveIn
    <2>1. disk[candidate][part] \in Contents /\ oldOutput \in Directories
      BY <1>0, <1>5, <1>a, <1>b, <1>c DEF MoveIn, Promoting
    <2>. QED
      BY <1>0, <1>5, <1>c, <2>1 DEF MoveIn
  <1>6. CASE DropAside
    BY <1>0, <1>6
    DEF DropAside
  <1>7. CASE Promoted
    BY <1>0, <1>7
    DEF Promoted
  <1>8. CASE Fault
    BY <1>0, <1>8
    DEF Fault
  <1>9. CASE Catch
    BY <1>0, <1>9
    DEF Catch
  <1>10. CASE Loop
    BY <1>0, <1>10, <1>a, <1>b
    DEF Loop
  <1>11. CASE Open
    BY <1>0, <1>11, <1>a
    DEF Open
  <1>12. CASE CleanRemove
    BY <1>0, <1>12
    DEF CleanRemove
  <1>13. CASE Exit
    BY <1>0, <1>13
    DEF Exit, Exits
  <1>14. CASE UNCHANGED <<disk, loaded, aside, shown>>
    BY <1>0, <1>14
  <1>. QED
    BY <1>1, <1>2, <1>3, <1>4, <1>5, <1>6, <1>7, <1>8, <1>9, <1>10, <1>11, <1>12, <1>13,
       <1>14
    DEF Next, Build, Clean, Exits, Edit, Notice, Spawn, Decide, Classify, CloseOld,
        DrainOld, Copy, Built, Request, RequestEnds, CleanStart, CleanDrain, CleanForget

(* Every step keeps the hosts and their requests of their kinds. *)
LEMMA HostsStayTyped ==
  ASSUME IInv, Next
  PROVE  HostsTyped'
  <1>. USE DEF HostsTyped, Keep, sourceVars, buildVars, hostVars, endVars
  <1>0. HostsTyped
    BY DEF IInv, TypeOK
  <1>1. CASE Start
    BY <1>0, <1>1
    DEF Start
  <1>2. CASE CloseOld
    BY <1>0, <1>2
    DEF CloseOld, Stopped
  <1>3. CASE DrainOld
    BY <1>0, <1>3
    DEF DrainOld, Closed
  <1>4. CASE Request
    <2>1. host \in Directories
      BY <1>4 DEF Request, IInv, TypeOK, NamesTyped
    <2>2. requests[host] + 1 \in 0 .. MaxRequests
      BY <1>0, <1>4, <2>1, BoundsAreNumbers DEF Request
    <2>. QED
      BY <1>0, <1>4, <2>2 DEF Request
  <1>5. CASE \E d \in Directories : RequestEnds(d)
    <2>1. PICK d \in Directories : RequestEnds(d)
      BY <1>5
    <2>2. requests[d] - 1 \in 0 .. MaxRequests
      BY <1>0, <2>1, BoundsAreNumbers DEF RequestEnds
    <2>. QED
      BY <1>0, <2>1, <2>2 DEF RequestEnds
  <1>6. CASE CleanStart
    BY <1>0, <1>6
    DEF CleanStart, Stopped
  <1>7. CASE CleanDrain
    BY <1>0, <1>7
    DEF CleanDrain, Closed
  <1>8. CASE CleanRemove \/ CleanForget
    BY <1>0, <1>8
    DEF CleanRemove, CleanForget
  <1>9. CASE UNCHANGED <<hosts, requests, closing, raced, cleaner>>
    BY <1>0, <1>9
  <1>. QED
    BY <1>1, <1>2, <1>3, <1>4, <1>5, <1>6, <1>7, <1>8, <1>9
    DEF Next, Build, Clean, Exits, Edit, Notice, Spawn, Compile, Decide, Classify,
        RemoveOld, Copy, MoveAway, MoveIn, DropAside, Promoted, Catch, Built, Loop,
        Fault, Open, Exit

(* Every step keeps builds counted: a report that arrives during a build becomes one more turn of
   its loop, never two. *)
LEMMA BuildsStayCounted ==
  ASSUME IInv, Next
  PROVE  BuildsCounted'
  <1>. USE DEF BuildsCounted, Count, Keep, sourceVars, buildVars, hostVars, endVars
  <1>0. /\ BuildsCounted /\ candidate \in Nat /\ edits \in Nat
        /\ dirty \in BOOLEAN /\ notice \in BOOLEAN /\ closing \in BOOLEAN
        /\ source \in [AllKinds -> Nat]
    BY Numbers DEF IInv, TypeOK, BuildTyped, SourcesTyped, HostsTyped
  <1>b. cleaner = "done" => ~initial
    BY DEF IInv, Leaving
  <1>1. CASE \E k \in Kinds, s \in BOOLEAN : Edit(k, s)
    BY <1>0, <1>1
    DEF Edit
  <1>2. CASE Notice
    BY <1>0, <1>2
    DEF Notice
  <1>3. CASE Spawn
    BY <1>0, <1>3
    DEF Spawn
  <1>4. CASE Loop
    <2>1. CASE dirty /\ ~closing
      BY <1>0, <1>4, <2>1 DEF Loop
    <2>2. CASE ~(dirty /\ ~closing)
      BY <1>0, <1>4, <2>2 DEF Loop
    <2>. QED
      BY <2>1, <2>2
  <1>5. CASE Compile
    BY <1>0, <1>5
    DEF Compile
  <1>6. CASE Decide
    BY <1>0, <1>6
    DEF Decide
  <1>7. CASE Classify
    BY <1>0, <1>7
    DEF Classify
  <1>8. CASE Start
    BY <1>0, <1>8
    DEF Start
  <1>9. CASE CloseOld
    BY <1>0, <1>9
    DEF CloseOld
  <1>10. CASE DrainOld
    BY <1>0, <1>10
    DEF DrainOld
  <1>11. CASE RemoveOld
    BY <1>0, <1>11
    DEF RemoveOld
  <1>12. CASE Copy
    BY <1>0, <1>12
    DEF Copy
  <1>13. CASE MoveAway
    BY <1>0, <1>13
    DEF MoveAway
  <1>14. CASE MoveIn
    BY <1>0, <1>14
    DEF MoveIn
  <1>15. CASE DropAside
    BY <1>0, <1>15
    DEF DropAside
  <1>16. CASE Promoted
    BY <1>0, <1>16
    DEF Promoted
  <1>17. CASE Catch
    BY <1>0, <1>17
    DEF Catch
  <1>18. CASE Built
    BY <1>0, <1>18
    DEF Built
  <1>19. CASE Fault
    BY <1>0, <1>19, FaultsAreOfCalls
    DEF Fault
  <1>20. CASE CleanStart
    BY <1>0, <1>20
    DEF CleanStart
  <1>21. CASE Exit
    BY <1>0, <1>21, <1>b
    DEF Exit, Exits
  <1>22. CASE UNCHANGED <<pc, candidate, dirty, notice, edits, source, closing, initial>>
    BY <1>0, <1>22
  <1>. QED
    BY <1>1, <1>2, <1>3, <1>4, <1>5, <1>6, <1>7, <1>8, <1>9, <1>10, <1>11, <1>12, <1>13,
       <1>14, <1>15, <1>16, <1>17, <1>18, <1>19, <1>20, <1>21, <1>22
    DEF Next, Build, Clean, Exits, Request, Open, RequestEnds, CleanDrain, CleanRemove,
        CleanForget

(* Every step keeps directories to the builds they were made for; a host is closed only when its
   requests have ended. *)
LEMMA OutputsStayOfBuilds ==
  ASSUME IInv, Next
  PROVE  OutputsAreOfBuilds'
  <1>. USE DEF OutputsAreOfBuilds, Keep, sourceVars, buildVars, hostVars, endVars
  <1>0. /\ OutputsAreOfBuilds
        /\ {candidate, oldHost, oldOutput, host, activeOutput, cleaned} \subseteq Nat
        /\ pc # "spawn" => candidate > 0
        /\ hosts \in [Directories -> {"none", "open", "stopped", "closed"}]
        /\ disk \in [Directories -> [Parts -> Contents]]
        /\ requests \in [Directories -> Nat]
        /\ Directories \subseteq Nat
    BY Numbers, BoundsAreNumbers
       DEF IInv, TypeOK, BuildsCounted, HostsTyped, FilesTyped, Directories
  <1>a. {candidate, oldHost, oldOutput, host, activeOutput, cleaned} \subseteq Directories \cup {None}
    BY DEF IInv, TypeOK, NamesTyped
  <1>1. CASE Spawn
    <2>1. candidate + 1 <= edits + 1 /\ candidate \in Nat /\ edits \in Nat /\ edits <= MaxEdits
      BY <1>1, Numbers DEF Spawn, BuildsCounted, Count, IInv, TypeOK
    <2>2. candidate + 1 \in Directories
      BY <2>1, BoundsAreNumbers DEF Directories
    <2>. QED
      BY <1>0, <1>a, <1>1, <2>1, <2>2 DEF Spawn, Compiled, Promoting
  <1>2. CASE Compile
    BY <1>0, <1>a, <1>2
    DEF Compile, Compiled, Promoting
  <1>3. CASE Decide
    BY <1>0, <1>a, <1>3
    DEF Decide, Compiled, Promoting, Ended
  <1>4. CASE Classify
    BY <1>0, <1>a, <1>4
    DEF Classify, Compiled, Promoting, Ended
  <1>5. CASE Start
    BY <1>0, <1>a, <1>5
    DEF Start, Compiled, Promoting, Ended
  <1>6. CASE CloseOld
    BY <1>0, <1>a, <1>6
    DEF CloseOld, Compiled, Promoting, Stopped, Closed, Drained, Ended
  <1>7. CASE DrainOld
    <2>1. CASE oldHost = None
      BY <1>0, <1>a, <1>7, <2>1 DEF DrainOld, Closed, Drained, Compiled, Promoting, Ended, None
    <2>2. CASE oldHost # None
      <3>1. oldHost \in Directories /\ oldHost <= candidate /\ requests[oldHost] = 0
        BY <1>0, <1>a, <1>7, <2>2 DEF DrainOld, Drained
      <3>2. hosts' = [hosts EXCEPT ![oldHost] = "closed"]
        BY <1>7, <2>2 DEF DrainOld, Closed
      <3>3. \A d \in Directories : (hosts'[d] # hosts[d] => d = oldHost) /\ (hosts'[d] \in Ended => requests[d] = 0)
        BY <1>0, <3>1, <3>2 DEF Ended
      <3>4. hosts'[candidate] # hosts[candidate] => candidate = oldHost
        BY <1>0, <3>1, <3>2
      <3>5. \A d \in Directories : d > candidate => hosts'[d] = "none"
        BY <1>0, <3>1, <3>3
      <3>. QED
        BY <1>0, <1>7, <3>3, <3>4, <3>5, <3>1 DEF DrainOld, Compiled, Promoting
    <2>. QED
      BY <2>1, <2>2
  <1>8. CASE RemoveOld
    BY <1>0, <1>a, <1>8
    DEF RemoveOld, Compiled, Promoting, Ended
  <1>9. CASE Copy
    BY <1>0, <1>a, <1>9
    DEF Copy, Compiled, Promoting, Ended
  <1>10. CASE MoveAway
    BY <1>0, <1>a, <1>10
    DEF MoveAway, Compiled, Promoting, Ended
  <1>11. CASE MoveIn
    BY <1>0, <1>a, <1>11
    DEF MoveIn, Compiled, Promoting, Ended
  <1>12. CASE DropAside
    BY <1>0, <1>a, <1>12
    DEF DropAside, Compiled, Promoting, Ended
  <1>13. CASE Promoted
    BY <1>0, <1>a, <1>13
    DEF Promoted, Compiled, Promoting, Ended
  <1>14. CASE Catch
    BY <1>0, <1>a, <1>14
    DEF Catch, Compiled, Promoting, Ended
  <1>15. CASE Fault
    BY <1>0, <1>a, <1>15
    DEF Fault, Compiled, Promoting, Ended
  <1>16. CASE Built
    BY <1>0, <1>a, <1>16
    DEF Built, Compiled, Promoting, Ended
  <1>17. CASE Loop
    BY <1>0, <1>a, <1>17
    DEF Loop, Compiled, Promoting, Ended
  <1>18. CASE Notice
    BY <1>0, <1>a, <1>18
    DEF Notice, Compiled, Promoting, Ended
  <1>19. CASE Request
    BY <1>0, <1>a, <1>19
    DEF Request, Compiled, Promoting, Ended
  <1>20. CASE \E d \in Directories : RequestEnds(d)
    BY <1>0, <1>a, <1>20
    DEF RequestEnds, Compiled, Promoting, Ended
  <1>21. CASE CleanStart
    BY <1>0, <1>a, <1>21
    DEF CleanStart, Compiled, Promoting, Stopped, Closed, Drained, Ended
  <1>22. CASE CleanDrain
    <2>1. CASE cleaned = None
      BY <1>0, <1>a, <1>22, <2>1 DEF CleanDrain, Closed, Drained, Compiled, Promoting, Ended, None
    <2>2. CASE cleaned # None
      <3>1. cleaned \in Directories /\ cleaned <= candidate /\ requests[cleaned] = 0
        BY <1>0, <1>a, <1>22, <2>2 DEF CleanDrain, Drained
      <3>2. hosts' = [hosts EXCEPT ![cleaned] = "closed"]
        BY <1>22, <2>2 DEF CleanDrain, Closed
      <3>3. \A d \in Directories : (hosts'[d] # hosts[d] => d = cleaned) /\ (hosts'[d] \in Ended => requests[d] = 0)
        BY <1>0, <3>1, <3>2 DEF Ended
      <3>4. hosts'[candidate] # hosts[candidate] => candidate = cleaned
        BY <1>0, <3>1, <3>2
      <3>5. \A d \in Directories : d > candidate => hosts'[d] = "none"
        BY <1>0, <3>1, <3>3
      <3>. QED
        BY <1>0, <1>22, <3>3, <3>4, <3>5, <3>1 DEF CleanDrain, Compiled, Promoting, None
    <2>. QED
      BY <2>1, <2>2
  <1>23. CASE CleanRemove
    BY <1>0, <1>a, <1>23
    DEF CleanRemove, Compiled, Promoting, Ended
  <1>24. CASE CleanForget
    BY <1>0, <1>a, <1>24
    DEF CleanForget, Compiled, Promoting, None, Ended
  <1>25. CASE Exit
    BY <1>0, <1>a, <1>25
    DEF Exit, Compiled, Promoting, Exits, Ended
  <1>26. CASE UNCHANGED <<pc, candidate, oldHost, oldOutput, host, activeOutput, cleaned, hosts, disk, requests>>
    BY <1>0, <1>a, <1>26
  <1>. QED
    BY <1>1, <1>2, <1>3, <1>4, <1>5, <1>6, <1>7, <1>8, <1>9, <1>10, <1>11, <1>12, <1>13,
       <1>14, <1>15, <1>16, <1>17, <1>18, <1>19, <1>20, <1>21, <1>22, <1>23, <1>24,
       <1>25, <1>26
    DEF Next, Build, Clean, Exits, Edit, Open

(* A step that does not begin cleanup() is taken by a session that is serving. *)
LEMMA StillOpen ==
  ASSUME IInv, Next, ~closing'
  PROVE  /\ ~closing /\ Serving /\ cleaner = "idle"
         /\ ~ (CleanStart \/ CleanDrain \/ CleanRemove \/ CleanForget \/ Exit)
  <1>1. ~closing
    BY DEF IInv, Next, Build, Clean, Edit, Notice, Spawn, Compile, Decide, Classify, Start,
           CloseOld, DrainOld, RemoveOld, Copy, MoveAway, MoveIn, DropAside, Promoted, Catch,
           Built, Loop, Fault, Request, Open, RequestEnds, CleanStart, CleanDrain, CleanRemove,
           CleanForget, Exit, Keep, endVars
  <1>2. Serving /\ cleaner = "idle"
    BY <1>1 DEF IInv
  <1>. QED
    BY <1>1, <1>2 DEF CleanStart, CleanDrain, CleanRemove, CleanForget, Exit

(* The kinds of the variables that the steps on hosts and files rest on. *)
LEMMA Typed ==
  ASSUME TypeOK, BuildsCounted
  PROVE  /\ {host, oldHost, oldOutput, activeOutput, candidate, cleaned} \subseteq Directories \cup {None}
         /\ None \notin Directories
         /\ pc # "spawn" \/ ~initial => candidate \in Directories
         /\ hosts \in [Directories -> {"none", "open", "stopped", "closed"}]
         /\ disk \in [Directories -> [Parts -> Contents]]
         /\ loaded \in [Directories -> Contents]
         /\ part \in {"client", "public"} /\ Parts = {"server", "client", "public"}
         /\ \A p \in Parts : Empty[p] = Missing
         /\ source # Missing
  <1>1. None \notin Directories
    BY BoundsAreNumbers DEF Directories, None
  <1>2. pc # "spawn" \/ ~initial => candidate \in Directories
    BY Numbers DEF TypeOK, NamesTyped, BuildsCounted, None
  <1>3. source # Missing
    BY DEF BuildsCounted, Missing, AllKinds
  <1>. QED
    BY <1>1, <1>2, <1>3 DEF TypeOK, NamesTyped, HostsTyped, FilesTyped, BuildTyped, Parts, Empty

(* Until cleanup(), every step keeps one host on display: a host is replaced by one that has
   started. *)
LEMMA HostStaysOnDisplay ==
  ASSUME IInv, Recoverable, Next, ~closing'
  PROVE  HostOnDisplay'
  <1>. USE DEF HostOnDisplay, Swapping, Promoting, Compiled, Ended,
               Keep, sourceVars, buildVars, hostVars, endVars
  <1>0. /\ HostOnDisplay /\ ~closing /\ cleaner = "idle"
        /\ {host, oldHost, oldOutput, activeOutput, candidate} \subseteq Directories \cup {None}
        /\ None \notin Directories
        /\ pc # "spawn" \/ ~initial => candidate \in Directories
        /\ {host, candidate, oldHost, oldOutput} \subseteq Nat
        /\ pc \in {"compile"} \cup Compiled => host # candidate /\ hosts[candidate] = "none"
        /\ hosts \in [Directories -> {"none", "open", "stopped", "closed"}]
    BY StillOpen, Typed, Numbers DEF IInv, Serving, TypeOK, OutputsAreOfBuilds
  <1>1. CASE Notice
    BY <1>0, <1>1
    DEF Notice
  <1>2. CASE Spawn
    BY <1>0, <1>2
    DEF Spawn
  <1>3. CASE Compile
    BY <1>0, <1>3
    DEF Compile
  <1>4. CASE Decide
    BY <1>0, <1>4
    DEF Decide
  <1>5. CASE Classify
    BY <1>0, <1>5
    DEF Classify
  <1>6. CASE Start
    BY <1>0, <1>6
    DEF Start
  <1>7. CASE CloseOld
    BY <1>0, <1>7
    DEF CloseOld, Stopped
  <1>8. CASE DrainOld
    BY <1>0, <1>8
    DEF DrainOld, Closed, Drained
  <1>9. CASE RemoveOld
    BY <1>0, <1>9
    DEF RemoveOld
  <1>10. CASE Copy
    BY <1>0, <1>10
    DEF Copy
  <1>11. CASE MoveAway
    BY <1>0, <1>11
    DEF MoveAway
  <1>12. CASE MoveIn
    BY <1>0, <1>12
    DEF MoveIn
  <1>13. CASE DropAside
    BY <1>0, <1>13
    DEF DropAside
  <1>14. CASE Promoted
    BY <1>0, <1>14
    DEF Promoted
  <1>15. CASE Catch
    BY <1>0, <1>15
    DEF Catch
  <1>16. CASE Built
    BY <1>0, <1>16
    DEF Built
  <1>17. CASE Loop
    BY <1>0, <1>17
    DEF Loop
  <1>18. CASE Fault
    BY <1>0, <1>18, FaultsAreOfCalls
    DEF Fault, Recoverable
  <1>19. CASE CleanStart \/ CleanDrain \/ CleanRemove \/ CleanForget \/ Exit
    BY <1>19, StillOpen
  <1>20. CASE UNCHANGED <<pc, initial, candidate, oldHost, oldOutput, host, activeOutput, hosts>>
    BY <1>0, <1>20
  <1>. QED
    BY <1>1, <1>2, <1>3, <1>4, <1>5, <1>6, <1>7, <1>8, <1>9, <1>10, <1>11, <1>12, <1>13,
       <1>14, <1>15, <1>16, <1>17, <1>18, <1>19, <1>20
    DEF Next, Build, Clean, Exits, Edit, Request, Open, RequestEnds

(* Until cleanup(), every step keeps the directories to the host, the candidate and the host being
   replaced. *)
LEMMA OutputsStayOnDisk ==
  ASSUME IInv, Recoverable, Next, ~closing'
  PROVE  OutputsOnDisk'
  <1>. USE DEF OutputsOnDisk, HostOnDisplay, Swapping, Promoting, Compiled,
               Keep, sourceVars, buildVars, hostVars, endVars
  <1>0. /\ HostOnDisplay /\ OutputsOnDisk /\ ~closing /\ cleaner = "idle"
        /\ {host, oldHost, oldOutput, activeOutput, candidate} \subseteq Directories \cup {None}
        /\ None \notin Directories
        /\ pc # "spawn" \/ ~initial => candidate \in Directories
        /\ pc \in {"compile"} \cup Compiled => host # candidate /\ hosts[candidate] = "none"
        /\ disk \in [Directories -> [Parts -> Contents]]
    BY StillOpen, Typed DEF IInv, Serving, TypeOK, OutputsAreOfBuilds, HostOnDisplay
  <1>1. CASE Notice
    BY <1>0, <1>1
    DEF Notice
  <1>2. CASE Spawn
    BY <1>0, <1>2
    DEF Spawn
  <1>3. CASE Compile
    <2>1. /\ pc = "compile" /\ pc' \in {"decide", "catch"} /\ UNCHANGED <<host, candidate, oldOutput>>
          /\ \A d \in Directories : d # candidate => disk'[d] = disk[d]
      BY <1>0, <1>3 DEF Compile
    <2>. QED
      BY <1>0, <2>1
  <1>4. CASE Decide
    BY <1>0, <1>4
    DEF Decide
  <1>5. CASE Classify
    BY <1>0, <1>5
    DEF Classify
  <1>6. CASE Start
    BY <1>0, <1>6
    DEF Start
  <1>7. CASE CloseOld
    BY <1>0, <1>7
    DEF CloseOld
  <1>8. CASE DrainOld
    BY <1>0, <1>8
    DEF DrainOld
  <1>9. CASE RemoveOld
    <2>1. /\ pc = "remove old" /\ pc' = "built" /\ UNCHANGED <<host, candidate, oldOutput>>
          /\ disk' = [disk EXCEPT ![oldOutput] = Empty]
      BY <1>0, <1>9 DEF RemoveOld
    <2>. QED
      BY <1>0, <2>1
  <1>10. CASE Copy
    BY <1>0, <1>10
    DEF Copy
  <1>11. CASE MoveAway
    <2>1. /\ pc = "away" /\ pc' \in {"in", "catch"} /\ UNCHANGED <<host, candidate, oldOutput>>
          /\ oldOutput = host
          /\ \A d \in Directories : d # oldOutput => disk'[d] = disk[d]
      BY <1>0, <1>11 DEF MoveAway
    <2>. QED
      BY <1>0, <2>1
  <1>12. CASE MoveIn
    <2>1. /\ pc = "in" /\ pc' \in {"drop", "catch"} /\ UNCHANGED <<host, candidate, oldOutput>>
          /\ oldOutput = host
          /\ \A d \in Directories : d # oldOutput => disk'[d] = disk[d]
      BY <1>0, <1>12 DEF MoveIn
    <2>. QED
      BY <1>0, <2>1
  <1>13. CASE DropAside
    BY <1>0, <1>13
    DEF DropAside
  <1>14. CASE Promoted
    <2>1. /\ pc = "promoted" /\ pc' = "built" /\ UNCHANGED <<host, candidate, oldOutput>>
          /\ disk' = [disk EXCEPT ![candidate] = Empty]
      BY <1>0, <1>14 DEF Promoted
    <2>. QED
      BY <1>0, <2>1
  <1>15. CASE Catch
    <2>1. /\ pc = "catch" /\ UNCHANGED <<host, candidate, oldOutput>>
          /\ IF initial THEN pc' = "gone" ELSE pc' = "loop"
          /\ \A d \in Directories : disk'[d] # Empty => disk[d] # Empty /\ d # candidate
          /\ \A d \in Directories : initial /\ d = activeOutput => disk'[d] = Empty
      BY <1>0, <1>15 DEF Catch
    <2>. QED
      BY <1>0, <2>1
  <1>16. CASE Built
    BY <1>0, <1>16
    DEF Built
  <1>17. CASE Loop
    BY <1>0, <1>17
    DEF Loop
  <1>18. CASE Fault
    <2>1. /\ pc \in {"start", "restart", "copy", "in", "drop", "promoted"} /\ pc' = "catch"
          /\ UNCHANGED <<host, candidate, oldOutput>>
      BY <1>18, FaultsAreOfCalls DEF Fault, Recoverable
    <2>2. \A d \in Directories : disk'[d] # disk[d] => pc \in {"in", "drop"} /\ d = oldOutput
      BY <1>0, <1>18, <2>1 DEF Fault
    <2>. QED
      BY <1>0, <2>1, <2>2
  <1>19. CASE CleanStart \/ CleanDrain \/ CleanRemove \/ CleanForget \/ Exit
    BY <1>19, StillOpen
  <1>20. CASE UNCHANGED <<pc, host, candidate, oldOutput, disk>>
    BY <1>0, <1>20
  <1>. QED
    BY <1>1, <1>2, <1>3, <1>4, <1>5, <1>6, <1>7, <1>8, <1>9, <1>10, <1>11, <1>12, <1>13,
       <1>14, <1>15, <1>16, <1>17, <1>18, <1>19, <1>20
    DEF Next, Build, Clean, Exits, Edit, Request, Open, RequestEnds

(* Until cleanup(), every step keeps the parts of the host and of the candidate in place: a
   replacement that fails between its renames puts back what it has moved away. *)
LEMMA PartsStayInPlace ==
  ASSUME IInv, Recoverable, Next, ~closing'
  PROVE  PartsInPlace'
  <1>. USE DEF PartsInPlace, HostOnDisplay, Swapping, Promoting, Compiled,
               Keep, sourceVars, buildVars, hostVars, endVars
  <1>0. /\ HostOnDisplay /\ PartsInPlace /\ ~closing /\ cleaner = "idle"
        /\ {host, oldHost, oldOutput, activeOutput, candidate} \subseteq Directories \cup {None}
        /\ None \notin Directories
        /\ pc # "spawn" \/ ~initial => candidate \in Directories
        /\ pc \in {"compile"} \cup Compiled => host # candidate /\ hosts[candidate] = "none"
        /\ disk \in [Directories -> [Parts -> Contents]]
        /\ loaded \in [Directories -> Contents]
        /\ part \in {"client", "public"} /\ Parts = {"server", "client", "public"}
        /\ \A p \in Parts : Empty[p] = Missing
        /\ source # Missing
    BY StillOpen, Typed DEF IInv, Serving, OutputsAreOfBuilds, HostOnDisplay
  <1>1. CASE Notice
    BY <1>0, <1>1
    DEF Notice
  <1>2. CASE Spawn
    BY <1>0, <1>2
    DEF Spawn
  <1>3. CASE Compile
    <2>1. CASE ~sound
      <3>1. /\ UNCHANGED <<loaded, host, candidate, oldHost, oldOutput, part, aside, disk>>
            /\ pc = "compile"
            /\ pc' = "catch"
        BY <1>3, <2>1 DEF Compile
      <3>. QED
        BY <1>0, <3>1
    <2>2. CASE sound
      <3>1. /\ UNCHANGED <<loaded, host, candidate, oldHost, oldOutput, part, aside>>
            /\ pc = "compile"
            /\ pc' = "decide"
            /\ \A d \in Directories : d # candidate => disk'[d] = disk[d]
            /\ \A p \in Parts : disk'[candidate][p] = source
        BY <1>0, <1>3, <2>2 DEF Compile
      <3>. QED
        BY <1>0, <3>1
    <2>. QED
      BY <2>1, <2>2
  <1>4. CASE Decide
    BY <1>0, <1>4
    DEF Decide
  <1>5. CASE Classify
    BY <1>0, <1>5
    DEF Classify, ClientOnly
  <1>6. CASE Start
    <2>1. /\ (pc = "start" /\ pc' = "built") \/ (pc = "restart" /\ pc' = "close")
          /\ host' = candidate /\ UNCHANGED <<disk, candidate, part, aside>>
      BY <1>6 DEF Start
    <2>2. loaded'[candidate] = [disk[candidate]["client"] EXCEPT !["server"] = disk[candidate]["server"]["server"]]
      BY <1>0, <1>6 DEF Start
    <2>3. disk[candidate]["client"] \in [AllKinds -> -1 .. MaxEdits]
      <3>1. disk[candidate]["client"] \in Contents
        BY <1>0, <2>1
      <3>. QED
        BY <3>1 DEF Contents
    <2>4. loaded'[candidate]["server"] = disk[candidate]["server"]["server"]
      BY <2>2, <2>3 DEF AllKinds
    <2>. QED
      BY <1>0, <2>1, <2>4
  <1>7. CASE CloseOld
    BY <1>0, <1>7
    DEF CloseOld
  <1>8. CASE DrainOld
    BY <1>0, <1>8
    DEF DrainOld
  <1>9. CASE RemoveOld
    <2>1. /\ pc = "remove old"
          /\ pc' = "built"
          /\ UNCHANGED <<loaded, host, candidate, oldHost, oldOutput, part, aside>>
          /\ \A d \in Directories : d # oldOutput => disk'[d] = disk[d]
      BY <1>0, <1>9 DEF RemoveOld
    <2>. QED
      BY <1>0, <2>1
  <1>10. CASE Copy
    BY <1>0, <1>10
    DEF Copy
  <1>11. CASE MoveAway
    <2>1. /\ pc = "away" /\ oldOutput = host /\ host \in Directories /\ host # candidate
          /\ UNCHANGED <<loaded, host, candidate, oldHost, oldOutput, part>>
      BY <1>0, <1>11 DEF MoveAway
    <2>2. /\ pc' = "in" /\ aside' # Missing
          /\ \A d \in Directories : d # host => disk'[d] = disk[d]
          /\ \A p \in Parts : p # part => disk'[host][p] = disk[host][p]
      BY <1>0, <1>11, <2>1 DEF MoveAway
    <2>. QED
      BY <1>0, <2>1, <2>2
  <1>12. CASE MoveIn
    <2>1. /\ pc = "in" /\ oldOutput = host /\ host \in Directories /\ host # candidate
          /\ UNCHANGED <<loaded, host, candidate, oldHost, oldOutput, part, aside>>
      BY <1>0, <1>12 DEF MoveIn
    <2>2. disk[host] # Empty /\ \A p \in Parts : disk[candidate][p] # Missing
      BY <1>0, <2>1
    <2>3. /\ pc' = "drop"
          /\ \A d \in Directories : d # host => disk'[d] = disk[d]
          /\ \A p \in Parts : p # part => disk'[host][p] = disk[host][p]
          /\ disk'[host][part] = disk[candidate][part]
      BY <1>0, <1>12, <2>1, <2>2 DEF MoveIn
    <2>. QED
      BY <1>0, <2>1, <2>2, <2>3
  <1>13. CASE DropAside
    BY <1>0, <1>13
    DEF DropAside
  <1>14. CASE Promoted
    <2>1. /\ pc = "promoted" /\ pc' = "built" /\ host \in Directories /\ host # candidate
          /\ UNCHANGED <<loaded, host, candidate, oldHost, oldOutput, part, aside>>
          /\ \A d \in Directories : d # candidate => disk'[d] = disk[d]
      BY <1>0, <1>14 DEF Promoted
    <2>. QED
      BY <1>0, <2>1
  <1>15. CASE Catch
    <2>1. /\ pc = "catch" /\ UNCHANGED <<loaded, host, candidate, oldHost, oldOutput, part, aside>>
          /\ IF initial THEN pc' = "gone" ELSE pc' = "loop"
          /\ ~initial /\ host # None => disk'[host] = disk[host]
      BY <1>0, <1>15 DEF Catch
    <2>. QED
      BY <1>0, <2>1
  <1>16. CASE Built
    BY <1>0, <1>16
    DEF Built
  <1>17. CASE Loop
    BY <1>0, <1>17
    DEF Loop
  <1>18. CASE Fault
    <2>1. /\ pc \in {"start", "restart", "copy", "in", "drop", "promoted"} /\ pc' = "catch"
          /\ UNCHANGED <<loaded, host, candidate, oldHost, oldOutput, part, aside>> /\ host # candidate
      BY <1>0, <1>18, FaultsAreOfCalls DEF Fault, Recoverable
    <2>2. CASE pc \in {"in", "drop"}
      <3>1. /\ oldOutput = host /\ host \in Directories /\ aside # Missing
            /\ disk[host]["server"] # Missing
        BY <1>0, <2>1, <2>2
      <3>2. disk[host] # Empty
        BY <1>0, <3>1
      <3>3. disk' = [disk EXCEPT ![host][part] = aside]
        BY <1>18, <2>2, <3>1, <3>2 DEF Fault
      <3>4. /\ \A p \in Parts : p # part => disk'[host][p] = disk[host][p]
            /\ disk'[host][part] = aside
        BY <1>0, <3>1, <3>3
      <3>. QED
        BY <1>0, <2>1, <2>2, <3>1, <3>4
    <2>3. CASE pc \notin {"in", "drop"}
      <3>1. disk' = disk
        BY <1>18, <2>1, <2>3 DEF Fault
      <3>. QED
        BY <1>0, <2>1, <2>3, <3>1
    <2>. QED
      BY <2>2, <2>3
  <1>19. CASE CleanStart \/ CleanDrain \/ CleanRemove \/ CleanForget \/ Exit
    BY <1>19, StillOpen
  <1>20. CASE UNCHANGED <<pc, loaded, host, candidate, oldHost, oldOutput, part, aside, disk>>
    BY <1>0, <1>20
  <1>. QED
    BY <1>1, <1>2, <1>3, <1>4, <1>5, <1>6, <1>7, <1>8, <1>9, <1>10, <1>11, <1>12, <1>13,
       <1>14, <1>15, <1>16, <1>17, <1>18, <1>19, <1>20
    DEF Next, Build, Clean, Exits, Edit, Request, Open, RequestEnds

(* What it takes to show the sources, now and after a step. *)
LEMMA WhatShows ==
  /\ Shows <=> /\ disk[host]["client"]["client"] = source["client"]
               /\ loaded[host]["server"] = source["server"]
  /\ Shows' <=> /\ disk'[host']["client"]["client"] = source'["client"]
                /\ loaded'[host']["server"] = source'["server"]
  BY DEF Shows, Served, AllKinds

(* Until cleanup(), every step keeps the candidate and the host up to date, unless a change has
   arrived. *)
LEMMA SourcesStayShown ==
  ASSUME IInv, Recoverable, Next, ~closing'
  PROVE  UpToDate'
  <1>. USE DEF UpToDate, HostOnDisplay, PartsInPlace, Swapping, Promoting, Compiled,
               Keep, sourceVars, buildVars, hostVars, endVars
  <1>0. /\ HostOnDisplay /\ PartsInPlace /\ ~closing /\ cleaner = "idle"
        /\ {host, oldHost, oldOutput, activeOutput, candidate} \subseteq Directories \cup {None}
        /\ None \notin Directories
        /\ pc # "spawn" \/ ~initial => candidate \in Directories
        /\ pc \in {"compile"} \cup Compiled => host # candidate /\ hosts[candidate] = "none"
        /\ UpToDate /\ SourcesTyped
        /\ loaded \in [Directories -> Contents]
        /\ disk \in [Directories -> [Parts -> Contents]]
        /\ part \in {"client", "public"} /\ Parts = {"server", "client", "public"}
        /\ \A p \in Parts : Empty[p] = Missing
    BY StillOpen, Typed DEF IInv, Serving, TypeOK, OutputsAreOfBuilds, HostOnDisplay
  <1>1. CASE \E k \in Kinds, s \in BOOLEAN : Edit(k, s)
    BY <1>0, <1>1
    DEF Edit
  <1>2. CASE Notice
    BY <1>0, <1>2
    DEF Notice
  <1>3. CASE Spawn
    BY <1>0, <1>3
    DEF Spawn
  <1>4. CASE Compile
    <2>1. CASE ~sound
      <3>1. pc' = "catch" /\ sound' = sound
        BY <1>4, <2>1 DEF Compile
      <3>. QED
        BY <2>1, <3>1
    <2>2. CASE sound
      <3>1. /\ pc' = "decide" /\ candidate' = candidate /\ source' = source
            /\ candidate \in Directories
            /\ disk' = [disk EXCEPT ![candidate] = [p \in Parts |-> source]]
        BY <1>0, <1>4, <2>2 DEF Compile
      <3>2. \A p \in Parts : disk'[candidate][p] = source
        BY <1>0, <3>1
      <3>. QED
        BY <3>1, <3>2
    <2>. QED
      BY <2>1, <2>2
  <1>5. CASE Decide
    BY <1>0, <1>5
    DEF Decide
  <1>6. CASE Classify
    <2>1. /\ pc = "classify"
          /\ pc' \in {"restart", "copy"}
          /\ UNCHANGED <<host, candidate, source, sound, dirty, notice, faults, loaded, disk>>
      BY <1>0, <1>6 DEF Classify
    <2>. QED
      BY <1>0, <2>1
  <1>7. CASE Start
    <2>1. /\ pc \in {"start", "restart"} /\ pc' \in {"built", "close"}
          /\ host' = candidate /\ UNCHANGED <<disk, candidate, source, dirty, notice>>
      BY <1>7 DEF Start
    <2>2. ASSUME ~dirty, ~notice
          PROVE  /\ disk'[host']["client"]["client"] = source'["client"]
                 /\ loaded'[host']["server"] = source'["server"]
      <3>1. \A p \in Parts : disk[candidate][p] = source
        BY <1>0, <2>1, <2>2
      <3>2. loaded'[candidate] = [source EXCEPT !["server"] = source["server"]]
        BY <1>0, <1>7, <3>1 DEF Start
      <3>3. "server" \in DOMAIN source
        BY <1>0 DEF SourcesTyped, AllKinds
      <3>. QED
        BY <1>0, <2>1, <3>1, <3>2, <3>3
    <2>. QED
      BY <2>1, <2>2, WhatShows
  <1>8. CASE CloseOld
    <2>1. /\ pc = "close"
          /\ pc' = "drain"
          /\ UNCHANGED <<host, candidate, oldOutput, source, sound, dirty, notice, faults, loaded, disk>>
      BY <1>8 DEF CloseOld
    <2>. QED
      BY <1>0, <2>1, WhatShows
  <1>9. CASE DrainOld
    <2>1. /\ pc = "drain"
          /\ pc' = "remove old"
          /\ UNCHANGED <<host, candidate, oldOutput, source, sound, dirty, notice, faults, loaded, disk>>
      BY <1>9 DEF DrainOld
    <2>. QED
      BY <1>0, <2>1, WhatShows
  <1>10. CASE RemoveOld
    <2>1. /\ pc = "remove old"
          /\ pc' = "built"
          /\ UNCHANGED <<host, candidate, oldOutput, source, sound, dirty, notice, faults, loaded>>
          /\ disk' = [disk EXCEPT ![oldOutput] = Empty] /\ oldOutput # host
      BY <1>0, <1>10 DEF RemoveOld
    <2>2. host # None => disk'[host] = disk[host]
      BY <1>0, <2>1
    <2>. QED
      BY <1>0, <2>1, <2>2, WhatShows
  <1>11. CASE Copy
    <2>1. /\ pc = "copy"
          /\ pc' = "away"
          /\ UNCHANGED <<host, candidate, oldOutput, source, sound, dirty, notice, faults, loaded, disk>>
      BY <1>11 DEF Copy
    <2>. QED
      BY <1>0, <2>1, WhatShows
  <1>12. CASE MoveAway
    <2>1. /\ pc = "away" /\ oldOutput = host /\ host \in Directories /\ host # candidate
          /\ UNCHANGED <<host, candidate, oldOutput, source, sound, dirty, notice, faults, loaded>>
      BY <1>0, <1>12 DEF MoveAway
    <2>2. /\ pc' = "in"
          /\ \A d \in Directories : d # host => disk'[d] = disk[d]
      BY <1>0, <1>12, <2>1 DEF MoveAway
    <2>. QED
      BY <1>0, <2>1, <2>2
  <1>13. CASE MoveIn
    <2>1. /\ pc = "in" /\ oldOutput = host /\ host \in Directories /\ host # candidate
          /\ UNCHANGED <<host, candidate, oldOutput, source, sound, dirty, notice, faults, loaded>>
      BY <1>0, <1>13 DEF MoveIn
    <2>2. disk[host] # Empty
      BY <1>0, <2>1
    <2>3. /\ pc' = "drop"
          /\ \A d \in Directories : d # host => disk'[d] = disk[d]
      BY <1>0, <1>13, <2>1, <2>2 DEF MoveIn
    <2>. QED
      BY <1>0, <2>1, <2>2, <2>3
  <1>14. CASE DropAside
    BY <1>0, <1>14
    DEF DropAside
  <1>15. CASE Promoted
    <2>1. /\ pc = "promoted"
          /\ pc' = "built"
          /\ UNCHANGED <<host, candidate, oldOutput, source, sound, dirty, notice, faults, loaded>>
          /\ disk' = [disk EXCEPT ![candidate] = Empty] /\ host # candidate /\ host \in Directories
      BY <1>0, <1>15 DEF Promoted
    <2>2. ~dirty /\ ~notice => \A p \in Parts : disk[candidate][p] = source
      BY <1>0, <2>1
    <2>3. /\ disk'[host] = disk[host] /\ disk[host]["client"] = disk[candidate]["client"]
          /\ loaded[host]["server"] = disk[candidate]["server"]["server"]
      BY <1>0, <2>1
    <2>4. ~dirty /\ ~notice => Shows'
      BY <1>0, <2>1, <2>2, <2>3, WhatShows
    <2>. QED
      BY <2>1, <2>4
  <1>16. CASE Catch
    <2>1. /\ pc = "catch"
          /\ UNCHANGED <<host, candidate, oldOutput, source, sound, dirty, notice, faults, loaded>>
          /\ pc' \in {"gone", "loop"}
      BY <1>16 DEF Catch
    <2>. QED
      BY <1>0, <2>1
  <1>17. CASE Built
    <2>1. /\ pc = "built"
          /\ pc' = "loop"
          /\ UNCHANGED <<host, candidate, oldOutput, source, sound, dirty, notice, faults, loaded, disk>>
      BY <1>17 DEF Built
    <2>. QED
      BY <1>0, <2>1, WhatShows
  <1>18. CASE Loop
    <2>1. /\ pc = "loop"
          /\ pc' \in {"spawn", "idle"}
          /\ UNCHANGED <<host, candidate, oldOutput, source, sound, dirty, notice, faults, loaded, disk>>
      BY <1>18 DEF Loop
    <2>. QED
      BY <1>0, <2>1, WhatShows
  <1>19. CASE Fault
    <2>1. faults' = faults + 1
      BY <1>19 DEF Fault
    <2>2. pc' = "catch"
      BY <1>19 DEF Fault
    <2>3. SourcesTyped
      BY <1>0
    <2>4. faults \in Nat
      BY <2>3, BoundsAreNumbers DEF SourcesTyped
    <2>. QED
      BY <2>1, <2>2, <2>4
  <1>20. CASE CleanStart \/ CleanDrain \/ CleanRemove \/ CleanForget \/ Exit
    BY <1>20, StillOpen
  <1>21. CASE UNCHANGED <<dirty, notice, pc, candidate, disk, source, faults, sound, host, loaded>>
    BY <1>0, WhatShows, <1>21
  <1>. QED
    BY <1>1, <1>2, <1>3, <1>4, <1>5, <1>6, <1>7, <1>8, <1>9, <1>10, <1>11, <1>12, <1>13,
       <1>14, <1>15, <1>16, <1>17, <1>18, <1>19, <1>20, <1>21
    DEF Next, Build, Clean, Exits, Request, Open, RequestEnds

(* A host serves the same as long as it has loaded the same and its client part stays. *)
LEMMA SameIsServed ==
  ASSUME host' = host, loaded' = loaded,
         disk'[host]["client"] = disk[host]["client"]
  PROVE  Served(host)' = Served(host)
  BY DEF Served

(* Until cleanup(), every step keeps an open page current, or leaves its reload to the end of the
   loop. *)
LEMMA PageStaysCurrent ==
  ASSUME IInv, Recoverable, Next, ~closing'
  PROVE  PageFollows'
  <1>. USE DEF PageFollows, HostOnDisplay, PartsInPlace, Changing, Swapping, Promoting, Compiled,
               Keep, sourceVars, buildVars, hostVars, endVars
  <1>0. /\ HostOnDisplay /\ PartsInPlace /\ ~closing /\ cleaner = "idle"
        /\ {host, oldHost, oldOutput, activeOutput, candidate} \subseteq Directories \cup {None}
        /\ None \notin Directories
        /\ pc # "spawn" \/ ~initial => candidate \in Directories
        /\ pc \in {"compile"} \cup Compiled => host # candidate /\ hosts[candidate] = "none"
        /\ PageFollows /\ SourcesTyped
        /\ host # candidate \/ pc \notin {"compile", "catch"}
        /\ initial \in BOOLEAN /\ replacementReady \in BOOLEAN
        /\ disk \in [Directories -> [Parts -> Contents]]
        /\ part \in {"client", "public"} /\ Parts = {"server", "client", "public"}
        /\ \A p \in Parts : Empty[p] = Missing
    BY StillOpen, Typed DEF IInv, Serving, TypeOK, BuildTyped,
       OutputsAreOfBuilds, HostOnDisplay, PartsInPlace
  <1>1. CASE Notice
    <2>1. UNCHANGED <<host, faults, initial, shown, part, loaded, disk>>
      BY <1>1 DEF Notice
    <2>2. \/ pc = "idle" /\ pc' = "spawn" /\ ~replacementReady'
          \/ pc # "idle" /\ UNCHANGED <<pc, replacementReady>>
      BY <1>1 DEF Notice
    <2>3. Served(host)' = Served(host)
      BY <2>1, SameIsServed
    <2>. QED
      BY <1>0, <2>1, <2>2, <2>3
  <1>2. CASE Spawn
    <2>1. /\ pc = "spawn" /\ pc' = "compile" /\ UNCHANGED <<host, shown, initial, faults, replacementReady>>
      BY <1>0, <1>2 DEF Spawn
    <2>2. shown # Missing => Served(host)' = Served(host)
      BY <1>0, <1>2, <2>1, SameIsServed DEF Spawn
    <2>. QED
      BY <1>0, <2>1, <2>2
  <1>3. CASE Compile
    <2>1. /\ pc = "compile"
          /\ pc' \in {"decide", "catch"}
          /\ UNCHANGED <<host, shown, initial, faults, replacementReady>>
      BY <1>0, <1>3 DEF Compile
    <2>2. shown # Missing => Served(host)' = Served(host)
      BY <1>0, <1>3, <2>1, SameIsServed DEF Compile
    <2>. QED
      BY <1>0, <2>1, <2>2
  <1>4. CASE Decide
    <2>1. /\ pc = "decide"
          /\ pc' \in {"start", "classify"}
          /\ UNCHANGED <<host, shown, initial, faults, replacementReady>>
      BY <1>0, <1>4 DEF Decide
    <2>2. shown # Missing => Served(host)' = Served(host)
      BY <1>0, <1>4, <2>1, SameIsServed DEF Decide
    <2>. QED
      BY <1>0, <2>1, <2>2
  <1>5. CASE Classify
    <2>1. /\ pc = "classify"
          /\ pc' \in {"restart", "copy"}
          /\ UNCHANGED <<host, shown, initial, faults, replacementReady>>
          /\ part' = "client"
      BY <1>0, <1>5 DEF Classify
    <2>2. shown # Missing => Served(host)' = Served(host)
      BY <1>0, <1>5, <2>1, SameIsServed DEF Classify
    <2>. QED
      BY <1>0, <2>1, <2>2
  <1>6. CASE Start
    <2>1. pc' \in {"built", "close"} /\ UNCHANGED <<initial, shown>>
      BY <1>0, <1>6 DEF Start
    <2>. QED
      BY <1>0, <2>1
  <1>7. CASE CloseOld
    <2>1. pc' = "drain" /\ UNCHANGED <<initial, shown>>
      BY <1>0, <1>7 DEF CloseOld
    <2>. QED
      BY <1>0, <2>1
  <1>8. CASE DrainOld
    <2>1. pc' = "remove old" /\ UNCHANGED <<initial, shown>>
      BY <1>0, <1>8 DEF DrainOld
    <2>. QED
      BY <1>0, <2>1
  <1>9. CASE RemoveOld
    <2>1. pc' = "built" /\ UNCHANGED <<initial, shown>>
      BY <1>0, <1>9 DEF RemoveOld
    <2>. QED
      BY <1>0, <2>1
  <1>10. CASE Copy
    <2>1. /\ pc = "copy" /\ pc' = "away" /\ UNCHANGED <<host, shown, initial, faults, replacementReady, part>>
      BY <1>0, <1>10 DEF Copy
    <2>2. shown # Missing => Served(host)' = Served(host)
      BY <1>0, <1>10, <2>1, SameIsServed DEF Copy
    <2>. QED
      BY <1>0, <2>1, <2>2
  <1>11. CASE MoveAway
    <2>1. oldOutput = host /\ host \in Directories /\ disk[host][part] # Missing
      BY <1>0, <1>11 DEF MoveAway
    <2>2. pc' = "in" /\ UNCHANGED <<initial, shown>>
      BY <1>11, <2>1 DEF MoveAway
    <2>. QED
      BY <1>0, <2>2
  <1>12. CASE MoveIn
    <2>1. oldOutput = host /\ host \in Directories /\ disk[host] # Empty
      BY <1>0, <1>12 DEF MoveIn
    <2>2. pc' = "drop" /\ UNCHANGED <<initial, shown>>
      BY <1>12, <2>1 DEF MoveIn
    <2>. QED
      BY <1>0, <2>2
  <1>13. CASE DropAside
    <2>1. pc' \in {"copy", "promoted"} /\ UNCHANGED <<initial, shown>> /\ (pc' = "copy" => part' = "public")
      BY <1>0, <1>13 DEF DropAside
    <2>. QED
      BY <1>0, <2>1
  <1>14. CASE Promoted
    <2>1. pc' = "built" /\ UNCHANGED <<initial, shown>>
      BY <1>0, <1>14 DEF Promoted
    <2>. QED
      BY <1>0, <2>1
  <1>15. CASE Catch
    <2>1. /\ pc = "catch"
          /\ pc' \in {"gone", "loop"}
          /\ UNCHANGED <<host, shown, initial, faults, replacementReady, loaded>>
      BY <1>15 DEF Catch
    <2>2. ~initial => disk'[host] = disk[host]
      BY <1>0, <1>15 DEF Catch
    <2>3. ~initial => Served(host)' = Served(host)
      BY <2>1, <2>2, SameIsServed
    <2>. QED
      BY <1>0, <2>1, <2>3
  <1>16. CASE Built
    <2>1. pc' = "loop" /\ UNCHANGED <<initial, shown>> /\ replacementReady'
      BY <1>0, <1>16 DEF Built
    <2>. QED
      BY <1>0, <2>1
  <1>17. CASE Loop
    <2>1. pc = "loop" /\ UNCHANGED <<host, faults, replacementReady, loaded, disk>>
      BY <1>17 DEF Loop
    <2>2. Served(host)' = Served(host)
      BY <2>1, SameIsServed
    <2>3. CASE dirty
      <3>1. pc' = "spawn" /\ UNCHANGED <<initial, shown>>
        BY <1>0, <1>17, <2>3 DEF Loop
      <3>. QED
        BY <1>0, <2>1, <2>2, <3>1
    <2>4. CASE ~dirty
      <3>1. /\ pc' = "idle" /\ ~initial'
            /\ shown' = IF ~initial /\ replacementReady /\ shown # Missing THEN Served(host) ELSE shown
        BY <1>0, <1>17, <2>4 DEF Loop
      <3>. QED
        BY <1>0, <2>1, <2>2, <3>1
    <2>. QED
      BY <2>3, <2>4
  <1>18. CASE Fault
    <2>1. faults' = faults + 1
      BY <1>18 DEF Fault
    <2>2. UNCHANGED <<initial, shown>>
      BY <1>18 DEF Fault
    <2>3. SourcesTyped
      BY <1>0
    <2>4. faults \in Nat
      BY <2>3, BoundsAreNumbers DEF SourcesTyped
    <2>5. faults' # 0
      BY <2>1, <2>4
    <2>. QED
      BY <1>0, <2>2, <2>5
  <1>19. CASE Open
    <2>1. UNCHANGED <<host, initial, loaded, disk>> /\ ~initial /\ shown' = Served(host)
      BY <1>19 DEF Open, Listening
    <2>. QED
      BY <2>1, SameIsServed
  <1>20. CASE CleanStart \/ CleanDrain \/ CleanRemove \/ CleanForget \/ Exit
    BY <1>20, StillOpen
  <1>21. CASE UNCHANGED <<pc, initial, faults, shown, replacementReady, part, host, loaded, disk>>
    BY <1>0, SameIsServed, <1>21
  <1>. QED
    BY <1>1, <1>2, <1>3, <1>4, <1>5, <1>6, <1>7, <1>8, <1>9, <1>10, <1>11, <1>12, <1>13,
       <1>14, <1>15, <1>16, <1>17, <1>18, <1>19, <1>20, <1>21
    DEF Next, Build, Clean, Exits, Edit, Request, RequestEnds

(* cleanup() begins in a session that is serving, at whatever point of build(). *)
LEMMA LeavingBegins ==
  ASSUME IInv, ~closing, CleanStart
  PROVE  Leaving'
  <1>. USE DEF CleanStart, sourceVars, buildVars
  <1>1. /\ HostOnDisplay /\ OutputsOnDisk /\ None \notin Directories
        /\ hosts \in [Directories -> {"none", "open", "stopped", "closed"}]
    BY BoundsAreNumbers DEF IInv, TypeOK, HostsTyped, Serving, Directories, None
  <1>2. ~initial' /\ pc' # "gone" /\ cleaner' = "drain"
    BY DEF Listening
  <1>3. OutputsLeft'
    BY <1>1, <1>2 DEF OutputsLeft, OutputsOnDisk, HostOnDisplay, Swapping, Promoting, Compiled
  <1>4. HostsLeft'
    <2>1. \A d \in Directories \ {host} : hosts'[d] = hosts[d]
      BY <1>1 DEF Stopped
    <2>. QED
      BY <1>1, <1>2, <2>1 DEF HostsLeft, HostOnDisplay
  <1>. QED
    BY <1>2, <1>3, <1>4 DEF Leaving

(* Only the compiler fills a directory: a rename into one that is gone fails, and what was moved
   away is put back only into one that is there. *)
LEMMA NothingReappears ==
  ASSUME IInv, Next
  PROVE  \A d \in Directories :
            disk'[d] # Empty => disk[d] # Empty \/ (pc = "compile" /\ d = candidate)
  <1>. USE DEF Keep, sourceVars, buildVars, hostVars, endVars
  <1>0. /\ disk \in [Directories -> [Parts -> Contents]]
        /\ {candidate, oldOutput, activeOutput} \subseteq Directories \cup {None}
        /\ pc \in Promoting => oldOutput # None
        /\ part \in Parts /\ Empty = [p \in Parts |-> Missing]
    BY DEF IInv, TypeOK, FilesTyped, NamesTyped, BuildTyped, OutputsAreOfBuilds, Parts, Empty
  <1>1. CASE Compile
    BY <1>0, <1>1
    DEF Compile
  <1>2. CASE RemoveOld
    BY <1>0, <1>2
    DEF RemoveOld
  <1>3. CASE MoveAway
    <2>1. oldOutput \in Directories
      BY <1>0, <1>3 DEF MoveAway, Promoting
    <2>2. disk' = [disk EXCEPT ![oldOutput][part] = Missing]
      BY <1>3 DEF MoveAway
    <2>3. disk[oldOutput] = Empty => disk'[oldOutput] = Empty
      BY <1>0, <2>1, <2>2
    <2>. QED
      BY <1>0, <2>1, <2>2, <2>3
  <1>4. CASE MoveIn
    BY <1>0, <1>4
    DEF MoveIn
  <1>5. CASE Promoted
    BY <1>0, <1>5
    DEF Promoted
  <1>6. CASE Catch
    BY <1>0, <1>6
    DEF Catch
  <1>7. CASE Fault
    <2>1. CASE pc = "away"
      <3>1. oldOutput \in Directories
        BY <1>0, <2>1 DEF Promoting
      <3>2. disk' = [disk EXCEPT ![oldOutput][part] = Missing]
        BY <1>7, <2>1 DEF Fault
      <3>3. disk[oldOutput] = Empty => disk'[oldOutput] = Empty
        BY <1>0, <3>1, <3>2
      <3>. QED
        BY <1>0, <3>1, <3>2, <3>3
    <2>2. CASE pc \in {"in", "drop"} /\ disk[oldOutput] # Empty
      <3>1. disk' = [disk EXCEPT ![oldOutput][part] = aside]
        BY <1>7, <2>2 DEF Fault
      <3>. QED
        BY <1>0, <2>2, <3>1
    <2>3. CASE pc # "away" /\ ~ (pc \in {"in", "drop"} /\ disk[oldOutput] # Empty)
      BY <1>7, <2>3 DEF Fault
    <2>. QED
      BY <2>1, <2>2, <2>3
  <1>8. CASE CleanRemove
    BY <1>0, <1>8
    DEF CleanRemove
  <1>9. CASE Exit
    BY <1>0, <1>9
    DEF Exit, Exits
  <1>10. CASE UNCHANGED <<disk>>
    BY <1>0, <1>10
  <1>. QED
    BY <1>1, <1>2, <1>3, <1>4, <1>5, <1>6, <1>7, <1>8, <1>9, <1>10
    DEF Next, Build, Clean, Exits, Edit, Notice, Spawn, Decide, Classify, Start,
        CloseOld, DrainOld, Copy, DropAside, Built, Loop, Request, Open, RequestEnds,
        CleanStart, CleanDrain, CleanForget

(* Every step of cleanup() and of the build it overtakes keeps to the directories that may be left. *)
LEMMA OutputsStayLeft ==
  ASSUME IInv, Next, closing
  PROVE  OutputsLeft'
  <1>. USE DEF OutputsLeft, Keep, sourceVars, buildVars, hostVars, endVars
  <1>0. /\ OutputsLeft /\ ~initial /\ closing
        /\ ~raced => pc \in {"idle", "gone"}
        /\ pc = "gone" => cleaner = "done"
        /\ cleaner # "idle"
        /\ None \notin Directories
        /\ disk \in [Directories -> [Parts -> Contents]]
        /\ pc \in {"compile"} \cup Compiled => activeOutput # candidate
        /\ {candidate, activeOutput} \subseteq Nat
        /\ \A d \in Directories :
              disk'[d] # Empty => disk[d] # Empty \/ (pc = "compile" /\ d = candidate)
    BY NothingReappears, Numbers, BoundsAreNumbers
       DEF IInv, Leaving, HostsLeft, TypeOK, FilesTyped, OutputsAreOfBuilds, Directories, None
  <1>1. CASE Notice
    BY <1>0, <1>1
    DEF Notice, Compiled
  <1>2. CASE Spawn
    BY <1>0, <1>2
    DEF Spawn, Compiled
  <1>3. CASE Compile
    BY <1>0, <1>3
    DEF Compile, Compiled
  <1>4. CASE Decide
    BY <1>0, <1>4
    DEF Decide, Compiled
  <1>5. CASE Classify
    BY <1>0, <1>5
    DEF Classify, Compiled, ClientOnly
  <1>6. CASE Start
    BY <1>0, <1>6
    DEF Start, Compiled
  <1>7. CASE CloseOld
    BY <1>0, <1>7
    DEF CloseOld, Compiled
  <1>8. CASE DrainOld
    BY <1>0, <1>8
    DEF DrainOld, Compiled
  <1>9. CASE RemoveOld
    BY <1>0, <1>9
    DEF RemoveOld, Compiled
  <1>10. CASE Copy
    BY <1>0, <1>10
    DEF Copy, Compiled
  <1>11. CASE MoveAway
    BY <1>0, <1>11
    DEF MoveAway, Compiled
  <1>12. CASE MoveIn
    BY <1>0, <1>12
    DEF MoveIn, Compiled
  <1>13. CASE DropAside
    BY <1>0, <1>13
    DEF DropAside, Compiled
  <1>14. CASE Promoted
    BY <1>0, <1>14
    DEF Promoted, Compiled
  <1>15. CASE Catch
    BY <1>0, <1>15
    DEF Catch, Compiled
  <1>16. CASE Built
    BY <1>0, <1>16
    DEF Built, Compiled
  <1>17. CASE Loop
    BY <1>0, <1>17
    DEF Loop, Compiled
  <1>18. CASE Fault
    BY <1>0, <1>18
    DEF Fault, Compiled
  <1>19. CASE CleanStart
    BY <1>0, <1>19
    DEF CleanStart
  <1>20. CASE CleanDrain
    BY <1>0, <1>20
    DEF CleanDrain
  <1>21. CASE CleanRemove
    BY <1>0, <1>21
    DEF CleanRemove
  <1>22. CASE CleanForget
    BY <1>0, <1>22
    DEF CleanForget
  <1>23. CASE Exit
    BY <1>0, <1>23
    DEF Exit, Exits
  <1>24. CASE UNCHANGED <<pc, candidate, oldOutput, activeOutput, cleaner, raced, disk>>
    BY <1>0, <1>24
  <1>. QED
    BY <1>1, <1>2, <1>3, <1>4, <1>5, <1>6, <1>7, <1>8, <1>9, <1>10, <1>11, <1>12, <1>13,
       <1>14, <1>15, <1>16, <1>17, <1>18, <1>19, <1>20, <1>21, <1>22, <1>23, <1>24
    DEF Next, Build, Clean, Exits, Edit, Request, Open, RequestEnds

(* Every step of a cleanup() between builds leaves only the host it closes. *)
LEMMA HostsStayLeft ==
  ASSUME IInv, Next, closing
  PROVE  HostsLeft'
  <1>. USE DEF HostsLeft, Ended, Keep, sourceVars, buildVars, hostVars, endVars
  <1>0. /\ HostsLeft /\ ~initial /\ closing /\ cleaner # "idle"
        /\ hosts \in [Directories -> {"none", "open", "stopped", "closed"}]
        /\ None \notin Directories
    BY BoundsAreNumbers DEF IInv, Leaving, TypeOK, HostsTyped, Directories, None
  <1>1. CASE Notice
    BY <1>0, <1>1
    DEF Notice
  <1>2. CASE Spawn
    BY <1>0, <1>2
    DEF Spawn
  <1>3. CASE Compile
    BY <1>0, <1>3
    DEF Compile
  <1>4. CASE Decide
    BY <1>0, <1>4
    DEF Decide
  <1>5. CASE Classify
    BY <1>0, <1>5
    DEF Classify
  <1>6. CASE Start
    BY <1>0, <1>6
    DEF Start
  <1>7. CASE CloseOld
    BY <1>0, <1>7
    DEF CloseOld
  <1>8. CASE DrainOld
    BY <1>0, <1>8
    DEF DrainOld
  <1>9. CASE RemoveOld
    BY <1>0, <1>9
    DEF RemoveOld
  <1>10. CASE Copy
    BY <1>0, <1>10
    DEF Copy
  <1>11. CASE MoveAway
    BY <1>0, <1>11
    DEF MoveAway
  <1>12. CASE MoveIn
    BY <1>0, <1>12
    DEF MoveIn
  <1>13. CASE DropAside
    BY <1>0, <1>13
    DEF DropAside
  <1>14. CASE Promoted
    BY <1>0, <1>14
    DEF Promoted
  <1>15. CASE Catch
    BY <1>0, <1>15
    DEF Catch
  <1>16. CASE Built
    BY <1>0, <1>16
    DEF Built
  <1>17. CASE Loop
    BY <1>0, <1>17
    DEF Loop
  <1>18. CASE Fault
    BY <1>0, <1>18, FaultsAreOfCalls
    DEF Fault
  <1>19. CASE CleanStart
    BY <1>0, <1>19
    DEF CleanStart
  <1>20. CASE CleanDrain
    <2>1. /\ cleaner = "drain" /\ cleaner' # "drain" /\ UNCHANGED <<pc, raced>>
          /\ hosts' = Closed(cleaned)
      BY <1>20 DEF CleanDrain
    <2>2. \A d \in Directories : hosts'[d] = hosts[d] \/ hosts'[d] = "closed"
      BY <1>0, <2>1 DEF Closed
    <2>3. cleaned \in Directories => hosts'[cleaned] = "closed"
      BY <1>0, <2>1 DEF Closed
    <2>. QED
      BY <1>0, <2>1, <2>2, <2>3
  <1>21. CASE CleanRemove
    BY <1>0, <1>21
    DEF CleanRemove
  <1>22. CASE CleanForget
    BY <1>0, <1>22
    DEF CleanForget
  <1>23. CASE Exit
    BY <1>0, <1>23
    DEF Exit, Exits
  <1>24. CASE UNCHANGED <<pc, hosts, cleaner, raced, cleaned>>
    BY <1>0, <1>24
  <1>. QED
    BY <1>1, <1>2, <1>3, <1>4, <1>5, <1>6, <1>7, <1>8, <1>9, <1>10, <1>11, <1>12, <1>13,
       <1>14, <1>15, <1>16, <1>17, <1>18, <1>19, <1>20, <1>21, <1>22, <1>23, <1>24
    DEF Next, Build, Clean, Exits, Edit, Request, Open, RequestEnds

(* Once cleanup() has begun it is not undone, and its invariant holds on. *)
LEMMA LeavingContinues ==
  ASSUME IInv, Next, closing
  PROVE  closing' /\ Leaving'
  <1>. USE DEF Keep, sourceVars, buildVars, hostVars, endVars
  <1>0. closing /\ ~initial /\ (pc = "gone" => cleaner = "done")
    BY DEF IInv, Leaving
  <1>1. closing' /\ ~initial' /\ (pc' = "gone" => cleaner' = "done")
    <2>1. CASE Notice
      BY <1>0, <2>1
      DEF Notice
    <2>2. CASE Spawn
      BY <1>0, <2>2
      DEF Spawn
    <2>3. CASE Compile
      BY <1>0, <2>3
      DEF Compile
    <2>4. CASE Decide
      BY <1>0, <2>4
      DEF Decide
    <2>5. CASE Classify
      BY <1>0, <2>5
      DEF Classify
    <2>6. CASE Start
      BY <1>0, <2>6
      DEF Start
    <2>7. CASE CloseOld
      BY <1>0, <2>7
      DEF CloseOld
    <2>8. CASE DrainOld
      BY <1>0, <2>8
      DEF DrainOld
    <2>9. CASE RemoveOld
      BY <1>0, <2>9
      DEF RemoveOld
    <2>10. CASE Copy
      BY <1>0, <2>10
      DEF Copy
    <2>11. CASE MoveAway
      BY <1>0, <2>11
      DEF MoveAway
    <2>12. CASE MoveIn
      BY <1>0, <2>12
      DEF MoveIn
    <2>13. CASE DropAside
      BY <1>0, <2>13
      DEF DropAside
    <2>14. CASE Promoted
      BY <1>0, <2>14
      DEF Promoted
    <2>15. CASE Catch
      BY <1>0, <2>15
      DEF Catch
    <2>16. CASE Built
      BY <1>0, <2>16
      DEF Built
    <2>17. CASE Loop
      BY <1>0, <2>17
      DEF Loop
    <2>18. CASE Fault
      BY <1>0, <2>18, FaultsAreOfCalls
      DEF Fault
    <2>19. CASE CleanStart
      BY <1>0, <2>19
      DEF CleanStart
    <2>20. CASE CleanDrain
      BY <1>0, <2>20
      DEF CleanDrain
    <2>21. CASE CleanRemove
      BY <1>0, <2>21
      DEF CleanRemove
    <2>22. CASE CleanForget
      BY <1>0, <2>22
      DEF CleanForget
    <2>23. CASE Exit
      BY <1>0, <2>23
      DEF Exit, Exits
    <2>24. CASE UNCHANGED <<pc, initial, cleaner, closing>>
      BY <1>0, <2>24
    <2>. QED
      BY <2>1, <2>2, <2>3, <2>4, <2>5, <2>6, <2>7, <2>8, <2>9, <2>10, <2>11, <2>12,
         <2>13, <2>14, <2>15, <2>16, <2>17, <2>18, <2>19, <2>20, <2>21, <2>22, <2>23,
         <2>24
      DEF Next, Build, Clean, Exits, Edit, Request, Open, RequestEnds
  <1>. QED
    BY <1>1, OutputsStayLeft, HostsStayLeft DEF Leaving

(* The session as configureServer begins it satisfies the invariant. *)
LEMMA InitSatisfies ==
  ASSUME Init
  PROVE  IInv
  <1>. USE DEF Init
  <1>1. 0 \in 0 .. MaxEdits /\ 0 \in 0 .. MaxFaults /\ 0 \in 0 .. MaxRequests
    BY BoundsAreNumbers
  <1>2. Missing \in Contents /\ Empty \in [Parts -> Contents] /\ \A p \in Parts : Empty[p] = Missing
    BY BoundsAreNumbers DEF Missing, Contents, Empty
  <1>3. SourcesTyped /\ BuildTyped /\ NamesTyped
    BY <1>1 DEF SourcesTyped, BuildTyped, NamesTyped
  <1>4. FilesTyped /\ HostsTyped
    BY <1>1, <1>2 DEF FilesTyped, HostsTyped
  <1>5. BuildsCounted
    BY DEF BuildsCounted, Count, None
  <1>6. OutputsAreOfBuilds
    BY BoundsAreNumbers DEF OutputsAreOfBuilds, Compiled, Promoting, None, Directories
  <1>7. HostOnDisplay /\ OutputsOnDisk /\ PartsInPlace
    BY DEF HostOnDisplay, OutputsOnDisk, PartsInPlace, Compiled, Swapping, Promoting, Ended
  <1>8. UpToDate /\ PageFollows
    BY DEF UpToDate, PageFollows, Compiled, Swapping
  <1>. QED
    BY <1>3, <1>4, <1>5, <1>6, <1>7, <1>8 DEF IInv, TypeOK, Serving

(* closing is set when cleanup() begins and at no other time. *)
LEMMA CleanerMeansClosing ==
  ASSUME IInv, Next
  PROVE  (closing <=> cleaner # "idle")' /\ (~closing' => ~raced')
  <1>. USE DEF Keep, sourceVars, buildVars, hostVars, endVars
  <1>0. (closing <=> cleaner # "idle") /\ (~closing => ~raced)
    BY DEF IInv
  <1>1. CASE CleanStart
    BY <1>0, <1>1
    DEF CleanStart
  <1>2. CASE CleanDrain
    BY <1>0, <1>2
    DEF CleanDrain
  <1>3. CASE CleanRemove
    BY <1>0, <1>3
    DEF CleanRemove
  <1>4. CASE CleanForget
    BY <1>0, <1>4
    DEF CleanForget
  <1>5. CASE UNCHANGED <<closing, cleaner, raced>>
    BY <1>0, <1>5
  <1>. QED
    BY <1>1, <1>2, <1>3, <1>4, <1>5
    DEF Next, Build, Clean, Exits, Edit, Notice, Spawn, Compile, Decide, Classify,
        Start, CloseOld, DrainOld, RemoveOld, Copy, MoveAway, MoveIn, DropAside,
        Promoted, Catch, Built, Loop, Fault, Request, Open, RequestEnds, Exit

(* Only the beginning of cleanup() sets closing. *)
LEMMA OnlyCleanStartCloses ==
  ASSUME Next, ~closing, closing'
  PROVE  CleanStart
  BY DEF Next, Build, Clean, Edit, Notice, Spawn, Compile, Decide, Classify, Start, CloseOld,
         DrainOld, RemoveOld, Copy, MoveAway, MoveIn, DropAside, Promoted, Catch, Built, Loop, Fault,
         Request, Open, RequestEnds, CleanDrain, CleanRemove, CleanForget, Exit, Keep, endVars
(* Every step keeps the invariant. *)
LEMMA StepKeeps ==
  ASSUME IInv, Recoverable, [Next]_vars
  PROVE  IInv'
  <1>1. CASE Next
    <2>1. TypeOK'
      BY <1>1, SourcesStayTyped, BuildStaysTyped, NamesStayTyped, FilesStayTyped, HostsStayTyped
         DEF TypeOK
    <2>2. BuildsCounted' /\ OutputsAreOfBuilds' /\ (closing <=> cleaner # "idle")'
          /\ (~closing' => ~raced')
      BY <1>1, BuildsStayCounted, OutputsStayOfBuilds, CleanerMeansClosing
    <2>3. ASSUME ~closing'
          PROVE  Serving' /\ UpToDate' /\ PageFollows'
      BY <1>1, <2>3, HostStaysOnDisplay, OutputsStayOnDisk, PartsStayInPlace, SourcesStayShown,
         PageStaysCurrent
         DEF Serving
    <2>4. ASSUME closing'
          PROVE  Leaving'
      <3>1. CASE closing
        BY <1>1, <3>1, LeavingContinues
      <3>2. CASE ~closing
        BY <1>1, <2>4, <3>2, OnlyCleanStartCloses, LeavingBegins
      <3>. QED
        BY <3>1, <3>2
    <2>. QED
      BY <2>1, <2>2, <2>3, <2>4 DEF IInv
  <1>2. CASE UNCHANGED vars
    <2>. USE <1>2 DEF vars, sourceVars, buildVars, hostVars, endVars
    <2>1. TypeOK'
      <3>1. SourcesTyped /\ BuildTyped /\ NamesTyped /\ FilesTyped /\ HostsTyped
        BY DEF IInv, TypeOK
      <3>2. SourcesTyped' /\ BuildTyped' /\ NamesTyped'
        BY <3>1 DEF SourcesTyped, BuildTyped, NamesTyped
      <3>3. FilesTyped' /\ HostsTyped'
        BY <3>1 DEF FilesTyped, HostsTyped
      <3>. QED
        BY <3>2, <3>3 DEF TypeOK
    <2>2. BuildsCounted'
      BY DEF IInv, BuildsCounted
    <2>3. OutputsAreOfBuilds'
      BY DEF IInv, OutputsAreOfBuilds
    <2>4. Serving => Serving'
      BY DEF Serving, HostOnDisplay, OutputsOnDisk, PartsInPlace
    <2>5. UpToDate => UpToDate'
      BY DEF UpToDate, Shows, Served
    <2>6. PageFollows => PageFollows'
      BY DEF PageFollows, Changing, Served
    <2>7. Leaving => Leaving'
      BY DEF Leaving, OutputsLeft, HostsLeft
    <2>8. (closing <=> cleaner # "idle")' /\ (~closing' => ~raced') /\ closing' = closing
      BY DEF IInv
    <2>. QED
      BY <2>1, <2>2, <2>3, <2>4, <2>5, <2>6, <2>7, <2>8 DEF IInv
  <1>. QED
    BY <1>1, <1>2

(* The invariant holds in every state of every session whose failures are recoverable. *)
THEOREM Invariance ==
  ASSUME Recoverable
  PROVE  Spec => []IInv
  <1>1. Init => IInv
    BY InitSatisfies
  <1>2. IInv /\ [Next]_vars => IInv'
    BY StepKeeps
  <1>. QED
    BY <1>1, <1>2, PTL DEF Spec

(* Every variable holds a value of its kind in every session. *)
THEOREM TypeCorrect ==
  ASSUME Recoverable
  PROVE  Spec => []TypeOK
  <1>1. IInv => TypeOK
    BY DEF IInv
  <1>. QED
    BY <1>1, Invariance, PTL

(* From the first page on, whatever is edited and however builds end, the middleware has an open
   host whose output is on the disk but for the part that is being renamed. *)
THEOREM AlwaysAvailable ==
  ASSUME Recoverable
  PROVE  Spec => []StaysAvailable
  <1>1. IInv => StaysAvailable
    <2>. SUFFICES ASSUME IInv, Listening, ~closing
                  PROVE  StaysAvailable
      BY DEF StaysAvailable
    <2>. QED
      BY DEF IInv, StaysAvailable, Listening, Serving, HostOnDisplay, PartsInPlace, Promoting
  <1>. QED
    BY <1>1, Invariance, PTL

(* When no build is under way and no change is unreported, sources that compile are what is served:
   no edit falls between two builds, at whatever step of one it is made. *)
THEOREM NoEditIsLost ==
  ASSUME Recoverable
  PROVE  Spec => []FreshWhenIdle
  <1>1. IInv => FreshWhenIdle
    <2>. SUFFICES ASSUME IInv, pc = "idle", ~notice, ~closing, sound, faults = 0,
                         NEW k \in AllKinds \ {"provider"}
                  PROVE  Served(host)[k] = source[k]
      BY DEF FreshWhenIdle
    <2>1. ~dirty /\ UpToDate
      BY DEF IInv, BuildsCounted
    <2>2. Shows
      BY <2>1 DEF UpToDate, Swapping
    <2>. QED
      BY <2>2 DEF Shows, AllKinds
  <1>. QED
    BY <1>1, Invariance, PTL

(* When no build is under way an open page is of what is served, even if the last of several builds
   in one call of build() has failed to compile. *)
THEOREM OpenPageKeepsUp ==
  ASSUME Recoverable
  PROVE  Spec => []PageKeepsUp
  <1>1. IInv => PageKeepsUp
    BY DEF IInv, PageKeepsUp, PageFollows
  <1>. QED
    BY <1>1, Invariance, PTL

(* Between builds there is one host and one output; a session that ends between builds leaves
   neither, and one that ends during a build leaves at most that build's outputs; no host is closed
   under a request. *)
THEOREM EverythingIsGivenBack ==
  ASSUME Recoverable
  PROVE  Spec => []NothingStaysBehind
  <1>1. IInv => SupersededIsGone
    <2>. SUFFICES ASSUME IInv, pc = "idle", ~closing, NEW d \in Directories \ {host}
                  PROVE  hosts[d] \in {"none", "closed"} /\ disk[d] = Empty
      BY DEF SupersededIsGone
    <2>. QED
      BY DEF IInv, Serving, HostOnDisplay, OutputsOnDisk, Ended, Compiled, Swapping
  <1>2. IInv => SessionLeavesNothing
    <2>. SUFFICES ASSUME IInv
                  PROVE  SessionLeavesNothing
      OBVIOUS
    <2>1. cleaner = "done" /\ ~raced => \A d \in Directories : hosts[d] \in {"none", "closed"}
      BY DEF IInv, Leaving, HostsLeft, Ended
    <2>2. ASSUME pc = "gone", NEW d \in Directories, disk[d] # Empty
          PROVE  raced /\ d \in {candidate, oldOutput}
      <3>1. CASE closing
        BY <2>2, <3>1 DEF IInv, Leaving, OutputsLeft
      <3>2. CASE ~closing
        BY <2>2, <3>2 DEF IInv, Serving, OutputsOnDisk
      <3>. QED
        BY <3>1, <3>2
    <2>3. \A d \in Directories : hosts[d] = "closed" => requests[d] = 0
      BY DEF IInv, OutputsAreOfBuilds, Ended
    <2>. QED
      BY <2>1, <2>2, <2>3 DEF SessionLeavesNothing
  <1>. QED
    BY <1>1, <1>2, Invariance, PTL DEF NothingStaysBehind

=============================================================================
