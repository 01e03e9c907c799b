------------------------------ MODULE Rendering ------------------------------
(***************************************************************************)
(* A page from the server's rendering on: the browser adopts it or, when   *)
(* it refuses, mounts it afresh, and then events set the states of the     *)
(* component instances that are on the page.                               *)
(***************************************************************************)
EXTENDS PageRuntime

CONSTANTS
    Applications,   \* [components, items, cookie]: what is rendered
    MaxTouches      \* bound: events that set a state

VARIABLES
    world,      \* the document and the instances (PageRuntime)
    stage,      \* "served", "refused", "adopted", "mounted" or "failed"
    promised,   \* the states that the events so far have asked for, by instance
    touches

vars == <<world, stage, promised, touches>>

Compiled(app) ==
    [components |-> app.components, tables |-> Lowered(app.components),
     items |-> app.items, cookie |-> app.cookie]

Body == 1       \* the element the page is in

\* A document with nothing in the body and no instance.
Empty(app) ==
    [app |-> app, dom |-> <<DomNode("element", NoMark, "body")>>, made |-> Body,
     insts |-> None, born |-> 0, local |-> None, regions |-> None, skipped |-> {},
     records |-> NoRecords, refused |-> "no"]

Served(app) ==
    LET document == Document(app)
    IN  [Parse(Empty(app), document.html, Body) EXCEPT !.records = document.records]

\* The root instance of the application.
WithRoot(w) ==
    [w EXCEPT !.born = 1,
              !.insts = (1 :> NewInstance("Main", Main, <<>>, 0, 0, 0, FALSE,
                                          w.app.components["Main"].initial))]

Init ==
    /\ \E app \in Applications : world = Served(Compiled(app))
    /\ stage = "served"
    /\ promised = None
    /\ touches = 0

Adoption ==
    /\ stage = "served"
    /\ LET adopted == Flush(Adopt(WithRoot(world), 1, Within(world, Body) \ {Body}))
       IN  IF adopted.refused = "no" THEN world' = adopted /\ stage' = "adopted"
           ELSE /\ world' = [world EXCEPT !.refused = adopted.refused]
                /\ stage' = "refused"
    /\ UNCHANGED <<promised, touches>>

\* mount: the body is emptied and filled.
Mount ==
    /\ stage = "refused"
    /\ LET empty == WithRoot(Empty(world.app))
           made == Instantiate(empty, 1, Table(empty, 1).root, Body, NoRow)
           mounted == Flush(ApplyStatic(made, 1))
       IN  /\ world' = mounted
           /\ stage' = IF mounted.refused = "no" THEN "mounted" ELSE "failed"
    /\ UNCHANGED <<promised, touches>>

\* An event reaches an instance through its part of the document.
Reached(w) ==
    {i \in DOMAIN w.insts : w.insts[i].start = Nowhere \/ Above(w, w.insts[i].start) = Body}

\* The states of instances that are gone are forgotten.
Promise(states) ==
    LET kept == Meaning(world.app, states).who
    IN  [who \in DOMAIN states \intersect kept |-> states[who]]

\* Changes of state wait for nothing: the page is up to date when it returns.
SetState(i) ==
    /\ stage \in {"adopted", "mounted"}
    /\ touches < MaxTouches
    /\ LET who == world.insts[i].who
           set == Flush(RefreshState([world EXCEPT !.insts[i].s = ~@], i))
       IN  /\ world' = set
           /\ stage' = IF set.refused = "no" THEN stage ELSE "failed"
           /\ promised' = Promise((who :> ~StateOf(world.app, who, promised)) @@ promised)
    /\ touches' = touches + 1

Next ==
    \/ Adoption
    \/ Mount
    \/ \E i \in Reached(world) : SetState(i)

Spec == Init /\ [][Next]_vars

-----------------------------------------------------------------------------

Live == stage \in {"adopted", "mounted"}
Meant == Meaning(world.app, promised)

(***************************************************************************)
(* What is to be seen on the page, comments and empty texts apart, is what *)
(* the templates say of the states the events have asked for: as served,   *)
(* after an adoption or a mount, and after every event, however the        *)
(* conditionals, slots, rows and components are nested.                    *)
(***************************************************************************)
PageShowsTheState ==
    stage # "failed" => Seen(world, world.dom[Body].kids) = Meant.page

\* The nodes an instance keeps: its own, its rows' and their regions'.
Held(i) ==
    LET inst == world.insts[i]
        rows == Range(inst.rows)
        regions == UNION {Range(row.conds) : row \in rows}
    IN  UNION {Range(kept.nodes) : kept \in {inst} \union rows \union regions}

(***************************************************************************)
(* The instances on the page are those the templates ask for, one each,    *)
(* and every element and text of the page is held by one of them: adopting *)
(* leaves no node that no later change reaches, and no two instances write *)
(* the same one.                                                           *)
(***************************************************************************)
OwnersAgree ==
    Live =>
        LET reached == Reached(world)
        IN  /\ {world.insts[i].who : i \in reached} = Meant.who
            /\ Cardinality(reached) = Cardinality(Meant.who)
            /\ \A x \in Within(world, Body) \ {Body} :
                   world.dom[x].kind \in {"element", "text"} =>
                       Cardinality({i \in reached : x \in Held(i)}) = 1

(***************************************************************************)
(* A page as the server rendered it is adopted, its nodes kept.  Only two  *)
(* values that show nothing make the browser refuse it: their sentinel     *)
(* comments have the same name.                                            *)
(***************************************************************************)
ServedIsAdopted ==
    /\ stage # "failed"
    /\ stage = "refused" =>
           Cardinality({x \in DOMAIN world.dom : world.dom[x].mark = Sentinel}) > 1
===============================================================================
