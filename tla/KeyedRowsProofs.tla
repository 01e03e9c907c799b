--------------------------- MODULE KeyedRowsProofs ---------------------------
(***************************************************************************)
(* The rows of a loop are those the feed has asked for, whatever is done   *)
(* to them and wherever it stops, for any keys, values, limits, graphs and *)
(* number of operations.                                                   *)
(*                                                                         *)
(* What an operation makes of the rows (KeyedRowsOperations) is compared   *)
(* with the list it was given (Renders); IInv keeps that for the list the  *)
(* feed has asked for, and the World of an operation that stopped half way.*)
(*                                                                         *)
(* The properties hold under                                               *)
(*   Asked   A feed of snapshots keeps the order of the rows it shares     *)
(*           with the array before.                                        *)
(*   Heard   Such a feed does not select branches by the index of a row,   *)
(*           which changes between the deltas of one array: a branch that  *)
(*           is gone before the operation ends has its listener queued.    *)
(*   Steady  No node depends on the index of its row, and a branch is      *)
(*           written when it is switched.                                  *)
(* and the page and the nodes of its rows need none.                       *)
(***************************************************************************)
EXTENDS KeyedRowsOperations

(***************************************************************************)
(* Before and after an operation                                           *)
(***************************************************************************)

LEMMA FinitePair ==
  ASSUME NEW u, NEW v
  PROVE  IsFiniteSet({u, v})
  <1>1. IsFiniteSet({u}) /\ IsFiniteSet({v})
    BY FS_Singleton
  <1>2. IsFiniteSet({u} \cup {v})
    BY <1>1, FiniteUnion
  <1>3. {u, v} = {u} \cup {v}
    OBVIOUS
  <1>. QED
    BY <1>2, <1>3

LEMMA FinitelyMany ==
  ASSUME NEW S, IsFiniteSet(S), NEW f, NEW F, F \subseteq {f[x] : x \in S},
         \A T \in F : IsFiniteSet(T)
  PROVE  IsFiniteSet(UNION F)
  <1>1. PICK g : g = [x \in S |-> f[x]]
    OBVIOUS
  <1>2. g \in Surjection(S, {f[x] : x \in S})
    BY <1>1 DEF Surjection
  <1>3. IsFiniteSet({f[x] : x \in S})
    BY <1>2, FS_Surjection
  <1>4. IsFiniteSet(F)
    BY <1>3, FS_Subset
  <1>. QED
    BY <1>4, FS_UNION

LEMMA GenerationsAreFinite ==
  ASSUME NEW r, IsFiniteSet(DOMAIN r.rows), FiniteSets(r)
  PROVE  IsFiniteSet(Generations(r))
  <1>1. PICK f : f = [k \in DOMAIN r.rows |->
                        {<<k, r.rows[k].generation>>, <<k, r.rows[k].region.generation>>}]
    OBVIOUS
  <1>2. PICK A : A = {{<<k, r.rows[k].generation>>, <<k, r.rows[k].region.generation>>}
                        : k \in DOMAIN r.rows}
    OBVIOUS
  <1>3. IsFiniteSet(UNION A)
    <2>1. ASSUME NEW T \in A PROVE IsFiniteSet(T)
      <3>1. PICK k \in DOMAIN r.rows :
              T = {<<k, r.rows[k].generation>>, <<k, r.rows[k].region.generation>>}
        BY <1>2
      <3>. QED
        BY <3>1, FinitePair
    <2>2. PICK S : S = DOMAIN r.rows
      OBVIOUS
    <2>3. A \subseteq {f[k] : k \in S}
      BY <1>1, <1>2, <2>2
    <2>. QED
      BY <2>1, <2>2, <2>3, FinitelyMany
  <1>4. PICK owners : owners = r.listeners \cup r.requests
    OBVIOUS
  <1>5. IsFiniteSet(owners)
    BY <1>4, FiniteUnion DEF FiniteSets
  <1>6. PICK g : g = [o \in owners |-> {<<o[1], o[2]>>, <<o[1], o[3]>>}]
    OBVIOUS
  <1>7. PICK B : B = {{<<o[1], o[2]>>, <<o[1], o[3]>>} : o \in owners}
    OBVIOUS
  <1>8. IsFiniteSet(UNION B)
    <2>1. ASSUME NEW T \in B PROVE IsFiniteSet(T)
      <3>1. PICK o \in owners : T = {<<o[1], o[2]>>, <<o[1], o[3]>>}
        BY <1>7
      <3>. QED
        BY <3>1, FinitePair
    <2>2. B \subseteq {g[o] : o \in owners}
      BY <1>6, <1>7
    <2>. QED
      BY <1>5, <2>1, <2>2, FinitelyMany
  <1>9. Generations(r) = UNION (A \cup B)
    BY <1>4, <1>2, <1>7 DEF Generations
  <1>10. UNION (A \cup B) = (UNION A) \cup (UNION B)
    OBVIOUS
  <1>. QED
    BY <1>3, <1>8, <1>9, <1>10, FiniteUnion

\* What an operation starts from is what is there.
SameRows(r, n) ==
  /\ World(n) /\ n.order = r.order /\ n.rows = r.rows /\ n.children = r.children
  /\ n.flag = r.flag /\ n.collection = r.collection
  /\ InStep(r) => InStep(n)
  /\ AllRight(r) => AllRight(n)
  /\ Strict(r) => Strict(n)
LEMMA SameRowsAre ==
  ASSUME NEW r, World(r), NEW n, Shaped(n), FiniteSets(n), n.order = r.order, n.rows = r.rows,
         n.children = r.children, n.flag = r.flag, n.collection = r.collection,
         n.listeners \cup n.requests = r.listeners \cup r.requests
  PROVE  SameRows(r, n)
  <1>1. Tokens(n) = Tokens(r) /\ \A k : Token(n, k) = Token(r, k)
    BY DEF Tokens, Token
  <1>2. Page(n)
    BY <1>1 DEF World, Page
  <1>3. \A k \in DOMAIN r.rows : Owned(n, k)
    BY DEF World, Owned
  <1>4. World(n)
    BY <1>2, <1>3 DEF World
  <1>5. Strict(r) => Strict(n)
    BY DEF Strict
  <1>6. AllRight(r) => AllRight(n)
    BY SameRight DEF AllRight
  <1>7. InStep(r) => InStep(n)
    BY <1>1 DEF InStep
  <1>. QED
    BY <1>4, <1>5, <1>6, <1>7 DEF SameRows

LEMMA StartIs ==
  ASSUME setup \in Setups, World(runtime), NEW r, r = Start
  PROVE  /\ SameRows(runtime, r) /\ r.error = "none" /\ r.moves = 0
         /\ r.requests = runtime.requests
  <1>1. PICK taken : taken = Generations(runtime)
    OBVIOUS
  <1>2. IsFiniteSet(taken)
    <2>1. IsFiniteSet(DOMAIN runtime.rows)
      BY GraphsAreTyped, FS_Subset DEF World
    <2>. QED
      BY <1>1, <2>1, GenerationsAreFinite DEF World
  <1>3. r = [order |-> runtime.order, rows |-> runtime.rows, children |-> runtime.children,
             flag |-> runtime.flag, collection |-> runtime.collection, live |-> runtime.live,
             budget |-> runtime.budget, listeners |-> runtime.listeners,
             requests |-> runtime.requests, taken |-> taken, moves |-> 0, error |-> "none"]
    BY <1>1 DEF Start, World, Shaped
  <1>4. /\ Shaped(r) /\ r.order = runtime.order /\ r.rows = runtime.rows
        /\ r.children = runtime.children /\ r.flag = runtime.flag
        /\ r.collection = runtime.collection /\ r.listeners = runtime.listeners
        /\ r.requests = runtime.requests /\ r.taken = taken /\ r.moves = 0 /\ r.error = "none"
    BY <1>3 DEF Shaped
  <1>5. FiniteSets(r)
    BY <1>2, <1>4 DEF World, FiniteSets
  <1>6. SameRows(runtime, r)
    BY <1>4, <1>5, SameRowsAre
  <1>. QED
    BY <1>4, <1>6

\* What is left of an operation: one that succeeded has installed what waited.
Finished(r) == IF r.error # "none" THEN [r EXCEPT !.taken = {}]
               ELSE [Installed(r) EXCEPT !.taken = {}, !.budget = setup.regions]
LEMMA FinishedIs ==
  ASSUME NEW r, World(r), NEW n, n = Finished(r)
  PROVE  /\ SameRows(r, n) /\ n.error = r.error /\ n.moves = r.moves
         /\ r.error = "none" => n.requests = {}
         /\ r.error # "none" => n.requests = r.requests
  <1>1. Shaped(r) /\ FiniteSets(r)
    BY DEF World
  <1>2. IsFiniteSet({})
    BY FS_EmptySet
  <1>3. CASE r.error # "none"
    <2>1. n = [order |-> r.order, rows |-> r.rows, children |-> r.children, flag |-> r.flag,
       collection |-> r.collection, live |-> r.live, budget |-> r.budget,
       listeners |-> r.listeners, requests |-> r.requests, taken |-> {},
       moves |-> r.moves, error |-> r.error]
      BY <1>1, <1>3 DEF Finished, Shaped
    <2>2. /\ Shaped(n) /\ n.order = r.order /\ n.rows = r.rows /\ n.children = r.children
          /\ n.flag = r.flag /\ n.collection = r.collection /\ n.listeners = r.listeners
          /\ n.requests = r.requests /\ n.taken = {} /\ n.moves = r.moves /\ n.error = r.error
      BY <2>1 DEF Shaped
    <2>3. FiniteSets(n)
      BY <1>1, <1>2, <2>2 DEF FiniteSets
    <2>. QED
      BY <1>3, <2>2, <2>3, SameRowsAre
  <1>4. CASE r.error = "none"
    <2>1. PICK both : both = r.listeners \cup r.requests
      OBVIOUS
    <2>2. n = [[r EXCEPT !.listeners = both, !.requests = {}]
                 EXCEPT !.taken = {}, !.budget = setup.regions]
      BY <1>4, <2>1 DEF Finished, Installed
    <2>3. n = [order |-> r.order, rows |-> r.rows, children |-> r.children, flag |-> r.flag,
       collection |-> r.collection, live |-> r.live, budget |-> setup.regions,
       listeners |-> both, requests |-> {}, taken |-> {},
       moves |-> r.moves, error |-> r.error]
      BY <1>1, <2>2 DEF Shaped
    <2>4. /\ Shaped(n) /\ n.order = r.order /\ n.rows = r.rows /\ n.children = r.children
          /\ n.flag = r.flag /\ n.collection = r.collection
          /\ n.listeners = r.listeners \cup r.requests
          /\ n.requests = {} /\ n.taken = {} /\ n.moves = r.moves /\ n.error = r.error
      BY <2>1, <2>3 DEF Shaped
    <2>5. FiniteSets(n)
      BY <1>1, <1>2, <2>4, FiniteUnion DEF FiniteSets
    <2>6. SameRows(r, n)
      BY <2>4, <2>5, SameRowsAre
    <2>. QED
      BY <1>4, <2>4, <2>6
  <1>. QED
    BY <1>3, <1>4

\* The lists the feed can ask for.
LEMMA ListsAre ==
  ASSUME setup \in Setups, NEW list \in Lists
  PROVE  list \in Seq(AnyRow) /\ Distinct(list)
  <1>1. PICK n \in Nat : \E order \in [1 .. n -> setup.keys] : \E value \in [ToSet(order) -> setup.values] :
           IsInjective(order) /\ list = [i \in DOMAIN order |-> RowOf(order[i], value[order[i]])]
    <2>1. PICK order \in UNION {{s \in [1 .. n -> setup.keys] : IsInjective(s)}
                                  : n \in 0 .. Cardinality(setup.keys)} :
             \E value \in [ToSet(order) -> setup.values] :
               list = [i \in DOMAIN order |-> RowOf(order[i], value[order[i]])]
      BY DEF Lists
    <2>2. Cardinality(setup.keys) \in Nat
      BY GraphsAreTyped, FS_CardinalityType
    <2>3. PICK n \in 0 .. Cardinality(setup.keys) :
             order \in {s \in [1 .. n -> setup.keys] : IsInjective(s)}
      BY <2>1
    <2>. QED
      BY <2>1, <2>2, <2>3
  <1>2. PICK order \in [1 .. n -> setup.keys] : \E value \in [ToSet(order) -> setup.values] :
           IsInjective(order) /\ list = [i \in DOMAIN order |-> RowOf(order[i], value[order[i]])]
    BY <1>1
  <1>3. PICK value \in [ToSet(order) -> setup.values] :
           IsInjective(order) /\ list = [i \in DOMAIN order |-> RowOf(order[i], value[order[i]])]
    BY <1>2
  <1>4. DOMAIN order = 1 .. n
    OBVIOUS
  <1>5. ASSUME NEW i \in 1 .. n PROVE list[i] \in AnyRow /\ list[i].id = order[i]
    <2>1. list[i] = RowOf(order[i], value[order[i]])
      BY <1>3, <1>4
    <2>2. order[i] \in ToSet(order)
      BY <1>4 DEF ToSet
    <2>3. PICK x \in setup.values : x = value[order[i]]
      BY <1>3, <2>2
    <2>4. x.on \in BOOLEAN
      BY GraphsAreTyped
    <2>5. list[i] = [id |-> order[i], v |-> x.v, on |-> x.on]
      BY <2>1, <2>3 DEF RowOf
    <2>6. x.v \in {r.v : r \in setup.values}
      OBVIOUS
    <2>. QED
      BY <2>4, <2>5, <2>6 DEF AnyRow
  <1>6. list \in Seq(AnyRow) /\ Len(list) = n
    <2>1. DOMAIN list = 1 .. n /\ list = [i \in 1 .. n |-> list[i]]
      BY <1>3, <1>4
    <2>. QED
      BY <1>5, <2>1, SeqMade
  <1>7. Distinct(list)
    BY <1>3, <1>4, <1>5, <1>6 DEF Distinct, IsInjective
  <1>. QED
    BY <1>6, <1>7

(***************************************************************************)
(* The inductive invariant                                                 *)
(***************************************************************************)
\* Snapshots keep the order of the rows they share; and with snapshots no
\* conditional depends on the index of its row.
Asked == setup.feed = "snapshot" => AnySnapshot = FALSE
Heard == setup.feed = "snapshot" => setup.test # "index"
\* The templates whose rows show their data: no node depends on the index of
\* its row, and a conditional that an operation can switch without writing its
\* branch has nothing in its branch that would have to be written.
Steady ==
  /\ NoIndex
  /\ \/ setup.branch = {} \/ setup.test \in setup.branch
     \/ setup.feed \in {"host", "action"} /\ setup.test # "s"
\* The rows are the promised list.
InSync(r, list) == list \in Seq(AnyRow) /\ Distinct(list) /\ Renders(r, list)
\* What each feed relies on.
Fed(r) ==
  /\ setup.feed \in {"host", "action"} => IsInjective(r.order)
  /\ setup.feed = "action" => r.collection \in Seq(AnyRow) /\ Distinct(r.collection)
  /\ setup.feed = "snapshot" /\ r.collection = << >> => r.order = << >>
IInv ==
  /\ setup \in Setups /\ failed \in BOOLEAN
  /\ World(runtime) /\ Fed(runtime) /\ projection \in Seq(AnyRow)
  /\ Asked /\ ~ failed => /\ InSync(runtime, promised)
                          /\ setup.feed = "snapshot" => projection = promised
  /\ Asked /\ Heard /\ ~ failed => runtime.requests = {} /\ Strict(runtime)
  /\ Steady => AllRight(runtime)

\* What an operation that starts at r makes of it, before it finishes.
Settles(r, n, asked) ==
  /\ World(n) /\ Fed(n) /\ Kept(r, n)
  /\ Steady /\ AllRight(r) => AllRight(n)
  /\ Asked /\ ~ failed =>
       \/ n.error = "MOUNTED_REGION_LIMIT_EXCEEDED"
       \/ n.error = "none" /\ InSync(n, asked)
       \/ n.error # "none" /\ InSync(n, promised)
  /\ Asked /\ Heard /\ ~ failed =>
       \/ n.error = "MOUNTED_REGION_LIMIT_EXCEEDED"
       \/ n.error = "none" /\ Strict(n)
       \/ n.error # "none" /\ n.requests = {} /\ Strict(n)

LEMMA SameInSync ==
  ASSUME NEW r, NEW n, NEW list, SameRows(r, n), InSync(r, list)
  PROVE  InSync(n, list)
  <1>1. list \in Seq(AnyRow) /\ Distinct(list) /\ Renders(r, list)
    BY DEF InSync
  <1>2. n.order = r.order /\ n.rows = r.rows /\ (InStep(r) => InStep(n))
    BY DEF SameRows
  <1>3. Renders(n, list)
    BY <1>1, <1>2, RendersMeans
  <1>. QED
    BY <1>1, <1>3 DEF InSync

\* What these say of a runtime depends on the graph, which never changes.
LEMMA GraphStays ==
  ASSUME setup' = setup, NEW CONSTANT r, runtime' = r, NEW CONSTANT list, promised' = list
  PROVE  /\ World(runtime)' <=> World(r)
         /\ Fed(runtime)' <=> Fed(r)
         /\ AllRight(runtime)' <=> AllRight(r)
         /\ InSync(runtime, promised)' <=> InSync(r, list)
         /\ Strict(runtime)' <=> Strict(r)
         /\ Steady' <=> Steady
         /\ Asked' <=> Asked
         /\ Heard' <=> Heard
  <1>1. World(runtime)' <=> World(r)
    BY DEF World, Page, RowOK, RowIsTyped, AnyRow
  <1>2. Fed(runtime)' <=> Fed(r)
    BY DEF Fed, AnyRow
  <1>3. AllRight(runtime)' <=> AllRight(r)
    BY DEF AllRight, Right, Shows, Selects, Value
  <1>4. InSync(runtime, promised)' <=> InSync(r, list)
    BY DEF InSync, AnyRow
  <1>5. Strict(runtime)' <=> Strict(r)
    OBVIOUS
  <1>6. (Steady' <=> Steady) /\ (Asked' <=> Asked) /\ (Heard' <=> Heard)
    BY DEF Steady, NoIndex, Asked, Heard
  <1>. QED
    BY <1>1, <1>2, <1>3, <1>4, <1>5, <1>6

\* One step of the loop: what an operation has made of the rows, finished.
FinishedTo(fin, n, asked) ==
  /\ runtime' = fin /\ setup' = setup /\ failed' \in BOOLEAN
  /\ promised' = IF n.error = "none" THEN asked ELSE promised
  /\ failed' <=> failed \/ n.error = "MOUNTED_REGION_LIMIT_EXCEEDED"
LEMMA FinishSettles ==
  ASSUME IInv, NEW r, SameRows(runtime, r), NEW n, NEW asked, Settles(r, n, asked), Finish(n, asked),
         setup' = setup, projection' \in Seq(AnyRow),
         setup.feed = "snapshot" /\ Asked /\ ~ failed /\ n.error # "MOUNTED_REGION_LIMIT_EXCEEDED" =>
            projection' = IF n.error = "none" THEN asked ELSE promised
  PROVE  IInv' /\ KeptRowsKeepTheirNodes
  <1>1. PICK fin : fin = Finished(n)
    OBVIOUS
  <1>2. FinishedTo(fin, n, asked)
    BY <1>1 DEF Finish, Finished, FinishedTo, IInv
  <1>3. World(n) /\ Fed(n) /\ Kept(r, n)
    BY DEF Settles
  <1>4. /\ SameRows(n, fin) /\ fin.error = n.error
        /\ n.error = "none" => fin.requests = {}
        /\ n.error # "none" => fin.requests = n.requests
    BY <1>1, <1>3, FinishedIs
  <1>5. KeptRowsKeepTheirNodes
    BY <1>2, <1>3, <1>4 DEF SameRows, Kept, KeptRowsKeepTheirNodes, FinishedTo
  <1>6. (setup \in Setups)' /\ (failed \in BOOLEAN)' /\ (projection \in Seq(AnyRow))'
    BY <1>2 DEF IInv, AnyRow, FinishedTo
  <1>7. World(fin) /\ Fed(fin)
    BY <1>3, <1>4 DEF SameRows, Fed
  <1>8. Steady => AllRight(fin)
    BY <1>4 DEF IInv, Settles, SameRows
  <1>9. PICK now : now = promised'
    OBVIOUS
  <1>10. ASSUME Asked, ~ failed' PROVE InSync(fin, now)
    <2>1. ~ failed /\ n.error # "MOUNTED_REGION_LIMIT_EXCEEDED"
      BY <1>2, <1>10 DEF FinishedTo
    <2>2. CASE n.error = "none"
      <3>1. InSync(n, asked) /\ now = asked
        BY <1>2, <1>9, <1>10, <2>1, <2>2 DEF Settles, FinishedTo
      <3>. QED
        BY <1>4, <3>1, SameInSync
    <2>3. CASE n.error # "none"
      <3>1. InSync(n, promised) /\ now = promised
        BY <1>2, <1>9, <1>10, <2>1, <2>3 DEF Settles, FinishedTo
      <3>. QED
        BY <1>4, <3>1, SameInSync
    <2>. QED
      BY <2>2, <2>3
  <1>11. ASSUME Asked, Heard, ~ failed' PROVE fin.requests = {} /\ Strict(fin)
    <2>1. ~ failed /\ n.error # "MOUNTED_REGION_LIMIT_EXCEEDED"
      BY <1>2, <1>11 DEF FinishedTo
    <2>. QED
      BY <1>4, <1>11, <2>1 DEF Settles, SameRows
  <1>12. ASSUME Asked, ~ failed', setup.feed = "snapshot" PROVE projection' = now
    <2>1. ~ failed /\ n.error # "MOUNTED_REGION_LIMIT_EXCEEDED"
      BY <1>2, <1>12 DEF FinishedTo
    <2>. QED
      BY <1>2, <1>9, <1>12, <2>1 DEF FinishedTo
  <1>13. World(runtime)' /\ Fed(runtime)'
    BY <1>2, <1>7, GraphStays DEF FinishedTo
  <1>14. (Steady => AllRight(runtime))'
    BY <1>2, <1>8, GraphStays DEF FinishedTo
  <1>15. (Asked /\ ~ failed => /\ InSync(runtime, promised)
                               /\ setup.feed = "snapshot" => projection = promised)'
    BY <1>2, <1>9, <1>10, <1>12, GraphStays DEF FinishedTo
  <1>16. (Asked /\ Heard /\ ~ failed => runtime.requests = {} /\ Strict(runtime))'
    BY <1>2, <1>11, GraphStays DEF FinishedTo
  <1>. QED
    BY <1>5, <1>6, <1>13, <1>14, <1>15, <1>16 DEF IInv

\* What an operation starts from.
LEMMA StartsRight ==
  ASSUME IInv, NEW r, r = Start
  PROVE  /\ SameRows(runtime, r) /\ World(r) /\ Fed(r) /\ r.error = "none" /\ r.moves = 0
         /\ Asked /\ ~ failed => InSync(r, promised) /\ InStep(r)
         /\ Asked /\ Heard /\ ~ failed => r.requests = {} /\ Strict(r)
         /\ setup \in Setups
  <1>1. /\ SameRows(runtime, r) /\ r.error = "none" /\ r.moves = 0
        /\ r.requests = runtime.requests
    BY StartIs DEF IInv
  <1>2. World(r) /\ Fed(r)
    BY <1>1 DEF SameRows, IInv, Fed
  <1>3. ASSUME Asked, ~ failed PROVE InSync(r, promised) /\ InStep(r)
    <2>1. InSync(r, promised)
      BY <1>1, <1>3, SameInSync DEF IInv
    <2>. QED
      BY <2>1, RendersMeans DEF InSync
  <1>4. ASSUME Asked, Heard, ~ failed PROVE r.requests = {} /\ Strict(r)
    BY <1>1, <1>4 DEF IInv, SameRows
  <1>. QED
    BY <1>1, <1>2, <1>3, <1>4 DEF IInv

(***************************************************************************)
(* The whole list: arrays of the host, and the collection of an action     *)
(***************************************************************************)
LEMMA SameSettles ==
  ASSUME NEW r, World(r), NEW n, Shaped(n), n.order = r.order, n.rows = r.rows,
         n.children = r.children, n.flag = r.flag, n.listeners = r.listeners,
         n.requests = r.requests, n.taken = r.taken, NEW list
  PROVE  /\ World(n) /\ Kept(r, n)
         /\ AllRight(r) => AllRight(n)
         /\ Strict(r) => Strict(n)
         /\ InSync(r, list) => InSync(n, list)
  <1>1. r.order \in Seq(setup.keys)
    BY DEF World
  <1>2. World(n) /\ (Strict(r) => Strict(n)) /\ (AllRight(r) => AllRight(n))
    BY <1>1, SameWorld
  <1>3. \A k : Token(n, k) = Token(r, k)
    BY DEF Token
  <1>4. InStep(r) => InStep(n)
    BY <1>3 DEF InStep
  <1>5. InSync(r, list) => InSync(n, list)
    BY <1>4, RendersMeans DEF InSync
  <1>. QED
    BY <1>2, <1>5 DEF Kept

\* The array of the feed becomes the collection.
Holding(r, list) == [r EXCEPT !.collection = list]
LEMMA HoldingIs ==
  ASSUME NEW r, World(r), NEW list, NEW asked, NEW n, n = Holding(r, list)
  PROVE  /\ World(n) /\ Kept(r, n) /\ n.collection = list /\ n.order = r.order
         /\ n.rows = r.rows /\ n.error = r.error /\ n.moves = r.moves /\ n.requests = r.requests
         /\ AllRight(r) => AllRight(n)
         /\ Strict(r) => Strict(n)
         /\ InSync(r, asked) => InSync(n, asked)
         /\ n.children = r.children
  <1>1. Shaped(r)
    BY DEF World
  <1>2. n = [order |-> r.order, rows |-> r.rows, children |-> r.children, flag |-> r.flag,
       collection |-> list, live |-> r.live, budget |-> r.budget,
       listeners |-> r.listeners, requests |-> r.requests, taken |-> r.taken,
       moves |-> r.moves, error |-> r.error]
    BY <1>1 DEF Holding, Shaped
  <1>3. /\ Shaped(n) /\ n.order = r.order /\ n.rows = r.rows /\ n.children = r.children
        /\ n.flag = r.flag /\ n.collection = list /\ n.listeners = r.listeners
        /\ n.requests = r.requests /\ n.taken = r.taken /\ n.moves = r.moves /\ n.error = r.error
    BY <1>2 DEF Shaped
  <1>. QED
    BY <1>3, SameSettles

\* What reconcile_loop makes of rows that are in step.
LEMMA ReconcileLoopSettles ==
  ASSUME setup \in Setups, NEW r, World(r), r.error = "none", r.moves \in Nat,
         IsInjective(r.order), NEW list \in Seq(AnyRow), Distinct(list), NEW asked,
         NEW n, n = ReconcileLoop(r, list)
  PROVE  /\ World(n) /\ n.collection = r.collection /\ Kept(r, n)
         /\ NoIndex /\ AllRight(r) => AllRight(n)
         /\ IsInjective(n.order)
         /\ InSync(r, asked) =>
              \/ n.error = "MOUNTED_REGION_LIMIT_EXCEEDED"
              \/ n.error = "none" /\ InSync(n, list)
              \/ n.error # "none" /\ InSync(n, asked)
         /\ r.requests = {} /\ Strict(r) =>
              \/ n.error = "MOUNTED_REGION_LIMIT_EXCEEDED"
              \/ n.error = "none" /\ Strict(n)
              \/ n.error # "none" /\ n.requests = {} /\ Strict(n)
  <1>1. Shaped(r)
    BY DEF World
  <1>2. ASSUME NEW what, what # "none", n = Fails(r, what)
        PROVE  /\ World(n) /\ n.collection = r.collection /\ Kept(r, n)
               /\ AllRight(r) => AllRight(n)
               /\ IsInjective(n.order) /\ n.error # "none"
               /\ InSync(r, asked) => InSync(n, asked)
               /\ r.requests = {} /\ Strict(r) => n.requests = {} /\ Strict(n)
    <2>1. /\ Shaped(n) /\ n.error = what /\ n.order = r.order /\ n.rows = r.rows
          /\ n.children = r.children /\ n.flag = r.flag /\ n.collection = r.collection
          /\ n.listeners = r.listeners /\ n.requests = r.requests /\ n.taken = r.taken
      BY <1>1, <1>2, FailsIs
    <2>. QED
      BY <1>2, <2>1, SameSettles
  <1>3. CASE n = Fails(r, "LOOP_ROW_LIMIT_EXCEEDED")
    <2>1. PICK what : what = "LOOP_ROW_LIMIT_EXCEEDED"
      OBVIOUS
    <2>. QED
      BY <1>2, <1>3, <2>1
  <1>4. CASE n = Fails(r, "RECONCILE_BUDGET_EXCEEDED")
    <2>1. PICK what : what = "RECONCILE_BUDGET_EXCEEDED"
      OBVIOUS
    <2>. QED
      BY <1>2, <1>4, <2>1
  <1>5. CASE Refused(r, n)
    BY <1>5 DEF Refused, Reshaped
  <1>6. CASE Reconciled(r, n, list)
    <2>1. /\ World(n) /\ n.collection = r.collection /\ Kept(r, n) /\ n.error = "none"
          /\ NoIndex /\ AllRight(r) => AllRight(n)
          /\ n.order = KeysOf(list) /\ (InStep(r) => Renders(n, list))
          /\ Strict(r) /\ r.requests = {} => Strict(n)
      BY <1>6 DEF Reconciled, Reshaped
    <2>2. IsInjective(n.order)
      BY <2>1, KeysTell
    <2>3. InSync(r, asked) => InStep(r)
      BY RendersMeans DEF InSync
    <2>. QED
      BY <2>1, <2>2, <2>3 DEF InSync
  <1>. QED
    BY <1>3, <1>4, <1>5, <1>6, ReconcileLoopIs

LEMMA ReconcileSettles ==
  ASSUME IInv, NEW r, r = Start, IsInjective(r.order),
         NEW list \in Seq(AnyRow), Distinct(list),
         setup.feed = "snapshot" => list # << >>,
         NEW n, n = ReconcileLoop(Holding(r, list), list)
  PROVE  Settles(r, n, list)
  <1>1. PICK q : q = Holding(r, list)
    OBVIOUS
  <1>2. /\ SameRows(runtime, r) /\ World(r) /\ Fed(r) /\ r.error = "none" /\ r.moves = 0
        /\ Asked /\ ~ failed => InSync(r, promised) /\ InStep(r)
        /\ Asked /\ Heard /\ ~ failed => r.requests = {} /\ Strict(r)
        /\ setup \in Setups
    BY StartsRight
  <1>3. /\ World(q) /\ q.collection = list /\ q.order = r.order
        /\ q.rows = r.rows /\ q.error = r.error /\ q.moves = r.moves /\ q.requests = r.requests
        /\ AllRight(r) => AllRight(q)
        /\ Strict(r) => Strict(q)
        /\ InSync(r, promised) => InSync(q, promised)
    BY <1>1, <1>2, HoldingIs
  <1>4. n = ReconcileLoop(q, list)
    BY <1>1
  <1>5. /\ World(n) /\ n.collection = q.collection /\ Kept(q, n)
        /\ NoIndex /\ AllRight(q) => AllRight(n)
        /\ IsInjective(n.order)
        /\ InSync(q, promised) =>
             \/ n.error = "MOUNTED_REGION_LIMIT_EXCEEDED"
             \/ n.error = "none" /\ InSync(n, list)
             \/ n.error # "none" /\ InSync(n, promised)
        /\ q.requests = {} /\ Strict(q) =>
             \/ n.error = "MOUNTED_REGION_LIMIT_EXCEEDED"
             \/ n.error = "none" /\ Strict(n)
             \/ n.error # "none" /\ n.requests = {} /\ Strict(n)
    <2>1. q.error = "none" /\ q.moves \in Nat /\ IsInjective(q.order)
      BY <1>2, <1>3
    <2>. QED
      BY <1>2, <1>3, <1>4, <2>1, ReconcileLoopSettles
  <1>6. Kept(r, n)
    BY <1>3, <1>5 DEF Kept
  <1>7. Fed(n)
    BY <1>3, <1>5 DEF Fed
  <1>8. Steady /\ AllRight(r) => AllRight(n)
    BY <1>3, <1>5 DEF Steady
  <1>. QED
    BY <1>2, <1>3, <1>5, <1>6, <1>7, <1>8 DEF Settles

\* An operation that fails before it has touched anything.
LEMMA FailsSettles ==
  ASSUME IInv, NEW r, r = Start, NEW what, what \notin {"none", "MOUNTED_REGION_LIMIT_EXCEEDED"},
         NEW asked, NEW n, n = Fails(r, what)
  PROVE  Settles(r, n, asked) /\ n.error = what
  <1>1. /\ World(r) /\ Fed(r) /\ r.error = "none"
        /\ Asked /\ ~ failed => InSync(r, promised) /\ InStep(r)
        /\ Asked /\ Heard /\ ~ failed => r.requests = {} /\ Strict(r)
    BY StartsRight
  <1>2. Shaped(r)
    BY <1>1 DEF World
  <1>3. /\ Shaped(n) /\ n.error = what /\ n.order = r.order /\ n.rows = r.rows
        /\ n.children = r.children /\ n.flag = r.flag /\ n.collection = r.collection
        /\ n.listeners = r.listeners /\ n.requests = r.requests /\ n.taken = r.taken
    BY <1>2, FailsIs
  <1>4. /\ World(n) /\ Kept(r, n)
        /\ AllRight(r) => AllRight(n)
        /\ Strict(r) => Strict(n)
        /\ InSync(r, promised) => InSync(n, promised)
    BY <1>1, <1>3, SameSettles
  <1>5. Fed(n)
    BY <1>1, <1>3 DEF Fed
  <1>. QED
    BY <1>1, <1>3, <1>4, <1>5 DEF Settles

LEMMA ReconcileInputSettles ==
  ASSUME IInv, NEW r, r = Start, IsInjective(r.order),
         NEW list \in Seq(AnyRow), Distinct(list),
         setup.feed = "snapshot" => list # << >>,
         NEW n, n = ReconcileInput(r, list)
  PROVE  Settles(r, n, list)
  <1>1. CASE Len(list) > setup.limit
    <2>1. PICK what : what = "LOOP_ROW_LIMIT_EXCEEDED"
      OBVIOUS
    <2>2. n = Fails(r, what)
      BY <1>1, <2>1 DEF ReconcileInput
    <2>. QED
      BY <2>1, <2>2, FailsSettles
  <1>2. CASE ~ (Len(list) > setup.limit)
    <2>1. n = ReconcileLoop(Holding(r, list), list)
      BY <1>2 DEF ReconcileInput, Holding
    <2>. QED
      BY <2>1, ReconcileSettles
  <1>. QED
    BY <1>1, <1>2

LEMMA InitializeInputStep ==
  ASSUME IInv, NEW list \in Lists, InitializeInput(list)
  PROVE  IInv' /\ KeptRowsKeepTheirNodes
  <1>1. PICK r : r = Start
    OBVIOUS
  <1>2. PICK n : n = ReconcileInput(r, list)
    OBVIOUS
  <1>3. /\ setup.feed = "host" /\ Finish(n, list)
        /\ setup' = setup /\ projection' = projection
    BY <1>1, <1>2 DEF InitializeInput
  <1>4. list \in Seq(AnyRow) /\ Distinct(list)
    BY ListsAre DEF IInv
  <1>5. SameRows(runtime, r) /\ Fed(r)
    BY <1>1, StartsRight
  <1>6. IsInjective(r.order)
    BY <1>3, <1>5 DEF Fed
  <1>7. Settles(r, n, list)
    BY <1>1, <1>2, <1>3, <1>4, <1>6, ReconcileInputSettles
  <1>8. projection' \in Seq(AnyRow)
    BY <1>3 DEF IInv
  <1>. QED
    BY <1>3, <1>5, <1>7, <1>8, FinishSettles

LEMMA InitializeSnapshotInputStep ==
  ASSUME IInv, NEW list \in Lists, Len(list) = 1, InitializeSnapshotInput(list)
  PROVE  IInv' /\ KeptRowsKeepTheirNodes
  <1>1. PICK r : r = Start
    OBVIOUS
  <1>2. PICK n : n = ReconcileInput(r, list)
    OBVIOUS
  <1>3. /\ setup.feed = "snapshot" /\ runtime.collection = << >> /\ Finish(n, list)
        /\ setup' = setup /\ projection' = IF n.error = "none" THEN list ELSE projection
    BY <1>1, <1>2 DEF InitializeSnapshotInput
  <1>4. list \in Seq(AnyRow) /\ Distinct(list) /\ list # << >>
    BY ListsAre DEF IInv
  <1>5. SameRows(runtime, r) /\ Fed(r)
    BY <1>1, StartsRight
  <1>6. IsInjective(r.order)
    <2>1. r.order = << >>
      BY <1>3, <1>5 DEF Fed, SameRows
    <2>. QED
      BY <2>1 DEF IsInjective
  <1>7. Settles(r, n, list)
    BY <1>1, <1>2, <1>4, <1>6, ReconcileInputSettles
  <1>8. projection' \in Seq(AnyRow)
    BY <1>3, <1>4 DEF IInv
  <1>9. Asked /\ ~ failed => projection' = IF n.error = "none" THEN list ELSE promised
    BY <1>3 DEF IInv
  <1>. QED
    BY <1>3, <1>5, <1>7, <1>8, <1>9, FinishSettles

\* What an action makes of the collection.
LEMMA MutatedIs ==
  ASSUME NEW c \in Seq(AnyRow), Distinct(c), NEW row \in AnyRow, NEW at, at = At(KeysOf(c), row.id)
  PROVE  /\ at = 0 => Append(c, row) \in Seq(AnyRow) /\ Distinct(Append(c, row))
         /\ at # 0 => /\ [c EXCEPT ![at] = row] \in Seq(AnyRow) /\ Distinct([c EXCEPT ![at] = row])
                      /\ RemoveAt(c, at) \in Seq(AnyRow) /\ Distinct(RemoveAt(c, at))
  <1>1. PICK m \in Nat : m = Len(c)
    OBVIOUS
  <1>2. /\ KeysOf(c) \in Seq(setup.keys) /\ Len(KeysOf(c)) = m
        /\ \A i \in 1 .. m : KeysOf(c)[i] = c[i].id
    BY <1>1, KeysAre
  <1>3. /\ row.id \in ToSet(KeysOf(c)) => at \in 1 .. m /\ KeysOf(c)[at] = row.id
        /\ row.id \notin ToSet(KeysOf(c)) => at = 0
    BY <1>2, AtIs
  <1>4. \A p, q \in 1 .. m : c[p].id = c[q].id => p = q
    BY <1>1 DEF Distinct
  <1>5. CASE at = 0
    <2>1. \A i \in 1 .. m : c[i].id # row.id
      BY <1>2, <1>3, <1>5 DEF ToSet
    <2>2. PICK s : s = Append(c, row)
      OBVIOUS
    <2>3. /\ s \in Seq(AnyRow) /\ Len(s) = m + 1 /\ s[m + 1] = row
          /\ \A i \in 1 .. m : s[i] = c[i]
      BY <1>1, <2>2
    <2>4. Distinct(s)
      BY <1>4, <2>1, <2>3 DEF Distinct
    <2>. QED
      BY <1>5, <2>2, <2>3, <2>4
  <1>6. CASE at # 0
    <2>1. at \in 1 .. m /\ c[at].id = row.id
      BY <1>2, <1>3, <1>6
    <2>2. PICK s : s = [c EXCEPT ![at] = row]
      OBVIOUS
    <2>3. s \in Seq(AnyRow) /\ Len(s) = m /\ \A i \in 1 .. m : s[i].id = c[i].id
      BY <1>1, <2>1, <2>2
    <2>4. Distinct(s)
      BY <1>4, <2>3 DEF Distinct
    <2>5. PICK t : t = RemoveAt(c, at)
      OBVIOUS
    <2>6. /\ t \in Seq(AnyRow) /\ Len(t) = m - 1
          /\ \A i \in 1 .. m - 1 : t[i] = IF i < at THEN c[i] ELSE c[i + 1]
      <3>1. PICK u : u = SubSeq(c, 1, at - 1)
        OBVIOUS
      <3>2. u \in Seq(AnyRow) /\ Len(u) = at - 1 /\ \A i \in 1 .. at - 1 : u[i] = c[i]
        BY <1>1, <2>1, <3>1
      <3>3. PICK w : w = SubSeq(c, at + 1, m)
        OBVIOUS
      <3>4. w \in Seq(AnyRow) /\ Len(w) = m - at /\ \A i \in 1 .. m - at : w[i] = c[i + at]
        BY <1>1, <2>1, <3>3
      <3>5. t = u \o w
        BY <1>1, <2>5, <3>1, <3>3 DEF RemoveAt
      <3>6. t \in Seq(AnyRow) /\ Len(t) = m - 1
        BY <2>1, <3>2, <3>4, <3>5
      <3>7. ASSUME NEW i \in 1 .. m - 1 PROVE t[i] = IF i < at THEN c[i] ELSE c[i + 1]
        <4>1. CASE i < at
          BY <2>1, <3>2, <3>4, <3>5, <4>1
        <4>2. CASE ~ (i < at)
          <5>1. PICK j : j = i - (at - 1)
            OBVIOUS
          <5>2. j \in 1 .. m - at /\ j + at = i + 1
            BY <2>1, <4>2, <5>1
          <5>3. w[j] = c[j + at]
            BY <3>4, <5>2
          <5>4. i \in Len(u) + 1 .. Len(u) + Len(w) /\ i - Len(u) = j
            <6>1. Len(u) = at - 1 /\ Len(w) = m - at
              BY <3>2, <3>4
            <6>2. at \in 1 .. m /\ m \in Nat /\ i \in 1 .. m - 1
              BY <1>1, <2>1
            <6>. QED
              BY ONLY <4>2, <5>1, <6>1, <6>2
          <5>5. t[i] = w[i - Len(u)]
            BY <3>2, <3>4, <3>5, <5>4, ConcatProperties
          <5>. QED
            BY <4>2, <5>2, <5>3, <5>4, <5>5
        <4>. QED
          BY <4>1, <4>2
      <3>. QED
        BY <3>6, <3>7
    <2>7. Distinct(t)
      <3>1. ASSUME NEW i \in 1 .. m - 1, NEW j \in 1 .. m - 1, t[i].id = t[j].id PROVE i = j
        <4>1. PICK p \in 1 .. m : t[i] = c[p] /\ p = IF i < at THEN i ELSE i + 1
          BY <2>1, <2>6
        <4>2. PICK q \in 1 .. m : t[j] = c[q] /\ q = IF j < at THEN j ELSE j + 1
          BY <2>1, <2>6
        <4>3. p = q
          BY <1>4, <3>1, <4>1, <4>2
        <4>. QED
          BY <2>1, <4>1, <4>2, <4>3
      <3>. QED
        BY <2>6, <3>1 DEF Distinct
    <2>. QED
      BY <1>6, <2>2, <2>3, <2>4, <2>5, <2>6, <2>7
  <1>. QED
    BY <1>5, <1>6

LEMMA RowsAre ==
  ASSUME setup \in Setups, NEW row \in Rows
  PROVE  row \in AnyRow
  <1>1. PICK key \in setup.keys, x \in setup.values : row = RowOf(key, x)
    BY DEF Rows
  <1>2. x.on \in BOOLEAN
    BY GraphsAreTyped
  <1>3. row = [id |-> key, v |-> x.v, on |-> x.on]
    BY <1>1 DEF RowOf
  <1>4. x.v \in {r.v : r \in setup.values}
    OBVIOUS
  <1>. QED
    BY <1>2, <1>3, <1>4 DEF AnyRow

NextCollection(kind, row, c, at) ==
  CASE kind = "append" -> Append(c, row)
    [] kind = "keyedReplace" -> [c EXCEPT ![at] = row]
    [] kind = "keyedRemove" -> RemoveAt(c, at)
LEMMA MutateCollectionStep ==
  ASSUME IInv, NEW kind \in {"append", "keyedReplace", "keyedRemove"}, NEW row \in Rows,
         MutateCollection(kind, row)
  PROVE  IInv' /\ KeptRowsKeepTheirNodes
  <1>1. PICK r : r = Start
    OBVIOUS
  <1>2. PICK c : c = runtime.collection
    OBVIOUS
  <1>3. PICK at : at = At(KeysOf(c), row.id)
    OBVIOUS
  <1>4. PICK list : list = NextCollection(kind, row, c, at)
    OBVIOUS
  <1>5. /\ setup.feed = "action" /\ setup' = setup /\ projection' = projection
        /\ IF (kind = "append") = (at # 0)
           THEN Finish(Fails(r, "collection key"), promised)
           ELSE Finish(ReconcileLoop(Holding(r, list), list), list)
    BY <1>1, <1>2, <1>3, <1>4, Zenon DEF MutateCollection, NextCollection, Holding
  <1>6. SameRows(runtime, r) /\ Fed(r) /\ setup \in Setups
    BY <1>1, StartsRight
  <1>7. projection' \in Seq(AnyRow)
    BY <1>5, Zenon DEF IInv
  <1>8. CASE (kind = "append") = (at # 0)
    <2>1. PICK what : what = "collection key"
      BY Zenon
    <2>2. PICK n : n = Fails(r, what)
      OBVIOUS
    <2>3. Settles(r, n, promised)
      BY <1>1, <2>1, <2>2, FailsSettles, Zenon
    <2>4. Finish(n, promised)
      BY <1>5, <1>8, <2>1, <2>2, Zenon
    <2>. QED
      BY <1>5, <1>6, <1>7, <2>3, <2>4, FinishSettles, Zenon
  <1>9. CASE (kind = "append") # (at # 0)
    <2>1. c \in Seq(AnyRow) /\ Distinct(c) /\ row \in AnyRow
      BY <1>2, <1>5, RowsAre, Zenon DEF IInv, Fed
    <2>2. list \in Seq(AnyRow) /\ Distinct(list)
      <3>1. CASE kind = "append"
        BY <1>3, <1>4, <1>9, <2>1, <3>1, MutatedIs DEF NextCollection
      <3>2. CASE kind = "keyedReplace"
        BY <1>3, <1>4, <1>9, <2>1, <3>2, MutatedIs DEF NextCollection
      <3>3. CASE kind = "keyedRemove"
        BY <1>3, <1>4, <1>9, <2>1, <3>3, MutatedIs DEF NextCollection
      <3>. QED
        BY <3>1, <3>2, <3>3
    <2>3. PICK n : n = ReconcileLoop(Holding(r, list), list)
      OBVIOUS
    <2>4. IsInjective(r.order)
      BY <1>5, <1>6, Zenon DEF Fed
    <2>5. Settles(r, n, list)
      BY <1>1, <1>5, <2>2, <2>3, <2>4, ReconcileSettles, Zenon
    <2>6. Finish(n, list)
      BY <1>5, <1>9, <2>3
    <2>. QED
      BY <1>5, <1>6, <1>7, <2>5, <2>6, FinishSettles, Zenon
  <1>. QED
    BY <1>8, <1>9

(***************************************************************************)
(* A state changes                                                         *)
(***************************************************************************)
LEMMA SetToSeqIs ==
  ASSUME NEW S, IsFiniteSet(S), NEW s, s = SetToSeq(S)
  PROVE  \E m \in Nat : /\ DOMAIN s = 1 .. m /\ IsInjective(s)
                        /\ \A i \in 1 .. m : s[i] \in S
                        /\ \A x \in S : \E i \in 1 .. m : s[i] = x
  <1>1. PICK m : m = Cardinality(S)
    OBVIOUS
  <1>2. m \in Nat /\ ExistsBijection(1 .. m, S)
    BY <1>1, FS_CardinalityType
  <1>3. PICK b : b \in Bijection(1 .. m, S)
    BY <1>2 DEF ExistsBijection
  <1>4. b \in [1 .. m -> S] /\ IsInjective(b)
    BY <1>3 DEF Bijection, Injection, IsInjective
  <1>5. s = CHOOSE f \in [1 .. m -> S] : IsInjective(f)
    BY <1>1 DEF SetToSeq
  <1>6. s \in [1 .. m -> S] /\ IsInjective(s)
    BY <1>4, <1>5
  <1>7. s \in Injection(1 .. m, S)
    BY <1>6 DEF Injection, IsInjective
  <1>8. Cardinality(1 .. m) = m /\ IsFiniteSet(1 .. m)
    BY <1>2, FS_Interval
  <1>9. s \in Surjection(1 .. m, S)
    BY <1>1, <1>7, <1>8, FS_Injection
  <1>10. \A x \in S : \E i \in 1 .. m : s[i] = x
    BY <1>9 DEF Surjection
  <1>. QED
    BY <1>2, <1>6, <1>10

Flipped(r) == [r EXCEPT !.flag = ~ @]
ReadsState(row) ==
  \/ setup.test = "s" \/ "s" \in setup.text
  \/ row.region.selected /\ "s" \in setup.branch
Readers(r) == SetToSeq({k \in DOMAIN r.rows : ReadsState(r.rows[k])})
StateUpdates(r, rows) == [i \in DOMAIN rows |-> Update(rows[i], r.rows[rows[i]].values, {"s"})]
LEMMA FlippedIs ==
  ASSUME NEW r, World(r), NEW n, n = Flipped(r), NEW list
  PROVE  /\ World(n) /\ n.order = r.order /\ n.rows = r.rows /\ n.children = r.children
         /\ n.collection = r.collection /\ n.error = r.error /\ n.requests = r.requests
         /\ Strict(r) => Strict(n)
         /\ InSync(r, list) => InSync(n, list)
         /\ n.moves = r.moves
  <1>1. Shaped(r) /\ r.flag \in BOOLEAN
    BY DEF World
  <1>2. PICK flag \in BOOLEAN : flag = ~ r.flag
    OBVIOUS
  <1>3. n = [r EXCEPT !.flag = flag]
    BY <1>2 DEF Flipped
  <1>4. n = [order |-> r.order, rows |-> r.rows, children |-> r.children, flag |-> flag,
       collection |-> r.collection, live |-> r.live, budget |-> r.budget,
       listeners |-> r.listeners, requests |-> r.requests, taken |-> r.taken,
       moves |-> r.moves, error |-> r.error]
    BY <1>1, <1>3 DEF Shaped
  <1>5. /\ Shaped(n) /\ n.order = r.order /\ n.rows = r.rows /\ n.children = r.children
        /\ n.flag = flag /\ n.collection = r.collection /\ n.listeners = r.listeners
        /\ n.requests = r.requests /\ n.taken = r.taken /\ n.error = r.error /\ n.moves = r.moves
    BY <1>4 DEF Shaped
  <1>6. \A k : Token(n, k) = Token(r, k)
    BY <1>5 DEF Token
  <1>7. Tokens(n) = Tokens(r)
    BY <1>5, <1>6 DEF Tokens
  <1>8. Page(n)
    BY <1>5, <1>7 DEF World, Page
  <1>9. \A k \in DOMAIN n.rows : Owned(n, k)
    BY <1>5 DEF World, Owned
  <1>10. FiniteSets(n)
    BY <1>5 DEF World, FiniteSets
  <1>11. World(n)
    BY <1>5, <1>8, <1>9, <1>10 DEF World
  <1>12. Strict(r) => Strict(n)
    BY <1>5 DEF Strict
  <1>13. InStep(r) => InStep(n)
    BY <1>5, <1>6 DEF InStep
  <1>14. InSync(r, list) => InSync(n, list)
    BY <1>5, <1>13, RendersMeans DEF InSync
  <1>. QED
    BY <1>5, <1>11, <1>12, <1>14

LEMMA FlippedShowsTheSame ==
  ASSUME NEW r, NEW b, NEW values
  PROVE  SameReads(r, values, b, values, {"s"})
  BY DEF SameReads, Value

\* The rows that read the state are written, and only they.
StateWritten(r, b, n, m, rows, what) ==
  /\ DOMAIN n.rows = DOMAIN r.rows
  /\ \A i \in 1 .. m : rows[i] \in DOMAIN r.rows
  /\ \A k \in DOMAIN r.rows : ReadsState(r.rows[k]) => \E i \in 1 .. m : rows[i] = k
  /\ \A k \in DOMAIN r.rows : (\A j \in 1 .. m : rows[j] # k) => n.rows[k] = r.rows[k]
  /\ \A j \in 1 .. m :
       /\ n.rows[rows[j]].values = r.rows[rows[j]].values
       /\ Writes(b, n, rows[j], Selects(b, r.rows[rows[j]].values, IndexOf(b, rows[j])), 0, what)
\* The nodes that show the state are written, all the others show no state.
LEMMA StateIsShown ==
  ASSUME setup \in Setups, Steady, NEW r, World(r), AllRight(r), NEW b, b = Flipped(r),
         NEW n, n.flag = b.flag, NEW m, NEW rows, NEW what, what = {"s"},
         StateWritten(r, b, n, m, rows, what)
  PROVE  AllRight(n)
  <1>1. /\ DOMAIN n.rows = DOMAIN r.rows
        /\ \A i \in 1 .. m : rows[i] \in DOMAIN r.rows
        /\ \A k \in DOMAIN r.rows : ReadsState(r.rows[k]) => \E i \in 1 .. m : rows[i] = k
        /\ \A k \in DOMAIN r.rows : (\A j \in 1 .. m : rows[j] # k) => n.rows[k] = r.rows[k]
        /\ \A j \in 1 .. m :
             /\ n.rows[rows[j]].values = r.rows[rows[j]].values
             /\ Writes(b, n, rows[j], Selects(b, r.rows[rows[j]].values, IndexOf(b, rows[j])), 0, what)
    BY DEF StateWritten
  <1>2. NoIndex /\ setup.test # "index"
    BY DEF Steady, NoIndex
  <1>3. b.rows = r.rows
    BY FlippedIs
  <1>4. setup.text \subseteq Reads /\ setup.branch \subseteq Reads /\ setup.test \in {"on", "s", "index"}
    BY GraphsAreTyped
  <1>5. ASSUME NEW k \in DOMAIN r.rows PROVE Right(b, n.rows[k])
    <2>1. Right(r, b.rows[k]) /\ RowOK(k, r.rows[k])
      BY <1>3 DEF AllRight, World
    <2>2. PICK row : row = r.rows[k]
      OBVIOUS
    <2>3. CASE \E j \in 1 .. m : rows[j] = k
      <3>1. PICK j \in 1 .. m : rows[j] = k
        BY <2>3
      <3>2. n.rows[k].values = row.values
        BY <1>1, <2>2, <3>1
      <3>3. PICK selected : selected = Selects(b, row.values, IndexOf(b, k))
        OBVIOUS
      <3>4. Writes(b, n, k, selected, 0, what)
        BY <1>1, <2>2, <3>1, <3>3
      <3>5. selected = Selects(b, n.rows[k].values, 0)
        BY <1>2, <3>2, <3>3, SelectsAtAnyIndex
      <3>6. SameReads(r, b.rows[k].values, b, n.rows[k].values, {"s"})
        BY <1>3, <2>2, <3>2, FlippedShowsTheSame
      <3>7. setup.branch = {} \/ setup.branch \cap {"s"} # {} \/ b.rows[k].region.selected = selected
        <4>1. CASE setup.test = "s"
          BY <4>1 DEF Steady
        <4>2. CASE setup.test = "on"
          <5>1. b.rows[k].region.selected = Selects(r, row.values, 0)
            BY <1>3, <2>1, <2>2 DEF Right
          <5>2. selected = Selects(b, row.values, 0)
            BY <3>2, <3>5
          <5>. QED
            BY <4>2, <5>1, <5>2 DEF Selects, Value
        <4>. QED
          BY <1>2, <1>4, <4>1, <4>2
      <3>8. SameReads(r, b.rows[k].values, b, n.rows[k].values, what)
        BY <3>6
      <3>9. PICK index : index = 0
        OBVIOUS
      <3>. QED
        BY <1>2, <2>1, <3>4, <3>5, <3>7, <3>8, <3>9, RightAgain
    <2>4. CASE \A j \in 1 .. m : rows[j] # k
      <3>1. n.rows[k] = row
        BY <1>1, <2>2, <2>4
      <3>2. ~ ReadsState(row)
        BY <1>1, <2>2, <2>4
      <3>3. /\ row.text = Shows(r, setup.text, row.values, 0)
            /\ row.region.selected = Selects(r, row.values, 0)
            /\ row.region.selected => row.region.shows = Shows(r, setup.branch, row.values, 0)
        BY <1>3, <2>1, <2>2 DEF Right
      <3>4. SameReads(r, row.values, b, row.values, {"s"})
        BY FlippedShowsTheSame
      <3>5. setup.test = "on" /\ "s" \notin setup.text
        BY <1>2, <1>4, <3>2 DEF ReadsState
      <3>6. Shows(r, setup.text, row.values, 0) = Shows(b, setup.text, row.values, 0)
        <4>1. setup.text \in SUBSET (Reads \ ({"s"} \cup {"index"}))
          BY <1>2, <1>4, <3>5 DEF NoIndex
        <4>. QED
          BY <3>4, <4>1, SameValuesShowTheSame
      <3>7. Selects(r, row.values, 0) = Selects(b, row.values, 0)
        BY <3>5 DEF Selects, Value
      <3>8. ASSUME row.region.selected
            PROVE Shows(r, setup.branch, row.values, 0) = Shows(b, setup.branch, row.values, 0)
        <4>1. setup.branch \in SUBSET (Reads \ ({"s"} \cup {"index"}))
          BY <1>2, <1>4, <3>2, <3>8 DEF NoIndex, ReadsState
        <4>. QED
          BY <3>4, <4>1, SameValuesShowTheSame
      <3>. QED
        BY <3>1, <3>3, <3>6, <3>7, <3>8 DEF Right
    <2>. QED
      BY <2>3, <2>4
  <1>. QED
    BY <1>1, <1>5, SameRight DEF AllRight

LEMMA SetStateSettles ==
  ASSUME IInv, NEW r, r = Start, NEW b, b = Flipped(r), NEW rows, rows = Readers(b),
         NEW n, n = Perform(b, StateUpdates(b, rows))
  PROVE  Settles(r, n, promised) /\ n.error = "none" /\ n.order = r.order /\ n.moves = 0
  <1>1. /\ SameRows(runtime, r) /\ World(r) /\ Fed(r) /\ r.error = "none" /\ r.moves = 0
        /\ Asked /\ ~ failed => InSync(r, promised) /\ InStep(r)
        /\ Asked /\ Heard /\ ~ failed => r.requests = {} /\ Strict(r)
        /\ setup \in Setups
    BY StartsRight
  <1>2. /\ World(b) /\ b.order = r.order /\ b.rows = r.rows /\ b.children = r.children
        /\ b.collection = r.collection /\ b.error = r.error /\ b.requests = r.requests
        /\ Strict(r) => Strict(b)
        /\ InSync(r, promised) => InSync(b, promised)
        /\ b.moves = r.moves
    BY <1>1, FlippedIs
  <1>3. PICK S : S = {k \in DOMAIN b.rows : ReadsState(b.rows[k])}
    OBVIOUS
  <1>4. IsFiniteSet(S)
    <2>1. IsFiniteSet(setup.keys) /\ S \subseteq setup.keys
      BY <1>1, <1>2, <1>3, GraphsAreTyped DEF World
    <2>. QED
      BY <2>1, FS_Subset
  <1>5. PICK m \in Nat : /\ DOMAIN rows = 1 .. m /\ IsInjective(rows)
                         /\ \A i \in 1 .. m : rows[i] \in S
                         /\ \A x \in S : \E i \in 1 .. m : rows[i] = x
    <2>1. rows = SetToSeq(S)
      BY <1>3 DEF Readers
    <2>. QED
      BY <1>4, <2>1, SetToSeqIs
  <1>6. PICK values : values = [i \in 1 .. m |-> b.rows[rows[i]].values]
    OBVIOUS
  <1>7. StateUpdates(b, rows) = [i \in 1 .. m |-> Update(rows[i], values[i], {"s"})]
    BY <1>5, <1>6 DEF StateUpdates
  <1>8. ASSUME NEW i \in 1 .. m
        PROVE  rows[i] \in DOMAIN b.rows /\ values[i] \in AnyRow /\ values[i].id = rows[i]
    <2>1. rows[i] \in DOMAIN b.rows
      BY <1>3, <1>5
    <2>2. RowOK(rows[i], b.rows[rows[i]])
      BY <1>2, <2>1 DEF World
    <2>. QED
      BY <1>6, <2>1, <2>2 DEF RowOK, RowIsTyped
  <1>9. \A i, j \in 1 .. m : rows[i] = rows[j] => i = j
    BY <1>5 DEF IsInjective
  <1>10. PICK what : what = {"s"}
    OBVIOUS
  <1>11. n = Perform(b, [i \in 1 .. m |-> Update(rows[i], values[i], what)])
    BY <1>7, <1>10
  <1>12. AfterUpdates(b, n, 1 .. m, rows, values, what)
    BY <1>1, <1>2, <1>8, <1>9, <1>11, UpdatesAre
  <1>13. /\ World(n) /\ Around(b, n) /\ n.children = b.children
         /\ DOMAIN n.rows = DOMAIN b.rows
         /\ \A k \in DOMAIN b.rows : n.rows[k].generation = b.rows[k].generation
         /\ \A k \in DOMAIN b.rows : k \notin {rows[j] : j \in 1 .. m} => n.rows[k] = b.rows[k]
         /\ \A j \in 1 .. m :
              /\ rows[j] \in DOMAIN b.rows
              /\ n.rows[rows[j]].values = values[j]
              /\ Writes(b, n, rows[j], Selects(b, values[j], IndexOf(b, rows[j])), 0, what)
         /\ Strict(b) /\ b.requests = {} => Strict(n)
    BY <1>12 DEF AfterUpdates
  <1>14. /\ n.order = b.order /\ n.flag = b.flag /\ n.collection = b.collection
         /\ n.error = b.error
    BY <1>13 DEF Around
  <1>15. n.moves = 0
    BY <1>1, <1>2, <1>12 DEF AfterUpdates
  <1>16. Kept(r, n)
    BY <1>2, <1>13 DEF Kept
  <1>17. Fed(n)
    BY <1>1, <1>2, <1>14 DEF Fed
  <1>18. ASSUME Steady, AllRight(r) PROVE AllRight(n)
    <2>1. \A i \in 1 .. m : rows[i] \in DOMAIN r.rows
      BY <1>2, <1>8
    <2>2. \A k \in DOMAIN r.rows : ReadsState(r.rows[k]) => \E i \in 1 .. m : rows[i] = k
      BY <1>2, <1>3, <1>5
    <2>3. \A k \in DOMAIN r.rows : (\A j \in 1 .. m : rows[j] # k) => n.rows[k] = r.rows[k]
      BY <1>2, <1>13
    <2>4. ASSUME NEW j \in 1 .. m
          PROVE  /\ n.rows[rows[j]].values = r.rows[rows[j]].values
                 /\ Writes(b, n, rows[j], Selects(b, r.rows[rows[j]].values, IndexOf(b, rows[j])),
                           0, what)
      BY <1>2, <1>6, <1>10, <1>13
    <2>5. DOMAIN n.rows = DOMAIN r.rows /\ n.flag = b.flag
      BY <1>2, <1>13, <1>14
    <2>6. StateWritten(r, b, n, m, rows, what)
      BY <2>1, <2>2, <2>3, <2>4, <2>5 DEF StateWritten
    <2>. QED
      <3>1. setup \in Setups /\ World(r) /\ m \in Nat /\ b = Flipped(r)
        BY <1>1
      <3>. QED
        BY <1>10, <1>18, <2>5, <2>6, <3>1, StateIsShown
  <1>19. ASSUME InSync(b, promised) PROVE InSync(n, promised)
    <2>1. \A k \in DOMAIN b.rows : n.rows[k].values = b.rows[k].values
      <3>1. ASSUME NEW k \in DOMAIN b.rows PROVE n.rows[k].values = b.rows[k].values
        <4>1. CASE k \notin {rows[j] : j \in 1 .. m}
          BY <1>13, <4>1
        <4>2. CASE k \in {rows[j] : j \in 1 .. m}
          <5>1. PICK j \in 1 .. m : rows[j] = k
            BY <4>2
          <5>. QED
            BY <1>6, <1>13, <5>1
        <4>. QED
          BY <4>1, <4>2
      <3>. QED
        BY <3>1
    <2>2. /\ promised \in Seq(AnyRow) /\ Distinct(promised) /\ Renders(b, promised)
      BY <1>19 DEF InSync
    <2>3. InStep(b) /\ DOMAIN b.rows = Ids(promised)
      BY <2>2, RendersMeans DEF Renders
    <2>4. InStep(n)
      BY <1>13, <1>14, <2>3, StillInStep
    <2>5. \A p \in 1 .. Len(promised) : promised[p].id \in DOMAIN b.rows
      BY <2>3 DEF Ids
    <2>6. \A p \in 1 .. Len(promised) : n.rows[promised[p].id].values = promised[p]
      BY <2>1, <2>2, <2>5, RendersMeans
    <2>7. n.order = KeysOf(promised)
      BY <1>14, <2>2, RendersMeans
    <2>. QED
      BY <2>2, <2>4, <2>6, <2>7, RendersMeans DEF InSync
  <1>. QED
    BY <1>1, <1>2, <1>13, <1>14, <1>16, <1>17, <1>18, <1>19, <1>15 DEF Settles

LEMMA SetStateStep ==
  ASSUME IInv, SetState
  PROVE  IInv' /\ KeptRowsKeepTheirNodes
  <1>1. PICK r : r = Start
    OBVIOUS
  <1>2. PICK b : b = Flipped(r)
    OBVIOUS
  <1>3. PICK rows : rows = Readers(b)
    OBVIOUS
  <1>4. PICK n : n = Perform(b, StateUpdates(b, rows))
    OBVIOUS
  <1>5. Finish(n, promised) /\ setup' = setup /\ projection' = projection
    <2>1. /\ Finish(Perform(Flipped(Start), StateUpdates(Flipped(Start), Readers(Flipped(Start)))),
                    promised)
          /\ setup' = setup /\ projection' = projection
      BY Zenon DEF SetState, Flipped, Readers, ReadsState, StateUpdates
    <2>. QED
      BY <1>1, <1>2, <1>3, <1>4, <2>1
  <1>6. SameRows(runtime, r)
    BY <1>1, StartsRight
  <1>7. Settles(r, n, promised) /\ n.error = "none"
    BY <1>1, <1>2, <1>3, <1>4, SetStateSettles
  <1>8. projection' \in Seq(AnyRow)
    BY <1>5 DEF IInv
  <1>9. Asked /\ ~ failed /\ setup.feed = "snapshot" => projection' = promised
    BY <1>5 DEF IInv
  <1>. QED
    BY <1>5, <1>6, <1>7, <1>8, <1>9, FinishSettles

(***************************************************************************)
(* What a delta asks of the promised list                                  *)
(***************************************************************************)
LEMMA InsertedOnce ==
  ASSUME NEW X, NEW s \in Seq(X), NEW t \in Seq(X), NEW u \in Seq(X), NEW p, NEW y,
         Inserted(t, s, p, y), Inserted(u, s, p, y)
  PROVE  t = u
  <1>1. PICK m \in Nat : m = Len(s)
    OBVIOUS
  <1>2. /\ p \in 1 .. m + 1 /\ Len(t) = m + 1 /\ Len(u) = m + 1 /\ t[p] = y /\ u[p] = y
        /\ \A i \in 1 .. p - 1 : t[i] = s[i] /\ u[i] = s[i]
        /\ \A i \in p .. m : t[i + 1] = s[i] /\ u[i + 1] = s[i]
    BY <1>1 DEF Inserted
  <1>3. ASSUME NEW i \in 1 .. m + 1 PROVE t[i] = u[i]
    <2>1. CASE i < p
      BY <1>2, <2>1
    <2>2. CASE i = p
      BY <1>2, <2>2
    <2>3. CASE i > p
      <3>1. i - 1 \in p .. m /\ (i - 1) + 1 = i
        BY <1>2, <2>3
      <3>. QED
        BY <1>2, <3>1
    <2>. QED
      BY <1>2, <2>1, <2>2, <2>3
  <1>. QED
    BY <1>2, <1>3

\* The keys of a part of a list.
PartOf(others, list, key) ==
  /\ others \in Seq(AnyRow) /\ Distinct(others)
  /\ KeysOf(others) = Without(KeysOf(list), key)
  /\ Ids(others) = Ids(list) \ {key}
  /\ \A p \in 1 .. Len(others) : \E q \in 1 .. Len(list) : others[p] = list[q]
LEMMA KeysOfSome ==
  ASSUME NEW list \in Seq(AnyRow), Distinct(list), NEW key,
         NEW S, \A i \in 1 .. Len(list) : list[i] \in S <=> list[i].id # key,
         NEW others, others = Only(list, S)
  PROVE  PartOf(others, list, key)
  <1>1. IsInjective(list)
    BY DEF Distinct, IsInjective
  <1>2. /\ others \in Seq(AnyRow) /\ ToSet(others) = ToSet(list) \cap S /\ IsInjective(others)
        /\ \A x, y \in S : Before(others, x, y) <=> Before(list, x, y)
    BY <1>1, OnlyTells
  <1>3. Len(others) \in Nat /\ Len(list) \in Nat /\ others \in Seq(AnyRow)
    BY <1>2
  <1>4. PICK m \in Nat : m = Len(others) /\ DOMAIN others = 1 .. m
    BY <1>3
  <1>5. PICK l \in Nat : l = Len(list) /\ DOMAIN list = 1 .. l
    BY <1>3
  <1>6. \A i \in 1 .. l : list[i] \in ToSet(list) /\ (list[i] \in S <=> list[i].id # key)
    BY <1>5 DEF ToSet
  <1>7. /\ others \in Seq(AnyRow) /\ IsInjective(others)
        /\ \A p \in 1 .. m : others[p] \in ToSet(list) /\ others[p] \in S
        /\ \A x : x \in ToSet(list) /\ x \in S => \E p \in 1 .. m : others[p] = x
        /\ \A x, y \in S : Before(others, x, y) <=> Before(list, x, y)
    <2>1. \A p \in 1 .. m : others[p] \in ToSet(others)
      BY <1>4 DEF ToSet
    <2>2. \A x \in ToSet(others) : \E p \in 1 .. m : others[p] = x
      BY <1>4 DEF ToSet
    <2>. QED
      BY <1>2, <2>1, <2>2
  <1>8. ASSUME NEW p \in 1 .. m
        PROVE others[p] \in S /\ others[p].id # key /\ \E q \in 1 .. l : others[p] = list[q]
    <2>1. others[p] \in S /\ others[p] \in ToSet(list)
      BY <1>7
    <2>2. PICK q \in 1 .. l : others[p] = list[q]
      BY <1>5, <2>1 DEF ToSet
    <2>. QED
      BY <1>6, <2>1, <2>2
  <1>9. \A p, q \in 1 .. l : list[p].id = list[q].id => p = q
    BY <1>5 DEF Distinct
  <1>10. ASSUME NEW p \in 1 .. m, NEW q \in 1 .. m, others[p].id = others[q].id PROVE p = q
    <2>1. others[p] = others[q]
      BY <1>8, <1>9, <1>10
    <2>. QED
      BY <1>7, <1>4, <2>1 DEF IsInjective
  <1>11. Distinct(others)
    BY <1>4, <1>10 DEF Distinct
  <1>12. PICK s : s = KeysOf(others)
    OBVIOUS
  <1>13. PICK k : k = KeysOf(list)
    OBVIOUS
  <1>14. /\ s \in Seq(setup.keys) /\ Len(s) = m /\ \A i \in 1 .. m : s[i] = others[i].id
         /\ IsInjective(s) /\ ToSet(s) = Ids(others)
    BY <1>7, <1>4, <1>11, <1>12, KeysAre, KeysTell
  <1>15. /\ k \in Seq(setup.keys) /\ Len(k) = l /\ \A i \in 1 .. l : k[i] = list[i].id
         /\ IsInjective(k) /\ ToSet(k) = Ids(list)
    BY <1>5, <1>13, KeysAre, KeysTell
  <1>16. PICK t : t = Without(k, key)
    OBVIOUS
  <1>17. /\ t \in Seq(setup.keys) /\ IsInjective(t) /\ ToSet(t) = ToSet(k) \ {key}
         /\ \A u, v \in ToSet(k) \ {key} : Before(t, u, v) <=> Before(k, u, v)
    BY <1>15, <1>16, WithoutIs
  <1>18. Ids(others) = Ids(list) \ {key}
    <2>1. ASSUME NEW id \in Ids(others) PROVE id \in Ids(list) \ {key}
      <3>1. PICK p \in 1 .. m : others[p].id = id
        BY <1>4 DEF Ids
      <3>. QED
        BY <1>5, <1>8, <3>1 DEF Ids
    <2>2. ASSUME NEW id \in Ids(list) \ {key} PROVE id \in Ids(others)
      <3>1. PICK q \in 1 .. l : list[q].id = id
        BY <1>5, <2>2 DEF Ids
      <3>2. list[q] \in S /\ list[q] \in ToSet(list)
        BY <1>6, <1>5, <2>2, <3>1
      <3>3. PICK p \in 1 .. m : others[p] = list[q]
        BY <1>7, <1>4, <3>2
      <3>. QED
        BY <1>4, <3>1, <3>3 DEF Ids
    <2>. QED
      BY <2>1, <2>2
  <1>19. ASSUME NEW x \in ToSet(s), NEW y \in ToSet(s), Before(s, x, y) PROVE Before(t, x, y)
    <2>1. PICK i \in 1 .. m, j \in 1 .. m : i < j /\ others[i].id = x /\ others[j].id = y
      BY <1>14, <1>19 DEF Before
    <2>2. Before(others, others[i], others[j])
      BY <1>4, <2>1 DEF Before
    <2>3. Before(list, others[i], others[j])
      BY <1>7, <1>8, <2>2
    <2>4. PICK p \in 1 .. l, q \in 1 .. l : p < q /\ list[p] = others[i] /\ list[q] = others[j]
      BY <1>5, <2>3 DEF Before
    <2>5. Before(k, x, y)
      <3>1. p \in DOMAIN k /\ q \in DOMAIN k /\ k[p] = x /\ k[q] = y
        BY <1>15, <2>1, <2>4
      <3>. QED
        BY <2>4, <3>1 DEF Before
    <2>6. x \in ToSet(k) \ {key} /\ y \in ToSet(k) \ {key}
      BY <1>14, <1>15, <1>18
    <2>. QED
      BY <1>17, <2>5, <2>6
  <1>20. s = t
    <2>1. ToSet(s) = ToSet(t)
      BY <1>14, <1>15, <1>17, <1>18
    <2>. QED
      BY <1>14, <1>17, <1>19, <2>1, SameOrder
  <1>. QED
    BY <1>7, <1>4, <1>5, <1>8, <1>11, <1>12, <1>13, <1>16, <1>18, <1>20 DEF PartOf

LEMMA KeysOfOnly ==
  ASSUME NEW list \in Seq(AnyRow), Distinct(list), NEW key,
         NEW others, others = Only(list, {x \in ToSet(list) : x.id # key})
  PROVE  PartOf(others, list, key)
  <1>1. PICK S : S = {x \in ToSet(list) : x.id # key}
    OBVIOUS
  <1>2. ASSUME NEW i \in 1 .. Len(list) PROVE list[i] \in S <=> list[i].id # key
    <2>1. list[i] \in ToSet(list)
      BY DEF ToSet
    <2>. QED
      BY <1>1, <2>1
  <1>3. others = Only(list, S)
    BY <1>1
  <1>. QED
    BY <1>2, <1>3, KeysOfSome

LEMMA OnlyAll ==
  ASSUME NEW X, NEW s \in Seq(X), IsInjective(s), NEW set, ToSet(s) \subseteq set
  PROVE  Only(s, set) = s
  <1>1. PICK t : t = Only(s, set)
    OBVIOUS
  <1>2. /\ t \in Seq(X) /\ ToSet(t) = ToSet(s) \cap set /\ IsInjective(t)
        /\ \A x, y \in set : Before(t, x, y) <=> Before(s, x, y)
    BY <1>1, OnlyTells
  <1>3. ToSet(t) = ToSet(s)
    BY <1>2
  <1>4. \A x, y \in ToSet(t) : Before(t, x, y) => Before(s, x, y)
    BY <1>2, <1>3
  <1>5. t = s
    BY <1>2, <1>3, <1>4, SameOrder
  <1>. QED
    BY <1>1, <1>5

\* A row is put in front of another one of a list.
PutRow(others, row, before) ==
  IF At(KeysOf(others), before) = 0 THEN Append(others, row)
  ELSE InsertAt(others, At(KeysOf(others), before), row)
LEMMA PutRowIs ==
  ASSUME NEW others \in Seq(AnyRow), Distinct(others), NEW row \in AnyRow, row.id \notin Ids(others),
         NEW before, NEW list, list = PutRow(others, row, before)
  PROVE  /\ list \in Seq(AnyRow) /\ Distinct(list)
         /\ KeysOf(list) = PutBefore(KeysOf(others), row.id, before)
         /\ \A p \in 1 .. Len(list) :
              list[p] = row \/ \E q \in 1 .. Len(others) : list[p] = others[q]
  <1>1. PICK m \in Nat : m = Len(others)
    OBVIOUS
  <1>2. PICK k : k = KeysOf(others)
    OBVIOUS
  <1>3. /\ k \in Seq(setup.keys) /\ Len(k) = m /\ \A i \in 1 .. m : k[i] = others[i].id
        /\ ToSet(k) = Ids(others) /\ IsInjective(k)
    BY <1>1, <1>2, KeysAre, KeysTell
  <1>4. row.id \in setup.keys
    BY DEF AnyRow
  <1>5. PICK at : at = At(k, before)
    OBVIOUS
  <1>6. /\ before \in ToSet(k) => at \in 1 .. m /\ Contains(k, before)
        /\ before \notin ToSet(k) => at = 0 /\ ~ Contains(k, before)
    BY <1>3, <1>5, AtIs
  <1>7. \E p \in 1 .. m + 1 :
           /\ list \in Seq(AnyRow) /\ Inserted(list, others, p, row)
           /\ PutBefore(k, row.id, before) \in Seq(setup.keys)
           /\ Inserted(PutBefore(k, row.id, before), k, p, row.id)
    <2>1. CASE before \in ToSet(k)
      <3>1. at # 0 /\ at \in 1 .. m
        BY <1>6, <2>1
      <3>2. list = InsertAt(others, at, row)
        BY <1>2, <1>5, <3>1 DEF PutRow
      <3>3. PutBefore(k, row.id, before) = InsertAt(k, at, row.id)
        BY <1>5, <1>6, <2>1 DEF PutBefore
      <3>4. InsertAt(others, at, row) \in Seq(AnyRow) /\ Inserted(InsertAt(others, at, row), others, at, row)
        BY <1>1, <3>1, InsertAtIs
      <3>5. InsertAt(k, at, row.id) \in Seq(setup.keys) /\ Inserted(InsertAt(k, at, row.id), k, at, row.id)
        BY <1>3, <1>4, <3>1, InsertAtIs
      <3>. QED
        BY <3>1, <3>2, <3>3, <3>4, <3>5
    <2>2. CASE before \notin ToSet(k)
      <3>1. list = Append(others, row)
        BY <1>2, <1>5, <1>6, <2>2 DEF PutRow
      <3>2. PutBefore(k, row.id, before) = Append(k, row.id)
        BY <1>6, <2>2 DEF PutBefore
      <3>3. Append(others, row) \in Seq(AnyRow) /\ Inserted(Append(others, row), others, m + 1, row)
        BY <1>1, AppendIs
      <3>4. Append(k, row.id) \in Seq(setup.keys) /\ Inserted(Append(k, row.id), k, m + 1, row.id)
        BY <1>3, <1>4, AppendIs
      <3>. QED
        BY <3>1, <3>2, <3>3, <3>4
    <2>. QED
      BY <2>1, <2>2
  <1>8. PICK p \in 1 .. m + 1 :
           /\ list \in Seq(AnyRow) /\ Inserted(list, others, p, row)
           /\ PutBefore(k, row.id, before) \in Seq(setup.keys)
           /\ Inserted(PutBefore(k, row.id, before), k, p, row.id)
    BY <1>7
  <1>9. /\ Len(list) = m + 1 /\ list[p] = row
        /\ \A i \in 1 .. p - 1 : list[i] = others[i]
        /\ \A i \in p .. m : list[i + 1] = others[i]
    BY <1>1, <1>8 DEF Inserted
  <1>10. PICK l : l = KeysOf(list)
    OBVIOUS
  <1>11. /\ l \in Seq(setup.keys) /\ Len(l) = m + 1 /\ \A i \in 1 .. m + 1 : l[i] = list[i].id
         /\ Distinct(list) <=> IsInjective(l)
    BY <1>8, <1>9, <1>10, KeysAre, KeysTell
  <1>12. Inserted(l, k, p, row.id)
    <2>1. l[p] = row.id
      BY <1>9, <1>11
    <2>2. ASSUME NEW i \in 1 .. p - 1 PROVE l[i] = k[i]
      <3>1. i \in 1 .. m /\ i \in 1 .. m + 1
        OBVIOUS
      <3>. QED
        BY <1>3, <1>9, <1>11, <3>1
    <2>3. ASSUME NEW i \in p .. m PROVE l[i + 1] = k[i]
      <3>1. i \in 1 .. m /\ i + 1 \in 1 .. m + 1
        OBVIOUS
      <3>. QED
        BY <1>3, <1>9, <1>11, <3>1, SMTT(30)
    <2>. QED
      BY <1>3, <1>11, <2>1, <2>2, <2>3 DEF Inserted
  <1>13. l = PutBefore(k, row.id, before)
    BY <1>3, <1>8, <1>11, <1>12, InsertedOnce
  <1>14. IsInjective(l)
    BY <1>3, <1>4, <1>11, <1>12, InsertedTells
  <1>15. ASSUME NEW i \in 1 .. m + 1 PROVE list[i] = row \/ \E q \in 1 .. m : list[i] = others[q]
    <2>1. CASE i < p
      BY <1>9, <2>1
    <2>2. CASE i = p
      BY <1>9, <2>2
    <2>3. CASE i > p
      <3>1. i - 1 \in p .. m /\ (i - 1) + 1 = i /\ i - 1 \in 1 .. m
        BY <2>3
      <3>. QED
        BY <1>9, <3>1
    <2>. QED
      BY <2>1, <2>2, <2>3
  <1>. QED
    BY <1>1, <1>2, <1>8, <1>9, <1>10, <1>11, <1>13, <1>14, <1>15

(***************************************************************************)
(* A delta                                                                 *)
(***************************************************************************)
Others(key) == Only(promised, {x \in ToSet(promised) : x.id # key})
LEMMA PatchIs ==
  ASSUME NEW d, NEW others, others = Others(d.key), NEW at, at = At(KeysOf(promised), d.key)
  PROVE  /\ d.kind = "update" => Patch(d) = [promised EXCEPT ![at] = Patched(@, d.changes)]
         /\ d.kind = "insert" => Patch(d) = PutRow(others, d.changes, d.before)
         /\ d.kind = "remove" => Patch(d) = others
         /\ d.kind = "move" => Patch(d) = IF d.before = d.key THEN promised
                                          ELSE PutRow(others, promised[at], d.before)
  <1>1. d.kind = "update" => Patch(d) = [promised EXCEPT ![at] = Patched(@, d.changes)]
    BY DEF Patch
  <1>2. d.kind = "insert" => Patch(d) = PutRow(Others(d.key), d.changes, d.before)
    BY DEF Patch, PutRow, Others
  <1>3. d.kind = "remove" => Patch(d) = Others(d.key)
    BY DEF Patch, Others
  <1>4. d.kind = "move" =>
          Patch(d) = IF d.before = d.key THEN promised
                     ELSE PutRow(Others(d.key), promised[At(KeysOf(promised), d.key)], d.before)
    BY DEF Patch, PutRow, Others
  <1>. QED
    BY <1>1, <1>2, <1>3, <1>4

\* The deltas the feed can send.
LEMMA DeltasAre ==
  ASSUME setup \in Setups, NEW d \in Deltas
  PROVE  \/ /\ d.kind = "insert" /\ d.key \in setup.keys
            /\ d.changes \in AnyRow /\ d.changes.id = d.key
         \/ d.kind = "update" /\ TypedChanges(d.changes)
         \/ d.kind = "remove"
         \/ d.kind = "move"
  <1>1. CASE d \in {Delta("insert", key, before, RowOf(key, value))
                      : key \in setup.keys, before \in Anchors, value \in setup.values}
    <2>1. PICK key \in setup.keys, before \in Anchors, value \in setup.values :
            d = Delta("insert", key, before, RowOf(key, value))
      BY <1>1
    <2>2. d.kind = "insert" /\ d.key = key /\ d.changes = RowOf(key, value)
      BY <2>1 DEF Delta
    <2>3. RowOf(key, value) \in Rows
      BY DEF Rows
    <2>4. RowOf(key, value) \in AnyRow /\ RowOf(key, value).id = key
      BY <2>3, RowsAre DEF RowOf
    <2>. QED
      BY <2>2, <2>4
  <1>2. CASE d \in {Delta("update", key, Nowhere, Restrict(RowOf(other, value), fields))
                      : key \in setup.keys, other \in setup.keys, value \in setup.values,
                        fields \in {{"v"}, {"v", "on"}, {"on"}, {"id", "v", "on"}}}
    <2>1. PICK key \in setup.keys, other \in setup.keys, value \in setup.values,
               fields \in {{"v"}, {"v", "on"}, {"on"}, {"id", "v", "on"}} :
            d = Delta("update", key, Nowhere, Restrict(RowOf(other, value), fields))
      BY <1>2
    <2>2. d.kind = "update" /\ d.changes = [x \in fields |-> RowOf(other, value)[x]]
      BY <2>1 DEF Delta, Restrict
    <2>3. RowOf(other, value) \in Rows
      BY DEF Rows
    <2>4. PICK row \in AnyRow : row = RowOf(other, value)
      BY <2>3, RowsAre
    <2>5. row.v \in {x.v : x \in setup.values} /\ row.on \in BOOLEAN
      BY <2>4 DEF AnyRow
    <2>6. TypedChanges(d.changes)
      BY <2>2, <2>4, <2>5 DEF TypedChanges
    <2>. QED
      BY <2>2, <2>6
  <1>3. CASE d \in {Delta("remove", key, Nowhere, << >>) : key \in setup.keys}
    BY <1>3 DEF Delta
  <1>4. CASE d \in {Delta("move", key, before, << >>) : key \in setup.keys, before \in Anchors}
    BY <1>4 DEF Delta
  <1>. QED
    BY <1>1, <1>2, <1>3, <1>4 DEF Deltas

LEMMA InSyncIs ==
  ASSUME NEW n, NEW list \in Seq(AnyRow), Distinct(list), InStep(n), n.order = KeysOf(list),
         \A p \in 1 .. Len(list) : n.rows[list[p].id].values = list[p]
  PROVE  InSync(n, list)
  BY RendersMeans DEF InSync

LEMMA InSyncMeans ==
  ASSUME NEW r, NEW list, InSync(r, list)
  PROVE  /\ list \in Seq(AnyRow) /\ Distinct(list) /\ InStep(r) /\ r.order = KeysOf(list)
         /\ \A p \in 1 .. Len(list) : r.rows[list[p].id].values = list[p]
         /\ DOMAIN r.rows = Ids(list) /\ ToSet(r.order) = Ids(list)
         /\ \A p \in 1 .. Len(list) : list[p].id \in Ids(list)
  <1>1. /\ list \in Seq(AnyRow) /\ Distinct(list) /\ InStep(r) /\ r.order = KeysOf(list)
        /\ \A p \in 1 .. Len(list) : r.rows[list[p].id].values = list[p]
    BY RendersMeans DEF InSync
  <1>2. ToSet(r.order) = Ids(list)
    BY <1>1, KeysTell
  <1>3. DOMAIN r.rows = Ids(list)
    BY <1>1, <1>2 DEF InStep
  <1>. QED
    BY <1>1, <1>2, <1>3 DEF Ids

\* The place of a row in the list.
LEMMA FoundAt ==
  ASSUME NEW list \in Seq(AnyRow), NEW key \in Ids(list), NEW at, at = At(KeysOf(list), key)
  PROVE  at \in 1 .. Len(list) /\ list[at].id = key
  <1>1. PICK k : k = KeysOf(list)
    OBVIOUS
  <1>2. /\ k \in Seq(setup.keys) /\ Len(k) = Len(list) /\ ToSet(k) = Ids(list)
        /\ \A i \in 1 .. Len(list) : k[i] = list[i].id
    BY <1>1, KeysAre, KeysTell
  <1>3. at \in 1 .. Len(k) /\ k[at] = key
    BY <1>1, <1>2, AtIs
  <1>. QED
    BY <1>2, <1>3

LEMMA UpdatedInSync ==
  ASSUME NEW r, NEW list, InSync(r, list), NEW key \in Ids(list), NEW at, at = At(KeysOf(list), key),
         NEW values \in AnyRow, values.id = key, NEW n, Updated(r, n, key, values)
  PROVE  InSync(n, [list EXCEPT ![at] = values])
  <1>1. /\ list \in Seq(AnyRow) /\ Distinct(list) /\ InStep(r) /\ r.order = KeysOf(list)
        /\ \A p \in 1 .. Len(list) : r.rows[list[p].id].values = list[p]
        /\ DOMAIN r.rows = Ids(list)
        /\ \A p \in 1 .. Len(list) : list[p].id \in Ids(list)
    BY InSyncMeans
  <1>2. at \in 1 .. Len(list) /\ list[at].id = key
    BY <1>1, FoundAt
  <1>3. PICK m \in Nat : m = Len(list)
    BY <1>1
  <1>4. PICK s : s = [list EXCEPT ![at] = values]
    OBVIOUS
  <1>5. /\ s \in Seq(AnyRow) /\ Len(s) = m /\ \A i \in 1 .. m : s[i].id = list[i].id
        /\ s[at] = values /\ \A i \in 1 .. m : i # at => s[i] = list[i]
    BY <1>1, <1>2, <1>3, <1>4
  <1>6. \A p, q \in 1 .. m : list[p].id = list[q].id => p = q
    BY <1>1, <1>3 DEF Distinct
  <1>7. Distinct(s)
    BY <1>5, <1>6 DEF Distinct
  <1>8. KeysOf(s) = KeysOf(list)
    BY <1>1, <1>3, <1>5, KeysAre
  <1>9. /\ n.order = r.order /\ InStep(n) /\ n.rows[key].values = values
        /\ \A k \in DOMAIN r.rows : k # key => n.rows[k].values = r.rows[k].values
    BY <1>1 DEF Updated
  <1>10. ASSUME NEW p \in 1 .. m PROVE n.rows[s[p].id].values = s[p]
    <2>1. CASE p = at
      BY <1>2, <1>5, <1>9, <2>1
    <2>2. CASE p # at
      <3>1. list[p].id # key /\ list[p].id \in DOMAIN r.rows /\ s[p] = list[p]
        BY <1>1, <1>2, <1>3, <1>5, <1>6, <2>2
      <3>. QED
        BY <1>1, <1>3, <1>9, <3>1
    <2>. QED
      BY <2>1, <2>2
  <1>11. InSync(n, s)
    BY <1>1, <1>5, <1>7, <1>8, <1>9, <1>10, InSyncIs
  <1>. QED
    BY <1>4, <1>11

LEMMA GoneInSync ==
  ASSUME NEW r, NEW list, InSync(r, list), NEW key, NEW n, Gone(r, n, key),
         NEW others, PartOf(others, list, key)
  PROVE  InSync(n, others)
  <1>1. /\ list \in Seq(AnyRow) /\ Distinct(list) /\ r.order = KeysOf(list)
        /\ \A p \in 1 .. Len(list) : r.rows[list[p].id].values = list[p]
        /\ DOMAIN r.rows = Ids(list)
    BY InSyncMeans
  <1>2. /\ others \in Seq(AnyRow) /\ Distinct(others)
        /\ KeysOf(others) = Without(KeysOf(list), key)
        /\ Ids(others) = Ids(list) \ {key}
        /\ \A p \in 1 .. Len(others) : \E q \in 1 .. Len(list) : others[p] = list[q]
    BY DEF PartOf
  <1>3. /\ n.order = Without(r.order, key) /\ InStep(n)
        /\ DOMAIN n.rows = DOMAIN r.rows \ {key}
        /\ \A k \in DOMAIN n.rows : n.rows[k].values = r.rows[k].values
    BY DEF Gone
  <1>4. ASSUME NEW p \in 1 .. Len(others) PROVE n.rows[others[p].id].values = others[p]
    <2>1. PICK q \in 1 .. Len(list) : others[p] = list[q]
      BY <1>2
    <2>2. others[p].id \in Ids(others)
      BY DEF Ids
    <2>3. others[p].id \in DOMAIN n.rows
      BY <1>1, <1>2, <1>3, <2>2
    <2>. QED
      BY <1>1, <1>3, <2>1, <2>3
  <1>. QED
    BY <1>1, <1>2, <1>3, <1>4, InSyncIs

\* A row comes, or one that was there comes to another place.
LEMMA PutInSync ==
  ASSUME NEW r, NEW n, NEW others \in Seq(AnyRow), Distinct(others), NEW row \in AnyRow,
         row.id \notin Ids(others), NEW before, InStep(n),
         n.order = PutBefore(KeysOf(others), row.id, before),
         n.rows[row.id].values = row,
         \A p \in 1 .. Len(others) : n.rows[others[p].id].values = others[p]
  PROVE  InSync(n, PutRow(others, row, before))
  <1>1. PICK list : list = PutRow(others, row, before)
    OBVIOUS
  <1>2. /\ list \in Seq(AnyRow) /\ Distinct(list)
        /\ KeysOf(list) = PutBefore(KeysOf(others), row.id, before)
        /\ \A p \in 1 .. Len(list) :
             list[p] = row \/ \E q \in 1 .. Len(others) : list[p] = others[q]
    BY <1>1, PutRowIs
  <1>3. \A p \in 1 .. Len(list) : n.rows[list[p].id].values = list[p]
    BY <1>2
  <1>4. InSync(n, list)
    BY <1>2, <1>3, InSyncIs
  <1>. QED
    BY <1>1, <1>4

\* A delta that refuses, or one that brings the promised list about.
Follow(r, n, asked) ==
  \/ n.error = "MOUNTED_REGION_LIMIT_EXCEEDED"
  \/ Refuses(r, n)
  \/ n.error = "none" /\ InSync(n, asked) /\ Strict(n)

LEMMA RefusesIs ==
  ASSUME NEW r, World(r), NEW n, Refuses(r, n), NEW list
  PROVE  /\ n.error # "none"
         /\ InSync(r, list) => InSync(n, list)
         /\ r.requests = {} /\ Strict(r) => n.requests = {} /\ Strict(n)
  <1>1. PICK what : n = Fails(r, what)
    BY DEF Refuses
  <1>2. Shaped(r)
    BY DEF World
  <1>3. /\ Shaped(n) /\ n.order = r.order /\ n.rows = r.rows
        /\ n.children = r.children /\ n.flag = r.flag
        /\ n.listeners = r.listeners /\ n.requests = r.requests /\ n.taken = r.taken
    BY <1>1, <1>2, FailsIs
  <1>4. (Strict(r) => Strict(n)) /\ (InSync(r, list) => InSync(n, list))
    BY <1>3, SameSettles
  <1>. QED
    BY <1>3, <1>4 DEF Refuses

LEMMA FollowSettles ==
  ASSUME IInv, setup.feed = "delta", NEW r, r = Start, NEW n, Goes(r, n), NEW asked,
         ~ failed => Follow(r, n, asked)
  PROVE  Settles(r, n, asked)
  <1>1. /\ World(r) /\ Asked /\ Heard
        /\ ~ failed => InSync(r, promised) /\ r.requests = {} /\ Strict(r)
    BY StartsRight DEF Asked, Heard
  <1>2. World(n) /\ Kept(r, n)
    BY DEF Goes
  <1>3. Fed(n)
    BY DEF Fed
  <1>4. Steady /\ AllRight(r) => AllRight(n)
    BY DEF Goes, Steady, SteadyRows
  <1>5. ~ failed => \/ n.error = "MOUNTED_REGION_LIMIT_EXCEEDED"
                    \/ n.error = "none" /\ InSync(n, asked) /\ Strict(n)
                    \/ /\ n.error # "none" /\ InSync(n, promised)
                       /\ n.requests = {} /\ Strict(n)
    BY <1>1, RefusesIs DEF Follow
  <1>. QED
    BY <1>2, <1>3, <1>4, <1>5 DEF Settles

\* Each kind of delta on rows that are the promised list.
LEMMA UpdateFollows ==
  ASSUME setup \in Setups, NEW r, World(r), r.error = "none", InSync(r, promised),
         r.requests = {}, Strict(r), NEW d, d.kind = "update", TypedChanges(d.changes),
         NEW n, n = DeltaUpdate(r, d), NEW asked, n.error = "none" => asked = Patch(d)
  PROVE  Follow(r, n, asked)
  <1>1. PICK values : d.key \in DOMAIN r.rows => values = Patched(r.rows[d.key].values, d.changes)
    OBVIOUS
  <1>2. \/ Refuses(r, n)
        \/ /\ d.key \in DOMAIN r.rows /\ values \in AnyRow /\ values.id = d.key
           /\ Updated(r, n, d.key, values)
    BY <1>1, DeltaUpdateIs
  <1>3. CASE Refuses(r, n)
    BY <1>3 DEF Follow
  <1>4. ASSUME d.key \in DOMAIN r.rows, values \in AnyRow, values.id = d.key,
               Updated(r, n, d.key, values)
        PROVE  Follow(r, n, asked)
    <2>1. /\ promised \in Seq(AnyRow) /\ Distinct(promised) /\ DOMAIN r.rows = Ids(promised)
          /\ \A p \in 1 .. Len(promised) : r.rows[promised[p].id].values = promised[p]
      BY InSyncMeans
    <2>2. PICK at : at = At(KeysOf(promised), d.key)
      OBVIOUS
    <2>3. at \in 1 .. Len(promised) /\ promised[at].id = d.key
      BY <1>4, <2>1, <2>2, FoundAt
    <2>4. values = Patched(promised[at], d.changes)
      BY <1>1, <1>4, <2>1, <2>3
    <2>5. DOMAIN promised = 1 .. Len(promised)
      BY <2>1
    <2>6. Patch(d) = [promised EXCEPT ![at] = Patched(@, d.changes)]
      BY <2>2, PatchIs
    <2>7. Patch(d) = [promised EXCEPT ![at] = values]
      BY <2>3, <2>4, <2>5, <2>6
    <2>8. InSync(n, [promised EXCEPT ![at] = values])
      BY <1>4, <2>1, <2>2, UpdatedInSync
    <2>9. n.error = "none" /\ (Strict(r) /\ Quiet(r, d.key) => Strict(n))
      BY <1>4 DEF Updated
    <2>10. Quiet(r, d.key)
      BY DEF Quiet
    <2>. QED
      BY <2>7, <2>8, <2>9, <2>10 DEF Follow
  <1>. QED
    BY <1>2, <1>3, <1>4

LEMMA InsertFollows ==
  ASSUME setup \in Setups, NEW r, World(r), r.error = "none", InSync(r, promised),
         r.requests = {}, Strict(r), NEW d, d.kind = "insert", d.key \in setup.keys,
         d.changes \in AnyRow, d.changes.id = d.key,
         NEW n, n = DeltaInsert(r, d), NEW asked, n.error = "none" => asked = Patch(d)
  PROVE  Follow(r, n, asked)
  <1>1. /\ promised \in Seq(AnyRow) /\ Distinct(promised) /\ DOMAIN r.rows = Ids(promised)
        /\ InStep(r) /\ r.order = KeysOf(promised)
        /\ \A p \in 1 .. Len(promised) : r.rows[promised[p].id].values = promised[p]
    BY InSyncMeans
  <1>2. \/ n.error = "MOUNTED_REGION_LIMIT_EXCEEDED" \/ Refuses(r, n)
        \/ d.key \notin DOMAIN r.rows /\ Come(r, n, d.key, d.before, d.changes)
    BY <1>1, DeltaInsertIs
  <1>3. ASSUME d.key \notin DOMAIN r.rows, Come(r, n, d.key, d.before, d.changes)
        PROVE  Follow(r, n, asked)
    <2>1. PICK others : others = Others(d.key)
      OBVIOUS
    <2>2. PartOf(others, promised, d.key)
      BY <1>1, <2>1, KeysOfOnly DEF Others
    <2>3. /\ others \in Seq(AnyRow) /\ Distinct(others)
          /\ KeysOf(others) = Without(KeysOf(promised), d.key)
          /\ Ids(others) = Ids(promised) \ {d.key}
          /\ \A p \in 1 .. Len(others) : \E q \in 1 .. Len(promised) : others[p] = promised[q]
      BY <2>2 DEF PartOf
    <2>4. KeysOf(others) = r.order
      <3>1. r.order \in Seq(setup.keys) /\ IsInjective(r.order) /\ ToSet(r.order) = DOMAIN r.rows
        BY <1>1 DEF InStep, World
      <3>2. PICK set : set = ToSet(r.order) \ {d.key}
        OBVIOUS
      <3>3. Only(r.order, set) = r.order
        BY <1>3, <3>1, <3>2, OnlyAll
      <3>. QED
        BY <1>1, <2>3, <3>2, <3>3 DEF Without
    <2>5. /\ n.error = "none" /\ n.order = PutBefore(r.order, d.key, d.before) /\ InStep(n)
          /\ n.rows[d.key].values = d.changes
          /\ \A k \in DOMAIN r.rows : n.rows[k].values = r.rows[k].values
          /\ Strict(n)
      BY <1>3 DEF Come
    <2>6. ASSUME NEW p \in 1 .. Len(others) PROVE n.rows[others[p].id].values = others[p]
      <3>1. PICK q \in 1 .. Len(promised) : others[p] = promised[q]
        BY <2>3
      <3>2. others[p].id \in DOMAIN r.rows
        BY <1>1, <3>1 DEF Ids
      <3>. QED
        BY <1>1, <2>5, <3>1, <3>2
    <2>7. PICK row : row = d.changes
      OBVIOUS
    <2>8. row \in AnyRow /\ row.id = d.key /\ row.id \notin Ids(others)
      BY <2>3, <2>7
    <2>9. InSync(n, PutRow(others, row, d.before))
      BY <2>3, <2>4, <2>5, <2>6, <2>7, <2>8, PutInSync
    <2>10. Patch(d) = PutRow(others, d.changes, d.before)
      BY <2>1, PatchIs
    <2>. QED
      BY <2>5, <2>7, <2>9, <2>10 DEF Follow
  <1>. QED
    BY <1>2, <1>3 DEF Follow

LEMMA RemoveFollows ==
  ASSUME setup \in Setups, NEW r, World(r), r.error = "none", InSync(r, promised),
         r.requests = {}, Strict(r), NEW d, d.kind = "remove",
         NEW n, n = DeltaRemove(r, d), NEW asked, n.error = "none" => asked = Patch(d)
  PROVE  Follow(r, n, asked)
  <1>1. promised \in Seq(AnyRow) /\ Distinct(promised) /\ InStep(r)
    BY InSyncMeans
  <1>2. Refuses(r, n) \/ Gone(r, n, d.key)
    BY <1>1, DeltaRemoveIs
  <1>3. ASSUME Gone(r, n, d.key) PROVE Follow(r, n, asked)
    <2>1. PICK others : others = Others(d.key)
      OBVIOUS
    <2>2. PartOf(others, promised, d.key)
      BY <1>1, <2>1, KeysOfOnly DEF Others
    <2>3. InSync(n, others)
      BY <1>3, <2>2, GoneInSync
    <2>4. n.error = "none" /\ Strict(n)
      BY <1>3 DEF Gone
    <2>5. Patch(d) = others
      BY <2>1, PatchIs
    <2>. QED
      BY <2>3, <2>4, <2>5 DEF Follow
  <1>. QED
    BY <1>2, <1>3 DEF Follow

LEMMA MoveFollows ==
  ASSUME setup \in Setups, NEW r, World(r), r.error = "none", InSync(r, promised),
         r.requests = {}, Strict(r), NEW d, d.kind = "move",
         NEW n, n = DeltaMove(r, d), NEW asked, n.error = "none" => asked = Patch(d)
  PROVE  Follow(r, n, asked)
  <1>1. /\ promised \in Seq(AnyRow) /\ Distinct(promised) /\ DOMAIN r.rows = Ids(promised)
        /\ InStep(r) /\ r.order = KeysOf(promised)
        /\ \A p \in 1 .. Len(promised) : r.rows[promised[p].id].values = promised[p]
        /\ \A p \in 1 .. Len(promised) : promised[p].id \in Ids(promised)
    BY InSyncMeans
  <1>2. Refuses(r, n) \/ (d.key \in DOMAIN r.rows /\ Moved(r, n, d.key, d.before))
    BY <1>1, DeltaMoveIs
  <1>3. ASSUME d.key \in DOMAIN r.rows, Moved(r, n, d.key, d.before) PROVE Follow(r, n, asked)
    <2>1. /\ n.error = "none" /\ InStep(n) /\ Strict(n)
          /\ n.order = IF d.before = d.key THEN r.order
                       ELSE PutBefore(Without(r.order, d.key), d.key, d.before)
          /\ \A k \in DOMAIN r.rows : n.rows[k].values = r.rows[k].values
      BY <1>3 DEF Moved
    <2>2. PICK at : at = At(KeysOf(promised), d.key)
      OBVIOUS
    <2>3. PICK others : others = Others(d.key)
      OBVIOUS
    <2>4. Patch(d) = IF d.before = d.key THEN promised ELSE PutRow(others, promised[at], d.before)
      BY <2>2, <2>3, PatchIs
    <2>5. \A p \in 1 .. Len(promised) : n.rows[promised[p].id].values = promised[p]
      BY <1>1, <2>1
    <2>6. CASE d.before = d.key
      <3>1. InSync(n, promised)
        BY <1>1, <2>1, <2>5, <2>6, InSyncIs
      <3>. QED
        BY <2>1, <2>4, <2>6, <3>1 DEF Follow
    <2>7. CASE d.before # d.key
      <3>1. at \in 1 .. Len(promised) /\ promised[at].id = d.key
        BY <1>1, <1>3, <2>2, FoundAt
      <3>2. PICK row : row = promised[at]
        OBVIOUS
      <3>3. row \in AnyRow /\ row.id = d.key /\ n.rows[row.id].values = row
        BY <1>1, <2>5, <3>1, <3>2
      <3>4. PartOf(others, promised, d.key)
        BY <1>1, <2>3, KeysOfOnly DEF Others
      <3>5. /\ others \in Seq(AnyRow) /\ Distinct(others)
            /\ KeysOf(others) = Without(KeysOf(promised), d.key)
            /\ Ids(others) = Ids(promised) \ {d.key}
            /\ \A p \in 1 .. Len(others) : \E q \in 1 .. Len(promised) : others[p] = promised[q]
        BY <3>4 DEF PartOf
      <3>6. \A p \in 1 .. Len(others) : n.rows[others[p].id].values = others[p]
        BY <2>5, <3>5
      <3>7. n.order = PutBefore(KeysOf(others), row.id, d.before)
        BY <1>1, <2>1, <2>7, <3>3, <3>5
      <3>8. InSync(n, PutRow(others, row, d.before))
        BY <2>1, <3>3, <3>5, <3>6, <3>7, PutInSync
      <3>. QED
        BY <2>1, <2>4, <2>7, <3>2, <3>8 DEF Follow
    <2>. QED
      BY <2>6, <2>7
  <1>. QED
    BY <1>2, <1>3 DEF Follow

LEMMA ApplyTypedDeltaStep ==
  ASSUME IInv, NEW d \in Deltas, ApplyTypedDelta(d)
  PROVE  IInv' /\ KeptRowsKeepTheirNodes
  <1>1. PICK r : r = Start
    OBVIOUS
  <1>2. PICK n : n = ApplyDelta(r, d)
    OBVIOUS
  <1>3. PICK asked : asked = IF n.error = "none" /\ ~ failed THEN Patch(d) ELSE promised
    OBVIOUS
  <1>4. /\ setup.feed = "delta" /\ Finish(n, asked)
        /\ setup' = setup /\ projection' = projection
    BY <1>1, <1>2, <1>3 DEF ApplyTypedDelta
  <1>5. /\ SameRows(runtime, r) /\ World(r) /\ r.error = "none" /\ setup \in Setups
        /\ ~ failed => InSync(r, promised) /\ r.requests = {} /\ Strict(r)
    BY <1>1, <1>4, StartsRight DEF Asked, Heard
  <1>6. projection' \in Seq(AnyRow)
    BY <1>4 DEF IInv
  <1>7. Goes(r, n) /\ (~ failed => Follow(r, n, asked))
    <2>1. \/ /\ d.kind = "insert" /\ d.key \in setup.keys
             /\ d.changes \in AnyRow /\ d.changes.id = d.key
          \/ d.kind = "update" /\ TypedChanges(d.changes)
          \/ d.kind = "remove"
          \/ d.kind = "move"
      BY <1>5, DeltasAre
    <2>2. ASSUME d.kind = "insert", d.key \in setup.keys,
                 d.changes \in AnyRow, d.changes.id = d.key
          PROVE  Goes(r, n) /\ (~ failed => Follow(r, n, asked))
      <3>1. n = DeltaInsert(r, d)
        BY <1>2, <2>2 DEF ApplyDelta
      <3>2. Goes(r, n)
        BY <1>5, <2>2, <3>1, DeltaInsertIs
      <3>. QED
        BY <1>3, <1>5, <2>2, <3>1, <3>2, InsertFollows
    <2>3. ASSUME d.kind = "update", TypedChanges(d.changes)
          PROVE  Goes(r, n) /\ (~ failed => Follow(r, n, asked))
      <3>1. n = DeltaUpdate(r, d)
        BY <1>2, <2>3 DEF ApplyDelta
      <3>2. Goes(r, n)
        BY <1>5, <2>3, <3>1, DeltaUpdateIs, FailsGoes DEF Refuses, Updated
      <3>. QED
        BY <1>3, <1>5, <2>3, <3>1, <3>2, UpdateFollows
    <2>4. ASSUME d.kind = "remove"
          PROVE  Goes(r, n) /\ (~ failed => Follow(r, n, asked))
      <3>1. n = DeltaRemove(r, d)
        BY <1>2, <2>4 DEF ApplyDelta
      <3>2. Goes(r, n)
        BY <1>5, <3>1, DeltaRemoveIs
      <3>. QED
        BY <1>3, <1>5, <2>4, <3>1, <3>2, RemoveFollows
    <2>5. ASSUME d.kind = "move"
          PROVE  Goes(r, n) /\ (~ failed => Follow(r, n, asked))
      <3>1. n = DeltaMove(r, d)
        BY <1>2, <2>5 DEF ApplyDelta
      <3>2. Goes(r, n)
        BY <1>5, <3>1, DeltaMoveIs
      <3>. QED
        BY <1>3, <1>5, <2>5, <3>1, <3>2, MoveFollows
    <2>. QED
      BY <2>1, <2>2, <2>3, <2>4, <2>5
  <1>8. Settles(r, n, asked)
    BY <1>1, <1>4, <1>7, FollowSettles
  <1>. QED
    BY <1>4, <1>5, <1>6, <1>8, FinishSettles

(***************************************************************************)
(* The deltas of a snapshot, part by part                                  *)
(***************************************************************************)

LEMMA SameTrace ==
  ASSUME NEW rt, NEW steps, NEW n \in Nat, NEW a, DeltaTrace(a, n, rt, steps),
         NEW b, DeltaTrace(b, n, rt, steps)
  PROVE  a[n] = b[n]
  <1>1. PICK S : S = {i \in Nat : a[i] = b[i]}
    OBVIOUS
  <1>2. 0 \in S
    BY <1>1 DEF DeltaTrace
  <1>3. ASSUME NEW i \in 0 .. n - 1, i \in S PROVE i + 1 \in S
    <2>1. i + 1 \in 1 .. n /\ i + 1 - 1 = i /\ i + 1 \in Nat
      OBVIOUS
    <2>2. a[i + 1] = ApplyUnlessFailed(a[i], steps[i + 1])
      BY <2>1 DEF DeltaTrace
    <2>3. b[i + 1] = ApplyUnlessFailed(b[i], steps[i + 1])
      BY <2>1 DEF DeltaTrace
    <2>4. a[i] = b[i]
      BY <1>1, <1>3
    <2>. QED
      BY <1>1, <2>1, <2>2, <2>3, <2>4
  <1>4. \A i \in 0 .. n : i \in S
    BY ONLY <1>2, <1>3, n \in Nat, Climb
  <1>. QED
    BY <1>1, <1>4

LEMMA ApplyJoined ==
  ASSUME NEW X, NEW rt, NEW s \in Seq(X), NEW t \in Seq(X)
  PROVE  ApplyDeltas(rt, s \o t) = ApplyDeltas(ApplyDeltas(rt, s), t)
  <1>1. PICK n \in Nat : n = Len(s)
    OBVIOUS
  <1>2. PICK m \in Nat : m = Len(t)
    OBVIOUS
  <1>3. DOMAIN s = 1 .. n /\ DOMAIN t = 1 .. m
    BY <1>1, <1>2
  <1>4. PICK u : u = s \o t
    OBVIOUS
  <1>5. /\ DOMAIN u = 1 .. n + m
        /\ \A i \in 1 .. n : u[i] = s[i]
        /\ \A i \in 1 .. m : u[n + i] = t[i]
    BY <1>1, <1>2, <1>4, ConcatProperties
  <1>6. n + m \in Nat
    OBVIOUS
  <1>7. PICK a : DeltaTrace(a, n + m, rt, u) /\ ApplyDeltas(rt, u) = a[n + m]
    <2>1. PICK k \in Nat : k = n + m
      BY <1>6
    <2>2. \E a : DeltaTrace(a, k, rt, u) /\ ApplyDeltas(rt, u) = a[k]
      BY <1>5, <2>1, ApplyDeltasRuns
    <2>. QED
      BY <2>1, <2>2
  <1>8. PICK a1 : DeltaTrace(a1, n, rt, s) /\ ApplyDeltas(rt, s) = a1[n]
    BY <1>3, ApplyDeltasRuns
  <1>9. PICK a2 : DeltaTrace(a2, m, a1[n], t) /\ ApplyDeltas(a1[n], t) = a2[m]
    BY <1>3, ApplyDeltasRuns
  <1>10. PICK c : c = [i \in 0 .. n + m |-> IF i <= n THEN a1[i] ELSE a2[i - n]]
    OBVIOUS
  <1>11. DeltaTrace(c, n + m, rt, u)
    <2>1. c[0] = rt
      BY <1>8, <1>10 DEF DeltaTrace
    <2>2. ASSUME NEW i \in 1 .. n + m PROVE c[i] = ApplyUnlessFailed(c[i - 1], u[i])
      <3>1. CASE i <= n
        <4>1. i \in 1 .. n /\ i - 1 <= n /\ i \in 0 .. n + m /\ i - 1 \in 0 .. n + m
          BY <3>1
        <4>2. a1[i] = ApplyUnlessFailed(a1[i - 1], s[i])
          BY <1>8, <4>1 DEF DeltaTrace
        <4>. QED
          BY <1>5, <1>10, <4>1, <4>2
      <3>2. CASE ~ (i <= n)
        <4>1. PICK k \in 1 .. m : k = i - n
          BY <3>2
        <4>2. /\ i = n + k /\ i \in 0 .. n + m /\ i - 1 \in 0 .. n + m
              /\ i - n = k /\ i - 1 - n = k - 1 /\ (i - 1 <= n => k = 1)
          BY <3>2, <4>1
        <4>3. a2[k] = ApplyUnlessFailed(a2[k - 1], t[k])
          BY <1>9, <4>1 DEF DeltaTrace
        <4>4. u[i] = t[k] /\ c[i] = a2[k]
          BY <1>5, <1>10, <3>2, <4>1, <4>2
        <4>5. c[i - 1] = a2[k - 1]
          <5>1. CASE i - 1 <= n
            <6>1. k = 1 /\ i - 1 = n /\ k - 1 = 0
              BY <3>2, <4>2, <5>1
            <6>2. a2[0] = a1[n]
              BY <1>9 DEF DeltaTrace
            <6>. QED
              BY <1>10, <4>2, <6>1, <6>2
          <5>2. CASE ~ (i - 1 <= n)
            BY <1>10, <4>2, <5>2
          <5>. QED
            BY <5>1, <5>2
        <4>. QED
          BY <4>3, <4>4, <4>5
      <3>. QED
        BY <3>1, <3>2
    <2>. QED
      BY <2>1, <2>2 DEF DeltaTrace
  <1>12. a[n + m] = c[n + m]
    BY <1>6, <1>7, <1>11, SameTrace
  <1>13. c[n + m] = a2[m]
    <2>1. CASE m = 0
      <3>1. n + m <= n /\ n + m = n /\ n + m \in 0 .. n + m
        BY <2>1
      <3>2. a2[0] = a1[n]
        BY <1>9 DEF DeltaTrace
      <3>. QED
        BY <1>10, <2>1, <3>1, <3>2
    <2>2. CASE m # 0
      <3>1. ~ (n + m <= n) /\ n + m - n = m /\ n + m \in 0 .. n + m
        BY <2>2
      <3>. QED
        BY <1>10, <3>1
    <2>. QED
      BY <2>1, <2>2
  <1>. QED
    BY <1>4, <1>7, <1>8, <1>9, <1>12, <1>13

LEMMA ApplyNone ==
  ASSUME NEW rt, NEW none, DOMAIN none = 1 .. 0
  PROVE  ApplyDeltas(rt, none) = rt
  BY ApplyDeltasRuns DEF DeltaTrace

LEMMA ApplyOne ==
  ASSUME NEW rt, NEW d
  PROVE  ApplyDeltas(rt, <<d>>) = ApplyUnlessFailed(rt, d)
  <1>1. PICK s : s = <<d>>
    OBVIOUS
  <1>2. DOMAIN s = 1 .. 1 /\ s[1] = d
    BY <1>1
  <1>3. PICK a : DeltaTrace(a, 1, rt, s) /\ ApplyDeltas(rt, s) = a[1]
    BY <1>2, ApplyDeltasRuns
  <1>4. a[1] = ApplyUnlessFailed(a[1 - 1], s[1]) /\ a[0] = rt
    BY <1>3 DEF DeltaTrace
  <1>5. 1 - 1 = 0
    OBVIOUS
  <1>. QED
    BY <1>1, <1>2, <1>3, <1>4, <1>5

\* The function that FlattenSeq defines, on the first n of its sequences.
Flattens(f, n, s) == f = [i \in 1 .. n |-> IF i = 1 THEN s[i] ELSE f[i - 1] \o s[i]]

LEMMA FlattensFurther ==
  ASSUME NEW s, NEW n \in Nat, NEW f, Flattens(f, n, s)
  PROVE  \E g : Flattens(g, n + 1, s)
  <1>1. \A i \in 1 .. n : f[i] = IF i = 1 THEN s[i] ELSE f[i - 1] \o s[i]
    BY DEF Flattens
  <1>2. PICK last : last = IF n = 0 THEN s[1] ELSE f[n] \o s[n + 1]
    OBVIOUS
  <1>3. PICK g : g = [i \in 1 .. n + 1 |-> IF i = n + 1 THEN last ELSE f[i]]
    OBVIOUS
  <1>4. ASSUME NEW i \in 1 .. n + 1 PROVE g[i] = IF i = 1 THEN s[i] ELSE g[i - 1] \o s[i]
    <2>1. CASE i = n + 1
      BY <1>2, <1>3, <2>1
    <2>2. CASE i # n + 1
      <3>1. i \in 1 .. n /\ g[i] = f[i]
        BY <1>3, <2>2
      <3>2. i # 1 => i - 1 \in 1 .. n + 1 /\ i - 1 # n + 1 /\ g[i - 1] = f[i - 1]
        BY <1>3, <3>1
      <3>. QED
        BY <1>1, <3>1, <3>2
    <2>. QED
      BY <2>1, <2>2
  <1>5. g = [i \in 1 .. n + 1 |-> IF i = 1 THEN s[i] ELSE g[i - 1] \o s[i]]
    BY ONLY <1>3, <1>4
  <1>. QED
    BY <1>5 DEF Flattens

LEMMA FlattensExists ==
  ASSUME NEW s, NEW n \in Nat
  PROVE  \E f : Flattens(f, n, s)
  <1>1. PICK S : S = {i \in Nat : \E f : Flattens(f, i, s)}
    OBVIOUS
  <1>2. 0 \in S
    <2>1. PICK f : f = [i \in 1 .. 0 |-> 0]
      OBVIOUS
    <2>2. Flattens(f, 0, s)
      BY <2>1 DEF Flattens
    <2>. QED
      BY <1>1, <2>2
  <1>3. \A i \in 0 .. n - 1 : i \in S => i + 1 \in S
    BY <1>1, FlattensFurther
  <1>4. n \in S
    BY <1>2, <1>3, Climb
  <1>. QED
    BY <1>1, <1>4

\* What the deltas make of a runtime, part by part.
Stages(b, rt, parts) ==
  b[0] = rt /\ \A i \in DOMAIN parts : b[i] = ApplyDeltas(b[i - 1], parts[i])

LEMMA StagesOf ==
  ASSUME NEW X, NEW rt, NEW n \in Nat, NEW parts \in Seq(Seq(X)), Len(parts) = n
  PROVE  /\ FlattenSeq(parts) \in Seq(X)
         /\ \E b : Stages(b, rt, parts) /\ ApplyDeltas(rt, FlattenSeq(parts)) = b[n]
  <1>1. DOMAIN parts = 1 .. n /\ \A i \in 1 .. n : parts[i] \in Seq(X)
    OBVIOUS
  <1>2. CASE n = 0
    <2>1. FlattenSeq(parts) = parts
      BY <1>2 DEF FlattenSeq
    <2>2. ApplyDeltas(rt, parts) = rt
      BY <1>1, <1>2, ApplyNone
    <2>3. PICK b : b = [i \in 0 .. 0 |-> rt]
      OBVIOUS
    <2>4. Stages(b, rt, parts) /\ b[n] = rt
      BY <1>1, <1>2, <2>3 DEF Stages
    <2>5. parts \in Seq(X)
      <3>1. parts = << >>
        BY <1>2
      <3>. QED
        BY <3>1
    <2>. QED
      BY <2>1, <2>2, <2>4, <2>5
  <1>3. CASE n # 0
    <2>1. PICK f : /\ \A i \in 1 .. n : f[i] = IF i = 1 THEN parts[i] ELSE f[i - 1] \o parts[i]
                   /\ FlattenSeq(parts) = f[n]
      <3>1. \E f : f = [i \in 1 .. n |-> IF i = 1 THEN parts[i] ELSE f[i - 1] \o parts[i]]
        BY FlattensExists DEF Flattens
      <3>2. PICK f : f = CHOOSE g : g = [i \in 1 .. n |-> IF i = 1 THEN parts[i]
                                                          ELSE g[i - 1] \o parts[i]]
        OBVIOUS
      <3>3. f = [i \in 1 .. n |-> IF i = 1 THEN parts[i] ELSE f[i - 1] \o parts[i]]
        BY <3>1, <3>2, Zenon
      <3>4. FlattenSeq(parts) = f[n]
        BY <1>3, <3>2 DEF FlattenSeq
      <3>. QED
        BY <3>3, <3>4
    <2>2. ASSUME NEW i \in 1 .. n PROVE f[i] \in Seq(X)
      <3>1. PICK S : S = {k \in 0 .. n : k # 0 => f[k] \in Seq(X)}
        OBVIOUS
      <3>2. 0 \in S
        BY <3>1
      <3>3. ASSUME NEW k \in 0 .. n - 1, k \in S PROVE k + 1 \in S
        <4>1. k + 1 \in 1 .. n /\ k + 1 - 1 = k /\ k + 1 \in 0 .. n /\ (k + 1 = 1 <=> k = 0)
          OBVIOUS
        <4>2. f[k + 1] = IF k + 1 = 1 THEN parts[k + 1] ELSE f[k] \o parts[k + 1]
          BY <2>1, <4>1
        <4>3. parts[k + 1] \in Seq(X) /\ (k # 0 => f[k] \in Seq(X))
          BY <1>1, <3>1, <3>3, <4>1
        <4>4. f[k + 1] \in Seq(X)
          BY ONLY <4>1, <4>2, <4>3
        <4>. QED
          BY <3>1, <4>1, <4>4
      <3>4. \A k \in 0 .. n : k \in S
        BY ONLY <3>2, <3>3, n \in Nat, Climb
      <3>. QED
        BY <3>1, <3>4
    <2>3. PICK b : b = [i \in 0 .. n |-> IF i = 0 THEN rt ELSE ApplyDeltas(rt, f[i])]
      OBVIOUS
    <2>4. ASSUME NEW i \in 1 .. n PROVE b[i] = ApplyDeltas(b[i - 1], parts[i])
      <3>1. b[i] = ApplyDeltas(rt, f[i]) /\ i - 1 \in 0 .. n
        BY <2>3
      <3>2. CASE i = 1
        <4>1. f[i] = parts[i] /\ b[i - 1] = rt
          BY <2>1, <2>3, <3>1, <3>2
        <4>. QED
          BY <3>1, <4>1
      <3>3. CASE i # 1
        <4>1. i - 1 \in 1 .. n
          BY <3>3
        <4>2. f[i] = f[i - 1] \o parts[i]
          BY <2>1, <3>3
        <4>3. b[i - 1] = ApplyDeltas(rt, f[i - 1])
          BY <2>3, <3>1, <4>1
        <4>4. f[i - 1] \in Seq(X) /\ parts[i] \in Seq(X)
          BY <1>1, <2>2, <4>1
        <4>. QED
          BY <3>1, <4>2, <4>4, <4>3, ApplyJoined
      <3>. QED
        BY <3>2, <3>3
    <2>5. b[0] = rt /\ b[n] = ApplyDeltas(rt, f[n])
      BY <1>3, <2>3
    <2>6. FlattenSeq(parts) \in Seq(X)
      BY <1>3, <2>1, <2>2
    <2>. QED
      BY <1>1, <2>1, <2>4, <2>5, <2>6 DEF Stages
  <1>. QED
    BY <1>2, <1>3

(***************************************************************************)
(* One change of an order                                                  *)
(***************************************************************************)

NextOf(order, i) == IF i < Len(order) THEN order[i + 1] ELSE Nowhere

LEMMA BeforeIn ==
  ASSUME NEW X, NEW s \in Seq(X), IsInjective(s), NEW p \in 1 .. Len(s), NEW q \in 1 .. Len(s)
  PROVE  Before(s, s[p], s[q]) <=> p < q
  BY DEF Before, IsInjective

\* An element that is taken out comes back where it was.
LEMMA PutBack ==
  ASSUME NEW X, NEW s \in Seq(X), IsInjective(s), Nowhere \notin X, NEW i \in 1 .. Len(s)
  PROVE  PutBefore(Without(s, s[i]), s[i], NextOf(s, i)) = s
  <1>1. PICK n \in Nat : n = Len(s)
    OBVIOUS
  <1>2. DOMAIN s = 1 .. n /\ ToSet(s) \subseteq X /\ \A p \in 1 .. n : s[p] \in ToSet(s)
    BY <1>1, SeqFacts DEF ToSet
  <1>3. PICK y \in X : y = s[i]
    BY <1>1, <1>2
  <1>4. PICK set : set = ToSet(s) \ {y}
    OBVIOUS
  <1>5. PICK w : w = Only(s, set)
    OBVIOUS
  <1>6. /\ w \in Seq(X) /\ IsInjective(w) /\ ToSet(w) = ToSet(s) \cap set
        /\ \A u, v \in set : Before(w, u, v) <=> Before(s, u, v)
    BY <1>5, OnlyTells
  <1>7. PICK a : a = NextOf(s, i)
    OBVIOUS
  <1>8. PICK r : r = PutBefore(w, y, a)
    OBVIOUS
  <1>9. r \in Seq(X) /\ InFront(r, w, y, a)
    BY <1>4, <1>6, <1>8, PutBeforeIs
  <1>10. /\ ToSet(r) = ToSet(s) /\ IsInjective(r)
         /\ \A u, v \in set : Before(r, u, v) <=> Before(s, u, v)
         /\ a \in set => \A u \in set : /\ Before(r, u, y) <=> Before(s, u, a)
                                        /\ Before(r, y, u) <=> u = a \/ Before(s, a, u)
         /\ a \notin set => \A u \in set : Before(r, u, y)
    <2>1. ToSet(w) = set /\ y \in ToSet(s) /\ ToSet(s) = set \cup {y}
      BY <1>1, <1>2, <1>3, <1>4, <1>6
    <2>. QED
      BY <1>6, <1>9, <2>1 DEF InFront
  <1>11. ASSUME NEW p \in 1 .. n, NEW q \in 1 .. n, p < q
         PROVE  Before(r, s[p], s[q])
    <2>1. Before(s, s[p], s[q])
      BY <1>1, <1>11, BeforeIn
    <2>2. s[p] # s[q]
      BY <1>2, <1>11 DEF IsInjective
    <2>3. CASE s[p] # y /\ s[q] # y
      BY <1>2, <1>4, <1>10, <2>1, <2>3
    <2>4. CASE s[p] = y
      <3>1. p = i /\ i < n
        BY <1>1, <1>2, <1>3, <1>11, <2>4 DEF IsInjective
      <3>2. i + 1 \in 1 .. n /\ a = s[i + 1] /\ a # y
        BY <1>1, <1>2, <1>3, <1>7, <3>1 DEF NextOf, IsInjective
      <3>3. a \in set /\ s[q] \in set
        BY <1>2, <1>4, <2>2, <2>4, <3>2
      <3>4. s[q] = a \/ Before(s, a, s[q])
        <4>1. CASE q = i + 1
          BY <3>2, <4>1
        <4>2. CASE q # i + 1
          <5>1. i + 1 < q
            BY <1>11, <3>1, <3>2, <4>2
          <5>. QED
            BY <1>1, <3>2, <5>1, BeforeIn
        <4>. QED
          BY <4>1, <4>2
      <3>. QED
        BY <1>10, <2>4, <3>3, <3>4
    <2>5. CASE s[q] = y
      <3>1. q = i
        BY <1>1, <1>2, <1>3, <2>5 DEF IsInjective
      <3>2. s[p] \in set
        BY <1>2, <1>4, <2>2, <2>5
      <3>3. CASE i < n
        <4>1. i + 1 \in 1 .. n /\ a = s[i + 1] /\ a # y
          BY <1>1, <1>2, <1>3, <1>7, <3>3 DEF NextOf, IsInjective
        <4>2. a \in set
          BY <1>2, <1>4, <4>1
        <4>3. p < i + 1
          BY <1>11, <3>1
        <4>4. Before(s, s[p], a)
          BY <1>1, <4>1, <4>3, BeforeIn
        <4>. QED
          BY <1>10, <2>5, <3>2, <4>2, <4>4
      <3>4. CASE ~ (i < n)
        <4>1. a = Nowhere
          BY <1>1, <1>7, <3>4 DEF NextOf
        <4>2. a \notin set
          BY <1>2, <1>4, <4>1
        <4>. QED
          BY <1>10, <2>5, <3>2, <4>2
      <3>. QED
        BY <3>3, <3>4
    <2>. QED
      BY <2>3, <2>4, <2>5
  <1>12. ASSUME NEW u \in ToSet(s), NEW v \in ToSet(s), Before(s, u, v) PROVE Before(r, u, v)
    <2>1. PICK p \in 1 .. n : \E q \in 1 .. n : p < q /\ s[p] = u /\ s[q] = v
      BY <1>2, <1>12 DEF Before
    <2>. QED
      BY <1>11, <2>1
  <1>13. s = r
    BY <1>9, <1>10, <1>12, SameOrder
  <1>. QED
    BY <1>3, <1>4, <1>5, <1>7, <1>8, <1>13 DEF Without

\* Elements of an order, counted.
LEMMA LengthCounts ==
  ASSUME NEW X, NEW s \in Seq(X), IsInjective(s)
  PROVE  IsFiniteSet(ToSet(s)) /\ Cardinality(ToSet(s)) = Len(s)
  <1>1. PICK n \in Nat : n = Len(s)
    OBVIOUS
  <1>2. DOMAIN s = 1 .. n
    BY <1>1
  <1>3. PICK D : D = 1 .. n
    OBVIOUS
  <1>4. IsFiniteSet(D) /\ Cardinality(D) = n
    BY <1>3, FS_Interval
  <1>5. \A p, q \in D : s[p] = s[q] => p = q
    BY <1>2, <1>3 DEF IsInjective
  <1>6. IsFiniteSet({s[p] : p \in D}) /\ Cardinality({s[p] : p \in D}) = Cardinality(D)
    BY <1>4, <1>5, Image
  <1>7. ToSet(s) = {s[p] : p \in D}
    BY <1>2, <1>3 DEF ToSet
  <1>. QED
    BY <1>1, <1>4, <1>6, <1>7

\* Only one element is new: where it stands.
LEMMA OneIsNew ==
  ASSUME NEW X, NEW old \in Seq(X), NEW new \in Seq(X), IsInjective(old), IsInjective(new),
         ToSet(old) \subseteq ToSet(new), Len(new) = Len(old) + 1,
         Only(new, ToSet(old)) = old
  PROVE  \E j \in 1 .. Len(new) : new[j] \notin ToSet(old) /\ Inserted(new, old, j, new[j])
  <1>1. PICK m \in Nat : m = Len(old)
    OBVIOUS
  <1>2. /\ DOMAIN old = 1 .. m /\ DOMAIN new = 1 .. m + 1 /\ Len(new) = m + 1
        /\ \A p \in 1 .. m + 1 : new[p] \in X
    BY <1>1
  <1>3. /\ IsFiniteSet(ToSet(old)) /\ Cardinality(ToSet(old)) = m
        /\ IsFiniteSet(ToSet(new)) /\ Cardinality(ToSet(new)) = m + 1
    BY <1>1, <1>2, LengthCounts
  <1>4. PICK j \in 1 .. m + 1 : new[j] \notin ToSet(old)
    <2>1. ~ (ToSet(new) \subseteq ToSet(old))
      <3>. SUFFICES ASSUME ToSet(new) \subseteq ToSet(old) PROVE FALSE
        OBVIOUS
      <3>1. ToSet(new) = ToSet(old)
        OBVIOUS
      <3>. QED
        BY <1>3, <3>1
    <2>. QED
      BY <1>2, <2>1 DEF ToSet
  <1>5. PICK s : s = [i \in 1 .. m |-> IF i < j THEN new[i] ELSE new[i + 1]]
    OBVIOUS
  <1>6. s \in Seq(X) /\ Len(s) = m
    <2>1. \A i \in 1 .. m : s[i] \in X
      BY <1>2, <1>5
    <2>2. DOMAIN s = 1 .. m /\ s = [i \in 1 .. m |-> s[i]]
      BY <1>5
    <2>. QED
      BY ONLY <2>1, <2>2, m \in Nat, SeqMade
  <1>7. /\ \A p \in 1 .. m : p < j => s[p] = new[p]
        /\ \A p \in 1 .. m : j <= p => s[p] = new[p + 1]
    BY <1>5
  <1>8. \A a, b \in 1 .. m + 1 : new[a] = new[b] => a = b
    BY <1>2 DEF IsInjective
  <1>9. Inserted(new, s, j, new[j])
    <2>1. j \in 1 .. Len(s) + 1 /\ Len(new) = Len(s) + 1
      BY <1>2, <1>6
    <2>2. \A i \in 1 .. j - 1 : i \in 1 .. m /\ i < j
      OBVIOUS
    <2>3. \A i \in j .. m : i \in 1 .. m /\ j <= i
      OBVIOUS
    <2>. QED
      BY ONLY <1>6, <1>7, <2>1, <2>2, <2>3 DEF Inserted
  <1>10. IsInjective(s) /\ new[j] \notin ToSet(s)
    <2>1. ASSUME NEW p \in 1 .. m, NEW q \in 1 .. m, s[p] = s[q] PROVE p = q
      <3>1. /\ p < j => s[p] = new[p]
            /\ j <= p => s[p] = new[p + 1]
            /\ q < j => s[q] = new[q]
            /\ j <= q => s[q] = new[q + 1]
        BY <1>7
      <3>2. p < j \/ j <= p
        OBVIOUS
      <3>3. q < j \/ j <= q
        OBVIOUS
      <3>4. p \in 1 .. m + 1 /\ p + 1 \in 1 .. m + 1 /\ q \in 1 .. m + 1 /\ q + 1 \in 1 .. m + 1
        OBVIOUS
      <3>. QED
        BY <1>8, <2>1, <3>1, <3>2, <3>3, <3>4
    <2>2. ASSUME NEW p \in 1 .. m PROVE s[p] # new[j]
      <3>1. p \in 1 .. m + 1 /\ p + 1 \in 1 .. m + 1 /\ (p < j \/ j <= p)
        OBVIOUS
      <3>2. p + 1 # j \/ p < j
        OBVIOUS
      <3>3. (p < j => s[p] = new[p]) /\ (j <= p => s[p] = new[p + 1])
        BY <1>7
      <3>. QED
        BY <1>8, <3>1, <3>2, <3>3
    <2>3. DOMAIN s = 1 .. m
      BY <1>5
    <2>. QED
      BY <2>1, <2>2, <2>3 DEF IsInjective, ToSet
  <1>11. /\ ToSet(new) = ToSet(s) \cup {new[j]}
         /\ \A u, v \in ToSet(s) : Before(new, u, v) <=> Before(s, u, v)
    BY <1>6, <1>9, <1>10, InsertedTells
  <1>12. ToSet(old) = ToSet(s)
    <2>1. ToSet(old) \subseteq ToSet(s)
      BY <1>4, <1>11
    <2>2. IsFiniteSet(ToSet(s)) /\ Cardinality(ToSet(s)) = m
      BY <1>6, <1>10, LengthCounts
    <2>. QED
      BY <1>3, <2>1, <2>2, FS_Subset
  <1>13. ASSUME NEW u \in ToSet(old), NEW v \in ToSet(old), Before(old, u, v) PROVE Before(s, u, v)
    <2>1. PICK set : set = ToSet(old)
      OBVIOUS
    <2>2. \A x, y \in set : Before(Only(new, set), x, y) <=> Before(new, x, y)
      BY OnlyTells
    <2>3. Before(new, u, v)
      BY <1>13, <2>1, <2>2
    <2>. QED
      BY <1>11, <1>12, <1>13, <2>3
  <1>14. old = s
    BY <1>6, <1>10, <1>12, <1>13, SameOrder
  <1>. QED
    BY <1>2, <1>4, <1>9, <1>14

\* The order that each part of the deltas leaves.
Station(ord, old, new, i) ==
  /\ ord[i - 1] \in Seq(setup.keys)
  /\ new[i] \in ToSet(old) => /\ ord[i] = ord[i - 1]
                              /\ ord[i] = new \/ (i \in DOMAIN old /\ old[i] = new[i])
  /\ new[i] \notin ToSet(old) =>
       /\ new[i] \notin ToSet(ord[i - 1])
       /\ ord[i] = PutBefore(ord[i - 1], new[i], NextOf(new, i))
       /\ NextOf(new, i) = Nowhere \/ NextOf(new, i) \in ToSet(ord[i - 1])
Stations(ord, old, new) ==
  /\ ord[0] = Only(old, ToSet(new)) /\ ord[Len(new)] = new
  /\ \A i \in 1 .. Len(new) : Station(ord, old, new, i)

LEMMA StationsWithout ==
  ASSUME NEW old \in Seq(setup.keys), NEW new \in Seq(setup.keys), IsInjective(new),
         Only(old, ToSet(new)) = Only(new, ToSet(old)), ToSet(new) \subseteq ToSet(old)
  PROVE  \E ord : Stations(ord, old, new)
  <1>1. PICK n \in Nat : n = Len(new)
    OBVIOUS
  <1>2. PICK set : set = ToSet(old)
    OBVIOUS
  <1>3. Only(new, set) = new
    BY <1>2, OnlyAll
  <1>4. PICK ord : ord = [i \in 0 .. n |-> new]
    OBVIOUS
  <1>5. ord[0] = Only(old, ToSet(new)) /\ ord[n] = new
    BY <1>2, <1>3, <1>4
  <1>6. ASSUME NEW i \in 1 .. n PROVE Station(ord, old, new, i)
    <2>1. ord[i] = new /\ ord[i - 1] = new
      BY <1>4
    <2>2. new[i] \in ToSet(old)
      BY <1>1, SeqFacts DEF ToSet
    <2>. QED
      BY <2>1, <2>2 DEF Station
  <1>. QED
    BY <1>1, <1>5, <1>6 DEF Stations

LEMMA StationsWith ==
  ASSUME NEW old \in Seq(setup.keys), NEW new \in Seq(setup.keys),
         IsInjective(old), IsInjective(new), Nowhere \notin setup.keys,
         Only(old, ToSet(new)) = Only(new, ToSet(old)),
         ToSet(old) \subseteq ToSet(new), Len(new) = Len(old) + 1
  PROVE  \E ord : Stations(ord, old, new)
  <1>1. PICK m \in Nat : m = Len(old)
    OBVIOUS
  <1>2. PICK n \in Nat : n = m + 1
    OBVIOUS
  <1>3. /\ Len(new) = n /\ DOMAIN old = 1 .. m /\ DOMAIN new = 1 .. n
        /\ \A i \in 1 .. m : old[i] \in ToSet(old)
        /\ \A i \in 1 .. n : new[i] \in ToSet(new) /\ new[i] \in setup.keys
    BY <1>1, <1>2, SeqFacts DEF ToSet
  <1>4. Only(old, ToSet(new)) = old
    <2>1. PICK set : set = ToSet(new)
      OBVIOUS
    <2>. QED
      BY <2>1, OnlyAll
  <1>5. PICK j \in 1 .. n : new[j] \notin ToSet(old) /\ Inserted(new, old, j, new[j])
    BY <1>3, <1>4, OneIsNew
  <1>6. /\ \A i \in 1 .. j - 1 : new[i] = old[i]
        /\ \A i \in j .. m : new[i + 1] = old[i]
    BY <1>1, <1>5 DEF Inserted
  <1>7. PICK ord : ord = [i \in 0 .. n |-> IF i < j THEN old ELSE new]
    OBVIOUS
  <1>8. ord[0] = old /\ ord[n] = new
    BY <1>5, <1>7
  <1>9. ASSUME NEW i \in 1 .. n PROVE Station(ord, old, new, i)
    <2>1. ord[i - 1] \in Seq(setup.keys)
      BY <1>7
    <2>2. CASE i < j
      <3>1. ord[i] = old /\ ord[i - 1] = old
        BY <1>7, <2>2
      <3>2. i \in 1 .. j - 1 /\ i \in DOMAIN old
        BY <1>2, <1>3, <2>2
      <3>3. new[i] = old[i] /\ new[i] \in ToSet(old)
        BY <1>3, <1>6, <3>2
      <3>. QED
        BY <2>1, <3>1, <3>2, <3>3 DEF Station
    <2>3. CASE i = j
      <3>1. ord[i] = new /\ ord[i - 1] = old
        BY <1>7, <2>3
      <3>2. PICK y : y = new[j]
        OBVIOUS
      <3>3. y \in setup.keys /\ y \notin ToSet(old)
        BY <1>3, <1>5, <3>2
      <3>4. new = PutBefore(old, y, NextOf(new, j))
        <4>1. CASE j < n
          <5>1. j \in 1 .. m /\ j \in j .. m
            BY <1>2, <4>1
          <5>2. NextOf(new, j) = old[j]
            BY <1>3, <1>6, <4>1, <5>1 DEF NextOf
          <5>3. At(old, old[j]) = j /\ Contains(old, old[j])
            BY <1>3, <5>1, AtPlace, AtIs
          <5>4. PutBefore(old, y, NextOf(new, j)) = InsertAt(old, j, y)
            BY <5>2, <5>3 DEF PutBefore
          <5>5. PICK t : t = InsertAt(old, j, y)
            OBVIOUS
          <5>6. t \in Seq(setup.keys) /\ Inserted(t, old, j, y)
            BY <1>1, <3>3, <5>1, <5>5, InsertAtIs
          <5>. QED
            BY <1>5, <3>2, <5>4, <5>5, <5>6, InsertedOnce
        <4>2. CASE ~ (j < n)
          <5>1. j = Len(old) + 1 /\ NextOf(new, j) = Nowhere
            BY <1>1, <1>2, <1>3, <4>2 DEF NextOf
          <5>2. ~ Contains(old, Nowhere)
            <6>1. Nowhere \notin ToSet(old)
              BY SeqFacts
            <6>. QED
              BY <6>1, AtIs
          <5>3. PutBefore(old, y, NextOf(new, j)) = Append(old, y)
            BY <5>1, <5>2 DEF PutBefore
          <5>4. PICK t : t = Append(old, y)
            OBVIOUS
          <5>5. t \in Seq(setup.keys) /\ Inserted(t, old, j, y)
            BY <3>3, <5>1, <5>4, AppendIs
          <5>. QED
            BY <1>5, <3>2, <5>3, <5>4, <5>5, InsertedOnce
        <4>. QED
          BY <4>1, <4>2
      <3>5. NextOf(new, j) = Nowhere \/ NextOf(new, j) \in ToSet(old)
        <4>1. CASE j < n
          <5>1. j \in 1 .. m /\ j \in j .. m
            BY <1>2, <4>1
          <5>2. NextOf(new, j) = old[j]
            BY <1>3, <1>6, <4>1, <5>1 DEF NextOf
          <5>. QED
            BY <1>3, <5>1, <5>2
        <4>2. CASE ~ (j < n)
          BY <1>3, <4>2 DEF NextOf
        <4>. QED
          BY <4>1, <4>2
      <3>. QED
        BY <2>1, <2>3, <3>1, <3>2, <3>3, <3>4, <3>5 DEF Station
    <2>4. CASE j < i
      <3>1. ord[i] = new /\ ord[i - 1] = new
        BY <1>7, <2>4
      <3>2. i - 1 \in j .. m /\ i - 1 + 1 = i /\ i - 1 \in 1 .. m
        BY <1>2, <2>4
      <3>3. new[i] \in ToSet(old)
        BY <1>3, <1>6, <3>2
      <3>. QED
        BY <2>1, <3>1, <3>3 DEF Station
    <2>. QED
      BY <2>2, <2>3, <2>4
  <1>. QED
    BY <1>3, <1>4, <1>8, <1>9 DEF Stations

LEMMA StationsOfOneChange ==
  ASSUME setup \in Setups, NEW previous \in Seq(AnyRow), NEW next \in Seq(AnyRow),
         Distinct(previous), Distinct(next), OneChange(previous, next)
  PROVE  \E ord : Stations(ord, KeysOf(previous), KeysOf(next))
  <1>1. PICK old : old = KeysOf(previous)
    OBVIOUS
  <1>2. PICK new : new = KeysOf(next)
    OBVIOUS
  <1>3. /\ old \in Seq(setup.keys) /\ new \in Seq(setup.keys)
        /\ IsInjective(old) /\ IsInjective(new)
    BY <1>1, <1>2, KeysAre, KeysTell
  <1>4. /\ Only(old, ToSet(new)) = Only(new, ToSet(old))
        /\ \/ ToSet(new) \subseteq ToSet(old)
           \/ ToSet(old) \subseteq ToSet(new) /\ Len(new) = Len(old) + 1
    BY <1>1, <1>2 DEF OneChange
  <1>5. Nowhere \notin setup.keys
    BY GraphsAreTyped
  <1>6. \E ord : Stations(ord, old, new)
    BY <1>3, <1>4, <1>5, StationsWithout, StationsWith
  <1>. QED
    BY <1>1, <1>2, <1>6

\* The deltas of a snapshot, and what they make of a runtime.
Removal(key) == Delta("remove", key, Nowhere, << >>)
Insertion(next, i) == Delta("insert", next[i].id, NextOf(KeysOf(next), i), next[i])
ChangedFields(previous, next, i) ==
  {f \in {"v", "on"} : previous[At(KeysOf(previous), next[i].id)][f] # next[i][f]}
Correction(previous, next, i) ==
  Delta("update", next[i].id, Nowhere, Restrict(next[i], ChangedFields(previous, next, i)))
Move(next, i) == Delta("move", next[i].id, NextOf(KeysOf(next), i), << >>)
Upto(there, d) == IF there THEN << >> ELSE <<d>>

LEMMA RowDeltasAre ==
  ASSUME NEW previous, NEW next \in Seq(AnyRow), NEW i \in 1 .. Len(next)
  PROVE  RowDeltas(previous, next, i) =
           IF ~ Contains(KeysOf(previous), next[i].id) THEN <<Insertion(next, i)>>
           ELSE Upto(ChangedFields(previous, next, i) = {}, Correction(previous, next, i))
                \o Upto(i \in DOMAIN KeysOf(previous) /\ KeysOf(previous)[i] = next[i].id,
                        Move(next, i))
  <1>1. PICK before : before = IF i < Len(next) THEN next[i + 1].id ELSE Nowhere
    OBVIOUS
  <1>2. before = NextOf(KeysOf(next), i)
    <2>1. PICK n \in Nat : n = Len(next)
      OBVIOUS
    <2>2. i < n => i + 1 \in 1 .. n
      BY <2>1
    <2>3. Len(KeysOf(next)) = n /\ \A p \in 1 .. n : KeysOf(next)[p] = next[p].id
      BY <2>1, KeysAre
    <2>. QED
      BY <1>1, <2>1, <2>2, <2>3 DEF NextOf
  <1>3. RowDeltas(previous, next, i) =
           IF ~ Contains(KeysOf(previous), next[i].id)
           THEN <<Delta("insert", next[i].id, before, next[i])>>
           ELSE Upto(ChangedFields(previous, next, i) = {}, Correction(previous, next, i))
                \o Upto(i \in DOMAIN KeysOf(previous) /\ KeysOf(previous)[i] = next[i].id,
                        Delta("move", next[i].id, before, << >>))
    BY Zenon, <1>1 DEF RowDeltas, Upto, ChangedFields, Correction
  <1>. QED
    BY <1>2, <1>3 DEF Insertion, Move

\* One delta, unless there is nothing to do.
Unless(there, rt, d) == IF there THEN rt ELSE ApplyUnlessFailed(rt, d)

LEMMA ApplyUpto ==
  ASSUME NEW there \in BOOLEAN, NEW rt, NEW d
  PROVE  ApplyDeltas(rt, Upto(there, d)) = Unless(there, rt, d)
  <1>1. CASE there
    <2>1. PICK none : none = << >>
      OBVIOUS
    <2>2. ApplyDeltas(rt, none) = rt
      BY <2>1, ApplyNone
    <2>. QED
      BY <1>1, <2>1, <2>2 DEF Upto, Unless
  <1>2. CASE ~ there
    BY <1>2, ApplyOne DEF Upto, Unless
  <1>. QED
    BY <1>1, <1>2

\* The part for one row: it is inserted, or it is corrected and moved.
Corrected(previous, next, i, b) ==
  Unless(ChangedFields(previous, next, i) = {}, b, Correction(previous, next, i))
InPlace(previous, next, i) ==
  i \in DOMAIN KeysOf(previous) /\ KeysOf(previous)[i] = next[i].id

LEMMA RowDeltasRun ==
  ASSUME NEW previous \in Seq(AnyRow), NEW next \in Seq(AnyRow), NEW i \in 1 .. Len(next),
         NEW b, NEW n, n = ApplyDeltas(b, RowDeltas(previous, next, i))
  PROVE  /\ next[i].id \notin Ids(previous) => n = ApplyUnlessFailed(b, Insertion(next, i))
         /\ next[i].id \in Ids(previous) =>
              n = Unless(InPlace(previous, next, i), Corrected(previous, next, i, b), Move(next, i))
  <1>1. Contains(KeysOf(previous), next[i].id) <=> next[i].id \in Ids(previous)
    BY AtIs, KeysAre, KeysTell
  <1>2. CASE next[i].id \notin Ids(previous)
    <2>1. RowDeltas(previous, next, i) = <<Insertion(next, i)>>
      BY <1>1, <1>2, RowDeltasAre
    <2>. QED
      BY <1>2, <2>1, ApplyOne
  <1>3. CASE next[i].id \in Ids(previous)
    <2>1. PICK u : u = Correction(previous, next, i)
      OBVIOUS
    <2>2. PICK m : m = Move(next, i)
      OBVIOUS
    <2>3. PICK same \in BOOLEAN : same <=> ChangedFields(previous, next, i) = {}
      OBVIOUS
    <2>4. PICK there \in BOOLEAN : there <=> InPlace(previous, next, i)
      OBVIOUS
    <2>5. RowDeltas(previous, next, i) = Upto(same, u) \o Upto(there, m)
      <3>1. RowDeltas(previous, next, i) =
              Upto(ChangedFields(previous, next, i) = {}, Correction(previous, next, i))
              \o Upto(i \in DOMAIN KeysOf(previous) /\ KeysOf(previous)[i] = next[i].id,
                      Move(next, i))
        BY <1>1, <1>3, RowDeltasAre
      <3>. QED
        BY <2>1, <2>2, <2>3, <2>4, <3>1 DEF Upto, InPlace
    <2>6. PICK s : s = Upto(same, u)
      OBVIOUS
    <2>7. PICK t : t = Upto(there, m)
      OBVIOUS
    <2>8. PICK X : u \in X /\ m \in X
      <3>1. u \in {u, m} /\ m \in {u, m}
        OBVIOUS
      <3>. QED
        BY <3>1
    <2>9. n = ApplyDeltas(ApplyDeltas(b, s), t)
      <3>1. s \in Seq(X) /\ t \in Seq(X)
        BY <2>6, <2>7, <2>8 DEF Upto
      <3>2. n = ApplyDeltas(b, s \o t)
        BY <2>5, <2>6, <2>7
      <3>. QED
        BY <3>1, <3>2, ApplyJoined
    <2>10. PICK c : c = ApplyDeltas(b, s)
      OBVIOUS
    <2>11. c = Unless(same, b, u)
      BY <2>6, <2>10, ApplyUpto
    <2>12. n = Unless(there, c, m)
      BY <2>7, <2>9, <2>10, ApplyUpto
    <2>13. c = Corrected(previous, next, i, b)
      BY <2>1, <2>3, <2>11 DEF Corrected, Unless
    <2>14. n = Unless(InPlace(previous, next, i), c, m)
      BY <2>4, <2>12 DEF Unless
    <2>. QED
      BY <1>3, <2>2, <2>13, <2>14
  <1>. QED
    BY <1>2, <1>3

\* First the removals, then part after part.
Removing(a, rt, stale) ==
  a[0] = rt /\ \A i \in 1 .. Len(stale) : a[i] = ApplyUnlessFailed(a[i - 1], Removal(stale[i]))
Parting(b, rt, previous, next) ==
  b[0] = rt /\ \A i \in 1 .. Len(next) : b[i] = ApplyDeltas(b[i - 1], RowDeltas(previous, next, i))

LEMMA SnapshotRuns ==
  ASSUME NEW previous \in Seq(AnyRow), NEW next \in Seq(AnyRow),
         NEW stale, stale = Only(KeysOf(previous), ToSet(KeysOf(previous)) \ ToSet(KeysOf(next))),
         NEW rt, NEW n, n = ApplyDeltas(rt, SnapshotDeltas(previous, next))
  PROVE  \E a : \E b : /\ Removing(a, rt, stale)
                       /\ Parting(b, a[Len(stale)], previous, next)
                       /\ n = b[Len(next)]
  <1>1. PICK m \in Nat : m = Len(next)
    OBVIOUS
  <1>2. PICK old : old = KeysOf(previous) /\ old \in Seq(setup.keys)
    BY KeysAre
  <1>3. stale \in Seq(setup.keys)
    <2>1. PICK set : set = ToSet(old) \ ToSet(KeysOf(next))
      OBVIOUS
    <2>2. Only(old, set) \in Seq(setup.keys)
      BY <1>2, OnlyTells
    <2>. QED
      BY <1>2, <2>1, <2>2
  <1>4. PICK l \in Nat : l = Len(stale)
    BY <1>3
  <1>5. PICK removals : removals = [i \in DOMAIN stale |-> Removal(stale[i])]
    OBVIOUS
  <1>6. PICK parts : parts = [i \in DOMAIN next |-> RowDeltas(previous, next, i)]
    OBVIOUS
  <1>7. PICK X : X = {Removal(k) : k \in setup.keys}
                     \cup {Insertion(next, i) : i \in 1 .. m}
                     \cup {Correction(previous, next, i) : i \in 1 .. m}
                     \cup {Move(next, i) : i \in 1 .. m}
    OBVIOUS
  <1>8. removals \in Seq(X) /\ DOMAIN removals = 1 .. l
    <2>1. DOMAIN stale = 1 .. l /\ \A i \in 1 .. l : stale[i] \in setup.keys
      BY <1>3, <1>4, SeqFacts, ZenonT(40)
    <2>2. \A i \in 1 .. l : removals[i] \in X
      BY <1>5, <1>7, <2>1
    <2>3. DOMAIN removals = 1 .. l /\ removals = [i \in 1 .. l |-> removals[i]]
      BY <1>5, <2>1
    <2>. QED
      BY ONLY <2>2, <2>3, l \in Nat, SeqMade
  <1>9. parts \in Seq(Seq(X)) /\ Len(parts) = m /\ DOMAIN parts = 1 .. m
    <2>1. DOMAIN next = 1 .. m
      BY <1>1
    <2>2. ASSUME NEW i \in 1 .. m PROVE parts[i] \in Seq(X)
      <3>1. parts[i] = RowDeltas(previous, next, i)
        BY <1>6, <2>1
      <3>2. Insertion(next, i) \in X /\ Correction(previous, next, i) \in X /\ Move(next, i) \in X
        BY <1>7
      <3>3. <<Insertion(next, i)>> \in Seq(X)
        BY <3>2
      <3>4. Upto(ChangedFields(previous, next, i) = {}, Correction(previous, next, i)) \in Seq(X)
        BY <3>2 DEF Upto
      <3>5. Upto(i \in DOMAIN KeysOf(previous) /\ KeysOf(previous)[i] = next[i].id, Move(next, i))
              \in Seq(X)
        BY <3>2 DEF Upto
      <3>6. Upto(ChangedFields(previous, next, i) = {}, Correction(previous, next, i))
            \o Upto(i \in DOMAIN KeysOf(previous) /\ KeysOf(previous)[i] = next[i].id, Move(next, i))
              \in Seq(X)
        BY <3>4, <3>5, ConcatProperties
      <3>. QED
        BY <1>1, <3>1, <3>3, <3>6, RowDeltasAre, ZenonT(60)
    <2>3. DOMAIN parts = 1 .. m /\ parts = [i \in 1 .. m |-> parts[i]]
      BY <1>6, <2>1
    <2>4. PICK Y : Y = Seq(X)
      OBVIOUS
    <2>5. \A i \in 1 .. m : parts[i] \in Y
      BY <2>2, <2>4
    <2>6. parts \in Seq(Y) /\ Len(parts) = m
      BY ONLY <2>3, <2>5, m \in Nat, SeqMade
    <2>. QED
      BY <2>3, <2>4, <2>6
  <1>10. FlattenSeq(parts) \in Seq(X)
    BY <1>9, StagesOf
  <1>11. n = ApplyDeltas(ApplyDeltas(rt, removals), FlattenSeq(parts))
    <2>1. SnapshotDeltas(previous, next) = removals \o FlattenSeq(parts)
      BY <1>5, <1>6 DEF SnapshotDeltas, Removal
    <2>2. PICK flat : flat = FlattenSeq(parts)
      OBVIOUS
    <2>3. ApplyDeltas(rt, removals \o flat) = ApplyDeltas(ApplyDeltas(rt, removals), flat)
      BY <1>8, <1>10, <2>2, ApplyJoined
    <2>. QED
      BY <2>1, <2>2, <2>3
  <1>12. PICK a : DeltaTrace(a, l, rt, removals) /\ ApplyDeltas(rt, removals) = a[l]
    BY <1>8, ApplyDeltasRuns
  <1>13. PICK b : Stages(b, a[l], parts) /\ ApplyDeltas(a[l], FlattenSeq(parts)) = b[m]
    <2>1. PICK start : start = a[l]
      OBVIOUS
    <2>2. \E b : Stages(b, start, parts) /\ ApplyDeltas(start, FlattenSeq(parts)) = b[m]
      BY <1>9, StagesOf
    <2>. QED
      BY <2>1, <2>2
  <1>14. Removing(a, rt, stale)
    <2>1. ASSUME NEW i \in 1 .. l PROVE a[i] = ApplyUnlessFailed(a[i - 1], Removal(stale[i]))
      <3>1. removals[i] = Removal(stale[i])
        BY <1>3, <1>4, <1>5
      <3>. QED
        BY <1>12, <3>1 DEF DeltaTrace
    <2>. QED
      BY <1>4, <1>12, <2>1 DEF DeltaTrace, Removing
  <1>15. Parting(b, a[l], previous, next)
    <2>1. ASSUME NEW i \in 1 .. m
          PROVE  b[i] = ApplyDeltas(b[i - 1], RowDeltas(previous, next, i))
      <3>1. parts[i] = RowDeltas(previous, next, i)
        BY <1>1, <1>6
      <3>. QED
        BY <1>9, <1>13, <3>1 DEF Stages
    <2>. QED
      BY <1>1, <1>13, <2>1 DEF Stages, Parting
  <1>. QED
    BY <1>1, <1>4, <1>11, <1>12, <1>13, <1>14, <1>15

\* What holds whatever the deltas of a snapshot are: only stale rows go.
Lasting(r, b, gone) == Goes(r, b) /\ DOMAIN r.rows \ gone \subseteq DOMAIN b.rows

\* A delta of a snapshot.
Suits(d, gone) ==
  \/ d.kind = "remove" /\ d.key \in gone
  \/ /\ d.kind = "insert" /\ d.key \in setup.keys \ gone
     /\ d.changes \in AnyRow /\ d.changes.id = d.key
  \/ d.kind = "update" /\ TypedChanges(d.changes)
  \/ d.kind = "move"

LEMMA LastsFurther ==
  ASSUME setup \in Setups, NEW r, NEW b, NEW gone, Lasting(r, b, gone), NEW d, Suits(d, gone),
         NEW n, n = ApplyUnlessFailed(b, d)
  PROVE  Lasting(r, n, gone)
  <1>1. World(b) /\ Goes(r, b) /\ DOMAIN r.rows \ gone \subseteq DOMAIN b.rows
    BY DEF Lasting, Goes
  <1>2. CASE b.error # "none"
    <2>1. n = b
      BY <1>2 DEF ApplyUnlessFailed
    <2>. QED
      BY <2>1
  <1>3. CASE b.error = "none"
    <2>1. n = ApplyDelta(b, d)
      BY <1>3 DEF ApplyUnlessFailed
    <2>2. /\ Goes(b, n) /\ DOMAIN b.rows \ gone \subseteq DOMAIN n.rows
          /\ DOMAIN r.rows \cap DOMAIN n.rows \subseteq DOMAIN b.rows
      <3>1. CASE d.kind = "remove" /\ d.key \in gone
        <4>1. n = DeltaRemove(b, d)
          BY <2>1, <3>1 DEF ApplyDelta
        <4>2. /\ Goes(b, n)
              /\ DOMAIN n.rows = DOMAIN b.rows \/ DOMAIN n.rows = DOMAIN b.rows \ {d.key}
          BY <1>1, <1>3, <4>1, DeltaRemoveIs
        <4>. QED
          BY <3>1, <4>2
      <3>2. CASE /\ d.kind = "insert" /\ d.key \in setup.keys \ gone
                 /\ d.changes \in AnyRow /\ d.changes.id = d.key
        <4>1. n = DeltaInsert(b, d)
          BY <2>1, <3>2 DEF ApplyDelta
        <4>2. /\ Goes(b, n)
              /\ \/ DOMAIN n.rows = DOMAIN b.rows
                 \/ d.key \notin DOMAIN b.rows /\ DOMAIN n.rows = DOMAIN b.rows \cup {d.key}
          BY <1>1, <1>3, <3>2, <4>1, DeltaInsertIs
        <4>. QED
          BY <1>1, <3>2, <4>2
      <3>3. CASE d.kind = "update" /\ TypedChanges(d.changes)
        <4>1. n = DeltaUpdate(b, d)
          BY <2>1, <3>3 DEF ApplyDelta
        <4>2. Goes(b, n) /\ DOMAIN n.rows = DOMAIN b.rows
          BY <1>1, <1>3, <3>3, <4>1, DeltaUpdateIs, FailsGoes DEF Refuses, Updated
        <4>. QED
          BY <4>2
      <3>4. CASE d.kind = "move"
        <4>1. n = DeltaMove(b, d)
          BY <2>1, <3>4 DEF ApplyDelta
        <4>2. Goes(b, n) /\ DOMAIN n.rows = DOMAIN b.rows
          BY <1>1, <1>3, <4>1, DeltaMoveIs
        <4>. QED
          BY <4>2
      <3>. QED
        BY <3>1, <3>2, <3>3, <3>4 DEF Suits
    <2>3. Goes(r, n)
      BY <1>1, <2>2, GoesFurther
    <2>4. DOMAIN r.rows \ gone \subseteq DOMAIN n.rows
      BY <1>1, <2>2
    <2>. QED
      BY <2>3, <2>4 DEF Lasting
  <1>. QED
    BY <1>2, <1>3

LEMMA GoesNowhere ==
  ASSUME NEW r, World(r)
  PROVE  Goes(r, r)
  BY DEF Goes, Kept

LEMMA RestrictedIs ==
  ASSUME NEW row \in AnyRow, NEW fields \in SUBSET {"v", "on"}, NEW c, c = Restrict(row, fields)
  PROVE  TypedChanges(c) /\ DOMAIN c = fields /\ \A f \in fields : c[f] = row[f]
  <1>1. DOMAIN c = fields /\ \A f \in fields : c[f] = row[f]
    BY DEF Restrict
  <1>2. row.v \in {x.v : x \in setup.values} /\ row.on \in BOOLEAN
    BY DEF AnyRow
  <1>3. "v" \in fields => c["v"] = row.v
    BY <1>1
  <1>4. "on" \in fields => c["on"] = row.on
    BY <1>1
  <1>. QED
    BY <1>1, <1>2, <1>3, <1>4 DEF TypedChanges

\* The deltas of a snapshot are of these kinds.
LEMMA SnapshotSuits ==
  ASSUME NEW previous \in Seq(AnyRow), NEW next \in Seq(AnyRow), NEW i \in 1 .. Len(next),
         NEW gone, gone \cap Ids(next) = {}
  PROVE  /\ Suits(Insertion(next, i), gone) /\ Suits(Move(next, i), gone)
         /\ Suits(Correction(previous, next, i), gone)
  <1>1. PICK row \in AnyRow : row = next[i]
    OBVIOUS
  <1>2. row.id \in setup.keys \ gone
    BY <1>1 DEF AnyRow, Ids
  <1>3. Suits(Insertion(next, i), gone)
    BY <1>1, <1>2 DEF Insertion, Delta, Suits
  <1>4. Suits(Move(next, i), gone)
    BY DEF Move, Delta, Suits
  <1>5. PICK fields : fields = ChangedFields(previous, next, i)
    OBVIOUS
  <1>6. fields \in SUBSET {"v", "on"}
    BY <1>5 DEF ChangedFields
  <1>7. PICK c : c = Restrict(row, fields)
    OBVIOUS
  <1>8. TypedChanges(c)
    BY <1>6, <1>7, RestrictedIs
  <1>9. PICK d : d = Delta("update", row.id, Nowhere, c)
    OBVIOUS
  <1>10. d.kind = "update" /\ d.changes = c
    BY <1>9 DEF Delta
  <1>11. Correction(previous, next, i) = d
    BY <1>1, <1>5, <1>7, <1>9 DEF Correction
  <1>. QED
    BY <1>3, <1>4, <1>8, <1>10, <1>11 DEF Suits

LEMMA SnapshotLasts ==
  ASSUME setup \in Setups, NEW previous \in Seq(AnyRow), NEW next \in Seq(AnyRow),
         NEW stale, stale = Only(KeysOf(previous), ToSet(KeysOf(previous)) \ ToSet(KeysOf(next))),
         NEW r, World(r), NEW a, Removing(a, r, stale),
         NEW b, Parting(b, a[Len(stale)], previous, next)
  PROVE  Goes(r, b[Len(next)])
  <1>1. PICK m \in Nat : m = Len(next)
    OBVIOUS
  <1>2. PICK gone : gone = Ids(previous) \ Ids(next)
    OBVIOUS
  <1>3. stale \in Seq(setup.keys) /\ ToSet(stale) \subseteq gone
    <2>1. KeysOf(previous) \in Seq(setup.keys)
      BY KeysAre
    <2>2. ToSet(KeysOf(previous)) = Ids(previous) /\ ToSet(KeysOf(next)) = Ids(next)
      BY KeysTell
    <2>3. PICK set : set = ToSet(KeysOf(previous)) \ ToSet(KeysOf(next))
      OBVIOUS
    <2>4. /\ Only(KeysOf(previous), set) \in Seq(setup.keys)
          /\ ToSet(Only(KeysOf(previous), set)) = ToSet(KeysOf(previous)) \cap set
      BY <2>1, OnlyTells
    <2>. QED
      BY <1>2, <2>2, <2>3, <2>4
  <1>4. PICK l \in Nat : l = Len(stale)
    BY <1>3
  <1>5. \A i \in 1 .. l : stale[i] \in gone
    <2>1. DOMAIN stale = 1 .. l
      BY <1>3, <1>4
    <2>2. \A i \in 1 .. l : stale[i] \in ToSet(stale)
      BY <2>1 DEF ToSet
    <2>. QED
      BY <1>3, <2>2
  <1>6. Lasting(r, r, gone)
    BY GoesNowhere DEF Lasting
  <1>7. Lasting(r, a[l], gone)
    <2>1. PICK S : S = {i \in 0 .. l : Lasting(r, a[i], gone)}
      OBVIOUS
    <2>2. 0 \in S
      BY <1>6, <2>1 DEF Removing
    <2>3. ASSUME NEW i \in 0 .. l - 1, i \in S PROVE i + 1 \in S
      <3>1. i + 1 \in 1 .. l /\ i + 1 - 1 = i /\ i + 1 \in 0 .. l
        OBVIOUS
      <3>2. PICK d : d = Removal(stale[i + 1])
        OBVIOUS
      <3>3. Suits(d, gone)
        BY <1>5, <3>1, <3>2 DEF Removal, Delta, Suits
      <3>4. a[i + 1] = ApplyUnlessFailed(a[i], d)
        <4>1. PICK p \in 1 .. Len(stale) : p = i + 1
          BY <1>4, <3>1
        <4>2. a[p] = ApplyUnlessFailed(a[p - 1], Removal(stale[p]))
          BY DEF Removing
        <4>3. p - 1 = i
          BY <4>1
        <4>. QED
          BY <3>2, <4>1, <4>2, <4>3
      <3>5. Lasting(r, a[i], gone)
        BY <2>1, <2>3
      <3>6. Lasting(r, a[i + 1], gone)
        BY <3>3, <3>4, <3>5, LastsFurther
      <3>. QED
        BY <2>1, <3>1, <3>6
    <2>4. \A i \in 0 .. l : i \in S
      BY ONLY <2>2, <2>3, l \in Nat, Climb
    <2>. QED
      BY <2>1, <2>4
  <1>8. PICK S : S = {i \in 0 .. m : Lasting(r, b[i], gone)}
    OBVIOUS
  <1>9. 0 \in S
    BY <1>4, <1>7, <1>8 DEF Parting
  <1>10. ASSUME NEW i \in 0 .. m - 1, i \in S PROVE i + 1 \in S
    <2>1. i + 1 \in 1 .. m /\ i + 1 - 1 = i /\ i + 1 \in 0 .. m
      OBVIOUS
    <2>2. PICK p \in 1 .. Len(next) : p = i + 1
      BY <1>1, <2>1
    <2>3. PICK c : c = b[i]
      OBVIOUS
    <2>4. PICK n : n = b[i + 1]
      OBVIOUS
    <2>5. n = ApplyDeltas(c, RowDeltas(previous, next, p))
      BY <2>1, <2>2, <2>3, <2>4 DEF Parting
    <2>6. /\ next[p].id \notin Ids(previous) => n = ApplyUnlessFailed(c, Insertion(next, p))
          /\ next[p].id \in Ids(previous) =>
               n = Unless(InPlace(previous, next, p), Corrected(previous, next, p, c), Move(next, p))
      BY <2>5, RowDeltasRun
    <2>7. Lasting(r, c, gone)
      BY <1>8, <1>10, <2>3
    <2>8. /\ Suits(Insertion(next, p), gone) /\ Suits(Move(next, p), gone)
          /\ Suits(Correction(previous, next, p), gone)
      BY <1>2, SnapshotSuits
    <2>9. CASE next[p].id \notin Ids(previous)
      <3>1. Lasting(r, n, gone)
        BY <2>6, <2>7, <2>8, <2>9, LastsFurther
      <3>. QED
        BY <1>8, <2>1, <2>4, <3>1
    <2>10. CASE next[p].id \in Ids(previous)
      <3>1. PICK e : e = Corrected(previous, next, p, c)
        OBVIOUS
      <3>2. Lasting(r, e, gone)
        BY <2>7, <2>8, <3>1, LastsFurther DEF Corrected, Unless
      <3>3. Lasting(r, n, gone)
        BY <2>6, <2>8, <2>10, <3>1, <3>2, LastsFurther DEF Unless
      <3>. QED
        BY <1>8, <2>1, <2>4, <3>3
    <2>. QED
      BY <2>9, <2>10
  <1>11. \A i \in 0 .. m : i \in S
    BY ONLY <1>9, <1>10, m \in Nat, Climb
  <1>. QED
    BY <1>1, <1>8, <1>11 DEF Lasting

(***************************************************************************)
(* A snapshot with one change                                              *)
(***************************************************************************)

\* Some rows of the list are gone.
Removed(r, c, done) ==
  /\ World(c) /\ c.error = "none" /\ InStep(c) /\ DOMAIN c.rows = DOMAIN r.rows \ done
  /\ \A x, y \in DOMAIN c.rows : Before(c.order, x, y) <=> Before(r.order, x, y)
  /\ \A k \in DOMAIN c.rows : c.rows[k].values = r.rows[k].values
  /\ setup.test # "index" /\ r.requests = {} /\ Strict(r) => c.requests = {} /\ Strict(c)

LEMMA RemovesOneMore ==
  ASSUME setup \in Setups, NEW r, NEW c, NEW done, Removed(r, c, done), NEW key,
         key \in DOMAIN r.rows \ done, NEW n, n = ApplyUnlessFailed(c, Removal(key))
  PROVE  Removed(r, n, done \cup {key})
  <1>1. /\ World(c) /\ c.error = "none" /\ InStep(c) /\ DOMAIN c.rows = DOMAIN r.rows \ done
        /\ \A x, y \in DOMAIN c.rows : Before(c.order, x, y) <=> Before(r.order, x, y)
        /\ \A k \in DOMAIN c.rows : c.rows[k].values = r.rows[k].values
        /\ setup.test # "index" /\ r.requests = {} /\ Strict(r) => c.requests = {} /\ Strict(c)
    BY DEF Removed
  <1>2. PICK d : d = Removal(key)
    OBVIOUS
  <1>3. d.kind = "remove" /\ d.key = key
    BY <1>2 DEF Removal, Delta
  <1>4. n = DeltaRemove(c, d)
    BY <1>1, <1>2, <1>3 DEF ApplyUnlessFailed, ApplyDelta
  <1>5. Gone(c, n, key)
    BY <1>1, <1>3, <1>4, DeltaRemoveIs
  <1>6. /\ Goes(c, n) /\ n.error = "none" /\ n.order = Without(c.order, key)
        /\ DOMAIN n.rows = DOMAIN c.rows \ {key} /\ InStep(n)
        /\ \A k \in DOMAIN n.rows : n.rows[k].values = c.rows[k].values
        /\ setup.test # "index" => n.requests = c.requests
                                   /\ (Strict(c) /\ Quiet(c, key) => Strict(n))
    BY <1>5 DEF Gone
  <1>7. World(n)
    BY <1>6 DEF Goes
  <1>8. ASSUME NEW x \in DOMAIN n.rows, NEW y \in DOMAIN n.rows
        PROVE  Before(n.order, x, y) <=> Before(r.order, x, y)
    <2>1. c.order \in Seq(setup.keys) /\ ToSet(c.order) = DOMAIN c.rows
      BY <1>1 DEF World, InStep
    <2>2. PICK set : set = ToSet(c.order) \ {key}
      OBVIOUS
    <2>3. \A u, v \in set : Before(Only(c.order, set), u, v) <=> Before(c.order, u, v)
      BY <2>1, OnlyTells
    <2>4. x \in set /\ y \in set /\ n.order = Only(c.order, set)
      BY <1>6, <2>1, <2>2 DEF Without
    <2>. QED
      BY <1>1, <1>6, <2>3, <2>4
  <1>9. setup.test # "index" /\ r.requests = {} /\ Strict(r) => n.requests = {} /\ Strict(n)
    BY <1>1, <1>6 DEF Quiet
  <1>10. DOMAIN n.rows = DOMAIN r.rows \ (done \cup {key})
    BY <1>1, <1>6
  <1>11. \A k \in DOMAIN n.rows : n.rows[k].values = r.rows[k].values
    BY <1>1, <1>6
  <1>. QED
    BY <1>6, <1>7, <1>8, <1>9, <1>10, <1>11 DEF Removed

LEMMA RemovesStale ==
  ASSUME setup \in Setups, NEW r, World(r), r.error = "none",
         NEW previous, InSync(r, previous), NEW next \in Seq(AnyRow),
         NEW stale, stale = Only(KeysOf(previous), ToSet(KeysOf(previous)) \ ToSet(KeysOf(next))),
         NEW a, Removing(a, r, stale), NEW c, c = a[Len(stale)]
  PROVE  /\ Removed(r, c, ToSet(stale))
         /\ c.order = Only(KeysOf(previous), ToSet(KeysOf(next)))
  <1>1. /\ previous \in Seq(AnyRow) /\ Distinct(previous) /\ InStep(r)
        /\ r.order = KeysOf(previous) /\ DOMAIN r.rows = Ids(previous)
    BY InSyncMeans
  <1>2. PICK old : old = KeysOf(previous)
    OBVIOUS
  <1>3. PICK new : new = KeysOf(next)
    OBVIOUS
  <1>4. /\ old \in Seq(setup.keys) /\ IsInjective(old) /\ ToSet(old) = Ids(previous)
    BY <1>1, <1>2, KeysAre, KeysTell
  <1>5. /\ stale \in Seq(setup.keys) /\ IsInjective(stale)
        /\ ToSet(stale) = Ids(previous) \ ToSet(new)
    <2>1. PICK set : set = ToSet(old) \ ToSet(new)
      OBVIOUS
    <2>2. /\ Only(old, set) \in Seq(setup.keys) /\ IsInjective(Only(old, set))
          /\ ToSet(Only(old, set)) = ToSet(old) \cap set
      BY <1>4, OnlyTells
    <2>. QED
      BY <1>2, <1>3, <1>4, <2>1, <2>2
  <1>6. PICK l \in Nat : l = Len(stale)
    BY <1>5
  <1>7. /\ DOMAIN stale = 1 .. l /\ \A i \in 1 .. l : stale[i] \in ToSet(stale)
        /\ \A i, j \in 1 .. l : stale[i] = stale[j] => i = j
        /\ ToSet(stale) = {stale[i] : i \in 1 .. l}
    <2>1. DOMAIN stale = 1 .. l
      BY <1>5, <1>6
    <2>. QED
      BY <1>5, <2>1 DEF ToSet, IsInjective
  <1>8. PICK S : S = {i \in 0 .. l : Removed(r, a[i], {stale[j] : j \in 1 .. i})}
    OBVIOUS
  <1>9. 0 \in S
    <2>1. {stale[j] : j \in 1 .. 0} = {}
      OBVIOUS
    <2>2. Removed(r, r, {})
      BY <1>1 DEF Removed
    <2>3. a[0] = r /\ 0 \in 0 .. l
      BY DEF Removing
    <2>. QED
      BY Zenon, <1>8, <2>1, <2>2, <2>3
  <1>10. ASSUME NEW i \in 0 .. l - 1, i \in S PROVE i + 1 \in S
    <2>1. PICK p \in 1 .. Len(stale) : p = i + 1
      BY <1>6
    <2>2. p \in 1 .. l /\ p - 1 = i /\ i + 1 \in 0 .. l
      BY <1>6, <2>1
    <2>3. a[p] = ApplyUnlessFailed(a[p - 1], Removal(stale[p]))
      BY DEF Removing
    <2>4. PICK done : done = {stale[j] : j \in 1 .. i}
      OBVIOUS
    <2>5. Removed(r, a[i], done)
      BY Zenon, <1>8, <1>10, <2>4
    <2>6. stale[p] \in DOMAIN r.rows \ done
      <3>1. stale[p] \in DOMAIN r.rows
        BY <1>1, <1>5, <1>7, <2>2
      <3>2. \A j \in 1 .. i : j \in 1 .. l /\ j # p
        BY <2>1
      <3>3. \A j \in 1 .. i : stale[j] # stale[p]
        BY <1>7, <2>2, <3>2
      <3>. QED
        BY ONLY <2>4, <3>1, <3>3
    <2>7. PICK key : key = stale[p]
      OBVIOUS
    <2>8. PICK b : b = a[i]
      OBVIOUS
    <2>9. PICK n : n = ApplyUnlessFailed(b, Removal(key))
      OBVIOUS
    <2>10. Removed(r, n, done \cup {key})
      BY <2>5, <2>6, <2>7, <2>8, <2>9, RemovesOneMore
    <2>11. {stale[j] : j \in 1 .. i + 1} = done \cup {key}
      <3>1. \A j \in 1 .. i + 1 : j \in 1 .. i \/ j = p
        BY <2>1
      <3>2. \A j \in 1 .. i : j \in 1 .. i + 1
        OBVIOUS
      <3>3. p \in 1 .. i + 1
        BY <2>1
      <3>. QED
        BY ONLY <2>4, <2>7, <3>1, <3>2, <3>3
    <2>12. a[i + 1] = n
      BY <2>1, <2>2, <2>3, <2>7, <2>8, <2>9
    <2>13. Removed(r, a[i + 1], {stale[j] : j \in 1 .. i + 1})
      BY <2>10, <2>11, <2>12
    <2>. QED
      BY Zenon, <1>8, <2>2, <2>13
  <1>11. \A i \in 0 .. l : i \in S
    BY ONLY <1>9, <1>10, l \in Nat, Climb
  <1>12. Removed(r, c, ToSet(stale))
    <2>1. l \in S
      BY <1>11
    <2>2. Removed(r, a[l], {stale[i] : i \in 1 .. l})
      BY <1>8, <2>1
    <2>. QED
      BY <1>6, <1>7, <2>2
  <1>13. /\ c.order \in Seq(setup.keys) /\ IsInjective(c.order)
         /\ ToSet(c.order) = Ids(previous) \cap ToSet(new)
         /\ \A x, y \in ToSet(c.order) : Before(c.order, x, y) <=> Before(old, x, y)
    <2>1. /\ World(c) /\ InStep(c) /\ DOMAIN c.rows = DOMAIN r.rows \ ToSet(stale)
          /\ \A x, y \in DOMAIN c.rows : Before(c.order, x, y) <=> Before(r.order, x, y)
      BY <1>12 DEF Removed
    <2>2. c.order \in Seq(setup.keys) /\ IsInjective(c.order) /\ ToSet(c.order) = DOMAIN c.rows
      BY <2>1 DEF World, InStep
    <2>3. DOMAIN c.rows = Ids(previous) \cap ToSet(new)
      BY <1>1, <1>5, <2>1
    <2>4. \A x, y \in ToSet(c.order) : Before(c.order, x, y) <=> Before(old, x, y)
      <3>1. r.order = old
        BY <1>1, <1>2
      <3>2. \A x, y \in DOMAIN c.rows : Before(c.order, x, y) <=> Before(old, x, y)
        BY Zenon, <2>1, <3>1
      <3>. QED
        BY Zenon, <2>2, <3>2
    <2>. QED
      BY <2>2, <2>3, <2>4
  <1>14. PICK set : set = ToSet(new)
    OBVIOUS
  <1>15. PICK left : left = Only(old, set)
    OBVIOUS
  <1>16. /\ left \in Seq(setup.keys) /\ IsInjective(left)
         /\ ToSet(left) = ToSet(old) \cap set
         /\ \A x, y \in set : Before(left, x, y) <=> Before(old, x, y)
    BY <1>4, <1>15, OnlyTells
  <1>17. c.order = left
    <2>1. \A x, y \in ToSet(c.order) : Before(c.order, x, y) => Before(left, x, y)
      BY <1>13, <1>14, <1>16
    <2>2. ToSet(c.order) = ToSet(left)
      BY <1>4, <1>13, <1>14, <1>16
    <2>. QED
      BY <1>13, <1>16, <2>1, <2>2, SameOrder
  <1>. QED
    BY <1>2, <1>3, <1>12, <1>14, <1>15, <1>17

\* The rows after some parts of the deltas: in the order of that station, those
\* of the parts as in the new array, the others as they were.
AtStation(r, c, previous, next, order, i) ==
  /\ World(c) /\ c.error = "none" /\ InStep(c) /\ c.order = order
  /\ \A p \in 1 .. i : /\ next[p].id \in DOMAIN c.rows
                       /\ c.rows[next[p].id].values = next[p]
  /\ \A p \in 1 .. Len(previous) :
       previous[p].id \in Ids(next) /\ (\A q \in 1 .. i : next[q].id # previous[p].id) =>
         /\ previous[p].id \in DOMAIN c.rows
         /\ c.rows[previous[p].id].values = previous[p]
  /\ setup.test # "index" /\ r.requests = {} /\ Strict(r) =>
       /\ Strict(c)
       /\ \A o \in c.requests : \E p \in 1 .. i : o[1] = next[p].id

LEMMA FirstStation ==
  ASSUME NEW r, NEW previous, InSync(r, previous), NEW next, NEW c, NEW done, Removed(r, c, done),
         done \cap Ids(next) = {}, NEW order, c.order = order
  PROVE  AtStation(r, c, previous, next, order, 0)
  <1>1. /\ World(c) /\ c.error = "none" /\ InStep(c) /\ DOMAIN c.rows = DOMAIN r.rows \ done
        /\ \A k \in DOMAIN c.rows : c.rows[k].values = r.rows[k].values
        /\ setup.test # "index" /\ r.requests = {} /\ Strict(r) => c.requests = {} /\ Strict(c)
    BY DEF Removed
  <1>2. /\ DOMAIN r.rows = Ids(previous)
        /\ \A p \in 1 .. Len(previous) : r.rows[previous[p].id].values = previous[p]
        /\ \A p \in 1 .. Len(previous) : previous[p].id \in Ids(previous)
    BY InSyncMeans
  <1>3. \A p \in 1 .. Len(previous) : previous[p].id \in Ids(next) =>
          previous[p].id \in DOMAIN c.rows /\ c.rows[previous[p].id].values = previous[p]
    BY <1>1, <1>2
  <1>4. \A p \in 1 .. 0 : FALSE
    OBVIOUS
  <1>. QED
    BY <1>1, <1>3, <1>4 DEF AtStation

\* A field that changed, and the row with it.
LEMMA SameRow ==
  ASSUME NEW was \in AnyRow, NEW row \in AnyRow, was.id = row.id, was.v = row.v, was.on = row.on
  PROVE  was = row
  BY DEF AnyRow

LEMMA CorrectedRow ==
  ASSUME NEW was \in AnyRow, NEW row \in AnyRow, was.id = row.id,
         NEW fields, fields = {f \in {"v", "on"} : was[f] # row[f]},
         NEW c, c = Restrict(row, fields)
  PROVE  /\ Patched(was, c) = row
         /\ fields = {} => was = row
         /\ TypedChanges(c) /\ "id" \notin DOMAIN c
  <1>1. fields \in SUBSET {"v", "on"}
    OBVIOUS
  <1>2. TypedChanges(c) /\ DOMAIN c = fields /\ \A f \in fields : c[f] = row[f]
    BY <1>1, RestrictedIs
  <1>3. "v" \notin fields => was.v = row.v
    OBVIOUS
  <1>4. "on" \notin fields => was.on = row.on
    OBVIOUS
  <1>5. PICK v : v = Patched(was, c)
    OBVIOUS
  <1>6. /\ v.id = was.id => v \in AnyRow
        /\ \A f \in {"id", "v", "on"} : v[f] = IF f \in DOMAIN c THEN c[f] ELSE was[f]
    BY <1>2, <1>5, PatchedIs
  <1>7. v.id = was.id
    BY <1>1, <1>2, <1>6
  <1>8. v.v = row.v
    BY <1>2, <1>3, <1>6
  <1>9. v.on = row.on
    BY <1>2, <1>4, <1>6
  <1>10. v = row
    BY <1>6, <1>7, <1>8, <1>9, SameRow
  <1>11. fields = {} => was = row
    BY <1>3, <1>4, SameRow
  <1>12. "id" \notin DOMAIN c
    BY <1>1, <1>2
  <1>. QED
    BY <1>2, <1>5, <1>10, <1>11, <1>12

\* What the correction of one row makes of them.
Correct(c, e, key, row) ==
  /\ World(e) /\ e.error = "none" /\ InStep(e) /\ e.order = c.order /\ DOMAIN e.rows = DOMAIN c.rows
  /\ e.rows[key].values = row
  /\ \A k \in DOMAIN c.rows : k # key => e.rows[k].values = c.rows[k].values
  /\ \A o \in e.requests : o \in c.requests \/ o[1] = key
  /\ Strict(c) /\ Quiet(c, key) => Strict(e)

LEMMA CorrectionIs ==
  ASSUME setup \in Setups, NEW previous \in Seq(AnyRow), NEW next \in Seq(AnyRow),
         NEW i \in 1 .. Len(next), next[i].id \in Ids(previous),
         NEW c, World(c), c.error = "none", InStep(c), next[i].id \in DOMAIN c.rows,
         \A p \in 1 .. Len(previous) : previous[p].id = next[i].id =>
            c.rows[previous[p].id].values = previous[p],
         NEW e, e = Corrected(previous, next, i, c)
  PROVE  Correct(c, e, next[i].id, next[i])
  <1>1. PICK key : key = next[i].id
    OBVIOUS
  <1>2. PICK at : at = At(KeysOf(previous), key)
    OBVIOUS
  <1>3. at \in 1 .. Len(previous) /\ previous[at].id = key
    BY <1>1, <1>2, FoundAt
  <1>4. PICK was \in AnyRow : was = previous[at]
    BY <1>3
  <1>5. PICK row \in AnyRow : row = next[i]
    OBVIOUS
  <1>6. c.rows[key].values = was /\ was.id = key /\ row.id = key
    BY <1>1, <1>3, <1>4, <1>5
  <1>7. PICK fields : fields = {f \in {"v", "on"} : was[f] # row[f]}
    OBVIOUS
  <1>8. PICK changes : changes = Restrict(row, fields)
    OBVIOUS
  <1>9. /\ Patched(was, changes) = row /\ (fields = {} => was = row)
        /\ TypedChanges(changes) /\ "id" \notin DOMAIN changes
    BY <1>6, <1>7, <1>8, CorrectedRow
  <1>10. ChangedFields(previous, next, i) = fields
    BY <1>1, <1>2, <1>4, <1>5, <1>7 DEF ChangedFields
  <1>11. PICK d : d = Delta("update", key, Nowhere, changes)
    OBVIOUS
  <1>12. d.kind = "update" /\ d.key = key /\ d.changes = changes
    BY <1>11 DEF Delta
  <1>13. Correction(previous, next, i) = d
    BY <1>1, <1>5, <1>8, <1>10, <1>11 DEF Correction
  <1>14. CASE fields = {}
    <2>1. e = c
      BY <1>10, <1>14 DEF Corrected, Unless
    <2>. QED
      BY <1>1, <1>5, <1>6, <1>9, <1>14, <2>1 DEF Correct
  <1>15. CASE fields # {}
    <2>1. e = DeltaUpdate(c, d)
      BY <1>10, <1>12, <1>13, <1>15 DEF Corrected, Unless, ApplyUnlessFailed, ApplyDelta
    <2>2. key \in DOMAIN c.rows /\ key \in ToSet(c.order)
      BY <1>1 DEF InStep
    <2>3. Updated(c, e, key, row)
      BY <1>6, <1>9, <1>12, <2>1, <2>2, DeltaUpdateIs
    <2>4. Correct(c, e, key, row)
      BY <2>3 DEF Updated, Correct, Goes
    <2>. QED
      BY <1>1, <1>5, <2>4
  <1>. QED
    BY <1>14, <1>15

\* The move of one row.
LEMMA MoveIs ==
  ASSUME setup \in Setups, NEW next \in Seq(AnyRow), Distinct(next), NEW i \in 1 .. Len(next),
         NEW e, World(e), e.error = "none", InStep(e), e.order = KeysOf(next),
         NEW n, n = ApplyUnlessFailed(e, Move(next, i))
  PROVE  /\ Moved(e, n, next[i].id, NextOf(KeysOf(next), i)) /\ n.order = e.order
         /\ World(n)
  <1>1. PICK new : new = KeysOf(next)
    OBVIOUS
  <1>2. /\ new \in Seq(setup.keys) /\ IsInjective(new) /\ Len(new) = Len(next)
        /\ DOMAIN new = 1 .. Len(next) /\ new[i] = next[i].id
    BY <1>1, KeysAre, KeysTell
  <1>3. PICK key : key = new[i]
    OBVIOUS
  <1>4. PICK before : before = NextOf(new, i)
    OBVIOUS
  <1>5. PICK d : d = Move(next, i)
    OBVIOUS
  <1>6. d.kind = "move" /\ d.key = key /\ d.before = before
    BY <1>1, <1>2, <1>3, <1>4, <1>5 DEF Move, Delta
  <1>7. n = DeltaMove(e, d)
    BY <1>5, <1>6 DEF ApplyUnlessFailed, ApplyDelta
  <1>8. key \in DOMAIN e.rows
    <2>1. new[i] \in ToSet(new)
      BY <1>2 DEF ToSet
    <2>. QED
      BY <1>1, <1>3, <2>1 DEF InStep
  <1>9. Moved(e, n, key, before)
    BY <1>6, <1>7, <1>8, DeltaMoveIs
  <1>10. Nowhere \notin setup.keys
    BY GraphsAreTyped
  <1>11. before # key
    BY <1>2, <1>3, <1>4, <1>10 DEF NextOf, IsInjective
  <1>12. i \in 1 .. Len(new)
    BY <1>2
  <1>13. PutBefore(Without(new, new[i]), new[i], NextOf(new, i)) = new
    BY <1>2, <1>10, <1>12, PutBack
  <1>14. n.order = e.order
    BY <1>1, <1>3, <1>4, <1>9, <1>11, <1>13 DEF Moved
  <1>15. World(n)
    BY <1>9 DEF Moved, Goes
  <1>. QED
    BY <1>1, <1>2, <1>3, <1>4, <1>9, <1>14, <1>15

\* The insertion of one row.
LEMMA InsertionIs ==
  ASSUME setup \in Setups, NEW next \in Seq(AnyRow), NEW i \in 1 .. Len(next),
         NEW e, World(e), e.error = "none", InStep(e), next[i].id \notin DOMAIN e.rows,
         NextOf(KeysOf(next), i) = Nowhere \/ NextOf(KeysOf(next), i) \in DOMAIN e.rows,
         NEW n, n = ApplyUnlessFailed(e, Insertion(next, i))
  PROVE  \/ n.error = "MOUNTED_REGION_LIMIT_EXCEEDED"
         \/ Come(e, n, next[i].id, NextOf(KeysOf(next), i), next[i])
  <1>1. PICK row \in AnyRow : row = next[i]
    OBVIOUS
  <1>2. PICK before : before = NextOf(KeysOf(next), i)
    OBVIOUS
  <1>3. PICK d : d = Insertion(next, i)
    OBVIOUS
  <1>4. d.kind = "insert" /\ d.key = row.id /\ d.before = before /\ d.changes = row
    BY <1>1, <1>2, <1>3 DEF Insertion, Delta
  <1>5. n = DeltaInsert(e, d)
    BY <1>3, <1>4 DEF ApplyUnlessFailed, ApplyDelta
  <1>6. d.key \in setup.keys /\ d.changes \in AnyRow /\ d.changes.id = d.key
    BY <1>4 DEF AnyRow
  <1>7. d.key \notin DOMAIN e.rows /\ ~ (d.before # Nowhere /\ d.before \notin DOMAIN e.rows)
    BY <1>1, <1>2, <1>4
  <1>8. \/ n.error = "MOUNTED_REGION_LIMIT_EXCEEDED"
        \/ Come(e, n, d.key, d.before, d.changes)
    BY <1>5, <1>6, <1>7, DeltaInsertIs
  <1>. QED
    BY <1>1, <1>2, <1>4, <1>8

\* From one station to the next.
LEMMA NextStation ==
  ASSUME setup \in Setups, NEW r, NEW previous \in Seq(AnyRow), NEW next \in Seq(AnyRow),
         Distinct(previous), Distinct(next),
         NEW ord, NEW i \in 1 .. Len(next), Station(ord, KeysOf(previous), KeysOf(next), i),
         NEW c, AtStation(r, c, previous, next, ord[i - 1], i - 1),
         NEW n, n = ApplyDeltas(c, RowDeltas(previous, next, i))
  PROVE  \/ n.error = "MOUNTED_REGION_LIMIT_EXCEEDED"
         \/ AtStation(r, n, previous, next, ord[i], i)
  <1>1. PICK old : old = KeysOf(previous)
    OBVIOUS
  <1>2. PICK new : new = KeysOf(next)
    OBVIOUS
  <1>3. /\ ToSet(old) = Ids(previous) /\ new[i] = next[i].id
        /\ \A p \in 1 .. Len(next) : next[p].id \in Ids(next)
        /\ \A p, q \in 1 .. Len(next) : next[p].id = next[q].id => p = q
        /\ \A p, q \in 1 .. Len(previous) : previous[p].id = previous[q].id => p = q
    BY <1>1, <1>2, KeysAre, KeysTell DEF Distinct, Ids
  <1>4. PICK key : key = next[i].id
    OBVIOUS
  <1>5. /\ World(c) /\ c.error = "none" /\ InStep(c) /\ c.order = ord[i - 1]
        /\ \A p \in 1 .. i - 1 : /\ next[p].id \in DOMAIN c.rows
                                 /\ c.rows[next[p].id].values = next[p]
        /\ \A p \in 1 .. Len(previous) :
             previous[p].id \in Ids(next) /\ (\A q \in 1 .. i - 1 : next[q].id # previous[p].id) =>
               /\ previous[p].id \in DOMAIN c.rows
               /\ c.rows[previous[p].id].values = previous[p]
    BY DEF AtStation
  <1>6. setup.test # "index" /\ r.requests = {} /\ Strict(r) =>
          /\ Strict(c)
          /\ \A o \in c.requests : \E p \in 1 .. i - 1 : o[1] = next[p].id
    BY DEF AtStation
  <1>7. \A q \in 1 .. i - 1 : q \in 1 .. Len(next) /\ q \in 1 .. i /\ next[q].id # key
    BY <1>3, <1>4
  <1>8. \A q \in 1 .. i : q = i \/ q \in 1 .. i - 1
    OBVIOUS
  <1>9. setup.test # "index" /\ r.requests = {} /\ Strict(r) => Quiet(c, key)
    BY <1>6, <1>7 DEF Quiet
  <1>10. ToSet(c.order) = DOMAIN c.rows
    BY <1>5 DEF InStep
  <1>11. i \in 1 .. i
    OBVIOUS
  <1>12. ASSUME NEW e, World(e), e.error = "none", InStep(e), e.order = ord[i],
                key \in DOMAIN e.rows, DOMAIN c.rows \subseteq DOMAIN e.rows,
                e.rows[key].values = next[i],
                \A k \in DOMAIN c.rows : k # key => e.rows[k].values = c.rows[k].values,
                setup.test # "index" /\ r.requests = {} /\ Strict(r) =>
                   Strict(e) /\ \A o \in e.requests : o \in c.requests \/ o[1] = key
         PROVE  AtStation(r, e, previous, next, ord[i], i)
    <2>1. ASSUME NEW p \in 1 .. i
          PROVE  next[p].id \in DOMAIN e.rows /\ e.rows[next[p].id].values = next[p]
      <3>1. CASE p = i
        BY <1>4, <1>12, <3>1
      <3>2. CASE p \in 1 .. i - 1
        BY <1>5, <1>7, <1>12, <3>2
      <3>. QED
        BY <1>8, <3>1, <3>2
    <2>2. ASSUME NEW p \in 1 .. Len(previous), previous[p].id \in Ids(next),
                 \A q \in 1 .. i : next[q].id # previous[p].id
          PROVE  previous[p].id \in DOMAIN e.rows /\ e.rows[previous[p].id].values = previous[p]
      <3>1. previous[p].id # key
        BY <1>4, <1>11, <2>2
      <3>2. \A q \in 1 .. i - 1 : next[q].id # previous[p].id
        BY <1>7, <2>2
      <3>3. previous[p].id \in DOMAIN c.rows /\ c.rows[previous[p].id].values = previous[p]
        BY <1>5, <2>2, <3>2
      <3>. QED
        BY <1>12, <3>1, <3>3
    <2>3. ASSUME setup.test # "index", r.requests = {}, Strict(r)
          PROVE  Strict(e) /\ \A o \in e.requests : \E p \in 1 .. i : o[1] = next[p].id
      <3>1. Strict(e) /\ \A o \in e.requests : o \in c.requests \/ o[1] = key
        BY <1>12, <2>3
      <3>2. \A o \in c.requests : \E p \in 1 .. i - 1 : o[1] = next[p].id
        BY <1>6, <2>3
      <3>. QED
        BY <1>4, <1>7, <1>11, <3>1, <3>2
    <2>. QED
      BY <1>12, <2>1, <2>2, <2>3 DEF AtStation
  <1>13. CASE key \notin Ids(previous)
    <2>1. n = ApplyUnlessFailed(c, Insertion(next, i))
      BY <1>4, <1>13, RowDeltasRun
    <2>2. /\ key \notin DOMAIN c.rows
          /\ ord[i] = PutBefore(c.order, key, NextOf(new, i))
          /\ NextOf(new, i) = Nowhere \/ NextOf(new, i) \in DOMAIN c.rows
      BY <1>1, <1>2, <1>3, <1>4, <1>5, <1>10, <1>13 DEF Station
    <2>3. \/ n.error = "MOUNTED_REGION_LIMIT_EXCEEDED"
          \/ Come(c, n, key, NextOf(new, i), next[i])
      BY <1>2, <1>4, <1>5, <2>1, <2>2, InsertionIs
    <2>4. ASSUME Come(c, n, key, NextOf(new, i), next[i])
          PROVE  AtStation(r, n, previous, next, ord[i], i)
      <3>1. /\ Goes(c, n) /\ n.error = "none" /\ n.order = ord[i]
            /\ DOMAIN n.rows = DOMAIN c.rows \cup {key}
            /\ n.rows[key].values = next[i]
            /\ \A k \in DOMAIN c.rows : n.rows[k].values = c.rows[k].values
            /\ InStep(n)
            /\ setup.test # "index" => /\ \A o \in n.requests : o \in c.requests \/ o[1] = key
                                       /\ Strict(c) => Strict(n)
        BY <2>2, <2>4 DEF Come
      <3>2. World(n)
        BY <3>1 DEF Goes
      <3>3. setup.test # "index" /\ r.requests = {} /\ Strict(r) =>
              Strict(n) /\ \A o \in n.requests : o \in c.requests \/ o[1] = key
        BY <1>6, <3>1
      <3>. QED
        BY <1>12, <3>1, <3>2, <3>3
    <2>. QED
      BY <2>3, <2>4
  <1>14. CASE key \in Ids(previous)
    <2>1. PICK e : e = Corrected(previous, next, i, c)
      OBVIOUS
    <2>2. n = Unless(InPlace(previous, next, i), e, Move(next, i))
      BY <1>4, <1>14, <2>1, RowDeltasRun
    <2>3. /\ ord[i] = ord[i - 1]
          /\ ord[i] = new \/ InPlace(previous, next, i)
      BY <1>1, <1>2, <1>3, <1>4, <1>14 DEF Station, InPlace
    <2>4. ASSUME NEW p \in 1 .. Len(previous), previous[p].id = key
          PROVE  previous[p].id \in DOMAIN c.rows /\ c.rows[previous[p].id].values = previous[p]
      BY <1>3, <1>4, <1>5, <1>7, <2>4
    <2>5. key \in DOMAIN c.rows
      <3>1. PICK p \in 1 .. Len(previous) : previous[p].id = key
        BY <1>14 DEF Ids
      <3>. QED
        BY <2>4, <3>1
    <2>6. Correct(c, e, key, next[i])
      BY <1>4, <1>5, <1>14, <2>1, <2>4, <2>5, CorrectionIs
    <2>7. /\ World(e) /\ e.error = "none" /\ InStep(e) /\ e.order = ord[i]
          /\ DOMAIN e.rows = DOMAIN c.rows /\ e.rows[key].values = next[i]
          /\ \A k \in DOMAIN c.rows : k # key => e.rows[k].values = c.rows[k].values
          /\ \A o \in e.requests : o \in c.requests \/ o[1] = key
          /\ Strict(c) /\ Quiet(c, key) => Strict(e)
      BY <1>5, <2>3, <2>6 DEF Correct
    <2>8. setup.test # "index" /\ r.requests = {} /\ Strict(r) =>
            Strict(e) /\ \A o \in e.requests : o \in c.requests \/ o[1] = key
      BY <1>6, <1>9, <2>7
    <2>9. CASE InPlace(previous, next, i)
      <3>1. n = e
        BY <2>2, <2>9 DEF Unless
      <3>. QED
        BY <1>12, <2>5, <2>7, <2>8, <3>1
    <2>10. CASE ~ InPlace(previous, next, i)
      <3>1. n = ApplyUnlessFailed(e, Move(next, i))
        BY <2>2, <2>10 DEF Unless
      <3>2. e.order = KeysOf(next)
        BY <1>2, <2>3, <2>7, <2>10
      <3>3. /\ Moved(e, n, key, NextOf(new, i)) /\ n.order = e.order /\ World(n)
        BY <1>2, <1>4, <2>7, <3>1, <3>2, MoveIs
      <3>4. /\ n.error = "none" /\ InStep(n) /\ DOMAIN n.rows = DOMAIN e.rows
            /\ \A k \in DOMAIN e.rows : n.rows[k].values = e.rows[k].values
            /\ setup.test # "index" => n.requests = e.requests /\ (Strict(e) => Strict(n))
        BY <3>3 DEF Moved
      <3>5. setup.test # "index" /\ r.requests = {} /\ Strict(r) =>
              Strict(n) /\ \A o \in n.requests : o \in c.requests \/ o[1] = key
        BY <2>8, <3>4
      <3>. QED
        BY <1>12, <2>5, <2>7, <3>3, <3>4, <3>5
    <2>. QED
      BY <2>9, <2>10
  <1>. QED
    BY <1>13, <1>14

\* All the deltas: the rows are the new array, or no region was left for one.
LEMMA SnapshotFollows ==
  ASSUME setup \in Setups, NEW r, World(r), r.error = "none",
         NEW previous, InSync(r, previous), NEW next \in Seq(AnyRow), Distinct(next),
         OneChange(previous, next),
         NEW stale, stale = Only(KeysOf(previous), ToSet(KeysOf(previous)) \ ToSet(KeysOf(next))),
         NEW a, Removing(a, r, stale),
         NEW b, Parting(b, a[Len(stale)], previous, next),
         NEW n, n = b[Len(next)]
  PROVE  \/ n.error = "MOUNTED_REGION_LIMIT_EXCEEDED"
         \/ /\ n.error = "none" /\ InSync(n, next)
            /\ setup.test # "index" /\ r.requests = {} /\ Strict(r) => Strict(n)
  <1>1. previous \in Seq(AnyRow) /\ Distinct(previous)
    BY InSyncMeans
  <1>2. PICK ord : Stations(ord, KeysOf(previous), KeysOf(next))
    BY <1>1, StationsOfOneChange
  <1>3. PICK m \in Nat : m = Len(next)
    OBVIOUS
  <1>4. /\ ord[0] = Only(KeysOf(previous), ToSet(KeysOf(next))) /\ ord[m] = KeysOf(next)
        /\ \A i \in 1 .. Len(next) : Station(ord, KeysOf(previous), KeysOf(next), i)
    BY <1>2, <1>3, KeysAre DEF Stations
  <1>5. PICK c : c = a[Len(stale)]
    OBVIOUS
  <1>6. Removed(r, c, ToSet(stale)) /\ c.order = ord[0]
    BY <1>4, <1>5, RemovesStale
  <1>7. ToSet(stale) \cap Ids(next) = {}
    <2>1. PICK set : set = ToSet(KeysOf(previous)) \ ToSet(KeysOf(next))
      OBVIOUS
    <2>2. ToSet(Only(KeysOf(previous), set)) = ToSet(KeysOf(previous)) \cap set
      BY <1>1, KeysAre, OnlyTells
    <2>3. ToSet(KeysOf(next)) = Ids(next)
      BY KeysTell
    <2>. QED
      BY <2>1, <2>2, <2>3
  <1>8. AtStation(r, c, previous, next, ord[0], 0)
    BY <1>6, <1>7, FirstStation
  <1>9. PICK S : S = {i \in 0 .. m : \/ b[i].error = "MOUNTED_REGION_LIMIT_EXCEEDED"
                                     \/ AtStation(r, b[i], previous, next, ord[i], i)}
    OBVIOUS
  <1>10. 0 \in S
    BY <1>5, <1>8, <1>9 DEF Parting
  <1>11. ASSUME NEW i \in 0 .. m - 1, i \in S PROVE i + 1 \in S
    <2>1. PICK p \in 1 .. Len(next) : p = i + 1
      BY <1>3
    <2>2. p - 1 = i /\ p \in 0 .. m
      BY <1>3, <2>1
    <2>3. b[p] = ApplyDeltas(b[p - 1], RowDeltas(previous, next, p))
      BY DEF Parting
    <2>4. PICK e : e = b[i]
      OBVIOUS
    <2>5. b[p] = ApplyDeltas(e, RowDeltas(previous, next, p))
      BY <2>2, <2>3, <2>4
    <2>6. CASE e.error = "MOUNTED_REGION_LIMIT_EXCEEDED"
      <3>1. b[p] = e
        BY <1>1, <2>5, <2>6, RowDeltasRun DEF Unless, Corrected, ApplyUnlessFailed
      <3>. QED
        BY <1>9, <2>1, <2>2, <2>6, <3>1
    <2>7. CASE e.error # "MOUNTED_REGION_LIMIT_EXCEEDED"
      <3>1. AtStation(r, e, previous, next, ord[i], i)
        BY <1>9, <1>11, <2>4, <2>7
      <3>2. AtStation(r, e, previous, next, ord[p - 1], p - 1)
        BY <2>2, <3>1
      <3>3. Station(ord, KeysOf(previous), KeysOf(next), p)
        BY <1>4
      <3>4. \/ b[p].error = "MOUNTED_REGION_LIMIT_EXCEEDED"
            \/ AtStation(r, b[p], previous, next, ord[p], p)
        BY <1>1, <2>5, <3>2, <3>3, NextStation
      <3>. QED
        BY <1>9, <2>1, <2>2, <3>4
    <2>. QED
      BY <2>6, <2>7
  <1>12. \A i \in 0 .. m : i \in S
    BY ONLY <1>10, <1>11, m \in Nat, Climb
  <1>13. \/ n.error = "MOUNTED_REGION_LIMIT_EXCEEDED"
         \/ AtStation(r, n, previous, next, ord[m], m)
    <2>1. m \in S
      BY <1>12
    <2>. QED
      BY <1>3, <1>9, <2>1
  <1>14. ASSUME AtStation(r, n, previous, next, ord[m], m)
         PROVE  /\ n.error = "none" /\ InSync(n, next)
                /\ setup.test # "index" /\ r.requests = {} /\ Strict(r) => Strict(n)
    <2>1. /\ World(n) /\ n.error = "none" /\ InStep(n) /\ n.order = KeysOf(next)
          /\ \A p \in 1 .. Len(next) : n.rows[next[p].id].values = next[p]
          /\ setup.test # "index" /\ r.requests = {} /\ Strict(r) => Strict(n)
      BY <1>3, <1>4, <1>14 DEF AtStation
    <2>2. InSync(n, next)
      BY <2>1, InSyncIs
    <2>. QED
      BY <2>1, <2>2
  <1>. QED
    BY <1>13, <1>14

LEMMA SnapshotSettles ==
  ASSUME IInv, setup.feed = "snapshot", runtime.collection # << >>,
         NEW list \in Seq(AnyRow), Distinct(list), AnySnapshot \/ OneChange(projection, list),
         NEW r, r = Start, NEW n, n = ApplyDeltas(r, SnapshotDeltas(projection, list))
  PROVE  /\ Settles(r, n, list)
         /\ Asked /\ ~ failed => \/ n.error = "MOUNTED_REGION_LIMIT_EXCEEDED"
                                 \/ n.error = "none" /\ InSync(n, list)
  <1>1. /\ SameRows(runtime, r) /\ World(r) /\ r.error = "none" /\ setup \in Setups
        /\ Asked /\ ~ failed => InSync(r, promised)
        /\ Asked /\ Heard /\ ~ failed => r.requests = {} /\ Strict(r)
    BY StartsRight
  <1>2. projection \in Seq(AnyRow) /\ (Asked /\ ~ failed => projection = promised)
    BY DEF IInv
  <1>3. PICK stale : stale = Only(KeysOf(projection), ToSet(KeysOf(projection)) \ ToSet(KeysOf(list)))
    OBVIOUS
  <1>4. PICK a : \E b : /\ Removing(a, r, stale)
                        /\ Parting(b, a[Len(stale)], projection, list)
                        /\ n = b[Len(list)]
    BY <1>2, <1>3, SnapshotRuns
  <1>5. PICK b : /\ Removing(a, r, stale)
                 /\ Parting(b, a[Len(stale)], projection, list)
                 /\ n = b[Len(list)]
    BY <1>4
  <1>6. Goes(r, n)
    BY <1>1, <1>2, <1>3, <1>5, SnapshotLasts
  <1>7. ASSUME Asked, ~ failed
        PROVE  \/ n.error = "MOUNTED_REGION_LIMIT_EXCEEDED"
               \/ /\ n.error = "none" /\ InSync(n, list)
                  /\ setup.test # "index" /\ r.requests = {} /\ Strict(r) => Strict(n)
    <2>1. OneChange(projection, list) /\ InSync(r, projection)
      BY <1>1, <1>2, <1>7 DEF Asked
    <2>. QED
      BY <1>1, <1>3, <1>5, <2>1, SnapshotFollows
  <1>8. World(n) /\ Kept(r, n)
    BY <1>6 DEF Goes
  <1>9. Fed(n)
    <2>1. n.collection # << >>
      BY <1>1, <1>6 DEF Goes, SameRows
    <2>. QED
      BY <2>1 DEF Fed
  <1>10. Steady /\ AllRight(r) => AllRight(n)
    BY <1>6 DEF Goes, Steady, SteadyRows
  <1>11. Asked /\ Heard /\ ~ failed => \/ n.error = "MOUNTED_REGION_LIMIT_EXCEEDED"
                                       \/ n.error = "none" /\ Strict(n)
    BY <1>1, <1>7 DEF Heard
  <1>. QED
    BY <1>7, <1>8, <1>9, <1>10, <1>11 DEF Settles

\* Two lists of the same rows in the same order.
LEMMA SameList ==
  ASSUME NEW r, NEW list, InSync(r, list), NEW other, InSync(r, other)
  PROVE  list = other
  <1>1. /\ list \in Seq(AnyRow) /\ r.order = KeysOf(list)
        /\ \A p \in 1 .. Len(list) : r.rows[list[p].id].values = list[p]
        /\ other \in Seq(AnyRow) /\ r.order = KeysOf(other)
        /\ \A p \in 1 .. Len(other) : r.rows[other[p].id].values = other[p]
    BY InSyncMeans
  <1>2. PICK n \in Nat : n = Len(list)
    BY <1>1
  <1>3. Len(other) = n
    BY <1>1, <1>2, KeysAre
  <1>4. \A p \in 1 .. n : list[p].id = other[p].id
    <2>1. \A p \in 1 .. n : KeysOf(list)[p] = list[p].id
      BY <1>1, <1>2, KeysAre
    <2>2. \A p \in 1 .. n : KeysOf(other)[p] = other[p].id
      BY <1>1, <1>3, KeysAre
    <2>3. KeysOf(list) = KeysOf(other)
      BY <1>1
    <2>. QED
      BY <2>1, <2>2, <2>3
  <1>5. \A p \in 1 .. n : list[p] = other[p]
    BY <1>1, <1>2, <1>3, <1>4
  <1>6. list = [p \in 1 .. n |-> list[p]] /\ other = [p \in 1 .. n |-> other[p]]
    BY <1>1, <1>2, <1>3, SeqFacts
  <1>. QED
    BY ONLY <1>5, <1>6

LEMMA ApplyInputSnapshotStep ==
  ASSUME IInv, NEW list \in Lists, ApplyInputSnapshot(list)
  PROVE  IInv' /\ KeptRowsKeepTheirNodes
  <1>1. PICK r : r = Start
    OBVIOUS
  <1>2. PICK deltas : deltas = SnapshotDeltas(projection, list)
    OBVIOUS
  <1>3. PICK n : n = ApplyDeltas(r, deltas)
    OBVIOUS
  <1>4. /\ setup.feed = "snapshot" /\ runtime.collection # << >>
        /\ AnySnapshot \/ OneChange(projection, list)
        /\ projection' = list /\ setup' = setup
        /\ IF deltas = << >> THEN UNCHANGED <<runtime, promised, failed>> ELSE Finish(n, list)
    BY <1>1, <1>2, <1>3 DEF ApplyInputSnapshot
  <1>5. /\ SameRows(runtime, r) /\ World(r) /\ setup \in Setups
        /\ Asked /\ ~ failed => InSync(r, promised)
    BY <1>1, StartsRight
  <1>6. list \in Seq(AnyRow) /\ Distinct(list)
    BY <1>5, ListsAre
  <1>7. /\ Settles(r, n, list)
        /\ Asked /\ ~ failed => \/ n.error = "MOUNTED_REGION_LIMIT_EXCEEDED"
                                \/ n.error = "none" /\ InSync(n, list)
    BY <1>1, <1>2, <1>3, <1>4, <1>6, SnapshotSettles
  <1>8. (projection \in Seq(AnyRow))'
    BY <1>4, <1>6 DEF AnyRow
  <1>9. CASE deltas # << >>
    <2>1. Finish(n, list)
      BY <1>4, <1>9
    <2>2. Asked /\ ~ failed /\ n.error # "MOUNTED_REGION_LIMIT_EXCEEDED" =>
            projection' = IF n.error = "none" THEN list ELSE promised
      BY <1>4, <1>7
    <2>3. projection' \in Seq(AnyRow)
      BY <1>4, <1>6
    <2>. QED
      BY <1>4, <1>5, <1>7, <2>1, <2>2, <2>3, FinishSettles
  <1>10. CASE deltas = << >>
    <2>1. runtime' = runtime /\ promised' = promised /\ failed' = failed
      BY <1>4, <1>10
    <2>2. n = r
      BY <1>3, <1>10, ApplyNone
    <2>3. r.error = "none"
      BY <1>1, StartsRight
    <2>4. Asked /\ ~ failed => list = promised
      BY <1>5, <1>7, <2>2, <2>3, SameList
    <2>5. KeptRowsKeepTheirNodes
      BY <2>1 DEF KeptRowsKeepTheirNodes
    <2>6. PICK now : now = runtime
      OBVIOUS
    <2>7. PICK asked : asked = promised
      OBVIOUS
    <2>8. /\ World(runtime)' <=> World(now)
          /\ Fed(runtime)' <=> Fed(now)
          /\ AllRight(runtime)' <=> AllRight(now)
          /\ InSync(runtime, promised)' <=> InSync(now, asked)
          /\ Strict(runtime)' <=> Strict(now)
          /\ Steady' <=> Steady
          /\ Asked' <=> Asked
          /\ Heard' <=> Heard
      BY <1>4, <2>1, <2>6, <2>7, GraphStays
    <2>9. (setup \in Setups)' /\ (failed \in BOOLEAN)'
      BY <1>4, <2>1 DEF IInv
    <2>10. IInv'
      BY <1>4, <1>8, <2>1, <2>4, <2>6, <2>7, <2>8, <2>9 DEF IInv
    <2>. QED
      BY <2>5, <2>10
  <1>. QED
    BY <1>9, <1>10

(***************************************************************************)
(* The invariant holds                                                     *)
(***************************************************************************)

LEMMA MountedIs ==
  ASSUME setup \in Setups, NEW r, r = Mounted, NEW none, none = << >>
  PROVE  /\ World(r) /\ Fed(r) /\ AllRight(r) /\ Strict(r)
         /\ InSync(r, none) /\ r.requests = {}
  <1>1. /\ DOMAIN r.rows = {} /\ r.order = << >> /\ r.children = << >> /\ r.collection = << >>
        /\ r.flag = FALSE /\ r.listeners = {} /\ r.requests = {} /\ r.taken = {}
    BY DEF Mounted
  <1>2. Shaped(r)
    BY DEF Mounted, Shaped
  <1>3. IsFiniteSet({})
    BY FS_EmptySet
  <1>4. FiniteSets(r)
    BY <1>1, <1>3 DEF FiniteSets
  <1>5. Page(r)
    <2>1. r.children \in Seq(setup.keys \X Nat) /\ IsInjective(r.children)
      BY <1>1 DEF IsInjective
    <2>2. ToSet(r.children) = {} /\ Tokens(r) = {}
      BY <1>1 DEF Tokens, ToSet
    <2>. QED
      BY <2>1, <2>2 DEF Page
  <1>6. World(r)
    <2>1. r.order \in Seq(setup.keys) /\ r.flag \in BOOLEAN /\ DOMAIN r.rows \subseteq setup.keys
      <3>1. << >> \in Seq(setup.keys)
        OBVIOUS
      <3>2. r.order \in Seq(setup.keys)
        BY <1>1, <3>1
      <3>3. DOMAIN r.rows \subseteq setup.keys
        BY <1>1
      <3>. QED
        BY <1>1, <3>2, <3>3
    <2>2. \A k \in DOMAIN r.rows : RowOK(k, r.rows[k]) /\ Owned(r, k)
      BY <1>1
    <2>. QED
      BY <1>2, <1>4, <1>5, <2>1, <2>2 DEF World
  <1>7. AllRight(r)
    BY <1>1 DEF AllRight
  <1>8. Strict(r)
    BY <1>1 DEF Strict
  <1>9. none \in Seq(AnyRow) /\ Len(none) = 0 /\ (\A p \in 1 .. 0 : FALSE)
    OBVIOUS
  <1>10. Distinct(none)
    BY <1>9 DEF Distinct
  <1>11. Fed(r)
    BY <1>1, <1>9, <1>10 DEF Fed, IsInjective
  <1>12. KeysOf(none) = << >>
    BY DEF KeysOf
  <1>13. InStep(r)
    BY <1>1 DEF InStep, IsInjective, ToSet
  <1>14. InSync(r, none)
    BY <1>1, <1>9, <1>10, <1>12, <1>13, InSyncIs
  <1>. QED
    BY <1>1, <1>6, <1>7, <1>8, <1>11, <1>14

LEMMA InitInv ==
  ASSUME Init
  PROVE  IInv
  <1>1. setup \in Setups /\ runtime = Mounted /\ failed = FALSE
    BY DEF Init
  <1>2. PICK none : none = << >>
    OBVIOUS
  <1>3. promised = none /\ projection = none
    BY <1>2 DEF Init
  <1>4. /\ World(runtime) /\ Fed(runtime) /\ AllRight(runtime) /\ Strict(runtime)
        /\ InSync(runtime, none) /\ runtime.requests = {}
    BY <1>1, <1>2, MountedIs
  <1>5. projection \in Seq(AnyRow)
    BY <1>3, <1>4 DEF InSync
  <1>. QED
    BY <1>1, <1>3, <1>4, <1>5 DEF IInv

LEMMA StutterInv ==
  ASSUME IInv, UNCHANGED vars
  PROVE  IInv' /\ KeptRowsKeepTheirNodes
  <1>1. /\ setup' = setup /\ runtime' = runtime /\ projection' = projection
        /\ promised' = promised /\ failed' = failed
    BY DEF vars
  <1>2. PICK now : now = runtime
    OBVIOUS
  <1>3. PICK asked : asked = promised
    OBVIOUS
  <1>4. /\ World(runtime)' <=> World(now)
        /\ Fed(runtime)' <=> Fed(now)
        /\ AllRight(runtime)' <=> AllRight(now)
        /\ InSync(runtime, promised)' <=> InSync(now, asked)
        /\ Strict(runtime)' <=> Strict(now)
        /\ Steady' <=> Steady
        /\ Asked' <=> Asked
        /\ Heard' <=> Heard
    BY <1>1, <1>2, <1>3, GraphStays
  <1>5. (setup \in Setups)' /\ (failed \in BOOLEAN)' /\ (projection \in Seq(AnyRow))'
    BY <1>1 DEF IInv, AnyRow
  <1>6. IInv'
    BY <1>1, <1>2, <1>3, <1>4, <1>5 DEF IInv
  <1>7. KeptRowsKeepTheirNodes
    BY <1>1 DEF KeptRowsKeepTheirNodes
  <1>. QED
    BY <1>6, <1>7

LEMMA NextInv ==
  ASSUME IInv, [Next]_vars
  PROVE  IInv' /\ KeptRowsKeepTheirNodes
  <1>1. CASE UNCHANGED vars
    BY <1>1, StutterInv
  <1>2. CASE Next
    <2>1. ASSUME NEW list \in Lists, InitializeInput(list)
          PROVE  IInv' /\ KeptRowsKeepTheirNodes
      BY <2>1, InitializeInputStep
    <2>2. ASSUME NEW list \in Lists, Len(list) = 1, InitializeSnapshotInput(list)
          PROVE  IInv' /\ KeptRowsKeepTheirNodes
      BY <2>2, InitializeSnapshotInputStep
    <2>3. ASSUME NEW list \in Lists, ApplyInputSnapshot(list)
          PROVE  IInv' /\ KeptRowsKeepTheirNodes
      BY <2>3, ApplyInputSnapshotStep
    <2>4. ASSUME NEW d \in Deltas, ApplyTypedDelta(d)
          PROVE  IInv' /\ KeptRowsKeepTheirNodes
      BY <2>4, ApplyTypedDeltaStep
    <2>5. ASSUME NEW kind \in {"append", "keyedReplace", "keyedRemove"}, NEW row \in Rows,
                 MutateCollection(kind, row)
          PROVE  IInv' /\ KeptRowsKeepTheirNodes
      BY <2>5, MutateCollectionStep
    <2>6. CASE SetState
      BY <2>6, SetStateStep
    <2>. QED
      BY <1>2, <2>1, <2>2, <2>3, <2>4, <2>5, <2>6 DEF Next
  <1>. QED
    BY <1>1, <1>2

\* The inductive invariant.
THEOREM SpecInv == Spec => []IInv
  <1>1. Init => IInv
    BY InitInv
  <1>2. IInv /\ [Next]_vars => IInv'
    BY NextInv
  <1>. QED
    BY <1>1, <1>2, PTL DEF Spec

\* A row that is there before and after an operation is the same nodes, whatever
\* feeds the loop and however operations fail.
THEOREM RowsKeepTheirNodes == Spec => [][KeptRowsKeepTheirNodes]_vars
  <1>1. Init => IInv
    BY InitInv
  <1>2. IInv /\ [Next]_vars => IInv'
    BY NextInv
  <1>3. IInv /\ [Next]_vars => [KeptRowsKeepTheirNodes]_vars
    BY NextInv
  <1>. QED
    BY <1>1, <1>2, <1>3, PTL DEF Spec

(***************************************************************************)
(* What the page shows                                                     *)
(***************************************************************************)

LEMMA PageOfWorld ==
  ASSUME World(runtime)
  PROVE  PageHoldsTheRows
  BY DEF World, Page, Tokens, PageHoldsTheRows

\* The nodes of the rows stand in the order of the list.
LEMMA PageOfList ==
  ASSUME NEW r, World(r), NEW list, InSync(r, list)
  PROVE  [i \in DOMAIN r.children |-> r.rows[r.children[i][1]].values] = list
  <1>1. /\ list \in Seq(AnyRow) /\ Distinct(list) /\ InStep(r) /\ r.order = KeysOf(list)
        /\ \A p \in 1 .. Len(list) : r.rows[list[p].id].values = list[p]
        /\ DOMAIN r.rows = Ids(list)
        /\ \A p \in 1 .. Len(list) : list[p].id \in Ids(list)
    BY InSyncMeans
  <1>2. PICK n \in Nat : n = Len(list)
    BY <1>1
  <1>3. PICK X : X = setup.keys \X Nat
    OBVIOUS
  <1>4. r.children \in Seq(X) /\ IsInjective(r.children) /\ ToSet(r.children) = Tokens(r)
    BY <1>3 DEF World, Page
  <1>5. \A k \in DOMAIN r.rows : Token(r, k) \in X /\ Token(r, k)[1] = k
    BY <1>3, TokenIs DEF World
  <1>6. PICK t : t = [p \in 1 .. n |-> Token(r, list[p].id)]
    OBVIOUS
  <1>7. \A p \in 1 .. n : /\ list[p].id \in DOMAIN r.rows /\ t[p] = Token(r, list[p].id)
                          /\ t[p] \in X /\ t[p][1] = list[p].id
    BY <1>1, <1>2, <1>5, <1>6
  <1>8. t \in Seq(X) /\ Len(t) = n /\ DOMAIN t = 1 .. n
    <2>1. DOMAIN t = 1 .. n /\ t = [p \in 1 .. n |-> t[p]]
      BY <1>6
    <2>2. \A p \in 1 .. n : t[p] \in X
      BY <1>7
    <2>. QED
      BY ONLY <2>1, <2>2, n \in Nat, SeqMade
  <1>9. IsInjective(t)
    <2>1. ASSUME NEW p \in 1 .. n, NEW q \in 1 .. n, t[p] = t[q] PROVE p = q
      <3>1. list[p].id = list[q].id
        BY <1>7, <2>1
      <3>. QED
        BY <1>1, <1>2, <3>1 DEF Distinct
    <2>. QED
      BY <1>8, <2>1 DEF IsInjective
  <1>10. ToSet(t) = ToSet(r.children)
    <2>1. ToSet(t) = {t[p] : p \in 1 .. n}
      BY <1>8 DEF ToSet
    <2>2. \A k \in DOMAIN r.rows : \E p \in 1 .. n : list[p].id = k
      BY <1>1, <1>2 DEF Ids
    <2>3. Tokens(r) = {t[p] : p \in 1 .. n}
      BY <1>7, <2>2 DEF Tokens
    <2>. QED
      BY <1>4, <2>1, <2>3
  <1>11. ASSUME NEW x \in ToSet(t), NEW y \in ToSet(t), Before(t, x, y)
         PROVE  Before(r.children, x, y)
    <2>1. PICK p \in 1 .. n : \E q \in 1 .. n : p < q /\ t[p] = x /\ t[q] = y
      BY <1>8, <1>11 DEF Before
    <2>2. PICK q \in 1 .. n : p < q /\ t[p] = x /\ t[q] = y
      BY <2>1
    <2>3. Before(KeysOf(list), list[p].id, list[q].id)
      BY <1>1, <1>2, <2>2, KeysTell
    <2>. QED
      BY <1>1, <1>7, <2>2, <2>3 DEF InStep
  <1>12. t = r.children
    BY <1>4, <1>8, <1>9, <1>10, <1>11, SameOrder
  <1>13. DOMAIN r.children = 1 .. n /\ \A p \in 1 .. n : r.rows[r.children[p][1]].values = list[p]
    BY <1>1, <1>2, <1>7, <1>8, <1>12
  <1>14. list = [p \in 1 .. n |-> list[p]]
    BY <1>1, <1>2, SeqFacts
  <1>. QED
    BY <1>13, <1>14

LEMMA PromiseShown ==
  ASSUME IInv, Asked
  PROVE  PageShowsThePromise
  <1>1. World(runtime) /\ (~ failed => InSync(runtime, promised))
    BY DEF IInv
  <1>2. PageHoldsTheRows
    BY <1>1, PageOfWorld
  <1>3. PICK r : r = runtime
    OBVIOUS
  <1>4. PICK list : list = promised
    OBVIOUS
  <1>5. ~ failed => /\ r.order = KeysOf(list)
                    /\ [i \in DOMAIN r.children |-> r.rows[r.children[i][1]].values] = list
    BY <1>1, <1>3, <1>4, PageOfList, InSyncMeans
  <1>. QED
    BY <1>2, <1>3, <1>4, <1>5 DEF PageShowsThePromise

LEMMA DataShown ==
  ASSUME IInv, Steady
  PROVE  RowsShowTheirData
  <1>1. AllRight(runtime) /\ NoIndex /\ setup \in Setups
    BY DEF IInv, Steady
  <1>2. ASSUME NEW k \in DOMAIN runtime.rows, NEW row, row = runtime.rows[k],
               NEW index, index = IndexOf(runtime, k),
               NEW selected, selected = Selects(runtime, row.values, index)
        PROVE  /\ row.text = Shows(runtime, setup.text, row.values, index)
               /\ row.region.selected = selected
               /\ selected => row.region.shows = Shows(runtime, setup.branch, row.values, index)
    <2>1. Right(runtime, row)
      BY <1>1, <1>2 DEF AllRight
    <2>2. PICK values : values = row.values
      OBVIOUS
    <2>3. PICK r : r = runtime
      OBVIOUS
    <2>4. setup.text \subseteq Reads /\ setup.branch \subseteq Reads
      BY <1>1, GraphsAreTyped
    <2>5. Shows(r, setup.text, values, index) = Shows(r, setup.text, values, 0)
      BY <1>1, <2>4, ShowsAtAnyIndex DEF NoIndex
    <2>6. Shows(r, setup.branch, values, index) = Shows(r, setup.branch, values, 0)
      BY <1>1, <2>4, ShowsAtAnyIndex DEF NoIndex
    <2>7. Selects(r, values, index) = Selects(r, values, 0)
      BY <1>1, SelectsAtAnyIndex DEF NoIndex
    <2>. QED
      BY <1>2, <2>1, <2>2, <2>3, <2>5, <2>6, <2>7 DEF Right
  <1>. QED
    BY <1>2 DEF RowsShowTheirData

LEMMA ListenersFollow ==
  ASSUME IInv, Asked, Heard
  PROVE  ListenersFollowRows
  <1>1. /\ \A k \in DOMAIN runtime.rows : Owned(runtime, k)
        /\ ~ failed => Strict(runtime)
    BY DEF IInv, World
  <1>2. LiveOwners(runtime) \subseteq runtime.listeners \cup runtime.requests
    BY <1>1 DEF Owned, LiveOwners
  <1>3. ~ failed => runtime.listeners \cup runtime.requests \subseteq LiveOwners(runtime)
    BY <1>1 DEF Strict, LiveOwners
  <1>. QED
    BY <1>2, <1>3 DEF ListenersFollowRows

\* The rows on the page are those of the runtime, also after an operation that
\* stopped half way, whoever feeds the loop.
THEOREM PageAlwaysHoldsTheRows == Spec => []PageHoldsTheRows
  <1>1. IInv => PageHoldsTheRows
    BY PageOfWorld DEF IInv
  <1>. QED
    BY <1>1, SpecInv, PTL

\* The page shows the list the feed has asked for, as long as no operation
\* stopped half way; a feed of snapshots keeps the order of the rows it shares
\* with the one before.
THEOREM PageShowsThePromiseAlways == Spec => [](Asked => PageShowsThePromise)
  <1>1. IInv => (Asked => PageShowsThePromise)
    BY PromiseShown
  <1>. QED
    BY <1>1, SpecInv, PTL

\* Rows show what a fresh render of their data would show, through every
\* operation and failure, in a graph whose nodes do not depend on the index of
\* their row and whose branches are written when they are switched.
THEOREM RowsShowTheirDataAlways == Spec => [](Steady => RowsShowTheirData)
  <1>1. IInv => (Steady => RowsShowTheirData)
    BY DataShown
  <1>. QED
    BY <1>1, SpecInv, PTL

\* Every element of a row or of its branch has its listener, and as long as no
\* operation stopped half way no listener is left of one that is gone.
THEOREM ListenersFollowRowsAlways == Spec => [](Asked /\ Heard => ListenersFollowRows)
  <1>1. IInv => (Asked /\ Heard => ListenersFollowRows)
    BY ListenersFollow
  <1>. QED
    BY <1>1, SpecInv, PTL

(***************************************************************************)
(* Moves                                                                   *)
(***************************************************************************)
\* The rows that may stay: parts of the kept ones with the same order before
\* and after.
Stays(order, next, kept) == {keys \in SUBSET kept : Only(order, keys) = Only(next, keys)}

PlacesOf(s, keys) == {p \in 1 .. Len(s) : s[p] \in keys}

\* The places of some elements of an order are as many as the elements.
LEMMA PlacesCount ==
  ASSUME NEW X, NEW s \in Seq(X), IsInjective(s), NEW keys \in SUBSET ToSet(s),
         NEW P, P = PlacesOf(s, keys)
  PROVE  /\ IsFiniteSet(P) /\ IsFiniteSet(keys) /\ Cardinality(P) = Cardinality(keys)
         /\ Cardinality(P) \in Nat
         /\ \A k \in keys : \E p \in P : s[p] = k
  <1>1. PICK n \in Nat : n = Len(s) /\ DOMAIN s = 1 .. n
    BY SeqFacts
  <1>2. IsFiniteSet(1 .. n) /\ P \subseteq 1 .. n /\ P = {p \in 1 .. n : s[p] \in keys}
    BY <1>1, FS_Interval DEF PlacesOf
  <1>3. IsFiniteSet(P)
    BY <1>2, FS_Subset
  <1>4. PICK f : f = [p \in P |-> s[p]]
    OBVIOUS
  <1>5. \A k \in keys : \E p \in P : s[p] = k
    BY <1>1, <1>2 DEF ToSet
  <1>6. \A p, q \in P : s[p] = s[q] => p = q
    BY <1>1, <1>2 DEF IsInjective
  <1>7. f \in [P -> keys]
    BY <1>2, <1>4
  <1>8. f \in Injection(P, keys)
    BY <1>4, <1>6, <1>7 DEF Injection, IsInjective
  <1>9. f \in Surjection(P, keys)
    BY <1>4, <1>5, <1>7 DEF Surjection
  <1>10. ExistsBijection(P, keys)
    BY <1>8, <1>9 DEF ExistsBijection, Bijection
  <1>11. IsFiniteSet(keys) /\ Cardinality(P) = Cardinality(keys)
    BY <1>3, <1>10, FS_Bijection
  <1>12. Cardinality(P) \in Nat
    BY <1>3, FS_CardinalityType
  <1>. QED
    BY <1>3, <1>5, <1>11, <1>12

\* What may stay is no more than the plan leaves in place.
LEMMA NoMoreStay ==
  ASSUME NEW X, NEW order \in Seq(X), NEW next \in Seq(X), IsInjective(order), IsInjective(next),
         NEW kept, kept = ToSet(order) \cap ToSet(next), NEW stable,
         MostStay(Only(order, kept), next, stable),
         NEW keys \in Stays(order, next, kept)
  PROVE  Cardinality(keys) <= Cardinality(stable)
  <1>1. PICK n \in Nat : n = Len(next) /\ DOMAIN next = 1 .. n
    BY SeqFacts
  <1>2. keys \subseteq kept /\ keys \subseteq ToSet(next) /\ Only(order, keys) = Only(next, keys)
    BY DEF Stays
  <1>3. PICK P : P = {p \in 1 .. n : next[p] \in keys}
    OBVIOUS
  <1>4. Cardinality(P) = Cardinality(keys)
    <2>1. P = PlacesOf(next, keys)
      BY <1>1, <1>3 DEF PlacesOf
    <2>. QED
      BY <1>2, <2>1, PlacesCount
  <1>5. ToSet(Only(order, kept)) = kept
    BY OnlyTells
  <1>6. ASSUME NEW p \in P, NEW q \in P, p < q PROVE Before(Only(order, kept), next[p], next[q])
    <2>1. PICK x : x = next[p]
      OBVIOUS
    <2>2. PICK y : y = next[q]
      OBVIOUS
    <2>3. x \in keys /\ y \in keys /\ p \in 1 .. n /\ q \in 1 .. n
      BY <1>3, <2>1, <2>2
    <2>4. Before(next, x, y)
      BY <1>1, <1>6, <2>1, <2>2, <2>3 DEF Before
    <2>5. Before(Only(next, keys), x, y)
      BY <2>3, <2>4, OnlyTells
    <2>6. Before(Only(order, keys), x, y)
      BY <1>2, <2>5
    <2>7. Before(order, x, y)
      BY <2>3, <2>6, OnlyTells
    <2>8. Before(Only(order, kept), x, y)
      BY <1>2, <2>3, <2>7, OnlyTells
    <2>. QED
      BY <2>1, <2>2, <2>8
  <1>7. InThePreviousOrder(Only(order, kept), next, P)
    BY <1>1, <1>2, <1>3, <1>5, <1>6 DEF InThePreviousOrder
  <1>8. Cardinality(P) <= Cardinality(stable)
    BY <1>1, <1>3, <1>7 DEF MostStay
  <1>. QED
    BY <1>4, <1>8

\* What the plan leaves in place may stay.
LEMMA StableStays ==
  ASSUME NEW X, NEW order \in Seq(X), NEW next \in Seq(X), IsInjective(order), IsInjective(next),
         NEW kept, kept = ToSet(order) \cap ToSet(next), NEW stable,
         InThePreviousOrder(Only(order, kept), next, stable)
  PROVE  \E keys \in Stays(order, next, kept) : Cardinality(keys) = Cardinality(stable)
  <1>1. PICK n \in Nat : n = Len(next) /\ DOMAIN next = 1 .. n
    BY SeqFacts
  <1>2. ToSet(Only(order, kept)) = kept
    BY OnlyTells
  <1>3. /\ stable \subseteq 1 .. n
        /\ \A p \in stable : next[p] \in kept
        /\ \A p, q \in stable : p < q => Before(Only(order, kept), next[p], next[q])
    BY <1>1, <1>2 DEF InThePreviousOrder
  <1>4. PICK keys : keys = {next[p] : p \in stable}
    OBVIOUS
  <1>5. keys \subseteq kept /\ keys \subseteq ToSet(next) /\ keys \subseteq ToSet(order)
    BY <1>3, <1>4
  <1>6. stable = {p \in 1 .. n : next[p] \in keys}
    <2>1. ASSUME NEW p \in 1 .. n, next[p] \in keys PROVE p \in stable
      <3>1. PICK q \in stable : next[q] = next[p]
        BY <1>4, <2>1
      <3>2. q \in 1 .. n
        BY <1>3
      <3>3. p = q
        BY <1>1, <3>1, <3>2 DEF IsInjective
      <3>. QED
        BY <3>3
    <2>2. \A p \in stable : p \in 1 .. n /\ next[p] \in keys
      BY <1>3, <1>4
    <2>. QED
      BY <2>1, <2>2
  <1>7. Cardinality(keys) = Cardinality(stable)
    <2>1. stable = PlacesOf(next, keys)
      BY <1>1, <1>6 DEF PlacesOf
    <2>. QED
      BY <1>5, <2>1, PlacesCount
  <1>8. PICK s : s = Only(next, keys)
    OBVIOUS
  <1>9. PICK t : t = Only(order, keys)
    OBVIOUS
  <1>10. /\ s \in Seq(X) /\ IsInjective(s) /\ ToSet(s) = keys
         /\ \A x, y \in keys : Before(s, x, y) <=> Before(next, x, y)
    <2>1. ToSet(next) \cap keys = keys
      BY <1>5
    <2>2. ToSet(s) = ToSet(next) \cap keys
      BY <1>8, OnlyTells
    <2>3. s \in Seq(X) /\ IsInjective(s)
      BY <1>8, OnlyTells
    <2>4. \A x, y \in keys : Before(s, x, y) <=> Before(next, x, y)
      BY <1>8, OnlyTells
    <2>. QED
      BY <2>1, <2>2, <2>3, <2>4
  <1>11. /\ t \in Seq(X) /\ IsInjective(t) /\ ToSet(t) = keys
         /\ \A x, y \in keys : Before(t, x, y) <=> Before(order, x, y)
    <2>1. ToSet(order) \cap keys = keys
      BY <1>5
    <2>2. ToSet(t) = ToSet(order) \cap keys
      BY <1>9, OnlyTells
    <2>3. t \in Seq(X) /\ IsInjective(t)
      BY <1>9, OnlyTells
    <2>4. \A x, y \in keys : Before(t, x, y) <=> Before(order, x, y)
      BY <1>9, OnlyTells
    <2>. QED
      BY <2>1, <2>2, <2>3, <2>4
  <1>12. ASSUME NEW x \in ToSet(s), NEW y \in ToSet(s), Before(s, x, y) PROVE Before(t, x, y)
    <2>1. x \in keys /\ y \in keys /\ x \in kept /\ y \in kept
      BY <1>5, <1>10
    <2>2. Before(next, x, y)
      BY <1>10, <1>12, <2>1
    <2>3. PICK p \in 1 .. n : \E q \in 1 .. n : p < q /\ next[p] = x /\ next[q] = y
      BY <1>1, <2>2 DEF Before
    <2>4. PICK q \in 1 .. n : p < q /\ next[p] = x /\ next[q] = y
      BY <2>3
    <2>5. p \in stable /\ q \in stable
      BY <1>6, <2>1, <2>3, <2>4
    <2>6. Before(Only(order, kept), x, y)
      BY <1>3, <2>3, <2>4, <2>5
    <2>7. Before(order, x, y)
      BY <2>1, <2>6, OnlyTells
    <2>. QED
      BY <1>11, <2>1, <2>7
  <1>13. s = t
    BY <1>10, <1>11, <1>12, SameOrder
  <1>14. keys \in Stays(order, next, kept)
    BY <1>5, <1>8, <1>9, <1>13 DEF Stays
  <1>. QED
    BY <1>7, <1>14

\* The rows that are relocated are the kept ones but a longest part of them
\* that may stay.
Fewest(order, next, moves) ==
  LET kept == ToSet(order) \cap ToSet(next)
  IN moves = Cardinality(kept) - Max({Cardinality(keys) : keys \in Stays(order, next, kept)})

LEMMA FewestAre ==
  ASSUME NEW X, NEW order \in Seq(X), NEW next \in Seq(X), IsInjective(order), IsInjective(next),
         NEW kept, kept = ToSet(order) \cap ToSet(next), NEW stable,
         InThePreviousOrder(Only(order, kept), next, stable),
         MostStay(Only(order, kept), next, stable),
         NEW moves, moves = Cardinality({p \in (1 .. Len(next)) \ stable : next[p] \in kept})
  PROVE  Fewest(order, next, moves)
  <1>1. PICK n \in Nat : n = Len(next) /\ DOMAIN next = 1 .. n
    BY SeqFacts
  <1>2. PICK P : P = {p \in 1 .. n : next[p] \in kept}
    OBVIOUS
  <1>3. /\ IsFiniteSet(P) /\ IsFiniteSet(kept) /\ Cardinality(P) = Cardinality(kept)
        /\ Cardinality(P) \in Nat
    <2>1. kept \in SUBSET ToSet(next)
      OBVIOUS
    <2>2. P = PlacesOf(next, kept)
      BY <1>1, <1>2 DEF PlacesOf
    <2>. QED
      BY <2>1, <2>2, PlacesCount
  <1>4. stable \subseteq P
    <2>1. ToSet(Only(order, kept)) = kept
      BY OnlyTells
    <2>. QED
      BY <1>1, <1>2, <2>1 DEF InThePreviousOrder
  <1>5. IsFiniteSet(stable) /\ Cardinality(stable) \in Nat
    BY <1>3, <1>4, FS_Subset, FS_CardinalityType
  <1>6. {p \in (1 .. Len(next)) \ stable : next[p] \in kept} = P \ stable
    BY <1>1, <1>2
  <1>7. moves = Cardinality(P) - Cardinality(stable)
    <2>1. Cardinality(P \ stable) = Cardinality(P) - Cardinality(P \cap stable)
      BY <1>3, FS_Difference
    <2>2. P \cap stable = stable
      BY <1>4
    <2>. QED
      BY <1>6, <2>1, <2>2
  <1>8. PICK sizes : sizes = {Cardinality(keys) : keys \in Stays(order, next, kept)}
    OBVIOUS
  <1>9. Cardinality(stable) \in sizes
    BY <1>8, StableStays
  <1>10. ASSUME NEW x \in sizes PROVE x <= Cardinality(stable) /\ x \in Nat
    <2>1. PICK keys \in Stays(order, next, kept) : x = Cardinality(keys)
      BY <1>8
    <2>2. x <= Cardinality(stable)
      BY <2>1, NoMoreStay
    <2>3. x \in Nat
      BY <1>3, <2>1, FS_Subset, FS_CardinalityType DEF Stays
    <2>. QED
      BY <2>2, <2>3
  <1>11. sizes \subseteq 0 .. Cardinality(stable) /\ sizes # {}
    BY <1>5, <1>9, <1>10
  <1>12. Max(sizes) \in sizes /\ \A i \in sizes : i <= Max(sizes)
    BY <1>5, <1>11, MaxIs
  <1>13. Max(sizes) = Cardinality(stable)
    BY <1>5, <1>9, <1>10, <1>12
  <1>. QED
    BY <1>3, <1>7, <1>8, <1>13 DEF Fewest

LEMMA OrderStays ==
  ASSUME NEW X, NEW order \in Seq(X), IsInjective(order), IsFiniteSet(ToSet(order))
  PROVE  Fewest(order, order, 0)
  <1>1. PICK kept : kept = ToSet(order)
    OBVIOUS
  <1>2. Stays(order, order, kept) = SUBSET kept
    BY DEF Stays
  <1>3. PICK sizes : sizes = {Cardinality(keys) : keys \in Stays(order, order, kept)}
    OBVIOUS
  <1>4. PICK m \in Nat : m = Cardinality(kept)
    BY <1>1, FS_CardinalityType
  <1>5. m \in sizes
    BY <1>2, <1>3, <1>4
  <1>6. ASSUME NEW x \in sizes PROVE x \in 0 .. m
    <2>1. PICK keys \in SUBSET kept : x = Cardinality(keys)
      BY <1>2, <1>3
    <2>2. IsFiniteSet(kept)
      BY <1>1
    <2>3. IsFiniteSet(keys) /\ Cardinality(keys) <= Cardinality(kept)
      BY <2>2, FS_Subset
    <2>4. Cardinality(keys) \in Nat
      BY <2>3, FS_CardinalityType
    <2>. QED
      BY <1>4, <2>1, <2>3, <2>4
  <1>7. Max(sizes) \in sizes /\ \A i \in sizes : i <= Max(sizes)
    BY <1>5, <1>6, MaxIs
  <1>8. Max(sizes) \in 0 .. m
    BY <1>6, <1>7
  <1>9. Max(sizes) = m
    BY <1>5, <1>7, <1>8
  <1>10. kept = ToSet(order) \cap ToSet(order)
    BY <1>1
  <1>. QED
    BY <1>3, <1>4, <1>9, <1>10 DEF Fewest

\* The whole list is replaced with the fewest moves.
LEMMA ReconcileMovesFew ==
  ASSUME IInv, ~ failed, setup.feed \in {"host", "action"}, NEW r, r = Start,
         NEW list \in Seq(AnyRow), Distinct(list),
         NEW n, n = ReconcileLoop(Holding(r, list), list), n.error = "none"
  PROVE  Fewest(runtime.order, n.order, n.moves)
  <1>1. PICK q : q = Holding(r, list)
    OBVIOUS
  <1>2. /\ SameRows(runtime, r) /\ World(r) /\ Fed(r) /\ r.error = "none" /\ r.moves = 0
        /\ Asked => InSync(r, promised) /\ InStep(r)
        /\ setup \in Setups
    BY StartsRight
  <1>3. InSync(r, promised)
    BY <1>2 DEF Asked
  <1>4. /\ World(q) /\ q.order = r.order /\ q.error = r.error /\ q.moves = r.moves
        /\ InSync(q, promised)
    BY <1>1, <1>2, <1>3, HoldingIs
  <1>5. PICK order : order = q.order
    OBVIOUS
  <1>6. InStep(q) /\ ToSet(order) = DOMAIN q.rows /\ IsInjective(order)
    BY <1>4, <1>5, InSyncMeans DEF InStep
  <1>7. order \in Seq(setup.keys) /\ order = runtime.order
    BY <1>2, <1>4, <1>5 DEF World, SameRows
  <1>8. Reconciled(q, n, list)
    <2>1. q.error = "none" /\ q.moves \in Nat /\ n = ReconcileLoop(q, list) /\ IsInjective(q.order)
      BY <1>1, <1>2, <1>4, <1>5, <1>6
    <2>2. ASSUME NEW what, what # "none" PROVE n # Fails(q, what)
      BY <1>4, <2>2, FailsIs DEF World
    <2>3. PICK rows, budget : rows = "LOOP_ROW_LIMIT_EXCEEDED" /\ budget = "RECONCILE_BUDGET_EXCEEDED"
      OBVIOUS
    <2>4. n # Fails(q, rows) /\ n # Fails(q, budget)
      BY <2>2, <2>3
    <2>5. ~ Refused(q, n)
      BY DEF Refused
    <2>. QED
      BY <1>2, <1>4, <2>1, <2>3, <2>4, <2>5, ReconcileLoopIs
  <1>9. PICK next : next = KeysOf(list)
    OBVIOUS
  <1>10. n.order = next
    BY <1>8, <1>9 DEF Reconciled
  <1>11. /\ next \in Seq(setup.keys) /\ IsInjective(next) /\ ToSet(next) = Ids(list)
         /\ Len(next) = Len(list) /\ \A p \in 1 .. Len(list) : next[p] = list[p].id
    <2>1. PICK m \in Nat : m = Len(list) /\ DOMAIN list = 1 .. m
      BY SeqFacts
    <2>2. next = [i \in 1 .. m |-> list[i].id]
      BY <1>9, <2>1 DEF KeysOf
    <2>3. ToSet(next) = Ids(list) /\ IsInjective(next) /\ Ids(list) \subseteq setup.keys
      BY <1>9, KeysTell
    <2>4. \A i \in 1 .. m : next[i] \in setup.keys
      BY <2>2, <2>3 DEF ToSet
    <2>. QED
      BY <2>1, <2>2, <2>3, <2>4, SeqMade
  <1>12. PICK set : \E stable :
           /\ InStep(q) => set = DOMAIN q.rows \cap Ids(list)
           /\ InThePreviousOrder(Only(order, set), next, stable)
           /\ MostStay(Only(order, set), next, stable)
           /\ n.moves = q.moves + Cardinality({p \in (1 .. Len(list)) \ stable : list[p].id \in set})
    BY <1>5, <1>8, <1>9 DEF Reconciled
  <1>13. PICK stable :
           /\ InStep(q) => set = DOMAIN q.rows \cap Ids(list)
           /\ InThePreviousOrder(Only(order, set), next, stable)
           /\ MostStay(Only(order, set), next, stable)
           /\ n.moves = q.moves + Cardinality({p \in (1 .. Len(list)) \ stable : list[p].id \in set})
    BY <1>12
  <1>14. set = ToSet(order) \cap ToSet(next)
    BY <1>6, <1>11, <1>13
  <1>15. PICK moved : moved = {p \in (1 .. Len(next)) \ stable : next[p] \in set}
    OBVIOUS
  <1>16. moved = {p \in (1 .. Len(list)) \ stable : list[p].id \in set}
    BY <1>11, <1>15
  <1>17. IsFiniteSet(1 .. Len(next))
    <2>1. Len(next) \in Nat
      BY <1>11, SeqFacts
    <2>. QED
      BY <2>1, FS_Interval
  <1>18. Cardinality(moved) \in Nat
    BY <1>15, <1>17, FS_Subset, FS_CardinalityType
  <1>19. n.moves = Cardinality(moved)
    BY <1>2, <1>4, <1>13, <1>16, <1>18
  <1>20. Fewest(order, next, n.moves)
    <2>1. PICK kept : kept = ToSet(order) \cap ToSet(next)
      OBVIOUS
    <2>2. PICK moves : moves = n.moves
      OBVIOUS
    <2>3. InThePreviousOrder(Only(order, kept), next, stable)
      BY <1>13, <1>14, <2>1
    <2>4. MostStay(Only(order, kept), next, stable)
      BY <1>13, <1>14, <2>1
    <2>5. moves = Cardinality({p \in (1 .. Len(next)) \ stable : next[p] \in kept})
      BY <1>14, <1>15, <1>19, <2>1, <2>2
    <2>6. order \in Seq(setup.keys) /\ next \in Seq(setup.keys)
          /\ IsInjective(order) /\ IsInjective(next)
      BY <1>6, <1>7, <1>11
    <2>7. Fewest(order, next, moves)
      BY <2>1, <2>3, <2>4, <2>5, <2>6, FewestAre
    <2>. QED
      BY <2>2, <2>7
  <1>. QED
    BY <1>7, <1>10, <1>20

LEMMA FinishKeeps ==
  ASSUME NEW n, World(n), NEW asked, Finish(n, asked)
  PROVE  runtime'.order = n.order /\ runtime'.moves = n.moves /\ runtime'.error = n.error
  <1>1. PICK fin : fin = Finished(n)
    OBVIOUS
  <1>2. runtime' = fin
    BY <1>1 DEF Finish, Finished
  <1>. QED
    BY <1>1, <1>2, FinishedIs DEF SameRows

LEMMA FewestMoves ==
  ASSUME setup.feed \in {"host", "action"}, ~ failed,
         runtime'.error = "none" => Fewest(runtime.order, runtime'.order, runtime'.moves)
  PROVE  MovesAreFewest
  <1>1. PICK a : a = runtime.order
    OBVIOUS
  <1>2. PICK b : b = runtime'.order
    OBVIOUS
  <1>3. runtime'.error = "none" => Fewest(a, b, runtime'.moves)
    BY <1>1, <1>2
  <1>. QED
    BY <1>1, <1>2, <1>3 DEF MovesAreFewest, Fewest, Stays

LEMMA InitializeInputMoves ==
  ASSUME IInv, NEW list \in Lists, InitializeInput(list)
  PROVE  MovesAreFewest
  <1>1. PICK r : r = Start
    OBVIOUS
  <1>2. PICK n : n = ReconcileInput(r, list)
    OBVIOUS
  <1>3. setup.feed = "host" /\ Finish(n, list)
    BY <1>1, <1>2 DEF InitializeInput
  <1>4. list \in Seq(AnyRow) /\ Distinct(list)
    BY ListsAre DEF IInv
  <1>5. SameRows(runtime, r) /\ World(r) /\ Fed(r)
    BY <1>1, StartsRight
  <1>6. IsInjective(r.order)
    BY <1>3, <1>5 DEF Fed
  <1>7. World(n)
    <2>1. setup.feed # "snapshot"
      BY <1>3
    <2>. QED
      BY <1>1, <1>2, <1>4, <1>6, <2>1, ReconcileInputSettles DEF Settles
  <1>8. runtime'.order = n.order /\ runtime'.moves = n.moves /\ runtime'.error = n.error
    BY <1>3, <1>7, FinishKeeps
  <1>9. ASSUME ~ failed, n.error = "none" PROVE Fewest(runtime.order, n.order, n.moves)
    <2>1. CASE Len(list) > setup.limit
      <3>1. PICK what : what = "LOOP_ROW_LIMIT_EXCEEDED"
        OBVIOUS
      <3>2. n = Fails(r, what)
        BY <1>2, <2>1, <3>1 DEF ReconcileInput
      <3>3. n.error = what
        BY <1>5, <3>2, FailsIs DEF World
      <3>. QED
        BY <1>9, <3>1, <3>3
    <2>2. CASE ~ (Len(list) > setup.limit)
      <3>1. n = ReconcileLoop(Holding(r, list), list)
        BY <1>2, <2>2 DEF ReconcileInput, Holding
      <3>2. setup.feed \in {"host", "action"}
        BY <1>3
      <3>. QED
        BY <1>1, <1>4, <1>9, <3>1, <3>2, ReconcileMovesFew
    <2>. QED
      BY <2>1, <2>2
  <1>10. CASE ~ failed
    <2>1. setup.feed \in {"host", "action"}
      BY <1>3
    <2>2. ASSUME runtime'.error = "none" PROVE Fewest(runtime.order, runtime'.order, runtime'.moves)
      BY <1>8, <1>9, <1>10, <2>2
    <2>. QED
      BY <1>10, <2>1, <2>2, FewestMoves
  <1>11. CASE failed
    BY <1>11 DEF MovesAreFewest
  <1>. QED
    BY <1>10, <1>11

LEMMA MutateCollectionMoves ==
  ASSUME IInv, NEW kind \in {"append", "keyedReplace", "keyedRemove"}, NEW row \in Rows,
         MutateCollection(kind, row)
  PROVE  MovesAreFewest
  <1>1. PICK r : r = Start
    OBVIOUS
  <1>2. PICK c : c = runtime.collection
    OBVIOUS
  <1>3. PICK at : at = At(KeysOf(c), row.id)
    OBVIOUS
  <1>4. PICK list : list = NextCollection(kind, row, c, at)
    OBVIOUS
  <1>5. /\ setup.feed = "action"
        /\ IF (kind = "append") = (at # 0)
           THEN Finish(Fails(r, "collection key"), promised)
           ELSE Finish(ReconcileLoop(Holding(r, list), list), list)
    BY <1>1, <1>2, <1>3, <1>4, Zenon DEF MutateCollection, NextCollection, Holding
  <1>6. SameRows(runtime, r) /\ World(r) /\ Fed(r) /\ setup \in Setups
    BY <1>1, StartsRight
  <1>7. setup.feed \in {"host", "action"} /\ setup.feed # "snapshot"
    BY <1>5, Zenon
  <1>8. CASE (kind = "append") = (at # 0)
    <2>1. PICK what : what = "collection key"
      BY Zenon
    <2>2. PICK n : n = Fails(r, what)
      OBVIOUS
    <2>3. World(n) /\ n.error = what
      BY <1>1, <2>1, <2>2, FailsSettles, Zenon DEF Settles
    <2>4. Finish(n, promised)
      BY <1>5, <1>8, <2>1, <2>2, Zenon
    <2>5. runtime'.error # "none"
      BY <2>1, <2>3, <2>4, FinishKeeps, Zenon
    <2>. QED
      BY <2>5 DEF MovesAreFewest
  <1>9. CASE (kind = "append") # (at # 0)
    <2>1. c \in Seq(AnyRow) /\ Distinct(c) /\ row \in AnyRow
      BY <1>2, <1>5, RowsAre, Zenon DEF IInv, Fed
    <2>2. list \in Seq(AnyRow) /\ Distinct(list)
      <3>1. CASE kind = "append"
        BY <1>3, <1>4, <1>9, <2>1, <3>1, MutatedIs DEF NextCollection
      <3>2. CASE kind = "keyedReplace"
        BY <1>3, <1>4, <1>9, <2>1, <3>2, MutatedIs DEF NextCollection
      <3>3. CASE kind = "keyedRemove"
        BY <1>3, <1>4, <1>9, <2>1, <3>3, MutatedIs DEF NextCollection
      <3>. QED
        BY <3>1, <3>2, <3>3
    <2>3. PICK n : n = ReconcileLoop(Holding(r, list), list)
      OBVIOUS
    <2>4. IsInjective(r.order)
      BY <1>5, <1>6, Zenon DEF Fed
    <2>5. World(n)
      BY <1>1, <1>7, <2>2, <2>3, <2>4, ReconcileSettles DEF Settles
    <2>6. Finish(n, list)
      BY <1>5, <1>9, <2>3
    <2>7. runtime'.order = n.order /\ runtime'.moves = n.moves /\ runtime'.error = n.error
      BY <2>5, <2>6, FinishKeeps
    <2>8. CASE failed
      BY <2>8 DEF MovesAreFewest
    <2>9. CASE ~ failed
      <3>1. ASSUME n.error = "none" PROVE Fewest(runtime.order, n.order, n.moves)
        BY <1>1, <1>7, <2>2, <2>3, <2>9, <3>1, ReconcileMovesFew
      <3>2. ASSUME runtime'.error = "none"
            PROVE  Fewest(runtime.order, runtime'.order, runtime'.moves)
        BY <2>7, <3>1, <3>2
      <3>. QED
        BY <1>7, <2>9, <3>2, FewestMoves
    <2>. QED
      BY <2>8, <2>9
  <1>. QED
    BY <1>8, <1>9

LEMMA SetStateMoves ==
  ASSUME IInv, SetState
  PROVE  MovesAreFewest
  <1>1. PICK r : r = Start
    OBVIOUS
  <1>2. PICK b : b = Flipped(r)
    OBVIOUS
  <1>3. PICK rows : rows = Readers(b)
    OBVIOUS
  <1>4. PICK n : n = Perform(b, StateUpdates(b, rows))
    OBVIOUS
  <1>5. Finish(n, promised)
    <2>1. Finish(Perform(Flipped(Start), StateUpdates(Flipped(Start), Readers(Flipped(Start)))),
                 promised)
      BY Zenon DEF SetState, Flipped, Readers, ReadsState, StateUpdates
    <2>. QED
      BY <1>1, <1>2, <1>3, <1>4, <2>1
  <1>6. SameRows(runtime, r) /\ World(r) /\ Fed(r) /\ setup \in Setups
    BY <1>1, StartsRight
  <1>7. World(n) /\ n.error = "none" /\ n.order = r.order /\ n.moves = 0
    BY <1>1, <1>2, <1>3, <1>4, SetStateSettles DEF Settles
  <1>8. PICK order : order = runtime.order
    OBVIOUS
  <1>9. r.order = order /\ order \in Seq(setup.keys)
    BY <1>6, <1>8 DEF SameRows, World
  <1>10. runtime'.order = order /\ runtime'.moves = 0
    BY <1>5, <1>7, <1>9, FinishKeeps
  <1>11. ASSUME setup.feed \in {"host", "action"} PROVE Fewest(order, order, 0)
    <2>1. IsInjective(order)
      BY <1>6, <1>9, <1>11 DEF Fed
    <2>2. ToSet(order) \subseteq setup.keys
      BY <1>9, SeqFacts
    <2>3. IsFiniteSet(ToSet(order))
      BY <1>6, <2>2, GraphsAreTyped, FS_Subset
    <2>. QED
      BY <1>9, <2>1, <2>3, OrderStays
  <1>12. CASE setup.feed \in {"host", "action"} /\ ~ failed
    BY <1>8, <1>10, <1>11, <1>12, FewestMoves
  <1>13. CASE ~ (setup.feed \in {"host", "action"} /\ ~ failed)
    BY <1>13 DEF MovesAreFewest
  <1>. QED
    BY <1>12, <1>13

LEMMA NextMoves ==
  ASSUME IInv, Next
  PROVE  MovesAreFewest
  <1>1. ASSUME NEW list \in Lists, InitializeInput(list) PROVE MovesAreFewest
    BY <1>1, InitializeInputMoves
  <1>2. ASSUME NEW list \in Lists, Len(list) = 1, InitializeSnapshotInput(list)
        PROVE  MovesAreFewest
    BY <1>2 DEF InitializeSnapshotInput, MovesAreFewest
  <1>3. ASSUME NEW list \in Lists, ApplyInputSnapshot(list) PROVE MovesAreFewest
    BY <1>3 DEF ApplyInputSnapshot, MovesAreFewest
  <1>4. ASSUME NEW d \in Deltas, ApplyTypedDelta(d) PROVE MovesAreFewest
    BY <1>4 DEF ApplyTypedDelta, MovesAreFewest
  <1>5. ASSUME NEW kind \in {"append", "keyedReplace", "keyedRemove"}, NEW row \in Rows,
               MutateCollection(kind, row)
        PROVE  MovesAreFewest
    BY <1>5, MutateCollectionMoves
  <1>6. CASE SetState
    BY <1>6, SetStateMoves
  <1>. QED
    BY <1>1, <1>2, <1>3, <1>4, <1>5, <1>6 DEF Next

\* Every operation keeps the nodes of the rows it keeps; and an array of the
\* host or a collection of an action relocates as few of them as can be.
THEOREM KeptRowsStayAlways == Spec => KeptRowsStay
  <1>1. Init => IInv
    BY InitInv
  <1>2. IInv /\ [Next]_vars => IInv'
    BY NextInv
  <1>3. IInv /\ [Next]_vars => [KeptRowsKeepTheirNodes /\ MovesAreFewest]_vars
    BY NextInv, NextMoves
  <1>. QED
    BY <1>1, <1>2, <1>3, PTL DEF Spec, KeptRowsStay

=============================================================================
