----------------------------- MODULE ActionsMC -----------------------------
(***************************************************************************)
(* Programs for ActionSource: statements around awaits, calls and try      *)
(* blocks, and expressions of every kind that an action stores.            *)
(***************************************************************************)
EXTENDS ActionSource, FiniteSets

(***************************************************************************)
(* The component the actions belong to: its states, a prop, a host value   *)
(* and a local constant.                                                   *)
(***************************************************************************)

Name(name) == <<"name", name>>
Text(char) == <<"value", String(<<char>>)>>
Num(n) == <<"value", Number(n)>>

Row(name, done, n) ==
    Record([name |-> String(<<name>>), done |-> Boolean(done), n |-> Number(n)])

States ==
    [n |-> Number(2), zero |-> Number(0), flag |-> Boolean(TRUE), none |-> Null,
     empty |-> String(<<>>), row |-> Row("a", FALSE, 1),
     rows |-> Array(<<Row("a", FALSE, 1), Row("b", TRUE, 0)>>)]

Props == [title |-> String(<<" ", "A", "b">>)]
HostValues == [query |-> String(<<"name">>)]

Total == <<"binary", "+", Name("n"), Num(1)>>

MCScope ==
    LET bound == [name \in DOMAIN States |-> <<"state", name>>]
                 @@ [name \in DOMAIN Props |-> <<"prop", name>>]
                 @@ [name \in DOMAIN HostValues |-> <<"host", name>>]
    IN  ("total" :> <<"local", Hir(Total, bound)>>) @@ bound

MCValues ==
    LET known == States @@ Props @@ HostValues IN ("total" :> Js(Total, known)) @@ known

Host == [state |-> States, prop |-> Props, host |-> HostValues, ref |-> <<>>]

(***************************************************************************)
(* Programs of statements: 1 is the action that runs, 2 a helper it awaits *)
(* or calls, 3 and 4 actions the helper awaits, 4 one call deeper than 3.  *)
(***************************************************************************)

Sets(char) == Set(Text(char))
SetsSlot(slot) == Set(Name(slot))
ThrowsText == Throws(Text("thrown"))
ReturnsText == Returns(Text("v"))

Awaits(slot) == { AwaitFetch(slot), AwaitCall(2, slot), Declare(slot, Text("d")) }

Others == { Sets("a"), ThrowsText, ReturnsText,
            If(<<AwaitFetch("first")>>, <<ThrowsText>>) }

Bodies ==
    { <<s>> : s \in Awaits("first") \cup Others }
    \cup { <<s, t>> : s \in Awaits("first"),
                      t \in Awaits("second") \cup Others
                            \cup {SetsSlot("first"), Throws(Name("first"))} }
    \cup { <<s, t>> : s \in {Sets("a"), If(<<AwaitFetch("first")>>, <<ThrowsText>>)},
                      t \in Awaits("second") \cup Others }
    \cup { <<s, t, u>> : s \in Awaits("first"), t \in Awaits("second"),
                         u \in { SetsSlot("second"), Throws(Name("second")),
                                 Returns(Name("first")),
                                 AwaitFetch("late"), AwaitCall(2, "late") } }

Handlers == { <<SetsSlot("caught")>>, <<AwaitFetch("second"), SetsSlot("second")>>,
              <<Throws(Name("caught"))>> }

Helpers == { <<Sets("h"), Returns(Text("h"))>>, <<Throws(Text("h"))>>,
             <<AwaitFetch("first"), Returns(Name("first"))>>,
             <<Try(<<AwaitCall(3, "first")>>, "caught", <<Returns(Name("caught"))>>, <<>>)>>,
             <<AwaitCall(4, "first"), Sets("h")>> }

Rest == <<Sets("z")>>

Leaf == <<AwaitFetch("first"), Sets("leaf")>>

Deep == <<AwaitCall(3, "first"), Throws(Name("first"))>>

\* A finally block, and one that suspends.
Finallies == { <<Sets("f")>>,
               <<Try(<<AwaitFetch("second")>>, "late", <<SetsSlot("late")>>, <<>>), Sets("f")>> }

\* try/catch around every body, or a bare body, with statements after it; a
\* finally block that ends the action and whose body begins with its only
\* fetch; call statements of a synchronous action; a loader that redirects.
Statements ==
    { << <<Try(b, "caught", h, <<>>)>> \o Rest, f, Leaf, Deep >> :
        b \in Bodies, h \in Handlers, f \in Helpers }
    \cup { << b \o Rest, f, Leaf, Deep >> : b \in Bodies, f \in Helpers }
    \cup { << <<Try(<<AwaitFetch("first")>> \o b, "caught", <<SetsSlot("caught")>>, finally)>>,
              f, Leaf, Deep >> :
            b \in {<<>>, <<AwaitCall(2, "second")>>, <<Sets("a")>>, <<ThrowsText>>,
                   <<ReturnsText>>}, f \in Helpers,
            finally \in Finallies }
    \cup { << <<CallStatement(2)>> \o b, <<Sets("h")>>, Leaf, Deep >> : b \in Bodies }
    \cup { << <<AwaitFetch("first"), If(<<ThrowRedirect>>, <<Returns(Name("first"))>>)>>,
              Leaf, Leaf, Deep >> }

(***************************************************************************)
(* Programs of expressions: an action stores one expression.               *)
(***************************************************************************)

Atoms == { Name(name) : name \in {"n", "zero", "flag", "none", "empty", "row", "rows",
                                  "title", "query", "total", "undefined"} }
         \cup { Num(2), Text("a") }

Member(e, field) == <<"member", e, field>>

\* Operands of every type, and the tests among them.
Operands == Atoms \cup { Member(Name("title"), "length"), Member(Name("row"), "name") }

Binaries(left, right) ==
    { <<"binary", op, l, r>> : op \in DOMAIN Operators, l \in left, r \in right }
    \cup { <<"logical", op, l, r>> : op \in DOMAIN LogicalOperators, l \in left, r \in right }

Unaries(operands) == { <<"unary", op, e>> : op \in DOMAIN UnaryOperators, e \in operands }

Reads ==
    { <<kind, e, field>> : kind \in {"member", "optional"}, e \in Atoms,
                           field \in {"name", "length", "missing"} }
    \cup { <<"index", e, k>> : e \in Atoms, k \in {Num(0), Num(2), Name("zero"), Name("query")} }

Texts ==
    { <<"method", name, e, <<>> >> : name \in {"trim", "toLowerCase", "toUpperCase"}, e \in Atoms }
    \cup { <<"method", "includes", e, <<sought>> >> : e \in Atoms, sought \in {Text("A"), Text("a"), Name("empty")} }
    \cup { <<"template", << <<"text", Text("a")>>, <<"part", e>>, <<"text", Text("b")>> >> >> : e \in Operands }

\* Some expressions of each kind, to be parts of others.
Parts ==
    { Name("n"), Name("flag"), Name("none"), Name("title"), Member(Name("row"), "name"),
      <<"binary", "-", Name("n"), Name("total")>>,
      <<"binary", ">", Name("n"), Name("zero")>>,
      <<"logical", "??", Name("none"), Name("n")>>,
      <<"logical", "&&", Name("flag"), Name("title")>>,
      <<"cond", Name("zero"), Text("a"), Name("n")>>,
      <<"method", "trim", Name("title"), <<>> >> }

Nested ==
    Binaries(Parts, Parts) \cup Unaries(Parts)
    \cup { <<"cond", test, then, else>> : test \in Parts, then \in Parts, else \in Parts }

Collections ==
    { <<"array", << <<"item", e>>, <<kind, f>> >> >> :
        kind \in {"item", "spread"}, e \in Parts, f \in {Name("rows"), Name("n"), Name("title")} }
    \cup { <<"array", << <<"item", Name("n")>>, <<"item", Name("zero")>>, <<"item", e>>, <<"spread", Name("rows")>> >> >> :
            e \in Parts }
    \cup { <<"object", << <<"property", "name", e>>, <<kind, "n", f>>, <<"property", "done", e>> >> >> :
            kind \in {"property", "spread"}, e \in Parts, f \in {Name("row"), Name("none"), Name("n")} }
    \cup { <<"without", Name("row"), names>> : names \in SUBSET {"name", "n", "missing"} }
    \cup { <<"isError", e>> : e \in Operands \cup {<<"newError", Text("a")>>} }
    \cup { <<"newError", e>> : e \in Parts }

\* What a callback makes of a row, with its own test or template.
Callbacks ==
    LET item == Name("item") IN
    { item, Name("n"), Member(item, "done"), <<"unary", "!", Member(item, "done")>>,
      <<"binary", "===", Member(item, "name"), Text("a")>>,
      <<"cond", Member(item, "done"), Member(item, "name"), Name("title")>>,
      <<"object", << <<"spread", "", item>>, <<"property", "done", <<"unary", "!", Member(item, "done")>> >> >> >>,
      <<"cond", <<"binary", "===", Member(item, "name"), Name("title")>>,
                <<"object", << <<"spread", "", item>>, <<"property", "n", Num(0)>> >> >>, item>>,
      <<"map", Name("rows"), "item", Member(item, "n")>> }

Transforms ==
    LET sources == { Name("rows"), Name("row"),
                     <<"array", << <<"spread", Name("rows")>>, <<"item", Name("row")>> >> >> }
        once == { <<kind, e, "item", callback>> :
                    kind \in {"map", "filter"}, e \in sources, callback \in Callbacks }
    IN  once
        \cup { Member(e, "length") : e \in once }
        \cup { <<"map", e, "item", <<"binary", "+", Member(Name("item"), "n"), Name("total")>> >> : e \in once }

Sources ==
    UNION { Atoms, Binaries(Operands, Operands), Unaries(Operands), Reads, Texts,
            Nested, Collections, Transforms }

\* What JavaScript says without converting, and the compiler accepts.
Stored ==
    { e \in Sources : Js(e, MCValues) # Converts /\ IsExecutable(Program(Hir(e, MCScope), FALSE)) }

(***************************************************************************)
(* Artifacts                                                               *)
(***************************************************************************)

Artifact(statements, height) ==
    [actions |-> [action \in DOMAIN statements |-> Compiled(statements[action])],
     meaning |-> Meaning(statements, statements[1], NoBindings),
     host |-> Host, height |-> height]

Programs ==
    UNION { { <<program, 1>> : program \in Statements },
            { << << <<Set(e)>> >>, Height(e, "total" :> Total) >> : e \in Stored } }

CompiledPrograms == { Artifact(program[1], program[2]) : program \in Programs }

ASSUME Cardinality(Stored) > 1000

\* What the compiler makes of an action the browser accepts.
ASSUME \A compiled \in CompiledPrograms : ValidActions(compiled.actions)

\* The props a component spreads into a library component are the object that
\* JavaScript would spread.
ASSUME
    \A e \in Collections :
        e[1] = "object" /\ Js(e, MCValues) # Converts =>
            Evaluated(ComponentPropsRecord(HirObject(e[2], MCScope), FALSE),
                      [row |-> <<>>, frame |-> <<>>] @@ Host) \in {Js(e, MCValues), Failed("stack")}
=============================================================================
