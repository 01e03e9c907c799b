----------------------------- MODULE Expressions -----------------------------
(***************************************************************************)
(* Expressions of the source: what the front end makes of them (Hir), the  *)
(* stack program they are lowered to (Program), and the evaluator that     *)
(* server and browser share (Evaluated).                                   *)
(*                                                                         *)
(* A value is tagged with its type.  A string is a sequence of characters. *)
(* JavaScript's undefined is null, as the front end has it.  A program a   *)
(* map or filter refers to by handle is part of its instruction.  Handles, *)
(* spans and the size in bytes of a value are left out, and so is fuel: no *)
(* emitted program jumps backwards.  Division is left out, and the text of *)
(* JSON and of a component of a URI.                                       *)
(***************************************************************************)
EXTENDS Integers, SequencesExt

CONSTANTS
    MaxStack,       \* MAX_EVAL_STACK_VALUES
    MaxNesting      \* MAX_EVAL_NESTING

(***************************************************************************)
(* Values                                                                  *)
(***************************************************************************)

Null == <<"null">>
Boolean(b) == <<"boolean", b>>
Number(n) == <<"number", n>>
String(chars) == <<"string", chars>>
Array(items) == <<"array", items>>
Record(fields) == <<"record", fields>>

Is(type, value) == value[1] = type

Truthy(value) ==
    CASE Is("null", value) -> FALSE
      [] Is("boolean", value) -> value[2]
      [] Is("number", value) -> value[2] # 0
      [] Is("string", value) -> value[2] # <<>>
      [] Is("array", value) -> value[2] # <<>>
      [] Is("record", value) -> TRUE

\* The text of a collection is its JSON, here one character.
DomString(value) ==
    CASE Is("null", value) -> <<>>
      [] Is("boolean", value) -> IF value[2] THEN <<"true">> ELSE <<"false">>
      [] Is("number", value) -> <<ToString(value[2])>>
      [] Is("string", value) -> value[2]
      [] OTHER -> << <<"json", value>> >>

ToNumber(value) == IF Is("number", value) THEN value[2] ELSE 0
Items(value) == IF Is("array", value) THEN value[2] ELSE <<>>
Fields(value) == IF Is("record", value) THEN value[2] ELSE <<>>

Get(fields, name) == IF name \in DOMAIN fields THEN fields[name] ELSE Null

At(items, n) == IF n \in 0..(Len(items) - 1) THEN items[n + 1] ELSE Null

(***************************************************************************)
(* Source: an expression is a tuple that begins with its kind.  A scope    *)
(* says what each name is bound to; a local stands for its initializer.    *)
(***************************************************************************)

Refused == <<"refused">>

\* == and === are one operator, and so are != and !==.
Operators ==
    ("==" :> "equal") @@ ("===" :> "equal") @@ ("!=" :> "notEqual") @@ ("!==" :> "notEqual")
    @@ ("+" :> "add") @@ ("-" :> "subtract") @@ ("*" :> "multiply")
    @@ (">" :> "greater") @@ (">=" :> "greaterEqual") @@ ("<" :> "less") @@ ("<=" :> "lessEqual")

LogicalOperators == ("&&" :> "and") @@ ("||" :> "or") @@ ("??" :> "coalesce")

UnaryOperators == ("!" :> "not") @@ ("+" :> "plus") @@ ("-" :> "minus")

Methods == [trim |-> "trim", toLowerCase |-> "lower", toUpperCase |-> "upper",
            includes |-> "includes"]

RECURSIVE Hir(_, _)

HirItems(items, scope) == [i \in DOMAIN items |-> <<items[i][1], Hir(items[i][2], scope)>>]

\* A property written {name} is dropped: only key and value pairs are read.
HirObject(items, scope) ==
    LET kept == SelectSeq(items, LAMBDA item : item[1] # "shorthand")
    IN  [i \in DOMAIN kept |-> <<kept[i][1], kept[i][2], Hir(kept[i][3], scope)>>]

\* The empty strings between the expressions of a template are dropped.
HirTemplate(items, scope) ==
    HirItems(SelectSeq(items, LAMBDA item : item[2] # <<"value", String(<<>>)>>), scope)

\* map and filter take an inline callback of one parameter.
HirTransform(e, scope) ==
    <<e[1], Hir(e[2], scope), Hir(e[4], (e[3] :> <<"item">>) @@ scope)>>

HirMethod(e, scope) ==
    IF e[2] \in DOMAIN Methods /\ Len(e[4]) = (IF e[2] = "includes" THEN 1 ELSE 0)
    THEN <<"builtin", Methods[e[2]],
           <<Hir(e[3], scope)>> \o [i \in DOMAIN e[4] |-> Hir(e[4][i], scope)]>>
    ELSE Refused

\* Loader data, parameters, search and cookies are host values: a name each.
HirName(name, scope) ==
    IF name = "undefined" THEN <<"value", Null>>
    ELSE IF name \in DOMAIN scope THEN scope[name] ELSE Refused

\* An optional read is the plain one, which never throws.
HirMember(e, scope) ==
    IF e[1] = "index" THEN <<"index", Hir(e[2], scope), Hir(e[3], scope)>>
    ELSE <<"member", Hir(e[2], scope), e[3]>>

ErrorName == <<"value", String(<<"Error">>)>>

HirNewError(message, scope) ==
    <<"object", << <<"property", "name", ErrorName>>, <<"property", "message", Hir(message, scope)>> >> >>

HirOperator(e, scope) ==
    CASE e[1] = "unary" /\ e[2] \in DOMAIN UnaryOperators ->
            <<"unary", UnaryOperators[e[2]], Hir(e[3], scope)>>
      [] e[1] = "binary" /\ e[2] \in DOMAIN Operators ->
            <<"binary", Operators[e[2]], Hir(e[3], scope), Hir(e[4], scope)>>
      [] e[1] = "logical" ->
            <<"binary", LogicalOperators[e[2]], Hir(e[3], scope), Hir(e[4], scope)>>
      [] e[1] = "isError" -> <<"binary", "instanceofError", Hir(e[2], scope), ErrorName>>
      [] OTHER -> Refused

Hir(e, scope) ==
    CASE e[1] = "value" -> e
      [] e[1] = "name" -> HirName(e[2], scope)
      [] e[1] \in {"member", "optional", "index"} -> HirMember(e, scope)
      [] e[1] \in {"unary", "binary", "logical", "isError"} -> HirOperator(e, scope)
      [] e[1] = "newError" -> HirNewError(e[2], scope)
      [] e[1] = "cond" -> <<"cond", Hir(e[2], scope), Hir(e[3], scope), Hir(e[4], scope)>>
      [] e[1] = "template" -> <<"template", HirTemplate(e[2], scope)>>
      [] e[1] = "array" -> <<"array", HirItems(e[2], scope)>>
      [] e[1] = "object" -> <<"object", HirObject(e[2], scope)>>
      [] e[1] = "without" -> <<"without", Hir(e[2], scope), e[3]>>
      [] e[1] \in {"map", "filter"} -> HirTransform(e, scope)
      [] e[1] = "method" -> HirMethod(e, scope)
      [] OTHER -> Refused

(***************************************************************************)
(* Lowering to a stack program.  Targets count instructions from 1.        *)
(***************************************************************************)

Ins(op, argument) == [op |-> op, argument |-> argument]

LoadOps == {"state", "prop", "frame", "host", "ref", "rowRecord", "rowField"}

Unset == 0

RECURSIVE Emit(_, _, _)

EmitAll(parts, row, code) == FoldLeft(LAMBDA sofar, part : Emit(part, row, sofar), code, parts)

\* As with an action's if: both jumps are filled in when their targets are known.
EmitConditional(h, row, code) ==
    LET test == Emit(h[2], row, code)
        jumpFalse == Len(test) + 1
        consequent == Emit(h[3], row, Append(test, Ins("jumpIfFalse", Unset)))
        jumpEnd == Len(consequent) + 1
        alternate == Emit(h[4], row, Append(consequent, Ins("jump", Unset)))
    IN  [alternate EXCEPT ![jumpFalse].argument = jumpEnd + 1,
                          ![jumpEnd].argument = Len(alternate) + 1]

Program(h, row) == Append(Emit(h, row, <<>>), Ins("return", Null))

IsRead(h) == h[1] \in {"state", "prop", "frame", "host", "ref", "item", "local"}

\* A local is its initializer, at every place that reads it.
EmitRead(h, row, code) ==
    CASE h[1] = "local" -> Emit(h[2], row, code)
      [] h[1] = "item" -> Append(code, Ins(IF row THEN "rowRecord" ELSE "refused", Null))
      [] OTHER -> Append(code, Ins(h[1], h[2]))

EmitMember(h, row, code) ==
    CASE h[1] = "index" -> Append(EmitAll(Tail(h), row, code), Ins("index", Null))
      [] h[2] = <<"item">> -> Append(code, Ins(IF row THEN "rowField" ELSE "refused", h[3]))
      [] OTHER -> Append(Emit(h[2], row, code), Ins("field", h[3]))

EmitOperator(h, row, code) ==
    IF h[1] = "unary" THEN Append(Emit(h[3], row, code), Ins("unary", h[2]))
    ELSE Append(EmitAll(<<h[3], h[4]>>, row, code), Ins("binary", h[2]))

\* What is made of several values, once all of them are on the stack.
EmitMade(h, row, code) ==
    LET Parts(n) == [i \in DOMAIN h[2] |-> h[2][i][n]]
        After(parts, op, argument) == Append(EmitAll(parts, row, code), Ins(op, argument))
    IN  CASE h[1] = "template" -> After(Parts(2), "string", <<"concat", Len(h[2])>>)
          [] h[1] = "builtin" -> After(h[3], "string", <<h[2], Len(h[3])>>)
          [] h[1] = "array" ->
                After(Parts(2), "makeArray", [i \in DOMAIN h[2] |-> h[2][i][1] = "spread"])
          [] h[1] = "object" ->
                After(Parts(3), "makeRecord",
                      [i \in DOMAIN h[2] |-> <<h[2][i][1] = "spread", h[2][i][2]>>])

\* The callback is a program of its own, in which a row can be read.
EmitTransform(h, row, code) ==
    Append(Emit(h[2], row, code), Ins(h[1], Program(h[3], TRUE)))

Emit(h, row, code) ==
    CASE h[1] = "value" -> Append(code, Ins("constant", h[2]))
      [] IsRead(h) -> EmitRead(h, row, code)
      [] h[1] \in {"member", "index"} -> EmitMember(h, row, code)
      [] h[1] \in {"unary", "binary"} -> EmitOperator(h, row, code)
      [] h[1] = "cond" -> EmitConditional(h, row, code)
      [] h[1] \in {"template", "builtin", "array", "object"} -> EmitMade(h, row, code)
      [] h[1] = "without" -> Append(Emit(h[2], row, code), Ins("omitFields", h[3]))
      [] h[1] \in {"map", "filter"} -> EmitTransform(h, row, code)
      [] OTHER -> Append(code, Ins("refused", Null))

RECURSIVE IsExecutable(_)
IsExecutable(program) ==
    \A i \in DOMAIN program :
        /\ program[i].op # "refused"
        /\ program[i].op \in {"map", "filter"} => IsExecutable(program[i].argument)

\* The props of a library component that spreads them: one record.
ComponentPropsRecord(props, row) ==
    IF \A i \in DOMAIN props : props[i][1] \in {"property", "spread"}
    THEN Append(Emit(<<"object", props>>, row, <<>>), Ins("return", Null))
    ELSE << Ins("refused", Null) >>

(***************************************************************************)
(* The evaluator                                                           *)
(***************************************************************************)

Failed(reason) == <<"failed", reason>>

LowerCase(char) == IF char = "A" THEN "a" ELSE char
UpperCase(char) == IF char = "a" THEN "A" ELSE char

\* trim on strings of one character stands for trim.
StringOp(kind, parts) ==
    CASE kind = "trim" -> String(SelectSeq(DomString(parts[1]), LAMBDA char : char # " "))
      [] kind = "lower" -> String([i \in DOMAIN DomString(parts[1]) |-> LowerCase(DomString(parts[1])[i])])
      [] kind = "upper" -> String([i \in DOMAIN DomString(parts[1]) |-> UpperCase(DomString(parts[1])[i])])
      [] kind = "includes" ->
            Boolean(\E i, j \in 0..Len(DomString(parts[1])) :
                        SubSeq(DomString(parts[1]), i + 1, j) = DomString(parts[2]))
      [] OTHER -> String(FlattenSeq([i \in DOMAIN parts |-> DomString(parts[i])]))

BinaryOp(kind, l, r) ==
    CASE kind = "equal" -> Boolean(l = r)
      [] kind = "notEqual" -> Boolean(l # r)
      [] kind = "instanceofError" -> Boolean({"kind", "message"} \cap DOMAIN Fields(l) # {})
      [] kind = "and" -> IF Truthy(l) THEN r ELSE l
      [] kind = "or" -> IF Truthy(l) THEN l ELSE r
      [] kind = "coalesce" -> IF l = Null THEN r ELSE l
      [] kind = "add" -> IF Is("number", l) /\ Is("number", r) THEN Number(l[2] + r[2])
                         ELSE String(DomString(l) \o DomString(r))
      [] kind = "subtract" -> Number(ToNumber(l) - ToNumber(r))
      [] kind = "multiply" -> Number(ToNumber(l) * ToNumber(r))
      [] kind = "greater" -> Boolean(ToNumber(l) > ToNumber(r))
      [] kind = "greaterEqual" -> Boolean(ToNumber(l) >= ToNumber(r))
      [] kind = "less" -> Boolean(ToNumber(l) < ToNumber(r))
      [] kind = "lessEqual" -> Boolean(ToNumber(l) <= ToNumber(r))

UnaryOp(kind, v) ==
    CASE kind = "not" -> Boolean(~Truthy(v))
      [] kind = "minus" -> Number(0 - ToNumber(v))
      [] kind = "plus" -> v

FieldOf(v, name) ==
    CASE Is("record", v) -> Get(v[2], name)
      [] v[1] \in {"array", "string"} /\ name = "length" -> Number(Len(v[2]))
      [] OTHER -> Null

\* An index of digits in a string, or a number as the name of a field, is left out.
IndexOf(o, k) ==
    CASE Is("record", o) /\ Is("string", k) /\ Len(k[2]) = 1 -> Get(o[2], k[2][1])
      [] Is("array", o) /\ Is("number", k) -> At(o[2], k[2])
      [] Is("string", o) /\ Is("number", k) /\ k[2] \in 0..(Len(o[2]) - 1) ->
            String(<<o[2][k[2] + 1]>>)
      [] OTHER -> Null

MakeArray(values, spreads) ==
    Array(FlattenSeq([i \in DOMAIN values |-> IF spreads[i] THEN Items(values[i]) ELSE <<values[i]>>]))

\* Later fields win.
MakeRecord(values, fields) ==
    Record(FoldLeft(LAMBDA record, i : (IF fields[i][1] THEN Fields(values[i])
                                        ELSE fields[i][2] :> values[i]) @@ record,
                    <<>>, [i \in DOMAIN values |-> i]))

OmitFields(v, names) == Record([name \in DOMAIN Fields(v) \ names |-> Fields(v)[name]])

\* How many values an instruction takes from the stack.
Takes(ins) ==
    CASE ins.op \in LoadOps \cup {"constant", "jump", "return"} -> 0
      [] ins.op \in {"binary", "index"} -> 2
      [] ins.op = "string" -> ins.argument[2]
      [] ins.op \in {"makeArray", "makeRecord"} -> Len(ins.argument)
      [] OTHER -> 1

RECURSIVE Exec(_, _, _, _, _)

\* The rows of a map or filter: what is not a record counts as an empty one.
Transformed(ins, source, host, depth) ==
    LET items == Items(source)
        rows == [i \in DOMAIN items |-> Fields(items[i])]
        values == [i \in DOMAIN items |->
                        Exec(ins.argument, 1, <<>>, [host EXCEPT !.row = rows[i]], depth + 1)]
        failures == { i \in DOMAIN items : Is("failed", values[i]) }
        kept == SelectSeq([i \in DOMAIN items |-> i], LAMBDA i : Truthy(values[i]))
    IN  IF failures # {} THEN values[CHOOSE i \in failures : \A j \in failures : i <= j]
        ELSE IF ins.op = "map" THEN Array(values)
        ELSE Array([i \in DOMAIN kept |-> Record(rows[kept[i]])])

\* What the host has none of is null.
Load(op, name, host) ==
    CASE op = "rowRecord" -> Record(host.row)
      [] op = "rowField" -> Get(host.row, name)
      [] OTHER -> Get(host[op], name)

Result(ins, taken, host, depth) ==
    CASE ins.op = "constant" -> ins.argument
      [] ins.op \in LoadOps -> Load(ins.op, ins.argument, host)
      [] ins.op = "field" -> FieldOf(taken[1], ins.argument)
      [] ins.op = "index" -> IndexOf(taken[1], taken[2])
      [] ins.op \in {"map", "filter"} -> Transformed(ins, taken[1], host, depth)
      [] ins.op = "string" -> StringOp(ins.argument[1], taken)
      [] ins.op = "makeArray" -> MakeArray(taken, ins.argument)
      [] ins.op = "makeRecord" -> MakeRecord(taken, ins.argument)
      [] ins.op = "omitFields" -> OmitFields(taken[1], ins.argument)
      [] ins.op = "unary" -> UnaryOp(ins.argument, taken[1])
      [] ins.op = "binary" -> BinaryOp(ins.argument, taken[1], taken[2])

Exec(code, pc, stack, host, depth) ==
    IF depth > MaxNesting THEN Failed("nesting")
    ELSE IF pc > Len(code) \/ code[pc].op = "return" THEN IF stack = <<>> THEN Null ELSE Last(stack)
    ELSE
        LET ins == code[pc]
            under == Len(stack) - Takes(ins)
            taken == SubSeq(stack, under + 1, Len(stack))
            rest == SubSeq(stack, 1, under)
            Push(value) ==
                CASE Is("failed", value) -> value
                  [] Len(rest) >= MaxStack -> Failed("stack")
                  [] OTHER -> Exec(code, pc + 1, Append(rest, value), host, depth)
        IN  CASE under < 0 -> Failed("underflow")
              [] ins.op = "jump" -> Exec(code, ins.argument, stack, host, depth)
              [] ins.op = "jumpIfFalse" ->
                    Exec(code, IF Truthy(taken[1]) THEN pc + 1 ELSE ins.argument, rest, host, depth)
              [] OTHER -> Push(Result(ins, taken, host, depth))

Evaluated(program, host) == Exec(program, 1, <<>>, host, 0)
=============================================================================
