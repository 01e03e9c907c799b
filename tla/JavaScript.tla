----------------------------- MODULE JavaScript -----------------------------
(***************************************************************************)
(* What JavaScript means by an expression of module Expressions, wherever  *)
(* it neither converts a value from one type to another nor throws;        *)
(* Converts elsewhere.  It is what the evaluator is held against.          *)
(***************************************************************************)
EXTENDS Expressions

Converts == <<"converts">>

Scalar(v) == v[1] \in {"null", "boolean", "number", "string"}
Printable(v) == v[1] \in {"boolean", "number", "string"}

\* An empty array is true in JavaScript and not so to the evaluator.
Tested(v, then, else) ==
    IF v[1] \in {"array", "converts"} THEN Converts ELSE IF Truthy(v) THEN then ELSE else

JsEqual(loose, l, r) ==
    CASE ~Scalar(l) \/ ~Scalar(r) -> IF l = Null \/ r = Null THEN Boolean(FALSE) ELSE Converts
      [] loose /\ l # Null /\ r # Null /\ l[1] # r[1] -> Converts
      [] OTHER -> Boolean(l = r)

JsNot(v) == IF v = Converts THEN v ELSE Boolean(~v[2])

JsBinary(op, l, r) ==
    CASE Converts \in {l, r} -> Converts
      [] op \in {"==", "==="} -> JsEqual(op = "==", l, r)
      [] op \in {"!=", "!=="} -> JsNot(JsEqual(op = "!=", l, r))
      [] op = "+" /\ "string" \in {l[1], r[1]} ->
            IF Printable(l) /\ Printable(r) THEN String(DomString(l) \o DomString(r)) ELSE Converts
      [] ~(Is("number", l) /\ Is("number", r)) -> Converts
      [] op = "+" -> Number(l[2] + r[2])
      [] op = "-" -> Number(l[2] - r[2])
      [] op = "*" -> Number(l[2] * r[2])
      [] op = "<" -> Boolean(l[2] < r[2])
      [] op = "<=" -> Boolean(l[2] <= r[2])
      [] op = ">" -> Boolean(l[2] > r[2])
      [] op = ">=" -> Boolean(l[2] >= r[2])

JsUnary(op, v) ==
    CASE op = "!" -> Tested(v, Boolean(FALSE), Boolean(TRUE))
      [] Is("number", v) -> Number(IF op = "-" THEN 0 - v[2] ELSE v[2])
      [] OTHER -> Converts

JsMember(v, name, optional) ==
    CASE Is("null", v) -> IF optional THEN Null ELSE Converts
      [] Is("record", v) \/ (v[1] \in {"array", "string"} /\ name = "length") -> FieldOf(v, name)
      [] OTHER -> Converts

JsIndex(o, k) ==
    IF \/ Is("array", o) /\ Is("number", k)
       \/ Is("string", o) /\ Is("number", k)
       \/ Is("record", o) /\ Is("string", k)
    THEN IndexOf(o, k) ELSE Converts

JsMethod(name, parts) ==
    IF \E i \in DOMAIN parts : ~Is("string", parts[i]) THEN Converts
    ELSE StringOp(Methods[name], parts)

JsIsError(v) ==
    CASE v = Converts -> Converts
      [] Is("record", v) /\ {"name", "message"} \subseteq DOMAIN v[2] -> Boolean(TRUE)
      [] Is("record", v) /\ {"kind", "message"} \cap DOMAIN v[2] # {} -> Converts
      [] OTHER -> Boolean(FALSE)

\* Nothing if a part has no meaning here, else what Build makes of the parts.
JsAll(parts, Allowed(_), Build(_)) ==
    IF \A i \in DOMAIN parts : parts[i] # Converts /\ Allowed(i) THEN Build(parts) ELSE Converts

JsLogical(op, left, right) ==
    CASE op = "??" -> IF left = Null THEN right ELSE left
      [] op = "&&" -> Tested(left, right, left)
      [] op = "||" -> Tested(left, left, right)

RECURSIVE Js(_, _)

JsTransform(e, env) ==
    LET source == Js(e[2], env)
        values == [i \in DOMAIN Items(source) |-> Js(e[4], (e[3] :> Items(source)[i]) @@ env)]
        kept == SelectSeq([i \in DOMAIN values |-> i],
                          LAMBDA i : Tested(values[i], TRUE, FALSE) = TRUE)
    IN  CASE ~Is("array", source) -> Converts
          [] \E i \in DOMAIN values :
                values[i] = Converts \/ (e[1] = "filter" /\ Is("array", values[i])) -> Converts
          [] e[1] = "map" -> Array(values)
          [] e[1] = "filter" -> Array([i \in DOMAIN kept |-> Items(source)[kept[i]]])

JsObject(items, env) ==
    LET parts == [i \in DOMAIN items |-> Js(items[i][3], env)]
        fields == [i \in DOMAIN items |-> <<items[i][1] = "spread", items[i][2]>>]
    IN  JsAll(parts, LAMBDA i : fields[i][1] => parts[i][1] \in {"record", "null"},
              LAMBDA values : MakeRecord(values, fields))

JsArray(items, env) ==
    LET parts == [i \in DOMAIN items |-> Js(items[i][2], env)]
        spreads == [i \in DOMAIN items |-> items[i][1] = "spread"]
    IN  JsAll(parts, LAMBDA i : spreads[i] => Is("array", parts[i]),
              LAMBDA values : MakeArray(values, spreads))

JsTemplate(items, env) ==
    LET parts == [i \in DOMAIN items |-> Js(items[i][2], env)]
    IN  JsAll(parts, LAMBDA i : Printable(parts[i]), LAMBDA values : StringOp("concat", values))

Js(e, env) ==
    CASE e[1] = "value" -> e[2]
      [] e[1] = "name" -> IF e[2] = "undefined" THEN Null ELSE env[e[2]]
      [] e[1] \in {"member", "optional"} -> JsMember(Js(e[2], env), e[3], e[1] = "optional")
      [] e[1] = "index" -> JsIndex(Js(e[2], env), Js(e[3], env))
      [] e[1] = "unary" -> JsUnary(e[2], Js(e[3], env))
      [] e[1] = "binary" -> JsBinary(e[2], Js(e[3], env), Js(e[4], env))
      [] e[1] = "logical" -> JsLogical(e[2], Js(e[3], env), Js(e[4], env))
      [] e[1] = "isError" -> JsIsError(Js(e[2], env))
      [] e[1] = "newError" ->
            JsObject(<< <<"property", "name", <<"value", String(<<"Error">>)>> >>,
                        <<"property", "message", e[2]>> >>, env)
      [] e[1] = "cond" -> Tested(Js(e[2], env), Js(e[3], env), Js(e[4], env))
      [] e[1] = "template" -> JsTemplate(e[2], env)
      [] e[1] = "array" -> JsArray(e[2], env)
      [] e[1] = "object" -> JsObject(e[2], env)
      [] e[1] = "without" -> LET v == Js(e[2], env)
                             IN  IF Is("record", v) THEN OmitFields(v, e[3]) ELSE Converts
      [] e[1] \in {"map", "filter"} -> JsTransform(e, env)
      [] e[1] = "method" ->
            JsMethod(e[2], <<Js(e[3], env)>> \o [i \in DOMAIN e[4] |-> Js(e[4][i], env)])

\* How many values are on the stack at once while an expression is evaluated;
\* a name of locals is evaluated where it is used.
RECURSIVE Height(_, _)
HeightOf(parts, locals) ==
    FoldLeft(LAMBDA most, i : LET h == i - 1 + Height(parts[i], locals)
                              IN  IF h > most THEN h ELSE most,
             1, [i \in DOMAIN parts |-> i])
Height(e, locals) ==
    LET OfParts(parts) == HeightOf(parts, locals) IN
    CASE e[1] = "value" -> 1
      [] e[1] = "name" -> IF e[2] \in DOMAIN locals THEN Height(locals[e[2]], locals) ELSE 1
      [] e[1] \in {"member", "optional", "isError", "without", "map", "filter"} ->
            Height(e[2], locals)
      [] e[1] = "index" -> OfParts(<<e[2], e[3]>>)
      [] e[1] = "newError" -> OfParts(<< <<"value", Null>>, e[2]>>)
      [] e[1] = "unary" -> Height(e[3], locals)
      [] e[1] \in {"binary", "logical"} -> OfParts(<<e[3], e[4]>>)
      [] e[1] = "cond" -> LET heights == {Height(e[i], locals) : i \in 2..4}
                          IN  CHOOSE h \in heights : \A other \in heights : h >= other
      [] e[1] \in {"template", "array"} -> OfParts([i \in DOMAIN e[2] |-> e[2][i][2]])
      [] e[1] = "object" -> OfParts([i \in DOMAIN e[2] |-> e[2][i][3]])
      [] e[1] = "method" -> OfParts(<<e[3]>> \o e[4])
=============================================================================
