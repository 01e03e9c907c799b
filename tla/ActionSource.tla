---------------------------- MODULE ActionSource ----------------------------
(***************************************************************************)
(* Action source, what it compiles to (plec-lowering) and what it means:   *)
(* the compiled action, run on ActionMachine, is held against the meaning  *)
(* TypeScript gives the statements it was compiled from.                   *)
(*                                                                         *)
(* A program is a sequence of actions, an action a sequence of statements. *)
(* A local binding is a slot: declarations are the only assignments, so a  *)
(* slot is set once and read only where its declaration is in scope.       *)
(* Left out: call statements of actions that suspend, awaited callable     *)
(* parameters, `return await`, server actions and cookies, which suspend   *)
(* as a fetch does.                                                        *)
(***************************************************************************)
EXTENDS ActionContract, JavaScript

CONSTANTS
    Scope,      \* what the names that are no slots are bound to, as Hir has it
    Values      \* and what they are worth

(***************************************************************************)
(* Statements                                                              *)
(***************************************************************************)

Set(e) == [op |-> "set", value |-> e]
Declare(slot, e) == [op |-> "declare", slot |-> slot, value |-> e]
AwaitFetch(slot) == [op |-> "fetch", into |-> slot]
AwaitCall(action, slot) == [op |-> "await", action |-> action, into |-> slot]
CallStatement(action) == [op |-> "call", action |-> action]
If(then, else) == [op |-> "if", then |-> then, else |-> else]
Returns(e) == [op |-> "return", value |-> e]
Throws(e) == [op |-> "throw", value |-> e]
ThrowRedirect == [op |-> "redirect"]
\* caught = None: no catch clause.  An empty finally is none.
Try(body, caught, handler, finally) ==
    [op |-> "try", body |-> body, caught |-> caught, handler |-> handler,
     finally |-> finally]

(***************************************************************************)
(* Lowering.  The result so far is the code and the throws to relay to a   *)
(* catch; Unset is usize::MAX, a target to be filled in at the end.        *)
(***************************************************************************)

Constant(value) == << Ins("constant", value), Ins("return", Null) >>
Frame(slot) == << Ins("frame", slot), Ins("return", Null) >>

\* An expression of an action: a slot is a name like any other.
Expression(e) == Program(Hir(e, [slot \in Slots |-> <<"frame", slot>>] @@ Scope), FALSE)

ReturnOf(how, program) == [op |-> "return", outcome |-> how, value |-> program]
JumpTo(pc) == [op |-> "jump", target |-> pc]

\* The code before, within and after a span of it, with the span rewritten.
Rewritten(code, first, last, Rewrite(_)) ==
    SubSeq(code, 1, first - 1)
    \o [i \in 1..(last - first + 1) |-> Rewrite(code[first + i - 1])]
    \o SubSeq(code, last + 1, Len(code))

Push(lowered, instruction) == [lowered EXCEPT !.code = Append(@, instruction)]

\* The slot a fetch or an awaited call keeps its own error in.
OwnError == "own"

Redirected_FetchOnly(instruction, catchStart, slot) ==
    IF instruction.op = "fetch"
    THEN [instruction EXCEPT !.failure = catchStart, !.error = slot]
    ELSE instruction

\* Requests and calls of a try body fail into the catch.
Redirected(instruction, catchStart, slot) ==
    IF instruction.op \in {"fetch", "call"}
    THEN [instruction EXCEPT !.failure = catchStart, !.error = slot]
    ELSE instruction

IsThrow(instruction) == instruction.op = "return" /\ instruction.outcome = "failure"

\* The throws between first and last, to be relayed to the catch.
RelaysIn(code, first, last, slot, catchStart) ==
    LET pcs == SelectSeq([i \in 1..(last - first + 1) |-> first + i - 1],
                         LAMBDA pc : IsThrow(code[pc]))
    IN  [i \in 1..Len(pcs) |->
            [pc |-> pcs[i], slot |-> slot, value |-> code[pcs[i]].value,
             target |-> catchStart]]

RECURSIVE Lower(_, _)

LowerIf(statement, lowered) ==
    LET jumpFalse == Len(lowered.code) + 1
        then == Lower(statement.then, Push(lowered, [op |-> "jumpIfFalse", target |-> Unset]))
        jumpEnd == Len(then.code) + 1
        both == Lower(statement.else, Push(then, JumpTo(Unset)))
    IN  [both EXCEPT !.code = [@ EXCEPT ![jumpFalse].target = jumpEnd + 1,
                                        ![jumpEnd].target = Len(both.code) + 1]]

LowerCatch(statement, lowered, first, last) ==
    LET catchStart == Len(lowered.code) + 1
        slot == statement.caught
        Redirect(instruction) == Redirected(instruction, catchStart, slot)
    IN  IF slot = None THEN lowered
        ELSE Lower(statement.handler,
                [code |-> Rewritten(lowered.code, first, last, Redirect),
                 relays |-> lowered.relays
                            \o RelaysIn(lowered.code, first, last, slot, catchStart)])

\* The ends of body and catch jump past the finally block: only the machine's
\* deferred finalizers run it.
LowerTry(statement, lowered) ==
    LET first == Len(lowered.code) + 1
        body == Lower(statement.body, lowered)
        last == Len(body.code)
        handled == LowerCatch(statement, Push(body, JumpTo(Unset)), first, last)
        finallyStart == Len(handled.code) + 2
        whole == Lower(statement.finally, Push(handled, JumpTo(Unset)))
        end == Len(whole.code) + 1
        Defer(instruction) ==
            IF statement.finally # <<>> /\ instruction.op = "fetch"
            THEN [instruction EXCEPT !.finally = finallyStart]
            ELSE instruction
    IN  [whole EXCEPT !.code =
            [Rewritten(@, first, last, Defer) EXCEPT
                ![last + 1] = JumpTo(end), ![finallyStart - 1] = JumpTo(end)]]

Awaiting(op, slot) ==
    [op |-> op, success |-> Unset, failure |-> Unset, finally |-> None,
     result |-> slot, error |-> OwnError]

LowerStatement(statement, lowered) ==
    LET pc == Len(lowered.code) + 1
    IN CASE statement.op = "set" -> Push(lowered, [op |-> "store", value |-> Expression(statement.value)])
         [] statement.op = "declare" ->
                Push(lowered, [op |-> "storeFrame", slot |-> statement.slot,
                               value |-> Expression(statement.value)])
         [] statement.op = "fetch" ->
                Push(lowered, [Awaiting("fetch", statement.into) EXCEPT !.success = pc + 1])
         [] statement.op = "await" ->
                Push(lowered, ("action" :> statement.action) @@
                              [Awaiting("call", statement.into) EXCEPT !.success = pc + 1])
         [] statement.op = "call" ->
                Push(lowered, [op |-> "call", action |-> statement.action, success |-> None,
                               failure |-> None, result |-> None, error |-> None])
         [] statement.op = "if" -> LowerIf(statement, lowered)
         [] statement.op = "return" -> Push(lowered, ReturnOf("success", Expression(statement.value)))
         [] statement.op = "throw" -> Push(lowered, ReturnOf("failure", Expression(statement.value)))
         [] statement.op = "redirect" -> Push(lowered, ReturnOf("redirect", Constant(Null)))
         [] statement.op = "try" -> LowerTry(statement, lowered)

Lower(statements, lowered) ==
    IF statements = <<>> THEN lowered
    ELSE Lower(Tail(statements), LowerStatement(Head(statements), lowered))

\* Failures nothing catches return the error.
WithFailureReturns(code) ==
    LET IsFailing(pc) == code[pc].op \in {"fetch", "call"} /\ code[pc].failure = Unset
        failing == SelectSeq([pc \in 1..Len(code) |-> pc], IsFailing)
        Position(pc) == CHOOSE i \in 1..Len(failing) : failing[i] = pc
    IN  [pc \in 1..Len(code) |->
            IF IsFailing(pc) THEN [code[pc] EXCEPT !.failure = Len(code) + Position(pc)]
            ELSE code[pc]]
        \o [i \in 1..Len(failing) |-> ReturnOf("failure", Frame(code[failing[i]].error))]

\* A throw that is to be caught jumps to code that fills the catch binding.
RECURSIVE WithRelays(_, _)
WithRelays(code, relays) ==
    IF relays = <<>> THEN code
    ELSE LET relay == Head(relays)
         IN  WithRelays(
                [code EXCEPT ![relay.pc] = JumpTo(Len(code) + 1)]
                \o << [op |-> "storeFrame", slot |-> relay.slot, value |-> relay.value],
                      JumpTo(relay.target) >>,
                Tail(relays))

Compiled(statements) ==
    LET lowered == Lower(statements, [code |-> <<>>, relays |-> <<>>])
    IN  WithRelays(WithFailureReturns(Append(lowered.code, ReturnOf("success", Constant(Null)))),
                   lowered.relays)

(***************************************************************************)
(* Meaning: the set of what may be observed of the statements, with the    *)
(* way they end and the bindings they leave.                               *)
(***************************************************************************)

Ending(trace_, env, how, value) ==
    [trace |-> trace_, env |-> env, how |-> how, value |-> value]

Normal(trace_, env) == Ending(trace_, env, "next", Null)

Value(e, env) == Js(e, env @@ Values)

NoBindings == [slot \in Slots |-> Null]

\* The endings of second, after ending first.
After(first, second) ==
    { [ending EXCEPT !.trace = first.trace \o @] : ending \in second }

RECURSIVE Meaning(_, _, _)

\* A callee's failure is thrown at the call; its bindings are its own.
MeaningOfCall(program, statement, env) ==
    LET End(callee) ==
            CASE callee.how \in {"next", "return"} ->
                     Normal(callee.trace, IF statement.op = "await"
                                          THEN [env EXCEPT ![statement.into] = callee.value]
                                          ELSE env)
              [] OTHER -> [callee EXCEPT !.env = env]
    IN  { End(callee) : callee \in Meaning(program, program[statement.action], NoBindings) }

\* The catch sees what was thrown; the finally runs once however the rest
\* ended, and its own way of ending takes precedence.
MeaningOfTry(program, statement, env) ==
    LET Handled(body) ==
            IF body.how = "throw" /\ statement.caught # None
            THEN After(body, Meaning(program, statement.handler,
                                     [body.env EXCEPT ![statement.caught] = body.value]))
            ELSE {body}
        Finally(rest, block) ==
            IF block.how = "next"
            THEN Ending(block.trace, block.env, rest.how, rest.value)
            ELSE block
        Finished(rest) ==
            After(rest, { Finally(rest, block) :
                            block \in Meaning(program, statement.finally, rest.env) })
        bodies == Meaning(program, statement.body, env)
    IN  UNION { Finished(rest) : rest \in UNION { Handled(body) : body \in bodies } }

MeaningOf(program, statement, env) ==
    CASE statement.op = "set" ->
            {Normal(<< <<"store", Value(statement.value, env)>> >>, env)}
      [] statement.op = "declare" ->
            {Normal(<<>>, [env EXCEPT ![statement.slot] = Value(statement.value, env)])}
      [] statement.op = "fetch" ->
            { Normal(<< <<"answer", Loads>> >>, [env EXCEPT ![statement.into] = Loads]),
              Ending(<< <<"answer", Offline>> >>, env, "throw", Offline) }
      [] statement.op \in {"await", "call"} -> MeaningOfCall(program, statement, env)
      [] statement.op = "if" ->
            UNION { After(Normal(<< <<"test", truthy>> >>, env),
                          Meaning(program, IF truthy THEN statement.then ELSE statement.else, env)) :
                    truthy \in BOOLEAN }
      [] statement.op = "return" -> {Ending(<<>>, env, "return", Value(statement.value, env))}
      [] statement.op = "throw" -> {Ending(<<>>, env, "throw", Value(statement.value, env))}
      [] statement.op = "redirect" -> {Ending(<<>>, env, "redirect", Null)}
      [] statement.op = "try" -> MeaningOfTry(program, statement, env)

Meaning(program, statements, env) ==
    IF statements = <<>> THEN {Normal(<<>>, env)}
    ELSE UNION { IF first.how = "next"
                 THEN After(first, Meaning(program, Tail(statements), first.env))
                 ELSE {first} :
                 first \in MeaningOf(program, Head(statements), env) }

(***************************************************************************)
(* Properties                                                              *)
(***************************************************************************)

ReturnedAs(ending) ==
    CASE ending.how = "next" -> <<"success", Null>>
      [] ending.how = "return" -> <<"success", ending.value>>
      [] ending.how = "throw" -> <<"failure", ending.value>>
      [] ending.how = "redirect" -> <<"redirect", Null>>

\* What a compiled action stores, asks for and returns is what its source says:
\* at every moment the run is the beginning of something the source may do, in
\* the same order, and a run that completes has done all of it and returns what
\* the source returns or throws.  A failed await reaches the innermost catch
\* around it, a caught error is not reported, code after the try goes on; and
\* only a limit ends a run before its source does.
RunsAsWritten ==
    /\ FailsOnlyAtALimit
    /\ \E ending \in artifact.meaning :
        /\ IsPrefix(trace, ending.trace)
        /\ phase = "done" =>
            /\ trace = ending.trace
            /\ outcome = ReturnedAs(ending)
=============================================================================
