---------------------------- MODULE ActionMachine ----------------------------
(***************************************************************************)
(* The machine that runs compiled actions and loaders (plec-action): start *)
(* and resume, the instruction loop `drive`, calls with caller             *)
(* continuations, suspension at a capability request, and the deferred     *)
(* finalizers of `run_finalizers`.  Browser and server share it.           *)
(*                                                                         *)
(* One step is one instruction.  Only two things are visible from outside: *)
(* what the run stores and asks for (trace) and how it ends (outcome).     *)
(* An instruction with a value carries the expression's program; the       *)
(* operand stack, which never outlives the pair of instructions that uses  *)
(* it, is folded into the instruction that pops it; arguments are left     *)
(* out.  The states, props and host values an expression reads are those   *)
(* of the artifact: what an action stores goes to other states.  That the  *)
(* host lacks a capability is left out.                                    *)
(***************************************************************************)
EXTENDS Expressions

CONSTANTS
    Artifacts,      \* programs: the compiled actions, and the host they run in
    Slots,          \* the frame slots, the same names in every action
    MaxFuel,        \* MAX_ACTION_STEPS
    MaxFetches,     \* MAX_FETCHES_PER_ACTION
    MaxCalls,       \* MAX_CALL_DEPTH
    None

ASSUME SlotsAssumption == None \notin Slots
ASSUME LimitsAssumption == MaxFuel \in Nat /\ MaxFetches \in Nat /\ MaxCalls \in Nat

VARIABLES
    artifact,       \* the program that runs
    phase,          \* inside drive, suspended, completed or failed
    current,        \* continuation.current
    callers,        \* continuation.callers
    finalizers,     \* the deferred finally blocks of this drive
    finalizing,     \* the frame of run_finalizers while one of them runs
    held,           \* Suspension.completed, `terminal` after resuming
    request,        \* the capability request a suspended run waits for
    budget,         \* ActionBudget
    trace,          \* what the run stored and was answered, in order
    outcome         \* Run::Complete

control == <<phase, current, callers, finalizers, finalizing, held, request, outcome>>
vars == <<artifact, control, budget, trace>>

Code == artifact.actions[current.action]

\* The end of an action's code returns null to the caller, or ends the run.
Ended == [op |-> "return", outcome |-> "success", value |-> << Ins("constant", Null) >>]

Instruction == IF current.pc <= Len(Code) THEN Code[current.pc] ELSE Ended

Evaluate(program) == Evaluated(program, [frame |-> current.frame, row |-> <<>>] @@ artifact.host)

\* The expression of the instruction, if it has one, fails.
ExpressionFails == "value" \in DOMAIN Instruction /\ Is("failed", Evaluate(Instruction.value))

Entered(action) == [action |-> action, pc |-> 1, frame |-> [slot \in Slots |-> Null]]

Init ==
    /\ artifact \in Artifacts
    /\ phase = "running"
    /\ current = Entered(1)
    /\ callers = <<>>
    /\ finalizers = <<>>
    /\ finalizing = None
    /\ held = None
    /\ request = None
    /\ budget = [fuel |-> MaxFuel, fetches |-> 0]
    /\ trace = <<>>
    /\ outcome = None

(***************************************************************************)
(* Ending a run                                                            *)
(***************************************************************************)

Complete(result) ==
    /\ phase' = "done"
    /\ outcome' = IF held = None THEN result ELSE held
    /\ UNCHANGED <<current, callers, finalizers, finalizing, held, request>>

\* Each finally block runs in the frame the run ended in.
RunFinalizer(result, frame, pending) ==
    /\ current' = [frame EXCEPT !.pc = Last(pending)]
    /\ callers' = <<>>
    /\ finalizers' = <<>>
    /\ finalizing' = [outcome |-> result, frame |-> frame, rest |-> Front(pending)]
    /\ UNCHANGED <<phase, held, request, outcome>>

RunFinalizers(result, frame, pending) ==
    \/ pending = <<>> /\ Complete(result)
    \/ pending # <<>> /\ RunFinalizer(result, frame, pending)

\* A finally block's own outcome is dropped for that of the run.
Terminal(result) ==
    IF finalizing = None
    THEN RunFinalizers(result, current, finalizers)
    ELSE RunFinalizers(finalizing.outcome, finalizing.frame, finalizing.rest)

Fail ==
    /\ phase' = "failed"
    /\ UNCHANGED <<current, callers, finalizers, finalizing, held, request, outcome>>

(***************************************************************************)
(* Instructions                                                            *)
(***************************************************************************)

Executes(op) ==
    /\ phase = "running"
    /\ Instruction.op = op
    /\ budget.fuel > 0
    /\ ~ExpressionFails
    /\ UNCHANGED artifact

SpendFuel == budget' = [budget EXCEPT !.fuel = @ - 1]

Continue(frame) ==
    /\ current' = frame
    /\ UNCHANGED <<phase, callers, finalizers, finalizing, held, request, outcome>>

Advanced(frame) == [frame EXCEPT !.pc = @ + 1]

\* Every instruction with an effect outside the run: state, refs, collections.
Store ==
    /\ Executes("store")
    /\ SpendFuel
    /\ trace' = Append(trace, <<"store", Evaluate(Instruction.value)>>)
    /\ Continue(Advanced(current))

StoreFrame ==
    /\ Executes("storeFrame")
    /\ SpendFuel
    /\ Continue([Advanced(current) EXCEPT
                    !.frame = [@ EXCEPT ![Instruction.slot] = Evaluate(Instruction.value)]])
    /\ UNCHANGED trace

Jump ==
    /\ Executes("jump")
    /\ SpendFuel
    /\ Continue([current EXCEPT !.pc = Instruction.target])
    /\ UNCHANGED trace

\* What the test evaluates to is up to the application.
JumpIfFalse ==
    /\ Executes("jumpIfFalse")
    /\ SpendFuel
    /\ \E truthy \in BOOLEAN :
        /\ trace' = Append(trace, <<"test", truthy>>)
        /\ Continue(IF truthy THEN Advanced(current)
                    ELSE [current EXCEPT !.pc = Instruction.target])

\* A call statement has no continuation: it goes on after the call, whatever
\* the callee returns.
Continuation(call) ==
    IF call.success # None
    THEN [frame |-> current, success |-> call.success, failure |-> call.failure,
          result |-> call.result, error |-> call.error]
    ELSE [frame |-> current, success |-> current.pc + 1, failure |-> current.pc + 1,
          result |-> None, error |-> None]

EnterCall(call) ==
    /\ callers' = Append(callers, Continuation(call))
    /\ current' = Entered(call.action)
    /\ UNCHANGED <<phase, finalizers, finalizing, held, request, outcome>>

Call ==
    /\ Executes("call")
    /\ SpendFuel
    /\ UNCHANGED trace
    /\ IF Len(callers) < MaxCalls THEN EnterCall(Instruction) ELSE Fail

Suspend ==
    /\ phase' = "suspended"
    /\ request' = Instruction
    /\ finalizers' = IF finalizing = None THEN finalizers ELSE finalizing.rest
    /\ held' = IF finalizing = None THEN None ELSE finalizing.outcome
    /\ finalizing' = None
    /\ UNCHANGED <<current, callers, outcome>>

CapabilityRequest ==
    /\ Executes("fetch")
    /\ UNCHANGED trace
    /\ IF budget.fetches < MaxFetches
       THEN Suspend /\ budget' = [fuel |-> budget.fuel - 1, fetches |-> budget.fetches + 1]
       ELSE Fail /\ SpendFuel

\* The value goes to the continuation's slot and clears the other one.
ReturnTo(caller, success, value) ==
    LET slot  == IF success THEN caller.result ELSE caller.error
        other == IF success THEN caller.error ELSE caller.result
        frame == IF slot = None THEN caller.frame.frame
                 ELSE [caller.frame.frame EXCEPT ![slot] = value, ![other] = Null]
    IN  /\ current' = [caller.frame EXCEPT
                            !.pc = IF success THEN caller.success ELSE caller.failure,
                            !.frame = frame]
        /\ callers' = Front(callers)
        /\ UNCHANGED <<phase, finalizers, finalizing, held, request, outcome>>

\* Redirect and not-found unwind the callers.
Return ==
    /\ Executes("return")
    /\ SpendFuel
    /\ UNCHANGED trace
    /\ LET how   == Instruction.outcome
           value == Evaluate(Instruction.value)
       IN  IF how \in {"success", "failure"} /\ callers # <<>>
           THEN ReturnTo(Last(callers), how = "success", value)
           ELSE Terminal(<<how, value>>)

ExhaustFuel ==
    /\ phase = "running"
    /\ budget.fuel = 0
    /\ Fail
    /\ UNCHANGED <<artifact, budget, trace>>

FailExpression ==
    /\ phase = "running"
    /\ budget.fuel > 0
    /\ ExpressionFails
    /\ SpendFuel
    /\ Fail
    /\ UNCHANGED <<artifact, trace>>

(***************************************************************************)
(* resume                                                                  *)
(***************************************************************************)

Resume(slot, value, pc) ==
    /\ phase' = "running"
    /\ current' = [current EXCEPT !.pc = pc, !.frame = [@ EXCEPT ![slot] = value]]
    /\ finalizers' = IF request.finally = None THEN finalizers
                     ELSE Append(finalizers, request.finally)
    /\ request' = None
    /\ trace' = Append(trace, <<"answer", value>>)
    /\ UNCHANGED <<artifact, callers, finalizing, held, budget, outcome>>

Loads == String(<<"loaded">>)
Offline == String(<<"offline">>)

Loaded ==
    /\ phase = "suspended"
    /\ Resume(request.result, Loads, request.success)

Rejected ==
    /\ phase = "suspended"
    /\ Resume(request.error, Offline, request.failure)

Next ==
    \/ Store \/ StoreFrame \/ Jump \/ JumpIfFalse
    \/ Call \/ CapabilityRequest \/ Return
    \/ ExhaustFuel \/ FailExpression
    \/ Loaded \/ Rejected

Spec == Init /\ [][Next]_vars

(***************************************************************************)
(* Properties                                                              *)
(***************************************************************************)

\* Type invariant of the machine: within a run the call depth, the fetches
\* and the fuel stay within their limits, and a request is pending exactly
\* while the run is suspended.
TypeOK ==
    /\ phase \in {"running", "suspended", "done", "failed"}
    /\ current.action \in DOMAIN artifact.actions
    /\ current.pc \in Nat
    /\ DOMAIN current.frame = Slots
    /\ Len(callers) \in 0..MaxCalls
    /\ budget.fuel \in 0..MaxFuel
    /\ budget.fetches \in 0..MaxFetches
    /\ (request # None) <=> (phase = "suspended")
    /\ (outcome # None) <=> (phase = "done")
    /\ finalizing # None => finalizers = <<>>

\* A run gives up only at a limit: its fuel is spent, its fetches are used up,
\* its calls are as deep as they may be, or an expression needs more of the stack
\* than there is.
FailsOnlyAtALimit ==
    phase = "failed" =>
        \/ budget.fuel = 0
        \/ Len(SelectSeq(trace, LAMBDA event : event[1] = "answer")) = MaxFetches
        \/ Len(callers) = MaxCalls
        \/ artifact.height > MaxStack
=============================================================================
