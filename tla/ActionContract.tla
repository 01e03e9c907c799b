---------------------------- MODULE ActionContract ----------------------------
(***************************************************************************)
(* What the browser checks of compiled code before it runs it: jumps stay  *)
(* in their program and continuations are whole                            *)
(* (plec-schema/src/typed.rs, validate_contract_with_policy).  The handles *)
(* of slots and expressions are left out: here slots have names, and an    *)
(* instruction carries its program.                                        *)
(***************************************************************************)
EXTENDS ActionMachine, FiniteSets

\* An expression's programs: it, and those of its callbacks.
RECURSIVE ValidProgram(_)
ValidProgram(program) ==
    \A i \in DOMAIN program :
        /\ program[i].op \in {"jump", "jumpIfFalse"} => program[i].argument \in DOMAIN program
        /\ program[i].op \in {"map", "filter"} => ValidProgram(program[i].argument)

\* A call has all of a continuation or none of it.
ValidCall(call, actions, code) ==
    LET there == { field \in {"success", "failure", "result", "error"} : call[field] # None }
    IN  /\ call.action \in DOMAIN actions
        /\ there # {} =>
               /\ Cardinality(there) = 4
               /\ {call.success, call.failure} \subseteq DOMAIN code

ValidRequest(instruction, code) ==
    /\ {instruction.success, instruction.failure} \subseteq DOMAIN code
    /\ instruction.finally # None => instruction.finally \in DOMAIN code

ValidInstruction(instruction, actions, code) ==
    CASE instruction.op \in {"jump", "jumpIfFalse"} -> instruction.target \in DOMAIN code
      [] instruction.op = "call" -> ValidCall(instruction, actions, code)
      [] instruction.op = "fetch" -> ValidRequest(instruction, code)
      [] OTHER -> "value" \in DOMAIN instruction => ValidProgram(instruction.value)

ValidActions(actions) ==
    \A action \in DOMAIN actions : \A pc \in DOMAIN actions[action] :
        ValidInstruction(actions[action][pc], actions, actions[action])
===============================================================================
