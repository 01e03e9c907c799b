-------------------------- MODULE MutationContract --------------------------
(***************************************************************************)
(* What useMutation promises of the state it publishes (docs/mutations.md):*)
(* the latest started invocation owns it. An older invocation never        *)
(* publishes, and nothing is published after the owner's state began anew. *)
(***************************************************************************)
EXTENDS Naturals

VARIABLES
    latest,  \* invocations started so far; the latest one's name
    pending, \* mutation.pending
    error,   \* mutation.error: the invocation that failed, 0 for none
    data     \* mutation.data: the invocation it came from, 0 for none

vars == <<latest, pending, error, data>>

None == 0

Init ==
    /\ latest = 0
    /\ pending = FALSE
    /\ error = None
    /\ data = None

Begin ==
    /\ latest' = latest + 1
    /\ pending' = TRUE
    /\ error' = None
    /\ UNCHANGED data

Publish(invocation, succeeds) ==
    /\ pending' = FALSE
    /\ error' = IF succeeds THEN None ELSE invocation
    /\ data' = IF succeeds THEN invocation ELSE data

(* The latest invocation ends; only while it is pending, so at most once.  *)
End(succeeds) ==
    /\ pending
    /\ Publish(latest, succeeds)
    /\ UNCHANGED latest

(* An invocation that never suspends begins and ends in one event.         *)
BeginAndEnd(succeeds) ==
    /\ latest' = latest + 1
    /\ Publish(latest + 1, succeeds)

(* The owner is disposed, or mounted again with fresh state.               *)
Renew ==
    /\ pending' = FALSE
    /\ error' = None
    /\ data' = None
    /\ UNCHANGED latest

Next ==
    \/ Begin
    \/ \E succeeds \in BOOLEAN : End(succeeds) \/ BeginAndEnd(succeeds)
    \/ Renew

Spec == Init /\ [][Next]_vars
=============================================================================
