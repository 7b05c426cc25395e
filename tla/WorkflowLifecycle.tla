-------------------------- MODULE WorkflowLifecycle --------------------------
(* What the engine promises its callers: one workflow whose state is moved by *)
(* one event at a time, through the stages of its definition, until it ends.  *)
EXTENDS WorkflowStates

VARIABLE state

Init == state = NoWorkflow

Begin == state = NoWorkflow /\ state' = Initial

Move ==
    /\ state # NoWorkflow /\ ~ state.terminal
    /\ \E e \in Events : Takes(state, e) /\ state' = Reduce(state, e)

Next == Begin \/ Move

Spec == Init /\ [][Next]_state
=============================================================================
