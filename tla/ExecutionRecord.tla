--------------------------- MODULE ExecutionRecord ---------------------------
(***************************************************************************)
(* What the stored record of one execution promises its readers, whoever   *)
(* writes it: it moves only along the state machine, it carries a result   *)
(* only once it is over, and once it is over neither its state nor its     *)
(* result ever changes again (internal/execution, state.go and record.go). *)
(***************************************************************************)
EXTENDS Execution

VARIABLES state, result

Init == state = "pending" /\ result = FALSE

Advance(next) ==
    /\ CanTransition(state, next)
    /\ state' = next
    /\ next \in Terminal => result' \in BOOLEAN
    /\ next \notin Terminal => result' = FALSE

Next == \E next \in State : Advance(next)

Spec == Init /\ [][Next]_<<state, result>>
=============================================================================
