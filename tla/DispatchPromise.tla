--------------------------- MODULE DispatchPromise ---------------------------
(***************************************************************************)
(* What a dispatch promises whoever started it, however many attempts,     *)
(* providers and servers it takes (internal/dispatch, Finish and ended):   *)
(* its tasks pass one after another; it is recorded succeeded only once    *)
(* every one of them has, and failed only once a provider said so; and     *)
(* what is recorded is never changed.                                      *)
(***************************************************************************)
EXTENDS Naturals

CONSTANT Tasks      \* how many tasks the job declares

VARIABLES
    state,          \* the dispatch's recorded state, "none" before it has one
    passed,         \* how many tasks, counted from the first, have passed
    failed          \* a provider has failed an attempt

Init == state = "none" /\ passed = 0 /\ failed = FALSE

Begin ==
    /\ state = "none" /\ state' = "running"
    /\ UNCHANGED <<passed, failed>>

Pass ==
    /\ state # "none" /\ passed < Tasks /\ passed' = passed + 1
    /\ UNCHANGED <<state, failed>>

Fail ==
    /\ state # "none" /\ failed' = TRUE
    /\ UNCHANGED <<state, passed>>

End(how) ==
    /\ state = "running" /\ state' = how
    /\ how = "succeeded" => passed = Tasks
    /\ how = "failed" => failed
    /\ UNCHANGED <<passed, failed>>

Next == Begin \/ Pass \/ Fail \/ \E how \in {"succeeded", "failed", "unanswered"} : End(how)

Spec == Init /\ [][Next]_<<state, passed, failed>>
=============================================================================
