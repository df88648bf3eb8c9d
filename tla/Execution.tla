------------------------------ MODULE Execution ------------------------------
(***************************************************************************)
(* The vocabulary of one execution: one attempt of one task on one         *)
(* provider (internal/execution).  The module is pure: the state machine   *)
(* written out as a relation, the stored record, and the two functions     *)
(* through which every record in the system changes.                       *)
(*                                                                         *)
(* A record keeps only what decisions are made on: its state, whether it   *)
(* carries a result, whether a failure class was written on it, and        *)
(* whether what the provider left behind is marked released.               *)
(***************************************************************************)

State == {"pending", "submitted", "accepted", "running",
          "succeeded", "failed", "cancelled", "lost"}

\* The states an execution never leaves.  "lost" is deliberately absent.
Terminal == {"succeeded", "failed", "cancelled"}

\* The states a provider may report from Submit (Submission.Validate).
Submittable == {"accepted", "running", "succeeded", "failed"}

LegalTransitions ==
    ({"pending"}   \X {"submitted", "failed", "cancelled"}) \cup
    ({"submitted"} \X ({"accepted", "running", "lost"} \cup Terminal)) \cup
    ({"accepted"}  \X ({"running", "lost"} \cup Terminal)) \cup
    ({"running"}   \X ({"lost"} \cup Terminal)) \cup
    ({"lost"}      \X Terminal)

CanTransition(s, next) == <<s, next>> \in LegalTransitions

-----------------------------------------------------------------------------

Record == [state    : State,
           result   : BOOLEAN,    \* what the task produced is stored
           failure  : BOOLEAN,    \* a class of the error that ended the attempt
           released : BOOLEAN]    \* released_at is set

\* The record prepare() creates, before Submit is called.
Pending == [state |-> "pending", result |-> FALSE,
            failure |-> FALSE, released |-> FALSE]

\* Status.To: move to next, or refuse and leave the record untouched.
To(r, next) == IF CanTransition(r.state, next) THEN [r EXCEPT !.state = next] ELSE r

\* A slip in Update: the last writer wins.
UpdateAlways(stored, r, from) == [r EXCEPT !.released = stored.released]

\* The store's Update: r is written over the stored record only while that is
\* still in the state the writer read it in, and released_at stays as stored.
Update(stored, r, from) ==
    IF stored.state = from THEN [r EXCEPT !.released = stored.released] ELSE stored

\* tracked.failed: before submission an attempt failed outright; after it,
\* nothing more is known and it is lost.
FailedState(r) == IF r.state = "pending" THEN "failed" ELSE "lost"
=============================================================================
