------------------------------- MODULE Plugins -------------------------------
(***************************************************************************)
(* What the dispatch engine sees of the three provider plugins             *)
(* (internal/providers/aws, gcp and pool): which of the optional parts of  *)
(* plugin.Provider each one has.  The platforms behind them are external.  *)
(***************************************************************************)

Platform == {"lambda", "cloud-run", "pool"}

\* Implements plugin.Releaser: it leaves something behind for every execution.
LeavesLeftovers(p) == p \in {"cloud-run", "pool"}

\* Finishes inside Submit; Status, Result and Cancel answer "unsupported".
FinishesInSubmit(p) == p = "lambda"

\* Cancelling deletes the execution, as Cloud Run deletes the Job; a pool node
\* stops it and reports it cancelled from then on, even when it had ended.
CancelDeletes(p) == p = "cloud-run"

\* What is left of work w once it is cancelled, which is not always possible.
Cancellable(p, w) == ~FinishesInSubmit(p) /\ (w # "absent" \/ CancelDeletes(p))
Cancelled(p, w)   == IF w = "absent" \/ CancelDeletes(p) THEN "absent" ELSE "cancelled"
=============================================================================
