----------------------------- MODULE PoolPromise -----------------------------
(***************************************************************************)
(* What a pool of nodes promises of each execution it is given, whatever   *)
(* sessions, agents and servers come and go meanwhile                      *)
(* (internal/providers/pool, internal/agent): its workload is made once,   *)
(* on one node, and runs once; its result is read of a workload that is    *)
(* over; and what was made is deleted only when it is over, by the step    *)
(* that records the execution released.                                    *)
(***************************************************************************)
CONSTANTS Execution, Node

VARIABLES
    where,          \* the nodes that have each execution's workload
    life,           \* how far the workload has come
    outcome,        \* what has become of the execution's run
    released        \* those that are recorded released

vars == <<where, life, outcome, released>>

Life    == {"unmade", "made", "running", "stopped", "gone"}
Outcome == {"open", "read", "lost"}

Init ==
    /\ where = [x \in Execution |-> {}]
    /\ life = [x \in Execution |-> "unmade"]
    /\ outcome = [x \in Execution |-> "open"]
    /\ released = {}

Lives(x, from, to) == life[x] = from /\ life'[x] = to
Ends(x, from, to)  == outcome[x] = from /\ outcome'[x] = to
Stays(x)           == life'[x] = life[x] /\ where'[x] = where[x]
Vanishes(x, from)  == Lives(x, from, "gone") /\ where'[x] = {}
Goes(x)            == outcome'[x] = outcome[x]
Waits(x)           == x \in released' <=> x \in released

Make(x) == Lives(x, "unmade", "made") /\ (\E n \in Node : where'[x] = {n}) /\ Goes(x) /\ Waits(x)

Work(x) ==
    /\ Lives(x, "made", "running") \/ Lives(x, "running", "stopped")
    /\ where'[x] = where[x] /\ Goes(x) /\ Waits(x)

\* What was not made yet never will be.
Withdraw(x) == Vanishes(x, "unmade") /\ Goes(x) /\ Waits(x)

Read(x) == Ends(x, "open", "read") /\ life[x] = "stopped" /\ Stays(x) /\ Waits(x)

\* The run is given up; what it had come to making may be undone.
Lose(x) ==
    /\ Ends(x, "open", "lost") /\ Waits(x)
    /\ Stays(x) \/ Vanishes(x, "unmade") \/ Vanishes(x, "made")

\* What could not be found stays where it is.  A run may be at it still.
Release(x) ==
    /\ x \in released' /\ Goes(x)
    /\ Stays(x) \/ Vanishes(x, "stopped")

Step(x) == Make(x) \/ Work(x) \/ Withdraw(x) \/ Read(x) \/ Lose(x) \/ Release(x)

\* A restart, or a session that ends, befalls several executions at once.
Next == \A x \in Execution : Step(x) \/ (Stays(x) /\ Goes(x) /\ Waits(x))

Spec == Init /\ [][Next]_vars
=============================================================================
