-------------------------------- MODULE Agent --------------------------------
(***************************************************************************)
(* The workloads of agent nodes: the endpoint that makes room for a        *)
(* submission and the containerd executor behind it                        *)
(* (internal/agent/executions_endpoint.go, agent/executor/containerd.go).  *)
(*                                                                         *)
(* A workload is a container and its task, which outlive the agent and its *)
(* session; a submission is a handler that may fail, or be interrupted, at *)
(* any of its calls.  Sizes are of one dimension, in units.                *)
(***************************************************************************)
EXTENDS Nodes, Integers, FiniteSets

CONSTANTS
    Execution,     \* the executions
    MaxSize,       \* the most a workload may declare
    Size,          \* what each declares
    Capacity       \* what each node may use

ASSUME ExecutionAssumption == IsFiniteSet(Execution)
ASSUME SizeAssumption ==
    /\ MaxSize \in Nat /\ Size \in [Execution -> 1..MaxSize]
    /\ Capacity \in [Node -> Nat]

VARIABLES
    box,           \* the container of each execution on each node, and its task
    starting       \* the endpoint's reserved: the submissions in flight

workVars == <<box, starting>>

\* "container" has no task yet, "created" one that was never started.
Box == {"none", "container", "created", "running", "stopped", "deleted"}

AgentTypeOK ==
    /\ box \in [Node -> [Execution -> Box]]
    /\ starting \in [Node -> SUBSET Execution]

AgentInit ==
    /\ box = [n \in Node |-> [x \in Execution |-> "none"]]
    /\ starting = [n \in Node |-> {}]

-----------------------------------------------------------------------------
\* Room

\* The units a set of executions declares between them.
Units(set) == {u \in Execution \X (1..MaxSize) : u[1] \in set /\ u[2] <= Size[u[1]]}
Room(set)  == Cardinality(Units(set))

Holds(n) == {x \in Execution : box[n][x] \notin {"none", "deleted"}}

\* Containerd.Held: a stopped workload keeps its container but uses nothing.
Using(n) == {x \in Execution : box[n][x] \in {"container", "created", "running"}}

Held(n) == [all |-> Holds(n), running |-> Using(n)]
Reports == [all : SUBSET Execution, running : SUBSET Execution]

\* Mutant: submissions in flight are not counted.
FitsHeld(n, x) == x \in Holds(n) \/ Room(Using(n)) + Size[x] <= Capacity[n]

\* executions.fits: what is held under id is a resubmission.
Fits(n, x) ==
    x \in Holds(n) \/ Room(Using(n) \cup starting[n]) + Size[x] <= Capacity[n]

-----------------------------------------------------------------------------
\* Submit

Claim(n, x) ==
    /\ x \notin starting[n] /\ Fits(n, x)
    /\ starting' = [starting EXCEPT ![n] = @ \cup {x}]
    /\ UNCHANGED box

Becomes(n, x, state) == box' = [box EXCEPT ![n][x] = state]

\* The image is pulled and the container made, then its task made, then started.
Advance(n, x) ==
    /\ x \in starting[n]
    /\ \/ box[n][x] = "none"      /\ Becomes(n, x, "container")
       \/ box[n][x] = "container" /\ Becomes(n, x, "created")
       \/ box[n][x] = "created"   /\ Becomes(n, x, "running")
    /\ UNCHANGED starting

\* The call fails: a container whose task cannot be made is deleted again, a task
\* that cannot be started stays.
Fail(n, x) ==
    /\ x \in starting[n] /\ box[n][x] \in {"none", "container", "created", "deleted"}
    /\ Becomes(n, x, IF box[n][x] = "container" THEN "none" ELSE box[n][x])
    /\ starting' = [starting EXCEPT ![n] = @ \ {x}]

\* The session is gone, and the context of the submissions on it cancelled: they
\* fail at the call they have come to, and so does deleting the container.
Interrupt(n) ==
    /\ ~open[n] /\ starting[n] # {}
    /\ starting' = [starting EXCEPT ![n] = {}]
    /\ UNCHANGED <<nodeVars, box>>

\* connect: nothing is left of the last session's submissions by the time the
\* next is opened.
Connect(n) == starting[n] = {} /\ Dial(n) /\ UNCHANGED workVars

SendReport(n) == Report(n, Held(n)) /\ UNCHANGED workVars

\* Submit returns: the workload may be over, and deleted, by then.
Started(n, x) ==
    /\ x \in starting[n] /\ box[n][x] \in {"running", "stopped", "deleted"}
    /\ starting' = [starting EXCEPT ![n] = @ \ {x}]
    /\ UNCHANGED box

-----------------------------------------------------------------------------

\* The task exits, or is stopped by a cancel or its timeout.
Exit(n, x) ==
    /\ box[n][x] = "running" /\ Becomes(n, x, "stopped")
    /\ UNCHANGED starting

\* Containerd.Release: what is not there counts as deleted.
Delete(n, x) ==
    /\ Becomes(n, x, IF x \in Holds(n) THEN "deleted" ELSE box[n][x])
    /\ UNCHANGED starting

\* Containerd.Status: a container without a started task is on its way.
StatusAt(n, x) ==
    CASE x \notin Holds(n)      -> "unknown"
      [] box[n][x] = "running" -> "running"
      [] box[n][x] = "stopped" -> "terminal"
      [] OTHER                 -> "accepted"
=============================================================================
