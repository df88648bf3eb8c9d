-------------------------------- MODULE Pool --------------------------------
(***************************************************************************)
(* The pool provider over its nodes and their agents: where it places an   *)
(* execution, how it finds it again after the session it was submitted on  *)
(* or the server is gone, and how what a node holds is released            *)
(* (internal/providers/pool; internal/dispatch for what a run and the      *)
(* release loop do with its answers).                                      *)
(*                                                                         *)
(* Each execution has one run, which submits it once, follows it and       *)
(* releases it; the release loop takes up whatever has not changed for ten *)
(* minutes, which a run may be at still.  No budgets are set.  One server: *)
(* its restarts are modelled, and sessions that drop with calls on them.   *)
(***************************************************************************)
EXTENDS Agent

CONSTANTS
    NoNode,
    Faults,        \* which of Mishap may happen
    MaxFaults      \* bound: how many of them happen

Mishap == {"drop", "restart", "away", "call"}

ASSUME NoNodeAssumption == NoNode \notin Node
ASSUME FaultsAssumption == Faults \subseteq Mishap /\ MaxFaults \in Nat

VARIABLES
    run,           \* where each execution's run is, or what it left
    call,          \* the node and session it was last submitted on
    tried,         \* SubmitTo's tried
    \* the release loop
    listed,        \* what its copy of each record says
    marked,        \* the executions recorded released
    \* the provider, in the server's memory
    placed,        \* the node each execution was sent to
    reserved,      \* the node its reservation holds room on
    fresh,         \* the provider was made less than leftGrace ago
    \* history and bounds
    away,          \* the nodes that stay offline for long
    faults, mishaps

poolVars == <<placed, reserved, fresh>>
runVars  == <<run, call, tried>>
loopVars == <<listed, marked>>
history  == <<away, faults, mishaps>>
vars == <<nodeVars, workVars, runVars, loopVars, poolVars, history>>

\* "read" is a result the run is done with.
RunState == {"new", "calling", "following", "answered", "failed", "read"}
Copy     == {"none", "submitting", "open", "read"}

PoolTypeOK ==
    /\ run \in [Execution -> RunState]
    /\ call \in [Execution -> [node : Node \cup {NoNode}, session : Nat]]
    /\ tried \in [Execution -> SUBSET Node]
    /\ listed \in [Execution -> Copy] /\ marked \subseteq Execution
    /\ placed \in [Execution -> Node \cup {NoNode}]
    /\ reserved \in [Execution -> Node \cup {NoNode}]
    /\ fresh \in BOOLEAN
    /\ away \subseteq Node /\ faults \in 0..MaxFaults /\ mishaps \subseteq Faults

TypeOK == NodesTypeOK(Reports) /\ AgentTypeOK /\ PoolTypeOK

Nowhere == [x \in Execution |-> NoNode]

Init ==
    /\ NodesInit /\ AgentInit
    /\ run = [x \in Execution |-> "new"]
    /\ call = [x \in Execution |-> [node |-> NoNode, session |-> 0]]
    /\ tried = [x \in Execution |-> {}]
    /\ listed = [x \in Execution |-> "none"] /\ marked = {}
    /\ placed = Nowhere /\ reserved = Nowhere /\ fresh = FALSE
    /\ away = {} /\ faults = 0 /\ mishaps = {}

Fault(kind) ==
    /\ kind \in Faults /\ faults < MaxFaults
    /\ faults' = faults + 1 /\ mishaps' = mishaps \cup {kind}
NoFault == UNCHANGED <<faults, mishaps>>

-----------------------------------------------------------------------------
\* Finding an execution

\* Mutant: only what this process placed is known.
LocatePlaced(x) == placed[x]

\* locate: where this process sent it, then whichever node reports it.
Locate(x) ==
    IF placed[x] # NoNode THEN placed[x]
    ELSE IF \E n \in Node : Connected(n) /\ x \in conn[n].held.all
    THEN CHOOSE n \in Node : Connected(n) /\ x \in conn[n].held.all
    ELSE NoNode

\* The node can be asked.
Reached(n) == Connected(n) /\ Alive(n, conn[n].session)

\* Status, by way of holder: a node that may yet come back is "lost", one that
\* does not answer "unreachable".
StatusOf(x) ==
    LET n == Locate(x) IN
    CASE n = NoNode /\ fresh                      -> "lost"
      [] n = NoNode /\ ~fresh                     -> "unknown"
      [] n # NoNode /\ Reached(n)                 -> StatusAt(n, x)
      [] n # NoNode /\ ~Reached(n) /\ ~Connected(n) /\ left[n] = "grace" -> "lost"
      [] OTHER                                    -> "unreachable"

-----------------------------------------------------------------------------
\* Submitting

\* free: what the node last reported, less what was reserved there since.
Free(n) ==
    Capacity[n] - Room(conn[n].held.running)
                - Room({x \in Execution : reserved[x] = n /\ x \notin conn[n].held.all})

\* reserve, send: on the candidate with the most room.  members are the nodes
\* admission passed.
Place(x) ==
    /\ run[x] = "new"
    /\ \E members \in SUBSET Node \ {{}} :
         LET candidates == {n \in members \ tried[x] : Connected(n) /\ Free(n) >= Size[x]} IN
         \/ \E n \in candidates :
              /\ \A m \in candidates : Free(n) >= Free(m)
              /\ reserved' = [reserved EXCEPT ![x] = n]
              /\ call' = [call EXCEPT ![x] = [node |-> n, session |-> conn[n].session]]
              /\ run' = [run EXCEPT ![x] = "calling"]
         \/ /\ candidates = {} /\ run' = [run EXCEPT ![x] = "failed"]
            /\ UNCHANGED <<reserved, call>>
    /\ UNCHANGED <<nodeVars, workVars, tried, loopVars, placed, fresh, history>>

\* The call of x is on the session its node is on still.
OnCall(x) == run[x] = "calling" /\ Alive(call[x].node, call[x].session)

\* Mutant: the reservation's node is forgotten with it.
UnreserveAll(x) == reserved' = [y \in Execution \ {x} |-> reserved[y]]

Unreserve(x) == reserved' = [reserved EXCEPT ![x] = NoNode]

\* The agent makes room for x, or has none.
Admit(x) ==
    LET n == call[x].node IN
    /\ OnCall(x)
    /\ \/ Claim(n, x) /\ UNCHANGED <<runVars, poolVars>>
       \/ /\ ~Fits(n, x) /\ x \notin starting[n]
          /\ Unreserve(x) /\ run' = [run EXCEPT ![x] = "new"]
          /\ tried' = [tried EXCEPT ![x] = @ \cup {n}]
          /\ UNCHANGED <<workVars, call, placed, fresh>>
    /\ UNCHANGED <<nodeVars, loopVars, history>>

\* The server has the agent's answer: it remembers the node.
Submitted(x) ==
    /\ OnCall(x) /\ Started(call[x].node, x)
    /\ placed' = [placed EXCEPT ![x] = call[x].node]
    /\ run' = [run EXCEPT ![x] = "following"]
    /\ UNCHANGED <<nodeVars, call, tried, loopVars, reserved, fresh, history>>

\* Mutant: another node is tried whatever the first one's failure was.
CallFailsOver(x) ==
    /\ run[x] = "calling"
    /\ \/ OnCall(x) /\ Fail(call[x].node, x) /\ Fault("call")
       \/ ~OnCall(x) /\ NoFault /\ UNCHANGED workVars
    /\ Unreserve(x) /\ run' = [run EXCEPT ![x] = "new"]
    /\ tried' = [tried EXCEPT ![x] = @ \cup {call[x].node}]
    /\ UNCHANGED <<nodeVars, call, loopVars, placed, fresh, away>>

\* The agent's answer is a failure, or the session the call is on is gone.
CallFails(x) ==
    /\ run[x] = "calling"
    /\ \/ OnCall(x) /\ Fail(call[x].node, x) /\ Fault("call")
       \/ ~OnCall(x) /\ NoFault /\ UNCHANGED workVars
    /\ Unreserve(x) /\ run' = [run EXCEPT ![x] = "failed"]
    /\ UNCHANGED <<nodeVars, call, tried, loopVars, placed, fresh, away>>

\* reservationTTL: a pull may take longer than that.
Lapse(x) ==
    /\ reserved[x] # NoNode /\ Unreserve(x)
    /\ x \in starting[reserved[x]]
    /\ UNCHANGED <<nodeVars, workVars, runVars, loopVars, placed, fresh, history>>

-----------------------------------------------------------------------------
\* Following and releasing

\* The run reads the result of work that is over, or gives it up: the node does
\* not answer, no node knows of it, or it has gone before its result was read or
\* for longer than a run waits.
Follow(x) ==
    /\ run[x] = "following"
    /\ \/ StatusOf(x) = "terminal" /\ run' = [run EXCEPT ![x] = "answered"]
       \/ StatusOf(x) \in {"unknown", "unreachable", "lost"} /\ run' = [run EXCEPT ![x] = "failed"]
    /\ UNCHANGED <<nodeVars, workVars, call, tried, loopVars, poolVars, history>>

\* markReleased.
Mark(x) == marked' = marked \cup {x}

\* Provider.Release, and the record marked: an execution no node is known to
\* hold counts as released.
Release(x) ==
    LET n == Locate(x) IN
    /\ Mark(x)
    /\ \/ /\ n # NoNode /\ Reached(n) /\ Delete(n, x)
          /\ placed' = [placed EXCEPT ![x] = NoNode] /\ Unreserve(x)
          /\ UNCHANGED fresh
       \/ /\ n = NoNode /\ ~fresh
          /\ UNCHANGED <<workVars, poolVars>>

\* Dispatcher.release, right after the result: a failure leaves it to the loop.
ReleaseAtOnce(x) ==
    /\ run[x] = "answered" /\ run' = [run EXCEPT ![x] = "read"]
    /\ \/ Release(x)
       \/ /\ IF Locate(x) = NoNode THEN fresh ELSE ~Reached(Locate(x))
          /\ UNCHANGED <<workVars, marked, poolVars>>
    /\ UNCHANGED <<nodeVars, call, tried, listed, history>>

\* Every agent that has not gone for long is back within half a minute and
\* reports every ten seconds.
Settled ==
    \A n \in Node \ away :
        /\ Reached(n) /\ conn[n].held = Held(n)
        /\ sent[n] # NoReport => sent[n].held = Held(n)

\* What the record of x says of its run.
Recorded(x) ==
    CASE run[x] \in {"new", "calling"}     -> "submitting"
      [] run[x] \in {"following", "failed"} -> "open"
      [] run[x] \in {"answered", "read"}    -> "read"

\* The run has reserved a node once: its record is there.
Begun(x) == run[x] # "new" \/ tried[x] # {}

\* Unreleased: nothing has changed for ReleaseAfter, which is longer than Settled
\* takes, and a pull may be longer still.  The record is handled later in the pass.
LeftFor(x) ==
    /\ Begun(x) /\ x \notin marked /\ listed[x] # Recorded(x)
    /\ Settled /\ ~fresh /\ listed' = [listed EXCEPT ![x] = Recorded(x)]
    /\ UNCHANGED <<nodeVars, workVars, runVars, marked, poolVars, history>>

\* The loop is done with x in this pass.
Handled(x) ==
    /\ listed[x] # "none" /\ listed' = [listed EXCEPT ![x] = "none"]
    /\ UNCHANGED <<nodeVars, runVars, history>>

\* Mutants: what a run gave up is released without asking whether it is over; a
\* result that was read is taken to have been released.
LoopUnasked(x) == Handled(x) /\ Release(x)

LoopUnanswered(x) ==
    /\ Handled(x) /\ listed[x] # "read" /\ StatusOf(x) \in {"unknown", "terminal"}
    /\ Release(x)

\* releaseLeftover, reconcileLost: without a recorded result the provider is asked
\* first, and what it does not know is released already.  What cannot be released
\* is tried again.
Loop(x) ==
    /\ Handled(x)
    /\ \/ /\ listed[x] = "read" \/ StatusOf(x) = "terminal"
          /\ Release(x)
       \/ /\ listed[x] # "read" /\ StatusOf(x) = "unknown"
          /\ Mark(x) /\ UNCHANGED <<workVars, poolVars>>

-----------------------------------------------------------------------------
\* Nodes, agents and the server come and go

AgentSteps(n) ==
    /\ \/ SendReport(n) \/ Interrupt(n)
       \/ \E x \in Execution : (Advance(n, x) \/ Exit(n, x)) /\ UNCHANGED nodeVars
    /\ UNCHANGED <<runVars, loopVars, poolVars, history>>

Others == UNCHANGED <<workVars, runVars, loopVars, poolVars>>

Reconnect(n) ==
    /\ Connect(n) /\ away' = away \ {n} /\ NoFault
    /\ UNCHANGED <<runVars, loopVars, poolVars>>

SessionDrops(n) == Drop(n) /\ Fault("drop") /\ UNCHANGED away /\ Others

ServerHears(n) == (Register(n) \/ Remove(n)) /\ UNCHANGED history /\ Others

\* A node goes offline and stays so past every grace period.
GoAway(n) ==
    /\ ~open[n] /\ n \notin away /\ Fault("away")
    /\ away' = away \cup {n} /\ UNCHANGED nodeVars /\ Others

Grace(n) == n \in away /\ GiveUpOn(n) /\ UNCHANGED history /\ Others

\* The server is restarted: executions that had reached a provider, or may have,
\* are followed by the dispatches it resumes, the others given up.
Restart ==
    /\ Fault("restart") /\ ForgetNodes
    /\ placed' = Nowhere /\ reserved' = Nowhere /\ fresh' = TRUE
    /\ run' = [x \in Execution |->
         CASE run[x] = "new"      -> IF tried[x] = {} THEN "failed" ELSE "following"
           [] run[x] = "calling"  -> "following"
           [] run[x] = "answered" -> "read"
           [] OTHER               -> run[x]]
    /\ UNCHANGED <<workVars, call, tried, loopVars, away>>

\* leftGrace goes by since the server started.
Settle ==
    /\ fresh /\ Settled /\ fresh' = FALSE
    /\ UNCHANGED <<nodeVars, workVars, runVars, loopVars, placed, reserved, history>>

-----------------------------------------------------------------------------
Run(x) == Place(x) \/ Admit(x) \/ Submitted(x) \/ Follow(x) \/ ReleaseAtOnce(x)

Next ==
    \/ \E x \in Execution : Run(x) \/ CallFails(x) \/ Lapse(x) \/ LeftFor(x) \/ Loop(x)
    \/ \E n \in Node : \/ AgentSteps(n) \/ Reconnect(n) \/ SessionDrops(n)
                       \/ ServerHears(n) \/ GoAway(n) \/ Grace(n)
    \/ Restart \/ Settle

Spec == Init /\ [][Next]_vars

\* Runs and agents go on, work ends, an agent dials until it is back and reports
\* on a ticker, the server handles what it hears and the loop comes round.  A
\* node that stays away need not come back.
Fairness ==
    /\ \A x \in Execution :
          /\ WF_vars(Run(x)) /\ WF_vars(CallFails(x) /\ NoFault)
          /\ WF_vars(LeftFor(x)) /\ WF_vars(Loop(x))
          /\ \A n \in Node :
                WF_vars((Advance(n, x) \/ Exit(n, x)) /\ AgentSteps(n))
    /\ \A n \in Node :
          /\ WF_vars(n \notin away /\ Reconnect(n)) /\ WF_vars(SendReport(n) /\ AgentSteps(n))
          /\ WF_vars(Interrupt(n) /\ AgentSteps(n)) /\ WF_vars(ServerHears(n))
    /\ WF_vars(Settle)

FairSpec == Spec /\ Fairness

-----------------------------------------------------------------------------
\* Properties

Committed(n) == Using(n) \cup {x \in starting[n] : box[n][x] = "none"}

\* The workloads a node runs, and those it is about to make, never declare more
\* than it has between them, however stale the server's picture of it is, whatever
\* is in flight, and whoever's session dropped at which call (fits, tryClaim).
NeverOvercommitted == \A n \in Node : Room(Committed(n)) <= Capacity[n]

\* An execution is never on two nodes: it is submitted to another only by one
\* that refused it untouched (SubmitTo).
OneNode ==
    \A x \in Execution : \A m, n \in Node :
        x \in Holds(m) \cup starting[m] /\ x \in Holds(n) \cup starting[n] => m = n

\* A node whose session holds stays connected, though sessions it had before end
\* at the server after it came back (Conns.Remove).
StaysConnected == [][\A n \in Node : Reached(n) /\ open'[n] => Reached(n)']_vars

\* An execution is recorded released only once no node has anything of it, or is
\* starting it.  What is missed is what a node holds that is not connected just
\* then, if the server never heard where the execution is, or was restarted since,
\* and what is being pulled for so long that the loop takes it up before any node
\* has reported it (locate, holder, releaseLeftover).
ReleasedIsDeleted ==
    [][\A x \in Execution : x \notin marked /\ x \in marked' =>
         \A n \in Node : x \in Holds(n)' \cup starting'[n] =>
             /\ placed[x] = NoNode
             /\ \/ listed[x] = "submitting"
                \/ ~Reached(n) /\ (run[x] = "failed" \/ "restart" \in mishaps)]_vars

\* A start that was cut short leaves a container nothing will ever run.
Stuck(n, x) == box[n][x] \in {"container", "created"} /\ x \notin starting[n]

\* What a node holds is deleted in the end, or recorded released without it
\* (ReleasedIsDeleted), however its session or the server came and went, unless
\* the node stays away (Release, ReleaseLeftovers).
NodesAreCleared ==
    \A n \in Node, x \in Execution :
        x \in Holds(n) ~> (x \notin Holds(n) \/ Stuck(n, x) \/ x \in marked \/ n \in away)

\* A connection whose session is gone does not outlast the agent's next one, also
\* when its last report was handled after its end (Report, Remove).
GhostsGo ==
    \A n \in Node : (Connected(n) /\ ~Reached(n)) ~> (~Connected(n) \/ Reached(n) \/ n \in away)

Where(x) == {n \in Node : x \in Holds(n)}

\* A call or a start may make it yet.
Coming(x) ==
    /\ run[x] \in {"new", "calling"} \/ \E n \in Node : x \in starting[n]
    /\ \A n \in Node : box[n][x] # "deleted"

\* How far the workload has come, wherever it is.
Life(x) ==
    IF Where(x) = {} THEN IF Coming(x) THEN "unmade" ELSE "gone"
    ELSE LET state == box[CHOOSE n \in Where(x) : TRUE][x] IN
         IF state \in {"container", "created"} THEN "made" ELSE state

Outcome(x) ==
    CASE run[x] \in {"new", "calling", "following"} -> "open"
      [] run[x] \in {"answered", "read"}           -> "read"
      [] run[x] = "failed"                          -> "lost"

Promise == INSTANCE PoolPromise WITH
    where    <- [x \in Execution |-> Where(x)],
    life     <- [x \in Execution |-> Life(x)],
    outcome  <- [x \in Execution |-> Outcome(x)],
    released <- marked

\* Every execution has the workload the pool promises: made once, on one node, run
\* once, read when it is over, and deleted only then, by what records it released,
\* however calls, sessions and servers fail and whatever the run and the loop do at
\* the same time (Provider.SubmitTo, Status, Release, releaseLeftover;
\* Containerd.Submit).
PromiseKept == Promise!Spec

-----------------------------------------------------------------------------
\* What the docs say of the program, and the program does not do

\* "A pool node that is offline fails Release and is retried every pass until it
\* returns": nothing is recorded released that a node still has.
OfflineIsRetried ==
    \A x \in marked, n \in Node : x \notin Holds(n)
=============================================================================
