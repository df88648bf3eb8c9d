----------------------------- MODULE PoolProofs -----------------------------
(***************************************************************************)
(* What is proved of Pool for any nodes, any finite set of executions of   *)
(* any size, and any number of faults.                                     *)
(***************************************************************************)
EXTENDS Pool, FiniteSetTheorems, TLAPS

USE DEF vars, nodeVars, agentVars, serverVars, workVars, runVars, loopVars, poolVars, history, Handled

-----------------------------------------------------------------------------
\* Room (executions.fits)

\* The units of a set of executions are finitely many.
LEMMA UnitsFinite == ASSUME NEW set PROVE IsFiniteSet(Units(set))
<1>1. IsFiniteSet(1..MaxSize)
  BY FS_Interval, SizeAssumption
<1>2. IsFiniteSet(Execution \X (1..MaxSize))
  BY <1>1, FS_Product, ExecutionAssumption
<1>3. Units(set) \in SUBSET (Execution \X (1..MaxSize))
  BY DEF Units
<1>4. QED
  BY <1>2, <1>3, FS_Subset

\* Fewer executions take no more room.
LEMMA RoomMonotone ==
    ASSUME NEW s, NEW t, s \subseteq t
    PROVE  Room(s) <= Room(t)
<1>1. Units(s) \in SUBSET Units(t)
  BY DEF Units
<1>2. QED
  BY <1>1, UnitsFinite, FS_Subset DEF Room

\* Room is counted in whole units.
LEMMA RoomType == ASSUME NEW s PROVE Room(s) \in Nat
BY UnitsFinite, FS_CardinalityType DEF Room

\* One execution takes the room it declares.
LEMMA RoomOfOne == ASSUME NEW x \in Execution PROVE Room({x}) = Size[x]
<1>1. Size[x] \in 1..MaxSize /\ MaxSize \in Nat
  BY SizeAssumption
<1>2. Units({x}) = {x} \X (1..Size[x])
  BY <1>1, SizeAssumption DEF Units
<1>3. IsFiniteSet(1..Size[x]) /\ Cardinality(1..Size[x]) = Size[x]
  BY <1>1, FS_Interval
<1>4. IsFiniteSet({x}) /\ Cardinality({x}) = 1
  BY FS_Singleton
<1>5. Cardinality({x} \X (1..Size[x])) = Cardinality({x}) * Cardinality(1..Size[x])
  BY <1>3, <1>4, FS_Product, Zenon
<1>6. 1 * Size[x] = Size[x]
  BY <1>1
<1>7. QED
  BY <1>2, <1>3, <1>4, <1>5, <1>6, Zenon DEF Room

\* An execution more takes at most what it declares.
LEMMA RoomOfOneMore ==
    ASSUME NEW s, NEW x \in Execution
    PROVE  Room(s \cup {x}) <= Room(s) + Size[x]
<1>1. Units(s \cup {x}) = Units(s) \cup Units({x})
  BY DEF Units
<1>2. IsFiniteSet(Units(s)) /\ IsFiniteSet(Units({x})) /\ IsFiniteSet(Units(s) \cap Units({x}))
  <2>1. Units(s) \cap Units({x}) \in SUBSET Units(s)
    OBVIOUS
  <2>2. QED
    BY <2>1, UnitsFinite, FS_Subset
<1>3. Cardinality(Units(s) \cap Units({x})) \in Nat
  BY <1>2, FS_CardinalityType
<1>4. Cardinality(Units(s) \cup Units({x})) =
        Cardinality(Units(s)) + Cardinality(Units({x})) - Cardinality(Units(s) \cap Units({x}))
  BY <1>2, FS_Union
<1>5. Room(s) \in Nat /\ Room({x}) = Size[x] /\ Size[x] \in Nat
  BY RoomType, RoomOfOne, SizeAssumption
<1>6. Room(s \cup {x}) = Room(s) + Room({x}) - Cardinality(Units(s) \cap Units({x}))
  BY <1>1, <1>4, Zenon DEF Room
<1>7. QED
  BY <1>3, <1>5, <1>6

\* Nothing takes no room.
LEMMA RoomOfNone == Room({}) = 0
<1>1. Units({}) = {}
  BY DEF Units
<1>2. QED
  BY <1>1, FS_EmptySet DEF Room

-----------------------------------------------------------------------------
\* Type correctness

\* What a node reports is a report.
LEMMA HeldType == ASSUME NEW n PROVE Held(n) \in Reports
BY DEF Held, Reports, Holds, Using

\* The sessions and reports keep their types, whatever an agent or the server does.
LEMMA NodesType ==
    ASSUME NodesTypeOK(Reports), NEW n \in Node
    PROVE  /\ Dial(n) => NodesTypeOK(Reports)'
           /\ SendReport(n) => NodesTypeOK(Reports)'
           /\ Drop(n) => NodesTypeOK(Reports)'
           /\ Register(n) => NodesTypeOK(Reports)'
           /\ Remove(n) => NodesTypeOK(Reports)'
           /\ GiveUpOn(n) => NodesTypeOK(Reports)'
           /\ ForgetNodes => NodesTypeOK(Reports)'
           /\ UNCHANGED nodeVars => NodesTypeOK(Reports)'
<1> USE DEF NodesTypeOK
<1>1. Dial(n) => NodesTypeOK(Reports)'
  BY DEF Dial
<1>2. SendReport(n) => NodesTypeOK(Reports)'
  BY HeldType DEF SendReport, Report
<1>3. Drop(n) => NodesTypeOK(Reports)'
  BY DEF Drop
<1>4. Register(n) => NodesTypeOK(Reports)'
  BY DEF Register
<1>5. Remove(n) => NodesTypeOK(Reports)'
  <2> SUFFICES ASSUME Remove(n) PROVE NodesTypeOK(Reports)'
    OBVIOUS
  <2>1. /\ serving' \in [Node -> SUBSET Nat]
        /\ UNCHANGED <<session, open, sent>>
    BY DEF Remove
  <2>2. /\ conn' \in [Node -> [session : Nat, held : Reports \cup {NoReport}]]
        /\ left' \in [Node -> {"no", "grace", "gone"}]
    <3>1. \/ UNCHANGED <<conn, left>>
          \/ /\ conn' = [conn EXCEPT ![n] = NotConnected]
             /\ left' = [left EXCEPT ![n] = "grace"]
      BY DEF Remove
    <3>2. NotConnected \in [session : Nat, held : Reports \cup {NoReport}]
      BY DEF NotConnected
    <3>3. conn' \in [Node -> [session : Nat, held : Reports \cup {NoReport}]]
      BY <3>1, <3>2
    <3>4. left' \in [Node -> {"no", "grace", "gone"}]
      BY <3>1
    <3>5. QED
      BY <3>3, <3>4
  <2>3. QED
    BY <2>1, <2>2
<1>6. GiveUpOn(n) => NodesTypeOK(Reports)'
  BY DEF GiveUpOn
<1>7. ForgetNodes => NodesTypeOK(Reports)'
  BY DEF ForgetNodes, NotConnected
<1>8. UNCHANGED nodeVars => NodesTypeOK(Reports)'
  OBVIOUS
<1>9. QED
  BY <1>1, <1>2, <1>3, <1>4, <1>5, <1>6, <1>7, <1>8

\* A workload whose state changes has a state still.
LEMMA BecomesType ==
    ASSUME AgentTypeOK, NEW n \in Node, NEW x \in Execution, NEW state \in Box,
           Becomes(n, x, state)
    PROVE  box' \in [Node -> [Execution -> Box]]
BY DEF AgentTypeOK, Becomes

\* Workloads keep their types, whatever happens to one of them.
LEMMA AgentType ==
    ASSUME AgentTypeOK, NEW n \in Node, NEW x \in Execution
    PROVE  /\ Claim(n, x) => AgentTypeOK'
           /\ Advance(n, x) => AgentTypeOK'
           /\ Fail(n, x) => AgentTypeOK'
           /\ Interrupt(n) => AgentTypeOK'
           /\ Started(n, x) => AgentTypeOK'
           /\ Exit(n, x) => AgentTypeOK'
           /\ Delete(n, x) => AgentTypeOK'
           /\ UNCHANGED workVars => AgentTypeOK'
<1> DEFINE boxType == box' \in [Node -> [Execution -> Box]]
<1>1. /\ box \in [Node -> [Execution -> Box]]
      /\ starting \in [Node -> SUBSET Execution]
  BY DEF AgentTypeOK
<1>2. Advance(n, x) => boxType
  BY BecomesType DEF Advance, Box
<1>3. Fail(n, x) => boxType
  BY BecomesType DEF Fail, Box
<1>4. Exit(n, x) => boxType
  BY BecomesType DEF Exit, Box
<1>5. Delete(n, x) => boxType
  <2> SUFFICES ASSUME Delete(n, x) PROVE boxType
    OBVIOUS
  <2>1. box[n][x] \in Box
    BY <1>1
  <2>2. PICK state \in Box : Becomes(n, x, state)
    BY <2>1 DEF Delete, Box
  <2>3. QED
    BY <2>2, BecomesType
<1>6. QED
  <2> HIDE DEF boxType
  <2>1. Advance(n, x) \/ Exit(n, x) \/ Delete(n, x) => UNCHANGED starting
    BY DEF Advance, Exit, Delete
  <2>2. boxType /\ starting' \in [Node -> SUBSET Execution] => AgentTypeOK'
    BY DEF boxType, AgentTypeOK
  <2>3. Fail(n, x) => starting' \in [Node -> SUBSET Execution]
    BY <1>1 DEF Fail
  <2>4. Claim(n, x) \/ Interrupt(n) \/ Started(n, x) \/ UNCHANGED workVars => AgentTypeOK'
    BY <1>1 DEF Claim, Interrupt, Started, AgentTypeOK
  <2>5. QED
    BY <1>1, <1>2, <1>3, <1>4, <1>5, <2>1, <2>2, <2>3, <2>4

\* An execution is located at a node or nowhere.
LEMMA LocateType ==
    ASSUME PoolTypeOK, NEW x \in Execution
    PROVE  Locate(x) \in Node \cup {NoNode}
BY DEF PoolTypeOK, Locate

\* A fault counts within its bound.
LEMMA FaultType ==
    ASSUME PoolTypeOK, NEW kind
    PROVE  /\ Fault(kind) => faults' \in 0..MaxFaults /\ mishaps' \subseteq Faults
           /\ NoFault => faults' \in 0..MaxFaults /\ mishaps' \subseteq Faults
BY FaultsAssumption DEF PoolTypeOK, Fault, NoFault

-----------------------------------------------------------------------------
\* The invariant

\* A call under way is to a node.
CallInv == \A x \in Execution : run[x] = "calling" => call[x].node \in Node

\* What a node has anything of was sent to it, and was not refused.
PlaceInv ==
    \A n \in Node, x \in Execution :
        x \in Holds(n) \cup starting[n] => run[x] # "new" /\ call[x].node = n

\* Submissions in flight on a node with a session are calls on that session.
FlightInv ==
    \A n \in Node, x \in Execution :
        x \in starting[n] /\ open[n] => run[x] = "calling" /\ call[x].session = session[n]

\* The report on its way is of the last session.
SentInv == \A n \in Node : sent[n] # NoReport => sent[n].session = session[n]

Inv == TypeOK /\ CallInv /\ PlaceInv /\ FlightInv /\ SentInv /\ NeverOvercommitted

\* It holds before anything is submitted.
LEMMA InvInit == Init => Inv
<1> SUFFICES ASSUME Init PROVE Inv
  OBVIOUS
<1>1. TypeOK
  <2>1. NodesTypeOK(Reports)
    BY DEF Init, NodesInit, NodesTypeOK, NotConnected
  <2>2. AgentTypeOK
    BY DEF Init, AgentInit, AgentTypeOK, Box
  <2>3. faults \in 0..MaxFaults
    BY FaultsAssumption DEF Init
  <2>4. PoolTypeOK
    BY <2>3 DEF Init, PoolTypeOK, RunState, Copy, Nowhere
  <2>5. QED
    BY <2>1, <2>2, <2>4 DEF TypeOK
<1>2. CallInv /\ SentInv
  BY DEF Init, NodesInit, CallInv, SentInv
<1>3. \A n \in Node : Holds(n) = {} /\ Using(n) = {} /\ starting[n] = {}
  BY DEF Init, AgentInit, Holds, Using
<1>4. PlaceInv /\ FlightInv
  BY <1>3 DEF PlaceInv, FlightInv
<1>5. NeverOvercommitted
  <2>1. \A n \in Node : Committed(n) = {}
    BY <1>3 DEF Committed
  <2>2. \A n \in Node : Room(Committed(n)) = 0
    BY <2>1, RoomOfNone, Zenon
  <2>3. \A n \in Node : 0 <= Capacity[n]
    BY SizeAssumption
  <2>4. QED
    BY <2>2, <2>3 DEF NeverOvercommitted
<1>6. QED
  BY <1>1, <1>2, <1>4, <1>5 DEF Inv

-----------------------------------------------------------------------------
\* Type correctness of each action

\* What a run does keeps every type.
LEMMA RunType ==
    ASSUME TypeOK, CallInv, NEW x \in Execution
    PROVE  /\ Place(x) => TypeOK'
           /\ Admit(x) => TypeOK'
           /\ Submitted(x) => TypeOK'
           /\ CallFails(x) => TypeOK'
           /\ Lapse(x) => TypeOK'
           /\ Follow(x) => TypeOK'
           /\ LeftFor(x) => TypeOK'
<1>1. NodesTypeOK(Reports) /\ AgentTypeOK /\ PoolTypeOK
  BY DEF TypeOK
<1>2. UNCHANGED nodeVars => NodesTypeOK(Reports)'
  BY <1>1 DEF NodesTypeOK
<1>3. UNCHANGED workVars => AgentTypeOK'
  BY <1>1 DEF AgentTypeOK
<1>4. OnCall(x) => call[x].node \in Node
  BY DEF OnCall, CallInv
<1>5. Place(x) => TypeOK'
  <2> SUFFICES ASSUME Place(x) PROVE PoolTypeOK'
    BY <1>2, <1>3 DEF Place, TypeOK
  <2>1. \/ run' = [run EXCEPT ![x] = "failed"] /\ UNCHANGED <<reserved, call>>
        \/ \E n \in Node :
             /\ reserved' = [reserved EXCEPT ![x] = n]
             /\ call' = [call EXCEPT ![x] = [node |-> n, session |-> conn[n].session]]
             /\ run' = [run EXCEPT ![x] = "calling"]
    BY DEF Place
  <2>2. \A n \in Node : conn[n].session \in Nat
    BY <1>1 DEF NodesTypeOK
  <2>3. UNCHANGED <<tried, loopVars, placed, fresh, history>>
    BY DEF Place
  <2>4. CASE run' = [run EXCEPT ![x] = "failed"] /\ UNCHANGED <<reserved, call>>
    BY <1>1, <2>3, <2>4 DEF PoolTypeOK, RunState
  <2>5. ASSUME NEW n \in Node,
               /\ reserved' = [reserved EXCEPT ![x] = n]
               /\ call' = [call EXCEPT ![x] = [node |-> n, session |-> conn[n].session]]
               /\ run' = [run EXCEPT ![x] = "calling"]
        PROVE  PoolTypeOK'
    <3>1. [node |-> n, session |-> conn[n].session] \in [node : Node \cup {NoNode}, session : Nat]
      BY <2>2
    <3>2. call' \in [Execution -> [node : Node \cup {NoNode}, session : Nat]]
      BY <1>1, <2>5, <3>1 DEF PoolTypeOK
    <3>3. QED
      BY <1>1, <2>3, <2>5, <3>2 DEF PoolTypeOK, RunState
  <2>6. QED
    BY <2>1, <2>4, <2>5
<1>6. Admit(x) => TypeOK'
  <2> SUFFICES ASSUME Admit(x) PROVE TypeOK'
    OBVIOUS
  <2>1. call[x].node \in Node /\ UNCHANGED <<nodeVars, loopVars, history>>
    BY <1>4 DEF Admit
  <2>2. CASE Claim(call[x].node, x) /\ UNCHANGED <<runVars, poolVars>>
    BY <1>1, <1>2, <2>1, <2>2, AgentType DEF TypeOK, PoolTypeOK
  <2>3. CASE /\ Unreserve(x) /\ run' = [run EXCEPT ![x] = "new"]
             /\ tried' = [tried EXCEPT ![x] = @ \cup {call[x].node}]
             /\ UNCHANGED <<workVars, call, placed, fresh>>
    BY <1>1, <1>2, <1>3, <2>1, <2>3 DEF TypeOK, PoolTypeOK, RunState, Unreserve
  <2>4. QED
    BY <2>2, <2>3 DEF Admit
<1>7. Submitted(x) => TypeOK'
  <2> SUFFICES ASSUME Submitted(x) PROVE TypeOK'
    OBVIOUS
  <2>1. call[x].node \in Node /\ AgentTypeOK'
    BY <1>1, <1>4, AgentType DEF Submitted
  <2>2. PoolTypeOK'
    BY <1>1, <2>1 DEF Submitted, PoolTypeOK, RunState
  <2>3. QED
    BY <1>2, <2>1, <2>2 DEF Submitted, TypeOK
<1>8. CallFails(x) => TypeOK'
  <2> SUFFICES ASSUME CallFails(x) PROVE TypeOK'
    OBVIOUS
  <2>1. AgentTypeOK'
    BY <1>1, <1>3, <1>4, AgentType DEF CallFails
  <2>2. faults' \in 0..MaxFaults /\ mishaps' \subseteq Faults
    BY <1>1, FaultType DEF CallFails
  <2>3. PoolTypeOK'
    BY <1>1, <2>2 DEF CallFails, PoolTypeOK, RunState, Unreserve
  <2>4. QED
    BY <1>2, <2>1, <2>3 DEF CallFails, TypeOK
<1>9. Lapse(x) => TypeOK'
  BY <1>1, <1>2, <1>3 DEF Lapse, Unreserve, TypeOK, PoolTypeOK
<1>10. Follow(x) => TypeOK'
  BY <1>1, <1>2, <1>3 DEF Follow, TypeOK, PoolTypeOK, RunState
<1>11. LeftFor(x) => TypeOK'
  <2> SUFFICES ASSUME LeftFor(x) PROVE PoolTypeOK'
    BY <1>2, <1>3 DEF LeftFor, TypeOK
  <2>1. Recorded(x) \in Copy
    BY <1>1 DEF Recorded, Copy, PoolTypeOK, RunState
  <2>2. listed' \in [Execution -> Copy]
    BY <1>1, <2>1 DEF LeftFor, PoolTypeOK
  <2>3. QED
    BY <1>1, <2>2 DEF LeftFor, PoolTypeOK
<1>12. QED
  BY <1>5, <1>6, <1>7, <1>8, <1>9, <1>10, <1>11

\* What is released is deleted or was nowhere, and keeps every type.
LEMMA ReleaseType ==
    ASSUME TypeOK, NEW x \in Execution,
           Release(x) \/ (Mark(x) /\ UNCHANGED <<workVars, poolVars>>)
    PROVE  /\ AgentTypeOK'
           /\ placed' \in [Execution -> Node \cup {NoNode}]
           /\ reserved' \in [Execution -> Node \cup {NoNode}]
           /\ fresh' \in BOOLEAN /\ marked' \subseteq Execution
<1>1. AgentTypeOK /\ PoolTypeOK
  BY DEF TypeOK
<1>2. Locate(x) # NoNode => Locate(x) \in Node
  BY <1>1, LocateType
<1>3. AgentTypeOK'
  <2>1. \/ Locate(x) # NoNode /\ Delete(Locate(x), x)
        \/ UNCHANGED workVars
    BY Zenon DEF Release
  <2>2. ASSUME NEW n \in Node, Delete(n, x) PROVE AgentTypeOK'
    BY <1>1, <2>2, AgentType
  <2>3. CASE UNCHANGED workVars
    BY <1>1, <2>3 DEF AgentTypeOK
  <2>4. QED
    BY <1>2, <2>1, <2>2, <2>3
<1>4. Mark(x)
  BY Zenon DEF Release
<1>5. \/ placed' = [placed EXCEPT ![x] = NoNode] /\ Unreserve(x) /\ UNCHANGED fresh
      \/ UNCHANGED poolVars
  BY Zenon DEF Release
<1>6. QED
  BY <1>1, <1>3, <1>4, <1>5 DEF PoolTypeOK, Mark, Unreserve

\* A pass of the loop keeps every type.
LEMMA LoopType == ASSUME TypeOK, NEW x \in Execution, Loop(x) PROVE TypeOK'
<1>1. NodesTypeOK(Reports) /\ PoolTypeOK
  BY DEF TypeOK
<1>2. Release(x) \/ (Mark(x) /\ UNCHANGED <<workVars, poolVars>>)
  BY Zenon DEF Loop
<1>3. UNCHANGED <<nodeVars, runVars, history>> /\ listed' = [listed EXCEPT ![x] = "none"]
  BY Zenon DEF Loop, Handled
<1>4. PoolTypeOK'
  BY <1>1, <1>2, <1>3, ReleaseType DEF PoolTypeOK, Copy
<1>5. NodesTypeOK(Reports)'
  BY <1>1, <1>3 DEF NodesTypeOK
<1>6. QED
  BY <1>2, <1>4, <1>5, ReleaseType DEF TypeOK

\* Every step keeps every type.
LEMMA TypeNext ==
    ASSUME TypeOK, CallInv, [Next]_vars
    PROVE  TypeOK'
<1>1. NodesTypeOK(Reports) /\ AgentTypeOK /\ PoolTypeOK
  BY DEF TypeOK
<1>2. /\ UNCHANGED nodeVars => NodesTypeOK(Reports)'
      /\ UNCHANGED workVars => AgentTypeOK'
      /\ UNCHANGED <<runVars, loopVars, poolVars, history>> => PoolTypeOK'
  BY <1>1 DEF NodesTypeOK, AgentTypeOK, PoolTypeOK
<1>3. ASSUME NEW x \in Execution, Run(x) \/ CallFails(x) \/ Lapse(x) \/ LeftFor(x) \/ Loop(x)
      PROVE  TypeOK'
  <2>1. CASE Place(x) \/ Admit(x) \/ Submitted(x) \/ CallFails(x) \/ Lapse(x) \/ Follow(x) \/ LeftFor(x)
    BY <2>1, RunType
  <2>2. CASE ReleaseAtOnce(x)
    <3>1. run' = [run EXCEPT ![x] = "read"] /\ UNCHANGED <<nodeVars, call, tried, listed, history>>
      BY <2>2 DEF ReleaseAtOnce
    <3>2. CASE Release(x)
      <4>1. PoolTypeOK'
        BY <1>1, <3>1, <3>2, ReleaseType DEF PoolTypeOK, RunState
      <4>2. QED
        BY <1>2, <3>1, <3>2, <4>1, ReleaseType DEF TypeOK
    <3>3. CASE UNCHANGED <<workVars, marked, poolVars>>
      BY <1>1, <1>2, <3>1, <3>3 DEF TypeOK, PoolTypeOK, RunState
    <3>4. QED
      BY <2>2, <3>2, <3>3, Zenon DEF ReleaseAtOnce
  <2>3. CASE Loop(x)
    BY <2>3, LoopType
  <2>4. QED
    BY <1>3, <2>1, <2>2, <2>3 DEF Run
<1>4. ASSUME NEW n \in Node, AgentSteps(n)
      PROVE  TypeOK'
  <2>1. PoolTypeOK'
    BY <1>2, <1>4 DEF AgentSteps
  <2>2. CASE SendReport(n)
    BY <1>1, <1>2, <2>1, <2>2, NodesType DEF SendReport, TypeOK
  <2>3. CASE Interrupt(n)
    BY <1>1, <1>2, <2>1, <2>3 DEF Interrupt, TypeOK, AgentTypeOK
  <2>4. CASE \E x \in Execution : (Advance(n, x) \/ Exit(n, x)) /\ UNCHANGED nodeVars
    BY <1>1, <1>2, <2>1, <2>4, AgentType DEF TypeOK
  <2>5. QED
    BY <1>4, <2>2, <2>3, <2>4 DEF AgentSteps
<1>5. ASSUME NEW n \in Node,
             Reconnect(n) \/ SessionDrops(n) \/ ServerHears(n) \/ GoAway(n) \/ Grace(n)
      PROVE  TypeOK'
  <2>1. NodesTypeOK(Reports)'
    BY <1>1, <1>2, <1>5, NodesType DEF Reconnect, Connect, SessionDrops, ServerHears, GoAway, Grace
  <2>2. AgentTypeOK' /\ UNCHANGED <<runVars, loopVars, poolVars>>
    BY <1>2, <1>5 DEF Reconnect, Connect, SessionDrops, ServerHears, GoAway, Grace, Others
  <2>3. faults' \in 0..MaxFaults /\ mishaps' \subseteq Faults
    BY <1>1, <1>5, FaultType DEF Reconnect, SessionDrops, ServerHears, GoAway, Grace, PoolTypeOK
  <2>4. away' \subseteq Node
    BY <1>1, <1>5 DEF Reconnect, SessionDrops, ServerHears, GoAway, Grace, PoolTypeOK
  <2>5. QED
    BY <1>1, <2>1, <2>2, <2>3, <2>4 DEF TypeOK, PoolTypeOK
<1>6. CASE Restart
  <2>1. NodesTypeOK(Reports)'
    BY <1>1, <1>6 DEF Restart, ForgetNodes, NodesTypeOK, NotConnected
  <2>2. faults' \in 0..MaxFaults /\ mishaps' \subseteq Faults
    BY <1>1, <1>6, FaultType DEF Restart
  <2>3. run' \in [Execution -> RunState]
    BY <1>1, <1>6 DEF Restart, PoolTypeOK, RunState
  <2>4. PoolTypeOK'
    BY <1>1, <1>6, <2>2, <2>3 DEF Restart, PoolTypeOK, Nowhere
  <2>5. QED
    BY <1>2, <1>6, <2>1, <2>4 DEF Restart, TypeOK
<1>7. CASE Settle
  BY <1>1, <1>2, <1>7 DEF Settle, TypeOK, PoolTypeOK
<1>8. CASE UNCHANGED vars
  BY <1>2, <1>8 DEF TypeOK
<1>9. QED
  BY <1>3, <1>4, <1>5, <1>6, <1>7, <1>8 DEF Next

-----------------------------------------------------------------------------
\* Calls, placements and sessions

\* Calls under way stay calls to nodes.
LEMMA CallNext ==
    ASSUME TypeOK, CallInv, [Next]_vars
    PROVE  CallInv'
<1>1. /\ run \in [Execution -> RunState]
      /\ call \in [Execution -> [node : Node \cup {NoNode}, session : Nat]]
  BY DEF TypeOK, PoolTypeOK
<1>2. ASSUME NEW x \in Execution, Place(x) PROVE CallInv'
  <2>1. \/ run' = [run EXCEPT ![x] = "failed"] /\ UNCHANGED call
        \/ \E n \in Node :
             /\ call' = [call EXCEPT ![x] = [node |-> n, session |-> conn[n].session]]
             /\ run' = [run EXCEPT ![x] = "calling"]
    BY <1>2 DEF Place
  <2>2. QED
    BY <1>1, <2>1 DEF CallInv
<1>3. ASSUME UNCHANGED call, \A x \in Execution : run'[x] = "calling" => run[x] = "calling"
      PROVE  CallInv'
  BY <1>3 DEF CallInv
<1>4. ASSUME NEW x \in Execution,
             \/ Admit(x) \/ Submitted(x) \/ Follow(x) \/ ReleaseAtOnce(x)
             \/ CallFails(x) \/ Lapse(x) \/ LeftFor(x) \/ Loop(x)
      PROVE  CallInv'
  <2>1. UNCHANGED call
    BY <1>4 DEF Admit, Submitted, Follow, ReleaseAtOnce, CallFails, Lapse, LeftFor, Loop
  <2>2. \A y \in Execution : run'[y] = "calling" => run[y] = "calling"
    BY <1>1, <1>4 DEF Admit, Submitted, Follow, ReleaseAtOnce, CallFails, Lapse, LeftFor, Loop
  <2>3. QED
    BY <1>3, <2>1, <2>2
<1>5. ASSUME NEW n \in Node,
             \/ AgentSteps(n) \/ Reconnect(n) \/ SessionDrops(n)
             \/ ServerHears(n) \/ GoAway(n) \/ Grace(n)
      PROVE  CallInv'
  BY <1>5 DEF CallInv, AgentSteps, Reconnect, SessionDrops, ServerHears, GoAway, Grace, Others
<1>6. CASE Restart
  <2>1. \A x \in Execution : run'[x] # "calling"
    BY <1>1, <1>6 DEF Restart
  <2>2. QED
    BY <2>1 DEF CallInv
<1>7. CASE Settle \/ UNCHANGED vars
  BY <1>7 DEF CallInv, Settle
<1>8. QED
  BY <1>2, <1>4, <1>5, <1>6, <1>7 DEF Next, Run

\* The agent reports on its last session, and dials again once that report is
\* handled or lost.
LEMMA SentNext ==
    ASSUME TypeOK, SentInv, [Next]_vars
    PROVE  SentInv'
<1>1. NodesTypeOK(Reports)
  BY DEF TypeOK
<1>2. UNCHANGED nodeVars => SentInv'
  BY DEF SentInv
<1>3. ASSUME NEW n \in Node, Dial(n) \/ SendReport(n) \/ Drop(n) \/ Register(n) \/ Remove(n) \/ GiveUpOn(n)
      PROVE  SentInv'
  BY <1>1, <1>3 DEF SentInv, NodesTypeOK, Dial, SendReport, Report, Drop, Register, Remove, GiveUpOn
<1>4. ASSUME NEW n \in Node,
             \/ AgentSteps(n) \/ Reconnect(n) \/ SessionDrops(n)
             \/ ServerHears(n) \/ GoAway(n) \/ Grace(n)
      PROVE  SentInv'
  BY <1>2, <1>3, <1>4
  DEF AgentSteps, Reconnect, Connect, SessionDrops, ServerHears, GoAway, Grace, Interrupt
<1>5. CASE Restart
  BY <1>5 DEF Restart, ForgetNodes, SentInv
<1>6. ASSUME NEW x \in Execution, Run(x) \/ CallFails(x) \/ Lapse(x) \/ LeftFor(x) \/ Loop(x)
      PROVE  UNCHANGED nodeVars
  BY <1>6 DEF Run, Place, Admit, Submitted, Follow, ReleaseAtOnce, CallFails, Lapse, LeftFor, Loop
<1>7. CASE Settle \/ UNCHANGED vars
  BY <1>2, <1>7 DEF Settle
<1>8. QED
  BY <1>2, <1>4, <1>5, <1>6, <1>7 DEF Next

-----------------------------------------------------------------------------
\* What a node has

\* A workload's own steps, and the end of its start, give a node nothing more.
LEMMA WorkShrinks ==
    ASSUME AgentTypeOK, NEW n \in Node, NEW x \in Execution,
           \/ Advance(n, x) \/ Fail(n, x) \/ Started(n, x) \/ Exit(n, x)
           \/ Delete(n, x) \/ Interrupt(n)
    PROVE  \A m \in Node :
               /\ starting'[m] \subseteq starting[m]
               /\ Holds(m)' \cup starting'[m] \subseteq Holds(m) \cup starting[m]
               /\ Committed(m)' \subseteq Committed(m)
<1>1. /\ box \in [Node -> [Execution -> Box]]
      /\ starting \in [Node -> SUBSET Execution]
  BY DEF AgentTypeOK
<1>2. CASE Advance(n, x)
  <2>1. UNCHANGED starting /\ x \in starting[n]
    BY <1>2 DEF Advance
  <2>2. /\ box' \in [Node -> [Execution -> Box]]
        /\ \A m \in Node, y \in Execution : m # n \/ y # x => box'[m][y] = box[m][y]
        /\ box[n][x] \in {"none", "container", "created"}
        /\ box'[n][x] \in {"container", "created", "running"}
    BY <1>1, <1>2 DEF Advance, Becomes, Box
  <2>3. QED
    BY <1>1, <2>1, <2>2 DEF Holds, Using, Committed
<1>3. CASE Fail(n, x)
  <2>1. x \in starting[n] /\ starting' = [starting EXCEPT ![n] = @ \ {x}]
    BY <1>3 DEF Fail
  <2>2. /\ box' \in [Node -> [Execution -> Box]]
        /\ \A m \in Node, y \in Execution : m # n \/ y # x => box'[m][y] = box[m][y]
        /\ box'[n][x] = "none" \/ box'[n][x] = box[n][x]
    BY <1>1, <1>3 DEF Fail, Becomes, Box
  <2>3. QED
    BY <1>1, <2>1, <2>2 DEF Holds, Using, Committed
<1>4. CASE Started(n, x)
  <2>1. /\ UNCHANGED box /\ box[n][x] \in {"running", "stopped", "deleted"}
        /\ starting' = [starting EXCEPT ![n] = @ \ {x}]
    BY <1>4 DEF Started
  <2>2. QED
    BY <1>1, <2>1 DEF Holds, Using, Committed
<1>5. CASE Exit(n, x) \/ Delete(n, x)
  <2>1. UNCHANGED starting
    BY <1>5 DEF Exit, Delete
  <2>2. /\ box' \in [Node -> [Execution -> Box]]
        /\ \A m \in Node, y \in Execution : m # n \/ y # x => box'[m][y] = box[m][y]
        /\ \/ box[n][x] = "running" /\ box'[n][x] = "stopped"
           \/ box[n][x] \notin {"none", "deleted"} /\ box'[n][x] = "deleted"
           \/ box'[n][x] = box[n][x]
    BY <1>1, <1>5 DEF Exit, Delete, Becomes, Holds, Box
  <2>3. QED
    BY <1>1, <2>1, <2>2 DEF Holds, Using, Committed
<1>6. CASE Interrupt(n)
  <2>1. UNCHANGED box /\ \A m \in Node : starting'[m] \subseteq starting[m]
    BY <1>1, <1>6 DEF Interrupt
  <2>2. QED
    BY <2>1 DEF Holds, Using, Committed
<1>7. QED
  BY <1>2, <1>3, <1>4, <1>5, <1>6, Zenon

\* A claim adds one execution to what its node has, and only if there is room.
LEMMA ClaimFits ==
    ASSUME AgentTypeOK, NEW n \in Node, NEW x \in Execution, Claim(n, x)
    PROVE  \A m \in Node :
               /\ starting'[m] = IF m = n THEN starting[m] \cup {x} ELSE starting[m]
               /\ Holds(m)' = Holds(m)
               /\ \/ Committed(m)' = Committed(m)
                  \/ /\ Committed(m)' = Committed(m) \cup {x}
                     /\ Room(Using(m) \cup starting[m]) + Size[x] <= Capacity[m]
<1>1. /\ starting \in [Node -> SUBSET Execution]
      /\ starting' = [starting EXCEPT ![n] = @ \cup {x}] /\ UNCHANGED box
  BY DEF AgentTypeOK, Claim
<1>2. \A m \in Node : Holds(m)' = Holds(m) /\ Using(m)' = Using(m)
  BY <1>1 DEF Holds, Using
<1>3. x \in Holds(n) \/ Room(Using(n) \cup starting[n]) + Size[x] <= Capacity[n]
  BY DEF Claim, Fits
<1>4. QED
  BY <1>1, <1>2, <1>3 DEF Committed, Holds

\* A node that has no more than before has room for it.
LEMMA RoomKept ==
    ASSUME NeverOvercommitted, \A n \in Node : Committed(n)' \subseteq Committed(n)
    PROVE  NeverOvercommitted'
<1> SUFFICES ASSUME NEW n \in Node PROVE Room(Committed(n)') <= Capacity[n]
  BY DEF NeverOvercommitted
<1>1. Room(Committed(n)') <= Room(Committed(n))
  BY RoomMonotone
<1>2. Room(Committed(n)) <= Capacity[n]
  BY DEF NeverOvercommitted
<1>3. Room(Committed(n)') \in Nat /\ Room(Committed(n)) \in Nat /\ Capacity[n] \in Nat
  BY RoomType, SizeAssumption
<1>4. QED
  BY <1>1, <1>2, <1>3

-----------------------------------------------------------------------------
\* What every step does to the nodes, calls and runs

Shrinks ==
    \A m \in Node :
        /\ starting'[m] \subseteq starting[m]
        /\ Holds(m)' \cup starting'[m] \subseteq Holds(m) \cup starting[m]
        /\ Committed(m)' \subseteq Committed(m)

Claimed(x) == OnCall(x) /\ Claim(call[x].node, x) /\ UNCHANGED <<nodeVars, runVars>>

\* Workloads left alone are no more than they were.
LEMMA StillShrinks == UNCHANGED workVars => Shrinks
BY DEF Shrinks, Holds, Using, Committed

\* A release gives a node nothing more.
LEMMA ReleaseShrinks ==
    ASSUME TypeOK, NEW x \in Execution, Release(x)
    PROVE  Shrinks
<1>1. \/ Locate(x) # NoNode /\ Delete(Locate(x), x)
      \/ UNCHANGED workVars
  BY Zenon DEF Release
<1>2. Locate(x) \in Node \cup {NoNode}
  BY LocateType DEF TypeOK
<1>3. ASSUME NEW n \in Node, Delete(n, x) PROVE Shrinks
  BY <1>3, WorkShrinks, Zenon DEF Shrinks, TypeOK
<1>4. QED
  BY <1>1, <1>2, <1>3, StillShrinks

\* Only a claim gives a node more than it has.
LEMMA StepShrinks ==
    ASSUME TypeOK, CallInv, FlightInv, [Next]_vars
    PROVE  Shrinks \/ \E x \in Execution : Claimed(x)
<1>1. AgentTypeOK
  BY DEF TypeOK
<1>2. ASSUME NEW x \in Execution, NEW n \in Node,
             Advance(n, x) \/ Fail(n, x) \/ Started(n, x) \/ Exit(n, x)
      PROVE  Shrinks
  BY <1>1, <1>2, WorkShrinks, Zenon DEF Shrinks
<1>3. ASSUME NEW x \in Execution, OnCall(x) PROVE call[x].node \in Node
  BY <1>3 DEF OnCall, CallInv
<1>4. ASSUME NEW x \in Execution, Run(x) \/ CallFails(x) \/ Lapse(x) \/ LeftFor(x) \/ Loop(x)
      PROVE  Shrinks \/ Claimed(x)
  <2>1. CASE Place(x) \/ Follow(x) \/ Lapse(x) \/ LeftFor(x)
    BY <2>1, StillShrinks DEF Place, Follow, Lapse, LeftFor
  <2>2. CASE Admit(x)
    BY <2>2, StillShrinks DEF Admit, Claimed
  <2>3. CASE Submitted(x)
    BY <1>2, <1>3, <2>3 DEF Submitted
  <2>4. CASE CallFails(x)
    BY <1>2, <1>3, <2>4, StillShrinks DEF CallFails
  <2>5. CASE ReleaseAtOnce(x)
    BY <2>5, StillShrinks, ReleaseShrinks, Zenon DEF ReleaseAtOnce
  <2>6. CASE Loop(x)
    BY <2>6, ReleaseShrinks, StillShrinks, Zenon DEF Loop
  <2>7. QED
    BY <1>4, <2>1, <2>2, <2>3, <2>4, <2>5, <2>6 DEF Run
<1>5. ASSUME NEW n \in Node, AgentSteps(n)
      PROVE  Shrinks
  <2>1. CASE SendReport(n)
    BY <2>1, StillShrinks DEF SendReport
  <2>2. CASE Interrupt(n)
    <3>1. \A x \in Execution : Shrinks
      BY <1>1, <2>2, WorkShrinks, Zenon DEF Shrinks
    <3>2. Execution = {} => Shrinks
      BY <1>1, <2>2 DEF AgentTypeOK, Interrupt, Shrinks, Holds, Using, Committed
    <3>3. QED
      BY <3>1, <3>2
  <2>3. CASE \E x \in Execution : (Advance(n, x) \/ Exit(n, x)) /\ UNCHANGED nodeVars
    BY <1>2, <2>3
  <2>4. QED
    BY <1>5, <2>1, <2>2, <2>3 DEF AgentSteps
<1>6. ASSUME NEW n \in Node,
             Reconnect(n) \/ SessionDrops(n) \/ ServerHears(n) \/ GoAway(n) \/ Grace(n)
      PROVE  Shrinks
  BY <1>6, StillShrinks DEF Reconnect, Connect, SessionDrops, ServerHears, GoAway, Grace, Others
<1>7. CASE Restart \/ Settle \/ UNCHANGED vars
  BY <1>7, StillShrinks DEF Restart, Settle
<1>8. QED
  BY <1>4, <1>5, <1>6, <1>7 DEF Next

\* An execution that is not new stays where it was sent, until a node refuses it
\* that has nothing of it.
LEMMA StepKeepsCalls ==
    ASSUME TypeOK, [Next]_vars, NEW y \in Execution, run[y] # "new"
    PROVE  /\ call'[y] = call[y]
           /\ run'[y] = "new" => y \notin Holds(call[y].node) \cup starting[call[y].node]
<1>1. run \in [Execution -> RunState] /\ call \in [Execution -> [node : Node \cup {NoNode}, session : Nat]]
  BY DEF TypeOK, PoolTypeOK
<1>2. ASSUME NEW x \in Execution, Place(x) PROVE run'[y] = run[y] /\ call'[y] = call[y]
  <2>1. y # x
    BY <1>2 DEF Place
  <2>2. \/ run' = [run EXCEPT ![x] = "failed"] /\ UNCHANGED call
        \/ \E n \in Node :
             /\ call' = [call EXCEPT ![x] = [node |-> n, session |-> conn[n].session]]
             /\ run' = [run EXCEPT ![x] = "calling"]
    BY <1>2 DEF Place
  <2>3. QED
    BY <1>1, <2>1, <2>2
<1>3. ASSUME NEW x \in Execution, Admit(x)
      PROVE  /\ UNCHANGED call
             /\ run'[y] = "new" => y \notin Holds(call[y].node) \cup starting[call[y].node]
  BY <1>1, <1>3 DEF Admit, Fits
<1>4. ASSUME NEW x \in Execution,
             \/ Submitted(x) \/ Follow(x) \/ ReleaseAtOnce(x)
             \/ CallFails(x) \/ Lapse(x) \/ LeftFor(x) \/ Loop(x)
      PROVE  UNCHANGED call /\ run'[y] # "new"
  BY <1>1, <1>4 DEF Submitted, Follow, ReleaseAtOnce, CallFails, Lapse, LeftFor, Loop
<1>5. ASSUME NEW n \in Node,
             \/ AgentSteps(n) \/ Reconnect(n) \/ SessionDrops(n)
             \/ ServerHears(n) \/ GoAway(n) \/ Grace(n)
      PROVE  UNCHANGED runVars
  BY <1>5 DEF AgentSteps, Reconnect, SessionDrops, ServerHears, GoAway, Grace, Others
<1>6. CASE Restart
  BY <1>1, <1>6 DEF Restart
<1>7. CASE Settle \/ UNCHANGED vars
  BY <1>7 DEF Settle
<1>8. QED
  BY <1>2, <1>3, <1>4, <1>5, <1>6, <1>7 DEF Next, Run

-----------------------------------------------------------------------------
\* The invariant is kept

\* Nodes have only what was sent to them.
LEMMA PlaceNext ==
    ASSUME TypeOK, CallInv, PlaceInv, FlightInv, [Next]_vars
    PROVE  PlaceInv'
<1> SUFFICES ASSUME NEW n \in Node, NEW y \in Execution, y \in Holds(n)' \cup starting'[n]
             PROVE  run'[y] # "new" /\ call'[y].node = n
  BY Zenon DEF PlaceInv
<1>1. CASE y \in Holds(n) \cup starting[n]
  <2>1. run[y] # "new" /\ call[y].node = n
    BY <1>1 DEF PlaceInv
  <2>2. QED
    BY <1>1, <2>1, StepKeepsCalls
<1>2. CASE y \notin Holds(n) \cup starting[n]
  <2>1. PICK x \in Execution : Claimed(x)
    BY <1>2, StepShrinks DEF Shrinks
  <2>2. PICK k \in Node : k = call[x].node /\ Claim(k, x)
    BY <2>1 DEF Claimed, OnCall, CallInv
  <2>3. /\ starting'[n] = IF n = k THEN starting[n] \cup {x} ELSE starting[n]
        /\ Holds(n)' = Holds(n)
    <3>1. /\ starting \in [Node -> SUBSET Execution]
          /\ starting' = [starting EXCEPT ![k] = @ \cup {x}] /\ UNCHANGED box
      BY <2>2 DEF TypeOK, AgentTypeOK, Claim
    <3>2. QED
      BY <3>1 DEF Holds
  <2>4. y = x /\ n = call[x].node
    BY <1>2, <2>2, <2>3
  <2>5. QED
    BY <2>1, <2>4 DEF Claimed, OnCall
<1>3. QED
  BY <1>1, <1>2

\* No node has room given out that it has not.
LEMMA RoomNext ==
    ASSUME TypeOK, CallInv, FlightInv, NeverOvercommitted, [Next]_vars
    PROVE  NeverOvercommitted'
<1>1. CASE Shrinks
  BY <1>1, RoomKept DEF Shrinks
<1>2. CASE \E x \in Execution : Claimed(x)
  <2>1. PICK x \in Execution : Claimed(x)
    BY <1>2
  <2>2. call[x].node \in Node /\ AgentTypeOK
    BY <2>1 DEF Claimed, OnCall, CallInv, TypeOK
  <2> SUFFICES ASSUME NEW m \in Node PROVE Room(Committed(m)') <= Capacity[m]
    BY DEF NeverOvercommitted
  <2>3. CASE Committed(m)' = Committed(m)
    <3>1. Room(Committed(m)) <= Capacity[m]
      BY DEF NeverOvercommitted
    <3>2. QED
      BY <2>3, <3>1, Zenon
  <2>4. CASE /\ Committed(m)' = Committed(m) \cup {x}
             /\ Room(Using(m) \cup starting[m]) + Size[x] <= Capacity[m]
    <3>1. Room(Committed(m)') <= Room(Committed(m)) + Size[x]
      <4>1. Room(Committed(m) \cup {x}) <= Room(Committed(m)) + Size[x]
        BY RoomOfOneMore
      <4>2. QED
        BY <2>4, <4>1, Zenon
    <3>2. Room(Committed(m)) <= Room(Using(m) \cup starting[m])
      <4>1. Committed(m) \subseteq Using(m) \cup starting[m]
        BY DEF Committed
      <4>2. QED
        BY <4>1, RoomMonotone
    <3>3. /\ Room(Committed(m)) \in Nat /\ Room(Committed(m)') \in Nat
          /\ Room(Using(m) \cup starting[m]) \in Nat
          /\ Size[x] \in Nat /\ Capacity[m] \in Nat
      BY RoomType, SizeAssumption
    <3>4. QED
      BY <2>4, <3>1, <3>2, <3>3
  <2>5. \/ Committed(m)' = Committed(m)
        \/ /\ Committed(m)' = Committed(m) \cup {x}
           /\ Room(Using(m) \cup starting[m]) + Size[x] <= Capacity[m]
    <3>1. Claim(call[x].node, x)
      BY <2>1 DEF Claimed
    <3>2. QED
      BY <2>2, <3>1, ClaimFits, Zenon
  <2>6. QED
    BY <2>3, <2>4, <2>5
<1>3. QED
  BY <1>1, <1>2, StepShrinks

\* A session is opened only on a node with nothing in flight.
LEMMA StepKeepsSessions ==
    ASSUME TypeOK, [Next]_vars, NEW m \in Node, open'[m]
    PROVE  starting'[m] = {} \/ (open[m] /\ session'[m] = session[m])
<1>1. /\ open \in [Node -> BOOLEAN] /\ session \in [Node -> Nat]
      /\ starting \in [Node -> SUBSET Execution]
  BY DEF TypeOK, NodesTypeOK, AgentTypeOK
<1>2. ASSUME NEW n \in Node, Reconnect(n)
      PROVE  starting'[m] = {} \/ (open[m] /\ session'[m] = session[m])
  BY <1>1, <1>2 DEF Reconnect, Connect, Dial
<1>3. ASSUME NEW n \in Node, SessionDrops(n)
      PROVE  open[m] /\ session'[m] = session[m]
  BY <1>1, <1>3 DEF SessionDrops, Drop
<1>4. ASSUME NEW n \in Node, AgentSteps(n) \/ ServerHears(n) \/ GoAway(n) \/ Grace(n)
      PROVE  UNCHANGED <<open, session>>
  BY <1>4 DEF AgentSteps, SendReport, Report, Interrupt, ServerHears, Register, Remove,
     GoAway, Grace, GiveUpOn
<1>5. ASSUME NEW x \in Execution, Run(x) \/ CallFails(x) \/ Lapse(x) \/ LeftFor(x) \/ Loop(x)
      PROVE  UNCHANGED <<open, session>>
  BY <1>5 DEF Run, Place, Admit, Submitted, Follow, ReleaseAtOnce, CallFails, Lapse, LeftFor, Loop
<1>6. CASE Restart
  BY <1>6 DEF Restart, ForgetNodes
<1>7. CASE Settle \/ UNCHANGED vars
  BY <1>7 DEF Settle
<1>8. QED
  BY <1>2, <1>3, <1>4, <1>5, <1>6, <1>7 DEF Next

\* A call ends with its session, or with the submission it made.
LEMMA StepKeepsCalling ==
    ASSUME TypeOK, CallInv, [Next]_vars, NEW y \in Execution, run[y] = "calling",
           call[y].node \in Node, Alive(call[y].node, call[y].session),
           open'[call[y].node], y \in starting'[call[y].node], y \in starting[call[y].node]
    PROVE  run'[y] = "calling"
<1>1. run \in [Execution -> RunState] /\ starting \in [Node -> SUBSET Execution]
  BY DEF TypeOK, PoolTypeOK, AgentTypeOK
<1>2. ASSUME NEW x \in Execution, Admit(x) PROVE run'[y] = "calling"
  BY <1>1, <1>2 DEF Admit
<1>3. ASSUME NEW x \in Execution, Submitted(x) PROVE run'[y] = "calling"
  BY <1>1, <1>3 DEF Submitted, Started
<1>4. ASSUME NEW x \in Execution, CallFails(x) PROVE run'[y] = "calling"
  BY <1>1, <1>4 DEF CallFails, Fail, OnCall
<1>5. ASSUME NEW x \in Execution, Place(x) PROVE run'[y] = "calling"
  <2>1. \/ x # y /\ run' = [run EXCEPT ![x] = "failed"]
        \/ x # y /\ run' = [run EXCEPT ![x] = "calling"]
    BY <1>5 DEF Place
  <2>2. QED
    BY <1>1, <2>1
<1>6. ASSUME NEW x \in Execution,
             Follow(x) \/ ReleaseAtOnce(x) \/ Lapse(x) \/ LeftFor(x) \/ Loop(x)
      PROVE  run'[y] = "calling"
  BY <1>1, <1>6 DEF Follow, ReleaseAtOnce, Lapse, LeftFor, Loop
<1>7. ASSUME NEW n \in Node,
             \/ AgentSteps(n) \/ Reconnect(n) \/ SessionDrops(n)
             \/ ServerHears(n) \/ GoAway(n) \/ Grace(n)
      PROVE  UNCHANGED runVars
  BY <1>7 DEF AgentSteps, Reconnect, SessionDrops, ServerHears, GoAway, Grace, Others
<1>8. ~Restart
  BY DEF Restart, ForgetNodes
<1>9. CASE Settle \/ UNCHANGED vars
  BY <1>9 DEF Settle
<1>10. QED
  BY <1>2, <1>3, <1>4, <1>5, <1>6, <1>7, <1>8, <1>9 DEF Next, Run

\* Submissions in flight stay calls on their session.
LEMMA FlightNext ==
    ASSUME TypeOK, CallInv, PlaceInv, FlightInv, [Next]_vars
    PROVE  FlightInv'
<1> SUFFICES ASSUME NEW n \in Node, NEW y \in Execution, y \in starting'[n], open'[n]
             PROVE  run'[y] = "calling" /\ call'[y].session = session'[n]
  BY Zenon DEF FlightInv
<1>1. open[n] /\ session'[n] = session[n]
  BY StepKeepsSessions
<1>2. CASE y \in starting[n]
  <2>1. run[y] = "calling" /\ call[y].session = session[n] /\ call[y].node = n
    BY <1>1, <1>2 DEF FlightInv, PlaceInv
  <2>2. Alive(n, call[y].session)
    BY <1>1, <2>1 DEF Alive
  <2>3. run'[y] = "calling"
    BY <1>2, <2>1, <2>2, StepKeepsCalling
  <2>4. call'[y] = call[y]
    BY <2>1, StepKeepsCalls
  <2>5. QED
    BY <1>1, <2>1, <2>3, <2>4
<1>3. CASE y \notin starting[n]
  <2>1. PICK x \in Execution : Claimed(x)
    BY <1>3, StepShrinks DEF Shrinks
  <2>2. call[x].node \in Node /\ AgentTypeOK
    BY <2>1 DEF Claimed, OnCall, CallInv, TypeOK
  <2>3. y = x /\ n = call[x].node
    <3>1. starting' = [starting EXCEPT ![call[x].node] = @ \cup {x}]
      BY <2>1 DEF Claimed, Claim
    <3>2. QED
      BY <1>3, <2>2, <3>1 DEF AgentTypeOK
  <2>4. QED
    BY <2>1, <2>3 DEF Claimed, OnCall, Alive
<1>4. QED
  BY <1>2, <1>3

\* Every step keeps the invariant.
LEMMA InvNext == Inv /\ [Next]_vars => Inv'
<1> SUFFICES ASSUME Inv, [Next]_vars PROVE Inv'
  OBVIOUS
<1>1. TypeOK /\ CallInv /\ PlaceInv /\ FlightInv /\ SentInv /\ NeverOvercommitted
  BY DEF Inv
<1>2. QED
  BY <1>1, TypeNext, CallNext, PlaceNext, FlightNext, SentNext, RoomNext DEF Inv

-----------------------------------------------------------------------------
\* The theorems

\* The inductive invariant holds of every behaviour: what nodes have was sent to
\* them on the session they are on, and is within their room.
THEOREM Invariant == Spec => []Inv
BY InvInit, InvNext, PTL DEF Spec

\* Every variable keeps its type.
THEOREM TypeCorrect == Spec => []TypeOK
<1>1. Inv => TypeOK
  BY DEF Inv
<1>2. QED
  BY <1>1, Invariant, PTL

\* No node is ever given more than it has, whatever the server believed it had
\* left (executions.fits, tryClaim).
THEOREM NeverOvercommittedAlways == Spec => []NeverOvercommitted
<1>1. Inv => NeverOvercommitted
  BY DEF Inv
<1>2. QED
  BY <1>1, Invariant, PTL

\* No execution is ever on two nodes (Provider.SubmitTo).
THEOREM OneNodeAlways == Spec => []OneNode
<1>1. Inv => OneNode
  BY DEF Inv, PlaceInv, OneNode
<1>2. QED
  BY <1>1, Invariant, PTL

\* A step leaves a live session connected: what the server handles late is never
\* of a session before it.
LEMMA ConnectionKept ==
    ASSUME TypeOK, SentInv, Next, NEW n \in Node, Reached(n), open'[n]
    PROVE  Reached(n)'
<1>1. /\ open \in [Node -> BOOLEAN] /\ session \in [Node -> Nat]
      /\ conn \in [Node -> [session : Nat, held : Reports \cup {NoReport}]]
      /\ sent \in [Node -> [session : Nat, held : Reports] \cup {NoReport}]
  BY DEF TypeOK, NodesTypeOK
<1>2. conn[n].session # 0 /\ open[n] /\ session[n] = conn[n].session
  BY DEF Reached, Connected, Alive
<1>3. ASSUME UNCHANGED <<open, session, conn>> PROVE Reached(n)'
  BY <1>3 DEF Reached, Connected, Alive
<1>4. ASSUME NEW m \in Node, Reconnect(m) PROVE Reached(n)'
  BY <1>1, <1>2, <1>4 DEF Reconnect, Connect, Dial, Reached, Connected, Alive
<1>5. ASSUME NEW m \in Node, SessionDrops(m) PROVE Reached(n)'
  BY <1>1, <1>2, <1>5 DEF SessionDrops, Drop, Reached, Connected, Alive
<1>6. ASSUME NEW m \in Node, Register(m) PROVE Reached(n)'
  <2>1. CASE m = n
    BY <1>1, <1>2, <1>6, <2>1 DEF Register, SentInv, Reached, Connected, Alive
  <2>2. CASE m # n
    BY <1>1, <1>2, <1>6, <2>2 DEF Register, Reached, Connected, Alive
  <2>3. QED
    BY <2>1, <2>2
<1>7. ASSUME NEW m \in Node, Remove(m) PROVE Reached(n)'
  <2>1. UNCHANGED <<open, session>>
    BY <1>7 DEF Remove
  <2>2. conn'[n] = conn[n]
    BY <1>1, <1>2, <1>7 DEF Remove, Alive
  <2>3. QED
    BY <1>2, <2>1, <2>2 DEF Reached, Connected, Alive
<1>8. ASSUME NEW m \in Node, AgentSteps(m) \/ GoAway(m) \/ Grace(m)
      PROVE  UNCHANGED <<open, session, conn>>
  BY <1>8 DEF AgentSteps, SendReport, Report, Interrupt, GoAway, Grace, GiveUpOn
<1>9. ASSUME NEW x \in Execution, Run(x) \/ CallFails(x) \/ Lapse(x) \/ LeftFor(x) \/ Loop(x)
      PROVE  UNCHANGED <<open, session, conn>>
  BY <1>9 DEF Run, Place, Admit, Submitted, Follow, ReleaseAtOnce, CallFails, Lapse, LeftFor, Loop
<1>10. ~Restart
  BY DEF Restart, ForgetNodes
<1>11. CASE Settle
  BY <1>3, <1>11 DEF Settle
<1>12. QED
  BY <1>3, <1>4, <1>5, <1>6, <1>7, <1>8, <1>9, <1>10, <1>11 DEF Next, ServerHears

\* A node whose session holds stays connected (Conns.Report, Remove).
THEOREM StaysConnectedAlways == Spec => StaysConnected
<1>1. Inv /\ [Next]_vars => [\A n \in Node : Reached(n) /\ open'[n] => Reached(n)']_vars
  BY ConnectionKept DEF Inv
<1>2. QED
  BY <1>1, Invariant, PTL DEF Spec, StaysConnected

-----------------------------------------------------------------------------
\* What a step does to one execution

\* A step that has nothing to do with x.
Untouched(x) ==
    /\ run'[x] = run[x]
    /\ \A m \in Node : box'[m][x] = box[m][x] /\ (x \in starting'[m] <=> x \in starting[m])

Attended(x) == Run(x) \/ CallFails(x) \/ Lapse(x) \/ LeftFor(x) \/ Loop(x)

\* What a node does for one execution leaves the others alone.
LEMMA WorkUntouched ==
    ASSUME AgentTypeOK, NEW n \in Node, NEW x \in Execution, NEW y \in Execution, y # x,
           \/ Claim(n, x) \/ Advance(n, x) \/ Fail(n, x) \/ Started(n, x) \/ Exit(n, x)
           \/ Delete(n, x)
    PROVE  \A m \in Node : box'[m][y] = box[m][y] /\ (y \in starting'[m] <=> y \in starting[m])
<1>1. /\ box \in [Node -> [Execution -> Box]]
      /\ starting \in [Node -> SUBSET Execution]
  BY DEF AgentTypeOK
<1>2. CASE Claim(n, x) \/ Started(n, x)
  <2>1. /\ UNCHANGED box
        /\ \/ starting' = [starting EXCEPT ![n] = @ \cup {x}]
           \/ starting' = [starting EXCEPT ![n] = @ \ {x}]
    BY <1>2 DEF Claim, Started
  <2>2. QED
    BY <1>1, <2>1
<1>3. CASE Advance(n, x) \/ Exit(n, x) \/ Delete(n, x)
  BY <1>1, <1>3 DEF Advance, Exit, Delete, Becomes
<1>4. CASE Fail(n, x)
  BY <1>1, <1>4 DEF Fail, Becomes
<1>5. QED
  BY <1>2, <1>3, <1>4

\* Nor is any other execution touched by a run or the loop.
LEMMA AttendedUntouched ==
    ASSUME TypeOK, CallInv, NEW x \in Execution, Attended(x), NEW y \in Execution, y # x
    PROVE  Untouched(y)
<1>1. AgentTypeOK /\ PoolTypeOK /\ run \in [Execution -> RunState]
  BY DEF TypeOK, PoolTypeOK
<1>2. run'[y] = run[y]
  <2>1. CASE Place(x)
    BY <1>1, <2>1 DEF Place
  <2>2. CASE Admit(x) \/ Submitted(x)
    BY <1>1, <2>2 DEF Admit, Submitted, runVars
  <2>3. CASE Follow(x) \/ CallFails(x) \/ Lapse(x) \/ LeftFor(x)
    BY <1>1, <2>3 DEF Follow, CallFails, Lapse, LeftFor, runVars
  <2>4. CASE ReleaseAtOnce(x) \/ Loop(x)
    <3>1. run' = [run EXCEPT ![x] = "read"] \/ UNCHANGED run
      BY <2>4, Zenon DEF ReleaseAtOnce, Loop
    <3>2. QED
      BY <1>1, <3>1
  <2>5. QED
    BY <2>1, <2>2, <2>3, <2>4 DEF Attended, Run
<1>3. \/ UNCHANGED workVars
      \/ \E n \in Node : Claim(n, x) \/ Fail(n, x) \/ Started(n, x) \/ Delete(n, x)
  <2>1. OnCall(x) => call[x].node \in Node
    BY DEF OnCall, CallInv
  <2>2. CASE Release(x)
    <3>1. \/ Locate(x) # NoNode /\ Delete(Locate(x), x)
          \/ UNCHANGED workVars
      BY <2>2, Zenon DEF Release
    <3>2. QED
      BY <1>1, <3>1, LocateType
  <2>3. QED
    BY <2>1, <2>2
       DEF Attended, Run, Place, Admit, Submitted, Follow, CallFails, Lapse, LeftFor,
           ReleaseAtOnce, Loop
<1>4. QED
  BY <1>1, <1>2, <1>3, WorkUntouched DEF Untouched, workVars

\* Only its own run, the loop or a restart change what has become of a run.
LEMMA RunStep ==
    ASSUME TypeOK, CallInv, [Next]_vars, NEW x \in Execution
    PROVE  \/ run'[x] = run[x]
           \/ run[x] = "new" /\ run'[x] \in {"calling", "failed", "following"}
           \/ run[x] = "calling" /\ run'[x] \in {"new", "failed", "following"}
           \/ run[x] = "following" /\ run'[x] = "failed"
           \/ run[x] = "following" /\ run'[x] = "answered" /\ StatusOf(x) = "terminal"
           \/ run[x] = "answered" /\ run'[x] = "read"
<1>1. run \in [Execution -> RunState]
  BY DEF TypeOK, PoolTypeOK
<1>2. ASSUME NEW y \in Execution, y # x, Attended(y) PROVE run'[x] = run[x]
  BY <1>2, AttendedUntouched DEF Untouched
<1>3. CASE Place(x) \/ Admit(x) \/ Submitted(x) \/ Lapse(x) \/ LeftFor(x)
  BY <1>1, <1>3 DEF Place, Admit, OnCall, Submitted, Lapse, LeftFor, runVars
<1>4. CASE Follow(x) \/ CallFails(x)
  BY <1>1, <1>4 DEF Follow, CallFails
<1>5. CASE ReleaseAtOnce(x) \/ Loop(x)
  <2>1. \/ run[x] = "answered" /\ run' = [run EXCEPT ![x] = "read"]
        \/ UNCHANGED run
    BY <1>5, Zenon DEF ReleaseAtOnce, Loop
  <2>2. QED
    BY <1>1, <2>1
<1>6. ASSUME NEW n \in Node,
             \/ AgentSteps(n) \/ Reconnect(n) \/ SessionDrops(n)
             \/ ServerHears(n) \/ GoAway(n) \/ Grace(n)
      PROVE  UNCHANGED run
  BY <1>6 DEF AgentSteps, Reconnect, SessionDrops, ServerHears, GoAway, Grace, Others, runVars
<1>7. CASE Restart
  BY <1>1, <1>7 DEF Restart, RunState
<1>8. CASE Settle \/ UNCHANGED vars
  BY <1>8 DEF Settle, vars, runVars
<1>9. QED
  BY <1>2, <1>3, <1>4, <1>5, <1>6, <1>7, <1>8 DEF Next, Run, Attended

\* What a node has of an execution changes by a start, an exit, a call that fails
\* or a release, and by nothing else.
LEMMA BoxStep ==
    ASSUME TypeOK, CallInv, [Next]_vars, NEW x \in Execution, NEW n \in Node,
           box'[n][x] # box[n][x]
    PROVE  \/ /\ Advance(n, x) \/ Exit(n, x)
              /\ UNCHANGED <<nodeVars, runVars, loopVars, poolVars, history>>
           \/ Fail(n, x) /\ run[x] = "calling" /\ run'[x] = "failed"
           \/ /\ ReleaseAtOnce(x) \/ Loop(x)
              /\ Release(x) /\ Locate(x) = n /\ Reached(n) /\ Delete(n, x)
<1>1. /\ AgentTypeOK /\ PoolTypeOK /\ run \in [Execution -> RunState]
      /\ box \in [Node -> [Execution -> Box]]
  BY DEF TypeOK, PoolTypeOK, AgentTypeOK
<1>2. ~ UNCHANGED box
  OBVIOUS
<1>3. ASSUME NEW y \in Execution, Attended(y) PROVE y = x
  BY <1>3, AttendedUntouched DEF Untouched
<1>4. ~(Place(x) \/ Admit(x) \/ Submitted(x) \/ Follow(x) \/ Lapse(x) \/ LeftFor(x))
  BY <1>2 DEF Place, Admit, Claim, Submitted, Started, Follow, Lapse, LeftFor, workVars
<1>5. ASSUME NEW m \in Node, NEW y, ~ (m = n /\ y = x), NEW state PROVE ~Becomes(m, y, state)
  BY <1>1, <1>5 DEF Becomes
<1>6. CASE CallFails(x)
  <2>1. OnCall(x) /\ Fail(call[x].node, x)
    BY <1>2, <1>6 DEF CallFails, workVars
  <2>2. call[x].node \in Node
    BY <2>1 DEF OnCall, CallInv
  <2>3. call[x].node = n
    BY <1>5, <2>1, <2>2, Zenon DEF Fail
  <2>4. QED
    BY <1>1, <1>6, <2>1, <2>3 DEF CallFails
<1>7. CASE ReleaseAtOnce(x) \/ Loop(x)
  <2>1. Release(x)
    BY <1>2, <1>7, Zenon DEF ReleaseAtOnce, Loop, workVars
  <2>2. Locate(x) # NoNode /\ Reached(Locate(x)) /\ Delete(Locate(x), x)
    <3>1. \/ Locate(x) # NoNode /\ Reached(Locate(x)) /\ Delete(Locate(x), x)
          \/ UNCHANGED workVars
      BY <2>1, Zenon DEF Release
    <3>2. QED
      BY <1>2, <3>1 DEF workVars
  <2>3. Locate(x) = n
    <3>1. Locate(x) \in Node
      BY <1>1, <2>2, LocateType
    <3>2. QED
      BY <1>5, <2>2, <3>1, Zenon DEF Delete
  <2>4. QED
    BY <1>7, <2>1, <2>2, <2>3
<1>8. ASSUME NEW m \in Node, AgentSteps(m)
      PROVE  /\ Advance(n, x) \/ Exit(n, x)
             /\ UNCHANGED <<nodeVars, runVars, loopVars, poolVars, history>>
  <2>1. ~SendReport(m) /\ ~Interrupt(m)
    BY <1>2 DEF SendReport, Interrupt, workVars
  <2>2. PICK y \in Execution : (Advance(m, y) \/ Exit(m, y)) /\ UNCHANGED nodeVars
    BY <1>8, <2>1 DEF AgentSteps
  <2>3. m = n /\ y = x
    BY <1>5, <2>2, Zenon DEF Advance, Exit
  <2>4. QED
    BY <1>8, <2>2, <2>3 DEF AgentSteps
<1>9. ASSUME NEW m \in Node,
             Reconnect(m) \/ SessionDrops(m) \/ ServerHears(m) \/ GoAway(m) \/ Grace(m)
      PROVE  FALSE
  BY <1>2, <1>9
     DEF Reconnect, Connect, SessionDrops, ServerHears, GoAway, Grace, Others, workVars
<1>10. ~Restart /\ ~Settle /\ ~ UNCHANGED vars
  BY <1>2 DEF Restart, Settle, vars, workVars
<1>11. QED
  BY <1>3, <1>4, <1>6, <1>7, <1>8, <1>9, <1>10 DEF Next, Run, Attended

-----------------------------------------------------------------------------
\* What the server knows of what nodes hold

\* What the server was told of node n, or is about to be.
Reported(n) ==
    {x \in Execution : \/ Connected(n) /\ x \in conn[n].held.all
                       \/ sent[n] # NoReport /\ x \in sent[n].held.all}

\* The submission of x has made nothing yet, and may still.
Untaken(x) ==
    \/ run[x] = "new"
    \/ OnCall(x) /\ x \notin starting[call[x].node]
    \/ \E n \in Node : x \in starting[n] /\ box[n][x] = "none"

\* Whatever has x and can be asked has told the server, and tells it again.
Seen(x) ==
    \A n \in Node : open[n] /\ x \in Holds(n) =>
        /\ Reached(n) => x \in conn[n].held.all
        /\ sent[n] # NoReport => x \in sent[n].held.all

\* What has made nothing is held and reported by no node.
UntakenInv ==
    \A x \in Execution : Untaken(x) => \A n \in Node : box[n][x] = "none" /\ x \notin Reported(n)

\* A node reports only what was sent to it.
ReportInv == \A n \in Node, x \in Execution : x \in Reported(n) => call[x].node = n

\* A report on its way still has what the server knows and the node holds.
LaterInv ==
    \A n \in Node, x \in Execution :
        Connected(n) /\ x \in conn[n].held.all /\ sent[n] # NoReport /\ x \in Holds(n)
            => x \in sent[n].held.all

\* What the loop takes up once it is submitted, and a result read from a node that
\* was found by its report, is known wherever it is, until it is marked.
SeenInv ==
    \A x \in Execution :
        \/ x \in marked
        \/ listed[x] \notin {"open", "read"} /\ (run[x] = "answered" => placed[x] # NoNode)
        \/ Seen(x)

\* What the loop's copy of a record says may be out of date, never wrong.
ListedInv ==
    \A x \in Execution :
        /\ listed[x] \in {"open", "read"} => run[x] \notin {"new", "calling"}
        /\ listed[x] = "read" => run[x] \in {"answered", "read"}

\* Where an execution was placed is where it was sent; a restart or a release
\* forgets it.
PlacedInv ==
    \A x \in Execution :
        /\ placed[x] # NoNode => placed[x] = call[x].node /\ run[x] \notin {"new", "calling"}
        /\ run[x] \in {"following", "answered", "read"} /\ placed[x] = NoNode
              => "restart" \in mishaps \/ x \in marked

\* The server knows of no session that has not been opened.
SessionInv ==
    /\ \A n \in Node : conn[n].session <= session[n]
    /\ \A x \in Execution : run[x] = "calling" => call[x].session <= session[call[x].node]

\* A node that is away has no session.
AwayInv == \A n \in away : ~open[n]

KnownInv ==
    /\ UntakenInv /\ ReportInv /\ LaterInv /\ SeenInv
    /\ ListedInv /\ PlacedInv /\ SessionInv /\ AwayInv

\* It holds before anything is submitted.
LEMMA KnownInit == Init => KnownInv
<1> SUFFICES ASSUME Init PROVE KnownInv
  OBVIOUS
<1>1. /\ \A n \in Node : Holds(n) = {} /\ Reported(n) = {}
      /\ \A n \in Node, x \in Execution : box[n][x] = "none"
  BY DEF Init, NodesInit, AgentInit, Holds, Reported, Connected, NotConnected
<1>2. UntakenInv /\ ReportInv
  BY <1>1 DEF UntakenInv, ReportInv
<1>3. LaterInv /\ SeenInv
  BY <1>1 DEF LaterInv, SeenInv, Seen
<1>4. ListedInv /\ PlacedInv /\ AwayInv
  BY DEF Init, Nowhere, ListedInv, PlacedInv, AwayInv
<1>5. SessionInv
  BY DEF Init, NodesInit, NotConnected, SessionInv
<1>6. QED
  BY <1>2, <1>3, <1>4, <1>5 DEF KnownInv

-----------------------------------------------------------------------------
\* What every step does to the sessions, the reports and the workloads

\* A step at the nodes' end or the server's leaves the rest alone, but for a restart.
LEMMA StepOfNodes ==
    ASSUME [Next]_vars
    PROVE  \/ UNCHANGED nodeVars
           \/ /\ \E m \in Node : \/ Dial(m) \/ SendReport(m) \/ Drop(m)
                                 \/ Register(m) \/ Remove(m) \/ GiveUpOn(m)
              /\ UNCHANGED <<workVars, runVars, loopVars, poolVars>>
           \/ Restart
<1>1. ASSUME NEW m \in Node, AgentSteps(m)
      PROVE  UNCHANGED nodeVars \/ (SendReport(m) /\ UNCHANGED <<workVars, runVars, loopVars, poolVars>>)
  BY <1>1 DEF AgentSteps, SendReport, Interrupt
<1>2. ASSUME NEW m \in Node,
             Reconnect(m) \/ SessionDrops(m) \/ ServerHears(m) \/ GoAway(m) \/ Grace(m)
      PROVE  /\ UNCHANGED <<workVars, runVars, loopVars, poolVars>>
             /\ UNCHANGED nodeVars \/ Dial(m) \/ Drop(m) \/ Register(m) \/ Remove(m) \/ GiveUpOn(m)
  BY <1>2 DEF Reconnect, Connect, SessionDrops, ServerHears, GoAway, Grace, Others
<1>3. ASSUME NEW x \in Execution, Run(x) \/ CallFails(x) \/ Lapse(x) \/ LeftFor(x) \/ Loop(x)
      PROVE  UNCHANGED nodeVars
  BY <1>3 DEF Run, Place, Admit, Submitted, Follow, ReleaseAtOnce, CallFails, Lapse, LeftFor, Loop
<1>4. CASE Settle \/ UNCHANGED vars
  BY <1>4 DEF Settle
<1>5. QED
  BY <1>1, <1>2, <1>3, <1>4 DEF Next

\* A node's connection and the report on its way stay or are lost, or it reports
\* what it holds, or what it reported is heard.
LEMMA StepReports ==
    ASSUME TypeOK, [Next]_vars, NEW n \in Node
    PROVE  \/ conn'[n] \in {conn[n], NotConnected} /\ sent'[n] \in {sent[n], NoReport}
           \/ /\ conn'[n] = conn[n] /\ sent'[n] = [session |-> session[n], held |-> Held(n)]
              /\ UNCHANGED <<session, open, workVars, runVars, loopVars, poolVars>>
           \/ /\ sent[n] # NoReport /\ conn'[n] = sent[n] /\ sent'[n] = NoReport
              /\ UNCHANGED <<session, open>>
<1>1. /\ conn \in [Node -> [session : Nat, held : Reports \cup {NoReport}]]
      /\ sent \in [Node -> [session : Nat, held : Reports] \cup {NoReport}]
  BY DEF TypeOK, NodesTypeOK
<1>2. CASE UNCHANGED nodeVars
  BY <1>2
<1>3. ASSUME NEW m \in Node, Dial(m) \/ Drop(m) \/ Remove(m) \/ GiveUpOn(m)
      PROVE  conn'[n] \in {conn[n], NotConnected} /\ sent'[n] \in {sent[n], NoReport}
  <2>1. CASE Dial(m) \/ GiveUpOn(m)
    BY <2>1 DEF Dial, GiveUpOn
  <2>2. CASE Drop(m)
    BY <1>1, <2>2 DEF Drop
  <2>3. CASE Remove(m)
    BY <1>1, <2>3 DEF Remove
  <2>4. QED
    BY <1>3, <2>1, <2>2, <2>3
<1>4. ASSUME NEW m \in Node, SendReport(m), UNCHANGED <<runVars, loopVars, poolVars>>
      PROVE  \/ conn'[n] = conn[n] /\ sent'[n] = sent[n]
             \/ /\ conn'[n] = conn[n] /\ sent'[n] = [session |-> session[n], held |-> Held(n)]
                /\ UNCHANGED <<session, open, workVars, runVars, loopVars, poolVars>>
  BY <1>1, <1>4 DEF SendReport, Report
<1>5. ASSUME NEW m \in Node, Register(m)
      PROVE  \/ conn'[n] = conn[n] /\ sent'[n] = sent[n]
             \/ /\ sent[n] # NoReport /\ conn'[n] = sent[n] /\ sent'[n] = NoReport
                /\ UNCHANGED <<session, open>>
  BY <1>1, <1>5 DEF Register
<1>6. CASE Restart
  BY <1>6 DEF Restart, ForgetNodes
<1>7. QED
  BY <1>2, <1>3, <1>4, <1>5, <1>6, StepOfNodes

\* The server comes to hear only of what a node holds.
LEMMA StepReported ==
    ASSUME TypeOK, [Next]_vars, NEW n \in Node, NEW y \in Execution, y \in Reported(n)'
    PROVE  y \in Reported(n) \cup Holds(n)
<1>1. \/ conn'[n].session # 0 /\ y \in conn'[n].held.all
      \/ sent'[n] # NoReport /\ y \in sent'[n].held.all
  BY DEF Reported, Connected
<1>2. CASE conn'[n] \in {conn[n], NotConnected} /\ sent'[n] \in {sent[n], NoReport}
  BY <1>1, <1>2 DEF Reported, Connected, NotConnected
<1>3. CASE /\ conn'[n] = conn[n] /\ sent'[n] = [session |-> session[n], held |-> Held(n)]
           /\ UNCHANGED <<session, open, workVars, runVars, loopVars, poolVars>>
  <2>1. sent'[n].held.all = Holds(n)
    BY <1>3 DEF Held
  <2>2. QED
    BY <1>1, <1>3, <2>1 DEF Reported, Connected
<1>4. CASE sent[n] # NoReport /\ conn'[n] = sent[n] /\ sent'[n] = NoReport
  BY <1>1, <1>4 DEF Reported
<1>5. QED
  BY <1>2, <1>3, <1>4, StepReports

\* A session that is open after a step was open before it, or is a new one, dialled
\* with nothing on its way.
LEMMA StepSessions ==
    ASSUME TypeOK, [Next]_vars, NEW n \in Node
    PROVE  /\ session[n] \in Nat /\ session'[n] \in Nat /\ session[n] <= session'[n]
           /\ open'[n] =>
                \/ open[n] /\ session'[n] = session[n]
                \/ /\ session'[n] = session[n] + 1 /\ sent[n] = NoReport
                   /\ UNCHANGED <<sent, conn, workVars, runVars, loopVars, poolVars>>
<1>1. session \in [Node -> Nat] /\ open \in [Node -> BOOLEAN]
  BY DEF TypeOK, NodesTypeOK
<1>2. CASE UNCHANGED nodeVars
  BY <1>1, <1>2
<1>3. ASSUME NEW m \in Node, Dial(m), UNCHANGED <<workVars, runVars, loopVars, poolVars>>
      PROVE  /\ session'[n] \in {session[n], session[n] + 1}
             /\ open'[n] => \/ open[n] /\ session'[n] = session[n]
                            \/ /\ session'[n] = session[n] + 1 /\ sent[n] = NoReport
                               /\ UNCHANGED <<sent, conn, workVars, runVars, loopVars, poolVars>>
  BY <1>1, <1>3 DEF Dial
<1>4. ASSUME NEW m \in Node, SendReport(m) \/ Drop(m) \/ Register(m) \/ Remove(m) \/ GiveUpOn(m)
      PROVE  session'[n] = session[n] /\ (open'[n] => open[n])
  BY <1>1, <1>4 DEF SendReport, Report, Drop, Register, Remove, GiveUpOn
<1>5. CASE Restart
  BY <1>1, <1>5 DEF Restart, ForgetNodes
<1>6. session'[n] \in {session[n], session[n] + 1}
  <2>1. UNCHANGED nodeVars \/ Restart => session'[n] = session[n]
    BY <1>1 DEF Restart, ForgetNodes
  <2>2. ASSUME NEW m \in Node,
               Dial(m) \/ SendReport(m) \/ Drop(m) \/ Register(m) \/ Remove(m) \/ GiveUpOn(m),
               UNCHANGED <<workVars, runVars, loopVars, poolVars>>
        PROVE  session'[n] \in {session[n], session[n] + 1}
    BY <1>3, <1>4, <2>2
  <2>3. QED
    BY <2>1, <2>2, StepOfNodes, Zenon
<1>7. session[n] \in Nat
  BY <1>1
<1>8. session'[n] \in Nat /\ session[n] <= session'[n]
  BY <1>6, <1>7
<1>9. QED
  BY <1>2, <1>3, <1>4, <1>5, <1>7, <1>8, StepOfNodes

\* A node comes to hold an execution only by a start that had made nothing yet.
LEMMA StepHolds ==
    ASSUME TypeOK, CallInv, [Next]_vars,
           NEW n \in Node, NEW y \in Execution, y \in Holds(n)', y \notin Holds(n)
    PROVE  /\ y \in starting[n] /\ box[n][y] = "none" /\ box'[n][y] # "none"
           /\ UNCHANGED <<nodeVars, runVars, loopVars, poolVars, history, starting>>
<1>1. box \in [Node -> [Execution -> Box]]
  BY DEF TypeOK, AgentTypeOK
<1>2. box[n][y] \in {"none", "deleted"} /\ box'[n][y] \notin {"none", "deleted"}
  BY DEF Holds
<1>3. ~Exit(n, y) /\ ~Fail(n, y) /\ ~Delete(n, y)
  BY <1>1, <1>2 DEF Exit, Fail, Delete, Becomes, Holds
<1>4. Advance(n, y) /\ UNCHANGED <<nodeVars, runVars, loopVars, poolVars, history>>
  BY <1>2, <1>3, BoxStep
<1>5. QED
  BY <1>2, <1>4 DEF Advance

\* Only what a node holds is deleted from it.
LEMMA StepDeletes ==
    ASSUME TypeOK, CallInv, [Next]_vars,
           NEW n \in Node, NEW y \in Execution, box'[n][y] = "deleted"
    PROVE  box[n][y] = "deleted" \/ y \in Holds(n)
<1>1. box \in [Node -> [Execution -> Box]]
  BY DEF TypeOK, AgentTypeOK
<1> SUFFICES ASSUME box[n][y] # "deleted" PROVE y \in Holds(n)
  OBVIOUS
<1>2. ~Advance(n, y) /\ ~Exit(n, y) /\ ~Fail(n, y)
  BY <1>1 DEF Advance, Exit, Fail, Becomes
<1>3. Delete(n, y)
  BY <1>2, BoxStep
<1>4. QED
  BY <1>1, <1>3 DEF Delete, Becomes, Holds

\* What has been made, or given up, stays so: no step takes a submission back.
LEMMA StepUntaken ==
    ASSUME Inv, SessionInv, [Next]_vars, NEW y \in Execution, Untaken(y)'
    PROVE  Untaken(y)
<1>1. /\ box \in [Node -> [Execution -> Box]] /\ starting \in [Node -> SUBSET Execution]
      /\ run \in [Execution -> RunState]
      /\ call \in [Execution -> [node : Node \cup {NoNode}, session : Nat]]
  BY DEF Inv, TypeOK, AgentTypeOK, PoolTypeOK
<1> USE DEF Untaken
<1>2. ASSUME NEW n \in Node, y \in starting[n]
      PROVE  run[y] # "new" /\ call[y].node = n
  BY <1>2 DEF Inv, PlaceInv
<1>3. ASSUME UNCHANGED <<run, call, open, session, workVars>>
      PROVE  Untaken(y)
  BY <1>3 DEF OnCall, Alive
<1>4. ASSUME NEW x \in Execution, Place(x) PROVE Untaken(y)
  <2>1. CASE x = y
    BY <1>4, <2>1 DEF Place
  <2>2. CASE x # y
    <3>1. UNCHANGED <<open, session, workVars>>
      BY <1>4 DEF Place
    <3>2. run'[y] = run[y] /\ call'[y] = call[y]
      BY <1>1, <1>4, <2>2 DEF Place
    <3>3. QED
      BY <3>1, <3>2 DEF OnCall, Alive
  <2>3. QED
    BY <2>1, <2>2
<1>5. ASSUME NEW x \in Execution, Admit(x) PROVE Untaken(y)
  <2>1. OnCall(x) /\ call[x].node \in Node /\ UNCHANGED nodeVars
    BY <1>5 DEF Admit, OnCall, Inv, CallInv
  <2>2. CASE Claim(call[x].node, x) /\ UNCHANGED <<runVars, poolVars>>
    <3>1. starting' = [starting EXCEPT ![call[x].node] = @ \cup {x}] /\ UNCHANGED <<box, run, call>>
          /\ x \notin starting[call[x].node]
      BY <2>2 DEF Claim
    <3>2. CASE x = y
      BY <2>1, <3>1, <3>2
    <3>3. CASE x # y
      <4>1. \A n \in Node : y \in starting'[n] <=> y \in starting[n]
        BY <1>1, <2>1, <3>1, <3>3
      <4>2. CASE OnCall(y)' /\ y \notin starting'[call'[y].node]
        BY <2>1, <3>1, <4>1, <4>2 DEF OnCall, Alive, Inv, CallInv
      <4>3. CASE \E n \in Node : y \in starting'[n] /\ box'[n][y] = "none"
        BY <3>1, <4>1, <4>3
      <4>4. QED
        BY <3>1, <4>2, <4>3
    <3>4. QED
      BY <3>2, <3>3
  <2>3. CASE /\ x \notin starting[call[x].node] /\ run' = [run EXCEPT ![x] = "new"]
             /\ UNCHANGED <<workVars, call>>
    <3>1. CASE x = y
      BY <2>1, <2>3, <3>1
    <3>2. CASE x # y
      BY <1>1, <2>1, <2>3, <3>2 DEF OnCall, Alive
    <3>3. QED
      BY <3>1, <3>2
  <2>4. QED
    BY <1>5, <2>2, <2>3 DEF Admit
<1>6. ASSUME NEW x \in Execution, Submitted(x) \/ CallFails(x) PROVE Untaken(y)
  <2>1. UNCHANGED <<open, session, call>>
    BY <1>6 DEF Submitted, CallFails
  <2>2. /\ run'[x] \notin {"new", "calling"}
        /\ \A z \in Execution : z # x => run'[z] = run[z]
    BY <1>1, <1>6 DEF Submitted, CallFails
  <2>3. OnCall(x) => call[x].node \in Node
    BY DEF OnCall, Inv, CallInv
  <2>4. CASE x = y
    <3>1. PICK n \in Node : y \in starting'[n] /\ box'[n][y] = "none"
      BY <2>2, <2>4 DEF OnCall
    <3>2. UNCHANGED workVars
      <4>1. ~(OnCall(x) /\ (Fail(call[x].node, x) \/ Started(call[x].node, x)))
        <5> SUFFICES ASSUME OnCall(x), Fail(call[x].node, x) \/ Started(call[x].node, x)
                     PROVE  FALSE
          OBVIOUS
        <5>1. starting' = [starting EXCEPT ![call[x].node] = @ \ {x}]
          BY DEF Fail, Started
        <5>2. y \in starting[n] /\ n # call[x].node
          BY <1>1, <2>3, <2>4, <3>1, <5>1
        <5>3. QED
          BY <1>2, <2>4, <5>2
      <4>2. QED
        BY <1>6, <4>1, Zenon DEF Submitted, CallFails
    <3>3. QED
      BY <3>1, <3>2
  <2>5. CASE x # y
    <3>1. \/ UNCHANGED workVars
          \/ OnCall(x) /\ (Fail(call[x].node, x) \/ Started(call[x].node, x))
      BY <1>6 DEF Submitted, CallFails
    <3>2. \A n \in Node : (y \in starting'[n] <=> y \in starting[n]) /\ box'[n][y] = box[n][y]
      <4>1. CASE UNCHANGED workVars
        BY <4>1
      <4>2. CASE OnCall(x) /\ Fail(call[x].node, x)
        BY <1>1, <2>3, <2>5, <4>2 DEF Fail, Becomes
      <4>3. CASE OnCall(x) /\ Started(call[x].node, x)
        BY <1>1, <2>3, <2>5, <4>3 DEF Started
      <4>4. QED
        BY <3>1, <4>1, <4>2, <4>3
    <3>3. OnCall(y)' => OnCall(y) /\ call[y].node \in Node
      BY <2>1, <2>2, <2>5 DEF OnCall, Alive, Inv, CallInv
    <3>4. run'[y] = run[y] /\ UNCHANGED call
      BY <2>1, <2>2, <2>5
    <3>5. QED
      BY <3>2, <3>3, <3>4
  <2>6. QED
    BY <2>4, <2>5
<1>7. ASSUME NEW x \in Execution, ReleaseAtOnce(x) \/ Loop(x) PROVE Untaken(y)
  <2>1. UNCHANGED <<open, session, call>>
    BY <1>7, Zenon DEF ReleaseAtOnce, Loop
  <2>2. run' = [run EXCEPT ![x] = "read"] \/ UNCHANGED run
    BY <1>7, Zenon DEF ReleaseAtOnce, Loop
  <2>3. starting' = starting
    BY <1>7, Zenon DEF ReleaseAtOnce, Loop, Release, Delete
  <2>4. \A n \in Node : box'[n][y] = "none" => box[n][y] = "none"
    <3> SUFFICES ASSUME NEW n \in Node, box'[n][y] = "none", box[n][y] # "none" PROVE FALSE
      OBVIOUS
    <3>1. ~Advance(n, y) /\ ~Exit(n, y) /\ ~Delete(n, y)
      BY <1>1 DEF Advance, Exit, Delete, Becomes, Holds
    <3>2. Fail(n, y) /\ TypeOK /\ CallInv
      BY <3>1, BoxStep DEF Inv
    <3>3. y \in starting[n] /\ starting' = [starting EXCEPT ![n] = @ \ {y}]
      BY <3>2 DEF Fail
    <3>4. QED
      BY <1>1, <2>3, <3>3
  <2>5. run'[y] \in {"new", "calling"} => run'[y] = run[y]
    BY <1>1, <2>2
  <2>6. OnCall(y)' => OnCall(y) /\ UNCHANGED call
    BY <2>1, <2>5 DEF OnCall, Alive
  <2>7. QED
    BY <2>3, <2>4, <2>5, <2>6
<1>8. ASSUME NEW x \in Execution, Follow(x) \/ Lapse(x) \/ LeftFor(x) PROVE Untaken(y)
  <2>1. UNCHANGED <<open, session, call, workVars>>
    BY <1>8 DEF Follow, Lapse, LeftFor
  <2>2. run'[y] \in {"new", "calling"} => run'[y] = run[y]
    BY <1>1, <1>8 DEF Follow, Lapse, LeftFor
  <2>3. QED
    BY <2>1, <2>2 DEF OnCall, Alive
<1>9. ASSUME NEW n \in Node, AgentSteps(n) PROVE Untaken(y)
  <2>1. UNCHANGED <<run, call, open, session>>
    BY <1>9 DEF AgentSteps, SendReport, Report, Interrupt
  <2>2. CASE Interrupt(n)
    <3>1. starting' = [starting EXCEPT ![n] = {}] /\ UNCHANGED box /\ ~open[n]
      BY <2>2 DEF Interrupt
    <3>2. OnCall(y)' => OnCall(y) /\ call[y].node \in Node /\ call[y].node # n
      BY <2>1, <3>1 DEF OnCall, Alive, Inv, CallInv
    <3>3. QED
      BY <1>1, <2>1, <3>1, <3>2
  <2>3. CASE SendReport(n)
    BY <1>3, <2>1, <2>3 DEF SendReport
  <2>4. ASSUME NEW x \in Execution, Advance(n, x) \/ Exit(n, x) PROVE Untaken(y)
    <3>1. UNCHANGED starting
      BY <2>4 DEF Advance, Exit
    <3>2. \A m \in Node : box'[m][y] = "none" => box[m][y] = "none"
      <4>1. PICK to \in {"container", "created", "running", "stopped"} : Becomes(n, x, to)
        BY <2>4 DEF Advance, Exit
      <4>2. box' = [box EXCEPT ![n][x] = to]
        BY <4>1 DEF Becomes
      <4>3. QED
        BY <1>1, <4>2
    <3>3. QED
      BY <2>1, <3>1, <3>2 DEF OnCall, Alive
  <2>5. QED
    BY <1>9, <2>2, <2>3, <2>4 DEF AgentSteps
<1>10. ASSUME NEW n \in Node,
              Reconnect(n) \/ SessionDrops(n) \/ ServerHears(n) \/ GoAway(n) \/ Grace(n)
       PROVE  Untaken(y)
  <2>1. UNCHANGED <<run, call, workVars>>
    BY <1>10 DEF Reconnect, Connect, SessionDrops, ServerHears, GoAway, Grace, Others
  <2>2. OnCall(y)' => OnCall(y)
    <3> SUFFICES ASSUME OnCall(y)' PROVE OnCall(y)
      OBVIOUS
    <3>1. run[y] = "calling" /\ call[y].node \in Node /\ call[y].session \in Nat
      BY <1>1, <2>1 DEF OnCall, Inv, CallInv
    <3>2. open'[call[y].node] /\ session'[call[y].node] = call[y].session
      BY <2>1 DEF OnCall, Alive
    <3>3. call[y].session <= session[call[y].node]
      BY <3>1 DEF SessionInv
    <3>4. session[call[y].node] \in Nat
      BY <3>1, StepSessions DEF Inv
    <3>5. session'[call[y].node] # session[call[y].node] + 1
      BY <3>1, <3>2, <3>3, <3>4
    <3>6. open[call[y].node] /\ session'[call[y].node] = session[call[y].node]
      BY <3>1, <3>2, <3>5, StepSessions DEF Inv
    <3>7. QED
      BY <3>1, <3>2, <3>6 DEF OnCall, Alive
  <2>3. QED
    BY <2>1, <2>2
<1>11. ASSUME Restart PROVE Untaken(y)
  <2>1. run'[y] \notin {"new", "calling"}
    BY <1>1, <1>11 DEF Restart, RunState
  <2>2. UNCHANGED workVars
    BY <1>11 DEF Restart
  <2>3. QED
    BY <2>1, <2>2 DEF OnCall
<1>12. CASE Settle \/ UNCHANGED vars
  BY <1>3, <1>12 DEF Settle
<1>13. QED
  BY <1>4, <1>5, <1>6, <1>7, <1>8, <1>9, <1>10, <1>11, <1>12 DEF Next, Run

-----------------------------------------------------------------------------
\* What the server knows stays right

\* What has made nothing is held and reported by no node.
LEMMA UntakenNext ==
    ASSUME Inv, UntakenInv, SessionInv, [Next]_vars
    PROVE  UntakenInv'
<1> SUFFICES ASSUME NEW y \in Execution, Untaken(y)', NEW n \in Node
             PROVE  box'[n][y] = "none" /\ y \notin Reported(n)'
  BY Zenon DEF UntakenInv
<1>1. Untaken(y)
  BY StepUntaken
<1>2. box[n][y] = "none" /\ y \notin Holds(n) /\ y \notin Reported(n)
  BY <1>1 DEF UntakenInv, Holds
<1>3. TypeOK /\ CallInv
  BY DEF Inv
<1>4. y \notin Holds(n)'
  <2> SUFFICES ASSUME y \in Holds(n)' PROVE FALSE
    OBVIOUS
  <2>1. /\ y \in starting[n] /\ box'[n][y] # "none"
        /\ UNCHANGED <<nodeVars, runVars, starting>>
    BY <1>2, <1>3, StepHolds
  <2>2. run[y] # "new" /\ \A m \in Node : y \in starting[m] => m = n /\ call[y].node = n
    BY <2>1 DEF Inv, PlaceInv
  <2>3. ~Untaken(y)'
    BY <2>1, <2>2 DEF Untaken
  <2>4. QED
    BY <2>3
<1>5. box'[n][y] # "deleted"
  BY <1>2, <1>3, StepDeletes
<1>6. y \notin Reported(n)'
  BY <1>2, <1>3, StepReported
<1>7. QED
  BY <1>4, <1>5, <1>6 DEF Holds

\* A node reports only what was sent to it.
LEMMA ReportNext ==
    ASSUME Inv, UntakenInv, ReportInv, [Next]_vars
    PROVE  ReportInv'
<1> SUFFICES ASSUME NEW n \in Node, NEW y \in Execution, y \in Reported(n)'
             PROVE  call'[y].node = n
  BY Zenon DEF ReportInv
<1>1. TypeOK
  BY DEF Inv
<1>2. y \in Reported(n) \/ y \in Holds(n)
  BY <1>1, StepReported
<1>3. call[y].node = n /\ run[y] # "new"
  BY <1>2 DEF ReportInv, UntakenInv, Untaken, Inv, PlaceInv, Holds
<1>4. QED
  BY <1>1, <1>3, StepKeepsCalls

\* A report on its way still has what the server knows and the node holds.
LEMMA LaterNext ==
    ASSUME Inv, UntakenInv, LaterInv, [Next]_vars
    PROVE  LaterInv'
<1> SUFFICES ASSUME NEW n \in Node, NEW y \in Execution, Connected(n)', y \in conn'[n].held.all,
                    sent'[n] # NoReport, y \in Holds(n)'
             PROVE  y \in sent'[n].held.all
  BY Zenon DEF LaterInv
<1>1. TypeOK /\ CallInv
  BY DEF Inv
<1>2. \/ conn'[n] = conn[n] /\ sent'[n] = sent[n]
      \/ /\ conn'[n] = conn[n] /\ sent'[n] = [session |-> session[n], held |-> Held(n)]
         /\ UNCHANGED <<session, open, workVars, runVars, loopVars, poolVars>>
  BY <1>1, StepReports DEF Connected, NotConnected
<1>3. CASE conn'[n] = conn[n] /\ sent'[n] = sent[n]
  <2>1. Connected(n) /\ y \in conn[n].held.all /\ sent[n] # NoReport
    BY <1>3 DEF Connected
  <2>2. y \in Reported(n)
    BY <2>1 DEF Reported
  <2>3. y \in Holds(n)
    <3> SUFFICES ASSUME y \notin Holds(n) PROVE FALSE
      OBVIOUS
    <3>1. y \in starting[n] /\ box[n][y] = "none"
      BY <1>1, StepHolds
    <3>2. Untaken(y)
      BY <3>1 DEF Untaken
    <3>3. QED
      BY <2>2, <3>2 DEF UntakenInv
  <2>4. QED
    BY <1>3, <2>1, <2>3 DEF LaterInv
<1>4. CASE /\ sent'[n] = [session |-> session[n], held |-> Held(n)]
           /\ UNCHANGED <<session, open, workVars, runVars, loopVars, poolVars>>
  BY <1>4 DEF Held, Holds
<1>5. QED
  BY <1>2, <1>3, <1>4

\* The server knows of no session that has not been opened.
LEMMA SessionNext ==
    ASSUME Inv, SessionInv, [Next]_vars
    PROVE  SessionInv'
<1>1. /\ TypeOK /\ CallInv /\ SentInv
      /\ conn \in [Node -> [session : Nat, held : Reports \cup {NoReport}]]
      /\ run \in [Execution -> RunState]
      /\ call \in [Execution -> [node : Node \cup {NoNode}, session : Nat]]
  BY DEF Inv, TypeOK, NodesTypeOK, PoolTypeOK
<1>2. ASSUME NEW n \in Node PROVE conn'[n].session <= session'[n]
  <2>1. session[n] \in Nat /\ session'[n] \in Nat /\ session[n] <= session'[n]
    BY <1>1, StepSessions
  <2>2. conn'[n].session \in {conn[n].session, 0, session[n]}
    <3>1. \/ conn'[n] \in {conn[n], NotConnected}
          \/ sent[n] # NoReport /\ conn'[n] = sent[n]
      BY <1>1, StepReports
    <3>2. sent[n] # NoReport => sent[n].session = session[n]
      BY <1>1 DEF SentInv
    <3>3. QED
      BY <3>1, <3>2 DEF NotConnected
  <2>3. conn[n].session \in Nat /\ conn[n].session <= session[n]
    BY <1>1 DEF SessionInv
  <2>4. QED
    BY <2>1, <2>2, <2>3
<1>3. ASSUME NEW y \in Execution, run'[y] = "calling" PROVE call'[y].session <= session'[call'[y].node]
  <2>1. CASE run[y] = "calling"
    <3>1. call'[y] = call[y] /\ call[y].node \in Node /\ call[y].session \in Nat
      BY <1>1, <2>1, StepKeepsCalls DEF CallInv
    <3>2. call[y].session <= session[call[y].node]
      BY <2>1 DEF SessionInv
    <3>3. /\ session[call[y].node] \in Nat /\ session'[call[y].node] \in Nat
          /\ session[call[y].node] <= session'[call[y].node]
      BY <1>1, <3>1, StepSessions
    <3>4. call[y].session <= session'[call[y].node]
      <4> DEFINE a == call[y].session
                 b == session[call[y].node]
                 c == session'[call[y].node]
      <4>1. a \in Nat /\ b \in Nat /\ c \in Nat /\ a <= b /\ b <= c
        BY <3>1, <3>2, <3>3
      <4>2. a <= c
        <5> HIDE DEF a, b, c
        <5>1. QED
          BY <4>1
      <4>3. QED
        BY <4>2
    <3>5. QED
      BY <3>1, <3>4
  <2>2. CASE run[y] # "calling"
    <3>1. Place(y)
      <4>1. ASSUME NEW x \in Execution, Place(x) PROVE x = y
        BY <1>1, <1>3, <2>2, <4>1 DEF Place
      <4>2. ASSUME NEW x \in Execution,
                   \/ Admit(x) \/ Submitted(x) \/ Follow(x) \/ ReleaseAtOnce(x)
                   \/ CallFails(x) \/ Lapse(x) \/ LeftFor(x) \/ Loop(x)
            PROVE  FALSE
        BY <1>1, <1>3, <2>2, <4>2
        DEF Admit, Submitted, Follow, ReleaseAtOnce, CallFails, Lapse, LeftFor, Loop
      <4>3. ASSUME NEW n \in Node,
                   \/ AgentSteps(n) \/ Reconnect(n) \/ SessionDrops(n)
                   \/ ServerHears(n) \/ GoAway(n) \/ Grace(n)
            PROVE  FALSE
        BY <1>3, <2>2, <4>3 DEF AgentSteps, Reconnect, SessionDrops, ServerHears, GoAway, Grace, Others
      <4>4. ~Restart /\ ~Settle /\ ~UNCHANGED vars
        BY <1>1, <1>3, <2>2 DEF Restart, Settle
      <4>5. QED
        BY <4>1, <4>2, <4>3, <4>4 DEF Next, Run
    <3>2. PICK n \in Node : call' = [call EXCEPT ![y] = [node |-> n, session |-> conn[n].session]]
      BY <1>1, <1>3, <3>1 DEF Place
    <3>3. call'[y].node = n /\ call'[y].session = conn[n].session /\ session'[n] = session[n]
      BY <1>1, <3>1, <3>2 DEF Place
    <3>4. QED
      BY <3>3 DEF SessionInv
  <2>3. QED
    BY <2>1, <2>2
<1>4. QED
  BY <1>2, <1>3 DEF SessionInv

\* A node that is away has no session.
LEMMA AwayNext ==
    ASSUME TypeOK, AwayInv, [Next]_vars
    PROVE  AwayInv'
<1> USE DEF AwayInv
<1>1. open \in [Node -> BOOLEAN] /\ away \subseteq Node
  BY DEF TypeOK, NodesTypeOK, PoolTypeOK
<1>2. ASSUME NEW n \in Node, Reconnect(n) \/ SessionDrops(n) \/ GoAway(n) PROVE AwayInv'
  BY <1>1, <1>2 DEF Reconnect, Connect, Dial, SessionDrops, Drop, GoAway
<1>3. ASSUME NEW n \in Node, AgentSteps(n) \/ ServerHears(n) \/ Grace(n)
      PROVE  UNCHANGED <<open, away>>
  BY <1>3 DEF AgentSteps, SendReport, Report, Interrupt, ServerHears, Register, Remove, Grace, GiveUpOn
<1>4. ASSUME NEW x \in Execution, Run(x) \/ CallFails(x) \/ Lapse(x) \/ LeftFor(x) \/ Loop(x)
      PROVE  UNCHANGED <<open, away>>
  BY <1>4 DEF Run, Place, Admit, Submitted, Follow, ReleaseAtOnce, CallFails, Lapse, LeftFor, Loop
<1>5. CASE Restart
  BY <1>1, <1>5 DEF Restart, ForgetNodes
<1>6. CASE Settle \/ UNCHANGED vars
  BY <1>6 DEF Settle
<1>7. QED
  BY <1>2, <1>3, <1>4, <1>5, <1>6 DEF Next

\* The loop takes up what has not changed for long, as it is then.
LEMMA StepListed ==
    ASSUME TypeOK, [Next]_vars, NEW y \in Execution, listed'[y] # "none"
    PROVE  \/ listed'[y] = listed[y]
           \/ LeftFor(y) /\ listed'[y] = Recorded(y)
<1>1. listed \in [Execution -> Copy]
  BY DEF TypeOK, PoolTypeOK
<1>2. ASSUME NEW x \in Execution, LeftFor(x)
      PROVE  listed'[y] = listed[y] \/ (LeftFor(y) /\ listed'[y] = Recorded(y))
  BY <1>1, <1>2 DEF LeftFor
<1>3. ASSUME NEW x \in Execution, Loop(x) PROVE listed'[y] = listed[y]
  <2>1. listed' = [listed EXCEPT ![x] = "none"]
    BY <1>3, Zenon DEF Loop
  <2>2. QED
    BY <1>1, <2>1
<1>4. ASSUME NEW x \in Execution,
             \/ Place(x) \/ Admit(x) \/ Submitted(x) \/ Follow(x) \/ ReleaseAtOnce(x)
             \/ CallFails(x) \/ Lapse(x)
      PROVE  UNCHANGED listed
  BY <1>4, Zenon DEF Place, Admit, Submitted, Follow, ReleaseAtOnce, CallFails, Lapse
<1>5. ASSUME NEW n \in Node,
             \/ AgentSteps(n) \/ Reconnect(n) \/ SessionDrops(n)
             \/ ServerHears(n) \/ GoAway(n) \/ Grace(n)
      PROVE  UNCHANGED listed
  BY <1>5 DEF AgentSteps, Reconnect, SessionDrops, ServerHears, GoAway, Grace, Others
<1>6. CASE Restart \/ Settle \/ UNCHANGED vars
  BY <1>6 DEF Restart, Settle
<1>7. QED
  BY <1>2, <1>3, <1>4, <1>5, <1>6 DEF Next, Run

\* What the loop's copy says stays right.
LEMMA ListedNext ==
    ASSUME TypeOK, CallInv, ListedInv, [Next]_vars
    PROVE  ListedInv'
<1> SUFFICES ASSUME NEW y \in Execution
             PROVE  /\ listed'[y] \in {"open", "read"} => run'[y] \notin {"new", "calling"}
                    /\ listed'[y] = "read" => run'[y] \in {"answered", "read"}
  BY DEF ListedInv
<1>1. /\ run[y] \notin {"new", "calling"} => run'[y] \notin {"new", "calling"}
      /\ run[y] \in {"answered", "read"} => run'[y] \in {"answered", "read"}
  BY RunStep
<1>2. /\ Recorded(y) \in {"open", "read"} => run[y] \notin {"new", "calling"}
      /\ Recorded(y) = "read" => run[y] \in {"answered", "read"}
  <2>1. run[y] \in RunState
    BY DEF TypeOK, PoolTypeOK
  <2>2. QED
    BY <2>1 DEF Recorded, RunState
<1>3. CASE listed'[y] = "none"
  BY <1>3
<1>4. CASE listed'[y] = listed[y]
  BY <1>1, <1>4 DEF ListedInv
<1>5. CASE listed'[y] = Recorded(y)
  BY <1>1, <1>2, <1>5
<1>6. QED
  BY <1>3, <1>4, <1>5, StepListed

\* What is marked was released, or is not known to any node; and stays so.
LEMMA StepMarks ==
    ASSUME TypeOK, [Next]_vars, NEW y \in Execution
    PROVE  /\ y \in marked => y \in marked'
           /\ y \in marked' =>
                y \in marked \/ (ReleaseAtOnce(y) /\ Release(y)) \/ Loop(y)
<1>1. ASSUME NEW x \in Execution, ReleaseAtOnce(x) \/ Loop(x)
      PROVE  \/ UNCHANGED marked
             \/ /\ marked' = marked \cup {x}
                /\ Loop(x) \/ (ReleaseAtOnce(x) /\ Release(x))
  <2>1. CASE ReleaseAtOnce(x)
    BY <2>1, Zenon DEF ReleaseAtOnce, Release, Mark
  <2>2. CASE Loop(x)
    BY <2>2, Zenon DEF Loop, Release, Mark
  <2>3. QED
    BY <1>1, <2>1, <2>2
<1>2. ASSUME NEW x \in Execution,
             \/ Place(x) \/ Admit(x) \/ Submitted(x) \/ Follow(x)
             \/ CallFails(x) \/ Lapse(x) \/ LeftFor(x)
      PROVE  UNCHANGED marked
  BY <1>2, Zenon DEF Place, Admit, Submitted, Follow, CallFails, Lapse, LeftFor
<1>3. ASSUME NEW n \in Node,
             \/ AgentSteps(n) \/ Reconnect(n) \/ SessionDrops(n)
             \/ ServerHears(n) \/ GoAway(n) \/ Grace(n)
      PROVE  UNCHANGED marked
  BY <1>3 DEF AgentSteps, Reconnect, SessionDrops, ServerHears, GoAway, Grace, Others
<1>4. ASSUME Restart \/ Settle \/ UNCHANGED vars PROVE UNCHANGED marked
  BY <1>4 DEF Restart, Settle
<1>5. \/ UNCHANGED marked
      \/ \E x \in Execution : /\ marked' = marked \cup {x}
                              /\ Loop(x) \/ (ReleaseAtOnce(x) /\ Release(x))
  BY <1>1, <1>2, <1>3, <1>4 DEF Next, Run
<1>6. CASE UNCHANGED marked
  BY <1>6
<1>7. CASE \E x \in Execution : /\ marked' = marked \cup {x}
                                /\ Loop(x) \/ (ReleaseAtOnce(x) /\ Release(x))
  <2>1. PICK x \in Execution : /\ marked' = marked \cup {x}
                               /\ Loop(x) \/ (ReleaseAtOnce(x) /\ Release(x))
    BY <1>7
  <2>2. y \in marked => y \in marked'
    BY <2>1
  <2>3. y \in marked' => y \in marked \/ y = x
    BY <2>1
  <2>4. CASE y = x
    BY <2>1, <2>2, <2>4
  <2>5. QED
    BY <2>2, <2>3, <2>4
<1>8. QED
  BY <1>5, <1>6, <1>7

\* Where an execution was placed stays where it was sent.
LEMMA PlacedNext ==
    ASSUME Inv, PlacedInv, [Next]_vars
    PROVE  PlacedInv'
<1> SUFFICES ASSUME NEW y \in Execution
             PROVE  /\ placed'[y] # NoNode
                          => placed'[y] = call'[y].node /\ run'[y] \notin {"new", "calling"}
                    /\ run'[y] \in {"following", "answered", "read"} /\ placed'[y] = NoNode
                          => "restart" \in mishaps' \/ y \in marked'
  BY Zenon DEF PlacedInv
<1>1. /\ run \in [Execution -> RunState]
      /\ call \in [Execution -> [node : Node \cup {NoNode}, session : Nat]]
      /\ placed \in [Execution -> Node \cup {NoNode}]
  BY DEF Inv, TypeOK, PoolTypeOK
<1>2. /\ placed[y] # NoNode => placed[y] = call[y].node /\ run[y] \notin {"new", "calling"}
      /\ run[y] \in {"following", "answered", "read"} /\ placed[y] = NoNode
            => "restart" \in mishaps \/ y \in marked
      /\ y \in marked => y \in marked'
  BY StepMarks DEF PlacedInv, Inv
<1>3. ASSUME NEW x \in Execution, Place(x) \/ Admit(x) \/ CallFails(x)
      PROVE  /\ UNCHANGED placed /\ mishaps \subseteq mishaps'
             /\ \/ run'[y] = run[y] /\ call'[y] = call[y]
                \/ run[y] \in {"new", "calling"} /\ run'[y] \in {"new", "calling", "failed"}
  <2>1. UNCHANGED placed /\ mishaps \subseteq mishaps'
    BY <1>3 DEF Place, Admit, CallFails, Fault, NoFault
  <2>2. CASE Place(x)
    BY <1>1, <2>1, <2>2 DEF Place
  <2>3. CASE Admit(x)
    BY <1>1, <2>1, <2>3 DEF Admit, OnCall
  <2>4. CASE CallFails(x)
    BY <1>1, <2>1, <2>4 DEF CallFails
  <2>5. QED
    BY <1>3, <2>2, <2>3, <2>4
<1>4. ASSUME NEW x \in Execution, Submitted(x)
      PROVE  /\ UNCHANGED <<call, mishaps>>
             /\ \/ run'[y] = run[y] /\ placed'[y] = placed[y]
                \/ run'[y] = "following" /\ placed'[y] = call[y].node /\ call[y].node # NoNode
  <2>1. call[x].node # NoNode
    BY <1>4, NoNodeAssumption DEF Submitted, OnCall, Inv, CallInv
  <2>2. QED
    BY <1>1, <1>4, <2>1 DEF Submitted
<1>5. ASSUME NEW x \in Execution, Follow(x) \/ Lapse(x) \/ LeftFor(x)
      PROVE  /\ UNCHANGED <<placed, call, mishaps>>
             /\ run'[y] = run[y] \/ (run[y] = "following" /\ run'[y] \in {"answered", "failed"})
  BY <1>1, <1>5 DEF Follow, Lapse, LeftFor
<1>6. ASSUME NEW x \in Execution, ReleaseAtOnce(x) \/ Loop(x)
      PROVE  /\ UNCHANGED <<call, mishaps>>
             /\ run'[y] = run[y] \/ (run[y] = "answered" /\ run'[y] = "read")
             /\ placed'[y] = placed[y] \/ (placed'[y] = NoNode /\ y \in marked')
  <2>1. UNCHANGED <<call, mishaps>>
    BY <1>6, Zenon DEF ReleaseAtOnce, Loop
  <2>2. \/ run[x] = "answered" /\ run' = [run EXCEPT ![x] = "read"]
        \/ UNCHANGED run
    BY <1>6, Zenon DEF ReleaseAtOnce, Loop
  <2>3. \/ UNCHANGED placed
        \/ placed' = [placed EXCEPT ![x] = NoNode] /\ marked' = marked \cup {x}
    BY <1>6, Zenon DEF ReleaseAtOnce, Loop, Release, Mark
  <2>4. QED
    BY <1>1, <2>1, <2>2, <2>3
<1>7. ASSUME NEW n \in Node,
             \/ AgentSteps(n) \/ Reconnect(n) \/ SessionDrops(n)
             \/ ServerHears(n) \/ GoAway(n) \/ Grace(n)
      PROVE  UNCHANGED <<placed, run, call>> /\ mishaps \subseteq mishaps'
  BY <1>7 DEF AgentSteps, Reconnect, SessionDrops, ServerHears, GoAway, Grace, Others, Fault, NoFault
<1>8. CASE Restart
  BY <1>8 DEF Restart, Fault, Nowhere
<1>9. CASE Settle \/ UNCHANGED vars
  BY <1>2, <1>9 DEF Settle
<1>10. CASE \E x \in Execution : Run(x) \/ CallFails(x) \/ Lapse(x) \/ LeftFor(x) \/ Loop(x)
  <2>1. PICK x \in Execution : Run(x) \/ CallFails(x) \/ Lapse(x) \/ LeftFor(x) \/ Loop(x)
    BY <1>10
  <2>2. CASE Place(x) \/ Admit(x) \/ CallFails(x)
    BY <1>2, <1>3, <2>2
  <2>3. CASE Submitted(x)
    BY <1>2, <1>4, <2>3
  <2>4. CASE Follow(x) \/ Lapse(x) \/ LeftFor(x)
    BY <1>2, <1>5, <2>4
  <2>5. CASE ReleaseAtOnce(x) \/ Loop(x)
    BY <1>2, <1>6, <2>5
  <2>6. QED
    BY <2>1, <2>2, <2>3, <2>4, <2>5 DEF Run
<1>11. CASE \E n \in Node : \/ AgentSteps(n) \/ Reconnect(n) \/ SessionDrops(n)
                            \/ ServerHears(n) \/ GoAway(n) \/ Grace(n)
  BY <1>2, <1>7, <1>11
<1>12. QED
  BY <1>8, <1>9, <1>10, <1>11 DEF Next

\* What is known wherever it is stays so, unless it is being submitted: a session
\* begins without a report, and each report of it is heard with what is held.
LEMMA SeenKept ==
    ASSUME Inv, SessionInv, [Next]_vars,
           NEW y \in Execution, Seen(y), run[y] # "calling"
    PROVE  Seen(y)'
<1> SUFFICES ASSUME NEW n \in Node, open'[n], y \in Holds(n)'
             PROVE  /\ Reached(n)' => y \in conn'[n].held.all
                    /\ sent'[n] # NoReport => y \in sent'[n].held.all
  BY Zenon DEF Seen
<1>1. TypeOK /\ CallInv /\ FlightInv
  BY DEF Inv
<1>2. Reached(n)' <=> conn'[n].session # 0 /\ open'[n] /\ session'[n] = conn'[n].session
  BY DEF Reached, Connected, Alive
<1>3. CASE /\ session'[n] = session[n] + 1 /\ sent[n] = NoReport
           /\ UNCHANGED <<sent, conn, workVars, runVars, loopVars, poolVars>>
  <2>1. conn[n].session <= session[n] /\ conn[n].session \in Nat /\ session[n] \in Nat
    BY <1>1 DEF SessionInv, TypeOK, NodesTypeOK
  <2>2. session'[n] # conn'[n].session
    BY <1>3, <2>1
  <2>3. QED
    BY <1>2, <1>3, <2>2
<1>4. CASE open[n] /\ session'[n] = session[n]
  <2>1. y \in Holds(n)
    <3> SUFFICES ASSUME y \notin Holds(n) PROVE FALSE
      OBVIOUS
    <3>1. y \in starting[n]
      BY <1>1, StepHolds
    <3>2. QED
      BY <1>1, <1>4, <3>1 DEF FlightInv
  <2>2. /\ Reached(n) => y \in conn[n].held.all
        /\ sent[n] # NoReport => y \in sent[n].held.all
    BY <1>4, <2>1 DEF Seen
  <2>3. Reached(n) <=> conn[n].session # 0 /\ session[n] = conn[n].session
    BY <1>4 DEF Reached, Connected, Alive
  <2>4. CASE conn'[n] \in {conn[n], NotConnected} /\ sent'[n] \in {sent[n], NoReport}
    BY <1>2, <1>4, <2>2, <2>3, <2>4 DEF NotConnected
  <2>5. CASE conn'[n] = conn[n] /\ sent'[n] = [session |-> session[n], held |-> Held(n)]
    <3>1. sent'[n].held.all = Holds(n)
      BY <2>5 DEF Held
    <3>2. QED
      BY <1>2, <1>4, <2>1, <2>2, <2>3, <2>5, <3>1
  <2>6. CASE sent[n] # NoReport /\ conn'[n] = sent[n] /\ sent'[n] = NoReport
    BY <2>2, <2>6
  <2>7. QED
    BY <1>1, <2>4, <2>5, <2>6, StepReports
<1>5. QED
  BY <1>1, <1>3, <1>4, StepSessions

\* Where an execution is located, it was sent.
LEMMA LocatedWhereSent ==
    ASSUME PoolTypeOK, PlacedInv, ReportInv, NEW y \in Execution, Locate(y) # NoNode
    PROVE  /\ Locate(y) \in Node /\ Locate(y) = call[y].node
           /\ placed[y] = NoNode => Connected(Locate(y)) /\ y \in conn[Locate(y)].held.all
<1>1. Locate(y) \in Node
  BY LocateType
<1>2. CASE placed[y] # NoNode
  BY <1>1, <1>2 DEF Locate, PlacedInv
<1>3. CASE placed[y] = NoNode
  <2>1. Connected(Locate(y)) /\ y \in conn[Locate(y)].held.all
    BY <1>3 DEF Locate
  <2>2. y \in Reported(Locate(y))
    BY <2>1 DEF Reported
  <2>3. QED
    BY <1>1, <2>1, <2>2 DEF ReportInv
<1>4. QED
  BY <1>2, <1>3

\* What the loop takes up has been left for so long that every node that is back
\* has reported it.
LEMMA LeftIsSeen ==
    ASSUME TypeOK, AwayInv, NEW y \in Execution, Settled
    PROVE  Seen(y)
<1> SUFFICES ASSUME NEW n \in Node, open[n], y \in Holds(n)
             PROVE  /\ y \in conn[n].held.all
                    /\ sent[n] # NoReport => y \in sent[n].held.all
  BY Zenon DEF Seen
<1>1. n \notin away
  BY DEF AwayInv
<1>2. conn[n].held = Held(n) /\ (sent[n] # NoReport => sent[n].held = Held(n))
  BY <1>1 DEF Settled
<1>3. QED
  BY <1>2 DEF Held

\* A run that read a result from a node its report led to knows it is there alone.
LEMMA FollowedIsSeen ==
    ASSUME Inv, ReportInv, LaterInv, PlacedInv,
           NEW y \in Execution, placed[y] = NoNode, StatusOf(y) = "terminal"
    PROVE  Seen(y)
<1> DEFINE l == Locate(y)
<1>1. l # NoNode /\ Reached(l) /\ StatusAt(l, y) = "terminal"
  BY DEF StatusOf
<1>2. l \in Node /\ l = call[y].node /\ Connected(l) /\ y \in conn[l].held.all
  BY <1>1, LocatedWhereSent DEF Inv, TypeOK
<1> HIDE DEF l
<1> SUFFICES ASSUME NEW n \in Node, y \in Holds(n)
             PROVE  /\ y \in conn[n].held.all
                    /\ sent[n] # NoReport => y \in sent[n].held.all
  BY Zenon DEF Seen
<1>3. n = l
  BY <1>2 DEF Inv, PlaceInv
<1>4. QED
  BY <1>2, <1>3 DEF LaterInv

\* Where an execution was placed is forgotten by a restart, or as it is marked.
LEMMA StepForgets ==
    ASSUME TypeOK, CallInv, [Next]_vars, NEW y \in Execution, run'[y] = "answered", placed'[y] = NoNode
    PROVE  \/ placed[y] = NoNode /\ (run[y] = "answered" \/ StatusOf(y) = "terminal")
           \/ y \in marked'
<1>1. run \in [Execution -> RunState] /\ placed \in [Execution -> Node \cup {NoNode}]
  BY DEF TypeOK, PoolTypeOK
<1>2. run[y] = "answered" \/ (run[y] = "following" /\ StatusOf(y) = "terminal")
  BY RunStep
<1> SUFFICES ASSUME placed[y] # NoNode PROVE y \in marked'
  BY <1>2
<1>3. ASSUME NEW x \in Execution,
             \/ Place(x) \/ Admit(x) \/ Follow(x) \/ CallFails(x) \/ Lapse(x) \/ LeftFor(x)
      PROVE  UNCHANGED placed
  BY <1>3 DEF Place, Admit, Follow, CallFails, Lapse, LeftFor
<1>4. ASSUME NEW x \in Execution, Submitted(x) PROVE FALSE
  BY <1>1, <1>2, <1>4 DEF Submitted, OnCall
<1>5. ASSUME NEW x \in Execution, ReleaseAtOnce(x) \/ Loop(x)
      PROVE  UNCHANGED placed \/ y \in marked'
  <2>1. \/ UNCHANGED placed
        \/ placed' = [placed EXCEPT ![x] = NoNode] /\ marked' = marked \cup {x}
    BY <1>5, Zenon DEF ReleaseAtOnce, Loop, Release, Mark
  <2>2. QED
    BY <1>1, <2>1
<1>6. ASSUME NEW n \in Node,
             \/ AgentSteps(n) \/ Reconnect(n) \/ SessionDrops(n)
             \/ ServerHears(n) \/ GoAway(n) \/ Grace(n)
      PROVE  UNCHANGED placed
  BY <1>6 DEF AgentSteps, Reconnect, SessionDrops, ServerHears, GoAway, Grace, Others
<1>7. ~Restart
  BY <1>1 DEF Restart
<1>8. CASE Settle \/ UNCHANGED vars
  BY <1>8 DEF Settle
<1>9. QED
  BY <1>3, <1>4, <1>5, <1>6, <1>7, <1>8 DEF Next, Run

\* What the loop lists once it is submitted, or a run has read, is known wherever
\* it is.
LEMMA SeenNext ==
    ASSUME Inv, KnownInv, [Next]_vars
    PROVE  SeenInv'
<1> SUFFICES ASSUME NEW y \in Execution, y \notin marked',
                    \/ listed'[y] \in {"open", "read"}
                    \/ run'[y] = "answered" /\ placed'[y] = NoNode
             PROVE  Seen(y)'
  BY Zenon DEF SeenInv
<1>1. /\ TypeOK /\ CallInv /\ SeenInv /\ ListedInv /\ SessionInv /\ AwayInv
      /\ ReportInv /\ LaterInv /\ PlacedInv
  BY DEF Inv, KnownInv
<1>2. y \notin marked
  BY <1>1, StepMarks
<1>3. ASSUME Seen(y), run[y] # "calling" PROVE Seen(y)'
  BY <1>1, <1>3, SeenKept
<1>4. CASE listed'[y] \in {"open", "read"}
  <2>1. CASE listed'[y] = listed[y]
    BY <1>1, <1>2, <1>3, <1>4, <2>1 DEF SeenInv, ListedInv
  <2>2. CASE LeftFor(y) /\ listed'[y] = Recorded(y)
    <3>1. run[y] # "calling"
      BY <1>4, <2>2 DEF Recorded
    <3>2. Seen(y)
      BY <1>1, <2>2, LeftIsSeen DEF LeftFor
    <3>3. QED
      BY <1>3, <3>1, <3>2
  <2>3. QED
    BY <1>1, <1>4, <2>1, <2>2, StepListed
<1>5. CASE run'[y] = "answered" /\ placed'[y] = NoNode
  <2>1. run[y] # "calling"
    BY <1>1, <1>5, RunStep
  <2>2. placed[y] = NoNode /\ (run[y] = "answered" \/ StatusOf(y) = "terminal")
    BY <1>1, <1>5, StepForgets
  <2>3. Seen(y)
    BY <1>1, <1>2, <2>2, FollowedIsSeen DEF SeenInv
  <2>4. QED
    BY <1>3, <2>1, <2>3
<1>6. QED
  BY <1>4, <1>5

\* Every step keeps what the server knows right.
LEMMA KnownNext == Inv /\ KnownInv /\ [Next]_vars => KnownInv'
<1> SUFFICES ASSUME Inv, KnownInv, [Next]_vars PROVE KnownInv'
  OBVIOUS
<1>1. /\ TypeOK /\ CallInv
      /\ UntakenInv /\ ReportInv /\ LaterInv /\ ListedInv /\ PlacedInv /\ SessionInv /\ AwayInv
  BY DEF Inv, KnownInv
<1>2. UntakenInv' /\ ReportInv' /\ LaterInv'
  BY <1>1, UntakenNext, ReportNext, LaterNext
<1>3. ListedInv' /\ PlacedInv' /\ SessionInv' /\ AwayInv'
  BY <1>1, ListedNext, PlacedNext, SessionNext, AwayNext
<1>4. SeenInv'
  BY SeenNext
<1>5. QED
  BY <1>2, <1>3, <1>4 DEF KnownInv

-----------------------------------------------------------------------------
\* What is recorded released

\* What a node has of an execution that is marked just then, it was starting still
\* when the loop took it up, or it cannot be asked and never was heard of.
LEMMA MarkedIsDeleted ==
    ASSUME Inv, KnownInv, [Next]_vars, NEW x \in Execution, x \notin marked, x \in marked',
           NEW n \in Node, x \in Holds(n)' \cup starting'[n]
    PROVE  /\ placed[x] = NoNode
           /\ \/ listed[x] = "submitting"
              \/ ~Reached(n) /\ (run[x] = "failed" \/ "restart" \in mishaps)
<1>1. /\ TypeOK /\ PoolTypeOK /\ CallInv /\ FlightInv /\ PlaceInv
      /\ ListedInv /\ PlacedInv /\ ReportInv /\ SeenInv
      /\ box \in [Node -> [Execution -> Box]] /\ starting \in [Node -> SUBSET Execution]
      /\ run[x] \in RunState /\ listed[x] \in Copy
  BY DEF Inv, KnownInv, TypeOK, AgentTypeOK, PoolTypeOK
<1>2. (ReleaseAtOnce(x) /\ Release(x)) \/ Loop(x)
  BY <1>1, StepMarks
<1>3. \/ ReleaseAtOnce(x) /\ run[x] = "answered"
      \/ listed[x] # "none"
  BY <1>2, Zenon DEF ReleaseAtOnce, Loop
<1>4. Release(x) \/ (StatusOf(x) = "unknown" /\ UNCHANGED workVars)
  BY <1>2, Zenon DEF Loop
<1>5. x \in Holds(n) \cup starting[n]
  BY <1>1, <1>4, ReleaseShrinks, StillShrinks DEF Shrinks
<1>6. call[x].node = n
  BY <1>1, <1>5 DEF PlaceInv
<1>7. ASSUME Reached(n), x \in starting[n] PROVE placed[x] = NoNode /\ listed[x] = "submitting"
  <2>1. run[x] = "calling"
    BY <1>1, <1>7 DEF FlightInv, Reached, Alive
  <2>2. placed[x] = NoNode /\ listed[x] \notin {"open", "read"}
    BY <1>1, <2>1 DEF PlacedInv, ListedInv
  <2>3. QED
    BY <1>1, <1>3, <2>1, <2>2 DEF Copy
<1>8. CASE Locate(x) # NoNode
  <2>1. Locate(x) = n
    BY <1>1, <1>6, <1>8, LocatedWhereSent
  <2>2. Reached(n) /\ x \in starting[n]
    <3>1. CASE Release(x)
      <4>1. Reached(n) /\ Delete(n, x)
        BY <1>8, <2>1, <3>1, Zenon DEF Release
      <4>2. x \notin Holds(n)' /\ starting' = starting
        BY <1>1, <4>1 DEF Delete, Becomes, Holds
      <4>3. QED
        BY <4>1, <4>2
    <3>2. CASE StatusOf(x) = "unknown" /\ UNCHANGED workVars
      <4>1. Reached(n) /\ StatusAt(n, x) = "unknown"
        BY <1>8, <2>1, <3>2 DEF StatusOf
      <4>2. x \notin Holds(n)
        BY <4>1 DEF StatusAt
      <4>3. QED
        BY <1>5, <4>1, <4>2
    <3>3. QED
      BY <1>4, <3>1, <3>2
  <2>3. QED
    BY <1>7, <2>2
<1>9. CASE Locate(x) = NoNode
  <2>1. placed[x] = NoNode
    BY <1>9 DEF Locate
  <2> SUFFICES ASSUME listed[x] # "submitting"
               PROVE  ~Reached(n) /\ (run[x] = "failed" \/ "restart" \in mishaps)
    BY <2>1
  <2>2. run[x] = "answered" \/ listed[x] \in {"open", "read"}
    BY <1>1, <1>3 DEF Copy
  <2>3. run[x] \notin {"new", "calling"}
    BY <1>1, <2>2 DEF ListedInv
  <2>4. run[x] = "failed" \/ "restart" \in mishaps
    BY <1>1, <2>1, <2>3 DEF PlacedInv, RunState
  <2>5. ~Reached(n)
    <3> SUFFICES ASSUME Reached(n) PROVE FALSE
      OBVIOUS
    <3>1. open[n] /\ Connected(n)
      BY DEF Reached, Alive
    <3>2. x \in Holds(n)
      BY <1>5, <1>7
    <3>3. Seen(x)
      BY <1>1, <2>1, <2>2 DEF SeenInv
    <3>4. x \in conn[n].held.all
      BY <3>1, <3>2, <3>3 DEF Seen
    <3>5. Locate(x) \in Node
      BY <2>1, <3>1, <3>4 DEF Locate
    <3>6. QED
      BY <1>9, <3>5, NoNodeAssumption
  <2>6. QED
    BY <2>4, <2>5
<1>10. QED
  BY <1>8, <1>9

\* What the server knows is right in every behaviour: among it, that what the loop
\* has listed since its submission was over, and nobody recorded released yet, has
\* been reported by every node that has it and is back.
THEOREM KnownInvariant == Spec => []KnownInv
<1>1. Inv /\ KnownInv /\ [Next]_vars => KnownInv'
  BY KnownNext
<1>2. QED
  BY <1>1, KnownInit, Invariant, PTL DEF Spec

\* An execution is recorded released only once no node that can be asked has
\* anything of it, unless the loop took it up as it was being submitted; what is
\* missed besides is what the server never heard of, or forgot when it was restarted
\* (Provider.Release, locate, releaseLeftover).
THEOREM ReleasedIsDeletedAlways == Spec => ReleasedIsDeleted
<1> DEFINE deleted ==
      \A x \in Execution : x \notin marked /\ x \in marked' =>
         \A n \in Node : x \in Holds(n)' \cup starting'[n] =>
             /\ placed[x] = NoNode
             /\ \/ listed[x] = "submitting"
                \/ ~Reached(n) /\ (run[x] = "failed" \/ "restart" \in mishaps)
<1>1. Inv /\ KnownInv /\ [Next]_vars => [deleted]_vars
  BY MarkedIsDeleted
<1>2. Spec => [][deleted]_vars
  BY <1>1, Invariant, KnownInvariant, PTL DEF Spec
<1>3. QED
  BY <1>2 DEF ReleasedIsDeleted

-----------------------------------------------------------------------------
\* The promise of the pool: what a workload is in each of its boxes

\* A result is read of a workload that is over, and stays so or is deleted.
ReadInv ==
    \A x \in Execution : run[x] \in {"answered", "read"} =>
        \E n \in Node : box[n][x] \in {"stopped", "deleted"} /\ call[x].node = n

\* A workload on one node is as far as it is there.
LEMMA LifeThere ==
    ASSUME NEW x \in Execution, NEW n \in Node
    PROVE  /\ Where(x) = {n} =>
                Life(x) = IF box[n][x] \in {"container", "created"} THEN "made" ELSE box[n][x]
           /\ Where(x)' = {n} =>
                Life(x)' = IF box'[n][x] \in {"container", "created"} THEN "made" ELSE box'[n][x]
<1>1. (CHOOSE m \in {n} : TRUE) = n
  OBVIOUS
<1>2. QED
  BY <1>1 DEF Life

\* A workload nobody has is still to come while a call or a start may make it.
LEMMA LifeNowhere ==
    ASSUME NEW x \in Execution
    PROVE  /\ Where(x) = {} => Life(x) = IF Coming(x) THEN "unmade" ELSE "gone"
           /\ Where(x)' = {} => Life(x)' = IF Coming(x)' THEN "unmade" ELSE "gone"
BY DEF Life

\* What a node has of an execution, no other has anything of.
LEMMA WhereSent ==
    ASSUME PlaceInv, NEW x \in Execution, NEW n \in Node, x \in Holds(n) \cup starting[n]
    PROVE  /\ Where(x) = IF box[n][x] \in {"none", "deleted"} THEN {} ELSE {n}
           /\ run[x] # "new" /\ call[x].node = n
           /\ \A m \in Node : x \in starting[m] => m = n
BY DEF PlaceInv, Where, Holds

-----------------------------------------------------------------------------
\* What a step leaves of the promise

StaysAs(x) == Where(x)' = Where(x) /\ Life(x)' = Life(x)

\* The promise's variables, at one execution.
LEMMA PromiseOf ==
    ASSUME NEW x \in Execution
    PROVE  /\ Promise!Stays(x) <=> StaysAs(x)
           /\ Promise!Goes(x) <=> Outcome(x)' = Outcome(x)
           /\ Promise!Waits(x) <=> (x \in marked' <=> x \in marked)
           /\ \A a : Promise!Vanishes(x, a) <=> Life(x) = a /\ Life(x)' = "gone" /\ Where(x)' = {}
           /\ \A a, b : Promise!Lives(x, a, b) <=> Life(x) = a /\ Life(x)' = b
           /\ \A a, b : Promise!Ends(x, a, b) <=> Outcome(x) = a /\ Outcome(x)' = b
           /\ Promise!Release(x) <=>
                /\ x \in marked' /\ Outcome(x)' = Outcome(x)
                /\ StaysAs(x) \/ (Life(x) = "stopped" /\ Life(x)' = "gone" /\ Where(x)' = {})
<1>1. Promise!Stays(x) <=> StaysAs(x)
  BY DEF StaysAs, Promise!Stays
<1>2. /\ Promise!Goes(x) <=> Outcome(x)' = Outcome(x)
      /\ Promise!Waits(x) <=> (x \in marked' <=> x \in marked)
  BY DEF Promise!Goes, Promise!Waits
<1>3. \A a : Promise!Vanishes(x, a) <=> Life(x) = a /\ Life(x)' = "gone" /\ Where(x)' = {}
  BY DEF Promise!Vanishes, Promise!Lives
<1>4. /\ \A a, b : Promise!Lives(x, a, b) <=> Life(x) = a /\ Life(x)' = b
      /\ \A a, b : Promise!Ends(x, a, b) <=> Outcome(x) = a /\ Outcome(x)' = b
  BY DEF Promise!Lives, Promise!Ends
<1>5. Promise!Release(x) <=> x \in marked' /\ Promise!Goes(x)
                             /\ (Promise!Stays(x) \/ Promise!Vanishes(x, "stopped"))
  BY DEF Promise!Release
<1>6. QED
  BY <1>1, <1>2, <1>3, <1>4, <1>5

\* A workload that a node has is as it was while its box is.
LEMMA HeldStays ==
    ASSUME NEW x \in Execution, Where(x) # {}, \A m \in Node : box'[m][x] = box[m][x]
    PROVE  StaysAs(x)
<1>1. Where(x)' = Where(x)
  BY DEF Where, Holds
<1>2. (CHOOSE m \in Where(x) : TRUE) \in Node
  BY DEF Where
<1>3. QED
  BY <1>1, <1>2 DEF StaysAs, Life

\* What no call or start may make any more is never made.
LEMMA ComingStep ==
    ASSUME TypeOK, CallInv, FlightInv, [Next]_vars, NEW x \in Execution, Coming(x)',
           \A n \in Node : box'[n][x] = box[n][x]
    PROVE  Coming(x)
<1>1. CASE run'[x] \in {"new", "calling"}
  <2>1. run[x] \in {"new", "calling"}
    BY <1>1, RunStep
  <2>2. QED
    BY <2>1 DEF Coming
<1>2. ASSUME NEW n \in Node, x \in starting'[n] PROVE Coming(x)
  <2>1. CASE Shrinks
    BY <1>2, <2>1 DEF Shrinks, Coming
  <2>2. ASSUME NEW y \in Execution, Claimed(y) PROVE Coming(x)
    <3>1. run[y] = "calling" /\ Claim(call[y].node, y) /\ call[y].node \in Node
      BY <2>2 DEF Claimed, OnCall, CallInv
    <3>2. starting \in [Node -> SUBSET Execution]
      BY DEF TypeOK, AgentTypeOK
    <3>3. x = y \/ x \in starting[n]
      BY <1>2, <3>1, <3>2 DEF Claim
    <3>4. QED
      BY <3>1, <3>3 DEF Coming
  <2>3. QED
    BY <2>1, <2>2, StepShrinks
<1>3. QED
  BY <1>1, <1>2 DEF Coming

\* An execution whose workload is left alone stays as it is, or is withdrawn.
LEMMA BoxKept ==
    ASSUME TypeOK, CallInv, FlightInv, [Next]_vars, NEW x \in Execution,
           \A n \in Node : box'[n][x] = box[n][x]
    PROVE  \/ StaysAs(x)
           \/ Life(x) = "unmade" /\ Life(x)' = "gone" /\ Where(x)' = {} /\ Coming(x) /\ ~Coming(x)'
<1>1. CASE Where(x) # {}
  BY <1>1, HeldStays
<1>2. CASE Where(x) = {}
  <2>1. Where(x)' = {}
    BY <1>2 DEF Where, Holds
  <2>2. Life(x) = IF Coming(x) THEN "unmade" ELSE "gone"
    BY <1>2, LifeNowhere
  <2>3. Life(x)' = IF Coming(x)' THEN "unmade" ELSE "gone"
    BY <2>1, LifeNowhere
  <2>4. QED
    BY <1>2, <2>1, <2>2, <2>3, ComingStep DEF StaysAs
<1>3. QED
  BY <1>1, <1>2

-----------------------------------------------------------------------------
\* Every step keeps the promise

\* What is over at the node it is located on is stopped there.
LEMMA OverThere ==
    ASSUME Inv, KnownInv, NEW x \in Execution, StatusOf(x) = "terminal"
    PROVE  /\ Locate(x) \in Node /\ Locate(x) = call[x].node
           /\ box[Locate(x)][x] = "stopped"
<1>1. Locate(x) # NoNode /\ StatusAt(Locate(x), x) = "terminal"
  BY DEF StatusOf
<1>2. QED
  BY <1>1, LocatedWhereSent DEF StatusAt, Inv, TypeOK, KnownInv

\* A result is read of a workload that is over.
LEMMA ReadNext ==
    ASSUME Inv, KnownInv, ReadInv, [Next]_vars
    PROVE  ReadInv'
<1> SUFFICES ASSUME NEW x \in Execution, run'[x] \in {"answered", "read"}
             PROVE  \E n \in Node : box'[n][x] \in {"stopped", "deleted"} /\ call'[x].node = n
  BY DEF ReadInv
<1>1. /\ TypeOK /\ CallInv
      /\ box \in [Node -> [Execution -> Box]]
  BY DEF Inv, TypeOK, AgentTypeOK
<1>2. PICK n \in Node : box[n][x] \in {"stopped", "deleted"} /\ call[x].node = n
  <2>1. CASE run[x] \in {"answered", "read"}
    BY <2>1 DEF ReadInv
  <2>2. CASE run[x] \notin {"answered", "read"}
    <3>1. StatusOf(x) = "terminal"
      BY <1>1, <2>2, RunStep
    <3>2. QED
      BY <3>1, OverThere
  <2>3. QED
    BY <2>1, <2>2
<1>3. call'[x] = call[x]
  <2>1. run[x] # "new"
    BY <1>1, RunStep
  <2>2. QED
    BY <1>1, <2>1, StepKeepsCalls
<1>4. box'[n][x] \in {"stopped", "deleted"}
  <2> SUFFICES ASSUME box'[n][x] # box[n][x] PROVE box'[n][x] = "deleted"
    BY <1>2
  <2>1. ~Advance(n, x) /\ ~Exit(n, x) /\ ~Fail(n, x)
    BY <1>1, <1>2 DEF Advance, Exit, Fail, Becomes
  <2>2. Delete(n, x)
    BY <1>1, <2>1, BoxStep
  <2>3. QED
    BY <1>1, <2>2 DEF Delete, Becomes
<1>5. QED
  BY <1>2, <1>3, <1>4

Kept(x) == Promise!Step(x) \/ (Promise!Stays(x) /\ Promise!Goes(x) /\ Promise!Waits(x))

\* A step that records an execution released, or finds it so, leaves its run be.
LEMMA MarkKeeps ==
    ASSUME TypeOK, NEW x \in Execution, ReleaseAtOnce(x) \/ Loop(x)
    PROVE  /\ Outcome(x)' = Outcome(x)
           /\ UNCHANGED starting
           /\ run'[x] \in {"new", "calling"} <=> run[x] \in {"new", "calling"}
<1>1. run \in [Execution -> RunState]
  BY DEF TypeOK, PoolTypeOK
<1>2. \/ run[x] = "answered" /\ run' = [run EXCEPT ![x] = "read"]
      \/ UNCHANGED run
  BY Zenon DEF ReleaseAtOnce, Loop
<1>3. UNCHANGED starting
  <2>1. (\E n : Delete(n, x)) \/ UNCHANGED workVars
    BY Zenon DEF ReleaseAtOnce, Loop, Release
  <2>2. QED
    BY <2>1 DEF Delete, workVars
<1>4. QED
  BY <1>1, <1>2, <1>3 DEF Outcome

\* A step that leaves the workload alone is the run's or the loop's, or withdraws
\* what is to come.
LEMMA RunKeeps ==
    ASSUME Inv, KnownInv, [Next]_vars, NEW x \in Execution, \A n \in Node : box'[n][x] = box[n][x]
    PROVE  Kept(x)
<1>1. TypeOK /\ CallInv /\ FlightInv /\ PlaceInv
  BY DEF Inv
<1> DEFINE withdrawn == Life(x) = "unmade" /\ Life(x)' = "gone" /\ Where(x)' = {}
<1>2. StaysAs(x) \/ withdrawn
  BY <1>1, BoxKept
<1>3. CASE x \notin marked /\ x \in marked'
  <2>1. ReleaseAtOnce(x) \/ Loop(x)
    BY <1>1, <1>3, StepMarks
  <2>2. Outcome(x)' = Outcome(x)
    BY <1>1, <2>1, MarkKeeps
  <2>3. Coming(x)' <=> Coming(x)
    BY <1>1, <2>1, MarkKeeps DEF Coming
  <2>4. StaysAs(x)
    BY <1>1, <2>3, BoxKept
  <2>5. QED
    BY <1>3, <2>2, <2>4, PromiseOf DEF Kept, Promise!Step
<1>4. CASE x \in marked' <=> x \in marked
  <2>1. Promise!Waits(x)
    BY <1>4, PromiseOf
  <2>2. CASE Outcome(x)' = Outcome(x)
    BY <1>2, <2>1, <2>2, PromiseOf DEF Kept, Promise!Step, Promise!Withdraw
  <2>3. CASE run[x] \in {"new", "calling", "following"} /\ run'[x] = "failed"
    <3>1. Outcome(x) = "open" /\ Outcome(x)' = "lost"
      BY <2>3 DEF Outcome
    <3>2. QED
      BY <1>2, <2>1, <3>1, PromiseOf DEF Kept, Promise!Step, Promise!Lose
  <2>4. CASE run[x] = "following" /\ run'[x] = "answered" /\ StatusOf(x) = "terminal"
    <3>1. Outcome(x) = "open" /\ Outcome(x)' = "read"
      BY <2>4 DEF Outcome
    <3>2. Locate(x) \in Node /\ box[Locate(x)][x] = "stopped"
      BY <2>4, OverThere
    <3>3. Life(x) = "stopped"
      <4>1. Where(x) = {Locate(x)}
        BY <1>1, <3>2, WhereSent DEF Holds
      <4>2. QED
        BY <3>2, <4>1, LifeThere
    <3>4. StaysAs(x)
      BY <1>2, <3>3
    <3>5. QED
      BY <2>1, <3>1, <3>3, <3>4, PromiseOf DEF Kept, Promise!Step, Promise!Read
  <2>5. CASE run'[x] = run[x]
    BY <2>2, <2>5 DEF Outcome
  <2>6. CASE run[x] \in {"new", "calling"} /\ run'[x] \in {"new", "calling", "following"}
    BY <2>2, <2>6 DEF Outcome
  <2>7. CASE run[x] = "answered" /\ run'[x] = "read"
    BY <2>2, <2>7 DEF Outcome
  <2>8. QED
    BY <1>1, <2>3, <2>4, <2>5, <2>6, <2>7, RunStep
<1>5. QED
  BY <1>1, <1>3, <1>4, StepMarks

\* Only what is over is deleted.
LEMMA DeletedIsOver ==
    ASSUME Inv, KnownInv, ReadInv, NEW x \in Execution, NEW n \in Node,
           ReleaseAtOnce(x) \/ Loop(x),
           Release(x), Locate(x) = n, Reached(n), Delete(n, x), box'[n][x] # box[n][x]
    PROVE  box[n][x] = "stopped"
<1>1. /\ TypeOK /\ PlaceInv /\ ListedInv
      /\ box \in [Node -> [Execution -> Box]]
  BY DEF Inv, KnownInv, TypeOK, AgentTypeOK
<1>2. x \in Holds(n)
  BY <1>1 DEF Delete, Becomes, Holds
<1>3. CASE run[x] \in {"answered", "read"}
  <2>1. PICK m \in Node : box[m][x] \in {"stopped", "deleted"} /\ call[x].node = m
    BY <1>3 DEF ReadInv
  <2>2. m = n
    BY <1>1, <1>2, <2>1 DEF PlaceInv
  <2>3. QED
    BY <1>2, <2>1, <2>2 DEF Holds
<1>4. CASE StatusOf(x) = "terminal"
  BY <1>4, OverThere
<1>5. ~(StatusOf(x) = "unknown" /\ UNCHANGED workVars)
  OBVIOUS
<1>6. run[x] = "answered" \/ listed[x] = "read" \/ StatusOf(x) = "terminal"
  BY <1>5, Zenon DEF ReleaseAtOnce, Loop
<1>7. QED
  BY <1>1, <1>3, <1>4, <1>6 DEF ListedInv

\* A workload changes as it is made, run and ended, fails to be made, or is released.
LEMMA WorkKeeps ==
    ASSUME Inv, KnownInv, ReadInv, [Next]_vars, NEW x \in Execution, NEW n \in Node,
           box'[n][x] # box[n][x]
    PROVE  Kept(x)
<1>1. /\ TypeOK /\ CallInv /\ FlightInv /\ PlaceInv /\ UntakenInv
      /\ box \in [Node -> [Execution -> Box]] /\ starting \in [Node -> SUBSET Execution]
  BY DEF Inv, KnownInv, TypeOK, AgentTypeOK
<1>2. x \in Holds(n) \cup starting[n]
  <2>1. Advance(n, x) \/ Fail(n, x) => x \in starting[n]
    BY DEF Advance, Fail
  <2>2. Exit(n, x) => x \in Holds(n)
    BY DEF Exit, Holds
  <2>3. Delete(n, x) => x \in Holds(n)
    BY <1>1 DEF Delete, Becomes, Holds
  <2>4. QED
    BY <1>1, <2>1, <2>2, <2>3, BoxStep
<1>3. Where(x) = IF box[n][x] \in {"none", "deleted"} THEN {} ELSE {n}
  BY <1>1, <1>2, WhereSent
<1>4. ASSUME NEW state \in Box, Becomes(n, x, state)
      PROVE  /\ box'[n][x] = state
             /\ Where(x)' = IF state \in {"none", "deleted"} THEN {} ELSE {n}
  <2>1. box'[n][x] = state /\ \A m \in Node : m # n => box'[m][x] = box[m][x]
    BY <1>1, <1>4 DEF Becomes
  <2>2. \A m \in Node : m # n => box[m][x] \in {"none", "deleted"}
    BY <1>3 DEF Where, Holds
  <2>3. QED
    BY <2>1, <2>2 DEF Where, Holds
<1>5. CASE Advance(n, x) /\ UNCHANGED <<runVars, loopVars>>
  <2>1. Outcome(x)' = Outcome(x) /\ Promise!Waits(x)
    BY <1>5, PromiseOf DEF Outcome
  <2>2. CASE box[n][x] = "none"
    <3>1. Life(x) = "unmade"
      <4>1. x \in starting[n]
        BY <1>5 DEF Advance
      <4>2. \A m \in Node : box[m][x] = "none"
        BY <1>1, <2>2, <4>1 DEF UntakenInv, Untaken
      <4>3. QED
        BY <1>3, <2>2, <4>1, <4>2, LifeNowhere DEF Coming
    <3>2. Where(x)' = {n} /\ box'[n][x] = "container"
      BY <1>4, <1>5, <2>2 DEF Advance, Box
    <3>3. Life(x)' = "made"
      BY <3>2, LifeThere
    <3>4. QED
      BY <2>1, <3>1, <3>2, <3>3, PromiseOf DEF Kept, Promise!Step, Promise!Make
  <2>3. CASE box[n][x] \in {"container", "created"}
    <3>1. Where(x) = {n}
      BY <1>3, <2>3
    <3>2. Life(x) = "made"
      BY <2>3, <3>1, LifeThere
    <3>3. Where(x)' = {n} /\ box'[n][x] \in {"created", "running"}
      BY <1>4, <1>5, <2>3 DEF Advance, Box
    <3>4. Life(x)' \in {"made", "running"}
      BY <3>3, LifeThere
    <3>5. QED
      BY <2>1, <3>1, <3>2, <3>3, <3>4, PromiseOf DEF Kept, StaysAs, Promise!Step, Promise!Work
  <2>4. QED
    BY <1>5, <2>2, <2>3 DEF Advance
<1>6. CASE Exit(n, x) /\ UNCHANGED <<runVars, loopVars>>
  <2>1. Outcome(x)' = Outcome(x) /\ Promise!Waits(x)
    BY <1>6, PromiseOf DEF Outcome
  <2>2. Where(x) = {n} /\ Life(x) = "running"
    BY <1>3, <1>6, LifeThere DEF Exit
  <2>3. Where(x)' = {n} /\ Life(x)' = "stopped"
    BY <1>4, <1>6, LifeThere DEF Exit, Box
  <2>4. QED
    BY <2>1, <2>2, <2>3, PromiseOf DEF Kept, Promise!Step, Promise!Work
<1>7. CASE Fail(n, x) /\ run[x] = "calling" /\ run'[x] = "failed"
  <2>1. Outcome(x) = "open" /\ Outcome(x)' = "lost"
    BY <1>7 DEF Outcome
  <2>2. Promise!Waits(x)
    <3>1. ~ReleaseAtOnce(x) /\ ~Loop(x)
      BY <1>1, <2>1, MarkKeeps
    <3>2. QED
      BY <1>1, <3>1, StepMarks, PromiseOf
  <2>3. box[n][x] = "container" /\ box'[n][x] = "none" /\ Where(x)' = {}
    BY <1>1, <1>4, <1>7 DEF Fail, Becomes, Box
  <2>4. Life(x) = "made"
    BY <1>3, <2>3, LifeThere
  <2>5. \A m \in Node : x \notin starting'[m]
    BY <1>1, <1>2, <1>7, WhereSent DEF Fail
  <2>6. Life(x)' = "gone"
    BY <1>7, <2>3, <2>5, LifeNowhere DEF Coming
  <2>7. QED
    BY <2>1, <2>2, <2>3, <2>4, <2>6, PromiseOf DEF Kept, Promise!Step, Promise!Lose
<1>8. CASE /\ ReleaseAtOnce(x) \/ Loop(x)
           /\ Release(x) /\ Locate(x) = n /\ Reached(n) /\ Delete(n, x)
  <2>1. Outcome(x)' = Outcome(x)
    BY <1>1, <1>8, MarkKeeps
  <2>2. x \in marked'
    BY <1>8, Zenon DEF Release, Mark
  <2>3. box[n][x] = "stopped"
    BY <1>8, DeletedIsOver
  <2>4. Life(x) = "stopped"
    BY <1>3, <2>3, LifeThere
  <2>5. box'[n][x] = "deleted" /\ Where(x)' = {}
    BY <1>1, <1>4, <1>8, <2>3 DEF Delete, Holds, Box
  <2>6. Life(x)' = "gone"
    BY <2>5, LifeNowhere DEF Coming
  <2>7. QED
    BY <2>1, <2>2, <2>4, <2>5, <2>6, PromiseOf DEF Kept, Promise!Step
<1>9. QED
  BY <1>1, <1>5, <1>6, <1>7, <1>8, BoxStep

\* Before anything is submitted, no workload has been made.
LEMMA PromiseInit == Init => Promise!Init
<1> SUFFICES ASSUME Init PROVE Promise!Init
  OBVIOUS
<1>1. /\ box = [n \in Node |-> [x \in Execution |-> "none"]]
      /\ run = [x \in Execution |-> "new"] /\ marked = {}
  BY DEF Init, AgentInit
<1>2. ASSUME NEW x \in Execution
      PROVE  Where(x) = {} /\ Life(x) = "unmade" /\ Outcome(x) = "open"
  <2>1. Where(x) = {}
    BY <1>1 DEF Where, Holds
  <2>2. Coming(x) /\ Outcome(x) = "open"
    BY <1>1 DEF Coming, Outcome
  <2>3. QED
    BY <2>1, <2>2, LifeNowhere
<1>3. QED
  BY <1>1, <1>2 DEF Promise!Init

\* The pool makes, runs, reads and deletes every workload as it promises: once, on
\* one node, and never what runs still, whatever its run and the release loop do at
\* the same time (Provider.SubmitTo, Status, Release, releaseLeftover,
\* reconcileLost; Containerd.Submit).
THEOREM PromiseKeptAlways == Spec => PromiseKept
<1>1. Inv /\ KnownInv /\ ReadInv /\ [Next]_vars => [Promise!Next]_Promise!vars
  <2> SUFFICES ASSUME Inv, KnownInv, ReadInv, [Next]_vars, NEW x \in Execution PROVE Kept(x)
    BY DEF Kept, Promise!Next
  <2>1. QED
    BY RunKeeps, WorkKeeps
<1>2. Init => ReadInv
  BY DEF Init, ReadInv
<1>3. Inv /\ KnownInv /\ ReadInv /\ [Next]_vars => ReadInv'
  BY ReadNext
<1>4. QED
  BY <1>1, <1>2, <1>3, PromiseInit, Invariant, KnownInvariant, PTL DEF Spec, PromiseKept, Promise!Spec
=============================================================================
