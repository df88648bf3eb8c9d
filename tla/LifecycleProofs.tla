--------------------------- MODULE LifecycleProofs ---------------------------
(***************************************************************************)
(* What is proved of Lifecycle for any number of servers, any platforms    *)
(* and any number of faults.                                               *)
(***************************************************************************)
EXTENDS Lifecycle, TLAPS

USE DEF vars, config, storeVars, ledgerVars, providerVars, runVars, loopVars, apiVars

-----------------------------------------------------------------------------
\* The two functions every record changes through (Status.To, Store.Update).

\* The record prepare creates is a record.
LEMMA PendingType == Pending \in Record
BY DEF Pending, Record, State

\* The states an execution never leaves are states.
LEMMA TerminalType == Terminal \subseteq State
BY DEF Terminal, State

\* A record moved by Status.To is a record.
LEMMA ToType ==
    ASSUME NEW r \in Record, NEW next \in State
    PROVE  To(r, next) \in Record
BY DEF To, Record

\* What the store holds after an Update is a record.
LEMMA UpdateType ==
    ASSUME NEW stored \in Record, NEW r \in Record, NEW from
    PROVE  Update(stored, r, from) \in Record
BY DEF Update, Record

\* A record with a failure class written on it is a record.
LEMMA FailureType ==
    ASSUME NEW r \in Record
    PROVE  [r EXCEPT !.failure = TRUE] \in Record
BY DEF Record

\* A record with a result set on it is a record.
LEMMA ResultType ==
    ASSUME NEW r \in Record, NEW b \in BOOLEAN
    PROVE  [r EXCEPT !.result = b] \in Record
BY DEF Record

\* tracked.failed moves to a state.
LEMMA FailedStateType ==
    ASSUME NEW r \in Record
    PROVE  FailedState(r) \in State
BY DEF FailedState, State

-----------------------------------------------------------------------------
\* Type correctness

\* A dispatch begins with every variable of its type.
LEMMA TypeInit == Init => TypeOK
<1> SUFFICES ASSUME Init PROVE TypeOK
  OBVIOUS
<1>1. /\ faults \in 0..MaxFaults
      /\ charges \in Nat
  BY MaxFaultsAssumption DEF Init
<1>2. RunType
  BY PendingType DEF Init, RunType, RunPc, State
<1>3. home \in Server
  BY DEF Init
<1>4. QED
  BY <1>1, <1>2, <1>3, PendingType DEF Init, TypeOK, ConfigType, StoreType, LedgerType,
     ProviderType, LoopType, ApiType, Terminal, LoopPc

\* A group of variables that is left alone keeps its type.
LEMMA Untouched ==
    ASSUME TypeOK
    PROVE  /\ UNCHANGED config => ConfigType'
           /\ UNCHANGED storeVars => StoreType'
           /\ UNCHANGED ledgerVars => LedgerType'
           /\ UNCHANGED providerVars => ProviderType'
           /\ UNCHANGED runVars => RunType'
           /\ UNCHANGED loopVars => LoopType'
           /\ UNCHANGED apiVars => ApiType'
<1>1. UNCHANGED config => ConfigType'
  BY DEF TypeOK, ConfigType
<1>2. UNCHANGED storeVars => StoreType'
  BY DEF TypeOK, StoreType
<1>3. UNCHANGED ledgerVars => LedgerType'
  BY DEF TypeOK, LedgerType
<1>4. UNCHANGED providerVars => ProviderType'
  BY DEF TypeOK, ProviderType
<1>5. UNCHANGED runVars => RunType'
  BY DEF TypeOK, RunType
<1>6. UNCHANGED loopVars => LoopType'
  BY DEF TypeOK, LoopType
<1>7. UNCHANGED apiVars => ApiType'
  BY DEF TypeOK, ApiType
<1>8. QED
  BY <1>1, <1>2, <1>3, <1>4, <1>5, <1>6, <1>7

\* The bound on faults is kept by whatever counts one.
LEMMA FaultsCounted ==
    ASSUME TypeOK, Fault \/ NoFault
    PROVE  faults' \in 0..MaxFaults
BY MaxFaultsAssumption DEF TypeOK, Fault, NoFault

\* A run that moves on is somewhere a run can be.
LEMMA GotoType ==
    ASSUME NEW s \in Server, NEW label \in RunPc, pc \in [Server -> RunPc], Goto(s, label)
    PROVE  pc' \in [Server -> RunPc]
BY DEF Goto

\* A write at the store keeps the record's type.
LEMMA StoredType ==
    ASSUME TypeOK, NEW r \in Record, NEW from, Stored(r, from)
    PROVE  StoreType'
<1>1. rec' \in Record
  BY UpdateType DEF TypeOK, StoreType, Stored
<1>2. QED
  BY <1>1 DEF TypeOK, StoreType, Stored

\* Once the release loop's pass is over its variables are what they begin as.
LEMMA LoopOverType == ASSUME TypeOK, LoopOver, UNCHANGED home PROVE LoopType'
BY PendingType DEF TypeOK, ConfigType, LoopType, LoopOver, LoopPc, Terminal

\* What a submission cut short leaves is something the provider may hold.
LEMMA AttemptedType ==
    ASSUME TypeOK, Attempted, UNCHANGED <<forgotBy, misled>>, placed' \in BOOLEAN
    PROVE  ProviderType'
BY DEF TypeOK, ProviderType, Attempted, Live, Terminal

\* Who goes by an answer is one of those who may.
LEMMA BelievesType ==
    ASSUME TypeOK, NEW who \in {"run", "loop", "reaper"}, Believes(who),
           UNCHANGED <<work, ran, verdict, forgotBy, placed>>
    PROVE  ProviderType'
BY DEF TypeOK, ProviderType, Believes

\* What a run does keeps every variable's type.
LEMMA RunTypes == ASSUME TypeOK, NEW s \in Server, Run(s) PROVE TypeOK'
<1>1. CASE Reserve(s)
  <2>1. RunType'
    BY <1>1 DEF TypeOK, RunType, Reserve, Goto, RunPc
  <2>2. LedgerType'
    BY <1>1 DEF TypeOK, LedgerType, Reserve
  <2>3. QED
    BY <1>1, <2>1, <2>2, Untouched, FaultsCounted DEF TypeOK, Reserve
<1>2. CASE Create(s)
  <2>1. RunType'
    BY <1>2 DEF TypeOK, RunType, Create, Goto, RunPc
  <2>2. StoreType'
    BY <1>2 DEF TypeOK, StoreType, Create
  <2>3. QED
    BY <1>2, <2>1, <2>2, Untouched, FaultsCounted DEF TypeOK, Create
<1>3. CASE Pause(s)
  <2>1. RunType'
    BY <1>3 DEF TypeOK, RunType, Pause, Goto, RunPc
  <2>2. QED
    BY <1>3, <2>1, Untouched, FaultsCounted DEF TypeOK, Pause
<1>4. CASE Submit(s)
  <2>1. RunType'
    <3>1. pc' \in [Server -> RunPc] /\ answered' \in [Server -> BOOLEAN]
      BY <1>4 DEF TypeOK, RunType, Submit, Goto, RunPc
    <3>2. seen' \in [Server -> State]
      BY <1>4 DEF TypeOK, RunType, Submit, Submittable, Live, Terminal, State
    <3>3. mem' \in [Server -> Record]
      BY <1>4, FailureType DEF TypeOK, RunType, Submit
    <3>4. QED
      BY <1>4, <3>1, <3>2, <3>3 DEF TypeOK, RunType, Submit
  <2>2. ProviderType'
    <3>1. CASE Attempted /\ UNCHANGED placed
      BY <1>4, <3>1, AttemptedType DEF TypeOK, ProviderType, Submit
    <3>2. CASE ~(Attempted /\ UNCHANGED placed)
      BY <1>4, <3>2 DEF TypeOK, ProviderType, Submit, Live, Submittable, Terminal
    <3>3. QED
      BY <3>1, <3>2
  <2>3. QED
    BY <1>4, <2>1, <2>2, Untouched, FaultsCounted DEF TypeOK, Submit
<1>5. CASE Write(s)
  <2> DEFINE m == IF pc[s] = "finish" THEN [mem[s] EXCEPT !.result = answered[s]] ELSE mem[s]
  <2>a. m \in Record
    BY ResultType DEF TypeOK, RunType
  <2>b. To(m, Target(s)) \in Record
    <3>1. Target(s) \in State
      BY <1>5, FailedStateType DEF TypeOK, RunType, Write, Target, State
    <3>2. QED
      BY <2>a, <3>1, ToType
  <2>c. AfterWrite(s) \in RunPc
    BY <1>5 DEF Write, AfterWrite, RunPc
  <2>1. RunType'
    BY <1>5, <2>b, <2>c, GotoType DEF TypeOK, RunType, Write
  <2>2. StoreType'
    BY <1>5, <2>b, StoredType, Untouched DEF TypeOK, StoreType, Write
  <2>3. QED
    BY <1>5, <2>1, <2>2, Untouched, FaultsCounted DEF TypeOK, Write
<1>6. CASE Poll(s)
  <2>1. RunType'
    <3>1. pc' \in [Server -> RunPc]
      BY <1>6 DEF TypeOK, RunType, Poll, Goto, RunPc
    <3>2. seen' \in [Server -> State]
      BY <1>6 DEF TypeOK, RunType, Poll, Live, Terminal, State
    <3>3. mem' \in [Server -> Record]
      BY <1>6, FailureType DEF TypeOK, RunType, Poll
    <3>4. QED
      BY <1>6, <3>1, <3>2, <3>3 DEF TypeOK, RunType, Poll
  <2>2. QED
    BY <1>6, <2>1, Untouched, FaultsCounted DEF TypeOK, Poll
<1>7. CASE Result(s)
  <2>1. RunType'
    BY <1>7 DEF TypeOK, RunType, Result, Goto, RunPc
  <2>2. QED
    BY <1>7, <2>1, Untouched, FaultsCounted DEF TypeOK, Result
<1>8. CASE Abandon(s)
  <2>1. RunType'
    BY <1>8 DEF TypeOK, RunType, Abandon, Goto, RunPc
  <2>2. ProviderType'
    BY <1>8, Untouched
    DEF TypeOK, ProviderType, Abandon, ProviderCancel, Cancelled, Live, Terminal
  <2>3. QED
    BY <1>8, <2>1, <2>2, Untouched, FaultsCounted DEF TypeOK, Abandon
<1>9. CASE Release(s)
  <2>1. RunType'
    BY <1>9 DEF TypeOK, RunType, Release, Goto, RunPc
  <2>2. ProviderType'
    <3>1. CASE Forget("run") /\ UNCHANGED misled
      BY <3>1 DEF TypeOK, ProviderType, Forget
    <3>2. QED
      BY <1>9, <3>1, Untouched, BelievesType DEF Release
  <2>3. QED
    BY <1>9, <2>1, <2>2, Untouched, FaultsCounted DEF TypeOK, Release, Unknowable
<1>10. CASE MarkReleased(s)
  <2>1. RunType'
    BY <1>10 DEF TypeOK, RunType, MarkReleased, Goto, RunPc
  <2>2. StoreType'
    BY <1>10 DEF TypeOK, StoreType, MarkReleased, Released, Record
  <2>3. QED
    BY <1>10, <2>1, <2>2, Untouched, FaultsCounted DEF TypeOK, MarkReleased
<1>11. CASE Charge(s)
  <2>1. RunType'
    BY <1>11 DEF TypeOK, RunType, Charge, Goto, RunPc
  <2>2. LedgerType'
    <3>1. CASE Settle
      <4>1. charges' \in Nat
        BY <3>1 DEF TypeOK, LedgerType, Settle
      <4>2. reservation' \in {"none", "held", "settled", "dropped"} /\ stale' = FALSE
        BY <3>1 DEF TypeOK, LedgerType, Settle
      <4>3. QED
        BY <4>1, <4>2 DEF LedgerType
    <3>2. QED
      BY <1>11, <3>1, Untouched DEF Charge
  <2>3. QED
    BY <1>11, <2>1, <2>2, Untouched, FaultsCounted DEF TypeOK, Charge
<1>12. CASE End(s)
  <2>1. RunType'
    BY <1>12, PendingType DEF TypeOK, RunType, End, Over, RunPc, State
  <2>2. StoreType'
    BY <1>12 DEF TypeOK, StoreType, End
  <2>3. QED
    BY <1>12, <2>1, <2>2, Untouched, FaultsCounted DEF TypeOK, End
<1>13. CASE List(s)
  <2>1. RunType'
    <3>1. /\ pc' \in {[pc EXCEPT ![s] = "status"], [pc EXCEPT ![s] = "end"], [pc EXCEPT ![s] = "idle"]}
          /\ mem' \in {mem, [mem EXCEPT ![s] = rec], [mem EXCEPT ![s] = Pending]}
          /\ seen' \in {seen, [seen EXCEPT ![s] = "pending"]}
          /\ cancelled' \in {cancelled, [cancelled EXCEPT ![s] = FALSE]}
          /\ answered' \in {answered, [answered EXCEPT ![s] = FALSE]}
      BY <1>13 DEF List, Over, Goto
    <3>2. rec \in Record /\ Pending \in Record /\ "pending" \in State
      BY PendingType DEF TypeOK, StoreType, State
    <3>3. pc' \in [Server -> RunPc]
      BY <3>1 DEF TypeOK, RunType, RunPc
    <3>4. mem' \in [Server -> Record]
      BY <3>1, <3>2 DEF TypeOK, RunType
    <3>5. /\ seen' \in [Server -> State] /\ cancelled' \in [Server -> BOOLEAN]
          /\ answered' \in [Server -> BOOLEAN]
      BY <3>1, <3>2 DEF TypeOK, RunType
    <3>6. QED
      BY <3>3, <3>4, <3>5 DEF RunType
  <2>2. QED
    BY <1>13, <2>1, Untouched, FaultsCounted DEF TypeOK, List
<1>14. CASE ResumeStatus(s)
  <2>1. RunType'
    <3>1. pc' \in [Server -> RunPc]
      BY <1>14 DEF TypeOK, RunType, ResumeStatus, Goto, RunPc
    <3>2. seen' \in [Server -> State]
      BY <1>14 DEF TypeOK, RunType, ResumeStatus
    <3>3. mem' \in [Server -> Record]
      BY <1>14, FailureType DEF TypeOK, RunType, ResumeStatus
    <3>4. QED
      BY <1>14, <3>1, <3>2, <3>3 DEF TypeOK, RunType, ResumeStatus
  <2>2. QED
    BY <1>14, <2>1, Untouched, FaultsCounted DEF TypeOK, ResumeStatus
<1>15. QED
  BY <1>1, <1>2, <1>3, <1>4, <1>5, <1>6, <1>7, <1>8, <1>9, <1>10, <1>11, <1>12, <1>13, <1>14 DEF Run

\* So does what the cancel route does.
LEMMA CancelTypes == ASSUME TypeOK, Cancel PROVE TypeOK'
<1>1. CASE \E s \in Server : CancelExecution(s)
  <2>1. RunType'
    BY <1>1 DEF TypeOK, RunType, CancelExecution
  <2>2. ApiType'
    BY <1>1 DEF TypeOK, ApiType, StoreType, CancelExecution
  <2>3. QED
    BY <1>1, <2>1, <2>2, Untouched, FaultsCounted DEF TypeOK, CancelExecution
<1>2. CASE CancelUnwatched
  <2>1. ApiType'
    BY <1>2, PendingType DEF TypeOK, ApiType, CancelUnwatched, ApiOver
  <2>2. ProviderType'
    BY <1>2, Untouched
    DEF TypeOK, ProviderType, CancelUnwatched, ProviderCancel, Cancelled, Live, Terminal
  <2>3. QED
    BY <1>2, <2>1, <2>2, Untouched, FaultsCounted DEF TypeOK, CancelUnwatched
<1>3. CASE RecordCancelled
  <2>1. ApiType'
    BY <1>3, PendingType DEF TypeOK, ApiType, RecordCancelled, ApiOver
  <2>2. To(apiRec, "cancelled") \in Record
    BY ToType DEF TypeOK, ApiType, State
  <2>3. StoreType'
    BY <1>3, <2>2, StoredType, Untouched DEF RecordCancelled
  <2>4. QED
    BY <1>3, <2>1, <2>3, Untouched, FaultsCounted DEF TypeOK, RecordCancelled
<1>4. QED
  BY <1>1, <1>2, <1>3 DEF Cancel

\* So does what the release loop does.
LEMMA LoopTypes == ASSUME TypeOK, Loop PROVE TypeOK'
<1> USE DEF LoopUnchanged
<1>1. faults' \in 0..MaxFaults /\ ConfigType' /\ LedgerType' /\ RunType' /\ ApiType'
  BY Untouched, FaultsCounted
  DEF Loop, LoopList, LoopLost, LoopLostResult, LoopResolve, LoopReserved, LoopStatus,
      LoopRelease, LoopMark, LoopFails, LoopOver, LoopTakenForReleased, Unknowable
<1>a. UNCHANGED home
  BY DEF Loop, LoopList, LoopLost, LoopLostResult, LoopResolve, LoopReserved, LoopStatus,
      LoopRelease, LoopMark
<1>2. CASE LoopOver /\ UNCHANGED <<storeVars, providerVars>>
  BY <1>1, <1>a, <1>2, LoopOverType, Untouched DEF TypeOK
<1>b. CASE LoopTakenForReleased
  <2>1. LoopType'
    BY <1>b DEF LoopTakenForReleased, LoopGoto, TypeOK, LoopType, LoopPc
  <2>2. ProviderType' /\ StoreType'
    BY <1>b, BelievesType, Untouched DEF LoopTakenForReleased
  <2>3. QED
    BY <1>1, <2>1, <2>2 DEF TypeOK
<1>3. CASE LoopList
  <2>1. loopAt' \in Server
    BY <1>3 DEF LoopList, TypeOK, ConfigType
  <2>2. QED
    BY <1>1, <1>3, <2>1, Untouched DEF TypeOK, LoopType, StoreType, LoopList, LoopPc
<1>4. CASE LoopLost
  BY <1>1, <1>2, <1>4, Untouched
  DEF TypeOK, LoopType, LoopLost, LoopGoto, LostAnswered, LostButEnded, LoopPc
<1>5. CASE LoopLostResult
  BY <1>1, <1>2, <1>5, Untouched, ResultType
  DEF TypeOK, LoopType, LoopLostResult, LoopPc, Terminal
<1>6. CASE LoopResolve
  <2>1. To(loopRec, loopSeen) \in Record
    BY ToType, TerminalType DEF TypeOK, LoopType
  <2>2. LoopType'
    BY <1>6, <1>a, <2>1, LoopOverType DEF TypeOK, LoopType, LoopResolve, LoopPc, Terminal
  <2>3. StoreType'
    BY <1>6, <2>1, StoredType, Untouched DEF LoopResolve
  <2>4. QED
    BY <1>1, <1>6, <2>2, <2>3, Untouched DEF TypeOK, LoopResolve
<1>7. CASE LoopReserved
  BY <1>1, <1>2, <1>7, Untouched DEF TypeOK, LoopType, LoopReserved, LoopGoto, LoopFails, LoopPc
<1>8. CASE LoopStatus
  BY <1>1, <1>2, <1>b, <1>8, Untouched
  DEF TypeOK, LoopType, LoopStatus, LoopGoto, LoopFails, LoopPc
<1>9. CASE LoopRelease
  <2>1. CASE Forget("loop") /\ LoopGoto("mark") /\ UNCHANGED <<storeVars, misled>>
    BY <1>1, <1>9, <2>1, Untouched DEF TypeOK, LoopType, ProviderType, Forget, LoopGoto, LoopPc
  <2>2. QED
    BY <1>2, <1>b, <1>9, <2>1 DEF LoopRelease, LoopFails
<1>10. CASE LoopMark
  <2>1. StoreType'
    BY <1>10 DEF TypeOK, StoreType, LoopMark, Released, Record
  <2>2. LoopType'
    BY <1>10, <1>a, LoopOverType DEF LoopMark
  <2>3. QED
    BY <1>1, <1>10, <2>1, <2>2, Untouched DEF TypeOK, LoopMark
<1>11. QED
  BY <1>3, <1>4, <1>5, <1>6, <1>7, <1>8, <1>9, <1>10 DEF Loop

\* So does everything else: a crash, a claim, the reaper, the platform, time.
LEMMA OtherTypes ==
    ASSUME TypeOK,
           \/ \E s \in Server : Crash(s) \/ Claim(s) \/ Reap(s)
           \/ Provider \/ Time \/ Deconfigure
    PROVE  TypeOK'
<1>1. ASSUME NEW s \in Server, Crash(s) PROVE TypeOK'
  <2>1. RunType'
    BY <1>1, PendingType DEF TypeOK, RunType, Crash, Over, RunPc, State
  <2>2. ProviderType'
    <3>1. placed' \in BOOLEAN
      BY <1>1 DEF Crash
    <3>2. QED
      BY <1>1, <3>1, AttemptedType DEF Crash, TypeOK, ProviderType
  <2>3. LoopType'
    BY <1>1, LoopOverType, Untouched DEF Crash
  <2>4. QED
    BY <1>1, <2>1, <2>2, <2>3, Untouched, FaultsCounted DEF TypeOK, Crash
<1>2. ASSUME NEW s \in Server, Claim(s) PROVE TypeOK'
  <2>1. RunType'
    BY <1>2 DEF TypeOK, RunType, Claim, Goto, RunPc
  <2>2. StoreType'
    BY <1>2 DEF TypeOK, StoreType, Claim
  <2>3. QED
    BY <1>2, <2>1, <2>2, Untouched, FaultsCounted DEF TypeOK, Claim
<1>3. ASSUME NEW s \in Server, Reap(s) PROVE TypeOK'
  <2>1. charges' \in Nat
    BY <1>3 DEF TypeOK, LedgerType, Reap
  <2>2. reservation' \in {"none", "held", "settled", "dropped"} /\ stale' = FALSE
    BY <1>3 DEF Reap
  <2>3. ProviderType'
    BY <1>3, BelievesType, Untouched DEF Reap
  <2>4. QED
    BY <1>3, <2>1, <2>2, <2>3, Untouched, FaultsCounted DEF TypeOK, LedgerType, Reap, Unknowable
<1>4. CASE Provider
  <2>1. ProviderType'
    BY <1>4 DEF TypeOK, ProviderType, Provider, Start, Finish, Live, Terminal
  <2>2. QED
    BY <1>4, <2>1, Untouched, FaultsCounted DEF TypeOK, Provider, NoFault
<1>5. CASE Time
  <2>1. StoreType' /\ LedgerType'
    BY <1>5, Untouched DEF TypeOK, StoreType, LedgerType, Time, Age, Expire, GrowStale
  <2>2. QED
    BY <1>5, <2>1, Untouched, FaultsCounted DEF TypeOK, Time, Age, Expire, GrowStale, NoFault
<1>6. CASE Deconfigure
  <2>1. ConfigType' /\ ProviderType'
    BY <1>6 DEF TypeOK, ConfigType, ProviderType, Deconfigure
  <2>2. QED
    BY <1>6, <2>1, Untouched, FaultsCounted DEF TypeOK, Deconfigure
<1>7. QED
  BY <1>1, <1>2, <1>3, <1>4, <1>5, <1>6

\* Every step keeps every variable's type.
LEMMA TypeStep == TypeOK /\ [Next]_vars => TypeOK'
<1> SUFFICES ASSUME TypeOK, [Next]_vars PROVE TypeOK'
  OBVIOUS
<1>1. CASE Next
  BY <1>1, RunTypes, CancelTypes, LoopTypes, OtherTypes DEF Next
<1>2. CASE UNCHANGED vars
  BY <1>2, Untouched, FaultsCounted DEF TypeOK, NoFault
<1>3. QED
  BY <1>1, <1>2

\* Type correctness: whatever interleaving of runs, takeovers, cancels, the
\* reaper and the release loop, every variable keeps its type.
THEOREM TypeCorrect == Spec => []TypeOK
BY TypeInit, TypeStep, PTL DEF Spec

-----------------------------------------------------------------------------
\* The inductive invariant.  The stored record is only as good as the copies it
\* is written from, so the invariant says what every writer's copy holds at
\* every point where it may still be written.

\* Where a run has yet to submit; only the run that began the dispatch does.
Beginning == {"reserve", "create", "wait", "submit"}

\* Where a run has yet to write what became of its execution.
Unfinished == Beginning \cup {"submitted", "record", "poll", "result", "finish",
               "failed", "abandon", "abandoned", "status", "adopt"}

\* Where it has recorded that it submitted.
Followed == {"record", "poll", "result", "finish", "abandon", "abandoned"}

\* What a record says the task did, the provider saw it do.
Truthful(r) ==
    /\ r.state = "succeeded" => verdict = "succeeded"
    /\ r.state = "failed" /\ r.result => verdict = "failed"

RecordInv ==
    /\ rec.result => rec.state \in Terminal
    /\ Truthful(rec)

BeginInv ==
    /\ \A s, t \in Server : pc[s] \in Beginning /\ pc[t] \in Beginning => s = t
    /\ \A s \in Server : pc[s] \in Beginning => work = "absent" /\ verdict = "none"
    /\ \A s \in Server : pc[s] = "reserve" => reservation = "none"

WorkInv ==
    /\ work \in Live \cup {"stuck"} => verdict = "none"
    /\ work \in {"succeeded", "failed"} => verdict = work

RunInv(s) ==
    /\ pc[s] \in Unfinished => mem[s].state \notin Terminal /\ ~mem[s].result
    /\ pc[s] \in Followed => mem[s].state # "pending"
    /\ pc[s] \in {"result", "finish"} => seen[s] \in Terminal
    /\ pc[s] = "record" => seen[s] \notin Terminal
    /\ pc[s] = "submitted" => (answered[s] <=> seen[s] \in Terminal)
    /\ answered[s] => pc[s] \in {"submitted", "finish", "release", "mark", "charge", "end"}
    /\ seen[s] \in {"succeeded", "failed"} => verdict = seen[s]

LoopInv ==
    /\ loopPc \in {"lost", "lostResult", "resolve"} => loopRec.state = "lost"
    /\ loopPc \in {"lost", "lostResult"} => ~loopRec.result
    /\ loopPc \notin {"lostResult", "resolve"} => loopSeen = "failed"
    /\ loopPc = "lostResult" /\ loopSeen # "cancelled" => verdict = loopSeen
    /\ loopPc = "resolve" /\ loopSeen = "succeeded" => verdict = "succeeded"
    /\ loopPc = "resolve" /\ loopSeen = "failed" /\ loopRec.result => verdict = "failed"

ApiInv == apiPc # "idle" => apiRec.state \notin Terminal

Inv ==
    /\ TypeOK /\ ChargedOnce /\ RecordInv /\ BeginInv /\ WorkInv
    /\ \A s \in Server : RunInv(s)
    /\ LoopInv /\ ApiInv

-----------------------------------------------------------------------------
\* Who changes what.

\* The ledger row changes by a reservation, a settling or the reaper only.
LEMMA LedgerFrame ==
    ASSUME Next
    PROVE  \/ UNCHANGED <<reservation, charges>>
           \/ \E s \in Server : Reserve(s) \/ Charge(s) \/ Reap(s)
<1>1. ASSUME NEW s \in Server, Run(s)
      PROVE  UNCHANGED <<reservation, charges>> \/ Reserve(s) \/ Charge(s)
  BY <1>1
  DEF Run, Create, Pause, Submit, Write, Poll, Result, Abandon, Release, MarkReleased,
      End, List, ResumeStatus
<1>2. CASE Loop
  BY <1>2
  DEF Loop, LoopList, LoopLost, LoopLostResult, LoopResolve, LoopReserved, LoopStatus,
      LoopRelease, LoopMark, LoopUnchanged
<1>3. CASE \E s \in Server : Crash(s) \/ Claim(s)
  BY <1>3 DEF Crash, Claim
<1>4. CASE Cancel \/ Provider \/ Time \/ Deconfigure
  BY <1>4
  DEF Cancel, CancelExecution, CancelUnwatched, RecordCancelled, Provider, Time, Age,
      Expire, GrowStale, Deconfigure
<1>5. QED
  BY <1>1, <1>2, <1>3, <1>4 DEF Next

\* The process dies with its call to Submit on the way.
CutShort(s) == pc[s] = "submit" /\ Attempted /\ Crash(s)

\* The work changes by what is asked of the provider or by the platform only.
LEMMA ProviderFrame ==
    ASSUME Next
    PROVE  \/ UNCHANGED <<work, verdict>>
           \/ \E s \in Server : Submit(s) \/ Abandon(s) \/ Release(s) \/ CutShort(s)
           \/ CancelUnwatched \/ LoopRelease \/ Provider
<1>1. ASSUME NEW s \in Server, Run(s)
      PROVE  UNCHANGED <<work, verdict>> \/ Submit(s) \/ Abandon(s) \/ Release(s)
  BY <1>1
  DEF Run, Reserve, Create, Pause, Write, Poll, Result, MarkReleased, Charge,
      End, List, ResumeStatus
<1>2. CASE Loop
  BY <1>2
  DEF Loop, LoopList, LoopLost, LoopLostResult, LoopResolve, LoopReserved, LoopStatus,
      LoopMark, LoopFails, LoopTakenForReleased
<1>3. CASE \E s \in Server : Crash(s) \/ Claim(s)
  BY <1>3 DEF Crash, Claim, CutShort
<1>4. CASE Cancel \/ (\E s \in Server : Reap(s)) \/ Time \/ Deconfigure
  BY <1>4
  DEF Cancel, CancelExecution, RecordCancelled, Reap, Time, Age, Expire, GrowStale,
      Deconfigure
<1>5. QED
  BY <1>1, <1>2, <1>3, <1>4 DEF Next

\* The stored record changes by a run, the cancel route or the release loop only.
LEMMA RecordFrame ==
    ASSUME Next
    PROVE  \/ UNCHANGED rec
           \/ \E s \in Server : Write(s) \/ MarkReleased(s)
           \/ RecordCancelled \/ LoopResolve \/ LoopMark
<1>1. ASSUME NEW s \in Server, Run(s)
      PROVE  UNCHANGED rec \/ Write(s) \/ MarkReleased(s)
  BY <1>1
  DEF Run, Reserve, Create, Pause, Submit, Poll, Result, Abandon, Release, Charge,
      End, List, ResumeStatus
<1>2. CASE Loop
  BY <1>2
  DEF Loop, LoopList, LoopLost, LoopLostResult, LoopReserved, LoopStatus,
      LoopRelease, LoopFails, LoopTakenForReleased
<1>3. CASE \E s \in Server : Crash(s) \/ Claim(s)
  BY <1>3 DEF Crash, Claim
<1>4. CASE Cancel \/ (\E s \in Server : Reap(s)) \/ Provider \/ Time \/ Deconfigure
  BY <1>4
  DEF Cancel, CancelExecution, CancelUnwatched, Reap, Provider, Time, Age, Expire,
      GrowStale, Deconfigure
<1>5. QED
  BY <1>1, <1>2, <1>3, <1>4 DEF Next

\* A run is its server's own business, but for being told that it is cancelled.
LEMMA RunFrame ==
    ASSUME TypeOK, Next, NEW t \in Server
    PROVE  \/ UNCHANGED <<pc[t], mem[t], seen[t], answered[t]>>
           \/ Run(t) \/ Crash(t) \/ Claim(t)
<1>1. ASSUME NEW s \in Server, Run(s), s # t
      PROVE  UNCHANGED <<pc[t], mem[t], seen[t], answered[t]>>
  BY <1>1
  DEF TypeOK, RunType, Run, Reserve, Create, Pause, Submit, Write, Poll, Result, Abandon,
      Release, MarkReleased, Charge, End, List, ResumeStatus, Goto, Over
<1>2. ASSUME NEW s \in Server, Crash(s) \/ Claim(s), s # t
      PROVE  UNCHANGED <<pc[t], mem[t], seen[t], answered[t]>>
  BY <1>2 DEF TypeOK, RunType, Crash, Claim, Goto, Over
<1>3. CASE Loop
  BY <1>3
  DEF Loop, LoopList, LoopLost, LoopLostResult, LoopResolve, LoopReserved, LoopStatus,
      LoopRelease, LoopMark, LoopUnchanged
<1>4. CASE Cancel \/ (\E s \in Server : Reap(s)) \/ Provider \/ Time \/ Deconfigure
  BY <1>4
  DEF Cancel, CancelExecution, CancelUnwatched, RecordCancelled, Reap, Provider, Time,
      Age, Expire, GrowStale, Deconfigure
<1>5. QED
  BY <1>1, <1>2, <1>3, <1>4 DEF Next

\* The release loop's copy is its own.
LEMMA LoopFrame == ASSUME Next PROVE UNCHANGED loopVars \/ LoopOver \/ Loop
<1>1. ASSUME NEW s \in Server, Run(s) PROVE UNCHANGED loopVars
  BY <1>1
  DEF Run, Reserve, Create, Pause, Submit, Write, Poll, Result, Abandon, Release,
      MarkReleased, Charge, End, List, ResumeStatus
<1>2. CASE \E s \in Server : Crash(s) \/ Claim(s)
  BY <1>2 DEF Crash, Claim
<1>3. CASE Cancel \/ (\E s \in Server : Reap(s)) \/ Provider \/ Time \/ Deconfigure
  BY <1>3
  DEF Cancel, CancelExecution, CancelUnwatched, RecordCancelled, Reap, Provider, Time,
      Age, Expire, GrowStale, Deconfigure
<1>4. QED
  BY <1>1, <1>2, <1>3 DEF Next

\* The cancel route's copy is its own.
LEMMA ApiFrame == ASSUME Next PROVE UNCHANGED apiVars \/ Cancel
<1>1. ASSUME NEW s \in Server, Run(s) PROVE UNCHANGED apiVars
  BY <1>1
  DEF Run, Reserve, Create, Pause, Submit, Write, Poll, Result, Abandon, Release,
      MarkReleased, Charge, End, List, ResumeStatus
<1>2. CASE Loop
  BY <1>2
  DEF Loop, LoopList, LoopLost, LoopLostResult, LoopResolve, LoopReserved, LoopStatus,
      LoopRelease, LoopMark, LoopUnchanged
<1>3. CASE \/ \E s \in Server : Crash(s) \/ Claim(s) \/ Reap(s)
           \/ Provider \/ Time \/ Deconfigure
  BY <1>3 DEF Crash, Claim, Reap, Provider, Time, Age, Expire, GrowStale, Deconfigure
<1>4. QED
  BY <1>1, <1>2, <1>3 DEF Next

-----------------------------------------------------------------------------
\* Every step keeps the invariant.

\* A dispatch begins in the invariant.
LEMMA InvInit == Init => Inv
<1> SUFFICES ASSUME Init PROVE Inv
  OBVIOUS
<1>1. TypeOK
  BY TypeInit
<1>2. RecordInv /\ WorkInv /\ LoopInv /\ ApiInv /\ ChargedOnce
  BY DEF Init, RecordInv, Truthful, Pending, WorkInv, Live, LoopInv, ApiInv, ChargedOnce
<1>3. BeginInv
  BY DEF Init, BeginInv, Beginning
<1>4. ASSUME NEW s \in Server PROVE RunInv(s)
  BY DEF Init, RunInv, Pending, Terminal, Followed
<1>5. QED
  BY <1>1, <1>2, <1>3, <1>4 DEF Inv

\* How the work ended is known once: it ends once, and once it has, no
\* cancellation that finds it over changes how.
LEMMA VerdictKept ==
    ASSUME Inv, Next, verdict # "none"
    PROVE  verdict' = verdict
<1>1. ASSUME NEW s \in Server, Submit(s) \/ CutShort(s) PROVE FALSE
  BY <1>1 DEF Inv, BeginInv, Beginning, Submit, CutShort
<1>2. ASSUME ProviderCancel PROVE verdict' = verdict
  BY <1>2 DEF Inv, WorkInv, ProviderCancel, Live
<1>3. CASE (\E s \in Server : Abandon(s)) \/ CancelUnwatched
  BY <1>2, <1>3 DEF Abandon, CancelUnwatched
<1>4. CASE (\E s \in Server : Release(s)) \/ LoopRelease
  BY <1>4 DEF Release, LoopRelease, LoopFails, LoopTakenForReleased, Forget
<1>5. CASE Provider
  BY <1>5 DEF Inv, WorkInv, Provider, Start, Finish
<1>6. QED
  BY <1>1, <1>3, <1>4, <1>5, ProviderFrame

\* What the provider reports of work that ended on its own is how it ended.
LEMMA WorkStep == ASSUME Inv, Next PROVE WorkInv'
<1> USE DEF Live, Terminal
<1>1. CASE UNCHANGED <<work, verdict>>
  BY <1>1 DEF Inv, WorkInv
<1>2. ASSUME NEW s \in Server, Submit(s) \/ CutShort(s) PROVE WorkInv'
  <2>1. work = "absent" /\ verdict = "none"
    BY <1>2 DEF Inv, BeginInv, Beginning, Submit, CutShort
  <2>2. CASE Attempted
    BY <2>1, <2>2 DEF Attempted, WorkInv
  <2>3. CASE ~Attempted
    BY <1>2, <2>1, <2>3 DEF WorkInv, Submit, CutShort, Submittable
  <2>4. QED
    BY <2>2, <2>3
<1>3. ASSUME ProviderCancel PROVE WorkInv'
  BY <1>3 DEF Inv, WorkInv, ProviderCancel, Cancelled
<1>4. CASE (\E s \in Server : Abandon(s)) \/ CancelUnwatched
  BY <1>1, <1>3, <1>4 DEF Abandon, CancelUnwatched
<1>5. CASE (\E s \in Server : Release(s)) \/ LoopRelease
  BY <1>1, <1>5 DEF Release, LoopRelease, LoopFails, LoopTakenForReleased, Forget, WorkInv
<1>6. CASE Provider
  BY <1>6 DEF Inv, WorkInv, Provider, Start, Finish
<1>7. QED
  BY <1>1, <1>2, <1>4, <1>5, <1>6, ProviderFrame

\* One run only is yet to submit, and until it has there is nothing at the
\* provider: a server that takes over never submits (Dispatcher.Resume).
LEMMA BeginStep == ASSUME Inv, Next PROVE BeginInv'
<1> USE DEF Beginning
<1>1. ASSUME NEW s \in Server, pc'[s] \in Beginning
      PROVE  /\ pc[s] \in Beginning
             /\ pc'[s] = "reserve" => pc[s] = "reserve" /\ ~Reserve(s)
             /\ ~Submit(s)
  <2>1. CASE UNCHANGED <<pc[s], mem[s], seen[s], answered[s]>> /\ ~Run(s)
    BY <1>1, <2>1 DEF Run
  <2>2. CASE Run(s)
    BY <1>1, <2>2
    DEF Inv, TypeOK, RunType, Run, Reserve, Create, Pause, Submit, Write, AfterWrite, Poll,
        Result, Abandon, Release, MarkReleased, Charge, End, List, ResumeStatus, Goto, Over
  <2>3. CASE Crash(s) \/ Claim(s)
    BY <1>1, <2>3 DEF Inv, TypeOK, RunType, Crash, Claim, Goto, Over
  <2>4. QED
    BY <2>1, <2>2, <2>3, RunFrame DEF Inv
<1>2. \A s, t \in Server : pc'[s] \in Beginning /\ pc'[t] \in Beginning => s = t
  BY <1>1 DEF Inv, BeginInv
<1>3. ASSUME NEW s \in Server, pc'[s] \in Beginning
      PROVE  work' = "absent" /\ verdict' = "none"
  <2>1. work = "absent" /\ verdict = "none"
    BY <1>1, <1>3 DEF Inv, BeginInv
  <2>2. ASSUME NEW t \in Server PROVE ~Submit(t) /\ ~CutShort(t)
    <3>1. pc[s] \in Beginning /\ ~Submit(s)
      BY <1>1, <1>3
    <3>2. ~CutShort(s)
      BY <1>3 DEF CutShort, Crash, Over, Inv, TypeOK, RunType, Beginning
    <3>3. QED
      BY <3>1, <3>2 DEF Inv, BeginInv, Submit, CutShort, Beginning
  <2>3. QED
    BY <2>1, <2>2, ProviderFrame
    DEF Abandon, Release, CancelUnwatched, ProviderCancel, Cancelled, LoopRelease,
        LoopFails, LoopTakenForReleased, Forget, Provider, Start, Finish, Live
<1>4. ASSUME NEW s \in Server, pc'[s] = "reserve"
      PROVE  reservation' = "none"
  <2>1. pc[s] = "reserve" /\ ~Reserve(s) /\ reservation = "none"
    BY <1>1, <1>4 DEF Inv, BeginInv
  <2>2. ASSUME NEW t \in Server PROVE ~Reserve(t)
    BY <1>1, <2>1 DEF Inv, BeginInv, Reserve
  <2>3. QED
    BY <2>1, <2>2, LedgerFrame DEF Charge, Settle, Reap
<1>5. QED
  BY <1>2, <1>3, <1>4 DEF BeginInv

\* Settling replaces a held reservation and nothing else, and one run only
\* reserves.
LEMMA ChargedStep == ASSUME Inv, Next PROVE ChargedOnce'
<1>1. CASE UNCHANGED <<reservation, charges>>
  BY <1>1 DEF Inv, ChargedOnce
<1>2. ASSUME NEW s \in Server, Reserve(s) PROVE ChargedOnce'
  BY <1>2 DEF Inv, BeginInv, ChargedOnce, Reserve
<1>3. ASSUME NEW s \in Server, Charge(s) PROVE ChargedOnce'
  <2>1. CASE Settle
    BY <2>1 DEF Inv, ChargedOnce, Settle
  <2>2. QED
    BY <1>1, <1>3, <2>1 DEF Charge
<1>4. ASSUME NEW s \in Server, Reap(s) PROVE ChargedOnce'
  BY <1>4 DEF Inv, ChargedOnce, Reap
<1>5. QED
  BY <1>1, <1>2, <1>3, <1>4, LedgerFrame

\* What a provider answers of work that is over is how it ended.
LEMMA StatusTrue ==
    ASSUME NEW s \in Server, StatusOn(s) \in Terminal
    PROVE  StatusOn(s) = work
BY DEF StatusOn, Terminal

\* What a run writes, and what it then holds.  This is where the copy is shown
\* never to hold what it should not when the next write comes.
LEMMA RunStep == ASSUME Inv, Next, NEW s \in Server PROVE RunInv(s)'
<1> USE DEF Unfinished, Beginning, Followed
<1>a. RunInv(s) /\ TypeOK /\ WorkInv
  BY DEF Inv
<1>b. /\ pc \in [Server -> RunPc] /\ mem \in [Server -> Record]
      /\ seen \in [Server -> State] /\ answered \in [Server -> BOOLEAN]
  BY <1>a DEF TypeOK, RunType
<1>c. seen[s] \in {"succeeded", "failed"} => verdict' = seen[s]
  BY <1>a, VerdictKept DEF RunInv
<1>1. CASE UNCHANGED <<pc[s], mem[s], seen[s], answered[s]>>
  BY <1>a, <1>c, <1>1 DEF RunInv
<1>2. CASE Reserve(s) \/ Create(s) \/ Pause(s)
  BY <1>a, <1>b, <1>c, <1>2 DEF RunInv, Reserve, Create, Pause, Goto
<1>3. CASE Submit(s)
  <2>1. verdict = "none" /\ pc[s] = "submit" /\ ~answered[s]
    BY <1>a, <1>3 DEF Inv, BeginInv, Submit, RunInv
  <2>2. seen[s] \notin {"succeeded", "failed"}
    BY <1>a, <2>1 DEF RunInv
  <2>3. CASE pc'[s] = "submitted" /\ ~Synchronous
    BY <1>a, <1>b, <1>3, <2>1, <2>2, <2>3
    DEF RunInv, Submit, Goto, Submittable, Live, Terminal
  <2>4. CASE pc'[s] = "submitted" /\ Synchronous
    BY <1>a, <1>b, <1>3, <2>1, <2>2, <2>4
    DEF RunInv, Submit, Goto, Submittable, Terminal
  <2>5. CASE pc'[s] = "failed"
    BY <1>a, <1>b, <1>3, <2>1, <2>2, <2>5 DEF RunInv, Submit, Goto, Record
  <2>6. QED
    BY <1>b, <1>3, <2>3, <2>4, <2>5 DEF Submit, Goto
<1>4. CASE Write(s)
  <2>1. CASE pc[s] \in {"submitted", "adopt"}
    <3>1. /\ mem'[s] = To(mem[s], "submitted") /\ pc'[s] = AfterWrite(s)
          /\ seen'[s] = seen[s] /\ answered'[s] = answered[s]
      BY <1>b, <1>4, <2>1 DEF Write, Target, Goto
    <3>2. mem'[s].state \notin Terminal \cup {"pending"} /\ ~mem'[s].result
      BY <1>a, <1>b, <2>1, <3>1
      DEF RunInv, To, CanTransition, LegalTransitions, Terminal, State, Record
    <3>3. QED
      BY <1>a, <1>c, <2>1, <3>1, <3>2 DEF RunInv, AfterWrite
  <2> USE DEF Write, Target, AfterWrite, Goto, To, CanTransition, LegalTransitions
  <2>2. CASE pc[s] = "record"
    <3>1. /\ mem'[s] = To(mem[s], seen[s]) /\ pc'[s] = "poll"
          /\ seen'[s] = seen[s] /\ answered'[s] = answered[s]
      BY <1>b, <1>4, <2>2
    <3>2. mem'[s].state \notin Terminal \cup {"pending"} /\ ~mem'[s].result
      BY <1>a, <1>b, <2>2, <3>1 DEF RunInv, Terminal, State, Record
    <3>3. QED
      BY <1>a, <1>c, <2>2, <3>1, <3>2 DEF RunInv
  <2>3. CASE pc[s] \in {"failed", "abandoned"}
    <3>1. pc'[s] = "end" /\ seen'[s] = seen[s] /\ answered'[s] = answered[s]
      BY <1>b, <1>4, <2>3
    <3>2. QED
      BY <1>a, <1>c, <2>3, <3>1 DEF RunInv
  <2>4. CASE pc[s] = "finish"
    <3>1. /\ pc'[s] = IF answered[s] THEN "release" ELSE "end"
          /\ seen'[s] = seen[s] /\ answered'[s] = answered[s]
      BY <1>b, <1>4, <2>4
    <3>2. QED
      BY <1>a, <1>c, <2>4, <3>1 DEF RunInv
  <2>5. QED
    BY <1>4, <2>1, <2>2, <2>3, <2>4
<1>5. CASE Poll(s)
  BY <1>a, <1>b, <1>c, <1>5, StatusTrue DEF RunInv, Poll, Goto, WorkInv, Live, Terminal, Record
<1>6. CASE Result(s) \/ Abandon(s) \/ Release(s) \/ MarkReleased(s) \/ Charge(s)
  BY <1>a, <1>b, <1>c, <1>6
  DEF RunInv, Result, Abandon, Release, MarkReleased, Charge, Goto
<1>7. CASE End(s) \/ Crash(s) \/ Claim(s)
  BY <1>a, <1>b, <1>c, <1>7 DEF RunInv, End, Crash, Claim, Over, Goto, Pending, Terminal
<1>8. CASE List(s)
  BY <1>a, <1>b, <1>c, <1>8
  DEF Inv, RecordInv, RunInv, List, Over, Goto, Pending, Terminal
<1>9. CASE ResumeStatus(s)
  BY <1>a, <1>b, <1>c, <1>9, StatusTrue
  DEF RunInv, ResumeStatus, Goto, WorkInv, Terminal, Record
<1>10. QED
  BY <1>a, <1>1, <1>2, <1>3, <1>4, <1>5, <1>6, <1>7, <1>8, <1>9, RunFrame DEF Run

\* The abstract record speaks of the same states.
LEMMA SameVocabulary ==
    /\ Abstract!State = State /\ Abstract!Terminal = Terminal
    /\ \A from, to : Abstract!CanTransition(from, to) <=> CanTransition(from, to)
BY DEF Abstract!State, State, Abstract!Terminal, Terminal, Abstract!CanTransition,
       CanTransition, Abstract!LegalTransitions, LegalTransitions

\* A move the state machine allows ends in a state and starts in an open one.
LEMMA LegalTarget ==
    ASSUME NEW from, NEW to, CanTransition(from, to)
    PROVE  to \in State /\ (from \in Terminal => FALSE)
BY DEF CanTransition, LegalTransitions, State, Terminal

\* A write of r over a record read in state `from' advances the stored record as
\* its abstract specification allows, whatever was written in between.
LEMMA StoredAdvances ==
    ASSUME TypeOK, NEW r \in Record, NEW from, Stored(r, from),
           CanTransition(from, r.state), r.result => r.state \in Terminal
    PROVE  \/ UNCHANGED <<rec.state, rec.result>>
           \/ Abstract!Next /\ rec'.state = r.state /\ rec'.result = r.result
<1>1. CASE rec.state = from
  <2>1. rec'.state = r.state /\ rec'.result = r.result
    BY <1>1 DEF Stored, Update, Record
  <2>2. r.result \in BOOLEAN
    BY DEF Record
  <2>3. Abstract!Advance(r.state)
    BY <1>1, <2>1, <2>2, SameVocabulary DEF Abstract!Advance
  <2>4. r.state \in Abstract!State
    BY SameVocabulary, LegalTarget
  <2>5. QED
    BY <2>1, <2>3, <2>4 DEF Abstract!Next
<1>2. CASE rec.state # from
  BY <1>2 DEF Stored, Update
<1>3. QED
  BY <1>1, <1>2

\* The four ways the record is written.
LEMMA RecordWritten ==
    ASSUME Inv, Next
    PROVE  \/ UNCHANGED <<rec.state, rec.result>>
           \/ Abstract!Next /\ Truthful(rec)'
<1>a. TypeOK
  BY DEF Inv
<1>b. UNCHANGED rec => UNCHANGED <<rec.state, rec.result>>
  OBVIOUS
<1>1. CASE LoopMark \/ \E s \in Server : MarkReleased(s)
  BY <1>a, <1>1 DEF TypeOK, StoreType, LoopMark, MarkReleased, Released, Record
<1>2. ASSUME NEW s \in Server, Write(s)
      PROVE  UNCHANGED <<rec.state, rec.result>> \/ (Abstract!Next /\ Truthful(rec)')
  <2> DEFINE m == IF pc[s] = "finish" THEN [mem[s] EXCEPT !.result = answered[s]] ELSE mem[s]
             r == To(m, Target(s))
  <2>1. RunInv(s) /\ m \in Record /\ m.state = mem[s].state /\ UNCHANGED verdict
    BY <1>a, <1>2, ResultType DEF Inv, TypeOK, RunType, Record, Write
  <2>2. Target(s) \in State
    BY <1>a, <1>2, FailedStateType DEF TypeOK, RunType, Write, Target, State
  <2>3. m.result => pc[s] = "finish"
    BY <1>a, <1>2, <2>1 DEF RunInv, Unfinished, Beginning, Write
  <2>4. (r.state # m.state /\ Stored(r, m.state)) \/ UNCHANGED rec
    BY <1>2, Zenon DEF Write
  <2> HIDE DEF m
  <2>5. CASE r.state # m.state /\ Stored(r, m.state)
    <3>1. CanTransition(m.state, Target(s)) /\ r = [m EXCEPT !.state = Target(s)]
      BY <2>5 DEF To
    <3>2. r \in Record /\ r.state = Target(s) /\ r.result = m.result
      BY <2>1, <2>2, <3>1, ToType DEF Record
    <3> HIDE DEF r
    <3>3. r.result => r.state \in Terminal
      BY <2>1, <2>3, <3>2 DEF RunInv, Target
    <3>4. Truthful(r)
      <4>1. pc[s] = "finish" => r.state = seen[s] /\ seen[s] \in Terminal
        BY <2>1, <3>2 DEF RunInv, Target
      <4>2. pc[s] # "finish" => r.state # "succeeded" /\ ~r.result
        BY <1>2, <2>1, <2>3, <3>2 DEF RunInv, Write, Target, FailedState, Terminal
      <4>3. QED
        BY <2>1, <4>1, <4>2 DEF RunInv, Truthful
    <3>5. \/ UNCHANGED <<rec.state, rec.result>>
          \/ Abstract!Next /\ rec'.state = r.state /\ rec'.result = r.result
      BY <1>a, <2>5, <3>1, <3>2, <3>3, StoredAdvances
    <3>6. QED
      BY <2>1, <3>4, <3>5 DEF Truthful
  <2>6. QED
    BY <1>b, <2>4, <2>5
<1>3. CASE RecordCancelled
  <2> DEFINE r == To(apiRec, "cancelled")
  <2>1. apiRec \in Record /\ apiRec.state \notin Terminal /\ UNCHANGED verdict
    BY <1>3 DEF Inv, TypeOK, ApiType, ApiInv, RecordCancelled
  <2>2. CanTransition(apiRec.state, "cancelled")
    BY <2>1 DEF Record, State, Terminal, CanTransition, LegalTransitions
  <2>3. r \in Record /\ r.state = "cancelled"
    BY <2>1, <2>2, ToType DEF To, Record, State
  <2> HIDE DEF r
  <2>4. CASE Stored(r, apiRec.state)
    BY <1>a, <2>1, <2>2, <2>3, <2>4, StoredAdvances DEF Truthful, Terminal
  <2>5. QED
    BY <1>3, <1>b, <2>4 DEF RecordCancelled, r
<1>4. CASE LoopResolve
  <2> DEFINE r == To(loopRec, loopSeen)
  <2>1. /\ loopRec \in Record /\ loopRec.state = "lost" /\ loopSeen \in Terminal
        /\ UNCHANGED verdict /\ LoopInv /\ loopPc = "resolve"
    BY <1>4 DEF Inv, TypeOK, LoopType, LoopInv, LoopResolve
  <2>2. CanTransition(loopRec.state, loopSeen)
    BY <2>1 DEF Terminal, CanTransition, LegalTransitions
  <2>3. r \in Record /\ r.state = loopSeen /\ r.result = loopRec.result
    BY <2>1, <2>2, ToType, TerminalType DEF To, Record
  <2>4. Truthful(r)
    BY <2>1, <2>3 DEF LoopInv, Truthful
  <2> HIDE DEF r
  <2>5. CASE Stored(r, "lost")
    BY <1>a, <2>1, <2>2, <2>3, <2>4, <2>5, StoredAdvances DEF Truthful
  <2>6. QED
    BY <1>4, <1>b, <2>5 DEF LoopResolve, r
<1>5. QED
  BY <1>b, <1>1, <1>2, <1>3, <1>4, RecordFrame

\* The stored record stays true to the provider.
LEMMA RecordStep == ASSUME Inv, Next PROVE RecordInv'
<1>1. CASE UNCHANGED <<rec.state, rec.result>>
  BY <1>1, VerdictKept DEF Inv, RecordInv, Truthful
<1>2. CASE Abstract!Next /\ Truthful(rec)'
  <2>1. PICK next : Abstract!Advance(next)
    BY <1>2 DEF Abstract!Next
  <2>2. rec'.state = next /\ (next \notin Terminal => rec'.result = FALSE)
    BY <2>1, SameVocabulary DEF Abstract!Advance
  <2>3. QED
    BY <1>2, <2>2 DEF RecordInv
<1>3. QED
  BY <1>1, <1>2, RecordWritten

\* The release loop's copy of a lost record, and what it was told of its work.
LEMMA LoopStep == ASSUME Inv, Next PROVE LoopInv'
<1>a. LoopInv /\ TypeOK /\ WorkInv /\ RecordInv
  BY DEF Inv
<1>1. CASE UNCHANGED loopVars
  BY <1>a, <1>1, VerdictKept DEF LoopInv, TypeOK, LoopType, Terminal
<1>2. CASE LoopOver
  BY <1>2 DEF LoopOver, LoopInv
<1>3. CASE LoopList
  BY <1>a, <1>3 DEF LoopInv, LoopList, RecordInv, Terminal
<1>4. CASE LoopLost
  <2>1. ASSUME LostAnswered, LostButEnded, loopPc = "lost" PROVE LoopInv'
    BY <1>a, <1>4, <2>1, StatusTrue
    DEF LoopLost, LostAnswered, LostButEnded, LoopInv, WorkInv, TypeOK, LoopType, Terminal
  <2>2. QED
    BY <1>a, <1>2, <1>4, <2>1 DEF LoopInv, LoopLost, LoopGoto
<1>5. CASE LoopLostResult
  BY <1>a, <1>2, <1>5 DEF Loop, LoopInv, LoopLostResult, TypeOK, LoopType, Terminal, Record
<1>6. CASE LoopResolve
  BY <1>2, <1>6 DEF Loop, LoopInv, LoopResolve
<1>7. CASE LoopReserved \/ LoopRelease
  BY <1>a, <1>2, <1>7
  DEF LoopInv, LoopReserved, LoopRelease, LoopGoto, LoopFails, LoopTakenForReleased
<1>8. CASE LoopStatus
  BY <1>a, <1>2, <1>8
  DEF LoopInv, LoopStatus, LoopGoto, LoopFails, LoopTakenForReleased
<1>9. CASE LoopMark
  BY <1>2, <1>9 DEF Loop, LoopMark
<1>10. QED
  BY <1>1, <1>2, <1>3, <1>4, <1>5, <1>6, <1>7, <1>8, <1>9, LoopFrame DEF Loop

\* The cancel route holds no record that is over (cancelExecution refuses one).
LEMMA ApiStep == ASSUME Inv, Next PROVE ApiInv'
<1>1. CASE UNCHANGED apiVars
  BY <1>1 DEF Inv, ApiInv
<1>2. CASE Cancel
  BY <1>2
  DEF Inv, ApiInv, Cancel, CancelExecution, CancelUnwatched, RecordCancelled, ApiOver
<1>3. QED
  BY <1>1, <1>2, ApiFrame

\* Every step keeps the whole invariant.
LEMMA InvStep == Inv /\ [Next]_vars => Inv'
<1> SUFFICES ASSUME Inv, [Next]_vars PROVE Inv'
  OBVIOUS
<1>1. TypeOK'
  BY TypeStep DEF Inv
<1>2. CASE Next
  BY <1>1, <1>2, ChargedStep, RecordStep, BeginStep, WorkStep, RunStep, LoopStep, ApiStep
  DEF Inv
<1>3. CASE UNCHANGED vars
  <2>1. ChargedOnce' /\ RecordInv' /\ WorkInv' /\ LoopInv' /\ ApiInv'
    BY <1>3 DEF Inv, ChargedOnce, RecordInv, Truthful, WorkInv, LoopInv, ApiInv
  <2>2. BeginInv'
    BY <1>3 DEF Inv, BeginInv
  <2>3. ASSUME NEW s \in Server PROVE RunInv(s)'
    BY <1>3 DEF Inv, RunInv
  <2>4. QED
    BY <1>1, <2>1, <2>2, <2>3 DEF Inv
<1>4. QED
  BY <1>2, <1>3

\* Every copy from which the record may yet be written stays fit to be written,
\* at every point of every run, loop and cancel, through any number of faults.
THEOREM Invariant == Spec => []Inv
BY InvInit, InvStep, PTL DEF Spec

-----------------------------------------------------------------------------
\* What follows from it.

\* However many servers take a run over, and whether it, they or the reaper
\* settle first, its cost is added to the quota once (Ledger.Settle, Ledger.Reap).
THEOREM ChargedOnceAlways == Spec => []ChargedOnce
<1>1. Inv => ChargedOnce
  BY DEF Inv
<1>2. QED
  BY <1>1, Invariant, PTL

\* What the stored record says the task did is what the provider saw it do,
\* whichever of the run, a takeover and the release loop wrote it (tracked.finish,
\* resolveLost, Store.Update).
THEOREM VerdictRecordedAlways == Spec => []VerdictRecorded
<1>1. Inv => VerdictRecorded
  BY DEF Inv, RecordInv, Truthful, VerdictRecorded
<1>2. QED
  BY <1>1, Invariant, PTL

\* The stored record implements its abstract specification: it moves only along
\* the state machine, and once over it never changes again, through every race
\* between the writers the conditional Update lets in (Store.Update, Status.To).
THEOREM RecordImplements == Spec => RecordImplemented
<1>1. Init => Abstract!Init
  BY DEF Init, Pending, Abstract!Init
<1>2. Inv /\ [Next]_vars => [Abstract!Next]_<<rec.state, rec.result>>
  BY RecordWritten
<1>3. QED
  BY <1>1, <1>2, Invariant, PTL DEF Spec, RecordImplemented, Abstract!Spec
=============================================================================
