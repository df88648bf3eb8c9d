--------------------------- MODULE LeftoverProofs ---------------------------
(***************************************************************************)
(* What is proved of Lifecycle for any servers, platforms and number of    *)
(* faults: work is not dropped from the quota for nothing, and what is     *)
(* marked released is over, unless who dropped or marked it went by the    *)
(* answer "unknown" of a provider that had the work or was about to.  Both *)
(* rest on one run submitting, once: when nobody is on the way to it and   *)
(* the provider has nothing, it never will.                                *)
(***************************************************************************)
EXTENDS LifecycleProofs

USE DEF vars, config, storeVars, ledgerVars, providerVars, runVars, loopVars, apiVars

-----------------------------------------------------------------------------
\* Who changes what.

\* Nothing comes back to where it has yet to submit.
LEMMA BeginningFrame ==
    ASSUME Inv, Next, NEW s \in Server, pc'[s] \in Beginning
    PROVE  /\ pc[s] \in Beginning
           /\ pc'[s] \in {"reserve", "create"} => pc[s] \in {"reserve", "create"} /\ ~Create(s)
           /\ ~Submit(s) /\ ~CutShort(s)
<1> USE DEF Beginning
<1>1. ~CutShort(s)
  BY DEF Inv, TypeOK, RunType, CutShort, Crash, Over
<1>2. CASE UNCHANGED <<pc[s], mem[s], seen[s], answered[s]>> /\ ~Run(s)
  BY <1>1, <1>2 DEF Run
<1>3. CASE Run(s)
  <2>1. /\ pc[s] \in Beginning
        /\ pc'[s] \in {"reserve", "create"} => pc[s] \in {"reserve", "create"} /\ ~Create(s)
        /\ ~Submit(s)
    BY <1>3
    DEF Inv, TypeOK, RunType, Run, Reserve, Create, Pause, Submit, Write, AfterWrite, Poll,
        Result, Abandon, Release, MarkReleased, Charge, End, List, ResumeStatus, Goto, Over
  <2>2. QED
    BY <1>1, <2>1
<1>4. CASE Crash(s) \/ Claim(s)
  BY <1>1, <1>4 DEF Inv, TypeOK, RunType, Crash, Claim, Goto, Over
<1>5. QED
  BY <1>2, <1>3, <1>4, RunFrame DEF Inv

\* Until the one run that is to submit has submitted, no run does.
LEMMA OneBegins ==
    ASSUME Inv, Next, NEW s \in Server, pc'[s] \in Beginning, NEW t \in Server
    PROVE  ~Submit(t) /\ ~CutShort(t)
BY BeginningFrame DEF Inv, BeginInv, Beginning, Submit, CutShort

\* Everything known of the work changes by what is asked of the provider, or by
\* the platform.
LEMMA WorkFrame ==
    ASSUME Next
    PROVE  \/ UNCHANGED <<work, ran, verdict, forgotBy>>
           \/ \E s \in Server : Submit(s) \/ Abandon(s) \/ Release(s) \/ CutShort(s)
           \/ CancelUnwatched \/ LoopRelease \/ Provider
<1>1. ASSUME NEW s \in Server, Run(s)
      PROVE  UNCHANGED providerVars \/ Submit(s) \/ Abandon(s) \/ Release(s)
  BY <1>1
  DEF Run, Reserve, Create, Pause, Write, Poll, Result, MarkReleased, Charge,
      End, List, ResumeStatus
<1>2. CASE Loop
  BY <1>2
  DEF Loop, LoopList, LoopLost, LoopLostResult, LoopResolve, LoopReserved, LoopStatus,
      LoopMark, LoopFails, LoopTakenForReleased
<1>3. CASE \E s \in Server : Crash(s) \/ Claim(s)
  BY <1>3 DEF Crash, Claim, CutShort
<1>4. CASE Cancel \/ (\E s \in Server : Reap(s)) \/ Time \/ Deconfigure
  BY <1>4
  DEF Cancel, CancelExecution, RecordCancelled, Reap, Time, Age, Expire, GrowStale,
      Deconfigure
<1>5. QED
  BY <1>1, <1>2, <1>3, <1>4 DEF Next

\* Who once went by a wrong answer stays known.
LEMMA MisledFrame == ASSUME Next PROVE misled \subseteq misled'
<1>1. ASSUME NEW s \in Server, Run(s) PROVE misled \subseteq misled'
  BY <1>1
  DEF Run, Reserve, Create, Pause, Submit, Write, Poll, Result, Abandon, ProviderCancel,
      Release, Believes, MarkReleased, Charge, End, List, ResumeStatus
<1>2. CASE Loop
  BY <1>2
  DEF Loop, LoopList, LoopLost, LoopLostResult, LoopResolve, LoopReserved, LoopStatus,
      LoopRelease, LoopMark, LoopFails, LoopTakenForReleased, Believes
<1>3. CASE \E s \in Server : Crash(s) \/ Claim(s) \/ Reap(s)
  BY <1>3 DEF Crash, Claim, Reap, Believes
<1>4. CASE Cancel \/ Provider \/ Time \/ Deconfigure
  BY <1>4
  DEF Cancel, CancelExecution, CancelUnwatched, ProviderCancel, RecordCancelled, Provider,
      Time, Age, Expire, GrowStale, Deconfigure
<1>5. QED
  BY <1>1, <1>2, <1>3, <1>4 DEF Next

\* The row appears by its creation, and only so; and the provider and its
\* platform stay what they are, but for a provider that is deconfigured.
LEMMA CreatedFrame ==
    ASSUME Next
    PROVE  /\ UNCHANGED created \/ (created' /\ \E s \in Server : Create(s))
           /\ UNCHANGED platform
           /\ configured' => configured
<1>1. ASSUME NEW s \in Server, Run(s)
      PROVE  UNCHANGED config /\ (UNCHANGED created \/ (created' /\ Create(s)))
  <2>1. CASE Create(s)
    BY <2>1 DEF Create
  <2>2. CASE Write(s)
    BY <2>2 DEF Write, Stored
  <2>3. CASE ~Create(s) /\ ~Write(s)
    BY <1>1, <2>3
    DEF Run, Reserve, Pause, Submit, Poll, Result, Abandon, Release, MarkReleased,
        Charge, End, List, ResumeStatus
  <2>4. QED
    BY <2>1, <2>2, <2>3
<1>2. CASE Loop
  <2>1. UNCHANGED config
    BY <1>2
    DEF Loop, LoopList, LoopLost, LoopLostResult, LoopResolve, LoopReserved, LoopStatus,
        LoopRelease, LoopMark, LoopUnchanged
  <2>2. ASSUME LoopResolve PROVE UNCHANGED created
    BY <2>2 DEF LoopResolve, Stored
  <2>3. ASSUME LoopLost \/ LoopLostResult \/ LoopReserved PROVE UNCHANGED created
    BY <2>3 DEF LoopLost, LoopLostResult, LoopReserved, LoopFails
  <2>4. ASSUME LoopList \/ LoopStatus \/ LoopRelease \/ LoopMark PROVE UNCHANGED created
    BY <2>4 DEF LoopList, LoopStatus, LoopRelease, LoopMark, LoopFails, LoopTakenForReleased
  <2>5. UNCHANGED created
    BY <1>2, <2>2, <2>3, <2>4 DEF Loop
  <2>6. QED
    BY <2>1, <2>5
<1>3. CASE \E s \in Server : Crash(s) \/ Claim(s)
  BY <1>3 DEF Crash, Claim
<1>4. CASE Cancel \/ (\E s \in Server : Reap(s)) \/ Provider \/ Time \/ Deconfigure
  BY <1>4
  DEF Cancel, CancelExecution, CancelUnwatched, RecordCancelled, Stored, Reap, Provider,
      Time, Age, Expire, GrowStale, Deconfigure
<1>5. QED
  BY <1>1, <1>2, <1>3, <1>4 DEF Next

-----------------------------------------------------------------------------
\* The reaper.  It drops a reservation of work that the provider does not know;
\* the invariant says when the provider does not know work that ran.

\* Nobody is on the way to submitting.
Begun == \A s \in Server : pc[s] \notin Beginning

BeginsUnran == ran => Begun

\* The loop looks at what was created only, and past its look at the reservation
\* nothing is held any more.
LoopAfterCharge ==
    /\ \A s \in Server : pc[s] \in {"reserve", "create"} => ~created
    /\ loopPc # "idle" => created
    /\ loopPc \in {"status", "release"} => reservation # "held"

DroppedUnknown ==
    /\ reservation = "dropped" /\ "reaper" \notin misled =>
          work = "absent" /\ ~Synchronous /\ Begun
    /\ ran /\ work = "absent" /\ ~Synchronous /\ reservation \in {"held", "dropped"} =>
          forgotBy \in {"run", "cancel"} \/ "reaper" \in misled

ReaperInv == BeginsUnran /\ LoopAfterCharge /\ DroppedUnknown

\* A dispatch begins in it.
LEMMA ReaperInit == Init => ReaperInv
BY DEF Init, ReaperInv, BeginsUnran, LoopAfterCharge, DroppedUnknown, Beginning

\* Once everybody has begun, everybody has.
LEMMA BegunStays == ASSUME Inv, Next, Begun PROVE Begun'
BY BeginningFrame DEF Begun

\* A reservation that stands, and nobody waiting: the one run has submitted.
LEMMA HeldBegun ==
    ASSUME Inv, reservation = "held", ~Waiting
    PROVE  Begun
BY DEF Inv, BeginInv, Waiting, Begun, Beginning

\* Nothing runs before it is submitted.
LEMMA BeginsUnranStep ==
    ASSUME Inv, Next, ReaperInv
    PROVE  BeginsUnran'
<1> SUFFICES ASSUME NEW s \in Server, pc'[s] \in Beginning PROVE ~ran'
  BY DEF BeginsUnran, Begun
<1>1. pc[s] \in Beginning /\ ~ran /\ work = "absent"
  BY BeginningFrame DEF ReaperInv, BeginsUnran, Begun, Inv, BeginInv
<1>2. ASSUME NEW t \in Server PROVE ~Submit(t) /\ ~CutShort(t)
  BY OneBegins
<1>3. QED
  BY <1>1, <1>2, WorkFrame
  DEF Abandon, Release, CancelUnwatched, ProviderCancel, LoopRelease, LoopFails,
      LoopTakenForReleased, Forget, Provider, Start, Finish, Live

\* Once its row is there a reservation has been made, and none is made again.
LEMMA LoopAfterChargeStep ==
    ASSUME Inv, Next, ReaperInv
    PROVE  LoopAfterCharge'
<1>1. ASSUME NEW s \in Server, pc'[s] \in {"reserve", "create"} PROVE ~created'
  <2>1. pc[s] \in {"reserve", "create"} /\ ~Create(s)
    BY <1>1, BeginningFrame DEF Beginning
  <2>2. ASSUME NEW t \in Server PROVE ~Create(t)
    BY <2>1 DEF Inv, BeginInv, Beginning, Create
  <2>3. ~created
    BY <2>1 DEF ReaperInv, LoopAfterCharge
  <2>4. QED
    BY <2>2, <2>3, CreatedFrame
<1>2. loopPc' # "idle" => created'
  <2>1. created => created'
    BY CreatedFrame
  <2>2. loopPc' # "idle" => created
    <3>1. CASE UNCHANGED loopVars
      BY <3>1 DEF ReaperInv, LoopAfterCharge
    <3>2. CASE Loop
      BY <3>2
      DEF ReaperInv, LoopAfterCharge, Loop, LoopList, LoopLost, LoopLostResult, LoopResolve,
          LoopReserved, LoopStatus, LoopRelease, LoopMark
    <3>3. QED
      BY <3>1, <3>2, LoopFrame DEF LoopOver
  <2>3. QED
    BY <2>1, <2>2
<1>3. ASSUME loopPc' \in {"status", "release"} PROVE reservation' # "held"
  <2>1. CASE UNCHANGED loopVars
    <3>1. reservation # "held" /\ created
      BY <1>3, <2>1 DEF ReaperInv, LoopAfterCharge
    <3>2. ASSUME NEW t \in Server PROVE ~Reserve(t)
      BY <3>1 DEF ReaperInv, LoopAfterCharge, Reserve
    <3>3. QED
      BY <3>1, <3>2, LedgerFrame DEF Charge, Settle, Reap
  <2>2. CASE Loop
    <3>1. UNCHANGED reservation
      BY <2>2
      DEF Loop, LoopList, LoopLost, LoopLostResult, LoopResolve, LoopReserved, LoopStatus,
          LoopRelease, LoopMark, LoopUnchanged
    <3>2. ~LoopList /\ ~LoopLost /\ ~LoopLostResult /\ ~LoopResolve /\ ~LoopMark /\ ~LoopRelease
      BY <1>3
      DEF LoopList, LoopLost, LoopLostResult, LoopResolve, LoopMark, LoopRelease, LoopOver,
          LoopGoto, LoopFails, LoopTakenForReleased, LostAnswered
    <3>3. CASE LoopReserved
      BY <1>3, <3>1, <3>3 DEF LoopReserved, LoopOver, LoopGoto, LoopFails
    <3>4. CASE LoopStatus
      BY <3>1, <3>4 DEF LoopStatus, ReaperInv, LoopAfterCharge
    <3>5. QED
      BY <2>2, <3>2, <3>3, <3>4 DEF Loop
  <2>3. QED
    BY <1>3, <2>1, <2>2, LoopFrame DEF LoopOver
<1>4. QED
  BY <1>1, <1>2, <1>3 DEF LoopAfterCharge

\* Nothing is submitted any more, so what is gone stays gone.
LEMMA AbsentStays == ASSUME Inv, Next, Begun, work = "absent" PROVE work' = "absent"
<1>1. ASSUME NEW s \in Server PROVE ~Submit(s) /\ ~CutShort(s)
  BY DEF Begun, Beginning, Submit, CutShort
<1>2. QED
  BY <1>1, WorkFrame
  DEF Abandon, Release, CancelUnwatched, ProviderCancel, Cancelled, LoopRelease,
      LoopFails, LoopTakenForReleased, Forget, Provider, Start, Finish, Live

\* Who drops a reservation has been told there is nothing, and there is nothing
\* and never will be, or it is known to have been misled.
LEMMA DroppedStays ==
    ASSUME Inv, Next, ReaperInv, reservation' = "dropped", "reaper" \notin misled'
    PROVE  work' = "absent" /\ ~Synchronous /\ Begun'
<1>1. "reaper" \notin misled
  BY MisledFrame
<1>2. CASE UNCHANGED reservation
  BY <1>1, <1>2, BegunStays, AbsentStays DEF ReaperInv, DroppedUnknown
<1>3. ASSUME NEW s \in Server, Reserve(s) \/ Charge(s) PROVE UNCHANGED reservation
  BY <1>3 DEF Reserve, Charge, Settle
<1>4. ASSUME NEW s \in Server, Reap(s)
      PROVE  work' = "absent" /\ ~Synchronous /\ Begun'
  <2>1. reservation = "held" /\ Believes("reaper") /\ UNCHANGED <<work, runVars>>
    BY <1>4 DEF Reap
  <2>2. work = "absent" /\ ~Waiting
    BY <2>1 DEF Believes
  <2>3. ~Synchronous
    BY <1>4 DEF Reap, StatusOn, Unknowable, Blind, Synchronous, FinishesInSubmit
  <2>4. Begun
    BY <2>1, <2>2, HeldBegun
  <2>5. QED
    BY <2>1, <2>2, <2>3, <2>4 DEF Begun
<1>5. QED
  BY <1>2, <1>3, <1>4, LedgerFrame

\* Work that ran and is unknown while its reservation stands was forgotten by a
\* run or a cancel, since the loop forgets nothing that is still reserved.
ForgottenFor ==
    ran /\ work = "absent" /\ ~Synchronous /\ reservation \in {"held", "dropped"} =>
        forgotBy \in {"run", "cancel"} \/ "reaper" \in misled

\* No step makes the provider forget it for another reason.
LEMMA ForgottenForStep ==
    ASSUME Inv, Next, ReaperInv
    PROVE  ForgottenFor'
<1> USE DEF Synchronous, FinishesInSubmit
<1>0. ForgottenFor /\ UNCHANGED platform /\ misled \subseteq misled'
  BY CreatedFrame, MisledFrame DEF ReaperInv, DroppedUnknown, ForgottenFor
<1>1. CASE \E s \in Server : Submit(s) \/ CutShort(s)
  <2>1. PICK s \in Server : Submit(s) \/ CutShort(s)
    BY <1>1
  <2>2. work = "absent" /\ ~ran
    BY <2>1 DEF Submit, CutShort, Inv, BeginInv, Beginning, ReaperInv, BeginsUnran, Begun
  <2>3. ran' /\ work' = "absent" => Synchronous
    BY <2>1, <2>2 DEF Submit, CutShort, Attempted, Live
  <2>4. QED
    BY <1>0, <2>3 DEF ForgottenFor
<1>2. CASE UNCHANGED <<work, ran, verdict, forgotBy>>
  <2>1. CASE UNCHANGED reservation
    BY <1>0, <1>2, <2>1 DEF ForgottenFor
  <2>2. ASSUME NEW s \in Server, Reserve(s) PROVE ForgottenFor'
    <3>1. ~ran
      BY <2>2 DEF Reserve, Beginning, ReaperInv, BeginsUnran, Begun
    <3>2. QED
      BY <1>2, <3>1 DEF ForgottenFor
  <2>3. ASSUME NEW s \in Server, Charge(s) PROVE ForgottenFor'
    BY <1>0, <1>2, <2>3 DEF Charge, Settle, ForgottenFor
  <2>4. ASSUME NEW s \in Server, Reap(s) PROVE ForgottenFor'
    BY <1>0, <1>2, <2>4 DEF Reap, ForgottenFor
  <2>5. QED
    BY <2>1, <2>2, <2>3, <2>4, LedgerFrame
<1>3. ASSUME UNCHANGED reservation, ProviderCancel PROVE ForgottenFor'
  BY <1>0, <1>3 DEF ProviderCancel, Cancelled, CancelDeletes, ForgottenFor
<1>4. ASSUME NEW s \in Server, Abandon(s) PROVE ForgottenFor'
  BY <1>2, <1>3, <1>4 DEF Abandon
<1>5. CASE CancelUnwatched
  BY <1>2, <1>3, <1>5 DEF CancelUnwatched
<1>6. ASSUME NEW s \in Server, Release(s) PROVE ForgottenFor'
  BY <1>0, <1>2, <1>6 DEF Release, Forget, ForgottenFor
<1>7. CASE LoopRelease
  <2>1. reservation # "held" /\ UNCHANGED reservation
    BY <1>7 DEF LoopRelease, LoopUnchanged, ReaperInv, LoopAfterCharge
  <2>2. reservation = "dropped" => work = "absent" \/ "reaper" \in misled
    BY DEF ReaperInv, DroppedUnknown
  <2>3. UNCHANGED ran
    BY <1>7 DEF LoopRelease, LoopFails, LoopTakenForReleased, Forget
  <2>4. work = "absent" => UNCHANGED forgotBy
    BY <1>7 DEF LoopRelease, LoopFails, LoopTakenForReleased, Forget
  <2>5. QED
    BY <1>0, <2>1, <2>2, <2>3, <2>4 DEF ForgottenFor
<1>8. CASE Provider
  BY <1>0, <1>8 DEF Provider, Start, Finish, Live, Terminal, ForgottenFor
<1>9. QED
  BY <1>1, <1>2, <1>4, <1>5, <1>6, <1>7, <1>8, WorkFrame

\* Every step keeps the invariant of the reaper.
LEMMA ReaperStep == Inv /\ ReaperInv /\ [Next]_vars => ReaperInv'
<1>1. ASSUME Inv, ReaperInv, Next PROVE DroppedUnknown'
  <2>1. UNCHANGED platform
    BY <1>1, CreatedFrame
  <2>2. ForgottenFor'
    BY <1>1, ForgottenForStep
  <2>3. reservation' = "dropped" /\ "reaper" \notin misled' =>
            work' = "absent" /\ ~Synchronous /\ Begun'
    BY <1>1, DroppedStays
  <2>4. QED
    BY <2>1, <2>2, <2>3 DEF DroppedUnknown, ForgottenFor, Synchronous
<1>2. ASSUME Inv, ReaperInv, Next PROVE ReaperInv'
  BY <1>1, <1>2, BeginsUnranStep, LoopAfterChargeStep DEF ReaperInv
<1>3. ASSUME ReaperInv, UNCHANGED vars PROVE ReaperInv'
  BY <1>3 DEF ReaperInv, BeginsUnran, Begun, LoopAfterCharge, DroppedUnknown, Synchronous
<1>4. QED
  BY <1>2, <1>3

\* Work that ran goes uncharged only if a run or a cancel made the provider
\* forget it (poll.go:210), or a reaper was told that it is unknown by a pool
\* that had it out of sight, or ahead of its submission.
THEOREM UnchargedOnlyIfForgottenAlways == Spec => []UnchargedOnlyIfForgotten
<1>1. ReaperInv => UnchargedOnlyIfForgotten
  BY DEF ReaperInv, DroppedUnknown, UnchargedOnlyIfForgotten
<1>2. QED
  BY <1>1, ReaperInit, ReaperStep, Invariant, PTL DEF Spec

-----------------------------------------------------------------------------
\* The release loop.  Nothing is known to be over before it is submitted, so what
\* is deleted stays so; what is unknown only may be wrong.

\* A result, in the store or in a copy, is of work that was submitted.
ResultsBegun ==
    \/ rec.result \/ loopRec.result \/ apiRec.result \/ loopPc = "release"
    \/ \E s \in Server : mem[s].result
    => Begun

\* What ended has a verdict, and a run that releases has an answer.
AnswerKnown ==
    /\ work \in Terminal => verdict # "none"
    /\ \A s \in Server : answered[s] => verdict # "none"
    /\ \A s \in Server : pc[s] \in {"release", "mark"} => answered[s]

Misled == misled \cap {"run", "loop"} # {}
Gone == (work = "absent" /\ Begun) \/ ~configured \/ ~Releases \/ Misled

MarkedGone ==
    /\ \A s \in Server : pc[s] = "mark" => Gone
    /\ loopPc = "mark" => Gone
    /\ rec.released => Gone

ReleaseInv == ResultsBegun /\ AnswerKnown /\ MarkedGone

\* A dispatch begins in it.
LEMMA ReleaseInit == Init => ReleaseInv
BY DEF Init, ReleaseInv, ResultsBegun, AnswerKnown, MarkedGone, Pending, Terminal

\* An Update keeps the mark as stored, so it is set by who writes it only.
LEMMA ReleasedFrame ==
    ASSUME Inv, Next, rec'.released
    PROVE  rec.released \/ (\E s \in Server : MarkReleased(s)) \/ LoopMark
<1>1. rec \in Record /\ (\A s \in Server : mem[s] \in Record)
      /\ loopRec \in Record /\ apiRec \in Record
  BY DEF Inv, TypeOK, StoreType, RunType, LoopType, ApiType
<1>2. ASSUME NEW r \in Record, NEW from, Stored(r, from) PROVE rec'.released = rec.released
  BY <1>1, <1>2 DEF Stored, Update, Record
<1>3. ASSUME NEW s \in Server, Write(s) PROVE rec.released
  <2>1. UNCHANGED rec \/ \E r \in Record, from \in State : Stored(r, from)
    <3>1. mem'[s] \in Record /\ mem[s].state \in State
      BY <1>1, TypeStep DEF Inv, TypeOK, RunType, Record
    <3>2. mem'[s] = To(IF pc[s] = "finish" THEN [mem[s] EXCEPT !.result = answered[s]]
                       ELSE mem[s], Target(s))
      BY <1>3 DEF Write, Inv, TypeOK, RunType
    <3>3. UNCHANGED rec \/ Stored(mem'[s], mem[s].state)
      BY <1>1, <1>3, <3>2 DEF Write, Record
    <3>4. QED
      BY <3>1, <3>3
  <2>2. QED
    BY <1>2, <2>1
<1>4. CASE RecordCancelled
  BY <1>1, <1>2, <1>4, ToType DEF RecordCancelled, State
<1>5. CASE LoopResolve
  <2>1. loopSeen \in State
    BY TerminalType DEF Inv, TypeOK, LoopType
  <2>2. QED
    BY <1>1, <1>2, <1>5, <2>1, ToType DEF LoopResolve
<1>6. QED
  BY <1>3, <1>4, <1>5, RecordFrame

\* What is gone stays gone.
LEMMA GoneStays == ASSUME Inv, Next, Gone PROVE Gone'
<1>1. (~configured => ~configured') /\ (~Releases => ~Releases') /\ (Misled => Misled')
  BY CreatedFrame, MisledFrame DEF Releases, Misled
<1>2. QED
  BY <1>1, BegunStays, AbsentStays DEF Gone

\* Work that is over, or has been answered, was submitted.
LEMMA EndedBegun ==
    ASSUME Inv
    PROVE  /\ verdict # "none" => Begun
           /\ work # "absent" => Begun
BY DEF Inv, BeginInv, Begun

\* A result comes from the provider, and is copied.
LEMMA ResultsBegunStep ==
    ASSUME Inv, Next, ReleaseInv
    PROVE  ResultsBegun'
<1> SUFFICES ASSUME ~Begun PROVE ~(rec'.result \/ loopRec'.result \/ apiRec'.result
                                   \/ loopPc' = "release" \/ \E s \in Server : mem'[s].result)
  BY BegunStays DEF ResultsBegun
<1>1. /\ ~rec.result /\ ~loopRec.result /\ ~apiRec.result /\ loopPc # "release"
      /\ \A s \in Server : ~mem[s].result
  BY DEF ReleaseInv, ResultsBegun
<1>2. work = "absent" /\ \A s \in Server : ~answered[s]
  BY EndedBegun DEF ReleaseInv, AnswerKnown
<1>3. /\ rec \in Record /\ (\A s \in Server : mem[s] \in Record)
      /\ loopRec \in Record /\ apiRec \in Record
        /\ mem \in [Server -> Record] /\ answered \in [Server -> BOOLEAN]
  BY DEF Inv, TypeOK, StoreType, RunType, LoopType, ApiType
<1>4. ASSUME NEW s \in Server PROVE ~mem'[s].result
  <2>1. CASE UNCHANGED <<pc[s], mem[s], seen[s], answered[s]>>
    BY <1>1, <2>1
  <2>2. CASE Write(s)
    <3> DEFINE m == IF pc[s] = "finish" THEN [mem[s] EXCEPT !.result = answered[s]] ELSE mem[s]
    <3>1. mem'[s] = To(m, Target(s))
      BY <1>3, <2>2 DEF Write, RunType, m
    <3>2. m \in Record /\ ~m.result
      BY <1>1, <1>2, <1>3 DEF Record, m
    <3>3. QED
      BY <3>1, <3>2 DEF To, Record
  <2>3. CASE Run(s) /\ ~Write(s)
    BY <1>1, <1>3, <2>3
    DEF Run, Reserve, Create, Pause, Submit, Poll, Result, Abandon, Release, MarkReleased,
        Charge, End, List, ResumeStatus, Over, Pending, Record
  <2>4. CASE Crash(s) \/ Claim(s)
    BY <1>1, <1>3, <2>4 DEF Crash, Claim, Over, Pending
  <2>5. QED
    BY <2>1, <2>2, <2>3, <2>4, RunFrame DEF Inv
<1>5. ~apiRec'.result
  BY <1>1, ApiFrame
  DEF Cancel, CancelExecution, CancelUnwatched, RecordCancelled, ApiOver, Pending
<1>6. ~loopRec'.result /\ loopPc' # "release"
  <2>1. CASE UNCHANGED loopVars \/ LoopOver
    BY <1>1, <2>1 DEF LoopOver, Pending
  <2>2. CASE LoopResolve
    BY <1>1, <1>3, <2>1, <2>2 DEF LoopResolve, To, Record
  <2>3. CASE LoopLostResult
    BY <1>1, <1>2, <2>1, <2>3, StatusTrue, TypeStep
    DEF LoopLostResult, StatusOn, Terminal
  <2>4. CASE LoopStatus
    BY <1>1, <1>2, <2>1, <2>4
    DEF LoopStatus, LoopGoto, LoopFails, LoopTakenForReleased, StatusOn, Terminal
  <2>5. CASE LoopList \/ LoopLost \/ LoopReserved \/ LoopRelease \/ LoopMark
    BY <1>1, <2>1, <2>5
    DEF LoopList, LoopLost, LostAnswered, LoopReserved, LoopRelease, LoopMark, LoopGoto,
        LoopFails, LoopTakenForReleased
  <2>6. QED
    BY <2>1, <2>2, <2>3, <2>4, <2>5, LoopFrame DEF Loop
<1>7. ~rec'.result
  <2>1. ASSUME NEW r \in Record, NEW from, Stored(r, from), ~r.result PROVE ~rec'.result
    BY <1>1, <1>3, <2>1 DEF Stored, Update, Record
  <2>2. ASSUME NEW s \in Server, Write(s) PROVE ~rec'.result
    <3>1. UNCHANGED rec \/ \E from \in State : Stored(mem'[s], from)
      BY <1>3, <2>2 DEF Write, Record
    <3>2. mem'[s] \in Record
      BY TypeStep DEF Inv, TypeOK, RunType
    <3>3. QED
      BY <1>1, <1>4, <2>1, <3>1, <3>2
  <2>3. CASE RecordCancelled
    <3>1. To(apiRec, "cancelled") \in Record /\ ~To(apiRec, "cancelled").result
      BY <1>1, <1>3, ToType DEF To, Record, State
    <3>2. QED
      BY <1>1, <2>1, <2>3, <3>1 DEF RecordCancelled
  <2>4. CASE LoopResolve
    <3>1. To(loopRec, loopSeen) \in Record /\ ~To(loopRec, loopSeen).result
      BY <1>1, <1>3, ToType, TerminalType DEF To, Record, Inv, TypeOK, LoopType
    <3>2. QED
      BY <1>1, <2>1, <2>4, <3>1 DEF LoopResolve
  <2>5. CASE LoopMark \/ \E s \in Server : MarkReleased(s)
    BY <1>1, <1>3, <2>5 DEF LoopMark, MarkReleased, Released, Record
  <2>6. QED
    BY <1>1, <2>2, <2>3, <2>4, <2>5, RecordFrame
<1>8. QED
  BY <1>4, <1>5, <1>6, <1>7

\* An answer is given of work that ended.
LEMMA AnswerKnownStep ==
    ASSUME Inv, Next, ReleaseInv
    PROVE  AnswerKnown'
<1>1. work' \in Terminal => verdict' # "none"
  <2>1. CASE UNCHANGED <<work, ran, verdict, forgotBy>>
    BY <2>1 DEF ReleaseInv, AnswerKnown
  <2>2. ASSUME ProviderCancel PROVE work' \in Terminal => verdict' # "none"
    BY <2>2
    DEF ProviderCancel, Cancelled, Terminal, Live, ReleaseInv, AnswerKnown, Inv, TypeOK,
        ProviderType
  <2>3. ASSUME NEW s \in Server, Submit(s) \/ CutShort(s) PROVE work' \notin Terminal
    BY <2>3 DEF Submit, CutShort, Attempted, Inv, BeginInv, Beginning, Live, Terminal
  <2>4. CASE Provider
    BY <2>4 DEF Provider, Start, Finish, Live, Terminal
  <2>5. CASE LoopRelease \/ \E s \in Server : Release(s)
    BY <2>1, <2>5 DEF LoopRelease, LoopFails, LoopTakenForReleased, Release, Forget, Terminal
  <2>6. CASE CancelUnwatched \/ \E s \in Server : Abandon(s)
    BY <2>1, <2>2, <2>6 DEF CancelUnwatched, Abandon
  <2>7. QED
    BY <2>1, <2>3, <2>4, <2>5, <2>6, WorkFrame
<1>2. ASSUME NEW s \in Server, answered'[s] PROVE verdict' # "none"
  <2>1. CASE answered[s]
    BY <2>1, VerdictKept DEF ReleaseInv, AnswerKnown
  <2>2. CASE ~answered[s]
    <3>1. Submit(s) \/ Result(s)
      BY <1>2, <2>2, RunFrame
      DEF Inv, TypeOK, RunType, Run, Reserve, Create, Pause, Write, Poll, Abandon, Release,
          MarkReleased, Charge, End, List, ResumeStatus, Over, Crash, Claim
    <3>2. CASE Submit(s)
      BY <1>2, <2>2, <3>2 DEF Submit, Terminal, Inv, TypeOK, RunType
    <3>3. CASE Result(s)
      BY <1>2, <2>2, <3>3, StatusTrue DEF Result, ReleaseInv, AnswerKnown, Inv, TypeOK, RunType
    <3>4. QED
      BY <3>1, <3>2, <3>3
  <2>3. QED
    BY <2>1, <2>2
<1>3. ASSUME NEW s \in Server, pc'[s] \in {"release", "mark"} PROVE answered'[s]
  <2>1. CASE UNCHANGED <<pc[s], mem[s], seen[s], answered[s]>>
    BY <1>3, <2>1 DEF ReleaseInv, AnswerKnown
  <2>2. CASE Run(s)
    <3>1. Write(s) \/ Release(s)
      BY <1>3, <2>2
      DEF Inv, TypeOK, RunType, Run, Reserve, Create, Pause, Submit, Poll, Result, Abandon,
          MarkReleased, Charge, End, List, ResumeStatus, Goto, Over
    <3>2. CASE Write(s)
      BY <1>3, <3>2 DEF Write, AfterWrite, Goto, Inv, TypeOK, RunType
    <3>3. CASE Release(s)
      BY <3>3 DEF Release, ReleaseInv, AnswerKnown
    <3>4. QED
      BY <3>1, <3>2, <3>3
  <2>3. CASE Crash(s) \/ Claim(s)
    BY <1>3, <2>3 DEF Inv, TypeOK, RunType, Crash, Claim, Goto, Over
  <2>4. QED
    BY <2>1, <2>2, <2>3, RunFrame DEF Inv
<1>4. QED
  BY <1>1, <1>2, <1>3 DEF AnswerKnown

\* Who goes by the answer "unknown" finds nothing there, for good, or is misled.
LEMMA BelievedGone ==
    ASSUME Inv, ReaperInv, NEW who \in {"run", "loop"}, Believes(who), created,
           UNCHANGED <<work, runVars>>
    PROVE  Gone'
<1>1. CASE work = "absent" /\ ~Waiting
  BY <1>1 DEF Gone, Begun, Beginning, Waiting, ReaperInv, LoopAfterCharge
<1>2. CASE ~(work = "absent" /\ ~Waiting)
  BY <1>2 DEF Believes, Gone, Misled
<1>3. QED
  BY <1>1, <1>2

\* Who marks has released, or found nothing to release.
LEMMA MarkedGoneStep ==
    ASSUME Inv, Next, ReaperInv, ReleaseInv
    PROVE  MarkedGone'
<1>1. UNCHANGED platform
  BY CreatedFrame
<1>2. ASSUME NEW s \in Server, pc'[s] = "mark" PROVE Gone'
  <2>1. CASE pc[s] = "mark"
    BY <2>1, GoneStays DEF ReleaseInv, MarkedGone
  <2>2. CASE pc[s] # "mark"
    <3>1. Release(s)
      BY <1>2, <2>2, RunFrame
      DEF Inv, TypeOK, RunType, Run, Reserve, Create, Pause, Submit, Write, AfterWrite, Poll,
          Result, Abandon, MarkReleased, Charge, End, List, ResumeStatus, Goto, Over, Crash,
          Claim
    <3>2. Begun'
      BY <3>1, EndedBegun, BegunStays DEF Release, ReleaseInv, AnswerKnown
    <3>3. \/ ~Releases \/ work' = "absent"
          \/ Believes("run") /\ UNCHANGED work
      BY <1>2, <3>1 DEF Release, Forget, Goto, Inv, TypeOK, RunType
    <3>4. QED
      BY <1>1, <3>2, <3>3 DEF Gone, Releases, Believes, Misled
  <2>3. QED
    BY <2>1, <2>2
<1>3. ASSUME loopPc' = "mark" PROVE Gone'
  <2>1. CASE UNCHANGED loopVars \/ LoopOver
    BY <1>3, <2>1, GoneStays DEF ReleaseInv, MarkedGone, LoopOver
  <2>2. CASE Loop /\ ~LoopOver
    <3>1. LoopReserved \/ LoopStatus \/ LoopRelease
      BY <1>3, <2>2
      DEF Loop, LoopList, LoopLost, LostAnswered, LoopLostResult, LoopResolve, LoopMark,
          LoopGoto
    <3>2. CASE LoopReserved
      BY <1>1, <1>3, <2>2, <3>2
      DEF LoopReserved, LoopGoto, LoopFails, LoopUnchanged, Gone, Releases
    <3>3. CASE LoopTakenForReleased /\ (LoopStatus \/ LoopRelease)
      <4>1. created /\ Believes("loop") /\ UNCHANGED <<work, runVars>>
        BY <3>3
        DEF LoopTakenForReleased, LoopStatus, LoopRelease, LoopUnchanged, ReaperInv,
            LoopAfterCharge
      <4>2. QED
        BY <4>1, BelievedGone
    <3>4. CASE LoopStatus /\ ~LoopTakenForReleased
      BY <1>3, <2>2, <3>4 DEF LoopStatus, LoopGoto, LoopFails
    <3>5. CASE LoopRelease /\ ~LoopTakenForReleased
      <4>1. work' = "absent"
        BY <1>3, <2>2, <3>5 DEF LoopRelease, LoopFails, Forget
      <4>2. Begun'
        BY <3>5, BegunStays DEF LoopRelease, ReleaseInv, ResultsBegun
      <4>3. QED
        BY <4>1, <4>2 DEF Gone
    <3>6. QED
      BY <3>1, <3>2, <3>3, <3>4, <3>5
  <2>3. QED
    BY <2>1, <2>2, LoopFrame
<1>4. ASSUME rec'.released PROVE Gone'
  <2>1. CASE rec.released
    BY <2>1, GoneStays DEF ReleaseInv, MarkedGone
  <2>2. ASSUME NEW s \in Server, MarkReleased(s) PROVE Gone'
    BY <2>2, GoneStays DEF MarkReleased, ReleaseInv, MarkedGone
  <2>3. CASE LoopMark
    BY <2>3, GoneStays DEF LoopMark, ReleaseInv, MarkedGone
  <2>4. QED
    BY <1>4, <2>1, <2>2, <2>3, ReleasedFrame
<1>5. QED
  BY <1>2, <1>3, <1>4 DEF MarkedGone

\* Every step keeps the invariant of the release loop.
LEMMA ReleaseStep == Inv /\ ReaperInv /\ ReleaseInv /\ [Next]_vars => ReleaseInv'
<1>1. ASSUME Inv, ReaperInv, ReleaseInv, Next PROVE ReleaseInv'
  BY <1>1, ResultsBegunStep, AnswerKnownStep, MarkedGoneStep DEF ReleaseInv
<1>2. ASSUME ReleaseInv, UNCHANGED vars PROVE ReleaseInv'
  BY <1>2 DEF ReleaseInv, ResultsBegun, Begun, AnswerKnown, MarkedGone, Gone, Misled, Releases
<1>3. QED
  BY <1>1, <1>2

\* What is marked released is over at a provider that leaves something behind
\* (releaseLeftover, Dispatcher.release), unless who marked it was told that it is
\* unknown by a pool that had it out of sight, or ahead of its submission.
THEOREM ReleasedIsOverAlways == Spec => []ReleasedIsOver
<1>1. ReleaseInv => ReleasedIsOver
  BY DEF ReleaseInv, MarkedGone, Gone, Misled, ReleasedIsOver, Live
<1>2. QED
  BY <1>1, ReaperInit, ReaperStep, ReleaseInit, ReleaseStep, Invariant, PTL DEF Spec
=============================================================================
