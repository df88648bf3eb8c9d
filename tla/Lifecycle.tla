------------------------------ MODULE Lifecycle ------------------------------
(***************************************************************************)
(* One execution from its quota reservation to the last thing anything in  *)
(* the system does about it: the run that submits and follows it, the      *)
(* servers that take that run over, the cancel route, the reservation      *)
(* reaper and the release loop (internal/dispatch, internal/server).       *)
(*                                                                         *)
(* Every step is one call to the store, the ledger or the provider, which  *)
(* are the only points at which these activities see each other; a crash   *)
(* may fall between any two of them.  The store, the ledger rows and the   *)
(* provider survive crashes; a run's own copy of the record does not.      *)
(*                                                                         *)
(* Time is not counted.  `aged' says the record has gone unchanged for     *)
(* longer than ReleaseAfter, `expired' that it has been lost for longer    *)
(* than LostGracePeriod, `stale' that the reservation is older than        *)
(* StaleAfter; each may become true at any moment after what starts it.    *)
(*                                                                         *)
(* The agents of a pool dial one server, here `home', the one the dispatch *)
(* began on; every other server asks a pool none of whose nodes has the    *)
(* execution, and is told that it is unknown.                              *)
(***************************************************************************)
EXTENDS Execution, Plugins, Integers

CONSTANTS
    Server,      \* the server processes sharing the store
    Platforms,   \* the platforms considered, a subset of Platform
    Pooled,      \* whether the provider has quota pools: a subset of BOOLEAN
    MaxFaults    \* bound: crashes, failed calls, late leases and cancellations

ASSUME ServerAssumption == Server # {}
ASSUME PlatformsAssumption == Platforms \subseteq Platform
ASSUME PooledAssumption == Pooled \subseteq BOOLEAN
ASSUME MaxFaultsAssumption == MaxFaults \in Nat

VARIABLES
    platform,     \* what the provider runs on, fixed by the configuration
    pools,        \* it has quota pools, so it is reserved against
    configured,   \* the provider is in the servers' configuration
    home,         \* the server whose nodes a pool's work of this dispatch is on
    faults,       \* how many of MaxFaults have happened
    \* the store
    open, owner,  \* the dispatch row: still running, and for whom
    created,      \* the execution's row exists
    rec,          \* the execution's row, once it exists
    aged, expired,
    \* the ledger
    reservation,  \* "none", "held", then "settled" or "dropped"
    stale,
    charges,      \* history: how many times a cost was added
    \* the provider (external)
    work,         \* what it holds for the execution; "absent" is unknown to it
    ran,          \* history: the work started
    verdict,      \* history: how the work ended, "none" before that
    forgotBy,     \* history: what made the provider forget it
    placed,       \* a pool's plugin at home remembers the node it sent it to
    misled,       \* history: who acted on its being unknown, while the provider
                  \*   had it or was about to
    \* the runs, one per server at most
    pc, mem, seen, cancelled, answered,
    \* the release loop and the cancel route
    loopPc, loopAt, loopRec, loopSeen,
    apiPc, apiRec

config       == <<platform, pools, configured, home>>
storeVars    == <<open, owner, created, rec, aged, expired>>
ledgerVars   == <<reservation, stale, charges>>
providerVars == <<work, ran, verdict, forgotBy, placed, misled>>
runVars      == <<pc, mem, seen, cancelled, answered>>
loopVars     == <<loopPc, loopAt, loopRec, loopSeen>>
apiVars      == <<apiPc, apiRec>>
vars == <<config, faults, storeVars, ledgerVars, providerVars,
          runVars, loopVars, apiVars>>

RunPc == {"idle", "reserve", "create", "wait", "submit", "submitted", "record",
          "poll", "result", "finish", "failed", "abandon", "abandoned",
          "release", "mark", "charge", "end", "list", "status", "adopt"}
LoopPc == {"idle", "lost", "lostResult", "resolve", "reserved", "status",
           "release", "mark"}
Live  == {"accepted", "running"}           \* work the provider has not finished

ConfigType   == /\ platform \in Platforms /\ pools \in Pooled
                /\ configured \in BOOLEAN /\ home \in Server
StoreType    == /\ open \in BOOLEAN /\ owner \in Server /\ created \in BOOLEAN
                /\ rec \in Record /\ aged \in BOOLEAN /\ expired \in BOOLEAN
LedgerType   == /\ reservation \in {"none", "held", "settled", "dropped"}
                /\ stale \in BOOLEAN /\ charges \in Nat
ProviderType == /\ work \in {"absent", "stuck"} \cup Live \cup Terminal /\ ran \in BOOLEAN
                /\ verdict \in {"none"} \cup Terminal
                /\ forgotBy \in {"nobody", "run", "loop", "cancel"}
                /\ placed \in BOOLEAN /\ misled \subseteq {"run", "loop", "reaper"}
RunType      == /\ pc \in [Server -> RunPc] /\ mem \in [Server -> Record]
                /\ seen \in [Server -> State] /\ cancelled \in [Server -> BOOLEAN]
                /\ answered \in [Server -> BOOLEAN]
LoopType     == /\ loopPc \in LoopPc /\ loopAt \in Server
                /\ loopRec \in Record /\ loopSeen \in Terminal
ApiType      == apiPc \in {"idle", "cancel", "write"} /\ apiRec \in Record

TypeOK ==
    /\ ConfigType /\ faults \in 0..MaxFaults /\ StoreType /\ LedgerType
    /\ ProviderType /\ RunType /\ LoopType /\ ApiType

Init ==
    /\ platform \in Platforms /\ pools \in Pooled /\ configured = TRUE
    /\ faults = 0
    /\ open = TRUE /\ owner \in Server /\ home = owner
    /\ created = FALSE /\ rec = Pending /\ aged = FALSE /\ expired = FALSE
    /\ reservation = "none" /\ stale = FALSE /\ charges = 0
    /\ work = "absent" /\ ran = FALSE /\ verdict = "none" /\ forgotBy = "nobody"
    /\ placed = FALSE /\ misled = {}
    /\ pc = [s \in Server |-> IF s = owner THEN "reserve" ELSE "idle"]
    /\ mem = [s \in Server |-> Pending] /\ seen = [s \in Server |-> "pending"]
    /\ cancelled = [s \in Server |-> FALSE] /\ answered = [s \in Server |-> FALSE]
    /\ loopPc = "idle" /\ loopAt = home /\ loopRec = Pending /\ loopSeen = "failed"
    /\ apiPc = "idle" /\ apiRec = Pending

-----------------------------------------------------------------------------
\* Helpers

Releases    == LeavesLeftovers(platform)
Synchronous == FinishesInSubmit(platform)

Fault   == faults < MaxFaults /\ faults' = faults + 1
NoFault == faults' = faults

Goto(s, label) == pc' = [pc EXCEPT ![s] = label]

\* The run on s returns: its goroutine and its copy of the record are gone.
Over(s) ==
    /\ pc' = [pc EXCEPT ![s] = "idle"]
    /\ mem' = [mem EXCEPT ![s] = Pending]
    /\ seen' = [seen EXCEPT ![s] = "pending"]
    /\ cancelled' = [cancelled EXCEPT ![s] = FALSE]
    /\ answered' = [answered EXCEPT ![s] = FALSE]

LoopOver ==
    /\ loopPc' = "idle" /\ loopAt' = home /\ loopRec' = Pending /\ loopSeen' = "failed"

ApiOver == apiPc' = "idle" /\ apiRec' = Pending

\* The store applies Update.
Stored(r, from) ==
    /\ rec' = Update(rec, r, from)
    /\ aged' = (aged /\ rec.state # from)      \* a write restarts its age
    /\ expired' = (expired /\ rec.state # from)
    /\ UNCHANGED <<open, owner, created>>

\* MarkReleased is written on its own, whatever the record's state; nothing
\* looks at the age of a released record.
Released ==
    /\ rec' = [rec EXCEPT !.released = TRUE]
    /\ aged' = FALSE /\ expired' = FALSE

\* The provider forgets the execution, if it was holding it.
Forget(who) ==
    /\ work' = "absent" /\ placed' = FALSE
    /\ forgotBy' = IF work = "absent" THEN forgotBy ELSE who
    /\ UNCHANGED <<ran, verdict>>

\* Provider.Cancel.  A start that was cut short before its task was made has
\* nothing to stop.
ProviderCancel ==
    /\ work' = Cancelled(platform, work) \/ (work = "stuck" /\ work' = work)
    /\ verdict' = IF work \in Live \cup {"stuck"} /\ work' # work THEN "cancelled" ELSE verdict
    /\ forgotBy' = IF work # "absent" /\ CancelDeletes(platform) THEN "cancel" ELSE forgotBy
    /\ UNCHANGED <<ran, placed, misled>>

\* The nodes of a pool are connected to another server.
Blind(s) == platform = "pool" /\ s # home

\* What Status answers on s with nothing in its way: a state, or that the
\* execution is unknown.  A provider without a status answers "unsupported".
StatusOn(s) ==
    CASE Synchronous                 -> "unsupported"
      [] ~Synchronous /\ (Blind(s) \/ work = "absent") -> "unknown"
      [] ~Synchronous /\ ~Blind(s) /\ work = "stuck"   -> "accepted"
      [] OTHER                       -> work

\* A pool answers "unknown" of what its nodes have: they are connected to another
\* server, or the one that has it is offline, and is not where this process sent it.
Unknowable(s) ==
    \/ Blind(s) /\ NoFault
    \/ ~Blind(s) /\ platform = "pool" /\ ~placed /\ Fault

\* A pool whose nodes may yet report answers "lost" until it is sure.
Waits(s) == platform = "pool" /\ (Blind(s) \/ ~placed)

\* The submission is still to come, or on its way: the backoff is as long as the
\* operator's cap, and a pool node pulls the image inside the call.
Waiting == \E s \in Server : pc[s] \in {"create", "wait", "submit"}

\* `who' goes by the answer that the execution is unknown.
Believes(who) ==
    misled' = IF work = "absent" /\ ~Waiting THEN misled ELSE misled \cup {who}

-----------------------------------------------------------------------------
\* A run: attempt, prepare, execute

\* Ledger.Reserve.  A provider without pools reserves nothing.
Reserve(s) ==
    /\ pc[s] = "reserve"
    /\ \/ NoFault /\ Goto(s, "create")
          /\ reservation' = IF pools THEN "held" ELSE reservation
       \/ pools /\ Fault /\ Goto(s, "end") /\ UNCHANGED reservation
    /\ UNCHANGED <<config, storeVars, stale, charges, providerVars,
                   mem, seen, cancelled, answered, loopVars, apiVars>>

\* Executions.Create.  Required: an attempt that cannot be recorded stops here.
Create(s) ==
    /\ pc[s] = "create"
    /\ \/ NoFault /\ created' = TRUE /\ Goto(s, "wait")
       \/ Fault /\ Goto(s, "end") /\ UNCHANGED created
    /\ UNCHANGED <<config, open, owner, rec, aged, expired, ledgerVars,
                   providerVars, mem, seen, cancelled, answered, loopVars, apiVars>>

\* The backoff before every submission but a task's first, which does not wait
\* and so does not look at the context either.
Pause(s) ==
    /\ pc[s] = "wait"
    /\ \/ Goto(s, "submit")
       \/ cancelled[s] /\ Goto(s, "end")
    /\ UNCHANGED <<config, faults, storeVars, ledgerVars, providerVars,
                   mem, seen, cancelled, answered, loopVars, apiVars>>

\* What a Submit whose answer never came has begun.  A pool node may have made
\* the container and be stopped before it has started it: Containerd.Submit has
\* no way back from there, and nothing watches what it leaves.
Attempted ==
    \/ UNCHANGED <<work, ran, verdict>>
    \/ ~Synchronous /\ work' = "accepted" /\ UNCHANGED <<ran, verdict>>
    \/ platform = "pool" /\ work' = "stuck" /\ UNCHANGED <<ran, verdict>>
    \/ Synchronous /\ ran' = TRUE /\ verdict' = "succeeded" /\ UNCHANGED work

\* Provider.Submit, and Submission.Validate of what it returned.  A failed call
\* may still have started the work.
Submit(s) ==
    /\ pc[s] = "submit"
    /\ \/ \* accepted, or started at once
          /\ ~Synchronous /\ NoFault
          /\ \E st \in Submittable \cap Live :
                /\ work' = st /\ ran' = (st = "running")
                /\ seen' = [seen EXCEPT ![s] = st]
          /\ placed' = (platform = "pool")
          /\ Goto(s, "submitted")
          /\ UNCHANGED <<verdict, answered, mem>>
       \/ \* ran to its end inside the call, leaving nothing to ask about
          /\ Synchronous /\ NoFault
          /\ \E st \in Submittable \cap Terminal :
                /\ verdict' = st /\ ran' = TRUE
                /\ seen' = [seen EXCEPT ![s] = st]
          /\ answered' = [answered EXCEPT ![s] = TRUE]
          /\ Goto(s, "submitted")
          /\ UNCHANGED <<work, placed, mem>>
       \/ \* the call failed
          /\ Fault \/ (cancelled[s] /\ NoFault)
          /\ Attempted
          /\ mem' = [mem EXCEPT ![s].failure = TRUE]
          /\ Goto(s, "failed")
          /\ UNCHANGED <<placed, seen, answered>>
    /\ UNCHANGED <<config, storeVars, ledgerVars, forgotBy, misled,
                   cancelled, loopVars, apiVars>>

-----------------------------------------------------------------------------
\* A run: the record of it (tracked.to and the writes it makes)

\* A slip in Target: having a result is taken for the verdict.
TargetByResult(s) ==
    CASE pc[s] \in {"submitted", "adopt"} -> "submitted"
      [] pc[s] = "record"                 -> seen[s]
      [] pc[s] = "finish"                 -> IF answered[s] THEN "succeeded" ELSE "failed"
      [] pc[s] = "failed"                 -> FailedState(mem[s])
      [] pc[s] = "abandoned"              -> "cancelled"

\* The state the write at this point moves the record to.
Target(s) ==
    CASE pc[s] \in {"submitted", "adopt"} -> "submitted"
      [] pc[s] \in {"record", "finish"}   -> seen[s]
      [] pc[s] = "failed"                 -> FailedState(mem[s])
      [] pc[s] = "abandoned"              -> "cancelled"

\* Where the run goes once the write has been tried.
AfterWrite(s) ==
    CASE pc[s] = "submitted"             -> IF answered[s] THEN "finish" ELSE "record"
      [] pc[s] \in {"adopt", "record"}   -> "poll"
      [] pc[s] = "finish"                -> IF answered[s] THEN "release" ELSE "end"
      [] pc[s] \in {"failed", "abandoned"} -> "end"

\* tracked.to: the run's own record moves first and the write is best effort.
\* A move the state machine refuses, or to the same state, writes nothing.
Write(s) ==
    /\ pc[s] \in {"submitted", "adopt", "record", "finish", "failed", "abandoned"}
    /\ LET m == IF pc[s] = "finish" THEN [mem[s] EXCEPT !.result = answered[s]] ELSE mem[s]
           r == To(m, Target(s))
       IN  /\ mem' = [mem EXCEPT ![s] = r]
           /\ \/ r.state # m.state /\ NoFault /\ Stored(r, m.state)
              \/ r.state # m.state /\ Fault /\ UNCHANGED storeVars
              \/ r.state = m.state /\ NoFault /\ UNCHANGED storeVars
    /\ Goto(s, AfterWrite(s))
    /\ UNCHANGED <<config, ledgerVars, providerVars,
                   seen, cancelled, answered, loopVars, apiVars>>

-----------------------------------------------------------------------------
\* A run: following the execution (watch, follow)

\* One poll.  A cancelled run abandons the execution; a Status that fails, or
\* that the provider does not know the execution by, ends the attempt.
Poll(s) ==
    /\ pc[s] = "poll"
    /\ \/ /\ cancelled[s] /\ NoFault
          /\ Goto(s, "abandon") /\ UNCHANGED <<mem, seen>>
       \/ /\ StatusOn(s) \in Terminal /\ NoFault
          /\ seen' = [seen EXCEPT ![s] = StatusOn(s)]
          /\ Goto(s, "result") /\ UNCHANGED mem
       \/ /\ StatusOn(s) \in Live /\ StatusOn(s) # seen[s] /\ NoFault
          /\ seen' = [seen EXCEPT ![s] = StatusOn(s)]
          /\ Goto(s, "record") /\ UNCHANGED mem
       \/ \* the node holding it has left the pool, or may yet report it
          /\ platform = "pool" /\ seen[s] # "lost"
          /\ (StatusOn(s) = "unknown" /\ Waits(s) /\ NoFault) \/ Fault
          /\ seen' = [seen EXCEPT ![s] = "lost"]
          /\ Goto(s, "record") /\ UNCHANGED mem
       \/ /\ ~cancelled[s]
          /\ (StatusOn(s) \in {"unknown", "unsupported"} /\ NoFault) \/ Fault
          /\ mem' = [mem EXCEPT ![s].failure = TRUE]
          /\ Goto(s, "failed") /\ UNCHANGED seen
    /\ UNCHANGED <<config, storeVars, ledgerVars, providerVars,
                   cancelled, answered, loopVars, apiVars>>

\* Provider.Result, once Status reported a terminal state.
Result(s) ==
    /\ pc[s] = "result"
    /\ \/ /\ StatusOn(s) \in Terminal /\ NoFault
          /\ answered' = [answered EXCEPT ![s] = TRUE]
       \/ /\ ((StatusOn(s) = "unknown" \/ cancelled[s]) /\ NoFault) \/ Fault
          /\ UNCHANGED answered
    /\ Goto(s, "finish")
    /\ UNCHANGED <<config, storeVars, ledgerVars, providerVars,
                   mem, seen, cancelled, loopVars, apiVars>>

\* Dispatcher.abandon: Cancel, whose failure nobody hears of.
Abandon(s) ==
    /\ pc[s] = "abandon"
    /\ \/ ~Blind(s) /\ NoFault /\ ProviderCancel
       \/ /\ (Blind(s) /\ NoFault) \/ Fault
          /\ UNCHANGED providerVars
    /\ Goto(s, "abandoned")
    /\ UNCHANGED <<config, storeVars, ledgerVars,
                   mem, seen, cancelled, answered, loopVars, apiVars>>

-----------------------------------------------------------------------------
\* A run: release, settle, end

\* Provider.Release, after the result because it may destroy what Result reads.
\* An execution that is unknown counts as released.
Release(s) ==
    /\ pc[s] = "release"
    /\ \/ ~Releases /\ NoFault /\ Goto(s, "mark") /\ UNCHANGED providerVars
       \/ Releases /\ ~Blind(s) /\ NoFault /\ Goto(s, "mark")
          /\ Forget("run") /\ UNCHANGED misled
       \/ Unknowable(s) /\ Goto(s, "mark")
          /\ Believes("run") /\ UNCHANGED <<work, ran, verdict, forgotBy, placed>>
       \/ Releases /\ Fault /\ Goto(s, "charge") /\ UNCHANGED providerVars
    /\ UNCHANGED <<config, storeVars, ledgerVars,
                   mem, seen, cancelled, answered, loopVars, apiVars>>

MarkReleased(s) ==
    /\ pc[s] = "mark"
    /\ \/ NoFault /\ Released
       \/ Fault /\ UNCHANGED <<rec, aged, expired>>
    /\ Goto(s, "charge")
    /\ UNCHANGED <<config, open, owner, created, ledgerVars,
                   providerVars, mem, seen, cancelled, answered, loopVars, apiVars>>

\* Slips in Settle: the cost is added whatever happened to the reservation;
\* settling without a reservation gives its cost back.
SettleBlindly ==
    /\ reservation' = "settled" /\ charges' = charges + 1 /\ stale' = FALSE
SettleRefunds ==
    /\ reservation' = IF reservation = "held" THEN "settled" ELSE reservation
    /\ charges' = IF reservation = "held" THEN charges + 1 ELSE charges - 1
    /\ stale' = FALSE

\* Ledger.Settle: a reservation is replaced by the cost, once; without one there
\* is nothing to replace.
Settle ==
    /\ reservation' = IF reservation = "held" THEN "settled" ELSE reservation
    /\ charges' = IF reservation = "held" THEN charges + 1 ELSE charges
    /\ stale' = FALSE

\* Dispatcher.charge.  On the run's own context, so a cancelled run's settle may
\* fail without anything else failing.
Charge(s) ==
    /\ pc[s] = "charge"
    /\ \/ NoFault /\ Settle
       \/ (Fault \/ (cancelled[s] /\ NoFault)) /\ UNCHANGED ledgerVars
    /\ Goto(s, "end")
    /\ UNCHANGED <<config, storeVars, providerVars,
                   mem, seen, cancelled, answered, loopVars, apiVars>>

\* The dispatch's ending is written by whoever still holds it, and the server
\* stops counting the dispatch among those it runs.
End(s) ==
    /\ pc[s] = "end"
    /\ \/ NoFault /\ open' = (open /\ owner # s)
       \/ open /\ owner = s /\ Fault /\ UNCHANGED open
    /\ Over(s)
    /\ UNCHANGED <<config, owner, created, rec, aged, expired,
                   ledgerVars, providerVars, loopVars, apiVars>>

\* The process dies: the run, every write it was about to make, the pass of the
\* release loop on it and what a pool's plugin remembered are gone, and a call to
\* Submit is cut short.
Crash(s) ==
    /\ pc[s] # "idle" \/ (s = home /\ placed)
    /\ Fault
    /\ IF pc[s] = "submit" THEN Attempted ELSE UNCHANGED <<work, ran, verdict>>
    /\ placed' = (placed /\ s # home)
    /\ IF loopAt = s THEN LoopOver ELSE UNCHANGED loopVars
    /\ Over(s)
    /\ UNCHANGED <<config, storeVars, ledgerVars, forgotBy, misled, apiVars>>

-----------------------------------------------------------------------------
\* Taking a dispatch over (Server.claim, Dispatcher.Resume, resume)

\* The lease of a run that is gone lapses.  That of a live one lapses only when
\* its renewals fail or come late, which is one of the counted faults.
Claim(s) ==
    /\ open /\ pc[s] = "idle"
    /\ IF pc[owner] = "idle" THEN NoFault ELSE Fault
    /\ owner' = s
    /\ Goto(s, "list")
    /\ UNCHANGED <<config, open, created, rec, aged, expired, ledgerVars,
                   providerVars, mem, seen, cancelled, answered, loopVars, apiVars>>

\* A slip in List: with nothing left to follow, nothing is done.
ListUnfinishedOnly(s) ==
    /\ pc[s] = "list"
    /\ \/ /\ created /\ rec.state \notin Terminal /\ NoFault
          /\ mem' = [mem EXCEPT ![s] = rec] /\ Goto(s, "status")
          /\ UNCHANGED <<seen, cancelled, answered>>
       \/ ~(created /\ rec.state \notin Terminal) /\ NoFault /\ Over(s)
    /\ UNCHANGED <<config, storeVars, ledgerVars, providerVars, loopVars, apiVars>>

\* DispatchExecutions.  When it cannot be read the dispatch stays running.
List(s) ==
    /\ pc[s] = "list"
    /\ \/ /\ NoFault
          /\ IF created /\ rec.state \notin Terminal
             THEN /\ mem' = [mem EXCEPT ![s] = rec]
                  /\ Goto(s, "status")
             ELSE Goto(s, "end") /\ UNCHANGED mem
          /\ UNCHANGED <<seen, cancelled, answered>>
       \/ Fault /\ Over(s)
    /\ UNCHANGED <<config, storeVars, ledgerVars, providerVars,
                   loopVars, apiVars>>

\* What the provider knows of an execution whose run died.  One it cannot
\* account for is failed or lost; one it knows is followed to its end.  A pool
\* whose nodes have yet to come back says "lost" of it for a while, and one whose
\* nodes are connected to the server that died goes on to say "unknown".
ResumeStatus(s) ==
    /\ pc[s] = "status"
    /\ \/ /\ configured /\ NoFault
          /\ \E st \in {StatusOn(s)} \cup (IF Waits(s) THEN {"lost"} ELSE {}) :
                st \in State /\ seen' = [seen EXCEPT ![s] = st]
          /\ Goto(s, IF mem[s].state = "pending" THEN "adopt" ELSE "poll")
          /\ UNCHANGED mem
       \/ /\ ((configured => StatusOn(s) \in {"unknown", "unsupported"}) /\ NoFault) \/ Fault
          /\ mem' = [mem EXCEPT ![s].failure = TRUE]
          /\ Goto(s, "failed") /\ UNCHANGED seen
    /\ UNCHANGED <<config, storeVars, ledgerVars, providerVars,
                   cancelled, answered, loopVars, apiVars>>

-----------------------------------------------------------------------------
\* The cancel route (Server.cancelExecution, cancelUnwatched)

\* The record is read; a dispatch running on this server is stopped whole.  A
\* server that has none of a pool's nodes refuses, and nothing comes of it.
CancelExecution(s) ==
    /\ created /\ apiPc = "idle" /\ rec.state \notin Terminal
    /\ Fault
    /\ IF pc[s] # "idle"
       THEN cancelled' = [cancelled EXCEPT ![s] = TRUE] /\ UNCHANGED apiVars
       ELSE configured /\ ~Blind(s) /\ apiPc' = "cancel" /\ apiRec' = rec /\ UNCHANGED cancelled
    /\ UNCHANGED <<config, storeVars, ledgerVars, providerVars,
                   pc, mem, seen, answered, loopVars>>

\* Provider.Cancel: an execution the provider does not know is an error, except
\* where cancelling means deleting.
CancelUnwatched ==
    /\ apiPc = "cancel"
    /\ \/ /\ Cancellable(platform, work) /\ NoFault /\ ProviderCancel
          /\ apiPc' = "write" /\ UNCHANGED apiRec
       \/ /\ (~Cancellable(platform, work) /\ NoFault) \/ Fault
          /\ ApiOver /\ UNCHANGED providerVars
    /\ UNCHANGED <<config, storeVars, ledgerVars, runVars, loopVars>>

\* The record is written as cancelled, unless something recorded it first.
RecordCancelled ==
    /\ apiPc = "write"
    /\ \/ NoFault /\ Stored(To(apiRec, "cancelled"), apiRec.state)
       \/ Fault /\ UNCHANGED storeVars
    /\ ApiOver
    /\ UNCHANGED <<config, ledgerVars, providerVars, runVars, loopVars>>

-----------------------------------------------------------------------------
\* The reservation reaper (Dispatcher.resolve, Ledger.Reap)

\* A slip in Reap: a provider that cannot be asked keeps the reservation.
ReapWhenAnswered(s) ==
    /\ reservation = "held" /\ stale /\ configured
    /\ StatusOn(s) \in {"unknown"} \cup Terminal /\ NoFault
    /\ reservation' = IF StatusOn(s) = "unknown" THEN "dropped" ELSE "settled"
    /\ charges' = IF StatusOn(s) = "unknown" THEN charges ELSE charges + 1
    /\ stale' = FALSE
    /\ IF StatusOn(s) = "unknown" THEN Believes("reaper") ELSE UNCHANGED misled
    /\ UNCHANGED <<config, storeVars, work, ran, verdict, forgotBy, placed,
                   runVars, loopVars, apiVars>>

\* One transaction holds the reservation's rows while the provider is asked, so
\* the answer and the settling are one step.  Anything short of an answer keeps
\* the reservation and changes nothing.  Every server has a reaper of its own.
Reap(s) ==
    /\ reservation = "held" /\ stale /\ configured
    /\ \/ \* unknown to the provider: dropped, charging nothing
          /\ (StatusOn(s) = "unknown" /\ NoFault) \/ Unknowable(s)
          /\ reservation' = "dropped" /\ UNCHANGED charges /\ Believes("reaper")
       \/ \* over, or never to be learned: settled from the times it reports,
          \* or at the declared amounts
          /\ StatusOn(s) \in {"unsupported"} \cup Terminal /\ NoFault
          /\ reservation' = "settled" /\ charges' = charges + 1 /\ UNCHANGED misled
    /\ stale' = FALSE
    /\ UNCHANGED <<config, storeVars, work, ran, verdict, forgotBy, placed,
                   runVars, loopVars, apiVars>>

-----------------------------------------------------------------------------
\* The release loop (ReleaseLeftovers, releaseLeftover, reconcileLost).  Every
\* step may fail, which leaves the execution for the next pass.

LoopUnchanged == UNCHANGED <<config, ledgerVars, runVars, apiVars>>
LoopGoto(label) == loopPc' = label /\ UNCHANGED <<loopAt, loopRec, loopSeen>>
LoopFails == LoopOver /\ Fault /\ UNCHANGED <<storeVars, providerVars>>

\* Unreleased: a copy of the record as it is now.  Every server has a loop of its
\* own, which only a pool tells apart; one pass at a time is followed here.
LoopList ==
    /\ loopPc = "idle" /\ created /\ ~rec.released /\ aged
    /\ NoFault
    /\ loopAt' \in IF platform = "pool" THEN Server ELSE {home}
    /\ loopRec' = rec /\ loopPc' = IF rec.state = "lost" THEN "lost" ELSE "reserved"
    /\ UNCHANGED <<loopSeen, storeVars, providerVars>>
    /\ LoopUnchanged

\* What reconcileLost is told: that nobody can account for it, that it is over,
\* or neither.
LostForGood  == ~configured \/ StatusOn(loopAt) = "unknown"
LostButEnded == configured /\ StatusOn(loopAt) \in Terminal
LostAnswered ==
    /\ loopPc' = "lostResult" /\ loopSeen' = StatusOn(loopAt) /\ UNCHANGED <<loopAt, loopRec>>

\* A slip in LoopLost: one that stays unresolved is waited for, for ever.
LoopLostWithoutGrace ==
    /\ loopPc = "lost"
    /\ NoFault /\ UNCHANGED <<storeVars, providerVars>>
    /\ CASE LostForGood  -> LoopGoto("resolve")
         [] LostButEnded -> LostAnswered
         [] OTHER        -> LoopOver
    /\ LoopUnchanged

\* reconcileLost asks what became of it.  One nobody can account for is failed
\* at once, one still unresolved is failed once the grace period is over.
LoopLost ==
    /\ loopPc = "lost"
    /\ \/ /\ NoFault
          /\ CASE LostForGood  -> LoopGoto("resolve")
               [] LostButEnded -> LostAnswered
               [] OTHER        -> IF expired THEN LoopGoto("resolve") ELSE LoopOver
       \/ configured /\ Unknowable(loopAt) /\ LoopGoto("resolve")
       \/ configured /\ expired /\ Fault /\ LoopGoto("resolve")
       \/ Fault /\ LoopOver
    /\ UNCHANGED <<storeVars, providerVars>>
    /\ LoopUnchanged

LoopLostResult ==
    /\ loopPc = "lostResult"
    /\ \/ /\ StatusOn(loopAt) \in Terminal /\ NoFault
          /\ loopRec' = [loopRec EXCEPT !.result = TRUE]
          /\ loopPc' = "resolve" /\ UNCHANGED <<loopAt, loopSeen>>
       \/ /\ (StatusOn(loopAt) = "unknown" /\ NoFault) \/ Fault
          /\ IF expired
             THEN loopPc' = "resolve" /\ loopSeen' = "failed" /\ UNCHANGED <<loopAt, loopRec>>
             ELSE LoopOver
    /\ UNCHANGED <<storeVars, providerVars>>
    /\ LoopUnchanged

\* resolveLost: the write must land before anything is released.
LoopResolve ==
    /\ loopPc = "resolve"
    /\ LET resolved == To(loopRec, loopSeen)
       IN  \/ /\ rec.state = "lost" /\ NoFault
              /\ Stored(resolved, "lost")
              /\ loopRec' = resolved /\ loopPc' = "reserved" /\ loopSeen' = "failed"
              /\ UNCHANGED loopAt
           \/ rec.state # "lost" /\ NoFault /\ LoopOver /\ UNCHANGED storeVars
           \/ Fault /\ LoopOver /\ UNCHANGED storeVars
    /\ UNCHANGED providerVars
    /\ LoopUnchanged

\* Slips in LoopReserved: the reservation is not looked at; one whose result
\* nobody recorded is left alone.
LoopReservedUnseen ==
    /\ loopPc = "reserved" /\ NoFault /\ UNCHANGED <<storeVars, providerVars>>
    /\ IF ~configured \/ ~Releases THEN LoopGoto("mark")
       ELSE LoopGoto(IF loopRec.result THEN "release" ELSE "status")
    /\ LoopUnchanged
LoopRecordedOnly ==
    /\ loopPc = "reserved" /\ NoFault /\ UNCHANGED <<storeVars, providerVars>>
    /\ IF reservation # "held" /\ loopRec.result THEN LoopGoto("release") ELSE LoopOver
    /\ LoopUnchanged

\* An execution still holding a reservation waits for the reaper.
LoopReserved ==
    /\ loopPc = "reserved"
    /\ \/ /\ NoFault /\ UNCHANGED <<storeVars, providerVars>>
          /\ IF reservation = "held" THEN LoopOver
             ELSE IF ~configured \/ ~Releases THEN LoopGoto("mark")
             ELSE LoopGoto(IF loopRec.result THEN "release" ELSE "status")
       \/ LoopFails
    /\ LoopUnchanged

\* A slip in LoopStatus: an execution still going is written off.
LoopStatusUnheeded ==
    /\ loopPc = "status" /\ NoFault /\ UNCHANGED <<storeVars, providerVars>>
    /\ LoopGoto(IF StatusOn(loopAt) \in Terminal THEN "release" ELSE "mark")
    /\ LoopUnchanged

\* What is unknown counts as released.
LoopTakenForReleased ==
    /\ LoopGoto("mark") /\ Believes("loop")
    /\ UNCHANGED <<storeVars, work, ran, verdict, forgotBy, placed>>

\* Without a recorded result nobody saw it end, so the provider is asked first.
LoopStatus ==
    /\ loopPc = "status"
    /\ \/ /\ (StatusOn(loopAt) = "unknown" /\ NoFault) \/ Unknowable(loopAt)
          /\ LoopTakenForReleased
       \/ /\ StatusOn(loopAt) # "unknown" /\ NoFault
          /\ IF StatusOn(loopAt) \in Terminal THEN LoopGoto("release") ELSE LoopOver
          /\ UNCHANGED <<storeVars, providerVars>>
       \/ LoopFails
    /\ LoopUnchanged

LoopRelease ==
    /\ loopPc = "release"
    /\ \/ /\ ~Blind(loopAt) /\ NoFault /\ Forget("loop") /\ LoopGoto("mark")
          /\ UNCHANGED <<storeVars, misled>>
       \/ Unknowable(loopAt) /\ LoopTakenForReleased
       \/ LoopFails
    /\ LoopUnchanged

LoopMark ==
    /\ loopPc = "mark"
    /\ LoopOver
    /\ \/ NoFault /\ Released
       \/ Fault /\ UNCHANGED <<rec, aged, expired>>
    /\ UNCHANGED <<open, owner, created, providerVars>>
    /\ LoopUnchanged

Loop == LoopList \/ LoopLost \/ LoopLostResult \/ LoopResolve \/ LoopReserved
        \/ LoopStatus \/ LoopRelease \/ LoopMark

-----------------------------------------------------------------------------
\* The provider's own steps (external), the passing of time, reconfiguration

Start ==
    /\ work = "accepted" /\ work' = "running" /\ ran' = TRUE
    /\ UNCHANGED <<verdict, forgotBy>>

\* Work ends; it may fail, or be stopped from outside, without ever starting.
Finish ==
    /\ work \in Live
    /\ \E v \in IF work = "running" THEN Terminal ELSE {"failed", "cancelled"} :
          work' = v /\ verdict' = v
    /\ UNCHANGED <<ran, forgotBy>>

Provider ==
    /\ Start \/ Finish
    /\ UNCHANGED <<placed, misled, config, faults, storeVars, ledgerVars, runVars, loopVars, apiVars>>

\* A run is long in following its execution, and in coming to submit it.  Its
\* other steps are short.
Brisk == \E s \in Server : pc[s] \notin {"idle", "poll", "create", "wait", "submit"}

Age ==
    /\ created /\ ~rec.released /\ ~aged /\ ~Brisk
    /\ aged' = TRUE
    /\ UNCHANGED <<config, faults, open, owner, created, rec, expired, ledgerVars,
                   providerVars, runVars, loopVars, apiVars>>

Expire ==
    /\ rec.state = "lost" /\ aged /\ ~expired /\ ~rec.released
    /\ expired' = TRUE
    /\ UNCHANGED <<config, faults, open, owner, created, rec, aged, ledgerVars,
                   providerVars, runVars, loopVars, apiVars>>

GrowStale ==
    /\ reservation = "held" /\ ~stale /\ ~Brisk
    /\ stale' = TRUE
    /\ UNCHANGED <<config, faults, storeVars, reservation, charges, providerVars,
                   runVars, loopVars, apiVars>>

Time == Age \/ Expire \/ GrowStale

\* The servers are restarted with a configuration the provider is no longer in.
Deconfigure ==
    /\ configured /\ configured' = FALSE /\ Fault
    /\ \A s \in Server : pc[s] = "idle"
    /\ loopPc = "idle" /\ apiPc = "idle" /\ placed' = FALSE
    /\ UNCHANGED <<platform, pools, home, storeVars, ledgerVars,
                   work, ran, verdict, forgotBy, misled, runVars, loopVars, apiVars>>

-----------------------------------------------------------------------------
Run(s) ==
    \/ Reserve(s) \/ Create(s) \/ Pause(s) \/ Submit(s) \/ Write(s)
    \/ Poll(s) \/ Result(s) \/ Abandon(s) \/ Release(s) \/ MarkReleased(s)
    \/ Charge(s) \/ End(s) \/ List(s) \/ ResumeStatus(s)

Cancel == (\E s \in Server : CancelExecution(s)) \/ CancelUnwatched \/ RecordCancelled

Next ==
    \/ \E s \in Server : Run(s) \/ Crash(s) \/ Claim(s) \/ Reap(s)
    \/ Cancel \/ Loop \/ Provider \/ Time \/ Deconfigure

Spec == Init /\ [][Next]_vars

\* A run goes on as long as its process lives, a claim, the reaper and the
\* release loop come round on their tickers, the provider works through what it
\* was given, and time passes.  Nothing makes a fault happen, and nothing is
\* assumed of a pool's start that was cut short: its container stays as it is.
Fairness ==
    /\ \A s \in Server : WF_vars(Run(s)) /\ WF_vars(Claim(s))
    /\ WF_vars(CancelUnwatched \/ RecordCancelled)
    /\ WF_vars(\E s \in Server : Reap(s)) /\ WF_vars(Loop) /\ WF_vars(Provider)
    /\ WF_vars(Age) /\ WF_vars(Expire) /\ WF_vars(GrowStale)

FairSpec == Spec /\ Fairness

-----------------------------------------------------------------------------
\* Safety

Abstract == INSTANCE ExecutionRecord WITH state <- rec.state, result <- rec.result

\* However many runs, loops and cancels write it, each from its own copy and
\* with writes that may be missed, the stored record is the abstract one: the
\* conditional Update of state/postgres/executions.go is enough.
RecordImplemented == Abstract!Spec

\* A run is charged once: a run, the server that took it over and the reaper
\* may all settle, in any order (Ledger.Settle, Ledger.Reap).
ChargedOnce == charges = (IF reservation = "settled" THEN 1 ELSE 0)

\* A record that says what the task did says what the provider saw it do, even
\* when the record was written by a server that only took the run over, or by
\* the loop reconciling a lost one.  A failure without a result is Vagabond's
\* own conclusion and says nothing of the work.
VerdictRecorded ==
    /\ rec.state = "succeeded" => verdict = "succeeded"
    /\ rec.state = "failed" /\ rec.result => verdict = "failed"

\* A run that did work goes uncharged only when the system itself made the
\* provider forget it, by releasing it before settling or by a cancel that
\* deletes it, or when a reaper asked where it could not be known, or before it
\* was submitted: of those Drop ("the provider never ran it", ledger.go) is wrong.
\* The release loop never is the one: it leaves an execution that
\* still holds a reservation to the reaper (releaseLeftover).
UnchargedOnlyIfForgotten ==
    reservation = "dropped" /\ ran => forgotBy \in {"run", "cancel"} \/ "reaper" \in misled

\* Nothing is marked released while its provider still works on it, unless who
\* marked it was told it is unknown by a pool that has it on a node that is out of
\* sight, or was about to: no other leftover is ever forgotten about
\* (releaseLeftover, Dispatcher.release).
ReleasedIsOver ==
    created /\ rec.released /\ Releases /\ configured =>
        work \notin Live \/ misled \cap {"run", "loop"} # {}

-----------------------------------------------------------------------------
\* Liveness, under Fairness

\* A dispatch does not stay running for ever: whoever holds it dies, misses the
\* last write or is overtaken, and some server still ends it (Server.claim).  It
\* may follow a pool's start that was cut short for ever (Containerd.Submit).
DispatchEnds == <>(~open \/ work = "stuck")

\* Quota is not held for ever by a run nobody follows any more (Reap), unless it
\* is held for such a start, which answers "accepted" for ever.
ReservationResolved ==
    reservation = "held" ~> (reservation # "held" \/ ~configured \/ work = "stuck")

\* A lost execution nobody follows and nothing has released does not stay an
\* open question: the release loop reconciles it (reconcileLost).  One that the
\* run it was taken from marks released is not listed, and stays lost.
LostResolved ==
    (rec.state = "lost" /\ ~rec.released /\ loopPc = "idle"
       /\ \A s \in Server : pc[s] = "idle")  ~>  (rec.state \in Terminal)

\* What a run leaves at its provider is deleted in the end, however the run
\* ended (release, ReleaseLeftovers), unless it was taken for released by who was
\* told it is unknown, or is a start that was cut short.
LeftoversReleased ==
    (work # "absent") ~>
        (work \in {"absent", "stuck"} \/ ~configured \/ misled \cap {"run", "loop"} # {})

-----------------------------------------------------------------------------
\* What the documentation says of the program, and the program does not do

\* release.go, of ReleaseAfter: "it never races a dispatch still reading the
\* result".
LoopWaitsForReader ==
    [][forgotBy # "loop" /\ forgotBy' = "loop" =>
         \A s \in Server : pc[s] \notin {"poll", "result"}]_vars
=============================================================================
