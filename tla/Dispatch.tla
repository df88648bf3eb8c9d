------------------------------ MODULE Dispatch ------------------------------
(***************************************************************************)
(* One dispatch: a job's tasks run in order, each on the best provider     *)
(* that answers, under a lease that lets another server take the dispatch  *)
(* over (internal/dispatch: dispatcher.go, retry.go, lease.go, resume.go;  *)
(* internal/server: dispatch.go, resume.go).                               *)
(*                                                                         *)
(* Lifecycle looks at one execution call by call.  Here the executions are *)
(* many and a step is one provider call with the record written for it;    *)
(* the ledger only refuses reservations.  A store call fails exactly while *)
(* the store is unreachable.  The agents of a pool dial one server: what   *)
(* one server sends to its nodes no other server can ask after.            *)
(***************************************************************************)
EXTENDS Execution, Plugins, Integers, Sequences, FiniteSetsExt, SequencesExt

CONSTANTS
    Server,        \* the server processes sharing the store
    Provider,      \* the configured providers
    Kind,          \* the platform each provider runs on
    Tasks,         \* how many tasks the job declares
    Attempts,      \* retry.attempts of every task
    Reroute,       \* retry.reroute of every task
    Faults,        \* which of Mishap may happen
    MaxFaults      \* bound: how many of them happen

\* "late": the release loop takes up an execution ten minutes after the last
\* change to its record, whoever is still following it.
Mishap == {"outage", "crash", "call", "cancel", "late"}

ASSUME ServerAssumption == Server # {}
ASSUME ProviderAssumption == IsFiniteSet(Provider) /\ Kind \in [Provider -> Platform]
ASSUME TasksAssumption == Tasks \in Nat \ {0}
ASSUME RetryAssumption == Attempts \in Nat \ {0} /\ Reroute \in BOOLEAN
ASSUME FaultsAssumption == Faults \subseteq Mishap /\ MaxFaults \in Nat

VARIABLES
    row,           \* the dispatch's row: state, owner, whether its lease lapsed,
                   \*   and (history) every server that has owned it
    recs,          \* the rows of its executions, oldest first, and which server
                   \*   was to submit each (external)
    work,          \* what the provider holds for each (external)
    verdict,       \* history: how the work of each ended (external)
    run,           \* what each server is doing about the dispatch
    up,            \* the store is reachable
    faults,        \* how many of MaxFaults have happened
    mishaps        \* history: which kinds have

vars == <<row, recs, work, verdict, run, up, faults, mishaps>>

Ending == {"succeeded", "failed", "unanswered"}
Id == DOMAIN recs

\* A run of the job, or of a dispatch being resumed when it has a snapshot.
Idle == [pc |-> "idle", lost |-> FALSE, cancelled |-> FALSE,
         task |-> 1, left |-> <<>>, tried |-> 0,   \* where Run and attempt are
         id |-> 0, mem |-> Pending, seen |-> "pending",  \* the attempt in hand
         snapshot |-> <<>>,         \* the executions a resumed run read
         next |-> "end",            \* where the run goes after the attempt
         outcome |-> "unanswered"]  \* what it would record as the ending

Rankings == {q \in BoundedSeq(Provider, Cardinality(Provider)) : IsInjective(q)}

TypeOK ==
    /\ row \in [state : {"none", "running"} \cup Ending, owner : Server, lapsed : BOOLEAN,
                owners : SUBSET Server]
    /\ recs \in Seq([task : 1..Tasks, provider : Provider, attempt : Nat,
                     previous : Nat, home : Server, ex : Record])
    /\ work \in [Id -> {"absent", "running", "stuck"} \cup Terminal]
    /\ verdict \in [Id -> {"none"} \cup Terminal]
    /\ run \in [Server ->
         [pc : {"idle", "task", "prepare", "pause", "submit", "record", "poll",
                "result", "release", "end", "list", "status"},
          lost : BOOLEAN, cancelled : BOOLEAN,
          task : 1..Tasks, left : Rankings, tried : Nat,
          id : {0} \cup Id, mem : Record, seen : State, snapshot : Seq(Record),
          next : {"prepare", "task", "end"}, outcome : Ending]]
    /\ up \in BOOLEAN /\ faults \in 0..MaxFaults /\ mishaps \subseteq Faults

Init ==
    /\ \E s \in Server : row = [state |-> "none", owner |-> s, lapsed |-> FALSE, owners |-> {}]
    /\ recs = <<>> /\ work = <<>> /\ verdict = <<>>
    /\ run = [s \in Server |-> Idle]
    /\ up = TRUE /\ faults = 0 /\ mishaps = {}

-----------------------------------------------------------------------------
\* Helpers

Fault(kind) ==
    /\ kind \in Faults /\ faults < MaxFaults
    /\ faults' = faults + 1 /\ mishaps' = mishaps \cup {kind}
NoFault == UNCHANGED <<faults, mishaps>>

\* A call made for s fails: the platform's doing, or s's own context's.
Fails(s) == Fault("call") \/ (run[s].cancelled /\ NoFault)

Becomes(s, r) == run' = [run EXCEPT ![s] = r]

KindOf(id)   == Kind[recs[id].provider]
Set(f, id, x) == [f EXCEPT ![id] = x]

\* The nodes of a pool are connected to the server that sent them the work.
Blind(s, id) == KindOf(id) = "pool" /\ recs[id].home # s

\* The provider, asked on s, has the execution.
Known(s, id) == work[id] # "absent" /\ ~FinishesInSubmit(KindOf(id)) /\ ~Blind(s, id)

\* What it says of one it has: a start that was cut short never gets further.
Reported(id) == IF work[id] = "stuck" THEN "accepted" ELSE work[id]

\* A pool whose nodes may yet report an execution says "lost" of it for a while.
Told(s, id) == (IF Known(s, id) THEN {Reported(id)} ELSE {}) \cup
                  (IF KindOf(id) = "pool" THEN {"lost"} ELSE {})

\* What a Submit whose answer never came has begun.  A pool node may have made
\* the container and not started it, and nothing watches what it leaves.
Attempted(id) ==
    \/ UNCHANGED <<work, verdict>>
    \/ ~FinishesInSubmit(KindOf(id)) /\ work' = Set(work, id, "running") /\ UNCHANGED verdict
    \/ KindOf(id) = "pool" /\ work' = Set(work, id, "stuck") /\ UNCHANGED verdict
    \/ FinishesInSubmit(KindOf(id)) /\ verdict' = Set(verdict, id, "succeeded") /\ UNCHANGED work

Stoppable(s, id) == Cancellable(KindOf(id), work[id]) /\ ~Blind(s, id)

\* Provider.Cancel.  A start cut short before its task was made has nothing to
\* stop.
ProviderCancel(id) ==
    \/ /\ work' = Set(work, id, Cancelled(KindOf(id), work[id]))
       /\ verdict' = IF work[id] \in {"running", "stuck"}
                     THEN Set(verdict, id, "cancelled") ELSE verdict
    \/ work[id] = "stuck" /\ UNCHANGED <<work, verdict>>

\* tracked.to, at the store: m moves to next unless the state machine refuses.
Put(ex, m, next) == IF CanTransition(m.state, next) THEN Update(ex, To(m, next), m.state) ELSE ex
Tracked(id, m, next) == recs' = IF up THEN Set(recs, id, [recs[id] EXCEPT !.ex = Put(@, m, next)]) ELSE recs

\* r has only its ending left to write.
Over(r, outcome) == [Idle EXCEPT !.pc = "end", !.lost = r.lost, !.outcome = outcome]

\* policy.budget: without reroute a task gets one provider, the best one.
Budget == IF Reroute THEN Attempts ELSE 1

\* Slips in EndedAs: the dispatch takes the state of its last execution; the
\* tasks the run had not reached are forgotten.
EndedAsLast(copies) ==
    IF copies = <<>> THEN "unanswered" ELSE Last(copies).state
EndedWhenLastPassed(copies) ==
    IF copies = <<>> \/ ~Last(copies).result \/ Last(copies).failure THEN "unanswered"
    ELSE IF Last(copies).state = "succeeded" THEN "succeeded" ELSE "failed"

\* resume.go ended: the verdict of a resumed dispatch from the local copies of
\* its executions.  The last is the task in flight.
EndedAs(copies) ==
    LET last == Last(copies)
        answered == last.state \in {"succeeded", "failed"} /\ last.result /\ ~last.failure
        reached == Cardinality({recs[id].task : id \in DOMAIN copies})
    IN  IF copies = <<>> \/ ~answered    THEN "unanswered"
        ELSE IF last.state = "failed"     THEN "failed"
        ELSE IF reached >= Tasks          THEN "succeeded"
        ELSE "unanswered"

\* A resumed run takes its executions one after another, passing over those
\* already over, and then ends.
FollowFrom(r, first) ==
    LET unfinished == {id \in DOMAIN r.snapshot : id >= first /\ r.snapshot[id].state \notin Terminal}
    IN  IF unfinished = {}
        THEN Over(r, EndedAs(r.snapshot))
        ELSE [r EXCEPT !.pc = "status", !.id = Min(unfinished), !.mem = r.snapshot[Min(unfinished)]]

\* Where r goes once the attempt in hand is over.
Onward(r) ==
    IF r.snapshot = <<>>
    THEN IF r.next = "end" THEN Over(r, r.outcome) ELSE [r EXCEPT !.pc = r.next, !.next = "end"]
    ELSE FollowFrom([r EXCEPT !.snapshot[r.id] = r.mem], r.id + 1)

\* The attempt in hand ended in an error, which may be sent to another provider
\* (plugin.Reroutable) or end the run.
GivesUp(s, r) == \E next \in {"prepare", "end"} : Becomes(s, Onward([r EXCEPT !.next = next]))

\* tracked.failed, and what the run then does.
AttemptFails(s) ==
    LET r == run[s]
        m == [r.mem EXCEPT !.failure = TRUE]
    IN  /\ Tracked(r.id, m, FailedState(m))
        /\ GivesUp(s, [r EXCEPT !.mem = To(m, FailedState(m))])

-----------------------------------------------------------------------------
\* Starting, Dispatcher.Begin: a dispatch that cannot be recorded never starts

Begin(s) ==
    /\ row.state = "none" /\ up
    /\ row' = [state |-> "running", owner |-> s, lapsed |-> FALSE, owners |-> {s}]
    /\ Becomes(s, [Idle EXCEPT !.pc = "task"])
    /\ NoFault /\ UNCHANGED <<recs, work, verdict, up>>

-----------------------------------------------------------------------------
\* Dispatcher.Run and RunTask

\* The lease is looked at before each task only.  Admission and ranking are
\* another component's: any providers, in any order, may be the candidates.
Task(s) ==
    /\ run[s].pc = "task"
    /\ \/ run[s].lost /\ Becomes(s, Over(run[s], "unanswered"))
       \/ /\ ~run[s].lost
          /\ \E ranking \in Rankings :
                Becomes(s, IF ranking = <<>> THEN Over(run[s], "unanswered")
                           ELSE [run[s] EXCEPT !.pc = "prepare", !.left = ranking, !.tried = 0, !.id = 0,
                                               !.mem = Pending, !.seen = "pending"])
    /\ NoFault /\ UNCHANGED <<row, recs, work, verdict, up>>

\* One turn of attempt's loop up to prepare.  A refused reservation passes the
\* provider over without spending an attempt; one that cannot be recorded stops
\* the run.
Prepare(s) ==
    LET r == run[s] IN
    /\ r.pc = "prepare"
    /\ \/ /\ r.left = <<>> \/ r.tried >= Budget
          /\ Becomes(s, Over(r, "unanswered")) /\ NoFault
          /\ UNCHANGED <<recs, work, verdict>>
       \/ /\ r.left # <<>> /\ r.tried < Budget
          /\ \/ up /\ NoFault /\ Becomes(s, [r EXCEPT !.left = Tail(@)])
                /\ UNCHANGED <<recs, work, verdict>>
             \/ (~up \/ r.cancelled) /\ NoFault /\ Becomes(s, Over(r, "unanswered"))
                /\ UNCHANGED <<recs, work, verdict>>
             \/ /\ up /\ NoFault
                /\ recs' = Append(recs, [task |-> r.task, provider |-> Head(r.left),
                                         attempt |-> r.tried + 1, previous |-> r.id,
                                         home |-> s, ex |-> Pending])
                /\ work' = Append(work, "absent") /\ verdict' = Append(verdict, "none")
                /\ Becomes(s, [r EXCEPT !.pc = "pause", !.left = Tail(@),
                                        !.id = Len(recs) + 1, !.mem = Pending])
    /\ UNCHANGED <<row, up>>

\* A slip in Pause: the submission is not counted.
PauseUncounted(s) ==
    /\ run[s].pc = "pause"
    /\ Becomes(s, [run[s] EXCEPT !.pc = "submit"])
    /\ NoFault /\ UNCHANGED <<row, recs, work, verdict, up>>

\* The backoff, before every submission but the first of a task.
Pause(s) ==
    /\ run[s].pc = "pause"
    /\ \/ ~(run[s].cancelled /\ run[s].tried > 0)
          /\ Becomes(s, [run[s] EXCEPT !.pc = "submit", !.tried = @ + 1])
       \/ run[s].cancelled /\ run[s].tried > 0
          /\ Becomes(s, Over(run[s], "unanswered"))
    /\ NoFault /\ UNCHANGED <<row, recs, work, verdict, up>>

-----------------------------------------------------------------------------
\* execute and follow

\* Provider.Submit.  A call that failed may still have started the work.
Submit(s) ==
    LET r == run[s] IN
    /\ r.pc = "submit"
    /\ \/ /\ ~FinishesInSubmit(KindOf(r.id)) /\ NoFault
          /\ work' = Set(work, r.id, "running")
          /\ Becomes(s, [r EXCEPT !.pc = "record", !.seen = "running"])
          /\ UNCHANGED <<recs, verdict>>
       \/ /\ FinishesInSubmit(KindOf(r.id)) /\ NoFault
          /\ \E st \in Submittable \cap Terminal :
                /\ verdict' = Set(verdict, r.id, st)
                /\ Becomes(s, [r EXCEPT !.pc = "record", !.seen = st])
          /\ UNCHANGED <<recs, work>>
       \/ /\ Fails(s)
          /\ Attempted(r.id)
          /\ AttemptFails(s)
    /\ UNCHANGED <<row, up>>

\* tracked.submitted, and the record of a state a poll reported.  A synchronous
\* submission is over and carries its result.
RecordState(s) ==
    LET r  == run[s]
        m1 == To(r.mem, "submitted")
        m2 == [m1 EXCEPT !.result = r.seen \in Terminal]
    IN  /\ r.pc = "record"
        /\ recs' = IF up THEN Set(recs, r.id, [recs[r.id] EXCEPT
                                    !.ex = Put(Put(@, r.mem, "submitted"), m2, r.seen)])
                   ELSE recs
        /\ Becomes(s, [r EXCEPT !.pc = IF r.seen \in Terminal THEN "release" ELSE "poll",
                                !.mem = To(m2, r.seen)])
        /\ NoFault /\ UNCHANGED <<row, work, verdict, up>>

\* One poll of watch.  A Status that fails, or that finds the provider does not
\* know the execution, ends the attempt.
Poll(s) ==
    LET r == run[s] IN
    /\ r.pc = "poll"
    /\ \/ /\ Known(s, r.id) /\ work[r.id] \in Terminal /\ NoFault
          /\ Becomes(s, [r EXCEPT !.pc = "result", !.seen = work[r.id]])
          /\ UNCHANGED recs
       \/ /\ Known(s, r.id) /\ work[r.id] \notin Terminal /\ r.seen # Reported(r.id) /\ NoFault
          /\ Becomes(s, [r EXCEPT !.pc = "record", !.seen = Reported(r.id)])
          /\ UNCHANGED recs
       \/ \* the node holding it has left the pool, or may yet report it
          /\ KindOf(r.id) = "pool" /\ r.seen # "lost"
          /\ (~Known(s, r.id) /\ NoFault) \/ Fault("call")
          /\ Becomes(s, [r EXCEPT !.pc = "record", !.seen = "lost"])
          /\ UNCHANGED recs
       \/ /\ ~r.cancelled
          /\ (~Known(s, r.id) /\ NoFault) \/ Fault("call")
          /\ AttemptFails(s)
    /\ UNCHANGED <<row, work, verdict, up>>

\* A run whose context is cancelled stops what it was following, best effort.
Abandon(s) ==
    LET r == run[s] IN
    /\ r.pc = "poll" /\ r.cancelled
    /\ \/ Stoppable(s, r.id) /\ ProviderCancel(r.id) /\ NoFault
       \/ /\ (~Stoppable(s, r.id) /\ NoFault) \/ Fault("call")
          /\ UNCHANGED <<work, verdict>>
    /\ Tracked(r.id, r.mem, "cancelled")
    /\ GivesUp(s, [r EXCEPT !.mem = To(r.mem, "cancelled")])
    /\ UNCHANGED <<row, up>>

\* Provider.Result and tracked.finish.  Without a result there is no answer.
Result(s) ==
    LET r == run[s]
        m == [r.mem EXCEPT !.result = TRUE]
    IN  /\ r.pc = "result"
        /\ \/ /\ work[r.id] \in Terminal /\ NoFault
              /\ Tracked(r.id, m, r.seen)
              /\ Becomes(s, [r EXCEPT !.pc = "release", !.mem = To(m, r.seen)])
           \/ /\ (work[r.id] = "absent" /\ NoFault) \/ Fails(s)
              /\ Tracked(r.id, r.mem, r.seen)
              /\ GivesUp(s, [r EXCEPT !.mem = To(r.mem, r.seen)])
        /\ UNCHANGED <<row, work, verdict, up>>

\* Slips in Answered: a failed task does not stop the job; a result is an
\* answer even when the provider cancelled the work.
AnsweredWithoutFailFast(r) ==
    IF r.task < Tasks THEN [r EXCEPT !.next = "task", !.task = @ + 1]
    ELSE [r EXCEPT !.next = "end", !.outcome = IF r.seen = "succeeded" THEN "succeeded" ELSE "failed"]
AnsweredByAnyResult(r) ==
    IF r.seen # "succeeded" THEN [r EXCEPT !.next = "end", !.outcome = "failed"]
    ELSE IF r.task < Tasks THEN [r EXCEPT !.next = "task", !.task = @ + 1]
    ELSE [r EXCEPT !.next = "end", !.outcome = "succeeded"]

\* What the run does with the answer it got.  A failed task ends the job, and a
\* provider that cancelled the work gave no answer.
Answered(r) ==
    CASE r.seen = "cancelled" -> [r EXCEPT !.next = "prepare"]
      [] r.seen = "failed"    -> [r EXCEPT !.next = "end", !.outcome = "failed"]
      [] r.seen = "succeeded" /\ r.task < Tasks -> [r EXCEPT !.next = "task", !.task = @ + 1]
      [] r.seen = "succeeded" /\ r.task = Tasks -> [r EXCEPT !.next = "end", !.outcome = "succeeded"]

\* Provider.Release and the released_at it writes; then the answer.
Release(s) ==
    LET r == run[s]
    IN  /\ r.pc = "release"
        /\ \/ /\ NoFault
              /\ work' = IF LeavesLeftovers(KindOf(r.id)) THEN Set(work, r.id, "absent") ELSE work
              /\ recs' = IF up THEN Set(recs, r.id, [recs[r.id] EXCEPT !.ex.released = TRUE]) ELSE recs
           \/ LeavesLeftovers(KindOf(r.id)) /\ Fault("call") /\ UNCHANGED <<work, recs>>
        /\ Becomes(s, Onward(Answered(r)))
        /\ UNCHANGED <<row, verdict, up>>

\* Dispatcher.Finish and end: the lease is given up first, and a run that lost
\* it writes nothing.  Best effort.
End(s) ==
    /\ run[s].pc = "end"
    /\ row' = IF up /\ ~run[s].lost /\ row.state = "running" /\ row.owner = s
              THEN [row EXCEPT !.state = run[s].outcome] ELSE row
    /\ Becomes(s, Idle)
    /\ NoFault /\ UNCHANGED <<recs, work, verdict, up>>

-----------------------------------------------------------------------------
\* The lease

\* One renewal, in the background of a run until it ends.
Renew(s) ==
    /\ run[s].pc \notin {"idle", "end"} /\ ~run[s].lost /\ up
    /\ IF row.state = "running" /\ row.owner = s
       THEN row' = [row EXCEPT !.lapsed = FALSE] /\ UNCHANGED run
       ELSE Becomes(s, [run[s] EXCEPT !.lost = TRUE]) /\ UNCHANGED row
    /\ NoFault /\ UNCHANGED <<recs, work, verdict, up>>

\* A lease outlives two missed renewals, so it lapses only once nobody renews it
\* or while nobody can.
Lapse ==
    /\ row.state = "running" /\ ~row.lapsed
    /\ run[row.owner].pc = "idle" \/ ~up
    /\ row' = [row EXCEPT !.lapsed = TRUE]
    /\ NoFault /\ UNCHANGED <<recs, work, verdict, run, up>>

-----------------------------------------------------------------------------
\* Server.claim and Dispatcher.Resume

\* A server passes over the dispatches it is itself running.
Claim(s) ==
    /\ up /\ row.state = "running" /\ row.lapsed /\ run[s].pc = "idle"
    /\ row' = [row EXCEPT !.owner = s, !.lapsed = FALSE, !.owners = @ \cup {s}]
    /\ Becomes(s, [Idle EXCEPT !.pc = "list"])
    /\ NoFault /\ UNCHANGED <<recs, work, verdict, up>>

\* A slip in List: with nothing left to follow, nothing is done.
ListUnfinishedOnly(s) ==
    /\ run[s].pc = "list"
    /\ LET r == FollowFrom([run[s] EXCEPT !.snapshot = [id \in Id |-> recs[id].ex]], 1)
       IN  Becomes(s, IF up /\ r.pc # "end" THEN r ELSE Idle)
    /\ NoFault /\ UNCHANGED <<row, recs, work, verdict, up>>

\* DispatchExecutions.  When it fails the dispatch is left for the next claim.
List(s) ==
    /\ run[s].pc = "list"
    /\ Becomes(s, IF up THEN FollowFrom([run[s] EXCEPT !.snapshot = [id \in Id |-> recs[id].ex]], 1)
                  ELSE Idle)
    /\ NoFault /\ UNCHANGED <<row, recs, work, verdict, up>>

\* A slip in ResumeStatus: one still pending is taken never to have been
\* submitted, and the provider is not asked.
ResumeSubmittedOnly(s) ==
    LET r == run[s] IN
    /\ r.pc = "status"
    /\ \/ /\ r.mem.state # "pending" /\ Known(s, r.id) /\ NoFault
          /\ Becomes(s, [r EXCEPT !.pc = "poll", !.seen = Reported(r.id)])
          /\ UNCHANGED recs
       \/ /\ r.mem.state = "pending" \/ ~Known(s, r.id)
          /\ NoFault /\ AttemptFails(s)
    /\ UNCHANGED <<row, work, verdict, up>>

\* Dispatcher.resume: what the provider knows of an execution left unfinished.
ResumeStatus(s) ==
    LET r == run[s] IN
    /\ r.pc = "status"
    /\ \/ /\ NoFault
          /\ \E st \in Told(s, r.id) :
                Becomes(s, [r EXCEPT !.pc = "poll", !.seen = st, !.mem = To(@, "submitted")])
          /\ Tracked(r.id, r.mem, "submitted")
       \/ /\ (~Known(s, r.id) /\ NoFault) \/ Fails(s)
          /\ AttemptFails(s)
    /\ UNCHANGED <<row, work, verdict, up>>

-----------------------------------------------------------------------------
\* Other writers of the records, the provider's own steps, and mishaps

\* The cancel route: a dispatch running on the server asked is stopped whole.
Cancel(s, id) ==
    /\ up /\ recs[id].ex.state \notin Terminal /\ Fault("cancel")
    /\ IF run[s].pc # "idle"
       THEN /\ Becomes(s, [run[s] EXCEPT !.cancelled = TRUE])
            /\ UNCHANGED <<recs, work, verdict>>
       ELSE /\ Stoppable(s, id) /\ ProviderCancel(id)
            /\ Tracked(id, recs[id].ex, "cancelled")
            /\ UNCHANGED run
    /\ UNCHANGED <<row, up>>

\* What the release loop on s does to the provider and the record of an execution
\* that is over or unknown, ex being the record it would be released with.
Released(s, id, ex) ==
    /\ recs' = [recs EXCEPT ![id].ex = [ex EXCEPT !.released = TRUE]]
    /\ work' = IF Known(s, id) /\ LeavesLeftovers(KindOf(id)) THEN Set(work, id, "absent") ELSE work

\* The release loop on s reconciles a lost execution: its result if the provider
\* has one, failed once nothing more can be learned, which releases nothing while
\* it may still be running.
Reconcile(s, id) ==
    LET ex == recs[id].ex
    IN  /\ up /\ ex.state = "lost" /\ ~ex.released
        /\ \/ /\ Known(s, id) /\ work[id] \in Terminal
              /\ Released(s, id, To([ex EXCEPT !.result = TRUE], work[id]))
           \/ ~Known(s, id) /\ Released(s, id, To(ex, "failed"))
           \/ /\ Told(s, id) \ Terminal # {}
              /\ recs' = [recs EXCEPT ![id].ex = To(ex, "failed")] /\ UNCHANGED work
        /\ NoFault /\ UNCHANGED <<row, verdict, run, up>>

\* It releases any other execution it finds over or unknown.
Leftover(s, id) ==
    /\ up /\ recs[id].ex.state # "lost" /\ ~recs[id].ex.released
    /\ Known(s, id) => work[id] \in Terminal
    /\ Released(s, id, recs[id].ex)
    /\ Fault("late") /\ UNCHANGED <<row, verdict, run, up>>

\* The work ends, however it ends.
Finish(id) ==
    /\ work[id] = "running"
    /\ \E v \in Terminal : work' = Set(work, id, v) /\ verdict' = Set(verdict, id, v)
    /\ NoFault /\ UNCHANGED <<row, recs, run, up>>

\* A server process dies, and starts again.  A call to Submit is cut short.
Crash(s) ==
    /\ run[s].pc # "idle" /\ Fault("crash")
    /\ IF run[s].pc = "submit" THEN Attempted(run[s].id) ELSE UNCHANGED <<work, verdict>>
    /\ Becomes(s, Idle)
    /\ UNCHANGED <<row, recs, up>>

Outage  == up /\ up' = FALSE /\ Fault("outage") /\ UNCHANGED <<row, recs, work, verdict, run>>
Recover == ~up /\ up' = TRUE /\ NoFault /\ UNCHANGED <<row, recs, work, verdict, run>>

-----------------------------------------------------------------------------
Run(s) ==
    \/ Task(s) \/ Prepare(s) \/ Pause(s) \/ Submit(s) \/ RecordState(s) \/ Poll(s)
    \/ Abandon(s) \/ Result(s) \/ Release(s) \/ End(s) \/ List(s) \/ ResumeStatus(s)

Next ==
    \/ \E s \in Server : Begin(s) \/ Run(s) \/ Renew(s) \/ Claim(s) \/ Crash(s)
    \/ Lapse \/ Outage \/ Recover
    \/ \E id \in Id : Finish(id) \/ \E s \in Server : Reconcile(s, id) \/ Leftover(s, id) \/ Cancel(s, id)

Spec == Init /\ [][Next]_vars

\* A run goes on while its process lives, leases are renewed and claimed on
\* tickers, an outage ends, and the provider works through what it has started.
Fairness ==
    /\ \A s \in Server : WF_vars(Run(s)) /\ WF_vars(Renew(s)) /\ WF_vars(Claim(s))
    /\ WF_vars(Lapse) /\ WF_vars(Recover) /\ WF_vars(\E id \in Id : Finish(id))

FairSpec == Spec /\ Fairness

-----------------------------------------------------------------------------
\* Safety

TaskPassed(t) == \E id \in Id : recs[id].task = t /\ verdict[id] = "succeeded"
Passed == CHOOSE n \in 0..Tasks : /\ \A t \in 1..n : TaskPassed(t)
                                  /\ n < Tasks => ~TaskPassed(n + 1)

Promise == INSTANCE DispatchPromise WITH
    state <- row.state, passed <- Passed,
    failed <- (\E id \in Id : verdict[id] = "failed")

\* Through retries, takeovers by another server, lost writes and cancellations,
\* what the dispatch's row says is the abstract dispatch: an ending is true to
\* what the providers did and is written once (Finish, end, ended,
\* FinishDispatch).
PromiseKept == Promise!Spec

\* No task is started before the one it follows has passed, whatever else is
\* still running or has been given up on (Run's fail-fast).
FailFast == \A id \in Id : recs[id].task > 1 => TaskPassed(recs[id].task - 1)

\* The attempts of a task are a chain a reader of the records can follow: they
\* are numbered from 1, each names the one before it, no provider is asked
\* twice and there are never more than the budget (attempt, prepare).
RetryChain ==
    /\ \A id \in Id : recs[id].attempt \in 1..Budget
    /\ \A id \in Id : recs[id].previous =
          (IF recs[id].attempt = 1 THEN 0 ELSE id - 1)
    /\ \A id \in Id : recs[id].attempt > 1 =>
          recs[id - 1].task = recs[id].task /\ recs[id - 1].attempt = recs[id].attempt - 1
    /\ \A a, b \in Id : a # b /\ recs[a].task = recs[b].task => recs[a].provider # recs[b].provider

\* The answer the providers gave, which the dispatch ought to be recorded with.
Answer == IF Passed = Tasks THEN "succeeded"
          ELSE IF recs # <<>> /\ verdict[Len(recs)] = "failed" THEN "failed"
          ELSE "unanswered"

\* Work that ended inside Submit leaves nothing to ask about, and that of a pool
\* can be asked after by the server that submitted it only.
Askable ==
    /\ recs # <<>> /\ ~FinishesInSubmit(KindOf(Len(recs)))
    /\ \A s \in row.owners : ~Blind(s, Len(recs))

\* A server that dies, at any point and however often, costs no answer that can
\* still be asked for: the one that takes the dispatch over, or the same one when
\* it is back, finds the last execution at its provider or its result in the
\* record (Resume, resume, ended).
AnswerSurvivesCrash ==
    row.state \in Ending /\ mishaps \subseteq {"crash"} /\ Askable => row.state = Answer

-----------------------------------------------------------------------------
\* Liveness, under Fairness

\* A run follows a pool's start that was cut short, which reports "accepted" for
\* as long as it is asked (Containerd.Submit, watch).
FollowsStuck == \E s \in Server : run[s].pc = "poll" /\ work[run[s].id] = "stuck"

\* A dispatch that was started ends, whoever dies and whatever the store does,
\* unless it is left following such a start (claim; docs/dispatch.md).
DispatchEnds == row.state = "running" ~> (row.state \in Ending \/ FollowsStuck)

-----------------------------------------------------------------------------
\* What the documentation says of the program, and the program does not do

\* docs/dispatch.md, of a dispatch whose ending was lost to an outage: the next
\* claim "asks the provider again, records the result, settles quota and writes
\* the ending".
EndingRecovered ==
    \A how \in {"succeeded", "failed"} :
        (\E s \in Server : /\ run[s].pc = "end" /\ run[s].outcome = how /\ ~up
                          /\ row.state = "running" /\ row.owner = s)
            ~> row.state = how
=============================================================================
