------------------------------- MODULE Ledger -------------------------------
(***************************************************************************)
(* The quota ledger of one provider (internal/ledger, internal/quota and   *)
(* the quota statements of internal/state/postgres): executions reserve    *)
(* what they declare against the provider's pools and their namespace's    *)
(* share, settle at what they cost, and leave what they could not settle   *)
(* to the reapers of the servers sharing the store.                        *)
(*                                                                         *)
(* A step is one serializable transaction, which Postgres runs as if it    *)
(* were alone, except that a reap holds the locks of the rows it claimed   *)
(* while it asks the provider about each.  Under the memory store a reap   *)
(* holds the one mutex meanwhile, which only removes behaviours.           *)
(***************************************************************************)
EXTENDS Integers, FiniteSets, Functions

CONSTANTS
    Executions,    \* how many executions are dispatched
    Namespace,     \* the namespaces they run in
    NamespaceOf,   \* the namespace of each
    Timeouts,      \* the timeouts they may declare, 0 for none
    Pool,          \* the pools of the provider, both layers
    Layer,         \* the layer of each: Total or a namespace
    Meter,         \* what each counts: "executions" or "seconds"
    Limit,         \* the limit of each
    Period,        \* when each resets: "daily" or "monthly"
    Reaper,        \* the servers running the reaper
    Answers,       \* whether the provider keeps a status: a subset of BOOLEAN
    Days,          \* bound: how many days the model runs for
    MonthLength,   \* bound: how many days a month has
    MaxDuration,   \* bound: how long an execution may run
    MaxFaults      \* bound: failed settles, unanswered asks, aborted reaps

Total == "total"

\* Numbered in the order of their IDs, which is the order reservation rows are
\* read in.
Execution == 1..Executions

ASSUME NamespaceAssumption ==
    /\ Total \notin Namespace /\ NamespaceOf \in [Execution -> Namespace]
    /\ IsFiniteSet(Pool) /\ Layer \in [Pool -> Namespace \cup {Total}]
ASSUME QuotaAssumption ==
    /\ Timeouts \subseteq [Execution -> Nat]
    /\ Meter \in [Pool -> {"executions", "seconds"}]
    /\ Limit \in [Pool -> Nat \ {0}] /\ Period \in [Pool -> {"daily", "monthly"}]
ASSUME BoundAssumption ==
    /\ Executions \in Nat /\ Days \in Nat \ {0} /\ MonthLength \in Nat \ {0}
    /\ MaxDuration \in Nat /\ MaxFaults \in Nat /\ Answers \subseteq BOOLEAN

Day == 1..Days

VARIABLES
    answers,   \* the provider keeps a status, fixed by its platform
    pays,      \* the executions whose job pays past the allowance
    declared,  \* the timeout each declares
    day,       \* today
    faults,    \* how many of MaxFaults have happened
    \* the store
    used,      \* quota_usage: what has settled, by pool and period key
    rows,      \* the reservation rows each execution inserted
    held,      \* the executions whose rows are still there
    stale,     \* the executions that reserved over StaleAfter ago
    \* the executions and their runs
    run, took,
    settled,   \* history: how a reservation was resolved
    \* the reapers
    claimed,   \* the rows each holds locked
    asked      \* the verdicts each has been given

config   == <<answers, pays, declared>>
vars == <<config, day, faults, used, rows, held, stale, run, took, settled, claimed, asked>>
reapVars == <<claimed, asked>>

Key     == Pool \X (1..Days)
Row     == [pool : Pool, period : 1..Days, amount : Nat]
Verdict == {"keep", "drop", "finished", "stand"}
RunState == {"new", "refused", "reserved", "dead", "running", "ended", "over"}

TypeOK ==
    /\ answers \in Answers /\ pays \subseteq Execution /\ declared \in Timeouts
    /\ day \in Day /\ faults \in 0..MaxFaults
    /\ used \in [Key -> Nat] /\ rows \in [Execution -> SUBSET Row]
    /\ held \subseteq Execution /\ stale \subseteq held
    /\ run \in [Execution -> RunState] /\ took \in [Execution -> 0..MaxDuration]
    /\ settled \in [Execution -> {"no", "drop", "finished", "stand"}]
    /\ claimed \in [Reaper -> SUBSET held]
    /\ asked \in [Reaper -> [Execution -> Verdict \cup {"unasked"}]]
    /\ \A r, s \in Reaper : r # s => claimed[r] \cap claimed[s] = {}

Unasked == [x \in Execution |-> "unasked"]

Init ==
    /\ answers \in Answers /\ pays \in SUBSET Execution /\ declared \in Timeouts
    /\ day = 1 /\ faults = 0
    /\ used = [k \in Key |-> 0] /\ rows = [x \in Execution |-> {}]
    /\ held = {} /\ stale = {}
    /\ run = [x \in Execution |-> "new"] /\ took = [x \in Execution |-> 0]
    /\ settled = [x \in Execution |-> "no"]
    /\ claimed = [r \in Reaper |-> {}] /\ asked = [r \in Reaper |-> Unasked]

-----------------------------------------------------------------------------
\* Pricing

\* The calendar key a pool counts under: a period is a key nothing has been
\* written to yet, so a rollover needs no step of its own.
PeriodKey(pool) ==
    IF Period[pool] = "daily" THEN day ELSE 1 + (day - 1) \div MonthLength

\* What running for duration costs on a pool; a count is charged whatever the
\* duration, and a pool of seconds is not charged without one.
Price(pool, duration) == IF Meter[pool] = "executions" THEN 1 ELSE duration

\* The pools x is counted against: the provider's and its namespace's share.
PoolsOf(x) == {p \in Pool : Layer[p] \in {Total, NamespaceOf[x]}}

Charges(x) ==
    {[pool |-> p, period |-> PeriodKey(p), amount |-> Price(p, declared[x])] : p \in PoolsOf(x)}

\* The rows x has at a counter, and what they reserve of it.
RowsAt(x, k)   == {row \in rows[x] : <<row.pool, row.period>> = k}
Reserved(x, k) == SumFunction([row \in RowsAt(x, k) |-> row.amount])

\* Settled plus reserved usage of a counter.
Standing(k) == used[k] + SumFunction([x \in held |-> Reserved(x, k)])

\* Mutants: usage only counts once settled; the share is left to admission.
FitsSettled(x) ==
    x \notin pays => \A c \in Charges(x) :
        c.amount > 0 => used[c.pool, c.period] + c.amount <= Limit[c.pool]

\* Every pool x charges has room for it; a job that pays has no ceiling.
Fits(x) ==
    x \notin pays => \A c \in Charges(x) :
        c.amount > 0 => Standing(<<c.pool, c.period>>) + c.amount <= Limit[c.pool]

-----------------------------------------------------------------------------
\* Resolving reservations

\* What a verdict adds to a row's counter.
Cost(x, row, verdict) ==
    CASE verdict = "drop"     -> 0
      [] verdict = "finished" -> Price(row.pool, took[x])
      [] verdict = "stand"    -> row.amount

\* And the rows of x at a counter.
Costs(x, k, verdict) == SumFunction([row \in RowsAt(x, k) |-> Cost(x, row, verdict)])

\* Mutants: settling counts today; settling gives back what was not used.
SettleToday(done) ==
    /\ used' = [k \in Key |-> used[k] + SumFunction([x \in DOMAIN done \cap held |->
           SumFunction([row \in {row \in rows[x] : <<row.pool, PeriodKey(row.pool)>> = k} |->
               Cost(x, row, done[x])])])]
    /\ held' = held \ DOMAIN done /\ stale' = stale \ DOMAIN done
    /\ settled' = [x \in Execution |->
           IF x \in DOMAIN done \cap held THEN done[x] ELSE settled[x]]

SettleRefunds(done) ==
    /\ used' = [k \in Key |-> used[k] + SumFunction([x \in DOMAIN done \cap held |->
           Costs(x, k, done[x]) - Reserved(x, k)])]
    /\ held' = held \ DOMAIN done /\ stale' = stale \ DOMAIN done
    /\ settled' = [x \in Execution |->
           IF x \in DOMAIN done \cap held THEN done[x] ELSE settled[x]]

\* Deletes the rows of the executions done maps to a verdict and adds what each
\* cost in the periods it reserved in; one with no rows settles to nothing.
SettleQuota(done) ==
    /\ used' = [k \in Key |-> used[k] + SumFunction([x \in DOMAIN done \cap held |->
           Costs(x, k, done[x])])]
    /\ held' = held \ DOMAIN done /\ stale' = stale \ DOMAIN done
    /\ settled' = [x \in Execution |->
           IF x \in DOMAIN done \cap held THEN done[x] ELSE settled[x]]

Locked == UNION {claimed[r] : r \in Reaper}

-----------------------------------------------------------------------------
\* The runs

\* Reserve: one row per pool, the pools it is charged nothing included; nothing
\* is held against a provider that has no pools for x.
Reserve(x) ==
    /\ run[x] = "new"
    /\ \/ /\ Fits(x)
          /\ rows' = [rows EXCEPT ![x] = Charges(x)]
          /\ held' = (IF Charges(x) = {} THEN held ELSE held \cup {x})
          /\ run' = [run EXCEPT ![x] = "reserved"]
       \/ /\ ~Fits(x) /\ run' = [run EXCEPT ![x] = "refused"]
          /\ UNCHANGED <<rows, held>>
    /\ UNCHANGED <<config, day, faults, used, stale, took, settled, reapVars>>

\* The provider accepts the submission, or the run dies before it is made.
Submit(x) ==
    /\ run[x] = "reserved"
    /\ run' \in {[run EXCEPT ![x] = "running"], [run EXCEPT ![x] = "dead"]}
    /\ UNCHANGED <<config, day, faults, used, rows, held, stale, took, settled, reapVars>>

\* The work ends, having run for as long as it did.
Finish(x) ==
    /\ run[x] = "running" /\ run' = [run EXCEPT ![x] = "ended"]
    /\ \E d \in 0..MaxDuration : took' = [took EXCEPT ![x] = d]
    /\ UNCHANGED <<config, day, faults, used, rows, held, stale, settled, reapVars>>

\* charge: waits for the rows' locks; once the reaper has them settled this
\* finds none.
Settle(x) ==
    /\ run[x] = "ended" /\ x \notin Locked
    /\ run' = [run EXCEPT ![x] = "over"]
    /\ SettleQuota([y \in {x} |-> "finished"])
    /\ UNCHANGED <<config, day, faults, rows, took, reapVars>>

\* The settle could not be written, or no result came to settle from: the
\* reservation stands.
SettleFails(x) ==
    /\ run[x] = "ended" /\ faults < MaxFaults /\ faults' = faults + 1
    /\ run' = [run EXCEPT ![x] = "over"]
    /\ UNCHANGED <<config, day, used, rows, held, stale, took, settled, reapVars>>

-----------------------------------------------------------------------------
\* The reapers

\* A provider without a status ends its work inside Submit, well within
\* StaleAfter; the wait before Submit stays within it too.
GrowStale(x) ==
    /\ x \in held \ stale /\ run[x] # "reserved" /\ (answers \/ run[x] # "running")
    /\ stale' = stale \cup {x}
    /\ UNCHANGED <<config, day, faults, used, rows, held, run, took, settled, reapVars>>

\* Takes the stale rows no other reaper has locked.
Claim(r) ==
    /\ claimed[r] = {} /\ stale \ Locked # {}
    /\ claimed' = [claimed EXCEPT ![r] = stale \ Locked]
    /\ UNCHANGED <<config, day, faults, used, rows, held, stale, run, took, settled, asked>>

\* Mutant: a provider that keeps no status is asked again for ever.
ResolveByStatus(x) ==
    IF ~answers THEN {"keep"}
    ELSE CASE run[x] = "dead"    -> {"drop"}
           [] run[x] = "running" -> {"keep"}
           [] run[x] = "ended"   -> {"finished", "stand"}
           [] OTHER              -> {"finished", "stand", "drop"}

\* What may be made of the provider's answer.  It does not know work that was
\* never begun or has been released since, as its run does once it is over; of
\* work that ended it may not have recorded when.
Resolve(x) ==
    IF ~answers THEN {"stand"}
    ELSE CASE run[x] = "dead"    -> {"drop"}
           [] run[x] = "running" -> {"keep"}
           [] run[x] = "ended"   -> {"finished", "stand"}
           [] OTHER              -> {"finished", "stand", "drop"}

\* The claimed rows still to be asked about, which is done one by one.
Pending(r) == {x \in claimed[r] : asked[r][x] = "unasked"}

Ask(r, x) ==
    /\ x \in Pending(r) /\ \A y \in Pending(r) : x <= y
    /\ \/ /\ \E verdict \in Resolve(x) : asked' = [asked EXCEPT ![r][x] = verdict]
          /\ faults' = faults
       \/ /\ asked' = [asked EXCEPT ![r][x] = "keep"]        \* no answer
          /\ faults < MaxFaults /\ faults' = faults + 1
    /\ UNCHANGED <<config, day, used, rows, held, stale, run, took, settled, claimed>>

Unlock(r) ==
    /\ claimed' = [claimed EXCEPT ![r] = {}] /\ asked' = [asked EXCEPT ![r] = Unasked]

\* Settles those it was given a verdict on, and keeps the others.
Commit(r) ==
    /\ claimed[r] # {} /\ Pending(r) = {}
    /\ SettleQuota([x \in {y \in claimed[r] : asked[r][y] # "keep"} |-> asked[r][x]])
    /\ Unlock(r)
    /\ UNCHANGED <<config, day, faults, rows, run, took>>

\* A serialization failure, an unreachable store or the server's end: nothing
\* of the reap is written.
Abort(r) ==
    /\ claimed[r] # {} /\ faults < MaxFaults /\ faults' = faults + 1
    /\ Unlock(r)
    /\ UNCHANGED <<config, day, used, rows, held, stale, run, took, settled>>

-----------------------------------------------------------------------------

NextDay ==
    /\ day < Days /\ day' = day + 1
    /\ UNCHANGED <<config, faults, used, rows, held, stale, run, took, settled, reapVars>>

Next ==
    \/ \E x \in Execution : \/ Reserve(x) \/ Submit(x) \/ Finish(x) \/ Settle(x)
                            \/ SettleFails(x) \/ GrowStale(x)
    \/ \E r \in Reaper : \/ Claim(r) \/ Commit(r) \/ Abort(r)
                         \/ \E x \in Execution : Ask(r, x)
    \/ NextDay

Spec == Init /\ [][Next]_vars

\* The provider's work ends, an hour goes by, and a server's reaper runs every
\* five minutes; which server gets a row first is nobody's choice.
Fairness ==
    /\ \A x \in Execution : WF_vars(Finish(x)) /\ WF_vars(Submit(x)) /\ WF_vars(GrowStale(x))
    /\ \A r \in Reaper :
          /\ WF_vars(Claim(r)) /\ WF_vars(Commit(r))
          /\ \A x \in Execution : WF_vars(Ask(r, x))

FairSpec == Spec /\ Fairness

-----------------------------------------------------------------------------
\* Properties

\* Every execution is counted once in each of its pools, in the period it
\* reserved in, at what it was first resolved to cost - however its settle raced
\* the reapers, whatever was retried and whichever day it is by then
\* (SettleQuota, Reap).
UsageIsCosts ==
    \A k \in Key : used[k] =
        SumFunction([x \in {y \in Execution : settled[y] # "no"} |-> Costs(x, k, settled[x])])

\* What an execution has a counter at: its reservation or what it settled at.
Counted(x, row) == IF x \in held THEN row.amount ELSE Cost(x, row, settled[x])

Smaller(a, b) == IF a <= b THEN a ELSE b

\* What an execution takes of a counter, within what it declared.
Within(x, k) == SumFunction([row \in RowsAt(x, k) |-> Smaller(row.amount, Counted(x, row))])

\* Only a job that pays, or a run that outlasts the timeout it declared, takes a
\* pool past its limit: the others, within what they declared, never add up to
\* more, across servers, namespaces, layers and the end of a period (Reserve).
NeverOversold ==
    \A k \in Key : SumFunction([x \in Execution \ pays |-> Within(x, k)]) <= Limit[k[1]]

\* A reservation does not stand for ever, whatever its run failed to do and
\* however the reapers get in each other's way (Reap, resolve).
EveryReservationResolved == \A x \in Execution : x \in held ~> x \notin held
=============================================================================
