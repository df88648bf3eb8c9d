# A TLA+ model of Vagabond

Vagabond takes jobs, picks for each of their tasks a provider with free quota
(Cloud Run, Lambda, or a pool of one's own nodes), submits the task there,
follows it, charges what it cost and records how it ended. Several servers may
share one Postgres store; any of them may die at any point, and another takes
over what it was running.

These modules model the part of that where the order of events matters: one
execution against its record, its reservation and its provider; a whole
dispatch under a lease that may change hands while the store comes and goes;
the quota ledger settled by runs and reapers at once; a pool of agent nodes
whose sessions drop while workloads start, run and are released; a request to plan
or dispatch a job, from its document to the ranking of its providers, while jobs,
providers and usage move; and a provider's credential that changes under its
callers. TLC checks small instances of each; eight modules of theorems prove the
safety properties of those runs for any set of servers, platforms, nodes, executions,
pools, jobs and callers.

Paths below are relative to the repository; `dispatch/` and the like stand for
`internal/dispatch/`.

## 1. The system

### Components

| component | state it keeps | operations | what makes it correct |
|---|---|---|---|
| dispatch engine (`dispatch/`) | per run, in memory: the record being tracked, the ranking left, attempts used | reserve, create the record, wait, submit, poll, read the result, release, charge, end | the record is true to the provider; the quota is charged once; tasks run in order; the ending is written once |
| leases and takeover (`dispatch/lease.go`, `resume.go`, `server/resume.go`) | owner and expiry in the dispatch's row | hold, renew, lose, release, claim, resume | every dispatch ends though its server died; a server that lost its lease cannot change the ending |
| execution records (`execution/`) | state, result, released, reconciled | `To`, conditional `Update` | the state machine, whoever writes from whatever copy |
| release loop (`dispatch/release.go`) | nothing but marks in the records | release leftovers, reconcile lost executions | leftovers are deleted in the end; nothing is deleted that still runs |
| reaper (`dispatch/reap.go`, `ledger.Reap`) | nothing; row locks while it asks | verdict on each reservation over an hour old | every reservation is resolved, at what the work cost |
| ledger and quota (`ledger/`, `quota/`) | usage per pool and period, reservation rows, a snapshot for plans | Reserve, Settle, Reap, Refresh | pools are not oversold; usage is the sum of costs, in the period reserved |
| stores (`state/memory`, `state/postgres`) | the rows of all of the above, and jobs | conditional updates, claims, serializable transactions | each operation is atomic or changes nothing |
| server (`server/`) | which dispatches run here, who waits on them | start, track, cancel, claim, upkeep tickers, HTTP, agent sessions | a cancel reaches the run or the provider; upkeep comes round |
| provider contract (`plugin/`) | none | Submit and the optional Status, Result, Cancel, Release | failures classified so that nothing is retried that may run twice |
| platforms (`providers/gcp`, `aws`) | held by the platform | the contract's | as the contract |
| pool provider (`providers/pool`), node connections (`nodes/`, `server/agent_rpc.go`) | connections, reports, who was placed where since | place, forward calls, locate, deregister | a node is not given more than it reported free; "unknown" means gone, where its nodes can be asked |
| agent (`agent/`, `agent/executor`) | room reserved in this session; containers | Submit, Status, Result, Cancel, Release; register | room is not given twice; what was started can be found again |
| registry (`registry/`) | capabilities, health, credentials per provider | Refresh, Inputs, Recredential | a plan reads a consistent, not too old, answer |
| scheduler (`scheduler/`) | none | admit, rank, plan | pure: a provider is refused for a reason that holds, the ranking is a total order |
| jobs (`jobs/`) | versions per job, the current one, stopped | register with check-and-set, load, stop | versions are consecutive; a stopped job is not dispatched |
| job specification (`jobspec/`, `job/`, `jobs/load.go`) | none | evaluate metadata, validate, load | what registers on placeholders is refused later only for what the dispatch's metadata makes of it |
| configuration (`config/`) | none at run time | merge a directory, validate, resolve credentials | what loads can be built and enforced |
| CLI, API client | none | flags, formatting, HTTP calls | out of scope here |

### How they interact

A server's handler starts a dispatch: it plans (scheduler over `registry.Inputs`
and the ledger's snapshot), writes the dispatch's row with a lease, and runs the
tasks one after another in a goroutine that nothing waits for. For each attempt
the run calls, in this order, `Ledger.Reserve`, `Create`, `Submit`, `Update`,
`Status` over and over, `Update`, `Result`, `Update`, `Release`, `MarkReleased`,
`Ledger.Settle`; in the end it writes the dispatch's ending. Every one of these
may fail, most failures are logged and passed over, and the process may die
between any two.

Beside the runs, on every server, tickers call the claim (30 s), the reaper (5
min), the release loop (5 min), the usage read (15 s) and the capability refresh
(1 min). They act on the same records, reservations and providers as runs of
their own or of other servers, and synchronise with them only through the
store's conditional writes and through ages: `LeaseTTL`, `ReleaseAfter` (10
min), `StaleAfter` (1 h). A cancel goes to the run if it is on the server asked,
and to the provider and the record directly otherwise.

### What is hard

- two servers run the same dispatch for a while, because a lease lapsed late;
- a call fails after it took effect, or its answer is lost;
- a process dies between any two calls, and what it held is found by age alone;
- the provider forgets work on being told to release it, which decides what
  anyone who asks later will conclude;
- the store is unreachable while the provider is not.

`PROJECT.json` lists the hazards one by one, each at its line, with the
properties that cover it.

## 2. The modules

| module | models |
|---|---|
| `Execution` | the state machine and record of one execution, `Update` |
| `Plugins` | the platforms: which calls each has and what it keeps |
| `ExecutionRecord` | abstract: what a stored record promises its readers |
| `Lifecycle` | one execution, call by call: runs on several servers, reaper, release loop, cancel, provider |
| `LifecycleProofs` | theorems about `Lifecycle` |
| `DispatchPromise` | abstract: what a dispatch promises whoever started it |
| `Dispatch` | one dispatch of several tasks and attempts, leases, takeover, outages of the store |
| `DispatchProofs` | theorems about `Dispatch` |
| `AnswerProofs` | a theorem about `Dispatch` without pools, of crashes |
| `Ledger` | the pools of one provider, reservations of several executions, reapers, days |
| `LedgerProofs` | theorems about `Ledger` |
| `Nodes` | agent nodes, their sessions, what they report and what the server makes of it |
| `Agent` | extends `Nodes`: the workloads of a node, the room it gives out, how far a start got |
| `Pool` | extends `Agent`: placing, locating, following and releasing executions on nodes |
| `PoolPromise` | abstract: what a pool promises of each execution's workload |
| `PoolProofs` | theorems about `Pool` |
| `LeftoverProofs` | theorems about `Lifecycle`, of what is dropped and what is marked released |
| `Quota` | meters, budgets, what an execution charges and what is left |
| `Attributes` | what providers publish, how constraints and affinities compare |
| `Scheduler` | admission: every check, of a provider and of a pool's members |
| `Ranking` | extends `Scheduler`: scores and the order of candidates |
| `JobSpec` | extends `Scheduler`: which documents load with which metadata, and the request a task makes |
| `Config` | extends `Scheduler`: the files of a configuration, merged and validated |
| `Jobs` | extends `JobSpec`: registered jobs, their versions, stopping |
| `Registry` | extends `Config`: capabilities, health, the usage snapshot; what admission is given |
| `Planning` | composes `Jobs`, `Registry`, `Ranking`: a server answering plans and dispatches |
| `PlanningProofs` | theorems about `Planning` |
| `Credentials` | a provider's credential, rejected, resolved again and handed over |
| `CredentialsProofs` | a theorem about `Credentials` |
| `MC...` | instances of these for TLC |

**Lifecycle.** `pc[s]` is where server `s` stands in the sequence above, `mem[s]`
the tracked record its run works from, and `seen`, `cancelled` and `answered` what it
was last told. `rec` is the stored record, `reservation` and
`charges` the ledger's view, `work` what the provider holds, `verdict` how the work
really ended. Every provider or store call is an action, which succeeds or,
at the cost of a fault, fails the way the code's caller sees it; where a failed
call may have taken effect both are possible. The run's actions follow
`dispatcher.go` and `poll.go`; a resumed run enters at `List` (`resume.go`).
`Reap`, the `Loop...` actions and the `Cancel...` actions are the other writers. Time
is three actions: `Age` (`ReleaseAfter` has gone by since the record changed),
`GrowStale` (`StaleAfter` since it reserved) and `Expire`. They may happen
whenever no run is in a step between two waits (`Brisk`): those take
seconds against ten minutes. The waits are the backoff, whose cap is the operator's,
`Submit`, in which a pool node pulls an image for as long as that takes, and
following; any age may come in any of them.

A pool does not always know what its nodes have. `home` is the server that the pool's
agents are connected to, and of what they have every other server (`Blind`) hears
"lost", then "unknown" (`pool/executions.go:137-199`,
`docs/deployment.md:208-213`). At home too the execution is unknown if its node is
offline past the grace and `placed`, which is memory, does not name it
(`Unknowable`, at the cost of a fault). Whoever acts on such an answer, or on one
heard while the work was still to be submitted, is `misled`: a history variable that holds "run",
"loop" or "reaper", and by which the properties say what the answer costs. Work is
"stuck" where a pool's start was cut short (`containerd.go:173-200`): its container
answers "accepted" for ever. `loopAt` is the server whose release loop has the execution.

**Dispatch.** Here the executions are many and a provider call and the write
of the record after it are one step; the store is up or down, and a store
call fails exactly while it is down. `row` is the dispatch's row with its lease and,
as history, its `owners`; `recs` its executions in order of creation, each with the server it
was submitted from (`home`). `Known` says whether a server's question finds the
execution, `Told` what it may be answered: a pool on another server says "lost", and
then that it knows of none. `Leftover` is the release loop taking up an execution
whose run is still at work (the mishap "late"), which `Lifecycle` shows step by
step. `EndedAs` is `resume.go`'s `ended`.

**Ledger.** Two layers of pools (a provider's total, a namespace's share) counting
executions or seconds by day or month. `Reserve` is the conditional insert of
`quota.sql`; `SettleQuota` deletes rows and adds the cost in the period
reserved; a reaper claims rows, asks about each, and commits or aborts. `Resolve` is
the set of what may be made of an answer: work that ended may have recorded no end,
and work whose run is over may have been released and be unknown. A provider that is no longer
configured, whose reservations `reap.go` keeps for good, is left out, and what a
pool answers elsewhere is `Lifecycle`'s subject.

**Nodes, Agent, Pool.** `session`, `open` and `sent` are the agent's end of its
connection, `serving`, `conn` and `left` the server's, which learns of a session's
end on its own (`Remove`) and may handle a report after it (`Register`). `box` is
the container of each execution on each node, which outlives sessions, the agent
and the server; `starting` the submissions in flight, each of which passes
through the states of `Containerd.Submit` and may fail or be interrupted in any.
`placed` and `reserved` are what the provider holds in memory and loses in a
restart (`Restart`), after which `fresh` stands for `leftGrace`. `run` says how
far the dispatch of an execution came. `LeftFor` is the release loop's list: it lets
`ReleaseAfter` go by, in which every node that is not `away` has been back and reported,
and takes up any begun execution that is not `marked` released, also one whose run is
still calling or following. `listed` is the copy of the record the loop then works from
("submitting", "open" without a result, "read" with one), and `Loop` acts on it later,
when the record may say something else. A box is "deleted" for good, which tells a workload that
is gone from one that was never made. `Where`, `Life` and `Outcome` are what of this is left for `PoolPromise`:
which nodes have the workload, how far it came, and what became of the run that waits
for it. Resources are one dimension in units; the health of the store and
of the ledger is `Lifecycle`'s subject and left out.

**Quota, Attributes, Scheduler, Ranking, JobSpec, Config.** Pure operators, one per
function of the code, over records that hold what the code's structs do. What a
document, task or provider may leave out is a set of at most one value, which is
what a nil pointer is in the code. A text, number or duration is a tagged value
that says how it reads, so that `Compare` can ask the same questions as `match.go`
(does each side parse as a duration, an integer, a float) without spelling. Every
check of `admit.go` is a predicate named for what it refuses. The reasons a provider
is refused for are a set, `Checkers` is the order the checks run in, and
`FirstReason` the one a plan shows. What the code sorts, `Arranged` puts at the place
that as many members come before it, which is the same and needs no recursion; for
the same reason an affinity of weight w is worth a set of w `Points`. Scores are fractions, kept
as numerator and denominator: the code adds floats, and candidates whose exact
scores are equal may differ there in the last bit. A document is the sequence of
its job blocks with expressions still in it, since the difference between registering
and dispatching is when those are evaluated. What an expression comes to with some
metadata is the constant `Value`: a literal, a reference, a template, a condition or anything else
HCL can compute, one function of the expression and the metadata. `gohcl` evaluates
every typed attribute with it (`Decodes`, `Bind`), and a number or a flag is read off what
it comes to as off its text. So a condition that is a valid amount on placeholders and none
on what a dispatch supplies is a document of the model (`MCPlanning` has such a cpu
and such an image). Two things the code does and one may not expect are kept: an `image`
that is null, or comes to an empty text, passes validation
(`ValidConfig` asks only that the attribute is there), and an `image` that comes to a list or
an object is found out only when the task is run (`Image`).

**Jobs, Registry, Planning.** `jobs` and `versions` are the two tables of the job
store; `Register` and `Stop` are one transaction each, and the two reads of
`jobs.Current` are two actions (`ReadJob`, `LoadVersion`). `actual` is what a provider
advertises now, `known` and `healthy` what the registry keeps of it; a refresh asks
each provider in a step of its own and applies all answers in one, under the lock.
`usage` is the store's counters, `snapshot` the ledger's, and `reading` what each
reader has read and not applied yet. A client's request goes through `ask`, `at`,
`version`, `document`, `task`, `verdict`; `seen` is a history variable, the versions
that were current since it asked. `Place` judges a task with `PlanTask` against
`Inputs`, as `RunTask` does, and what happens after is module `Dispatch`. Jobs,
providers and counters do not act on one another, and nothing a request does
changes any of them, so in one behaviour only one of the three moves (`moving`), and
requests by name, the only ones that look at the job store, are asked only where
jobs move.

**Credentials.** `valid`, `source` and `held` are generations of one credential: the
one the platform accepts, the one its source gives, the one the provider calls
with. A caller's steps are `authorize.go`'s, `Lock`, `Resolve`, `Hand` and `GiveUp` are
`Registry.Recredential`, and `recent` is the minute it waits between credentials. A
resolution or hand-over that fails is not remembered there, so the next rejected
call tries again at once.

## 3. The runs

| run | bounds | shows |
|---|---|---|
| `lifecycle` | 2 servers (symmetric), Cloud Run and pool, with quota, 2 faults | safety of one execution and its record |
| `lifecycle_live` | 2 servers, Lambda and pool, with and without quota, 1 fault | the dispatch ends, the reservation is resolved, leftovers go, lost executions are reconciled |
| `dispatch_tasks` | 2 servers (symmetric), 2 tasks, 1 attempt, pool and Cloud Run, 2 mishaps of 5 kinds | tasks in order, true endings, crashes cost no answer that can be asked for |
| `dispatch_retries` | 2 servers, 1 task, 2 attempts, Lambda and pool, 2 mishaps of 5 kinds | the chain of attempts, true endings, the dispatch ends |
| `ledger` | 2 executions, 3 pools, 2 reapers, 2 days, 1 fault | counted once at cost, not oversold, resolved |
| `pool` | 2 nodes of 2 units (symmetric), executions of 1 and 2 units, 1 fault: a restart, a node that goes away or a failed call | no node overcommitted, no execution on two nodes, the pool's promise |
| `pool_live` | 2 nodes, 1 execution, 2 faults, dropped sessions among them | the pool's promise, released means deleted where the server can look, nodes are cleared, connections follow sessions |
| `planning` | 1 request of the kinds in `MCAsks`; the documents of `MCDocument`, of up to 2 tasks, with conditions among their expressions, 2 versions; 3 providers (a pool of two nodes, a cloud provider with a budget and a share of it, a disabled one), 2 adverts each, 2 levels of usage | versions dispatched are current, what registers is refused later only for what metadata made of it, nobody is blamed for what is not known, a plan that calls a task hopeless misses no reprieve, the order of candidates, what is left of a budget, the snapshot catches up |
| `credentials` | 2 callers, 2 changes of the credential | one resolution at a time and per minute, the provider recovers |
| `lifecycle_loop` | 2 servers (symmetric), a pool without quota, no faults | see Findings |
| `dispatch_outage` | 1 server, 1 task, 1 outage | see Findings |
| `pool_offline` | 1 node, 1 execution, 2 dropped sessions | see Findings |

Why these bounds. A third server can only do what the second does: a run never
looks at who else runs, only at the store, and the theorems hold for any set of
servers. Two faults are the least with which a takeover may itself go wrong
(one to lose the first server, one to disturb the second); with three the state
space of `lifecycle` is out of reach and nothing in the code counts failures
beyond the bounded poll retries, whose exhaustion is one step of the model. Two tasks are
the least that have an order, two attempts the least that form a chain. The
ledger's limits are chosen so that both executions fit one pool and not the
others, and its two days so that a reservation outlives its period. In `pool` a
node has room for either execution but not for both, so both races, for the node
and for the room, are on; deadlock is not checked in the runs of `Pool`, where
everything may have been released or given up and nothing be left to do.
`pool_live` has one execution, since executions share nothing but room, and two
faults, so that what a first drop left behind meets a second; a dropped session is
one of its faults and not one of `pool`'s, which would not end in time with it.
`PromiseKept` is checked in both: only two executions make a node refuse one, so that
another is tried, and only two faults lose a session and the server in one behaviour.
In the runs of `Lifecycle` and `Dispatch` two servers are also what a pool needs to be
asked from the wrong one. In `planning` the
requests (`MCAsks`) and documents are chosen so that requests are turned down in
every way a handler has (metadata missing, undeclared, empty or unfit; a namespace
nobody declared, a job stopped or never registered) and every reason of admission
occurs but `attribute-unknown`, which validation refuses before. One client is
enough, because requests share nothing but the snapshot, and the ticker is the
other reader of that. `MaxVersions = 2` lets a job be registered, stopped and
registered again between two reads; `Level` is an empty and a spent budget; `Starts`
says which providers answer at the beginning, everyone being free to change where
`moving` is "providers". `Form` is the identity: two documents are one form when
they are the same. `MaxInt64` stands for 2^63-1 and is smaller, because TLC itself
computes in 32 bits; what happens at its edge is for the theorems. Two rotations are the least after which a caller may hold the
answer to the one before.

### Fairness

Safety is checked without fairness. The liveness runs assume, as weak fairness:

- a run's next step is taken while its process lives: it is a goroutine, every
  call ends or fails, most by a timeout of their own (an image pull in a pool's
  `Submit` has none: it is taken to end or fail when the node does), and the poll
  retries are bounded;
- claim, reap, release and renewal come round: `server/upkeep.go` runs each
  on its ticker, on every server;
- the provider works through what it was given, and an outage ends. Nothing is assumed
  of a pool's start that was cut short: its container is never started, answers
  "accepted" for ever and is watched by nobody, so a dispatch may follow it, and a
  reservation be held for it, for ever. `DispatchEnds`, `ReservationResolved`,
  `LeftoversReleased` and `NodesAreCleared` name that exception;
- ages come to pass;
- an agent that has not gone for good dials until it is back (`agent.go`'s
  backoff ends at 30 s), reports every 10 s, and the server handles what it
  hears.

For `planning`: the usage ticker goes on and its reads succeed again and again, and
a reader that has read applies what it read (nothing stands between in the code).
For `credentials`, whose property is about a provider that is called for ever by the
loops of `upkeep.go` and the polls: calls are made and end, the minute goes by and a
waiting caller gets the lock (weak fairness). An answer may also be lost, and
resolving or handing over may fail instead, any number of times; that it fails
every time from some point on is excluded (strong fairness of `Rejected`, `Resolve` and
`Hand`), since then no code could recover.

No fault, cancel or crash is ever made to happen, and none is assumed to stop
other than by its bound. A provider removed from the configuration stays removed,
and what it held is excepted in the properties that need its answer. So is, in
`LeftoversReleased`, what was marked released by who was told it is unknown while the
provider had it.

## 4. What is proved

`LifecycleProofs` (tlapm, SMT and Zenon, PTL for the temporal steps):

| theorem | |
|---|---|
| `TypeCorrect` | `Spec => []TypeOK` |
| `Invariant` | `Spec => []Inv`, the inductive invariant |
| `ChargedOnceAlways` | `Spec => []ChargedOnce` |
| `VerdictRecordedAlways` | `Spec => []VerdictRecorded` |
| `RecordImplements` | `Spec => RecordImplemented`: `Lifecycle` implements `ExecutionRecord` |

They hold for every set `Server`, every set of platforms and any number of faults,
wherever a pool's nodes are connected; the assumptions are those named in
`Lifecycle`.

The argument. `ChargedOnce` alone is inductive once the ledger's steps are seen
to test the reservation. `VerdictRecorded` is not: a run writes a state it was told
earlier, so the invariant must say that what each run holds in memory is
still true of the provider. `Inv` is that, in named parts: `WorkInv` relates the
work to its verdict; `RunInv(s)`, for each server, says what `seen` and the
record in memory mean at each `pc`; `LoopInv` and `ApiInv` say the same of the
loop's and the cancel's copies; `RecordInv` and `BeginInv` what the stored
record may hold and what is true before it exists. The key is that a verdict,
once given, never changes (`VerdictKept`), so knowledge of it does not go stale.
Frame lemmas (`LedgerFrame`, `ProviderFrame`, `RecordFrame`, ...) say which parts an
action cannot disturb; `WorkStep`, `RunStep`, `RecordStep`, `LoopStep` and
`ApiStep` treat those it can. For the refinement, `StoredAdvances` shows that a
conditional `Update` from any legal copy is a step of the state machine or none.
`Inv` was checked by TLC on small instances before it was proved.

`DispatchProofs`:

| theorem | |
|---|---|
| `TypeCorrect` | `Spec => []TypeOK` |
| `FailFastAlways` | `Spec => []FailFast` |
| `RetryChainAlways` | `Spec => []RetryChain` |
| `PromiseKeptAlways` | `Spec => PromiseKept`: `Dispatch` implements `DispatchPromise` |

They hold for any servers, any finite set of providers of any kinds, any number of
tasks and attempts, any faults and any number of them (the assumptions named in
`Dispatch`).

The argument. Two servers may be working on one dispatch at once: the one that began
it, its lease lost, and the one that took it over. What saves the properties is that
only the first ever records or submits an attempt (`OneSubmits`): a run that resumed
holds a snapshot and only follows what is in it. So `Inv` says of the run that submits
that the records end with it (`Leads`: every task before its own has passed, its
attempt is the last record, the providers it has left were not asked before), of any
run that what it knows is so (`Sound`: its copies are true, and the ending it would
write was earned), and of the records that none says of the work what did not happen
to it (`Truthful`). These take the records and the verdicts as arguments, and
`GoodStable` shows that another run's step, which removes no record and changes no given
verdict (`Grows`), leaves them so; each action then has one lemma (`SubmitMoves`,
`ReleaseMoves`, ...), of the run that takes it. That an ending computed from local
copies is earned is `EndedTrue`: the last copy answered, and as many tasks were reached
as the job has. For the refinement, `AnswerCounts` shows that an answer makes at most
the next task pass, and `SettledPromise` that a step with no answer begins the
dispatch, ends it with what its run knows, or is a stutter. `Inv` was checked by TLC
on both instances before it was proved.

`AnswerProofs` goes on from it: `AnswerSurvivesCrashWithoutPool`,
`NoPool => (Spec => []AnswerSurvivesCrash)`, under the same assumptions. The property is
about the behaviours in which nothing but crashes happens, any number of them.
`CalmInv`, which is `Calm => Crashes`, says of
those that one run at most has the dispatch, with its lease (`Owned`); that every
execution but the newest is over and recorded so, and was tried again only because the
provider cancelled it (`Tidy`); that the newest either has a record that says all
there is to learn (`Recorded`) or is still known to its provider wherever the record
is silent (`Reachable`); and that the run is where the records end and remembers what
they say (`Knows`). A crash then takes nothing that is not recorded or at the
provider. That the resumed run's verdict from its copies is that of the newest
execution is `EndedAnswers`, and that this is what the providers answered in the end is
`AnswerIsNewest`. Two things cost an answer though nothing but a crash happens: work that
ended inside `Submit`, whose verdict is lost with the process that asked, and work of a
pool once the dispatch has been on another server, which cannot ask after it.
`Askable` is neither. The theorem leaves pools out, because `Knows` does not hold of a run
that is told "unknown" of work that goes on; that the answer survives with a pool too, as
long as its own server has the dispatch, is only model-checked (`dispatch_tasks`).

`PoolProofs`:

| theorem | |
|---|---|
| `Invariant` | `Spec => []Inv`, the inductive invariant |
| `TypeCorrect` | `Spec => []TypeOK` |
| `NeverOvercommittedAlways` | `Spec => []NeverOvercommitted` |
| `OneNodeAlways` | `Spec => []OneNode` |
| `StaysConnectedAlways` | `Spec => StaysConnected` |
| `KnownInvariant` | `Spec => []KnownInv`: what the server knows of the nodes is right |
| `ReleasedIsDeletedAlways` | `Spec => ReleasedIsDeleted` |
| `PromiseKeptAlways` | `Spec => PromiseKept`: the pool implements `PoolPromise` |

They hold for any nodes and capacities, any finite set of executions of any
size, any faults and any number of them (`ExecutionAssumption`, `SizeAssumption`,
`NoNodeAssumption`, `FaultsAssumption`).

The argument. Room is the cardinality of a set of units, so that `RoomMonotone`
and `RoomOfOneMore` are facts about finite sets and no sum is needed. A release
could delete a workload whose start is still in flight, and a claim could come
for one that a node has already, so neither `NeverOvercommitted` nor `OneNode` is
inductive. `Inv` adds `PlaceInv` (what a node has was sent to it and not refused),
`FlightInv` (what is in flight on a node with a session is a call on that very
session), `CallInv` and `SentInv`. Then a step either leaves every node with no
more than it had or is a claim (`StepShrinks`), and a claim fits (`ClaimFits`).
`StaysConnected` follows from `SentInv`: a report handled late is never of a session
older than the one the agent is on.

`ReleasedIsDeleted` is about what the server believes of nodes it may not have heard from,
so `KnownInv` says what reports are worth. What a start has not made yet no node holds
or reports (`UntakenInv`), and no step takes a submission back to there
(`StepUntaken`); so a node reports only what was sent to it (`ReportInv`), and a later
report drops only what it deleted (`LaterInv`). The loop's copy of a record may be out of
date, never wrong: what it says was submitted was, and what it says was read was
(`ListedInv`). What the loop takes up as submitted is reported by every node that
holds it and has reported at all (`SeenInv`): true when the loop takes it up, because the nodes have
settled (`LeftIsSeen`); true of a result read from a node that a report led to
(`FollowedIsSeen`); and kept, because a session begins unheard and its first report
is of everything held (`SeenKept`). `PlacedInv` says that what the server placed it knows
the place of, until a restart or a release; `SessionInv` and `AwayInv` are about
sessions. A step that marks an execution released then leaves no node with it
(`MarkedIsDeleted`): if a node is located, the release deletes where the execution was sent,
and if none is, none that can be asked has it. Two exceptions are left, both of executions whose
place the server does not remember: the loop listed it while it was still being submitted, as a pull of
more than ten minutes makes happen; or its node is not connected just then, and its answer
was lost or the server has been restarted.
`KnownInv` was checked by TLC with one execution and three faults, and with two and
two, before it was proved.

`PromiseKept` is a refinement, shown step by step. The promise is that a workload is made
once, on one node, runs once, and is deleted by no step but the one that records it
released, and then only when it is over. It does not say that a run still waiting for
the result gets it: the release loop deletes a stopped workload whose dispatch has not
read it (Findings), and what is `read` or `lost` is the run's `outcome`. `Inv` already says that at
most one node has anything of an execution (`WhereSent`), so its workload is as far as
it is there (`LifeThere`), or, where nobody has it, still to come or gone
(`LifeNowhere`). What is gone cannot come back, since neither a run's next state nor a
claim leads back to a call (`ComingStep`), and a step that leaves the boxes alone keeps or
withdraws what it finds (`BoxKept`) while the run moves on (`RunKeeps`) or a mark is set
(`MarkKeeps`). The boxes themselves change in four ways only (`BoxStep`), and each is a
step of the promise (`WorkKeeps`); that a release deletes nothing that runs
(`DeletedIsOver`) needs `ReadInv`, by which a result that was read stays over until it is
released, and, for everything else, the question the loop asks first. `ReadInv` was checked by
TLC on `pool_live`.

`LeftoverProofs` goes on from `Inv` of `LifecycleProofs`:

| theorem | |
|---|---|
| `UnchargedOnlyIfForgottenAlways` | `Spec => []UnchargedOnlyIfForgotten` |
| `ReleasedIsOverAlways` | `Spec => []ReleasedIsOver` |

They hold under the assumptions named in `Lifecycle`: any age may come in a run's backoff,
in its `Submit` and while it follows, and a pool may be asked from any server. What the
wrong answers cost is in the properties as `misled`: the reservation of
work that ran is dropped only if the run or a cancel made the provider forget it or a reaper
went by an answer that was wrong; and what is marked released still runs only if the run or the
loop did.

The argument is that only one run ever submits, and once (`OneBegins`), so that work is
absent for good once nobody is on the way to submitting (`Begun`, `AbsentStays`): who
believes "unknown" then is either right or `misled`. `ReaperInv` adds to `Inv` that what
ran has been begun (`BeginsUnran`), that the loop looks only at what was created and releases
only what has no reservation (`LoopAfterCharge`), and that a reservation dropped by nobody
misled is of absent work, which only a release or a cancel makes of work that ran
(`DroppedUnknown`). `ReleaseInv` adds that a result is of work that was submitted
(`ResultsBegun`), that what a run was answered is still true (`AnswerKnown`), and that
whatever is about to be marked, or is, is gone, unless someone was misled (`MarkedGone`).

`PlanningProofs`:

| theorem | |
|---|---|
| `TypeCorrect` | `Spec => []TypeOK` |
| `DispatchesCurrentAlways` | `Spec => []DispatchesCurrent` |
| `RefusedForCauseAlways` | `Spec => []RefusedForCause` |
| `BlankNeverBlamedAlways` | `Spec => []BlankNeverBlamed` |
| `RetryableMissesNothingAlways` | `Spec => []RetryableMissesNothing` |
| `NoneDominatedAlways` | `Spec => []NoneDominated` |
| `FreeIsWhatIsLeftAlways` | `Spec => []FreeIsWhatIsLeft` |
| `FreePercentExact` | a limit of up to `MaxInt64 \div 100` is reported as the docs say, within 0 to 100 |

They hold for any documents, metadata, namespaces, configuration, clients and
requests. `ContentAssumption` says that what a source parses to has the shape of a job
file (`IsDocument`: the blocks of `job/job.go`, `routing.go` and `task.go` with what they
may hold), nothing of whether it is valid nor of what its expressions are: `Value` is any
function of an expression and metadata; `FilesAssumption` that the configuration of the running server is one that loads;
`AdvertAssumption` and `ClientsAssumption` that adverts and their members are sequences
and requests and beginnings what the comments on the constants say; `BeforeAssumption`
that provider names compare as texts do, two different ones one way and all of them
transitively; `NumbersAssumption` that tiers, limits and counters are integers. They
are Go's types and `strings.Compare`, but for `FilesAssumption`, which is `config.LoadPath`
before the server starts.

`DispatchesCurrent` is not inductive for a request that has not read yet, so `SeenInv`
says of one that has been asked that whatever is current now has been seen, and of one
that has read that what it found was. The steps that disturb it are `ReadJob`, which
rests on a standing's being current unless it is stopped (`CurrentVersion`), and
`Registration` and `Stopping`, which add to `seen` before anyone can read what they wrote.

`RefusedForCause` has two halves. One is about the pure operators (`LoadsAgain`): a
document that loads on placeholders, where each key stands as its own text, loads on any
metadata that the declaration permits and on which each of its expressions comes to the
same (`Agree`). Then all that is read off the expressions is the same (`SameTexts`, `SameReading`), so
the attributes convert again (`DecodesAgain`), the references resolve again (`ParsesAgain`) and what is
validated is the same job (`BindsAgain`). So a job that is refused as invalid has an expression that
metadata made into something else; nothing the registration could have found is found
only then. And a job that loads has a task the scheduler is not asked
about only where its image comes to a list or an object (`NoRequestIsOdd`). The other half is the
state: `CauseInv` says that every version stays in its place with a document that was
registered (`JobsInv`), whatever is registered or stopped between a request's two reads, so
that what `LoadVersion` finds under the number `ReadJob` saw is such a document
(`VersionIsKept`), that a request at work holds a document that loads and a task of it
(`NamedInv`), and that what is refused was refused for what it still holds (`RefusedInv`).
`TypeOK` rests on the same invariant, without which the document and the task of a request
need not exist.

The other four are about admission and ranking, in a state that admits what they
need. That `Arranged` arranges is `ArrangedInOrder`: with a total order each member of a
finite set has a place of its own, by how many come before it, so every place is taken
once. `AdmitSays` concludes that each provider configured gets one verdict, among the
candidates or the rejections.

- `BlankNeverBlamed`: `HeardInv` says that a server listens only once every provider was
  asked, that a provider asked and not known is unhealthy, and that no request works
  before the server listens. So a provider nothing is known of is unhealthy; every
  member of it is refused for that (`UnhealthyRefused`), and that check runs before any
  that could blame it (`FirstIsReason`).
- `RetryableMissesNothing` is about plans, which are all that reads `Retryable`
  (`admission.go:158`); a dispatch fails a task without candidates whatever the reason
  (`dispatcher.go:340`). It compares a provider with itself on a better day, when it may
  differ only in usage, health and being enabled (`SameBut`). A reason that does not pass
  is the same on both (`SameMismatches`), because free quota is the only attribute
  published of those (`SameAttributes`). So a pool whose member is admitted then has it
  refused now for reasons that pass only, and these every member shares; the closest,
  the one refused for fewest (`ClosestIsLeast`), can then have no other, and what is shown is
  one that passes (`BetterDay`). The plan calls the task retryable.
- `NoneDominated` is arithmetic. `HeldInv` says that a request at work holds a document
  that loads, so its tier mode and weights are those validation lets through (`JudgedIs`),
  and `InputNumbered` that what is scored are numbers. A score is a sum of fractions over
  denominators all candidates share (`TierParts`, `AffinityParts`), which grows with each
  numerator and strictly (`SumGrows`); being ahead is a total order (`AheadOrders`), the
  ranking is by it (`RankArranges`), and so nothing stands before what it is no better
  than (`RankWastesNothing`).
- `FreeIsWhatIsLeft` needs of the state only that the snapshot holds numbers
  (`InputNumbered`). The percentages of the charged pools are bounded below by the width
  of the counter, wrapped or not (`WrappedIs`, `QuotientIs`), so they have a least
  (`LeastBounded`); the least of the provider's and of the share's is the least of all
  (`InputFreeIsLeast`); and each is the documented one where its product fits
  (`ReportedAsDocumented`, from `FreePercentExact`).

`CredentialsProofs`: `SourceSparedAlways`, `Spec => SourceSpared`, for any callers and
number of rotations. `LockInv`: only the holder of the lock is between `Lock` and
`Hand`, and while it resolves nothing is recent, because only it could make it so.

`LedgerProofs`:

| theorem | |
|---|---|
| `TypeCorrect` | `Spec => []TypeOK` |
| `UsageIsCostsAlways` | `Spec => []UsageIsCosts` |
| `NeverOversoldAlways` | `Spec => []NeverOversold` |

They hold for any number of executions and days, any finite set of pools in any
layers with any limits and periods, any timeouts, reapers and faults (the assumptions
named in `Ledger`; that pools are finitely many is the configuration's being a file).

The argument. Both properties are about sums, of which the library proves nothing
that can be used here, so the proof starts by counting: the sum of a function
`f` over a finite set is the number of its `Units`, `f[x]` pairs for each `x`
(`SumIsCount`, by a smallest subset on which the two would differ). What is then
needed of sums follows from the cardinality of unions and subsets: `SumMonotone`,
`SumSplit`, `SumOfOne`. `NeverOversold` needs `UsageIsCosts`: what the executions take
within what they declared is at most what stands (`StandingBound`: reserved while
held, the cost once resolved), so a reservation that fits beside what stands fits
beside them (`ReserveWithin`), and settling can only take less than was reserved
or what was never promised to be within (`SettleWithin`). The rest of `Inv` says why
a resolution counts once and for good: who is resolved is no longer held, a run
resolved as finished has ended and its duration no longer changes (`RunInv`), and a
reaper told that it finished was told so of a row it holds locked, of a run that had
(`ReapInv`). `Inv` was checked by TLC on the run's instance before it was proved.

Only model-checked: liveness, which needs fairness and ENABLED. These are
`DispatchEnds`, `ReservationResolved`, `LostResolved`, `LeftoversReleased`,
`EveryReservationResolved`, `NodesAreCleared`, `GhostsGo`, `UsageCatchesUp` and
`RotationHeals`. Every other property of the passing runs is a theorem, `AnswerSurvivesCrash`
where no provider is a pool.

## 5. Findings

Each is a run that TLC refutes. All are disagreements between a
statement of the documentation or a comment and what the code does.

- `lifecycle_loop`: the release loop deletes what a dispatch has still to read,
  which `dispatch/release.go:28` says it never does. Work that runs over ten minutes leaves its
  record unchanged that long.
- `pool_offline`: an execution recorded released while a node holds it, though
  `docs/background-services.md:153` has the release of an offline node's
  executions fail and be retried. If the server knows where the execution is
  only from the node's report, because the answer of its submission was lost or
  the server was restarted, then an offline node leaves it unknown, and
  unknown counts as released. The container stays, and if its start was
  cut short so does the room it takes.
- `dispatch_outage`: an ending lost to an outage that the next claim does not
  recover (`docs/dispatch.md:384`). The work was released at the provider though
  its result could not be recorded.

Five more statements that the code does not keep to the letter, which no run of
its own is about:

- `ledger/ledger.go:112` says of a dropped reservation that "the provider never ran
  it". A run releases at the provider before it settles; a reaper that asks in
  between is told the execution is unknown. It takes work longer than an hour.
  `UnchargedOnlyIfForgotten` has the exception and shows it is the only one, with a
  cancel that deletes.
- `docs/dispatch.md:167` has a lost execution reconciled until it is resolved. When
  the server whose lease lapsed marks it released after the new owner recorded it
  lost, the loop no longer lists it. `LostResolved` excepts it.
- `docs/scheduling.md:131` says every reason that is not transient requires a change
  to the job or the configuration. A constraint on `free_quota_percent` is a reason
  of that kind and clears when usage does, and so is `resources-exceeded` of a pool
  whose nodes are away or full. `RetryableMissesNothing` says what does hold.
  Room on a pool's nodes is what they advertise, which it holds fixed.
- `docs/quotas.md:144` gives what a pool has left as a formula. `quota/limits.go:220`
  multiplies what remains by a hundred before it divides, and a limit above
  `math.MaxInt64 / 100` base units loads (`baseLimit`, limits.go:110, looks at the scale
  only), so the product wraps: of a limit of 9223372036854775807 executions, two of
  them used, 0 % is left, and of one of 150000000000000000 less than none.
  `FreeIsWhatIsLeft` excepts such limits, and `FreePercentExact` shows that the formula
  holds of all others. `rank.go:257` clamps what is scored (`Clamped`), so nothing else
  comes of it than a worse place or a refusal by a constraint on the percentage, and `NoneDominated` is proved with the wrapping in.
- `config/credentials.go:126-129` says of resolving a credential that it is "Called once
  when the registry is built rather than per request". `Registry.Recredential` resolves
  again when a platform rejects one; `SourceSpared` says how often.

That a server whose pool nodes are connected elsewhere has executions lost and
reservations dropped that are still at work is documented (`docs/deployment.md:208-213`) and
no finding; the properties of `Lifecycle` and `Dispatch` say what it costs, and that it
costs no more.

## 6. Not modelled

Not modelled because nothing there can go wrong between steps: flags, formatting
and transport (`cli` but for a server's start, `api`, `agentrpc`), fingerprinting,
execution identifiers, and the generated gRPC code. Logs are read-only and kept by
the platforms.

Within the modelled parts: streaming of logs, the wording of failures and
diagnostics, how long a wait is, listing and paging, several executions per provider
in `Lifecycle` (they share nothing but the ledger and the nodes of a pool, which
`Ledger` and `Pool` have), draining on shutdown (a crash, to the rest of the system),
and `containerd.Result`, which loads the task twice where `Agent` reads it once.
`Pool` has one server, the one its agents are connected to; what others are told of its
work is in `Lifecycle` and `Dispatch`. `Agent.Connect` waits until the starts of the
dropped session have ended, which `agent.go` does not: it waits a second or more before it
dials again, and a start that is interrupted ends as soon as its call to containerd returns. In
`Ledger`, a provider that is no longer configured. In the planning modules: documents
that are not valid HCL; what computes an expression, which is any function; numbers
that overflow anywhere but in the percentage of a budget; and the rounding of floats in
scores. A
provider whose limits are removed is a restart with another configuration, and no
module spans two configurations.

What could still be added: `Planning` composed with `Dispatch`, so that a placement is
charged to the counters the next task is priced from.
