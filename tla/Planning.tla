------------------------------ MODULE Planning ------------------------------
(***************************************************************************)
(* A server answering plans and dispatches: the job is read and loaded     *)
(* with its metadata, then every task is priced, admitted and ranked       *)
(* against what the registry and the ledger last heard, while others       *)
(* register and stop jobs, providers change what they advertise and pools  *)
(* are charged. What becomes of a task that was placed is module Dispatch. *)
(*                                                                         *)
(* Jobs, providers and usage do not act on one another: in a behaviour one *)
(* of them moves once the server listens, and the others stay as they      *)
(* started. Requests are by name where jobs move, and else bring a source. *)
(***************************************************************************)
EXTENDS Jobs, Registry, Ranking

CONSTANTS
    Client,  \* requests under way
    Asks,    \* what they may ask for: [kind, ns, name, source, meta]
    Starts   \* bound on how behaviours start: [moving, actual, usage]

ASSUME ClientsAssumption ==
    /\ Client \subseteq Reader
    /\ "ticker" \in Reader \ Client
    /\ DeclaredNamespace = Namespace
    /\ \A a \in Asks : a.source \subseteq Document
    /\ Starts \subseteq [moving : {"jobs", "providers", "usage"},
                         actual : {f \in [Provider -> 0 .. Max({Len(Advert[p]) : p \in Provider})] :
                                    \A p \in Provider : f[p] \in Index(p)},
                         usage : [Row -> Level]]

VARIABLES
    moving,    \* what moves in this behaviour: "jobs", "providers" or "usage"
    ask,       \* by client, what it asks
    at,        \* by client, how far its request is
    version,   \* by client, the version it read, 0 for none
    document,  \* by client, the set of the source it loaded
    task,      \* by client, the task it is at
    verdict,   \* by client, the answer and where a task was placed, empty before
    seen       \* by client, the versions current and not stopped since it asked

clientVars == <<ask, at, version, document, task, verdict>>
vars == <<jobs, versions, registryVars, usageVars, moving, clientVars, seen>>

-----------------------------------------------------------------------------
(* What a request is about. *)

Unasked == [kind |-> "", ns |-> "", name |-> "", source |-> {}, meta |-> <<>>]

\* The namespace asked for by name of a job: none if nobody declared it.
RequestedNamespace(a) ==
    {ns \in {IF a.ns = "" THEN "default" ELSE a.ns} : ns \in Namespace \cup {"default"}}

KeyOf(a) == <<CHOOSE ns \in RequestedNamespace(a) : TRUE, a.name>>

ByName(a) == a.source = {}

DocumentOf(c) == Content[CHOOSE d \in document[c] : TRUE]
JobOf(c) == Bind(DocumentOf(c)[1], ask[c].meta)

NamespaceFor(c) ==
    IF ByName(ask[c]) THEN RequestedNamespace(ask[c])
    ELSE NamespaceOf(ask[c].ns, JobOf(c), Namespace)

\* The request a task makes of the scheduler; none if its image is no text.
TaskRequest(c, i) ==
    RequestFor(JobOf(c), i, ask[c].meta, TierModeOf(Configuration))

InputsFor(c) == Inputs(CHOOSE ns \in NamespaceFor(c) : TRUE)

-----------------------------------------------------------------------------
Init ==
    /\ JobsInit
    /\ moving \in {start.moving : start \in Starts}
    /\ RegistryInit
    /\ [moving |-> moving, actual |-> actual, usage |-> usage] \in Starts
    /\ ask = [c \in Client |-> Unasked]
    /\ at = [c \in Client |-> "idle"]
    /\ version = [c \in Client |-> 0]
    /\ document = [c \in Client |-> {}]
    /\ task = [c \in Client |-> 1]
    /\ verdict = [c \in Client |-> <<>>]
    /\ seen = [c \in Client |-> {}]

\* What the client sees of the job's standing, in some state's jobs.
Current(a, standing) ==
    {standing[key].version : key \in {k \in {KeyOf(a)} :
        k \in Key /\ standing[k].version > 0 /\ ~standing[k].stopped}}

Answered(c, answer) ==
    /\ at' = [at EXCEPT ![c] = "done"]
    /\ verdict' = [verdict EXCEPT ![c] = answer]

-----------------------------------------------------------------------------
(* The request. *)

\* A server listens once its providers were asked for the first time.
Ask(c) ==
    /\ serving
    /\ at[c] = "idle"
    /\ \E a \in {x \in Asks : ByName(x) <=> moving = "jobs"} :
        /\ ask' = [ask EXCEPT ![c] = a]
        /\ \/ /\ ByName(a) /\ RequestedNamespace(a) = {}
              /\ Answered(c, <<"no namespace">>)
              /\ UNCHANGED seen
           \/ /\ ByName(a) => RequestedNamespace(a) # {}
              /\ at' = [at EXCEPT ![c] = IF ByName(a) THEN "asked" ELSE "submitted"]
              /\ seen' = [seen EXCEPT ![c] = IF ByName(a) THEN Current(a, jobs) ELSE {}]
              /\ UNCHANGED verdict
    /\ UNCHANGED <<jobs, versions, registryVars, usageVars, moving, version, document, task>>

\* Mutant: a stopped job is dispatched.
ReadAnyJob(c) ==
    /\ at[c] = "asked"
    /\ LET key == KeyOf(ask[c])
       IN IF key \notin Key \/ ~Registered(key)
          THEN Answered(c, <<"not found">>) /\ UNCHANGED version
          ELSE /\ at' = [at EXCEPT ![c] = "found"]
               /\ version' = [version EXCEPT ![c] = jobs[key].version]
               /\ UNCHANGED verdict
    /\ UNCHANGED <<jobs, versions, registryVars, usageVars, moving, ask, document, task, seen>>

\* The job's standing; its source is read after.
ReadJob(c) ==
    /\ at[c] = "asked"
    /\ LET key == KeyOf(ask[c])
       IN IF key \notin Key \/ ~Registered(key)
          THEN Answered(c, <<"not found">>) /\ UNCHANGED version
          ELSE IF jobs[key].stopped
          THEN Answered(c, <<"stopped">>) /\ UNCHANGED version
          ELSE /\ at' = [at EXCEPT ![c] = "found"]
               /\ version' = [version EXCEPT ![c] = jobs[key].version]
               /\ UNCHANGED verdict
    /\ UNCHANGED <<jobs, versions, registryVars, usageVars, moving, ask, document, task, seen>>

\* The version read, loaded with the metadata supplied. A dispatch is recorded
\* here.
LoadVersion(c) ==
    /\ at[c] = "found"
    /\ LET d == VersionOf(KeyOf(ask[c]), version[c]).document
       IN /\ document' = [document EXCEPT ![c] = {d}]
          /\ IF ~CheckDispatch(Declared(Content[d]), ask[c].meta)
             THEN Answered(c, <<"not permitted">>)
             ELSE IF ~ForDispatch(Content[d], ask[c].meta)
             THEN Answered(c, <<"invalid">>)
             ELSE /\ at' = [at EXCEPT ![c] = "loaded"]
                  /\ UNCHANGED verdict
    /\ UNCHANGED <<jobs, versions, registryVars, usageVars, moving, ask, version, task, seen>>

\* A source planned or run without being registered.
LoadSource(c) ==
    /\ at[c] = "submitted"
    /\ \E d \in ask[c].source :
        /\ document' = [document EXCEPT ![c] = {d}]
        /\ IF ~Load(Content[d], ask[c].meta)
           THEN Answered(c, <<"invalid">>)
           ELSE IF NamespaceOf(ask[c].ns, Bind(Content[d][1], ask[c].meta), Namespace) = {}
           THEN Answered(c, <<"no namespace">>)
           ELSE /\ at' = [at EXCEPT ![c] = "loaded"]
                /\ UNCHANGED verdict
    /\ UNCHANGED <<jobs, versions, registryVars, usageVars, moving, ask, version, task, seen>>

\* A plan judges every task against the same inputs and reserves nothing.
Plan(c) ==
    /\ ask[c].kind = "plan"
    /\ at[c] = "loaded"
    /\ IF \E i \in DOMAIN JobOf(c).tasks : TaskRequest(c, i) = {}
       THEN Answered(c, <<"invalid image">>)
       ELSE Answered(c, <<"planned">>)
    /\ UNCHANGED <<jobs, versions, registryVars, usageVars, moving, ask, version, document, task, seen>>

\* A run takes its tasks one by one and re-reads usage before each.
StartTask(c) ==
    /\ ask[c].kind = "dispatch"
    /\ at[c] = "loaded"
    /\ IF TaskRequest(c, task[c]) = {}
       THEN Answered(c, <<"invalid image">>)
       ELSE at' = [at EXCEPT ![c] = "reading"] /\ UNCHANGED verdict
    /\ UNCHANGED <<jobs, versions, registryVars, usageVars, moving, ask, version, document, task, seen>>

\* A read that fails keeps the last snapshot.
ReadForTask(c) ==
    /\ at[c] = "reading"
    /\ \/ ReadUsage(c) /\ at' = [at EXCEPT ![c] = "applying"]
       \/ at' = [at EXCEPT ![c] = "priced"] /\ UNCHANGED usageVars
    /\ UNCHANGED <<jobs, versions, registryVars, moving, ask, version, document, task, verdict, seen>>

ApplyForTask(c) ==
    /\ at[c] = "applying"
    /\ ApplyUsage(c)
    /\ at' = [at EXCEPT ![c] = "priced"]
    /\ UNCHANGED <<jobs, versions, registryVars, moving, ask, version, document, task, verdict, seen>>

\* The task has nowhere to run, or goes to the best candidate; the next task
\* follows if it succeeds.
Place(c) ==
    /\ at[c] = "priced"
    /\ \E req \in TaskRequest(c, task[c]) :
        LET plan == PlanTask(req, InputsFor(c))
        IN IF plan.ranking = <<>>
           THEN Answered(c, <<"no candidates">>) /\ UNCHANGED task
           ELSE \/ Answered(c, <<"placed", plan.ranking[1].provider>>) /\ UNCHANGED task
                \/ /\ task[c] < Len(JobOf(c).tasks)
                   /\ task' = [task EXCEPT ![c] = @ + 1]
                   /\ at' = [at EXCEPT ![c] = "loaded"]
                   /\ UNCHANGED verdict
    /\ UNCHANGED <<jobs, versions, registryVars, usageVars, moving, ask, version, document, seen>>

ClientStep(c) ==
    \/ Ask(c) \/ ReadJob(c) \/ LoadVersion(c) \/ LoadSource(c) \/ Plan(c)
    \/ StartTask(c) \/ ReadForTask(c) \/ ApplyForTask(c) \/ Place(c)

-----------------------------------------------------------------------------
(* Everybody else. *)

\* Requests under way see the job's new standing too.
Seen ==
    seen' = [c \in Client |->
        IF at[c] \in {"asked", "found"} THEN seen[c] \cup Current(ask[c], jobs') ELSE seen[c]]

Registration ==
    /\ moving = "jobs"
    /\ \E requested \in Namespace \cup {""}, d \in Document : Register(requested, d)
    /\ Seen
    /\ UNCHANGED <<registryVars, usageVars, moving, clientVars>>

Stopping ==
    /\ moving = "jobs"
    /\ \E key \in Key : Stop(key)
    /\ Seen
    /\ UNCHANGED <<registryVars, usageVars, moving, clientVars>>

\* The first refresh comes before the server listens.
Refreshing ==
    /\ moving = "providers" \/ ~serving
    /\ StartRefresh \/ (\E p \in Asked : Answer(p)) \/ ApplyAnswers
    /\ UNCHANGED <<jobs, versions, moving, clientVars, seen>>

Changing ==
    /\ moving = "providers"
    /\ \E p \in Provider : Change(p)
    /\ UNCHANGED <<jobs, versions, moving, clientVars, seen>>

Charging ==
    /\ moving = "usage"
    /\ \E row \in Row : Charges(row)
    /\ UNCHANGED <<jobs, versions, registryVars, moving, clientVars, seen>>

TickerReads ==
    /\ moving = "usage"
    /\ ReadUsage("ticker")
    /\ UNCHANGED <<jobs, versions, registryVars, moving, clientVars, seen>>

TickerApplies ==
    /\ ApplyUsage("ticker")
    /\ UNCHANGED <<jobs, versions, registryVars, moving, clientVars, seen>>

Next ==
    \/ \E c \in Client : ClientStep(c)
    \/ Registration \/ Stopping
    \/ Refreshing \/ Changing
    \/ Charging \/ TickerReads \/ TickerApplies

Spec == Init /\ [][Next]_vars

\* The ticker goes on, its reads succeed again and again, and a run that read
\* usage applies it.
FairSpec ==
    /\ Spec
    /\ WF_vars(TickerReads)
    /\ WF_vars(TickerApplies)
    /\ \A c \in Client : WF_vars(ApplyForTask(c))

-----------------------------------------------------------------------------
(* Properties. *)

TypeOK ==
    /\ jobs \in [Key -> Standing]
    /\ \A key \in Key : versions[key] \in Seq(Version) /\ Len(versions[key]) = jobs[key].version
    /\ \A p \in Provider : {actual[p], known[p]} \subseteq Index(p)
    /\ healthy \in [Provider -> BOOLEAN]
    /\ \A p \in Asked : answers[p] \subseteq Index(p) /\ Cardinality(answers[p]) <= 1
    /\ refreshing \in BOOLEAN
    /\ serving \in BOOLEAN
    /\ {usage, snapshot} \cup UNION {reading[r] : r \in Reader} \subseteq [Row -> Level]
    /\ moving \in {"jobs", "providers", "usage"}
    /\ \A c \in Client :
        /\ ask[c] \in Asks \cup {Unasked}
        /\ at[c] \in {"idle", "asked", "submitted", "found", "loaded", "reading", "applying",
                      "priced", "done"}
        /\ version[c] \in 0 .. MaxVersions
        /\ document[c] \subseteq Document
        /\ task[c] \in Nat \ {0}
        /\ (verdict[c] = <<>>) <=> (at[c] # "done")
        /\ seen[c] \subseteq 1 .. MaxVersions

\* A plan or a dispatch by name works on a version that was the current one of
\* a job not stopped at some moment since it was asked for, although the store
\* is read twice (jobs/load.go:79) and jobs are registered and stopped between.
DispatchesCurrent ==
    \A c \in Client :
        ByName(ask[c]) /\ at[c] \in {"found", "loaded", "reading", "applying", "priced"} =>
            version[c] \in seen[c]

\* Every expression of a job, of its routing, of its tasks' attributes and of
\* the blocks that are left for the driver.
Expressions(job) ==
    LET routing == job.routing
        comparisons == ToSet(routing.constraints) \cup ToSet(routing.affinities)
    IN job.namespace \cup job.type \cup Exprs(job.meta)
       \cup routing.strategy \cup routing.tiers \cup routing.providers \cup routing.maxCost
       \cup (UNION {c.attribute \cup c.operator \cup c.value : c \in comparisons})
       \cup (UNION {a.weight : a \in ToSet(routing.affinities)})
       \cup (UNION {t.driver \cup t.arch \cup t.cpu \cup t.memory \cup t.internet \cup t.private
                     \cup t.privileged \cup t.timeout \cup t.paths : t \in ToSet(job.tasks)})
       \cup (UNION {r.attempts \cup r.reroute \cup r.initial \cup r.max :
                     r \in UNION {t.retry : t \in ToSet(job.tasks)}})
       \cup (UNION {Exprs(t.env) : t \in ToSet(job.tasks)})
       \cup (UNION {Exprs(config.attrs) : config \in UNION {t.config : t \in ToSet(job.tasks)}})

\* What was registered on placeholders (jobs/load.go:51) is refused as invalid at
\* dispatch only for what the metadata made of it: an expression that comes to
\* something else than it did then, or to nothing for want of a key. All that no
\* metadata can mend was found at the registration, but for an image that comes
\* to what is no text.
RefusedForCause ==
    \A c \in Client : ByName(ask[c]) /\ document[c] # {} =>
        LET meta == ask[c].meta
            job == DocumentOf(c)[1]
            placeholders == References(job.parameterized)
            images == {config.attrs["image"] : config \in
                        {g \in UNION {t.config : t \in ToSet(job.tasks)} : "image" \in DOMAIN g.attrs}}
        IN /\ verdict[c] = <<"invalid">> =>
                \E e \in Expressions(job) : Value(e, meta) # Value(e, placeholders)
           /\ verdict[c] = <<"invalid image">> =>
                \E e \in images : Value(e, meta)[1] \notin {"text", "null", "error"}

-----------------------------------------------------------------------------
(* Properties of the requests that are about to be judged. *)

Judged(c) ==
    CASE at[c] = "priced" -> TaskRequest(c, task[c])
      [] at[c] = "loaded" /\ ask[c].kind = "plan" ->
            UNION {TaskRequest(c, i) : i \in DOMAIN JobOf(c).tasks}
      [] OTHER -> {}

\* A provider nothing is known about advertises nothing, and nobody is told
\* that it lacks a driver or an architecture: a server listens only once every
\* provider was asked (cli/server.go:205), one that did not answer is unhealthy,
\* and that is said before anything it could not do (scheduler/admit.go:53).
BlankNeverBlamed ==
    \A c \in Client : \A req \in Judged(c) :
        \A r \in ToSet(PlanTask(req, InputsFor(c)).rejections) :
            EntryOf(r.provider).enabled /\ ~IsLive(r.provider) /\ known[r.provider] = 0 =>
                FirstReason(r.reasons) \notin Mismatches

\* Every provider as it is, answering, with its budgets untouched.
Recovered(inputs) ==
    LET unused(limits) == [name \in PoolNames(limits) |-> 0]
    IN [i \in DOMAIN inputs |->
            [inputs[i] EXCEPT !.enabled = TRUE, !.healthy = TRUE,
                              !.usage = unused(inputs[i].limits),
                              !.shareUsage = unused(inputs[i].share)]]

Compares(comparisons, name) == \E c \in ToSet(comparisons) : c.attribute = name

\* A plan that refuses a task everywhere and does not call it retryable
\* (admission.go:158, the only reader of it) leaves out no reprieve of the kinds
\* it tells apart: the same providers, advertising what they advertise, would
\* refuse it with every one enabled, answering and with all its budget left. It is
\* hidden by no earlier check, of the provider or of a pool's closest member. A job
\* that constrains the free budget itself is not claimed of. Room on a pool's
\* nodes is what they advertise, and no such kind.
RetryableMissesNothing ==
    \A c \in {x \in Client : ask[x].kind = "plan"} :
    \A req \in Judged(c) : \A result \in {Admit(req, InputsFor(c))} :
        ~Admitted(result)
        /\ Admitted(Admit(req, Recovered(InputsFor(c))))
        /\ ~Compares(req.routing.constraints, Published("free_quota_percent"))
          => Retryable(result)

\* What speaks for a candidate: more is better.
Merits(req, c) ==
    <<-c.in.tier, Headroom(req, c)[1],
      AffinityWeight(InputAttributes(c.in, req.exec), req.routing.affinities)>>

AsGood(m, n) == \A k \in 1 .. 3 : m[k] >= n[k]

\* The order of candidates (rank.go) wastes nothing: none stands before one that
\* is as good in tier, free budget and affinities and better in one of them, and
\* those that are equal in all stand in name order, so that two servers agree.
NoneDominated ==
    \A c \in Client : \A req \in Judged(c) :
        \A ranking \in {PlanTask(req, InputsFor(c)).ranking} :
            LET merits(i) == Merits(req, ranking[i])
            IN \A i, k \in DOMAIN ranking : i < k /\ AsGood(merits(k), merits(i)) =>
                /\ merits(k) = merits(i)
                /\ Before(Text(ranking[i].provider), Text(ranking[k].provider))

\* "100 if nothing is counted, floor((limit - used) x 100 / limit) otherwise, 0 when
\* used >= limit" (docs/quotas.md:144).
FreeByTheDocs(pool, used) ==
    IF used <= 0 THEN 100
    ELSE IF used >= pool.limit THEN 0 ELSE ((pool.limit - used) * 100) \div pool.limit

\* What the pools of one layer that e charges have left.
Allowances(limits, charged, e) ==
    {FreeByTheDocs(pool, UsageOf(charged, pool)) : pool \in Charged(limits, e)}

\* The product of limits.go:220 fits a counter for every pool e charges.
FitsCounter(limits, e) == \A pool \in Charged(limits, e) : pool.limit <= MaxInt64 \div 100

\* What a task is told a provider has left, and candidates are ranked by, is the
\* tightest of what the provider's pools and the namespace's share have left, of
\* those the task charges, as long as no product has wrapped: no pool is
\* overlooked, and none the task does not charge drags the number down.
FreeIsWhatIsLeft ==
    \A c \in Client : \A req \in Judged(c) : \A i \in DOMAIN InputsFor(c) :
        \A in \in {InputsFor(c)[i]} : \A e \in {req.exec} :
            FitsCounter(in.limits, e) /\ FitsCounter(in.share, e) =>
                \A percent \in {InputFreePercent(in, e)} :
                \A left \in {{100} \cup Allowances(in.limits, in.usage, e)
                                   \cup Allowances(in.share, in.shareUsage, e)} :
                    percent \in left /\ \A other \in left : percent <= other

-----------------------------------------------------------------------------
\* A reader that is slow may put an older snapshot over a newer one and stamp
\* it as fresh (ledger.go:370), yet once the counters rest the snapshot that
\* plans are priced from comes to show them, every layer and pool, for good.
UsageCatchesUp == <>[][FALSE]_usage => <>[](snapshot = usage)
=============================================================================
