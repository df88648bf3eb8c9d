------------------------------ MODULE Registry ------------------------------
(***************************************************************************)
(* The configured providers and what is known of them: capabilities that a *)
(* ticker refreshes, or that a plan reads at once from a provider made of  *)
(* connected nodes, and the snapshot of quota usage that plans are priced  *)
(* from. Every enabled provider is asked at the same time and all answers  *)
(* are applied in one step.                                                *)
(***************************************************************************)
EXTENDS Config

CONSTANTS
    Files,         \* the configuration directory
    Configuration, \* what its files come to
    Entries,       \* what the registry makes of its providers
    Advert,        \* by provider, the sequence of what it may come to advertise
    Level,         \* charges a pool may come to hold
    Reader         \* who re-reads usage: the ticker, and runs

DeclaredNamespace == {n.name : n \in ToSet(Configuration.namespaces)}

\* Types whose capabilities a plan reads at once, and those known at all.
LiveTypes == {"pool"}
ProviderTypes == LiveTypes \cup {"gcp", "aws", "fake-container", "fake-function", "fake-worker"}

CompileNamespaces(file) ==
    \A i \in DOMAIN file.namespaces : \A k \in DOMAIN file.namespaces[i].quotas :
        LimitsCompile(file.namespaces[i].quotas[k].pools)

Builds(p) == TagsDecode(p) /\ LimitsCompile(p.pools) /\ p.type \in ProviderTypes

\* What the registry keeps of a provider, in name order.
Entry(p) ==
    [provider |-> p.name, type |-> p.type, tags |-> p.tags, limits |-> NewLimits(p.pools),
     tier |-> TierOf(p), enabled |-> IsEnabled(p)]

NewEntries(file) == ByProvider({Entry(p) : p \in ToSet(file.providers)})

ASSUME FilesAssumption ==
    /\ LoadsPath(Files) /\ Configuration = LoadDir(Files)
    /\ \A i \in DOMAIN Configuration.providers : Builds(Configuration.providers[i])
    /\ CompileNamespaces(Configuration)
    /\ Entries = NewEntries(Configuration)
    /\ IsSequence(Configuration.providers)

\* Names compare as texts do, byte by byte.
ASSUME BeforeAssumption ==
    LET earlier(p, q) == Before(Text(p.name), Text(q.name))
    IN \A p, q, r \in ToSet(Configuration.providers) :
        /\ ~earlier(p, p)
        /\ earlier(p, q) \/ earlier(q, p) \/ p.name = q.name
        /\ earlier(p, q) /\ earlier(q, r) => earlier(p, r)

\* Tiers, budgets and charges are numbers.
ASSUME NumbersAssumption ==
    LET counts(pools) == \A pool \in ToSet(pools) : "limit" \in DOMAIN pool /\ pool.limit \in Int
    IN /\ \A p \in ToSet(Configuration.providers) : p.tier \subseteq Int /\ counts(p.pools)
       /\ \A n \in ToSet(Configuration.namespaces) : \A q \in ToSet(n.quotas) : counts(q.pools)
       /\ Level \subseteq Int

Provider == {e.provider : e \in ToSet(Entries)}
ASSUME AdvertAssumption ==
    \A p \in Provider : /\ Len(Advert[p]) \in Nat
                        /\ \A i \in 1 .. Len(Advert[p]) : IsSequence(Advert[p][i].members)

EntryOf(p) == CHOOSE e \in ToSet(Entries) : e.provider = p

IsLive(p) == EntryOf(p).type \in LiveTypes
Asked == {p \in Provider : EntryOf(p).enabled /\ ~IsLive(p)}

\* A namespace's pools of one provider, none where it declared no share.
ShareOf(ns, p) ==
    LET quotas == {q \in UNION {ToSet(n.quotas) : n \in {m \in ToSet(Configuration.namespaces) :
                                                            m.name = ns}} : q.provider = p}
    IN IF quotas = {} THEN <<>> ELSE NewLimits((CHOOSE q \in quotas : TRUE).pools)

VARIABLES
    actual,    \* by provider, the index of what it advertises; 0: it does not answer
    known,     \* by provider, the index of what it last said; 0: nothing yet
    healthy,   \* by provider, whether it answered its last refresh
    answers,   \* by provider asked, the set of its answer to the refresh going on
    refreshing,
    serving,   \* the first refresh is done
    usage,     \* the store's counters, by layer, provider and pool
    snapshot,  \* the counters plans are priced from
    reading    \* by reader, the set of what it read and has not applied

registryVars == <<actual, known, healthy, answers, refreshing, serving>>
usageVars == <<usage, snapshot, reading>>

Index(p) == 0 .. Len(Advert[p])
CapsOf(p, i) == IF i = 0 THEN NoCapabilities ELSE Advert[p][i]

\* The layer of a provider's totals; the others are the namespaces.
Total == ""

PoolNames(limits) == {limits[i].name : i \in DOMAIN limits}
Row == UNION {({Total} \X {p} \X PoolNames(EntryOf(p).limits))
                \cup UNION {{ns} \X {p} \X PoolNames(ShareOf(ns, p)) : ns \in DeclaredNamespace}
              : p \in Provider}

\* Healthy until a refresh says otherwise; usage is read when the ledger is made.
RegistryInit ==
    /\ actual \in {f \in [Provider -> UNION {Index(p) : p \in Provider}] :
                    \A p \in Provider : f[p] \in Index(p)}
    /\ known = [p \in Provider |-> 0]
    /\ healthy = [p \in Provider |-> TRUE]
    /\ answers = [p \in Asked |-> {}]
    /\ refreshing = FALSE
    /\ serving = FALSE
    /\ usage \in [Row -> Level]
    /\ snapshot = usage
    /\ reading = [r \in Reader |-> {}]

-----------------------------------------------------------------------------
(* Capabilities. *)

\* The ticker waits for one refresh before the next.
StartRefresh ==
    /\ ~refreshing
    /\ refreshing' = TRUE
    /\ answers' = [p \in Asked |-> {}]
    /\ UNCHANGED <<actual, known, healthy, serving, usageVars>>

\* A call that fails or is not answered in time is the answer 0.
Answer(p) ==
    /\ refreshing
    /\ answers[p] = {}
    /\ \E i \in {actual[p], 0} : answers' = [answers EXCEPT ![p] = {i}]
    /\ UNCHANGED <<actual, known, healthy, refreshing, serving, usageVars>>

\* A provider that failed keeps what was last known of it.
ApplyAnswers ==
    /\ refreshing
    /\ \A p \in Asked : answers[p] # {}
    /\ known' = [p \in Provider |->
            IF p \in Asked /\ answers[p] # {0} THEN CHOOSE i \in answers[p] : TRUE ELSE known[p]]
    /\ healthy' = [p \in Provider |-> IF p \in Asked THEN answers[p] # {0} ELSE healthy[p]]
    /\ refreshing' = FALSE
    /\ serving' = TRUE
    /\ UNCHANGED <<actual, answers, usageVars>>

\* What the provider can do changes, or it stops or starts answering.
Change(p) ==
    /\ \E i \in Index(p) \ {actual[p]} : actual' = [actual EXCEPT ![p] = i]
    /\ UNCHANGED <<known, healthy, answers, refreshing, serving, usageVars>>

-----------------------------------------------------------------------------
(* Usage. *)

\* One layer's pools as a reader of the ledger's snapshot sees them.
UsageIn(rows, layer, p, limits) ==
    [name \in PoolNames(limits) |-> rows[<<layer, p, name>>]]

\* Mutant: shares of the totals are not read again.
ReadTotals(r) ==
    /\ reading[r] = {}
    /\ reading' = [reading EXCEPT ![r] =
            {[row \in Row |-> IF row[1] = Total THEN usage[row] ELSE snapshot[row]]}]
    /\ UNCHANGED <<usage, snapshot>>

\* One read of the counters of every pool of both layers.
ReadUsage(r) ==
    /\ reading[r] = {}
    /\ reading' = [reading EXCEPT ![r] = {usage}]
    /\ UNCHANGED <<usage, snapshot>>

\* Whichever reader applies last decides, whatever it read.
ApplyUsage(r) ==
    /\ reading[r] # {}
    /\ snapshot' = CHOOSE u \in reading[r] : TRUE
    /\ reading' = [reading EXCEPT ![r] = {}]
    /\ UNCHANGED usage

\* Some server charges a pool, gives a reservation back, or its period ends.
Charges(row) ==
    /\ \E n \in Level \ {usage[row]} : usage' = [usage EXCEPT ![row] = n]
    /\ UNCHANGED <<snapshot, reading>>

-----------------------------------------------------------------------------
(* What admission is given. *)

InputOf(ns, e) ==
    LET p == e.provider
        now == IsLive(p) /\ e.enabled
    IN [provider |-> p, caps |-> CapsOf(p, IF now THEN actual[p] ELSE known[p]),
        limits |-> e.limits, usage |-> UsageIn(snapshot, Total, p, e.limits),
        share |-> ShareOf(ns, p), shareUsage |-> UsageIn(snapshot, ns, p, ShareOf(ns, p)),
        tags |-> e.tags, labels |-> <<>>, tier |-> e.tier, enabled |-> e.enabled,
        healthy |-> IF now THEN actual[p] # 0 ELSE healthy[p]]

Inputs(ns) == [i \in DOMAIN Entries |-> InputOf(ns, Entries[i])]
=============================================================================
