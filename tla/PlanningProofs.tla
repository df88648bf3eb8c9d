--------------------------- MODULE PlanningProofs ---------------------------
(***************************************************************************)
(* Every invariant of planning, whatever the configuration, the jobs, the  *)
(* clients and the interleaving of registrations, stops, refreshes and     *)
(* reads of usage: which version a dispatch works on and what it is        *)
(* refused for, the types, what is said of a provider nothing is known of, *)
(* that a plan hides no reprieve, and that the ranking puts nothing behind *)
(* what it is better than.                                                 *)
(***************************************************************************)
EXTENDS Planning, FiniteSetTheorems, TLAPS

\* The states in which a request by name holds the version it read.
Holding == {"found", "loaded", "reading", "applying", "priced"}

Domains == DOMAIN at = Client /\ DOMAIN version = Client /\ DOMAIN seen = Client
           /\ DOMAIN ask = Client

\* What a client may yet find has been seen, and what it found was.
SeenInv(c) ==
    /\ at[c] = "asked" => Current(ask[c], jobs) \subseteq seen[c]
    /\ at[c] \in Holding /\ ByName(ask[c]) => version[c] \in seen[c]

\* What the proof goes through: domains, and the above of every client.
IInv == Domains /\ \A c \in Client : SeenInv(c)

\* A server starts with no request under way.
LEMMA InitIInv == Init => IInv
  BY DEF Init, IInv, Domains, SeenInv, Holding

\* The version a job stands at is current unless it was stopped.
LEMMA CurrentVersion ==
  ASSUME NEW a, NEW standing, KeyOf(a) \in Key,
         standing[KeyOf(a)].version > 0, ~standing[KeyOf(a)].stopped
  PROVE  standing[KeyOf(a)].version \in Current(a, standing)
  BY DEF Current

\* A step of one client leaves the others' requests as they were.
LEMMA OneClient ==
  ASSUME IInv, NEW c \in Client, UNCHANGED jobs,
         DOMAIN at' = Client, DOMAIN version' = Client, DOMAIN seen' = Client,
         DOMAIN ask' = Client, SeenInv(c)',
         \A d \in Client \ {c} :
            at'[d] = at[d] /\ version'[d] = version[d] /\ seen'[d] = seen[d] /\ ask'[d] = ask[d]
  PROVE  IInv'
  BY DEF IInv, Domains, SeenInv, Current

\* A request by name has seen what is current as it is asked.
LEMMA AskStep == ASSUME IInv, NEW c \in Client, Ask(c) PROVE IInv'
  <1>1. PICK a : /\ ask' = [ask EXCEPT ![c] = a]
                 /\ \/ Answered(c, <<"no namespace">>) /\ UNCHANGED seen
                    \/ /\ at' = [at EXCEPT ![c] = IF ByName(a) THEN "asked" ELSE "submitted"]
                       /\ seen' = [seen EXCEPT ![c] = IF ByName(a) THEN Current(a, jobs) ELSE {}]
    BY DEF Ask
  <1>2. UNCHANGED <<jobs, version>>
    BY DEF Ask
  <1>3. SeenInv(c)'
    <2>1. ask'[c] = a
      BY <1>1 DEF IInv, Domains
    <2>2. CASE Answered(c, <<"no namespace">>) /\ UNCHANGED seen
      BY <2>2 DEF IInv, Domains, SeenInv, Answered, Holding
    <2>3. CASE /\ at' = [at EXCEPT ![c] = IF ByName(a) THEN "asked" ELSE "submitted"]
               /\ seen' = [seen EXCEPT ![c] = IF ByName(a) THEN Current(a, jobs) ELSE {}]
      <3>1. \/ at'[c] = "asked" /\ ByName(a) /\ seen'[c] = Current(a, jobs)
            \/ at'[c] = "submitted"
        BY <2>3 DEF IInv, Domains
      <3> QED BY <2>1, <3>1, <1>2 DEF SeenInv, Holding
    <2> QED BY <1>1, <2>2, <2>3
  <1>4. /\ DOMAIN at' = Client /\ DOMAIN version' = Client
        /\ DOMAIN seen' = Client /\ DOMAIN ask' = Client
    BY <1>1, <1>2 DEF IInv, Domains, Answered
  <1>5. \A d \in Client \ {c} :
            at'[d] = at[d] /\ version'[d] = version[d] /\ seen'[d] = seen[d] /\ ask'[d] = ask[d]
    BY <1>1, <1>2 DEF IInv, Domains, Answered
  <1> QED BY <1>2, <1>3, <1>4, <1>5, OneClient

\* The job was current as it was read: it is registered and not stopped.
LEMMA ReadJobStep == ASSUME IInv, NEW c \in Client, ReadJob(c) PROVE IInv'
  <1> DEFINE key == KeyOf(ask[c])
  <1>1. UNCHANGED <<jobs, ask, seen>> /\ at[c] = "asked"
    BY DEF ReadJob
  <1>2. \/ at' = [at EXCEPT ![c] = "done"] /\ UNCHANGED version
        \/ /\ key \in Key /\ jobs[key].version > 0 /\ ~jobs[key].stopped
           /\ at' = [at EXCEPT ![c] = "found"]
           /\ version' = [version EXCEPT ![c] = jobs[key].version]
    BY DEF ReadJob, Answered, Registered
  <1>3. SeenInv(c)'
    <2>1. CASE at' = [at EXCEPT ![c] = "done"]
      BY <2>1 DEF IInv, Domains, SeenInv, Holding
    <2>2. CASE /\ key \in Key /\ jobs[key].version > 0 /\ ~jobs[key].stopped
               /\ at' = [at EXCEPT ![c] = "found"]
               /\ version' = [version EXCEPT ![c] = jobs[key].version]
      <3>1. jobs[key].version \in Current(ask[c], jobs)
        BY <2>2, CurrentVersion
      <3>2. version'[c] \in seen[c]
        BY <1>1, <2>2, <3>1 DEF IInv, Domains, SeenInv
      <3> QED BY <1>1, <2>2, <3>2 DEF IInv, Domains, SeenInv
    <2> QED BY <1>2, <2>1, <2>2
  <1>4. /\ DOMAIN at' = Client /\ DOMAIN version' = Client
        /\ DOMAIN seen' = Client /\ DOMAIN ask' = Client
    BY <1>1, <1>2 DEF IInv, Domains
  <1>5. \A d \in Client \ {c} :
            at'[d] = at[d] /\ version'[d] = version[d] /\ seen'[d] = seen[d] /\ ask'[d] = ask[d]
    BY <1>1, <1>2 DEF IInv, Domains
  <1> QED BY <1>1, <1>3, <1>4, <1>5, OneClient

\* Later steps of a request keep the version: only one that brought its source
\* comes to a task without one.
LEMMA LaterStep ==
  ASSUME IInv, NEW c \in Client, UNCHANGED <<jobs, ask, version, seen>>,
         NEW now, at' = [at EXCEPT ![c] = now],
         now # "asked",
         now \in Holding => at[c] \in Holding \/ ~ByName(ask[c])
  PROVE  IInv'
  <1>1. SeenInv(c)'
    BY DEF IInv, Domains, SeenInv, Holding
  <1>2. /\ DOMAIN at' = Client /\ DOMAIN version' = Client
        /\ DOMAIN seen' = Client /\ DOMAIN ask' = Client
    BY DEF IInv, Domains
  <1>3. \A d \in Client \ {c} :
            at'[d] = at[d] /\ version'[d] = version[d] /\ seen'[d] = seen[d] /\ ask'[d] = ask[d]
    BY DEF IInv, Domains
  <1> QED BY <1>1, <1>2, <1>3, OneClient

\* Every step of a client after it has the version.
LEMMA HoldingStep ==
  ASSUME IInv, NEW c \in Client,
         \/ LoadVersion(c) \/ LoadSource(c) \/ Plan(c) \/ StartTask(c)
         \/ ReadForTask(c) \/ ApplyForTask(c) \/ Place(c)
  PROVE  IInv'
  <1>1. UNCHANGED <<jobs, ask, version, seen>>
    BY DEF LoadVersion, LoadSource, Plan, StartTask, ReadForTask, ApplyForTask, Place
  <1>2. CASE at' = [at EXCEPT ![c] = "done"]
    BY <1>1, <1>2, LaterStep DEF Holding
  <1>3. CASE LoadVersion(c)
    <2>1. at[c] = "found" /\ (at' = [at EXCEPT ![c] = "done"] \/ at' = [at EXCEPT ![c] = "loaded"])
      BY <1>3 DEF LoadVersion, Answered
    <2> QED BY <1>1, <1>2, <2>1, LaterStep DEF Holding
  <1>4. CASE LoadSource(c)
    <2>1. ~ByName(ask[c]) /\ (at' = [at EXCEPT ![c] = "done"] \/ at' = [at EXCEPT ![c] = "loaded"])
      BY <1>4 DEF LoadSource, Answered, ByName
    <2> QED BY <1>1, <1>2, <2>1, LaterStep DEF Holding
  <1>5. CASE Plan(c)
    BY <1>2, <1>5 DEF Plan, Answered
  <1>6. CASE StartTask(c)
    <2>1. at[c] = "loaded" /\ (at' = [at EXCEPT ![c] = "done"] \/ at' = [at EXCEPT ![c] = "reading"])
      BY <1>6 DEF StartTask, Answered
    <2> QED BY <1>1, <1>2, <2>1, LaterStep DEF Holding
  <1>7. CASE ReadForTask(c)
    <2>1. at[c] = "reading" /\ (at' = [at EXCEPT ![c] = "applying"] \/ at' = [at EXCEPT ![c] = "priced"])
      BY <1>7 DEF ReadForTask
    <2> QED BY <1>1, <2>1, LaterStep DEF Holding
  <1>8. CASE ApplyForTask(c)
    <2>1. at[c] = "applying" /\ at' = [at EXCEPT ![c] = "priced"]
      BY <1>8 DEF ApplyForTask
    <2> QED BY <1>1, <2>1, LaterStep DEF Holding
  <1>9. CASE Place(c)
    <2>1. at[c] = "priced" /\ (at' = [at EXCEPT ![c] = "done"] \/ at' = [at EXCEPT ![c] = "loaded"])
      BY <1>9 DEF Place, Answered
    <2> QED BY <1>1, <1>2, <2>1, LaterStep DEF Holding
  <1> QED BY <1>3, <1>4, <1>5, <1>6, <1>7, <1>8, <1>9

\* A registration or a stop: requests under way see the new standing.
LEMMA JobsStep == ASSUME IInv, Registration \/ Stopping PROVE IInv'
  <1>1. Seen /\ UNCHANGED <<ask, at, version>>
    BY DEF Registration, Stopping, clientVars
  <1>2. DOMAIN seen' = Client
    BY <1>1 DEF Seen
  <1>3. ASSUME NEW c \in Client PROVE SeenInv(c)'
    <2>1. seen[c] \subseteq seen'[c]
      BY <1>1 DEF Seen
    <2>2. at[c] = "asked" => Current(ask[c], jobs') \subseteq seen'[c]
      BY <1>1 DEF Seen
    <2>3. at'[c] = "asked" => Current(ask'[c], jobs') \subseteq seen'[c]
      BY <1>1, <2>2
    <2>4. at'[c] \in Holding /\ ByName(ask'[c]) => version'[c] \in seen'[c]
      BY <1>1, <2>1 DEF IInv, SeenInv
    <2> QED BY <2>3, <2>4 DEF SeenInv
  <1> QED BY <1>1, <1>2, <1>3 DEF IInv, Domains

\* Whatever else happens touches neither jobs nor requests.
LEMMA OtherStep ==
  ASSUME IInv, UNCHANGED <<jobs, ask, at, version, seen>>
  PROVE  IInv'
  BY DEF IInv, Domains, SeenInv, Current

\* Every step keeps the invariant.
LEMMA NextIInv == IInv /\ [Next]_vars => IInv'
  <1> SUFFICES ASSUME IInv, [Next]_vars PROVE IInv'
    OBVIOUS
  <1>1. CASE \E c \in Client : ClientStep(c)
    <2>1. PICK c \in Client : ClientStep(c)
      BY <1>1
    <2> QED BY <2>1, AskStep, ReadJobStep, HoldingStep DEF ClientStep
  <1>2. CASE Registration \/ Stopping
    BY <1>2, JobsStep
  <1>3. CASE Refreshing \/ Changing \/ Charging \/ TickerReads \/ TickerApplies
    <2>1. UNCHANGED <<jobs, ask, at, version, seen>>
      BY <1>3 DEF Refreshing, Changing, Charging, TickerReads, TickerApplies, clientVars
    <2> QED BY <2>1, OtherStep
  <1>4. CASE UNCHANGED vars
    BY <1>4, OtherStep DEF vars, clientVars
  <1> QED BY <1>1, <1>2, <1>3, <1>4 DEF Next

\* A plan or a dispatch by name works on a version that was current since it
\* was asked for (jobs/load.go:79): for any jobs, sources, namespaces, clients
\* and requests.
THEOREM DispatchesCurrentAlways == Spec => []DispatchesCurrent
  <1>1. IInv => DispatchesCurrent
    BY DEF IInv, SeenInv, DispatchesCurrent, Holding
  <1> QED BY <1>1, InitIInv, NextIInv, PTL DEF Spec

-----------------------------------------------------------------------------
\* What metadata does to a job

\* What some expressions come to is the same with one metadata as with another.
Agree(exprs, meta, other) == \A e \in exprs : Value(e, meta) = Value(e, other)

\* Then so is all that is read off them.
LEMMA SameTexts ==
  ASSUME NEW exprs, NEW meta, NEW other, Agree(exprs, meta, other)
  PROVE  /\ TextOf(exprs, meta) = TextOf(exprs, other)
         /\ NamesOf(exprs, meta) = NamesOf(exprs, other)
         /\ IntegersOf(exprs, meta) = IntegersOf(exprs, other)
         /\ FlagsOf(exprs, meta) = FlagsOf(exprs, other)
         /\ ListOf(exprs, meta) = ListOf(exprs, other)
         /\ AreTexts(exprs, meta) <=> AreTexts(exprs, other)
  <1>1. {Value(e, meta) : e \in exprs} = {Value(e, other) : e \in exprs}
    BY DEF Agree
  <1>2. TextOf(exprs, meta) = TextOf(exprs, other)
    BY <1>1 DEF TextOf
  <1>3. {o \in {Value(e, meta) : e \in exprs} : o[1] = "list"}
            = {o \in {Value(e, other) : e \in exprs} : o[1] = "list"}
    BY <1>1
  <1>4. ListOf(exprs, meta) = ListOf(exprs, other)
    BY <1>3 DEF ListOf
  <1>5. AreTexts(exprs, meta) <=> AreTexts(exprs, other)
    BY DEF AreTexts, Agree
  <1> QED BY <1>2, <1>4, <1>5 DEF NamesOf, IntegersOf, FlagsOf

\* And so is what an attribute of a type accepts.
LEMMA SameReading ==
  ASSUME NEW e, NEW meta, NEW other, Value(e, meta) = Value(e, other)
  PROVE  /\ Evaluates(e, meta) <=> Evaluates(e, other)
         /\ IsText(e, meta) <=> IsText(e, other)
         /\ IsList(e, meta) <=> IsList(e, other)
         /\ IsInteger(e, meta) <=> IsInteger(e, other)
         /\ IsFlag(e, meta) <=> IsFlag(e, other)
  <1>1. TextOf({e}, meta) = TextOf({e}, other)
    BY SameTexts DEF Agree
  <1> QED BY <1>1 DEF Evaluates, IsText, IsList, IsInteger, IsFlag

\* Expressions leaves none of an attribute's out.
LEMMA ExpressionsHold ==
  ASSUME NEW job, NEW E, E = Expressions(job)
  PROVE  /\ job.namespace \subseteq E /\ job.type \subseteq E /\ Exprs(job.meta) \subseteq E
         /\ job.routing.strategy \subseteq E /\ job.routing.tiers \subseteq E
         /\ job.routing.providers \subseteq E /\ job.routing.maxCost \subseteq E
         /\ \A c \in ToSet(job.routing.constraints) \cup ToSet(job.routing.affinities) :
                c.attribute \subseteq E /\ c.operator \subseteq E /\ c.value \subseteq E
         /\ \A a \in ToSet(job.routing.affinities) : a.weight \subseteq E
         /\ \A t \in ToSet(job.tasks) :
                /\ t.driver \subseteq E /\ t.arch \subseteq E /\ t.cpu \subseteq E
                /\ t.memory \subseteq E /\ t.internet \subseteq E /\ t.private \subseteq E
                /\ t.privileged \subseteq E /\ t.timeout \subseteq E /\ t.paths \subseteq E
                /\ \A r \in t.retry : /\ r.attempts \subseteq E /\ r.reroute \subseteq E
                                      /\ r.initial \subseteq E /\ r.max \subseteq E
                /\ Exprs(t.env) \subseteq E
                /\ \A config \in t.config : Exprs(config.attrs) \subseteq E
  <1> DEFINE routing == job.routing
             comparisons == ToSet(routing.constraints) \cup ToSet(routing.affinities)
             typed(t) == t.driver \cup t.arch \cup t.cpu \cup t.memory \cup t.internet \cup t.private
                            \cup t.privileged \cup t.timeout \cup t.paths
             retries == UNION {t.retry : t \in ToSet(job.tasks)}
             configs == UNION {t.config : t \in ToSet(job.tasks)}
             plain == job.namespace \cup job.type \cup Exprs(job.meta)
                        \cup routing.strategy \cup routing.tiers \cup routing.providers \cup routing.maxCost
             compared == UNION {c.attribute \cup c.operator \cup c.value : c \in comparisons}
             weights == UNION {a.weight : a \in ToSet(routing.affinities)}
             attributes == UNION {typed(t) : t \in ToSet(job.tasks)}
             retried == UNION {r.attempts \cup r.reroute \cup r.initial \cup r.max : r \in retries}
             envs == UNION {Exprs(t.env) : t \in ToSet(job.tasks)}
             blocks == UNION {Exprs(config.attrs) : config \in configs}
  <1>1. E = plain \cup compared \cup weights \cup attributes \cup retried \cup envs \cup blocks
    BY Zenon DEF Expressions
  <1>2. /\ plain \subseteq E /\ compared \subseteq E /\ weights \subseteq E /\ attributes \subseteq E
         /\ retried \subseteq E /\ envs \subseteq E /\ blocks \subseteq E
    <2> HIDE DEF plain, compared, weights, attributes, retried, envs, blocks
    <2> QED BY <1>1
  <1>3. /\ job.namespace \cup job.type \cup Exprs(job.meta) \subseteq E
        /\ routing.strategy \cup routing.tiers \cup routing.providers \cup routing.maxCost \subseteq E
    BY <1>2
  <1>4. \A c \in comparisons : c.attribute \cup c.operator \cup c.value \subseteq E
    BY <1>2
  <1>5. \A t \in ToSet(job.tasks) : typed(t) \subseteq E /\ Exprs(t.env) \subseteq E
    BY <1>2
  <1>6. \A t \in ToSet(job.tasks) : \A r \in t.retry :
            r.attempts \cup r.reroute \cup r.initial \cup r.max \subseteq E
    <2>1. \A r \in retries : r.attempts \cup r.reroute \cup r.initial \cup r.max \subseteq E
      BY <1>2
    <2> QED BY <2>1
  <1>7. \A t \in ToSet(job.tasks) : \A config \in t.config : Exprs(config.attrs) \subseteq E
    <2>1. \A config \in configs : Exprs(config.attrs) \subseteq E
      BY <1>2
    <2> QED BY <2>1
  <1>8. \A a \in ToSet(routing.affinities) : a.weight \subseteq E
    BY <1>2
  <1> QED BY <1>3, <1>4, <1>5, <1>6, <1>7, <1>8

\* What decodes with one metadata decodes with another on which the job agrees.
LEMMA DecodesAgain ==
  ASSUME NEW job, NEW meta, NEW other, Agree(Expressions(job), meta, other), Decodes(job, meta)
  PROVE  Decodes(job, other)
  <1> DEFINE E == Expressions(job)
             routing == job.routing
             comparisons == ToSet(routing.constraints) \cup ToSet(routing.affinities)
  <1>1. \A exprs : exprs \subseteq E => Agree(exprs, meta, other)
    BY DEF Agree
  <1>2. \A e \in E : /\ IsText(e, meta) => IsText(e, other)
                     /\ IsList(e, meta) => IsList(e, other)
                     /\ IsInteger(e, meta) => IsInteger(e, other)
                     /\ IsFlag(e, meta) => IsFlag(e, other)
    BY SameReading DEF Agree
  <1>3. \A exprs : exprs \subseteq E /\ AreTexts(exprs, meta) => AreTexts(exprs, other)
    BY <1>1, SameTexts
  <1>4. PICK F : F = Expressions(job)
    OBVIOUS
  <1>5. /\ job.namespace \subseteq F /\ job.type \subseteq F
        /\ routing.strategy \subseteq F /\ routing.tiers \subseteq F
        /\ routing.providers \subseteq F /\ routing.maxCost \subseteq F
        /\ \A c \in comparisons :
                c.attribute \subseteq F /\ c.operator \subseteq F /\ c.value \subseteq F
        /\ \A a \in ToSet(routing.affinities) : a.weight \subseteq F
    BY <1>4, ExpressionsHold
  <1>6. \A t \in ToSet(job.tasks) :
            /\ t.driver \subseteq F /\ t.arch \subseteq F /\ t.cpu \subseteq F
            /\ t.memory \subseteq F /\ t.internet \subseteq F /\ t.private \subseteq F
            /\ t.privileged \subseteq F /\ t.timeout \subseteq F /\ t.paths \subseteq F
            /\ \A r \in t.retry : /\ r.attempts \subseteq F /\ r.reroute \subseteq F
                                  /\ r.initial \subseteq F /\ r.max \subseteq F
    BY <1>4, ExpressionsHold
  <1>7. E = F
    BY <1>4
  <1> HIDE DEF E
  <1>8. \A c \in comparisons : DecodesComparison(c, meta) => DecodesComparison(c, other)
    <2> SUFFICES ASSUME NEW c \in comparisons, DecodesComparison(c, meta)
                 PROVE  DecodesComparison(c, other)
      OBVIOUS
    <2>1. c.attribute \cup c.operator \cup c.value \subseteq E
      BY <1>5, <1>7
    <2> QED BY <1>3, <2>1 DEF DecodesComparison
  <1>9. DecodesRouting(routing, other)
    <2>1. DecodesRouting(routing, meta)
      BY DEF Decodes
    <2> QED BY <1>2, <1>5, <1>7, <1>8, <2>1 DEF DecodesRouting
  <1>10. ASSUME NEW t \in ToSet(job.tasks) PROVE DecodesTask(t, other)
    <2>1. DecodesTask(t, meta)
      BY <1>10 DEF Decodes
    <2>2. \A r \in t.retry : DecodesRetry(r, other)
      BY <1>2, <1>6, <1>7, <1>10, <2>1 DEF DecodesTask, DecodesRetry
    <2>3. AreTexts(t.driver, other)
      BY <1>3, <1>6, <1>7, <1>10, <2>1 DEF DecodesTask
    <2> QED BY <1>2, <1>6, <1>7, <1>10, <2>1, <2>2, <2>3 DEF DecodesTask
  <1> QED BY <1>2, <1>5, <1>7, <1>9, <1>10 DEF Decodes

\* What is bound agrees too: a comparison,
LEMMA ComparisonBinds ==
  ASSUME NEW c, NEW meta, NEW other, Agree(c.attribute, meta, other),
         Agree(c.operator, meta, other), Agree(c.value, meta, other)
  PROVE  BindComparison(c, meta) = BindComparison(c, other)
  <1>1. /\ NamesOf(c.attribute, meta) = NamesOf(c.attribute, other)
        /\ NamesOf(c.operator, meta) = NamesOf(c.operator, other)
        /\ TextOf(c.value, meta) = TextOf(c.value, other)
    BY SameTexts
  <1> QED BY <1>1 DEF BindComparison

\* an affinity,
LEMMA AffinityBinds ==
  ASSUME NEW a, NEW meta, NEW other, Agree(a.attribute, meta, other), Agree(a.operator, meta, other),
         Agree(a.value, meta, other), Agree(a.weight, meta, other),
         {"attribute", "operator", "value", "weight"} \subseteq DOMAIN a
  PROVE  BindAffinity(a, meta) = BindAffinity(a, other)
  <1>1. BindComparison(a, meta) = BindComparison(a, other)
    BY ComparisonBinds
  <1>2. IntegersOf(a.weight, meta) = IntegersOf(a.weight, other)
    BY SameTexts
  <1>3. BindComparison(a, meta).weight = a.weight /\ BindComparison(a, other).weight = a.weight
    BY DEF BindComparison
  <1> QED BY <1>1, <1>2, <1>3 DEF BindAffinity

\* and a task.
LEMMA TaskBinds ==
  ASSUME NEW t, NEW meta, NEW other, Agree(t.driver, meta, other), Agree(t.arch, meta, other),
         Agree(t.cpu, meta, other), Agree(t.memory, meta, other), Agree(t.internet, meta, other),
         Agree(t.private, meta, other), Agree(t.timeout, meta, other),
         \A r \in t.retry : /\ Agree(r.attempts, meta, other) /\ Agree(r.initial, meta, other)
                            /\ Agree(r.max, meta, other)
  PROVE  BindTask(t, meta) = BindTask(t, other)
  <1>1. {BindRetry(r, meta) : r \in t.retry} = {BindRetry(r, other) : r \in t.retry}
    <2>1. \A r \in t.retry : BindRetry(r, meta) = BindRetry(r, other)
      BY SameTexts DEF BindRetry
    <2> QED BY <2>1
  <1>2. /\ NamesOf(t.driver, meta) = NamesOf(t.driver, other)
        /\ NamesOf(t.arch, meta) = NamesOf(t.arch, other)
        /\ IntegersOf(t.cpu, meta) = IntegersOf(t.cpu, other)
        /\ IntegersOf(t.memory, meta) = IntegersOf(t.memory, other)
        /\ FlagsOf(t.internet, meta) = FlagsOf(t.internet, other)
        /\ FlagsOf(t.private, meta) = FlagsOf(t.private, other)
        /\ TextOf(t.timeout, meta) = TextOf(t.timeout, other)
    BY SameTexts
  <1> QED BY <1>1, <1>2 DEF BindTask

\* A job in a document holds what its blocks may hold.
LEMMA JobHolds ==
  ASSUME NEW doc, IsDocument(doc), NEW i \in DOMAIN doc
  PROVE  /\ {"name", "namespace", "type", "meta", "parameterized", "routing", "tasks"}
                \subseteq DOMAIN doc[i]
         /\ {"strategy", "tiers", "providers", "maxCost", "constraints", "affinities"}
                \subseteq DOMAIN doc[i].routing
         /\ \A a \in ToSet(doc[i].routing.affinities) :
                {"attribute", "operator", "value", "weight"} \subseteq DOMAIN a
         /\ \A k \in DOMAIN doc[i].tasks : IsTask(doc[i].tasks[k])
  <1>1. doc[i] \in ToSet(doc)
    BY DEF ToSet
  <1>2. \A s : \A k \in DOMAIN s : s[k] \in ToSet(s)
    BY DEF ToSet
  <1> QED BY <1>1, <1>2 DEF IsDocument, IsRouting

\* A job is bound to the same by two metadata on which it agrees.
LEMMA BindsAgain ==
  ASSUME NEW doc, IsDocument(doc), 1 \in DOMAIN doc, NEW meta, NEW other,
         Agree(Expressions(doc[1]), meta, other)
  PROVE  Bind(doc[1], meta) = Bind(doc[1], other)
  <1> DEFINE job == doc[1]
             routing == job.routing
  <1>1. PICK E : E = Expressions(job)
    OBVIOUS
  <1>2. \A exprs : exprs \subseteq E => Agree(exprs, meta, other)
    BY <1>1 DEF Agree
  <1>3. \A s : \A k \in DOMAIN s : s[k] \in ToSet(s)
    BY DEF ToSet
  <1>4. /\ job.namespace \subseteq E /\ job.type \subseteq E
        /\ routing.strategy \subseteq E /\ routing.tiers \subseteq E
        /\ routing.providers \subseteq E /\ routing.maxCost \subseteq E
        /\ \A c \in ToSet(routing.constraints) \cup ToSet(routing.affinities) :
                c.attribute \subseteq E /\ c.operator \subseteq E /\ c.value \subseteq E
        /\ \A a \in ToSet(routing.affinities) : a.weight \subseteq E
    BY <1>1, ExpressionsHold
  <1>5. \A t \in ToSet(job.tasks) :
            /\ t.driver \subseteq E /\ t.arch \subseteq E /\ t.cpu \subseteq E
            /\ t.memory \subseteq E /\ t.internet \subseteq E /\ t.private \subseteq E
            /\ t.timeout \subseteq E
            /\ \A r \in t.retry : r.attempts \subseteq E /\ r.initial \subseteq E /\ r.max \subseteq E
    BY <1>1, ExpressionsHold
  <1>6. [i \in DOMAIN routing.constraints |-> BindComparison(routing.constraints[i], meta)]
            = [i \in DOMAIN routing.constraints |-> BindComparison(routing.constraints[i], other)]
    <2>1. \A i \in DOMAIN routing.constraints :
            BindComparison(routing.constraints[i], meta) = BindComparison(routing.constraints[i], other)
      BY <1>2, <1>3, <1>4, ComparisonBinds
    <2> QED BY <2>1
  <1>7. [i \in DOMAIN routing.affinities |-> BindAffinity(routing.affinities[i], meta)]
            = [i \in DOMAIN routing.affinities |-> BindAffinity(routing.affinities[i], other)]
    <2>1. ASSUME NEW i \in DOMAIN routing.affinities
          PROVE  BindAffinity(routing.affinities[i], meta) = BindAffinity(routing.affinities[i], other)
      <3>1. routing.affinities[i] \in ToSet(routing.affinities)
        BY <1>3
      <3>2. {"attribute", "operator", "value", "weight"} \subseteq DOMAIN routing.affinities[i]
        BY <3>1, JobHolds
      <3> QED BY <1>2, <1>4, <3>1, <3>2, AffinityBinds
    <2> QED BY <2>1
  <1>8. BindRouting(routing, meta) = BindRouting(routing, other)
    <2>1. /\ NamesOf(routing.strategy, meta) = NamesOf(routing.strategy, other)
          /\ NamesOf(routing.tiers, meta) = NamesOf(routing.tiers, other)
          /\ ListOf(routing.providers, meta) = ListOf(routing.providers, other)
          /\ IntegersOf(routing.maxCost, meta) = IntegersOf(routing.maxCost, other)
      BY <1>2, <1>4, SameTexts
    <2> QED BY <1>6, <1>7, <2>1 DEF BindRouting
  <1>9. [i \in DOMAIN job.tasks |-> BindTask(job.tasks[i], meta)]
            = [i \in DOMAIN job.tasks |-> BindTask(job.tasks[i], other)]
    <2>1. ASSUME NEW i \in DOMAIN job.tasks
          PROVE  BindTask(job.tasks[i], meta) = BindTask(job.tasks[i], other)
      <3>1. job.tasks[i] \in ToSet(job.tasks)
        BY <1>3
      <3> QED BY <1>2, <1>5, <3>1, TaskBinds
    <2> QED BY <2>1
  <1>10. /\ NamesOf(job.namespace, meta) = NamesOf(job.namespace, other)
         /\ NamesOf(job.type, meta) = NamesOf(job.type, other)
    BY <1>2, <1>4, SameTexts
  <1> QED BY <1>8, <1>9, <1>10 DEF Bind

\* Where every expression comes to what it came to on placeholders, what was read
\* on them reads.
LEMMA ParsesAgain ==
  ASSUME NEW doc, DOMAIN doc = {1}, NEW meta, Parses(doc, References(Declared(doc))),
         CheckDispatch(Declared(doc), meta),
         Agree(Expressions(doc[1]), References(Declared(doc)), meta)
  PROVE  Parses(doc, meta)
  <1> DEFINE job == doc[1]
             refs == References(Declared(doc))
  <1>1. Declared(doc) = job.parameterized
    BY DEF Declared
  <1>2. MissingMeta(doc, meta) = {}
    <2>1. UNION {doc[i].parameterized : i \in DOMAIN doc} = job.parameterized
      OBVIOUS
    <2>2. \A p \in job.parameterized : p.required \subseteq DOMAIN meta
      BY <1>1 DEF CheckDispatch
    <2> QED BY <2>1, <2>2 DEF MissingMeta, RequiredMeta
  <1>3. \A e \in Expressions(job) : /\ IsText(e, refs) => IsText(e, meta)
                                    /\ Evaluates(e, refs) => Evaluates(e, meta)
    BY SameReading DEF Agree
  <1>4. PICK E : E = Expressions(job)
    OBVIOUS
  <1>5. /\ Exprs(job.meta) \subseteq E
        /\ \A t \in ToSet(job.tasks) : /\ Exprs(t.env) \subseteq E
                                       /\ \A config \in t.config : Exprs(config.attrs) \subseteq E
    BY <1>4, ExpressionsHold
  <1>6. Decodes(job, meta) /\ \A e \in Exprs(job.meta) : IsText(e, meta)
    <2>1. Decodes(job, refs) /\ \A e \in Exprs(job.meta) : IsText(e, refs)
      BY DEF Parses
    <2> QED BY <1>3, <1>4, <1>5, <2>1, DecodesAgain
  <1>7. ASSUME NEW k \in DOMAIN job.tasks
        PROVE  CheckConfigBlocks(job.tasks[k]) /\ CheckReferences(job.tasks[k], meta)
    <2>1. CheckConfigBlocks(job.tasks[k]) /\ CheckReferences(job.tasks[k], refs)
      BY <1>7 DEF Parses
    <2>2. job.tasks[k] \in ToSet(job.tasks)
      BY <1>7 DEF ToSet
    <2>3. /\ \A e \in Exprs(job.tasks[k].env) : e \in Expressions(job)
          /\ \A config \in job.tasks[k].config : \A e \in Exprs(config.attrs) : e \in Expressions(job)
      BY <1>4, <1>5, <2>2
    <2> QED BY <1>3, <2>1, <2>3 DEF CheckReferences
  <1> QED BY <1>2, <1>6, <1>7 DEF Parses

\* A document that loads is one job.
LEMMA LoadsOne ==
  ASSUME NEW doc, IsDocument(doc), NEW meta, Load(doc, meta)
  PROVE  DOMAIN doc = {1} /\ ValidJob(Bind(doc[1], meta)) /\ Parses(doc, meta)
  <1> DEFINE bound == [i \in DOMAIN doc |-> Bind(doc[i], meta)]
  <1>1. doc \in Seq(ToSet(doc))
    BY DEF IsDocument, IsSequence
  <1>2. DOMAIN doc = 1 .. Len(doc) /\ Len(doc) \in Nat
    BY <1>1
  <1>3. Len(bound) = 1 /\ ValidJob(bound[1])
    BY DEF Load, Validate
  <1>4. bound \in Seq({bound[i] : i \in DOMAIN doc}) /\ Len(bound) = Len(doc)
    BY <1>2
  <1>5. DOMAIN doc = {1}
    BY <1>2, <1>3, <1>4
  <1> QED BY <1>3, <1>5 DEF Load

\* Jobs that were registered on placeholders load with what a dispatch may supply,
\* where every expression comes to the same.
LEMMA LoadsAgain ==
  ASSUME NEW doc, IsDocument(doc), ForRegister(doc), NEW meta, CheckDispatch(Declared(doc), meta),
         Agree(Expressions(doc[1]), References(Declared(doc)), meta)
  PROVE  Load(doc, meta)
  <1> DEFINE refs == References(Declared(doc))
  <1>1. DOMAIN doc = {1} /\ Parses(doc, refs)
    BY LoadsOne DEF ForRegister
  <1>2. Parses(doc, meta)
    BY <1>1, ParsesAgain
  <1>3. Bind(doc[1], refs) = Bind(doc[1], meta)
    BY <1>1, BindsAgain
  <1>4. [i \in DOMAIN doc |-> Bind(doc[i], meta)] = [i \in DOMAIN doc |-> Bind(doc[i], refs)]
    BY <1>1, <1>3
  <1>5. Validate([i \in DOMAIN doc |-> Bind(doc[i], refs)])
    BY DEF ForRegister, Load
  <1> QED BY <1>2, <1>4, <1>5 DEF Load

-----------------------------------------------------------------------------
\* What a request is refused for

\* A task whose image comes to what is no text.
OddImage(t, meta) ==
    \E config \in t.config :
        /\ "image" \in DOMAIN config.attrs
        /\ Value(config.attrs["image"], meta)[1] \notin {"text", "null", "error"}

\* The tasks of a job that was evaluated.
LEMMA BoundTasks ==
  ASSUME NEW doc, IsDocument(doc), NEW meta, 1 \in DOMAIN doc
  PROVE  /\ Bind(doc[1], meta).tasks = [i \in DOMAIN doc[1].tasks |-> BindTask(doc[1].tasks[i], meta)]
         /\ DOMAIN Bind(doc[1], meta).tasks = DOMAIN doc[1].tasks
         /\ \A k \in DOMAIN doc[1].tasks : Bind(doc[1], meta).tasks[k] = BindTask(doc[1].tasks[k], meta)
  <1> DEFINE job == doc[1]
  <1>1. "tasks" \in DOMAIN job
    BY JobHolds
  <1>2. Bind(job, meta).tasks = [i \in DOMAIN job.tasks |-> BindTask(job.tasks[i], meta)]
    BY <1>1 DEF Bind
  <1> QED BY <1>2

\* A task makes no request of the scheduler only where its image comes to no text.
LEMMA NoRequestIsOdd ==
  ASSUME NEW doc, IsDocument(doc), NEW meta, Load(doc, meta),
         NEW i \in DOMAIN doc[1].tasks, NEW tiers,
         RequestFor(Bind(doc[1], meta), i, meta, tiers) = {}
  PROVE  OddImage(doc[1].tasks[i], meta)
  <1> DEFINE t == doc[1].tasks[i]
             bound == Bind(doc[1], meta).tasks[i]
  <1>1. DOMAIN doc = {1} /\ Parses(doc, meta)
    BY LoadsOne
  <1>2. 1 \in DOMAIN doc
    BY <1>1
  <1>3. bound = BindTask(t, meta)
    BY <1>2, BoundTasks
  <1>4. IsTask(t)
    <2>1. 1 \in DOMAIN doc
      BY <1>1
    <2> QED BY <2>1, JobHolds
  <1>5. bound.config = t.config
    BY <1>3, <1>4 DEF BindTask, IsTask
  <1>6. Image(bound, meta) = {}
    BY DEF RequestFor
  <1> HIDE DEF bound
  <1>7. PICK config \in t.config : /\ "image" \in DOMAIN config.attrs
                                  /\ ~IsText(config.attrs["image"], meta)
    BY <1>5, <1>6 DEF Image
  <1> DEFINE e == config.attrs["image"]
  <1>8. e \in Exprs(config.attrs)
    BY <1>7 DEF Exprs
  <1>9. CheckConfigBlocks(t) /\ CheckReferences(t, meta)
    BY <1>1 DEF Parses
  <1>10. Evaluates(e, meta)
    BY <1>7, <1>8, <1>9 DEF CheckConfigBlocks, CheckReferences
  <1> QED BY <1>7, <1>10 DEF OddImage, IsText, Evaluates

-----------------------------------------------------------------------------
\* The jobs, and what requests hold of them

\* Stages of a request that has its job loaded.
Working == {"loaded", "reading", "applying", "priced"}

\* Versions are kept under their numbers, up to where the job stands, and each of
\* them could be registered.
JobsInv ==
    /\ jobs \in [Key -> Standing]
    /\ DOMAIN versions = Key
    /\ \A key \in Key :
        /\ versions[key] \in Seq(Version)
        /\ Len(versions[key]) = jobs[key].version
        /\ \A i \in 1 .. Len(versions[key]) :
            versions[key][i].version = i /\ ForRegister(Content[versions[key][i].document])

\* One of the sources that load, at one of its tasks.
Loaded(d, meta, i) ==
    d \in Document /\ Load(Content[d], meta) /\ i \in DOMAIN Content[d][1].tasks

\* What a request by name has of its job.
NamedInv(c) ==
    /\ at[c] \in {"asked", "found"} => document[c] = {} /\ task[c] = 1
    /\ at[c] = "found" => /\ KeyOf(ask[c]) \in Key
                          /\ version[c] \in 1 .. jobs[KeyOf(ask[c])].version
    /\ at[c] \in Working => \E d \in Document : document[c] = {d} /\ Loaded(d, ask[c].meta, task[c])
    /\ document[c] # {} =>
        \E d \in Document : document[c] = {d} /\ ForRegister(Content[d])

\* What it was refused for.
RefusedInv(c) ==
    /\ verdict[c] = <<"invalid">> /\ document[c] # {} =>
        CheckDispatch(Declared(DocumentOf(c)), ask[c].meta) /\ ~Load(DocumentOf(c), ask[c].meta)
    /\ verdict[c] = <<"invalid image">> =>
        \E t \in ToSet(DocumentOf(c)[1].tasks) : OddImage(t, ask[c].meta)

RequestInv(c) ==
    /\ at[c] = "idle" => document[c] = {} /\ task[c] = 1
    /\ (verdict[c] # <<>>) => at[c] = "done"
    /\ ByName(ask[c]) => at[c] # "submitted" /\ NamedInv(c) /\ RefusedInv(c)
    /\ ~ByName(ask[c]) => at[c] \notin {"asked", "found"}

RequestDomains ==
    /\ DOMAIN ask = Client /\ DOMAIN at = Client /\ DOMAIN version = Client
    /\ DOMAIN document = Client /\ DOMAIN task = Client /\ DOMAIN verdict = Client

CauseInv == JobsInv /\ RequestDomains /\ \A c \in Client : RequestInv(c)

\* Nothing is registered and nobody asks in the beginning.
LEMMA InitCauseInv == Init => CauseInv
  <1> SUFFICES ASSUME Init PROVE CauseInv
    OBVIOUS
  <1>1. JobsInv
    <2>1. jobs \in [Key -> Standing]
      BY MaxVersionsAssumption DEF Init, JobsInit, Standing
    <2>2. \A key \in Key : versions[key] = <<>> /\ jobs[key].version = 0
      BY DEF Init, JobsInit
    <2>3. DOMAIN versions = Key
      BY DEF Init, JobsInit
    <2>4. \A key \in Key : /\ versions[key] \in Seq(Version) /\ Len(versions[key]) = 0
                           /\ 1 .. Len(versions[key]) = {}
      <3>1. <<>> \in Seq(Version) /\ Len(<<>>) = 0 /\ 1 .. 0 = {}
        OBVIOUS
      <3> QED BY <2>2, <3>1
    <2> QED BY <2>1, <2>2, <2>3, <2>4 DEF JobsInv
  <1>2. RequestDomains
    BY DEF Init, RequestDomains
  <1>3. \A c \in Client : RequestInv(c)
    <2> SUFFICES ASSUME NEW c \in Client PROVE RequestInv(c)
      OBVIOUS
    <2>1. at[c] = "idle" /\ document[c] = {} /\ task[c] = 1 /\ verdict[c] = <<>>
      BY DEF Init
    <2>2. verdict[c] # <<"invalid">> /\ verdict[c] # <<"invalid image">>
      BY <2>1
    <2> QED BY <2>1, <2>2 DEF RequestInv, NamedInv, RefusedInv, Working
  <1> QED BY <1>1, <1>2, <1>3 DEF CauseInv

\* A step of one client leaves the jobs, and what the others have, as they were.
LEMMA OneRequest ==
  ASSUME CauseInv, NEW c \in Client, UNCHANGED <<jobs, versions>>, RequestDomains', RequestInv(c)',
         \A d \in Client \ {c} :
            /\ ask'[d] = ask[d] /\ at'[d] = at[d] /\ version'[d] = version[d]
            /\ document'[d] = document[d] /\ task'[d] = task[d] /\ verdict'[d] = verdict[d]
  PROVE  CauseInv'
  <1>1. JobsInv'
    <2>1. JobsInv
      BY DEF CauseInv
    <2> QED BY <2>1 DEF JobsInv
  <1>2. ASSUME NEW d \in Client \ {c} PROVE RequestInv(d)'
    <2>1. RequestInv(d)
      BY DEF CauseInv
    <2>2. /\ ask'[d] = ask[d] /\ at'[d] = at[d] /\ version'[d] = version[d]
          /\ document'[d] = document[d] /\ task'[d] = task[d] /\ verdict'[d] = verdict[d]
      OBVIOUS
    <2> QED BY <2>1, <2>2 DEF RequestInv, NamedInv, RefusedInv, DocumentOf
  <1> QED BY <1>1, <1>2 DEF CauseInv

\* Later steps of a request keep what it has: it goes on with its job, or is done
\* with it.
LEMMA LaterRequest ==
  ASSUME CauseInv, NEW c \in Client, UNCHANGED <<jobs, versions, ask, version, document>>,
         at[c] \in Working, RequestDomains',
         \A d \in Client \ {c} :
            at'[d] = at[d] /\ verdict'[d] = verdict[d] /\ task'[d] = task[d],
         at'[c] \in Working \/ at'[c] = "done",
         at'[c] \in Working => verdict'[c] = <<>>,
         ByName(ask[c]) /\ at'[c] \in Working => task'[c] \in DOMAIN DocumentOf(c)[1].tasks,
         verdict'[c] # <<"invalid">>,
         verdict'[c] = <<"invalid image">> /\ ByName(ask[c]) =>
            \E t \in ToSet(DocumentOf(c)[1].tasks) : OddImage(t, ask[c].meta)
  PROVE  CauseInv'
  <1>2. RequestInv(c)
    BY DEF CauseInv
  <1>3. DocumentOf(c)' = DocumentOf(c) /\ ByName(ask[c])' = ByName(ask[c])
    BY DEF DocumentOf, ByName
  <1>4. at'[c] \notin {"idle", "asked", "submitted", "found"}
    BY DEF Working
  <1>5. ByName(ask[c]) => NamedInv(c)'
    <2> SUFFICES ASSUME ByName(ask[c]) PROVE NamedInv(c)'
      OBVIOUS
    <2>1. NamedInv(c)
      BY <1>2 DEF RequestInv
    <2>2. PICK d \in Document : document[c] = {d} /\ Loaded(d, ask[c].meta, task[c])
      BY <2>1 DEF NamedInv
    <2>3. DocumentOf(c) = Content[d]
      BY <2>2 DEF DocumentOf
    <2>4. at'[c] \in Working => Loaded(d, ask[c].meta, task'[c])
      BY <2>2, <2>3 DEF Loaded
    <2> QED BY <1>4, <2>1, <2>2, <2>4 DEF NamedInv
  <1>6. ByName(ask[c]) => RefusedInv(c)'
    BY <1>3 DEF RefusedInv
  <1>7. RequestInv(c)'
    <2>1. verdict'[c] # <<>> => at'[c] = "done"
      OBVIOUS
    <2> QED BY <1>2, <1>3, <1>4, <1>5, <1>6, <2>1 DEF RequestInv
  <1> QED BY <1>7, OneRequest

\* What a request by name works on, with its metadata.
LEMMA WorksOn ==
  ASSUME CauseInv, NEW c \in Client, at[c] \in Working, ByName(ask[c])
  PROVE  /\ IsDocument(DocumentOf(c)) /\ Load(DocumentOf(c), ask[c].meta)
         /\ task[c] \in DOMAIN DocumentOf(c)[1].tasks
  <1>1. NamedInv(c)
    BY DEF CauseInv, RequestInv
  <1>2. PICK d \in Document : document[c] = {d} /\ Loaded(d, ask[c].meta, task[c])
    BY <1>1 DEF NamedInv
  <1>3. DocumentOf(c) = Content[d]
    BY <1>2 DEF DocumentOf
  <1> QED BY <1>2, <1>3, ContentAssumption DEF Loaded

\* The image of a task a request by name asks for in vain comes to no text.
LEMMA VainIsOdd ==
  ASSUME CauseInv, NEW c \in Client, at[c] \in Working, ByName(ask[c]),
         NEW i \in DOMAIN DocumentOf(c)[1].tasks, TaskRequest(c, i) = {}
  PROVE  \E t \in ToSet(DocumentOf(c)[1].tasks) : OddImage(t, ask[c].meta)
  <1>1. OddImage(DocumentOf(c)[1].tasks[i], ask[c].meta)
    <2>1. RequestFor(Bind(DocumentOf(c)[1], ask[c].meta), i, ask[c].meta, TierModeOf(Configuration)) = {}
      BY DEF TaskRequest, JobOf
    <2> QED BY <2>1, WorksOn, NoRequestIsOdd
  <1>2. DocumentOf(c)[1].tasks[i] \in ToSet(DocumentOf(c)[1].tasks)
    BY DEF ToSet
  <1> QED BY <1>1, <1>2

\* Every step of a client that has its job loaded.
LEMMA WorkingStep ==
  ASSUME CauseInv, NEW c \in Client,
         Plan(c) \/ StartTask(c) \/ ReadForTask(c) \/ ApplyForTask(c) \/ Place(c)
  PROVE  CauseInv'
  <1>1. UNCHANGED <<jobs, versions, ask, version, document>> /\ at[c] \in Working
    BY DEF Plan, StartTask, ReadForTask, ApplyForTask, Place, Working
  <1>2. DOMAIN at = Client /\ DOMAIN verdict = Client /\ DOMAIN task = Client
        /\ DOMAIN ask = Client /\ DOMAIN version = Client /\ DOMAIN document = Client
    BY DEF CauseInv, RequestDomains
  <1>3. verdict[c] = <<>>
    BY <1>1 DEF CauseInv, RequestInv, Working
  <1>4. ByName(ask[c]) => task[c] \in DOMAIN DocumentOf(c)[1].tasks
    BY <1>1, WorksOn
  <1>5. ByName(ask[c]) => \A i \in DOMAIN DocumentOf(c)[1].tasks :
            TaskRequest(c, i) = {} => \E t \in ToSet(DocumentOf(c)[1].tasks) : OddImage(t, ask[c].meta)
    BY <1>1, VainIsOdd
  <1>6. ByName(ask[c]) => DOMAIN JobOf(c).tasks = DOMAIN DocumentOf(c)[1].tasks
    <2> SUFFICES ASSUME ByName(ask[c]) PROVE DOMAIN JobOf(c).tasks = DOMAIN DocumentOf(c)[1].tasks
      OBVIOUS
    <2>1. IsDocument(DocumentOf(c)) /\ Load(DocumentOf(c), ask[c].meta)
      BY <1>1, WorksOn
    <2>2. 1 \in DOMAIN DocumentOf(c)
      BY <2>1, LoadsOne
    <2> QED BY <2>1, <2>2, BoundTasks DEF JobOf
  <1>7. ASSUME NEW answer, Answered(c, answer), UNCHANGED task, answer # <<"invalid">>,
               answer = <<"invalid image">> /\ ByName(ask[c]) =>
                    \E t \in ToSet(DocumentOf(c)[1].tasks) : OddImage(t, ask[c].meta)
        PROVE  CauseInv'
    <2>1. at'[c] = "done" /\ verdict'[c] = answer
      BY <1>2, <1>7 DEF Answered
    <2>2. \A d \in Client \ {c} :
            at'[d] = at[d] /\ verdict'[d] = verdict[d] /\ task'[d] = task[d]
      BY <1>2, <1>7 DEF Answered
    <2>3. RequestDomains'
      BY <1>1, <1>2, <1>7 DEF Answered, RequestDomains
    <2>4. at'[c] \notin Working
      BY <2>1 DEF Working
    <2> QED BY <1>1, <1>7, <2>1, <2>2, <2>3, <2>4, LaterRequest
  <1>8. ASSUME NEW now \in Working, at' = [at EXCEPT ![c] = now], UNCHANGED <<verdict, task>>
        PROVE  CauseInv'
    <2>1. at'[c] = now /\ verdict'[c] = <<>> /\ task'[c] = task[c]
      BY <1>2, <1>3, <1>8
    <2>2. \A d \in Client \ {c} :
            at'[d] = at[d] /\ verdict'[d] = verdict[d] /\ task'[d] = task[d]
      BY <1>2, <1>8
    <2>3. RequestDomains'
      BY <1>1, <1>2, <1>8 DEF RequestDomains
    <2>4. verdict'[c] # <<"invalid">> /\ verdict'[c] # <<"invalid image">>
      BY <2>1
    <2> QED BY <1>1, <1>4, <1>8, <2>1, <2>2, <2>3, <2>4, LaterRequest
  <1>9. CASE Plan(c)
    <2>1. UNCHANGED task
      BY <1>9 DEF Plan
    <2>2. CASE (\E i \in DOMAIN JobOf(c).tasks : TaskRequest(c, i) = {}) /\ Answered(c, <<"invalid image">>)
      BY <1>5, <1>6, <1>7, <2>1, <2>2
    <2>3. CASE Answered(c, <<"planned">>)
      BY <1>7, <2>1, <2>3
    <2> QED BY <1>9, <2>2, <2>3 DEF Plan
  <1>10. CASE StartTask(c)
    <2>1. UNCHANGED task
      BY <1>10 DEF StartTask
    <2>2. CASE TaskRequest(c, task[c]) = {} /\ Answered(c, <<"invalid image">>)
      BY <1>4, <1>5, <1>7, <2>1, <2>2
    <2>3. CASE at' = [at EXCEPT ![c] = "reading"] /\ UNCHANGED verdict
      BY <1>8, <2>1, <2>3 DEF Working
    <2> QED BY <1>10, <2>2, <2>3 DEF StartTask
  <1>11. CASE ReadForTask(c)
    <2>1. UNCHANGED <<verdict, task>>
          /\ (at' = [at EXCEPT ![c] = "applying"] \/ at' = [at EXCEPT ![c] = "priced"])
      BY <1>11 DEF ReadForTask
    <2> QED BY <1>8, <2>1 DEF Working
  <1>12. CASE ApplyForTask(c)
    <2>1. UNCHANGED <<verdict, task>> /\ at' = [at EXCEPT ![c] = "priced"]
      BY <1>12 DEF ApplyForTask
    <2> QED BY <1>8, <2>1 DEF Working
  <1>13. CASE Place(c)
    <2>1. PICK req \in TaskRequest(c, task[c]) :
            LET plan == PlanTask(req, InputsFor(c))
            IN IF plan.ranking = <<>>
               THEN Answered(c, <<"no candidates">>) /\ UNCHANGED task
               ELSE \/ Answered(c, <<"placed", plan.ranking[1].provider>>) /\ UNCHANGED task
                    \/ /\ task[c] < Len(JobOf(c).tasks)
                       /\ task' = [task EXCEPT ![c] = @ + 1]
                       /\ at' = [at EXCEPT ![c] = "loaded"]
                       /\ UNCHANGED verdict
      BY <1>13 DEF Place
    <2>2. CASE Answered(c, <<"no candidates">>) /\ UNCHANGED task
      BY <1>7, <2>2
    <2>3. ASSUME NEW p, Answered(c, <<"placed", p>>), UNCHANGED task PROVE CauseInv'
      <3>1. <<"placed", p>> # <<"invalid">> /\ <<"placed", p>> # <<"invalid image">>
        OBVIOUS
      <3> QED BY <1>7, <2>3, <3>1
    <2>4. CASE /\ task[c] < Len(JobOf(c).tasks)
               /\ task' = [task EXCEPT ![c] = @ + 1]
               /\ at' = [at EXCEPT ![c] = "loaded"]
               /\ UNCHANGED verdict
      <3>1. /\ at'[c] = "loaded" /\ verdict'[c] = <<>> /\ task'[c] = task[c] + 1
            /\ at'[c] \in Working
        BY <1>2, <1>3, <2>4 DEF Working
      <3>2. \A d \in Client \ {c} :
              at'[d] = at[d] /\ verdict'[d] = verdict[d] /\ task'[d] = task[d]
        BY <1>2, <2>4
      <3>3. RequestDomains'
        BY <1>1, <1>2, <2>4 DEF RequestDomains
      <3>4. verdict'[c] # <<"invalid">> /\ verdict'[c] # <<"invalid image">>
        BY <3>1
      <3>5. ByName(ask[c]) => task'[c] \in DOMAIN DocumentOf(c)[1].tasks
        <4> SUFFICES ASSUME ByName(ask[c]) PROVE task'[c] \in DOMAIN DocumentOf(c)[1].tasks
          OBVIOUS
        <4>1. IsDocument(DocumentOf(c)) /\ Load(DocumentOf(c), ask[c].meta)
          BY <1>1, WorksOn
        <4>2. 1 \in DOMAIN DocumentOf(c)
          BY <4>1, LoadsOne
        <4>3. DocumentOf(c)[1] \in ToSet(DocumentOf(c))
          BY <4>2 DEF ToSet
        <4>4. DocumentOf(c)[1].tasks \in Seq(ToSet(DocumentOf(c)[1].tasks))
          BY <4>1, <4>3 DEF IsDocument, IsSequence
        <4>5. /\ DOMAIN DocumentOf(c)[1].tasks = 1 .. Len(DocumentOf(c)[1].tasks)
              /\ Len(DocumentOf(c)[1].tasks) \in Nat
          BY <4>4
        <4>6. JobOf(c).tasks = [i \in DOMAIN DocumentOf(c)[1].tasks |->
                                    BindTask(DocumentOf(c)[1].tasks[i], ask[c].meta)]
          BY <4>1, <4>2, BoundTasks DEF JobOf
        <4>7. Len(JobOf(c).tasks) = Len(DocumentOf(c)[1].tasks)
          BY <4>5, <4>6
        <4>8. task[c] \in 1 .. Len(DocumentOf(c)[1].tasks)
          BY <1>4, <4>5
        <4> QED BY <2>4, <3>1, <4>5, <4>7, <4>8
      <3> QED BY <1>1, <3>1, <3>2, <3>3, <3>4, <3>5, LaterRequest
    <2> QED BY <2>1, <2>2, <2>3, <2>4
  <1> QED BY <1>9, <1>10, <1>11, <1>12, <1>13

\* Answers are told apart by their first word.
LEMMA Answers ==
  /\ <<"no namespace">> # <<"invalid">> /\ <<"no namespace">> # <<"invalid image">>
  /\ <<"not found">> # <<"invalid">> /\ <<"not found">> # <<"invalid image">>
  /\ <<"stopped">> # <<"invalid">> /\ <<"stopped">> # <<"invalid image">>
  /\ <<"not permitted">> # <<"invalid">> /\ <<"not permitted">> # <<"invalid image">>
  /\ <<"invalid">> # <<"invalid image">>
  /\ <<>> # <<"invalid">> /\ <<>> # <<"invalid image">>
  OBVIOUS

\* A request for a job nobody declared the namespace of is over; another one has
\* nothing yet.
LEMMA AskCause == ASSUME CauseInv, NEW c \in Client, Ask(c) PROVE CauseInv'
  <1>1. /\ UNCHANGED <<jobs, versions, version, document, task>>
        /\ at[c] = "idle"
    BY DEF Ask
  <1>2. DOMAIN at = Client /\ DOMAIN verdict = Client /\ DOMAIN task = Client
        /\ DOMAIN ask = Client /\ DOMAIN version = Client /\ DOMAIN document = Client
    BY DEF CauseInv, RequestDomains
  <1>3. verdict[c] = <<>> /\ document[c] = {} /\ task[c] = 1
    BY <1>1 DEF CauseInv, RequestInv
  <1>4. PICK a : /\ ask' = [ask EXCEPT ![c] = a]
                 /\ \/ ByName(a) /\ Answered(c, <<"no namespace">>)
                    \/ /\ at' = [at EXCEPT ![c] = IF ByName(a) THEN "asked" ELSE "submitted"]
                       /\ UNCHANGED verdict
    BY DEF Ask
  <1>5. \A d \in Client \ {c} :
            /\ ask'[d] = ask[d] /\ at'[d] = at[d] /\ version'[d] = version[d]
            /\ document'[d] = document[d] /\ task'[d] = task[d] /\ verdict'[d] = verdict[d]
    BY <1>1, <1>2, <1>4 DEF Answered
  <1>6. RequestDomains'
    BY <1>1, <1>2, <1>4 DEF Answered, RequestDomains
  <1>7. RequestInv(c)'
    <2>1. ask'[c] = a /\ document'[c] = {} /\ task'[c] = 1
      BY <1>1, <1>2, <1>3, <1>4
    <2>2. \/ ByName(a) /\ at'[c] = "done" /\ verdict'[c] = <<"no namespace">>
          \/ ByName(a) /\ at'[c] = "asked" /\ verdict'[c] = <<>>
          \/ ~ByName(a) /\ at'[c] = "submitted" /\ verdict'[c] = <<>>
      BY <1>2, <1>3, <1>4 DEF Answered
    <2>3. verdict'[c] # <<"invalid">> /\ verdict'[c] # <<"invalid image">>
      BY <2>2, Answers
    <2>4. (ByName(a) => at'[c] \in {"done", "asked"}) /\ (~ByName(a) => at'[c] = "submitted")
          /\ (verdict'[c] # <<>> => at'[c] = "done")
      BY <2>2
    <2>5. ByName(ask[c])' <=> ByName(a)
      BY <2>1 DEF ByName
    <2>6. ByName(a) => NamedInv(c)'
      BY <2>1, <2>4 DEF NamedInv, Working
    <2>7. RefusedInv(c)'
      BY <2>3 DEF RefusedInv
    <2> QED BY <2>1, <2>4, <2>5, <2>6, <2>7 DEF RequestInv
  <1> QED BY <1>1, <1>5, <1>6, <1>7, OneRequest

\* The job it found stood at a version.
LEMMA ReadJobCause == ASSUME CauseInv, NEW c \in Client, ReadJob(c) PROVE CauseInv'
  <1> DEFINE key == KeyOf(ask[c])
  <1>1. /\ UNCHANGED <<jobs, versions, ask, document, task>>
        /\ at[c] = "asked"
    BY DEF ReadJob
  <1>2. DOMAIN at = Client /\ DOMAIN verdict = Client /\ DOMAIN task = Client
        /\ DOMAIN ask = Client /\ DOMAIN version = Client /\ DOMAIN document = Client
    BY DEF CauseInv, RequestDomains
  <1>3. RequestInv(c)
    BY DEF CauseInv
  <1>4. /\ verdict[c] = <<>> /\ document[c] = {} /\ task[c] = 1
        /\ ByName(ask[c])
    BY <1>1, <1>3 DEF RequestInv, NamedInv
  <1>5. \/ \E answer \in {<<"not found">>, <<"stopped">>} :
             Answered(c, answer) /\ UNCHANGED version
        \/ /\ key \in Key /\ jobs[key].version > 0
           /\ at' = [at EXCEPT ![c] = "found"]
           /\ version' = [version EXCEPT ![c] = jobs[key].version]
           /\ UNCHANGED verdict
    BY DEF ReadJob, Registered
  <1>6. \A d \in Client \ {c} :
            /\ ask'[d] = ask[d] /\ at'[d] = at[d] /\ version'[d] = version[d]
            /\ document'[d] = document[d] /\ task'[d] = task[d] /\ verdict'[d] = verdict[d]
    BY <1>1, <1>2, <1>5 DEF Answered
  <1>7. RequestDomains'
    BY <1>1, <1>2, <1>5 DEF Answered, RequestDomains
  <1>8. RequestInv(c)'
    <2>1. verdict'[c] # <<"invalid">> /\ verdict'[c] # <<"invalid image">>
      <3>1. \/ verdict'[c] \in {<<"not found">>, <<"stopped">>} \/ verdict'[c] = <<>>
        BY <1>2, <1>4, <1>5 DEF Answered
      <3> QED BY <3>1, Answers
    <2>2. at'[c] \in {"done", "found"} /\ (verdict'[c] # <<>> => at'[c] = "done")
      BY <1>2, <1>4, <1>5 DEF Answered
    <2>3. at'[c] = "found" => key \in Key /\ version'[c] \in 1 .. jobs[key].version
      <3>1. CASE at'[c] = "done"
        BY <3>1
      <3>2. CASE /\ key \in Key /\ jobs[key].version > 0
                 /\ version' = [version EXCEPT ![c] = jobs[key].version]
        <4>1. jobs[key].version \in Nat
          BY <3>2, MaxVersionsAssumption DEF CauseInv, JobsInv, Standing
        <4> QED BY <1>2, <3>2, <4>1
      <3> QED BY <1>2, <1>5, <3>1, <3>2 DEF Answered
    <2>4. ask'[c] = ask[c] /\ document'[c] = {} /\ task'[c] = 1 /\ jobs' = jobs
      BY <1>1, <1>4
    <2>5. NamedInv(c)'
      BY <2>2, <2>3, <2>4 DEF NamedInv, Working
    <2>6. RefusedInv(c)'
      BY <2>1 DEF RefusedInv
    <2>7. ByName(ask[c])'
      BY <1>4, <2>4 DEF ByName
    <2> QED BY <2>2, <2>4, <2>5, <2>6, <2>7 DEF RequestInv
  <1> QED BY <1>1, <1>6, <1>7, <1>8, OneRequest

\* What the store answers for a version is what was registered under that number.
LEMMA VersionIsKept ==
  ASSUME JobsInv, NEW key \in Key, NEW n \in 1 .. jobs[key].version
  PROVE  VersionOf(key, n).document \in Document /\ ForRegister(Content[VersionOf(key, n).document])
  <1>1. versions[key] \in Seq(Version) /\ Len(versions[key]) = jobs[key].version
    BY DEF JobsInv
  <1>2. DOMAIN versions[key] = 1 .. jobs[key].version
    BY <1>1
  <1>3. versions[key][n] \in ToSet(versions[key]) /\ versions[key][n].version = n
    BY <1>1, <1>2 DEF ToSet, JobsInv
  <1>4. VersionOf(key, n) \in ToSet(versions[key])
    BY <1>3 DEF VersionOf
  <1>5. PICK i \in 1 .. jobs[key].version : VersionOf(key, n) = versions[key][i]
    BY <1>2, <1>4 DEF ToSet
  <1>6. versions[key][i] \in Version
    BY <1>1, <1>2
  <1>7. versions[key][i].document \in Document
    BY <1>6 DEF Version
  <1>8. ForRegister(Content[versions[key][i].document])
    BY <1>1 DEF JobsInv
  <1> QED BY <1>5, <1>7, <1>8

\* A document that loads has a first task.
LEMMA LoadsATask ==
  ASSUME NEW doc, IsDocument(doc), NEW meta, Load(doc, meta)
  PROVE  1 \in DOMAIN doc[1].tasks
  <1>1. DOMAIN doc = {1} /\ ValidJob(Bind(doc[1], meta))
    BY LoadsOne
  <1>2. Bind(doc[1], meta).tasks = [i \in DOMAIN doc[1].tasks |-> BindTask(doc[1].tasks[i], meta)]
    BY <1>1, BoundTasks
  <1>3. DOMAIN doc[1].tasks # {}
    <2> SUFFICES ASSUME DOMAIN doc[1].tasks = {} PROVE FALSE
      OBVIOUS
    <2>1. Bind(doc[1], meta).tasks = <<>>
      BY <1>2
    <2> QED BY <1>1, <2>1 DEF ValidJob, ValidTasks
  <1>4. doc[1] \in ToSet(doc)
    BY <1>1 DEF ToSet
  <1>5. doc[1].tasks \in Seq(ToSet(doc[1].tasks))
    BY <1>4 DEF IsDocument, IsSequence
  <1> QED BY <1>3, <1>5

\* The version it read was registered; what is dispatched of it is refused for the
\* metadata alone.
LEMMA LoadVersionCause == ASSUME CauseInv, NEW c \in Client, LoadVersion(c) PROVE CauseInv'
  <1> DEFINE d == VersionOf(KeyOf(ask[c]), version[c]).document
  <1>1. /\ UNCHANGED <<jobs, versions, ask, version, task>>
        /\ at[c] = "found"
        /\ document' = [document EXCEPT ![c] = {d}]
        /\ \/ Answered(c, <<"not permitted">>)
           \/ /\ CheckDispatch(Declared(Content[d]), ask[c].meta)
              /\ ~ForDispatch(Content[d], ask[c].meta)
              /\ Answered(c, <<"invalid">>)
           \/ /\ ForDispatch(Content[d], ask[c].meta)
              /\ at' = [at EXCEPT ![c] = "loaded"]
              /\ UNCHANGED verdict
    BY DEF LoadVersion
  <1>2. DOMAIN at = Client /\ DOMAIN verdict = Client /\ DOMAIN task = Client
        /\ DOMAIN ask = Client /\ DOMAIN version = Client /\ DOMAIN document = Client
    BY DEF CauseInv, RequestDomains
  <1>3. RequestInv(c)
    BY DEF CauseInv
  <1>4. /\ verdict[c] = <<>> /\ task[c] = 1 /\ ByName(ask[c])
        /\ KeyOf(ask[c]) \in Key
        /\ version[c] \in 1 .. jobs[KeyOf(ask[c])].version
    BY <1>1, <1>3 DEF RequestInv, NamedInv
  <1>5. d \in Document /\ ForRegister(Content[d])
    BY <1>4, VersionIsKept DEF CauseInv
  <1> HIDE DEF d
  <1>6. IsDocument(Content[d])
    BY <1>5, ContentAssumption
  <1>7. \A x \in Client \ {c} :
            /\ ask'[x] = ask[x] /\ at'[x] = at[x] /\ version'[x] = version[x]
            /\ document'[x] = document[x] /\ task'[x] = task[x] /\ verdict'[x] = verdict[x]
    BY <1>1, <1>2 DEF Answered
  <1>8. RequestDomains'
    BY <1>1, <1>2 DEF Answered, RequestDomains
  <1>9. RequestInv(c)'
    <2>1. /\ ask'[c] = ask[c] /\ task'[c] = 1 /\ document'[c] = {d} /\ jobs' = jobs
          /\ ByName(ask[c])' /\ DocumentOf(c)' = Content[d]
      BY <1>1, <1>2, <1>4 DEF ByName, DocumentOf
    <2>2. \/ at'[c] = "done" /\ verdict'[c] = <<"not permitted">>
          \/ /\ at'[c] = "done" /\ verdict'[c] = <<"invalid">>
             /\ CheckDispatch(Declared(Content[d]), ask[c].meta)
             /\ ~Load(Content[d], ask[c].meta)
          \/ /\ at'[c] = "loaded" /\ verdict'[c] = <<>>
             /\ Load(Content[d], ask[c].meta)
      BY <1>1, <1>2, <1>4 DEF Answered, ForDispatch
    <2>3. /\ at'[c] \in {"done", "loaded"} /\ (verdict'[c] # <<>> => at'[c] = "done")
          /\ verdict'[c] # <<"invalid image">>
          /\ at'[c] = "loaded" => Load(Content[d], ask[c].meta)
          /\ verdict'[c] = <<"invalid">> => /\ CheckDispatch(Declared(Content[d]), ask[c].meta)
                                            /\ ~Load(Content[d], ask[c].meta)
      BY <2>2, Answers
    <2>4. at'[c] = "loaded" => Loaded(d, ask[c].meta, 1)
      <3> SUFFICES ASSUME at'[c] = "loaded" PROVE Loaded(d, ask[c].meta, 1)
        OBVIOUS
      <3>1. Load(Content[d], ask[c].meta)
        BY <2>3
      <3>2. 1 \in DOMAIN Content[d][1].tasks
        BY <1>6, <3>1, LoadsATask
      <3> QED BY <1>5, <3>1, <3>2 DEF Loaded
    <2>5. NamedInv(c)'
      <3>1. at'[c] \in Working => at'[c] = "loaded"
        BY <2>3 DEF Working
      <3>2. at'[c] \notin {"asked", "found"}
        BY <2>3
      <3> QED BY <1>5, <2>1, <2>4, <3>1, <3>2 DEF NamedInv
    <2>6. RefusedInv(c)'
      BY <2>1, <2>3 DEF RefusedInv
    <2> QED BY <2>1, <2>3, <2>5, <2>6 DEF RequestInv
  <1> QED BY <1>1, <1>7, <1>8, <1>9, OneRequest

\* A source that was submitted is no job's.
LEMMA LoadSourceCause == ASSUME CauseInv, NEW c \in Client, LoadSource(c) PROVE CauseInv'
  <1>1. PICK d \in ask[c].source :
            /\ document' = [document EXCEPT ![c] = {d}]
            /\ \/ \E answer \in {<<"invalid">>, <<"no namespace">>} : Answered(c, answer)
               \/ at' = [at EXCEPT ![c] = "loaded"] /\ UNCHANGED verdict
    BY DEF LoadSource
  <1>2. UNCHANGED <<jobs, versions, ask, version, task>> /\ at[c] = "submitted"
    BY DEF LoadSource
  <1>3. DOMAIN at = Client /\ DOMAIN verdict = Client /\ DOMAIN task = Client
        /\ DOMAIN ask = Client /\ DOMAIN version = Client /\ DOMAIN document = Client
    BY DEF CauseInv, RequestDomains
  <1>4. verdict[c] = <<>>
    BY <1>2 DEF CauseInv, RequestInv
  <1>5. ~ByName(ask[c])
    BY DEF LoadSource, ByName
  <1>6. \A x \in Client \ {c} :
            /\ ask'[x] = ask[x] /\ at'[x] = at[x] /\ version'[x] = version[x]
            /\ document'[x] = document[x] /\ task'[x] = task[x] /\ verdict'[x] = verdict[x]
    BY <1>1, <1>2, <1>3 DEF Answered
  <1>7. RequestDomains'
    BY <1>1, <1>2, <1>3 DEF Answered, RequestDomains
  <1>8. RequestInv(c)'
    <2>1. at'[c] \in {"done", "loaded"} /\ (verdict'[c] # <<>> => at'[c] = "done")
      BY <1>1, <1>3, <1>4 DEF Answered
    <2>2. ~ByName(ask[c])'
      BY <1>2, <1>5 DEF ByName
    <2> QED BY <2>1, <2>2 DEF RequestInv
  <1> QED BY <1>2, <1>6, <1>7, <1>8, OneRequest

\* A version that is stored is the one after the last.
LEMMA StoreVersionKeeps ==
  ASSUME JobsInv, NEW key \in Key, NEW d \in Document, ForRegister(Content[d]), StoreVersion(key, d)
  PROVE  /\ JobsInv'
         /\ \A k \in Key : jobs'[k].version \in Nat /\ jobs'[k].version >= jobs[k].version
  <1> DEFINE next == jobs[key].version + 1
             entry == [version |-> next, document |-> d]
  <1>1. /\ jobs \in [Key -> Standing] /\ DOMAIN versions = Key
        /\ \A k \in Key : jobs[k].version \in Nat
    BY MaxVersionsAssumption DEF JobsInv, Standing
  <1>2. CASE UNCHANGED <<jobs, versions>>
    BY <1>1, <1>2 DEF JobsInv
  <1>3. CASE /\ next <= MaxVersions
             /\ versions' = [versions EXCEPT ![key] = Append(@, entry)]
             /\ jobs' = [jobs EXCEPT ![key] = [version |-> next, stopped |-> FALSE]]
    <2>1. next \in 1 .. MaxVersions
      BY <1>1, <1>3, MaxVersionsAssumption
    <2>2. jobs' \in [Key -> Standing]
      <3>1. [version |-> next, stopped |-> FALSE] \in Standing
        BY <2>1 DEF Standing
      <3> QED BY <1>1, <1>3, <3>1
    <2>3. /\ jobs'[key].version = next /\ versions'[key] = Append(versions[key], entry)
          /\ \A k \in Key \ {key} : jobs'[k] = jobs[k] /\ versions'[k] = versions[k]
          /\ DOMAIN versions' = Key
      BY <1>1, <1>3
    <2>4. entry \in Version
      BY <2>1 DEF Version
    <2>5. versions[key] \in Seq(Version) /\ Len(versions[key]) = jobs[key].version
      BY DEF JobsInv
    <2> HIDE DEF entry
    <2>6. /\ versions'[key] \in Seq(Version)
          /\ Len(versions'[key]) = next
          /\ versions'[key][next] = entry
          /\ \A i \in 1 .. Len(versions[key]) : versions'[key][i] = versions[key][i]
      BY <1>1, <2>3, <2>4, <2>5
    <2>7. entry.version = next /\ entry.document = d
      BY DEF entry
    <2>8. ASSUME NEW i \in 1 .. Len(versions'[key])
          PROVE  /\ versions'[key][i].version = i
                 /\ ForRegister(Content[versions'[key][i].document])
      <3>1. CASE i = next
        BY <2>6, <2>7, <3>1
      <3>2. CASE i # next
        <4>1. i \in 1 .. Len(versions[key])
          BY <1>1, <2>5, <2>6, <3>2
        <4>2. versions[key][i].version = i /\ ForRegister(Content[versions[key][i].document])
          BY <4>1 DEF JobsInv
        <4> QED BY <2>6, <4>1, <4>2
      <3> QED BY <3>1, <3>2
    <2>9. \A k \in Key :
            /\ versions'[k] \in Seq(Version)
            /\ Len(versions'[k]) = jobs'[k].version
            /\ \A i \in 1 .. Len(versions'[k]) :
                versions'[k][i].version = i /\ ForRegister(Content[versions'[k][i].document])
      <3> SUFFICES ASSUME NEW k \in Key
                   PROVE  /\ versions'[k] \in Seq(Version)
                          /\ Len(versions'[k]) = jobs'[k].version
                          /\ \A i \in 1 .. Len(versions'[k]) :
                              /\ versions'[k][i].version = i
                              /\ ForRegister(Content[versions'[k][i].document])
        OBVIOUS
      <3>1. CASE k = key
        BY <2>3, <2>6, <2>8, <3>1
      <3>2. CASE k # key
        <4>1. jobs'[k] = jobs[k] /\ versions'[k] = versions[k]
          BY <2>3, <3>2
        <4> QED BY <4>1 DEF JobsInv
      <3> QED BY <3>1, <3>2
    <2>10. JobsInv'
      BY <2>2, <2>3, <2>9 DEF JobsInv
    <2>11. \A k \in Key : jobs'[k].version \in Nat /\ jobs'[k].version >= jobs[k].version
      BY <1>1, <2>3
    <2> QED BY <2>10, <2>11
  <1> QED BY <1>2, <1>3 DEF StoreVersion

\* Only what loads on placeholders is registered, in a namespace that exists.
LEMMA RegisterKeeps ==
  ASSUME JobsInv, NEW requested, NEW d \in Document, Register(requested, d)
  PROVE  /\ JobsInv'
         /\ \A k \in Key : jobs'[k].version \in Nat /\ jobs'[k].version >= jobs[k].version
  <1>1. ForRegister(Content[d]) /\ IsDocument(Content[d])
    BY ContentAssumption DEF Register
  <1>2. PICK ns \in NamespaceOf(requested, Bind(Content[d][1], References(Declared(Content[d]))), Namespace) :
            StoreVersion(<<ns, Content[d][1].name>>, d)
    BY DEF Register
  <1>3. ns \in Namespace \cup {"default"}
    BY <1>2 DEF NamespaceOf
  <1>4. Content[d][1].name \in JobName
    <2>1. DOMAIN Content[d] = {1}
      BY <1>1, LoadsOne DEF ForRegister
    <2>2. Content[d] # <<>>
      BY <2>1
    <2> QED BY <2>2 DEF JobName
  <1>5. <<ns, Content[d][1].name>> \in Key
    BY <1>3, <1>4 DEF Key
  <1> QED BY <1>1, <1>2, <1>5, StoreVersionKeeps

\* A job that is stopped keeps its versions.
LEMMA StopKeeps ==
  ASSUME JobsInv, NEW key \in Key, Stop(key)
  PROVE  /\ JobsInv'
         /\ \A k \in Key : jobs'[k].version \in Nat /\ jobs'[k].version >= jobs[k].version
  <1>1. /\ jobs \in [Key -> Standing] /\ DOMAIN versions = Key
        /\ \A k \in Key : jobs[k].version \in Nat
    BY MaxVersionsAssumption DEF JobsInv, Standing
  <1>2. jobs' = [jobs EXCEPT ![key].stopped = TRUE] /\ versions' = versions
    BY DEF Stop
  <1>3. jobs' \in [Key -> Standing]
    BY <1>1, <1>2 DEF Standing
  <1>4. \A k \in Key : jobs'[k].version = jobs[k].version
    BY <1>1, <1>2 DEF Standing
  <1>5. JobsInv'
    BY <1>2, <1>3, <1>4 DEF JobsInv
  <1> QED BY <1>1, <1>4, <1>5

\* Requests under way hold of jobs that moved what they held before.
LEMMA JobsMoved ==
  ASSUME CauseInv, JobsInv', UNCHANGED clientVars,
         \A k \in Key : jobs'[k].version \in Nat /\ jobs'[k].version >= jobs[k].version
  PROVE  CauseInv'
  <1>1. UNCHANGED <<ask, at, version, document, task, verdict>>
    BY DEF clientVars
  <1>2. RequestDomains'
    BY <1>1 DEF CauseInv, RequestDomains
  <1>3. ASSUME NEW c \in Client PROVE RequestInv(c)'
    <2>1. RequestInv(c)
      BY DEF CauseInv
    <2>2. ASSUME ByName(ask[c]) PROVE NamedInv(c)'
      <3>1. NamedInv(c)
        BY <2>1, <2>2 DEF RequestInv
      <3>2. at[c] = "found" => /\ KeyOf(ask[c]) \in Key
                               /\ version[c] \in 1 .. jobs'[KeyOf(ask[c])].version
        <4> SUFFICES ASSUME at[c] = "found"
                     PROVE  /\ KeyOf(ask[c]) \in Key
                            /\ version[c] \in 1 .. jobs'[KeyOf(ask[c])].version
          OBVIOUS
        <4>1. KeyOf(ask[c]) \in Key /\ version[c] \in 1 .. jobs[KeyOf(ask[c])].version
          BY <3>1 DEF NamedInv
        <4>2. jobs[KeyOf(ask[c])].version \in Nat
          BY <4>1, MaxVersionsAssumption DEF CauseInv, JobsInv, Standing
        <4> QED BY <4>1, <4>2
      <3>3. /\ at[c] \in {"asked", "found"} => document[c] = {} /\ task[c] = 1
            /\ at[c] \in Working =>
                \E d \in Document : document[c] = {d} /\ Loaded(d, ask[c].meta, task[c])
            /\ document[c] # {} =>
                \E d \in Document : document[c] = {d} /\ ForRegister(Content[d])
        BY <3>1 DEF NamedInv
      <3> QED BY <1>1, <3>2, <3>3 DEF NamedInv
    <2>3. DocumentOf(c)' = DocumentOf(c) /\ ByName(ask[c])' = ByName(ask[c])
      BY <1>1 DEF DocumentOf, ByName
    <2>4. ByName(ask[c]) => RefusedInv(c)'
      BY <1>1, <2>1, <2>3 DEF RequestInv, RefusedInv
    <2> QED BY <1>1, <2>1, <2>2, <2>3, <2>4 DEF RequestInv
  <1> QED BY <1>2, <1>3 DEF CauseInv

\* Every step keeps the invariant.
LEMMA NextCause == CauseInv /\ [Next]_vars => CauseInv'
  <1> SUFFICES ASSUME CauseInv, [Next]_vars PROVE CauseInv'
    OBVIOUS
  <1>1. CASE \E c \in Client : ClientStep(c)
    <2>1. PICK c \in Client : ClientStep(c)
      BY <1>1
    <2> QED BY <2>1, AskCause, ReadJobCause, LoadVersionCause, LoadSourceCause, WorkingStep DEF ClientStep
  <1>2. CASE Registration
    <2>1. PICK requested \in Namespace \cup {""}, d \in Document : Register(requested, d)
      BY <1>2 DEF Registration
    <2>2. UNCHANGED clientVars
      BY <1>2 DEF Registration
    <2>3. JobsInv
      BY DEF CauseInv
    <2> QED BY <2>1, <2>2, <2>3, RegisterKeeps, JobsMoved
  <1>3. CASE Stopping
    <2>1. PICK key \in Key : Stop(key)
      BY <1>3 DEF Stopping
    <2>2. UNCHANGED clientVars
      BY <1>3 DEF Stopping
    <2>3. JobsInv
      BY DEF CauseInv
    <2> QED BY <2>1, <2>2, <2>3, StopKeeps, JobsMoved
  <1>4. CASE UNCHANGED <<jobs, versions, clientVars>>
    <2>1. JobsInv /\ UNCHANGED <<jobs, versions>>
      BY <1>4 DEF CauseInv
    <2>2. JobsInv'
      BY <2>1 DEF JobsInv
    <2>3. \A k \in Key : jobs'[k].version \in Nat /\ jobs'[k].version >= jobs[k].version
      BY <2>1, MaxVersionsAssumption DEF JobsInv, Standing
    <2> QED BY <1>4, <2>2, <2>3, JobsMoved
  <1>5. CASE Refreshing \/ Changing \/ Charging \/ TickerReads \/ TickerApplies
    BY <1>4, <1>5 DEF Refreshing, Changing, Charging, TickerReads, TickerApplies
  <1>6. CASE UNCHANGED vars
    BY <1>4, <1>6 DEF vars
  <1> QED BY <1>1, <1>2, <1>3, <1>5, <1>6 DEF Next

\* A job that was registered is refused for what the dispatch made of it.
LEMMA CauseShows == CauseInv => RefusedForCause
  <1> SUFFICES ASSUME CauseInv, NEW c \in Client, ByName(ask[c]), document[c] # {}
               PROVE  /\ verdict[c] = <<"invalid">> =>
                            \E e \in Expressions(DocumentOf(c)[1]) :
                                Value(e, ask[c].meta)
                                    # Value(e, References(DocumentOf(c)[1].parameterized))
                      /\ verdict[c] = <<"invalid image">> =>
                            \E e \in {config.attrs["image"] : config \in
                                        {g \in UNION {t.config : t \in ToSet(DocumentOf(c)[1].tasks)} :
                                            "image" \in DOMAIN g.attrs}} :
                                Value(e, ask[c].meta)[1] \notin {"text", "null", "error"}
    BY DEF RefusedForCause
  <1>1. NamedInv(c) /\ RefusedInv(c)
    BY DEF CauseInv, RequestInv
  <1>2. PICK d \in Document : document[c] = {d} /\ ForRegister(Content[d])
    BY <1>1 DEF NamedInv
  <1>3. DocumentOf(c) = Content[d]
    BY <1>2 DEF DocumentOf
  <1>4. ForRegister(DocumentOf(c)) /\ IsDocument(DocumentOf(c))
    BY <1>2, <1>3, ContentAssumption
  <1>5. CASE verdict[c] = <<"invalid">>
    <2>1. CheckDispatch(Declared(DocumentOf(c)), ask[c].meta) /\ ~Load(DocumentOf(c), ask[c].meta)
      BY <1>1, <1>5 DEF RefusedInv
    <2>2. DOMAIN DocumentOf(c) = {1}
      BY <1>4, LoadsOne DEF ForRegister
    <2>3. Declared(DocumentOf(c)) = DocumentOf(c)[1].parameterized
      <3>1. DOMAIN << >> = {}
        OBVIOUS
      <3>2. DocumentOf(c) # << >>
        BY <2>2, <3>1, Zenon
      <3> QED BY <3>2, Zenon DEF Declared
    <2>4. ~Agree(Expressions(DocumentOf(c)[1]), References(DocumentOf(c)[1].parameterized), ask[c].meta)
      BY <1>4, <2>1, <2>3, LoadsAgain
    <2> QED BY <1>5, <2>4, Answers DEF Agree
  <1>6. CASE verdict[c] = <<"invalid image">>
    <2>1. \E t \in ToSet(DocumentOf(c)[1].tasks) : OddImage(t, ask[c].meta)
      BY <1>1, <1>6 DEF RefusedInv
    <2> QED BY <1>6, <2>1, Answers DEF OddImage
  <1> QED BY <1>5, <1>6

\* What was registered on placeholders (jobs/load.go:51) is refused as invalid at dispatch only
\* where some expression comes to something else than on them, and later only for an image
\* that comes to no text: for any jobs, any way expressions are evaluated, any metadata,
\* clients and interleaving of registrations, stops and dispatches.
THEOREM RefusedForCauseAlways == Spec => []RefusedForCause
  BY InitCauseInv, NextCause, CauseShows, PTL DEF Spec

-----------------------------------------------------------------------------
\* Types

\* What is known and read of the providers.
RegistryTypes ==
    /\ DOMAIN actual = Provider /\ DOMAIN known = Provider
    /\ \A p \in Provider : actual[p] \in Index(p) /\ known[p] \in Index(p)
    /\ healthy \in [Provider -> BOOLEAN]
    /\ DOMAIN answers = Asked
    /\ \A p \in Asked : answers[p] = {} \/ \E i \in Index(p) : answers[p] = {i}
    /\ refreshing \in BOOLEAN
    /\ serving \in BOOLEAN

UsageTypes ==
    /\ usage \in [Row -> Level] /\ snapshot \in [Row -> Level]
    /\ DOMAIN reading = Reader
    /\ \A r \in Reader : reading[r] \subseteq [Row -> Level]

ClientTypes(c) ==
    /\ ask[c] \in Asks \cup {Unasked}
    /\ at[c] \in {"idle", "asked", "submitted", "found", "loaded", "reading", "applying",
                  "priced", "done"}
    /\ version[c] \in 0 .. MaxVersions
    /\ document[c] \subseteq Document
    /\ task[c] \in Nat \ {0}
    /\ (verdict[c] = <<>>) <=> (at[c] # "done")
    /\ seen[c] \subseteq 1 .. MaxVersions

TypeInv ==
    /\ CauseInv
    /\ RegistryTypes
    /\ UsageTypes
    /\ moving \in {"jobs", "providers", "usage"}
    /\ DOMAIN seen = Client
    /\ \A c \in Client : ClientTypes(c)

\* The invariant has every type the state has.
LEMMA TypeShows == TypeInv => TypeOK
  <1> SUFFICES ASSUME TypeInv PROVE TypeOK
    OBVIOUS
  <1>1. /\ jobs \in [Key -> Standing]
        /\ \A key \in Key : versions[key] \in Seq(Version) /\ Len(versions[key]) = jobs[key].version
    BY DEF TypeInv, CauseInv, JobsInv
  <1>2. \A p \in Provider : {actual[p], known[p]} \subseteq Index(p)
    BY DEF TypeInv, RegistryTypes
  <1>3. ASSUME NEW p \in Asked PROVE answers[p] \subseteq Index(p) /\ Cardinality(answers[p]) <= 1
    <2>1. CASE answers[p] = {}
      BY <2>1, FS_EmptySet
    <2>2. ASSUME NEW i \in Index(p), answers[p] = {i}
          PROVE  answers[p] \subseteq Index(p) /\ Cardinality(answers[p]) <= 1
      BY <2>2, FS_Singleton
    <2> QED BY <2>1, <2>2 DEF TypeInv, RegistryTypes
  <1>4. {usage, snapshot} \cup UNION {reading[r] : r \in Reader} \subseteq [Row -> Level]
    BY DEF TypeInv, UsageTypes
  <1>5. healthy \in [Provider -> BOOLEAN] /\ refreshing \in BOOLEAN /\ serving \in BOOLEAN
    BY DEF TypeInv, RegistryTypes
  <1>6. \A c \in Client : ClientTypes(c)
    BY DEF TypeInv
  <1>7. moving \in {"jobs", "providers", "usage"}
    BY DEF TypeInv
  <1> QED BY <1>1, <1>2, <1>3, <1>4, <1>5, <1>6, <1>7 DEF TypeOK, ClientTypes

\* A server starts with its state typed.
LEMMA InitTypes == Init => TypeInv
  <1> SUFFICES ASSUME Init PROVE TypeInv
    OBVIOUS
  <1>1. CauseInv
    BY InitCauseInv
  <1>2. RegistryTypes
    <2>1. /\ actual \in [Provider -> UNION {Index(p) : p \in Provider}]
          /\ \A p \in Provider : actual[p] \in Index(p)
      BY DEF Init, RegistryInit
    <2>2. \A p \in Provider : 0 \in Index(p)
      BY AdvertAssumption DEF Index
    <2>3. /\ known = [p \in Provider |-> 0] /\ healthy = [p \in Provider |-> TRUE]
          /\ answers = [p \in Asked |-> {}] /\ refreshing = FALSE /\ serving = FALSE
      BY DEF Init, RegistryInit
    <2> QED BY <2>1, <2>2, <2>3 DEF RegistryTypes
  <1>3. UsageTypes
    BY DEF Init, RegistryInit, UsageTypes
  <1>4. moving \in {"jobs", "providers", "usage"}
    <2>1. [moving |-> moving, actual |-> actual, usage |-> usage] \in Starts
      BY DEF Init
    <2> QED BY <2>1, ClientsAssumption
  <1>5. DOMAIN seen = Client
    BY DEF Init
  <1>6. \A c \in Client : ClientTypes(c)
    BY MaxVersionsAssumption DEF Init, ClientTypes
  <1> QED BY <1>1, <1>2, <1>3, <1>4, <1>5, <1>6 DEF TypeInv

\* The versions a client may see are numbers of versions.
LEMMA CurrentIsVersion ==
  ASSUME NEW a, NEW standing \in [Key -> Standing]
  PROVE  Current(a, standing) \subseteq 1 .. MaxVersions
  BY MaxVersionsAssumption DEF Current, Standing

\* Reading usage, and applying what was read.
LEMMA UsageStep ==
  ASSUME UsageTypes, NEW r \in Reader, ReadUsage(r) \/ ApplyUsage(r)
  PROVE  UsageTypes'
  <1>1. CASE ReadUsage(r)
    BY <1>1 DEF ReadUsage, UsageTypes
  <1>2. CASE ApplyUsage(r)
    <2>1. (CHOOSE u \in reading[r] : TRUE) \in reading[r]
      BY <1>2 DEF ApplyUsage
    <2>2. snapshot' \in [Row -> Level]
      BY <1>2, <2>1 DEF ApplyUsage, UsageTypes
    <2>3. /\ usage' = usage /\ DOMAIN reading' = Reader
          /\ \A x \in Reader : reading'[x] \subseteq [Row -> Level]
      BY <1>2 DEF ApplyUsage, UsageTypes
    <2> QED BY <2>2, <2>3 DEF UsageTypes
  <1> QED BY <1>1, <1>2

\* A refresh knows of a provider what it answered.
LEMMA RefreshStep ==
  ASSUME RegistryTypes,
         StartRefresh \/ (\E p \in Asked : Answer(p)) \/ ApplyAnswers \/ (\E p \in Provider : Change(p))
  PROVE  RegistryTypes' /\ UNCHANGED usageVars
  <1>0. UNCHANGED usageVars
    BY DEF StartRefresh, Answer, ApplyAnswers, Change, usageVars
  <1>1. CASE StartRefresh
    BY <1>0, <1>1 DEF StartRefresh, RegistryTypes
  <1>2. CASE \E p \in Asked : Answer(p)
    <2>1. PICK p \in Asked : Answer(p)
      BY <1>2
    <2>2. PICK i \in {actual[p], 0} : answers' = [answers EXCEPT ![p] = {i}]
      BY <2>1 DEF Answer
    <2>3. p \in Provider
      BY DEF Asked
    <2>4. i \in Index(p)
      BY <2>3, AdvertAssumption DEF RegistryTypes, Index
    <2>5. DOMAIN answers' = Asked
      BY <2>2 DEF RegistryTypes
    <2>6. \A q \in Asked : answers'[q] = {} \/ \E k \in Index(q) : answers'[q] = {k}
      BY <2>2, <2>4 DEF RegistryTypes
    <2>7. UNCHANGED <<actual, known, healthy, refreshing, serving>>
      BY <2>1 DEF Answer
    <2>8. RegistryTypes'
      BY <2>5, <2>6, <2>7 DEF RegistryTypes
    <2> QED BY <1>0, <2>8
  <1>3. CASE ApplyAnswers
    <2>1. ASSUME NEW p \in Provider PROVE known'[p] \in Index(p)
      <3>1. known'[p] = IF p \in Asked /\ answers[p] # {0}
                        THEN CHOOSE i \in answers[p] : TRUE ELSE known[p]
        BY <1>3 DEF ApplyAnswers
      <3>2. p \in Asked => answers[p] # {}
        BY <1>3 DEF ApplyAnswers
      <3>3. p \in Asked => (CHOOSE i \in answers[p] : TRUE) \in answers[p]
        BY <3>2
      <3>4. p \in Asked => answers[p] \subseteq Index(p)
        BY DEF RegistryTypes
      <3>5. known[p] \in Index(p)
        BY DEF RegistryTypes
      <3> QED BY <3>1, <3>3, <3>4, <3>5
    <2>2. DOMAIN known' = Provider
      BY <1>3 DEF ApplyAnswers
    <2>3. healthy' \in [Provider -> BOOLEAN]
      BY <1>3 DEF ApplyAnswers, RegistryTypes
    <2>4. UNCHANGED <<actual, answers>> /\ refreshing' = FALSE /\ serving' = TRUE
      BY <1>3 DEF ApplyAnswers
    <2>5. RegistryTypes'
      BY <2>1, <2>2, <2>3, <2>4 DEF RegistryTypes
    <2> QED BY <1>0, <2>5
  <1>4. CASE \E p \in Provider : Change(p)
    <2>1. PICK p \in Provider : Change(p)
      BY <1>4
    <2>2. PICK i \in Index(p) : actual' = [actual EXCEPT ![p] = i]
      BY <2>1 DEF Change
    <2>3. DOMAIN actual' = Provider /\ \A q \in Provider : actual'[q] \in Index(q)
      BY <2>2 DEF RegistryTypes
    <2>4. UNCHANGED <<known, healthy, answers, refreshing, serving>>
      BY <2>1 DEF Change
    <2>5. RegistryTypes'
      BY <2>3, <2>4 DEF RegistryTypes
    <2> QED BY <1>0, <2>5
  <1> QED BY <1>1, <1>2, <1>3, <1>4

\* A client's step leaves it with a request of its type.
LEMMA ClientTypesStep ==
  ASSUME TypeInv, NEW c \in Client, ClientStep(c), CauseInv'
  PROVE  DOMAIN seen' = Client /\ \A d \in Client : ClientTypes(d)'
  <1>1. /\ DOMAIN ask = Client /\ DOMAIN at = Client /\ DOMAIN version = Client
        /\ DOMAIN document = Client /\ DOMAIN task = Client /\ DOMAIN verdict = Client
        /\ DOMAIN seen = Client
    BY DEF TypeInv, CauseInv, RequestDomains
  <1>2. ClientTypes(c)
    BY DEF TypeInv
  <1>3. jobs \in [Key -> Standing]
    BY DEF TypeInv, CauseInv, JobsInv
  <1>4. \A s : <<s>> # <<>>
    OBVIOUS
  <1>11. ASSUME NEW answer, Answered(c, answer), answer # <<>>
         PROVE  at'[c] = "done" /\ ((verdict'[c] = <<>>) <=> (at'[c] # "done"))
    <2>1. at'[c] = "done" /\ verdict'[c] # <<>>
      BY <1>1, <1>11 DEF Answered
    <2> QED BY <2>1
  <1>12. ASSUME NEW now, at' = [at EXCEPT ![c] = now], UNCHANGED verdict, now # "done", at[c] # "done"
         PROVE  at'[c] = now /\ ((verdict'[c] = <<>>) <=> (at'[c] # "done"))
    <2>1. at'[c] = now /\ verdict'[c] = <<>>
      BY <1>1, <1>2, <1>12 DEF ClientTypes
    <2> QED BY <1>12, <2>1
  <1>5. ASSUME DOMAIN seen' = Client, ClientTypes(c)',
               \A d \in Client \ {c} :
                /\ ask'[d] = ask[d] /\ at'[d] = at[d] /\ version'[d] = version[d]
                /\ document'[d] = document[d] /\ task'[d] = task[d] /\ verdict'[d] = verdict[d]
                /\ seen'[d] = seen[d]
        PROVE  DOMAIN seen' = Client /\ \A d \in Client : ClientTypes(d)'
    BY <1>5 DEF TypeInv, ClientTypes
  <1>6. CASE Ask(c)
    <2>1. PICK a \in Asks :
            /\ ask' = [ask EXCEPT ![c] = a]
            /\ \/ Answered(c, <<"no namespace">>) /\ UNCHANGED seen
               \/ /\ at' = [at EXCEPT ![c] = IF ByName(a) THEN "asked" ELSE "submitted"]
                  /\ seen' = [seen EXCEPT ![c] = IF ByName(a) THEN Current(a, jobs) ELSE {}]
                  /\ UNCHANGED verdict
      BY <1>6 DEF Ask
    <2>2. UNCHANGED <<version, document, task>> /\ at[c] = "idle"
      BY <1>6 DEF Ask
    <2>3. \A d \in Client \ {c} :
                /\ ask'[d] = ask[d] /\ at'[d] = at[d] /\ version'[d] = version[d]
                /\ document'[d] = document[d] /\ task'[d] = task[d] /\ verdict'[d] = verdict[d]
                /\ seen'[d] = seen[d]
      BY <1>1, <2>1, <2>2 DEF Answered
    <2>4. DOMAIN seen' = Client
      BY <1>1, <2>1
    <2>5. Current(a, jobs) \subseteq 1 .. MaxVersions
      BY <1>3, CurrentIsVersion
    <2>6. seen'[c] \subseteq 1 .. MaxVersions
      BY <1>1, <1>2, <2>1, <2>5 DEF ClientTypes
    <2>7. at'[c] \in {"done", "asked", "submitted"} /\ ((verdict'[c] = <<>>) <=> (at'[c] # "done"))
      <3>1. CASE Answered(c, <<"no namespace">>)
        BY <1>4, <1>11, <3>1
      <3>2. CASE at' = [at EXCEPT ![c] = IF ByName(a) THEN "asked" ELSE "submitted"] /\ UNCHANGED verdict
        <4> DEFINE now == IF ByName(a) THEN "asked" ELSE "submitted"
        <4>1. now \in {"asked", "submitted"}
          OBVIOUS
        <4> HIDE DEF now
        <4> QED BY <1>12, <2>2, <3>2, <4>1 DEF now
      <3> QED BY <2>1, <3>1, <3>2
    <2>8. ask'[c] = a
      BY <1>1, <2>1
    <2>9. ClientTypes(c)'
      BY <1>2, <2>2, <2>6, <2>7, <2>8 DEF ClientTypes
    <2> QED BY <1>5, <2>3, <2>4, <2>9
  <1>7. CASE ReadJob(c)
    <2>1. UNCHANGED <<ask, document, task, seen>> /\ at[c] = "asked"
      BY <1>7 DEF ReadJob
    <2>2. \/ \E answer \in {<<"not found">>, <<"stopped">>} : Answered(c, answer) /\ UNCHANGED version
          \/ /\ KeyOf(ask[c]) \in Key
             /\ at' = [at EXCEPT ![c] = "found"]
             /\ version' = [version EXCEPT ![c] = jobs[KeyOf(ask[c])].version]
             /\ UNCHANGED verdict
      BY <1>7 DEF ReadJob
    <2>3. \A d \in Client \ {c} :
                /\ ask'[d] = ask[d] /\ at'[d] = at[d] /\ version'[d] = version[d]
                /\ document'[d] = document[d] /\ task'[d] = task[d] /\ verdict'[d] = verdict[d]
                /\ seen'[d] = seen[d]
      BY <1>1, <2>1, <2>2 DEF Answered
    <2>4. at'[c] \in {"done", "found"} /\ ((verdict'[c] = <<>>) <=> (at'[c] # "done"))
      BY <1>4, <1>11, <1>12, <2>1, <2>2
    <2>5. KeyOf(ask[c]) \in Key => jobs[KeyOf(ask[c])].version \in 0 .. MaxVersions
      BY <1>3 DEF Standing
    <2>6. version'[c] \in 0 .. MaxVersions
      BY <1>1, <1>2, <2>2, <2>5 DEF ClientTypes
    <2>7. ClientTypes(c)'
      BY <1>2, <2>1, <2>4, <2>6 DEF ClientTypes
    <2> QED BY <1>1, <1>5, <2>1, <2>3, <2>7
  <1>8. CASE LoadVersion(c) \/ LoadSource(c)
    <2>1. /\ UNCHANGED <<ask, version, task, seen>> /\ at[c] \in {"found", "submitted"}
          /\ \E d : document' = [document EXCEPT ![c] = {d}]
          /\ \/ \E answer \in {<<"invalid">>, <<"not permitted">>, <<"no namespace">>} : Answered(c, answer)
             \/ at' = [at EXCEPT ![c] = "loaded"] /\ UNCHANGED verdict
      BY <1>8 DEF LoadVersion, LoadSource
    <2>2. document'[c] \subseteq Document
      <3>1. CASE LoadVersion(c)
        <4>1. at[c] = "found"
          BY <3>1 DEF LoadVersion
        <4>2. ByName(ask[c])
          BY <4>1 DEF TypeInv, CauseInv, RequestInv
        <4>3. NamedInv(c)'
          BY <2>1, <4>2 DEF CauseInv, RequestInv, ByName
        <4> QED BY <4>3 DEF NamedInv
      <3>2. CASE LoadSource(c)
        <4>1. PICK d \in ask[c].source : document' = [document EXCEPT ![c] = {d}]
          BY <3>2 DEF LoadSource
        <4>2. ask[c] \in Asks
          <5>1. Unasked.source = {}
            BY DEF Unasked
          <5> QED BY <1>2, <5>1 DEF ClientTypes
        <4>3. d \in Document
          BY <4>1, <4>2, ClientsAssumption
        <4> QED BY <1>1, <4>1, <4>3
      <3> QED BY <1>8, <3>1, <3>2
    <2>3. \A d \in Client \ {c} :
                /\ ask'[d] = ask[d] /\ at'[d] = at[d] /\ version'[d] = version[d]
                /\ document'[d] = document[d] /\ task'[d] = task[d] /\ verdict'[d] = verdict[d]
                /\ seen'[d] = seen[d]
      BY <1>1, <2>1 DEF Answered
    <2>4. at'[c] \in {"done", "loaded"} /\ ((verdict'[c] = <<>>) <=> (at'[c] # "done"))
      BY <1>4, <1>11, <1>12, <2>1
    <2>5. ClientTypes(c)'
      BY <1>2, <2>1, <2>2, <2>4 DEF ClientTypes
    <2> QED BY <1>1, <1>5, <2>1, <2>3, <2>5
  <1>9. CASE Plan(c) \/ StartTask(c) \/ ReadForTask(c) \/ ApplyForTask(c)
    <2>1. /\ UNCHANGED <<ask, version, document, task, seen>>
          /\ at[c] \in {"loaded", "reading", "applying"}
      BY <1>9 DEF Plan, StartTask, ReadForTask, ApplyForTask
    <2>2. \/ \E answer \in {<<"invalid image">>, <<"planned">>} : Answered(c, answer)
          \/ \E now \in {"reading", "applying", "priced"} : at' = [at EXCEPT ![c] = now] /\ UNCHANGED verdict
      BY <1>9 DEF Plan, StartTask, ReadForTask, ApplyForTask
    <2>3. \A d \in Client \ {c} :
                /\ ask'[d] = ask[d] /\ at'[d] = at[d] /\ version'[d] = version[d]
                /\ document'[d] = document[d] /\ task'[d] = task[d] /\ verdict'[d] = verdict[d]
                /\ seen'[d] = seen[d]
      BY <1>1, <2>1, <2>2 DEF Answered
    <2>4. at'[c] \in {"done", "reading", "applying", "priced"}
          /\ ((verdict'[c] = <<>>) <=> (at'[c] # "done"))
      BY <1>4, <1>11, <1>12, <2>1, <2>2
    <2>5. ClientTypes(c)'
      BY <1>2, <2>1, <2>4 DEF ClientTypes
    <2> QED BY <1>1, <1>5, <2>1, <2>3, <2>5
  <1>10. CASE Place(c)
    <2>1. UNCHANGED <<ask, version, document, seen>> /\ at[c] = "priced"
      BY <1>10 DEF Place
    <2>2. \/ (\E answer : answer # <<>> /\ Answered(c, answer)) /\ UNCHANGED task
          \/ /\ task' = [task EXCEPT ![c] = @ + 1]
             /\ at' = [at EXCEPT ![c] = "loaded"]
             /\ UNCHANGED verdict
      <3>1. PICK req \in TaskRequest(c, task[c]) :
            LET plan == PlanTask(req, InputsFor(c))
            IN IF plan.ranking = <<>>
               THEN Answered(c, <<"no candidates">>) /\ UNCHANGED task
               ELSE \/ Answered(c, <<"placed", plan.ranking[1].provider>>) /\ UNCHANGED task
                    \/ /\ task[c] < Len(JobOf(c).tasks)
                       /\ task' = [task EXCEPT ![c] = @ + 1]
                       /\ at' = [at EXCEPT ![c] = "loaded"]
                       /\ UNCHANGED verdict
        BY <1>10 DEF Place
      <3>2. <<"no candidates">> # <<>> /\ \A p : <<"placed", p>> # <<>>
        OBVIOUS
      <3> QED BY <3>1, <3>2
    <2>3. \A d \in Client \ {c} :
                /\ ask'[d] = ask[d] /\ at'[d] = at[d] /\ version'[d] = version[d]
                /\ document'[d] = document[d] /\ task'[d] = task[d] /\ verdict'[d] = verdict[d]
                /\ seen'[d] = seen[d]
      BY <1>1, <2>1, <2>2 DEF Answered
    <2>4. at'[c] \in {"done", "loaded"} /\ ((verdict'[c] = <<>>) <=> (at'[c] # "done"))
      BY <1>1, <1>2, <2>1, <2>2 DEF Answered, ClientTypes
    <2>5. task'[c] \in Nat \ {0}
      BY <1>1, <1>2, <2>2 DEF ClientTypes
    <2>6. ClientTypes(c)'
      BY <1>2, <2>1, <2>4, <2>5 DEF ClientTypes
    <2> QED BY <1>1, <1>5, <2>1, <2>3, <2>6
  <1> QED BY <1>6, <1>7, <1>8, <1>9, <1>10 DEF ClientStep

\* Every step keeps the types.
LEMMA NextTypes == TypeInv /\ [Next]_vars => TypeInv'
  <1> SUFFICES ASSUME TypeInv, [Next]_vars PROVE TypeInv'
    OBVIOUS
  <1>1. CauseInv'
    BY NextCause DEF TypeInv
  <1>2. RegistryTypes /\ UsageTypes
    BY DEF TypeInv
  <1>3. ASSUME UNCHANGED registryVars PROVE RegistryTypes'
    BY <1>2, <1>3 DEF registryVars, RegistryTypes
  <1>4. ASSUME UNCHANGED usageVars PROVE UsageTypes'
    BY <1>2, <1>4 DEF usageVars, UsageTypes
  <1>5. ASSUME UNCHANGED <<clientVars, seen>>
        PROVE  DOMAIN seen' = Client /\ \A c \in Client : ClientTypes(c)'
    <2>1. UNCHANGED <<ask, at, version, document, task, verdict, seen>>
      BY <1>5 DEF clientVars
    <2> QED BY <2>1 DEF TypeInv, ClientTypes
  <1>6. Client \subseteq Reader /\ "ticker" \in Reader
    BY ClientsAssumption
  <1>7. CASE \E c \in Client : ClientStep(c)
    <2>1. PICK c \in Client : ClientStep(c)
      BY <1>7
    <2>2. UNCHANGED registryVars /\ UNCHANGED moving
      BY <2>1 DEF ClientStep, Ask, ReadJob, LoadVersion, LoadSource, Plan, StartTask, ReadForTask,
                  ApplyForTask, Place
    <2>3. UNCHANGED usageVars \/ ReadUsage(c) \/ ApplyUsage(c)
      BY <2>1 DEF ClientStep, Ask, ReadJob, LoadVersion, LoadSource, Plan, StartTask, ReadForTask,
                  ApplyForTask, Place
    <2>4. UsageTypes'
      BY <1>2, <1>4, <1>6, <2>3, UsageStep
    <2>5. DOMAIN seen' = Client /\ \A d \in Client : ClientTypes(d)'
      BY <1>1, <2>1, ClientTypesStep
    <2> QED BY <1>1, <1>3, <2>2, <2>4, <2>5 DEF TypeInv
  <1>8. CASE Registration \/ Stopping
    <2>1. UNCHANGED <<registryVars, usageVars, moving>> /\ UNCHANGED clientVars /\ Seen
      BY <1>8 DEF Registration, Stopping
    <2>2. UNCHANGED <<ask, at, version, document, task, verdict>>
      BY <2>1 DEF clientVars
    <2>3. jobs' \in [Key -> Standing]
      BY <1>1 DEF CauseInv, JobsInv
    <2>4. DOMAIN seen' = Client
      BY <2>1 DEF Seen
    <2>5. ASSUME NEW c \in Client PROVE ClientTypes(c)'
      <3>1. ClientTypes(c)
        BY DEF TypeInv
      <3>2. seen'[c] \subseteq 1 .. MaxVersions
        <4>1. Current(ask[c], jobs') \subseteq 1 .. MaxVersions
          BY <2>3, CurrentIsVersion
        <4> QED BY <2>1, <3>1, <4>1 DEF Seen, ClientTypes
      <3> QED BY <2>2, <3>1, <3>2 DEF ClientTypes
    <2> QED BY <1>1, <1>3, <1>4, <2>1, <2>4, <2>5 DEF TypeInv
  <1>9. CASE Refreshing \/ Changing
    <2>1. /\ StartRefresh \/ (\E p \in Asked : Answer(p)) \/ ApplyAnswers \/ (\E p \in Provider : Change(p))
          /\ UNCHANGED <<clientVars, seen>> /\ UNCHANGED moving
      BY <1>9 DEF Refreshing, Changing
    <2>2. RegistryTypes' /\ UNCHANGED usageVars
      BY <1>2, <2>1, RefreshStep
    <2> QED BY <1>1, <1>4, <1>5, <2>1, <2>2 DEF TypeInv
  <1>10. CASE Charging
    <2>1. /\ \E row \in Row : Charges(row)
          /\ UNCHANGED registryVars /\ UNCHANGED <<clientVars, seen>> /\ UNCHANGED moving
      BY <1>10 DEF Charging
    <2>2. UsageTypes'
      BY <1>2, <2>1 DEF Charges, UsageTypes
    <2> QED BY <1>1, <1>3, <1>5, <2>1, <2>2 DEF TypeInv
  <1>11. CASE TickerReads \/ TickerApplies
    <2>1. /\ ReadUsage("ticker") \/ ApplyUsage("ticker")
          /\ UNCHANGED registryVars /\ UNCHANGED <<clientVars, seen>> /\ UNCHANGED moving
      BY <1>11 DEF TickerReads, TickerApplies
    <2>2. UsageTypes'
      BY <1>2, <1>6, <2>1, UsageStep
    <2> QED BY <1>1, <1>3, <1>5, <2>1, <2>2 DEF TypeInv
  <1>12. CASE UNCHANGED vars
    BY <1>1, <1>3, <1>4, <1>5, <1>12 DEF vars, TypeInv
  <1> QED BY <1>7, <1>8, <1>9, <1>10, <1>11, <1>12 DEF Next

\* The state of planning is well typed: a job stands at the number of versions kept of it,
\* what is known of a provider is something it said, and a request that is over has its
\* answer: for any configuration, jobs, clients and requests.
THEOREM TypeCorrect == Spec => []TypeOK
  BY InitTypes, NextTypes, TypeShows, PTL DEF Spec

-----------------------------------------------------------------------------
\* Order: what is arranged, and what admission says of its inputs

\* A strict total order of a set, as the set of its pairs.
Orders(S, order) ==
    /\ \A x \in S : <<x, x>> \notin order
    /\ \A x, y \in S : x = y \/ <<x, y>> \in order \/ <<y, x>> \in order
    /\ \A x, y, z \in S : <<x, y>> \in order /\ <<y, z>> \in order => <<x, z>> \in order

\* What is arranged are the members of the set, each once, in the order.
LEMMA ArrangedInOrder ==
  ASSUME NEW S, IsFiniteSet(S), NEW order, Orders(S, order)
  PROVE  /\ DOMAIN Arranged(S, order) = 1 .. Cardinality(S)
         /\ Cardinality(S) \in Nat
         /\ \A k \in 1 .. Cardinality(S) : Arranged(S, order)[k] \in S
         /\ \A x \in S : \E k \in 1 .. Cardinality(S) : Arranged(S, order)[k] = x
         /\ \A i, k \in 1 .. Cardinality(S) :
              i < k => <<Arranged(S, order)[i], Arranged(S, order)[k]>> \in order
<1> DEFINE n == Cardinality(S)
           under(x) == {y \in S : <<y, x>> \in order}
           rank == [x \in S |-> Cardinality(under(x))]
<1>1. n \in Nat
  BY FS_CardinalityType
<1>2. ASSUME NEW x \in S PROVE IsFiniteSet(under(x)) /\ Cardinality(under(x)) \in 0 .. n - 1
  <2>1. under(x) \in SUBSET (S \ {x})
    BY DEF Orders
  <2>2. IsFiniteSet(S \ {x}) /\ Cardinality(S \ {x}) = n - 1
    BY FS_RemoveElement
  <2>3. IsFiniteSet(under(x)) /\ Cardinality(under(x)) <= Cardinality(S \ {x})
    BY <2>1, <2>2, FS_Subset, Zenon
  <2>4. Cardinality(under(x)) \in Nat
    BY <2>3, FS_CardinalityType, Zenon
  <2> HIDE DEF under
  <2>5. QED
    BY <1>1, <2>2, <2>3, <2>4
<1>a. \A x \in S : rank[x] \in Int /\ rank[x] \in 0 .. n - 1
  <2>1. \A x \in S : Cardinality(under(x)) \in 0 .. n - 1
    BY <1>2
  <2>2. \A j \in 0 .. n - 1 : j \in Int
    BY <1>1
  <2>3. QED
    BY <2>1, <2>2
<1>3. ASSUME NEW x \in S, NEW y \in S, <<x, y>> \in order PROVE rank[x] < rank[y]
  <2>1. under(x) \cup {x} \in SUBSET under(y) /\ x \notin under(x)
    BY <1>3 DEF Orders
  <2>2. Cardinality(under(x) \cup {x}) = Cardinality(under(x)) + 1
    BY <1>2, <2>1, FS_AddElement
  <2>3. Cardinality(under(x) \cup {x}) <= Cardinality(under(y))
    BY <1>2, <2>1, FS_Subset
  <2>4. Cardinality(under(x)) + 1 <= Cardinality(under(y))
    BY <2>2, <2>3
  <2>5. rank[x] + 1 <= rank[y]
    BY <2>4
  <2>6. QED
    BY <1>a, <2>5
<1>4. ASSUME NEW x \in S, NEW y \in S, x # y PROVE rank[x] # rank[y]
  <2>1. <<x, y>> \in order \/ <<y, x>> \in order
    BY <1>4 DEF Orders
  <2>2. rank[x] < rank[y] \/ rank[y] < rank[x]
    BY <1>3, <2>1
  <2>3. rank[x] \in Int /\ rank[y] \in Int
    BY <1>a
  <2> HIDE DEF rank
  <2>4. QED
    BY <2>2, <2>3
<1>5. rank \in Injection(S, 0 .. n - 1)
  BY <1>a, <1>4 DEF Injection, IsInjective
<1>6. IsFiniteSet(0 .. n - 1) /\ Cardinality(0 .. n - 1) = n
  BY <1>1, FS_Interval
<1>7. rank \in Surjection(S, 0 .. n - 1)
  BY <1>5, <1>6, FS_Injection
<1>8. \A k \in 1 .. n : \E x \in S : rank[x] = k - 1
  <2>1. \A k \in 1 .. n : k - 1 \in 0 .. n - 1
    BY <1>1
  <2>2. \A j \in 0 .. n - 1 : \E x \in S : rank[x] = j
    BY <1>7 DEF Surjection
  <2>3. QED
    BY <2>1, <2>2
<1>9. ASSUME NEW k \in 1 .. n
      PROVE  Arranged(S, order)[k] \in S /\ rank[Arranged(S, order)[k]] = k - 1
  <2>1. PICK x \in S : Cardinality(under(x)) = k - 1
    BY <1>8
  <2>2. Arranged(S, order)[k] = CHOOSE z \in S : Cardinality(under(z)) = k - 1
    BY DEF Arranged
  <2>3. QED
    BY <2>1, <2>2
<1>10. ASSUME NEW x \in S PROVE \E k \in 1 .. n : Arranged(S, order)[k] = x
  <2>1. rank[x] \in 0 .. n - 1
    BY <1>a
  <2>2. PICK k \in 1 .. n : rank[x] = k - 1
    <3> HIDE DEF rank, n
    <3>1. rank[x] + 1 \in 1 .. n /\ rank[x] = (rank[x] + 1) - 1
      BY <1>1, <2>1
    <3>2. QED
      BY <3>1
  <2>3. QED
    BY <1>4, <1>9, <2>2
<1>11. ASSUME NEW i \in 1 .. n, NEW k \in 1 .. n, i < k
       PROVE  <<Arranged(S, order)[i], Arranged(S, order)[k]>> \in order
  <2> DEFINE a == Arranged(S, order)[i]
             b == Arranged(S, order)[k]
  <2>1. a \in S /\ b \in S /\ rank[a] = i - 1 /\ rank[b] = k - 1
    BY <1>9
  <2>2. rank[a] < rank[b]
    <3> HIDE DEF rank, n, a, b
    <3> QED
      BY <1>1, <1>11, <2>1
  <2>3. a # b /\ ~(rank[b] < rank[a])
    <3> HIDE DEF rank, n, a, b
    <3> QED
      BY <1>a, <2>1, <2>2
  <2>4. <<b, a>> \notin order
    BY <1>3, <2>1, <2>3
  <2>5. QED
    BY <2>1, <2>3, <2>4 DEF Orders
<1>12. DOMAIN Arranged(S, order) = 1 .. n
  BY DEF Arranged
<1> QED
  BY <1>1, <1>9, <1>10, <1>11, <1>12

\* Of a configured provider.
Named(v) == \E p \in ToSet(Configuration.providers) : v.provider = p.name

\* Names order what they tell apart.
LEMMA NamesOrder ==
  ASSUME NEW S, \A v \in S : Named(v), \A v, w \in S : v.provider = w.provider => v = w
  PROVE  Orders(S, {p \in S \X S : Before(Text(p[1].provider), Text(p[2].provider))})
<1> DEFINE order == {p \in S \X S : Before(Text(p[1].provider), Text(p[2].provider))}
           earlier(v, w) == Before(Text(v.provider), Text(w.provider))
<1>1. \A v, w \in S : <<v, w>> \in order <=> earlier(v, w)
  OBVIOUS
<1>2. \A v \in S : ~earlier(v, v)
  BY BeforeAssumption DEF Named
<1>3. ASSUME NEW v \in S, NEW w \in S PROVE v = w \/ earlier(v, w) \/ earlier(w, v)
  <2>1. PICK p \in ToSet(Configuration.providers) : v.provider = p.name
    BY DEF Named
  <2>2. PICK q \in ToSet(Configuration.providers) : w.provider = q.name
    BY DEF Named
  <2>3. p.name = q.name \/ Before(Text(p.name), Text(q.name)) \/ Before(Text(q.name), Text(p.name))
    BY BeforeAssumption
  <2>4. QED
    BY <2>1, <2>2, <2>3
<1>4. ASSUME NEW u \in S, NEW v \in S, NEW w \in S, earlier(u, v), earlier(v, w)
      PROVE  earlier(u, w)
  <2>1. PICK p \in ToSet(Configuration.providers) : u.provider = p.name
    BY DEF Named
  <2>2. PICK q \in ToSet(Configuration.providers) : v.provider = q.name
    BY DEF Named
  <2>3. PICK r \in ToSet(Configuration.providers) : w.provider = r.name
    BY DEF Named
  <2>4. Before(Text(p.name), Text(q.name)) /\ Before(Text(q.name), Text(r.name))
    BY <1>4, <2>1, <2>2, <2>3
  <2>5. Before(Text(p.name), Text(r.name))
    BY <2>4, BeforeAssumption
  <2>6. QED
    BY <2>1, <2>3, <2>5
<1> HIDE DEF earlier, order
<1>5. QED
  BY <1>1, <1>2, <1>3, <1>4 DEF Orders, order

\* The configured providers are finitely many, each with a name of its own.
LEMMA ConfiguredOnce ==
  /\ IsFiniteSet(DOMAIN Configuration.providers)
  /\ \A p, q \in ToSet(Configuration.providers) : p.name = q.name => p = q
<1>1. Configuration.providers \in Seq(ToSet(Configuration.providers))
  BY FilesAssumption DEF IsSequence
<1>2. DOMAIN Configuration.providers = 1 .. Len(Configuration.providers)
      /\ Len(Configuration.providers) \in Nat
  BY <1>1
<1>3. IsFiniteSet(DOMAIN Configuration.providers)
  BY <1>2, FS_Interval
<1>4. NamesDiffer(Configuration.providers)
  BY FilesAssumption DEF LoadsPath, ValidateFile
<1>5. QED
  BY <1>3, <1>4 DEF NamesDiffer, ToSet

\* What a function with a finite domain gives is a finite set.
LEMMA FiniteRange ==
  ASSUME NEW f, IsFiniteSet(DOMAIN f)
  PROVE  IsFiniteSet(ToSet(f))
<1> DEFINE g == [x \in DOMAIN f |-> f[x]]
<1>1. g \in Surjection(DOMAIN f, ToSet(f))
  BY DEF Surjection, ToSet
<1>2. QED
  BY <1>1, FS_Surjection

\* The registry holds an entry for each, under its name.
LEMMA EntriesAre ==
  /\ IsFiniteSet(DOMAIN Entries)
  /\ \A i \in DOMAIN Entries : Named(Entries[i]) /\ EntryOf(Entries[i].provider) = Entries[i]
                               /\ Entries[i].provider \in Provider
  /\ \A i, k \in DOMAIN Entries : Entries[i].provider = Entries[k].provider => Entries[i] = Entries[k]
  /\ \A i \in DOMAIN Entries : \E p \in ToSet(Configuration.providers) : Entries[i] = Entry(p)
<1> DEFINE S == {Entry(p) : p \in ToSet(Configuration.providers)}
           order == {p \in S \X S : Before(Text(p[1].provider), Text(p[2].provider))}
<1>1. \A p : Entry(p).provider = p.name
  BY DEF Entry
<1>2. IsFiniteSet(S)
  <2> DEFINE f == [i \in DOMAIN Configuration.providers |-> Entry(Configuration.providers[i])]
  <2>1. S = ToSet(f)
    BY DEF ToSet
  <2>2. QED
    BY <2>1, ConfiguredOnce, FiniteRange
<1>3. \A v \in S : Named(v)
  BY <1>1 DEF Named
<1>4. \A v, w \in S : v.provider = w.provider => v = w
  BY <1>1, ConfiguredOnce
<1>5. Orders(S, order)
  BY <1>3, <1>4, NamesOrder
<1>6. Entries = Arranged(S, order)
  BY FilesAssumption DEF NewEntries, ByProvider
<1> HIDE DEF S, order
<1>7. DOMAIN Entries = 1 .. Cardinality(S) /\ Cardinality(S) \in Nat /\ \A i \in DOMAIN Entries : Entries[i] \in S
  BY <1>2, <1>5, <1>6, ArrangedInOrder
<1>8. IsFiniteSet(DOMAIN Entries)
  BY <1>7, FS_Interval
<1>9. \A i, k \in DOMAIN Entries : Entries[i].provider = Entries[k].provider => Entries[i] = Entries[k]
  BY <1>4, <1>7
<1>10. \A i \in DOMAIN Entries : EntryOf(Entries[i].provider) = Entries[i] /\ Entries[i].provider \in Provider
  BY <1>9 DEF EntryOf, ToSet, Provider
<1>11. \A v \in S : \E p \in ToSet(Configuration.providers) : v = Entry(p)
  BY DEF S
<1>12. QED
  BY <1>3, <1>7, <1>8, <1>9, <1>10, <1>11

\* Inputs of configured providers, one each.
Proper(inputs) ==
    /\ IsFiniteSet(DOMAIN inputs)
    /\ \A i \in DOMAIN inputs : Named(inputs[i])
    /\ \A i, k \in DOMAIN inputs : inputs[i].provider = inputs[k].provider => inputs[i] = inputs[k]

\* A set of verdicts in name order keeps them all.
LEMMA ByProviderKeeps ==
  ASSUME NEW S, IsFiniteSet(S), \A v \in S : Named(v),
         \A v, w \in S : v.provider = w.provider => v = w
  PROVE  /\ ToSet(ByProvider(S)) = S
         /\ ByProvider(S) = <<>> <=> S = {}
         /\ DOMAIN ByProvider(S) = 1 .. Cardinality(S) /\ Cardinality(S) \in Nat
         /\ \A i, k \in DOMAIN ByProvider(S) :
              i < k => Before(Text(ByProvider(S)[i].provider), Text(ByProvider(S)[k].provider))
<1> DEFINE order == {p \in S \X S : Before(Text(p[1].provider), Text(p[2].provider))}
<1>1. Orders(S, order)
  BY NamesOrder
<1>2. ByProvider(S) = Arranged(S, order)
  BY DEF ByProvider
<1>3. /\ DOMAIN ByProvider(S) = 1 .. Cardinality(S)
      /\ Cardinality(S) \in Nat
      /\ \A k \in 1 .. Cardinality(S) : ByProvider(S)[k] \in S
      /\ \A x \in S : \E k \in 1 .. Cardinality(S) : ByProvider(S)[k] = x
      /\ \A i, k \in 1 .. Cardinality(S) : i < k => <<ByProvider(S)[i], ByProvider(S)[k]>> \in order
  <2> HIDE DEF order
  <2> QED
    BY <1>1, <1>2, ArrangedInOrder
<1>4. ToSet(ByProvider(S)) = S
  BY <1>3 DEF ToSet
<1>5. ByProvider(S) = <<>> <=> S = {}
  <2>1. S = {} <=> Cardinality(S) = 0
    BY FS_EmptySet
  <2>2. Cardinality(S) = 0 <=> DOMAIN ByProvider(S) = {}
    BY <1>3
  <2>3. ByProvider(S) = [k \in 1 .. Cardinality(S) |-> ByProvider(S)[k]]
    BY <1>2 DEF Arranged
  <2>4. CASE S = {}
    <3>1. ByProvider(S) = [k \in {} |-> ByProvider(S)[k]]
      BY <2>1, <2>3, <2>4
    <3>2. QED
      BY <2>4, <3>1
  <2>5. CASE ByProvider(S) = <<>>
    BY <2>1, <2>2, <2>5
  <2>6. QED
    BY <2>4, <2>5
<1>6. \A i, k \in 1 .. Cardinality(S) :
        i < k => Before(Text(ByProvider(S)[i].provider), Text(ByProvider(S)[k].provider))
  BY <1>3
<1>7. QED
  BY <1>3, <1>4, <1>5, <1>6

\* Admission says something of every input, and of nothing else.
LEMMA AdmitSays ==
  ASSUME NEW req, NEW inputs, Proper(inputs)
  PROVE  LET result == Admit(req, inputs)
             refused == {v \in {AdmitProvider(req, in) : in \in ToSet(inputs)} : v.reasons # {}}
             placed == {v \in {AdmitProvider(req, in) : in \in ToSet(inputs)} : v.reasons = {}}
         IN  /\ ToSet(result.rejections) = refused
             /\ ToSet(result.candidates) = placed
             /\ Admitted(result) <=> placed # {}
             /\ \E n \in Nat : DOMAIN result.candidates = 1 .. n
             /\ \A i, k \in DOMAIN result.candidates : i < k =>
                    Before(Text(result.candidates[i].provider), Text(result.candidates[k].provider))
<1> DEFINE judged == {AdmitProvider(req, in) : in \in ToSet(inputs)}
           refused == {v \in judged : v.reasons # {}}
           placed == {v \in judged : v.reasons = {}}
<1>1. \A in : AdmitProvider(req, in).provider = in.provider
  BY DEF AdmitProvider, Verdict
<1>2. IsFiniteSet(judged)
  <2> DEFINE f == [i \in DOMAIN inputs |-> AdmitProvider(req, inputs[i])]
  <2>1. judged = ToSet(f)
    BY DEF ToSet
  <2>2. QED
    BY <2>1, FiniteRange DEF Proper
<1>3. \A v \in judged : Named(v)
  BY <1>1 DEF Proper, Named, ToSet
<1>4. \A v, w \in judged : v.provider = w.provider => v = w
  BY <1>1 DEF Proper, ToSet
<1>5. Admit(req, inputs) = [candidates |-> ByProvider(placed), rejections |-> ByProvider(refused)]
  BY DEF Admit, Sifted
<1> HIDE DEF judged
<1>6. placed \in SUBSET judged /\ refused \in SUBSET judged
  OBVIOUS
<1>7. IsFiniteSet(placed) /\ IsFiniteSet(refused)
  BY <1>2, <1>6, FS_Subset
<1> HIDE DEF placed, refused
<1>8. /\ ToSet(ByProvider(placed)) = placed
      /\ ByProvider(placed) = <<>> <=> placed = {}
      /\ DOMAIN ByProvider(placed) = 1 .. Cardinality(placed) /\ Cardinality(placed) \in Nat
      /\ \A i, k \in DOMAIN ByProvider(placed) : i < k =>
            Before(Text(ByProvider(placed)[i].provider), Text(ByProvider(placed)[k].provider))
  BY <1>3, <1>4, <1>6, <1>7, ByProviderKeeps
<1>9. ToSet(ByProvider(refused)) = refused
  BY <1>3, <1>4, <1>6, <1>7, ByProviderKeeps
<1> DEFINE result == Admit(req, inputs)
<1>10. result.candidates = ByProvider(placed) /\ result.rejections = ByProvider(refused)
  BY <1>5
<1>11. Admitted(result) <=> placed # {}
  BY <1>8, <1>10 DEF Admitted
<1> HIDE DEF result
<1>12. /\ ToSet(result.rejections) = refused
       /\ ToSet(result.candidates) = placed
       /\ Admitted(result) <=> placed # {}
       /\ \E n \in Nat : DOMAIN result.candidates = 1 .. n
       /\ \A i, k \in DOMAIN result.candidates : i < k =>
            Before(Text(result.candidates[i].provider), Text(result.candidates[k].provider))
  BY <1>8, <1>9, <1>10, <1>11
<1>13. QED
  BY <1>12 DEF result, placed, refused, judged

\* What admission is given of the registry.
LEMMA InputsProper ==
  ASSUME NEW ns
  PROVE  /\ Proper(Inputs(ns))
         /\ DOMAIN Inputs(ns) = DOMAIN Entries
         /\ \A i \in DOMAIN Entries : Inputs(ns)[i] = InputOf(ns, Entries[i])
<1>1. DOMAIN Inputs(ns) = DOMAIN Entries /\ \A i \in DOMAIN Entries : Inputs(ns)[i] = InputOf(ns, Entries[i])
  BY DEF Inputs
<1>2. \A e : InputOf(ns, e).provider = e.provider
  BY DEF InputOf
<1>3. QED
  BY <1>1, <1>2, EntriesAre DEF Proper, Named

-----------------------------------------------------------------------------
\* Refusals: what is shown of a provider

\* The least member of a set of numbers is one of them.
LEMMA LeastOfNat ==
  ASSUME NEW S, S \subseteq Nat, S # {}
  PROVE  Min(S) \in S /\ \A y \in S : Min(S) <= y
<1>1. PICK top \in S : TRUE
  OBVIOUS
<1> DEFINE upTo(n) == 0 .. n
           segments == {upTo(n) : n \in {m \in S : m <= top}}
<1>2. segments \subseteq FiniteSubsetsOf(Nat)
  <2>1. ASSUME NEW n \in Nat PROVE upTo(n) \in SUBSET Nat /\ IsFiniteSet(upTo(n))
    BY FS_Interval
  <2>2. QED
    BY <2>1 DEF FiniteSubsetsOf
<1>3. upTo(top) \in segments
  BY <1>1
<1>4. PICK least \in segments :
        \A seg \in segments : <<seg, least>> \notin StrictSubsetOrdering(Nat)
  BY <1>2, <1>3, FS_StrictSubsetOrderingWellFounded, WFMin, Zenon
<1>5. PICK x \in S : x <= top /\ least = upTo(x)
  BY <1>4
<1>6. ASSUME NEW y \in S, ~(x <= y) PROVE FALSE
  <2>1. upTo(y) \in segments
    BY <1>1, <1>5, <1>6
  <2>2. upTo(y) \subseteq upTo(x) /\ x \in upTo(x) /\ x \notin upTo(y)
    BY <1>6
  <2>3. upTo(x) \subseteq Nat /\ upTo(y) \subseteq Nat
    OBVIOUS
  <2>4. <<upTo(y), upTo(x)>> \in StrictSubsetOrdering(Nat)
    BY <2>2, <2>3 DEF StrictSubsetOrdering
  <2>5. QED
    BY <1>4, <1>5, <2>1, <2>4
<1>7. QED
  BY <1>5, <1>6 DEF Min

\* The reason shown is a reason, and none is checked before it.
LEMMA FirstIsReason ==
  ASSUME NEW reasons, NEW k \in DOMAIN Checkers, Checkers[k] \in reasons
  PROVE  /\ FirstReason(reasons) \in reasons
         /\ \E i \in 1 .. k : FirstReason(reasons) = Checkers[i]
<1> DEFINE places == {i \in DOMAIN Checkers : Checkers[i] \in reasons}
<1>1. DOMAIN Checkers = 1 .. 13
  BY DEF Checkers
<1>2. places \subseteq Nat /\ k \in places
  BY <1>1
<1>3. Min(places) \in places /\ Min(places) <= k
  BY <1>2, LeastOfNat
<1>4. FirstReason(reasons) = Checkers[Min(places)]
  BY DEF FirstReason
<1>5. Min(places) \in 1 .. k
  BY <1>1, <1>2, <1>3
<1>6. QED
  BY <1>3, <1>4, <1>5

\* What is checked up to the health of a provider is nothing it could not do.
LEMMA UpToHealth ==
  /\ Checkers[4] = "provider-unhealthy" /\ 4 \in DOMAIN Checkers
  /\ \A i \in 1 .. 4 : Checkers[i] \notin Mismatches
<1>1. \A i \in 1 .. 4 : i = 1 \/ i = 2 \/ i = 3 \/ i = 4
  OBVIOUS
<1>2. QED
  BY <1>1 DEF Checkers, Mismatches

\* The least of one refusal is that one.
LEMMA ClosestOfOne ==
  ASSUME NEW reasons, IsFiniteSet(reasons)
  PROVE  Closest(<<reasons>>) = reasons
<1> DEFINE refusals == <<reasons>>
           sizes == {Cardinality(refusals[i]) : i \in DOMAIN refusals}
           places == {i \in DOMAIN refusals : Cardinality(refusals[i]) = Min(sizes)}
<1>1. DOMAIN refusals = {1} /\ refusals[1] = reasons
  OBVIOUS
<1>2. sizes = {Cardinality(reasons)} /\ Cardinality(reasons) \in Nat
  BY <1>1, FS_CardinalityType
<1>3. Min(sizes) = Cardinality(reasons)
  BY <1>2, LeastOfNat
<1>4. places = {1}
  BY <1>1, <1>3
<1>5. Min(places) = 1
  <2>1. Min({1}) \in {1}
    BY LeastOfNat
  <2>2. QED
    BY <1>4, <2>1
<1>6. Closest(refusals) = refusals[Min(places)]
  BY DEF Closest
<1>7. QED
  BY <1>1, <1>5, <1>6

-----------------------------------------------------------------------------
\* What was heard of the providers

\* Nobody is served before every provider was asked, and one that never
\* answered is not healthy.
HeardInv ==
    /\ TypeInv
    /\ serving => \A p \in Asked : known[p] = 0 => ~healthy[p]
    /\ \A c \in Client : at[c] # "idle" => serving

\* A server starts not serving.
LEMMA InitHeard == Init => HeardInv
  BY InitTypes DEF Init, RegistryInit, HeardInv

\* A refresh that is applied says of a provider asked whether it answered.
LEMMA RefreshHeard ==
  ASSUME HeardInv, ApplyAnswers
  PROVE  \A p \in Asked : known'[p] = 0 => ~healthy'[p]
<1> SUFFICES ASSUME NEW p \in Asked, known'[p] = 0 PROVE ~healthy'[p]
  OBVIOUS
<1>1. p \in Provider
  BY DEF Asked
<1>2. PICK i \in Index(p) : answers[p] = {i}
  BY DEF ApplyAnswers, HeardInv, TypeInv, RegistryTypes
<1>3. (CHOOSE k \in answers[p] : TRUE) = i
  BY <1>2
<1>4. CASE answers[p] = {0}
  BY <1>1, <1>4 DEF ApplyAnswers
<1>5. CASE answers[p] # {0}
  <2>1. known'[p] = CHOOSE k \in answers[p] : TRUE
    BY <1>1, <1>5 DEF ApplyAnswers
  <2>2. QED
    BY <1>2, <1>3, <1>5, <2>1
<1>6. QED
  BY <1>4, <1>5

\* No step makes a server serve but the end of a refresh, nor a request move
\* before it serves.
LEMMA NextHeard == HeardInv /\ [Next]_vars => HeardInv'
<1> SUFFICES ASSUME HeardInv, [Next]_vars PROVE HeardInv'
  OBVIOUS
<1>1. TypeInv'
  BY NextTypes DEF HeardInv
<1>2. ASSUME UNCHANGED registryVars PROVE serving' => \A p \in Asked : known'[p] = 0 => ~healthy'[p]
  BY <1>2 DEF registryVars, HeardInv
<1>3. CASE \E c \in Client : ClientStep(c)
  <2>1. PICK c \in Client : ClientStep(c)
    BY <1>3
  <2>2. UNCHANGED registryVars
    BY <2>1 DEF ClientStep, Ask, ReadJob, LoadVersion, LoadSource, Plan, StartTask, ReadForTask,
                ApplyForTask, Place
  <2>3. serving
    BY <2>1 DEF ClientStep, Ask, ReadJob, LoadVersion, LoadSource, Plan, StartTask, ReadForTask,
                ApplyForTask, Place, HeardInv
  <2>4. serving'
    BY <2>2, <2>3 DEF registryVars
  <2>5. QED
    BY <1>1, <1>2, <2>2, <2>4 DEF HeardInv
<1>4. CASE Registration \/ Stopping \/ Charging \/ TickerReads \/ TickerApplies
  <2>1. UNCHANGED registryVars /\ UNCHANGED at
    BY <1>4 DEF Registration, Stopping, Charging, TickerReads, TickerApplies, clientVars
  <2>2. UNCHANGED serving
    BY <2>1 DEF registryVars
  <2>3. QED
    BY <1>1, <1>2, <2>1, <2>2 DEF HeardInv
<1>5. CASE Refreshing \/ Changing
  <2>1. UNCHANGED at
    BY <1>5 DEF Refreshing, Changing, clientVars
  <2>2. CASE ApplyAnswers
    <3>1. \A p \in Asked : known'[p] = 0 => ~healthy'[p]
      BY <2>2, RefreshHeard
    <3>2. serving'
      BY <2>2 DEF ApplyAnswers
    <3>3. QED
      BY <1>1, <2>1, <3>1, <3>2 DEF HeardInv
  <2>3. CASE StartRefresh \/ (\E p \in Asked : Answer(p)) \/ (\E p \in Provider : Change(p))
    <3>1. UNCHANGED <<known, healthy, serving>>
      BY <2>3 DEF StartRefresh, Answer, Change
    <3>2. QED
      BY <1>1, <2>1, <3>1 DEF HeardInv
  <2>4. QED
    BY <1>5, <2>2, <2>3 DEF Refreshing, Changing
<1>6. CASE UNCHANGED vars
  <2>1. UNCHANGED registryVars /\ UNCHANGED at /\ UNCHANGED serving
    BY <1>6 DEF vars, registryVars, clientVars
  <2>2. QED
    BY <1>1, <1>2, <2>1 DEF HeardInv
<1>7. QED
  BY <1>3, <1>4, <1>5, <1>6 DEF Next

\* Reasons are finitely many.
LEMMA ReasonsFinite ==
  ASSUME NEW req, NEW in
  PROVE  IsFiniteSet(AdmitOne(req, in)) /\ AdmitOne(req, in) \subseteq ToSet(Checkers)
<1>1. IsFiniteSet(DOMAIN Checkers)
  <2>1. DOMAIN Checkers = 1 .. 13
    BY DEF Checkers
  <2>2. \A n \in Nat : IsFiniteSet(1 .. n)
    BY FS_Interval
  <2>3. QED
    BY <2>1, <2>2
<1>2. IsFiniteSet(ToSet(Checkers))
  BY <1>1, FiniteRange
<1>3. AdmitOne(req, in) \in SUBSET ToSet(Checkers)
  BY DEF AdmitOne
<1>4. QED
  BY <1>2, <1>3, FS_Subset

\* A provider that is not healthy and has no members is refused, and shown a
\* reason that is checked before what it could not do.
LEMMA UnhealthyRefused ==
  ASSUME NEW req, NEW in, in.caps.members = <<>>, As(in, Units(in)[1]).healthy = FALSE
  PROVE  FirstReason(AdmitProvider(req, in).reasons) \notin Mismatches
<1> DEFINE reasons == AdmitOne(req, As(in, Units(in)[1]))
           all == [i \in DOMAIN Units(in) |-> AdmitOne(req, As(in, Units(in)[i]))]
<1>1. DOMAIN Units(in) = {1}
  <2>1. Units(in) = <<[name |-> "", caps |-> in.caps, labels |-> in.labels]>>
    BY DEF Units
  <2>2. \A unit : DOMAIN <<unit>> = {1}
    OBVIOUS
  <2>3. QED
    BY <2>1, <2>2, Zenon
<1>2. all = <<reasons>>
  BY <1>1
<1>3. "provider-unhealthy" \in reasons
  <2>1. "provider-unhealthy" \in ToSet(Checkers)
    BY UpToHealth DEF ToSet
  <2>2. Fails("provider-unhealthy", req, As(in, Units(in)[1]))
    BY DEF Fails
  <2>3. QED
    BY <2>1, <2>2 DEF AdmitOne
<1>4. ToSet(<<reasons>>) = {reasons}
  BY DEF ToSet
<1>5. Closest(<<reasons>>) = reasons
  BY ReasonsFinite, ClosestOfOne
<1>6. AdmitProvider(req, in).reasons = reasons
  <2>1. AdmitProvider(req, in).reasons = IF {} \in ToSet(all) THEN {} ELSE Closest(all)
    BY DEF AdmitProvider, Verdict
  <2> HIDE DEF all, reasons
  <2>2. QED
    BY <1>2, <1>3, <1>4, <1>5, <2>1
<1> HIDE DEF reasons
<1>7. \E i \in 1 .. 4 : FirstReason(reasons) = Checkers[i]
  BY <1>3, UpToHealth, FirstIsReason
<1>8. QED
  BY <1>6, <1>7, UpToHealth

\* What is about to be judged is of a server that listens.
LEMMA JudgedServed ==
  ASSUME HeardInv, NEW c \in Client, NEW req \in Judged(c)
  PROVE  serving
<1>1. at[c] \in {"priced", "loaded"}
  BY DEF Judged
<1>2. QED
  BY <1>1 DEF HeardInv

\* A provider nothing is known about did not answer, and its health is said first.
LEMMA HeardShows == HeardInv => BlankNeverBlamed
<1> SUFFICES ASSUME HeardInv, NEW c \in Client, NEW req \in Judged(c),
                    NEW r \in ToSet(PlanTask(req, InputsFor(c)).rejections),
                    EntryOf(r.provider).enabled, ~IsLive(r.provider), known[r.provider] = 0
             PROVE  FirstReason(r.reasons) \notin Mismatches
  BY DEF BlankNeverBlamed
<1>1. PICK ns : InputsFor(c) = Inputs(ns)
  BY DEF InputsFor
<1>2. PlanTask(req, Inputs(ns)).rejections = Admit(req, Inputs(ns)).rejections
  BY DEF PlanTask, Decision
<1>3. PICK in \in ToSet(Inputs(ns)) : r = AdmitProvider(req, in)
  <2>1. r \in ToSet(Admit(req, Inputs(ns)).rejections)
    BY <1>1, <1>2
  <2>2. Proper(Inputs(ns))
    BY InputsProper
  <2>3. ToSet(Admit(req, Inputs(ns)).rejections) =
            {v \in {AdmitProvider(req, in) : in \in ToSet(Inputs(ns))} : v.reasons # {}}
    BY <2>2, AdmitSays
  <2>4. QED
    BY <2>1, <2>3
<1>4. PICK i \in DOMAIN Entries : in = InputOf(ns, Entries[i])
  BY <1>3, InputsProper DEF ToSet
<1>5. r.provider = Entries[i].provider
  <2>1. AdmitProvider(req, in).provider = in.provider
    BY DEF AdmitProvider, Verdict
  <2>2. InputOf(ns, Entries[i]).provider = Entries[i].provider
    BY DEF InputOf
  <2>3. QED
    BY <1>3, <1>4, <2>1, <2>2
<1>6. EntryOf(r.provider) = Entries[i] /\ r.provider \in Asked
  BY <1>5, EntriesAre DEF Asked
<1>7. ~healthy[r.provider] /\ healthy[r.provider] \in BOOLEAN
  BY <1>6, JudgedServed DEF HeardInv, TypeInv, RegistryTypes, Asked
<1>8. in.caps = NoCapabilities /\ in.healthy = healthy[r.provider]
  BY <1>4, <1>5 DEF InputOf, CapsOf
<1>9. in.caps.members = <<>> /\ As(in, Units(in)[1]).healthy = FALSE
  <2>1. As(in, Units(in)[1]).healthy = in.healthy
    BY <1>4 DEF As, InputOf
  <2>2. QED
    BY <1>7, <1>8, <2>1 DEF NoCapabilities
<1>10. QED
  BY <1>3, <1>9, UnhealthyRefused

\* A provider that has not yet said what it can do is never refused for what it
\* cannot: whatever the configuration, the jobs, and the requests.
THEOREM BlankNeverBlamedAlways == Spec => []BlankNeverBlamed
  BY InitHeard, NextHeard, HeardShows, PTL DEF Spec

-----------------------------------------------------------------------------
\* What becomes of a refusal on a better day

\* Pairs that differ only in what one name stands for.
SamePairs(A, B, n) ==
    /\ {p[1] : p \in A} = {p[1] : p \in B}
    /\ \A name : name # n => {q \in A : q[1] = name} = {q \in B : q[1] = name}

\* They publish the same under every other name.
LEMMA PublishedOthers ==
  ASSUME NEW A, NEW B, NEW n, SamePairs(A, B, n)
  PROVE  /\ DOMAIN Publishing(A) = DOMAIN Publishing(B)
         /\ \A name \in DOMAIN Publishing(A) :
                name # n => Publishing(A)[name] = Publishing(B)[name]
<1> DEFINE values(S, name) == {p[2] : p \in {q \in S : q[1] = name}}
<1>1. ASSUME NEW name, name # n PROVE values(A, name) = values(B, name)
  <2>1. {q \in A : q[1] = name} = {q \in B : q[1] = name}
    BY <1>1 DEF SamePairs
  <2>2. QED
    BY <2>1
<1>2. \A S : Publishing(S) = [name \in {p[1] : p \in S} |-> CHOOSE x \in values(S, name) : TRUE]
  BY DEF Publishing
<1>3. DOMAIN Publishing(A) = DOMAIN Publishing(B)
  BY <1>2 DEF SamePairs
<1>4. ASSUME NEW name \in DOMAIN Publishing(A), name # n
      PROVE  Publishing(A)[name] = Publishing(B)[name]
  <2>1. name \in {p[1] : p \in A} /\ name \in {p[1] : p \in B}
    BY <1>2, <1>4 DEF SamePairs
  <2>2. Publishing(A)[name] = CHOOSE x \in values(A, name) : TRUE
    BY <1>2, <2>1
  <2>3. Publishing(B)[name] = CHOOSE x \in values(B, name) : TRUE
    BY <1>2, <2>1
  <2>4. values(A, name) = values(B, name)
    BY <1>1, <1>4
  <2> HIDE DEF values
  <2>5. QED
    BY <2>2, <2>3, <2>4
<1>5. QED
  BY <1>3, <1>4

\* One pair may be another under its name.
LEMMA OnePair ==
  ASSUME NEW X, NEW n, NEW u, NEW w
  PROVE  SamePairs(X \cup {<<n, u>>}, X \cup {<<n, w>>}, n)
<1>1. ASSUME NEW x PROVE {p[1] : p \in X \cup {<<n, x>>}} = {p[1] : p \in X} \cup {n}
  <2>1. <<n, x>>[1] = n
    OBVIOUS
  <2>2. ASSUME NEW pair, pair[1] = n
        PROVE  {p[1] : p \in X \cup {pair}} = {p[1] : p \in X} \cup {n}
    BY <2>2, Zenon
  <2>3. QED
    BY <2>1, <2>2
<1>2. ASSUME NEW x, NEW name, name # n
      PROVE  {q \in X \cup {<<n, x>>} : q[1] = name} = {q \in X : q[1] = name}
  BY <1>2
<1> DEFINE A == X \cup {<<n, u>>}
           B == X \cup {<<n, w>>}
<1>3. {p[1] : p \in A} = {p[1] : p \in B}
  BY <1>1
<1>4. \A name : name # n => {q \in A : q[1] = name} = {q \in B : q[1] = name}
  BY <1>2
<1> HIDE DEF A, B
<1>5. SamePairs(A, B, n)
  BY <1>3, <1>4 DEF SamePairs
<1>6. QED
  BY <1>5 DEF A, B

\* The same provider but for its standing: enabled, healthy, and what it was charged.
SameBut(in, other) ==
    /\ in.provider = other.provider
    /\ in.caps = other.caps
    /\ in.tags = other.tags
    /\ in.labels = other.labels
    /\ in.tier = other.tier

\* The attribute that tells what is left of the budgets.
FreeName == Published("free_quota_percent")

\* Standing shows in one attribute only.
LEMMA SameAttributes ==
  ASSUME NEW in, NEW other, SameBut(in, other), NEW e
  PROVE  LET f == InputAttributes(in, e)
             g == InputAttributes(other, e)
         IN DOMAIN f = DOMAIN g /\ \A name \in DOMAIN f : name # FreeName => f[name] = g[name]
<1> DEFINE rest(x) == CapabilityAttributes(x.caps)
                        \cup {<<Published("tier"), Integer(x.tier)>>}
                        \cup {<<Tag(name), x.tags[name]>> : name \in DOMAIN x.tags}
                        \cup {<<Label(name), x.labels[name]>> : name \in DOMAIN x.labels}
           free(x) == Integer(InputFreePercent(x, e))
<1>1. ASSUME NEW x PROVE InputAttributes(x, e) = Publishing(rest(x) \cup {<<FreeName, free(x)>>})
  <2> DEFINE pairs == CapabilityAttributes(x.caps)
                        \cup {<<Published("free_quota_percent"), free(x)>>,
                              <<Published("tier"), Integer(x.tier)>>}
                        \cup {<<Tag(name), x.tags[name]>> : name \in DOMAIN x.tags}
                        \cup {<<Label(name), x.labels[name]>> : name \in DOMAIN x.labels}
  <2>1. InputAttributes(x, e) = Publishing(pairs)
    BY DEF InputAttributes
  <2>2. pairs = rest(x) \cup {<<FreeName, free(x)>>}
    BY DEF FreeName
  <2>3. QED
    BY <2>1, <2>2
<1>2. rest(in) = rest(other)
  BY DEF SameBut
<1> HIDE DEF rest, free
<1> DEFINE f == InputAttributes(in, e)
           g == InputAttributes(other, e)
<1> DEFINE X == rest(in)
           u == free(in)
           w == free(other)
           A == X \cup {<<FreeName, u>>}
           B == X \cup {<<FreeName, w>>}
<1>3. f = Publishing(A) /\ g = Publishing(B)
  BY <1>1, <1>2
<1> HIDE DEF f, g, X, u, w
<1>4. SamePairs(A, B, FreeName)
  BY OnePair
<1> HIDE DEF A, B
<1>5. DOMAIN f = DOMAIN g /\ \A name \in DOMAIN f : name # FreeName => f[name] = g[name]
  BY <1>3, <1>4, PublishedOthers
<1>6. QED
  BY <1>5 DEF f, g

\* A comparison of another attribute comes out the same.
LEMMA SameMatch ==
  ASSUME NEW f, NEW g, NEW c, DOMAIN f = DOMAIN g, c.attribute # FreeName,
         \A name \in DOMAIN f : name # FreeName => f[name] = g[name]
  PROVE  Match(f, c) <=> Match(g, c)
<1>1. c.attribute \in DOMAIN f <=> c.attribute \in DOMAIN g
  OBVIOUS
<1>2. c.attribute \in DOMAIN f => f[c.attribute] = g[c.attribute]
  OBVIOUS
<1> DEFINE got(h) == IF c.attribute \in DOMAIN h THEN h[c.attribute] ELSE NoText
<1>3. got(f) = got(g)
  BY <1>1, <1>2
<1>4. \A h : Match(h, c) <=>
        CASE c.operator = "is_set" -> c.attribute \in DOMAIN h
          [] c.operator = "is_not_set" -> ~(c.attribute \in DOMAIN h)
          [] c.operator = "!=" -> got(h) # c.value
          [] c.operator = "=" -> c.attribute \in DOMAIN h /\ got(h) = c.value
          [] c.operator = "set_contains" -> c.attribute \in DOMAIN h /\ SetContains(got(h), c.value)
          [] OTHER -> c.attribute \in DOMAIN h /\ Ordered(c.operator, Compare(got(h), c.value))
  BY DEF Match
<1> HIDE DEF got
<1>5. QED
  BY <1>1, <1>3, <1>4

\* What can not be does not depend on a provider's standing.
LEMMA SameMismatches ==
  ASSUME NEW req, NEW in, NEW other, SameBut(in, other),
         ~Compares(req.routing.constraints, FreeName),
         NEW reason \in ToSet(Checkers) \ TransientReasons
  PROVE  Fails(reason, req, in) <=> Fails(reason, req, other)
<1>1. NotAllowed(req, in) <=> NotAllowed(req, other)
  BY DEF NotAllowed, SameBut
<1>2. TooDear(req, in) <=> TooDear(req, other)
  BY DEF TooDear, SameBut
<1>3. LacksDriver(req, in) <=> LacksDriver(req, other)
  BY DEF LacksDriver, SameBut
<1>4. LacksArch(req, in) <=> LacksArch(req, other)
  BY DEF LacksArch, SameBut
<1>5. RefusesImage(req, in) <=> RefusesImage(req, other)
  BY DEF RefusesImage, SameBut
<1>6. Unreachable(req, in) <=> Unreachable(req, other)
  BY DEF Unreachable, SameBut
<1>7. TooBig(req, in) <=> TooBig(req, other)
  BY DEF TooBig, SameBut
<1>8. TooLong(req, in) <=> TooLong(req, other)
  BY DEF TooLong, SameBut
<1>9. Unmet(req, in) <=> Unmet(req, other)
  <2> DEFINE f == InputAttributes(in, req.exec)
             g == InputAttributes(other, req.exec)
  <2>1. DOMAIN f = DOMAIN g /\ \A name \in DOMAIN f : name # FreeName => f[name] = g[name]
    BY SameAttributes
  <2> HIDE DEF f, g
  <2>2. \A c \in ToSet(req.routing.constraints) : c.attribute # FreeName
    BY DEF Compares
  <2>3. \A c \in ToSet(req.routing.constraints) : Match(f, c) <=> Match(g, c)
    BY <2>1, <2>2, SameMatch
  <2>4. UnmatchedConstraints(f, req.routing.constraints) = UnmatchedConstraints(g, req.routing.constraints)
    BY <2>3 DEF UnmatchedConstraints
  <2>5. QED
    BY <2>4 DEF Unmet, f, g
<1>10. reason \in {"not-allowlisted", "cost-policy",
      "driver-unsupported", "arch-unsupported", "image-unsupported",
      "network-unsupported", "resources-exceeded", "duration-exceeded",
      "attribute-unknown", "constraint-unmet"}
  <2>1. \E i \in 1 .. 13 : reason = Checkers[i]
    BY DEF ToSet, Checkers
  <2>2. \A i \in 1 .. 13 : i = 1 \/ i = 2 \/ i = 3 \/ i = 4 \/ i = 5 \/ i = 6 \/ i = 7 \/ i = 8
                            \/ i = 9 \/ i = 10 \/ i = 11 \/ i = 12 \/ i = 13
    OBVIOUS
  <2>3. QED
    BY <2>1, <2>2 DEF Checkers, TransientReasons
<1>11. QED
  BY <1>1, <1>2, <1>3, <1>4, <1>5, <1>6, <1>7, <1>8, <1>9, <1>10 DEF Fails

\* The closest refusal is one of them, and none has fewer reasons.
LEMMA ClosestIsLeast ==
  ASSUME NEW refusals, DOMAIN refusals \subseteq Nat, DOMAIN refusals # {},
         \A i \in DOMAIN refusals : IsFiniteSet(refusals[i])
  PROVE  \E m \in DOMAIN refusals :
            /\ Closest(refusals) = refusals[m]
            /\ \A i \in DOMAIN refusals : Cardinality(refusals[m]) <= Cardinality(refusals[i])
<1> DEFINE sizes == {Cardinality(refusals[i]) : i \in DOMAIN refusals}
           places == {i \in DOMAIN refusals : Cardinality(refusals[i]) = Min(sizes)}
<1>1. sizes \subseteq Nat /\ sizes # {}
  BY FS_CardinalityType
<1>2. Min(sizes) \in sizes /\ \A n \in sizes : Min(sizes) <= n
  BY <1>1, LeastOfNat
<1>3. places \subseteq Nat /\ places # {}
  BY <1>2
<1>4. Min(places) \in places
  BY <1>3, LeastOfNat
<1>5. Closest(refusals) = refusals[Min(places)]
  BY DEF Closest
<1>6. QED
  BY <1>2, <1>4, <1>5

\* An input, with all it holds.
InputFields == {"provider", "caps", "limits", "usage", "share", "shareUsage", "tags", "labels",
                "tier", "enabled", "healthy"}

IsInput(in) == in = [f \in InputFields |-> in[f]]

\* A unit is judged with its own capabilities and labels, and all else of the provider.
LEMMA AsIs ==
  ASSUME NEW in, IsInput(in), NEW unit
  PROVE  /\ As(in, unit).provider = in.provider
         /\ As(in, unit).caps = unit.caps
         /\ As(in, unit).labels = unit.labels
         /\ As(in, unit).tags = in.tags
         /\ As(in, unit).tier = in.tier
         /\ As(in, unit).limits = in.limits
         /\ As(in, unit).usage = in.usage
         /\ As(in, unit).share = in.share
         /\ As(in, unit).shareUsage = in.shareUsage
         /\ As(in, unit).enabled = in.enabled
         /\ As(in, unit).healthy = in.healthy
  BY DEF As, IsInput, InputFields

\* What may pass is the same of every unit.
LEMMA SameTransients ==
  ASSUME NEW req, NEW in, IsInput(in), NEW u, NEW v, NEW reason \in TransientReasons
  PROVE  Fails(reason, req, As(in, u)) <=> Fails(reason, req, As(in, v))
<1>1. Exhausted(req, As(in, u)) <=> Exhausted(req, As(in, v))
  BY AsIs DEF Exhausted
<1>2. As(in, u).enabled = As(in, v).enabled /\ As(in, u).healthy = As(in, v).healthy
  BY AsIs
<1>3. reason \in {"quota-exhausted", "provider-disabled", "provider-unhealthy"}
  BY DEF TransientReasons
<1>4. QED
  BY <1>1, <1>2, <1>3 DEF Fails

\* A provider refused as it stands and admitted on a better day is shown a
\* reason that may pass: its unit that is admitted then is now refused for such
\* reasons only, and every other unit is refused for them too.
LEMMA BetterDay ==
  ASSUME NEW req, NEW in, NEW other, IsInput(in), IsInput(other), SameBut(in, other),
         ~Compares(req.routing.constraints, FreeName),
         DOMAIN Units(in) \subseteq Nat, DOMAIN Units(in) # {},
         AdmitProvider(req, other).reasons = {}, AdmitProvider(req, in).reasons # {}
  PROVE  FirstReason(AdmitProvider(req, in).reasons) \in TransientReasons
<1> DEFINE units == Units(in)
           now == [i \in DOMAIN units |-> AdmitOne(req, As(in, units[i]))]
           then == [i \in DOMAIN units |-> AdmitOne(req, As(other, units[i]))]
<1>1. Units(other) = units
  BY DEF SameBut, Units
<1>2. AdmitProvider(req, in).reasons = IF {} \in ToSet(now) THEN {} ELSE Closest(now)
  BY DEF AdmitProvider, Verdict
<1>3. AdmitProvider(req, other).reasons = IF {} \in ToSet(then) THEN {} ELSE Closest(then)
  BY <1>1 DEF AdmitProvider, Verdict
<1>4. /\ DOMAIN now = DOMAIN units /\ DOMAIN then = DOMAIN units
      /\ \A i \in DOMAIN units : now[i] = AdmitOne(req, As(in, units[i]))
      /\ \A i \in DOMAIN units : then[i] = AdmitOne(req, As(other, units[i]))
  OBVIOUS
<1>5. DOMAIN units \subseteq Nat /\ DOMAIN units # {}
  OBVIOUS
<1> HIDE DEF now, then, units
<1>6. \A i \in DOMAIN units : /\ IsFiniteSet(now[i]) /\ now[i] \subseteq ToSet(Checkers)
                              /\ IsFiniteSet(then[i]) /\ then[i] \subseteq ToSet(Checkers)
  BY <1>4, ReasonsFinite
<1>7. PICK k \in DOMAIN units : then[k] = {}
  <2>1. CASE {} \in ToSet(then)
    BY <1>4, <2>1 DEF ToSet
  <2>2. CASE {} \notin ToSet(then)
    <3>1. \E m \in DOMAIN then : Closest(then) = then[m]
      BY <1>4, <1>5, <1>6, ClosestIsLeast
    <3>2. QED
      BY <1>3, <1>4, <2>2, <3>1
  <2>3. QED
    BY <2>1, <2>2
<1>8. SameBut(As(in, units[k]), As(other, units[k]))
  BY AsIs DEF SameBut
<1>9. now[k] \subseteq TransientReasons
  <2> SUFFICES ASSUME NEW reason \in now[k], reason \notin TransientReasons PROVE FALSE
    OBVIOUS
  <2>1. reason \in ToSet(Checkers) /\ Fails(reason, req, As(in, units[k]))
    BY <1>4 DEF AdmitOne
  <2>2. Fails(reason, req, As(other, units[k]))
    BY <1>8, <2>1, SameMismatches
  <2>3. reason \in then[k]
    BY <1>4, <2>1, <2>2 DEF AdmitOne
  <2>4. QED
    BY <1>7, <2>3
<1>10. ASSUME NEW i \in DOMAIN units PROVE now[k] \subseteq now[i]
  <2> SUFFICES ASSUME NEW reason \in now[k] PROVE reason \in now[i]
    OBVIOUS
  <2>1. reason \in ToSet(Checkers) /\ Fails(reason, req, As(in, units[k]))
    BY <1>4 DEF AdmitOne
  <2>2. Fails(reason, req, As(in, units[i]))
    BY <1>9, <2>1, SameTransients
  <2>3. QED
    BY <1>4, <2>1, <2>2 DEF AdmitOne
<1>11. AdmitProvider(req, in).reasons = Closest(now)
  BY <1>2
<1>12. PICK m \in DOMAIN units : /\ Closest(now) = now[m]
                                 /\ Cardinality(now[m]) <= Cardinality(now[k])
  BY <1>4, <1>5, <1>6, ClosestIsLeast
<1>13. now[m] = now[k]
  <2>1. now[k] \in SUBSET now[m]
    BY <1>10
  <2>2. Cardinality(now[k]) <= Cardinality(now[m])
        /\ (Cardinality(now[m]) = Cardinality(now[k]) => now[m] = now[k])
    BY <1>6, <2>1, FS_Subset
  <2>3. Cardinality(now[k]) \in Nat /\ Cardinality(now[m]) \in Nat
    BY <1>6, FS_CardinalityType
  <2>4. QED
    BY <1>12, <2>2, <2>3
<1> DEFINE shown == AdmitProvider(req, in).reasons
<1>14. shown \subseteq TransientReasons /\ shown \subseteq ToSet(Checkers) /\ shown # {}
  BY <1>6, <1>9, <1>11, <1>12, <1>13
<1> HIDE DEF shown
<1>15. PICK i \in DOMAIN Checkers : Checkers[i] \in shown
  BY <1>14 DEF ToSet
<1>16. FirstReason(shown) \in shown
  BY <1>15, FirstIsReason
<1>17. QED
  BY <1>14, <1>16 DEF shown

\* A provider is judged by some unit, whatever it advertises.
LEMMA UnitsNumbered ==
  ASSUME TypeInv, NEW ns, NEW i \in DOMAIN Entries
  PROVE  LET units == Units(InputOf(ns, Entries[i]))
         IN DOMAIN units \subseteq Nat /\ DOMAIN units # {}
<1> DEFINE p == Entries[i].provider
           in == InputOf(ns, Entries[i])
           members == in.caps.members
<1>1. p \in Provider
  BY EntriesAre
<1>2. PICK k \in Index(p) : in.caps = CapsOf(p, k)
  <2>1. actual[p] \in Index(p) /\ known[p] \in Index(p)
    BY <1>1 DEF TypeInv, RegistryTypes
  <2>2. in.caps = CapsOf(p, actual[p]) \/ in.caps = CapsOf(p, known[p])
    BY DEF InputOf
  <2>3. QED
    BY <2>1, <2>2
<1>3. members = <<>> \/ IsSequence(members)
  <2>1. CASE k = 0
    BY <1>2, <2>1 DEF CapsOf, NoCapabilities
  <2>2. CASE k # 0
    <3>1. Len(Advert[p]) \in Nat /\ \A n \in 1 .. Len(Advert[p]) : IsSequence(Advert[p][n].members)
      BY <1>1, AdvertAssumption
    <3>2. k \in 1 .. Len(Advert[p])
      BY <2>2, <3>1 DEF Index
    <3>3. in.caps = Advert[p][k]
      BY <1>2, <2>2 DEF CapsOf
    <3>4. QED
      BY <3>1, <3>2, <3>3
  <2>3. QED
    BY <2>1, <2>2
<1> HIDE DEF members
<1>4. CASE members = <<>>
  <2>1. Units(in) = <<[name |-> "", caps |-> in.caps, labels |-> in.labels]>>
    BY <1>4 DEF Units, members
  <2>2. \A unit : DOMAIN <<unit>> = {1}
    OBVIOUS
  <2>3. DOMAIN Units(in) = {1}
    BY <2>1, <2>2, Zenon
  <2>4. QED
    BY <2>3
<1>5. CASE members # <<>>
  <2>1. Units(in) = members
    BY <1>5 DEF Units, members
  <2>2. members \in Seq(ToSet(members))
    BY <1>3, <1>5 DEF IsSequence
  <2>3. DOMAIN members = 1 .. Len(members) /\ Len(members) \in Nat /\ Len(members) # 0
    BY <1>5, <2>2
  <2>4. DOMAIN members \subseteq Nat /\ 1 \in DOMAIN members
    BY <2>3
  <2>5. QED
    BY <2>1, <2>4, Zenon
<1>6. QED
  BY <1>4, <1>5

\* On a better day every provider is the same but for its standing.
LEMMA RecoveredAre ==
  ASSUME NEW ns
  PROVE  /\ Proper(Recovered(Inputs(ns)))
         /\ DOMAIN Recovered(Inputs(ns)) = DOMAIN Entries
         /\ \A i \in DOMAIN Entries : /\ IsInput(Inputs(ns)[i]) /\ IsInput(Recovered(Inputs(ns))[i])
                                      /\ SameBut(Inputs(ns)[i], Recovered(Inputs(ns))[i])
<1> DEFINE inputs == Inputs(ns)
           better == Recovered(Inputs(ns))
<1>1. Proper(inputs) /\ DOMAIN inputs = DOMAIN Entries
      /\ \A i \in DOMAIN Entries : inputs[i] = InputOf(ns, Entries[i])
  BY InputsProper
<1>2. DOMAIN better = DOMAIN Entries
  BY <1>1 DEF Recovered
<1>3. ASSUME NEW i \in DOMAIN Entries
      PROVE  IsInput(inputs[i]) /\ IsInput(better[i]) /\ SameBut(inputs[i], better[i])
  <2>1. PICK unused, unusedShare : better[i] = [inputs[i] EXCEPT !.enabled = TRUE, !.healthy = TRUE,
                                                      !.usage = unused, !.shareUsage = unusedShare]
    BY <1>1 DEF Recovered
  <2>2. IsInput(inputs[i])
    BY <1>1 DEF InputOf, IsInput, InputFields
  <2>3. IsInput(better[i])
    BY <2>1, <2>2 DEF IsInput, InputFields
  <2>4. SameBut(inputs[i], better[i])
    BY <2>1, <2>2 DEF IsInput, InputFields, SameBut
  <2>5. QED
    BY <2>2, <2>3, <2>4
<1>4. \A i \in DOMAIN Entries : better[i].provider = inputs[i].provider
  BY <1>3 DEF SameBut
<1>5. better = [i \in DOMAIN inputs |-> better[i]]
  BY DEF Recovered
<1>6. \A i, k \in DOMAIN Entries : inputs[i] = inputs[k] => better[i] = better[k]
  BY <1>1 DEF Recovered
<1> HIDE DEF better, inputs
<1>7. Proper(better)
  BY <1>1, <1>2, <1>4, <1>6 DEF Proper, Named
<1>8. QED
  BY <1>2, <1>3, <1>7 DEF better, inputs

\* A task that would be admitted on a better day is refused somewhere for a
\* reason that may pass, and so is called retryable.
LEMMA RetryableShows == TypeInv => RetryableMissesNothing
<1> SUFFICES ASSUME TypeInv, NEW c \in Client, NEW req \in Judged(c),
                    ~Admitted(Admit(req, InputsFor(c))), ~Retryable(Admit(req, InputsFor(c))),
                    ~Compares(req.routing.constraints, FreeName),
                    Admitted(Admit(req, Recovered(InputsFor(c))))
             PROVE  FALSE
  BY DEF RetryableMissesNothing, FreeName
<1>1. PICK ns : InputsFor(c) = Inputs(ns)
  BY DEF InputsFor
<1> DEFINE inputs == Inputs(ns)
           better == Recovered(Inputs(ns))
<1>2. Proper(inputs) /\ Proper(better) /\ DOMAIN inputs = DOMAIN Entries /\ DOMAIN better = DOMAIN Entries
  BY InputsProper, RecoveredAre
<1>3. \A i \in DOMAIN Entries : IsInput(inputs[i]) /\ IsInput(better[i]) /\ SameBut(inputs[i], better[i])
  BY RecoveredAre
<1>4. \A i \in DOMAIN Entries : DOMAIN Units(inputs[i]) \subseteq Nat /\ DOMAIN Units(inputs[i]) # {}
  BY InputsProper, UnitsNumbered
<1>5. ~Admitted(Admit(req, inputs)) /\ ~Retryable(Admit(req, inputs)) /\ Admitted(Admit(req, better))
  BY <1>1
<1> HIDE DEF inputs, better
<1>6. {v \in {AdmitProvider(req, in) : in \in ToSet(better)} : v.reasons = {}} # {}
  BY <1>2, <1>5, AdmitSays
<1>7. PICK i \in DOMAIN Entries : AdmitProvider(req, better[i]).reasons = {}
  BY <1>2, <1>6 DEF ToSet
<1>8. {v \in {AdmitProvider(req, in) : in \in ToSet(inputs)} : v.reasons = {}} = {}
  BY <1>2, <1>5, AdmitSays
<1>9. AdmitProvider(req, inputs[i]) \in {AdmitProvider(req, in) : in \in ToSet(inputs)}
  BY <1>2 DEF ToSet
<1>10. AdmitProvider(req, inputs[i]).reasons # {}
  BY <1>8, <1>9
<1>11. FirstReason(AdmitProvider(req, inputs[i]).reasons) \in TransientReasons
  BY <1>3, <1>4, <1>7, <1>10, BetterDay
<1>12. ToSet(Admit(req, inputs).rejections) =
            {v \in {AdmitProvider(req, in) : in \in ToSet(inputs)} : v.reasons # {}}
  BY <1>2, AdmitSays
<1>13. AdmitProvider(req, inputs[i]) \in ToSet(Admit(req, inputs).rejections)
  BY <1>9, <1>10, <1>12
<1>14. Retryable(Admit(req, inputs))
  BY <1>5, <1>11, <1>13 DEF Retryable
<1>15. QED
  BY <1>5, <1>14

\* No plan of a task refused everywhere keeps from its caller that a provider enabled
\* again, answering again or with its budget back would take it, whatever the
\* configuration, the capabilities, the usage and the requests.
THEOREM RetryableMissesNothingAlways == Spec => []RetryableMissesNothing
  BY InitTypes, NextTypes, RetryableShows, PTL DEF Spec

-----------------------------------------------------------------------------
\* What candidates are measured by

\* The greater of two numbers.
LEMMA MaxOfTwo ==
  ASSUME NEW a \in Int, NEW b \in Int
  PROVE  Max({a, b}) \in {a, b} /\ Max({a, b}) >= a /\ Max({a, b}) >= b
<1>1. \E x \in {a, b} : \A y \in {a, b} : x >= y
  OBVIOUS
<1>2. QED
  BY <1>1 DEF Max

\* The lesser of two numbers.
LEMMA MinOfTwo ==
  ASSUME NEW a \in Int, NEW b \in Int
  PROVE  Min({a, b}) \in {a, b} /\ Min({a, b}) <= a /\ Min({a, b}) <= b
<1>1. \E x \in {a, b} : \A y \in {a, b} : x <= y
  OBVIOUS
<1>2. QED
  BY <1>1 DEF Min

\* Numbers that do not go below one of them have a least.
LEMMA LeastBounded ==
  ASSUME NEW S, S \subseteq Int, S # {}, NEW low \in Int, \A y \in S : low <= y
  PROVE  Min(S) \in S /\ \A y \in S : Min(S) <= y
<1> DEFINE T == {y - low : y \in S}
<1>1. T \subseteq Nat /\ T # {}
  <2>1. \A y \in S : y - low \in Nat
    OBVIOUS
  <2>2. QED
    BY <2>1
<1> HIDE DEF T
<1>2. Min(T) \in T /\ \A t \in T : Min(T) <= t
  BY <1>1, LeastOfNat
<1>3. PICK x \in S : Min(T) = x - low
  BY <1>2 DEF T
<1>4. ASSUME NEW y \in S PROVE x <= y
  <2>1. y - low \in T
    BY DEF T
  <2>2. x - low <= y - low
    BY <1>2, <1>3, <2>1
  <2>3. QED
    BY <2>2
<1>5. QED
  BY <1>3, <1>4 DEF Min

\* What is kept of a number is a number of the counter's width, and the number
\* itself where that holds it.
LEMMA WrappedIs ==
  ASSUME NEW z \in Int
  PROVE  /\ Wrapped(z) \in Int /\ Wrapped(z) >= -(MaxInt64 + 1)
         /\ z \in 0 .. MaxInt64 => Wrapped(z) = z
<1> DEFINE m == 2 * (MaxInt64 + 1)
           w == z + MaxInt64 + 1
<1>1. m \in Nat /\ m > 0 /\ w \in Int /\ MaxInt64 \in Nat
  BY MaxInt64Assumption
<1>2. Wrapped(z) = (w % m) - (MaxInt64 + 1)
  BY DEF Wrapped
<1>3. z \in 0 .. MaxInt64 => w \in 0 .. m - 1
  BY <1>1
<1> HIDE DEF m
<1>4. \A v \in Int : v % m \in Int /\ v % m >= 0
  BY <1>1
<1>5. \A v \in 0 .. m - 1 : v % m = v
  BY <1>1
<1>6. w % m \in Int /\ w % m >= 0 /\ (z \in 0 .. MaxInt64 => w % m = w)
  BY <1>1, <1>3, <1>4, <1>5
<1>7. QED
  BY <1>1, <1>2, <1>6

\* Dividing does not take a number further from nothing.
LEMMA QuotientIs ==
  ASSUME NEW z \in Int, NEW d \in Nat \ {0}, NEW low \in Int, low <= 0, low <= z
  PROVE  Quotient(z, d) \in Int /\ low <= Quotient(z, d)
<1>1. ASSUME NEW n \in Nat
      PROVE  n \div d \in Nat /\ n \div d <= n
  <2> DEFINE q == n \div d
  <2>1. q \in Nat /\ d * q <= n
    OBVIOUS
  <2> HIDE DEF q
  <2>2. d - 1 \in Nat /\ (d - 1) * q \in Nat /\ d * q = (d - 1) * q + q
    BY <2>1
  <2>3. q <= n
    BY <2>1, <2>2
  <2>4. QED
    BY <2>1, <2>3 DEF q
<1>2. CASE z < 0
  <2>1. Quotient(z, d) = -((-z) \div d) /\ -z \in Nat
    BY <1>2 DEF Quotient
  <2>2. (-z) \div d \in Nat /\ (-z) \div d <= -z
    BY <1>1, <2>1
  <2>3. QED
    BY <2>1, <2>2
<1>3. CASE ~(z < 0)
  <2>1. Quotient(z, d) = z \div d /\ z \in Nat
    BY <1>3 DEF Quotient
  <2>2. QED
    BY <1>1, <2>1
<1>4. QED
  BY <1>2, <1>3

\* The least number a counter holds.
Lowest == -(MaxInt64 + 1)

\* What a pool has left is reported as a number of the counter's width: not
\* always as a percentage (limits.go:220).
LEMMA PoolFreeIsInt ==
  ASSUME NEW pool, pool.limit \in Int, pool.limit > 0, NEW used \in Int
  PROVE  PoolFreePercent(pool, used) \in Int /\ Lowest <= PoolFreePercent(pool, used)
<1>1. Lowest \in Int /\ Lowest <= 0
  BY MaxInt64Assumption DEF Lowest
<1>2. CASE used <= 0
  <2>1. PoolFreePercent(pool, used) = 100
    BY <1>2 DEF PoolFreePercent
  <2>2. QED
    BY <1>1, <2>1
<1>3. CASE ~(used <= 0)
  <2> DEFINE left == Remaining(pool, used)
             product == Wrapped(left * 100)
  <2>1. left \in Int
    <3>1. pool.limit - used \in Int /\ 0 \in Int
      OBVIOUS
    <3>2. Max({pool.limit - used, 0}) \in {pool.limit - used, 0}
      BY <3>1, MaxOfTwo
    <3>3. QED
      BY <3>1, <3>2 DEF Remaining
  <2>2. PoolFreePercent(pool, used) = Quotient(product, pool.limit)
    BY <1>3 DEF PoolFreePercent
  <2> HIDE DEF left
  <2>3. left * 100 \in Int
    BY <2>1
  <2>4. product \in Int /\ Lowest <= product
    BY <1>1, <2>3, WrappedIs DEF Lowest
  <2> HIDE DEF product
  <2>5. pool.limit \in Nat \ {0}
    OBVIOUS
  <2>6. Quotient(product, pool.limit) \in Int /\ Lowest <= Quotient(product, pool.limit)
    BY <1>1, <2>4, <2>5, QuotientIs
  <2>7. QED
    BY <2>2, <2>6
<1>4. QED
  BY <1>2, <1>3

\* Up to a hundredth of the largest number a counter holds, a limit is reported on
\* as the docs say (docs/quotas.md:144): what is left of it as a percentage, rounded
\* down, and never outside 0 to 100. Above it, the product of limits.go:220 may wrap.
THEOREM FreePercentExact ==
  ASSUME NEW pool, pool.limit \in Int, pool.limit > 0, pool.limit <= MaxInt64 \div 100,
         NEW used \in Int
  PROVE  /\ PoolFreePercent(pool, used) = FreeByTheDocs(pool, used)
         /\ PoolFreePercent(pool, used) \in 0 .. 100
<1> DEFINE limit == pool.limit
           left == Remaining(pool, used)
<1>1. limit \in Nat /\ limit > 0 /\ limit * 100 <= MaxInt64 /\ MaxInt64 \in Nat
  BY MaxInt64Assumption
<1>2. CASE used <= 0
  <2>1. PoolFreePercent(pool, used) = 100
    BY <1>2 DEF PoolFreePercent
  <2>2. FreeByTheDocs(pool, used) = 100
    BY <1>2 DEF FreeByTheDocs
  <2>3. QED
    BY <2>1, <2>2
<1>3. CASE ~(used <= 0)
  <2>1. left = IF used >= limit THEN 0 ELSE limit - used
    <3>1. limit - used \in Int /\ 0 \in Int
      BY <1>1
    <3>2. left = Max({limit - used, 0})
      BY DEF Remaining
    <3> HIDE DEF left, limit
    <3>3. /\ Max({limit - used, 0}) \in {limit - used, 0}
          /\ Max({limit - used, 0}) >= limit - used /\ Max({limit - used, 0}) >= 0
      BY <3>1, MaxOfTwo
    <3>4. QED
      BY <1>1, <3>2, <3>3
  <2>2. PoolFreePercent(pool, used) = Quotient(Wrapped(left * 100), limit)
    BY <1>3 DEF PoolFreePercent
  <2> HIDE DEF left, limit
  <2>3. left \in Nat /\ left <= limit /\ left * 100 \in 0 .. MaxInt64 /\ left * 100 \in Int
    BY <1>1, <1>3, <2>1
  <2>4. Wrapped(left * 100) = left * 100
    BY <2>3, WrappedIs
  <2>5. PoolFreePercent(pool, used) = (left * 100) \div limit
    <3>1. ~(left * 100 < 0)
      BY <2>3
    <3>2. QED
      BY <2>2, <2>4, <3>1 DEF Quotient
  <2>6. (left * 100) \div limit \in 0 .. 100
    <3> DEFINE q == (left * 100) \div limit
    <3>1. q \in Nat /\ limit * q <= left * 100
      BY <1>1, <2>3
    <3> HIDE DEF q
    <3>2. limit * q <= limit * 100
      BY <1>1, <2>3, <3>1
    <3>3. ASSUME q > 100 PROVE FALSE
      <4>1. q - 101 \in Nat
        BY <3>1, <3>3
      <4>2. limit * (q - 101) \in Nat /\ limit * q = limit * (q - 101) + limit * 101
        BY <1>1, <3>1, <4>1
      <4>3. limit * 101 = limit * 100 + limit
        BY <1>1
      <4>4. QED
        BY <1>1, <3>1, <3>2, <4>2, <4>3
    <3>4. q \in 0 .. 100
      BY <3>1, <3>3
    <3>5. QED
      BY <3>4 DEF q
  <2>7. FreeByTheDocs(pool, used) = (left * 100) \div limit
    <3>1. CASE used >= limit
      <4>1. left = 0 /\ 0 \div limit = 0
        BY <1>1, <2>1, <3>1
      <4>2. FreeByTheDocs(pool, used) = 0
        BY <1>3, <3>1 DEF FreeByTheDocs, limit
      <4>3. QED
        BY <4>1, <4>2
    <3>2. CASE ~(used >= limit)
      <4>1. left = limit - used
        BY <2>1, <3>2
      <4>2. FreeByTheDocs(pool, used) = ((limit - used) * 100) \div limit
        BY <1>3, <3>2 DEF FreeByTheDocs, limit
      <4>3. QED
        BY <4>1, <4>2
    <3>3. QED
      BY <3>1, <3>2
  <2>8. QED
    BY <2>5, <2>6, <2>7
<1>4. QED
  BY <1>2, <1>3

\* Budgets that can be computed with.
Numbered(limits, charged) ==
    \A pool \in ToSet(limits) :
        pool.limit \in Int /\ pool.limit > 0 /\ UsageOf(charged, pool) \in Int

\* What is left of the pools a task charges, as it is reported.
Reported(limits, charged, e) ==
    {PoolFreePercent(pool, UsageOf(charged, pool)) : pool \in Charged(limits, e)}

\* Some member of a set of numbers is the least.
IsLeast(least, S) == least \in Int /\ least \in S /\ \A other \in S : least <= other

\* What is reported are numbers, of the counter's width.
LEMMA ReportedNumbered ==
  ASSUME NEW limits, NEW charged, NEW e, Numbered(limits, charged)
  PROVE  Reported(limits, charged, e) \subseteq Int /\ \A y \in Reported(limits, charged, e) : Lowest <= y
<1>1. \A p \in Charged(limits, e) : /\ PoolFreePercent(p, UsageOf(charged, p)) \in Int
                                    /\ Lowest <= PoolFreePercent(p, UsageOf(charged, p))
  BY PoolFreeIsInt DEF Charged, Numbered
<1>2. QED
  BY <1>1 DEF Reported

\* The tightest allowance is a number.
LEMMA FreeIsLeast ==
  ASSUME NEW limits, NEW charged, NEW e, Numbered(limits, charged)
  PROVE  IsLeast(FreePercent(limits, charged, e), {100} \cup Reported(limits, charged, e))
<1> DEFINE S == {100} \cup Reported(limits, charged, e)
<1>1. Reported(limits, charged, e) \subseteq Int /\ \A y \in Reported(limits, charged, e) : Lowest <= y
  BY ReportedNumbered
<1>2. Lowest \in Int /\ Lowest <= 100
  BY MaxInt64Assumption DEF Lowest
<1>3. S \subseteq Int /\ S # {} /\ \A y \in S : Lowest <= y
  BY <1>1, <1>2
<1>4. FreePercent(limits, charged, e) = Min(S)
  BY DEF FreePercent, Reported
<1> HIDE DEF S
<1>5. Min(S) \in S /\ \A y \in S : Min(S) <= y
  BY <1>2, <1>3, LeastBounded
<1>6. Min(S) \in Int
  BY <1>3, <1>5
<1>7. QED
  BY <1>4, <1>5, <1>6 DEF S, IsLeast

\* So is the tighter of a provider's total and of the namespace's share.
LEMMA InputFreeIsLeast ==
  ASSUME NEW in, NEW e, Numbered(in.limits, in.usage), Numbered(in.share, in.shareUsage)
  PROVE  IsLeast(InputFreePercent(in, e), {100} \cup Reported(in.limits, in.usage, e)
                                               \cup Reported(in.share, in.shareUsage, e))
<1> DEFINE a == FreePercent(in.limits, in.usage, e)
           b == FreePercent(in.share, in.shareUsage, e)
           A == {100} \cup Reported(in.limits, in.usage, e)
           B == {100} \cup Reported(in.share, in.shareUsage, e)
<1>1. IsLeast(a, A) /\ IsLeast(b, B)
  BY FreeIsLeast
<1>2. InputFreePercent(in, e) = Min({a, b})
  BY DEF InputFreePercent
<1>3. A \cup B = {100} \cup Reported(in.limits, in.usage, e) \cup Reported(in.share, in.shareUsage, e)
  OBVIOUS
<1>4. A \cup B \subseteq Int
  BY ReportedNumbered
<1> HIDE DEF a, b, A, B
<1>5. a \in Int /\ b \in Int /\ a \in A /\ b \in B
      /\ (\A y \in A : a <= y) /\ (\A y \in B : b <= y)
  BY <1>1 DEF IsLeast
<1>6. Min({a, b}) \in {a, b} /\ Min({a, b}) <= a /\ Min({a, b}) <= b
  BY <1>5, MinOfTwo
<1>7. Min({a, b}) \in Int /\ Min({a, b}) \in A \cup B
  BY <1>5, <1>6
<1>8. \A y \in A \cup B : Min({a, b}) <= y
  BY <1>4, <1>5, <1>6, <1>7
<1>9. IsLeast(Min({a, b}), A \cup B)
  BY <1>7, <1>8 DEF IsLeast
<1>10. QED
  BY <1>2, <1>3, <1>9

\* What is reported is what the docs say, where no product wraps.
LEMMA ReportedAsDocumented ==
  ASSUME NEW limits, NEW charged, NEW e, Numbered(limits, charged), FitsCounter(limits, e)
  PROVE  Reported(limits, charged, e) = Allowances(limits, charged, e)
<1>1. ASSUME NEW p \in Charged(limits, e)
      PROVE  PoolFreePercent(p, UsageOf(charged, p)) = FreeByTheDocs(p, UsageOf(charged, p))
  <2>1. p.limit \in Int /\ p.limit > 0 /\ UsageOf(charged, p) \in Int
    BY DEF Charged, Numbered
  <2>2. p.limit <= MaxInt64 \div 100
    BY DEF FitsCounter
  <2>3. QED
    BY <2>1, <2>2, FreePercentExact
<1>2. QED
  BY <1>1 DEF Reported, Allowances

\* Whatever is reported, a candidate scores a percentage (rank.go:257).
LEMMA ClampedIs ==
  ASSUME NEW percent \in Int
  PROVE  Clamped(percent) \in 0 .. 100
<1> DEFINE capped == Min({100, percent})
<1>1. capped \in Int /\ capped <= 100
  BY MinOfTwo
<1> HIDE DEF capped
<1>2. Max({0, capped}) \in {0, capped} /\ Max({0, capped}) >= 0
  BY <1>1, MaxOfTwo
<1>a. Max({0, capped}) = 0 \/ Max({0, capped}) = capped
  BY <1>2
<1>3. Max({0, capped}) \in 0 .. 100
  BY <1>1, <1>2, <1>a
<1>4. QED
  BY <1>3 DEF Clamped, capped

\* Limits that compile are numbers above zero.
LEMMA LimitsNumbered ==
  ASSUME NEW pools, LimitsCompile(pools),
         \A pool \in ToSet(pools) : "limit" \in DOMAIN pool /\ pool.limit \in Int
  PROVE  /\ \A pool \in ToSet(NewLimits(pools)) : pool.limit \in Int /\ pool.limit > 0
         /\ \A pool \in ToSet(NewLimits(pools)) : pool.name \in PoolNames(NewLimits(pools))
<1> SUFFICES ASSUME NEW i \in DOMAIN pools
             PROVE  /\ NewLimits(pools)[i].limit \in Int /\ NewLimits(pools)[i].limit > 0
                    /\ NewLimits(pools)[i].name \in PoolNames(NewLimits(pools))
  BY DEF NewLimits, ToSet
<1> DEFINE pool == pools[i]
<1>1. "limit" \in DOMAIN pool /\ pool.limit \in Int /\ pool.limit > 0 /\ pool.meter \in Meters
  BY DEF ToSet, LimitsCompile, Compiles
<1>2. Scale[pool.meter] \in Int /\ Scale[pool.meter] > 0
  BY <1>1 DEF Scale, Meters
<1>3. NewLimits(pools)[i] = [pool EXCEPT !.limit = @ * Scale[pool.meter]]
  BY DEF NewLimits
<1>4. NewLimits(pools)[i].limit = pool.limit * Scale[pool.meter]
  BY <1>1, <1>3
<1>5. \A a, b \in Int : a > 0 /\ b > 0 => a * b \in Int /\ a * b > 0
  OBVIOUS
<1>6. NewLimits(pools)[i].name \in PoolNames(NewLimits(pools))
  BY DEF PoolNames, NewLimits
<1> HIDE DEF pool
<1>7. QED
  BY <1>1, <1>2, <1>4, <1>5, <1>6

\* Every pool of a provider's total, and of a declared share of it, has its row.
LEMMA RowsOfPools ==
  ASSUME NEW p \in Provider
  PROVE  /\ \A name \in PoolNames(EntryOf(p).limits) : <<Total, p, name>> \in Row
         /\ \A ns \in DeclaredNamespace : \A name \in PoolNames(ShareOf(ns, p)) : <<ns, p, name>> \in Row
<1> DEFINE totals(q) == {Total} \X {q} \X PoolNames(EntryOf(q).limits)
           shares(q) == UNION {{ns} \X {q} \X PoolNames(ShareOf(ns, q)) : ns \in DeclaredNamespace}
<1>1. Row = UNION {totals(q) \cup shares(q) : q \in Provider}
  BY DEF Row
<1>2. totals(p) \subseteq Row /\ shares(p) \subseteq Row
  BY <1>1
<1>3. \A name \in PoolNames(EntryOf(p).limits) : <<Total, p, name>> \in totals(p)
  OBVIOUS
<1>4. ASSUME NEW ns \in DeclaredNamespace, NEW name \in PoolNames(ShareOf(ns, p))
      PROVE  <<ns, p, name>> \in shares(p)
  <2>1. <<ns, p, name>> \in {ns} \X {p} \X PoolNames(ShareOf(ns, p))
    OBVIOUS
  <2>2. QED
    BY <2>1
<1> HIDE DEF totals, shares
<1>5. QED
  BY <1>2, <1>3, <1>4

\* What a reader sees of pools that have their rows.
LEMMA UsageNumbered ==
  ASSUME snapshot \in [Row -> Level], NEW layer, NEW p, NEW limits,
         \A pool \in ToSet(limits) : pool.limit \in Int /\ pool.limit > 0,
         \A name \in PoolNames(limits) : <<layer, p, name>> \in Row
  PROVE  Numbered(limits, UsageIn(snapshot, layer, p, limits))
<1> SUFFICES ASSUME NEW pool \in ToSet(limits)
             PROVE  UsageOf(UsageIn(snapshot, layer, p, limits), pool) \in Int
  BY DEF Numbered
<1>1. pool.name \in PoolNames(limits)
  BY DEF ToSet, PoolNames
<1>2. UsageIn(snapshot, layer, p, limits) = [name \in PoolNames(limits) |-> snapshot[<<layer, p, name>>]]
  BY DEF UsageIn
<1>3. UsageOf(UsageIn(snapshot, layer, p, limits), pool) = snapshot[<<layer, p, pool.name>>]
  BY <1>1, <1>2 DEF UsageOf
<1>4. snapshot[<<layer, p, pool.name>>] \in Level
  BY <1>1
<1>5. QED
  BY <1>3, <1>4, NumbersAssumption

\* What admission is given can be computed with.
LEMMA InputNumbered ==
  ASSUME UsageTypes, NEW ns, NEW i \in DOMAIN Entries
  PROVE  LET in == InputOf(ns, Entries[i])
         IN /\ in.tier \in Nat /\ \A e : InputFreePercent(in, e) \in Int
            /\ Numbered(in.limits, in.usage) /\ Numbered(in.share, in.shareUsage)
<1> DEFINE in == InputOf(ns, Entries[i])
           p == Entries[i].provider
<1>1. PICK block \in ToSet(Configuration.providers) : Entries[i] = Entry(block)
  BY EntriesAre
<1>2. EntryOf(p) = Entries[i] /\ p \in Provider
  BY EntriesAre
<1>3. PICK k \in DOMAIN Configuration.providers : block = Configuration.providers[k]
  BY <1>1 DEF ToSet
<1>4. Builds(block) /\ ValidateProvider(block)
  BY <1>3, FilesAssumption DEF LoadsPath, ValidateFile
<1>5. block.tier \subseteq Int
      /\ \A pool \in ToSet(block.pools) : "limit" \in DOMAIN pool /\ pool.limit \in Int
  BY <1>1, NumbersAssumption
<1>6. in.tier \in Nat
  <2>1. in.tier = TierOf(block)
    BY <1>1 DEF InputOf, Entry
  <2>2. TierOf(block) \in Int
    BY <1>5 DEF TierOf, Given
  <2>3. TierOf(block) >= 0
    BY <1>4 DEF ValidateProvider
  <2> HIDE DEF in
  <2>4. QED
    BY <2>1, <2>2, <2>3
<1>7. Numbered(in.limits, in.usage)
  <2>1. in.limits = NewLimits(block.pools) /\ EntryOf(p).limits = NewLimits(block.pools)
    BY <1>1, <1>2 DEF InputOf, Entry
  <2>2. in.usage = UsageIn(snapshot, Total, p, in.limits)
    BY DEF InputOf
  <2>3. \A pool \in ToSet(in.limits) : pool.limit \in Int /\ pool.limit > 0
    BY <1>4, <1>5, <2>1, LimitsNumbered DEF Builds
  <2>4. \A name \in PoolNames(in.limits) : <<Total, p, name>> \in Row
    BY <1>2, <2>1, RowsOfPools
  <2> HIDE DEF in, p
  <2>5. QED
    BY <2>2, <2>3, <2>4, UsageNumbered DEF UsageTypes
<1>8. Numbered(in.share, in.shareUsage)
  <2>1. in.share = ShareOf(ns, p) /\ in.shareUsage = UsageIn(snapshot, ns, p, in.share)
    BY DEF InputOf
  <2> DEFINE quotas == {q \in UNION {ToSet(n.quotas) : n \in {m \in ToSet(Configuration.namespaces) :
                                                                m.name = ns}} : q.provider = p}
  <2>2. CASE quotas = {}
    <3>1. in.share = <<>>
      BY <2>1, <2>2 DEF ShareOf
    <3>2. ToSet(<<>>) = {}
      BY DEF ToSet
    <3>3. QED
      BY <3>1, <3>2 DEF Numbered
  <2>3. CASE quotas # {}
    <3>1. PICK q \in quotas : in.share = NewLimits(q.pools)
      BY <2>1, <2>3 DEF ShareOf
    <3>2. PICK n \in ToSet(Configuration.namespaces) : n.name = ns /\ q \in ToSet(n.quotas)
      OBVIOUS
    <3>3. ns \in DeclaredNamespace
      BY <3>2 DEF DeclaredNamespace
    <3>4. LimitsCompile(q.pools)
      BY <3>2, FilesAssumption DEF CompileNamespaces, ToSet
    <3>5. \A pool \in ToSet(q.pools) : "limit" \in DOMAIN pool /\ pool.limit \in Int
      BY <3>2, NumbersAssumption
    <3>6. \A pool \in ToSet(in.share) : pool.limit \in Int /\ pool.limit > 0
      BY <3>1, <3>4, <3>5, LimitsNumbered
    <3>7. \A name \in PoolNames(in.share) : <<ns, p, name>> \in Row
      BY <1>2, <2>1, <3>3, RowsOfPools
    <3> HIDE DEF in, p
    <3>8. QED
      BY <2>1, <3>6, <3>7, UsageNumbered DEF UsageTypes
  <2>4. QED
    BY <2>2, <2>3
<1> HIDE DEF in
<1>9. \A e : InputFreePercent(in, e) \in Int
  BY <1>7, <1>8, InputFreeIsLeast DEF IsLeast
<1>10. QED
  BY <1>6, <1>7, <1>8, <1>9 DEF in

\* Whatever admission is given for a task, its free percentage is what is left.
LEMMA FreeShows == TypeInv => FreeIsWhatIsLeft
<1> SUFFICES ASSUME TypeInv, NEW c \in Client, NEW req \in Judged(c),
                    NEW i \in DOMAIN InputsFor(c),
                    FitsCounter(InputsFor(c)[i].limits, req.exec),
                    FitsCounter(InputsFor(c)[i].share, req.exec)
             PROVE  LET in == InputsFor(c)[i]
                        left == {100} \cup Allowances(in.limits, in.usage, req.exec)
                                      \cup Allowances(in.share, in.shareUsage, req.exec)
                    IN /\ InputFreePercent(in, req.exec) \in left
                       /\ \A other \in left : InputFreePercent(in, req.exec) <= other
  BY DEF FreeIsWhatIsLeft
<1>1. PICK ns : InputsFor(c) = Inputs(ns)
  BY DEF InputsFor
<1> DEFINE in == InputsFor(c)[i]
           e == req.exec
<1>2. i \in DOMAIN Entries /\ in = InputOf(ns, Entries[i])
  BY <1>1, InputsProper
<1>3. Numbered(in.limits, in.usage) /\ Numbered(in.share, in.shareUsage)
  BY <1>2, InputNumbered DEF TypeInv
<1>4. FitsCounter(in.limits, e) /\ FitsCounter(in.share, e)
  OBVIOUS
<1> HIDE DEF in, e
<1>5. IsLeast(InputFreePercent(in, e), {100} \cup Reported(in.limits, in.usage, e)
                                            \cup Reported(in.share, in.shareUsage, e))
  BY <1>3, InputFreeIsLeast
<1>6. /\ Reported(in.limits, in.usage, e) = Allowances(in.limits, in.usage, e)
      /\ Reported(in.share, in.shareUsage, e) = Allowances(in.share, in.shareUsage, e)
  BY <1>3, <1>4, ReportedAsDocumented
<1>7. QED
  BY <1>5, <1>6 DEF in, e, IsLeast

\* What candidates are ranked by is what is left of the budgets they charge, for any
\* configuration, usage and tasks whose budgets' percentages can be computed.
THEOREM FreeIsWhatIsLeftAlways == Spec => []FreeIsWhatIsLeft
  BY InitTypes, NextTypes, FreeShows, PTL DEF Spec

\* The greatest of finitely many numbers is one of them.
LEMMA GreatestOfFinite ==
  ASSUME NEW S, S \subseteq Int, S # {}, IsFiniteSet(S)
  PROVE  Max(S) \in S /\ \A y \in S : Max(S) >= y
<1> DEFINE order == {p \in S \X S : p[1] < p[2]}
           n == Cardinality(S)
<1>1. \A x, y \in S : <<x, y>> \in order <=> x < y
  OBVIOUS
<1>2. Orders(S, order)
  <2> HIDE DEF order
  <2>1. QED
    BY <1>1 DEF Orders
<1> HIDE DEF order
<1>3. /\ n \in Nat
      /\ \A k \in 1 .. n : Arranged(S, order)[k] \in S
      /\ \A x \in S : \E k \in 1 .. n : Arranged(S, order)[k] = x
      /\ \A i, k \in 1 .. n : i < k => <<Arranged(S, order)[i], Arranged(S, order)[k]>> \in order
  BY <1>2, ArrangedInOrder
<1> HIDE DEF n
<1>4. n \in 1 .. n
  <2>1. PICK x \in S : TRUE
    OBVIOUS
  <2>2. PICK k \in 1 .. n : Arranged(S, order)[k] = x
    BY <1>3, <2>1
  <2>3. QED
    BY <1>3, <2>2
<1> DEFINE top == Arranged(S, order)[n]
<1>5. top \in S
  BY <1>3, <1>4
<1>6. ASSUME NEW y \in S PROVE top >= y
  <2>1. PICK k \in 1 .. n : Arranged(S, order)[k] = y
    BY <1>3
  <2>2. CASE k = n
    <3>1. top = y /\ y \in Int
      BY <2>1, <2>2
    <3>2. QED
      BY <3>1
  <2>3. CASE k # n
    <3>1. k < n
      BY <1>3, <2>3
    <3>2. <<y, top>> \in order
      BY <1>3, <1>4, <2>1, <3>1
    <3>3. y < top
      BY <1>1, <1>5, <3>2
    <3>4. y \in Int /\ top \in Int
      BY <1>5
    <3> HIDE DEF top
    <3>5. QED
      BY <3>3, <3>4
  <2>4. QED
    BY <2>2, <2>3
<1>7. QED
  BY <1>5, <1>6 DEF Max

\* Affinities with numbers for weights.
Weighed(affinities) ==
    /\ IsSequence(affinities)
    /\ \A a \in ToSet(affinities) : a.weight \subseteq Int

\* The points of some affinities are among the points of all.
LEMMA PointsCount ==
  ASSUME NEW affinities, Weighed(affinities), NEW places \in SUBSET DOMAIN affinities
  PROVE  /\ IsFiniteSet(Points(affinities, places))
         /\ Points(affinities, places) \subseteq Points(affinities, DOMAIN affinities)
<1> DEFINE f == [i \in places |-> {i} \X (1 .. WeightOf(affinities[i]))]
<1>1. IsFiniteSet(places)
  <2>1. affinities \in Seq(ToSet(affinities))
    BY DEF Weighed, IsSequence
  <2>2. DOMAIN affinities = 1 .. Len(affinities) /\ Len(affinities) \in Nat
    BY <2>1
  <2>3. IsFiniteSet(DOMAIN affinities)
    BY <2>2, FS_Interval
  <2>4. QED
    BY <2>3, FS_Subset
<1>2. ASSUME NEW i \in places PROVE IsFiniteSet(f[i])
  <2>1. affinities[i].weight \subseteq Int
    BY DEF Weighed, ToSet
  <2>2. WeightOf(affinities[i]) \in Int
    BY <2>1 DEF WeightOf, DefaultAffinityWeight
  <2>3. IsFiniteSet(1 .. WeightOf(affinities[i])) /\ IsFiniteSet({i})
    <3>1. \A w \in Int : IsFiniteSet(1 .. w)
      BY FS_Interval
    <3>2. QED
      BY <2>2, <3>1, FS_Singleton
  <2>4. IsFiniteSet({i} \X (1 .. WeightOf(affinities[i])))
    BY <2>3, FS_Product
  <2>5. QED
    BY <2>4
<1>3. DOMAIN f = places /\ Points(affinities, places) = UNION ToSet(f)
  BY DEF Points, ToSet
<1> HIDE DEF f
<1>4. IsFiniteSet(ToSet(f)) /\ \A x \in ToSet(f) : IsFiniteSet(x)
  BY <1>1, <1>2, <1>3, FiniteRange DEF ToSet
<1>5. IsFiniteSet(Points(affinities, places))
  BY <1>3, <1>4, FS_UNION
<1>6. Points(affinities, places) \subseteq Points(affinities, DOMAIN affinities)
  BY DEF Points
<1>7. QED
  BY <1>5, <1>6

\* No candidate meets affinities of more weight than there is.
LEMMA WeightsCount ==
  ASSUME NEW affinities, Weighed(affinities), NEW attrs
  PROVE  /\ TotalAffinityWeight(affinities) \in Nat
         /\ AffinityWeight(attrs, affinities) \in 0 .. TotalAffinityWeight(affinities)
         /\ affinities = <<>> => AffinityWeight(attrs, affinities) = 0
<1> DEFINE met == {i \in DOMAIN affinities : Match(attrs, affinities[i])}
           all == Points(affinities, DOMAIN affinities)
           some == Points(affinities, met)
<1>1. met \in SUBSET DOMAIN affinities
  OBVIOUS
<1>2. IsFiniteSet(all) /\ some \in SUBSET all
  BY <1>1, PointsCount
<1>3. /\ TotalAffinityWeight(affinities) = Cardinality(all)
      /\ AffinityWeight(attrs, affinities) = Cardinality(some)
  BY DEF TotalAffinityWeight, AffinityWeight
<1>4. affinities = <<>> => all = {}
  BY DEF Points
<1> HIDE DEF all, some
<1>5. /\ IsFiniteSet(some) /\ Cardinality(some) <= Cardinality(all)
      /\ Cardinality(some) \in Nat /\ Cardinality(all) \in Nat
  BY <1>2, FS_Subset, FS_CardinalityType
<1>6. affinities = <<>> => Cardinality(some) = 0
  BY <1>2, <1>4, FS_EmptySet
<1>7. QED
  BY <1>3, <1>5, <1>6

-----------------------------------------------------------------------------
\* Scores

\* What products of integers do, as the facts the provers need.
LEMMA Products ==
  /\ \A a, b \in Int : a >= 0 /\ b > 0 => a * b \in Int /\ a * b >= 0 /\ (a * b = 0 => a = 0)
  /\ \A a, b \in Int : a > 0 /\ b > 0 => a * b > 0
  /\ \A a, b, c \in Int : (a - b) * c = a * c - b * c
  /\ \A a, b \in Int : a * b \in Int
  OBVIOUS

\* A common factor above zero changes no comparison.
LEMMA SameScale ==
  ASSUME NEW a \in Int, NEW b \in Int, NEW d \in Int, d > 0
  PROVE  a * d > b * d <=> a > b
<1>1. (a - b) * d = a * d - b * d /\ a * d \in Int /\ b * d \in Int
  BY Products
<1>2. CASE a > b
  <2>1. (a - b) * d > 0
    BY <1>2, Products
  <2>2. QED
    BY <1>1, <1>2, <2>1
<1>3. CASE ~(a > b)
  <2>1. b - a \in Int /\ b - a >= 0
    BY <1>3
  <2>2. (b - a) * d >= 0 /\ (b - a) * d = b * d - a * d
    BY <2>1, Products
  <2>3. QED
    BY <1>1, <1>3, <2>2
<1>4. QED
  BY <1>2, <1>3

\* The numerator of three parts h/100, x/X and y/Y over the common denominator.
Sum3(h, x, X, y, Y) == h * (X * Y) + (x * Y + y * X) * 100

\* A score grows with each of its parts.
LEMMA SumGrows ==
  ASSUME NEW X, NEW Y, X \in Int, X > 0, Y \in Int, Y > 0,
         NEW h, NEW x, NEW y, h \in Int, x \in Int, y \in Int,
         NEW i, NEW v, NEW w, i \in Int, v \in Int, w \in Int, h <= i, x <= v, y <= w
  PROVE  /\ Sum3(h, x, X, y, Y) \in Int /\ Sum3(i, v, X, w, Y) \in Int
         /\ Sum3(h, x, X, y, Y) <= Sum3(i, v, X, w, Y)
         /\ h # i \/ x # v \/ y # w => Sum3(h, x, X, y, Y) < Sum3(i, v, X, w, Y)
<1> DEFINE D == X * Y
           a == (i - h) * D
           b == (v - x) * Y
           c == (w - y) * X
<1>1. D \in Int /\ D > 0
  BY Products
<1> HIDE DEF D
<1>2. /\ a \in Int /\ a >= 0 /\ (a = 0 => i - h = 0)
      /\ b \in Int /\ b >= 0 /\ (b = 0 => v - x = 0)
      /\ c \in Int /\ c >= 0 /\ (c = 0 => w - y = 0)
  <2>1. i - h \in Int /\ i - h >= 0 /\ v - x \in Int /\ v - x >= 0 /\ w - y \in Int /\ w - y >= 0
    OBVIOUS
  <2>2. QED
    BY <1>1, <2>1, Products
<1>3. /\ a = i * D - h * D /\ b = v * Y - x * Y /\ c = w * X - y * X
      /\ i * D \in Int /\ h * D \in Int /\ v * Y \in Int /\ x * Y \in Int
      /\ w * X \in Int /\ y * X \in Int
  BY <1>1, Products
<1>4. /\ Sum3(h, x, X, y, Y) = h * D + (x * Y + y * X) * 100
      /\ Sum3(i, v, X, w, Y) = i * D + (v * Y + w * X) * 100
  BY DEF Sum3, D
<1> HIDE DEF a, b, c
<1>5. Sum3(i, v, X, w, Y) - Sum3(h, x, X, y, Y) = a + 100 * b + 100 * c
      /\ Sum3(h, x, X, y, Y) \in Int /\ Sum3(i, v, X, w, Y) \in Int
  <2> DEFINE iD == i * D
             hD == h * D
             vY == v * Y
             xY == x * Y
             wX == w * X
             yX == y * X
  <2>1. /\ a = iD - hD /\ b = vY - xY /\ c = wX - yX
        /\ iD \in Int /\ hD \in Int /\ vY \in Int /\ xY \in Int /\ wX \in Int /\ yX \in Int
        /\ Sum3(h, x, X, y, Y) = hD + (xY + yX) * 100
        /\ Sum3(i, v, X, w, Y) = iD + (vY + wX) * 100
    BY <1>3, <1>4
  <2> HIDE DEF iD, hD, vY, xY, wX, yX
  <2>2. QED
    BY <2>1
<1>6. QED
  BY <1>2, <1>5

-----------------------------------------------------------------------------
\* The ranking

\* Every request that works on a job, by name or not, has one that loads.
HeldInv ==
    /\ TypeInv
    /\ \A c \in Client : at[c] \in Working =>
        \E d \in Document : document[c] = {d} /\ Load(Content[d], ask[c].meta)

\* Nobody works on anything in the beginning.
LEMMA InitHeld == Init => HeldInv
<1> SUFFICES ASSUME Init PROVE HeldInv
  OBVIOUS
<1>1. \A c \in Client : at[c] = "idle"
  BY DEF Init
<1>2. QED
  BY <1>1, InitTypes DEF HeldInv, Working

\* A request is given its job where it is loaded, and keeps it.
LEMMA NextHeld == HeldInv /\ [Next]_vars => HeldInv'
<1> SUFFICES ASSUME HeldInv, [Next]_vars PROVE HeldInv'
  OBVIOUS
<1>1. TypeInv'
  BY NextTypes DEF HeldInv
<1> SUFFICES ASSUME NEW x \in Client, at'[x] \in Working
             PROVE  \E d \in Document : document'[x] = {d} /\ Load(Content[d], ask'[x].meta)
  BY <1>1 DEF HeldInv
<1>2. ASSUME ask'[x] = ask[x], document'[x] = document[x], at[x] \in Working
      PROVE  \E d \in Document : document'[x] = {d} /\ Load(Content[d], ask'[x].meta)
  BY <1>2 DEF HeldInv
<1>3. DOMAIN at = Client /\ DOMAIN ask = Client /\ DOMAIN document = Client
  BY DEF HeldInv, TypeInv, CauseInv, RequestDomains
<1>4. ASSUME UNCHANGED clientVars
      PROVE  \E d \in Document : document'[x] = {d} /\ Load(Content[d], ask'[x].meta)
  BY <1>2, <1>4 DEF clientVars
<1>5. ASSUME NEW c \in Client, ClientStep(c)
      PROVE  \E d \in Document : document'[x] = {d} /\ Load(Content[d], ask'[x].meta)
  <2>1. CASE x # c
    <3>1. ask'[x] = ask[x] /\ document'[x] = document[x] /\ at'[x] = at[x]
      BY <1>3, <1>5, <2>1 DEF ClientStep, Ask, ReadJob, LoadVersion, LoadSource, Plan, StartTask,
                  ReadForTask, ApplyForTask, Place, Answered
    <3>2. QED
      BY <1>2, <3>1
  <2>2. CASE x = c
    <3>1. CASE Ask(c) \/ ReadJob(c)
      <4>1. at'[c] \in {"done", "asked", "submitted", "found"}
        BY <1>3, <3>1 DEF Ask, ReadJob, Answered
      <4>2. QED
        BY <2>2, <4>1 DEF Working
    <3>2. CASE LoadVersion(c)
      <4>1. PICK d : document' = [document EXCEPT ![c] = {d}]
                     /\ (Answered(c, <<"not permitted">>) \/ Answered(c, <<"invalid">>)
                         \/ ForDispatch(Content[d], ask[c].meta))
        BY <3>2 DEF LoadVersion
      <4>2. ask' = ask
        BY <3>2 DEF LoadVersion
      <4>3. Load(Content[d], ask[c].meta)
        <5>1. \A answer : ~Answered(c, answer)
          BY <1>3, <2>2 DEF Answered, Working
        <5>2. QED
          BY <4>1, <5>1 DEF ForDispatch
      <4>4. document'[c] = {d} /\ document'[c] \subseteq Document
        BY <1>1, <1>3, <4>1 DEF TypeInv, ClientTypes
      <4>5. QED
        BY <2>2, <4>2, <4>3, <4>4
    <3>3. CASE LoadSource(c)
      <4>1. PICK d \in ask[c].source :
                     document' = [document EXCEPT ![c] = {d}]
                     /\ (Answered(c, <<"invalid">>) \/ Answered(c, <<"no namespace">>)
                         \/ Load(Content[d], ask[c].meta))
        BY <3>3 DEF LoadSource
      <4>2. ask' = ask
        BY <3>3 DEF LoadSource
      <4>3. Load(Content[d], ask[c].meta)
        <5>1. \A answer : ~Answered(c, answer)
          BY <1>3, <2>2 DEF Answered, Working
        <5>2. QED
          BY <4>1, <5>1
      <4>4. document'[c] = {d} /\ document'[c] \subseteq Document
        BY <1>1, <1>3, <4>1 DEF TypeInv, ClientTypes
      <4>5. QED
        BY <2>2, <4>2, <4>3, <4>4
    <3>4. CASE Plan(c) \/ StartTask(c) \/ ReadForTask(c) \/ ApplyForTask(c) \/ Place(c)
      <4>1. ask' = ask /\ document' = document /\ at[c] \in Working
        BY <3>4 DEF Plan, StartTask, ReadForTask, ApplyForTask, Place, Working
      <4>2. QED
        BY <1>2, <2>2, <4>1
    <3>5. QED
      BY <1>5, <3>1, <3>2, <3>3, <3>4 DEF ClientStep
  <2>3. QED
    BY <2>1, <2>2
<1>6. CASE Registration \/ Stopping \/ Refreshing \/ Changing \/ Charging \/ TickerReads \/ TickerApplies
  <2>1. UNCHANGED clientVars
    BY <1>6 DEF Registration, Stopping, Refreshing, Changing, Charging, TickerReads, TickerApplies
  <2>2. QED
    BY <1>4, <2>1
<1>7. CASE UNCHANGED vars
  BY <1>4, <1>7 DEF vars
<1>8. QED
  BY <1>5, <1>6, <1>7 DEF Next

\* What evaluation leaves of a routing.
LEMMA RoutingBound ==
  ASSUME NEW doc, IsDocument(doc), 1 \in DOMAIN doc, NEW meta
  PROVE  /\ Bind(doc[1], meta).routing.affinities
              = [i \in DOMAIN doc[1].routing.affinities |-> BindAffinity(doc[1].routing.affinities[i], meta)]
         /\ IsSequence(doc[1].routing.affinities)
         /\ \A i \in DOMAIN doc[1].routing.affinities :
                BindAffinity(doc[1].routing.affinities[i], meta).weight \subseteq Int
<1> DEFINE routing == doc[1].routing
<1>1. /\ "routing" \in DOMAIN doc[1] /\ "affinities" \in DOMAIN routing
      /\ \A a \in ToSet(routing.affinities) :
            {"attribute", "operator", "value", "weight"} \subseteq DOMAIN a
  BY JobHolds
<1>2. Bind(doc[1], meta).routing = BindRouting(routing, meta)
  BY <1>1 DEF Bind
<1>3. BindRouting(routing, meta).affinities
        = [i \in DOMAIN routing.affinities |-> BindAffinity(routing.affinities[i], meta)]
  BY <1>1 DEF BindRouting
<1>4. IsSequence(routing.affinities)
  BY DEF IsDocument, IsRouting, ToSet
<1>5. \A exprs : IntegersOf(exprs, meta) \subseteq Int
  BY DEF IntegersOf, IntegerText
<1>6. ASSUME NEW i \in DOMAIN routing.affinities
      PROVE  BindAffinity(routing.affinities[i], meta).weight \subseteq Int
  <2>1. "weight" \in DOMAIN routing.affinities[i]
    BY <1>1 DEF ToSet
  <2>2. "weight" \in DOMAIN BindComparison(routing.affinities[i], meta)
    BY <2>1 DEF BindComparison
  <2>3. BindAffinity(routing.affinities[i], meta).weight
            = IntegersOf(BindComparison(routing.affinities[i], meta).weight, meta)
    BY <2>2 DEF BindAffinity
  <2>4. QED
    BY <1>5, <2>3
<1>7. QED
  BY <1>2, <1>3, <1>4, <1>6

\* What is judged says how tiers count and what its affinities weigh.
LEMMA JudgedIs ==
  ASSUME HeldInv, NEW c \in Client, NEW req \in Judged(c)
  PROVE  Weighed(req.routing.affinities) /\ Tiers(req) \in {"strict", "weighted"}
<1>1. at[c] \in Working
  BY DEF Judged, Working
<1>2. PICK d \in Document : document[c] = {d} /\ Load(Content[d], ask[c].meta)
  BY <1>1 DEF HeldInv
<1> DEFINE meta == ask[c].meta
           doc == Content[d]
           job == Bind(doc[1], meta)
           mode == TierModeOf(Configuration)
<1>3. JobOf(c) = job
  BY <1>2 DEF JobOf, DocumentOf
<1>4. \E i, image : req = NewRequest(job.tasks[i], job.routing, mode, image)
  <2>1. PICK i : req \in TaskRequest(c, i)
    BY DEF Judged
  <2> HIDE DEF job, mode
  <2>2. req \in RequestFor(job, i, ask[c].meta, TierModeOf(Configuration))
    BY <1>3, <2>1 DEF TaskRequest
  <2>3. QED
    BY <2>2 DEF RequestFor, mode
<1>5. req.routing = job.routing /\ req.serverTiers = mode
  BY <1>4 DEF NewRequest
<1>6. IsDocument(doc) /\ DOMAIN doc = {1} /\ ValidJob(job)
  BY <1>2, ContentAssumption, LoadsOne
<1>7. 1 \in DOMAIN doc /\ doc[1] \in ToSet(doc)
  BY <1>6 DEF ToSet
<1> DEFINE given == doc[1].routing.affinities
<1>8. job.routing.affinities = [i \in DOMAIN given |-> BindAffinity(given[i], meta)]
  BY <1>6, <1>7, RoutingBound
<1>9. IsSequence(given) /\ \A i \in DOMAIN given : BindAffinity(given[i], meta).weight \subseteq Int
  BY <1>6, <1>7, RoutingBound
<1> DEFINE bound == [i \in DOMAIN given |-> BindAffinity(given[i], meta)]
<1>10. Weighed(bound)
  <2>1. given \in Seq(ToSet(given))
    BY <1>9 DEF IsSequence
  <2>2. DOMAIN given = 1 .. Len(given) /\ Len(given) \in Nat
    BY <2>1
  <2>3. DOMAIN bound = 1 .. Len(given) /\ \A i \in DOMAIN bound : bound[i] \in ToSet(bound)
    BY <2>2 DEF ToSet
  <2>5. \A i \in DOMAIN given : bound[i].weight \subseteq Int
    BY <1>9
  <2>6. bound = [i \in 1 .. Len(given) |-> bound[i]]
    BY <2>2
  <2> HIDE DEF bound
  <2>7. bound \in Seq(ToSet(bound))
    BY <2>2, <2>3, <2>6
  <2>8. QED
    BY <2>2, <2>3, <2>5, <2>7 DEF Weighed, IsSequence, ToSet
<1>11. job.routing.tiers \subseteq {"strict", "weighted"} /\ mode \in {"strict", "weighted"}
  <2>1. mode \in {"strict", "weighted"}
    BY FilesAssumption DEF LoadsPath, ValidateFile
  <2>2. QED
    BY <1>6, <2>1 DEF ValidJob, ValidRouting, TierModes
<1> HIDE DEF job, mode
<1>12. Tiers(req) \in {"strict", "weighted"}
  <2>1. Tiers(req) = Given(job.routing.tiers, IF mode # "" THEN mode ELSE "strict")
    BY <1>5 DEF Tiers
  <2>2. CASE job.routing.tiers = {}
    BY <1>11, <2>1, <2>2 DEF Given
  <2>3. CASE job.routing.tiers # {}
    <3>1. Tiers(req) \in job.routing.tiers
      BY <2>1, <2>3 DEF Given
    <3>2. QED
      BY <1>11, <3>1
  <2>4. QED
    BY <2>2, <2>3
<1>13. QED
  BY <1>5, <1>8, <1>10, <1>12

\* Candidates that can be compared by numbers.
Measured(req, s) ==
    /\ IsFiniteSet(DOMAIN s)
    /\ \A i \in DOMAIN s : s[i].in.tier \in Nat /\ InputFreePercent(s[i].in, req.exec) \in Int

\* The candidates for a task are measured, and in name order.
LEMMA CandidatesMeasured ==
  ASSUME TypeInv, NEW req, NEW ns
  PROVE  LET s == Admit(req, Inputs(ns)).candidates
         IN /\ Measured(req, s)
            /\ \E n \in Nat : DOMAIN s = 1 .. n
            /\ \A i, k \in DOMAIN s : i < k => Before(Text(s[i].provider), Text(s[k].provider))
<1> DEFINE inputs == Inputs(ns)
           s == Admit(req, inputs).candidates
           placed == {v \in {AdmitProvider(req, in) : in \in ToSet(inputs)} : v.reasons = {}}
<1>1. Proper(inputs)
  BY InputsProper
<1>2. /\ ToSet(s) = placed
      /\ \E n \in Nat : DOMAIN s = 1 .. n
      /\ \A i, k \in DOMAIN s : i < k => Before(Text(s[i].provider), Text(s[k].provider))
  <2> HIDE DEF inputs
  <2>1. ToSet(s) = placed
    BY <1>1, AdmitSays
  <2>2. \E n \in Nat : DOMAIN s = 1 .. n
    BY <1>1, AdmitSays
  <2>3. \A i, k \in DOMAIN s : i < k => Before(Text(s[i].provider), Text(s[k].provider))
    BY <1>1, AdmitSays
  <2>4. QED
    BY <2>1, <2>2, <2>3
<1>3. ASSUME NEW v \in placed
      PROVE  v.in.tier \in Nat /\ InputFreePercent(v.in, req.exec) \in Int
  <2>1. PICK in \in ToSet(inputs) : v = AdmitProvider(req, in)
    OBVIOUS
  <2>2. v.in = in
    BY <2>1 DEF AdmitProvider, Verdict
  <2>3. PICK i \in DOMAIN Entries : in = InputOf(ns, Entries[i])
    BY <2>1, InputsProper DEF ToSet
  <2>4. InputOf(ns, Entries[i]).tier \in Nat
        /\ \A e : InputFreePercent(InputOf(ns, Entries[i]), e) \in Int
    BY InputNumbered DEF TypeInv
  <2>5. QED
    BY <2>2, <2>3, <2>4
<1> HIDE DEF s, placed
<1>4. IsFiniteSet(DOMAIN s)
  <2>1. \A n \in Nat : IsFiniteSet(1 .. n)
    BY FS_Interval
  <2>2. QED
    BY <1>2, <2>1
<1>5. \A i \in DOMAIN s : s[i] \in placed
  BY <1>2 DEF ToSet
<1>6. Measured(req, s)
  BY <1>3, <1>4, <1>5 DEF Measured
<1>7. QED
  BY <1>2, <1>6 DEF s

\* The span of the candidates' tiers holds them all.
LEMMA SpanHolds ==
  ASSUME NEW req, NEW s, Measured(req, s), NEW i \in DOMAIN s
  PROVE  LET span == TierSpan(s)
         IN span.low \in Nat /\ span.high \in Nat
            /\ span.low <= s[i].in.tier /\ s[i].in.tier <= span.high
<1> DEFINE tiers == {c.in.tier : c \in ToSet(s)}
           f == [k \in DOMAIN s |-> s[k].in.tier]
<1>1. s[i].in.tier \in tiers
  BY DEF ToSet
<1>2. tiers \subseteq Nat /\ tiers \subseteq Int
  BY DEF Measured, ToSet
<1>3. tiers = ToSet(f)
  BY DEF ToSet
<1>4. IsFiniteSet(tiers)
  <2>1. IsFiniteSet(DOMAIN f)
    BY DEF Measured
  <2>2. QED
    BY <1>3, <2>1, FiniteRange
<1>5. TierSpan(s) = IF tiers = {} THEN [low |-> 0, high |-> 0] ELSE [low |-> Min(tiers), high |-> Max(tiers)]
  BY DEF TierSpan
<1> HIDE DEF tiers
<1>6. tiers # {}
  BY <1>1
<1>7. Min(tiers) \in tiers /\ \A t \in tiers : Min(tiers) <= t
  BY <1>2, <1>6, LeastOfNat
<1>8. Max(tiers) \in tiers /\ \A t \in tiers : Max(tiers) >= t
  BY <1>2, <1>4, <1>6, GreatestOfFinite
<1>9. TierSpan(s).low = Min(tiers) /\ TierSpan(s).high = Max(tiers)
  BY <1>5, <1>6
<1>10. s[i].in.tier \in Int /\ Min(tiers) \in Nat /\ Max(tiers) \in Nat
  BY <1>1, <1>2, <1>7, <1>8
<1>11. QED
  BY <1>1, <1>7, <1>8, <1>9, <1>10

\* The parts of a score besides what is left of the budgets.
TierPart(req, span, c) == IF Tiers(req) = "weighted" THEN TierScore(span, c) ELSE <<0, 1>>
AffinityPart(req, c) == IF req.routing.affinities # <<>> THEN AffinityScore(req, c) ELSE <<0, 1>>
AffinityOf(req, c) == AffinityWeight(InputAttributes(c.in, req.exec), req.routing.affinities)

\* The tiers' part of the scores: over one denominator, and less for a higher tier.
TierNumerators(req, s, x, X) ==
    /\ X \in Int /\ X > 0 /\ x \in [DOMAIN s -> Int]
    /\ \A i \in DOMAIN s : TierPart(req, TierSpan(s), s[i]) = <<x[i], X>>
    /\ \A i, k \in DOMAIN s : s[k].in.tier <= s[i].in.tier => x[i] <= x[k]
    /\ \A i, k \in DOMAIN s : Tiers(req) = "weighted" /\ x[i] = x[k] => s[i].in.tier = s[k].in.tier

\* There is such a part.
LEMMA TierParts ==
  ASSUME NEW req, NEW s, Measured(req, s)
  PROVE  \E x, X : TierNumerators(req, s, x, X)
<1> DEFINE low == TierSpan(s).low
           high == TierSpan(s).high
           tier(i) == s[i].in.tier
<1>1. \A i \in DOMAIN s : low \in Nat /\ high \in Nat /\ tier(i) \in Nat /\ low <= tier(i) /\ tier(i) <= high
  BY SpanHolds DEF Measured
<1>2. \A i \in DOMAIN s : Tiers(req) = "weighted" =>
            TierPart(req, TierSpan(s), s[i]) = IF high = low THEN <<1, 1>> ELSE <<high - tier(i), high - low>>
  BY DEF TierPart, TierScore
<1>3. \A i \in DOMAIN s : Tiers(req) # "weighted" => TierPart(req, TierSpan(s), s[i]) = <<0, 1>>
  BY DEF TierPart
<1> HIDE DEF low, high
<1>4. CASE Tiers(req) = "weighted" /\ high # low /\ DOMAIN s # {}
  <2> DEFINE x == [i \in DOMAIN s |-> high - tier(i)]
             X == high - low
  <2>1. X \in Int /\ X > 0
    BY <1>1, <1>4
  <2>2. x \in [DOMAIN s -> Int]
    BY <1>1
  <2>3. \A i \in DOMAIN s : TierPart(req, TierSpan(s), s[i]) = <<x[i], X>>
    BY <1>2, <1>4
  <2>4. ASSUME NEW i \in DOMAIN s, NEW k \in DOMAIN s
        PROVE  /\ tier(k) <= tier(i) => x[i] <= x[k]
               /\ x[i] = x[k] => tier(i) = tier(k)
    <3>1. tier(i) \in Nat /\ tier(k) \in Nat /\ high \in Nat /\ x[i] = high - tier(i) /\ x[k] = high - tier(k)
      BY <1>1
    <3> HIDE DEF tier, x
    <3>2. QED
      BY <3>1
  <2> HIDE DEF X, x
  <2>5. TierNumerators(req, s, x, X)
    BY <2>1, <2>2, <2>3, <2>4 DEF TierNumerators
  <2>6. QED
    BY <2>5
<1>5. CASE Tiers(req) = "weighted" /\ (high = low \/ DOMAIN s = {})
  <2> DEFINE x == [i \in DOMAIN s |-> 1]
  <2>1. x \in [DOMAIN s -> Int] /\ \A i \in DOMAIN s : TierPart(req, TierSpan(s), s[i]) = <<x[i], 1>>
    BY <1>2, <1>5
  <2>2. \A i, k \in DOMAIN s : tier(i) = tier(k)
    BY <1>1, <1>5
  <2>3. \A i, k \in DOMAIN s : x[i] <= x[k]
    OBVIOUS
  <2>4. 1 \in Int /\ 1 > 0
    OBVIOUS
  <2> HIDE DEF x
  <2>5. TierNumerators(req, s, x, 1)
    BY <2>1, <2>2, <2>3, <2>4 DEF TierNumerators
  <2>6. QED
    BY <2>5
<1>6. CASE Tiers(req) # "weighted"
  <2> DEFINE x == [i \in DOMAIN s |-> 0]
  <2>1. x \in [DOMAIN s -> Int] /\ \A i \in DOMAIN s : TierPart(req, TierSpan(s), s[i]) = <<x[i], 1>>
    BY <1>3, <1>6
  <2>3. \A i, k \in DOMAIN s : x[i] <= x[k]
    OBVIOUS
  <2>4. 1 \in Int /\ 1 > 0
    OBVIOUS
  <2> HIDE DEF x
  <2>5. TierNumerators(req, s, x, 1)
    BY <1>6, <2>1, <2>3, <2>4 DEF TierNumerators
  <2>6. QED
    BY <2>5
<1>7. QED
  BY <1>4, <1>5, <1>6

\* The affinities' part: over one denominator, and the weight of those that are met.
AffinityNumerators(req, s, y, Y) ==
    /\ Y \in Int /\ Y > 0 /\ y \in [DOMAIN s -> Int]
    /\ \A i \in DOMAIN s : AffinityPart(req, s[i]) = <<y[i], Y>> /\ AffinityOf(req, s[i]) = y[i]

\* There is such a part.
LEMMA AffinityParts ==
  ASSUME NEW req, Weighed(req.routing.affinities), NEW s
  PROVE  \E y, Y : AffinityNumerators(req, s, y, Y)
<1> DEFINE affinities == req.routing.affinities
           total == TotalAffinityWeight(affinities)
           y == [i \in DOMAIN s |-> AffinityOf(req, s[i])]
<1>1. total \in Nat
  BY WeightsCount
<1>2. ASSUME NEW i \in DOMAIN s
      PROVE  y[i] \in 0 .. total /\ (affinities = <<>> => y[i] = 0)
  BY WeightsCount DEF AffinityOf
<1>3. \A i \in DOMAIN s : AffinityPart(req, s[i]) =
        IF affinities # <<>> /\ total # 0 THEN <<y[i], total>> ELSE <<0, 1>>
  BY DEF AffinityPart, AffinityScore, AffinityOf
<1>4. y \in [DOMAIN s -> Int] /\ \A i \in DOMAIN s : AffinityOf(req, s[i]) = y[i]
  BY <1>1, <1>2
<1> HIDE DEF total, y, affinities
<1>5. CASE affinities # <<>> /\ total # 0
  <2>1. total \in Int /\ total > 0
    BY <1>1, <1>5
  <2>2. AffinityNumerators(req, s, y, total)
    BY <1>3, <1>4, <1>5, <2>1 DEF AffinityNumerators
  <2>3. QED
    BY <2>2
<1>6. CASE ~(affinities # <<>> /\ total # 0)
  <2>1. \A i \in DOMAIN s : y[i] = 0
    BY <1>1, <1>2, <1>6
  <2>2. \A i \in DOMAIN s : AffinityPart(req, s[i]) = <<y[i], 1>>
    BY <1>3, <1>6, <2>1
  <2>3. 1 \in Int /\ 1 > 0
    OBVIOUS
  <2>4. AffinityNumerators(req, s, y, 1)
    BY <1>4, <2>2, <2>3 DEF AffinityNumerators
  <2>5. QED
    BY <2>4
<1>7. QED
  BY <1>5, <1>6

\* One candidate is before another: by tier under strict tiers, else by score,
\* else by name.
Ahead(strict, tier, points, i, k) ==
    IF strict /\ tier[i] # tier[k] THEN tier[i] < tier[k]
    ELSE points[i] > points[k] \/ (points[i] = points[k] /\ i < k)

\* That orders them all.
LEMMA AheadOrders ==
  ASSUME NEW n \in Nat, NEW strict \in BOOLEAN, NEW tier \in [1 .. n -> Int], NEW points \in [1 .. n -> Int],
         NEW order, \A i, k \in 1 .. n : <<i, k>> \in order <=> Ahead(strict, tier, points, i, k)
  PROVE  Orders(1 .. n, order)
<1>1. \A i \in 1 .. n : i \in Int /\ tier[i] \in Int /\ points[i] \in Int
  OBVIOUS
<1>2. \A i \in 1 .. n : ~Ahead(strict, tier, points, i, i)
  BY <1>1 DEF Ahead
<1>3. \A i, k \in 1 .. n : i = k \/ Ahead(strict, tier, points, i, k) \/ Ahead(strict, tier, points, k, i)
  BY <1>1 DEF Ahead
<1>4. \A i, j, k \in 1 .. n : Ahead(strict, tier, points, i, j) /\ Ahead(strict, tier, points, j, k)
                                => Ahead(strict, tier, points, i, k)
  BY <1>1 DEF Ahead
<1>5. QED
  BY <1>2, <1>3, <1>4 DEF Orders

\* What is arranged is a sequence.
LEMMA ArrangedIs ==
  ASSUME NEW S, NEW order
  PROVE  Arranged(S, order) = [k \in 1 .. Cardinality(S) |-> Arranged(S, order)[k]]
<1> DEFINE f == Arranged(S, order)
           nth(k) == CHOOSE x \in S : Cardinality({y \in S : <<y, x>> \in order}) = k - 1
<1>1. f = [k \in 1 .. Cardinality(S) |-> nth(k)]
  BY DEF Arranged
<1> HIDE DEF f, nth
<1>2. f = [k \in 1 .. Cardinality(S) |-> f[k]]
  BY <1>1
<1>3. QED
  BY <1>2 DEF f

\* A ranking as an arrangement of candidates with these points.
RankedAs(req, s, n, points, place) ==
    /\ place \in [1 .. n -> 1 .. n]
    /\ DOMAIN Rank(req, s) = 1 .. n
    /\ \A k \in 1 .. n : /\ Rank(req, s)[k].in = s[place[k]].in
                         /\ Rank(req, s)[k].provider = s[place[k]].provider
    /\ \A i, k \in 1 .. n : i < k =>
            Ahead(Tiers(req) = "strict", [j \in 1 .. n |-> s[j].in.tier], points, place[i], place[k])

\* Ranking arranges candidates so, where their scores are numerators over one
\* denominator.
LEMMA RankArranges ==
  ASSUME NEW req, NEW s, NEW n \in Nat, DOMAIN s = 1 .. n,
         NEW D \in Int, D > 0, NEW points \in [1 .. n -> Int],
         \A i \in 1 .. n : /\ s[i].in.tier \in Nat
                           /\ Score(req, s[i], TierSpan(s)) = <<points[i], D>>
  PROVE  \E place : RankedAs(req, s, n, points, place)
<1> DEFINE S == Scored(req, s, TierSpan(s))
           T == Tiers(req)
           strict == Tiers(req) = "strict"
           tier == [j \in 1 .. n |-> s[j].in.tier]
           order == {p \in (DOMAIN S) \X (DOMAIN S) :
                        \/ Precedes(T, S[p[1]], S[p[2]])
                        \/ ~Precedes(T, S[p[2]], S[p[1]]) /\ p[1] < p[2]}
           place == Arranged(1 .. n, order)
<1>1. /\ DOMAIN S = 1 .. n
      /\ \A i \in 1 .. n : /\ S[i].in = s[i].in /\ S[i].provider = s[i].provider
                           /\ S[i].score = <<points[i], D>>
  BY DEF Scored
<1>2. Rank(req, s) = [k \in 1 .. n |-> S[place[k]]]
  BY <1>1 DEF Rank, StableSort
<1>3. tier \in [1 .. n -> Int] /\ \A i \in 1 .. n : tier[i] = s[i].in.tier
  OBVIOUS
<1>4. ASSUME NEW i \in 1 .. n, NEW k \in 1 .. n
      PROVE  Precedes(T, S[i], S[k]) <=> IF strict /\ tier[i] # tier[k] THEN tier[i] < tier[k]
                                         ELSE points[i] > points[k]
  <2>1. Higher(S[i].score, S[k].score) <=> points[i] * D > points[k] * D
    BY <1>1 DEF Higher
  <2>2. points[i] \in Int /\ points[k] \in Int
    OBVIOUS
  <2>3. points[i] * D > points[k] * D <=> points[i] > points[k]
    BY <2>2, SameScale
  <2>4. S[i].in.tier = tier[i] /\ S[k].in.tier = tier[k]
    BY <1>1, <1>3
  <2> HIDE DEF S, tier
  <2>5. QED
    BY <2>1, <2>3, <2>4 DEF Precedes
<1>5. \A i, k \in 1 .. n : <<i, k>> \in order <=> Ahead(strict, tier, points, i, k)
  <2> SUFFICES ASSUME NEW i \in 1 .. n, NEW k \in 1 .. n
               PROVE  <<i, k>> \in order <=> Ahead(strict, tier, points, i, k)
    OBVIOUS
  <2>1. <<i, k>> \in order <=> \/ Precedes(T, S[i], S[k])
                               \/ ~Precedes(T, S[k], S[i]) /\ i < k
    BY <1>1
  <2>2. /\ tier[i] \in Int /\ tier[k] \in Int /\ points[i] \in Int /\ points[k] \in Int
    BY <1>3
  <2>3. /\ Precedes(T, S[i], S[k]) <=> IF strict /\ tier[i] # tier[k] THEN tier[i] < tier[k]
                                       ELSE points[i] > points[k]
        /\ Precedes(T, S[k], S[i]) <=> IF strict /\ tier[k] # tier[i] THEN tier[k] < tier[i]
                                       ELSE points[k] > points[i]
    BY <1>4
  <2> HIDE DEF order, S, T, tier, strict
  <2>4. QED
    BY <2>1, <2>2, <2>3 DEF Ahead
<1> HIDE DEF order, S, T, tier
<1>6. strict \in BOOLEAN
  OBVIOUS
<1> HIDE DEF strict
<1>7. Orders(1 .. n, order)
  BY <1>3, <1>5, <1>6, AheadOrders
<1>8. IsFiniteSet(1 .. n) /\ Cardinality(1 .. n) = n
  <2>1. \A m \in Nat : IsFiniteSet(1 .. m) /\ Cardinality(1 .. m) = m
    BY FS_Interval
  <2>2. QED
    BY <2>1
<1>9. /\ DOMAIN place = 1 .. n
      /\ \A k \in 1 .. n : place[k] \in 1 .. n
      /\ \A i, k \in 1 .. n : i < k => <<place[i], place[k]>> \in order
  BY <1>7, <1>8, ArrangedInOrder
<1>10. place \in [1 .. n -> 1 .. n]
  <2>1. place = [k \in 1 .. n |-> place[k]]
    BY <1>8, ArrangedIs
  <2> HIDE DEF place
  <2>2. QED
    BY <1>9, <2>1
<1> HIDE DEF place
<1>11. \A k \in 1 .. n : /\ Rank(req, s)[k].in = s[place[k]].in
                         /\ Rank(req, s)[k].provider = s[place[k]].provider
  BY <1>1, <1>2, <1>9
<1>12. \A i, k \in 1 .. n : i < k => Ahead(strict, tier, points, place[i], place[k])
  BY <1>5, <1>9
<1>13. DOMAIN Rank(req, s) = 1 .. n
  BY <1>2
<1>14. RankedAs(req, s, n, points, place)
  BY <1>10, <1>11, <1>12, <1>13 DEF RankedAs, strict, tier
<1>15. QED
  BY <1>14

\* What makes a candidate's score.
LEMMA ScoreIs ==
  ASSUME NEW req, NEW c, NEW span, NEW x, NEW X, NEW y, NEW Y,
         TierPart(req, span, c) = <<x, X>>, AffinityPart(req, c) = <<y, Y>>
  PROVE  Score(req, c, span) = <<Sum3(Clamped(InputFreePercent(c.in, req.exec)), x, X, y, Y), 100 * (X * Y)>>
<1> DEFINE h == Clamped(InputFreePercent(c.in, req.exec))
<1>1. Score(req, c, span) = Plus(Headroom(req, c), Plus(TierPart(req, span, c), AffinityPart(req, c)))
  BY DEF Score, TierPart, AffinityPart
<1>2. Headroom(req, c) = <<h, 100>>
  BY DEF Headroom
<1> DEFINE a == x * Y + y * X
           b == X * Y
<1>3. Plus(<<x, X>>, <<y, Y>>) = <<a, b>>
  BY DEF Plus
<1>a. Sum3(h, x, X, y, Y) = h * b + a * 100
  BY DEF Sum3
<1> HIDE DEF h, a, b
<1>4. Plus(<<h, 100>>, <<a, b>>) = <<h * b + a * 100, 100 * b>>
  BY DEF Plus
<1>5. Score(req, c, span) = <<h * b + a * 100, 100 * b>>
  BY <1>1, <1>2, <1>3, <1>4
<1>6. QED
  BY <1>5, <1>a DEF h, b

\* What speaks for a candidate, in numbers.
LEMMA MeritsAre ==
  ASSUME NEW req, NEW c
  PROVE  Merits(req, c) = <<-c.in.tier, Clamped(InputFreePercent(c.in, req.exec)), AffinityOf(req, c)>>
<1>1. Headroom(req, c)[1] = Clamped(InputFreePercent(c.in, req.exec))
  BY DEF Headroom
<1>2. QED
  BY <1>1 DEF Merits, AffinityOf

\* No candidate stands behind one that nothing speaks for.
LEMMA RankWastesNothing ==
  ASSUME NEW req, Weighed(req.routing.affinities), Tiers(req) \in {"strict", "weighted"},
         NEW s, NEW n \in Nat, DOMAIN s = 1 .. n, Measured(req, s),
         \A i, k \in 1 .. n : i < k => Before(Text(s[i].provider), Text(s[k].provider)),
         NEW i \in DOMAIN Rank(req, s), NEW k \in DOMAIN Rank(req, s), i < k,
         AsGood(Merits(req, Rank(req, s)[k]), Merits(req, Rank(req, s)[i]))
  PROVE  /\ Merits(req, Rank(req, s)[k]) = Merits(req, Rank(req, s)[i])
         /\ Before(Text(Rank(req, s)[i].provider), Text(Rank(req, s)[k].provider))
<1> DEFINE h == [j \in 1 .. n |-> Clamped(InputFreePercent(s[j].in, req.exec))]
           tier == [j \in 1 .. n |-> s[j].in.tier]
<1>1. \A j \in 1 .. n : h[j] \in Nat /\ tier[j] \in Nat /\ s[j].in.tier \in Nat
  <2>1. ASSUME NEW j \in 1 .. n
        PROVE  h[j] \in Nat /\ tier[j] \in Nat /\ s[j].in.tier \in Nat
    <3>1. InputFreePercent(s[j].in, req.exec) \in Int /\ s[j].in.tier \in Nat
      BY DEF Measured
    <3>2. h[j] = Clamped(InputFreePercent(s[j].in, req.exec)) /\ tier[j] = s[j].in.tier
      OBVIOUS
    <3> HIDE DEF h, tier
    <3> DEFINE percent == InputFreePercent(s[j].in, req.exec)
    <3>3. percent \in Int
      BY <3>1
    <3> HIDE DEF percent
    <3>4. Clamped(percent) \in 0 .. 100
      BY <3>3, ClampedIs
    <3>5. h[j] = Clamped(percent)
      BY <3>2 DEF percent
    <3>6. h[j] \in Nat
      <4>1. \A m \in 0 .. 100 : m \in Nat
        OBVIOUS
      <4>2. Clamped(percent) \in Nat
        BY <3>4, <4>1, Zenon
      <4>3. QED
        BY <3>5, <4>2, Zenon
    <3>7. QED
      BY <3>1, <3>2, <3>6
  <2> HIDE DEF h, tier
  <2>2. QED
    BY <2>1
<1>2. PICK x, X : TierNumerators(req, s, x, X)
  BY TierParts
<1>3. /\ X \in Int /\ X > 0 /\ x \in [1 .. n -> Int]
      /\ \A j \in 1 .. n : TierPart(req, TierSpan(s), s[j]) = <<x[j], X>>
      /\ \A j, l \in 1 .. n : tier[l] <= tier[j] => x[j] <= x[l]
      /\ \A j, l \in 1 .. n : Tiers(req) = "weighted" /\ x[j] = x[l] => tier[j] = tier[l]
  BY <1>2 DEF TierNumerators
<1>4. PICK y, Y : AffinityNumerators(req, s, y, Y)
  BY AffinityParts
<1>5. /\ Y \in Int /\ Y > 0 /\ y \in [1 .. n -> Int]
      /\ \A j \in 1 .. n : AffinityPart(req, s[j]) = <<y[j], Y>> /\ AffinityOf(req, s[j]) = y[j]
  BY <1>4 DEF AffinityNumerators
<1> DEFINE points == [j \in 1 .. n |-> Sum3(h[j], x[j], X, y[j], Y)]
           D == 100 * (X * Y)
<1>6. D \in Int /\ D > 0
  <2>1. X * Y \in Int /\ X * Y > 0
    BY <1>3, <1>5, Products
  <2>2. \A a \in Int : a > 0 => 100 * a \in Int /\ 100 * a > 0
    OBVIOUS
  <2>3. QED
    BY <2>1, <2>2
<1>7. ASSUME NEW j \in 1 .. n, NEW l \in 1 .. n, h[j] <= h[l], x[j] <= x[l], y[j] <= y[l]
      PROVE  /\ points[j] <= points[l]
             /\ h[j] # h[l] \/ x[j] # x[l] \/ y[j] # y[l] => points[j] < points[l]
  <2>1. h[j] \in Int /\ h[l] \in Int /\ x[j] \in Int /\ x[l] \in Int /\ y[j] \in Int /\ y[l] \in Int
    BY <1>1, <1>3, <1>5
  <2>2. points[j] = Sum3(h[j], x[j], X, y[j], Y) /\ points[l] = Sum3(h[l], x[l], X, y[l], Y)
    OBVIOUS
  <2> HIDE DEF points, h
  <2>3. X \in Int /\ X > 0 /\ Y \in Int /\ Y > 0
    BY <1>3, <1>5
  <2>4. /\ Sum3(h[j], x[j], X, y[j], Y) <= Sum3(h[l], x[l], X, y[l], Y)
        /\ h[j] # h[l] \/ x[j] # x[l] \/ y[j] # y[l] =>
                Sum3(h[j], x[j], X, y[j], Y) < Sum3(h[l], x[l], X, y[l], Y)
    BY <1>7, <2>1, <2>3, SumGrows
  <2>5. QED
    BY <2>2, <2>4
<1>8. points \in [1 .. n -> Int]
  <2> SUFFICES ASSUME NEW j \in 1 .. n PROVE Sum3(h[j], x[j], X, y[j], Y) \in Int
    OBVIOUS
  <2>1. h[j] \in Int /\ x[j] \in Int /\ y[j] \in Int /\ h[j] <= h[j] /\ x[j] <= x[j] /\ y[j] <= y[j]
    BY <1>1, <1>3, <1>5
  <2> HIDE DEF h
  <2>2. QED
    BY <1>3, <1>5, <2>1, SumGrows
<1>9. \A j \in 1 .. n : Score(req, s[j], TierSpan(s)) = <<points[j], D>>
  BY <1>3, <1>5, ScoreIs
<1> HIDE DEF points, D
<1>10. PICK place : RankedAs(req, s, n, points, place)
  BY <1>1, <1>6, <1>8, <1>9, RankArranges
<1>a. /\ place \in [1 .. n -> 1 .. n]
      /\ DOMAIN Rank(req, s) = 1 .. n
      /\ \A j \in 1 .. n : /\ Rank(req, s)[j].in = s[place[j]].in
                           /\ Rank(req, s)[j].provider = s[place[j]].provider
      /\ \A j, l \in 1 .. n : j < l =>
              Ahead(Tiers(req) = "strict", tier, points, place[j], place[l])
  BY <1>10 DEF RankedAs
<1> DEFINE p == place[i]
           q == place[k]
<1>11. p \in 1 .. n /\ q \in 1 .. n /\ Ahead(Tiers(req) = "strict", tier, points, p, q)
  BY <1>a
<1>12. /\ Merits(req, Rank(req, s)[i]) = <<-tier[p], h[p], y[p]>>
       /\ Merits(req, Rank(req, s)[k]) = <<-tier[q], h[q], y[q]>>
       /\ Rank(req, s)[i].provider = s[p].provider /\ Rank(req, s)[k].provider = s[q].provider
  <2>1. ASSUME NEW j \in 1 .. n
        PROVE  /\ Merits(req, Rank(req, s)[j]) = <<-tier[place[j]], h[place[j]], y[place[j]]>>
               /\ Rank(req, s)[j].provider = s[place[j]].provider
    <3>1. Rank(req, s)[j].in = s[place[j]].in /\ place[j] \in 1 .. n
      BY <1>a
    <3>2. AffinityOf(req, Rank(req, s)[j]) = AffinityOf(req, s[place[j]])
      BY <3>1 DEF AffinityOf
    <3>3. AffinityOf(req, s[place[j]]) = y[place[j]]
      BY <1>5, <3>1
    <3>4. tier[place[j]] = s[place[j]].in.tier
          /\ h[place[j]] = Clamped(InputFreePercent(s[place[j]].in, req.exec))
      BY <3>1
    <3>5. Merits(req, Rank(req, s)[j]) = <<-Rank(req, s)[j].in.tier,
                Clamped(InputFreePercent(Rank(req, s)[j].in, req.exec)), AffinityOf(req, Rank(req, s)[j])>>
      BY MeritsAre
    <3> HIDE DEF tier, h
    <3>6. QED
      BY <1>a, <3>1, <3>2, <3>3, <3>4, <3>5
  <2>2. i \in 1 .. n /\ k \in 1 .. n
    BY <1>a
  <2> HIDE DEF tier, h
  <2>3. QED
    BY <2>1, <2>2
<1> HIDE DEF p, q
<1>13. tier[q] <= tier[p] /\ h[p] <= h[q] /\ y[p] <= y[q]
  <2>1. -tier[q] >= -tier[p] /\ h[q] >= h[p] /\ y[q] >= y[p]
    BY <1>12 DEF AsGood
  <2>2. tier[p] \in Int /\ tier[q] \in Int /\ h[p] \in Int /\ h[q] \in Int /\ y[p] \in Int /\ y[q] \in Int
    BY <1>1, <1>5, <1>11
  <2> HIDE DEF tier, h
  <2>3. QED
    BY <2>1, <2>2
<1>14. x[p] <= x[q]
  BY <1>3, <1>11, <1>13
<1>15. points[p] <= points[q]
       /\ (h[p] # h[q] \/ x[p] # x[q] \/ y[p] # y[q] => points[p] < points[q])
  BY <1>7, <1>11, <1>13, <1>14
<1>16. /\ points[p] \in Int /\ points[q] \in Int /\ tier[p] \in Int /\ tier[q] \in Int
       /\ p \in Int /\ q \in Int
  <2> HIDE DEF h, tier
  <2>1. tier[p] \in Nat /\ tier[q] \in Nat
    BY <1>1, <1>11
  <2>2. QED
    BY <1>8, <1>11, <2>1
<1>17. points[p] = points[q] /\ p < q /\ (Tiers(req) = "strict" => tier[p] = tier[q])
  <2> HIDE DEF tier
  <2>1. QED
    BY <1>11, <1>13, <1>15, <1>16 DEF Ahead
<1>18. h[p] = h[q] /\ x[p] = x[q] /\ y[p] = y[q]
  <2> HIDE DEF h
  <2>1. QED
    BY <1>15, <1>16, <1>17
<1>19. tier[p] = tier[q]
  BY <1>3, <1>11, <1>17, <1>18
<1>20. QED
  BY <1>11, <1>12, <1>17, <1>18, <1>19

\* Every task that is judged has its candidates ranked so.
LEMMA HeldShows == HeldInv => NoneDominated
<1> SUFFICES ASSUME HeldInv, NEW c \in Client, NEW req \in Judged(c),
                    NEW i \in DOMAIN PlanTask(req, InputsFor(c)).ranking,
                    NEW k \in DOMAIN PlanTask(req, InputsFor(c)).ranking, i < k,
                    AsGood(Merits(req, PlanTask(req, InputsFor(c)).ranking[k]),
                           Merits(req, PlanTask(req, InputsFor(c)).ranking[i]))
             PROVE  /\ Merits(req, PlanTask(req, InputsFor(c)).ranking[k])
                         = Merits(req, PlanTask(req, InputsFor(c)).ranking[i])
                    /\ Before(Text(PlanTask(req, InputsFor(c)).ranking[i].provider),
                              Text(PlanTask(req, InputsFor(c)).ranking[k].provider))
  BY DEF NoneDominated
<1>1. PICK ns : InputsFor(c) = Inputs(ns)
  BY DEF InputsFor
<1> DEFINE s == Admit(req, Inputs(ns)).candidates
<1>2. PlanTask(req, InputsFor(c)).ranking = Rank(req, s)
  BY <1>1 DEF PlanTask, Decision
<1>3. /\ Measured(req, s)
      /\ \E n \in Nat : DOMAIN s = 1 .. n
      /\ \A j, l \in DOMAIN s : j < l => Before(Text(s[j].provider), Text(s[l].provider))
  BY CandidatesMeasured DEF HeldInv
<1>4. Weighed(req.routing.affinities) /\ Tiers(req) \in {"strict", "weighted"}
  BY JudgedIs
<1> HIDE DEF s
<1>5. PICK n \in Nat : DOMAIN s = 1 .. n
  BY <1>3
<1>6. QED
  BY <1>2, <1>3, <1>4, <1>5, RankWastesNothing

\* No candidate is tried before a better one, and equal ones are tried in name
\* order, whatever the configuration, the budgets, the affinities and the jobs.
THEOREM NoneDominatedAlways == Spec => []NoneDominated
  BY InitHeld, NextHeld, HeldShows, PTL DEF Spec
=============================================================================
