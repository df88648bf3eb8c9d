------------------------------ MODULE JobSpec ------------------------------
(***************************************************************************)
(* What a job file must be to be registered, planned or run, and what its  *)
(* metadata does to it. A document has been parsed as HCL; what it says of *)
(* an attribute is an expression, and what it may leave out is a set of at *)
(* most one of them. A document is the sequence of its job blocks,         *)
(*   [name, namespace, type, meta, parameterized, routing, tasks]          *)
(* parameterized a set of at most one [required, optional], two sets of    *)
(* keys, and metadata is a function from keys to texts. Texts are values   *)
(* of module Attributes; one that names an attribute is                    *)
(* Word("attribute", the name).                                            *)
(***************************************************************************)
EXTENDS Scheduler

\* What an expression comes to with metadata, be it a literal, a reference, a
\* template or a condition: <<"text", value>> where it is a string, a number or
\* a flag, <<"list", texts>>, <<"null">>, <<"object">> for what no attribute
\* here takes, and <<"error">>, as for a reference to what was not supplied.
CONSTANT Value(_, _)

Exprs(block) == {block[name] : name \in DOMAIN block}

-----------------------------------------------------------------------------
(* What an attribute of some type accepts. A null counts as left out.      *)

Evaluates(expr, meta) == Value(expr, meta)[1] # "error"
IsText(expr, meta) == Value(expr, meta)[1] \in {"text", "null"}
IsList(expr, meta) == Value(expr, meta)[1] \in {"list", "null"}

\* Where there is nothing for a null to leave out.
AreTexts(exprs, meta) == \A e \in exprs : Value(e, meta)[1] = "text"

TextOf(exprs, meta) ==
    {v[2] : v \in {o \in {Value(e, meta) : e \in exprs} : o[1] = "text"}}

IntegerText(t) == ReadsAsInteger(t) /\ t[1][2] \in Int
FlagText(t) == t \in {Flag(TRUE), Flag(FALSE)}

IsInteger(expr, meta) == IsText(expr, meta) /\ \A t \in TextOf({expr}, meta) : IntegerText(t)
IsFlag(expr, meta) == IsText(expr, meta) /\ \A t \in TextOf({expr}, meta) : FlagText(t)

\* A text as a name: one that is no plain word is in no vocabulary.
NameOf(t) == IF Len(t) = 1 /\ t[1][1] \in {"text", "attribute"} THEN t[1][2] ELSE ","

NamesOf(exprs, meta) == {NameOf(t) : t \in TextOf(exprs, meta)}
IntegersOf(exprs, meta) == {t[1][2] : t \in {x \in TextOf(exprs, meta) : IntegerText(x)}}
FlagsOf(exprs, meta) == {t = Flag(TRUE) : t \in TextOf(exprs, meta)}

ListOf(exprs, meta) ==
    LET lists == {v[2] : v \in {o \in {Value(e, meta) : e \in exprs} : o[1] = "list"}}
        texts == Given(lists, <<>>)
    IN [i \in DOMAIN texts |-> NameOf(texts[i])]

-----------------------------------------------------------------------------
(* Metadata: what a submission may and must supply. *)

\* Keys of every parameterized job block must be supplied.
RequiredMeta(doc) ==
    UNION {p.required : p \in UNION {doc[i].parameterized : i \in DOMAIN doc}}

MissingMeta(doc, meta) == RequiredMeta(doc) \ DOMAIN meta

\* The first job's declaration, read before anything is evaluated.
Declared(doc) == IF doc = <<>> THEN {} ELSE doc[1].parameterized

\* Every declared key standing as its own text, for a registration.
References(declared) ==
    [key \in UNION {p.required \cup p.optional : p \in declared} |-> Word("reference", key)]

\* A dispatch supplies nothing to a job that is not parameterized, and
\* otherwise what is declared and all that is required.
CheckDispatch(declared, meta) ==
    IF declared = {} THEN DOMAIN meta = {}
    ELSE \A p \in declared : /\ DOMAIN meta \subseteq p.required \cup p.optional
                             /\ p.required \subseteq DOMAIN meta

-----------------------------------------------------------------------------
(* Parsing. *)

\* Blocks left for the driver are evaluated too, so that a misspelled
\* reference fails here. A list is legal in a config and not in an env.
CheckReferences(task, meta) ==
    /\ \A config \in task.config :
        ~config.nested => \A e \in Exprs(config.attrs) : Evaluates(e, meta)
    /\ \A e \in Exprs(task.env) : IsText(e, meta)

CheckConfigBlocks(task) == \A config \in task.config : ~config.nested

\* Every attribute that has a type is evaluated with the metadata and has to
\* convert to it.
DecodesComparison(c, meta) ==
    /\ c.attribute # {} /\ c.operator # {}
    /\ AreTexts(c.attribute \cup c.operator \cup c.value, meta)

DecodesRouting(routing, meta) ==
    /\ \A e \in routing.strategy \cup routing.tiers : IsText(e, meta)
    /\ \A e \in routing.providers : IsList(e, meta)
    /\ \A e \in routing.maxCost : IsInteger(e, meta)
    /\ \A c \in ToSet(routing.constraints) \cup ToSet(routing.affinities) : DecodesComparison(c, meta)
    /\ \A a \in ToSet(routing.affinities) : \A e \in a.weight : IsInteger(e, meta)

DecodesRetry(retry, meta) ==
    /\ \A e \in retry.attempts : IsInteger(e, meta)
    /\ \A e \in retry.reroute : IsFlag(e, meta)
    /\ \A e \in retry.initial \cup retry.max : IsText(e, meta)

DecodesTask(task, meta) ==
    /\ task.driver # {} /\ AreTexts(task.driver, meta)
    /\ \A e \in task.arch \cup task.timeout \cup task.paths : IsText(e, meta)
    /\ \A e \in task.cpu \cup task.memory : IsInteger(e, meta)
    /\ \A e \in task.internet \cup task.private \cup task.privileged : IsFlag(e, meta)
    /\ \A retry \in task.retry : DecodesRetry(retry, meta)

Decodes(job, meta) ==
    /\ \A e \in job.namespace \cup job.type : IsText(e, meta)
    /\ DecodesRouting(job.routing, meta)
    /\ \A task \in ToSet(job.tasks) : DecodesTask(task, meta)

Parses(doc, meta) ==
    /\ MissingMeta(doc, meta) = {}
    /\ \A i \in DOMAIN doc :
        /\ Decodes(doc[i], meta)
        /\ \A e \in Exprs(doc[i].meta) : IsText(e, meta)
        /\ \A k \in DOMAIN doc[i].tasks :
            /\ CheckConfigBlocks(doc[i].tasks[k])
            /\ CheckReferences(doc[i].tasks[k], meta)

\* A comparison without a value compares with the empty text.
BindComparison(c, meta) ==
    [c EXCEPT !.attribute = Given(NamesOf(@, meta), ""),
              !.operator = Given(NamesOf(@, meta), ""),
              !.value = Given(TextOf(@, meta), NoText)]

BindAffinity(a, meta) == [BindComparison(a, meta) EXCEPT !.weight = IntegersOf(@, meta)]

BindRouting(routing, meta) ==
    [routing EXCEPT
        !.strategy = NamesOf(@, meta),
        !.tiers = NamesOf(@, meta),
        !.providers = ListOf(@, meta),
        !.maxCost = IntegersOf(@, meta),
        !.constraints = [i \in DOMAIN @ |-> BindComparison(@[i], meta)],
        !.affinities = [i \in DOMAIN @ |-> BindAffinity(@[i], meta)]]

BindRetry(retry, meta) ==
    [attempts |-> IntegersOf(retry.attempts, meta), initial |-> TextOf(retry.initial, meta),
     max |-> TextOf(retry.max, meta)]

BindTask(task, meta) ==
    [task EXCEPT
        !.driver = Given(NamesOf(@, meta), ""),
        !.arch = NamesOf(@, meta),
        !.cpu = IntegersOf(@, meta),
        !.memory = IntegersOf(@, meta),
        !.internet = FlagsOf(@, meta),
        !.private = FlagsOf(@, meta),
        !.timeout = TextOf(@, meta),
        !.retry = {BindRetry(retry, meta) : retry \in @}]

\* A job with its typed attributes evaluated.
Bind(job, meta) ==
    [job EXCEPT
        !.namespace = NamesOf(@, meta),
        !.type = NamesOf(@, meta),
        !.routing = BindRouting(@, meta),
        !.tasks = [i \in DOMAIN @ |-> BindTask(@[i], meta)]]

-----------------------------------------------------------------------------
(* What a parse comes to, whatever the source. *)

IsRouting(routing) ==
    /\ {"strategy", "tiers", "providers", "maxCost", "constraints", "affinities"} \subseteq DOMAIN routing
    /\ IsSequence(routing.constraints) /\ IsSequence(routing.affinities)
    /\ \A c \in ToSet(routing.constraints) : {"attribute", "operator", "value"} \subseteq DOMAIN c
    /\ \A a \in ToSet(routing.affinities) : {"attribute", "operator", "value", "weight"} \subseteq DOMAIN a

\* paths are the working directory and what a source block says.
IsTask(task) ==
    /\ {"name", "driver", "arch", "cpu", "memory", "internet", "private", "privileged",
        "timeout", "retry", "paths", "config", "env"} \subseteq DOMAIN task
    /\ \A retry \in task.retry : {"attempts", "reroute", "initial", "max"} \subseteq DOMAIN retry

\* Blocks, with everything they may hold.
IsDocument(doc) ==
    /\ IsSequence(doc)
    /\ \A job \in ToSet(doc) :
        /\ {"name", "namespace", "type", "meta", "parameterized", "routing", "tasks"} \subseteq DOMAIN job
        /\ IsRouting(job.routing)
        /\ IsSequence(job.tasks) /\ \A task \in ToSet(job.tasks) : IsTask(task)

-----------------------------------------------------------------------------
(* Validation, of a job whose attributes are evaluated. *)

JobTypes == {"batch"}
DriverNames == {"container", "function", "worker"}
Architectures == {"amd64", "arm64"}
Strategies == {"free-first"}
TierModes == {"strict", "weighted"}

ValidComparison(c) ==
    /\ Matchable(c.attribute)
    /\ c.operator \in Operators
    /\ (c.operator \in PresenceOperators) <=> (c.value = NoText)

ValidRouting(routing) ==
    /\ routing.strategy \subseteq Strategies
    /\ routing.tiers \subseteq TierModes
    /\ \A c \in ToSet(routing.constraints) \cup ToSet(routing.affinities) : ValidComparison(c)
    /\ \A a \in ToSet(routing.affinities) : \A w \in a.weight : w > 0

\* A container task names an image, whatever its expression is.
ValidConfig(task) ==
    task.driver = "container" =>
        \E config \in task.config : ~config.nested /\ "image" \in DOMAIN config.attrs

\* A timeout of zero bounds nothing.
ValidTimeout(task) ==
    \A t \in task.timeout : Std(t) /\ t[1][2] # 0

\* Retries: [attempts, initial, max], the last two of the backoff.
ValidRetry(retry) ==
    /\ \A n \in retry.attempts : n >= 0
    /\ \A d \in retry.initial \cup retry.max : Std(d)
    /\ \A i \in retry.initial, m \in retry.max : m[1][2] >= i[1][2]

ValidTask(task) ==
    /\ task.name # ""
    /\ task.driver \in DriverNames
    /\ ValidConfig(task)
    /\ task.arch \subseteq Architectures
    /\ \A n \in task.cpu \cup task.memory : n > 0
    /\ ValidTimeout(task)
    /\ \A retry \in task.retry : ValidRetry(retry)

ValidTasks(tasks) ==
    /\ tasks # <<>>
    /\ \A i, k \in DOMAIN tasks : tasks[i].name = tasks[k].name => i = k
    /\ \A i \in DOMAIN tasks : ValidTask(tasks[i])

ValidJob(job) ==
    /\ job.name # ""
    /\ "" \notin job.namespace
    /\ job.type \subseteq JobTypes
    /\ ValidRouting(job.routing)
    /\ ValidTasks(job.tasks)

Validate(doc) == Len(doc) = 1 /\ ValidJob(doc[1])

-----------------------------------------------------------------------------
(* Loading. *)

Load(doc, meta) ==
    Parses(doc, meta) /\ Validate([i \in DOMAIN doc |-> Bind(doc[i], meta)])

\* Mutant: a registration is parsed and not validated.
ForRegisterParsed(doc) == Parses(doc, References(Declared(doc)))

\* The values arrive at dispatch; until then each key stands as its own text.
ForRegister(doc) == Load(doc, References(Declared(doc)))

ForDispatch(doc, meta) == CheckDispatch(Declared(doc), meta) /\ Load(doc, meta)

\* The job's own namespace, else the one requested ("" for none), else the
\* default; none where the two differ or nobody declared it.
NamespaceOf(requested, job, declared) ==
    LET named == Given(job.namespace, IF requested = "" THEN "default" ELSE requested)
    IN {ns \in {named} : /\ requested \in {"", named}
                         /\ ns \in declared \cup {"default"}}

\* The image a task names, the empty text where it names none: none at all
\* where the expression is no text.
Image(task, meta) ==
    LET images == {config.attrs["image"] : config \in
                        {c \in task.config : "image" \in DOMAIN c.attrs}}
    IN IF \E e \in images : ~IsText(e, meta) THEN {}
       ELSE {Given(TextOf(images, meta), NoText)}

\* Task i's request to the scheduler; none where its image is no text.
RequestFor(job, i, meta, tiers) ==
    {NewRequest(job.tasks[i], job.routing, tiers, image) : image \in Image(job.tasks[i], meta)}
=============================================================================
