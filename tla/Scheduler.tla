----------------------------- MODULE Scheduler -----------------------------
(***************************************************************************)
(* Where a task may run and in which order: admission judges every         *)
(* provider with every check, ranking orders those admitted. Both are      *)
(* functions of values gathered beforehand.                                *)
(*                                                                         *)
(* What a task, a routing or a provider may leave out is a set of at most  *)
(* one value. An input is what admission knows of a provider:              *)
(*   [provider, caps, limits, usage, share, shareUsage, tags, labels,      *)
(*    tier, enabled, healthy]                                              *)
(* and caps the last it advertised:                                        *)
(*   [drivers, archs, maxCPU, maxMemory, maxDuration, defaultCPU,          *)
(*    defaultMemory, internet, private, images, cost, members]             *)
(* maxDuration 0 is none. A member of a pool is [name, caps, labels].      *)
(***************************************************************************)
EXTENDS Quota, Attributes

Given(option, default) == IF option = {} THEN default ELSE CHOOSE x \in option : TRUE

IsSequence(s) == s \in Seq(ToSet(s))

\* A provider nothing is known about advertises nothing.
NoCapabilities ==
    [drivers |-> <<>>, archs |-> <<>>, maxCPU |-> {}, maxMemory |-> {},
     maxDuration |-> 0, defaultCPU |-> 0, defaultMemory |-> 0,
     internet |-> FALSE, private |-> FALSE, images |-> FALSE, cost |-> 0,
     members |-> <<>>]

\* The members of a finite set in an order given by its pairs: each comes after
\* as many as there are before it.
Arranged(S, order) ==
    [k \in 1 .. Cardinality(S) |->
        CHOOSE x \in S : Cardinality({y \in S : <<y, x>> \in order}) = k - 1]

\* Stable: elements neither of which precedes the other keep their order.
StableSort(s, Precedes(_, _)) ==
    LET places == Arranged(DOMAIN s, {p \in (DOMAIN s) \X (DOMAIN s) :
                    \/ Precedes(s[p[1]], s[p[2]])
                    \/ ~Precedes(s[p[2]], s[p[1]]) /\ p[1] < p[2]})
    IN [k \in DOMAIN s |-> s[places[k]]]

\* In name order. No two providers have the same name.
ByProvider(S) ==
    Arranged(S, {p \in S \X S : Before(Text(p[1].provider), Text(p[2].provider))})

-----------------------------------------------------------------------------
(* Requests: one task and the policy on where it may run.                  *)

\* A duration is text; one that does not parse, or is negative, counts as none.
Std(v) == ReadsAsDuration(v) /\ v[1][2] >= 0
Timeouts(task) == {t[1][2] : t \in {v \in task.timeout : Std(v)}}

ExecutionOf(task) ==
    [cpu |-> Given(task.cpu, 0), memory |-> Given(task.memory, 0),
     millis |-> Given(Timeouts(task), 0)]

\* image is the empty text for a task that names none.
NewRequest(task, routing, tiers, image) ==
    [task |-> task, routing |-> routing, image |-> image,
     exec |-> ExecutionOf(task), serverTiers |-> tiers]

MaxCost(req) == Given(req.routing.maxCost, 0)
WillPay(req) == MaxCost(req) > 0

\* The job's own mode, else the server's ("" for none), else strict.
Tiers(req) ==
    Given(req.routing.tiers, IF req.serverTiers # "" THEN req.serverTiers ELSE "strict")

-----------------------------------------------------------------------------
(* What a provider publishes to this task. *)

\* Mutant: a share is set against what the whole provider was charged.
InputFreeOfTotal(in, e) ==
    Min({FreePercent(in.limits, in.usage, e), FreePercent(in.share, in.usage, e)})

InputFreePercent(in, e) ==
    Min({FreePercent(in.limits, in.usage, e), FreePercent(in.share, in.shareUsage, e)})

InputAttributes(in, e) ==
    Publishing(CapabilityAttributes(in.caps)
        \cup {<<Published("free_quota_percent"), Integer(InputFreePercent(in, e))>>,
              <<Published("tier"), Integer(in.tier)>>}
        \cup {<<Tag(name), in.tags[name]>> : name \in DOMAIN in.tags}
        \cup {<<Label(name), in.labels[name]>> : name \in DOMAIN in.labels})

\* The size a task runs at here: what it declared, or the provider's default.
Sized(caps, e) ==
    [cpu |-> IF e.cpu = 0 THEN caps.defaultCPU ELSE e.cpu,
     memory |-> IF e.memory = 0 THEN caps.defaultMemory ELSE e.memory]

-----------------------------------------------------------------------------
(* Admission. *)

\* Mutant: health is looked at with quota, after what it explains.
CheckersHealthLate ==
    <<"not-allowlisted", "cost-policy", "provider-disabled",
      "driver-unsupported", "arch-unsupported", "image-unsupported",
      "network-unsupported", "resources-exceeded", "duration-exceeded",
      "attribute-unknown", "constraint-unmet", "provider-unhealthy", "quota-exhausted">>

\* Policy first, then whether anything is known of the provider, then what can
\* not be, then what there is no room for.
Checkers ==
    <<"not-allowlisted", "cost-policy", "provider-disabled", "provider-unhealthy",
      "driver-unsupported", "arch-unsupported", "image-unsupported",
      "network-unsupported", "resources-exceeded", "duration-exceeded",
      "attribute-unknown", "constraint-unmet", "quota-exhausted">>

Mismatches == {"driver-unsupported", "arch-unsupported", "image-unsupported",
               "network-unsupported", "resources-exceeded", "duration-exceeded",
               "attribute-unknown", "constraint-unmet"}

\* Mutant: a budget that is used up is final.
TransientButQuota == {"provider-disabled", "provider-unhealthy"}

TransientReasons == {"quota-exhausted", "provider-disabled", "provider-unhealthy"}

NotAllowed(req, in) ==
    req.routing.providers # <<>> /\ in.provider \notin ToSet(req.routing.providers)

TooDear(req, in) == in.caps.cost > MaxCost(req)

LacksDriver(req, in) == req.task.driver \notin ToSet(in.caps.drivers)

\* A task that names no architecture runs on any.
LacksArch(req, in) == ~(req.task.arch \subseteq ToSet(in.caps.archs))

RefusesImage(req, in) == req.image # NoText /\ ~in.caps.images

\* Only an explicit true is a requirement.
Unreachable(req, in) ==
    \/ TRUE \in req.task.internet /\ ~in.caps.internet
    \/ TRUE \in req.task.private /\ ~in.caps.private

\* No limit admits any size, and a limit of zero none.
TooBig(req, in) ==
    \/ \E limit \in in.caps.maxCPU : Sized(in.caps, req.exec).cpu > limit
    \/ \E limit \in in.caps.maxMemory : Sized(in.caps, req.exec).memory > limit

TooLong(req, in) ==
    in.caps.maxDuration # 0 /\ \E t \in Timeouts(req.task) : t > in.caps.maxDuration

NamesUnknown(req) == UnknownAttributes(req.routing.constraints, req.routing.affinities) # {}

Unmet(req, in) ==
    UnmatchedConstraints(InputAttributes(in, req.exec), req.routing.constraints) # {}

\* The provider's total, then the namespace's share of it.
Exhausted(req, in) ==
    ~WillPay(req) /\ ~(/\ Within(in.limits, in.usage, req.exec)
                       /\ Within(in.share, in.shareUsage, req.exec))

Fails(reason, req, in) ==
    CASE reason = "not-allowlisted" -> NotAllowed(req, in)
      [] reason = "cost-policy" -> TooDear(req, in)
      [] reason = "provider-disabled" -> ~in.enabled
      [] reason = "provider-unhealthy" -> ~in.healthy
      [] reason = "driver-unsupported" -> LacksDriver(req, in)
      [] reason = "arch-unsupported" -> LacksArch(req, in)
      [] reason = "image-unsupported" -> RefusesImage(req, in)
      [] reason = "network-unsupported" -> Unreachable(req, in)
      [] reason = "resources-exceeded" -> TooBig(req, in)
      [] reason = "duration-exceeded" -> TooLong(req, in)
      [] reason = "attribute-unknown" -> NamesUnknown(req)
      [] reason = "constraint-unmet" -> Unmet(req, in)
      [] reason = "quota-exhausted" -> Exhausted(req, in)

\* Every reason a provider is refused for.
AdmitOne(req, in) == {reason \in ToSet(Checkers) : Fails(reason, req, in)}

\* The one that is shown: its check runs before the others'.
FirstReason(reasons) == Checkers[Min({k \in DOMAIN Checkers : Checkers[k] \in reasons})]

\* A member judged as if it were the whole provider, with the pool's quota,
\* tags, health and allowlist.
As(in, member) == [in EXCEPT !.caps = member.caps, !.labels = member.labels]

\* The first of the refusals with the fewest reasons.
Closest(refusals) ==
    LET fewest == Min({Cardinality(refusals[i]) : i \in DOMAIN refusals})
    IN refusals[Min({i \in DOMAIN refusals : Cardinality(refusals[i]) = fewest})]

\* What is judged of a provider: its members, or itself.
Units(in) ==
    IF in.caps.members # <<>> THEN in.caps.members
    ELSE <<[name |-> "", caps |-> in.caps, labels |-> in.labels]>>

\* A pool is admitted when one of its members is, on its own.
Verdict(in, units, reasons) ==
    [provider |-> in.provider, in |-> in,
     members |-> SelectSeq([i \in DOMAIN units |-> IF reasons[i] = {} THEN units[i].name ELSE ""],
                           LAMBDA name : name # ""),
     reasons |-> IF {} \in ToSet(reasons) THEN {} ELSE Closest(reasons)]

AdmitProvider(req, in) ==
    Verdict(in, Units(in), [i \in DOMAIN Units(in) |-> AdmitOne(req, As(in, Units(in)[i]))])

Sifted(judged) ==
    [candidates |-> ByProvider({v \in judged : v.reasons = {}}),
     rejections |-> ByProvider({v \in judged : v.reasons # {}})]

Admit(req, inputs) == Sifted({AdmitProvider(req, in) : in \in ToSet(inputs)})

Admitted(result) == result.candidates # <<>>

\* Admitted nowhere, and one provider's first reason may pass.
Retryable(result) ==
    /\ ~Admitted(result)
    /\ \E r \in ToSet(result.rejections) : FirstReason(r.reasons) \in TransientReasons
=============================================================================
