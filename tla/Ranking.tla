------------------------------ MODULE Ranking ------------------------------
(***************************************************************************)
(* The order in which a task's candidates are tried, best first. A score   *)
(* is the mean of up to three parts, each from 0 to 1: what is left of the *)
(* budgets, the tier, the affinities met. The parts are fractions, and one *)
(* request gives every candidate the same parts, so scores compare as the  *)
(* sums of their numerators over one common denominator. (The code adds    *)
(* floats: candidates whose exact scores are equal may differ there in the *)
(* last bit.)                                                              *)
(***************************************************************************)
EXTENDS Scheduler

\* The lowest and the highest tier among the candidates.
TierSpan(candidates) ==
    LET tiers == {c.in.tier : c \in ToSet(candidates)}
    IN IF tiers = {} THEN [low |-> 0, high |-> 0]
       ELSE [low |-> Min(tiers), high |-> Max(tiers)]

\* Each part as <<numerator, denominator>>.
Clamped(percent) == Max({0, Min({100, percent})})

Headroom(req, c) == <<Clamped(InputFreePercent(c.in, req.exec)), 100>>

\* Mutant: the dearest tier scores best.
TierScoreUpward(span, c) ==
    IF span.high = span.low THEN <<1, 1>> ELSE <<c.in.tier - span.low, span.high - span.low>>

TierScore(span, c) ==
    IF span.high = span.low THEN <<1, 1>> ELSE <<span.high - c.in.tier, span.high - span.low>>

AffinityScore(req, c) ==
    LET total == TotalAffinityWeight(req.routing.affinities)
    IN IF total = 0 THEN <<0, 1>>
       ELSE <<AffinityWeight(InputAttributes(c.in, req.exec), req.routing.affinities), total>>

Plus(a, b) == <<a[1] * b[2] + b[1] * a[2], a[2] * b[2]>>

\* Only weighted tiers score, and only stated preferences.
Score(req, c, span) ==
    LET tier == IF Tiers(req) = "weighted" THEN TierScore(span, c) ELSE <<0, 1>>
        affinity == IF req.routing.affinities # <<>> THEN AffinityScore(req, c) ELSE <<0, 1>>
    IN Plus(Headroom(req, c), Plus(tier, affinity))

Higher(a, b) == a[1] * b[2] > b[1] * a[2]

Scored(req, candidates, span) ==
    [i \in DOMAIN candidates |->
        [provider |-> candidates[i].provider, in |-> candidates[i].in,
         members |-> candidates[i].members, score |-> Score(req, candidates[i], span)]]

\* Under strict tiers a lower tier comes first and scores order within one.
Precedes(tiers, a, b) ==
    IF tiers = "strict" /\ a.in.tier # b.in.tier
    THEN a.in.tier < b.in.tier
    ELSE Higher(a.score, b.score)

\* Equal standings keep the order of admission, by name.
Rank(req, candidates) ==
    StableSort(Scored(req, candidates, TierSpan(candidates)),
               LAMBDA a, b : Precedes(Tiers(req), a, b))

\* Where one task would run and why not elsewhere.
Decision(req, result) ==
    [ranking |-> Rank(req, result.candidates), rejections |-> result.rejections,
     retryable |-> Retryable(result), tiers |-> Tiers(req)]

PlanTask(req, inputs) == Decision(req, Admit(req, inputs))
=============================================================================
