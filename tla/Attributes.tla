---------------------------- MODULE Attributes ----------------------------
(***************************************************************************)
(* The dotted attributes a provider publishes and the constraints and      *)
(* affinities a job states about them. A value is text; what comparisons   *)
(* tell apart is how it reads, so a value is the sequence of the words     *)
(* between its commas and a word is <<reading, what it reads as>>:         *)
(*   <<"duration", milliseconds>>  <<"integer", n>>  <<"float", tenths>>   *)
(*   <<"text", the text>>                                                  *)
(***************************************************************************)
EXTENDS Integers, Sequences, FiniteSets, FiniteSetsExt, SequencesExt

CONSTANT Before(_, _)  \* the first value precedes the second in byte order

Word(reading, n) == <<<<reading, n>>>>
Integer(n) == Word("integer", n)
Text(t) == Word("text", t)
NoText == Text("")

-----------------------------------------------------------------------------
(* Names: <<prefix, the rest>>. *)

Published(name) == <<"provider.", name>>
Tag(name) == <<"provider.meta.", name>>
Label(name) == <<"node.label.", name>>

KnownAttributes ==
    {Published(name) : name \in
        {"architecture", "drivers", "max_duration", "max_cpu", "max_memory",
         "internet", "private_network", "arbitrary_images", "estimated_cost",
         "free_quota_percent", "tier"}}

Matchable(name) ==
    name[1] \in {"provider.meta.", "node.label."} \/ name \in KnownAttributes

\* The value under a name some pairs of <<name, value>> publish.
Publishing(pairs) ==
    [name \in {p[1] : p \in pairs} |->
        CHOOSE v \in {p[2] : p \in {q \in pairs : q[1] = name}} : TRUE]

Flag(b) == IF b THEN Text("true") ELSE Text("false")

\* What a capability snapshot says of itself. A limit nobody advertised is
\* left out; a cost is published at zero too.
CapabilityAttributes(c) ==
    {<<Published("internet"), Flag(c.internet)>>,
     <<Published("private_network"), Flag(c.private)>>,
     <<Published("arbitrary_images"), Flag(c.images)>>,
     <<Published("estimated_cost"), Integer(c.cost)>>}
    \cup {<<Published("architecture"), [i \in DOMAIN c.archs |-> <<"text", c.archs[i]>>]>> :
            x \in {y \in {c} : y.archs # <<>>}}
    \cup {<<Published("drivers"), [i \in DOMAIN c.drivers |-> <<"text", c.drivers[i]>>]>> :
            x \in {y \in {c} : y.drivers # <<>>}}
    \cup {<<Published("max_duration"), Word("duration", c.maxDuration)>> :
            x \in {y \in {c} : y.maxDuration > 0}}
    \cup {<<Published("max_cpu"), Integer(n)>> : n \in c.maxCPU}
    \cup {<<Published("max_memory"), Integer(n)>> : n \in c.maxMemory}

-----------------------------------------------------------------------------
(* One comparison. *)

\* The readings a comparison tries, in order. Both sides must read.
ReadsAsDuration(v) == Len(v) = 1 /\ (v[1][1] = "duration" \/ v = Integer(0))
ReadsAsInteger(v) == Len(v) = 1 /\ v[1][1] = "integer"
ReadsAsFloat(v) == Len(v) = 1 /\ v[1][1] \in {"integer", "float"}

Tenths(v) == IF v[1][1] = "integer" THEN 10 * v[1][2] ELSE v[1][2]

Sign(n) == IF n < 0 THEN -1 ELSE IF n > 0 THEN 1 ELSE 0

\* -1, 0 or 1 as got is below, at or above want.
Compare(got, want) ==
    CASE (ReadsAsDuration(got) /\ ReadsAsDuration(want))
         \/ (ReadsAsInteger(got) /\ ReadsAsInteger(want)) -> Sign(got[1][2] - want[1][2])
      [] ReadsAsFloat(got) /\ ReadsAsFloat(want) -> Sign(Tenths(got) - Tenths(want))
      [] OTHER -> IF got = want THEN 0 ELSE IF Before(got, want) THEN -1 ELSE 1

Ordered(op, cmp) ==
    CASE op = "<" -> cmp < 0
      [] op = "<=" -> cmp <= 0
      [] op = ">" -> cmp > 0
      [] op = ">=" -> cmp >= 0

\* A word of a comma-separated value; one that holds a comma is never one.
SetContains(got, want) == Len(want) = 1 /\ want[1] \in ToSet(got)

Operators == {"=", "!=", "<", "<=", ">", ">=", "set_contains", "is_set", "is_not_set"}
PresenceOperators == {"is_set", "is_not_set"}

\* What is absent is not equal to anything but the empty text, and every
\* operator that needs a value to compare fails without one.
Match(attrs, c) ==
    LET found == c.attribute \in DOMAIN attrs
        got == IF found THEN attrs[c.attribute] ELSE NoText
    IN CASE c.operator = "is_set" -> found
         [] c.operator = "is_not_set" -> ~found
         [] c.operator = "!=" -> got # c.value
         [] c.operator = "=" -> found /\ got = c.value
         [] c.operator = "set_contains" -> found /\ SetContains(got, c.value)
         [] OTHER -> found /\ Ordered(c.operator, Compare(got, c.value))

-----------------------------------------------------------------------------
(* Constraints decide, affinities weigh. *)

UnmatchedConstraints(attrs, constraints) ==
    {c \in ToSet(constraints) : ~Match(attrs, c)}

UnknownAttributes(constraints, affinities) ==
    {c \in ToSet(constraints) \cup ToSet(affinities) : ~Matchable(c.attribute)}

\* An affinity's weight is a set of at most one number: none is half the most.
DefaultAffinityWeight == 50

WeightOf(a) == IF a.weight = {} THEN DefaultAffinityWeight ELSE CHOOSE w \in a.weight : TRUE

\* An affinity of some weight is worth that many points.
Points(affinities, places) == UNION {{i} \X (1 .. WeightOf(affinities[i])) : i \in places}

TotalAffinityWeight(affinities) == Cardinality(Points(affinities, DOMAIN affinities))

AffinityWeight(attrs, affinities) ==
    Cardinality(Points(affinities, {i \in DOMAIN affinities : Match(attrs, affinities[i])}))
=============================================================================
