------------------------------- MODULE Quota -------------------------------
(***************************************************************************)
(* Free-tier budgets as the scheduler and the ledger read them: what an    *)
(* execution charges a pool, which budgets compile, and what is left of    *)
(* them. Sizes and limits are in the counters' base units, as in the code: *)
(* MiB-milliseconds, millicore-milliseconds, milliseconds.                 *)
(***************************************************************************)
EXTENDS Integers, Sequences, FiniteSets, FiniteSetsExt, SequencesExt

CONSTANT MaxInt64  \* the largest number a counter holds

ASSUME MaxInt64Assumption == MaxInt64 \in Nat \ {0}

Meters == {"executions", "gb_seconds", "cpu_seconds", "seconds"}
Periods == {"daily", "monthly"}

\* From the unit an operator writes to the one the counters keep.
Scale == [executions |-> 1, gb_seconds |-> 1024 * 1000,
          cpu_seconds |-> 1000 * 1000, seconds |-> 1000]

\* What a task declared: CPU in millicores, memory in MiB, its timeout in
\* milliseconds (0 for none).
QuotaExecution == [cpu : Int, memory : Int, millis : Nat]

\* What e costs a pool of this meter.
Charge(meter, e) ==
    CASE meter = "executions" -> 1
      [] meter = "gb_seconds" -> Max({e.memory, 0}) * e.millis
      [] meter = "cpu_seconds" -> Max({e.cpu, 0}) * e.millis
      [] meter = "seconds" -> e.millis

-----------------------------------------------------------------------------
(* Compiling an operator's budgets. *)

\* A budget as written: [name, meter, period, limit], the limit in the meter's
\* natural unit.
Countable(spec) == spec.limit <= MaxInt64 \div Scale[spec.meter]

\* The budget can be enforced after those before it.
Compiles(specs, i) ==
    /\ specs[i].name # ""
    /\ \A j \in 1 .. i - 1 : specs[j].name # specs[i].name
    /\ specs[i].meter \in Meters
    /\ specs[i].period \in Periods
    /\ specs[i].limit > 0
    /\ Countable(specs[i])

LimitsCompile(specs) == \A i \in DOMAIN specs : Compiles(specs, i)

\* The pools of a configuration that compiles, in its order.
NewLimits(specs) ==
    [i \in DOMAIN specs |->
        [specs[i] EXCEPT !.limit = @ * Scale[specs[i].meter]]]

-----------------------------------------------------------------------------
(* Charging. A usage gives what each pool has been charged in its period;  *)
(* a pool nothing was charged to is not in it.                             *)

UsageOf(usage, pool) ==
    IF pool.name \in DOMAIN usage THEN usage[pool.name] ELSE 0

\* The pools e charges.
Charged(limits, e) == {p \in ToSet(limits) : Charge(p.meter, e) > 0}

\* What e charges each pool, without those it does not touch.
Deltas(limits, e) ==
    [name \in {p.name : p \in Charged(limits, e)} |->
        Charge((CHOOSE p \in ToSet(limits) : p.name = name).meter, e)]

\* The pools e does not fit in.
Exceeded(limits, usage, e) ==
    {p \in Charged(limits, e) : UsageOf(usage, p) + Charge(p.meter, e) > p.limit}

Within(limits, usage, e) == Exceeded(limits, usage, e) = {}

Remaining(pool, used) == Max({pool.limit - used, 0})

\* What is left of a number in the 64 bits of a counter.
Wrapped(z) == ((z + MaxInt64 + 1) % (2 * (MaxInt64 + 1))) - (MaxInt64 + 1)

\* Division, rounded towards zero.
Quotient(z, d) == IF z < 0 THEN -((-z) \div d) ELSE z \div d

\* A pool with a sliver left has none. The product wraps where the limit is above
\* MaxInt64 \div 100.
PoolFreePercent(pool, used) ==
    IF used <= 0 THEN 100 ELSE Quotient(Wrapped(Remaining(pool, used) * 100), pool.limit)

\* The tightest allowance among the pools e charges, 100 where there is none.
FreePercent(limits, usage, e) ==
    Min({100} \cup {PoolFreePercent(p, UsageOf(usage, p)) :
                        p \in Charged(limits, e)})
=============================================================================
