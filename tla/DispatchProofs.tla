--------------------------- MODULE DispatchProofs ---------------------------
(***************************************************************************)
(* What is proved of Dispatch for any servers, providers, number of tasks  *)
(* and attempts, and any faults: its types, that no task starts before the *)
(* one it follows has passed, that the attempts of a task are a chain      *)
(* within the budget, and that the dispatch keeps its promise. All rest on *)
(* one run submitting, the one that began the dispatch, while the servers  *)
(* that take it over only follow; and on no record saying of the work what *)
(* did not happen to it.                                                   *)
(***************************************************************************)
EXTENDS Dispatch, FiniteSetTheorems, SequenceTheorems, WellFoundedInduction, TLAPS

USE DEF vars

-----------------------------------------------------------------------------
\* What a run is made of.

\* The executions of the dispatch, and the runs when n of them are recorded.
Executions == [task : 1..Tasks, provider : Provider, attempt : Nat, previous : Nat,
               home : Server, ex : Record]

Rows == [state : {"none", "running"} \cup Ending, owner : Server, lapsed : BOOLEAN,
         owners : SUBSET Server]
USE DEF Rows

Steps == {"idle", "task", "prepare", "pause", "submit", "record", "poll",
          "result", "release", "end", "list", "status"}

Runs(n) ==
    [pc : Steps, lost : BOOLEAN, cancelled : BOOLEAN,
     task : 1..Tasks, left : Rankings, tried : Nat,
     id : 0..n, mem : Record, seen : State, snapshot : Seq(Record),
     next : {"prepare", "task", "end"}, outcome : Ending]

\* A set of numbers has a least one: of the initial segments they end, that one's
\* has no part among the others.
LEMMA MinOfNat ==
  ASSUME NEW S, S \subseteq Nat, S # {}
  PROVE  Min(S) \in S /\ \A y \in S : Min(S) <= y
<1>1. PICK top \in S : TRUE
  OBVIOUS
<1> DEFINE upTo(n) == 0 .. n
           segments == {upTo(n) : n \in {m \in S : m <= top}}
<1>2. segments \subseteq FiniteSubsetsOf(Nat)
  <2>1. ASSUME NEW n \in Nat PROVE upTo(n) \in SUBSET Nat /\ IsFiniteSet(upTo(n))
    BY FS_Interval
  <2>2. QED
    BY <2>1 DEF FiniteSubsetsOf
<1>3. upTo(top) \in segments
  BY <1>1
<1>4. PICK least \in segments :
        \A seg \in segments : <<seg, least>> \notin StrictSubsetOrdering(Nat)
  BY <1>2, <1>3, FS_StrictSubsetOrderingWellFounded, WFMin, Zenon
<1>5. PICK x \in S : x <= top /\ least = upTo(x)
  BY <1>4
<1>6. ASSUME NEW y \in S, ~(x <= y) PROVE FALSE
  <2>1. upTo(y) \in segments
    BY <1>1, <1>5, <1>6
  <2>2. upTo(y) \subseteq upTo(x) /\ x \in upTo(x) /\ x \notin upTo(y)
    BY <1>6
  <2>3. upTo(x) \subseteq Nat /\ upTo(y) \subseteq Nat
    OBVIOUS
  <2>4. <<upTo(y), upTo(x)>> \in StrictSubsetOrdering(Nat)
    BY <2>2, <2>3 DEF StrictSubsetOrdering
  <2>5. QED
    BY <1>4, <1>5, <2>1, <2>4
<1>7. QED
  BY <1>6 DEF Min

\* There are finitely many candidates.
LEMMA CandidatesType == Cardinality(Provider) \in Nat
BY ProviderAssumption, FS_CardinalityType

\* The candidates left are providers, each named once.
LEMMA RankingType ==
  ASSUME NEW q \in Rankings
  PROVE  /\ q \in Seq(Provider) /\ Len(q) \in 0 .. Cardinality(Provider)
         /\ DOMAIN q = 1..Len(q)
         /\ \A i, j \in DOMAIN q : q[i] = q[j] => i = j
<1>1. PICK m \in 0 .. Cardinality(Provider) : q \in [1..m -> Provider]
  BY DEF Rankings, BoundedSeq, SeqOf
<1>2. QED
  BY <1>1, CandidatesType DEF Rankings, IsInjective

\* A sequence of few enough providers, each named once, is a ranking.
LEMMA RankingIntro ==
  ASSUME NEW q, NEW m \in 0 .. Cardinality(Provider), q \in [1..m -> Provider],
         \A i, j \in 1..m : q[i] = q[j] => i = j
  PROVE  q \in Rankings
<1>1. q \in BoundedSeq(Provider, Cardinality(Provider))
  BY DEF BoundedSeq, SeqOf
<1>2. IsInjective(q)
  BY DEF IsInjective
<1>3. QED
  BY <1>1, <1>2 DEF Rankings

\* No candidate is a ranking too.
LEMMA EmptyRanking == <<>> \in Rankings
<1>1. <<>> \in [1..0 -> Provider] /\ \A i, j \in 1..0 : i = j
  OBVIOUS
<1>2. 0 \in 0 .. Cardinality(Provider)
  BY CandidatesType
<1>3. QED
  BY <1>1, <1>2, RankingIntro

\* What is left of a ranking once its best provider is taken: the others.
LEMMA TailOfRanking ==
  ASSUME NEW q \in Rankings, q # <<>>
  PROVE  /\ Head(q) \in Provider /\ Head(q) = q[1] /\ 1 \in DOMAIN q
         /\ Tail(q) \in Rankings
         /\ \A i \in DOMAIN Tail(q) : i + 1 \in DOMAIN q /\ Tail(q)[i] = q[i + 1]
         /\ \A i \in DOMAIN Tail(q) : Tail(q)[i] # Head(q)
<1>1. /\ q \in Seq(Provider) /\ Len(q) \in 1 .. Cardinality(Provider)
      /\ Cardinality(Provider) \in Nat
      /\ DOMAIN q = 1..Len(q)
      /\ \A i, j \in DOMAIN q : q[i] = q[j] => i = j
  BY RankingType, EmptySeq, CandidatesType
<1> DEFINE m == Len(q) - 1
<1>2. /\ Head(q) \in Provider /\ Head(q) = q[1] /\ 1 \in DOMAIN q
      /\ m \in 0 .. Cardinality(Provider)
      /\ Tail(q) \in [1..m -> Provider] /\ DOMAIN Tail(q) = 1..m
      /\ \A i \in 1..m : i + 1 \in DOMAIN q /\ Tail(q)[i] = q[i + 1]
  <2>1. Head(q) = q[1] /\ 1 \in DOMAIN q /\ m \in 0 .. Cardinality(Provider)
    BY <1>1
  <2>2. Tail(q) \in Seq(Provider) /\ Len(Tail(q)) = m
    BY <1>1, HeadTailProperties
  <2>3. \A i \in 1..m : i + 1 \in DOMAIN q /\ Tail(q)[i] = q[i + 1]
    BY <1>1, HeadTailProperties
  <2>4. DOMAIN Tail(q) = 1..m /\ Tail(q) \in [1..m -> Provider]
    BY <2>2, LenProperties
  <2>5. QED
    BY <1>1, <2>1, <2>3, <2>4
<1>3. \A i, j \in 1..m : Tail(q)[i] = Tail(q)[j] => i = j
  BY <1>1, <1>2
<1>4. Tail(q) \in Rankings
  BY <1>2, <1>3, RankingIntro
<1>5. \A i \in 1..m : Tail(q)[i] # Head(q)
  BY <1>1, <1>2
<1>6. QED
  BY <1>2, <1>4, <1>5

\* Records stay records, wherever they are moved.
LEMMA ToType ==
  ASSUME NEW m \in Record, NEW next \in State
  PROVE  /\ To(m, next) \in Record
         /\ FailedState(m) \in {"failed", "lost"}
         /\ [m EXCEPT !.failure = TRUE] \in Record
         /\ [m EXCEPT !.result = TRUE] \in Record
BY DEF To, Record, FailedState, State

\* A store write leaves a record (tracked.to, Store.Update).
LEMMA PutType ==
  ASSUME NEW ex \in Record, NEW m \in Record, NEW next \in State
  PROVE  Put(ex, m, next) \in Record
<1>1. To(m, next) \in Record
  BY ToType
<1>2. QED
  BY <1>1 DEF Put, Update, Record

\* A task gets an attempt at least (policy.budget).
LEMMA BudgetType == Budget \in Nat \ {0}
BY RetryAssumption DEF Budget

\* A server doing nothing.
LEMMA IdleType == ASSUME NEW n \in Nat PROVE Idle \in Runs(n)
BY EmptyRanking, TasksAssumption DEF Idle, Runs, Steps, Pending, Record, State, Ending

\* Whatever a run goes on to is a run.
LEMMA OverType ==
  ASSUME NEW n \in Nat, NEW r \in Runs(n), NEW outcome \in Ending
  PROVE  /\ Over(r, outcome) \in Runs(n)
         /\ Over(r, outcome).pc = "end" /\ Over(r, outcome).outcome = outcome
         /\ Over(r, outcome).snapshot = <<>>
BY IdleType DEF Over, Runs, Idle, Steps

\* A resumed run that goes to its next execution, or ends (resume).
LEMMA FollowType ==
  ASSUME NEW n \in Nat, NEW r \in Runs(n), Len(r.snapshot) <= n, NEW first \in Nat
  PROVE  FollowFrom(r, first) \in Runs(n)
<1> DEFINE unfinished == {id \in DOMAIN r.snapshot :
                            id >= first /\ r.snapshot[id].state \notin Terminal}
<1>1. r.snapshot \in Seq(Record) /\ DOMAIN r.snapshot = 1..Len(r.snapshot)
  BY DEF Runs
<1>2. CASE unfinished = {}
  <2>1. EndedAs(r.snapshot) \in Ending
    BY DEF EndedAs, Ending
  <2>2. QED
    BY <1>2, <2>1, OverType DEF FollowFrom
<1>3. CASE unfinished # {}
  <2> DEFINE least == Min(unfinished)
  <2>1. unfinished \subseteq Nat
    BY <1>1
  <2>2. least \in unfinished
    BY <1>3, <2>1, MinOfNat, Zenon
  <2>3. least \in DOMAIN r.snapshot
    BY <2>2
  <2> HIDE DEF least
  <2>4. least \in 0..n /\ r.snapshot[least] \in Record
    BY <1>1, <2>3
  <2>5. [r EXCEPT !.pc = "status", !.id = least, !.mem = r.snapshot[least]] \in Runs(n)
    BY <2>4 DEF Runs, Steps
  <2>6. QED
    BY <1>3, <2>5 DEF FollowFrom, least
<1>4. QED
  BY <1>2, <1>3

\* A run's copy of one of its executions is written over.
LEMMA KeptType ==
  ASSUME NEW copies \in Seq(Record), NEW id \in Nat, NEW m \in Record
  PROVE  LET kept == [copies EXCEPT ![id] = m]
         IN  /\ kept \in Seq(Record) /\ Len(kept) = Len(copies) /\ DOMAIN kept = DOMAIN copies
             /\ \A i \in DOMAIN copies : kept[i] = IF i = id THEN m ELSE copies[i]
<1>1. DOMAIN copies = 1..Len(copies)
  BY LenProperties
<1>2. CASE id \in DOMAIN copies
  BY <1>1, <1>2, ExceptSeq
<1>3. CASE id \notin DOMAIN copies
  <2>1. [copies EXCEPT ![id] = m] = copies
    BY <1>1, <1>3
  <2>2. QED
    BY <1>3, <2>1
<1>4. QED
  BY <1>2, <1>3

\* A run that goes on after an attempt.
LEMMA OnwardType ==
  ASSUME NEW n \in Nat, NEW r \in Runs(n), Len(r.snapshot) <= n
  PROVE  Onward(r) \in Runs(n)
<1>1. CASE r.snapshot = <<>>
  <2>1. r.outcome \in Ending
    BY DEF Runs
  <2>2. Over(r, r.outcome) \in Runs(n)
    BY <2>1, OverType
  <2>3. [r EXCEPT !.pc = r.next, !.next = "end"] \in Runs(n)
    BY DEF Runs, Steps
  <2>4. QED
    BY <1>1, <2>2, <2>3 DEF Onward
<1>2. CASE r.snapshot # <<>>
  <2> DEFINE kept == [r.snapshot EXCEPT ![r.id] = r.mem]
             q == [r EXCEPT !.snapshot = kept]
  <2>1. r.snapshot \in Seq(Record) /\ r.mem \in Record /\ r.id \in Nat
    BY DEF Runs
  <2>2. kept \in Seq(Record) /\ Len(kept) = Len(r.snapshot)
    BY <2>1, KeptType
  <2>3. [r EXCEPT !.snapshot[r.id] = r.mem] = q
    BY DEF Runs
  <2> HIDE DEF kept
  <2>4. q \in Runs(n) /\ Len(q.snapshot) <= n /\ r.id + 1 \in Nat
    BY <2>1, <2>2 DEF Runs
  <2>5. FollowFrom(q, r.id + 1) \in Runs(n)
    BY <2>4, FollowType
  <2> HIDE DEF q
  <2>6. QED
    BY <1>2, <2>3, <2>5 DEF Onward
<1>3. QED
  BY <1>1, <1>2

-----------------------------------------------------------------------------
\* The invariant. Its parts are about a run, the records, and what became of the
\* work, given as arguments, so that a step is two instances of each.

Attempting == {"pause", "submit", "record", "poll", "result", "release"}

\* A run that submits: it began the dispatch, and has yet to end.
Submits(r) == r.snapshot = <<>> /\ r.pc \in {"task", "prepare"} \cup Attempting

AllPassed(rs, vd, n) ==
    \A t \in 1..n : \E id \in DOMAIN rs : rs[id].task = t /\ vd[id] = "succeeded"

\* Record m says nothing of the work that did not happen to it.
TrueTo(m, v) ==
    /\ m.state = "succeeded" => v = "succeeded"
    /\ m.state = "failed" /\ m.result /\ ~m.failure => v = "failed"
    /\ m.state \notin Terminal => ~m.result

\* What any run knows is so.
Sound(r, rs, vd) ==
    /\ Len(r.snapshot) <= Len(rs)
    /\ r.pc \in {"task", "prepare", "pause", "submit"} => r.snapshot = <<>>
    /\ r.pc = "status" => r.snapshot # <<>>
    /\ \A id \in DOMAIN r.snapshot : TrueTo(r.snapshot[id], vd[id])
    /\ r.pc \in Attempting \cup {"status"} => r.id \in DOMAIN rs /\ TrueTo(r.mem, vd[r.id])
    /\ r.pc \in {"pause", "submit"} => r.mem = Pending
    /\ r.pc = "record" /\ r.seen \in Terminal => r.mem = Pending
    /\ r.pc \in {"status", "record", "poll", "result"} => r.mem.state \notin Terminal
    /\ r.pc \in {"poll", "result"} => r.mem.state # "pending"
    /\ r.pc \in {"result", "release"} => r.seen \in Terminal
    /\ r.pc \in {"record", "result", "release"} /\ r.seen \in {"succeeded", "failed"}
          => vd[r.id] = r.seen
    /\ r.pc # "end" /\ r.snapshot = <<>> => r.outcome = "unanswered"
    /\ r.pc = "end" /\ r.outcome = "succeeded" => AllPassed(rs, vd, Tasks)
    /\ r.pc = "end" /\ r.outcome = "failed" => \E id \in DOMAIN rs : vd[id] = "failed"

\* The run that submits is where the records end.
Leads(r, rs, vd, wk) ==
    /\ AllPassed(rs, vd, r.task - 1)
    /\ \A id \in DOMAIN rs : rs[id].task <= r.task
    /\ r.pc = "task" \/ (r.pc = "prepare" /\ r.tried = 0) =>
          \A id \in DOMAIN rs : rs[id].task < r.task
    /\ r.pc # "task" => \A id \in DOMAIN rs, i \in DOMAIN r.left :
          rs[id].task = r.task => rs[id].provider # r.left[i]
    /\ r.pc = "prepare" /\ r.tried = 0 => r.id = 0
    /\ r.pc \in Attempting \/ (r.pc = "prepare" /\ r.tried > 0) =>
          /\ r.id = Len(rs) /\ r.id \in DOMAIN rs /\ rs[r.id].task = r.task
          /\ rs[r.id].attempt = IF r.pc = "pause" THEN r.tried + 1 ELSE r.tried
    /\ r.pc \in {"pause", "submit"} => wk[r.id] = "absent" /\ vd[r.id] = "none"

Good(r, rs, vd, wk) ==
    r \in Runs(Len(rs)) /\ Sound(r, rs, vd) /\ (Submits(r) => Leads(r, rs, vd, wk))

\* The records are of tasks in order, each begun after all before it passed, and
\* true to the work; as is what the provider holds of it.
Truthful(rs, vd, wk) ==
    \A id \in DOMAIN rs :
        /\ TrueTo(rs[id].ex, vd[id])
        /\ AllPassed(rs, vd, rs[id].task - 1)
        /\ \A b \in DOMAIN rs : id <= b => rs[id].task <= rs[b].task
        /\ rs[id].attempt > 1 => id > 1
        /\ wk[id] \in {"running", "stuck"} => vd[id] = "none"
        /\ wk[id] \in {"succeeded", "failed"} => vd[id] = wk[id]

\* The dispatch is not begun before its row is, and only once.
Started == row.state = "none" => recs = <<>> /\ \A s \in Server : run[s].pc = "idle"
OneSubmits == \A s, t \in Server : Submits(run[s]) /\ Submits(run[t]) => s = t

Inv == /\ TypeOK /\ Started /\ OneSubmits
       /\ \A s \in Server : Good(run[s], recs, verdict, work)
       /\ Truthful(recs, verdict, work)
       /\ RetryChain

-----------------------------------------------------------------------------
\* What stays so when records are added and work ends.

\* No record is removed, or given to another task or provider; no ended work
\* ends again.
Grows(rs, vd, rs2, vd2) ==
    /\ Len(rs) <= Len(rs2)
    /\ \A id \in DOMAIN rs :
          /\ id \in DOMAIN rs2
          /\ rs2[id].task = rs[id].task /\ rs2[id].provider = rs[id].provider
          /\ rs2[id].attempt = rs[id].attempt /\ rs2[id].previous = rs[id].previous
          /\ vd[id] # "none" => vd2[id] = vd[id]

\* And none is added, nor anything begun.
Quiet(rs, vd, wk, rs2, vd2, wk2) ==
    /\ Grows(rs, vd, rs2, vd2) /\ Len(rs2) = Len(rs) /\ DOMAIN rs2 = DOMAIN rs
    /\ \A id \in DOMAIN rs :
          wk[id] = "absent" /\ vd[id] = "none" => wk2[id] = "absent" /\ vd2[id] = "none"

\* The records, what became of the work, and what the provider holds of it.
Data(rs, vd, wk) ==
    /\ rs \in Seq(Executions) /\ DOMAIN rs = 1..Len(rs) /\ Len(rs) \in Nat
    /\ vd \in [1..Len(rs) -> {"none"} \cup Terminal]
    /\ wk \in [1..Len(rs) -> {"absent", "running", "stuck"} \cup Terminal]

\* A row of the executions is one.
LEMMA ExecutionType ==
  ASSUME NEW rs, NEW vd, NEW wk, Data(rs, vd, wk), NEW id \in 1..Len(rs)
  PROVE  /\ id \in DOMAIN rs /\ rs[id] \in Executions
         /\ rs[id].task \in 1..Tasks /\ rs[id].attempt \in Nat /\ rs[id].ex \in Record
<1>1. id \in DOMAIN rs /\ rs[id] \in Executions
  BY DEF Data
<1>2. QED
  BY <1>1 DEF Executions

\* A true record stays true once the work has ended.
LEMMA TrueStable ==
  ASSUME NEW m, NEW v, NEW w, TrueTo(m, v), v # "none" => w = v
  PROVE  TrueTo(m, w)
BY DEF TrueTo

\* Tasks that have passed stay so.
LEMMA PassedStable ==
  ASSUME NEW rs, NEW vd, NEW rs2, NEW vd2, Grows(rs, vd, rs2, vd2),
         NEW n, AllPassed(rs, vd, n)
  PROVE  AllPassed(rs2, vd2, n)
BY DEF Grows, AllPassed

\* A run is one whatever else is recorded.
LEMMA RunsGrow ==
  ASSUME NEW n \in Nat, NEW m \in Nat, n <= m, NEW r \in Runs(n)
  PROVE  r \in Runs(m)
<1>1. r.id \in 0..m
  BY DEF Runs
<1>2. QED
  BY <1>1 DEF Runs

\* What a run knows stays so.
LEMMA SoundStable ==
  ASSUME NEW rs, NEW vd, NEW wk, Data(rs, vd, wk),
         NEW rs2, NEW vd2, NEW wk2, Data(rs2, vd2, wk2), Grows(rs, vd, rs2, vd2),
         NEW r \in Runs(Len(rs)), Sound(r, rs, vd)
  PROVE  Sound(r, rs2, vd2)
<1>1. r.snapshot \in Seq(Record) /\ Len(r.snapshot) \in Nat /\ DOMAIN r.snapshot = 1..Len(r.snapshot)
  BY DEF Runs
<1>2. Len(r.snapshot) <= Len(rs2) /\ DOMAIN r.snapshot \subseteq DOMAIN rs
  BY <1>1 DEF Sound, Grows, Data
<1>3. \A id \in DOMAIN r.snapshot : TrueTo(r.snapshot[id], vd2[id])
  BY <1>2, TrueStable DEF Sound, Grows
<1>4. r.pc \in Attempting \cup {"status"} => r.id \in DOMAIN rs2 /\ TrueTo(r.mem, vd2[r.id])
  BY TrueStable DEF Sound, Grows
<1>5. r.pc \in {"record", "result", "release"} /\ r.seen \in {"succeeded", "failed"}
        => vd2[r.id] = r.seen
  BY DEF Sound, Grows, Attempting
<1>6. r.pc = "end" /\ r.outcome = "succeeded" => AllPassed(rs2, vd2, Tasks)
  BY PassedStable DEF Sound
<1>7. r.pc = "end" /\ r.outcome = "failed" => \E id \in DOMAIN rs2 : vd2[id] = "failed"
  BY DEF Sound, Grows
<1>8. QED
  BY <1>2, <1>3, <1>4, <1>5, <1>6, <1>7 DEF Sound

\* A run that leads still does when another's step adds no record.
LEMMA LeadsStable ==
  ASSUME NEW rs, NEW vd, NEW wk, NEW rs2, NEW vd2, NEW wk2,
         Grows(rs, vd, rs2, vd2), Len(rs2) = Len(rs), DOMAIN rs2 = DOMAIN rs,
         NEW r, Leads(r, rs, vd, wk),
         r.pc \in {"pause", "submit"} => wk2[r.id] = "absent" /\ vd2[r.id] = "none"
  PROVE  Leads(r, rs2, vd2, wk2)
<1>1. AllPassed(rs2, vd2, r.task - 1)
  BY PassedStable DEF Leads
<1>2. QED
  BY <1>1 DEF Leads, Grows

\* The run of a server not taking the step stays good.
LEMMA GoodStable ==
  ASSUME NEW rs, NEW vd, NEW wk, Data(rs, vd, wk),
         NEW rs2, NEW vd2, NEW wk2, Data(rs2, vd2, wk2), Grows(rs, vd, rs2, vd2),
         NEW r, Good(r, rs, vd, wk),
         Submits(r) => Quiet(rs, vd, wk, rs2, vd2, wk2)
  PROVE  Good(r, rs2, vd2, wk2)
<1>1. r \in Runs(Len(rs2))
  BY RunsGrow DEF Good, Data, Grows
<1>2. Sound(r, rs2, vd2)
  BY SoundStable DEF Good
<1>3. ASSUME Submits(r) PROVE Leads(r, rs2, vd2, wk2)
  <2>1. Leads(r, rs, vd, wk) /\ Quiet(rs, vd, wk, rs2, vd2, wk2)
    BY <1>3 DEF Good
  <2>2. r.pc \in {"pause", "submit"} => wk2[r.id] = "absent" /\ vd2[r.id] = "none"
    BY <2>1 DEF Leads, Quiet, Attempting
  <2>3. QED
    BY <2>1, <2>2, LeadsStable DEF Quiet
<1>4. QED
  BY <1>1, <1>2, <1>3 DEF Good

-----------------------------------------------------------------------------
\* What is written into a record is true.

\* A move to a state that is no answer, or to the answer given, is true.
LEMMA ToTrue ==
  ASSUME NEW m \in Record, NEW next \in State, NEW v, TrueTo(m, v), m.state \notin Terminal,
         next \in {"succeeded", "failed"} => v = next \/ next = "failed"
  PROVE  TrueTo(To(m, next), v)
BY DEF TrueTo, To, Record, Terminal

\* A record whose attempt ended in an error says nothing.
LEMMA FailureTrue ==
  ASSUME NEW m \in Record, NEW v, TrueTo(m, v), m.state \notin Terminal
  PROVE  LET f == [m EXCEPT !.failure = TRUE]
         IN  FailedState(m) = FailedState(f) /\ TrueTo(To(f, FailedState(f)), v)
BY DEF TrueTo, To, Record, Terminal, FailedState

\* With its result, a record says how the work ended.
LEMMA ResultTrue ==
  ASSUME NEW m \in Record, NEW next \in Terminal, NEW v,
         m.state \notin Terminal, m.state # "pending",
         next \in {"succeeded", "failed"} => v = next
  PROVE  TrueTo(To([m EXCEPT !.result = TRUE], next), v)
BY DEF TrueTo, To, Record, Terminal, CanTransition, LegalTransitions, State

\* So is what the store makes of it.
LEMMA PutTrue ==
  ASSUME NEW ex \in Record, NEW m \in Record, NEW next \in State, NEW v,
         TrueTo(ex, v), TrueTo(To(m, next), v)
  PROVE  TrueTo(Put(ex, m, next), v)
<1>1. To(m, next) \in Record
  BY ToType
<1>2. QED
  BY <1>1 DEF TrueTo, Put, Update, Record

\* One record is written over, or none.
LEMMA WriteType ==
  ASSUME NEW rs \in Seq(Executions), NEW id \in DOMAIN rs, NEW ex \in Record
  PROVE  LET rs2 == [rs EXCEPT ![id] = [rs[id] EXCEPT !.ex = ex]]
         IN  /\ rs2 \in Seq(Executions) /\ Len(rs2) = Len(rs) /\ DOMAIN rs2 = DOMAIN rs
             /\ \A i \in DOMAIN rs :
                  /\ rs2[i].task = rs[i].task /\ rs2[i].provider = rs[i].provider
                  /\ rs2[i].attempt = rs[i].attempt /\ rs2[i].previous = rs[i].previous
                  /\ rs2[i].ex = IF i = id THEN ex ELSE rs[i].ex
<1>1. rs[id] \in Executions /\ DOMAIN rs = 1..Len(rs)
  OBVIOUS
<1>2. [rs[id] EXCEPT !.ex = ex] \in Executions
  BY <1>1 DEF Executions
<1> DEFINE rs2 == [rs EXCEPT ![id] = [rs[id] EXCEPT !.ex = ex]]
<1>3. rs2 \in Seq(Executions) /\ Len(rs2) = Len(rs) /\ DOMAIN rs2 = DOMAIN rs
  BY <1>1, <1>2, ExceptSeq
<1>4. ASSUME NEW i \in DOMAIN rs
      PROVE  /\ rs2[i].task = rs[i].task /\ rs2[i].provider = rs[i].provider
             /\ rs2[i].attempt = rs[i].attempt /\ rs2[i].previous = rs[i].previous
             /\ rs2[i].ex = IF i = id THEN ex ELSE rs[i].ex
  BY <1>1, <1>4 DEF Executions
<1>5. QED
  BY <1>3, <1>4

-----------------------------------------------------------------------------
\* Where a run goes on to is good.

\* The type invariant, as the lemmas use it.
LEMMA TypeFacts ==
  ASSUME TypeOK
  PROVE  Data(recs, verdict, work) /\ run \in [Server -> Runs(Len(recs))] /\ Id = 1..Len(recs)
<1>1. recs \in Seq(Executions) /\ Id = 1..Len(recs) /\ Len(recs) \in Nat
  BY DEF TypeOK, Id, Executions
<1>2. {0} \cup Id = 0..Len(recs)
  BY <1>1
<1>3. run \in [Server -> Runs(Len(recs))]
  BY <1>2 DEF TypeOK, Runs, Steps
<1>4. Data(recs, verdict, work)
  BY <1>1 DEF TypeOK, Data, Id
<1>5. QED
  BY <1>1, <1>3, <1>4

\* As many tasks as the job declares are all of them.
LEMMA AllReached ==
  ASSUME NEW tasks \in SUBSET (1..Tasks), Cardinality(tasks) >= Tasks
  PROVE  tasks = 1..Tasks
<1>1. IsFiniteSet(1..Tasks) /\ Cardinality(1..Tasks) = Tasks
  BY TasksAssumption, FS_Interval
<1>2. Cardinality(tasks) <= Tasks /\ (Cardinality(tasks) = Tasks => tasks = 1..Tasks)
  BY <1>1, FS_Subset
<1>3. Cardinality(tasks) \in Nat
  BY <1>1, FS_Subset, FS_CardinalityType
<1>4. QED
  BY <1>2, <1>3, TasksAssumption

\* The verdict of a resumed dispatch is true (resume.go ended).
LEMMA EndedTrue ==
  ASSUME Data(recs, verdict, work), Truthful(recs, verdict, work),
         NEW copies \in Seq(Record), Len(copies) <= Len(recs),
         \A id \in DOMAIN copies : TrueTo(copies[id], verdict[id])
  PROVE  /\ EndedAs(copies) \in Ending
         /\ EndedAs(copies) = "succeeded" => AllPassed(recs, verdict, Tasks)
         /\ EndedAs(copies) = "failed" => \E id \in DOMAIN recs : verdict[id] = "failed"
<1> DEFINE last == Last(copies)
           n == Len(copies)
           answered == last.state \in {"succeeded", "failed"} /\ last.result /\ ~last.failure
           tasks == {recs[id].task : id \in DOMAIN copies}
           reached == Cardinality(tasks)
<1>1. DOMAIN copies = 1..n /\ n \in Nat /\ (copies # <<>> => n \in 1..Len(recs) /\ last = copies[n])
  BY DEF Last, Data
<1>2. CASE copies = <<>> \/ ~answered
  <2>1. EndedAs(copies) = "unanswered"
    BY <1>2 DEF EndedAs
  <2>2. QED
    BY <2>1 DEF Ending
<1>3. CASE copies # <<>> /\ answered /\ last.state = "succeeded"
  <2>1. EndedAs(copies) = IF reached >= Tasks THEN "succeeded" ELSE "unanswered"
    BY <1>3 DEF EndedAs
  <2>2. ASSUME reached >= Tasks PROVE AllPassed(recs, verdict, Tasks)
    <3>1. tasks \in SUBSET (1..Tasks)
      <4>1. \A id \in DOMAIN copies : id \in 1..Len(recs)
        BY <1>1 DEF Data
      <4>2. \A id \in 1..Len(recs) : recs[id].task \in 1..Tasks
        BY ExecutionType
      <4>3. QED
        BY <4>1, <4>2
    <3>2. tasks = 1..Tasks
      BY <2>2, <3>1, AllReached
    <3>3. PICK top \in DOMAIN copies : recs[top].task = Tasks
      BY <3>2, TasksAssumption
    <3>4. n \in DOMAIN recs /\ top \in DOMAIN recs /\ top <= n
      BY <1>1, <1>3, <3>3 DEF Data
    <3>5. recs[n].task = Tasks
      <4>1. recs[n].task \in 1..Tasks
        BY <3>4, ExecutionType DEF Data
      <4>2. recs[top].task <= recs[n].task
        BY <3>4 DEF Truthful
      <4>3. QED
        BY <3>3, <4>1, <4>2, TasksAssumption
    <3>6. verdict[n] = "succeeded"
      BY <1>1, <1>3 DEF TrueTo
    <3>7. AllPassed(recs, verdict, Tasks - 1)
      BY <3>4, <3>5 DEF Truthful
    <3>8. QED
      BY <3>4, <3>5, <3>6, <3>7, TasksAssumption DEF AllPassed
  <2>3. QED
    BY <2>1, <2>2 DEF Ending
<1>4. CASE copies # <<>> /\ answered /\ last.state # "succeeded"
  <2>1. EndedAs(copies) = "failed"
    BY <1>4 DEF EndedAs
  <2>2. n \in DOMAIN recs /\ verdict[n] = "failed"
    BY <1>1, <1>4 DEF TrueTo, Data
  <2>3. QED
    BY <2>1, <2>2 DEF Ending
<1>5. QED
  BY <1>2, <1>3, <1>4

\* A run that has only its ending left to write is good when that is true.
LEMMA OverGood ==
  ASSUME NEW rs, NEW vd, NEW wk, Data(rs, vd, wk),
         NEW r \in Runs(Len(rs)), NEW outcome \in Ending,
         outcome = "succeeded" => AllPassed(rs, vd, Tasks),
         outcome = "failed" => \E id \in DOMAIN rs : vd[id] = "failed"
  PROVE  /\ Good(Over(r, outcome), rs, vd, wk) /\ ~Submits(Over(r, outcome))
         /\ Over(r, outcome).pc = "end"
<1> DEFINE q == Over(r, outcome)
<1>1. q \in Runs(Len(rs)) /\ q.pc = "end" /\ q.outcome = outcome /\ q.snapshot = <<>>
  BY OverType DEF Data
<1> HIDE DEF q
<1>2. Sound(q, rs, vd)
  BY <1>1 DEF Sound, Attempting, Data
<1>3. ~Submits(q)
  BY <1>1 DEF Submits, Attempting
<1>4. QED
  BY <1>1, <1>2, <1>3 DEF Good, q

\* A resumed run that goes to its next execution is good, its ending true.
LEMMA FollowGood ==
  ASSUME Data(recs, verdict, work), Truthful(recs, verdict, work),
         NEW r \in Runs(Len(recs)), Len(r.snapshot) <= Len(recs), NEW first \in Nat,
         \A id \in DOMAIN r.snapshot : TrueTo(r.snapshot[id], verdict[id])
  PROVE  /\ Good(FollowFrom(r, first), recs, verdict, work)
         /\ ~Submits(FollowFrom(r, first))
         /\ FollowFrom(r, first).pc \in {"end", "status"}
<1> DEFINE unfinished == {id \in DOMAIN r.snapshot :
                            id >= first /\ r.snapshot[id].state \notin Terminal}
<1>1. r.snapshot \in Seq(Record) /\ DOMAIN r.snapshot = 1..Len(r.snapshot)
  BY DEF Runs
<1>2. CASE unfinished = {}
  <2>1. FollowFrom(r, first) = Over(r, EndedAs(r.snapshot))
    BY <1>2 DEF FollowFrom
  <2>2. QED
    BY <1>1, <2>1, EndedTrue, OverGood
<1>3. CASE unfinished # {}
  <2> DEFINE least == Min(unfinished)
             q == [r EXCEPT !.pc = "status", !.id = least, !.mem = r.snapshot[least]]
  <2>1. unfinished \subseteq Nat
    BY <1>1
  <2>2. least \in unfinished
    BY <1>3, <2>1, MinOfNat, Zenon
  <2>3. least \in DOMAIN r.snapshot /\ r.snapshot[least].state \notin Terminal
    BY <2>2
  <2>4. q = FollowFrom(r, first)
    BY <1>3 DEF FollowFrom
  <2>5. q \in Runs(Len(recs))
    BY <2>4, FollowType DEF Data
  <2> HIDE DEF least
  <2>6. /\ q.pc = "status" /\ q.id = least /\ q.mem = r.snapshot[least]
        /\ q.snapshot = r.snapshot
    BY DEF Runs
  <2> HIDE DEF q
  <2>7. q.snapshot # <<>> /\ q.id \in DOMAIN recs
    BY <1>1, <2>3, <2>6 DEF Data
  <2>8. Sound(q, recs, verdict)
    BY <1>1, <2>3, <2>6, <2>7 DEF Sound, Attempting
  <2>9. ~Submits(q)
    BY <2>6 DEF Submits, Attempting
  <2>10. QED
    BY <2>4, <2>5, <2>6, <2>8, <2>9 DEF Good
<1>4. QED
  BY <1>2, <1>3

\* A run goes on to whatever the attempt in hand left it, good if that is true.
LEMMA OnwardGood ==
  ASSUME Data(recs, verdict, work), Truthful(recs, verdict, work),
         NEW q \in Runs(Len(recs)), Len(q.snapshot) <= Len(recs),
         \A id \in DOMAIN q.snapshot : TrueTo(q.snapshot[id], verdict[id]),
         TrueTo(q.mem, verdict[q.id]),
         q.snapshot = <<>> =>
            IF q.next = "end"
            THEN /\ q.outcome = "succeeded" => AllPassed(recs, verdict, Tasks)
                 /\ q.outcome = "failed" => \E id \in DOMAIN recs : verdict[id] = "failed"
            ELSE /\ q.outcome = "unanswered"
                 /\ Leads([q EXCEPT !.pc = q.next, !.next = "end"], recs, verdict, work)
  PROVE  /\ Good(Onward(q), recs, verdict, work)
         /\ Submits(Onward(q)) => q.snapshot = <<>>
<1>1. CASE q.snapshot = <<>> /\ q.next = "end"
  <2>1. Onward(q) = Over(q, q.outcome) /\ q.outcome \in Ending
    BY <1>1 DEF Onward, Runs
  <2>2. QED
    BY <1>1, <2>1, OverGood
<1>2. CASE q.snapshot = <<>> /\ q.next # "end"
  <2> DEFINE p == [q EXCEPT !.pc = q.next, !.next = "end"]
  <2>1. Onward(q) = p /\ p \in Runs(Len(recs))
    BY <1>2, OnwardType DEF Onward, Data
  <2>2. p.pc \in {"prepare", "task"} /\ p.snapshot = <<>> /\ p.outcome = "unanswered"
    BY <1>2 DEF Runs
  <2>3. Leads(p, recs, verdict, work)
    BY <1>2
  <2> HIDE DEF p
  <2>4. Sound(p, recs, verdict)
    BY <2>1, <2>2 DEF Sound, Attempting, Data
  <2>5. QED
    BY <1>2, <2>1, <2>3, <2>4 DEF Good
<1>3. CASE q.snapshot # <<>>
  <2> DEFINE kept == [q.snapshot EXCEPT ![q.id] = q.mem]
             p == [q EXCEPT !.snapshot = kept]
  <2>1. q.snapshot \in Seq(Record) /\ q.mem \in Record /\ q.id \in Nat
    BY DEF Runs
  <2>2. /\ kept \in Seq(Record) /\ Len(kept) = Len(q.snapshot)
        /\ DOMAIN kept = DOMAIN q.snapshot
        /\ \A id \in DOMAIN kept : TrueTo(kept[id], verdict[id])
    BY <2>1, KeptType
  <2>3. [q EXCEPT !.snapshot[q.id] = q.mem] = p
    BY DEF Runs
  <2> HIDE DEF kept
  <2>4. p \in Runs(Len(recs)) /\ p.snapshot = kept
    BY <2>2 DEF Runs
  <2> HIDE DEF p
  <2>5. Onward(q) = FollowFrom(p, q.id + 1)
    BY <1>3, <2>3 DEF Onward
  <2>6. QED
    BY <1>3, <2>1, <2>2, <2>4, <2>5, FollowGood
<1>4. QED
  BY <1>1, <1>2, <1>3

-----------------------------------------------------------------------------
\* A step of a run.

\* What the invariant says of the run of s and of the data.
LEMMA RunFacts ==
  ASSUME Inv, NEW s \in Server
  PROVE  /\ Data(recs, verdict, work) /\ Truthful(recs, verdict, work) /\ RetryChain
         /\ run[s] \in Runs(Len(recs)) /\ Sound(run[s], recs, verdict)
         /\ Submits(run[s]) => Leads(run[s], recs, verdict, work)
BY TypeFacts DEF Inv, Good

\* An attempt given up on: m is what the run makes of its record.
LEMMA GivesUpGood ==
  ASSUME Inv, NEW s \in Server, run[s].pc \in {"submit", "poll", "result", "status"},
         NEW m \in Record, TrueTo(m, verdict[run[s].id]),
         GivesUp(s, [run[s] EXCEPT !.mem = m])
  PROVE  /\ run' = [run EXCEPT ![s] = run'[s]]
         /\ Good(run'[s], recs, verdict, work) /\ run'[s].pc \notin {"pause", "submit"}
         /\ Submits(run'[s]) => Submits(run[s])
<1> DEFINE r == run[s]
           n == Len(recs)
<1>1. PICK next \in {"prepare", "end"} :
        Becomes(s, Onward([[r EXCEPT !.mem = m] EXCEPT !.next = next]))
  BY DEF GivesUp
<1> DEFINE q == [[r EXCEPT !.mem = m] EXCEPT !.next = next]
<1>2. /\ Data(recs, verdict, work) /\ Truthful(recs, verdict, work) /\ RetryChain
      /\ r \in Runs(n) /\ Sound(r, recs, verdict)
      /\ Submits(r) => Leads(r, recs, verdict, work)
  BY RunFacts
<1>3. /\ q \in Runs(n) /\ q.snapshot = r.snapshot /\ q.id = r.id /\ q.mem = m
      /\ q.next = next /\ q.outcome = r.outcome
  BY <1>2 DEF Runs
<1>4. ASSUME r.snapshot = <<>>
      PROVE  /\ q.outcome = "unanswered" /\ Submits(r)
             /\ next = "prepare" =>
                  Leads([q EXCEPT !.pc = q.next, !.next = "end"], recs, verdict, work)
  <2>1. r.outcome = "unanswered" /\ r.pc # "status"
    BY <1>2, <1>4 DEF Sound
  <2>2. Submits(r)
    BY <1>4, <2>1 DEF Submits, Attempting
  <2>3. ASSUME next = "prepare"
        PROVE  Leads([q EXCEPT !.pc = q.next, !.next = "end"], recs, verdict, work)
    <3> DEFINE p == [q EXCEPT !.pc = q.next, !.next = "end"]
    <3>1. /\ p.pc = "prepare" /\ p.task = r.task /\ p.left = r.left
          /\ p.tried = r.tried /\ p.id = r.id
      BY <1>2, <2>3 DEF Runs
    <3> HIDE DEF p
    <3>2. Leads(r, recs, verdict, work) /\ r.pc \in Attempting /\ r.pc # "pause" /\ r.pc # "task"
      BY <1>2, <2>1, <2>2 DEF Attempting
    <3>3. r.id \in DOMAIN recs /\ recs[r.id].attempt = r.tried
      BY <3>2 DEF Leads
    <3>4. r.tried \in 1..Budget
      BY <1>2, <3>3 DEF RetryChain, Id
    <3>5. Leads(p, recs, verdict, work)
      BY <3>1, <3>2, <3>4 DEF Leads, Attempting
    <3>6. QED
      BY <3>5 DEF p
  <2>4. QED
    BY <1>3, <2>1, <2>2, <2>3
<1>5. /\ Good(Onward(q), recs, verdict, work)
      /\ Submits(Onward(q)) => q.snapshot = <<>>
  <2>1. Len(q.snapshot) <= n /\ \A id \in DOMAIN q.snapshot : TrueTo(q.snapshot[id], verdict[id])
    BY <1>2, <1>3 DEF Sound
  <2>2. TrueTo(q.mem, verdict[q.id])
    BY <1>3
  <2> HIDE DEF q
  <2>3. QED
    BY <1>1, <1>2, <1>3, <1>4, <2>1, <2>2, OnwardGood
<1>6. Onward(q).pc \notin {"pause", "submit"}
  BY <1>1 DEF Onward, Over, FollowFrom, Runs
<1>7. run' = [run EXCEPT ![s] = Onward(q)] /\ run'[s] = Onward(q)
  BY <1>1, TypeFacts DEF Becomes, Inv
<1>8. QED
  BY <1>3, <1>4, <1>5, <1>6, <1>7

\* The run of s takes a step that leaves everything as it should be.
Moves(s) ==
    /\ Data(recs', verdict', work') /\ Truthful(recs', verdict', work')
    /\ Grows(recs, verdict, recs', verdict')
    /\ Submits(run[s]) \/ Quiet(recs, verdict, work, recs', verdict', work')
    /\ run' = [run EXCEPT ![s] = run'[s]]
    /\ Good(run'[s], recs', verdict', work')
    /\ Submits(run'[s]) => Submits(run[s])

\* Doing nothing is quiet.
LEMMA QuietRefl ==
  ASSUME NEW rs, NEW vd, NEW wk, Data(rs, vd, wk)
  PROVE  Quiet(rs, vd, wk, rs, vd, wk)
BY DEF Quiet, Grows, Data

\* So is one quiet step after another.
LEMMA QuietTrans ==
  ASSUME NEW rs, NEW vd, NEW wk, NEW rs2, NEW vd2, NEW wk2, NEW rs3, NEW vd3, NEW wk3,
         Quiet(rs, vd, wk, rs2, vd2, wk2), Quiet(rs2, vd2, wk2, rs3, vd3, wk3)
  PROVE  Quiet(rs, vd, wk, rs3, vd3, wk3)
BY DEF Quiet, Grows

\* Work ends, is begun, or is forgotten, and is only ever one of its endings.
LEMMA WorkMoves ==
  ASSUME NEW rs, NEW vd, NEW wk, Data(rs, vd, wk), Truthful(rs, vd, wk),
         NEW vd2 \in [1..Len(rs) -> {"none"} \cup Terminal],
         NEW wk2 \in [1..Len(rs) -> {"absent", "running", "stuck"} \cup Terminal],
         \A i \in 1..Len(rs) :
            /\ vd[i] # "none" => vd2[i] = vd[i]
            /\ wk2[i] \in {"running", "stuck"} => vd2[i] = "none"
            /\ wk2[i] \in {"succeeded", "failed"} => vd2[i] = wk2[i]
  PROVE  /\ Data(rs, vd2, wk2) /\ Truthful(rs, vd2, wk2) /\ Grows(rs, vd, rs, vd2)
         /\ (\A i \in 1..Len(rs) : wk[i] = "absent" /\ vd[i] = "none"
                                    => wk2[i] = "absent" /\ vd2[i] = "none")
               => Quiet(rs, vd, wk, rs, vd2, wk2)
<1>1. Data(rs, vd2, wk2) /\ DOMAIN rs = 1..Len(rs)
  BY DEF Data
<1>2. Grows(rs, vd, rs, vd2)
  BY <1>1 DEF Grows, Data
<1>3. Truthful(rs, vd2, wk2)
  <2> SUFFICES ASSUME NEW id \in DOMAIN rs
               PROVE  /\ TrueTo(rs[id].ex, vd2[id])
                      /\ AllPassed(rs, vd2, rs[id].task - 1)
                      /\ \A b \in DOMAIN rs : id <= b => rs[id].task <= rs[b].task
                      /\ rs[id].attempt > 1 => id > 1
                      /\ wk2[id] \in {"running", "stuck"} => vd2[id] = "none"
                      /\ wk2[id] \in {"succeeded", "failed"} => vd2[id] = wk2[id]
    BY DEF Truthful
  <2>1. TrueTo(rs[id].ex, vd2[id])
    BY <1>1, TrueStable DEF Truthful
  <2>2. AllPassed(rs, vd2, rs[id].task - 1)
    BY <1>2, PassedStable DEF Truthful
  <2>3. QED
    BY <1>1, <2>1, <2>2 DEF Truthful
<1>4. QED
  BY <1>1, <1>2, <1>3 DEF Quiet

\* A record is written over with one that is true.
LEMMA RecordMoves ==
  ASSUME NEW rs, NEW vd, NEW wk, Data(rs, vd, wk), Truthful(rs, vd, wk),
         NEW id \in 1..Len(rs), NEW ex \in Record, TrueTo(ex, vd[id])
  PROVE  LET rs2 == [rs EXCEPT ![id] = [rs[id] EXCEPT !.ex = ex]]
         IN  Data(rs2, vd, wk) /\ Truthful(rs2, vd, wk) /\ Quiet(rs, vd, wk, rs2, vd, wk)
<1> DEFINE rs2 == [rs EXCEPT ![id] = [rs[id] EXCEPT !.ex = ex]]
<1>1. rs \in Seq(Executions) /\ id \in DOMAIN rs /\ DOMAIN rs = 1..Len(rs) /\ Len(rs) \in Nat
  BY DEF Data
<1>2. /\ rs2 \in Seq(Executions) /\ Len(rs2) = Len(rs) /\ DOMAIN rs2 = DOMAIN rs
      /\ \A i \in DOMAIN rs :
           /\ rs2[i].task = rs[i].task /\ rs2[i].provider = rs[i].provider
           /\ rs2[i].attempt = rs[i].attempt /\ rs2[i].previous = rs[i].previous
           /\ rs2[i].ex = IF i = id THEN ex ELSE rs[i].ex
  BY <1>1, WriteType
<1> HIDE DEF rs2
<1>3. Data(rs2, vd, wk)
  BY <1>1, <1>2 DEF Data
<1>4. Quiet(rs, vd, wk, rs2, vd, wk)
  BY <1>1, <1>2 DEF Quiet, Grows
<1>5. Truthful(rs2, vd, wk)
  <2>1. ASSUME NEW i \in DOMAIN rs2 PROVE TrueTo(rs2[i].ex, vd[i])
    BY <1>2, <2>1 DEF Truthful
  <2>2. ASSUME NEW i \in DOMAIN rs2 PROVE AllPassed(rs2, vd, rs2[i].task - 1)
    <3>1. AllPassed(rs, vd, rs[i].task - 1) /\ Grows(rs, vd, rs2, vd)
      BY <1>2, <1>4, <2>2 DEF Truthful, Quiet
    <3>2. QED
      BY <1>2, <2>2, <3>1, PassedStable
  <2>3. QED
    BY <1>2, <2>1, <2>2 DEF Truthful
<1>6. QED
  BY <1>3, <1>4, <1>5 DEF rs2

\* tracked.to writes what is true of the work.
LEMMA TrackedMoves ==
  ASSUME Data(recs, verdict, work), Truthful(recs, verdict, work),
         NEW id \in 1..Len(recs), NEW m \in Record, NEW next \in State,
         TrueTo(To(m, next), verdict[id]), Tracked(id, m, next)
  PROVE  /\ Data(recs', verdict, work) /\ Truthful(recs', verdict, work)
         /\ Quiet(recs, verdict, work, recs', verdict, work)
<1>1. CASE ~up
  BY <1>1, QuietRefl DEF Tracked
<1>2. CASE up
  <2> DEFINE ex == Put(recs[id].ex, m, next)
  <2>1. recs[id] \in Executions /\ recs[id].ex \in Record /\ TrueTo(recs[id].ex, verdict[id])
    BY ExecutionType DEF Truthful
  <2>2. ex \in Record /\ TrueTo(ex, verdict[id])
    BY <2>1, PutType, PutTrue
  <2>3. recs' = [recs EXCEPT ![id] = [recs[id] EXCEPT !.ex = ex]]
    BY <1>2, <2>1 DEF Tracked, Set, Executions
  <2> HIDE DEF ex
  <2>4. QED
    BY <2>2, <2>3, RecordMoves
<1>3. QED
  BY <1>1, <1>2

\* A step that leaves the data alone.
LEMMA RunMoves ==
  ASSUME Inv, NEW s \in Server, UNCHANGED <<recs, verdict, work>>,
         run' = [run EXCEPT ![s] = run'[s]], Good(run'[s], recs, verdict, work),
         Submits(run'[s]) => Submits(run[s])
  PROVE  Moves(s)
BY RunFacts, QuietRefl DEF Moves, Quiet

\* An attempt that ends in an error: it is recorded, then the run goes on.
LEMMA AttemptFailsMoves ==
  ASSUME Inv, NEW s \in Server, run[s].pc \in {"submit", "poll", "status"}, AttemptFails(s)
  PROVE  /\ Data(recs', verdict, work) /\ Truthful(recs', verdict, work)
         /\ Quiet(recs, verdict, work, recs', verdict, work)
         /\ run' = [run EXCEPT ![s] = run'[s]]
         /\ Good(run'[s], recs, verdict, work) /\ run'[s].pc \notin {"pause", "submit"}
         /\ Submits(run'[s]) => Submits(run[s])
<1> DEFINE r == run[s]
           m == [r.mem EXCEPT !.failure = TRUE]
           f == To(m, FailedState(m))
<1>1. /\ Data(recs, verdict, work) /\ Truthful(recs, verdict, work)
      /\ r \in Runs(Len(recs)) /\ Sound(r, recs, verdict)
  BY RunFacts
<1>2. r.mem \in Record /\ r.id \in 1..Len(recs) /\ TrueTo(r.mem, verdict[r.id]) /\ r.mem.state \notin Terminal
  BY <1>1 DEF Sound, Attempting, Runs, Data, Pending, Terminal
<1>3. m \in Record /\ FailedState(m) \in State /\ TrueTo(f, verdict[r.id])
  BY <1>2, ToType, FailureTrue DEF State
<1>4. f \in Record
  BY <1>3, ToType
<1>5. Tracked(r.id, m, FailedState(m)) /\ GivesUp(s, [r EXCEPT !.mem = f])
  BY DEF AttemptFails
<1> HIDE DEF f, m
<1>6. /\ Data(recs', verdict, work) /\ Truthful(recs', verdict, work)
      /\ Quiet(recs, verdict, work, recs', verdict, work)
  BY <1>1, <1>2, <1>3, <1>5, TrackedMoves DEF f
<1>7. QED
  BY <1>3, <1>4, <1>5, <1>6, GivesUpGood

-----------------------------------------------------------------------------
\* Every step of a run is such a step: one lemma for each.

\* A server doing nothing knows nothing.
LEMMA IdleGood ==
  ASSUME NEW rs, NEW vd, NEW wk, Data(rs, vd, wk),
         NEW r, r = Idle \/ r = [Idle EXCEPT !.pc = "list"]
  PROVE  Good(r, rs, vd, wk) /\ ~Submits(r)
<1>1. Idle \in Runs(Len(rs))
  BY IdleType DEF Data
<1>2. Idle.pc = "idle" /\ Idle.snapshot = <<>> /\ Idle.outcome = "unanswered"
  BY DEF Idle
<1>3. r \in Runs(Len(rs)) /\ r.pc \in {"idle", "list"} /\ r.snapshot = <<>> /\ r.outcome = "unanswered"
  BY <1>1, <1>2 DEF Runs, Steps
<1>4. Sound(r, rs, vd)
  BY <1>3 DEF Sound, Attempting, Data
<1>5. QED
  BY <1>3, <1>4 DEF Good, Submits, Attempting

\* A run that did no more than lose its lease or hear that it is cancelled.
LEMMA FlagGood ==
  ASSUME NEW rs, NEW vd, NEW wk, NEW r, Good(r, rs, vd, wk),
         NEW q, q = [r EXCEPT !.lost = TRUE] \/ q = [r EXCEPT !.cancelled = TRUE]
  PROVE  Good(q, rs, vd, wk) /\ (Submits(q) => Submits(r))
<1>1. r \in Runs(Len(rs))
  BY DEF Good
<1>2. /\ q \in Runs(Len(rs))
      /\ q.pc = r.pc /\ q.task = r.task /\ q.left = r.left /\ q.tried = r.tried
      /\ q.id = r.id /\ q.mem = r.mem /\ q.seen = r.seen /\ q.snapshot = r.snapshot
      /\ q.next = r.next /\ q.outcome = r.outcome
  BY <1>1 DEF Runs
<1>3. Sound(q, rs, vd)
  BY <1>2 DEF Sound, Good
<1>4. Submits(q) <=> Submits(r)
  BY <1>2 DEF Submits
<1>5. Submits(r) => Leads(q, rs, vd, wk)
  BY <1>2 DEF Leads, Good
<1>6. QED
  BY <1>2, <1>3, <1>4, <1>5 DEF Good

\* Dispatcher.Run takes its next task, or ends.
LEMMA TaskMoves == ASSUME Inv, NEW s \in Server, Task(s) PROVE Moves(s)
<1> DEFINE r == run[s]
<1>1. /\ Data(recs, verdict, work) /\ r \in Runs(Len(recs)) /\ Sound(r, recs, verdict)
      /\ Submits(r) /\ Leads(r, recs, verdict, work)
  BY RunFacts DEF Task, Sound, Submits
<1>2. run \in [Server -> Runs(Len(recs))]
  BY TypeFacts DEF Inv
<1>3. ASSUME Becomes(s, Over(r, "unanswered")) PROVE Moves(s)
  <2>1. run' = [run EXCEPT ![s] = run'[s]] /\ run'[s] = Over(r, "unanswered")
    BY <1>2, <1>3 DEF Becomes
  <2>2. Good(run'[s], recs, verdict, work) /\ ~Submits(run'[s])
    BY <1>1, <2>1, OverGood DEF Ending
  <2>3. QED
    BY <2>1, <2>2, RunMoves DEF Task
<1>4. ASSUME NEW ranking \in Rankings,
             Becomes(s, [r EXCEPT !.pc = "prepare", !.left = ranking, !.tried = 0, !.id = 0,
                                  !.mem = Pending, !.seen = "pending"])
      PROVE  Moves(s)
  <2> DEFINE q == [r EXCEPT !.pc = "prepare", !.left = ranking, !.tried = 0, !.id = 0,
                            !.mem = Pending, !.seen = "pending"]
  <2>1. run' = [run EXCEPT ![s] = run'[s]] /\ run'[s] = q
    BY <1>2, <1>4 DEF Becomes
  <2>2. q \in Runs(Len(recs))
    <3>1. Pending \in Record /\ "pending" \in State
      BY DEF Pending, Record, State
    <3>2. 0 \in 0..Len(recs) /\ 0 \in Nat
      BY <1>1 DEF Data
    <3>3. QED
      BY <1>1, <3>1, <3>2 DEF Runs, Steps
  <2>3. /\ q.pc = "prepare" /\ q.task = r.task /\ q.tried = 0 /\ q.id = 0
        /\ q.snapshot = r.snapshot /\ q.outcome = r.outcome
    BY <1>1 DEF Runs
  <2> HIDE DEF q
  <2>4. r.snapshot = <<>> /\ r.outcome = "unanswered" /\ r.pc = "task"
    BY <1>1 DEF Task, Sound
  <2>5. Sound(q, recs, verdict)
    BY <1>1, <2>3, <2>4 DEF Sound, Attempting, Data
  <2>6. Leads(q, recs, verdict, work)
    <3>1. \A id \in DOMAIN recs : recs[id].task < r.task /\ recs[id].task # r.task
      BY <1>1, <2>4, ExecutionType DEF Leads, Data, Runs
    <3>2. QED
      BY <1>1, <2>3, <3>1 DEF Leads, Attempting
  <2>7. QED
    BY <1>1, <2>1, <2>2, <2>5, <2>6, RunMoves DEF Good, Task
<1>5. QED
  BY <1>3, <1>4 DEF Task

\* The backoff.
LEMMA PauseMoves == ASSUME Inv, NEW s \in Server, Pause(s) PROVE Moves(s)
<1> DEFINE r == run[s]
<1>1. /\ Data(recs, verdict, work) /\ r \in Runs(Len(recs)) /\ Sound(r, recs, verdict)
      /\ Submits(r) /\ Leads(r, recs, verdict, work)
  BY RunFacts DEF Pause, Sound, Submits, Attempting
<1>2. run \in [Server -> Runs(Len(recs))]
  BY TypeFacts DEF Inv
<1>3. ASSUME Becomes(s, Over(r, "unanswered")) PROVE Moves(s)
  <2>1. run' = [run EXCEPT ![s] = run'[s]] /\ run'[s] = Over(r, "unanswered")
    BY <1>2, <1>3 DEF Becomes
  <2>2. Good(run'[s], recs, verdict, work) /\ ~Submits(run'[s])
    BY <1>1, <2>1, OverGood DEF Ending
  <2>3. QED
    BY <2>1, <2>2, RunMoves DEF Pause
<1>4. ASSUME Becomes(s, [r EXCEPT !.pc = "submit", !.tried = @ + 1]) PROVE Moves(s)
  <2> DEFINE q == [r EXCEPT !.pc = "submit", !.tried = r.tried + 1]
  <2>1. run' = [run EXCEPT ![s] = run'[s]] /\ run'[s] = q
    BY <1>1, <1>2, <1>4 DEF Becomes, Runs
  <2>2. /\ q \in Runs(Len(recs))
        /\ q.pc = "submit" /\ q.task = r.task /\ q.tried = r.tried + 1 /\ q.id = r.id
        /\ q.left = r.left /\ q.mem = r.mem
        /\ q.snapshot = r.snapshot /\ q.outcome = r.outcome
    <3>1. r.tried + 1 \in Nat
      BY <1>1 DEF Runs
    <3>2. QED
      BY <1>1, <3>1 DEF Runs, Steps
  <2> HIDE DEF q
  <2>3. r.snapshot = <<>> /\ r.outcome = "unanswered" /\ r.pc = "pause"
    BY <1>1 DEF Pause, Sound
  <2>4. Sound(q, recs, verdict)
    BY <1>1, <2>2, <2>3 DEF Sound, Attempting, Data
  <2>5. Leads(q, recs, verdict, work)
    BY <1>1, <2>2, <2>3 DEF Leads, Attempting
  <2>6. QED
    BY <1>1, <2>1, <2>2, <2>4, <2>5, RunMoves DEF Good, Pause
<1>5. QED
  BY <1>3, <1>4 DEF Pause

\* Dispatcher.Finish.
LEMMA EndMoves == ASSUME Inv, NEW s \in Server, End(s) PROVE Moves(s)
<1>1. run' = [run EXCEPT ![s] = run'[s]] /\ run'[s] = Idle
  BY TypeFacts DEF Inv, End, Becomes
<1>2. Good(Idle, recs, verdict, work) /\ ~Submits(Idle)
  BY RunFacts, IdleGood
<1>3. QED
  BY <1>1, <1>2, RunMoves DEF End

\* Dispatcher.Resume reads the executions it will follow.
LEMMA ListMoves == ASSUME Inv, NEW s \in Server, List(s) PROVE Moves(s)
<1> DEFINE r == run[s]
           copies == [id \in Id |-> recs[id].ex]
           q == [r EXCEPT !.snapshot = copies]
<1>1. /\ Data(recs, verdict, work) /\ Truthful(recs, verdict, work)
      /\ r \in Runs(Len(recs)) /\ Id = 1..Len(recs)
      /\ run \in [Server -> Runs(Len(recs))]
  BY RunFacts, TypeFacts DEF Inv
<1>2. /\ copies \in Seq(Record) /\ Len(copies) = Len(recs)
      /\ \A id \in DOMAIN copies : TrueTo(copies[id], verdict[id])
  <2>1. \A id \in 1..Len(recs) : recs[id].ex \in Record /\ TrueTo(recs[id].ex, verdict[id])
    BY <1>1, ExecutionType DEF Truthful
  <2>2. copies \in [1..Len(recs) -> Record] /\ Len(recs) \in Nat
    BY <1>1, <2>1 DEF Data
  <2>3. QED
    BY <1>1, <2>1, <2>2
<1> HIDE DEF copies
<1>3. q \in Runs(Len(recs)) /\ q.snapshot = copies
  BY <1>1, <1>2 DEF Runs
<1> HIDE DEF q
<1>4. Good(FollowFrom(q, 1), recs, verdict, work) /\ ~Submits(FollowFrom(q, 1))
  <2>1. Len(q.snapshot) <= Len(recs)
    BY <1>1, <1>2, <1>3 DEF Data
  <2>2. QED
    BY <1>1, <1>2, <1>3, <2>1, FollowGood
<1>5. Good(Idle, recs, verdict, work) /\ ~Submits(Idle)
  BY <1>1, IdleGood
<1>6. /\ run' = [run EXCEPT ![s] = run'[s]]
      /\ run'[s] = FollowFrom(q, 1) \/ run'[s] = Idle
  BY <1>1 DEF List, Becomes, q, copies
<1>7. QED
  BY <1>4, <1>5, <1>6, RunMoves DEF List

\* Until its ending, a run is about the attempt in hand.
LEMMA InHand ==
  ASSUME Inv, NEW s \in Server,
         run[s].pc \in {"submit", "record", "poll", "result", "release", "status"}
  PROVE  /\ run[s].id \in 1..Len(recs) /\ run[s].mem \in Record
         /\ TrueTo(run[s].mem, verdict[run[s].id])
         /\ run[s].pc # "release" => run[s].mem.state \notin Terminal
         /\ run[s].snapshot = <<>> => Submits(run[s]) /\ run[s].outcome = "unanswered"
BY RunFacts DEF Sound, Attempting, Submits, Data, Runs, Pending, Terminal

\* Run q is r gone on with the attempt in hand: where it is and what it knows of
\* the attempt change, and nothing else.
SameAttempt(r, q) ==
    /\ q.task = r.task /\ q.left = r.left /\ q.tried = r.tried /\ q.id = r.id
    /\ q.snapshot = r.snapshot /\ q.outcome = r.outcome

\* A run that goes on with the same attempt.
LEMMA AttemptGood ==
  ASSUME NEW rs, NEW vd, NEW wk, NEW r, Good(r, rs, vd, wk),
         r.pc \in {"submit", "record", "poll", "result", "status"},
         NEW q \in Runs(Len(rs)), SameAttempt(r, q),
         q.pc \in {"record", "poll", "result", "release"},
         TrueTo(q.mem, vd[q.id]),
         q.pc = "record" /\ q.seen \in Terminal => q.mem = Pending,
         q.pc \in {"record", "poll", "result"} => q.mem.state \notin Terminal,
         q.pc \in {"poll", "result"} => q.mem.state # "pending",
         q.pc \in {"result", "release"} => q.seen \in Terminal,
         q.pc # "poll" /\ q.seen \in {"succeeded", "failed"} => vd[q.id] = q.seen
  PROVE  Good(q, rs, vd, wk) /\ (Submits(q) => Submits(r))
<1> USE DEF SameAttempt
<1>1. Sound(q, rs, vd)
  BY DEF Sound, Good, Attempting
<1>2. Submits(q) => Submits(r)
  BY DEF Submits, Attempting, Good, Sound
<1>3. Submits(q) => Leads(q, rs, vd, wk)
  BY <1>2 DEF Leads, Good, Attempting, Submits
<1>4. QED
  BY <1>1, <1>2, <1>3 DEF Good

\* One poll of watch.
LEMMA PollMoves == ASSUME Inv, NEW s \in Server, Poll(s) PROVE Moves(s)
<1> DEFINE r == run[s]
<1>1. /\ Data(recs, verdict, work) /\ Truthful(recs, verdict, work)
      /\ Good(r, recs, verdict, work) /\ r.pc = "poll"
      /\ r \in Runs(Len(recs)) /\ Sound(r, recs, verdict)
      /\ run \in [Server -> Runs(Len(recs))]
  BY RunFacts, TypeFacts DEF Inv, Poll
<1>2. /\ r.id \in 1..Len(recs) /\ r.mem \in Record /\ TrueTo(r.mem, verdict[r.id])
      /\ r.mem.state \notin Terminal /\ r.mem.state # "pending"
  BY <1>1, InHand DEF Sound
<1>3. ASSUME NEW pc \in {"record", "result"}, NEW seen \in State,
             Becomes(s, [r EXCEPT !.pc = pc, !.seen = seen]), UNCHANGED <<recs, verdict, work>>,
             pc = "record" => seen \notin Terminal,
             pc = "result" => seen \in Terminal /\ seen = work[r.id]
      PROVE  Moves(s)
  <2> DEFINE q == [r EXCEPT !.pc = pc, !.seen = seen]
  <2>1. run' = [run EXCEPT ![s] = run'[s]] /\ run'[s] = q
    BY <1>1, <1>3 DEF Becomes
  <2>2. /\ q \in Runs(Len(recs)) /\ SameAttempt(r, q)
        /\ q.pc = pc /\ q.seen = seen /\ q.mem = r.mem /\ q.id = r.id
    BY <1>1 DEF Runs, Steps, SameAttempt
  <2>3. seen \in {"succeeded", "failed"} => verdict[r.id] = seen
    BY <1>1, <1>2, <1>3 DEF Truthful, Data, Terminal
  <2> HIDE DEF q
  <2>4. Good(q, recs, verdict, work) /\ (Submits(q) => Submits(r))
    BY <1>1, <1>2, <1>3, <2>2, <2>3, AttemptGood
  <2>5. QED
    BY <1>3, <2>1, <2>4, RunMoves
<1>4. ASSUME AttemptFails(s), UNCHANGED <<work, verdict>> PROVE Moves(s)
  <2>1. /\ Data(recs', verdict, work) /\ Truthful(recs', verdict, work)
        /\ Quiet(recs, verdict, work, recs', verdict, work)
        /\ run' = [run EXCEPT ![s] = run'[s]]
        /\ Good(run'[s], recs, verdict, work)
        /\ Submits(run'[s]) => Submits(run[s])
    BY <1>1, <1>4, AttemptFailsMoves
  <2>2. Good(run'[s], recs', verdict, work)
    BY <1>1, <2>1, GoodStable DEF Quiet
  <2>3. QED
    BY <1>4, <2>1, <2>2 DEF Moves, Quiet
<1>5. work[r.id] \in Terminal => work[r.id] \in State
  BY DEF Terminal, State
<1>6. /\ "lost" \in State \ Terminal
      /\ Known(s, r.id) /\ work[r.id] \notin Terminal => Reported(r.id) \in State \ Terminal
  BY <1>1, <1>2 DEF Known, Reported, Data, Terminal, State
<1>7. QED
  BY <1>3, <1>4, <1>5, <1>6 DEF Poll

\* Dispatcher.resume asks the provider what it knows.
LEMMA ResumeStatusMoves == ASSUME Inv, NEW s \in Server, ResumeStatus(s) PROVE Moves(s)
<1> DEFINE r == run[s]
<1>1. /\ Data(recs, verdict, work) /\ Truthful(recs, verdict, work)
      /\ Good(r, recs, verdict, work) /\ r.pc = "status"
      /\ r \in Runs(Len(recs)) /\ Sound(r, recs, verdict)
      /\ run \in [Server -> Runs(Len(recs))]
  BY RunFacts, TypeFacts DEF Inv, ResumeStatus
<1>2. /\ r.id \in 1..Len(recs) /\ r.mem \in Record /\ TrueTo(r.mem, verdict[r.id])
      /\ r.mem.state \notin Terminal
  BY <1>1, InHand
<1>3. ASSUME NEW seen \in State,
             Becomes(s, [r EXCEPT !.pc = "poll", !.seen = seen, !.mem = To(@, "submitted")]),
             Tracked(r.id, r.mem, "submitted"), UNCHANGED <<verdict, work>>
      PROVE  Moves(s)
  <2> DEFINE m == To(r.mem, "submitted")
             q == [r EXCEPT !.pc = "poll", !.mem = m, !.seen = seen]
  <2>1. run' = [run EXCEPT ![s] = run'[s]] /\ run'[s] = q
    <3>1. [r EXCEPT !.pc = "poll", !.seen = seen, !.mem = To(@, "submitted")] = q
      BY <1>1 DEF Runs
    <3>2. QED
      BY <1>1, <1>3, <3>1 DEF Becomes
  <2>2. m \in Record /\ TrueTo(m, verdict[r.id]) /\ "submitted" \in State
    BY <1>2, ToType, ToTrue DEF State
  <2>3. m.state \notin Terminal /\ m.state # "pending"
    BY <1>2 DEF To, CanTransition, LegalTransitions, Terminal, Record, State
  <2> HIDE DEF m
  <2>4. /\ Data(recs', verdict, work) /\ Truthful(recs', verdict, work)
        /\ Quiet(recs, verdict, work, recs', verdict, work)
    BY <1>1, <1>2, <1>3, <2>2, TrackedMoves DEF m
  <2>5. /\ q \in Runs(Len(recs)) /\ SameAttempt(r, q)
        /\ q.pc = "poll" /\ q.mem = m /\ q.id = r.id
    BY <1>1, <2>2 DEF Runs, Steps, SameAttempt
  <2> HIDE DEF q
  <2>6. Good(q, recs, verdict, work) /\ (Submits(q) => Submits(r))
    BY <1>1, <1>3, <2>2, <2>3, <2>5, AttemptGood
  <2>7. Good(q, recs', verdict, work)
    BY <1>1, <2>4, <2>6, GoodStable DEF Quiet
  <2>8. QED
    BY <1>3, <2>1, <2>4, <2>6, <2>7 DEF Moves, Quiet
<1>4. ASSUME AttemptFails(s), UNCHANGED <<work, verdict>> PROVE Moves(s)
  <2>1. /\ Data(recs', verdict, work) /\ Truthful(recs', verdict, work)
        /\ Quiet(recs, verdict, work, recs', verdict, work)
        /\ run' = [run EXCEPT ![s] = run'[s]]
        /\ Good(run'[s], recs, verdict, work)
        /\ Submits(run'[s]) => Submits(run[s])
    BY <1>1, <1>4, AttemptFailsMoves
  <2>2. Good(run'[s], recs', verdict, work)
    BY <1>1, <2>1, GoodStable DEF Quiet
  <2>3. QED
    BY <1>4, <2>1, <2>2 DEF Moves, Quiet
<1>5. Told(s, r.id) \subseteq State
  BY <1>1, <1>2 DEF Told, Known, Reported, Data, Terminal, State
<1>6. QED
  BY <1>3, <1>4, <1>5 DEF ResumeStatus

\* tracked.submitted, and the state a poll reported.
LEMMA RecordStateMoves == ASSUME Inv, NEW s \in Server, RecordState(s) PROVE Moves(s)
<1> DEFINE r == run[s]
           m1 == To(r.mem, "submitted")
           m2 == [m1 EXCEPT !.result = r.seen \in Terminal]
           m3 == To(m2, r.seen)
           v == verdict[r.id]
           q == [r EXCEPT !.pc = IF r.seen \in Terminal THEN "release" ELSE "poll", !.mem = m3]
           ex == Put(Put(recs[r.id].ex, r.mem, "submitted"), m2, r.seen)
<1>1. /\ Data(recs, verdict, work) /\ Truthful(recs, verdict, work)
      /\ Good(r, recs, verdict, work) /\ r.pc = "record"
      /\ r \in Runs(Len(recs)) /\ Sound(r, recs, verdict)
      /\ run \in [Server -> Runs(Len(recs))]
  BY RunFacts, TypeFacts DEF Inv, RecordState
<1>2. /\ r.id \in 1..Len(recs) /\ r.mem \in Record /\ TrueTo(r.mem, v)
      /\ r.mem.state \notin Terminal /\ r.seen \in State
  BY <1>1, InHand DEF Runs
<1>3. m1 \in Record /\ TrueTo(m1, v) /\ "submitted" \in State
  BY <1>2, ToType, ToTrue DEF State
<1>4. m1.state \notin Terminal /\ m1.state # "pending"
  BY <1>2 DEF To, CanTransition, LegalTransitions, Terminal, Record, State
<1>5. m2 \in Record /\ m2.state = m1.state /\ m2.failure = m1.failure /\ (m2.result <=> r.seen \in Terminal)
  <2>1. (r.seen \in Terminal) \in BOOLEAN
    OBVIOUS
  <2> HIDE DEF m1
  <2>2. QED
    BY <1>3, <2>1 DEF Record
<1>6. m3 \in Record
  BY <1>2, <1>5, ToType
<1>7. TrueTo(m3, v)
  <2>1. CASE r.seen \in Terminal
    <3>1. m2 = [m1 EXCEPT !.result = TRUE]
      BY <2>1
    <3>2. r.seen \in {"succeeded", "failed"} => v = r.seen
      BY <1>1 DEF Sound
    <3> HIDE DEF m1, v
    <3>3. QED
      BY <1>3, <1>4, <2>1, <3>1, <3>2, ResultTrue
  <2>2. CASE r.seen \notin Terminal
    <3>1. TrueTo(m2, v)
      BY <1>3, <1>4, <1>5, <2>2 DEF TrueTo, Terminal
    <3> HIDE DEF m1, m2, v
    <3>2. QED
      BY <1>2, <1>4, <1>5, <2>2, <3>1, ToTrue DEF Terminal
  <2>3. QED
    BY <2>1, <2>2
<1>8. r.seen \notin Terminal => m3.state \notin Terminal /\ m3.state # "pending"
  <2> HIDE DEF m1, m2
  <2>1. QED
    BY <1>2, <1>4, <1>5 DEF To, CanTransition, LegalTransitions, Terminal, Record, State
<1>9. ex \in Record /\ TrueTo(ex, v)
  <2> HIDE DEF m2, v
  <2>1. recs[r.id].ex \in Record /\ TrueTo(recs[r.id].ex, v)
    BY <1>1, <1>2, ExecutionType DEF Truthful, v
  <2>2. /\ Put(recs[r.id].ex, r.mem, "submitted") \in Record
        /\ TrueTo(Put(recs[r.id].ex, r.mem, "submitted"), v)
    BY <1>2, <1>3, <2>1, PutType, PutTrue
  <2>3. QED
    BY <1>2, <1>5, <1>7, <2>2, PutType, PutTrue
<1>10. recs' = [recs EXCEPT ![r.id] = [recs[r.id] EXCEPT !.ex = ex]] \/ UNCHANGED recs
  <2>1. recs[r.id] \in Executions
    BY <1>1, <1>2, ExecutionType
  <2>2. QED
    BY <2>1 DEF RecordState, Set, Executions
<1>11. run' = [run EXCEPT ![s] = run'[s]] /\ run'[s] = q
  BY <1>1 DEF RecordState, Becomes
<1>12. UNCHANGED <<work, verdict>>
  BY DEF RecordState
<1>13. /\ q \in Runs(Len(recs)) /\ SameAttempt(r, q) /\ q.id = r.id
       /\ q.pc = (IF r.seen \in Terminal THEN "release" ELSE "poll")
       /\ q.mem = m3 /\ q.seen = r.seen
  <2> HIDE DEF m3
  <2>1. QED
    BY <1>1, <1>6 DEF Runs, Steps, SameAttempt
<1>14. r.seen \in {"succeeded", "failed"} => v = r.seen
  BY <1>1 DEF Sound
<1> HIDE DEF q, m1, m2, m3, ex
<1>15. Good(q, recs, verdict, work) /\ (Submits(q) => Submits(r))
  BY <1>1, <1>7, <1>8, <1>13, <1>14, AttemptGood
<1>16. /\ Data(recs', verdict, work) /\ Truthful(recs', verdict, work)
       /\ Quiet(recs, verdict, work, recs', verdict, work)
  BY <1>1, <1>2, <1>9, <1>10, RecordMoves, QuietRefl
<1>17. Good(q, recs', verdict, work)
  BY <1>1, <1>15, <1>16, GoodStable DEF Quiet
<1>18. QED
  BY <1>11, <1>12, <1>15, <1>16, <1>17 DEF Moves, Quiet

\* Provider.Result and tracked.finish.
LEMMA ResultMoves == ASSUME Inv, NEW s \in Server, Result(s) PROVE Moves(s)
<1> DEFINE r == run[s]
           v == verdict[r.id]
           m == [r.mem EXCEPT !.result = TRUE]
<1>1. /\ Data(recs, verdict, work) /\ Truthful(recs, verdict, work)
      /\ Good(r, recs, verdict, work) /\ r.pc = "result"
      /\ r \in Runs(Len(recs)) /\ Sound(r, recs, verdict)
      /\ run \in [Server -> Runs(Len(recs))]
      /\ UNCHANGED <<work, verdict>>
  BY RunFacts, TypeFacts DEF Inv, Result
<1>2. /\ r.id \in 1..Len(recs) /\ r.mem \in Record /\ TrueTo(r.mem, v)
      /\ r.mem.state \notin Terminal /\ r.mem.state # "pending"
      /\ r.seen \in Terminal /\ r.seen \in State
      /\ r.seen \in {"succeeded", "failed"} => v = r.seen
  BY <1>1, InHand DEF Sound, Runs
<1>3. ASSUME Tracked(r.id, m, r.seen),
             Becomes(s, [r EXCEPT !.pc = "release", !.mem = To(m, r.seen)])
      PROVE  Moves(s)
  <2> DEFINE f == To(m, r.seen)
             q == [r EXCEPT !.pc = "release", !.mem = f]
  <2>1. m \in Record /\ f \in Record
    BY <1>2, ToType
  <2>2. TrueTo(f, v)
    <3> HIDE DEF v
    <3>1. QED
      BY <1>2, ResultTrue
  <2>3. run' = [run EXCEPT ![s] = run'[s]] /\ run'[s] = q
    BY <1>1, <1>3 DEF Becomes
  <2> HIDE DEF f, m
  <2>4. /\ q \in Runs(Len(recs)) /\ SameAttempt(r, q) /\ q.id = r.id
        /\ q.pc = "release" /\ q.mem = f /\ q.seen = r.seen
    BY <1>1, <2>1 DEF Runs, Steps, SameAttempt
  <2> HIDE DEF q
  <2>5. Good(q, recs, verdict, work) /\ (Submits(q) => Submits(r))
    BY <1>1, <1>2, <2>2, <2>4, AttemptGood
  <2>6. /\ Data(recs', verdict, work) /\ Truthful(recs', verdict, work)
        /\ Quiet(recs, verdict, work, recs', verdict, work)
    BY <1>1, <1>2, <1>3, <2>1, <2>2, TrackedMoves DEF f
  <2>7. Good(q, recs', verdict, work)
    BY <1>1, <2>5, <2>6, GoodStable DEF Quiet
  <2>8. QED
    BY <1>1, <2>3, <2>5, <2>6, <2>7 DEF Moves, Quiet
<1>4. ASSUME Tracked(r.id, r.mem, r.seen), GivesUp(s, [r EXCEPT !.mem = To(r.mem, r.seen)])
      PROVE  Moves(s)
  <2> DEFINE f == To(r.mem, r.seen)
  <2>1. f \in Record /\ TrueTo(f, v)
    BY <1>2, ToType, ToTrue
  <2>2. /\ Data(recs', verdict, work) /\ Truthful(recs', verdict, work)
        /\ Quiet(recs, verdict, work, recs', verdict, work)
    BY <1>1, <1>2, <1>4, <2>1, TrackedMoves
  <2> HIDE DEF f
  <2>3. /\ run' = [run EXCEPT ![s] = run'[s]]
        /\ Good(run'[s], recs, verdict, work)
        /\ Submits(run'[s]) => Submits(run[s])
    BY <1>1, <1>4, <2>1, GivesUpGood DEF f
  <2>4. Good(run'[s], recs', verdict, work)
    BY <1>1, <2>2, <2>3, GoodStable DEF Quiet
  <2>5. QED
    BY <1>1, <2>2, <2>3, <2>4 DEF Moves, Quiet
<1>5. QED
  BY <1>3, <1>4 DEF Result

\* What a cancellation makes of the work.
LEMMA CancelledWork ==
  ASSUME NEW rs, Data(rs, verdict, work), Truthful(rs, verdict, work), NEW id \in 1..Len(rs),
         ProviderCancel(id)
  PROVE  /\ Data(rs, verdict', work') /\ Truthful(rs, verdict', work')
         /\ Quiet(rs, verdict, work, rs, verdict', work')
<1>1. /\ verdict' \in [1..Len(rs) -> {"none"} \cup Terminal]
      /\ work' \in [1..Len(rs) -> {"absent", "running", "stuck"} \cup Terminal]
  BY DEF ProviderCancel, Data, Set, Cancelled, Terminal
<1>2. \A i \in 1..Len(rs) :
        /\ verdict[i] # "none" => verdict'[i] = verdict[i]
        /\ work'[i] \in {"running", "stuck"} => verdict'[i] = "none"
        /\ work'[i] \in {"succeeded", "failed"} => verdict'[i] = work'[i]
  BY DEF ProviderCancel, Data, Truthful, Set, Cancelled, Terminal
<1>3. \A i \in 1..Len(rs) :
        work[i] = "absent" /\ verdict[i] = "none" => work'[i] = "absent" /\ verdict'[i] = "none"
  BY DEF ProviderCancel, Data, Set, Cancelled, Terminal
<1>4. QED
  BY <1>1, <1>2, <1>3, WorkMoves

\* A cancelled run stops what it was following.
LEMMA AbandonMoves == ASSUME Inv, NEW s \in Server, Abandon(s) PROVE Moves(s)
<1> DEFINE r == run[s]
           f == To(r.mem, "cancelled")
<1>1. /\ Data(recs, verdict, work) /\ Truthful(recs, verdict, work)
      /\ r.pc = "poll" /\ r \in Runs(Len(recs))
      /\ Tracked(r.id, r.mem, "cancelled") /\ GivesUp(s, [r EXCEPT !.mem = f])
  BY RunFacts DEF Abandon
<1>2. /\ r.id \in 1..Len(recs) /\ r.mem \in Record /\ TrueTo(r.mem, verdict[r.id])
      /\ r.mem.state \notin Terminal
  BY <1>1, InHand
<1>3. f \in Record /\ TrueTo(f, verdict[r.id]) /\ "cancelled" \in State
  BY <1>2, ToType, ToTrue DEF State
<1>4. /\ Data(recs', verdict, work) /\ Truthful(recs', verdict, work)
      /\ Quiet(recs, verdict, work, recs', verdict, work)
  BY <1>1, <1>2, <1>3, TrackedMoves
<1>5. r.id \in 1..Len(recs')
  BY <1>2, <1>4 DEF Quiet
<1>6. /\ Data(recs', verdict', work') /\ Truthful(recs', verdict', work')
      /\ Quiet(recs', verdict, work, recs', verdict', work')
  <2>1. CASE UNCHANGED <<work, verdict>>
    BY <1>4, <2>1, QuietRefl
  <2>2. CASE ~ UNCHANGED <<work, verdict>>
    BY <1>4, <1>5, <2>2, CancelledWork DEF Abandon
  <2>3. QED
    BY <2>1, <2>2
<1>7. Quiet(recs, verdict, work, recs', verdict', work')
  BY <1>4, <1>6, QuietTrans
<1> HIDE DEF f
<1>8. /\ run' = [run EXCEPT ![s] = run'[s]]
      /\ Good(run'[s], recs, verdict, work)
      /\ Submits(run'[s]) => Submits(run[s])
  BY <1>1, <1>3, GivesUpGood
<1>9. Good(run'[s], recs', verdict', work')
  BY <1>1, <1>6, <1>7, <1>8, GoodStable DEF Quiet
<1>10. QED
  BY <1>6, <1>7, <1>8, <1>9 DEF Moves, Quiet

\* As GoodStable, of a run that has submitted.
LEMMA GoodAfter ==
  ASSUME NEW rs, NEW vd, NEW wk, Data(rs, vd, wk),
         NEW rs2, NEW vd2, NEW wk2, Data(rs2, vd2, wk2),
         Grows(rs, vd, rs2, vd2), Len(rs2) = Len(rs), DOMAIN rs2 = DOMAIN rs,
         NEW r, Good(r, rs, vd, wk), r.pc \notin {"pause", "submit"}
  PROVE  Good(r, rs2, vd2, wk2)
BY SoundStable, LeadsStable DEF Good

\* What a call to Submit starts: the work was absent, and had not ended.
LEMMA SubmitStarts ==
  ASSUME Inv, NEW s \in Server, run[s].pc = "submit",
         \/ UNCHANGED work
         \/ \E w \in {"running", "stuck"} : work' = Set(work, run[s].id, w),
         \/ UNCHANGED verdict
         \/ UNCHANGED work /\ \E v \in Terminal : verdict' = Set(verdict, run[s].id, v),
         NEW rs, Data(rs, verdict, work), Truthful(rs, verdict, work), Len(rs) = Len(recs)
  PROVE  Data(rs, verdict', work') /\ Truthful(rs, verdict', work') /\ Grows(rs, verdict, rs, verdict')
<1> DEFINE r == run[s]
<1>1. /\ Data(recs, verdict, work) /\ Good(r, recs, verdict, work) /\ Sound(r, recs, verdict)
  BY RunFacts, TypeFacts DEF Inv
<1>2. Submits(r) /\ Leads(r, recs, verdict, work) /\ r.id \in 1..Len(recs)
  BY <1>1, InHand DEF Sound, Good, Submits, Attempting, Leads, Data
<1>3. verdict[r.id] = "none" /\ work[r.id] = "absent"
  BY <1>2 DEF Leads
<1>4. /\ verdict' \in [1..Len(rs) -> {"none"} \cup Terminal]
      /\ work' \in [1..Len(rs) -> {"absent", "running", "stuck"} \cup Terminal]
  BY DEF Data, Set
<1>5. \A i \in 1..Len(rs) :
        /\ verdict[i] # "none" => verdict'[i] = verdict[i]
        /\ work'[i] \in {"running", "stuck"} => verdict'[i] = "none"
        /\ work'[i] \in {"succeeded", "failed"} => verdict'[i] = work'[i]
  BY <1>2, <1>3 DEF Data, Truthful, Set, Terminal
<1>6. QED
  BY <1>4, <1>5, WorkMoves

\* So does one whose answer never came.
LEMMA AttemptedStarts ==
  ASSUME NEW id, Attempted(id)
  PROVE  /\ \/ UNCHANGED work
            \/ \E w \in {"running", "stuck"} : work' = Set(work, id, w)
         /\ \/ UNCHANGED verdict
            \/ UNCHANGED work /\ \E v \in Terminal : verdict' = Set(verdict, id, v)
BY DEF Attempted, Terminal

\* Provider.Submit, the answer it may give and the work it may start.
LEMMA SubmitMoves == ASSUME Inv, NEW s \in Server, Submit(s) PROVE Moves(s)
<1> DEFINE r == run[s]
           n == Len(recs)
<1>1. /\ Data(recs, verdict, work) /\ Truthful(recs, verdict, work)
      /\ Good(r, recs, verdict, work) /\ r.pc = "submit"
      /\ r \in Runs(n) /\ Sound(r, recs, verdict)
      /\ run \in [Server -> Runs(n)]
  BY RunFacts, TypeFacts DEF Inv, Submit
<1>2. /\ r.id \in 1..n /\ r.mem \in Record /\ TrueTo(r.mem, verdict[r.id])
      /\ r.mem.state \notin Terminal /\ r.mem = Pending
      /\ Submits(r) /\ Leads(r, recs, verdict, work)
  BY <1>1, InHand DEF Sound, Good
<1>3. verdict[r.id] = "none" /\ work[r.id] = "absent"
  BY <1>1, <1>2 DEF Leads
<1>4. ASSUME \/ UNCHANGED work
             \/ \E w \in {"running", "stuck"} : work' = Set(work, r.id, w),
             UNCHANGED verdict \/ (UNCHANGED work /\ \E v \in Terminal : verdict' = Set(verdict, r.id, v))
      PROVE  \A rs : Data(rs, verdict, work) /\ Truthful(rs, verdict, work) /\ Len(rs) = n =>
                Data(rs, verdict', work') /\ Truthful(rs, verdict', work')
                /\ Grows(rs, verdict, rs, verdict')
  BY <1>1, <1>4, SubmitStarts
<1>5. ASSUME NEW seen \in State, Becomes(s, [r EXCEPT !.pc = "record", !.seen = seen]),
             UNCHANGED recs, Data(recs, verdict', work'), Truthful(recs, verdict', work'),
             Grows(recs, verdict, recs, verdict'),
             seen \in {"succeeded", "failed"} => verdict'[r.id] = seen
      PROVE  Moves(s)
  <2> DEFINE p == [r EXCEPT !.pc = "record", !.seen = "running"]
             q == [r EXCEPT !.pc = "record", !.seen = seen]
  <2>1. run' = [run EXCEPT ![s] = run'[s]] /\ run'[s] = q
    BY <1>1, <1>5 DEF Becomes
  <2>2. /\ p \in Runs(n) /\ SameAttempt(r, p) /\ p.id = r.id
        /\ p.pc = "record" /\ p.mem = Pending /\ p.seen = "running" /\ p.seen \notin Terminal
    BY <1>1, <1>2 DEF Runs, Steps, SameAttempt, State, Terminal
  <2>3. /\ q \in Runs(n) /\ SameAttempt(p, q) /\ q.id = r.id
        /\ q.pc = "record" /\ q.mem = Pending /\ q.seen = seen
    BY <1>1, <1>2 DEF Runs, Steps, SameAttempt, State
  <2>4. Pending.state \notin Terminal /\ \A v : TrueTo(Pending, v)
    BY DEF Pending, Terminal, TrueTo
  <2> HIDE DEF p, q
  <2>5. Good(p, recs, verdict, work)
    BY <1>1, <2>2, <2>4, AttemptGood
  <2>6. Good(p, recs, verdict', work')
    BY <1>1, <1>5, <2>2, <2>5, GoodAfter
  <2>7. Good(q, recs, verdict', work')
    BY <1>5, <2>2, <2>3, <2>4, <2>6, AttemptGood
  <2>8. QED
    BY <1>2, <1>5, <2>1, <2>7 DEF Moves
<1>6. ASSUME AttemptFails(s),
             \A rs : Data(rs, verdict, work) /\ Truthful(rs, verdict, work) /\ Len(rs) = n =>
                Data(rs, verdict', work') /\ Truthful(rs, verdict', work')
                /\ Grows(rs, verdict, rs, verdict')
      PROVE  Moves(s)
  <2>1. /\ Data(recs', verdict, work) /\ Truthful(recs', verdict, work)
        /\ Quiet(recs, verdict, work, recs', verdict, work)
        /\ run' = [run EXCEPT ![s] = run'[s]]
        /\ Good(run'[s], recs, verdict, work) /\ run'[s].pc \notin {"pause", "submit"}
    BY <1>1, <1>6, AttemptFailsMoves
  <2>2. /\ Data(recs', verdict', work') /\ Truthful(recs', verdict', work')
        /\ Grows(recs', verdict, recs', verdict')
    BY <1>6, <2>1 DEF Quiet
  <2>3. Grows(recs, verdict, recs', verdict') /\ Len(recs') = n /\ DOMAIN recs' = DOMAIN recs
    BY <2>1, <2>2 DEF Quiet, Grows
  <2>4. Good(run'[s], recs', verdict', work')
    BY <1>1, <2>1, <2>2, <2>3, GoodAfter
  <2>5. QED
    BY <1>2, <2>1, <2>2, <2>3, <2>4 DEF Moves
<1>7. \/ /\ UNCHANGED verdict /\ work' = Set(work, r.id, "running") /\ UNCHANGED recs
         /\ Becomes(s, [r EXCEPT !.pc = "record", !.seen = "running"])
      \/ /\ UNCHANGED <<recs, work>>
         /\ \E st \in Submittable \cap Terminal :
              /\ verdict' = Set(verdict, r.id, st)
              /\ Becomes(s, [r EXCEPT !.pc = "record", !.seen = st])
      \/ /\ AttemptFails(s)
         /\ Attempted(r.id)
  BY DEF Submit
<1>8. CASE /\ UNCHANGED verdict /\ work' = Set(work, r.id, "running") /\ UNCHANGED recs
           /\ Becomes(s, [r EXCEPT !.pc = "record", !.seen = "running"])
  <2>1. /\ Data(recs, verdict', work') /\ Truthful(recs, verdict', work')
        /\ Grows(recs, verdict, recs, verdict')
    BY <1>1, <1>4, <1>8
  <2>2. "running" \in State
    BY DEF State
  <2>3. QED
    BY <1>5, <1>8, <2>1, <2>2
<1>9. CASE /\ UNCHANGED <<recs, work>>
           /\ \E st \in Submittable \cap Terminal :
                /\ verdict' = Set(verdict, r.id, st)
                /\ Becomes(s, [r EXCEPT !.pc = "record", !.seen = st])
  <2>1. PICK st \in Submittable \cap Terminal :
             /\ verdict' = Set(verdict, r.id, st)
             /\ Becomes(s, [r EXCEPT !.pc = "record", !.seen = st])
    BY <1>9
  <2>2. /\ Data(recs, verdict', work') /\ Truthful(recs, verdict', work')
        /\ Grows(recs, verdict, recs, verdict')
    BY <1>1, <1>4, <1>9, <2>1
  <2>3. st \in State /\ verdict'[r.id] = st
    BY <1>1, <1>2, <2>1 DEF State, Terminal, Set, Data
  <2>4. QED
    BY <1>5, <1>9, <2>1, <2>2, <2>3
<1>10. CASE AttemptFails(s) /\ Attempted(r.id)
  BY <1>4, <1>6, <1>10, AttemptedStarts
<1>11. QED
  BY <1>7, <1>8, <1>9, <1>10

\* Provider.Release, then what the run does with the answer.
LEMMA ReleaseMoves == ASSUME Inv, NEW s \in Server, Release(s) PROVE Moves(s)
<1> DEFINE r == run[s]
           n == Len(recs)
           q == Answered(r)
<1>1. /\ Data(recs, verdict, work) /\ Truthful(recs, verdict, work)
      /\ Good(r, recs, verdict, work) /\ r.pc = "release"
      /\ r \in Runs(n) /\ Sound(r, recs, verdict)
      /\ run \in [Server -> Runs(n)]
      /\ UNCHANGED verdict
  BY RunFacts, TypeFacts DEF Inv, Release
<1>2. /\ r.id \in 1..n /\ r.mem \in Record /\ TrueTo(r.mem, verdict[r.id])
      /\ r.seen \in Terminal /\ (r.seen \in {"succeeded", "failed"} => verdict[r.id] = r.seen)
      /\ r.snapshot = <<>> => Submits(r) /\ r.outcome = "unanswered"
  BY <1>1, InHand DEF Sound
<1>3. \/ r.seen = "cancelled" /\ q = [r EXCEPT !.next = "prepare"]
      \/ r.seen = "failed" /\ q = [r EXCEPT !.next = "end", !.outcome = "failed"]
      \/ r.seen = "succeeded" /\ r.task < Tasks /\ q = [r EXCEPT !.next = "task", !.task = r.task + 1]
      \/ r.seen = "succeeded" /\ r.task = Tasks /\ q = [r EXCEPT !.next = "end", !.outcome = "succeeded"]
  <2>1. r.task \in 1..Tasks /\ Tasks \in Nat
    BY <1>1, TasksAssumption DEF Runs
  <2>2. r.task < Tasks \/ r.task = Tasks
    BY <2>1
  <2>3. [r EXCEPT !.next = "task", !.task = @ + 1] = [r EXCEPT !.next = "task", !.task = r.task + 1]
    BY <1>1 DEF Runs
  <2>4. QED
    BY <1>2, <2>1, <2>2, <2>3 DEF Answered, Terminal
<1> HIDE DEF q
<1>4. /\ q \in Runs(n) /\ q.snapshot = r.snapshot /\ q.mem = r.mem /\ q.id = r.id
  <2>1. r.task < Tasks => r.task + 1 \in 1..Tasks
    BY <1>1, TasksAssumption DEF Runs
  <2>2. CASE q = [r EXCEPT !.next = "prepare"]
    BY <1>1, <2>2 DEF Runs
  <2>3. CASE q = [r EXCEPT !.next = "end", !.outcome = "failed"]
    BY <1>1, <2>3 DEF Runs, Ending
  <2>4. CASE r.task < Tasks /\ q = [r EXCEPT !.next = "task", !.task = r.task + 1]
    BY <1>1, <2>1, <2>4 DEF Runs
  <2>5. CASE q = [r EXCEPT !.next = "end", !.outcome = "succeeded"]
    BY <1>1, <2>5 DEF Runs, Ending
  <2>6. QED
    BY <1>3, <2>2, <2>3, <2>4, <2>5
<1>5. r.snapshot = <<>> =>
         IF q.next = "end"
         THEN /\ q.outcome = "succeeded" => AllPassed(recs, verdict, Tasks)
              /\ q.outcome = "failed" => \E id \in DOMAIN recs : verdict[id] = "failed"
         ELSE /\ q.outcome = "unanswered"
              /\ Leads([q EXCEPT !.pc = q.next, !.next = "end"], recs, verdict, work)
  <2> SUFFICES ASSUME r.snapshot = <<>>
               PROVE  IF q.next = "end"
                      THEN /\ q.outcome = "succeeded" => AllPassed(recs, verdict, Tasks)
                           /\ q.outcome = "failed" => \E id \in DOMAIN recs : verdict[id] = "failed"
                      ELSE /\ q.outcome = "unanswered"
                           /\ Leads([q EXCEPT !.pc = q.next, !.next = "end"], recs, verdict, work)
    OBVIOUS
  <2>1. Leads(r, recs, verdict, work) /\ r.pc \in Attempting /\ r.outcome = "unanswered"
    BY <1>1, <1>2 DEF Good, Attempting
  <2>2. /\ r.id \in DOMAIN recs /\ recs[r.id].task = r.task /\ recs[r.id].attempt = r.tried
        /\ AllPassed(recs, verdict, r.task - 1) /\ r.task \in 1..Tasks
    BY <1>1, <2>1 DEF Leads, Runs
  <2>3. verdict[r.id] = "succeeded" => AllPassed(recs, verdict, r.task)
    BY <2>2 DEF AllPassed
  <2> DEFINE p == [q EXCEPT !.pc = q.next, !.next = "end"]
  <2>4. p.pc = q.next /\ p.task = q.task /\ p.left = q.left /\ p.tried = q.tried /\ p.id = q.id
    BY <1>4 DEF Runs
  <2> HIDE DEF p
  <2>5. CASE r.seen = "cancelled" /\ q = [r EXCEPT !.next = "prepare"]
    <3>1. /\ q.next = "prepare" /\ q.outcome = "unanswered" /\ q.task = r.task
          /\ q.left = r.left /\ q.tried = r.tried
      BY <1>1, <2>1, <2>5 DEF Runs
    <3>2. r.tried \in 1..Budget
      <4>1. RetryChain
        BY RunFacts
      <4>2. QED
        BY <2>2, <4>1 DEF RetryChain, Id
    <3>3. Leads(p, recs, verdict, work)
      BY <1>1, <1>4, <2>1, <2>4, <3>1, <3>2 DEF Leads, Attempting
    <3>4. QED
      BY <3>1, <3>3 DEF p
  <2>6. CASE r.seen = "failed" /\ q = [r EXCEPT !.next = "end", !.outcome = "failed"]
    <3>1. q.next = "end" /\ q.outcome = "failed"
      BY <1>1, <2>6 DEF Runs
    <3>2. QED
      BY <1>2, <2>2, <2>6, <3>1
  <2>7. CASE r.seen = "succeeded" /\ r.task < Tasks /\ q = [r EXCEPT !.next = "task", !.task = r.task + 1]
    <3>1. q.next = "task" /\ q.outcome = "unanswered" /\ q.task = r.task + 1
      BY <1>1, <2>1, <2>7 DEF Runs
    <3>2. AllPassed(recs, verdict, p.task - 1)
      <4>1. p.task - 1 = r.task
        BY <2>2, <2>4, <3>1
      <4>2. QED
        BY <1>2, <2>3, <2>7, <4>1
    <3>3. \A id \in DOMAIN recs : recs[id].task < p.task /\ recs[id].task <= p.task
      <4>1. \A id \in DOMAIN recs : recs[id].task \in 1..Tasks /\ recs[id].task <= r.task
        BY <1>1, <2>1, ExecutionType DEF Leads, Data
      <4>2. QED
        BY <2>2, <2>4, <3>1, <4>1, TasksAssumption
    <3>4. Leads(p, recs, verdict, work)
      BY <2>4, <3>1, <3>2, <3>3 DEF Leads, Attempting
    <3>5. QED
      BY <3>1, <3>4 DEF p
  <2>8. CASE r.seen = "succeeded" /\ r.task = Tasks /\ q = [r EXCEPT !.next = "end", !.outcome = "succeeded"]
    <3>1. q.next = "end" /\ q.outcome = "succeeded"
      BY <1>1, <2>8 DEF Runs
    <3>2. QED
      BY <1>2, <2>2, <2>3, <2>8, <3>1
  <2>9. QED
    BY <1>3, <2>5, <2>6, <2>7, <2>8
<1>6. /\ run' = [run EXCEPT ![s] = run'[s]] /\ run'[s] = Onward(q)
  BY <1>1 DEF Release, Becomes, q
<1>7. /\ Good(run'[s], recs, verdict, work) /\ run'[s].pc \notin {"pause", "submit"}
      /\ Submits(run'[s]) => Submits(r)
  <2>1. /\ Len(q.snapshot) <= n
        /\ \A id \in DOMAIN q.snapshot : TrueTo(q.snapshot[id], verdict[id])
        /\ TrueTo(q.mem, verdict[q.id])
    BY <1>1, <1>2, <1>4 DEF Sound
  <2>2. Good(Onward(q), recs, verdict, work) /\ (Submits(Onward(q)) => q.snapshot = <<>>)
    BY <1>1, <1>4, <1>5, <2>1, OnwardGood
  <2>3. Onward(q).pc \notin {"pause", "submit"}
    BY <1>4 DEF Onward, Over, FollowFrom, Runs
  <2>4. QED
    BY <1>2, <1>4, <1>6, <2>2, <2>3
<1>8. /\ Data(recs', verdict, work) /\ Truthful(recs', verdict, work)
      /\ Quiet(recs, verdict, work, recs', verdict, work)
  <2> DEFINE old == recs[r.id].ex
             ex == [old EXCEPT !.released = TRUE]
  <2>1. recs[r.id] \in Executions /\ old \in Record /\ TrueTo(old, verdict[r.id])
    BY <1>1, <1>2, ExecutionType DEF Truthful
  <2>2. ex \in Record /\ TrueTo(ex, verdict[r.id])
    BY <2>1 DEF Record, TrueTo
  <2>3. recs' = [recs EXCEPT ![r.id] = [recs[r.id] EXCEPT !.ex = ex]] \/ UNCHANGED recs
    BY <2>1 DEF Release, Set, Executions
  <2> HIDE DEF ex
  <2>4. QED
    BY <1>1, <1>2, <2>2, <2>3, RecordMoves, QuietRefl
<1>9. work' = Set(work, r.id, "absent") \/ UNCHANGED work
  BY DEF Release
<1>10. /\ Data(recs', verdict, work') /\ Truthful(recs', verdict, work')
       /\ Quiet(recs', verdict, work, recs', verdict, work')
  <2>1. /\ verdict \in [1..Len(recs') -> {"none"} \cup Terminal]
        /\ work' \in [1..Len(recs') -> {"absent", "running", "stuck"} \cup Terminal]
    BY <1>8, <1>9 DEF Data, Set
  <2>2. \A i \in 1..Len(recs') :
          /\ verdict[i] # "none" => verdict[i] = verdict[i]
          /\ work'[i] \in {"running", "stuck"} => verdict[i] = "none"
          /\ work'[i] \in {"succeeded", "failed"} => verdict[i] = work'[i]
    BY <1>8, <1>9 DEF Data, Truthful, Set
  <2>3. \A i \in 1..Len(recs') :
          work[i] = "absent" /\ verdict[i] = "none" => work'[i] = "absent" /\ verdict[i] = "none"
    BY <1>8, <1>9 DEF Data, Set
  <2>4. QED
    BY <1>8, <2>1, <2>2, <2>3, WorkMoves
<1>11. Quiet(recs, verdict, work, recs', verdict, work')
  BY <1>8, <1>10, QuietTrans
<1>12. Good(run'[s], recs', verdict, work')
  BY <1>1, <1>7, <1>10, <1>11, GoodAfter DEF Quiet
<1>13. QED
  BY <1>1, <1>6, <1>7, <1>10, <1>11, <1>12 DEF Moves, Quiet

\* Prepare records an attempt more, of the task the run is at.
Prepared(s) ==
    LET r == run[s] IN
    /\ r.pc = "prepare" /\ r.left # <<>> /\ r.tried < Budget
    /\ recs' = Append(recs, [task |-> r.task, provider |-> Head(r.left),
                             attempt |-> r.tried + 1, previous |-> r.id,
                             home |-> s, ex |-> Pending])
    /\ work' = Append(work, "absent") /\ verdict' = Append(verdict, "none")
    /\ Becomes(s, [r EXCEPT !.pc = "pause", !.left = Tail(@),
                            !.id = Len(recs) + 1, !.mem = Pending])

\* The attempt prepared continues the chain of its task's attempts.
LEMMA PreparedMoves ==
  ASSUME Inv, NEW s \in Server, Prepared(s)
  PROVE  Moves(s) /\ RetryChain'
<1> DEFINE r == run[s]
           n == Len(recs)
           e == [task |-> r.task, provider |-> Head(r.left),
                 attempt |-> r.tried + 1, previous |-> r.id, home |-> s, ex |-> Pending]
           q == [r EXCEPT !.pc = "pause", !.left = Tail(r.left), !.id = n + 1, !.mem = Pending]
<1>1. /\ Data(recs, verdict, work) /\ Truthful(recs, verdict, work) /\ RetryChain
      /\ r \in Runs(n) /\ Sound(r, recs, verdict)
      /\ run \in [Server -> Runs(n)]
      /\ r.snapshot = <<>> /\ Submits(r) /\ Leads(r, recs, verdict, work)
      /\ r.outcome = "unanswered" /\ n \in Nat
  BY RunFacts, TypeFacts DEF Inv, Prepared, Sound, Submits, Data
<1>2. r.left \in Rankings /\ r.left # <<>> /\ r.pc = "prepare" /\ r.tried \in Nat /\ r.tried < Budget
      /\ r.task \in 1..Tasks /\ r.id \in Nat
  BY <1>1 DEF Runs, Prepared
<1>3. /\ Head(r.left) \in Provider /\ Head(r.left) = r.left[1] /\ 1 \in DOMAIN r.left
      /\ Tail(r.left) \in Rankings
      /\ \A i \in DOMAIN Tail(r.left) : i + 1 \in DOMAIN r.left /\ Tail(r.left)[i] = r.left[i + 1]
      /\ \A i \in DOMAIN Tail(r.left) : Tail(r.left)[i] # Head(r.left)
  BY <1>2, TailOfRanking
<1>4. Pending \in Record /\ \A v : TrueTo(Pending, v)
  BY DEF Pending, Record, State, TrueTo
<1>5. e \in Executions
  BY <1>2, <1>3, <1>4 DEF Executions
<1>6. /\ e.task = r.task /\ e.provider = Head(r.left) /\ e.attempt = r.tried + 1
      /\ e.previous = r.id /\ e.ex = Pending
  OBVIOUS
<1>7. recs' = Append(recs, e) /\ work' = Append(work, "absent") /\ verdict' = Append(verdict, "none")
  BY DEF Prepared
<1> HIDE DEF e
<1>8. /\ recs' \in Seq(Executions) /\ Len(recs') = n + 1 /\ DOMAIN recs' = 1 .. n + 1
      /\ DOMAIN recs = 1..n
      /\ recs'[n + 1] = e /\ \A i \in 1..n : recs'[i] = recs[i]
  BY <1>1, <1>5, <1>7 DEF Data
<1>9. /\ verdict' \in [1 .. n + 1 -> {"none"} \cup Terminal]
      /\ verdict'[n + 1] = "none" /\ \A i \in 1..n : verdict'[i] = verdict[i]
  <2>1. verdict \in Seq({"none"} \cup Terminal) /\ Len(verdict) = n
    BY <1>1 DEF Data
  <2>2. /\ verdict' \in Seq({"none"} \cup Terminal) /\ Len(verdict') = n + 1
        /\ verdict'[n + 1] = "none" /\ \A i \in 1..n : verdict'[i] = verdict[i]
    BY <1>7, <2>1, AppendProperties
  <2>3. QED
    BY <2>2
<1>10. /\ work' \in [1 .. n + 1 -> {"absent", "running", "stuck"} \cup Terminal]
       /\ work'[n + 1] = "absent" /\ \A i \in 1..n : work'[i] = work[i]
  <2>1. work \in Seq({"absent", "running", "stuck"} \cup Terminal) /\ Len(work) = n
    BY <1>1 DEF Data
  <2>2. /\ work' \in Seq({"absent", "running", "stuck"} \cup Terminal) /\ Len(work') = n + 1
        /\ work'[n + 1] = "absent" /\ \A i \in 1..n : work'[i] = work[i]
    BY <1>7, <2>1, AppendProperties
  <2>3. QED
    BY <2>2
<1>11. Data(recs', verdict', work')
  BY <1>1, <1>8, <1>9, <1>10 DEF Data
<1>12. Grows(recs, verdict, recs', verdict')
  BY <1>1, <1>8, <1>9 DEF Grows
<1>13. \A id \in 1..n : recs[id].task <= r.task /\ recs[id].task \in 1..Tasks
  BY <1>1, <1>8, ExecutionType DEF Leads
<1>14. AllPassed(recs', verdict', r.task - 1)
  BY <1>1, <1>12, PassedStable DEF Leads
<1>15. Truthful(recs', verdict', work')
  <2> SUFFICES ASSUME NEW id \in 1 .. n + 1
               PROVE  /\ TrueTo(recs'[id].ex, verdict'[id])
                      /\ AllPassed(recs', verdict', recs'[id].task - 1)
                      /\ \A b \in 1 .. n + 1 : id <= b => recs'[id].task <= recs'[b].task
                      /\ recs'[id].attempt > 1 => id > 1
                      /\ work'[id] \in {"running", "stuck"} => verdict'[id] = "none"
                      /\ work'[id] \in {"succeeded", "failed"} => verdict'[id] = work'[id]
    BY <1>8 DEF Truthful
  <2>1. CASE id = n + 1
    <3>1. recs'[id] = e /\ verdict'[id] = "none" /\ work'[id] = "absent"
      BY <1>8, <1>9, <1>10, <2>1
    <3>2. \A b \in 1 .. n + 1 : id <= b => recs'[id].task <= recs'[b].task
      BY <1>1, <1>2, <1>6, <1>8, <2>1
    <3>3. recs'[id].attempt > 1 => id > 1
      <4>1. r.tried > 0 => r.id = n /\ r.id \in 1..n
        BY <1>1, <1>2, <1>8 DEF Leads
      <4>2. QED
        BY <1>1, <1>2, <1>6, <2>1, <3>1, <4>1
    <3>4. QED
      BY <1>4, <1>6, <1>14, <3>1, <3>2, <3>3
  <2>2. CASE id \in 1..n
    <3>1. recs'[id] = recs[id] /\ verdict'[id] = verdict[id] /\ work'[id] = work[id] /\ id \in DOMAIN recs
      BY <1>8, <1>9, <1>10, <2>2
    <3>2. AllPassed(recs, verdict, recs[id].task - 1)
      BY <1>1, <3>1 DEF Truthful
    <3>3. AllPassed(recs', verdict', recs[id].task - 1)
      BY <1>12, <3>2, PassedStable
    <3>4. ASSUME NEW b \in 1 .. n + 1, id <= b PROVE recs[id].task <= recs'[b].task
      <4>1. CASE b = n + 1
        BY <1>6, <1>8, <1>13, <2>2, <4>1
      <4>2. CASE b \in 1..n
        BY <1>1, <1>8, <3>1, <3>4, <4>2 DEF Truthful
      <4>3. QED
        BY <1>1, <4>1, <4>2
    <3>5. QED
      BY <1>1, <3>1, <3>3, <3>4 DEF Truthful
  <2>3. QED
    BY <1>1, <2>1, <2>2
<1>16. run' = [run EXCEPT ![s] = run'[s]] /\ run'[s] = q
  <2>1. [r EXCEPT !.pc = "pause", !.left = Tail(@), !.id = n + 1, !.mem = Pending] = q
    BY <1>1 DEF Runs
  <2>2. QED
    BY <1>1, <2>1 DEF Prepared, Becomes
<1>17. /\ q \in Runs(n + 1) /\ q.pc = "pause" /\ q.left = Tail(r.left) /\ q.id = n + 1
       /\ q.mem = Pending /\ q.task = r.task /\ q.tried = r.tried
       /\ q.snapshot = <<>> /\ q.outcome = "unanswered"
  <2>1. n + 1 \in 0 .. n + 1
    BY <1>1
  <2>2. QED
    BY <1>1, <1>3, <1>4, <2>1 DEF Runs, Steps
<1> HIDE DEF q
<1>18. Sound(q, recs', verdict')
  <2>1. Len(q.snapshot) <= Len(recs') /\ q.id \in DOMAIN recs' /\ DOMAIN q.snapshot = {}
    BY <1>1, <1>8, <1>17
  <2>2. QED
    BY <1>4, <1>17, <2>1 DEF Sound, Attempting
<1>19. \A id \in 1..n, i \in DOMAIN r.left : recs[id].task = r.task => recs[id].provider # r.left[i]
  BY <1>1, <1>2, <1>8 DEF Leads
<1>20. Leads(q, recs', verdict', work')
  <2>1. \A id \in DOMAIN recs' : recs'[id].task <= q.task
    BY <1>1, <1>2, <1>6, <1>8, <1>13, <1>17
  <2>2. ASSUME NEW id \in DOMAIN recs', NEW i \in DOMAIN q.left, recs'[id].task = q.task
        PROVE  recs'[id].provider # q.left[i]
    <3>1. CASE id = n + 1
      BY <1>3, <1>6, <1>8, <1>17, <3>1
    <3>2. CASE id \in 1..n
      BY <1>3, <1>8, <1>17, <1>19, <2>2, <3>2
    <3>3. QED
      BY <1>1, <1>8, <3>1, <3>2
  <2>3. /\ q.id = Len(recs') /\ q.id \in DOMAIN recs' /\ recs'[q.id].task = q.task
        /\ recs'[q.id].attempt = q.tried + 1
        /\ work'[q.id] = "absent" /\ verdict'[q.id] = "none"
    BY <1>1, <1>6, <1>8, <1>9, <1>10, <1>17
  <2>4. QED
    BY <1>14, <1>17, <2>1, <2>2, <2>3 DEF Leads
<1>21. Moves(s)
  BY <1>1, <1>8, <1>11, <1>12, <1>15, <1>16, <1>17, <1>18, <1>20 DEF Moves, Good
<1>22. RetryChain'
  <2>1. Id' = 1 .. n + 1 /\ Id = 1..n /\ Budget \in Nat
    BY <1>8, BudgetType DEF Id
  <2>2. /\ r.tried = 0 => r.id = 0
        /\ r.tried > 0 => r.id = n /\ n \in 1..n /\ recs[n].task = r.task /\ recs[n].attempt = r.tried
    BY <1>1, <1>2, <1>8 DEF Leads
  <2>3. \A id \in Id' : recs'[id].attempt \in 1..Budget
    <3>1. r.tried + 1 \in 1..Budget
      BY <1>2, <2>1
    <3>2. QED
      BY <1>1, <1>6, <1>8, <2>1, <3>1 DEF RetryChain
  <2>4. ASSUME NEW id \in Id'
        PROVE  recs'[id].previous = IF recs'[id].attempt = 1 THEN 0 ELSE id - 1
    <3>1. CASE id = n + 1
      BY <1>1, <1>2, <1>6, <1>8, <2>2, <3>1
    <3>2. CASE id \in 1..n
      BY <1>1, <1>8, <2>1, <3>2 DEF RetryChain
    <3>3. QED
      BY <1>1, <2>1, <3>1, <3>2
  <2>5. ASSUME NEW id \in Id', recs'[id].attempt > 1
        PROVE  recs'[id - 1].task = recs'[id].task /\ recs'[id - 1].attempt = recs'[id].attempt - 1
    <3>1. CASE id = n + 1
      <4>1. r.tried > 0 /\ recs'[id] = e
        BY <1>2, <1>6, <1>8, <2>5, <3>1
      <4>2. id - 1 = n /\ recs'[n] = recs[n]
        BY <1>1, <1>8, <2>2, <3>1, <4>1
      <4>3. QED
        BY <1>2, <1>6, <2>2, <4>1, <4>2
    <3>2. CASE id \in 1..n
      <4>1. recs[id].attempt > 1
        BY <1>8, <2>5, <3>2
      <4>2. recs[id - 1].task = recs[id].task /\ recs[id - 1].attempt = recs[id].attempt - 1
        BY <1>1, <2>1, <3>2, <4>1 DEF RetryChain
      <4>3. id - 1 \in 1..n
        BY <1>1, <1>8, <3>2, <4>1 DEF Truthful
      <4>4. QED
        BY <1>8, <3>2, <4>2, <4>3
    <3>3. QED
      BY <1>1, <2>1, <3>1, <3>2
  <2>6. ASSUME NEW a \in Id', NEW b \in Id', a # b, recs'[a].task = recs'[b].task
        PROVE  recs'[a].provider # recs'[b].provider
    <3>1. CASE a \in 1..n /\ b \in 1..n
      BY <1>1, <1>8, <2>1, <2>6, <3>1 DEF RetryChain
    <3>2. CASE a = n + 1 /\ b \in 1..n
      BY <1>3, <1>6, <1>8, <1>19, <2>6, <3>2
    <3>3. CASE b = n + 1 /\ a \in 1..n
      BY <1>3, <1>6, <1>8, <1>19, <2>6, <3>3
    <3>4. QED
      BY <1>1, <2>1, <2>6, <3>1, <3>2, <3>3
  <2>7. QED
    BY <2>3, <2>4, <2>5, <2>6, BudgetType DEF RetryChain
<1>23. QED
  BY <1>21, <1>22

\* A turn of attempt's loop up to prepare.
LEMMA PrepareMoves ==
  ASSUME Inv, NEW s \in Server, Prepare(s)
  PROVE  Moves(s) /\ (Prepared(s) \/ UNCHANGED recs)
<1> DEFINE r == run[s]
<1>1. /\ Data(recs, verdict, work) /\ r \in Runs(Len(recs)) /\ Sound(r, recs, verdict)
      /\ Submits(r) /\ Leads(r, recs, verdict, work)
      /\ run \in [Server -> Runs(Len(recs))]
  BY RunFacts, TypeFacts DEF Inv, Prepare, Sound, Submits
<1>2. ASSUME Becomes(s, Over(r, "unanswered")), UNCHANGED <<recs, work, verdict>>
      PROVE  Moves(s)
  <2>1. run' = [run EXCEPT ![s] = run'[s]] /\ run'[s] = Over(r, "unanswered")
    BY <1>1, <1>2 DEF Becomes
  <2>2. Good(run'[s], recs, verdict, work) /\ ~Submits(run'[s])
    BY <1>1, <2>1, OverGood DEF Ending
  <2>3. QED
    BY <1>2, <2>1, <2>2, RunMoves
<1>3. ASSUME r.left # <<>>, Becomes(s, [r EXCEPT !.left = Tail(@)]), UNCHANGED <<recs, work, verdict>>
      PROVE  Moves(s)
  <2> DEFINE q == [r EXCEPT !.left = Tail(r.left)]
  <2>1. run' = [run EXCEPT ![s] = run'[s]] /\ run'[s] = q
    BY <1>1, <1>3 DEF Becomes, Runs
  <2>2. /\ r.left \in Rankings /\ Tail(r.left) \in Rankings
        /\ \A i \in DOMAIN Tail(r.left) : i + 1 \in DOMAIN r.left /\ Tail(r.left)[i] = r.left[i + 1]
    BY <1>1, <1>3, TailOfRanking DEF Runs
  <2>3. /\ q \in Runs(Len(recs)) /\ q.left = Tail(r.left)
        /\ q.pc = r.pc /\ q.task = r.task /\ q.tried = r.tried /\ q.id = r.id /\ q.mem = r.mem
        /\ q.seen = r.seen /\ q.snapshot = r.snapshot /\ q.outcome = r.outcome
    BY <1>1, <2>2 DEF Runs
  <2> HIDE DEF q
  <2>4. r.pc = "prepare"
    BY DEF Prepare
  <2>5. Sound(q, recs, verdict)
    BY <1>1, <2>3 DEF Sound
  <2>6. Leads(q, recs, verdict, work)
    <3>1. \A id \in DOMAIN recs, i \in DOMAIN q.left :
             recs[id].task = r.task => recs[id].provider # q.left[i]
      BY <1>1, <2>2, <2>3, <2>4 DEF Leads
    <3>2. QED
      BY <1>1, <2>3, <2>4, <3>1 DEF Leads, Attempting
  <2>7. QED
    BY <1>1, <1>3, <2>1, <2>3, <2>5, <2>6, RunMoves DEF Good
<1>4. CASE Prepared(s)
  BY <1>4, PreparedMoves
<1>5. QED
  BY <1>2, <1>3, <1>4 DEF Prepare, Prepared

\* Every step of a run, together.
LEMMA RunStep ==
  ASSUME Inv, NEW s \in Server, Run(s)
  PROVE  Moves(s) /\ (Prepared(s) \/ Len(recs') = Len(recs))
<1>1. Moves(s)
  BY TaskMoves, PrepareMoves, PauseMoves, SubmitMoves, RecordStateMoves, PollMoves, AbandonMoves,
     ResultMoves, ReleaseMoves, EndMoves, ListMoves, ResumeStatusMoves DEF Run
<1>2. Prepared(s) \/ DOMAIN recs' = DOMAIN recs
  BY PrepareMoves
  DEF Run, Task, Pause, Submit, RecordState, Poll, Abandon, Result, Release, End, List,
      ResumeStatus, AttemptFails, Tracked, Set
<1>3. ASSUME DOMAIN recs' = DOMAIN recs PROVE Len(recs') = Len(recs)
  <2>1. DOMAIN recs = 1..Len(recs) /\ Len(recs) \in Nat /\ DOMAIN recs' = 1..Len(recs') /\ Len(recs') \in Nat
    BY <1>1, RunFacts DEF Moves, Data
  <2>2. 1..Len(recs') = 1..Len(recs)
    BY <1>3, <2>1
  <2>3. ASSUME NEW k \in Nat PROVE Cardinality(1..k) = k
    BY FS_Interval
  <2>4. Cardinality(1..Len(recs)) = Len(recs)
    BY <2>1, <2>3
  <2>5. Cardinality(1..Len(recs')) = Len(recs')
    BY <2>1, <2>3
  <2>6. QED
    BY <2>2, <2>4, <2>5
<1>4. QED
  BY <1>1, <1>2, <1>3

\* A server that dies forgets its run.
LEMMA CrashMoves == ASSUME Inv, NEW s \in Server, Crash(s) PROVE Moves(s)
<1>1. run' = [run EXCEPT ![s] = run'[s]] /\ run'[s] = Idle
  BY TypeFacts DEF Inv, Crash, Becomes
<1>2. Data(recs, verdict, work) /\ Truthful(recs, verdict, work) /\ UNCHANGED recs
  BY TypeFacts DEF Inv, Crash
<1>3. CASE run[s].pc = "submit"
  <2>1. Data(recs, verdict', work') /\ Truthful(recs, verdict', work') /\ Grows(recs, verdict, recs, verdict')
    BY <1>2, <1>3, AttemptedStarts, SubmitStarts DEF Crash
  <2>2. Good(Idle, recs, verdict', work') /\ ~Submits(Idle)
    BY <2>1, IdleGood
  <2>3. Good(run[s], recs, verdict, work) /\ Sound(run[s], recs, verdict)
    BY RunFacts DEF Inv
  <2>4. Submits(run[s])
    BY <1>3, <2>3 DEF Submits, Sound, Attempting
  <2>5. QED
    BY <1>1, <1>2, <2>1, <2>2, <2>4 DEF Moves
<1>4. CASE run[s].pc # "submit"
  <2>1. Good(Idle, recs, verdict, work) /\ ~Submits(Idle)
    BY RunFacts, IdleGood
  <2>2. QED
    BY <1>1, <1>4, <2>1, RunMoves DEF Crash
<1>5. QED
  BY <1>3, <1>4

\* Server.claim: the server that takes over reads before it does anything.
LEMMA ClaimMoves == ASSUME Inv, NEW s \in Server, Claim(s) PROVE Moves(s)
<1> DEFINE q == [Idle EXCEPT !.pc = "list"]
<1>1. run' = [run EXCEPT ![s] = run'[s]] /\ run'[s] = q
  BY TypeFacts DEF Inv, Claim, Becomes
<1>2. Good(q, recs, verdict, work) /\ ~Submits(q)
  BY RunFacts, IdleGood
<1>3. QED
  BY <1>1, <1>2, RunMoves DEF Claim

\* A renewal finds the lease held, or lost.
LEMMA RenewMoves == ASSUME Inv, NEW s \in Server, Renew(s) PROVE Moves(s)
<1>1. Good(run[s], recs, verdict, work) /\ run \in [Server -> Runs(Len(recs))]
  BY TypeFacts DEF Inv
<1>2. /\ run' = [run EXCEPT ![s] = run'[s]]
      /\ run'[s] = run[s] \/ run'[s] = [run[s] EXCEPT !.lost = TRUE]
  BY <1>1 DEF Renew, Becomes
<1>3. Good(run'[s], recs, verdict, work) /\ (Submits(run'[s]) => Submits(run[s]))
  BY <1>1, <1>2, FlagGood
<1>4. QED
  BY <1>2, <1>3, RunMoves DEF Renew

-----------------------------------------------------------------------------
\* Every step keeps the invariant.

\* The parts of the invariant about the runs and the data.
Kept == /\ Data(recs, verdict, work) /\ Truthful(recs, verdict, work)
        /\ run \in [Server -> Runs(Len(recs))]
        /\ \A s \in Server : Good(run[s], recs, verdict, work)
        /\ OneSubmits

\* A run's own step is nothing to the others.
LEMMA MovesKeep == ASSUME Inv, NEW s \in Server, Moves(s) PROVE Kept'
<1>1. run \in [Server -> Runs(Len(recs))] /\ Data(recs, verdict, work)
  BY TypeFacts DEF Inv
<1>2. \A t \in Server : t # s => run'[t] = run[t]
  BY <1>1 DEF Moves
<1>3. ASSUME NEW t \in Server PROVE Good(run'[t], recs', verdict', work')
  <2>1. CASE t = s
    BY <2>1 DEF Moves
  <2>2. CASE t # s
    <3>1. Submits(run[t]) => Quiet(recs, verdict, work, recs', verdict', work')
      BY <2>2 DEF Inv, OneSubmits, Moves
    <3>2. Good(run[t], recs, verdict, work)
      BY DEF Inv
    <3>3. QED
      BY <1>1, <1>2, <2>2, <3>1, <3>2, GoodStable DEF Moves
  <2>3. QED
    BY <2>1, <2>2
<1>4. run' \in [Server -> Runs(Len(recs'))]
  <2>1. DOMAIN run' = Server /\ run' = [t \in Server |-> run'[t]]
    BY <1>1 DEF Moves
  <2>2. \A t \in Server : run'[t] \in Runs(Len(recs'))
    BY <1>3 DEF Good
  <2>3. QED
    BY <2>1, <2>2
<1>5. OneSubmits'
  <2>1. \A t \in Server : Submits(run'[t]) => Submits(run[t])
    BY <1>2 DEF Moves
  <2>2. QED
    BY <2>1 DEF Inv, OneSubmits
<1>6. QED
  BY <1>3, <1>4, <1>5 DEF Moves, Kept

\* Nor is what others do to the data, as long as they begin nothing.
LEMMA QuietKeeps ==
  ASSUME Inv, Data(recs', verdict', work'), Truthful(recs', verdict', work'),
         Quiet(recs, verdict, work, recs', verdict', work'), UNCHANGED run
  PROVE  Kept'
<1>1. run \in [Server -> Runs(Len(recs))] /\ Data(recs, verdict, work)
  BY TypeFacts DEF Inv
<1>2. ASSUME NEW t \in Server PROVE Good(run[t], recs', verdict', work')
  BY <1>1, GoodStable DEF Inv, Quiet
<1>3. QED
  BY <1>1, <1>2 DEF Kept, Good, Quiet, Inv, OneSubmits

\* The chain of attempts rests on what a record is never changed in.
LEMMA RetryKeeps ==
  ASSUME RetryChain, Data(recs, verdict, work), Truthful(recs, verdict, work),
         Data(recs', verdict', work'), Grows(recs, verdict, recs', verdict'), Len(recs') = Len(recs)
  PROVE  RetryChain'
<1>1. Id' = Id /\ Id = 1..Len(recs) /\ Len(recs) \in Nat
  BY DEF Id, Data
<1>2. \A id \in Id : /\ recs'[id].task = recs[id].task /\ recs'[id].provider = recs[id].provider
                     /\ recs'[id].attempt = recs[id].attempt /\ recs'[id].previous = recs[id].previous
  BY DEF Grows, Id
<1>3. \A id \in Id : recs[id].attempt > 1 => id - 1 \in Id
  BY <1>1 DEF Truthful, Id
<1>4. /\ \A id \in Id : recs'[id].attempt \in 1..Budget
      /\ \A id \in Id : recs'[id].previous = (IF recs'[id].attempt = 1 THEN 0 ELSE id - 1)
  BY <1>2 DEF RetryChain
<1>5. \A id \in Id : recs'[id].attempt > 1 =>
         recs'[id - 1].task = recs'[id].task /\ recs'[id - 1].attempt = recs'[id].attempt - 1
  BY <1>2, <1>3 DEF RetryChain
<1>6. \A i, j \in Id : i # j /\ recs'[i].task = recs'[j].task => recs'[i].provider # recs'[j].provider
  BY <1>2 DEF RetryChain
<1>7. QED
  BY <1>1, <1>4, <1>5, <1>6 DEF RetryChain, Budget

\* The dispatch is begun once, by one server, with nothing recorded.
LEMMA BeginKeeps == ASSUME Inv, NEW s \in Server, Begin(s) PROVE Kept' /\ UNCHANGED recs
<1> DEFINE q == [Idle EXCEPT !.pc = "task"]
<1>1. /\ Data(recs, verdict, work) /\ Truthful(recs, verdict, work)
      /\ run \in [Server -> Runs(Len(recs))] /\ recs = <<>>
      /\ \A t \in Server : Good(run[t], recs, verdict, work) /\ run[t].pc = "idle"
      /\ UNCHANGED <<recs, verdict, work>>
  BY TypeFacts DEF Inv, Started, Begin
<1>2. /\ q \in Runs(Len(recs)) /\ q.pc = "task" /\ q.snapshot = <<>> /\ q.task = 1
      /\ q.outcome = "unanswered"
  <2>1. Idle \in Runs(Len(recs)) /\ Idle.snapshot = <<>> /\ Idle.task = 1 /\ Idle.outcome = "unanswered"
    BY <1>1, IdleType DEF Idle, Data
  <2>2. QED
    BY <2>1 DEF Runs, Steps
<1>3. run' = [run EXCEPT ![s] = q] /\ run' \in [Server -> Runs(Len(recs))]
  BY <1>1, <1>2 DEF Begin, Becomes
<1> HIDE DEF q
<1>4. Sound(q, recs, verdict)
  BY <1>1, <1>2 DEF Sound, Attempting, Data
<1>5. Leads(q, recs, verdict, work)
  BY <1>1, <1>2 DEF Leads, Attempting, AllPassed
<1>6. \A t \in Server : Good(run'[t], recs, verdict, work)
  BY <1>1, <1>2, <1>3, <1>4, <1>5 DEF Good
<1>7. OneSubmits'
  BY <1>1, <1>3 DEF OneSubmits, Submits, Attempting
<1>8. QED
  BY <1>1, <1>3, <1>6, <1>7 DEF Kept

\* What other than a run and its lease happens to an execution.
Other(id) == Finish(id) \/ \E s \in Server : Reconcile(s, id) \/ Leftover(s, id) \/ Cancel(s, id)

\* The release loop writes a true record, and may delete the work.
LEMMA LoopKeeps ==
  ASSUME Inv, NEW id \in Id, NEW ex \in Record, TrueTo(ex, verdict[id]),
         recs' = [recs EXCEPT ![id].ex = ex], UNCHANGED <<run, verdict>>,
         work' = Set(work, id, "absent") \/ UNCHANGED work
  PROVE  Kept' /\ Len(recs') = Len(recs) /\ Grows(recs, verdict, recs', verdict')
<1>1. /\ Data(recs, verdict, work) /\ Truthful(recs, verdict, work)
      /\ id \in 1..Len(recs)
  BY TypeFacts DEF Inv
<1>2. recs' = [recs EXCEPT ![id] = [recs[id] EXCEPT !.ex = ex]]
  BY <1>1, ExecutionType DEF Executions
<1>3. /\ Data(recs', verdict, work) /\ Truthful(recs', verdict, work)
      /\ Quiet(recs, verdict, work, recs', verdict, work)
  <2> DEFINE rs2 == [recs EXCEPT ![id] = [recs[id] EXCEPT !.ex = ex]]
  <2>1. Data(rs2, verdict, work) /\ Truthful(rs2, verdict, work) /\ Quiet(recs, verdict, work, rs2, verdict, work)
    BY <1>1, RecordMoves, Zenon
  <2>2. QED
    BY <1>2, <2>1
<1>4. /\ Data(recs', verdict, work') /\ Truthful(recs', verdict, work')
      /\ Quiet(recs', verdict, work, recs', verdict, work')
  <2>1. /\ verdict \in [1..Len(recs') -> {"none"} \cup Terminal]
        /\ work' \in [1..Len(recs') -> {"absent", "running", "stuck"} \cup Terminal]
    BY <1>3 DEF Data, Set
  <2>2. \A i \in 1..Len(recs') :
          /\ verdict[i] # "none" => verdict[i] = verdict[i]
          /\ work'[i] \in {"running", "stuck"} => verdict[i] = "none"
          /\ work'[i] \in {"succeeded", "failed"} => verdict[i] = work'[i]
    BY <1>3 DEF Data, Truthful, Set
  <2>3. \A i \in 1..Len(recs') :
          work[i] = "absent" /\ verdict[i] = "none" => work'[i] = "absent" /\ verdict[i] = "none"
    BY <1>3 DEF Data, Set
  <2>4. QED
    BY <1>3, <2>1, <2>2, <2>3, WorkMoves
<1>5. Quiet(recs, verdict, work, recs', verdict, work')
  BY <1>3, <1>4, QuietTrans
<1>6. QED
  BY <1>1, <1>4, <1>5, QuietKeeps DEF Quiet

\* It reconciles a lost execution with what the provider says of it.
LEMMA ReconcileKeeps ==
  ASSUME Inv, NEW s \in Server, NEW id \in Id, Reconcile(s, id)
  PROVE  Kept' /\ Len(recs') = Len(recs) /\ Grows(recs, verdict, recs', verdict')
<1> DEFINE old == recs[id].ex
           v == verdict[id]
           won == To([old EXCEPT !.result = TRUE], work[id])
           gone == To(old, "failed")
<1>1. /\ Data(recs, verdict, work) /\ Truthful(recs, verdict, work)
      /\ id \in 1..Len(recs) /\ UNCHANGED <<run, verdict>>
  BY TypeFacts DEF Inv, Reconcile
<1>2. /\ old \in Record /\ TrueTo(old, v) /\ old.state = "lost"
      /\ old.state \notin Terminal /\ old.state # "pending" /\ "failed" \in State
  BY <1>1, ExecutionType DEF Truthful, Reconcile, Terminal, State
<1>3. work[id] \in {"succeeded", "failed"} => v = work[id]
  BY <1>1 DEF Truthful, Data
<1>4. work[id] \in Terminal => work[id] \in State
  BY DEF Terminal, State
<1>5. \/ work[id] \in Terminal /\ Released(s, id, won)
      \/ Released(s, id, gone)
      \/ recs' = [recs EXCEPT ![id].ex = gone] /\ UNCHANGED work
  BY DEF Reconcile
<1> HIDE DEF old, v
<1>6. gone \in Record /\ TrueTo(gone, v)
  BY <1>2, ToType, ToTrue
<1>7. work[id] \in Terminal => won \in Record /\ TrueTo(won, v)
  <2>1. [old EXCEPT !.result = TRUE] \in Record
    BY <1>2 DEF Record
  <2>2. QED
    BY <1>2, <1>3, <1>4, <2>1, ToType, ResultTrue
<1> HIDE DEF won, gone
<1>8. CASE recs' = [recs EXCEPT ![id].ex = gone] /\ UNCHANGED work
  BY <1>1, <1>6, <1>8, LoopKeeps DEF v
<1>9. ASSUME NEW m \in Record, TrueTo(m, v), Released(s, id, m)
      PROVE  Kept' /\ Len(recs') = Len(recs) /\ Grows(recs, verdict, recs', verdict')
  <2>1. [m EXCEPT !.released = TRUE] \in Record /\ TrueTo([m EXCEPT !.released = TRUE], v)
    BY <1>9 DEF Record, TrueTo
  <2>2. QED
    BY <1>1, <1>9, <2>1, LoopKeeps DEF Released, v
<1>10. QED
  BY <1>5, <1>6, <1>7, <1>8, <1>9

\* It releases what is over, or unknown.
LEMMA LeftoverKeeps ==
  ASSUME Inv, NEW s \in Server, NEW id \in Id, Leftover(s, id)
  PROVE  Kept' /\ Len(recs') = Len(recs) /\ Grows(recs, verdict, recs', verdict')
<1> DEFINE m == [recs[id].ex EXCEPT !.released = TRUE]
<1>1. /\ Data(recs, verdict, work) /\ Truthful(recs, verdict, work)
      /\ id \in 1..Len(recs) /\ UNCHANGED <<run, verdict>>
  BY TypeFacts DEF Inv, Leftover
<1>2. recs[id].ex \in Record /\ TrueTo(recs[id].ex, verdict[id])
  BY <1>1, ExecutionType DEF Truthful
<1>3. m \in Record /\ TrueTo(m, verdict[id])
  BY <1>2 DEF Record, TrueTo
<1>4. QED
  BY <1>1, <1>3, LoopKeeps DEF Leftover, Released

\* Work that runs ends once.
LEMMA FinishKeeps ==
  ASSUME Inv, NEW id \in Id, Finish(id)
  PROVE  Kept' /\ Len(recs') = Len(recs) /\ Grows(recs, verdict, recs', verdict')
<1>1. /\ Data(recs, verdict, work) /\ Truthful(recs, verdict, work)
      /\ id \in 1..Len(recs) /\ UNCHANGED <<run, recs>>
  BY TypeFacts DEF Inv, Finish
<1>2. PICK v \in Terminal : work' = Set(work, id, v) /\ verdict' = Set(verdict, id, v)
  BY DEF Finish
<1>3. /\ verdict' \in [1..Len(recs) -> {"none"} \cup Terminal]
      /\ work' \in [1..Len(recs) -> {"absent", "running", "stuck"} \cup Terminal]
  BY <1>1, <1>2 DEF Data, Set
<1>4. work[id] = "running" /\ verdict[id] = "none"
  BY <1>1 DEF Finish, Truthful, Data
<1>5. \A i \in 1..Len(recs) :
        /\ verdict[i] # "none" => verdict'[i] = verdict[i]
        /\ work'[i] \in {"running", "stuck"} => verdict'[i] = "none"
        /\ work'[i] \in {"succeeded", "failed"} => verdict'[i] = work'[i]
  BY <1>1, <1>2, <1>4 DEF Data, Truthful, Set, Terminal
<1>6. \A i \in 1..Len(recs) :
        work[i] = "absent" /\ verdict[i] = "none" => work'[i] = "absent" /\ verdict'[i] = "none"
  BY <1>1, <1>2, <1>4 DEF Data, Set
<1>7. /\ Data(recs, verdict', work') /\ Truthful(recs, verdict', work')
      /\ Quiet(recs, verdict, work, recs, verdict', work')
  BY <1>1, <1>3, <1>5, <1>6, WorkMoves
<1>8. QED
  BY <1>1, <1>7, QuietKeeps DEF Quiet

\* The cancel route stops a run, or the work nobody follows.
LEMMA CancelKeeps ==
  ASSUME Inv, NEW id \in Id, NEW s \in Server, Cancel(s, id)
  PROVE  Kept' /\ Len(recs') = Len(recs) /\ Grows(recs, verdict, recs', verdict')
<1>1. /\ Data(recs, verdict, work) /\ Truthful(recs, verdict, work)
      /\ id \in 1..Len(recs) /\ run \in [Server -> Runs(Len(recs))]
      /\ Quiet(recs, verdict, work, recs, verdict, work)
  BY TypeFacts, QuietRefl DEF Inv
<1>2. CASE run[s].pc # "idle"
  <2>1. Becomes(s, [run[s] EXCEPT !.cancelled = TRUE]) /\ UNCHANGED <<recs, work, verdict>>
    BY <1>2 DEF Cancel
  <2>2. run' = [run EXCEPT ![s] = run'[s]] /\ run'[s] = [run[s] EXCEPT !.cancelled = TRUE]
    BY <1>1, <2>1 DEF Becomes
  <2>3. Good(run[s], recs, verdict, work)
    BY DEF Inv
  <2>4. Good(run'[s], recs, verdict, work) /\ (Submits(run'[s]) => Submits(run[s]))
    BY <2>2, <2>3, FlagGood
  <2>5. Moves(s)
    BY <2>1, <2>2, <2>4, RunMoves
  <2>6. QED
    BY <1>1, <2>1, <2>5, MovesKeep DEF Quiet
<1>3. CASE run[s].pc = "idle"
  <2> DEFINE old == recs[id].ex
  <2>1. /\ ProviderCancel(id)
        /\ Tracked(id, old, "cancelled") /\ UNCHANGED run
    BY <1>3 DEF Cancel
  <2>2. old \in Record /\ TrueTo(old, verdict[id]) /\ old.state \notin Terminal /\ "cancelled" \in State
    BY <1>1, ExecutionType DEF Cancel, Truthful, State
  <2>3. TrueTo(To(old, "cancelled"), verdict[id])
    BY <2>2, ToTrue
  <2>4. /\ Data(recs', verdict, work) /\ Truthful(recs', verdict, work)
        /\ Quiet(recs, verdict, work, recs', verdict, work)
    BY <1>1, <2>1, <2>2, <2>3, TrackedMoves
  <2>5. id \in 1..Len(recs')
    BY <1>1, <2>4 DEF Quiet
  <2>6. /\ Data(recs', verdict', work') /\ Truthful(recs', verdict', work')
        /\ Quiet(recs', verdict, work, recs', verdict', work')
    BY <2>1, <2>4, <2>5, CancelledWork
  <2>7. Quiet(recs, verdict, work, recs', verdict', work')
    BY <2>4, <2>6, QuietTrans
  <2>8. QED
    BY <2>1, <2>6, <2>7, QuietKeeps DEF Quiet
<1>4. QED
  BY <1>2, <1>3

\* Every step, together.
LEMMA StepKeeps ==
  ASSUME Inv, Next
  PROVE  Kept' /\ RetryChain' /\ Grows(recs, verdict, recs', verdict')
<1>1. /\ Data(recs, verdict, work) /\ Truthful(recs, verdict, work) /\ RetryChain
      /\ Quiet(recs, verdict, work, recs, verdict, work)
  BY TypeFacts, QuietRefl DEF Inv
<1>2. ASSUME Kept', Grows(recs, verdict, recs', verdict'), Len(recs') = Len(recs)
      PROVE  RetryChain'
  BY <1>1, <1>2, RetryKeeps DEF Kept
<1>3. ASSUME NEW s \in Server, Run(s)
      PROVE  Kept' /\ RetryChain' /\ Grows(recs, verdict, recs', verdict')
  <2>1. Moves(s) /\ (Prepared(s) \/ Len(recs') = Len(recs))
    BY <1>3, RunStep
  <2>2. Kept' /\ Grows(recs, verdict, recs', verdict')
    BY <2>1, MovesKeep DEF Moves
  <2>3. CASE Prepared(s)
    BY <2>2, <2>3, PreparedMoves
  <2>4. CASE Len(recs') = Len(recs)
    BY <1>2, <2>2, <2>4
  <2>5. QED
    BY <2>1, <2>2, <2>3, <2>4
<1>4. ASSUME NEW s \in Server, Renew(s) \/ Claim(s) \/ Crash(s)
      PROVE  Kept' /\ RetryChain' /\ Grows(recs, verdict, recs', verdict')
  <2>1. Moves(s) /\ UNCHANGED recs
    BY <1>4, RenewMoves, ClaimMoves, CrashMoves DEF Renew, Claim, Crash
  <2>2. QED
    BY <1>2, <2>1, MovesKeep DEF Moves
<1>5. ASSUME NEW s \in Server, Begin(s)
      PROVE  Kept' /\ RetryChain' /\ Grows(recs, verdict, recs', verdict')
  <2>1. UNCHANGED <<recs, verdict>> /\ Kept'
    BY <1>5, BeginKeeps DEF Begin
  <2>2. QED
    BY <1>1, <1>2, <2>1 DEF Quiet
<1>6. ASSUME Lapse \/ Outage \/ Recover
      PROVE  Kept' /\ RetryChain' /\ Grows(recs, verdict, recs', verdict')
  <2>1. UNCHANGED <<recs, verdict, work, run>>
    BY <1>6 DEF Lapse, Outage, Recover
  <2>2. Kept'
    BY <1>1, <2>1, QuietKeeps
  <2>3. QED
    BY <1>1, <1>2, <2>1, <2>2 DEF Quiet
<1>7. ASSUME NEW id \in Id, Other(id)
      PROVE  Kept' /\ RetryChain' /\ Grows(recs, verdict, recs', verdict')
  BY <1>2, <1>7, ReconcileKeeps, LeftoverKeeps, FinishKeeps, CancelKeeps DEF Other
<1>8. QED
  BY <1>3, <1>4, <1>5, <1>6, <1>7 DEF Next, Other

\* The dispatch's row changes when it is begun, claimed or ended, and with the
\* lease.
LEMMA RowStep ==
  ASSUME Inv, Next
  PROVE  \/ row'.state = row.state /\ ~(\E s \in Server : Begin(s))
         \/ \E s \in Server : Begin(s)
         \/ \E s \in Server : End(s) /\ up /\ row.state = "running" /\ row' = [row EXCEPT !.state = run[s].outcome]
<1>1. row \in Rows
  BY DEF Inv, TypeOK
<1>2. ASSUME NEW s \in Server, Run(s), ~End(s) PROVE UNCHANGED row
  BY <1>2
  DEF Run, Task, Prepare, Pause, Submit, RecordState, Poll, Abandon, Result, Release, List,
      ResumeStatus
<1>3. ASSUME NEW s \in Server, End(s)
      PROVE  \/ UNCHANGED row
             \/ up /\ row.state = "running" /\ row' = [row EXCEPT !.state = run[s].outcome]
  BY <1>3 DEF End
<1>4. ASSUME NEW s \in Server, Renew(s) \/ Claim(s) \/ Crash(s) PROVE row'.state = row.state
  BY <1>1, <1>4 DEF Renew, Claim, Crash
<1>5. Lapse \/ Outage \/ Recover => row'.state = row.state
  BY <1>1 DEF Lapse, Outage, Recover
<1>6. ASSUME NEW id \in Id, Other(id)
      PROVE  UNCHANGED row
  BY <1>6 DEF Other, Reconcile, Leftover, Finish, Cancel
<1>7. QED
  BY <1>2, <1>3, <1>4, <1>5, <1>6 DEF Next, Other

\* The row, the store and the faults stay what they are declared to be.
LEMMA RowType ==
  ASSUME Inv, Next
  PROVE  /\ row' \in Rows
         /\ up' \in BOOLEAN /\ faults' \in 0..MaxFaults /\ mishaps' \subseteq Faults
<1>1. row \in Rows /\ up \in BOOLEAN /\ faults \in 0..MaxFaults /\ mishaps \subseteq Faults
  BY DEF Inv, TypeOK
<1>2. ASSUME NEW s \in Server PROVE run[s].outcome \in Ending
  BY RunFacts DEF Runs
<1>3. row' \in Rows
  <2>1. ASSUME NEW s \in Server, Run(s), ~End(s) PROVE UNCHANGED row
    BY <2>1
    DEF Run, Task, Prepare, Pause, Submit, RecordState, Poll, Abandon, Result, Release, List,
        ResumeStatus
  <2>2. ASSUME NEW s \in Server, End(s) PROVE row' \in Rows
    BY <1>1, <1>2, <2>2 DEF End
  <2>3. ASSUME NEW s \in Server, Begin(s) \/ Renew(s) \/ Claim(s) \/ Crash(s) PROVE row' \in Rows
    <3>1. Begin(s) => row' \in Rows
      BY DEF Begin
    <3>2. Renew(s) \/ Crash(s) => row' \in Rows
      BY <1>1 DEF Renew, Crash
    <3>3. Claim(s) => row' \in Rows
      BY <1>1 DEF Claim
    <3>4. QED
      BY <2>3, <3>1, <3>2, <3>3
  <2>4. Lapse \/ Outage \/ Recover => row' \in Rows
    BY <1>1 DEF Lapse, Outage, Recover
  <2>5. ASSUME NEW id \in Id, Other(id)
        PROVE  UNCHANGED row
    BY <2>5 DEF Other, Reconcile, Leftover, Finish, Cancel
  <2>6. QED
    BY <1>1, <2>1, <2>2, <2>3, <2>4, <2>5 DEF Next, Other
<1>4. up' \in BOOLEAN
  <2>1. ASSUME NEW s \in Server, Run(s) PROVE UNCHANGED up
    BY <2>1
    DEF Run, Task, Prepare, Pause, Submit, RecordState, Poll, Abandon, Result, Release, End, List,
        ResumeStatus
  <2>2. ASSUME NEW s \in Server, Begin(s) \/ Renew(s) \/ Claim(s) \/ Crash(s) PROVE UNCHANGED up
    BY <2>2 DEF Begin, Renew, Claim, Crash
  <2>3. ASSUME NEW id \in Id, Other(id)
        PROVE  UNCHANGED up
    BY <2>3 DEF Other, Reconcile, Leftover, Finish, Cancel
  <2>4. QED
    BY <1>1, <2>1, <2>2, <2>3 DEF Next, Other, Lapse, Outage, Recover
<1>5. NoFault \/ \E kind \in Mishap : Fault(kind)
  <2>1. {"outage", "crash", "call", "cancel", "late"} = Mishap
    BY DEF Mishap
  <2>2. ASSUME NEW s \in Server, Run(s) PROVE NoFault \/ Fault("call")
    BY <2>2
    DEF Run, Task, Prepare, Pause, Submit, RecordState, Poll, Abandon, Result, Release, End, List,
        ResumeStatus, Fails
  <2>3. ASSUME NEW s \in Server, Begin(s) \/ Renew(s) \/ Claim(s) \/ Crash(s)
        PROVE  NoFault \/ Fault("crash")
    BY <2>3 DEF Begin, Renew, Claim, Crash
  <2>4. ASSUME NEW id \in Id, Other(id)
        PROVE  NoFault \/ Fault("cancel") \/ Fault("late")
    BY <2>4 DEF Other, Reconcile, Leftover, Finish, Cancel
  <2>5. Lapse \/ Outage \/ Recover => NoFault \/ Fault("outage")
    BY DEF Lapse, Outage, Recover
  <2>6. QED
    BY <2>1, <2>2, <2>3, <2>4, <2>5 DEF Next, Other
<1>6. faults' \in 0..MaxFaults /\ mishaps' \subseteq Faults
  BY <1>1, <1>5, FaultsAssumption DEF NoFault, Fault
<1>7. QED
  BY <1>3, <1>4, <1>6

\* Before it is begun nothing happens to the dispatch.
LEMMA StartedStep == ASSUME Inv, Next PROVE Started'
<1> SUFFICES ASSUME row'.state = "none"
             PROVE  recs' = <<>> /\ \A s \in Server : run'[s].pc = "idle"
  BY DEF Started
<1>1. row \in Rows
  BY DEF Inv, TypeOK
<1>2. ASSUME NEW s \in Server, Begin(s) PROVE FALSE
  BY <1>2 DEF Begin
<1>3. ASSUME NEW s \in Server, row' = [row EXCEPT !.state = run[s].outcome] PROVE FALSE
  <2>1. run[s].outcome \in Ending
    BY RunFacts DEF Runs
  <2>2. QED
    BY <1>1, <1>3, <2>1 DEF Ending
<1>4. row.state = "none"
  BY <1>2, <1>3, RowStep
<1>5. recs = <<>> /\ Id = {} /\ \A s \in Server : run[s].pc = "idle"
  BY <1>4 DEF Inv, Started, Id
<1>6. ASSUME NEW s \in Server PROVE ~Run(s)
  BY <1>5
  DEF Run, Task, Prepare, Pause, Submit, RecordState, Poll, Abandon, Result, Release, End, List,
      ResumeStatus
<1>7. ASSUME NEW s \in Server PROVE ~(Renew(s) \/ Claim(s) \/ Crash(s))
  BY <1>4, <1>5 DEF Renew, Claim, Crash
<1>8. Lapse \/ Outage \/ Recover => UNCHANGED <<recs, run>>
  BY DEF Lapse, Outage, Recover
<1>9. QED
  BY <1>2, <1>5, <1>6, <1>7, <1>8 DEF Next

\* The invariant holds at the start.
LEMMA InvInit == Init => Inv
<1> SUFFICES ASSUME Init PROVE Inv
  OBVIOUS
<1>1. recs = <<>> /\ work = <<>> /\ verdict = <<>> /\ run = [s \in Server |-> Idle]
  BY DEF Init
<1>2. recs \in Seq(Executions) /\ Len(recs) = 0 /\ DOMAIN recs = {} /\ Id = {} /\ 1..0 = {}
  BY <1>1 DEF Id
<1>3. Data(recs, verdict, work)
  BY <1>1, <1>2 DEF Data
<1>4. \A s \in Server : Good(run[s], recs, verdict, work) /\ ~Submits(run[s])
  BY <1>1, <1>3, IdleGood
<1>5. TypeOK
  <2>1. {0} \cup Id = 0..0
    BY <1>2
  <2>2. run \in [Server -> Runs(0)]
    BY <1>1, IdleType
  <2>3. row \in Rows
    BY DEF Init
  <2>4. QED
    BY <1>1, <1>2, <2>1, <2>2, <2>3, FaultsAssumption DEF TypeOK, Runs, Steps, Init, Executions
<1>6. Started
  BY <1>1 DEF Started, Idle
<1>7. Truthful(recs, verdict, work) /\ RetryChain
  BY <1>2 DEF Truthful, RetryChain
<1>8. QED
  BY <1>4, <1>5, <1>6, <1>7 DEF Inv, OneSubmits

\* And every step keeps it.
LEMMA InvNext == Inv /\ [Next]_vars => Inv'
<1>1. ASSUME Inv, Next PROVE Inv'
  <2>1. Kept' /\ RetryChain'
    BY <1>1, StepKeeps
  <2>2. Started'
    BY <1>1, StartedStep
  <2>3. TypeOK'
    <3>1. /\ recs' \in Seq(Executions) /\ Id' = 1..Len(recs') /\ Len(recs') \in Nat
          /\ run' \in [Server -> Runs(Len(recs'))]
      BY <2>1 DEF Kept, Data, Id
    <3>2. ({0} \cup Id)' = 0..Len(recs')
      BY <3>1
    <3>3. /\ work' \in [Id' -> {"absent", "running", "stuck"} \cup Terminal]
          /\ verdict' \in [Id' -> {"none"} \cup Terminal]
      BY <2>1, <3>1 DEF Kept, Data
    <3>4. QED
      BY <1>1, <3>1, <3>2, <3>3, RowType DEF TypeOK, Runs, Steps, Executions
  <2>4. QED
    BY <2>1, <2>2, <2>3 DEF Inv, Kept
<1>2. ASSUME Inv, UNCHANGED vars PROVE Inv'
  BY <1>2 DEF Inv, TypeOK, Id, Started, OneSubmits, RetryChain
<1>3. QED
  BY <1>1, <1>2

-----------------------------------------------------------------------------
\* What a reader should know of.

\* The dispatch, its records and its runs stay what they are declared to be.
THEOREM TypeCorrect == Spec => []TypeOK
<1>1. Inv => TypeOK
  BY DEF Inv
<1>2. QED
  BY InvInit, InvNext, <1>1, PTL DEF Spec

\* The invariant gives fail-fast: each record's task follows tasks that passed.
LEMMA InvFailFast == Inv => FailFast
<1> SUFFICES ASSUME Inv, NEW id \in Id, recs[id].task > 1 PROVE TaskPassed(recs[id].task - 1)
  BY DEF FailFast
<1>1. AllPassed(recs, verdict, recs[id].task - 1) /\ recs[id].task \in 1..Tasks
  BY TypeFacts, ExecutionType DEF Inv, Truthful, Id
<1>2. recs[id].task - 1 \in 1 .. recs[id].task - 1
  BY <1>1, TasksAssumption
<1>3. QED
  BY <1>1, <1>2 DEF AllPassed, TaskPassed, Id

\* No task is started before the one it follows has passed (Run's fail-fast).
THEOREM FailFastAlways == Spec => []FailFast
  BY InvInit, InvNext, InvFailFast, PTL DEF Spec

\* The attempts of a task are a chain within its budget, each on a provider of
\* its own (attempt, prepare).
THEOREM RetryChainAlways == Spec => []RetryChain
<1>1. Inv => RetryChain
  BY DEF Inv
<1>2. QED
  BY InvInit, InvNext, <1>1, PTL DEF Spec

-----------------------------------------------------------------------------
\* The dispatch implements what it promises.

PassedIn(rs, vd, t) == \E id \in DOMAIN rs : rs[id].task = t /\ vd[id] = "succeeded"

\* The first n tasks have passed, and not the one after.
Counts(rs, vd, n) ==
    /\ \A t \in 1..n : PassedIn(rs, vd, t)
    /\ n < Tasks => ~PassedIn(rs, vd, n + 1)

HasFailed(rs, vd) == \E id \in DOMAIN rs : vd[id] = "failed"

\* Passed counts the tasks that have passed, and nothing else does.
LEMMA CountExists == ASSUME NEW rs, NEW vd PROVE \E n \in 0..Tasks : Counts(rs, vd, n)
<1> DEFINE missing == {t \in 1..Tasks : ~PassedIn(rs, vd, t)}
<1>1. CASE missing = {}
  <2>1. Counts(rs, vd, Tasks) /\ Tasks \in 0..Tasks
    BY <1>1, TasksAssumption DEF Counts
  <2>2. QED
    BY <2>1
<1>2. CASE missing # {}
  <2> DEFINE least == Min(missing)
  <2>1. missing \subseteq Nat
    OBVIOUS
  <2>2. least \in missing /\ \A t \in missing : least <= t
    BY <1>2, <2>1, MinOfNat, Zenon
  <2>3. least \in 1..Tasks /\ ~PassedIn(rs, vd, least)
    BY <2>2
  <2>4. \A t \in 1..Tasks : ~PassedIn(rs, vd, t) => least <= t
    BY <2>2
  <2> HIDE DEF least, missing
  <2>5. least - 1 \in 0..Tasks /\ least - 1 + 1 = least /\ 1 .. least - 1 \subseteq 1..Tasks
    BY <2>3, TasksAssumption
  <2>6. ASSUME NEW t \in 1 .. least - 1 PROVE PassedIn(rs, vd, t)
    BY <2>3, <2>4, <2>5
  <2>7. Counts(rs, vd, least - 1)
    BY <2>3, <2>5, <2>6 DEF Counts
  <2>8. QED
    BY <2>5, <2>7
<1>3. QED
  BY <1>1, <1>2

\* No other number counts them.
LEMMA CountUnique ==
  ASSUME NEW rs, NEW vd, NEW n \in 0..Tasks, NEW m \in 0..Tasks,
         Counts(rs, vd, n), Counts(rs, vd, m)
  PROVE  n = m
<1>1. ASSUME NEW a \in 0..Tasks, NEW b \in 0..Tasks, Counts(rs, vd, a), Counts(rs, vd, b), a < b
      PROVE  FALSE
  <2>1. a + 1 \in 1..b /\ a < Tasks
    BY <1>1, TasksAssumption
  <2>2. QED
    BY <1>1, <2>1 DEF Counts
<1>2. ~(n < m) /\ ~(m < n)
  BY <1>1
<1>3. QED
  BY <1>2, TasksAssumption

\* Before and after a step.
LEMMA PassedCounts ==
  /\ Passed \in 0..Tasks /\ Counts(recs, verdict, Passed)
  /\ Passed' \in 0..Tasks /\ Counts(recs', verdict', Passed')
<1> DEFINE count(rs, vd) == CHOOSE n \in 0..Tasks : Counts(rs, vd, n)
<1>1. ASSUME NEW rs, NEW vd PROVE count(rs, vd) \in 0..Tasks /\ Counts(rs, vd, count(rs, vd))
  BY CountExists
<1>2. Passed = count(recs, verdict)
  BY DEF Passed, TaskPassed, Counts, PassedIn, Id
<1>3. Passed' = count(recs', verdict')
  BY DEF Passed, TaskPassed, Counts, PassedIn, Id
<1> HIDE DEF count
<1>4. QED
  BY <1>1, <1>2, <1>3

\* No work gave its answer in this step.
Settled == \A id \in Id' : verdict'[id] \in {"succeeded", "failed"} =>
              id \in Id /\ verdict[id] = verdict'[id]

\* The work of id answered v in this step, and nothing else did.
Answers(id, v) ==
    /\ id \in Id /\ v \in {"succeeded", "failed"}
    /\ verdict[id] = "none" /\ verdict' = [verdict EXCEPT ![id] = v] /\ Id' = Id
    /\ UNCHANGED row

\* Work ends with x, or what it ended with is left as it was.
LEMMA OneVerdict ==
  ASSUME Inv, Data(recs', verdict', work'), UNCHANGED row
  PROVE  /\ UNCHANGED verdict => Settled
         /\ \A id \in Id : \A x : verdict' = Set(verdict, id, x) /\ verdict[id] = "none"
               => Settled \/ Answers(id, x)
<1>1. Id = 1..Len(recs) /\ Id' = 1..Len(recs') /\ DOMAIN verdict = Id /\ DOMAIN verdict' = Id'
  BY TypeFacts DEF Inv, Data, Id
<1>2. UNCHANGED verdict => Settled
  BY <1>1 DEF Settled
<1>3. ASSUME NEW id \in Id, NEW x, verdict' = Set(verdict, id, x), verdict[id] = "none"
      PROVE  Settled \/ Answers(id, x)
  <2>1. Id' = Id /\ verdict' = [verdict EXCEPT ![id] = x]
    BY <1>1, <1>3 DEF Set
  <2>2. CASE x \in {"succeeded", "failed"}
    BY <1>3, <2>1, <2>2 DEF Answers
  <2>3. CASE x \notin {"succeeded", "failed"}
    <3>1. \A i \in Id : verdict'[i] = IF i = id THEN x ELSE verdict[i]
      BY <1>1, <2>1
    <3>2. QED
      BY <2>1, <2>3, <3>1 DEF Settled
  <2>4. QED
    BY <2>2, <2>3
<1>4. QED
  BY <1>2, <1>3

\* Work answers in a synchronous submission, and as it ends at the provider.
LEMMA VerdictStep ==
  ASSUME Inv, Next
  PROVE  Settled \/ \E id \in Id, v \in {"succeeded", "failed"} : Answers(id, v)
<1>1. /\ Data(recs, verdict, work) /\ Truthful(recs, verdict, work) /\ Data(recs', verdict', work')
      /\ Id = 1..Len(recs) /\ DOMAIN verdict = Id
  BY StepKeeps, TypeFacts DEF Inv, Kept, Data
<1>2. UNCHANGED verdict => Settled
  BY <1>1 DEF Settled, Id, Data
<1>3. ASSUME NEW id \in Id, NEW x, verdict' = Set(verdict, id, x), verdict[id] = "none", UNCHANGED row
      PROVE  Settled \/ \E i \in Id, v \in {"succeeded", "failed"} : Answers(i, v)
  <2>1. Settled \/ Answers(id, x)
    BY <1>1, <1>3, OneVerdict
  <2>2. QED
    BY <2>1 DEF Answers
<1>4. ASSUME NEW id \in Id, work[id] \in {"running", "stuck"} PROVE verdict[id] = "none"
  BY <1>4 DEF Inv, Truthful, Id
<1>5. ASSUME NEW s \in Server, Submit(s) \/ (Crash(s) /\ run[s].pc = "submit")
      PROVE  Settled \/ \E i \in Id, v \in {"succeeded", "failed"} : Answers(i, v)
  <2>1. run[s].id \in Id /\ verdict[run[s].id] = "none"
    <3>1. run[s].pc = "submit"
      BY <1>5 DEF Submit
    <3>2. Submits(run[s]) /\ run[s].id \in Id
      BY <3>1, RunFacts DEF Sound, Submits, Attempting, Id
    <3>3. QED
      BY <3>1, <3>2, RunFacts DEF Leads
  <2>2. UNCHANGED row /\ (UNCHANGED verdict \/ \E x : verdict' = Set(verdict, run[s].id, x))
    BY <1>5 DEF Submit, Crash, Attempted
  <2>3. QED
    BY <1>2, <1>3, <2>1, <2>2
<1>6. ASSUME NEW s \in Server, Abandon(s)
      PROVE  Settled \/ \E i \in Id, v \in {"succeeded", "failed"} : Answers(i, v)
  <2>1. run[s].id \in Id
    BY <1>6, RunFacts DEF Abandon, Sound, Attempting, Id
  <2>2. \/ UNCHANGED verdict
        \/ /\ work[run[s].id] \in {"running", "stuck"} /\ UNCHANGED row
           /\ verdict' = Set(verdict, run[s].id, "cancelled")
    BY <1>6 DEF Abandon, ProviderCancel
  <2>3. QED
    BY <1>2, <1>3, <1>4, <2>1, <2>2
<1>7. ASSUME NEW s \in Server, Prepare(s) PROVE Settled
  <2>1. UNCHANGED verdict \/ Prepared(s)
    BY <1>7 DEF Prepare, Prepared
  <2>2. CASE Prepared(s)
    <3>1. verdict \in Seq({"none"} \cup Terminal) /\ Len(verdict) = Len(recs) /\ Len(recs) \in Nat
      <4> DEFINE n == Len(recs)
                 S == {"none"} \cup Terminal
      <4>1. n \in Nat /\ verdict \in [1..n -> S]
        BY <1>1 DEF Data
      <4> HIDE DEF n, S
      <4>2. verdict \in Seq(S) /\ Len(verdict) = n
        BY <4>1
      <4>3. QED
        BY <4>1, <4>2 DEF n, S
    <3>2. /\ Len(verdict') = Len(verdict) + 1 /\ verdict'[Len(verdict) + 1] = "none"
          /\ \A i \in 1..Len(verdict) : verdict'[i] = verdict[i]
          /\ DOMAIN verdict' = 1 .. Len(verdict) + 1
      BY <2>2, <3>1, AppendProperties DEF Prepared
    <3>3. Id' = 1 .. Len(verdict) + 1
      BY <1>1, <3>2 DEF Data, Id
    <3>4. ASSUME NEW i \in Id' PROVE i \in Id \/ i = Len(verdict) + 1
      BY <1>1, <3>1, <3>3
    <3>5. QED
      BY <1>1, <3>1, <3>2, <3>4 DEF Settled
  <2>3. QED
    BY <1>2, <2>1, <2>2
<1>8. ASSUME NEW s \in Server, Run(s), ~Submit(s), ~Abandon(s), ~Prepare(s) PROVE UNCHANGED verdict
  BY <1>8 DEF Run, Task, Pause, RecordState, Poll, Result, Release, End, List, ResumeStatus
<1>9. ASSUME NEW s \in Server,
             Begin(s) \/ Renew(s) \/ Claim(s) \/ (Crash(s) /\ run[s].pc # "submit")
      PROVE  UNCHANGED verdict
  BY <1>9 DEF Begin, Renew, Claim, Crash
<1>10. ASSUME NEW id \in Id, Other(id)
       PROVE  Settled \/ \E i \in Id, v \in {"succeeded", "failed"} : Answers(i, v)
  <2>1. \/ UNCHANGED verdict
        \/ work[id] \in {"running", "stuck"} /\ UNCHANGED row /\ \E x : verdict' = Set(verdict, id, x)
    BY <1>10 DEF Other, Reconcile, Leftover, Finish, Cancel, ProviderCancel
  <2>2. QED
    BY <1>2, <1>3, <1>4, <2>1
<1>11. Lapse \/ Outage \/ Recover => UNCHANGED verdict
  BY DEF Lapse, Outage, Recover
<1>12. QED
  BY <1>2, <1>5, <1>6, <1>7, <1>8, <1>9, <1>10, <1>11 DEF Next, Other

\* A step in which nothing is answered changes no count.
LEMMA SettledCounts ==
  ASSUME Inv, Next, Settled
  PROVE  Passed' = Passed /\ (HasFailed(recs, verdict) <=> HasFailed(recs', verdict'))
<1>1. Grows(recs, verdict, recs', verdict')
  BY StepKeeps
<1>2. ASSUME NEW t PROVE PassedIn(recs', verdict', t) <=> PassedIn(recs, verdict, t)
  <2>1. PassedIn(recs', verdict', t) => PassedIn(recs, verdict, t)
    BY <1>1 DEF PassedIn, Settled, Grows, Id
  <2>2. PassedIn(recs, verdict, t) => PassedIn(recs', verdict', t)
    BY <1>1 DEF PassedIn, Grows
  <2>3. QED
    BY <2>1, <2>2
<1>3. Counts(recs', verdict', Passed)
  BY <1>2, PassedCounts DEF Counts
<1>4. HasFailed(recs, verdict) <=> HasFailed(recs', verdict')
  BY <1>1 DEF HasFailed, Settled, Grows, Id
<1>5. QED
  BY <1>3, <1>4, PassedCounts, CountUnique

\* An answer makes at most one task more pass, the next one, or is a failure.
LEMMA AnswerCounts ==
  ASSUME Inv, Next, NEW id \in Id, NEW v \in {"succeeded", "failed"}, Answers(id, v)
  PROVE  IF v = "succeeded"
         THEN /\ Passed' = Passed \/ (Passed < Tasks /\ Passed' = Passed + 1)
              /\ HasFailed(recs, verdict) <=> HasFailed(recs', verdict')
         ELSE Passed' = Passed /\ HasFailed(recs', verdict')
<1>1. /\ Grows(recs, verdict, recs', verdict') /\ DOMAIN recs' = DOMAIN recs /\ id \in DOMAIN recs
      /\ verdict'[id] = v /\ verdict[id] = "none"
      /\ \A i \in DOMAIN recs : i # id => verdict'[i] = verdict[i]
      /\ recs[id].task \in 1..Tasks
  <2>1. Grows(recs, verdict, recs', verdict')
    BY StepKeeps
  <2>2. DOMAIN verdict = Id /\ Id = DOMAIN recs
    BY TypeFacts DEF Inv, Data, Id
  <2>3. recs[id].task \in 1..Tasks
    BY TypeFacts, ExecutionType DEF Inv, Executions
  <2>4. QED
    BY <2>1, <2>2, <2>3 DEF Answers, Id
<1> DEFINE t == recs[id].task
           p == Passed
<1>2. \A i \in DOMAIN recs : recs'[i].task = recs[i].task
  BY <1>1 DEF Grows
<1>3. p \in 0..Tasks /\ Counts(recs, verdict, p) /\ Passed' \in 0..Tasks /\ Counts(recs', verdict', Passed')
  BY PassedCounts
<1>4. t \in 1..Tasks /\ \A u \in 1 .. t - 1 : PassedIn(recs, verdict, u)
  BY <1>1 DEF Inv, Truthful, AllPassed, PassedIn
<1>5. CASE v = "succeeded"
  <2>1. ASSUME NEW u PROVE PassedIn(recs', verdict', u) <=> PassedIn(recs, verdict, u) \/ u = t
    <3>1. PassedIn(recs', verdict', u) => PassedIn(recs, verdict, u) \/ u = t
      BY <1>1, <1>2 DEF PassedIn
    <3>2. PassedIn(recs, verdict, u) => PassedIn(recs', verdict', u)
      BY <1>1, <1>2 DEF PassedIn
    <3>3. PassedIn(recs', verdict', t)
      BY <1>1, <1>2, <1>5 DEF PassedIn
    <3>4. QED
      BY <3>1, <3>2, <3>3
  <2>2. HasFailed(recs, verdict) <=> HasFailed(recs', verdict')
    BY <1>1, <1>5 DEF HasFailed
  <2>3. ASSUME NEW u \in Nat, u > 1, PassedIn(recs, verdict, u) PROVE PassedIn(recs, verdict, u - 1)
    <3>1. PICK b \in DOMAIN recs : recs[b].task = u /\ verdict[b] = "succeeded"
      BY <2>3 DEF PassedIn
    <3>2. AllPassed(recs, verdict, u - 1) /\ u - 1 \in 1 .. u - 1
      BY <2>3, <3>1 DEF Inv, Truthful
    <3>3. QED
      BY <3>2 DEF AllPassed, PassedIn
  <2> HIDE DEF t, p
  <2>4. CASE p = Tasks \/ t # p + 1
    <3>1. p < Tasks => t <= p
      <4> SUFFICES ASSUME p < Tasks, t > p PROVE FALSE
        BY <1>3, <1>4
      <4>1. p + 1 \in 1 .. t - 1
        BY <1>3, <1>4, <2>4, TasksAssumption
      <4>2. QED
        BY <1>3, <1>4, <4>1 DEF Counts
    <3>2. Counts(recs', verdict', p)
      BY <1>3, <1>4, <2>1, <3>1, TasksAssumption DEF Counts
    <3>3. QED
      BY <1>3, <1>5, <2>2, <3>2, CountUnique DEF p
  <2>5. CASE p < Tasks /\ t = p + 1
    <3>1. p + 1 \in 0..Tasks /\ p + 2 \in Nat /\ p + 2 > 1 /\ p + 2 - 1 = p + 1 /\ p + 1 + 1 = p + 2
      BY <1>3, <2>5, TasksAssumption
    <3>2. ~PassedIn(recs, verdict, p + 2)
      BY <1>3, <2>3, <2>5, <3>1 DEF Counts
    <3>3. ~PassedIn(recs', verdict', p + 2)
      BY <1>3, <2>1, <2>5, <3>2
    <3>4. \A u \in 1 .. p + 1 : PassedIn(recs', verdict', u)
      BY <1>3, <2>1, <2>5 DEF Counts
    <3>5. Counts(recs', verdict', p + 1)
      BY <3>1, <3>3, <3>4 DEF Counts
    <3>6. Passed' = p + 1
      BY <1>3, <3>1, <3>5, CountUnique
    <3>7. QED
      BY <1>5, <2>2, <2>5, <3>6 DEF p
  <2>6. QED
    BY <1>3, <2>4, <2>5, TasksAssumption
<1>6. CASE v = "failed"
  <2>1. ASSUME NEW u PROVE PassedIn(recs', verdict', u) <=> PassedIn(recs, verdict, u)
    <3>1. PassedIn(recs', verdict', u) => PassedIn(recs, verdict, u)
      BY <1>1, <1>2, <1>6 DEF PassedIn
    <3>2. PassedIn(recs, verdict, u) => PassedIn(recs', verdict', u)
      BY <1>1, <1>2 DEF PassedIn
    <3>3. QED
      BY <3>1, <3>2
  <2>2. Counts(recs', verdict', p)
    BY <1>3, <2>1 DEF Counts
  <2>3. HasFailed(recs', verdict')
    BY <1>1, <1>6 DEF HasFailed
  <2>4. QED
    BY <1>3, <1>6, <2>2, <2>3, CountUnique
<1>7. QED
  BY <1>5, <1>6

\* Nothing is recorded and no work has answered at the start.
LEMMA PromiseInit == Init => Promise!Init
<1> SUFFICES ASSUME Init PROVE Promise!Init
  OBVIOUS
<1>1. recs = <<>> /\ Id = {} /\ row.state = "none" /\ DOMAIN recs = {}
  BY DEF Init, Id
<1>2. Counts(recs, verdict, 0) /\ 0 \in 0..Tasks
  <2>1. 1..0 = {}
    OBVIOUS
  <2>2. QED
    BY <1>1, <2>1, TasksAssumption DEF Counts, PassedIn
<1>3. Passed = 0
  BY <1>2, PassedCounts, CountUnique
<1>4. (\E id \in Id : verdict[id] = "failed") = FALSE
  BY <1>1
<1>5. QED
  BY <1>1, <1>3, <1>4 DEF Promise!Init

\* A step in which nothing is answered begins the dispatch, ends it with what
\* its run knows, or is nothing to the abstract dispatch.
LEMMA SettledPromise ==
  ASSUME Inv, Next, Settled
  PROVE  \/ row'.state = row.state
         \/ row.state = "none" /\ row'.state = "running"
         \/ /\ row.state = "running" /\ row'.state \in Ending
            /\ row'.state = "succeeded" => Passed = Tasks
            /\ row'.state = "failed" => HasFailed(recs, verdict)
<1>1. row \in Rows
  BY DEF Inv, TypeOK
<1>2. ASSUME NEW s \in Server, Begin(s) PROVE row.state = "none" /\ row'.state = "running"
  BY <1>2 DEF Begin
<1>3. ASSUME NEW s \in Server, End(s), row.state = "running", row' = [row EXCEPT !.state = run[s].outcome]
      PROVE  /\ row'.state \in Ending
             /\ row'.state = "succeeded" => Passed = Tasks
             /\ row'.state = "failed" => HasFailed(recs, verdict)
  <2>1. run[s] \in Runs(Len(recs)) /\ Sound(run[s], recs, verdict) /\ run[s].pc = "end"
    BY <1>3, RunFacts DEF End
  <2>2. row'.state = run[s].outcome /\ row'.state \in Ending
    BY <1>1, <1>3, <2>1 DEF Runs
  <2>3. row'.state = "failed" => HasFailed(recs, verdict)
    BY <2>1, <2>2 DEF Sound, HasFailed
  <2>4. ASSUME row'.state = "succeeded" PROVE Passed = Tasks
    <3>1. AllPassed(recs, verdict, Tasks)
      BY <2>1, <2>2, <2>4 DEF Sound
    <3>2. Counts(recs, verdict, Tasks) /\ Tasks \in 0..Tasks
      BY <3>1, TasksAssumption DEF AllPassed, Counts, PassedIn
    <3>3. QED
      BY <3>2, PassedCounts, CountUnique
  <2>5. QED
    BY <2>2, <2>3, <2>4
<1>4. QED
  BY <1>2, <1>3, RowStep

\* Every step is one of the abstract dispatch, or nothing to it.
LEMMA PromiseStep ==
  ASSUME Inv, [Next]_vars
  PROVE  [Promise!Next]_<<row.state, Passed, \E id \in Id : verdict[id] = "failed">>
<1> DEFINE failed == \E id \in Id : verdict[id] = "failed"
           failed2 == HasFailed(recs', verdict')
<1>1. (failed)' = failed2 /\ (failed <=> HasFailed(recs, verdict))
  BY DEF HasFailed, Id
<1>2. CASE UNCHANGED vars
  <2>1. UNCHANGED <<row.state, Passed, failed>>
    BY <1>2 DEF Passed, TaskPassed, Id
  <2>2. QED
    BY <2>1
<1>3. CASE Next /\ Settled
  <2>1. Passed' = Passed /\ (failed)' = failed
    BY <1>1, <1>3, SettledCounts
  <2>2. CASE row'.state = row.state
    BY <2>1, <2>2
  <2>3. CASE row.state = "none" /\ row'.state = "running"
    <3>1. Promise!Begin
      BY <2>1, <2>3 DEF Promise!Begin
    <3>2. QED
      BY <3>1 DEF Promise!Next
  <2>4. CASE /\ row.state = "running" /\ row'.state \in Ending
             /\ row'.state = "succeeded" => Passed = Tasks
             /\ row'.state = "failed" => HasFailed(recs, verdict)
    <3>1. Promise!End(row'.state)
      BY <1>1, <2>1, <2>4 DEF Promise!End
    <3>2. QED
      BY <2>4, <3>1 DEF Promise!Next, Ending
  <2>5. QED
    BY <1>3, <2>2, <2>3, <2>4, SettledPromise
<1>4. ASSUME Next, NEW id \in Id, NEW v \in {"succeeded", "failed"}, Answers(id, v)
      PROVE  [Promise!Next]_<<row.state, Passed, failed>>
  <2>1. row'.state = row.state /\ row.state # "none"
    BY <1>4, TypeFacts DEF Answers, Inv, Started, Id
  <2>2. CASE v = "succeeded"
    <3>1. /\ Passed' = Passed \/ (Passed < Tasks /\ Passed' = Passed + 1)
          /\ (failed)' = failed
      BY <1>1, <1>4, <2>2, AnswerCounts
    <3>2. CASE Passed' = Passed
      BY <2>1, <3>1, <3>2
    <3>3. CASE Passed < Tasks /\ Passed' = Passed + 1
      <4>1. Promise!Pass
        BY <2>1, <3>1, <3>3 DEF Promise!Pass
      <4>2. QED
        BY <4>1 DEF Promise!Next
    <3>4. QED
      BY <3>1, <3>2, <3>3
  <2>3. CASE v = "failed"
    <3>1. Passed' = Passed /\ (failed)' = TRUE
      BY <1>1, <1>4, <2>3, AnswerCounts
    <3>2. Promise!Fail
      BY <2>1, <3>1 DEF Promise!Fail
    <3>3. QED
      BY <3>2 DEF Promise!Next
  <2>4. QED
    BY <2>2, <2>3
<1>5. QED
  BY <1>2, <1>3, <1>4, VerdictStep

\* Whatever fails and whoever takes it over, the dispatch is the one promised:
\* tasks pass one after another, and its ending, written once, is true to what
\* the providers did (Finish, end, ended, FinishDispatch).
THEOREM PromiseKeptAlways == Spec => PromiseKept
<1>1. Inv /\ [Next]_vars => [Promise!Next]_<<row.state, Passed, \E id \in Id : verdict[id] = "failed">>
  BY PromiseStep
<1>2. QED
  BY <1>1, PromiseInit, InvInit, InvNext, PTL DEF Spec, PromiseKept, Promise!Spec

=============================================================================
