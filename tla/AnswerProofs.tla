---------------------------- MODULE AnswerProofs ----------------------------
(***************************************************************************)
(* What is proved of Dispatch when nothing but crashes befalls it and no   *)
(* pool is configured: that its answer survives them, for any servers,     *)
(* other providers, number of tasks, attempts and crashes.                 *)
(***************************************************************************)
EXTENDS DispatchProofs

-----------------------------------------------------------------------------
\* No provider is a pool, whose nodes answer one server only: every server can
\* ask after what any of them submitted.
NoPool == \A p \in Provider : Kind[p] # "pool"

\* The invariant. Its parts are about the records, what became of the work and
\* what the provider holds of it, given as arguments.

\* Whether the work of an execution is over once it has been submitted.
Sync(rs, id) == FinishesInSubmit(Kind[rs[id].provider])

\* The record says all there is to learn: what the work ended as, with its
\* result, or that it was never begun or left no trace.
Recorded(rs, vd, wk, id) ==
    /\ rs[id].ex.state \in Terminal /\ wk[id] # "running"
    /\ IF rs[id].ex.failure THEN Sync(rs, id) \/ vd[id] = "none"
       ELSE rs[id].ex.result /\ vd[id] = rs[id].ex.state

\* The provider still knows whatever the record does not say.
Reachable(rs, vd, wk, id) ==
    /\ rs[id].ex.state \in {"pending", "submitted", "running"}
    /\ ~rs[id].ex.failure /\ ~rs[id].ex.result /\ ~rs[id].ex.released
    /\ IF Sync(rs, id) THEN rs[id].ex.state = "pending" /\ wk[id] = "absent"
       ELSE \/ rs[id].ex.state = "pending" /\ wk[id] = "absent" /\ vd[id] = "none"
            \/ wk[id] = "running" /\ vd[id] = "none"
            \/ wk[id] \in Terminal /\ vd[id] = wk[id]

\* Only the newest execution may be unfinished, and an attempt was made again only
\* because the provider cancelled it.
Tidy(rs, vd, wk) ==
    /\ \A id \in DOMAIN rs : id < Len(rs) =>
          /\ Recorded(rs, vd, wk, id)
          /\ rs[id].task = rs[Len(rs)].task => vd[id] = "cancelled"
    /\ rs # <<>> => Recorded(rs, vd, wk, Len(rs)) \/ Reachable(rs, vd, wk, Len(rs))

\* The answer, by the newest execution.
AnswerOf(rs, vd) ==
    IF vd[Len(rs)] = "succeeded" /\ rs[Len(rs)].task = Tasks THEN "succeeded"
    ELSE IF vd[Len(rs)] = "failed" THEN "failed" ELSE "unanswered"

Concluded(rs, vd, wk, outcome) ==
    rs # <<>> => /\ Recorded(rs, vd, wk, Len(rs))
                 /\ ~Sync(rs, Len(rs)) => outcome = AnswerOf(rs, vd)

Asking == {"pause", "submit", "record", "poll", "result", "status"}

\* What the run that has the dispatch knows is where the records end.
Knows(r, rs, vd, wk) ==
    LET n == Len(rs) IN
    /\ r.pc \in {"task", "prepare"} /\ rs # <<>> =>
          /\ Recorded(rs, vd, wk, n) /\ vd[n] \in {"succeeded", "cancelled"}
          /\ rs[n].task = r.task => vd[n] = "cancelled"
    /\ r.pc \in Asking \cup {"release"} => rs # <<>> /\ r.id = n /\ r.mem = rs[n].ex
    /\ r.pc \in Asking => Reachable(rs, vd, wk, n)
    /\ r.pc = "record" /\ r.seen \in Terminal => Sync(rs, n) /\ r.seen # "cancelled"
    /\ r.pc = "record" /\ r.seen \notin Terminal => r.seen = "running" /\ wk[n] # "absent"
    /\ r.pc \in {"poll", "result"} => wk[n] # "absent"
    /\ r.pc = "result" => wk[n] = r.seen
    /\ r.pc = "release" => Recorded(rs, vd, wk, n) /\ ~r.mem.failure /\ r.mem.state = r.seen
    /\ r.snapshot # <<>> =>
          /\ Len(r.snapshot) = n
          /\ \A id \in DOMAIN rs : id < n => r.snapshot[id].state \in Terminal
    /\ r.pc = "end" => Concluded(rs, vd, wk, r.outcome)

Owned(s) == row.state = "running" /\ row.owner = s /\ ~row.lapsed

\* One run has the dispatch, and nothing is lost to those after it.
Crashes ==
    /\ NoPool /\ up
    /\ \A s \in Server : run[s].pc # "idle" =>
          /\ Owned(s) /\ ~run[s].lost /\ ~run[s].cancelled
          /\ Knows(run[s], recs, verdict, work)
    /\ Tidy(recs, verdict, work)
    /\ row.state \in Ending => Concluded(recs, verdict, work, row.state)

Calm == NoPool /\ mishaps \subseteq {"crash"}
CalmInv == Calm => Crashes

-----------------------------------------------------------------------------
\* Records and answers

\* A record is written by whom it was read by as it was meant.
LEMMA PutOwn ==
  ASSUME NEW ex \in Record, NEW next \in State
  PROVE  /\ Put(ex, ex, next) = To(ex, next)
         /\ \A m \in Record : m.state = ex.state /\ m.released = ex.released =>
               Put(ex, m, next) = IF CanTransition(ex.state, next) THEN To(m, next) ELSE ex
<1>1. ASSUME NEW m \in Record, m.state = ex.state, m.released = ex.released
      PROVE  Put(ex, m, next) = IF CanTransition(ex.state, next) THEN To(m, next) ELSE ex
  <2>1. To(m, next) \in Record /\ To(m, next).released = m.released
    BY DEF To, Record
  <2>2. [To(m, next) EXCEPT !.released = ex.released] = To(m, next)
    BY <1>1, <2>1 DEF Record
  <2>3. QED
    BY <1>1, <2>2 DEF Put, Update
<1>2. QED
  BY <1>1 DEF To

\* Where the newest record or its work changes, the older ones are as they were.
LEMMA TidyNewest ==
  ASSUME NEW rs, NEW vd, NEW wk, NEW rs2, NEW vd2, NEW wk2, Tidy(rs, vd, wk),
         NEW n \in Nat, Len(rs) = n, Len(rs2) = n, DOMAIN rs = 1..n, DOMAIN rs2 = 1..n, n # 0,
         \A id \in 1..n : id # n => rs2[id] = rs[id] /\ vd2[id] = vd[id] /\ wk2[id] = wk[id],
         rs2[n].task = rs[n].task,
         Recorded(rs2, vd2, wk2, n) \/ Reachable(rs2, vd2, wk2, n)
  PROVE  Tidy(rs2, vd2, wk2)
<1>1. ASSUME NEW id \in 1..n, id < n
      PROVE  /\ Recorded(rs2, vd2, wk2, id)
             /\ rs2[id].task = rs2[n].task => vd2[id] = "cancelled"
  <2>1. rs2[id] = rs[id] /\ vd2[id] = vd[id] /\ wk2[id] = wk[id]
    BY <1>1
  <2>2. Recorded(rs, vd, wk, id) /\ (rs[id].task = rs[n].task => vd[id] = "cancelled")
    BY <1>1 DEF Tidy
  <2>3. QED
    BY <2>1, <2>2 DEF Recorded, Sync
<1>2. QED
  BY <1>1 DEF Tidy

\* The verdict of a resumed dispatch is its answer (resume.go ended).
LEMMA EndedAnswers ==
  ASSUME Data(recs, verdict, work), Truthful(recs, verdict, work),
         NEW copies \in Seq(Record), Len(copies) = Len(recs), recs # <<>>,
         LET last == copies[Len(recs)] IN
             /\ last.state \in Terminal
             /\ IF last.failure THEN verdict[Len(recs)] = "none"
                ELSE last.result /\ verdict[Len(recs)] = last.state
  PROVE  EndedAs(copies) = AnswerOf(recs, verdict)
<1> DEFINE n == Len(recs)
           last == copies[n]
           tasks == {recs[id].task : id \in DOMAIN copies}
<1>1. n \in Nat /\ n # 0 /\ DOMAIN copies = 1..n /\ DOMAIN recs = 1..n /\ copies # <<>> /\ Last(copies) = last
  BY EmptySeq DEF Data, Last
<1>2. CASE last.failure
  <2>1. EndedAs(copies) = "unanswered"
    BY <1>1, <1>2 DEF EndedAs
  <2>2. QED
    BY <1>2, <2>1 DEF AnswerOf
<1>3. CASE ~last.failure /\ last.state = "succeeded"
  <2>1. EndedAs(copies) = IF Cardinality(tasks) >= Tasks THEN "succeeded" ELSE "unanswered"
    BY <1>1, <1>3 DEF EndedAs
  <2>2. verdict[n] = "succeeded"
    BY <1>3
  <2>3. \A id \in 1..n : recs[id].task \in 1..Tasks /\ recs[id].task <= recs[n].task
    BY <1>1, ExecutionType DEF Truthful
  <2>4. Cardinality(tasks) >= Tasks => recs[n].task = Tasks
    <3>1. SUFFICES ASSUME Cardinality(tasks) >= Tasks PROVE recs[n].task = Tasks
      OBVIOUS
    <3>2. tasks \in SUBSET (1..Tasks)
      BY <1>1, <2>3
    <3>3. tasks = 1..Tasks
      BY <3>1, <3>2, AllReached
    <3>4. PICK id \in 1..n : recs[id].task = Tasks
      BY <1>1, <3>3, TasksAssumption
    <3>5. QED
      BY <1>1, <2>3, <3>4, TasksAssumption
  <2>5. recs[n].task = Tasks => Cardinality(tasks) >= Tasks
    <3>1. SUFFICES ASSUME recs[n].task = Tasks PROVE Cardinality(tasks) >= Tasks
      OBVIOUS
    <3>2. AllPassed(recs, verdict, Tasks - 1)
      BY <1>1, <3>1 DEF Truthful
    <3>3. ASSUME NEW t \in 1..Tasks PROVE t \in tasks
      <4>1. CASE t = Tasks
        BY <1>1, <3>1, <4>1
      <4>2. CASE t # Tasks
        BY <1>1, <3>2, <4>2, TasksAssumption DEF AllPassed
      <4>3. QED
        BY <4>1, <4>2
    <3>4. tasks = 1..Tasks
      BY <1>1, <2>3, <3>3
    <3>5. Cardinality(1..Tasks) = Tasks
      BY TasksAssumption, FS_Interval
    <3> HIDE DEF tasks
    <3>6. Cardinality(tasks) = Tasks
      BY <3>4, <3>5
    <3>7. QED
      BY <3>6, TasksAssumption
  <2> HIDE DEF tasks
  <2>6. QED
    BY <2>1, <2>2, <2>4, <2>5 DEF AnswerOf
<1>4. CASE ~last.failure /\ last.state = "failed"
  <2>1. EndedAs(copies) = "failed"
    BY <1>1, <1>4 DEF EndedAs
  <2>2. QED
    BY <1>4, <2>1 DEF AnswerOf
<1>5. CASE ~last.failure /\ last.state = "cancelled"
  <2>1. EndedAs(copies) = "unanswered"
    BY <1>1, <1>5 DEF EndedAs
  <2>2. QED
    BY <1>5, <2>1 DEF AnswerOf
<1>6. QED
  BY <1>2, <1>3, <1>4, <1>5 DEF Terminal

-----------------------------------------------------------------------------
\* The steps. Each is one of a run that has the dispatch, of a server that takes
\* it, or of the provider.

\* Nothing but a crash has happened, so no call fails but by one.
LEMMA NoFaults ==
  ASSUME mishaps' \subseteq {"crash"}, NEW kind, kind # "crash"
  PROVE  ~Fault(kind)
BY DEF Fault

\* The run that has the dispatch goes on, and nobody else has one.
LEMMA RunGoesOn ==
  ASSUME Inv, Crashes, NEW s \in Server, run[s].pc # "idle", UNCHANGED <<row, up>>, NEW q, Becomes(s, q),
         q.pc # "idle" => ~q.lost /\ ~q.cancelled /\ Knows(q, recs', verdict', work'),
         Tidy(recs', verdict', work')
  PROVE  Crashes'
<1>1. run \in [Server -> Runs(Len(recs))]
  BY TypeFacts DEF Inv
<1>2. \A t \in Server : run'[t] = IF t = s THEN q ELSE run[t]
  BY <1>1 DEF Becomes
<1>3. \A t \in Server : t # s => run[t].pc = "idle"
  BY DEF Crashes, Owned
<1>4. row'.state \notin Ending
  BY DEF Crashes, Owned, Ending
<1>5. QED
  BY <1>2, <1>3, <1>4 DEF Crashes, Owned

\* What is known of the run that has the dispatch.
LEMMA Active ==
  ASSUME Inv, Crashes, NEW s \in Server, run[s].pc # "idle"
  PROVE  /\ up /\ Owned(s) /\ ~run[s].lost /\ ~run[s].cancelled
         /\ Knows(run[s], recs, verdict, work) /\ Tidy(recs, verdict, work)
         /\ Data(recs, verdict, work) /\ Truthful(recs, verdict, work)
         /\ run[s] \in Runs(Len(recs)) /\ Sound(run[s], recs, verdict)
         /\ Submits(run[s]) => Leads(run[s], recs, verdict, work)
BY RunFacts DEF Crashes

\* Only a crash befalls a run, so none of its calls fails.
LEMMA NeverFails ==
  ASSUME Inv, Crashes, mishaps' \subseteq {"crash"}, NEW s \in Server, run[s].pc # "idle"
  PROVE  ~Fails(s)
BY Active, NoFaults DEF Fails

\* Nothing has been recorded when nothing has begun.
LEMMA BeginCalm == ASSUME Inv, Crashes, NEW s \in Server, Begin(s) PROVE Crashes'
<1> DEFINE q == [Idle EXCEPT !.pc = "task"]
<1>1. run \in [Server -> Runs(Len(recs))] /\ recs = <<>> /\ \A t \in Server : run[t].pc = "idle"
  BY TypeFacts DEF Inv, Started, Begin
<1>2. \A t \in Server : run'[t] = IF t = s THEN q ELSE run[t]
  BY <1>1 DEF Begin, Becomes
<1>3. q.pc = "task" /\ ~q.lost /\ ~q.cancelled /\ q.snapshot = <<>>
  BY DEF Idle
<1>4. Knows(q, recs, verdict, work)
  BY <1>1, <1>3 DEF Knows, Asking
<1>5. row'.state = "running" /\ row'.owner = s /\ ~row'.lapsed /\ row'.state \notin Ending
  BY DEF Begin, Ending
<1>6. UNCHANGED <<recs, verdict, work, up>>
  BY DEF Begin
<1> HIDE DEF q
<1>7. QED
  BY <1>1, <1>2, <1>3, <1>4, <1>5, <1>6 DEF Crashes, Owned

\* A run that ends before it submits has the answer of the tasks before.
LEMMA OverKnows ==
  ASSUME NEW rs, NEW vd, NEW wk, NEW r, NEW outcome, Concluded(rs, vd, wk, outcome)
  PROVE  Over(r, outcome).lost = r.lost /\ ~Over(r, outcome).cancelled /\ Knows(Over(r, outcome), rs, vd, wk)
<1> DEFINE q == Over(r, outcome)
<1>1. q.pc = "end" /\ q.lost = r.lost /\ q.cancelled = FALSE /\ q.outcome = outcome /\ q.snapshot = <<>>
  BY DEF Over, Idle
<1> HIDE DEF q
<1>2. Knows(q, rs, vd, wk)
  BY <1>1 DEF Knows, Asking
<1>3. QED
  BY <1>1, <1>2 DEF q

\* The tasks that have passed are followed by one that has not.
LEMMA NotReached ==
  ASSUME Inv, Crashes, NEW s \in Server, run[s].pc \in {"task", "prepare"}
  PROVE  Concluded(recs, verdict, work, "unanswered")
<1> DEFINE r == run[s]
           n == Len(recs)
<1>1. /\ Data(recs, verdict, work) /\ Knows(r, recs, verdict, work) /\ r.task \in 1..Tasks
      /\ Submits(r) /\ Leads(r, recs, verdict, work)
  BY Active DEF Runs, Submits, Sound
<1>2. CASE recs = <<>>
  BY <1>2 DEF Concluded
<1>3. CASE recs # <<>>
  <2>1. n \in DOMAIN recs
    BY <1>1, <1>3, EmptySeq DEF Data
  <2>2. Recorded(recs, verdict, work, n) /\ verdict[n] \in {"succeeded", "cancelled"}
        /\ (recs[n].task = r.task => verdict[n] = "cancelled")
    BY <1>1, <1>3 DEF Knows
  <2>3. recs[n].task <= r.task /\ recs[n].task \in 1..Tasks
    BY <1>1, <2>1, ExecutionType DEF Leads, Data
  <2>4. verdict[n] = "succeeded" => recs[n].task # Tasks
    BY <1>1, <2>2, <2>3, TasksAssumption
  <2>5. QED
    BY <2>2, <2>4 DEF Concluded, AnswerOf
<1>4. QED
  BY <1>2, <1>3

\* A task is begun, or has no candidate.
LEMMA TaskCalm ==
  ASSUME Inv, Crashes, NEW s \in Server, Task(s)
  PROVE  Crashes'
<1> DEFINE r == run[s]
<1>1. r.pc = "task" /\ Knows(r, recs, verdict, work) /\ ~r.lost /\ ~r.cancelled /\ Tidy(recs, verdict, work)
  BY Active DEF Task
<1>2. UNCHANGED <<row, recs, work, verdict, up>>
  BY DEF Task
<1>3. CASE Becomes(s, Over(r, "unanswered"))
  <2>1. Concluded(recs, verdict, work, "unanswered")
    BY <1>1, NotReached
  <2>2. QED
    BY <1>1, <1>2, <1>3, <2>1, OverKnows, RunGoesOn
<1>4. ASSUME NEW ranking,
             Becomes(s, [r EXCEPT !.pc = "prepare", !.left = ranking, !.tried = 0, !.id = 0,
                                  !.mem = Pending, !.seen = "pending"])
      PROVE  Crashes'
  <2> DEFINE q == [r EXCEPT !.pc = "prepare", !.left = ranking, !.tried = 0, !.id = 0,
                            !.mem = Pending, !.seen = "pending"]
  <2>1. q.pc = "prepare" /\ q.task = r.task /\ q.snapshot = r.snapshot /\ q.lost = r.lost /\ q.cancelled = r.cancelled
    BY Active, <1>1 DEF Runs
  <2>2. Becomes(s, q)
    BY <1>4
  <2> HIDE DEF q
  <2>3. Knows(q, recs, verdict, work)
    BY <1>1, <2>1 DEF Knows, Asking
  <2>4. QED
    BY <1>1, <1>2, <2>1, <2>2, <2>3, RunGoesOn
<1>5. QED
  BY <1>1, <1>3, <1>4 DEF Task

\* An attempt is recorded after those that are over.
LEMMA PreparedCalm ==
  ASSUME Inv, Crashes, NEW s \in Server, Prepared(s), UNCHANGED <<row, up>>
  PROVE  Crashes'
<1> DEFINE r == run[s]
           n == Len(recs)
           e == [task |-> r.task, provider |-> Head(r.left), attempt |-> r.tried + 1,
                 previous |-> r.id, home |-> s, ex |-> Pending]
           q == [r EXCEPT !.pc = "pause", !.left = Tail(r.left), !.id = n + 1, !.mem = Pending]
<1>1. /\ r.pc = "prepare" /\ Data(recs, verdict, work) /\ r \in Runs(n) /\ Tidy(recs, verdict, work)
      /\ Knows(r, recs, verdict, work) /\ ~r.lost /\ ~r.cancelled /\ r.snapshot = <<>>
      /\ Leads(r, recs, verdict, work) /\ Truthful(recs, verdict, work)
  BY Active DEF Prepared, Submits, Sound
<1>2. n \in Nat /\ DOMAIN recs = 1..n /\ Len(verdict) = n /\ Len(work) = n
      /\ recs \in Seq(Executions) /\ verdict \in Seq({"none"} \cup Terminal)
      /\ work \in Seq({"absent", "running", "stuck"} \cup Terminal)
  <2> DEFINE V == {"none"} \cup Terminal
             W == {"absent", "running", "stuck"} \cup Terminal
  <2>1. n \in Nat /\ DOMAIN recs = 1..n /\ verdict \in [1..n -> V] /\ work \in [1..n -> W] /\ recs \in Seq(Executions)
    BY <1>1 DEF Data
  <2> HIDE DEF V, W, n
  <2>2. verdict \in Seq(V) /\ Len(verdict) = n /\ work \in Seq(W) /\ Len(work) = n
    BY <2>1
  <2>3. QED
    BY <2>1, <2>2 DEF V, W, n
<1>3. recs' = Append(recs, e) /\ work' = Append(work, "absent") /\ verdict' = Append(verdict, "none") /\ Becomes(s, q)
  BY DEF Prepared
<1>4. e.task = r.task /\ e.ex = Pending
  OBVIOUS
<1>5. q.pc = "pause" /\ q.id = n + 1 /\ q.mem = Pending /\ q.snapshot = <<>> /\ q.lost = r.lost /\ q.cancelled = r.cancelled
  BY <1>1 DEF Runs
<1> HIDE DEF e, q
<1>6. /\ Len(recs') = n + 1 /\ recs'[n + 1] = e /\ verdict'[n + 1] = "none" /\ work'[n + 1] = "absent"
      /\ \A id \in 1..n : recs'[id] = recs[id] /\ verdict'[id] = verdict[id] /\ work'[id] = work[id]
      /\ DOMAIN recs' = 1 .. n + 1
  BY <1>2, <1>3, AppendProperties
<1>7. Reachable(recs', verdict', work', n + 1)
  BY <1>4, <1>6 DEF Reachable, Pending
<1>8. ASSUME NEW id \in 1..n
      PROVE  Recorded(recs', verdict', work', id) /\ (recs[id].task = r.task => verdict[id] = "cancelled")
  <2>1. Recorded(recs, verdict, work, id) /\ (recs[id].task = r.task => verdict[id] = "cancelled")
    <3>1. recs # <<>>
      BY <1>2
    <3>2. Recorded(recs, verdict, work, n) /\ (recs[n].task = r.task => verdict[n] = "cancelled")
      BY <1>1, <3>1 DEF Knows
    <3>3. CASE id = n
      BY <3>2, <3>3
    <3>4. CASE id < n
      <4>1. Recorded(recs, verdict, work, id) /\ (recs[id].task = recs[n].task => verdict[id] = "cancelled")
        BY <1>1, <1>2, <3>4 DEF Tidy
      <4>2. id \in DOMAIN recs /\ n \in DOMAIN recs /\ id <= n
        BY <1>2, <3>4
      <4>3. recs[id].task \in 1..Tasks /\ recs[n].task \in 1..Tasks /\ r.task \in 1..Tasks
        BY <1>1, <1>2, <4>2, ExecutionType DEF Runs
      <4>4. recs[id].task <= recs[n].task /\ recs[n].task <= r.task
        BY <1>1, <4>2 DEF Truthful, Leads
      <4>5. recs[id].task = r.task => recs[id].task = recs[n].task
        BY <4>3, <4>4, TasksAssumption
      <4>6. QED
        BY <4>1, <4>5
    <3>5. n \in Nat
      BY <1>2
    <3>6. id = n \/ id < n
      BY <3>5
    <3>7. QED
      BY <3>3, <3>4, <3>6
  <2>2. QED
    BY <1>6, <2>1 DEF Recorded, Sync
<1>9. Tidy(recs', verdict', work')
  BY <1>2, <1>4, <1>6, <1>7, <1>8 DEF Tidy
<1>10. Knows(q, recs', verdict', work')
  <2>1. recs' # <<>>
    BY <1>2, <1>6
  <2>2. QED
    BY <1>4, <1>5, <1>6, <1>7, <2>1 DEF Knows, Asking
<1>11. QED
  BY <1>1, <1>3, <1>5, <1>9, <1>10, RunGoesOn

\* One turn of the loop: an attempt more, a provider less, or the end.
LEMMA PrepareCalm ==
  ASSUME Inv, Crashes, NEW s \in Server, Prepare(s)
  PROVE  Crashes'
<1> DEFINE r == run[s]
<1>1. /\ r.pc = "prepare" /\ Knows(r, recs, verdict, work) /\ ~r.lost /\ ~r.cancelled
      /\ Tidy(recs, verdict, work) /\ UNCHANGED <<row, up>>
  BY Active DEF Prepare
<1>2. CASE Becomes(s, Over(r, "unanswered")) /\ UNCHANGED <<recs, work, verdict>>
  <2>1. Concluded(recs, verdict, work, "unanswered")
    BY <1>1, NotReached
  <2>2. QED
    BY <1>1, <1>2, <2>1, OverKnows, RunGoesOn
<1>3. CASE Becomes(s, [r EXCEPT !.left = Tail(@)]) /\ UNCHANGED <<recs, work, verdict>>
  <2> DEFINE q == [r EXCEPT !.left = Tail(@)]
  <2>1. q.pc = "prepare" /\ q.task = r.task /\ q.snapshot = r.snapshot /\ q.lost = r.lost /\ q.cancelled = r.cancelled
    BY Active, <1>1 DEF Runs
  <2>2. Becomes(s, q)
    BY <1>3
  <2> HIDE DEF q
  <2>3. Knows(q, recs, verdict, work)
    BY <1>1, <2>1 DEF Knows, Asking
  <2>4. QED
    BY <1>1, <1>3, <2>1, <2>2, <2>3, RunGoesOn
<1>4. CASE Prepared(s)
  BY <1>1, <1>4, PreparedCalm
<1>5. QED
  BY <1>2, <1>3, <1>4 DEF Prepare, Prepared

\* Nobody has cancelled the run that waits.
LEMMA PauseCalm ==
  ASSUME Inv, Crashes, NEW s \in Server, Pause(s)
  PROVE  Crashes'
<1> DEFINE r == run[s]
           q == [r EXCEPT !.pc = "submit", !.tried = @ + 1]
<1>1. /\ r.pc = "pause" /\ Knows(r, recs, verdict, work) /\ ~r.lost /\ ~r.cancelled /\ r \in Runs(Len(recs))
      /\ Tidy(recs, verdict, work) /\ UNCHANGED <<row, recs, work, verdict, up>>
  BY Active DEF Pause
<1>2. Becomes(s, q)
  BY <1>1 DEF Pause
<1>3. /\ q.pc = "submit" /\ q.id = r.id /\ q.mem = r.mem /\ q.snapshot = r.snapshot
      /\ q.lost = r.lost /\ q.cancelled = r.cancelled
  BY <1>1 DEF Runs
<1> HIDE DEF q
<1>4. Knows(q, recs, verdict, work)
  BY <1>1, <1>3 DEF Knows, Asking
<1>5. QED
  BY <1>1, <1>2, <1>3, <1>4, RunGoesOn

\* Where the attempt in hand is: the newest.
LEMMA AtNewest ==
  ASSUME Inv, Crashes, NEW s \in Server, run[s].pc \in Asking \cup {"release"}
  PROVE  /\ run[s].id = Len(recs) /\ Len(recs) \in Nat \ {0} /\ Len(recs) \in DOMAIN recs
         /\ DOMAIN recs = 1..Len(recs) /\ DOMAIN verdict = 1..Len(recs) /\ DOMAIN work = 1..Len(recs)
         /\ run[s].mem = recs[Len(recs)].ex /\ run[s].mem \in Record /\ recs # <<>>
         /\ recs[Len(recs)] \in Executions
         /\ run[s].pc \in Asking => Reachable(recs, verdict, work, Len(recs))
<1>1. run[s].pc # "idle"
  BY DEF Asking
<1>2. Data(recs, verdict, work) /\ Knows(run[s], recs, verdict, work) /\ run[s] \in Runs(Len(recs))
  BY <1>1, Active
<1>3. Len(recs) \in Nat /\ DOMAIN recs = 1..Len(recs) /\ DOMAIN verdict = 1..Len(recs) /\ DOMAIN work = 1..Len(recs)
  BY <1>2 DEF Data
<1>4. recs # <<>> /\ run[s].id = Len(recs) /\ run[s].mem = recs[Len(recs)].ex
      /\ (run[s].pc \in Asking => Reachable(recs, verdict, work, Len(recs)))
  BY <1>2 DEF Knows
<1>5. Len(recs) # 0 /\ recs \in Seq(Executions)
  BY <1>2, <1>4, EmptySeq DEF Data
<1>6. Len(recs) \in DOMAIN recs
  BY <1>3, <1>5
<1>7. recs[Len(recs)] \in Executions /\ run[s].mem \in Record
  BY <1>2, <1>5, <1>6, ElementOfSeq, <1>3 DEF Runs
<1>8. QED
  BY <1>3, <1>4, <1>5, <1>6, <1>7

\* A step that writes no record but the newest, and disturbs no work but its own.
OnlyNewest ==
    LET n == Len(recs) IN
    /\ UNCHANGED recs \/ \E ex : recs' = [recs EXCEPT ![n] = [recs[n] EXCEPT !.ex = ex]]
    /\ UNCHANGED verdict \/ \E v : verdict' = [verdict EXCEPT ![n] = v]
    /\ UNCHANGED work \/ \E w : work' = [work EXCEPT ![n] = w]

\* What such a step leaves as it was, and what it writes.
LEMMA NewestFacts ==
  ASSUME Inv, Crashes, OnlyNewest, recs # <<>>, NEW n, n = Len(recs)
  PROVE  /\ n \in Nat \ {0} /\ DOMAIN recs = 1..n /\ DOMAIN recs' = 1..n /\ Len(recs') = n /\ recs' # <<>>
         /\ recs'[n].task = recs[n].task /\ (Sync(recs', n) <=> Sync(recs, n))
         /\ \A id \in 1..n : id # n =>
               recs'[id] = recs[id] /\ verdict'[id] = verdict[id] /\ work'[id] = work[id]
         /\ \A ex : recs' = [recs EXCEPT ![n] = [recs[n] EXCEPT !.ex = ex]] => recs'[n].ex = ex
         /\ \A v : verdict' = [verdict EXCEPT ![n] = v] => verdict'[n] = v
         /\ \A w : work' = [work EXCEPT ![n] = w] => work'[n] = w
<1>1. Data(recs, verdict, work)
  BY TypeFacts DEF Inv
<1>2. n \in Nat /\ DOMAIN recs = 1..n /\ DOMAIN verdict = 1..n /\ DOMAIN work = 1..n /\ recs \in Seq(Executions)
  BY <1>1 DEF Data
<1>3. n # 0
  BY <1>2, EmptySeq
<1>4. n \in DOMAIN recs /\ recs[n] \in Executions
  BY <1>2, <1>3, ElementOfSeq
<1>5. /\ DOMAIN recs' = 1..n /\ Len(recs') = n /\ recs' # <<>>
      /\ recs'[n].task = recs[n].task /\ recs'[n].provider = recs[n].provider
      /\ \A id \in 1..n : id # n => recs'[id] = recs[id]
      /\ \A ex : recs' = [recs EXCEPT ![n] = [recs[n] EXCEPT !.ex = ex]] => recs'[n].ex = ex
  <2>1. CASE UNCHANGED recs
    <3>1. \A ex : recs' = [recs EXCEPT ![n] = [recs[n] EXCEPT !.ex = ex]] => recs'[n].ex = ex
      BY <1>4 DEF Executions
    <3>2. QED
      BY <1>2, <2>1, <3>1
  <2>2. ASSUME NEW ex, recs' = [recs EXCEPT ![n] = [recs[n] EXCEPT !.ex = ex]]
        PROVE  /\ DOMAIN recs' = 1..n /\ Len(recs') = n /\ recs' # <<>>
               /\ recs'[n].task = recs[n].task /\ recs'[n].provider = recs[n].provider
               /\ \A id \in 1..n : id # n => recs'[id] = recs[id]
               /\ recs'[n].ex = ex
    <3> DEFINE e == [recs[n] EXCEPT !.ex = ex]
               S == Executions \cup {e}
    <3>1. recs \in Seq(S)
      BY <1>2, SeqDef
    <3>2. e \in S /\ e.task = recs[n].task /\ e.provider = recs[n].provider /\ e.ex = ex
      BY <1>4 DEF Executions
    <3>3. recs' = [recs EXCEPT ![n] = e]
      BY <2>2
    <3> HIDE DEF e, S
    <3>4. recs' \in Seq(S) /\ Len(recs') = n /\ DOMAIN recs' = 1..n
      BY <1>2, <1>4, <3>1, <3>2, <3>3, ExceptSeq
    <3>5. recs'[n] = e /\ \A id \in 1..n : id # n => recs'[id] = recs[id]
      BY <1>2, <1>4, <3>3
    <3>6. recs' # <<>>
      BY <1>3, <3>4, EmptySeq
    <3>7. QED
      BY <3>2, <3>4, <3>5, <3>6
  <2>3. QED
    BY <2>1, <2>2 DEF OnlyNewest
<1>6. /\ \A id \in 1..n : id # n => verdict'[id] = verdict[id] /\ work'[id] = work[id]
      /\ \A v : verdict' = [verdict EXCEPT ![n] = v] => verdict'[n] = v
      /\ \A w : work' = [work EXCEPT ![n] = w] => work'[n] = w
  BY <1>2, <1>4 DEF OnlyNewest
<1>7. QED
  BY <1>2, <1>3, <1>5, <1>6 DEF Sync

\* A run that submitted goes on when it knows what such a step left.
LEMMA NewestCalm ==
  ASSUME Inv, Crashes, OnlyNewest, UNCHANGED <<row, up>>,
         NEW s \in Server, run[s].pc \in Asking \cup {"release"}, NEW q, Becomes(s, q), ~q.lost /\ ~q.cancelled,
         \/ Recorded(recs', verdict', work', Len(recs))
         \/ Reachable(recs', verdict', work', Len(recs)),
         Knows(q, recs', verdict', work')
  PROVE  Crashes'
<1> DEFINE n == Len(recs)
           rs == recs'
           vd == verdict'
           wk == work'
<1>1. run[s].pc # "idle"
  BY DEF Asking
<1>2. recs # <<>>
  BY AtNewest
<1>3. /\ n \in Nat /\ n # 0 /\ DOMAIN recs = 1..n /\ DOMAIN rs = 1..n /\ Len(rs) = n
      /\ rs[n].task = recs[n].task
      /\ \A id \in 1..n : id # n => rs[id] = recs[id] /\ vd[id] = verdict[id] /\ wk[id] = work[id]
  BY <1>2, NewestFacts
<1>4. Tidy(recs, verdict, work) /\ Len(recs) = n
  BY <1>1, Active
<1>5. Recorded(rs, vd, wk, n) \/ Reachable(rs, vd, wk, n)
  OBVIOUS
<1> HIDE DEF n, rs, vd, wk
<1>6. Tidy(rs, vd, wk)
  BY <1>3, <1>4, <1>5, TidyNewest
<1>7. QED
  BY <1>1, <1>6, RunGoesOn DEF rs, vd, wk

\* A submission is answered, and what it began goes on at the provider or is over.
LEMMA SubmitCalm ==
  ASSUME Inv, Crashes, mishaps' \subseteq {"crash"}, NEW s \in Server, Submit(s)
  PROVE  Crashes'
<1> DEFINE r == run[s]
           n == Len(recs)
<1>1. r.pc = "submit" /\ r.pc \in Asking /\ r.pc # "idle"
  BY DEF Submit, Asking
<1>2. /\ r \in Runs(n) /\ Sound(r, recs, verdict) /\ Leads(r, recs, verdict, work)
      /\ ~r.lost /\ ~r.cancelled
  BY <1>1, Active DEF Submits, Sound, Attempting
<1>3. /\ r.id = n /\ r.mem = recs[n].ex /\ recs # <<>> /\ Reachable(recs, verdict, work, n)
  BY <1>1, AtNewest
<1>4. work[n] = "absent" /\ verdict[n] = "none" /\ r.mem = Pending /\ r.snapshot = <<>>
  BY <1>1, <1>2, <1>3 DEF Leads, Sound
<1>5. ~Fails(s)
  BY <1>1, NeverFails
<1>6. Sync(recs, n) <=> FinishesInSubmit(KindOf(r.id))
  BY <1>3 DEF Sync, KindOf
<1>7. UNCHANGED <<row, up>>
  BY DEF Submit
<1>8. CASE /\ ~Sync(recs, n) /\ work' = Set(work, n, "running") /\ UNCHANGED <<recs, verdict>>
           /\ Becomes(s, [r EXCEPT !.pc = "record", !.seen = "running"])
  <2> DEFINE q == [r EXCEPT !.pc = "record", !.seen = "running"]
  <2>1. /\ q.pc = "record" /\ q.seen = "running" /\ q.mem = r.mem /\ q.id = r.id /\ q.snapshot = <<>>
        /\ q.lost = r.lost /\ q.cancelled = r.cancelled
    BY <1>2, <1>4 DEF Runs
  <2>2. Becomes(s, q)
    BY <1>8
  <2>3. OnlyNewest /\ work' = [work EXCEPT ![n] = "running"]
    BY <1>8 DEF OnlyNewest, Set
  <2>4. work'[n] = "running" /\ recs' = recs /\ verdict' = verdict /\ recs' # <<>> /\ Len(recs') = n
    BY <1>3, <1>8, <2>3, NewestFacts
  <2> HIDE DEF q
  <2>5. Reachable(recs', verdict', work', n)
    BY <1>3, <1>4, <1>8, <2>4 DEF Reachable, Sync
  <2>6. Knows(q, recs', verdict', work')
    BY <1>3, <2>1, <2>4, <2>5 DEF Knows, Asking, Terminal
  <2>7. QED
    BY <1>1, <1>2, <1>7, <2>1, <2>2, <2>3, <2>5, <2>6, NewestCalm
<1>9. ASSUME NEW st \in Submittable \cap Terminal, Sync(recs, n), verdict' = Set(verdict, n, st),
             UNCHANGED <<recs, work>>, Becomes(s, [r EXCEPT !.pc = "record", !.seen = st])
      PROVE  Crashes'
  <2> DEFINE q == [r EXCEPT !.pc = "record", !.seen = st]
  <2>1. /\ q.pc = "record" /\ q.seen = st /\ q.mem = r.mem /\ q.id = r.id /\ q.snapshot = <<>>
        /\ q.lost = r.lost /\ q.cancelled = r.cancelled
    BY <1>2, <1>4 DEF Runs
  <2>2. Becomes(s, q)
    BY <1>9
  <2>3. OnlyNewest
    BY <1>9 DEF OnlyNewest, Set
  <2> HIDE DEF q
  <2>4. Reachable(recs', verdict', work', n)
    BY <1>3, <1>9 DEF Reachable, Sync
  <2>5. st \in Terminal /\ st # "cancelled"
    BY <1>9 DEF Submittable, Terminal
  <2>6. Knows(q, recs', verdict', work')
    BY <1>3, <1>9, <2>1, <2>4, <2>5 DEF Knows, Asking, Sync
  <2>7. QED
    BY <1>1, <1>2, <1>7, <2>1, <2>2, <2>3, <2>4, <2>6, NewestCalm
<1>10. QED
  BY <1>3, <1>5, <1>6, <1>8, <1>9 DEF Submit

\* A record that carries no result is the same with none.
LEMMA NoResult == ASSUME NEW m \in Record, ~m.result PROVE [m EXCEPT !.result = FALSE] = m
BY DEF Record

\* A state is recorded in a record nobody else writes: with its result when the
\* work is over, and otherwise for the provider to be asked again.
LEMMA RecordStateCalm ==
  ASSUME Inv, Crashes, NEW s \in Server, RecordState(s)
  PROVE  Crashes'
<1> DEFINE r == run[s]
           n == Len(recs)
           m == r.mem
           st == r.seen
           m1 == To(m, "submitted")
           over == st \in Terminal
           m2 == [m1 EXCEPT !.result = over]
           kept == To(m2, st)
           q == [r EXCEPT !.pc = IF st \in Terminal THEN "release" ELSE "poll", !.mem = kept]
<1>1. r.pc = "record" /\ r.pc \in Asking /\ r.pc # "idle"
  BY DEF RecordState, Asking
<1>2. /\ r \in Runs(n) /\ Sound(r, recs, verdict) /\ Knows(r, recs, verdict, work)
      /\ ~r.lost /\ ~r.cancelled /\ up
  BY <1>1, Active
<1>3. /\ r.id = n /\ m = recs[n].ex /\ m \in Record /\ recs # <<>> /\ Reachable(recs, verdict, work, n)
  BY <1>1, AtNewest
<1>4. st \in State /\ "submitted" \in State
  BY <1>2 DEF Runs, State
<1>5. m.state \in {"pending", "submitted", "running"} /\ ~m.failure /\ ~m.result /\ ~m.released
  BY <1>3 DEF Reachable
<1>6. /\ m1 \in Record /\ m1.state \in {"submitted", "running"} /\ ~m1.failure /\ ~m1.result /\ ~m1.released
  BY <1>3, <1>5 DEF To, Record, CanTransition, LegalTransitions, State
<1>7. /\ m2 \in Record /\ m2.state = m1.state /\ ~m2.failure /\ ~m2.released
      /\ m2.result = over
  <2>1. over \in BOOLEAN
    OBVIOUS
  <2> HIDE DEF m1, over
  <2>2. QED
    BY <1>6, <2>1 DEF Record
<1>8. st \notin Terminal => m2 = m1
  <2> HIDE DEF m1
  <2>1. SUFFICES ASSUME st \notin Terminal PROVE m2 = m1
    OBVIOUS
  <2>2. over = FALSE
    BY <2>1
  <2> HIDE DEF over
  <2>3. m2 = [m1 EXCEPT !.result = FALSE]
    BY <2>2
  <2>4. QED
    BY <1>6, <2>3, NoResult
<1>9. st \in Terminal => m1.state = "submitted" /\ st # "cancelled" /\ Sync(recs, n) /\ verdict[n] = st
  <2>1. SUFFICES ASSUME st \in Terminal PROVE m1.state = "submitted" /\ st # "cancelled" /\ Sync(recs, n) /\ verdict[n] = st
    OBVIOUS
  <2>2. m = Pending
    BY <1>1, <1>2, <2>1 DEF Sound
  <2>3. m1.state = "submitted"
    BY <2>2 DEF To, Pending, CanTransition, LegalTransitions
  <2>4. st # "cancelled" /\ Sync(recs, n)
    BY <1>1, <1>2, <2>1 DEF Knows
  <2>5. verdict[r.id] = st
    BY <1>1, <1>2, <2>1, <2>4 DEF Sound, Terminal
  <2>6. QED
    BY <1>3, <2>3, <2>4, <2>5
<1>10. st \notin Terminal => st = "running" /\ work[n] # "absent"
  BY <1>1, <1>2 DEF Knows
<1>11. Put(Put(m, m, "submitted"), m2, st) = kept
  <2>1. Put(m, m, "submitted") = m1
    BY <1>3, <1>4, PutOwn
  <2> HIDE DEF m1, m2
  <2>2. m2.state = m1.state /\ m2.released = m1.released
    BY <1>6, <1>7 DEF Record
  <2>3. Put(m1, m2, st) = IF CanTransition(m1.state, st) THEN To(m2, st) ELSE m1
    BY <1>4, <1>6, <1>7, <2>2, PutOwn
  <2>4. st \in Terminal => CanTransition(m1.state, st)
    BY <1>9 DEF CanTransition, LegalTransitions, Terminal
  <2>5. ~CanTransition(m1.state, st) => To(m2, st) = m2
    BY <1>7 DEF To
  <2>6. QED
    BY <1>8, <2>1, <2>3, <2>4, <2>5
<1>12. /\ kept \in Record /\ ~kept.failure /\ ~kept.released /\ kept.result = over
       /\ st \in Terminal => kept.state = st
       /\ st \notin Terminal => kept.state = "running"
  <2> HIDE DEF m1, m2
  <2>1. kept \in Record /\ ~kept.failure /\ ~kept.released /\ kept.result = over
    BY <1>4, <1>7 DEF To, Record
  <2>2. st \in Terminal => kept.state = st
    BY <1>7, <1>9 DEF To, CanTransition, LegalTransitions, Record
  <2>3. st \notin Terminal => kept.state = "running"
    BY <1>6, <1>7, <1>10 DEF To, CanTransition, LegalTransitions, Record
  <2>4. QED
    BY <2>1, <2>2, <2>3
<1>13. /\ recs' = [recs EXCEPT ![n] = [recs[n] EXCEPT !.ex = Put(Put(m, m, "submitted"), m2, st)]]
       /\ Becomes(s, q) /\ UNCHANGED <<row, up, work, verdict>>
  BY <1>2, <1>3 DEF RecordState, Set
<1>14. /\ q.pc = (IF st \in Terminal THEN "release" ELSE "poll") /\ q.seen = st /\ q.mem = kept /\ q.id = n
       /\ q.snapshot = r.snapshot /\ ~q.lost /\ ~q.cancelled
  BY <1>2, <1>3 DEF Runs
<1> HIDE DEF m1, m2, kept, q
<1>15. recs' = [recs EXCEPT ![n] = [recs[n] EXCEPT !.ex = kept]]
  BY <1>11, <1>13
<1>16. OnlyNewest
  BY <1>13, <1>15 DEF OnlyNewest
<1>17. recs'[n].ex = kept /\ (Sync(recs', n) <=> Sync(recs, n)) /\ DOMAIN recs' = DOMAIN recs /\ Len(recs') = n /\ recs' # <<>>
  BY <1>3, <1>15, <1>16, NewestFacts
<1>18. CASE st \in Terminal
  <2>1. work[n] # "running"
    BY <1>3, <1>9, <1>18 DEF Reachable
  <2>2. Recorded(recs', verdict', work', n)
    BY <1>9, <1>12, <1>13, <1>17, <1>18, <2>1 DEF Recorded
  <2>3. Knows(q, recs', verdict', work')
    BY <1>2, <1>12, <1>14, <1>17, <1>18, <2>2 DEF Knows, Asking
  <2>4. QED
    BY <1>1, <1>13, <1>14, <1>16, <2>2, <2>3, NewestCalm
<1>19. CASE st \notin Terminal
  <2>1. Reachable(recs', verdict', work', n)
    BY <1>3, <1>10, <1>12, <1>13, <1>17, <1>19 DEF Reachable
  <2>2. Knows(q, recs', verdict', work')
    BY <1>2, <1>10, <1>13, <1>14, <1>17, <1>19, <2>1 DEF Knows, Asking
  <2>3. QED
    BY <1>1, <1>13, <1>14, <1>16, <2>1, <2>2, NewestCalm
<1>20. QED
  BY <1>18, <1>19

\* No execution is a pool's.
LEMMA NotPooled ==
  ASSUME Inv, Crashes, NEW id \in DOMAIN recs
  PROVE  KindOf(id) # "pool"
<1>1. recs \in Seq(Executions)
  BY TypeFacts DEF Inv, Data
<1>2. recs[id] \in Executions
  BY <1>1, ElementOfSeq
<1>3. recs[id].provider \in Provider
  BY <1>2 DEF Executions
<1>4. QED
  BY <1>3 DEF Crashes, NoPool, KindOf

\* A poll finds what there is to find, for work that was begun leaves a trace.
LEMMA PollCalm ==
  ASSUME Inv, Crashes, mishaps' \subseteq {"crash"}, NEW s \in Server, Poll(s)
  PROVE  Crashes'
<1> DEFINE r == run[s]
           n == Len(recs)
<1>1. r.pc = "poll" /\ r.pc \in Asking /\ r.pc # "idle"
  BY DEF Poll, Asking
<1>2. /\ r \in Runs(n) /\ Knows(r, recs, verdict, work) /\ ~r.lost /\ ~r.cancelled
  BY <1>1, Active
<1>3. /\ r.id = n /\ recs # <<>> /\ Reachable(recs, verdict, work, n) /\ work[n] # "absent"
  <2>1. work[n] # "absent"
    BY <1>1, <1>2 DEF Knows
  <2>2. QED
    BY <1>1, <2>1, AtNewest
<1>4. Known(s, r.id) /\ ~Sync(recs, n) /\ KindOf(r.id) # "pool" /\ Reported(r.id) \in {"running"} \cup Terminal
      /\ (work[r.id] \notin Terminal => Reported(r.id) = "running")
  <2>1. ~Sync(recs, n) /\ work[n] \in {"running"} \cup Terminal
    BY <1>3 DEF Reachable
  <2>2. KindOf(n) # "pool"
    BY <1>1, <1>3, NotPooled, AtNewest
  <2>3. QED
    BY <1>3, <2>1, <2>2 DEF Known, Blind, KindOf, Sync, Reported, Terminal
<1>5. ~Fault("call")
  BY NoFaults
<1>6. UNCHANGED <<row, work, verdict, up>>
  BY DEF Poll
<1>7. ASSUME NEW q, UNCHANGED recs, Becomes(s, q), q.pc \in {"result", "record"},
             q.pc = "result" => q.seen = work[n], q.pc = "record" => q.seen = "running",
             q.id = n, q.mem = r.mem, q.snapshot = r.snapshot, q.lost = r.lost, q.cancelled = r.cancelled
      PROVE  Crashes'
  <2>1. OnlyNewest
    BY <1>6, <1>7 DEF OnlyNewest
  <2>2. Reachable(recs', verdict', work', n)
    BY <1>3, <1>6, <1>7 DEF Reachable, Sync
  <2>3. Knows(q, recs', verdict', work')
    BY <1>1, <1>2, <1>3, <1>6, <1>7, <2>2 DEF Knows, Asking, Terminal
  <2>4. QED
    BY <1>1, <1>2, <1>6, <1>7, <2>1, <2>2, <2>3, NewestCalm
<1>8. CASE UNCHANGED recs /\ Becomes(s, [r EXCEPT !.pc = "result", !.seen = work[r.id]])
  <2> DEFINE q == [r EXCEPT !.pc = "result", !.seen = work[r.id]]
  <2>1. /\ q.pc = "result" /\ q.seen = work[n] /\ q.id = n /\ q.mem = r.mem
        /\ q.snapshot = r.snapshot /\ q.lost = r.lost /\ q.cancelled = r.cancelled
    BY <1>2, <1>3 DEF Runs
  <2>2. Becomes(s, q)
    BY <1>8
  <2> HIDE DEF q
  <2>3. QED
    BY <1>7, <1>8, <2>1, <2>2
<1>9. CASE UNCHANGED recs /\ Becomes(s, [r EXCEPT !.pc = "record", !.seen = "running"])
  <2> DEFINE q == [r EXCEPT !.pc = "record", !.seen = "running"]
  <2>1. /\ q.pc = "record" /\ q.seen = "running" /\ q.id = n /\ q.mem = r.mem
        /\ q.snapshot = r.snapshot /\ q.lost = r.lost /\ q.cancelled = r.cancelled
    BY <1>2, <1>3 DEF Runs
  <2>2. Becomes(s, q)
    BY <1>9
  <2> HIDE DEF q
  <2>3. QED
    BY <1>7, <1>9, <2>1, <2>2
<1>10. QED
  BY <1>4, <1>5, <1>8, <1>9 DEF Poll

\* Nobody has cancelled the run, so it gives nothing up.
LEMMA AbandonCalm == ASSUME Inv, Crashes, NEW s \in Server, Abandon(s) PROVE Crashes'
<1>1. run[s].pc # "idle" /\ run[s].cancelled
  BY DEF Abandon
<1>2. QED
  BY <1>1, Active

\* A result is there for the asking, and recorded with what the work ended as.
LEMMA ResultCalm ==
  ASSUME Inv, Crashes, mishaps' \subseteq {"crash"}, NEW s \in Server, Result(s)
  PROVE  Crashes'
<1> DEFINE r == run[s]
           n == Len(recs)
           st == r.seen
           m == [r.mem EXCEPT !.result = TRUE]
           kept == To(m, st)
           q == [r EXCEPT !.pc = "release", !.mem = kept]
<1>1. r.pc = "result" /\ r.pc \in Asking /\ r.pc # "idle"
  BY DEF Result, Asking
<1>2. /\ r \in Runs(n) /\ Sound(r, recs, verdict) /\ Knows(r, recs, verdict, work)
      /\ ~r.lost /\ ~r.cancelled /\ up
  BY <1>1, Active
<1>3. /\ r.id = n /\ r.mem = recs[n].ex /\ r.mem \in Record /\ recs # <<>> /\ Reachable(recs, verdict, work, n)
  BY <1>1, AtNewest
<1>4. work[n] = st /\ st \in Terminal /\ st \in State
  BY <1>1, <1>2 DEF Knows, Sound, Runs
<1>5. verdict[n] = st
  BY <1>3, <1>4 DEF Reachable, Terminal
<1>6. r.mem.state \in {"submitted", "running"} /\ ~r.mem.failure /\ ~r.mem.released
  BY <1>1, <1>2, <1>3 DEF Reachable, Sound
<1>7. m \in Record /\ m.state = r.mem.state /\ m.released = r.mem.released /\ m.result /\ ~m.failure
  BY <1>3, <1>6 DEF Record
<1>8. CanTransition(r.mem.state, st)
  BY <1>4, <1>6 DEF CanTransition, LegalTransitions
<1>9. ~Fails(s)
  BY <1>1, NeverFails
<1>10. /\ Tracked(r.id, m, st) /\ Becomes(s, q) /\ UNCHANGED <<row, up, work, verdict>>
  BY <1>3, <1>4, <1>9 DEF Result, Terminal
<1>11. recs' = [recs EXCEPT ![n] = [recs[n] EXCEPT !.ex = Put(r.mem, m, st)]]
  <2> HIDE DEF m
  <2>1. QED
    BY <1>2, <1>3, <1>10 DEF Tracked, Set
<1> HIDE DEF m
<1>12. kept.state = st /\ kept.result /\ ~kept.failure
  BY <1>7, <1>8 DEF To, Record
<1>13. /\ q.pc = "release" /\ q.seen = st /\ q.mem = kept /\ q.id = n
       /\ q.snapshot = r.snapshot /\ ~q.lost /\ ~q.cancelled
  BY <1>2, <1>3 DEF Runs
<1>14. Put(r.mem, m, st) = kept
  BY <1>3, <1>4, <1>7, <1>8, PutOwn
<1> HIDE DEF kept, q
<1>15. recs' = [recs EXCEPT ![n] = [recs[n] EXCEPT !.ex = kept]]
  BY <1>11, <1>14
<1>16. OnlyNewest
  BY <1>10, <1>15 DEF OnlyNewest
<1>17. recs'[n].ex = kept /\ (Sync(recs', n) <=> Sync(recs, n)) /\ DOMAIN recs' = DOMAIN recs /\ Len(recs') = n /\ recs' # <<>>
  BY <1>3, <1>15, <1>16, NewestFacts
<1>18. Recorded(recs', verdict', work', n)
  BY <1>4, <1>5, <1>10, <1>12, <1>17 DEF Recorded, Terminal
<1>19. Knows(q, recs', verdict', work')
  BY <1>2, <1>12, <1>13, <1>17, <1>18 DEF Knows, Asking
<1>20. QED
  BY <1>1, <1>10, <1>13, <1>16, <1>18, <1>19, NewestCalm

\* A resumed run whose newest execution is over has nothing left to follow, and
\* ends with the answer if the record of it tells.
LEMMA ResumedOnward ==
  ASSUME Data(recs, verdict, work), Truthful(recs, verdict, work), recs # <<>>,
         NEW q \in Runs(Len(recs)), q.snapshot # <<>>, Len(q.snapshot) = Len(recs), q.id = Len(recs),
         q.mem.state \in Terminal
  PROVE  \E outcome :
            /\ Onward(q) = Over(q, outcome)
            /\ (IF q.mem.failure THEN verdict[Len(recs)] = "none"
                ELSE q.mem.result /\ verdict[Len(recs)] = q.mem.state)
                  => outcome = AnswerOf(recs, verdict)
<1> DEFINE n == Len(recs)
           kept == [q.snapshot EXCEPT ![q.id] = q.mem]
           p == [q EXCEPT !.snapshot = kept]
<1>1. q.snapshot \in Seq(Record) /\ q.mem \in Record /\ n \in Nat /\ q.id \in Nat /\ q.id = n
  BY DEF Runs, Data
<1>2. n # 0 /\ DOMAIN q.snapshot = 1..n
  BY <1>1, EmptySeq
<1>3. kept \in Seq(Record) /\ Len(kept) = n /\ DOMAIN kept = 1..n
      /\ \A i \in 1..n : kept[i] = IF i = q.id THEN q.mem ELSE q.snapshot[i]
  BY <1>1, <1>2, KeptType
<1>4. [q EXCEPT !.snapshot[q.id] = q.mem] = p
  BY DEF Runs
<1>5. kept[n] = q.mem
  BY <1>1, <1>2, <1>3
<1> HIDE DEF kept
<1>6. p.snapshot = kept /\ p.lost = q.lost
  BY DEF Runs
<1> HIDE DEF p
<1>7. {id \in DOMAIN p.snapshot : id >= q.id + 1 /\ p.snapshot[id].state \notin Terminal} = {}
  <2>1. DOMAIN p.snapshot = 1..n /\ q.id = n /\ n \in Nat
    BY <1>1, <1>3, <1>6
  <2> HIDE DEF n
  <2>2. \A id \in 1..n : ~(id >= n + 1)
    BY <2>1
  <2>3. QED
    BY <2>1, <2>2
<1>8. Onward(q) = Over(p, EndedAs(kept))
  <2>1. Onward(q) = FollowFrom(p, q.id + 1)
    BY <1>4 DEF Onward
  <2>2. QED
    BY <1>6, <1>7, <2>1 DEF FollowFrom
<1>9. Over(p, EndedAs(kept)) = Over(q, EndedAs(kept))
  BY <1>6 DEF Over
<1>10. (IF q.mem.failure THEN verdict[n] = "none" ELSE q.mem.result /\ verdict[n] = q.mem.state)
          => EndedAs(kept) = AnswerOf(recs, verdict)
  BY <1>3, <1>5, EndedAnswers
<1>11. QED
  BY <1>8, <1>9, <1>10

\* What the run does with the answer it got is right, whatever was released.
LEMMA ReleaseCalm ==
  ASSUME Inv, Crashes, mishaps' \subseteq {"crash"}, NEW s \in Server, Release(s)
  PROVE  Crashes'
<1> DEFINE r == run[s]
           n == Len(recs)
           ex == [recs[n].ex EXCEPT !.released = TRUE]
           a == Answered(r)
<1>1. r.pc = "release" /\ r.pc # "idle" /\ r.pc \in Asking \cup {"release"}
  BY DEF Release, Asking
<1>2. /\ Data(recs, verdict, work) /\ Truthful(recs, verdict, work) /\ r \in Runs(n)
      /\ Sound(r, recs, verdict) /\ Knows(r, recs, verdict, work) /\ ~r.lost /\ ~r.cancelled /\ up
      /\ r.snapshot = <<>> => Leads(r, recs, verdict, work)
  BY <1>1, Active DEF Submits, Attempting
<1>3. /\ r.id = n /\ r.mem = recs[n].ex /\ r.mem \in Record /\ recs # <<>> /\ recs[n] \in Executions
      /\ n \in DOMAIN recs
  BY <1>1, AtNewest
<1>4. /\ Recorded(recs, verdict, work, n) /\ ~r.mem.failure /\ r.mem.state = r.seen
      /\ r.seen \in Terminal /\ r.mem.result /\ verdict[n] = r.seen
  <2>1. Recorded(recs, verdict, work, n) /\ ~r.mem.failure /\ r.mem.state = r.seen
    BY <1>1, <1>2 DEF Knows
  <2>2. QED
    BY <1>3, <2>1 DEF Recorded
<1>5. ~Fault("call")
  BY NoFaults
<1>6. /\ recs' = [recs EXCEPT ![n] = [recs[n] EXCEPT !.ex = ex]]
      /\ UNCHANGED work \/ work' = [work EXCEPT ![n] = "absent"]
      /\ Becomes(s, Onward(a)) /\ UNCHANGED <<row, verdict, up>>
  <2>1. [recs[n] EXCEPT !.ex.released = TRUE] = [recs[n] EXCEPT !.ex = ex]
    BY <1>3 DEF Executions
  <2>2. QED
    BY <1>2, <1>3, <1>5, <2>1 DEF Release, Set
<1>7. ex.state = r.mem.state /\ ~ex.failure /\ ex.result
  BY <1>3, <1>4 DEF Record
<1> HIDE DEF ex
<1>8. OnlyNewest
  BY <1>6 DEF OnlyNewest
<1>9. /\ recs'[n].ex = ex /\ recs'[n].task = recs[n].task /\ Len(recs') = n /\ recs' # <<>>
      /\ work'[n] # "running"
  <2>1. /\ recs'[n].task = recs[n].task /\ Len(recs') = n /\ recs' # <<>>
        /\ \A e : recs' = [recs EXCEPT ![n] = [recs[n] EXCEPT !.ex = e]] => recs'[n].ex = e
        /\ \A w : work' = [work EXCEPT ![n] = w] => work'[n] = w
    BY <1>3, <1>8, NewestFacts
  <2>2. work[n] # "running"
    BY <1>4 DEF Recorded
  <2> HIDE DEF n
  <2>3. recs'[n].ex = ex
    BY <1>6, <2>1
  <2>4. work'[n] # "running"
    BY <1>6, <2>1, <2>2
  <2>5. QED
    BY <2>1, <2>3, <2>4
<1>10. Recorded(recs', verdict', work', n)
  BY <1>4, <1>6, <1>7, <1>9 DEF Recorded
<1>11. AnswerOf(recs', verdict') = AnswerOf(recs, verdict)
  BY <1>6, <1>9 DEF AnswerOf
<1>12. ASSUME NEW outcome, outcome = AnswerOf(recs, verdict)
       PROVE  Concluded(recs', verdict', work', outcome)
  BY <1>9, <1>10, <1>11, <1>12 DEF Concluded
<1>13. ASSUME NEW q, Onward(a) = q, ~q.lost, ~q.cancelled, Knows(q, recs', verdict', work')
       PROVE  Crashes'
  BY <1>1, <1>6, <1>8, <1>10, <1>13, NewestCalm
<1>14. \/ r.seen = "cancelled" /\ a = [r EXCEPT !.next = "prepare"]
       \/ r.seen = "failed" /\ a = [r EXCEPT !.next = "end", !.outcome = "failed"]
       \/ r.seen = "succeeded" /\ r.task < Tasks /\ a = [r EXCEPT !.next = "task", !.task = r.task + 1]
       \/ r.seen = "succeeded" /\ r.task = Tasks /\ a = [r EXCEPT !.next = "end", !.outcome = "succeeded"]
  <2>1. r.task \in 1..Tasks /\ Tasks \in Nat
    BY <1>2, TasksAssumption DEF Runs
  <2>2. r.task < Tasks \/ r.task = Tasks
    BY <2>1
  <2>3. [r EXCEPT !.next = "task", !.task = @ + 1] = [r EXCEPT !.next = "task", !.task = r.task + 1]
    BY <1>2 DEF Runs
  <2>4. QED
    BY <1>4, <2>1, <2>2, <2>3 DEF Answered, Terminal
<1> HIDE DEF a
<1>15. /\ a \in Runs(n) /\ a.snapshot = r.snapshot /\ a.mem = r.mem /\ a.id = r.id /\ a.lost = r.lost /\ a.cancelled = r.cancelled
  <2>1. r.task < Tasks => r.task + 1 \in 1..Tasks
    BY <1>2, TasksAssumption DEF Runs
  <2>2. CASE a = [r EXCEPT !.next = "prepare"]
    BY <1>2, <2>2 DEF Runs
  <2>3. CASE a = [r EXCEPT !.next = "end", !.outcome = "failed"]
    BY <1>2, <2>3 DEF Runs, Ending
  <2>4. CASE r.task < Tasks /\ a = [r EXCEPT !.next = "task", !.task = r.task + 1]
    BY <1>2, <2>1, <2>4 DEF Runs
  <2>5. CASE a = [r EXCEPT !.next = "end", !.outcome = "succeeded"]
    BY <1>2, <2>5 DEF Runs, Ending
  <2>6. QED
    BY <1>14, <2>2, <2>3, <2>4, <2>5
<1>16. CASE r.snapshot # <<>>
  <2>1. PICK outcome : Onward(a) = Over(a, outcome) /\ outcome = AnswerOf(recs, verdict)
    <3>1. Len(a.snapshot) = n /\ a.snapshot # <<>>
      BY <1>2, <1>15, <1>16 DEF Knows
    <3>2. a.id = n /\ a.mem.state \in Terminal /\ ~a.mem.failure /\ a.mem.result /\ verdict[n] = a.mem.state
      BY <1>3, <1>4, <1>15
    <3>3. QED
      BY <1>2, <1>3, <1>15, <3>1, <3>2, ResumedOnward
  <2>2. QED
    BY <1>2, <1>12, <1>13, <1>15, <2>1, OverKnows
<1>17. CASE r.snapshot = <<>>
  <2>1. recs[n].task = r.task /\ r.task \in 1..Tasks
    BY <1>1, <1>2, <1>3, <1>17 DEF Leads, Attempting, Runs
  <2>2. CASE a.next = "end" /\ a.outcome = AnswerOf(recs, verdict)
    <3>1. Onward(a) = Over(a, a.outcome)
      BY <1>15, <1>17, <2>2 DEF Onward
    <3>2. QED
      BY <1>2, <1>12, <1>13, <1>15, <2>2, <3>1, OverKnows
  <2>3. ASSUME a.next \in {"prepare", "task"}, verdict[n] \in {"succeeded", "cancelled"},
               recs[n].task = a.task => verdict[n] = "cancelled"
        PROVE  Crashes'
    <3> DEFINE q == [a EXCEPT !.pc = a.next, !.next = "end"]
    <3>1. Onward(a) = q
      BY <1>15, <1>17, <2>3 DEF Onward
    <3>2. /\ q.pc \in {"prepare", "task"} /\ q.task = a.task /\ q.snapshot = <<>>
          /\ q.lost = a.lost /\ q.cancelled = a.cancelled
      BY <1>15, <1>17, <2>3 DEF Runs
    <3> HIDE DEF q
    <3>3. Knows(q, recs', verdict', work')
      BY <1>6, <1>9, <1>10, <2>3, <3>2 DEF Knows, Asking
    <3>4. QED
      BY <1>2, <1>13, <1>15, <3>1, <3>2, <3>3
  <2>4. CASE r.seen = "cancelled" /\ a = [r EXCEPT !.next = "prepare"]
    <3>1. a.next = "prepare"
      BY <1>2, <2>4 DEF Runs
    <3>2. QED
      BY <1>4, <2>3, <2>4, <3>1
  <2>5. CASE r.seen = "failed" /\ a = [r EXCEPT !.next = "end", !.outcome = "failed"]
    <3>1. a.next = "end" /\ a.outcome = "failed"
      BY <1>2, <2>5 DEF Runs
    <3>2. QED
      BY <1>4, <2>2, <2>5, <3>1 DEF AnswerOf
  <2>6. CASE r.seen = "succeeded" /\ r.task < Tasks /\ a = [r EXCEPT !.next = "task", !.task = r.task + 1]
    <3>1. a.next = "task" /\ a.task = r.task + 1
      BY <1>2, <2>6 DEF Runs
    <3>2. recs[n].task # a.task
      BY <2>1, <3>1
    <3>3. QED
      BY <1>4, <2>3, <2>6, <3>1, <3>2
  <2>7. CASE r.seen = "succeeded" /\ r.task = Tasks /\ a = [r EXCEPT !.next = "end", !.outcome = "succeeded"]
    <3>1. a.next = "end" /\ a.outcome = "succeeded"
      BY <1>2, <2>7 DEF Runs
    <3>2. QED
      BY <1>4, <2>1, <2>2, <2>7, <3>1 DEF AnswerOf
  <2>8. QED
    BY <1>14, <2>4, <2>5, <2>6, <2>7
<1>18. QED
  BY <1>16, <1>17

\* The ending of a run that has the dispatch is written, and nobody has it then.
LEMMA EndCalm == ASSUME Inv, Crashes, NEW s \in Server, End(s) PROVE Crashes'
<1> DEFINE r == run[s]
<1>1. r.pc = "end" /\ r.pc # "idle"
  BY DEF End
<1>2. /\ Knows(r, recs, verdict, work) /\ Owned(s) /\ ~r.lost /\ up /\ Tidy(recs, verdict, work)
  BY <1>1, Active
<1>3. Concluded(recs, verdict, work, r.outcome)
  BY <1>1, <1>2 DEF Knows
<1>4. run \in [Server -> Runs(Len(recs))]
  BY TypeFacts DEF Inv
<1>5. row' = [row EXCEPT !.state = r.outcome] /\ UNCHANGED <<recs, work, verdict, up>>
  BY <1>2 DEF End, Owned
<1>6. row'.state = r.outcome
  BY <1>5 DEF Inv, TypeOK
<1>7. \A t \in Server : run'[t].pc = "idle"
  <2>1. \A t \in Server : t # s => run[t].pc = "idle"
    BY <1>1, <1>2 DEF Crashes, Owned
  <2>2. Idle.pc = "idle" /\ \A t \in Server : run'[t] = IF t = s THEN Idle ELSE run[t]
    BY <1>4 DEF Idle, End, Becomes
  <2>3. QED
    BY <2>1, <2>2
<1>8. QED
  BY <1>2, <1>3, <1>5, <1>6, <1>7 DEF Crashes

\* The executions listed: all over but the newest, which is followed, or which
\* ends the dispatch.
LEMMA ListCalm == ASSUME Inv, Crashes, NEW s \in Server, List(s) PROVE Crashes'
<1> DEFINE r == run[s]
           n == Len(recs)
           copies == [id \in Id |-> recs[id].ex]
           p == [r EXCEPT !.snapshot = copies]
           unfinished == {id \in DOMAIN copies : id >= 1 /\ copies[id].state \notin Terminal}
<1>1. r.pc = "list" /\ r.pc # "idle"
  BY DEF List
<1>2. /\ Data(recs, verdict, work) /\ Truthful(recs, verdict, work) /\ r \in Runs(n)
      /\ ~r.lost /\ ~r.cancelled /\ up /\ Tidy(recs, verdict, work)
  BY <1>1, Active
<1>3. n \in Nat /\ DOMAIN recs = 1..n /\ recs \in Seq(Executions)
  BY <1>2 DEF Data
<1>4. /\ DOMAIN copies = 1..n /\ \A id \in 1..n : copies[id] = recs[id].ex /\ copies[id] \in Record
  BY <1>2, <1>3, ExecutionType DEF Id, Data
<1>5. copies \in [1..n -> Record]
  BY <1>3, <1>4
<1>6. UNCHANGED <<row, recs, work, verdict, up>> /\ Becomes(s, FollowFrom(p, 1))
  BY <1>2 DEF List
<1> HIDE DEF copies
<1>7. p.snapshot = copies /\ p.lost = r.lost /\ p.cancelled = r.cancelled /\ p.mem = r.mem
  BY <1>2 DEF Runs
<1>8. copies \in Seq(Record) /\ Len(copies) = n
  BY <1>3, <1>5
<1>9. \A id \in unfinished : id = n
  <2>1. \A id \in 1..n : id # n => id < n
    <3>1. n \in Nat
      BY <1>3
    <3> HIDE DEF n
    <3>2. QED
      BY <3>1
  <2>2. ASSUME NEW id \in 1..n, id # n PROVE copies[id].state \in Terminal
    <3>1. id < n
      BY <2>1, <2>2
    <3>2. Recorded(recs, verdict, work, id)
      BY <1>2, <1>3, <3>1 DEF Tidy
    <3>3. QED
      BY <1>4, <3>2 DEF Recorded
  <2>3. QED
    BY <1>4, <2>2
<1>10. ASSUME NEW q, FollowFrom(p, 1) = q, q.pc # "idle", ~q.lost, ~q.cancelled, Knows(q, recs, verdict, work)
       PROVE  Crashes'
  BY <1>1, <1>2, <1>6, <1>10, RunGoesOn
<1>11. CASE unfinished = {}
  <2>1. FollowFrom(p, 1) = Over(p, EndedAs(copies))
    BY <1>7, <1>11 DEF FollowFrom
  <2>2. ASSUME recs # <<>>
        PROVE  Recorded(recs, verdict, work, n) /\ (~Sync(recs, n) => EndedAs(copies) = AnswerOf(recs, verdict))
    <3>1. n # 0 /\ n \in 1..n
      BY <1>3, <2>2, EmptySeq
    <3>2. copies[n].state \in Terminal /\ copies[n] = recs[n].ex
      BY <1>4, <1>11, <3>1
    <3>3. Recorded(recs, verdict, work, n)
      BY <1>2, <2>2, <3>2 DEF Tidy, Reachable, Terminal
    <3>4. ASSUME ~Sync(recs, n) PROVE EndedAs(copies) = AnswerOf(recs, verdict)
      <4>1. IF copies[n].failure THEN verdict[n] = "none" ELSE copies[n].result /\ verdict[n] = copies[n].state
        BY <3>2, <3>3, <3>4 DEF Recorded
      <4>2. QED
        BY <1>2, <1>8, <2>2, <3>2, <4>1, EndedAnswers
    <3>5. QED
      BY <3>3, <3>4
  <2>3. Concluded(recs, verdict, work, EndedAs(copies))
    BY <2>2 DEF Concluded
  <2>4. Over(p, EndedAs(copies)).pc = "end"
    BY DEF Over, Idle
  <2>5. /\ Over(p, EndedAs(copies)).lost = p.lost /\ ~Over(p, EndedAs(copies)).cancelled
        /\ Knows(Over(p, EndedAs(copies)), recs, verdict, work)
    BY <2>3, OverKnows
  <2>6. QED
    BY <1>2, <1>7, <1>10, <2>1, <2>4, <2>5
<1>12. CASE unfinished # {}
  <2>1. n \in unfinished /\ n \in 1..n /\ recs # <<>>
    BY <1>3, <1>4, <1>9, <1>12
  <2>2. Min(unfinished) = n
    <3>1. unfinished \subseteq Nat
      BY <1>3, <1>9
    <3> HIDE DEF unfinished
    <3>2. Min(unfinished) \in unfinished
      BY <1>12, <3>1, MinOfNat, Zenon
    <3>3. QED
      BY <1>9, <3>2
  <2> DEFINE q == [p EXCEPT !.pc = "status", !.id = n, !.mem = copies[n]]
  <2>3. FollowFrom(p, 1) = q
    BY <1>7, <1>12, <2>2 DEF FollowFrom
  <2>4. Reachable(recs, verdict, work, n)
    BY <1>2, <1>4, <2>1 DEF Tidy, Recorded
  <2>5. /\ q.pc = "status" /\ q.id = n /\ q.mem = recs[n].ex /\ q.snapshot = copies
        /\ q.lost = r.lost /\ q.cancelled = r.cancelled
    BY <1>2, <1>4, <2>1 DEF Runs
  <2> HIDE DEF q
  <2>6. \A id \in DOMAIN recs : id < n => copies[id].state \in Terminal
    BY <1>2, <1>3, <1>4 DEF Tidy, Recorded
  <2>7. Knows(q, recs, verdict, work)
    BY <1>8, <2>1, <2>4, <2>5, <2>6 DEF Knows, Asking
  <2>8. QED
    BY <1>2, <1>10, <2>3, <2>5, <2>7
<1>13. QED
  BY <1>11, <1>12

\* The provider is asked of the execution followed; it knows of one that was begun.
LEMMA ResumeStatusCalm ==
  ASSUME Inv, Crashes, mishaps' \subseteq {"crash"}, NEW s \in Server, ResumeStatus(s)
  PROVE  Crashes'
<1> DEFINE r == run[s]
           n == Len(recs)
<1>1. r.pc = "status" /\ r.pc # "idle" /\ r.pc \in Asking
  BY DEF ResumeStatus, Asking
<1>2. /\ Data(recs, verdict, work) /\ Truthful(recs, verdict, work) /\ r \in Runs(n)
      /\ Sound(r, recs, verdict) /\ Knows(r, recs, verdict, work) /\ ~r.lost /\ ~r.cancelled /\ up
  BY <1>1, Active
<1>3. /\ r.id = n /\ r.mem = recs[n].ex /\ r.mem \in Record /\ recs # <<>>
      /\ Reachable(recs, verdict, work, n) /\ r.snapshot # <<>> /\ Len(r.snapshot) = n
      /\ \A id \in DOMAIN recs : id < n => r.snapshot[id].state \in Terminal
  <2>1. r.snapshot # <<>>
    BY <1>1, <1>2 DEF Sound
  <2>2. QED
    BY <1>1, <1>2, <2>1, AtNewest DEF Knows
<1>4. /\ r.mem.state \in {"pending", "submitted", "running"} /\ ~r.mem.failure /\ ~r.mem.result /\ ~r.mem.released
  BY <1>3 DEF Reachable
<1>5. ~Fails(s)
  BY <1>1, NeverFails
<1>6. UNCHANGED <<row, work, verdict, up>>
  BY DEF ResumeStatus
<1>7. "submitted" \in State /\ "failed" \in State
  BY DEF State
<1>8. ASSUME NEW st, Known(s, n), Tracked(n, r.mem, "submitted"),
             Becomes(s, [r EXCEPT !.pc = "poll", !.seen = st, !.mem = To(r.mem, "submitted")])
      PROVE  Crashes'
  <2> DEFINE kept == To(r.mem, "submitted")
             q == [r EXCEPT !.pc = "poll", !.seen = st, !.mem = kept]
  <2>1. recs' = [recs EXCEPT ![n] = [recs[n] EXCEPT !.ex = Put(r.mem, r.mem, "submitted")]]
    BY <1>2, <1>3, <1>8 DEF Tracked, Set
  <2>2. Put(r.mem, r.mem, "submitted") = kept
    BY <1>3, <1>7, PutOwn
  <2>3. kept.state \in {"submitted", "running"} /\ ~kept.failure /\ ~kept.result /\ ~kept.released
    BY <1>3, <1>4 DEF To, Record, CanTransition, LegalTransitions
  <2>4. /\ q.pc = "poll" /\ q.mem = kept /\ q.id = n /\ q.snapshot = r.snapshot /\ ~q.lost /\ ~q.cancelled
    BY <1>2, <1>3 DEF Runs
  <2>5. Becomes(s, q)
    BY <1>8
  <2> HIDE DEF kept, q
  <2>6. recs' = [recs EXCEPT ![n] = [recs[n] EXCEPT !.ex = kept]]
    BY <2>1, <2>2
  <2>7. OnlyNewest
    BY <1>6, <2>6 DEF OnlyNewest
  <2>8. recs'[n].ex = kept /\ (Sync(recs', n) <=> Sync(recs, n)) /\ DOMAIN recs' = DOMAIN recs /\ Len(recs') = n /\ recs' # <<>>
    BY <1>3, <2>6, <2>7, NewestFacts
  <2>9. ~Sync(recs, n) /\ work[n] # "absent"
    BY <1>8 DEF Known, KindOf, Sync
  <2>10. Reachable(recs', verdict', work', n)
    BY <1>3, <1>6, <2>3, <2>8, <2>9 DEF Reachable
  <2>11. Knows(q, recs', verdict', work')
    BY <1>3, <1>6, <2>4, <2>8, <2>9, <2>10 DEF Knows, Asking
  <2>12. QED
    BY <1>1, <1>6, <2>4, <2>5, <2>7, <2>10, <2>11, NewestCalm
<1>9. KindOf(n) # "pool"
  BY <1>1, NotPooled, AtNewest
<1>10. ASSUME ~Known(s, n), AttemptFails(s)
      PROVE  Crashes'
  <2> DEFINE m == [r.mem EXCEPT !.failure = TRUE]
             kept == To(m, FailedState(m))
  <2>1. r.mem.state = "pending" /\ work[n] = "absent" /\ (Sync(recs, n) \/ verdict[n] = "none")
    <3>1. Sync(recs, n) \/ work[n] = "absent"
      BY <1>9, <1>10 DEF Known, Blind, KindOf, Sync
    <3>2. CASE Sync(recs, n)
      BY <1>3, <3>2 DEF Reachable
    <3>3. CASE ~Sync(recs, n)
      BY <1>3, <3>1, <3>3 DEF Reachable, Terminal
    <3>4. QED
      BY <3>2, <3>3
  <2>2. m \in Record /\ m.state = "pending" /\ m.failure /\ m.released = r.mem.released
    BY <1>3, <2>1 DEF Record
  <2>3. FailedState(m) = "failed" /\ kept.state = "failed" /\ kept.failure /\ kept \in Record
    BY <2>2 DEF FailedState, To, CanTransition, LegalTransitions, Record, State
  <2>4. Put(r.mem, m, "failed") = kept
    <3> HIDE DEF m
    <3>1. m.state = r.mem.state
      BY <2>1, <2>2
    <3>2. CanTransition(r.mem.state, "failed")
      BY <2>1 DEF CanTransition, LegalTransitions
    <3>3. QED
      BY <1>3, <1>7, <2>2, <2>3, <3>1, <3>2, PutOwn
  <2>5. Tracked(r.id, m, FailedState(m)) /\ GivesUp(s, [r EXCEPT !.mem = kept])
    BY <1>10 DEF AttemptFails
  <2> HIDE DEF m, kept
  <2>6. recs' = [recs EXCEPT ![n] = [recs[n] EXCEPT !.ex = Put(r.mem, m, "failed")]]
    BY <1>2, <1>3, <2>3, <2>5 DEF Tracked, Set
  <2>7. recs' = [recs EXCEPT ![n] = [recs[n] EXCEPT !.ex = kept]]
    BY <2>4, <2>6
  <2>8. OnlyNewest
    BY <1>6, <2>7 DEF OnlyNewest
  <2>9. /\ recs'[n].ex = kept /\ recs'[n].task = recs[n].task /\ (Sync(recs', n) <=> Sync(recs, n))
        /\ Len(recs') = n /\ recs' # <<>>
    BY <1>3, <2>7, <2>8, NewestFacts
  <2>10. Recorded(recs', verdict', work', n)
    BY <1>6, <2>1, <2>3, <2>9 DEF Recorded, Terminal
  <2>11. PICK next \in {"prepare", "end"} : Becomes(s, Onward([[r EXCEPT !.mem = kept] EXCEPT !.next = next]))
    BY <2>5 DEF GivesUp
  <2> DEFINE q == [[r EXCEPT !.mem = kept] EXCEPT !.next = next]
  <2>12. q \in Runs(n) /\ q.snapshot = r.snapshot /\ q.id = n /\ q.mem = kept /\ q.lost = r.lost
    BY <1>2, <1>3, <2>3 DEF Runs
  <2>13. Becomes(s, Onward(q))
    BY <2>11
  <2> HIDE DEF q
  <2>14. PICK outcome : Onward(q) = Over(q, outcome) /\ (verdict[n] = "none" => outcome = AnswerOf(recs, verdict))
    <3>1. q.mem.state \in Terminal /\ q.mem.failure
      BY <2>3, <2>12 DEF Terminal
    <3>2. q.snapshot # <<>> /\ Len(q.snapshot) = n /\ q.id = n
      BY <1>3, <2>12
    <3>3. QED
      BY <1>2, <1>3, <2>12, <3>1, <3>2, ResumedOnward
  <2>15. AnswerOf(recs', verdict') = AnswerOf(recs, verdict)
    BY <1>6, <2>9 DEF AnswerOf
  <2>16. Concluded(recs', verdict', work', outcome)
    BY <2>1, <2>9, <2>10, <2>14, <2>15 DEF Concluded
  <2>17. ~Over(q, outcome).lost /\ ~Over(q, outcome).cancelled /\ Knows(Over(q, outcome), recs', verdict', work')
    <3>1. Over(q, outcome).lost = q.lost /\ ~Over(q, outcome).cancelled /\ Knows(Over(q, outcome), recs', verdict', work')
      BY <2>16, OverKnows
    <3>2. ~q.lost
      BY <1>2, <2>12
    <3>3. QED
      BY <3>1, <3>2
  <2>18. QED
    BY <1>1, <1>6, <2>8, <2>10, <2>13, <2>14, <2>17, NewestCalm
<1>11. QED
  BY <1>3, <1>5, <1>8, <1>9, <1>10 DEF ResumeStatus, Told

-----------------------------------------------------------------------------
\* The lease, the other writers, and the provider

\* The run that has the dispatch renews its lease.
LEMMA RenewCalm == ASSUME Inv, Crashes, NEW s \in Server, Renew(s) PROVE Crashes'
<1>1. run[s].pc # "idle"
  BY DEF Renew
<1>2. Owned(s)
  BY <1>1, Active
<1>3. row' = [row EXCEPT !.lapsed = FALSE] /\ UNCHANGED <<recs, work, verdict, run, up>>
  BY <1>2 DEF Renew, Owned
<1>4. row'.state = row.state /\ row'.owner = row.owner /\ row'.lapsed = FALSE
  BY <1>3 DEF Inv, TypeOK
<1>5. QED
  BY <1>3, <1>4 DEF Crashes, Owned

\* A lease lapses when nobody has the dispatch.
LEMMA LapseCalm == ASSUME Inv, Crashes, Lapse PROVE Crashes'
<1>1. row.state = "running" /\ run[row.owner].pc = "idle"
  BY DEF Lapse, Crashes
<1>2. \A s \in Server : run[s].pc = "idle"
  BY <1>1 DEF Crashes, Owned
<1>3. row' = [row EXCEPT !.lapsed = TRUE] /\ UNCHANGED <<recs, work, verdict, run, up>>
  BY DEF Lapse
<1>4. row'.state = row.state
  BY <1>3 DEF Inv, TypeOK
<1>5. QED
  BY <1>2, <1>3, <1>4 DEF Crashes

\* A lapsed lease is taken from nobody.
LEMMA ClaimCalm == ASSUME Inv, Crashes, NEW s \in Server, Claim(s) PROVE Crashes'
<1> DEFINE q == [Idle EXCEPT !.pc = "list"]
<1>1. row.lapsed /\ row.state = "running" /\ row' = [row EXCEPT !.owner = s, !.lapsed = FALSE, !.owners = @ \cup {s}]
      /\ Becomes(s, q) /\ UNCHANGED <<recs, work, verdict, up>>
  BY DEF Claim
<1>2. \A t \in Server : run[t].pc = "idle"
  BY <1>1 DEF Crashes, Owned
<1>3. run \in [Server -> Runs(Len(recs))]
  BY TypeFacts DEF Inv
<1>4. \A t \in Server : run'[t] = IF t = s THEN q ELSE run[t]
  BY <1>1, <1>3 DEF Becomes
<1>5. q.pc = "list" /\ ~q.lost /\ ~q.cancelled /\ q.snapshot = <<>>
  BY DEF Idle
<1>6. row'.state = "running" /\ row'.owner = s /\ row'.lapsed = FALSE
  BY <1>1 DEF Inv, TypeOK
<1> HIDE DEF q
<1>7. Knows(q, recs, verdict, work)
  BY <1>5 DEF Knows, Asking
<1>8. QED
  BY <1>1, <1>2, <1>4, <1>5, <1>6, <1>7 DEF Crashes, Owned, Ending

\* A server that dies takes nothing with it that is not recorded or at the provider.
LEMMA CrashCalm == ASSUME Inv, Crashes, NEW s \in Server, Crash(s) PROVE Crashes'
<1> DEFINE r == run[s]
           n == Len(recs)
<1>1. run \in [Server -> Runs(Len(recs))]
  BY TypeFacts DEF Inv
<1>2. Idle.pc = "idle" /\ \A t \in Server : run'[t] = IF t = s THEN Idle ELSE run[t]
  BY <1>1 DEF Idle, Crash, Becomes
<1>3. UNCHANGED <<row, recs, up>> /\ r.pc # "idle" /\ Becomes(s, Idle)
  BY DEF Crash
<1>4. CASE UNCHANGED <<work, verdict>>
  BY <1>2, <1>3, <1>4 DEF Crashes, Owned
<1>5. CASE r.pc = "submit" /\ Attempted(r.id)
  <2>1. r.pc \in Asking
    BY <1>5 DEF Asking
  <2>2. r.id = n /\ recs # <<>> /\ Reachable(recs, verdict, work, n) /\ KindOf(n) # "pool"
    BY <2>1, AtNewest, NotPooled
  <2>3. Leads(r, recs, verdict, work) /\ Sound(r, recs, verdict)
    BY <1>3, <1>5, Active DEF Submits, Sound, Attempting
  <2>4. work[n] = "absent" /\ verdict[n] = "none"
    BY <1>5, <2>2, <2>3 DEF Leads, Sound
  <2>5. Sync(recs, n) <=> FinishesInSubmit(KindOf(r.id))
    BY <2>2 DEF Sync, KindOf
  <2>6. \/ UNCHANGED <<work, verdict>>
        \/ ~Sync(recs, n) /\ work' = [work EXCEPT ![n] = "running"] /\ UNCHANGED verdict
        \/ Sync(recs, n) /\ verdict' = [verdict EXCEPT ![n] = "succeeded"] /\ UNCHANGED work
    BY <1>5, <2>2, <2>5 DEF Attempted, Set
  <2>7. OnlyNewest
    BY <1>3, <2>6 DEF OnlyNewest
  <2>8. Reachable(recs', verdict', work', n)
    <3>1. /\ work' = [work EXCEPT ![n] = "running"] => work'[n] = "running"
          /\ Sync(recs', n) <=> Sync(recs, n)
      BY <2>2, <2>7, NewestFacts
    <3>2. recs'[n] = recs[n]
      BY <1>3
    <3> HIDE DEF n
    <3>3. QED
      BY <2>2, <2>4, <2>6, <3>1, <3>2 DEF Reachable
  <2>9. Tidy(recs', verdict', work')
    <3>1. /\ n \in Nat \ {0} /\ DOMAIN recs = 1..n /\ DOMAIN recs' = 1..n /\ Len(recs') = n
          /\ recs'[n].task = recs[n].task
          /\ \A id \in 1..n : id # n => recs'[id] = recs[id] /\ verdict'[id] = verdict[id] /\ work'[id] = work[id]
      BY <2>2, <2>7, NewestFacts
    <3>2. Tidy(recs, verdict, work) /\ Len(recs) = n
      BY DEF Crashes
    <3> HIDE DEF n
    <3>3. QED
      BY <2>8, <3>1, <3>2, TidyNewest
  <2>10. ~Becomes(s, Idle) \/ Idle.pc = "idle"
    BY <1>2
  <2>11. QED
    BY <1>3, <2>9, <2>10, RunGoesOn
<1>6. QED
  BY <1>4, <1>5 DEF Crash

\* Every execution but the newest is over.
LEMMA OldAreOver ==
  ASSUME Inv, Crashes, NEW id \in Id
  PROVE  /\ Recorded(recs, verdict, work, id) \/ (id = Len(recs) /\ Reachable(recs, verdict, work, id))
         /\ recs # <<>> /\ Len(recs) \in Nat \ {0}
<1> DEFINE n == Len(recs)
<1>1. Data(recs, verdict, work) /\ Tidy(recs, verdict, work)
  BY TypeFacts DEF Inv, Crashes
<1>2. n \in Nat /\ DOMAIN recs = 1..n /\ id \in 1..n
  BY <1>1 DEF Data, Id
<1>3. recs # <<>> /\ n # 0 /\ (id = n \/ id < n)
  <2>1. recs # <<>>
    BY <1>2
  <2> HIDE DEF n
  <2>2. QED
    BY <1>2, <2>1
<1>4. QED
  BY <1>1, <1>2, <1>3 DEF Tidy

\* No execution has been lost.
LEMMA ReconcileCalm == ASSUME Inv, Crashes, NEW id \in Id, NEW s \in Server, Reconcile(s, id) PROVE Crashes'
<1>1. recs[id].ex.state = "lost"
  BY DEF Reconcile
<1>2. QED
  BY <1>1, OldAreOver DEF Recorded, Reachable, Terminal

\* The work that ends is the newest, and the provider still knows of it.
LEMMA FinishCalm == ASSUME Inv, Crashes, NEW id \in Id, Finish(id) PROVE Crashes'
<1> DEFINE n == Len(recs)
<1>1. /\ id = n /\ Reachable(recs, verdict, work, n) /\ ~Recorded(recs, verdict, work, n) /\ recs # <<>>
      /\ work[n] = "running" /\ ~Sync(recs, n)
  <2>1. work[id] = "running"
    BY DEF Finish
  <2>2. id = n /\ Reachable(recs, verdict, work, n) /\ ~Recorded(recs, verdict, work, n) /\ recs # <<>>
    BY <2>1, OldAreOver DEF Recorded
  <2>3. QED
    BY <2>1, <2>2 DEF Reachable
<1>2. PICK v \in Terminal : work' = [work EXCEPT ![n] = v] /\ verdict' = [verdict EXCEPT ![n] = v]
                            /\ UNCHANGED <<row, recs, run, up>>
  BY <1>1 DEF Finish, Set
<1>3. OnlyNewest
  BY <1>2 DEF OnlyNewest
<1>4. /\ n \in Nat \ {0} /\ DOMAIN recs = 1..n /\ work'[n] = v /\ verdict'[n] = v
      /\ \A i \in 1..n : i # n => recs'[i] = recs[i] /\ verdict'[i] = verdict[i] /\ work'[i] = work[i]
  <2>1. /\ n \in Nat \ {0} /\ DOMAIN recs = 1..n
        /\ \A i \in 1..n : i # n => recs'[i] = recs[i] /\ verdict'[i] = verdict[i] /\ work'[i] = work[i]
        /\ \A w : work' = [work EXCEPT ![n] = w] => work'[n] = w
        /\ \A w : verdict' = [verdict EXCEPT ![n] = w] => verdict'[n] = w
    BY <1>1, <1>3, NewestFacts
  <2> HIDE DEF n
  <2>2. QED
    BY <1>2, <2>1
<1>5. Reachable(recs', verdict', work', n)
  BY <1>1, <1>2, <1>4 DEF Reachable, Sync
<1>6. Tidy(recs', verdict', work')
  <2>1. Tidy(recs, verdict, work) /\ recs' = recs
    BY <1>2 DEF Crashes
  <2> HIDE DEF n
  <2>2. n # 0 /\ n \in Nat
    BY <1>4
  <2>3. Len(recs) = n
    BY DEF n
  <2>4. QED
    BY <1>4, <1>5, <2>1, <2>2, <2>3, TidyNewest
<1>7. row.state \notin Ending
  BY <1>1 DEF Crashes, Concluded
<1>8. ASSUME NEW t \in Server, run[t].pc # "idle"
      PROVE  Knows(run[t], recs', verdict', work')
  <2> DEFINE r == run[t]
  <2>1. Knows(r, recs, verdict, work) /\ Sound(r, recs, verdict)
    BY <1>8, Active
  <2>2. r.pc \notin {"task", "prepare", "release", "end"}
    BY <1>1, <2>1 DEF Knows, Concluded
  <2>3. r.pc # "result"
    BY <1>1, <2>1 DEF Knows, Sound, Terminal
  <2>4. r.pc = "record" => r.seen \notin Terminal
    BY <1>1, <2>1 DEF Knows
  <2>5. work'[n] # "absent"
    BY <1>4 DEF Terminal
  <2>6. recs' = recs
    BY <1>2
  <2> HIDE DEF r, n
  <2>7. n = Len(recs)
    BY DEF n
  <2>8. r.pc \in Asking \cup {"release"} => recs' # <<>> /\ r.id = n /\ r.mem = recs'[n].ex
    BY <2>1, <2>6, <2>7 DEF Knows
  <2>9. r.pc = "record" => r.seen = "running"
    BY <2>1, <2>4 DEF Knows
  <2>10. r.snapshot # <<>> =>
          /\ Len(r.snapshot) = n
          /\ \A i \in DOMAIN recs' : i < n => r.snapshot[i].state \in Terminal
    BY <2>1, <2>6, <2>7 DEF Knows
  <2>11. Knows(r, recs', verdict', work')
    BY <1>5, <2>2, <2>3, <2>4, <2>5, <2>6, <2>7, <2>8, <2>9, <2>10 DEF Knows
  <2>12. QED
    BY <2>11 DEF r
<1>9. QED
  BY <1>2, <1>6, <1>7, <1>8 DEF Crashes, Owned

-----------------------------------------------------------------------------
\* The invariant

\* Nothing has begun, and nothing has happened.
LEMMA CalmInit == Init => CalmInv
<1>1. SUFFICES ASSUME Init, NoPool PROVE Crashes
  BY DEF CalmInv, Calm
<1>2. /\ up /\ recs = <<>> /\ row.state = "none" /\ \A s \in Server : run[s].pc = "idle"
  <2>1. Idle.pc = "idle"
    BY DEF Idle
  <2>2. row.state = "none"
    BY <1>1 DEF Init
  <2>3. QED
    BY <1>1, <2>1, <2>2 DEF Init
<1>3. Tidy(recs, verdict, work)
  BY <1>2 DEF Tidy
<1>4. QED
  BY <1>1, <1>2, <1>3 DEF Crashes, Ending

\* What has happened is not forgotten.
LEMMA MishapsGrow == ASSUME [Next]_vars PROVE mishaps \subseteq mishaps'
<1>1. NoFault => mishaps' = mishaps
  BY DEF NoFault
<1>2. ASSUME NEW kind, Fault(kind) PROVE mishaps \subseteq mishaps'
  BY <1>2 DEF Fault
<1>3. ASSUME NEW s \in Server, Fails(s) PROVE mishaps \subseteq mishaps'
  BY <1>1, <1>2, <1>3 DEF Fails
<1>4. ASSUME NEW s \in Server, Begin(s) \/ Renew(s) \/ Claim(s) \/ Crash(s) PROVE mishaps \subseteq mishaps'
  BY <1>1, <1>2, <1>4 DEF Begin, Renew, Claim, Crash
<1>5. ASSUME NEW s \in Server, Run(s) PROVE mishaps \subseteq mishaps'
  <2>1. Task(s) \/ Prepare(s) \/ Pause(s) \/ RecordState(s) \/ End(s) \/ List(s) => mishaps \subseteq mishaps'
    BY <1>1 DEF Task, Prepare, Pause, RecordState, End, List
  <2>2. Submit(s) => mishaps \subseteq mishaps'
    BY <1>1, <1>3 DEF Submit
  <2>3. Poll(s) => mishaps \subseteq mishaps'
    BY <1>1, <1>2 DEF Poll
  <2>4. Abandon(s) => mishaps \subseteq mishaps'
    BY <1>1, <1>2 DEF Abandon
  <2>5. Result(s) => mishaps \subseteq mishaps'
    BY <1>1, <1>3 DEF Result
  <2>6. Release(s) => mishaps \subseteq mishaps'
    BY <1>1, <1>2 DEF Release
  <2>7. ResumeStatus(s) => mishaps \subseteq mishaps'
    BY <1>1, <1>3 DEF ResumeStatus
  <2>8. QED
    BY <1>5, <2>1, <2>2, <2>3, <2>4, <2>5, <2>6, <2>7 DEF Run
<1>6. Lapse \/ Outage \/ Recover => mishaps \subseteq mishaps'
  BY <1>1, <1>2 DEF Lapse, Outage, Recover
<1>7. ASSUME NEW id \in Id, Finish(id) PROVE mishaps \subseteq mishaps'
  BY <1>1, <1>7 DEF Finish
<1>8. ASSUME NEW id \in Id, NEW s \in Server, Reconcile(s, id) \/ Leftover(s, id) \/ Cancel(s, id)
      PROVE  mishaps \subseteq mishaps'
  BY <1>1, <1>2, <1>8 DEF Reconcile, Leftover, Cancel
<1>9. QED
  BY <1>4, <1>5, <1>6, <1>7, <1>8 DEF Next, vars

\* A step of a run, where nothing but crashes happens.
LEMMA RunCalm ==
  ASSUME Inv, Crashes, mishaps' \subseteq {"crash"}, NEW s \in Server, Run(s)
  PROVE  Crashes'
BY TaskCalm, PrepareCalm, PauseCalm, SubmitCalm, RecordStateCalm, PollCalm, AbandonCalm, ResultCalm,
   ReleaseCalm, EndCalm, ListCalm, ResumeStatusCalm DEF Run

\* No step breaks it.
LEMMA CalmNext == Inv /\ CalmInv /\ [Next]_vars => CalmInv'
<1> SUFFICES ASSUME Inv, CalmInv, [Next]_vars, Calm' PROVE Crashes'
  BY DEF CalmInv
<1>1. mishaps' \subseteq {"crash"} /\ Crashes
  BY MishapsGrow DEF Calm, CalmInv
<1>2. CASE UNCHANGED vars
  BY <1>1, <1>2 DEF Crashes, Owned, vars
<1>3. ASSUME NEW s \in Server, Begin(s) \/ Run(s) \/ Renew(s) \/ Claim(s) \/ Crash(s) PROVE Crashes'
  BY <1>1, <1>3, BeginCalm, RunCalm, RenewCalm, ClaimCalm, CrashCalm
<1>4. CASE Lapse
  BY <1>1, <1>4, LapseCalm
<1>5. ~Outage
  BY <1>1, NoFaults DEF Outage
<1>6. ~Recover
  BY <1>1 DEF Recover, Crashes
<1>7. ASSUME NEW id \in Id, Finish(id) PROVE Crashes'
  BY <1>1, <1>7, FinishCalm
<1>8. ASSUME NEW id \in Id, NEW s \in Server, Reconcile(s, id) \/ Leftover(s, id) \/ Cancel(s, id)
      PROVE  Crashes'
  BY <1>1, <1>8, ReconcileCalm, NoFaults DEF Leftover, Cancel
<1>9. QED
  BY <1>2, <1>3, <1>4, <1>5, <1>6, <1>7, <1>8 DEF Next

\* The newest execution tells what the providers answered, in the end.
LEMMA AnswerIsNewest ==
  ASSUME Inv, Tidy(recs, verdict, work), recs # <<>>
  PROVE  Answer = AnswerOf(recs, verdict)
<1> DEFINE n == Len(recs)
<1>1. Data(recs, verdict, work) /\ Truthful(recs, verdict, work)
  BY TypeFacts DEF Inv
<1>2. n \in Nat /\ n # 0 /\ DOMAIN recs = 1..n
  BY <1>1, EmptySeq DEF Data
<1>3. \A id \in 1..n : recs[id].task \in 1..Tasks /\ recs[id].task <= recs[n].task /\ (id = n \/ id < n)
  <2>1. \A id \in 1..n : recs[id].task \in 1..Tasks /\ recs[id].task <= recs[n].task
    BY <1>1, <1>2, ExecutionType DEF Truthful
  <2> HIDE DEF n
  <2>2. QED
    BY <1>2, <2>1
<1>4. Passed \in 0..Tasks /\ Counts(recs, verdict, Passed)
  BY PassedCounts
<1>5. ASSUME Passed = Tasks PROVE verdict[n] = "succeeded" /\ recs[n].task = Tasks
  <2>1. PICK id \in 1..n : recs[id].task = Tasks /\ verdict[id] = "succeeded"
    BY <1>2, <1>4, <1>5, TasksAssumption DEF Counts, PassedIn
  <2>2. recs[n].task = Tasks
    <3>1. recs[n].task \in 1..Tasks
      <4>1. \A i \in 1..n : recs[i].task \in 1..Tasks
        BY <1>3
      <4> HIDE DEF n
      <4>2. n \in 1..n
        BY <1>2
      <4>3. QED
        BY <4>1, <4>2
    <3>2. Tasks <= recs[n].task
      BY <1>3, <2>1
    <3>3. QED
      BY <3>1, <3>2, TasksAssumption
  <2>3. id < n => verdict[id] = "cancelled"
    BY <1>2, <2>1, <2>2 DEF Tidy
  <2>4. QED
    BY <1>3, <2>1, <2>2, <2>3
<1>6. ASSUME verdict[n] = "succeeded", recs[n].task = Tasks PROVE Passed = Tasks
  <2>1. AllPassed(recs, verdict, Tasks - 1)
    BY <1>1, <1>2, <1>6 DEF Truthful
  <2>2. ASSUME NEW t \in 1..Tasks PROVE PassedIn(recs, verdict, t)
    <3>1. t = Tasks \/ t \in 1 .. Tasks - 1
      BY TasksAssumption
    <3>2. CASE t = Tasks
      BY <1>2, <1>6, <3>2 DEF PassedIn
    <3>3. CASE t \in 1 .. Tasks - 1
      BY <2>1, <3>3 DEF AllPassed, PassedIn
    <3>4. QED
      BY <3>1, <3>2, <3>3
  <2>3. Counts(recs, verdict, Tasks) /\ Tasks \in 0..Tasks
    BY <2>2, TasksAssumption DEF Counts
  <2>4. QED
    BY <1>4, <2>3, CountUnique
<1>7. QED
  BY <1>5, <1>6 DEF Answer, AnswerOf

\* So the ending recorded is the answer.
LEMMA CalmAnswers == NoPool /\ Inv /\ CalmInv => AnswerSurvivesCrash
<1>1. SUFFICES ASSUME NoPool, Inv, CalmInv, row.state \in Ending, mishaps \subseteq {"crash"}, Askable
               PROVE  row.state = Answer
  BY DEF AnswerSurvivesCrash
<1>2. recs # <<>> /\ ~Sync(recs, Len(recs)) /\ Tidy(recs, verdict, work)
      /\ Concluded(recs, verdict, work, row.state)
  BY <1>1 DEF Askable, Sync, KindOf, CalmInv, Calm, Crashes
<1>3. QED
  BY <1>1, <1>2, AnswerIsNewest DEF Concluded

\* A dispatch that meets nothing but crashes, at any point and however often, is
\* recorded with the answer the providers gave, where none of the providers is a
\* pool (Resume, resume, ended).
THEOREM AnswerSurvivesCrashWithoutPool == NoPool => (Spec => []AnswerSurvivesCrash)
<1> SUFFICES ASSUME NoPool PROVE Spec => []AnswerSurvivesCrash
  OBVIOUS
<1>1. Init => Inv /\ CalmInv
  BY InvInit, CalmInit
<1>2. (Inv /\ CalmInv) /\ [Next]_vars => (Inv /\ CalmInv)'
  BY InvNext, CalmNext
<1>3. Inv /\ CalmInv => AnswerSurvivesCrash
  BY CalmAnswers
<1>4. QED
  BY <1>1, <1>2, <1>3, PTL DEF Spec

=============================================================================
