---------------------------- MODULE LedgerProofs ----------------------------
(***************************************************************************)
(* What is proved of Ledger for any finite number of executions and pools, *)
(* any limits, timeouts and reapers.  What is settled and reserved is      *)
(* summed, and a sum is reasoned about as the number of elements of a set: *)
(* one counter's units, as many to a summand as it amounts to.             *)
(***************************************************************************)
EXTENDS Ledger, FiniteSetTheorems, WellFoundedInduction, TLAPS

-----------------------------------------------------------------------------
\* Sums

\* The units of the summands f has over a set.
Units(f, s) == UNION {{x} \X (1 .. f[x]) : x \in s}

\* A function of a finite set takes finitely many values.
LEMMA ImageFinite ==
  ASSUME NEW g, IsFiniteSet(DOMAIN g)
  PROVE  IsFiniteSet({g[x] : x \in DOMAIN g})
<1> DEFINE image == {g[x] : x \in DOMAIN g}
           onto == [x \in DOMAIN g |-> g[x]]
<1>1. onto \in Surjection(DOMAIN g, image)
  BY DEF Surjection
<1>2. QED
  BY <1>1, FS_Surjection

\* A summand has as many units as it amounts to.
LEMMA UnitsOfOne ==
  ASSUME NEW x, NEW n \in Nat
  PROVE  IsFiniteSet({x} \X (1 .. n)) /\ Cardinality({x} \X (1 .. n)) = n
<1>1. IsFiniteSet(1 .. n) /\ Cardinality(1 .. n) = n
  BY FS_Interval
<1>2. IsFiniteSet({x}) /\ Cardinality({x}) = 1
  BY FS_Singleton
<1>3. /\ IsFiniteSet({x} \X (1 .. n))
      /\ Cardinality({x} \X (1 .. n)) = Cardinality({x}) * Cardinality(1 .. n)
  BY <1>1, <1>2, FS_Product, Zenon
<1>4. 1 * n = n
  OBVIOUS
<1>5. QED
  BY <1>1, <1>2, <1>3, <1>4, Zenon

\* Units are finitely many, and those of two sets apart are apart.
LEMMA UnitsSplit ==
  ASSUME NEW S, IsFiniteSet(S), NEW f \in [S -> Nat], NEW A \in SUBSET S, NEW B \in SUBSET S
  PROVE  /\ IsFiniteSet(Units(f, A)) /\ Cardinality(Units(f, A)) \in Nat
         /\ Units(f, A \cup B) = Units(f, A) \cup Units(f, B)
         /\ A \cap B = {} => Units(f, A) \cap Units(f, B) = {}
<1> DEFINE each == [x \in A |-> {x} \X (1 .. f[x])]
<1>1. IsFiniteSet({each[x] : x \in DOMAIN each})
  <2>1. DOMAIN each = A /\ IsFiniteSet(A)
    BY FS_Subset
  <2> HIDE DEF each
  <2>2. QED
    BY <2>1, ImageFinite
<1>2. {each[x] : x \in DOMAIN each} = {{x} \X (1 .. f[x]) : x \in A}
  OBVIOUS
<1>3. ASSUME NEW u \in {{x} \X (1 .. f[x]) : x \in A} PROVE IsFiniteSet(u)
  <2>1. PICK x \in A : u = {x} \X (1 .. f[x])
    OBVIOUS
  <2>2. f[x] \in Nat
    OBVIOUS
  <2>3. QED
    BY <2>1, <2>2, UnitsOfOne
<1>4. IsFiniteSet(Units(f, A)) /\ Cardinality(Units(f, A)) \in Nat
  BY <1>1, <1>2, <1>3, FS_UNION, FS_CardinalityType DEF Units
<1>5. QED
  BY <1>4 DEF Units

\* A summand taken out of a set takes its units with it.
LEMMA UnitsTake ==
  ASSUME NEW S, IsFiniteSet(S), NEW f \in [S -> Nat], NEW A \in SUBSET S, NEW x \in A
  PROVE  Cardinality(Units(f, A)) = f[x] + Cardinality(Units(f, A \ {x}))
<1> DEFINE rest == A \ {x}
<1>1. A = {x} \cup rest /\ {x} \cap rest = {} /\ {x} \in SUBSET S /\ rest \in SUBSET S
  OBVIOUS
<1> HIDE DEF rest
<1>2. Units(f, {x}) = {x} \X (1 .. f[x])
  BY DEF Units
<1>3. /\ IsFiniteSet(Units(f, {x})) /\ IsFiniteSet(Units(f, rest))
      /\ Units(f, A) = Units(f, {x}) \cup Units(f, rest)
      /\ Units(f, {x}) \cap Units(f, rest) = {}
  <2>1. IsFiniteSet(Units(f, {x})) /\ IsFiniteSet(Units(f, rest))
    BY <1>1, UnitsSplit, Zenon
  <2>2. Units(f, {x} \cup rest) = Units(f, {x}) \cup Units(f, rest)
    BY DEF Units
  <2>3. {x} \cap rest = {} => Units(f, {x}) \cap Units(f, rest) = {}
    BY DEF Units
  <2>4. QED
    BY <1>1, <2>1, <2>2, <2>3, Zenon
<1>4. Cardinality(Units(f, {x})) = f[x] /\ f[x] \in Nat
  BY <1>2, UnitsOfOne
<1>5. Cardinality(Units(f, rest)) \in Nat
  BY <1>1, UnitsSplit, Zenon
<1>6. Cardinality(Units(f, A)) = Cardinality(Units(f, {x})) + Cardinality(Units(f, rest)) - Cardinality({})
  <2>1. Cardinality(Units(f, {x}) \cup Units(f, rest)) =
           Cardinality(Units(f, {x})) + Cardinality(Units(f, rest))
               - Cardinality(Units(f, {x}) \cap Units(f, rest))
    BY <1>3, FS_Union, Zenon
  <2>2. QED
    BY <1>3, <2>1, Zenon
<1>7. QED
  BY <1>4, <1>5, <1>6, FS_EmptySet DEF rest

\* The community modules' sum is that count: both are what its equation says, which
\* nothing else is.
LEMMA SumIsCount ==
  ASSUME NEW S, IsFiniteSet(S), NEW f \in [S -> Nat]
  PROVE  SumFunction(f) = Cardinality(Units(f, S))
<1> DEFINE F(g) == [s \in SUBSET S |-> IF s = {} THEN 0
                        ELSE f[CHOOSE x \in s : TRUE] + g[s \ {CHOOSE x \in s : TRUE}]]
           count == [s \in SUBSET S |-> Cardinality(Units(f, s))]
           iter == CHOOSE g : g = F(g)
<1>1. SumFunction(f) = iter[S]
  BY DEF SumFunction, SumFunctionOnSet, FoldFunctionOnSet, MapThenFoldSet
<1>2. ASSUME NEW s \in SUBSET S, s # {}
      PROVE  LET x == CHOOSE x \in s : TRUE IN x \in s /\ count[s] = f[x] + count[s \ {x}]
  <2> DEFINE x == CHOOSE x \in s : TRUE
  <2>1. x \in s
    BY <1>2
  <2>2. s \ {x} \in SUBSET S
    OBVIOUS
  <2> HIDE DEF x
  <2>3. Cardinality(Units(f, s)) = f[x] + Cardinality(Units(f, s \ {x}))
    BY <2>1, UnitsTake
  <2>4. count[s] = f[x] + count[s \ {x}]
    BY <2>2, <2>3
  <2>5. QED
    BY <2>1, <2>4 DEF x
<1>3. Units(f, {}) = {} /\ count[{}] = 0
  BY FS_EmptySet DEF Units
<1>4. count = F(count)
  BY <1>2, <1>3
<1>5. iter = F(iter)
  BY <1>4
<1> HIDE DEF iter, count
<1>6. ASSUME NEW s \in SUBSET S, s # {}
      PROVE  LET x == CHOOSE x \in s : TRUE IN x \in s /\ iter[s] = f[x] + iter[s \ {x}]
  BY <1>5, <1>6
<1>7. iter[{}] = 0
  BY <1>5
<1> DEFINE wrong == {s \in SUBSET S : iter[s] # count[s]}
<1>8. CASE wrong # {}
  <2>1. wrong \subseteq FiniteSubsetsOf(S)
    BY FS_FiniteSubsetsOfFinite
  <2>2. PICK s \in wrong : \A t \in wrong : <<t, s>> \notin StrictSubsetOrdering(S)
    BY <1>8, <2>1, FS_StrictSubsetOrderingWellFounded, WFMin, Zenon
  <2>3. s # {} /\ s \in SUBSET S
    BY <1>3, <1>7
  <2> DEFINE x == CHOOSE x \in s : TRUE
  <2>4. x \in s /\ iter[s] = f[x] + iter[s \ {x}] /\ count[s] = f[x] + count[s \ {x}]
    BY <1>2, <1>6, <2>3
  <2>5. s \ {x} \in wrong
    BY <2>2, <2>4
  <2>6. <<s \ {x}, s>> \in StrictSubsetOrdering(S)
    BY <2>3, <2>4 DEF StrictSubsetOrdering
  <2>7. QED
    BY <2>2, <2>5, <2>6
<1>9. CASE wrong = {}
  BY <1>1, <1>9 DEF count
<1>10. QED
  BY <1>8, <1>9

\* A finite sum of numbers is a number.
LEMMA SumType ==
  ASSUME NEW S, IsFiniteSet(S), NEW f \in [S -> Nat]
  PROVE  SumFunction(f) \in Nat
BY SumIsCount, UnitsSplit

\* Nothing sums to nothing.
LEMMA SumEmpty == ASSUME NEW f, f \in [{} -> Nat] PROVE SumFunction(f) = 0
<1>1. IsFiniteSet({}) /\ Units(f, {}) = {}
  BY FS_EmptySet DEF Units
<1>2. QED
  BY <1>1, SumIsCount, FS_EmptySet

\* A sum of one is its summand.
LEMMA SumOfOne ==
  ASSUME NEW x, NEW f, f \in [{x} -> Nat]
  PROVE  SumFunction(f) = f[x]
<1>1. IsFiniteSet({x}) /\ f[x] \in Nat /\ Units(f, {x}) = {x} \X (1 .. f[x])
  BY FS_Singleton DEF Units
<1>2. SumFunction(f) = Cardinality(Units(f, {x}))
  BY <1>1, SumIsCount
<1>3. QED
  BY <1>1, <1>2, UnitsOfOne

\* A sum is at most another whose summands are at least its own wherever its own
\* are not zero.
LEMMA SumMonotone ==
  ASSUME NEW S, IsFiniteSet(S), NEW f \in [S -> Nat],
         NEW T, IsFiniteSet(T), NEW g \in [T -> Nat],
         \A x \in S : f[x] > 0 => x \in T /\ f[x] <= g[x]
  PROVE  SumFunction(f) <= SumFunction(g)
<1>1. Units(f, S) \subseteq Units(g, T)
  <2> SUFFICES ASSUME NEW x \in S, NEW u \in 1 .. f[x] PROVE <<x, u>> \in Units(g, T)
    BY DEF Units
  <2>1. f[x] \in Nat /\ f[x] > 0 /\ x \in T /\ g[x] \in Nat /\ f[x] <= g[x]
    OBVIOUS
  <2>2. u \in 1 .. g[x]
    BY <2>1
  <2>3. QED
    BY <2>1, <2>2 DEF Units
<1>2. IsFiniteSet(Units(g, T)) /\ SumFunction(f) = Cardinality(Units(f, S))
      /\ SumFunction(g) = Cardinality(Units(g, T))
  BY SumIsCount, UnitsSplit
<1>3. QED
  BY <1>1, <1>2, FS_Subset

\* A sum over two sets apart is the sum of their sums.
LEMMA SumSplit ==
  ASSUME NEW A, IsFiniteSet(A), NEW g \in [A -> Nat],
         NEW B, IsFiniteSet(B), NEW h \in [B -> Nat], A \cap B = {},
         NEW f \in [A \cup B -> Nat],
         \A x \in A : f[x] = g[x], \A x \in B : f[x] = h[x]
  PROVE  SumFunction(f) = SumFunction(g) + SumFunction(h)
<1>1. IsFiniteSet(A \cup B)
  BY FS_Union
<1>2. Units(f, A) = Units(g, A) /\ Units(f, B) = Units(h, B)
  BY DEF Units
<1>3. /\ IsFiniteSet(Units(f, A)) /\ IsFiniteSet(Units(f, B))
      /\ Cardinality(Units(f, A)) \in Nat /\ Cardinality(Units(f, B)) \in Nat
      /\ Units(f, A \cup B) = Units(f, A) \cup Units(f, B)
      /\ Units(f, A) \cap Units(f, B) = {}
  <2> DEFINE S == A \cup B
  <2>1. A \in SUBSET S /\ B \in SUBSET S /\ f \in [S -> Nat] /\ IsFiniteSet(S)
    BY <1>1
  <2> HIDE DEF S
  <2>2. QED
    BY <2>1, UnitsSplit
<1>4. Cardinality(Units(f, A \cup B)) = Cardinality(Units(f, A)) + Cardinality(Units(f, B)) - Cardinality({})
  <2> DEFINE U == Units(f, A)
             V == Units(f, B)
  <2>1. IsFiniteSet(U) /\ IsFiniteSet(V) /\ Units(f, A \cup B) = U \cup V /\ U \cap V = {}
    BY <1>3
  <2> HIDE DEF U, V
  <2>2. Cardinality(U \cup V) = Cardinality(U) + Cardinality(V) - Cardinality(U \cap V)
    BY <2>1, FS_Union
  <2>3. QED
    BY <2>1, <2>2 DEF U, V
<1>5. /\ SumFunction(f) = Cardinality(Units(f, A \cup B))
      /\ SumFunction(g) = Cardinality(Units(g, A)) /\ SumFunction(h) = Cardinality(Units(h, B))
  BY <1>1, SumIsCount
<1>6. QED
  BY <1>2, <1>3, <1>4, <1>5, FS_EmptySet

-----------------------------------------------------------------------------
\* The invariant.

\* What is reserved or settled of x, and how far its run is.
RunInv(x) ==
    /\ IsFiniteSet(rows[x])
    /\ run[x] \in {"new", "refused"} => x \notin held /\ settled[x] = "no"
    /\ x \in held => settled[x] = "no"
    /\ x \notin held /\ settled[x] = "no" => rows[x] = {}
    /\ settled[x] = "finished" => run[x] \in {"ended", "over"}
    /\ x \in stale => run[x] # "reserved"

\* What reaper r has claimed, and been told of it.
ReapInv(r) ==
    /\ claimed[r] \subseteq stale
    /\ \A x \in Execution :
          /\ asked[r][x] # "unasked" => x \in claimed[r]
          /\ asked[r][x] = "finished" => run[x] \in {"ended", "over"}

Inv == /\ TypeOK /\ UsageIsCosts /\ NeverOversold
       /\ \A x \in Execution : RunInv(x)
       /\ \A r \in Reaper : ReapInv(r)

\* How a reservation can be resolved.
Resolution == {"drop", "finished", "stand"}

\* A period is one of the days.
LEMMA PeriodKeyType == ASSUME TypeOK, NEW p \in Pool PROVE PeriodKey(p) \in 1..Days
<1>1. day \in 1..Days /\ MonthLength \in Nat \ {0} /\ Days \in Nat
  BY BoundAssumption DEF TypeOK, Day
<1>2. (day - 1) \div MonthLength \in 0 .. day - 1
  BY <1>1
<1>3. QED
  BY <1>1, <1>2 DEF PeriodKey

\* Executions are finitely many numbers.
LEMMA ExecutionType == IsFiniteSet(Execution) /\ Execution \subseteq Nat
BY BoundAssumption, FS_Interval DEF Execution

\* A resolved row costs a number.
LEMMA CostType ==
  ASSUME TypeOK, NEW x \in Execution, NEW row \in Row, NEW v \in Resolution
  PROVE  Cost(x, row, v) \in Nat
<1>1. took[x] \in Nat /\ row.amount \in Nat
  BY BoundAssumption DEF TypeOK, Row
<1>2. QED
  BY <1>1 DEF Cost, Price, Resolution

\* The rows at a counter are some of the rows.
LEMMA RowsAtType ==
  ASSUME TypeOK, NEW x \in Execution, IsFiniteSet(rows[x]), NEW k
  PROVE  IsFiniteSet(RowsAt(x, k)) /\ RowsAt(x, k) \subseteq rows[x] /\ RowsAt(x, k) \subseteq Row
BY FS_Subset DEF RowsAt, TypeOK

\* The rows of a resolved execution at a counter cost a number.
LEMMA CostsType ==
  ASSUME TypeOK, NEW x \in Execution, IsFiniteSet(rows[x]), NEW k, NEW v \in Resolution
  PROVE  Costs(x, k, v) \in Nat
<1>1. [row \in RowsAt(x, k) |-> Cost(x, row, v)] \in [RowsAt(x, k) -> Nat]
  BY RowsAtType, CostType
<1>2. QED
  BY <1>1, RowsAtType, SumType DEF Costs

\* What is reserved of a counter is a number.
LEMMA ReservedType ==
  ASSUME TypeOK, NEW x \in Execution, IsFiniteSet(rows[x]), NEW k
  PROVE  Reserved(x, k) \in Nat
<1>1. [row \in RowsAt(x, k) |-> row.amount] \in [RowsAt(x, k) -> Nat]
  BY RowsAtType DEF Row
<1>2. QED
  BY <1>1, RowsAtType, SumType DEF Reserved

\* What counts of a row is a number.
LEMMA CountedType ==
  ASSUME TypeOK, NEW x \in Execution, RunInv(x), NEW row \in rows[x]
  PROVE  /\ row \in Row /\ row.amount \in Nat /\ Counted(x, row) \in Nat
         /\ Smaller(row.amount, Counted(x, row)) \in Nat
         /\ x \notin held => settled[x] \in Resolution
<1>1. row \in Row /\ row.amount \in Nat
  BY DEF TypeOK, Row
<1>2. x \notin held => settled[x] \in Resolution
  BY DEF RunInv, TypeOK, Resolution
<1>3. Counted(x, row) \in Nat
  BY <1>1, <1>2, CostType DEF Counted
<1>4. QED
  BY <1>1, <1>2, <1>3 DEF Smaller

\* What an execution takes of a counter within what it declared is a number.
LEMMA WithinType ==
  ASSUME TypeOK, NEW x \in Execution, RunInv(x), NEW k
  PROVE  /\ Within(x, k) \in Nat
         /\ [row \in RowsAt(x, k) |-> Smaller(row.amount, Counted(x, row))] \in [RowsAt(x, k) -> Nat]
<1>1. [row \in RowsAt(x, k) |-> Smaller(row.amount, Counted(x, row))] \in [RowsAt(x, k) -> Nat]
  BY RowsAtType, CountedType DEF RunInv
<1>2. QED
  BY <1>1, RowsAtType, SumType DEF Within, RunInv

-----------------------------------------------------------------------------
\* What a step makes of the sums.

\* The executions whose reservation has been resolved.
Resolved == {y \in Execution : settled[y] # "no"}

\* What has been resolved of a counter is a sum of numbers.
LEMMA ResolvedCosts ==
  ASSUME TypeOK, \A x \in Execution : RunInv(x), NEW k
  PROVE  /\ IsFiniteSet(Resolved) /\ Resolved \subseteq Execution
         /\ \A x \in Resolved : settled[x] \in Resolution
         /\ [x \in Resolved |-> Costs(x, k, settled[x])] \in [Resolved -> Nat]
<1>1. IsFiniteSet(Resolved) /\ Resolved \subseteq Execution
  BY ExecutionType, FS_Subset DEF Resolved
<1>2. \A x \in Resolved : settled[x] \in Resolution
  BY DEF Resolved, TypeOK, Resolution
<1>3. \A x \in Resolved : Costs(x, k, settled[x]) \in Nat
  BY <1>1, <1>2, CostsType DEF RunInv
<1>4. QED
  BY <1>1, <1>2, <1>3

\* Settling adds to each counter what was resolved, once.
LEMMA SettleCosts ==
  ASSUME Inv, NEW D \in SUBSET Execution, NEW done \in [D -> Resolution], SettleQuota(done),
         UNCHANGED <<rows, took>>
  PROVE  UsageIsCosts' /\ used' \in [Key -> Nat]
<1> SUFFICES ASSUME NEW k \in Key
             PROVE  /\ used'[k] = SumFunction([x \in Resolved' |-> Costs(x, k, settled[x])'])
                    /\ used'[k] \in Nat
  <2>1. used' = [k \in Key |-> used'[k]]
    BY DEF SettleQuota
  <2>2. QED
    BY <2>1 DEF UsageIsCosts, Resolved
<1> DEFINE B == D \cap held
           g == [x \in Resolved |-> Costs(x, k, settled[x])]
           h == [x \in B |-> Costs(x, k, done[x])]
           f == [x \in Resolved \cup B |-> Costs(x, k, settled'[x])]
<1>1. /\ IsFiniteSet(Resolved) /\ Resolved \subseteq Execution /\ g \in [Resolved -> Nat]
      /\ \A x \in Execution : IsFiniteSet(rows[x])
      /\ TypeOK
  BY ResolvedCosts DEF Inv, RunInv
<1>2. IsFiniteSet(B) /\ B \subseteq Execution /\ Resolved \cap B = {}
  BY ExecutionType, FS_Subset DEF Inv, RunInv, Resolved
<1>3. \A x \in B : done[x] \in Resolution /\ Costs(x, k, done[x]) \in Nat
  BY <1>1, <1>2, CostsType
<1>4. h \in [B -> Nat]
  BY <1>3
<1>5. settled' = [x \in Execution |-> IF x \in B THEN done[x] ELSE settled[x]]
  BY DEF SettleQuota
<1>6. Resolved' = Resolved \cup B
  BY <1>2, <1>3, <1>5 DEF Resolved, Resolution
<1>7. \A x \in Resolved : x \notin B /\ settled'[x] = settled[x]
  BY <1>1, <1>2, <1>5
<1>8. \A x \in B : settled'[x] = done[x]
  BY <1>2, <1>5
<1>9. f \in [Resolved \cup B -> Nat] /\ (\A x \in Resolved : f[x] = g[x]) /\ (\A x \in B : f[x] = h[x])
  BY <1>1, <1>4, <1>7, <1>8
<1>10. used'[k] = used[k] + SumFunction(h) /\ used[k] = SumFunction(g)
  BY DEF SettleQuota, Inv, UsageIsCosts, Resolved
<1>11. [x \in Resolved' |-> Costs(x, k, settled[x])'] = f
  BY <1>6 DEF Costs, RowsAt, Cost
<1> HIDE DEF f, g, h, B
<1>12. SumFunction(f) = SumFunction(g) + SumFunction(h) /\ SumFunction(g) \in Nat /\ SumFunction(h) \in Nat
  BY <1>1, <1>2, <1>4, <1>9, SumSplit, SumType
<1>13. QED
  BY <1>10, <1>11, <1>12

\* Where nobody takes more of a counter, it stays within its limit.
LEMMA NotMoreAt ==
  ASSUME Inv, NEW k \in Key,
         \A x \in Execution \ pays : Within(x, k)' \in Nat /\ Within(x, k)' <= Within(x, k)
  PROVE  SumFunction([x \in Execution \ pays |-> Within(x, k)']) <= Limit[k[1]]
<1> DEFINE T == Execution \ pays
           f == [x \in T |-> Within(x, k)']
           g == [x \in T |-> Within(x, k)]
<1>2. IsFiniteSet(T) /\ T \subseteq Execution
  BY ExecutionType, FS_Subset
<1>3. f \in [T -> Nat]
  OBVIOUS
<1>4. g \in [T -> Nat]
  BY <1>2, WithinType DEF Inv
<1>5. \A x \in T : f[x] <= g[x]
  OBVIOUS
<1>6. SumFunction(g) <= Limit[k[1]] /\ Limit[k[1]] \in Nat
  BY QuotaAssumption DEF Inv, NeverOversold, Key
<1> HIDE DEF f, g, T
<1>7. SumFunction(f) <= SumFunction(g) /\ SumFunction(f) \in Nat /\ SumFunction(g) \in Nat
  BY <1>2, <1>3, <1>4, <1>5, SumMonotone, SumType
<1>8. SumFunction(f) <= Limit[k[1]]
  BY <1>6, <1>7
<1>9. QED
  BY <1>8 DEF f, T

\* Where nobody takes more of any counter, none is oversold.
LEMMA NotMore ==
  ASSUME Inv, pays' = pays,
         \A k \in Key : \A x \in Execution \ pays :
             Within(x, k)' \in Nat /\ Within(x, k)' <= Within(x, k)
  PROVE  NeverOversold'
<1>1. ASSUME NEW k \in Key
      PROVE  SumFunction([x \in Execution \ pays |-> Within(x, k)']) <= Limit[k[1]]
  BY NotMoreAt
<1>2. QED
  BY <1>1 DEF NeverOversold

\* And takes no more of it than was reserved.
LEMMA SettleWithin ==
  ASSUME Inv, NEW D \in SUBSET Execution, NEW done \in [D -> Resolution], SettleQuota(done),
         UNCHANGED <<rows, took, pays>>
  PROVE  NeverOversold'
<1>1. ASSUME NEW k \in Key, NEW x \in Execution
      PROVE  Within(x, k)' \in Nat /\ Within(x, k)' <= Within(x, k)
  <2> DEFINE S == RowsAt(x, k)
             g == [row \in S |-> Smaller(row.amount, Counted(x, row))]
             f == [row \in S |-> Smaller(row.amount, Counted(x, row)')]
  <2>1. TypeOK /\ RunInv(x) /\ IsFiniteSet(S) /\ S \subseteq rows[x] /\ g \in [S -> Nat]
    BY RowsAtType, WithinType DEF Inv, RunInv
  <2>2. settled'[x] = IF x \in D \cap held THEN done[x] ELSE settled[x]
    BY DEF SettleQuota
  <2>3. ASSUME NEW row \in S
        PROVE  f[row] \in Nat /\ f[row] <= g[row]
    <3>1. /\ row \in Row /\ row.amount \in Nat /\ Counted(x, row) \in Nat
          /\ Smaller(row.amount, Counted(x, row)) \in Nat
      BY <2>1, <2>3, CountedType
    <3>2. CASE x \in D \cap held
      <4>1. Counted(x, row) = row.amount
        BY <3>2 DEF Counted
      <4>2. Counted(x, row)' = Cost(x, row, done[x])
        BY <2>2, <3>2 DEF Counted, SettleQuota, Cost
      <4>3. Counted(x, row)' \in Nat
        BY <2>1, <3>1, <3>2, <4>2, CostType
      <4>4. QED
        BY <3>1, <4>1, <4>3 DEF Smaller
    <3>3. CASE x \notin D \cap held
      <4>1. (x \in held)' <=> x \in held
        BY <3>3 DEF SettleQuota
      <4>2. settled'[x] = settled[x]
        BY <2>2, <3>3
      <4>3. Cost(x, row, settled[x])' = Cost(x, row, settled[x])
        BY <4>2 DEF Cost
      <4>4. Counted(x, row)' = Counted(x, row)
        BY <4>1, <4>3 DEF Counted
      <4>5. QED
        BY <3>1, <4>4
    <3>4. QED
      BY <3>2, <3>3
  <2>4. f \in [S -> Nat]
    BY <2>3
  <2>5. Within(x, k)' = SumFunction(f) /\ Within(x, k) = SumFunction(g)
    BY DEF Within, RowsAt
  <2> HIDE DEF f, g, S
  <2>6. SumFunction(f) \in Nat /\ SumFunction(f) <= SumFunction(g)
    BY <2>1, <2>3, <2>4, SumType, SumMonotone
  <2>7. QED
    BY <2>5, <2>6
<1>2. QED
  BY <1>1, NotMore

\* A step that resolves and reserves nothing, and ends no run twice, leaves what
\* each counter is charged.
LEMMA UsageKept ==
  ASSUME Inv, UNCHANGED <<used, rows, settled>>,
         \A x \in Execution : settled[x] = "finished" => took'[x] = took[x]
  PROVE  UsageIsCosts'
<1> SUFFICES ASSUME NEW k \in Key
             PROVE  used[k] = SumFunction([x \in Resolved |-> Costs(x, k, settled[x])'])
  BY DEF UsageIsCosts, Resolved
<1>1. ASSUME NEW x \in Resolved PROVE Costs(x, k, settled[x])' = Costs(x, k, settled[x])
  <2>1. ASSUME NEW row PROVE Cost(x, row, settled[x])' = Cost(x, row, settled[x])
    <3>1. settled[x] \in Resolution /\ x \in Execution
      BY ResolvedCosts DEF Inv
    <3>2. CASE settled[x] = "finished"
      BY <3>1, <3>2 DEF Cost
    <3>3. CASE settled[x] # "finished"
      BY <3>1, <3>3 DEF Cost, Resolution
    <3>4. QED
      BY <3>2, <3>3
  <2>2. RowsAt(x, k)' = RowsAt(x, k)
    BY DEF RowsAt
  <2>3. [row \in RowsAt(x, k)' |-> Cost(x, row, settled[x])'] = [row \in RowsAt(x, k) |-> Cost(x, row, settled[x])]
    BY <2>1, <2>2
  <2>4. QED
    BY <2>3 DEF Costs
<1>2. [x \in Resolved |-> Costs(x, k, settled[x])'] = [x \in Resolved |-> Costs(x, k, settled[x])]
  BY <1>1
<1>3. QED
  BY <1>2 DEF Inv, UsageIsCosts, Resolved

\* Nor does it take more of any.
LEMMA WithinKept ==
  ASSUME Inv, UNCHANGED <<rows, held, settled, pays>>,
         \A x \in Execution : settled[x] = "finished" => took'[x] = took[x]
  PROVE  NeverOversold'
<1>1. ASSUME NEW k \in Key, NEW x \in Execution PROVE Within(x, k)' = Within(x, k) /\ Within(x, k) \in Nat
  <2>1. RunInv(x) /\ Within(x, k) \in Nat
    BY WithinType DEF Inv
  <2>2. ASSUME NEW row \in RowsAt(x, k) PROVE Counted(x, row)' = Counted(x, row)
    <3>1. row \in rows[x] /\ (x \notin held => settled[x] \in Resolution)
      BY <2>1, CountedType DEF RowsAt, Inv
    <3>2. CASE x \in held
      BY <3>2 DEF Counted
    <3>3. CASE x \notin held /\ settled[x] = "finished"
      <4>1. Cost(x, row, settled[x])' = Cost(x, row, settled[x])
        BY <3>3 DEF Cost
      <4>2. QED
        BY <3>3, <4>1 DEF Counted
    <3>4. CASE x \notin held /\ settled[x] # "finished"
      <4>1. Cost(x, row, settled[x])' = Cost(x, row, settled[x])
        BY <3>1, <3>4 DEF Cost, Resolution
      <4>2. QED
        BY <3>4, <4>1 DEF Counted
    <3>5. QED
      BY <3>2, <3>3, <3>4
  <2>3. RowsAt(x, k)' = RowsAt(x, k)
    BY DEF RowsAt
  <2>4. [row \in RowsAt(x, k)' |-> Smaller(row.amount, Counted(x, row)')]
          = [row \in RowsAt(x, k) |-> Smaller(row.amount, Counted(x, row))]
    BY <2>2, <2>3
  <2>5. QED
    BY <2>1, <2>4 DEF Within, Smaller
<1>2. ASSUME NEW a \in Nat PROVE a <= a
  OBVIOUS
<1>3. QED
  BY <1>1, <1>2, NotMore

\* What an execution takes of a counter is at most what stands against it there.
LEMMA WithinBound ==
  ASSUME Inv, NEW k, NEW x \in Execution
  PROVE  /\ x \in held => Within(x, k) <= Reserved(x, k)
         /\ x \in Resolved => Within(x, k) <= Costs(x, k, settled[x])
         /\ x \notin held \cup Resolved => Within(x, k) = 0
<1> DEFINE S == RowsAt(x, k)
           f == [row \in S |-> Smaller(row.amount, Counted(x, row))]
           g == [row \in S |-> row.amount]
           h == [row \in S |-> Cost(x, row, settled[x])]
<1>1. TypeOK /\ RunInv(x) /\ IsFiniteSet(S) /\ S \subseteq rows[x] /\ f \in [S -> Nat]
  BY RowsAtType, WithinType DEF Inv, RunInv
<1>2. ASSUME NEW row \in S
      PROVE  /\ row.amount \in Nat /\ f[row] <= row.amount
             /\ x \notin held => Cost(x, row, settled[x]) \in Nat /\ f[row] <= Cost(x, row, settled[x])
  <2>1. row.amount \in Nat /\ Counted(x, row) \in Nat
    BY <1>1, CountedType
  <2>2. x \notin held => Counted(x, row) = Cost(x, row, settled[x])
    BY DEF Counted
  <2>3. QED
    BY <2>1, <2>2 DEF Smaller
<1>3. Within(x, k) = SumFunction(f) /\ Reserved(x, k) = SumFunction(g) /\ Costs(x, k, settled[x]) = SumFunction(h)
  BY DEF Within, Reserved, Costs
<1>4. g \in [S -> Nat] /\ (x \notin held => h \in [S -> Nat])
  BY <1>2
<1>5. (\A row \in S : f[row] <= g[row]) /\ (x \notin held => \A row \in S : f[row] <= h[row])
  BY <1>2
<1>6. x \in Resolved => x \notin held
  BY <1>1 DEF RunInv, Resolved
<1>7. x \notin held \cup Resolved => S = {}
  BY <1>1 DEF RunInv, Resolved
<1> HIDE DEF f, g, h, S
<1>8. SumFunction(f) <= SumFunction(g)
  BY <1>1, <1>4, <1>5, SumMonotone
<1>9. x \notin held => SumFunction(f) <= SumFunction(h)
  BY <1>1, <1>4, <1>5, SumMonotone
<1>10. x \notin held \cup Resolved => SumFunction(f) = 0
  BY <1>1, <1>7, SumEmpty
<1>11. QED
  BY <1>3, <1>6, <1>8, <1>9, <1>10

\* And so is what any of them take together.
LEMMA StandingBound ==
  ASSUME Inv, NEW k \in Key, NEW T \in SUBSET Execution
  PROVE  /\ [x \in T |-> Within(x, k)] \in [T -> Nat]
         /\ SumFunction([x \in T |-> Within(x, k)]) <= Standing(k) /\ Standing(k) \in Nat
<1> DEFINE f == [x \in T |-> Within(x, k)]
           g == [x \in held |-> Reserved(x, k)]
           h == [x \in Resolved |-> Costs(x, k, settled[x])]
           both == [x \in held \cup Resolved |-> IF x \in held THEN g[x] ELSE h[x]]
<1>1. IsFiniteSet(T) /\ IsFiniteSet(held) /\ held \subseteq Execution
  BY ExecutionType, FS_Subset DEF Inv, TypeOK
<1>2. /\ IsFiniteSet(Resolved) /\ Resolved \subseteq Execution /\ h \in [Resolved -> Nat]
  BY ResolvedCosts DEF Inv
<1>3. held \cap Resolved = {}
  BY DEF Inv, RunInv, Resolved
<1>4. f \in [T -> Nat] /\ g \in [held -> Nat]
  BY <1>1, WithinType, ReservedType DEF Inv, RunInv
<1>5. /\ both \in [held \cup Resolved -> Nat]
      /\ \A x \in held : both[x] = g[x]
      /\ \A x \in Resolved : both[x] = h[x]
  BY <1>2, <1>3, <1>4
<1>6. \A x \in T : f[x] > 0 => x \in held \cup Resolved /\ f[x] <= both[x]
  <2> SUFFICES ASSUME NEW x \in T, f[x] > 0 PROVE x \in held \cup Resolved /\ f[x] <= both[x]
    OBVIOUS
  <2>1. /\ x \in held => f[x] <= g[x]
        /\ x \in Resolved => f[x] <= h[x]
        /\ x \notin held \cup Resolved => f[x] = 0
    BY WithinBound
  <2>2. QED
    BY <1>5, <2>1
<1>7. Standing(k) = SumFunction(h) + SumFunction(g)
  BY DEF Standing, Inv, UsageIsCosts, Resolved
<1>8. IsFiniteSet(held \cup Resolved)
  BY <1>1, <1>2, FS_Union
<1> HIDE DEF f, g, h, both
<1>9. SumFunction(both) = SumFunction(g) + SumFunction(h)
  <2> DEFINE R == Resolved
  <2>1. /\ IsFiniteSet(held) /\ g \in [held -> Nat] /\ IsFiniteSet(R) /\ h \in [R -> Nat]
        /\ held \cap R = {} /\ both \in [held \cup R -> Nat]
        /\ \A x \in held : both[x] = g[x]
        /\ \A x \in R : both[x] = h[x]
    BY <1>1, <1>2, <1>3, <1>4, <1>5
  <2> HIDE DEF R
  <2>2. QED
    BY <2>1, SumSplit
<1>10. SumFunction(g) \in Nat /\ SumFunction(h) \in Nat
  BY <1>1, <1>2, <1>4, SumType
<1>11. SumFunction(f) <= SumFunction(both)
  BY <1>1, <1>4, <1>5, <1>6, <1>8, SumMonotone
<1>12. QED
  BY <1>4, <1>7, <1>9, <1>10, <1>11 DEF f

-----------------------------------------------------------------------------
\* Reserving.

\* An execution is charged once for each of its pools.
LEMMA ChargesType ==
  ASSUME TypeOK, NEW x \in Execution
  PROVE  /\ Charges(x) \subseteq Row /\ IsFiniteSet(Charges(x))
         /\ \A c, d \in Charges(x) : c.pool = d.pool => c = d
<1> DEFINE charge == [p \in PoolsOf(x) |-> [pool |-> p, period |-> PeriodKey(p), amount |-> Price(p, declared[x])]]
<1>1. PoolsOf(x) \subseteq Pool /\ IsFiniteSet(PoolsOf(x))
  BY NamespaceAssumption, FS_Subset DEF PoolsOf
<1>2. \A p \in Pool : PeriodKey(p) \in 1..Days /\ Price(p, declared[x]) \in Nat
  BY PeriodKeyType, QuotaAssumption DEF TypeOK, Price
<1>3. Charges(x) \subseteq Row
  BY <1>1, <1>2 DEF Charges, Row
<1>4. Charges(x) = {charge[p] : p \in DOMAIN charge}
  BY DEF Charges
<1>5. DOMAIN charge = PoolsOf(x)
  OBVIOUS
<1>6. \A c, d \in Charges(x) : c.pool = d.pool => c = d
  BY DEF Charges
<1> HIDE DEF charge
<1>7. IsFiniteSet({charge[p] : p \in DOMAIN charge})
  BY <1>1, <1>5, ImageFinite
<1>8. QED
  BY <1>3, <1>4, <1>6, <1>7

\* Reserving settles nothing.
LEMMA ReserveCosts ==
  ASSUME Inv, NEW x \in Execution, Reserve(x)
  PROVE  UsageIsCosts'
<1> SUFFICES ASSUME NEW k \in Key
             PROVE  used[k] = SumFunction([y \in Resolved |-> Costs(y, k, settled[y])'])
  BY DEF UsageIsCosts, Resolved, Reserve
<1>1. ASSUME NEW y \in Resolved PROVE Costs(y, k, settled[y])' = Costs(y, k, settled[y])
  <2>1. y # x /\ rows'[y] = rows[y] /\ settled' = settled /\ took' = took
    BY DEF Reserve, Inv, RunInv, Resolved, TypeOK
  <2>2. QED
    BY <2>1 DEF Costs, RowsAt, Cost
<1>2. [y \in Resolved |-> Costs(y, k, settled[y])'] = [y \in Resolved |-> Costs(y, k, settled[y])]
  BY <1>1
<1>3. QED
  BY <1>2 DEF Inv, UsageIsCosts, Resolved

\* What a reservation takes of a counter is what it is charged there.
LEMMA WithinReserved ==
  ASSUME Inv, NEW x \in Execution, Reserve(x), Fits(x), rows' = [rows EXCEPT ![x] = Charges(x)],
         held' = (IF Charges(x) = {} THEN held ELSE held \cup {x}), NEW k
  PROVE  /\ \A y \in Execution \ {x} : Within(y, k)' = Within(y, k)
         /\ \/ Within(x, k)' = 0
            \/ \E c \in Charges(x) : <<c.pool, c.period>> = k /\ Within(x, k)' = c.amount
<1> DEFINE at == {c \in Charges(x) : <<c.pool, c.period>> = k}
<1>1. TypeOK /\ x \notin held /\ settled' = settled /\ took' = took
  BY DEF Reserve, Inv, RunInv
<1>2. ASSUME NEW y \in Execution \ {x} PROVE Within(y, k)' = Within(y, k)
  <2>1. rows'[y] = rows[y] /\ (y \in held' <=> y \in held)
    BY <1>1 DEF TypeOK
  <2>2. ASSUME NEW row PROVE Counted(y, row)' = Counted(y, row)
    <3>1. Cost(y, row, settled[y])' = Cost(y, row, settled[y])
      BY <1>1 DEF Cost
    <3>2. QED
      BY <1>1, <2>1, <3>1 DEF Counted
  <2>3. RowsAt(y, k)' = RowsAt(y, k)
    BY <2>1 DEF RowsAt
  <2>4. [row \in RowsAt(y, k)' |-> Smaller(row.amount, Counted(y, row)')]
          = [row \in RowsAt(y, k) |-> Smaller(row.amount, Counted(y, row))]
    BY <2>2, <2>3
  <2>5. QED
    BY <2>4 DEF Within, Smaller
<1>3. RowsAt(x, k)' = at
  BY <1>1 DEF RowsAt, TypeOK
<1>4. ASSUME NEW row \in at PROVE Smaller(row.amount, Counted(x, row)') = row.amount
  <2>1. x \in held' /\ row.amount \in Nat
    BY ChargesType, <1>1 DEF Row
  <2>2. QED
    BY <2>1 DEF Counted, Smaller
<1>5. Within(x, k)' = SumFunction([row \in at |-> row.amount])
  <2>1. [row \in RowsAt(x, k)' |-> Smaller(row.amount, Counted(x, row)')] = [row \in at |-> row.amount]
    BY <1>3, <1>4
  <2>2. QED
    BY <2>1 DEF Within, Smaller
<1>6. CASE at = {}
  <2> DEFINE f == [row \in at |-> row.amount]
  <2>1. f \in [{} -> Nat]
    BY <1>6
  <2> HIDE DEF f
  <2>2. SumFunction(f) = 0
    BY <2>1, SumEmpty
  <2>3. QED
    BY <1>2, <1>5, <2>2 DEF f
<1>7. CASE at # {}
  <2>1. PICK c \in at : TRUE
    BY <1>7
  <2>2. at = {c} /\ c \in Charges(x) /\ <<c.pool, c.period>> = k
    BY <1>1, ChargesType
  <2>3. c.amount \in Nat
    BY <1>1, <2>2, ChargesType DEF Row
  <2> DEFINE f == [row \in at |-> row.amount]
  <2>4. f \in [{c} -> Nat] /\ f[c] = c.amount
    BY <2>2, <2>3
  <2> HIDE DEF f
  <2>5. SumFunction(f) = c.amount
    BY <2>4, SumOfOne
  <2>6. QED
    BY <1>2, <1>5, <2>2, <2>5 DEF f
<1>8. QED
  BY <1>6, <1>7

\* A reservation takes no counter past its limit unless the job pays.
LEMMA ReserveWithin ==
  ASSUME Inv, NEW x \in Execution, Reserve(x)
  PROVE  NeverOversold'
<1>1. CASE UNCHANGED <<rows, held>>
  BY <1>1, WithinKept DEF Reserve, config
<1>2. CASE /\ Fits(x) /\ rows' = [rows EXCEPT ![x] = Charges(x)]
           /\ held' = (IF Charges(x) = {} THEN held ELSE held \cup {x})
  <2> SUFFICES ASSUME NEW k \in Key
               PROVE  SumFunction([y \in Execution \ pays |-> Within(y, k)']) <= Limit[k[1]]
    BY DEF NeverOversold, Reserve, config
  <2>1. /\ \A y \in Execution \ {x} : Within(y, k)' = Within(y, k)
        /\ \/ Within(x, k)' = 0
           \/ \E c \in Charges(x) : <<c.pool, c.period>> = k /\ Within(x, k)' = c.amount
    BY <1>2, WithinReserved
  <2>2. \A y \in Execution : Within(y, k) \in Nat /\ Within(y, k) <= Within(y, k)
    BY WithinType DEF Inv
  <2>3. CASE x \in pays \/ Within(x, k)' = 0
    <3>1. \A y \in Execution \ pays : Within(y, k)' \in Nat /\ Within(y, k)' <= Within(y, k)
      BY <2>1, <2>2, <2>3
    <3>2. QED
      BY <3>1, NotMoreAt
  <2>4. ASSUME x \notin pays, NEW c \in Charges(x), <<c.pool, c.period>> = k, Within(x, k)' = c.amount,
               c.amount # 0
        PROVE  SumFunction([y \in Execution \ pays |-> Within(y, k)']) <= Limit[k[1]]
    <3> DEFINE A == (Execution \ pays) \ {x}
               g == [y \in A |-> Within(y, k)]
               h == [y \in {x} |-> c.amount]
               f == [y \in A \cup {x} |-> Within(y, k)']
    <3>1. c.amount \in Nat /\ c.amount > 0 /\ k[1] = c.pool
      BY <2>4, ChargesType DEF Inv, Row
    <3>2. Standing(k) + c.amount <= Limit[k[1]]
      BY <1>2, <2>4, <3>1 DEF Fits
    <3>3. g \in [A -> Nat] /\ SumFunction(g) <= Standing(k) /\ Standing(k) \in Nat
      BY StandingBound
    <3>4. IsFiniteSet(A) /\ IsFiniteSet({x})
      BY ExecutionType, FS_Subset, FS_Singleton
    <3>5. h \in [{x} -> Nat] /\ h[x] = c.amount
      BY <3>1
    <3>6. /\ f \in [A \cup {x} -> Nat] /\ A \cap {x} = {}
          /\ \A y \in A : f[y] = g[y]
          /\ \A y \in {x} : f[y] = h[y]
      BY <2>1, <2>2, <2>4, <3>1
    <3>7. f = [y \in Execution \ pays |-> Within(y, k)']
      BY <2>4
    <3>8. Limit[k[1]] \in Nat
      BY QuotaAssumption DEF Key
    <3> HIDE DEF f, g, h, A
    <3>9. SumFunction(f) = SumFunction(g) + SumFunction(h)
      <4> DEFINE B == {x}
      <4>1. /\ IsFiniteSet(A) /\ g \in [A -> Nat] /\ IsFiniteSet(B) /\ h \in [B -> Nat]
            /\ A \cap B = {} /\ f \in [A \cup B -> Nat]
            /\ \A y \in A : f[y] = g[y]
            /\ \A y \in B : f[y] = h[y]
        BY <3>3, <3>4, <3>5, <3>6
      <4> HIDE DEF B
      <4>2. QED
        BY <4>1, SumSplit
    <3>10. SumFunction(h) = c.amount /\ SumFunction(g) \in Nat
      BY <3>3, <3>4, <3>5, SumOfOne, SumType
    <3>11. SumFunction(f) <= Limit[k[1]]
      BY <3>1, <3>2, <3>3, <3>8, <3>9, <3>10
    <3>12. QED
      BY <3>7, <3>11
  <2>5. QED
    BY <2>1, <2>3, <2>4
<1>3. QED
  BY <1>1, <1>2 DEF Reserve

-----------------------------------------------------------------------------
\* The steps.

\* Nothing is settled, reserved or claimed at first.
LEMMA InvInit == ASSUME Init PROVE Inv
<1>1. TypeOK
  BY BoundAssumption DEF Init, TypeOK, Day, Row, Verdict, Unasked, RunState
<1>2. ASSUME NEW x \in Execution PROVE RunInv(x)
  BY FS_EmptySet DEF Init, RunInv
<1>3. ASSUME NEW r \in Reaper PROVE ReapInv(r)
  BY DEF Init, ReapInv, Unasked
<1>4. UsageIsCosts
  <2> SUFFICES ASSUME NEW k \in Key PROVE used[k] = SumFunction([x \in Resolved |-> Costs(x, k, settled[x])])
    BY DEF UsageIsCosts, Resolved
  <2> DEFINE f == [x \in Resolved |-> Costs(x, k, settled[x])]
  <2>1. used[k] = 0 /\ f \in [{} -> Nat]
    BY DEF Init, Resolved
  <2> HIDE DEF f
  <2>2. SumFunction(f) = 0
    BY <2>1, SumEmpty
  <2>3. QED
    BY <2>1, <2>2 DEF f
<1>5. NeverOversold
  <2> SUFFICES ASSUME NEW k \in Key PROVE SumFunction([x \in Execution \ pays |-> Within(x, k)]) <= Limit[k[1]]
    BY DEF NeverOversold
  <2> DEFINE T == Execution \ pays
             f == [x \in T |-> Within(x, k)]
             none == [x \in {} |-> 0]
  <2>1. ASSUME NEW x \in T PROVE Within(x, k) = 0
    <3> DEFINE g == [row \in RowsAt(x, k) |-> Smaller(row.amount, Counted(x, row))]
    <3>1. g \in [{} -> Nat]
      BY DEF Init, RowsAt
    <3> HIDE DEF g
    <3>2. SumFunction(g) = 0
      BY <3>1, SumEmpty
    <3>3. QED
      BY <3>2 DEF g, Within
  <2>2. IsFiniteSet(T) /\ IsFiniteSet({}) /\ f \in [T -> Nat] /\ none \in [{} -> Nat]
    <3>1. IsFiniteSet(T) /\ IsFiniteSet({})
      BY ExecutionType, FS_Subset, FS_EmptySet
    <3>2. f \in [T -> Nat]
      BY <2>1
    <3>3. none \in [{} -> Nat]
      OBVIOUS
    <3>4. QED
      BY <3>1, <3>2, <3>3
  <2>3. \A x \in T : f[x] > 0 => x \in {} /\ f[x] <= none[x]
    BY <2>1
  <2> HIDE DEF T, f, none
  <2>4. SumFunction(f) <= SumFunction(none) /\ SumFunction(none) = 0 /\ SumFunction(f) \in Nat
    BY <2>2, <2>3, SumMonotone, SumEmpty, SumType
  <2>5. SumFunction(f) <= Limit[k[1]]
    BY <2>4, QuotaAssumption DEF Key
  <2>6. QED
    BY <2>5 DEF f, T
<1>6. QED
  BY <1>1, <1>2, <1>3, <1>4, <1>5 DEF Inv

\* Reserve: x had no rows and nobody had claimed it.
LEMMA ReserveInv == ASSUME Inv, NEW x \in Execution, Reserve(x) PROVE Inv'
<1>1. TypeOK /\ (\A y \in Execution : RunInv(y)) /\ (\A r \in Reaper : ReapInv(r)) /\ x \notin held
  BY DEF Inv, Reserve, RunInv
<1>2. Charges(x) \subseteq Row /\ IsFiniteSet(Charges(x))
  BY <1>1, ChargesType
<1>3. TypeOK'
  <2>1. rows' \in [Execution -> SUBSET Row]
    BY <1>1, <1>2 DEF TypeOK, Reserve
  <2>2. held' \subseteq Execution /\ held \subseteq held'
    BY <1>1 DEF TypeOK, Reserve
  <2>3. run' \in [Execution -> RunState]
    BY <1>1 DEF TypeOK, Reserve, RunState
  <2>4. UNCHANGED <<config, day, faults, used, stale, took, settled, reapVars>>
    BY DEF Reserve
  <2>5. claimed' \in [Reaper -> SUBSET held']
    BY <1>1, <2>2, <2>4 DEF TypeOK, reapVars
  <2>6. QED
    BY <1>1, <2>1, <2>2, <2>3, <2>4, <2>5 DEF TypeOK, config, reapVars
<1>4. ASSUME NEW y \in Execution PROVE RunInv(y)'
  <2>1. CASE y = x
    BY <1>1, <1>2, <2>1 DEF Reserve, RunInv, TypeOK
  <2>2. CASE y # x
    BY <1>1, <2>2 DEF Reserve, RunInv, TypeOK
  <2>3. QED
    BY <2>1, <2>2
<1>5. ASSUME NEW r \in Reaper PROVE ReapInv(r)'
  BY <1>1 DEF Reserve, ReapInv, TypeOK, reapVars
<1>6. QED
  BY <1>3, <1>4, <1>5, ReserveCosts, ReserveWithin DEF Inv

\* Submit: x has neither finished nor been asked about.
LEMMA SubmitInv == ASSUME Inv, NEW x \in Execution, Submit(x) PROVE Inv'
<1>1. TypeOK /\ (\A y \in Execution : RunInv(y)) /\ (\A r \in Reaper : ReapInv(r))
  BY DEF Inv
<1>2. UsageIsCosts' /\ NeverOversold'
  BY UsageKept, WithinKept DEF Submit, config
<1>3. TypeOK'
  BY <1>1 DEF TypeOK, Submit, config, reapVars, RunState
<1>4. ASSUME NEW y \in Execution PROVE RunInv(y)'
  BY <1>1 DEF Submit, RunInv, TypeOK
<1>5. ASSUME NEW r \in Reaper PROVE ReapInv(r)'
  BY <1>1 DEF Submit, ReapInv, TypeOK, reapVars
<1>6. QED
  BY <1>2, <1>3, <1>4, <1>5 DEF Inv

\* Finish: x has not been resolved as finished, so how long it took counted nowhere.
LEMMA FinishInv == ASSUME Inv, NEW x \in Execution, Finish(x) PROVE Inv'
<1>1. TypeOK /\ (\A y \in Execution : RunInv(y)) /\ (\A r \in Reaper : ReapInv(r))
  BY DEF Inv
<1>2. \A y \in Execution : settled[y] = "finished" => took'[y] = took[y]
  BY <1>1 DEF Finish, RunInv, TypeOK
<1>3. UsageIsCosts' /\ NeverOversold'
  BY <1>2, UsageKept, WithinKept DEF Finish, config
<1>4. TypeOK'
  BY <1>1 DEF TypeOK, Finish, config, reapVars, RunState
<1>5. ASSUME NEW y \in Execution PROVE RunInv(y)'
  BY <1>1 DEF Finish, RunInv, TypeOK
<1>6. ASSUME NEW r \in Reaper PROVE ReapInv(r)'
  BY <1>1 DEF Finish, ReapInv, TypeOK, reapVars
<1>7. QED
  BY <1>3, <1>4, <1>5, <1>6 DEF Inv

\* Settle: no reaper has claimed x, and it has ended.
LEMMA SettleInv == ASSUME Inv, NEW x \in Execution, Settle(x) PROVE Inv'
<1> DEFINE D == {x}
           done == [y \in D |-> "finished"]
<1>1. TypeOK /\ (\A y \in Execution : RunInv(y)) /\ (\A r \in Reaper : ReapInv(r))
  BY DEF Inv
<1>2. D \in SUBSET Execution /\ done \in [D -> Resolution] /\ SettleQuota(done) /\ UNCHANGED <<rows, took, pays>>
  BY DEF Settle, Resolution, config
<1>3. /\ held' = held \ {x} /\ stale' = stale \ {x}
      /\ settled' = [y \in Execution |-> IF y = x /\ x \in held THEN "finished" ELSE settled[y]]
      /\ run' = [run EXCEPT ![x] = "over"]
      /\ UNCHANGED <<config, day, faults, rows, took, reapVars>>
      /\ \A r \in Reaper : x \notin claimed[r]
  BY DEF Settle, SettleQuota, Locked
<1> HIDE DEF D, done
<1>4. UsageIsCosts' /\ used' \in [Key -> Nat] /\ NeverOversold'
  BY <1>2, SettleCosts, SettleWithin
<1>5. TypeOK'
  BY <1>1, <1>3, <1>4 DEF TypeOK, config, reapVars, RunState
<1>6. ASSUME NEW y \in Execution PROVE RunInv(y)'
  BY <1>1, <1>3 DEF Settle, RunInv, TypeOK
<1>7. ASSUME NEW r \in Reaper PROVE ReapInv(r)'
  BY <1>1, <1>3 DEF ReapInv, TypeOK, reapVars
<1>8. QED
  BY <1>4, <1>5, <1>6, <1>7 DEF Inv

\* SettleFails: the reservation stands.
LEMMA SettleFailsInv == ASSUME Inv, NEW x \in Execution, SettleFails(x) PROVE Inv'
<1>1. TypeOK /\ (\A y \in Execution : RunInv(y)) /\ (\A r \in Reaper : ReapInv(r))
  BY DEF Inv
<1>2. UsageIsCosts' /\ NeverOversold'
  BY UsageKept, WithinKept DEF SettleFails, config
<1>3. TypeOK'
  BY <1>1, BoundAssumption DEF TypeOK, SettleFails, config, reapVars, RunState
<1>4. ASSUME NEW y \in Execution PROVE RunInv(y)'
  BY <1>1 DEF SettleFails, RunInv, TypeOK
<1>5. ASSUME NEW r \in Reaper PROVE ReapInv(r)'
  BY <1>1 DEF SettleFails, ReapInv, TypeOK, reapVars
<1>6. QED
  BY <1>2, <1>3, <1>4, <1>5 DEF Inv

\* GrowStale: x has been submitted or is dead.
LEMMA GrowStaleInv == ASSUME Inv, NEW x \in Execution, GrowStale(x) PROVE Inv'
<1>1. TypeOK /\ (\A y \in Execution : RunInv(y)) /\ (\A r \in Reaper : ReapInv(r))
  BY DEF Inv
<1>2. UsageIsCosts' /\ NeverOversold'
  BY UsageKept, WithinKept DEF GrowStale, config
<1>3. TypeOK'
  BY <1>1 DEF TypeOK, GrowStale, config, reapVars
<1>4. ASSUME NEW y \in Execution PROVE RunInv(y)'
  BY <1>1 DEF GrowStale, RunInv
<1>5. ASSUME NEW r \in Reaper PROVE ReapInv(r)'
  BY <1>1 DEF GrowStale, ReapInv, reapVars
<1>6. QED
  BY <1>2, <1>3, <1>4, <1>5 DEF Inv

\* Claim: what is claimed was stale and locked by nobody.
LEMMA ClaimInv == ASSUME Inv, NEW r \in Reaper, Claim(r) PROVE Inv'
<1>1. TypeOK /\ (\A y \in Execution : RunInv(y)) /\ (\A s \in Reaper : ReapInv(s))
  BY DEF Inv
<1>2. UsageIsCosts' /\ NeverOversold'
  BY UsageKept, WithinKept DEF Claim, config
<1>3. \A s \in Reaper : claimed[s] \cap (stale \ Locked) = {}
  BY DEF Locked
<1>4. claimed' \in [Reaper -> SUBSET held] /\ \A s, t \in Reaper : s # t => claimed'[s] \cap claimed'[t] = {}
  BY <1>1, <1>3 DEF Claim, TypeOK
<1>5. TypeOK'
  BY <1>1, <1>4 DEF TypeOK, Claim, config
<1>6. ASSUME NEW y \in Execution PROVE RunInv(y)'
  BY <1>1 DEF Claim, RunInv
<1>7. ASSUME NEW s \in Reaper PROVE ReapInv(s)'
  BY <1>1 DEF Claim, ReapInv, TypeOK
<1>8. QED
  BY <1>2, <1>5, <1>6, <1>7 DEF Inv

\* Ask: the provider calls finished only what has ended, and that stays so.
LEMMA AskInv == ASSUME Inv, NEW r \in Reaper, NEW x \in Execution, Ask(r, x) PROVE Inv'
<1>1. TypeOK /\ (\A y \in Execution : RunInv(y)) /\ (\A s \in Reaper : ReapInv(s))
  BY DEF Inv
<1>2. UsageIsCosts' /\ NeverOversold'
  BY UsageKept, WithinKept DEF Ask, config
<1>3. x \in claimed[r] /\ run[x] \in RunState \ {"new", "refused", "reserved"}
  BY <1>1 DEF Ask, Pending, ReapInv, RunInv, TypeOK
<1>4. Resolve(x) \subseteq Verdict /\ ("finished" \in Resolve(x) => run[x] \in {"ended", "over"})
  BY <1>3 DEF Resolve, Verdict, RunState
<1>5. PICK v \in Verdict : /\ asked' = [asked EXCEPT ![r][x] = v]
                           /\ v = "finished" => run[x] \in {"ended", "over"}
  BY <1>4 DEF Ask, Verdict
<1>6. faults' \in 0..MaxFaults
  BY <1>1, BoundAssumption DEF Ask, TypeOK
<1>7. /\ asked' \in [Reaper -> [Execution -> Verdict \cup {"unasked"}]]
      /\ \A s \in Reaper, y \in Execution : asked'[s][y] = IF s = r /\ y = x THEN v ELSE asked[s][y]
  BY <1>1, <1>5 DEF TypeOK
<1>8. UNCHANGED <<config, day, used, rows, held, stale, run, took, settled, claimed>>
  BY DEF Ask
<1>9. TypeOK'
  BY <1>1, <1>6, <1>7, <1>8 DEF TypeOK, config
<1>10. ASSUME NEW y \in Execution PROVE RunInv(y)'
  BY <1>1, <1>8 DEF RunInv
<1>11. ASSUME NEW s \in Reaper PROVE ReapInv(s)'
  BY <1>1, <1>3, <1>5, <1>7, <1>8 DEF ReapInv
<1>12. QED
  BY <1>2, <1>9, <1>10, <1>11 DEF Inv

\* Commit: every verdict but keep resolves a row that is still there.
LEMMA CommitInv == ASSUME Inv, NEW r \in Reaper, Commit(r) PROVE Inv'
<1> DEFINE D == {y \in claimed[r] : asked[r][y] # "keep"}
           done == [y \in D |-> asked[r][y]]
<1>1. TypeOK /\ (\A y \in Execution : RunInv(y)) /\ (\A s \in Reaper : ReapInv(s))
  BY DEF Inv
<1>2. D \in SUBSET Execution /\ D \subseteq held /\ \A y \in D : asked[r][y] \in Resolution
  BY <1>1 DEF Commit, Pending, TypeOK, Verdict, Resolution
<1>3. done \in [D -> Resolution] /\ SettleQuota(done) /\ UNCHANGED <<rows, took, pays>>
  BY <1>2 DEF Commit, config
<1>4. /\ held' = held \ D /\ stale' = stale \ D
      /\ settled' = [y \in Execution |-> IF y \in D THEN asked[r][y] ELSE settled[y]]
      /\ claimed' = [claimed EXCEPT ![r] = {}] /\ asked' = [asked EXCEPT ![r] = Unasked]
      /\ UNCHANGED <<config, day, faults, rows, run, took>>
  BY <1>2 DEF Commit, SettleQuota, Unlock
<1>5. \A s \in Reaper \ {r} : claimed[s] \cap D = {}
  BY <1>1 DEF TypeOK
<1>6. \A y \in D : asked[r][y] = "finished" => run[y] \in {"ended", "over"}
  BY <1>1, <1>2 DEF ReapInv
<1> HIDE DEF D, done
<1>7. UsageIsCosts' /\ used' \in [Key -> Nat] /\ NeverOversold'
  BY <1>2, <1>3, SettleCosts, SettleWithin
<1>8. /\ claimed' \in [Reaper -> SUBSET held']
      /\ \A s, t \in Reaper : s # t => claimed'[s] \cap claimed'[t] = {}
  BY <1>1, <1>4, <1>5 DEF TypeOK
<1>9. asked' \in [Reaper -> [Execution -> Verdict \cup {"unasked"}]]
  BY <1>1, <1>4 DEF TypeOK, Unasked
<1>10. settled' \in [Execution -> {"no", "drop", "finished", "stand"}]
  BY <1>1, <1>2, <1>4 DEF TypeOK, Resolution
<1>11. TypeOK'
  BY <1>1, <1>4, <1>7, <1>8, <1>9, <1>10 DEF TypeOK, config
<1>12. ASSUME NEW y \in Execution PROVE RunInv(y)'
  BY <1>1, <1>2, <1>4, <1>6 DEF RunInv, TypeOK, Resolution
<1>13. ASSUME NEW s \in Reaper PROVE ReapInv(s)'
  BY <1>1, <1>4, <1>5 DEF ReapInv, TypeOK, Unasked
<1>14. QED
  BY <1>7, <1>11, <1>12, <1>13 DEF Inv

\* Abort: nothing is written.
LEMMA AbortInv == ASSUME Inv, NEW r \in Reaper, Abort(r) PROVE Inv'
<1>1. TypeOK /\ (\A y \in Execution : RunInv(y)) /\ (\A s \in Reaper : ReapInv(s))
  BY DEF Inv
<1>2. UsageIsCosts' /\ NeverOversold'
  BY UsageKept, WithinKept DEF Abort, config
<1>3. TypeOK'
  BY <1>1, BoundAssumption DEF TypeOK, Abort, Unlock, config, Unasked
<1>4. ASSUME NEW y \in Execution PROVE RunInv(y)'
  BY <1>1 DEF Abort, RunInv
<1>5. ASSUME NEW s \in Reaper PROVE ReapInv(s)'
  BY <1>1 DEF Abort, Unlock, ReapInv, TypeOK, Unasked
<1>6. QED
  BY <1>2, <1>3, <1>4, <1>5 DEF Inv

\* NextDay: rows keep the periods they were made in.
LEMMA NextDayInv == ASSUME Inv, NextDay PROVE Inv'
<1>1. TypeOK /\ (\A y \in Execution : RunInv(y)) /\ (\A r \in Reaper : ReapInv(r))
  BY DEF Inv
<1>2. UsageIsCosts' /\ NeverOversold'
  BY UsageKept, WithinKept DEF NextDay, config
<1>3. TypeOK'
  BY <1>1, BoundAssumption DEF TypeOK, NextDay, config, reapVars, Day
<1>4. ASSUME NEW y \in Execution PROVE RunInv(y)'
  BY <1>1 DEF NextDay, RunInv
<1>5. ASSUME NEW r \in Reaper PROVE ReapInv(r)'
  BY <1>1 DEF NextDay, ReapInv, reapVars
<1>6. QED
  BY <1>2, <1>3, <1>4, <1>5 DEF Inv

\* Every step keeps the invariant.
LEMMA InvNext == ASSUME Inv, [Next]_vars PROVE Inv'
<1>1. CASE UNCHANGED vars
  <2>1. UsageIsCosts' /\ NeverOversold'
    BY <1>1, UsageKept, WithinKept DEF vars, config
  <2>2. TypeOK' /\ (\A y \in Execution : RunInv(y)') /\ (\A r \in Reaper : ReapInv(r)')
    BY <1>1 DEF Inv, vars, config, TypeOK, RunInv, ReapInv
  <2>3. QED
    BY <2>1, <2>2 DEF Inv
<1>2. CASE Next
  BY <1>2, ReserveInv, SubmitInv, FinishInv, SettleInv, SettleFailsInv, GrowStaleInv, ClaimInv,
     AskInv, CommitInv, AbortInv, NextDayInv DEF Next
<1>3. QED
  BY <1>1, <1>2

\* The invariant holds in every state the ledger reaches.
LEMMA InvAlways == Spec => []Inv
<1>1. Init => Inv
  BY InvInit
<1>2. Inv /\ [Next]_vars => Inv'
  BY InvNext
<1>3. QED
  BY <1>1, <1>2, PTL DEF Spec

-----------------------------------------------------------------------------
\* The theorems.

\* Every variable keeps to its type and no reservation is locked by two reapers
\* at once, which the SKIP LOCKED of the claim is for.
THEOREM TypeCorrect == Spec => []TypeOK
<1>1. Inv => TypeOK
  BY DEF Inv
<1>2. QED
  BY <1>1, InvAlways, PTL

\* Every execution is counted once in each of its pools, at what it cost and in
\* the period it reserved in, whoever settled it.
THEOREM UsageIsCostsAlways == Spec => []UsageIsCosts
<1>1. Inv => UsageIsCosts
  BY DEF Inv
<1>2. QED
  BY <1>1, InvAlways, PTL

\* Admission by what stands keeps every pool within its limit, whatever settles
\* and reserves in between.
THEOREM NeverOversoldAlways == Spec => []NeverOversold
<1>1. Inv => NeverOversold
  BY DEF Inv
<1>2. QED
  BY <1>1, InvAlways, PTL

=============================================================================
