--------------------------- MODULE BaseMatrixProofs ---------------------------
(***************************************************************************)
(* That the matrix of a problem has the times of its data: for all nodes,  *)
(* rows and factors, and although sums with Infinity overflow.             *)
(***************************************************************************)
EXTENDS BaseMatrix, FiniteSetTheorems, WellFoundedInduction, TLAPS

(***************************************************************************)
(* Natural numbers and functions defined by recursion over them: a set of  *)
(* them has a least number, as the front of a std::set, and what takes n   *)
(* steps exists.                                                           *)
(***************************************************************************)

\* A set of natural numbers that is not empty has a least element: the front
\* of a std::set.  The strict subset ordering of the intervals 1..n is well
\* founded, and it orders them as their bounds.
LEMMA LeastNatural ==
  ASSUME NEW S \in SUBSET Nat, S # {}
  PROVE  \E x \in S : \A y \in S : x <= y
<1> DEFINE Intervals == {1..n : n \in S}
<1>1. Intervals \subseteq FiniteSubsetsOf(Nat) /\ Intervals # {}
  <2>1. \A n \in S : 1..n \in SUBSET Nat /\ IsFiniteSet(1..n)
    BY FS_Interval
  <2>2. QED
    BY <2>1 DEF FiniteSubsetsOf
<1>2. PICK I \in Intervals :
        \A J \in Intervals : <<J, I>> \notin StrictSubsetOrdering(Nat)
  BY <1>1, FS_StrictSubsetOrderingWellFounded, WFMin
<1>3. PICK x \in S : I = 1..x
  OBVIOUS
<1>4. ASSUME NEW y \in S, y < x
      PROVE  FALSE
  <2>1. 1..y \subseteq 1..x /\ x \in 1..x /\ x \notin 1..y
    BY <1>4
  <2>2. 1..y \in SUBSET Nat /\ 1..x \in SUBSET Nat
    BY <1>4
  <2>3. <<1..y, 1..x>> \in StrictSubsetOrdering(Nat)
    BY <2>1, <2>2 DEF StrictSubsetOrdering
  <2>4. QED
    BY <1>2, <1>3, <2>3
<1>5. QED
  BY <1>4

\* The least element of a set of naturals.
LEMMA MinIsMember ==
  ASSUME NEW S \in SUBSET Nat, S # {}
  PROVE  Min(S) \in S /\ \A x \in S : Min(S) <= x
  BY LeastNatural DEF Min

\* Of numbers that have a bound there is a greatest one.
LEMMA MaxIsMember ==
  ASSUME NEW S \in SUBSET Nat, S # {}, NEW n \in Nat, \A x \in S : x <= n
  PROVE  Max(S) \in S /\ \A x \in S : x <= Max(S)
<1> DEFINE Below == {n - x : x \in S}
<1>1. Below \in SUBSET Nat /\ Below # {}
  <2>1. \A x \in S : n - x \in Nat
    OBVIOUS
  <2>2. Below # {}
    OBVIOUS
  <2>3. QED
    BY <2>1, <2>2
<1>2. PICK d \in Below : \A e \in Below : d <= e
  <2> HIDE DEF Below
  <2>1. QED
    BY <1>1, LeastNatural
<1>3. PICK x \in S : d = n - x
  BY <1>2
<1>4. ASSUME NEW y \in S
      PROVE  y <= x /\ x >= y
  <2>1. n - y \in Below
    OBVIOUS
  <2>2. n - x <= n - y
    BY <1>2, <1>3, <2>1
  <2>3. QED
    BY <2>2
<1>5. Max(S) \in S /\ \A y \in S : Max(S) >= y
  BY <1>4 DEF Max
<1>6. QED
  BY <1>5

\* A set of naturals that has 0 and, with each number below n, the next one.
LEMMA Upward ==
  ASSUME NEW n \in Nat, NEW G, 0 \in G, \A k \in 1..n : k - 1 \in G => k \in G
  PROVE  \A k \in 0..n : k \in G
<1> DEFINE Out == {k \in Nat : k \in 0..n /\ k \notin G}
<1>1. ASSUME Out # {}
      PROVE  FALSE
  <2>1. PICK k \in Out : \A l \in Out : k <= l
    <3>1. Out \in SUBSET Nat
      OBVIOUS
    <3> HIDE DEF Out
    <3>2. QED
      BY <1>1, <3>1, LeastNatural
  <2>2. k \in 1..n /\ k \notin G
    OBVIOUS
  <2>3. k - 1 \in Nat /\ k - 1 \in 0..n /\ ~(k <= k - 1)
    BY <2>2
  <2>4. k - 1 \in G
    BY <2>1, <2>3
  <2>5. QED
    BY <2>2, <2>4
<1>2. QED
  BY <1>1

\* The function f has the results of n steps from base.
Computed(n, base, step, f) ==
  f = [k \in 0..n |-> IF k = 0 THEN base ELSE step[<<f[k - 1], k>>]]

\* The function that n steps from base compute exists, and its values are in
\* the sets that the steps lead to.
LEMMA StepsExist ==
  ASSUME NEW n \in Nat, NEW G, NEW base, base \in G[0], NEW step,
         \A k \in 1..n : \A x \in G[k - 1] : step[<<x, k>>] \in G[k]
  PROVE  \E f : Computed(n, base, step, f) /\ \A k \in 0..n : f[k] \in G[k]
<1> DEFINE After(x, k) == step[<<x, k>>]
           Computes(f, m) == f = [k \in 0..m |-> IF k = 0 THEN base ELSE After(f[k - 1], k)]
           Reached == {m \in 0..n : \E f : Computes(f, m)}
<1>0. \A k \in 1..n : \A x \in G[k - 1] : After(x, k) \in G[k]
  OBVIOUS
<1> HIDE DEF After
<1>1. 0 \in Reached
  <2> DEFINE f == [k \in 0..0 |-> base]
  <2>1. f = [k \in 0..0 |-> IF k = 0 THEN base ELSE After(f[k - 1], k)]
    <3>1. \A k \in 0..0 : f[k] = IF k = 0 THEN base ELSE After(f[k - 1], k)
      OBVIOUS
    <3>2. QED
      BY <3>1
  <2>2. Computes(f, 0) /\ 0 \in 0..n
    BY <2>1
  <2>3. QED
    BY <2>2
<1>2. ASSUME NEW m \in 1..n, m - 1 \in Reached
      PROVE  m \in Reached
  <2>1. PICK f : Computes(f, m - 1)
    BY <1>2
  <2>2. m \in Nat /\ m - 1 \in Nat /\ m \in 0..n
    OBVIOUS
  <2> DEFINE g == [k \in 0..m |-> IF k < m THEN f[k] ELSE After(f[m - 1], m)]
  <2>3. \A k \in 0..m : k > 0 => g[k - 1] = f[k - 1]
    BY <2>2
  <2>4. \A k \in 0..m : k < m => f[k] = IF k = 0 THEN base ELSE After(f[k - 1], k)
    BY <2>1, <2>2
  <2>5. \A k \in 0..m : g[k] = IF k = 0 THEN base ELSE After(g[k - 1], k)
    <3>1. \A k \in 0..m : g[k] = IF k < m THEN f[k] ELSE After(f[m - 1], m)
      OBVIOUS
    <3> HIDE DEF g
    <3>2. ASSUME NEW k \in 0..m
          PROVE  g[k] = IF k = 0 THEN base ELSE After(g[k - 1], k)
      <4>1. CASE k < m
        BY <2>3, <2>4, <3>1, <4>1
      <4>2. CASE k = m
        BY <2>2, <2>3, <3>1, <4>2
      <4>3. QED
        BY <2>2, <4>1, <4>2
    <3>3. QED
      BY <3>2
  <2>6. Computes(g, m)
    BY <2>5
  <2>7. QED
    BY <2>2, <2>6
<1>3. n \in Reached
  <2> HIDE DEF Reached
  <2>1. \A k \in 0..n : k \in Reached
    BY <1>1, <1>2, Upward
  <2>2. QED
    BY <2>1
<1>4. PICK f : Computes(f, n)
  BY <1>3
<1>5. \A k \in 0..n : f[k] \in G[k]
  <2>1. \A k \in 0..n : f[k] = IF k = 0 THEN base ELSE After(f[k - 1], k)
    BY <1>4
  <2> HIDE DEF Computes
  <2> DEFINE Right == {k \in 0..n : f[k] \in G[k]}
  <2>2. 0 \in Right
    BY <2>1
  <2>3. ASSUME NEW k \in 1..n, k - 1 \in Right
        PROVE  k \in Right
    <3>1. k \in 0..n /\ k # 0 /\ f[k - 1] \in G[k - 1]
      BY <2>3
    <3>2. QED
      BY <1>0, <2>1, <3>1
  <2> HIDE DEF Right
  <2>4. \A k \in 0..n : k \in Right
    BY <2>2, <2>3, Upward
  <2>5. QED
    BY <2>4 DEF Right
<1>6. QED
  BY <1>4, <1>5 DEF After, Computed

-----------------------------------------------------------------------------

Times == -(Infinity + 1)..Infinity
Matrices == [Selected -> [Selected -> Times]]

\* A sum that wraps is a value of its width.
LEMMA PlusIsATime ==
  ASSUME NEW a \in Times, NEW b \in Times
  PROVE  Plus(a, b) \in Times
  BY BaseMatrixAssumption DEF Plus, Wrapped, Times

\* Every time of a row is finite.
LEMMA TimeIsFinite ==
  ASSUME TypeOK, NEW k \in DOMAIN data_costs
  PROVE  /\ data_costs[k] \in [from_vid : Nat, to_vid : Nat, cost : Nat]
         /\ Time(k) \in Times /\ 0 <= Time(k) /\ Time(k) < Infinity
<1>1. data_costs \in Data /\ factor \in Factors
  BY DEF TypeOK
<1> DEFINE Row == [from_vid : Nat, to_vid : Nat, cost : Nat]
<1>2. data_costs \in Seq(Row)
  BY <1>1, BaseMatrixAssumption
<1>3. data_costs[k] \in Row
  <2> HIDE DEF Row
  <2>1. QED
    BY <1>2
<1>4. (data_costs[k].cost * factor) \div FactorUnit < Infinity
  BY <1>1, BaseMatrixAssumption
<1>5. \A n \in Nat : n \div FactorUnit \in Nat
  BY BaseMatrixAssumption
<1>6. data_costs[k].cost * factor \in Nat
  <2>1. data_costs[k].cost \in Nat /\ factor \in Nat
    BY <1>1, <1>3, BaseMatrixAssumption
  <2>2. QED
    BY <2>1
<1>7. Time(k) \in Nat /\ Time(k) < Infinity
  BY <1>4, <1>5, <1>6 DEF Time, Scaled
<1>8. QED
  BY <1>3, <1>7, BaseMatrixAssumption DEF Times

\* What the constructor writes for a row: the cell, and the opposite one if it
\* has no time.
LEMMA FilledCells ==
  ASSUME NEW m \in Matrices, NEW i \in Selected, NEW j \in Selected, NEW time \in Times
  PROVE  /\ Filled(m, i, j, time) \in Matrices
         /\ \A a, b \in Selected :
              Filled(m, i, j, time)[a][b] =
                IF a = i /\ b = j THEN time
                ELSE IF a = j /\ b = i /\ m[j][i] = Infinity THEN time ELSE m[a][b]
<1> DEFINE w == [m EXCEPT ![i][j] = time]
<1>1. /\ w \in Matrices
      /\ \A a, b \in Selected : w[a][b] = IF a = i /\ b = j THEN time ELSE m[a][b]
  BY DEF Matrices
<1> HIDE DEF w
<1>2. /\ [w EXCEPT ![j][i] = time] \in Matrices
      /\ \A a, b \in Selected :
           [w EXCEPT ![j][i] = time][a][b] = IF a = j /\ b = i THEN time ELSE w[a][b]
  BY <1>1 DEF Matrices
<1>3. Filled(m, i, j, time) = IF w[j][i] = Infinity THEN [w EXCEPT ![j][i] = time] ELSE w
  BY DEF Filled, w
<1>4. QED
  BY <1>1, <1>2, <1>3

-----------------------------------------------------------------------------
(* The cells are filled as the rows say.                                   *)

\* The rows read so far, and what they give for two nodes.
ReadFor(i, j) == {k \in RowsFor(i, j) : k <= read}

GivenSoFar(i, j) ==
  CASE ReadFor(i, j) # {} -> Time(Max(ReadFor(i, j)))
    [] ReadFor(i, j) = {} /\ ReadFor(j, i) # {} -> Time(Min(ReadFor(j, i)))
    [] OTHER -> Infinity

FillInv ==
  /\ pc = "fill" =>
       /\ depth = 0
       /\ \A i, j \in Selected : i # j => m_time_matrix[i][j] = GivenSoFar(i, j)
  /\ pc # "fill" /\ depth = 0 => \A i, j \in Selected : m_time_matrix[i][j] = Given(i, j)

IInv == TypeOK /\ FillInv

\* The rows for a cell are numbered, and so are those read so far.
LEMMA RowsAreNumbers ==
  ASSUME TypeOK
  PROVE  /\ Len(data_costs) \in Nat /\ DOMAIN data_costs = 1..Len(data_costs)
         /\ \A i, j : RowsFor(i, j) \in SUBSET Nat /\ ReadFor(i, j) \in SUBSET Nat
         /\ \A i, j : \A k \in RowsFor(i, j) : k <= Len(data_costs)
<1>1. data_costs \in Seq([from_vid : Nat, to_vid : Nat, cost : Nat])
  BY BaseMatrixAssumption DEF TypeOK
<1>2. Len(data_costs) \in Nat /\ DOMAIN data_costs = 1..Len(data_costs)
  BY <1>1
<1>3. QED
  BY <1>2 DEF RowsFor, ReadFor

\* A cell that was given a time is not infinite.
LEMMA GivenIsFinite ==
  ASSUME TypeOK, read \in Nat, NEW i \in Selected, NEW j \in Selected
  PROVE  /\ GivenSoFar(i, j) \in Times /\ Given(i, j) \in Times
         /\ 0 <= GivenSoFar(i, j) /\ 0 <= Given(i, j)
         /\ GivenSoFar(i, j) = Infinity <=> ReadFor(i, j) = {} /\ ReadFor(j, i) = {}
<1>1. Infinity \in Times /\ 0 \in Times /\ 0 <= Infinity
  BY BaseMatrixAssumption DEF Times
<1>2. ASSUME NEW a, NEW b
      PROVE  /\ ReadFor(a, b) # {} => /\ Max(ReadFor(a, b)) \in DOMAIN data_costs
                                      /\ Min(ReadFor(a, b)) \in DOMAIN data_costs
             /\ RowsFor(a, b) # {} => /\ Max(RowsFor(a, b)) \in DOMAIN data_costs
                                      /\ Min(RowsFor(a, b)) \in DOMAIN data_costs
  <2>1. ReadFor(a, b) \subseteq RowsFor(a, b) /\ RowsFor(a, b) \subseteq DOMAIN data_costs
    BY DEF ReadFor, RowsFor
  <2>2. \A x \in ReadFor(a, b) : x <= read
    BY DEF ReadFor
  <2>3. ReadFor(a, b) # {} => Max(ReadFor(a, b)) \in ReadFor(a, b) /\ Min(ReadFor(a, b)) \in ReadFor(a, b)
    BY <2>2, RowsAreNumbers, MinIsMember, MaxIsMember
  <2>4. RowsFor(a, b) # {} => Max(RowsFor(a, b)) \in RowsFor(a, b) /\ Min(RowsFor(a, b)) \in RowsFor(a, b)
    BY RowsAreNumbers, MinIsMember, MaxIsMember
  <2>5. QED
    BY <2>1, <2>3, <2>4
<1>3. \A k \in DOMAIN data_costs : Time(k) \in Times /\ 0 <= Time(k) /\ Time(k) < Infinity
  BY TimeIsFinite
<1>4. QED
  BY <1>1, <1>2, <1>3, BaseMatrixAssumption DEF GivenSoFar, Given

\* At the start no row was read.
LEMMA InitFills == Init => IInv
<1> SUFFICES ASSUME Init PROVE IInv
  OBVIOUS
<1>1. Infinity \in -(Infinity + 1)..Infinity
  BY BaseMatrixAssumption
<1>2. Len(data_costs) \in Nat
  BY BaseMatrixAssumption DEF Init
<1>3. Cardinality(Selected) \in Nat
  BY BaseMatrixAssumption, FS_CardinalityType
<1>4. TypeOK
  BY <1>1, <1>2, <1>3 DEF Init, TypeOK, NoData
<1>5. \A i, j : ReadFor(i, j) = {}
  BY <1>2, <1>4, RowsAreNumbers DEF Init, ReadFor, RowsFor
<1>6. FillInv
  BY <1>5 DEF Init, FillInv, GivenSoFar, NoData
<1>7. QED
  BY <1>4, <1>6 DEF IInv

\* A row changes what is given for its nodes, in the one direction or both.
LEMMA ReadCellFills ==
  ASSUME IInv, ReadCell
  PROVE  IInv'
<1> DEFINE k == read + 1
           i == data_costs[k].from_vid
           j == data_costs[k].to_vid
           time == Scaled(data_costs[k].cost)
<1> USE DEF IInv
<1>1. /\ pc = "fill" /\ pc' = "fill" /\ depth = 0 /\ read' = k
      /\ read \in Nat /\ k \in Nat /\ k \in DOMAIN data_costs
      /\ UNCHANGED <<data_costs, factor, check_triangle, depth>>
  BY RowsAreNumbers DEF ReadCell, TypeOK, arguments, FillInv
<1>2. m_time_matrix' = IF {i, j} \subseteq Selected
                       THEN Filled(m_time_matrix, i, j, time) ELSE m_time_matrix
  BY DEF ReadCell
<1>3. /\ Time(k) = time /\ time \in Times /\ 0 <= time /\ time < Infinity
      /\ i \in Nat /\ j \in Nat
  BY <1>1, TimeIsFinite DEF Time
<1>4. m_time_matrix \in Matrices
  BY DEF TypeOK, Matrices, Times
<1>5. m_time_matrix' \in Matrices
  BY <1>2, <1>3, <1>4, FilledCells
<1>6. TypeOK'
  <2>1. read' \in 0..Len(data_costs')
    BY <1>1, RowsAreNumbers
  <2>2. QED
    BY <1>1, <1>5, <2>1 DEF TypeOK, Matrices, Times
<1> HIDE DEF k, i, j, time
<1>7. \A a, b : Time(a)' = Time(a) /\ RowsFor(a, b)' = RowsFor(a, b)
  BY <1>1 DEF Time, Scaled, RowsFor
<1>8. \A a, b : ReadFor(a, b)' = ReadFor(a, b) \cup (IF a = i /\ b = j THEN {k} ELSE {})
  <2> TAKE a, b
  <2>1. ReadFor(a, b)' = {x \in RowsFor(a, b) : x <= k}
    BY <1>1, <1>7 DEF ReadFor
  <2>2. \A x \in RowsFor(a, b) : x <= k <=> x <= read \/ x = k
    BY <1>1, RowsAreNumbers DEF k
  <2>3. k \in RowsFor(a, b) <=> a = i /\ b = j
    BY <1>1 DEF RowsFor, i, j
  <2>4. QED
    BY <2>1, <2>2, <2>3 DEF ReadFor
<1>9. \A a, b : ReadFor(a, b) \in SUBSET Nat /\ \A x \in ReadFor(a, b) : x <= read /\ x < k
  BY <1>1, RowsAreNumbers DEF ReadFor, k
<1>10. ASSUME NEW a \in Selected, NEW b \in Selected, a # b
       PROVE  m_time_matrix'[a][b] = GivenSoFar(a, b)'
  <2>1. m_time_matrix[a][b] = GivenSoFar(a, b) /\ m_time_matrix[b][a] = GivenSoFar(b, a)
    BY <1>1, <1>10 DEF FillInv
  <2>2. CASE a = i /\ b = j
    <3>1. m_time_matrix'[a][b] = time
      BY <1>2, <1>3, <1>4, <2>2, FilledCells
    <3>2. ReadFor(a, b)' = ReadFor(a, b) \cup {k}
      BY <1>8, <2>2
    <3>3. Max(ReadFor(a, b)') = k
      <4>1. ReadFor(a, b)' \in SUBSET Nat /\ k \in ReadFor(a, b)' /\ \A x \in ReadFor(a, b)' : x <= k
        BY <1>1, <1>9, <3>2
      <4>2. Max(ReadFor(a, b)') \in ReadFor(a, b)' /\ k <= Max(ReadFor(a, b)')
        BY <1>1, <4>1, MaxIsMember
      <4>3. QED
        BY <1>1, <4>1, <4>2
    <3>4. GivenSoFar(a, b)' = Time(k)
      BY <1>7, <3>2, <3>3 DEF GivenSoFar
    <3>5. QED
      BY <1>3, <1>7, <3>1, <3>4
  <2>3. CASE a = j /\ b = i
    <3>1. m_time_matrix'[a][b] = IF m_time_matrix[a][b] = Infinity THEN time ELSE m_time_matrix[a][b]
      BY <1>2, <1>3, <1>4, <1>10, <2>3, FilledCells
    <3>2. ReadFor(a, b)' = ReadFor(a, b) /\ ReadFor(b, a)' = ReadFor(b, a) \cup {k}
      BY <1>8, <1>10, <2>3
    <3>3. CASE ReadFor(a, b) # {}
      <4>1. m_time_matrix[a][b] # Infinity
        BY <1>1, <2>1, <3>3, GivenIsFinite
      <4>2. GivenSoFar(a, b)' = GivenSoFar(a, b)
        BY <1>7, <3>2, <3>3 DEF GivenSoFar
      <4>3. QED
        BY <2>1, <3>1, <4>1, <4>2
    <3>4. CASE ReadFor(a, b) = {} /\ ReadFor(b, a) # {}
      <4>1. m_time_matrix[a][b] # Infinity
        BY <1>1, <2>1, <3>4, GivenIsFinite
      <4>2. Min(ReadFor(b, a)') = Min(ReadFor(b, a))
        <5>1. Min(ReadFor(b, a)) \in ReadFor(b, a) /\ \A x \in ReadFor(b, a) : Min(ReadFor(b, a)) <= x
          BY <1>9, <3>4, MinIsMember
        <5>2. /\ Min(ReadFor(b, a)') \in ReadFor(b, a)'
              /\ \A x \in ReadFor(b, a)' : Min(ReadFor(b, a)') <= x
          BY <1>1, <1>9, <3>2, MinIsMember
        <5>3. Min(ReadFor(b, a)) < k /\ Min(ReadFor(b, a)) \in Nat
          BY <1>9, <5>1
        <5>4. Min(ReadFor(b, a)') \in ReadFor(b, a)
          BY <1>1, <3>2, <5>1, <5>2, <5>3
        <5>5. QED
          BY <1>9, <3>2, <5>1, <5>2, <5>4
      <4>3. GivenSoFar(a, b)' = GivenSoFar(a, b)
        BY <1>7, <3>2, <3>4, <4>2 DEF GivenSoFar
      <4>4. QED
        BY <2>1, <3>1, <4>1, <4>3
    <3>5. CASE ReadFor(a, b) = {} /\ ReadFor(b, a) = {}
      <4>1. m_time_matrix[a][b] = Infinity
        BY <1>1, <2>1, <3>5, GivenIsFinite
      <4>2. ReadFor(b, a)' = {k} /\ ReadFor(a, b)' = {}
        BY <3>2, <3>5
      <4>3. Min(ReadFor(b, a)') = k
        BY <1>1, <4>2, MinIsMember
      <4>4. GivenSoFar(a, b)' = Time(k)
        BY <1>7, <4>2, <4>3 DEF GivenSoFar
      <4>5. QED
        BY <1>3, <1>7, <3>1, <4>1, <4>4
    <3>6. QED
      BY <3>3, <3>4, <3>5
  <2>4. CASE ~(a = i /\ b = j) /\ ~(a = j /\ b = i)
    <3>1. m_time_matrix'[a][b] = m_time_matrix[a][b]
      <4>1. CASE {i, j} \subseteq Selected
        <5>1. m_time_matrix' = Filled(m_time_matrix, i, j, time) /\ i \in Selected /\ j \in Selected
          BY <1>2, <4>1
        <5>2. QED
          BY <1>3, <1>4, <2>4, <5>1, FilledCells, SMTT(60)
      <4>2. CASE ~({i, j} \subseteq Selected)
        BY <1>2, <4>2
      <4>3. QED
        BY <4>1, <4>2
    <3>2. ReadFor(a, b)' = ReadFor(a, b) /\ ReadFor(b, a)' = ReadFor(b, a)
      BY <1>8, <2>4
    <3>3. GivenSoFar(a, b)' = GivenSoFar(a, b)
      BY <1>7, <3>2 DEF GivenSoFar
    <3>4. QED
      BY <2>1, <3>1, <3>3
  <2>5. QED
    BY <2>2, <2>3, <2>4
<1>11. FillInv'
  BY <1>1, <1>10 DEF FillInv
<1>12. QED
  BY <1>6, <1>11

\* When all the rows are read, what they give is what they stand for.
LEMMA SetDiagonalFills ==
  ASSUME IInv, SetDiagonal
  PROVE  IInv'
<1> USE DEF IInv
<1>1. /\ pc = "fill" /\ pc' \in {"repair", "verify"} /\ depth = 0 /\ depth' = 0
      /\ read = Len(data_costs) /\ UNCHANGED <<data_costs, factor, check_triangle, read>>
      /\ m_time_matrix' = [i \in Selected |-> [m_time_matrix[i] EXCEPT ![i] = 0]]
  BY DEF SetDiagonal, arguments, FillInv
<1>2. m_time_matrix \in Matrices /\ 0 \in Times
  BY BaseMatrixAssumption DEF TypeOK, Matrices, Times
<1>3. /\ m_time_matrix' \in Matrices
      /\ \A i, j \in Selected :
           m_time_matrix'[i][j] = IF i = j THEN 0 ELSE m_time_matrix[i][j]
  BY <1>1, <1>2 DEF Matrices
<1>4. TypeOK'
  BY <1>1, <1>3 DEF TypeOK, Matrices, Times
<1>5. \A i, j : ReadFor(i, j) = RowsFor(i, j)
  BY <1>1, RowsAreNumbers DEF ReadFor
<1>6. \A i, j \in Selected : i # j => GivenSoFar(i, j) = Given(i, j)
  BY <1>5 DEF GivenSoFar, Given
<1>7. \A i, j \in Selected : Given(i, j)' = Given(i, j)
  BY <1>1 DEF Given, RowsFor, Time, Scaled
<1>8. \A i, j \in Selected : m_time_matrix'[i][j] = Given(i, j)'
  <2>1. \A i \in Selected : Given(i, i) = 0
    BY DEF Given
  <2>2. QED
    BY <1>1, <1>3, <1>6, <1>7, <2>1 DEF FillInv
<1>9. FillInv'
  BY <1>1, <1>8 DEF FillInv
<1>10. QED
  BY <1>4, <1>9

-----------------------------------------------------------------------------
(* The repairs.                                                            *)

\* Of the triples that break the inequality there is a first one.
LEMMA FirstBrokenIsFirst ==
  ASSUME NEW m, Broken(m) # {}
  PROVE  /\ FirstBroken(m) \in Broken(m)
         /\ \A t \in Broken(m) \ {FirstBroken(m)} : Precedes(FirstBroken(m), t)
<1> DEFINE B == Broken(m)
           Firsts == {t[1] : t \in B}
<1>1. B \subseteq Nat \X Nat \X Nat
  BY BaseMatrixAssumption DEF Broken
<1> HIDE DEF B
<1>2. PICK a \in Firsts : \A x \in Firsts : a <= x
  <2>1. Firsts \in SUBSET Nat /\ Firsts # {}
    BY <1>1 DEF B
  <2> HIDE DEF Firsts
  <2>2. QED
    BY <2>1, LeastNatural
<1> DEFINE Seconds == {t[2] : t \in {u \in B : u[1] = a}}
<1>3. PICK b \in Seconds : \A x \in Seconds : b <= x
  <2>1. Seconds \in SUBSET Nat /\ Seconds # {}
    BY <1>1
  <2> HIDE DEF Seconds
  <2>2. QED
    BY <2>1, LeastNatural
<1> DEFINE Thirds == {t[3] : t \in {u \in B : u[1] = a /\ u[2] = b}}
<1>4. PICK c \in Thirds : \A x \in Thirds : c <= x
  <2>1. Thirds \in SUBSET Nat /\ Thirds # {}
    BY <1>1
  <2> HIDE DEF Thirds
  <2>2. QED
    BY <2>1, LeastNatural
<1>5. PICK t \in B : t[1] = a /\ t[2] = b /\ t[3] = c
  OBVIOUS
<1>6. ASSUME NEW u \in B, u # t
      PROVE  Precedes(t, u)
  <2>1. u[1] \in Nat /\ u[2] \in Nat /\ u[3] \in Nat /\ a \in Nat /\ b \in Nat /\ c \in Nat
    BY <1>1, <1>5
  <2>2. u[1] # a \/ u[2] # b \/ u[3] # c
    BY <1>1, <1>5, <1>6
  <2>3. /\ a <= u[1]
        /\ u[1] = a => b <= u[2]
        /\ u[1] = a /\ u[2] = b => c <= u[3]
    BY <1>2, <1>3, <1>4
  <2>4. QED
    BY <1>5, <2>1, <2>2, <2>3 DEF Precedes
<1>7. QED
  BY <1>6 DEF FirstBroken, B

\* A repair writes one cell, with the sum the build computes.
LEMMA DetourWritesACell ==
  ASSUME NEW m \in Matrices, Broken(m) # {}, NEW t, t = FirstBroken(m)
  PROVE  /\ t \in Selected \X Selected \X Selected
         /\ Plus(m[t[1]][t[2]], m[t[2]][t[3]]) \in Times
         /\ Detour(m, t) \in Matrices
         /\ \A a, b \in Selected :
              Detour(m, t)[a][b] =
                IF a = t[1] /\ b = t[3] THEN Plus(m[t[1]][t[2]], m[t[2]][t[3]]) ELSE m[a][b]
<1>1. t \in Selected \X Selected \X Selected
  BY FirstBrokenIsFirst DEF Broken
<1>2. PICK i \in Selected, j \in Selected, k \in Selected : t = <<i, j, k>>
  BY <1>1
<1>3. m[i][j] \in Times /\ m[j][k] \in Times
  BY DEF Matrices
<1>4. Plus(m[i][j], m[j][k]) \in Times
  BY <1>3, PlusIsATime
<1>5. t[1] = i /\ t[2] = j /\ t[3] = k
  BY <1>2
<1> DEFINE p == Plus(m[i][j], m[j][k])
<1>6. Detour(m, t) = [m EXCEPT ![i][k] = p]
  BY <1>5 DEF Detour
<1>7. p \in Times
  BY <1>4
<1> HIDE DEF p
<1>8. /\ [m EXCEPT ![i][k] = p] \in Matrices
      /\ \A a, b \in Selected :
           [m EXCEPT ![i][k] = p][a][b] = IF a = i /\ b = k THEN p ELSE m[a][b]
  BY <1>7 DEF Matrices
<1>9. QED
  BY <1>1, <1>5, <1>6, <1>7, <1>8 DEF p

\* The steps after the data are read.
LEMMA RepairKeepsTypes ==
  ASSUME IInv, Repair
  PROVE  /\ IInv'
         /\ m_time_matrix \in Matrices /\ Broken(m_time_matrix) # {}
         /\ depth \in Nat /\ depth' = depth + 1 /\ depth <= Cardinality(Selected)
<1> USE DEF IInv
<1>1. /\ pc = "repair" /\ pc' = "repair" /\ depth <= Cardinality(Selected)
      /\ depth' = depth + 1 /\ depth \in Nat /\ depth' \in Nat /\ depth' # 0
      /\ UNCHANGED <<data_costs, factor, check_triangle, read>>
      /\ Broken(m_time_matrix) # {}
      /\ m_time_matrix' = Detour(m_time_matrix, FirstBroken(m_time_matrix))
  BY DEF Repair, arguments, TypeOK, obeys_triangle_inequality
<1>2. m_time_matrix \in Matrices
  BY DEF TypeOK, Matrices, Times
<1>3. m_time_matrix' \in Matrices
  BY <1>1, <1>2, DetourWritesACell
<1>4. Cardinality(Selected) \in Nat
  BY BaseMatrixAssumption, FS_CardinalityType
<1>5. TypeOK'
  BY <1>1, <1>3, <1>4 DEF TypeOK, Matrices, Times
<1>6. FillInv'
  BY <1>1 DEF FillInv
<1>7. QED
  BY <1>1, <1>2, <1>5, <1>6

\* Repairs and verdicts do not change what was filled.
LEMMA OthersKeepFilled ==
  ASSUME IInv, Repaired \/ VerifyInfinity \/ UNCHANGED vars
  PROVE  IInv'
<1> USE DEF IInv
<1>1. UNCHANGED <<data_costs, factor, check_triangle, read, m_time_matrix, depth>>
  BY DEF Repaired, VerifyInfinity, vars, arguments
<1>2. pc = "fill" <=> pc' = "fill"
  BY DEF Repaired, VerifyInfinity, vars
<1>3. pc' \in {"fill", "repair", "verify", "accepted", "error"}
  BY DEF Repaired, VerifyInfinity, vars, TypeOK
<1>4. TypeOK'
  BY <1>1, <1>3 DEF TypeOK
<1>5. \A i, j : Given(i, j)' = Given(i, j) /\ GivenSoFar(i, j)' = GivenSoFar(i, j)
  BY <1>1 DEF Given, GivenSoFar, ReadFor, RowsFor, Time, Scaled
<1>6. FillInv'
  BY <1>1, <1>2, <1>5 DEF FillInv
<1>7. QED
  BY <1>4, <1>6

\* The invariant of the filling is inductive.
LEMMA StepsFill == IInv /\ [Next]_vars => IInv'
<1> SUFFICES ASSUME IInv, [Next]_vars PROVE IInv'
  OBVIOUS
<1>1. CASE ReadCell
  BY <1>1, ReadCellFills
<1>2. CASE SetDiagonal
  BY <1>2, SetDiagonalFills
<1>3. CASE Repair
  BY <1>3, RepairKeepsTypes
<1>4. CASE Repaired \/ VerifyInfinity \/ UNCHANGED vars
  BY <1>4, OthersKeepFilled
<1>5. QED
  BY <1>1, <1>2, <1>3, <1>4 DEF Next, Terminated

\* The invariant of the filling holds in every state.
LEMMA AlwaysFilled == Spec => []IInv
BY InitFills, StepsFill, PTL DEF Spec

\* Whatever rows the query returns, in whatever order: the cells have the last
\* time given for them, or else the first one given for the opposite direction,
\* or else none; and the sums of the repair stay in the range of the type
\* (Base_Matrix constructor, fix_triangle_inequality).
THEOREM CellsGiven == Spec => []CellsAsGiven
<1>1. IInv => CellsAsGiven
  BY DEF IInv, FillInv, CellsAsGiven
<1>2. QED
  BY <1>1, AlwaysFilled, PTL

-----------------------------------------------------------------------------
(* A node that no row mentions has no time, and the repairs are too few to *)
(* give it all its times.                                                  *)

CellsOf(u) == ({u} \X (Selected \ {u})) \cup ((Selected \ {u}) \X {u})
Timed(u) == {c \in CellsOf(u) : m_time_matrix[c[1]][c[2]] # Infinity}

\* The next repair is of another cell.
CellOf(t) == <<t[1], t[3]>>
SparedBy(m, u) == Broken(m) # {} => CellOf(FirstBroken(m)) \notin CellsOf(u)

\* A repair gives a time to one of the 2(n-1) cells of the node, and there are
\* at most n+1 of them.  With three nodes one of the first two is of another
\* cell; with two nodes all are of the diagonal.
ForgottenInv ==
  pc # "fill" => \A u \in Unmentioned :
    /\ Cardinality(Timed(u)) <= depth
    /\ Cardinality(Selected) = 3 =>
         /\ depth <= 1 => Timed(u) = {} \/ SparedBy(m_time_matrix, u)
         /\ depth >= 2 => Cardinality(Timed(u)) < depth
    /\ Cardinality(Selected) = 2 =>
         /\ Timed(u) = {}
         /\ \E a \in Selected : /\ \A x \in Selected : a <= x
                                /\ m_time_matrix[a][a] = <<0, -2, -4, -8>>[depth + 1]

VerdictInv ==
  /\ pc \in {"verify", "accepted"} /\ check_triangle =>
       obeys_triangle_inequality(m_time_matrix) \/ depth > Cardinality(Selected)
  /\ pc = "accepted" => has_no_infinity(m_time_matrix)

UsableInv == IInv /\ ForgottenInv /\ VerdictInv

\* The nodes are finitely many, and so are the cells of one.
LEMMA SelectedAreCounted ==
  /\ IsFiniteSet(Selected) /\ Cardinality(Selected) \in Nat
  /\ \A u \in Selected : /\ IsFiniteSet(CellsOf(u))
                         /\ Cardinality(CellsOf(u)) = 2 * (Cardinality(Selected) - 1)
<1>1. IsFiniteSet(Selected) /\ Cardinality(Selected) \in Nat
  BY BaseMatrixAssumption, FS_CardinalityType
<1>2. ASSUME NEW u \in Selected
      PROVE  /\ IsFiniteSet(CellsOf(u))
             /\ Cardinality(CellsOf(u)) = 2 * (Cardinality(Selected) - 1)
  <2> DEFINE Others == Selected \ {u}
  <2>1. IsFiniteSet(Others) /\ Cardinality(Others) = Cardinality(Selected) - 1
    BY <1>1, FS_RemoveElement
  <2>2. IsFiniteSet({u}) /\ Cardinality({u}) = 1
    BY FS_Singleton
  <2>3. Cardinality(Others) \in Nat
    BY <2>1, FS_CardinalityType
  <2> HIDE DEF Others
  <2>4. /\ IsFiniteSet({u} \X Others) /\ Cardinality({u} \X Others) = 1 * Cardinality(Others)
        /\ IsFiniteSet(Others \X {u}) /\ Cardinality(Others \X {u}) = Cardinality(Others) * 1
    BY <2>1, <2>2, FS_Product
  <2>5. ({u} \X Others) \cap (Others \X {u}) = {}
    BY DEF Others
  <2>6. Cardinality(({u} \X Others) \cap (Others \X {u})) = 0
    BY <2>5, FS_EmptySet
  <2>7. /\ IsFiniteSet(({u} \X Others) \cup (Others \X {u}))
        /\ Cardinality(({u} \X Others) \cup (Others \X {u})) =
             Cardinality({u} \X Others) + Cardinality(Others \X {u})
               - Cardinality(({u} \X Others) \cap (Others \X {u}))
    BY <2>4, FS_Union
  <2>8. CellsOf(u) = ({u} \X Others) \cup (Others \X {u})
    BY DEF CellsOf, Others
  <2>9. QED
    BY <1>1, <2>1, <2>3, <2>4, <2>6, <2>7, <2>8
<1>3. QED
  BY <1>1, <1>2

\* Two numbers, the smaller first.
LEMMA TwoNodes ==
  ASSUME NEW S \in SUBSET Nat, IsFiniteSet(S), Cardinality(S) = 2
  PROVE  \E a, b \in S : a < b /\ S = {a, b}
<1>1. PICK x : x \in S
  BY FS_EmptySet
<1>2. IsFiniteSet(S \ {x}) /\ Cardinality(S \ {x}) = 1
  BY <1>1, FS_RemoveElement
<1>3. PICK y : S \ {x} = {y}
  BY <1>2, FS_Singleton
<1>4. S = {x, y} /\ x \in Nat /\ y \in Nat /\ x # y
  BY <1>1, <1>3
<1>5. QED
  BY <1>4

\* Three numbers in ascending order.
LEMMA ThreeNodes ==
  ASSUME NEW S \in SUBSET Nat, IsFiniteSet(S), Cardinality(S) = 3
  PROVE  \E a, b, c \in S : a < b /\ b < c /\ S = {a, b, c}
<1>1. PICK x : x \in S
  BY FS_EmptySet
<1>2. IsFiniteSet(S \ {x}) /\ Cardinality(S \ {x}) = 2
  BY <1>1, FS_RemoveElement
<1>3. PICK y \in S \ {x}, z \in S \ {x} : y < z /\ S \ {x} = {y, z}
  BY <1>2, TwoNodes
<1>4. S = {x, y, z} /\ x \in Nat /\ y \in Nat /\ z \in Nat /\ x # y /\ x # z /\ y < z
  BY <1>1, <1>3
<1>5. CASE x < y
  BY <1>4, <1>5
<1>6. CASE y < x /\ x < z
  <2>1. S = {y, x, z}
    BY <1>4
  <2>2. QED
    BY <1>4, <1>6, <2>1
<1>7. CASE z < x
  <2>1. S = {y, z, x}
    BY <1>4
  <2>2. QED
    BY <1>4, <1>7, <2>1
<1>8. QED
  BY <1>4, <1>5, <1>6, <1>7

\* A way with a stop where it starts is no detour.
LEMMA NoDetourAtHome ==
  ASSUME NEW m \in Matrices, NEW i \in Selected, m[i][i] = 0, NEW k \in Selected
  PROVE  <<i, i, k>> \notin Broken(m)
<1>1. m[i][k] \in Times
  BY DEF Matrices
<1>2. Plus(m[i][i], m[i][k]) = m[i][k]
  BY <1>1, BaseMatrixAssumption DEF Plus, Wrapped, Times
<1>3. QED
  BY <1>1, <1>2, BaseMatrixAssumption DEF Broken, Times

\* The first triple that breaks the inequality is none that follows another.
NotAfter(m, i, j, k) ==
  \E x \in Selected, y \in Selected, z \in Selected :
    /\ FirstBroken(m) = <<x, y, z>> /\ <<x, y, z>> \in Broken(m)
    /\ x <= i /\ (x = i => y <= j) /\ (x = i /\ y = j => z <= k)

\* The triple that the three loops find first is not after any other.
LEMMA FirstIsNotAfter ==
  ASSUME NEW m, NEW i \in Selected, NEW j \in Selected, NEW k \in Selected,
         <<i, j, k>> \in Broken(m)
  PROVE  NotAfter(m, i, j, k)
<1>1. FirstBroken(m) \in Broken(m) /\ \A t \in Broken(m) \ {FirstBroken(m)} : Precedes(FirstBroken(m), t)
  BY FirstBrokenIsFirst
<1>2. PICK x \in Selected, y \in Selected, z \in Selected : FirstBroken(m) = <<x, y, z>>
  BY <1>1 DEF Broken
<1>3. <<x, y, z>> = <<i, j, k>> \/ Precedes(<<x, y, z>>, <<i, j, k>>)
  BY <1>1, <1>2
<1>4. (x = i /\ y = j /\ z = k) \/ x < i \/ (x = i /\ y < j) \/ (x = i /\ y = j /\ z < k)
  BY <1>3 DEF Precedes
<1>5. x \in Nat /\ y \in Nat /\ z \in Nat /\ i \in Nat /\ j \in Nat /\ k \in Nat
  BY <1>2, BaseMatrixAssumption
<1>6. x <= i /\ (x = i => y <= j) /\ (x = i /\ y = j => z <= k)
  BY <1>4, <1>5
<1>7. <<x, y, z>> \in Broken(m)
  BY <1>1, <1>2
<1>8. QED
  BY <1>2, <1>6, <1>7 DEF NotAfter

\* Whether three numbers break the inequality.
LEMMA BrokenTriple ==
  ASSUME NEW m, NEW i \in Selected, NEW j \in Selected, NEW k \in Selected
  PROVE  <<i, j, k>> \in Broken(m) <=> m[i][k] > Plus(m[i][j], m[j][k])
  BY DEF Broken

\* The cells of a node that has no time.
LEMMA WithoutTime ==
  ASSUME NEW m \in Matrices, NEW u \in Selected,
         \A c \in CellsOf(u) : m[c[1]][c[2]] = Infinity,
         NEW x \in Selected, x # u
  PROVE  m[u][x] = Infinity /\ m[x][u] = Infinity
<1>1. <<u, x>> \in CellsOf(u) /\ <<x, u>> \in CellsOf(u)
  BY DEF CellsOf
<1>2. QED
  BY <1>1

\* The sums with an infinity that wraps, which the repairs do not avoid.
LEMMA PlusInfinity ==
  /\ Plus(Infinity, Infinity) = -2
  /\ \A n \in 1..Infinity : Plus(n, Infinity) = n - Infinity - 2
  /\ \A n \in 1..Infinity : Plus(n - Infinity - 2, Infinity) = n - 2
  /\ Plus(0, Infinity) = Infinity
BY BaseMatrixAssumption DEF Plus, Wrapped

\* Three nodes, one of them without any time: the first repair, or else the
\* second one, is of another cell.
LEMMA OneOfTwoRepairsIsSpared ==
  ASSUME NEW m \in Matrices, NEW u \in Selected,
         Cardinality(Selected) = 3,
         \A c \in CellsOf(u) : m[c[1]][c[2]] = Infinity,
         \A i \in Selected : m[i][i] = 0,
         \A i, j \in Selected : 0 <= m[i][j],
         Broken(m) # {}
  PROVE  SparedBy(m, u) \/ SparedBy(Detour(m, FirstBroken(m)), u)
<1>1. PICK a \in Selected, b \in Selected, c \in Selected :
        a < b /\ b < c /\ Selected = {a, b, c}
  BY ThreeNodes, SelectedAreCounted, BaseMatrixAssumption
<1>2. a \in Nat /\ b \in Nat /\ c \in Nat /\ a # b /\ a # c /\ b # c
  BY <1>1, BaseMatrixAssumption
<1>3. \A x \in Selected \ {u} : m[u][x] = Infinity /\ m[x][u] = Infinity
  BY WithoutTime
<1>4. \A x, y : <<x, x>> \notin CellsOf(u) /\ (x # u /\ y # u => <<x, y>> \notin CellsOf(u))
  BY DEF CellsOf
<1>5. CASE u \in {a, b}
  <2>1. m[a][b] = Infinity /\ m[b][a] = Infinity
    BY <1>2, <1>3, <1>5
  <2>2. <<a, b, a>> \in Broken(m)
    BY <2>1, PlusInfinity, BrokenTriple
  <2>first. NotAfter(m, a, b, a)
    BY <2>2, FirstIsNotAfter
  <2>3. PICK x \in Selected, y \in Selected, z \in Selected :
          /\ FirstBroken(m) = <<x, y, z>> /\ <<x, y, z>> \in Broken(m)
          /\ x <= a /\ (x = a => y <= b) /\ (x = a /\ y = b => z <= a)
    BY <2>first DEF NotAfter
  <2>4. x = a /\ y \in {a, b}
    BY <1>1, <1>2, <2>3
  <2>5. y # a
    BY <2>3, <2>4, NoDetourAtHome
  <2>6. z = a
    BY <1>1, <1>2, <2>3, <2>4, <2>5
  <2>7. CellOf(FirstBroken(m)) = <<a, a>>
    BY <2>3, <2>4, <2>6 DEF CellOf
  <2>8. QED
    BY <1>4, <2>7 DEF SparedBy
<1>6. CASE u = c
  <2>1. /\ m[a][c] = Infinity /\ m[c][a] = Infinity
        /\ m[b][c] = Infinity /\ m[c][b] = Infinity
    BY <1>2, <1>3, <1>6
  <2>2. <<a, c, a>> \in Broken(m)
    BY <2>1, PlusInfinity, BrokenTriple
  <2>first. NotAfter(m, a, c, a)
    BY <2>2, FirstIsNotAfter
  <2>3. PICK x \in Selected, y \in Selected, z \in Selected :
          /\ FirstBroken(m) = <<x, y, z>> /\ <<x, y, z>> \in Broken(m)
          /\ x <= a /\ (x = a => y <= c) /\ (x = a /\ y = c => z <= a)
    BY <2>first DEF NotAfter
  <2>4. x = a
    BY <1>1, <1>2, <2>3
  <2>5. y # a
    BY <2>3, <2>4, NoDetourAtHome
  <2>6. CASE z # c
    <3>1. CellOf(FirstBroken(m)) = <<a, z>>
      BY <2>3, <2>4 DEF CellOf
    <3>2. QED
      BY <1>2, <1>4, <1>6, <2>6, <3>1 DEF SparedBy
  <2>7. CASE z = c
    <3>1. y = b
      BY <1>1, <1>2, <2>3, <2>4, <2>5, <2>7
    <3>2. FirstBroken(m) = <<a, b, c>> /\ m[a][c] > Plus(m[a][b], m[b][c])
      BY <2>3, <2>4, <2>7, <3>1, BrokenTriple
    <3>3. m[a][b] \in 1..Infinity
      <4>1. m[a][b] \in Times /\ 0 <= m[a][b]
        BY DEF Matrices
      <4>2. m[a][b] # 0
        BY <2>1, <3>2, PlusInfinity, BaseMatrixAssumption
      <4>3. QED
        BY <4>1, <4>2, BaseMatrixAssumption DEF Times
    <3> DEFINE n == m[a][b]
               w == Detour(m, FirstBroken(m))
    <3>4. /\ w \in Matrices
          /\ w[a][c] = n - Infinity - 2
          /\ w[a][a] = 0 /\ w[a][b] = n /\ w[b][c] = Infinity /\ w[c][b] = Infinity
      <4>1. /\ w \in Matrices
            /\ \A i, j \in Selected :
                 w[i][j] = IF i = a /\ j = c THEN Plus(m[a][b], m[b][c]) ELSE m[i][j]
        BY <3>2, DetourWritesACell
      <4>2. Plus(m[a][b], m[b][c]) = n - Infinity - 2
        BY <2>1, <3>3, PlusInfinity
      <4> HIDE DEF w
      <4>3. QED
        BY <1>2, <2>1, <4>1, <4>2
    <3>5. <<a, c, b>> \in Broken(w)
      <4>1. w[a][b] > Plus(w[a][c], w[c][b])
        <5> HIDE DEF w
        <5>1. Plus(w[a][c], w[c][b]) = n - 2
          BY <3>3, <3>4, PlusInfinity
        <5>2. QED
          BY <3>3, <3>4, <5>1
      <4>2. QED
        BY <4>1, BrokenTriple
    <3> HIDE DEF w
    <3>first. NotAfter(w, a, c, b)
      BY <3>5, FirstIsNotAfter
    <3>6. PICK d \in Selected, e \in Selected, f \in Selected :
            /\ FirstBroken(w) = <<d, e, f>> /\ <<d, e, f>> \in Broken(w)
            /\ d <= a /\ (d = a => e <= c) /\ (d = a /\ e = c => f <= b)
      BY <3>first DEF NotAfter
    <3>7. d = a
      BY <1>1, <1>2, <3>6
    <3>8. e # a
      BY <3>4, <3>6, <3>7, NoDetourAtHome
    <3>9. f # c
      <4>1. SUFFICES ASSUME f = c PROVE FALSE
        OBVIOUS
      <4>2. e = b
        BY <1>1, <1>2, <3>6, <3>7, <3>8, <4>1
      <4>3. w[a][c] > Plus(w[a][b], w[b][c])
        BY <3>6, <3>7, <4>1, <4>2, BrokenTriple
      <4>4. Plus(w[a][b], w[b][c]) = n - Infinity - 2
        BY <3>3, <3>4, PlusInfinity
      <4>5. QED
        BY <3>3, <3>4, <4>3, <4>4, BaseMatrixAssumption, SMTT(60)
    <3>10. CellOf(FirstBroken(w)) = <<a, f>>
      BY <3>6, <3>7 DEF CellOf
    <3>11. QED
      BY <1>2, <1>4, <1>6, <3>9, <3>10 DEF SparedBy, w
  <2>8. QED
    BY <2>6, <2>7
<1>7. QED
  BY <1>1, <1>5, <1>6

\* Two nodes, one of them without any time: the repairs are of the diagonal.
LEMMA TwoNodesStayWithoutTime ==
  ASSUME NEW m \in Matrices, NEW u \in Selected,
         Cardinality(Selected) = 2,
         \A c \in CellsOf(u) : m[c[1]][c[2]] = Infinity,
         NEW a \in Selected, \A x \in Selected : a <= x,
         NEW d \in 0..2, m[a][a] = <<0, -2, -4, -8>>[d + 1],
         Broken(m) # {}
  PROVE  /\ SparedBy(m, u)
         /\ Detour(m, FirstBroken(m))[a][a] = <<0, -2, -4, -8>>[d + 2]
<1>1. PICK b \in Selected : Selected = {a, b} /\ a < b
  <2>1. PICK x \in Selected, y \in Selected : x < y /\ Selected = {x, y}
    BY TwoNodes, SelectedAreCounted, BaseMatrixAssumption
  <2>2. x \in Nat /\ y \in Nat /\ a = x
    BY <2>1, BaseMatrixAssumption
  <2>3. QED
    BY <2>1, <2>2
<1>2. a \in Nat /\ b \in Nat /\ a # b
  BY <1>1, BaseMatrixAssumption
<1>3. m[a][b] = Infinity /\ m[b][a] = Infinity
  BY <1>1, <1>2, WithoutTime
<1>4. /\ m[a][a] \in {0, -2, -4}
      /\ d = 0 <=> m[a][a] = 0
      /\ <<0, -2, -4, -8>>[d + 2] = IF d = 0 THEN -2 ELSE 2 * m[a][a]
  <2>1. d = 0 \/ d = 1 \/ d = 2
    OBVIOUS
  <2>2. QED
    BY <2>1
<1>5. CASE d = 0
  <2>1. <<a, b, a>> \in Broken(m)
    BY <1>3, <1>4, <1>5, PlusInfinity, BrokenTriple
  <2>first. NotAfter(m, a, b, a)
    BY <2>1, FirstIsNotAfter
  <2>2. PICK x \in Selected, y \in Selected, z \in Selected :
          /\ FirstBroken(m) = <<x, y, z>> /\ <<x, y, z>> \in Broken(m)
          /\ x <= a /\ (x = a => y <= b) /\ (x = a /\ y = b => z <= a)
    BY <2>first DEF NotAfter
  <2>3. x = a
    BY <1>1, <1>2, <2>2
  <2>4. y # a
    BY <1>4, <1>5, <2>2, <2>3, NoDetourAtHome
  <2>5. FirstBroken(m) = <<a, b, a>>
    BY <1>1, <1>2, <2>2, <2>3, <2>4
  <2>6. Detour(m, FirstBroken(m))[a][a] = Plus(m[a][b], m[b][a])
    BY <2>5, DetourWritesACell
  <2>7. SparedBy(m, u)
    BY <2>5 DEF SparedBy, CellOf, CellsOf
  <2>8. QED
    BY <1>3, <1>4, <1>5, <2>6, <2>7, PlusInfinity
<1>6. CASE d # 0
  <2>1. Plus(m[a][a], m[a][a]) = 2 * m[a][a]
    BY <1>4, BaseMatrixAssumption DEF Plus, Wrapped
  <2>2. <<a, a, a>> \in Broken(m)
    BY <1>4, <1>6, <2>1, BrokenTriple
  <2>first. NotAfter(m, a, a, a)
    BY <2>2, FirstIsNotAfter
  <2>3. PICK x \in Selected, y \in Selected, z \in Selected :
          /\ FirstBroken(m) = <<x, y, z>> /\ <<x, y, z>> \in Broken(m)
          /\ x <= a /\ (x = a => y <= a) /\ (x = a /\ y = a => z <= a)
    BY <2>first DEF NotAfter
  <2>4. FirstBroken(m) = <<a, a, a>>
    BY <1>1, <1>2, <2>3
  <2>5. Detour(m, FirstBroken(m))[a][a] = Plus(m[a][a], m[a][a])
    BY <2>4, DetourWritesACell
  <2>6. SparedBy(m, u)
    BY <2>4 DEF SparedBy, CellOf, CellsOf
  <2>7. QED
    BY <1>4, <1>6, <2>1, <2>5, <2>6
<1>7. QED
  BY <1>5, <1>6

-----------------------------------------------------------------------------

\* Before the first repair, a node that no row mentions has no time at all.
LEMMA NothingIsForgottenYet ==
  ASSUME IInv, pc # "fill", depth = 0
  PROVE  /\ \A i, j \in Selected : 0 <= m_time_matrix[i][j] /\ m_time_matrix[i][i] = 0
         /\ \A u \in Unmentioned : Timed(u) = {}
<1> USE DEF IInv
<1>1. \A i, j \in Selected : m_time_matrix[i][j] = Given(i, j)
  BY DEF FillInv
<1>2. read \in Nat
  BY RowsAreNumbers DEF TypeOK
<1>3. \A i, j \in Selected : 0 <= Given(i, j)
  BY <1>2, GivenIsFinite
<1>4. \A i \in Selected : Given(i, i) = 0
  BY DEF Given
<1>5. ASSUME NEW u \in Unmentioned, NEW i \in Selected, NEW j \in Selected, i # j, u \in {i, j}
      PROVE  Given(i, j) = Infinity
  <2>1. RowsFor(i, j) = {} /\ RowsFor(j, i) = {}
    BY <1>5 DEF Unmentioned, RowsFor
  <2>2. QED
    BY <1>5, <2>1 DEF Given
<1>6. ASSUME NEW u \in Unmentioned, NEW c \in CellsOf(u)
      PROVE  m_time_matrix[c[1]][c[2]] = Infinity
  <2>1. u \in Selected
    BY DEF Unmentioned
  <2>2. c[1] \in Selected /\ c[2] \in Selected /\ c[1] # c[2] /\ u \in {c[1], c[2]}
    BY <2>1 DEF CellsOf
  <2>3. QED
    BY <1>1, <1>5, <2>2
<1>7. QED
  BY <1>1, <1>3, <1>4, <1>6 DEF Timed

\* When the rows are read, no cell of a forgotten node has a time.
LEMMA FilledIsForgotten == IInv /\ pc # "fill" /\ depth = 0 => ForgottenInv
<1> SUFFICES ASSUME IInv, pc # "fill", depth = 0 PROVE ForgottenInv
  OBVIOUS
<1>1. \A i, j \in Selected : 0 <= m_time_matrix[i][j] /\ m_time_matrix[i][i] = 0
  BY NothingIsForgottenYet
<1>2. \A u \in Unmentioned : Timed(u) = {} /\ Cardinality(Timed(u)) = 0
  BY NothingIsForgottenYet, FS_EmptySet
<1>3. \E a \in Selected : \A x \in Selected : a <= x
  BY BaseMatrixAssumption, LeastNatural
<1>4. <<0, -2, -4, -8>>[depth + 1] = 0
  OBVIOUS
<1>5. QED
  BY <1>1, <1>2, <1>3, <1>4 DEF ForgottenInv

\* A repair gives one cell a time at most, and none if it is of another cell.
LEMMA RepairTimesACell ==
  ASSUME IInv, Repair, NEW u \in Selected
  PROVE  /\ Cardinality(Timed(u)) \in Nat /\ Cardinality(Timed(u)') \in Nat
         /\ Cardinality(Timed(u)') <= Cardinality(Timed(u)) + 1
         /\ SparedBy(m_time_matrix, u) => Timed(u)' = Timed(u)
<1> DEFINE t == FirstBroken(m_time_matrix)
<1>1. m_time_matrix \in Matrices /\ Broken(m_time_matrix) # {}
  BY RepairKeepsTypes
<1>2. m_time_matrix' = Detour(m_time_matrix, t)
  BY DEF Repair
<1>3. /\ t \in Selected \X Selected \X Selected
      /\ \A a, b \in Selected :
           ~(a = t[1] /\ b = t[3]) => m_time_matrix'[a][b] = m_time_matrix[a][b]
  BY <1>1, <1>2, DetourWritesACell
<1> HIDE DEF t
<1>4. \A c \in CellsOf(u) : /\ c[1] \in Selected /\ c[2] \in Selected
                            /\ c = <<c[1], c[2]>>
  BY DEF CellsOf
<1>5. \A c \in CellsOf(u) : c # CellOf(t) => m_time_matrix'[c[1]][c[2]] = m_time_matrix[c[1]][c[2]]
  BY <1>3, <1>4 DEF CellOf
<1>6. Timed(u)' = {c \in CellsOf(u) : m_time_matrix'[c[1]][c[2]] # Infinity}
  BY DEF Timed, CellsOf
<1>7. Timed(u)' \subseteq Timed(u) \cup {CellOf(t)}
  BY <1>5, <1>6 DEF Timed
<1>8. SparedBy(m_time_matrix, u) => Timed(u)' = Timed(u)
  BY <1>1, <1>5, <1>6 DEF Timed, SparedBy, t
<1>9. IsFiniteSet(Timed(u)) /\ Cardinality(Timed(u)) \in Nat
  <2>1. Timed(u) \in SUBSET CellsOf(u)
    BY DEF Timed
  <2>2. QED
    BY <2>1, SelectedAreCounted, FS_Subset, FS_CardinalityType
<1>10. /\ IsFiniteSet(Timed(u) \cup {CellOf(t)})
       /\ Cardinality(Timed(u) \cup {CellOf(t)}) <= Cardinality(Timed(u)) + 1
  <2>1. /\ IsFiniteSet(Timed(u) \cup {CellOf(t)})
        /\ Cardinality(Timed(u) \cup {CellOf(t)}) =
             IF CellOf(t) \in Timed(u) THEN Cardinality(Timed(u)) ELSE Cardinality(Timed(u)) + 1
    BY <1>9, FS_AddElement
  <2>2. QED
    BY <1>9, <2>1
<1>11. /\ Cardinality(Timed(u)') \in Nat
       /\ Cardinality(Timed(u)') <= Cardinality(Timed(u) \cup {CellOf(t)})
  <2> DEFINE S == Timed(u) \cup {CellOf(t)}
             T == Timed(u)'
  <2>1. T \in SUBSET S /\ IsFiniteSet(S)
    BY <1>7, <1>10
  <2> HIDE DEF S, T
  <2>2. IsFiniteSet(T) /\ Cardinality(T) <= Cardinality(S) /\ Cardinality(T) \in Nat
    BY <2>1, FS_Subset, FS_CardinalityType
  <2>3. QED
    BY <2>2 DEF S, T
<1>12. Cardinality(Timed(u) \cup {CellOf(t)}) \in Nat
  BY <1>10, FS_CardinalityType
<1>13. QED
  BY <1>8, <1>9, <1>10, <1>11, <1>12

\* A repair gives a forgotten node too few times to hide it.
LEMMA RepairForgets ==
  ASSUME IInv, ForgottenInv, Repair
  PROVE  ForgottenInv'
<1> DEFINE m == m_time_matrix
           t == FirstBroken(m_time_matrix)
<1>1. /\ m_time_matrix \in Matrices /\ Broken(m_time_matrix) # {}
      /\ depth \in Nat /\ depth' = depth + 1 /\ depth <= Cardinality(Selected)
  BY RepairKeepsTypes
<1>2. m_time_matrix' = Detour(m_time_matrix, t) /\ pc # "fill" /\ data_costs' = data_costs
  BY DEF Repair, arguments
<1>3. Unmentioned' = Unmentioned /\ Unmentioned \subseteq Selected
  BY <1>2 DEF Unmentioned
<1>4. SUFFICES ASSUME NEW u \in Unmentioned
               PROVE  /\ Cardinality(Timed(u)') <= depth + 1
                      /\ Cardinality(Selected) = 3 =>
                           /\ depth + 1 <= 1 => Timed(u)' = {} \/ SparedBy(m_time_matrix', u)
                           /\ depth + 1 >= 2 => Cardinality(Timed(u)') < depth + 1
                      /\ Cardinality(Selected) = 2 =>
                           /\ Timed(u)' = {}
                           /\ \E a \in Selected :
                                /\ \A x \in Selected : a <= x
                                /\ m_time_matrix'[a][a] = <<0, -2, -4, -8>>[depth + 2]
  <2>1. \A u : Timed(u)' = {c \in CellsOf(u) : m_time_matrix'[c[1]][c[2]] # Infinity}
    BY DEF Timed, CellsOf
  <2>2. \A u : SparedBy(m_time_matrix, u)' <=> SparedBy(m_time_matrix', u)
    BY DEF SparedBy, CellsOf
  <2>3. (depth + 1) + 1 = depth + 2
    BY <1>1
  <2>4. QED
    BY <1>1, <1>3, <1>4, <2>1, <2>2, <2>3 DEF ForgottenInv
<1>5. u \in Selected
  BY <1>3
<1>6. /\ Cardinality(Timed(u)) \in Nat /\ Cardinality(Timed(u)') \in Nat
      /\ Cardinality(Timed(u)') <= Cardinality(Timed(u)) + 1
      /\ SparedBy(m_time_matrix, u) => Timed(u)' = Timed(u)
  BY <1>5, RepairTimesACell
<1>7. Cardinality(Timed(u)) <= depth
  BY <1>2 DEF ForgottenInv
<1>8. Cardinality(Timed(u)') <= depth + 1
  BY <1>1, <1>6, <1>7
<1>9. ASSUME Timed(u) = {}
      PROVE  \A c \in CellsOf(u) : m_time_matrix[c[1]][c[2]] = Infinity
  BY <1>9 DEF Timed
<1>10. ASSUME Cardinality(Selected) = 3, depth + 1 <= 1
       PROVE  Timed(u)' = {} \/ SparedBy(m_time_matrix', u)
  <2>1. depth = 0
    BY <1>1, <1>10
  <2>2. /\ \A i, j \in Selected : 0 <= m_time_matrix[i][j] /\ m_time_matrix[i][i] = 0
        /\ Timed(u) = {}
    BY <1>2, <2>1, NothingIsForgottenYet
  <2>3. SparedBy(m_time_matrix, u) \/ SparedBy(Detour(m_time_matrix, t), u)
    BY <1>1, <1>5, <1>9, <1>10, <2>2, OneOfTwoRepairsIsSpared
  <2>4. QED
    BY <1>2, <1>6, <2>2, <2>3
<1>11. ASSUME Cardinality(Selected) = 3, depth + 1 >= 2
       PROVE  Cardinality(Timed(u)') < depth + 1
  <2>1. CASE depth = 1
    <3>1. Timed(u) = {} \/ SparedBy(m_time_matrix, u)
      BY <1>2, <1>11, <2>1 DEF ForgottenInv
    <3>2. Timed(u) = {} => Cardinality(Timed(u)) = 0
      BY FS_EmptySet
    <3>3. QED
      BY <1>6, <1>7, <2>1, <3>1, <3>2
  <2>2. CASE depth >= 2
    <3>1. Cardinality(Timed(u)) < depth
      BY <1>2, <1>11, <2>2 DEF ForgottenInv
    <3>2. QED
      BY <1>1, <1>6, <3>1
  <2>3. QED
    BY <1>1, <1>11, <2>1, <2>2
<1>12. ASSUME Cardinality(Selected) = 2
       PROVE  /\ Timed(u)' = {}
              /\ \E a \in Selected : /\ \A x \in Selected : a <= x
                                     /\ m_time_matrix'[a][a] = <<0, -2, -4, -8>>[depth + 2]
  <2>1. /\ Timed(u) = {}
        /\ \E a \in Selected : /\ \A x \in Selected : a <= x
                               /\ m_time_matrix[a][a] = <<0, -2, -4, -8>>[depth + 1]
    BY <1>2, <1>12 DEF ForgottenInv
  <2>2. PICK a \in Selected : /\ \A x \in Selected : a <= x
                              /\ m_time_matrix[a][a] = <<0, -2, -4, -8>>[depth + 1]
    BY <2>1
  <2>3. depth \in 0..2
    BY <1>1, <1>12
  <2>4. /\ SparedBy(m_time_matrix, u)
        /\ Detour(m_time_matrix, t)[a][a] = <<0, -2, -4, -8>>[depth + 2]
    BY <1>1, <1>5, <1>9, <1>12, <2>1, <2>2, <2>3, TwoNodesStayWithoutTime
  <2>5. QED
    BY <1>2, <1>6, <2>1, <2>2, <2>4
<1>13. QED
  BY <1>8, <1>10, <1>11, <1>12

\* Nor do the other steps.
LEMMA OthersForget ==
  ASSUME IInv, ForgottenInv, Repaired \/ VerifyInfinity \/ UNCHANGED vars
  PROVE  ForgottenInv'
<1>1. UNCHANGED <<data_costs, m_time_matrix, depth>>
  BY DEF Repaired, VerifyInfinity, vars, arguments
<1>2. pc = "fill" <=> pc' = "fill"
  BY DEF Repaired, VerifyInfinity, vars
<1>3. Unmentioned' = Unmentioned
  BY <1>1 DEF Unmentioned
<1>4. \A u : Timed(u)' = Timed(u) /\ (SparedBy(m_time_matrix, u)' <=> SparedBy(m_time_matrix, u))
  BY <1>1 DEF Timed, CellsOf, SparedBy
<1>5. QED
  BY <1>1, <1>2, <1>3, <1>4 DEF ForgottenInv

\* At the start there is no verdict.
LEMMA InitIsUsable == Init => UsableInv
BY InitFills DEF UsableInv, ForgottenInv, VerdictInv, Init

\* The invariant of the verdict is inductive.
LEMMA StepsKeepUsable == UsableInv /\ [Next]_vars => UsableInv'
<1> SUFFICES ASSUME UsableInv, [Next]_vars PROVE UsableInv'
  OBVIOUS
<1> USE DEF UsableInv
<1>1. IInv'
  BY StepsFill
<1>2. CASE ReadCell
  <2>1. pc' = "fill"
    BY <1>2 DEF ReadCell
  <2>2. ForgottenInv' /\ VerdictInv'
    BY <2>1 DEF ForgottenInv, VerdictInv
  <2>3. QED
    BY <1>1, <2>2
<1>3. CASE SetDiagonal
  <2>1. depth' = 0 /\ pc' \in {"repair", "verify"} /\ (pc' = "verify" => ~check_triangle')
    BY <1>3 DEF SetDiagonal, FillInv, IInv, arguments
  <2>2. (IInv /\ pc # "fill" /\ depth = 0 => ForgottenInv)'
    BY FilledIsForgotten, PTL
  <2>3. VerdictInv'
    BY <2>1 DEF VerdictInv
  <2>4. QED
    BY <1>1, <2>1, <2>2, <2>3
<1>4. CASE Repair
  <2>1. VerdictInv'
    BY <1>4 DEF Repair, VerdictInv
  <2>2. QED
    BY <1>1, <1>4, <2>1, RepairForgets
<1>5. CASE Repaired \/ VerifyInfinity \/ UNCHANGED vars
  <2>1. VerdictInv'
    BY <1>5 DEF Repaired, VerifyInfinity, vars, arguments, VerdictInv,
                obeys_triangle_inequality, has_no_infinity, Broken
  <2>2. QED
    BY <1>1, <1>5, <2>1, OthersForget
<1>6. QED
  BY <1>2, <1>3, <1>4, <1>5 DEF Next, Terminated

\* A matrix that is accepted has no infinite cell, so that the node no row
\* mentions would have all its 2(n-1) times, and it obeys the inequality or all
\* the repairs were made.
LEMMA UsableWhenAccepted == UsableInv => AcceptedMatrixIsUsable
<1> SUFFICES ASSUME UsableInv PROVE AcceptedMatrixIsUsable
  OBVIOUS
<1> USE DEF UsableInv
<1>1. RepairMakesItObey
  BY DEF VerdictInv, RepairMakesItObey
<1>2. ASSUME pc = "accepted", Cardinality(Selected) > 1, NEW u \in Unmentioned
      PROVE  FALSE
  <2>1. u \in Selected /\ Cardinality(Selected) \in Nat
    BY SelectedAreCounted DEF Unmentioned
  <2>2. \A i, j \in Selected : m_time_matrix[i][j] # Infinity
    BY <1>2 DEF VerdictInv, has_no_infinity
  <2>3. Timed(u) = CellsOf(u)
    BY <2>1, <2>2 DEF Timed, CellsOf
  <2>4. Cardinality(Timed(u)) = 2 * (Cardinality(Selected) - 1)
    BY <2>1, <2>3, SelectedAreCounted
  <2>5. depth \in Nat /\ depth <= Cardinality(Selected) + 1
    BY <2>1 DEF IInv, TypeOK
  <2>6. Cardinality(Timed(u)) <= depth
    BY <1>2 DEF ForgottenInv
  <2>7. CASE Cardinality(Selected) = 2
    <3>1. Timed(u) = {}
      BY <1>2, <2>7 DEF ForgottenInv
    <3>2. QED
      BY <2>4, <2>7, <3>1, FS_EmptySet
  <2>8. CASE Cardinality(Selected) = 3
    <3>1. depth >= 2 => Cardinality(Timed(u)) < depth
      BY <1>2, <2>8 DEF ForgottenInv
    <3>2. QED
      BY <2>4, <2>5, <2>6, <2>8, <3>1
  <2>9. CASE Cardinality(Selected) > 3
    BY <2>1, <2>4, <2>5, <2>6, <2>9
  <2>10. QED
    BY <1>2, <2>1, <2>7, <2>8, <2>9
<1>3. ForgottenNodeIsReported
  BY <1>2 DEF ForgottenNodeIsReported
<1>4. QED
  BY <1>1, <1>3 DEF AcceptedMatrixIsUsable

\* For any number of nodes: a problem with a node that the matrix query forgot
\* is refused, whatever the overflowing sums of the repair make of its cells,
\* and the matrix that is accepted obeys the triangle inequality, or all the
\* repairs were made (has_no_infinity, fix_triangle_inequality).
THEOREM AcceptedIsUsable == Spec => []AcceptedMatrixIsUsable
BY InitIsUsable, StepsKeepUsable, UsableWhenAccepted, PTL DEF Spec
-----------------------------------------------------------------------------
(* The repairs take the times through other nodes, and do not overshoot.   *)

\* Times between the nodes, none for staying.
Journeys ==
  {m \in [Selected \X Selected -> Nat] : \A i \in Selected : m[<<i, i>>] = 0}

\* A round leaves no time longer than it was, or longer than through a node.
LEMMA RoundIs ==
  ASSUME NEW m \in Journeys
  PROVE  /\ Round(m) \in Journeys
         /\ \A i, j, k \in Selected : Round(m)[<<i, j>>] <= m[<<i, k>>] + m[<<k, j>>]
         /\ \A i, j \in Selected : Round(m)[<<i, j>>] <= m[<<i, j>>]
<1>1. Round(m) = Relaxed(m)
  BY DEF Round
<1>2. /\ m \in [Selected \X Selected -> Nat] /\ \A i \in Selected : m[<<i, i>>] = 0
      /\ \A i, j \in Selected : m[<<i, j>>] \in Nat
  BY DEF Journeys
<1> DEFINE Through(i, j) == {m[<<i, k>>] + m[<<k, j>>] : k \in Selected}
<1>3. ASSUME NEW i \in Selected, NEW j \in Selected
      PROVE  /\ Relaxed(m)[<<i, j>>] \in Nat
             /\ \A k \in Selected : Relaxed(m)[<<i, j>>] <= m[<<i, k>>] + m[<<k, j>>]
  <2>1. Relaxed(m)[<<i, j>>] = Min(Through(i, j))
    BY DEF Relaxed
  <2>2. Through(i, j) \in SUBSET Nat /\ Through(i, j) # {}
    <3>1. \A k \in Selected : m[<<i, k>>] + m[<<k, j>>] \in Nat
      BY <1>2
    <3>2. m[<<i, i>>] + m[<<i, j>>] \in Through(i, j)
      OBVIOUS
    <3>3. QED
      BY <3>1, <3>2
  <2>3. \A k \in Selected : m[<<i, k>>] + m[<<k, j>>] \in Through(i, j)
    OBVIOUS
  <2> HIDE DEF Through
  <2>4. Min(Through(i, j)) \in Through(i, j) /\ \A x \in Through(i, j) : Min(Through(i, j)) <= x
    BY <2>2, MinIsMember
  <2>5. QED
    BY <2>1, <2>2, <2>3, <2>4
<1> HIDE DEF Through
<1>4. \A i, j \in Selected : Relaxed(m)[<<i, j>>] \in Nat
  BY <1>3
<1>5. Relaxed(m) \in [Selected \X Selected -> Nat]
  <2>1. Relaxed(m) = [c \in Selected \X Selected |-> Relaxed(m)[<<c[1], c[2]>>]]
    BY DEF Relaxed
  <2>2. \A c \in Selected \X Selected : Relaxed(m)[<<c[1], c[2]>>] \in Nat
    BY <1>4
  <2> DEFINE f == Relaxed(m)
  <2> HIDE DEF f
  <2>3. QED
    BY <2>1, <2>2
<1>6. \A i, j \in Selected : Relaxed(m)[<<i, j>>] <= m[<<i, j>>]
  <2> TAKE i \in Selected, j \in Selected
  <2>1. Relaxed(m)[<<i, j>>] <= m[<<i, i>>] + m[<<i, j>>]
    BY <1>3
  <2>2. m[<<i, i>>] = 0 /\ m[<<i, j>>] \in Nat
    BY <1>2
  <2>3. QED
    BY <2>1, <2>2
<1>7. \A i \in Selected : Relaxed(m)[<<i, i>>] = 0
  <2> TAKE i \in Selected
  <2>1. Relaxed(m)[<<i, i>>] \in Nat /\ Relaxed(m)[<<i, i>>] <= 0
    BY <1>2, <1>4, <1>6
  <2>2. QED
    BY <2>1
<1>8. QED
  BY <1>1, <1>3, <1>5, <1>6, <1>7 DEF Journeys

\* The rounds one after the other.
AfterRounds(m, n, f) == f = [k \in 0..n |-> IF k = 0 THEN m ELSE Round(f[k - 1])]

\* Relaxations takes the last of n rounds.
LEMMA RoundsExist ==
  ASSUME NEW m \in Journeys, NEW n \in Nat
  PROVE  \E f : /\ AfterRounds(m, n, f) /\ Relaxations(m, n) = f[n]
                /\ \A k \in 0..n : f[k] \in Journeys
<1> DEFINE step == [xk \in Journeys \X Nat |-> Round(xk[1])]
           G == [k \in 0..n |-> Journeys]
<1>1. \A k \in 1..n : \A x \in G[k - 1] : step[<<x, k>>] \in G[k] /\ step[<<x, k>>] = Round(x)
  <2> TAKE k \in 1..n
  <2>0. k - 1 \in 0..n /\ k \in 0..n /\ k \in Nat
    OBVIOUS
  <2>1. G[k - 1] = Journeys /\ G[k] = Journeys
    BY <2>0
  <2>2. \A x \in Journeys : step[<<x, k>>] = Round(x)
    BY <2>0
  <2> HIDE DEF step, G
  <2>3. QED
    BY <2>1, <2>2, RoundIs
<1>2. m \in G[0]
  OBVIOUS
<1>3. \A k \in 0..n : G[k] = Journeys
  OBVIOUS
<1> HIDE DEF step, G
<1>4. PICK f : Computed(n, m, step, f) /\ \A k \in 0..n : f[k] \in G[k]
  BY <1>1, <1>2, StepsExist
<1>5. AfterRounds(m, n, f)
  <2>1. f = [k \in 0..n |-> IF k = 0 THEN m ELSE step[<<f[k - 1], k>>]]
    BY <1>4 DEF Computed
  <2>2. \A k \in 0..n : k # 0 => k \in 1..n /\ f[k - 1] \in G[k - 1]
    BY <1>4
  <2>3. \A k \in 0..n : k # 0 => step[<<f[k - 1], k>>] = Round(f[k - 1])
    BY <1>1, <2>2
  <2>4. QED
    BY <2>1, <2>3 DEF AfterRounds
<1> DEFINE g == CHOOSE h : AfterRounds(m, n, h)
<1>6. AfterRounds(m, n, g)
  BY <1>5
<1>7. Relaxations(m, n) = g[n]
  BY DEF Relaxations, AfterRounds
<1> HIDE DEF g
<1>8. \A k \in 0..n : g[k] \in Journeys
  <2> DEFINE In == {k \in 0..n : g[k] \in Journeys}
  <2>0. \A k \in 0..n : g[k] = IF k = 0 THEN m ELSE Round(g[k - 1])
    BY <1>6 DEF AfterRounds
  <2>1. 0 \in In
    BY <2>0
  <2>2. ASSUME NEW k \in 1..n, k - 1 \in In
        PROVE  k \in In
    <3>1. k \in 0..n /\ k # 0 /\ g[k - 1] \in Journeys
      BY <2>2
    <3>2. QED
      BY <2>0, <3>1, RoundIs
  <2> HIDE DEF In
  <2>3. \A k \in 0..n : k \in In
    BY <2>1, <2>2, Upward
  <2>4. QED
    BY <2>3 DEF In
<1>9. QED
  BY <1>6, <1>7, <1>8

\* The first rounds of more are the same rounds.
LEMMA RelaxationsAre ==
  ASSUME NEW m \in Journeys, NEW n \in Nat
  PROVE  /\ Relaxations(m, 0) = m
         /\ Relaxations(m, n) \in Journeys
         /\ Relaxations(m, n + 1) = Round(Relaxations(m, n))
<1>1. Relaxations(m, 0) = m
  <2>1. PICK f : AfterRounds(m, 0, f) /\ Relaxations(m, 0) = f[0]
    BY RoundsExist
  <2>2. QED
    BY <2>1 DEF AfterRounds
<1>2. PICK f : AfterRounds(m, n, f) /\ Relaxations(m, n) = f[n] /\ \A k \in 0..n : f[k] \in Journeys
  BY RoundsExist
<1>3. PICK g : AfterRounds(m, n + 1, g) /\ Relaxations(m, n + 1) = g[n + 1]
  BY RoundsExist
<1>4. \A k \in 0..n : f[k] = IF k = 0 THEN m ELSE Round(f[k - 1])
  BY <1>2 DEF AfterRounds
<1>5. \A k \in 0..(n + 1) : g[k] = IF k = 0 THEN m ELSE Round(g[k - 1])
  BY <1>3 DEF AfterRounds
<1>6. g[n] = f[n]
  <2> DEFINE Same == {k \in 0..n : g[k] = f[k]}
  <2>1. 0 \in Same
    BY <1>4, <1>5
  <2>2. ASSUME NEW k \in 1..n, k - 1 \in Same
        PROVE  k \in Same
    <3>1. k \in 0..n /\ k \in 0..(n + 1) /\ k # 0 /\ g[k - 1] = f[k - 1]
      BY <2>2
    <3>2. QED
      BY <1>4, <1>5, <3>1
  <2> HIDE DEF Same
  <2>3. \A k \in 0..n : k \in Same
    BY <2>1, <2>2, Upward
  <2>4. QED
    BY <2>3 DEF Same
<1>7. n + 1 \in 0..(n + 1) /\ n + 1 # 0 /\ (n + 1) - 1 = n /\ n \in 0..n
  OBVIOUS
<1>8. g[n + 1] = Round(g[n])
  BY <1>5, <1>7
<1>9. QED
  BY <1>1, <1>2, <1>3, <1>6, <1>7, <1>8

\* The times of the data, and those of them that can be added.
LEMMA GivenAreJourneys ==
  ASSUME IInv
  PROVE  /\ GivenTimes \in Journeys
         /\ \A i, j \in Selected : GivenTimes[<<i, j>>] = Given(i, j) /\ Given(i, j) \in Nat
<1>1. read \in Nat /\ TypeOK
  BY RowsAreNumbers DEF IInv, TypeOK
<1>2. \A i, j \in Selected : Given(i, j) \in Nat
  BY <1>1, GivenIsFinite, BaseMatrixAssumption DEF Times
<1>3. \A i \in Selected : Given(i, i) = 0
  BY DEF Given
<1>4. \A i, j \in Selected : GivenTimes[<<i, j>>] = Given(i, j)
  BY DEF GivenTimes
<1>5. GivenTimes \in [Selected \X Selected -> Nat]
  BY <1>2 DEF GivenTimes
<1>6. QED
  BY <1>2, <1>3, <1>4, <1>5 DEF Journeys

\* A cell that is between two times is a number between them.
LEMMA RealCells ==
  ASSUME IInv, TimesAreReal, Constructed, TimesAdd, NEW i \in Selected, NEW j \in Selected
  PROVE  /\ m_time_matrix[i][j] \in Nat
         /\ Relaxations(GivenTimes, depth)[<<i, j>>] \in Nat
         /\ Relaxations(GivenTimes, depth)[<<i, j>>] <= m_time_matrix[i][j]
         /\ m_time_matrix[i][j] <= Given(i, j)
<1>1. depth \in Nat
  BY BaseMatrixAssumption, FS_CardinalityType DEF IInv, TypeOK
<1>2. Relaxations(GivenTimes, depth) \in Journeys
  BY <1>1, GivenAreJourneys, RelaxationsAre
<1>3. Relaxations(GivenTimes, depth)[<<i, j>>] \in Nat
  BY <1>2 DEF Journeys
<1>4. Given(i, j) \in Nat
  BY GivenAreJourneys
<1>5. m_time_matrix[i][j] \in Relaxations(GivenTimes, depth)[<<i, j>>]..Given(i, j)
  BY DEF TimesAreReal
<1>6. QED
  BY <1>3, <1>4, <1>5

\* What the data say does not change once they are read.
LEMMA GivenStays ==
  ASSUME UNCHANGED <<data_costs, factor>>
  PROVE  /\ \A i, j : Given(i, j)' = Given(i, j)
         /\ GivenTimes' = GivenTimes
         /\ TimesAdd' <=> TimesAdd
<1>1. \A i, j : Given(i, j)' = Given(i, j)
  BY DEF Given, RowsFor, Time, Scaled
<1>2. QED
  BY <1>1 DEF GivenTimes, TimesAdd

\* A repair is a way through a node, and a round has looked at it.
LEMMA RepairIsReal ==
  ASSUME IInv, TimesAreReal, Repair
  PROVE  TimesAreReal'
<1> DEFINE m == m_time_matrix
           t == FirstBroken(m_time_matrix)
           before == Relaxations(GivenTimes, depth)
           after == Relaxations(GivenTimes, depth + 1)
<1>1. /\ IInv' /\ m_time_matrix \in Matrices /\ Broken(m_time_matrix) # {}
      /\ depth \in Nat /\ depth' = depth + 1
  BY RepairKeepsTypes
<1>2. /\ m_time_matrix' = Detour(m_time_matrix, t) /\ Constructed
      /\ UNCHANGED <<data_costs, factor>>
  BY DEF Repair, arguments, Constructed
<1>3. SUFFICES ASSUME TimesAdd, NEW i \in Selected, NEW j \in Selected
               PROVE  m_time_matrix'[i][j] \in after[<<i, j>>]..Given(i, j)
  <2>1. /\ \A i, j : Given(i, j)' = Given(i, j)
        /\ GivenTimes' = GivenTimes
        /\ TimesAdd' <=> TimesAdd
    BY <1>2, GivenStays
  <2>2. Relaxations(GivenTimes, depth)' = after
    BY <1>1, <2>1 DEF Relaxations
  <2> HIDE DEF after, before
  <2>3. TimesAreReal' <=>
          (Constructed' /\ TimesAdd' =>
             \A i, j \in Selected :
               m_time_matrix'[i][j] \in Relaxations(GivenTimes, depth)'[<<i, j>>]..Given(i, j)')
    BY DEF TimesAreReal
  <2>4. QED
    BY <1>3, <2>1, <2>2, <2>3
<1>4. \A a, b \in Selected : /\ m[a][b] \in Nat /\ before[<<a, b>>] \in Nat
                             /\ before[<<a, b>>] <= m[a][b] /\ m[a][b] <= Given(a, b)
  BY <1>2, <1>3, RealCells
<1>5. /\ before \in Journeys /\ after = Round(before)
  BY <1>1, GivenAreJourneys, RelaxationsAre
<1> HIDE DEF before, after
<1>6. /\ after \in Journeys
      /\ \A a, b, c \in Selected : after[<<a, b>>] <= before[<<a, c>>] + before[<<c, b>>]
      /\ \A a, b \in Selected : after[<<a, b>>] <= before[<<a, b>>]
  BY <1>5, RoundIs
<1>7. after[<<i, j>>] \in Nat /\ Given(i, j) \in Nat
  BY <1>6, GivenAreJourneys DEF Journeys
<1>8. PICK x \in Selected, y \in Selected, z \in Selected : t = <<x, y, z>>
  BY <1>1, FirstBrokenIsFirst DEF Broken
<1>9. /\ m[x][z] > Plus(m[x][y], m[y][z])
      /\ \A a, b \in Selected :
           m_time_matrix'[a][b] = IF a = x /\ b = z THEN Plus(m[x][y], m[y][z]) ELSE m[a][b]
  <2>1. <<x, y, z>> \in Broken(m)
    BY <1>1, <1>8, FirstBrokenIsFirst
  <2>2. m[x][z] > Plus(m[x][y], m[y][z])
    BY <2>1, BrokenTriple
  <2>3. \A a, b \in Selected :
           m_time_matrix'[a][b] = IF a = x /\ b = z THEN Plus(m[x][y], m[y][z]) ELSE m[a][b]
    BY <1>1, <1>2, <1>8, DetourWritesACell
  <2>4. QED
    BY <2>2, <2>3
<1>10. Plus(m[x][y], m[y][z]) = m[x][y] + m[y][z]
  <2>1. /\ m[x][y] \in Nat /\ m[x][y] <= Given(x, y)
        /\ m[y][z] \in Nat /\ m[y][z] <= Given(y, z)
        /\ Given(x, y) \in Nat /\ Given(y, z) \in Nat
    BY <1>4, GivenAreJourneys
  <2>2. Given(x, y) + Given(y, z) <= Infinity
    BY <1>3 DEF TimesAdd
  <2> DEFINE mxy == m[x][y]
             myz == m[y][z]
             gxy == Given(x, y)
             gyz == Given(y, z)
  <2>3. mxy + myz <= Infinity /\ mxy + myz \in Nat
    <3>1. /\ mxy \in Nat /\ myz \in Nat /\ gxy \in Nat /\ gyz \in Nat
          /\ mxy <= gxy /\ myz <= gyz /\ gxy + gyz <= Infinity
      BY <2>1, <2>2
    <3>2. Infinity \in Nat
      BY BaseMatrixAssumption
    <3> HIDE DEF mxy, myz, gxy, gyz
    <3>3. QED
      BY <3>1, <3>2
  <2>4. QED
    BY <2>3, BaseMatrixAssumption DEF Plus, Wrapped
<1>11. CASE i = x /\ j = z
  <2>1. m_time_matrix'[i][j] = m[x][y] + m[y][z]
    BY <1>9, <1>10, <1>11
  <2>2. m[x][y] + m[y][z] < m[x][z] /\ m[x][z] <= Given(i, j)
    BY <1>4, <1>9, <1>10, <1>11
  <2>3. after[<<i, j>>] <= before[<<x, y>>] + before[<<y, z>>]
    BY <1>6, <1>11
  <2>4. /\ m[x][y] \in Nat /\ m[y][z] \in Nat /\ m[x][z] \in Nat
        /\ before[<<x, y>>] \in Nat /\ before[<<y, z>>] \in Nat
        /\ before[<<x, y>>] <= m[x][y] /\ before[<<y, z>>] <= m[y][z]
    BY <1>4
  <2> HIDE DEF m
  <2>5. QED
    BY <1>7, <2>1, <2>2, <2>3, <2>4
<1>12. CASE ~(i = x /\ j = z)
  <2>1. m_time_matrix'[i][j] = m[i][j]
    BY <1>9, <1>12
  <2>2. /\ m[i][j] \in Nat /\ before[<<i, j>>] \in Nat /\ m[i][j] <= Given(i, j)
        /\ before[<<i, j>>] <= m[i][j] /\ after[<<i, j>>] <= before[<<i, j>>]
    BY <1>4, <1>6
  <2> HIDE DEF m
  <2>3. QED
    BY <1>7, <2>1, <2>2
<1>13. QED
  BY <1>11, <1>12

\* Before the first repair the times are those of the data.
LEMMA FilledIsReal == IInv /\ Constructed /\ depth = 0 => TimesAreReal
<1> SUFFICES ASSUME IInv, Constructed, depth = 0, NEW i \in Selected, NEW j \in Selected
             PROVE  m_time_matrix[i][j] \in Relaxations(GivenTimes, depth)[<<i, j>>]..Given(i, j)
  BY DEF TimesAreReal
<1>1. Relaxations(GivenTimes, depth) = GivenTimes
  BY GivenAreJourneys, RelaxationsAre
<1>2. m_time_matrix[i][j] = Given(i, j)
  BY DEF IInv, FillInv, Constructed
<1>3. QED
  BY <1>1, <1>2, GivenAreJourneys

\* The times are real in every step.
LEMMA StepsAreReal == IInv /\ TimesAreReal /\ [Next]_vars => TimesAreReal'
<1> SUFFICES ASSUME IInv, TimesAreReal, [Next]_vars PROVE TimesAreReal'
  OBVIOUS
<1>1. IInv'
  BY StepsFill
<1>2. CASE ReadCell
  BY <1>2 DEF ReadCell, TimesAreReal, Constructed
<1>3. CASE SetDiagonal
  <2>1. Constructed' /\ depth' = 0
    BY <1>3 DEF SetDiagonal, Constructed, IInv, FillInv
  <2>2. (IInv /\ Constructed /\ depth = 0 => TimesAreReal)'
    BY FilledIsReal, PTL
  <2>3. QED
    BY <1>1, <2>1, <2>2
<1>4. CASE Repair
  BY <1>4, RepairIsReal
<1>5. CASE Repaired \/ VerifyInfinity \/ UNCHANGED vars
  <2>1. UNCHANGED <<data_costs, factor, m_time_matrix, depth>> /\ (Constructed' <=> Constructed)
    BY <1>5 DEF Repaired, VerifyInfinity, vars, arguments, Constructed
  <2>2. /\ \A i, j : Given(i, j)' = Given(i, j)
        /\ GivenTimes' = GivenTimes
        /\ TimesAdd' <=> TimesAdd
    BY <2>1, GivenStays
  <2>3. Relaxations(GivenTimes, depth)' = Relaxations(GivenTimes, depth)
    BY <2>1, <2>2 DEF Relaxations
  <2>4. QED
    BY <2>1, <2>2, <2>3 DEF TimesAreReal
<1>6. QED
  BY <1>2, <1>3, <1>4, <1>5 DEF Next, Terminated

\* For any number of nodes: while the times can be added, a cell is never
\* longer than the data say, and never shorter than the shortest way of up to
\* 2^n legs after n repairs (fix_triangle_inequality).
THEOREM TimesReal == Spec => []TimesAreReal
<1>1. Init => TimesAreReal
  BY DEF Init, TimesAreReal, Constructed
<1>2. QED
  BY <1>1, StepsAreReal, AlwaysFilled, PTL DEF Spec

===============================================================================
