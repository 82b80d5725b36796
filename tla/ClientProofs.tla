---------------------------- MODULE ClientProofs ----------------------------
(***************************************************************************)
(* What holds of the web client, for any number of clients, rows, names    *)
(* and accounts: the lists of the server and what a client shows of them   *)
(* (Catalog), the line that adds a task, for every line, list, zone and    *)
(* clock (QuickAdd), and the page that searches while its account, its     *)
(* workspace and its answers change (Screen). The three keep no variable   *)
(* in common.                                                              *)
(***************************************************************************)
EXTENDS Catalog, QuickAdd, Screen, FiniteSetTheorems, FunctionTheorems, SequenceTheorems, TLAPS

------------------------------------------------------------------------------
(* Sorting: what SetToSortSeq answers for a finite set and a strict order.   *)
(* A rank counts the elements before one, so that no induction is needed.    *)

LEMMA FullInjection ==
  ASSUME NEW n \in Nat, NEW S, IsFiniteSet(S), Cardinality(S) = n,
         NEW f \in [S -> 1 .. n], IsInjective(f)
  PROVE  \A k \in 1 .. n : \E x \in S : f[x] = k
<1>1. f \in Injection(S, 1 .. n)
  BY DEF Injection
<1>2. IsFiniteSet(1 .. n) /\ Cardinality(1 .. n) = n
  BY FS_Interval
<1>3. f \in Surjection(S, 1 .. n)
  BY <1>1, <1>2, FS_Injection
<1> QED BY <1>3 DEF Surjection

LEMMA FullEnumeration ==
  ASSUME NEW S, IsFiniteSet(S), NEW f \in [1 .. Cardinality(S) -> S], IsInjective(f)
  PROVE  \A x \in S : \E k \in 1 .. Cardinality(S) : f[k] = x
<1> DEFINE n == Cardinality(S)
<1>1. n \in Nat
  BY FS_CardinalityType
<1>2. f \in Injection(1 .. n, S)
  BY DEF Injection
<1>3. IsFiniteSet(1 .. n) /\ Cardinality(1 .. n) = n
  BY <1>1, FS_Interval
<1>4. f \in Surjection(1 .. n, S)
  BY <1>2, <1>3, FS_Injection
<1> QED BY <1>4 DEF Surjection

\* The elements of a finite set in some order, each once.
LEMMA SetToSeqLists ==
  ASSUME NEW S, IsFiniteSet(S)
  PROVE  /\ Cardinality(S) \in Nat
         /\ SetToSeq(S) \in [1 .. Cardinality(S) -> S]
         /\ IsInjective(SetToSeq(S))
         /\ \A x \in S : \E k \in 1 .. Cardinality(S) : SetToSeq(S)[k] = x
<1> DEFINE n == Cardinality(S)
<1>1. n \in Nat /\ ExistsBijection(1 .. n, S)
  BY FS_CardinalityType
<1>2. \E f \in [1 .. n -> S] : IsInjective(f)
  BY <1>1 DEF ExistsBijection, Bijection, Injection
<1>3. SetToSeq(S) \in [1 .. n -> S] /\ IsInjective(SetToSeq(S))
  BY <1>2 DEF SetToSeq
<1> QED BY <1>1, <1>3, FullEnumeration

\* Every strict total order of a finite set numbers it from 1 on.
LEMMA RanksExist ==
  ASSUME NEW S, IsFiniteSet(S), NEW R,
         \A x \in S : <<x, x>> \notin R,
         \A x, y, z \in S : <<x, y>> \in R /\ <<y, z>> \in R => <<x, z>> \in R,
         \A x, y \in S : x # y => <<x, y>> \in R \/ <<y, x>> \in R
  PROVE  \E r \in [S -> 1 .. Cardinality(S)] :
           /\ \A x, y \in S : <<x, y>> \in R <=> r[x] < r[y]
           /\ \A k \in 1 .. Cardinality(S) : \E x \in S : r[x] = k
           /\ \A x \in S : Cardinality({y \in S : <<y, x>> \in R}) = r[x] - 1
<1> DEFINE n == Cardinality(S)
           below(x) == {y \in S : <<y, x>> \in R}
           r == [x \in S |-> Cardinality(below(x)) + 1]
<1>1. n \in Nat
  BY FS_CardinalityType
<1>2. ASSUME NEW x \in S
      PROVE  IsFiniteSet(below(x)) /\ Cardinality(below(x)) \in Nat /\ Cardinality(below(x)) < n
  <2>1. below(x) \in SUBSET S /\ below(x) # S
    OBVIOUS
  <2>2. IsFiniteSet(below(x)) /\ Cardinality(below(x)) <= n /\ Cardinality(below(x)) # n
    BY <2>1, FS_Subset
  <2>3. Cardinality(below(x)) \in Nat
    BY <2>2, FS_CardinalityType
  <2> QED BY <1>1, <2>2, <2>3
<1>3. r \in [S -> 1 .. n]
  BY <1>1, <1>2
<1>4. ASSUME NEW x \in S, NEW y \in S, <<x, y>> \in R PROVE r[x] < r[y]
  <2>1. below(x) \in SUBSET below(y) /\ below(x) # below(y)
    BY <1>4
  <2>2. Cardinality(below(x)) <= Cardinality(below(y)) /\ Cardinality(below(x)) # Cardinality(below(y))
    BY <1>2, <2>1, FS_Subset
  <2>3. r[x] = Cardinality(below(x)) + 1 /\ r[y] = Cardinality(below(y)) + 1
    OBVIOUS
  <2>4. Cardinality(below(x)) \in Nat /\ Cardinality(below(y)) \in Nat
    BY <1>2
  <2> HIDE DEF below, r
  <2> QED BY <2>2, <2>3, <2>4
<1>5. \A x, y \in S : <<x, y>> \in R <=> r[x] < r[y]
  <2> SUFFICES ASSUME NEW x \in S, NEW y \in S, r[x] < r[y] PROVE <<x, y>> \in R
    BY <1>4
  <2>1. r[x] \in Int /\ r[y] \in Int
    BY <1>1, <1>3
  <2> HIDE DEF r
  <2>2. <<y, x>> \notin R
    BY <1>4, <2>1
  <2>3. x # y
    BY <2>1
  <2> QED BY <2>2, <2>3
<1>6. IsInjective(r)
  <2> SUFFICES ASSUME NEW x \in S, NEW y \in S, r[x] = r[y] PROVE x = y
    BY DEF IsInjective
  <2>1. r[x] \in Int /\ r[y] \in Int
    BY <1>1, <1>3
  <2>2. ~(r[x] < r[y]) /\ ~(r[y] < r[x])
    BY <2>1
  <2> HIDE DEF r
  <2> QED BY <1>5, <2>2
<1>7. \A k \in 1 .. n : \E x \in S : r[x] = k
  <2> HIDE DEF r, n
  <2> QED BY <1>1, <1>3, <1>6, FullInjection DEF n
<1>8. \A x \in S : Cardinality({y \in S : <<y, x>> \in R}) = r[x] - 1
  <2> SUFFICES ASSUME NEW x \in S PROVE Cardinality(below(x)) = r[x] - 1
    OBVIOUS
  <2>1. r[x] = Cardinality(below(x)) + 1
    OBVIOUS
  <2> HIDE DEF r, below
  <2> QED BY <1>2, <2>1
<1> HIDE DEF r
<1> QED BY <1>3, <1>5, <1>7, <1>8

\* A finite set of integers has a greatest.
LEMMA GreatestExists ==
  ASSUME NEW S \in SUBSET Int, IsFiniteSet(S), S # {}
  PROVE  Max(S) \in S /\ \A x \in S : Max(S) >= x
<1> DEFINE R == {p \in S \X S : p[1] < p[2]}
           n == Cardinality(S)
<1>1. \A x, y \in S : <<x, y>> \in R <=> x < y
  OBVIOUS
<1>2. /\ \A x \in S : <<x, x>> \notin R
      /\ \A x, y, z \in S : <<x, y>> \in R /\ <<y, z>> \in R => <<x, z>> \in R
      /\ \A x, y \in S : x # y => <<x, y>> \in R \/ <<y, x>> \in R
  <2> HIDE DEF R
  <2>1. S \subseteq Int
    OBVIOUS
  <2> QED BY <1>1, <2>1
<1> HIDE DEF R
<1>3. PICK r \in [S -> 1 .. n] : /\ \A x, y \in S : <<x, y>> \in R <=> r[x] < r[y]
                                 /\ \A k \in 1 .. n : \E x \in S : r[x] = k
                                 /\ \A x \in S : Cardinality({y \in S : <<y, x>> \in R}) = r[x] - 1
  BY ZenonT(30), <1>2, RanksExist
<1>4. n \in Nat /\ n # 0
  BY FS_CardinalityType, FS_EmptySet
<1>5. PICK x \in S : r[x] = n
  BY <1>3, <1>4
<1>6. ASSUME NEW y \in S PROVE x >= y
  <2>1. r[y] \in 1 .. n
    BY <1>3
  <2>2. ~(r[x] < r[y])
    BY <1>4, <1>5, <2>1
  <2>3. ~(x < y)
    BY <1>1, <1>3, <2>2
  <2>4. x \in Int /\ y \in Int
    OBVIOUS
  <2> QED BY <2>3, <2>4
<1> QED BY <1>6 DEF Max

\* An increasing numbering of n things by 0 .. n - 1 is the one in order.
LEMMA IncreasingIsExact ==
  ASSUME NEW n \in Nat, NEW a \in [1 .. n -> 0 .. n - 1],
         \A i, j \in 1 .. n : i < j => a[i] < a[j]
  PROVE  \A k \in 1 .. n : a[k] = k - 1
<1>1. IsInjective(a)
  <2> SUFFICES ASSUME NEW i \in 1 .. n, NEW j \in 1 .. n, a[i] = a[j] PROVE i = j
    BY DEF IsInjective
  <2>1. a[i] \in Int /\ a[j] \in Int
    OBVIOUS
  <2> QED BY <2>1
<1>2. \A v \in 0 .. n - 1 : \E j \in 1 .. n : a[j] = v
  <2> DEFINE b == [j \in 1 .. n |-> a[j] + 1]
  <2>1. b \in [1 .. n -> 1 .. n]
    OBVIOUS
  <2>2. IsInjective(b)
    BY <1>1 DEF IsInjective
  <2>3. IsFiniteSet(1 .. n) /\ Cardinality(1 .. n) = n
    BY FS_Interval
  <2>4. \A k \in 1 .. n : \E j \in 1 .. n : b[j] = k
    <3> HIDE DEF b
    <3> QED BY <2>1, <2>2, <2>3, FullInjection
  <2> SUFFICES ASSUME NEW v \in 0 .. n - 1 PROVE \E j \in 1 .. n : a[j] = v
    OBVIOUS
  <2>5. PICK j \in 1 .. n : b[j] = v + 1
    BY <2>4
  <2>6. a[j] \in 0 .. n - 1 /\ a[j] + 1 = v + 1
    BY <2>5
  <2> QED BY <2>6
<1> SUFFICES ASSUME NEW k \in 1 .. n PROVE a[k] = k - 1
  OBVIOUS
<1> DEFINE S == 1 .. k - 1
           T == 0 .. a[k] - 1
           f == [i \in S |-> a[i]]
<1>3. a[k] \in 0 .. n - 1
  OBVIOUS
<1>4. f \in [S -> T]
  <2>1. ASSUME NEW i \in S PROVE a[i] \in T
    <3>1. i \in 1 .. n /\ i < k
      OBVIOUS
    <3>2. a[i] < a[k] /\ a[i] \in 0 .. n - 1
      BY <3>1
    <3> QED BY <1>3, <3>2
  <2> QED BY <2>1
<1>5. \A i, j \in S : f[i] = f[j] => i = j
  BY <1>1 DEF IsInjective
<1>6. \A v \in T : \E i \in S : f[i] = v
  <2> SUFFICES ASSUME NEW v \in T PROVE \E i \in S : a[i] = v
    OBVIOUS
  <2>1. v \in 0 .. n - 1 /\ v < a[k]
    BY <1>3
  <2>2. PICK j \in 1 .. n : a[j] = v
    BY <1>2, <2>1
  <2>3. ~(k < j) /\ j # k
    BY <1>3, <2>1, <2>2
  <2> QED BY <2>2, <2>3
<1>7. f \in Bijection(S, T)
  <2> HIDE DEF f, S, T
  <2> QED BY <1>4, <1>5, <1>6 DEF Bijection, Injection, Surjection, IsInjective
<1>8. IsFiniteSet(S) /\ Cardinality(S) = k - 1
  BY FS_Interval
<1>9. Cardinality(T) = a[k]
  <2>1. a[k] - 1 \in Int /\ 0 \in Int
    BY <1>3
  <2>2. Cardinality(0 .. a[k] - 1) = IF 0 > a[k] - 1 THEN 0 ELSE a[k] - 1 - 0 + 1
    BY <2>1, FS_Interval
  <2> QED BY <1>3, <2>2
<1>10. Cardinality(T) = Cardinality(S)
  <2> HIDE DEF f, S, T
  <2> QED BY <1>7, <1>8, FS_Bijection DEF ExistsBijection
<1> QED BY <1>8, <1>9, <1>10

------------------------------------------------------------------------------
(* The calendar.                                                             *)

\* nextWeekday: a name stands for the coming day of that name, a week ahead at
\* most and never today (quickAddParser.js 24-33).
THEOREM NextWeekdayComes ==
  ASSUME NEW n \in Int, NEW dow \in 0 .. 6
  PROVE  /\ NextWeekday(n, dow) \in n + 1 .. n + 7
         /\ GetDay(NextWeekday(n, dow)) = dow
<1> DEFINE delta == (dow - GetDay(n) + 7) % 7
<1>1. GetDay(n) \in 0 .. 6
  BY DEF GetDay
<1>2. delta \in 0 .. 6
  BY <1>1
<1>3. (n + 4 + delta) % 7 = dow
  BY <1>1 DEF GetDay
<1>4. CASE delta = 0
  BY <1>2, <1>3, <1>4 DEF NextWeekday, GetDay
<1>5. CASE delta # 0
  BY <1>2, <1>3, <1>5 DEF NextWeekday, GetDay
<1> QED BY <1>4, <1>5

\* A year has 365 days, or 366.
LEMMA YearLength ==
  ASSUME NEW y \in Int
  PROVE  DaysToYear(y + 1) = DaysToYear(y) + (IF Leap(y) THEN 366 ELSE 365)
<1>1. ((y + 1) - 1) = y
  OBVIOUS
<1>2. (y \div 4) - ((y - 1) \div 4) = IF y % 4 = 0 THEN 1 ELSE 0
  OBVIOUS
<1>3. (y \div 100) - ((y - 1) \div 100) = IF y % 100 = 0 THEN 1 ELSE 0
  OBVIOUS
<1>4. (y \div 400) - ((y - 1) \div 400) = IF y % 400 = 0 THEN 1 ELSE 0
  OBVIOUS
<1>5. (y % 400 = 0 => y % 100 = 0) /\ (y % 100 = 0 => y % 4 = 0)
  OBVIOUS
<1>6. DaysToYear(y) \in Int /\ DaysToYear(y + 1) \in Int
  BY DEF DaysToYear
<1> QED BY <1>1, <1>2, <1>3, <1>4, <1>5 DEF DaysToYear, Leap

\* The years from 1970 to a later one have between 365 and 366 days each, and so do
\* those from an earlier one.
LEMMA YearBounds ==
  ASSUME NEW j \in Int
  PROVE  /\ DaysToYear(1970 + j) \in Int
         /\ j >= 0 => 365 * j <= DaysToYear(1970 + j) /\ DaysToYear(1970 + j) <= 366 * j
         /\ j <= 0 => 366 * j <= DaysToYear(1970 + j) /\ DaysToYear(1970 + j) <= 365 * j
BY DEF DaysToYear

\* Later years begin later.
LEMMA YearsIncrease ==
  ASSUME NEW y \in Int, NEW z \in Int, y <= z
  PROVE  DaysToYear(y) <= DaysToYear(z)
<1>1. ((y - 1) \div 4) <= ((z - 1) \div 4)
  OBVIOUS
<1>2. ((z - 1) \div 100) - ((y - 1) \div 100) <= (z - y) + 1
  OBVIOUS
<1>3. ((y - 1) \div 400) <= ((z - 1) \div 400)
  OBVIOUS
<1> QED BY <1>1, <1>2, <1>3 DEF DaysToYear

\* The months follow each other, and the thirteenth is January of the next year.
LEMMA Months ==
  ASSUME NEW y \in Int
  PROVE  /\ MonthStart(y, 1) = DaysToYear(y) /\ MonthStart(y, 13) = DaysToYear(y + 1)
         /\ \A m \in 1 .. 13 : MonthStart(y, m) \in Int
         /\ \A m \in 1 .. 12 : MonthStart(y, m + 1) \in Int /\ MonthStart(y, m) < MonthStart(y, m + 1)
<1> DEFINE D == DaysToYear(y)
           l == IF Leap(y) THEN 1 ELSE 0
<1>1. D \in Int /\ DaysToYear(y + 1) = D + 365 + l /\ l \in 0 .. 1
  BY YearLength DEF DaysToYear
<1>2. \A m \in 1 .. 12 : ((m - 1) \div 12) = 0 /\ ((m - 1) % 12) + 1 = m
  OBVIOUS
<1>3. ((13 - 1) \div 12) = 1 /\ ((13 - 1) % 12) + 1 = 1
  OBVIOUS
<1>4. \A m \in 1 .. 12 : MonthStart(y, m) = D + DaysToMonth[m] + (IF m > 2 THEN l ELSE 0)
  <2> TAKE m \in 1 .. 12
  <2>1. y + 0 = y
    OBVIOUS
  <2>2. (IF m > 2 /\ Leap(y) THEN 1 ELSE 0) = (IF m > 2 THEN l ELSE 0)
    OBVIOUS
  <2> HIDE DEF l
  <2> QED BY <1>2, <2>1, <2>2, Zenon DEF MonthStart
<1>5. MonthStart(y, 13) = DaysToYear(y + 1)
  <2>1. DaysToMonth[1] = 0
    BY DEF DaysToMonth
  <2>2. DaysToYear(y + 1) \in Int
    BY <1>1
  <2> QED BY <1>3, <2>1, <2>2 DEF MonthStart
<1> HIDE DEF D, l
<1>6. /\ MonthStart(y, 1) = D /\ MonthStart(y, 2) = D + 31
      /\ MonthStart(y, 3) = D + 59 + l /\ MonthStart(y, 4) = D + 90 + l
      /\ MonthStart(y, 5) = D + 120 + l /\ MonthStart(y, 6) = D + 151 + l
      /\ MonthStart(y, 7) = D + 181 + l /\ MonthStart(y, 8) = D + 212 + l
      /\ MonthStart(y, 9) = D + 243 + l /\ MonthStart(y, 10) = D + 273 + l
      /\ MonthStart(y, 11) = D + 304 + l /\ MonthStart(y, 12) = D + 334 + l
  BY <1>1, <1>4 DEF DaysToMonth
<1>7. MonthStart(y, 13) = D + 365 + l
  BY <1>1, <1>5
<1>8. \A m \in 1 .. 13 : m \in {1, 2, 3, 4, 5, 6, 7, 8, 9, 10, 11, 12, 13}
  OBVIOUS
<1>9. \A m \in 1 .. 13 : MonthStart(y, m) \in Int
  BY <1>1, <1>6, <1>7, <1>8
<1>10. \A m \in 1 .. 12 : MonthStart(y, m + 1) \in Int /\ MonthStart(y, m) < MonthStart(y, m + 1)
  BY <1>1, <1>6, <1>7, <1>8
<1> QED BY <1>5, <1>6, <1>9, <1>10 DEF D

\* A month starts on a day, and the next one later.
LEMMA MonthGiven ==
  ASSUME NEW y \in Int, NEW m \in 1 .. 12
  PROVE  MonthStart(y, m) \in Int /\ MonthStart(y, m + 1) \in Int /\ MonthStart(y, m) < MonthStart(y, m + 1)
<1>1. m \in 1 .. 13
  OBVIOUS
<1> QED BY <1>1, Months

\* Later months begin later, within a year and its January after.
LEMMA MonthsIncrease ==
  ASSUME NEW y \in Int, NEW m \in 1 .. 13, NEW k \in 1 .. 13, m <= k
  PROVE  MonthStart(y, m) <= MonthStart(y, k)
<1> DEFINE s(i) == MonthStart(y, i)
<1>1. s(1) \in Int /\ s(2) \in Int /\ s(3) \in Int /\ s(4) \in Int /\ s(5) \in Int /\ s(6) \in Int
      /\ s(7) \in Int /\ s(8) \in Int /\ s(9) \in Int /\ s(10) \in Int /\ s(11) \in Int
      /\ s(12) \in Int /\ s(13) \in Int
  BY Months
<1>2. s(1) < s(2) /\ s(2) < s(3) /\ s(3) < s(4) /\ s(4) < s(5) /\ s(5) < s(6) /\ s(6) < s(7)
      /\ s(7) < s(8) /\ s(8) < s(9) /\ s(9) < s(10) /\ s(10) < s(11) /\ s(11) < s(12) /\ s(12) < s(13)
  <2>1. \A i \in 1 .. 12 : s(i) < s(i + 1)
    BY Months
  <2> HIDE DEF s
  <2>2. s(1) < s(1 + 1) /\ s(2) < s(2 + 1) /\ s(3) < s(3 + 1) /\ s(4) < s(4 + 1) /\ s(5) < s(5 + 1)
        /\ s(6) < s(6 + 1) /\ s(7) < s(7 + 1) /\ s(8) < s(8 + 1) /\ s(9) < s(9 + 1)
        /\ s(10) < s(10 + 1) /\ s(11) < s(11 + 1) /\ s(12) < s(12 + 1)
    BY <2>1
  <2> QED BY <2>2
<1> HIDE DEF s
<1>3. m \in {1, 2, 3, 4, 5, 6, 7, 8, 9, 10, 11, 12, 13}
  OBVIOUS
<1>4. k \in {1, 2, 3, 4, 5, 6, 7, 8, 9, 10, 11, 12, 13}
  OBVIOUS
<1>5. s(m) <= s(k)
  BY <1>1, <1>2, <1>3, <1>4
<1> QED BY <1>5 DEF s

\* Every day lies in one month of one year.
Holds(y, m, n) == MonthStart(y, m) <= n /\ n < MonthStart(y, m + 1)

\* A day lies in one year only.
LEMMA OneYear ==
  ASSUME NEW n \in Int, NEW y \in Int, NEW z \in Int,
         DaysToYear(y) <= n, n < DaysToYear(y + 1), DaysToYear(z) <= n, n < DaysToYear(z + 1)
  PROVE  y = z
<1>1. /\ DaysToYear(y) \in Int /\ DaysToYear(y + 1) \in Int
      /\ DaysToYear(z) \in Int /\ DaysToYear(z + 1) \in Int
  BY DEF DaysToYear
<1>2. CASE y < z
  BY <1>1, <1>2, YearsIncrease
<1>3. CASE z < y
  BY <1>1, <1>3, YearsIncrease
<1> QED BY <1>2, <1>3

\* A day lies in one month only.
LEMMA OneMonth ==
  ASSUME NEW n \in Int, NEW y \in Int, NEW m \in 1 .. 12, NEW k \in 1 .. 12,
         Holds(y, m, n), Holds(y, k, n)
  PROVE  m = k
<1>1. /\ MonthStart(y, m) \in Int /\ MonthStart(y, m + 1) \in Int
      /\ MonthStart(y, k) \in Int /\ MonthStart(y, k + 1) \in Int
  BY MonthGiven
<1>2. CASE m < k
  <2>1. MonthStart(y, m + 1) <= MonthStart(y, k)
    BY <1>2, MonthsIncrease
  <2> QED BY <1>1, <2>1 DEF Holds
<1>3. CASE k < m
  <2>1. MonthStart(y, k + 1) <= MonthStart(y, m)
    BY <1>3, MonthsIncrease
  <2> QED BY <1>1, <2>1 DEF Holds
<1> QED BY <1>2, <1>3

\* A day of a month lies in the year of the month.
LEMMA HeldByYear ==
  ASSUME NEW n \in Int, NEW y \in Int, NEW m \in 1 .. 12, Holds(y, m, n)
  PROVE  DaysToYear(y) <= n /\ n < DaysToYear(y + 1)
<1>1. MonthStart(y, 1) <= MonthStart(y, m) /\ MonthStart(y, m + 1) <= MonthStart(y, 13)
  BY MonthsIncrease
<1>2. /\ MonthStart(y, 1) \in Int /\ MonthStart(y, m) \in Int
      /\ MonthStart(y, m + 1) \in Int /\ MonthStart(y, 13) \in Int
  <2>1. 1 \in 1 .. 13 /\ 13 \in 1 .. 13
    OBVIOUS
  <2> QED BY <2>1, MonthGiven, Months
<1>3. MonthStart(y, 1) = DaysToYear(y) /\ MonthStart(y, 13) = DaysToYear(y + 1)
  BY Months
<1> QED BY <1>1, <1>2, <1>3 DEF Holds

\* The bounds toISO chooses the year from hold it.
LEMMA YearFound ==
  ASSUME NEW n \in Int
  PROVE  \E k \in (1970 + (n \div 366) .. 1970 + (n \div 365)) \cup (1970 + (n \div 365) .. 1970 + (n \div 366)) :
           DaysToYear(k) <= n /\ n < DaysToYear(k + 1)
<1> DEFINE lo == IF n >= 0 THEN 1970 + (n \div 366) ELSE 1970 + (n \div 365)
           hi == IF n >= 0 THEN 1970 + (n \div 365) ELSE 1970 + (n \div 366)
           S == {k \in lo .. hi : DaysToYear(k) <= n}
<1>1. (n \div 365) \in Int /\ (n \div 366) \in Int
  OBVIOUS
<1>2. /\ 365 * (n \div 365) <= n /\ n < 365 * (n \div 365) + 365
      /\ 366 * (n \div 366) <= n /\ n < 366 * (n \div 366) + 366
  OBVIOUS
<1>3. lo \in Int /\ hi \in Int /\ lo <= hi
  BY <1>1, <1>2
<1>4. DaysToYear(lo) <= n
  <2>1. CASE n >= 0
    <3>1. DaysToYear(1970 + (n \div 366)) <= 366 * (n \div 366)
      BY <1>1, <1>2, <2>1, YearBounds
    <3>2. DaysToYear(1970 + (n \div 366)) \in Int
      BY <1>1, YearBounds
    <3> QED BY <1>1, <1>2, <2>1, <3>1, <3>2
  <2>2. CASE n < 0
    <3>1. DaysToYear(1970 + (n \div 365)) <= 365 * (n \div 365)
      BY <1>1, <1>2, <2>2, YearBounds
    <3>2. DaysToYear(1970 + (n \div 365)) \in Int
      BY <1>1, YearBounds
    <3> QED BY <1>1, <1>2, <2>2, <3>1, <3>2
  <2> QED BY <2>1, <2>2
<1>5. n < DaysToYear(hi + 1)
  <2>1. CASE n >= 0
    <3>1. 365 * ((n \div 365) + 1) <= DaysToYear(1970 + ((n \div 365) + 1))
      BY <1>1, <1>2, <2>1, YearBounds
    <3>2. DaysToYear(1970 + ((n \div 365) + 1)) \in Int
      BY <1>1, YearBounds
    <3>3. hi + 1 = 1970 + ((n \div 365) + 1)
      BY <1>1, <2>1
    <3> HIDE DEF hi
    <3> QED BY <1>1, <1>2, <3>1, <3>2, <3>3
  <2>2. CASE n < 0
    <3>1. 366 * ((n \div 366) + 1) <= DaysToYear(1970 + ((n \div 366) + 1))
      BY <1>1, <1>2, <2>2, YearBounds
    <3>2. DaysToYear(1970 + ((n \div 366) + 1)) \in Int
      BY <1>1, YearBounds
    <3>3. hi + 1 = 1970 + ((n \div 366) + 1)
      BY <1>1, <2>2
    <3> HIDE DEF hi
    <3> QED BY <1>1, <1>2, <3>1, <3>2, <3>3
  <2> QED BY <2>1, <2>2
<1>6. lo .. hi \subseteq (1970 + (n \div 366) .. 1970 + (n \div 365)) \cup (1970 + (n \div 365) .. 1970 + (n \div 366))
  BY <1>1
<1> HIDE DEF lo, hi
<1>7. S \in SUBSET Int /\ IsFiniteSet(S) /\ S # {}
  <2>1. IsFiniteSet(lo .. hi)
    BY <1>3, FS_Interval
  <2>2. S \in SUBSET (lo .. hi)
    OBVIOUS
  <2>3. IsFiniteSet(S)
    BY <2>1, <2>2, FS_Subset
  <2>4. lo \in S
    BY <1>3, <1>4
  <2> QED BY <1>3, <2>3, <2>4
<1>8. PICK k \in S : \A x \in S : k >= x
  <2> HIDE DEF S
  <2> QED BY <1>7, GreatestExists
<1>9. k \in Int /\ k >= lo /\ k <= hi
  BY <1>3, <1>8
<1>10. n < DaysToYear(k + 1)
  <2>1. CASE k = hi
    BY <1>5, <2>1
  <2>2. CASE k # hi
    <3>1. k + 1 \in lo .. hi
      BY <1>3, <1>9, <2>2
    <3>2. k + 1 \notin S
      BY <1>8, <1>9
    <3>3. DaysToYear(k + 1) \in Int
      BY <1>9 DEF DaysToYear
    <3> QED BY <3>1, <3>2, <3>3
  <2> QED BY <2>1, <2>2
<1> QED BY <1>6, <1>8, <1>10

\* Every day of a year lies in one of its twelve months.
LEMMA MonthFound ==
  ASSUME NEW n \in Int, NEW y \in Int, DaysToYear(y) <= n, n < DaysToYear(y + 1)
  PROVE  \E m \in 1 .. 12 : Holds(y, m, n)
<1> DEFINE S == {m \in 1 .. 12 : MonthStart(y, m) <= n}
<1>1. S \in SUBSET Int /\ IsFiniteSet(S) /\ S # {}
  <2>1. IsFiniteSet(1 .. 12)
    <3>1. 1 \in Int /\ 12 \in Int
      OBVIOUS
    <3> QED BY <3>1, FS_Interval
  <2>2. S \in SUBSET (1 .. 12)
    OBVIOUS
  <2>3. IsFiniteSet(S)
    BY <2>1, <2>2, FS_Subset
  <2>4. 1 \in S
    BY Months
  <2> QED BY <2>2, <2>3, <2>4
<1>2. PICK k \in S : \A x \in S : k >= x
  <2> HIDE DEF S
  <2> QED BY <1>1, GreatestExists
<1>3. k \in 1 .. 12 /\ MonthStart(y, k) <= n
  BY <1>2
<1>4. n < MonthStart(y, k + 1)
  <2>1. CASE k = 12
    BY <2>1, Months
  <2>2. CASE k # 12
    <3>1. k + 1 \in 1 .. 12
      BY <1>3, <2>2
    <3>2. k + 1 \notin S
      BY <1>2, <1>3
    <3>3. MonthStart(y, k + 1) \in Int
      BY <3>1, Months
    <3> QED BY <3>1, <3>2, <3>3
  <2> QED BY <2>1, <2>2
<1> QED BY <1>3, <1>4 DEF Holds

\* What toISO writes is the month that holds the day.
LEMMA WrittenAs ==
  ASSUME NEW n \in Int, NEW y \in Int, NEW m \in 1 .. 12, Holds(y, m, n)
  PROVE  ToISO(n) = <<y, m, n - MonthStart(y, m) + 1>>
<1> DEFINE K == (1970 + (n \div 366) .. 1970 + (n \div 365)) \cup (1970 + (n \div 365) .. 1970 + (n \div 366))
           Y == CHOOSE k \in K : DaysToYear(k) <= n /\ n < DaysToYear(k + 1)
           M == CHOOSE k \in 1 .. 12 : MonthStart(Y, k) <= n /\ n < MonthStart(Y, k + 1)
<1>1. ToISO(n) = <<Y, M, n - MonthStart(Y, M) + 1>>
  BY DEF ToISO
<1>2. \E k \in K : DaysToYear(k) <= n /\ n < DaysToYear(k + 1)
  BY YearFound
<1>3. \A k \in K : k \in Int
  OBVIOUS
<1>4. Y \in Int /\ DaysToYear(Y) <= n /\ n < DaysToYear(Y + 1)
  <2> HIDE DEF K
  <2> QED BY <1>2, <1>3
<1> HIDE DEF Y
<1>5. Y = y
  BY <1>4, HeldByYear, OneYear
<1>6. \E k \in 1 .. 12 : MonthStart(Y, k) <= n /\ n < MonthStart(Y, k + 1)
  BY <1>4, MonthFound DEF Holds
<1>7. M \in 1 .. 12 /\ Holds(Y, M, n)
  BY <1>6 DEF Holds
<1> HIDE DEF M
<1>8. M = m
  BY <1>5, <1>7, OneMonth
<1> QED BY <1>1, <1>5, <1>8

\* toISO writes the year and the month that hold the day.
LEMMA Written ==
  ASSUME NEW n \in Int
  PROVE  \E y \in Int, m \in 1 .. 12 :
           Holds(y, m, n) /\ ToISO(n) = <<y, m, n - MonthStart(y, m) + 1>>
<1>1. PICK y \in Int : DaysToYear(y) <= n /\ n < DaysToYear(y + 1)
  <2>1. \A k \in (1970 + (n \div 366) .. 1970 + (n \div 365)) \cup (1970 + (n \div 365) .. 1970 + (n \div 366)) : k \in Int
    OBVIOUS
  <2> QED BY <2>1, YearFound
<1>2. PICK m \in 1 .. 12 : Holds(y, m, n)
  BY <1>1, MonthFound
<1> QED BY <1>2, WrittenAs

\* The date that is read is the date that is written: for every valid date from the
\* year 100 on, new Date and toISO lose nothing (quickAddParser.js 9-16, 50-55).
THEOREM DatesWrittenAsRead ==
  ASSUME NEW y \in Int, NEW m \in Int, NEW d \in Int, y >= 100, Valid(<<y, m, d>>)
  PROVE  NewDate(y, m, d) \in Int /\ ToISO(NewDate(y, m, d)) = <<y, m, d>>
<1> DEFINE n == NewDate(y, m, d)
<1>1. m \in 1 .. 12 /\ d >= 1 /\ d <= MonthStart(y, m + 1) - MonthStart(y, m)
  BY DEF Valid
<1>2. MonthStart(y, m) \in Int /\ MonthStart(y, m + 1) \in Int
  BY <1>1, MonthGiven
<1>3. n = MonthStart(y, m) + d - 1
  BY DEF NewDate
<1>4. n \in Int /\ Holds(y, m, n)
  BY <1>1, <1>2, <1>3 DEF Holds
<1>5. ToISO(n) = <<y, m, n - MonthStart(y, m) + 1>>
  BY <1>1, <1>4, WrittenAs
<1> QED BY <1>2, <1>3, <1>4, <1>5

\* Dates compare as their days do, so that the views and "overdue" may compare what
\* toISO wrote (routes/tasks.js 158-165, format.js 6-9).
THEOREM DatesCompareAsDays ==
  ASSUME NEW a \in Int, NEW b \in Int
  PROVE  /\ Before(ToISO(a), ToISO(b)) <=> a < b
         /\ ToISO(a) = ToISO(b) => a = b
<1>1. PICK y \in Int, m \in 1 .. 12 : Holds(y, m, a) /\ ToISO(a) = <<y, m, a - MonthStart(y, m) + 1>>
  BY Written
<1>2. PICK z \in Int, k \in 1 .. 12 : Holds(z, k, b) /\ ToISO(b) = <<z, k, b - MonthStart(z, k) + 1>>
  BY Written
<1>3. MonthStart(y, m) \in Int /\ MonthStart(z, k) \in Int /\ MonthStart(y, m + 1) \in Int /\ MonthStart(z, k + 1) \in Int
  BY MonthGiven
<1> DEFINE Precede == \/ y < z
                      \/ y = z /\ m < k
                      \/ y = z /\ m = k /\ a - MonthStart(y, m) + 1 < b - MonthStart(z, k) + 1
<1>4. Before(ToISO(a), ToISO(b)) <=> Precede
  <2>1. ToISO(a)[1] = y /\ ToISO(a)[2] = m /\ ToISO(a)[3] = a - MonthStart(y, m) + 1
    BY <1>1
  <2>2. ToISO(b)[1] = z /\ ToISO(b)[2] = k /\ ToISO(b)[3] = b - MonthStart(z, k) + 1
    BY <1>2
  <2> QED BY <2>1, <2>2, Zenon DEF Before
<1>5. ASSUME NEW n \in Int, NEW l \in Int, NEW yy \in Int, NEW zz \in Int, NEW mm \in 1 .. 12, NEW kk \in 1 .. 12,
             Holds(yy, mm, n), Holds(zz, kk, l), yy < zz
      PROVE  n < l
  <2>1. n < DaysToYear(yy + 1) /\ DaysToYear(zz) <= l
    BY <1>5, HeldByYear
  <2>2. DaysToYear(yy + 1) <= DaysToYear(zz)
    BY <1>5, YearsIncrease
  <2>3. DaysToYear(yy + 1) \in Int /\ DaysToYear(zz) \in Int
    BY DEF DaysToYear
  <2> QED BY <2>1, <2>2, <2>3
<1>6. ASSUME NEW n \in Int, NEW l \in Int, NEW mm \in 1 .. 12, NEW kk \in 1 .. 12,
             Holds(y, mm, n), Holds(y, kk, l), mm < kk
      PROVE  n < l
  <2>1. MonthStart(y, mm + 1) <= MonthStart(y, kk)
    BY <1>6, MonthsIncrease
  <2>2. MonthStart(y, mm + 1) \in Int /\ MonthStart(y, kk) \in Int
    BY MonthGiven
  <2> QED BY <1>6, <2>1, <2>2 DEF Holds
<1>7. ToISO(a) = ToISO(b) => y = z /\ m = k /\ a - MonthStart(y, m) + 1 = b - MonthStart(z, k) + 1
  BY <1>1, <1>2
<1>8. ToISO(a) = ToISO(b) => a = b
  BY <1>3, <1>7
<1>9. ASSUME y < z PROVE Precede <=> a < b
  <2>1. a < b
    BY <1>1, <1>2, <1>5, <1>9
  <2> QED BY <1>9, <2>1
<1>10. ASSUME z < y PROVE Precede <=> a < b
  <2>1. b < a
    BY <1>1, <1>2, <1>5, <1>10
  <2> QED BY <1>10, <2>1
<1>11. ASSUME y = z PROVE Precede <=> a < b
  <2>1. CASE m < k
    <3>1. a < b
      BY <1>1, <1>2, <1>6, <1>11, <2>1
    <3> QED BY <1>11, <2>1, <3>1
  <2>2. CASE k < m
    <3>1. b < a
      BY <1>1, <1>2, <1>6, <1>11, <2>2
    <3> QED BY <1>11, <2>2, <3>1
  <2>3. CASE m = k
    BY <1>3, <1>11, <2>3
  <2> QED BY <2>1, <2>2, <2>3
<1>12. Precede <=> a < b
  BY <1>9, <1>10, <1>11
<1> QED BY <1>4, <1>8, <1>12, Zenon

------------------------------------------------------------------------------
(* Taking pieces out of a line.                                              *)

\* The first and the last of some places.
LEMMA OuterPlaces ==
  ASSUME NEW n \in Int, NEW S \in SUBSET (1 .. n), S # {}
  PROVE  /\ \E x \in S : \A y \in S : x <= y
         /\ \E x \in S : \A y \in S : y <= x
<1> DEFINE T == {x \in -n .. -1 : -x \in S}
<1>1. IsFiniteSet(1 .. n) /\ IsFiniteSet(-n .. -1)
  <2>1. 1 \in Int /\ -1 \in Int /\ -n \in Int
    OBVIOUS
  <2> QED BY <2>1, FS_Interval
<1>2. IsFiniteSet(S) /\ S \subseteq Int
  <2>1. IsFiniteSet(S)
    BY <1>1, FS_Subset
  <2>2. \A x \in 1 .. n : x \in Int
    OBVIOUS
  <2> QED BY <2>1, <2>2
<1>3. PICK x \in S : \A y \in S : x >= y
  BY <1>2, GreatestExists
<1>4. T \in SUBSET Int /\ T # {} /\ IsFiniteSet(T)
  <2>1. T \in SUBSET (-n .. -1) /\ T \subseteq Int
    OBVIOUS
  <2>2. PICK y \in S : TRUE
    OBVIOUS
  <2>3. -y \in -n .. -1 /\ -(-y) = y
    BY <1>2
  <2> QED BY <1>1, <2>1, <2>2, <2>3, FS_Subset
<1>5. PICK z \in T : \A y \in T : z >= y
  <2> HIDE DEF T
  <2> QED BY <1>4, GreatestExists
<1>6. ASSUME NEW y \in S PROVE -z <= y
  <2>1. y \in 1 .. n
    OBVIOUS
  <2>2. -y \in -n .. -1 /\ -(-y) = y
    BY <2>1
  <2>3. -y \in T
    BY <2>2
  <2>4. z >= -y /\ z \in Int
    BY <1>5, <2>3
  <2> QED BY <2>1, <2>4
<1>7. -z \in S
  BY <1>5
<1>8. \A y \in S : y <= x
  BY <1>2, <1>3
<1> QED BY <1>6, <1>7, <1>8

\* Nth numbers the places in their order.
LEMMA NthInOrder ==
  ASSUME NEW n \in Int, NEW K \in SUBSET (1 .. n)
  PROVE  /\ Cardinality(K) \in Nat
         /\ \A i \in 1 .. Cardinality(K) : Nth(K, i) \in K
         /\ \A i, j \in 1 .. Cardinality(K) : i < j => Nth(K, i) < Nth(K, j)
         /\ \A k \in K : \E i \in 1 .. Cardinality(K) : Nth(K, i) = k
<1> DEFINE R == {p \in K \X K : p[1] < p[2]}
           c == Cardinality(K)
<1>1. IsFiniteSet(K) /\ c \in Nat /\ K \subseteq Int
  <2>1. IsFiniteSet(1 .. n)
    <3>1. 1 \in Int
      OBVIOUS
    <3> QED BY <3>1, FS_Interval
  <2>2. IsFiniteSet(K)
    BY <2>1, FS_Subset
  <2> QED BY <2>2, FS_CardinalityType
<1>2. \A x, y \in K : <<x, y>> \in R <=> x < y
  OBVIOUS
<1>3. /\ \A x \in K : <<x, x>> \notin R
      /\ \A x, y, z \in K : <<x, y>> \in R /\ <<y, z>> \in R => <<x, z>> \in R
      /\ \A x, y \in K : x # y => <<x, y>> \in R \/ <<y, x>> \in R
  <2> HIDE DEF R
  <2> QED BY <1>1, <1>2
<1>4. \A x \in K : {y \in K : <<y, x>> \in R} = {y \in K : y < x}
  BY <1>2
<1> HIDE DEF R
<1>5. PICK r \in [K -> 1 .. c] :
        /\ \A x, y \in K : <<x, y>> \in R <=> r[x] < r[y]
        /\ \A k \in 1 .. c : \E x \in K : r[x] = k
        /\ \A x \in K : Cardinality({y \in K : <<y, x>> \in R}) = r[x] - 1
  BY <1>1, <1>3, RanksExist, ZenonT(30)
<1>6. \A x \in K : r[x] \in 1 .. c /\ Cardinality({y \in K : y < x}) = r[x] - 1
  BY <1>4, <1>5
<1>7. ASSUME NEW i \in 1 .. c PROVE Nth(K, i) \in K /\ r[Nth(K, i)] = i
  <2>1. PICK x \in K : r[x] = i
    BY <1>5
  <2>2. Cardinality({y \in K : y < x}) = i - 1
    BY <1>6, <2>1
  <2>3. Nth(K, i) \in K /\ Cardinality({y \in K : y < Nth(K, i)}) = i - 1
    BY <2>2, Zenon DEF Nth
  <2>4. r[Nth(K, i)] - 1 = i - 1 /\ r[Nth(K, i)] \in 1 .. c
    BY <1>6, <2>3
  <2> QED BY <1>1, <2>3, <2>4
<1>8. \A x, y \in K : r[x] < r[y] => x < y
  BY <1>2, <1>5
<1>9. \A x, y \in K : r[x] = r[y] => x = y
  <2> SUFFICES ASSUME NEW x \in K, NEW y \in K, r[x] = r[y] PROVE x = y
    OBVIOUS
  <2>1. ~(r[x] < r[y]) /\ ~(r[y] < r[x])
    BY <1>1, <1>6
  <2>2. ~(x < y) /\ ~(y < x)
    BY <1>2, <1>5, <2>1
  <2> QED BY <1>1, <2>2
<1>10. \A i, j \in 1 .. c : i < j => Nth(K, i) < Nth(K, j)
  <2> SUFFICES ASSUME NEW i \in 1 .. c, NEW j \in 1 .. c, i < j PROVE Nth(K, i) < Nth(K, j)
    OBVIOUS
  <2>1. r[Nth(K, i)] < r[Nth(K, j)]
    BY <1>7
  <2> QED BY <1>7, <1>8, <2>1
<1>11. \A k \in K : \E i \in 1 .. c : Nth(K, i) = k
  <2> SUFFICES ASSUME NEW k \in K PROVE Nth(K, r[k]) = k
    BY <1>6
  <2> QED BY <1>6, <1>7, <1>9
<1> QED BY <1>1, <1>7, <1>10, <1>11

\* A word ends before the next space.
LEMMA WordEnds ==
  ASSUME NEW s \in Seq(Pieces), NEW i \in 1 .. Len(s) + 1
  PROVE  /\ WordEnd(s, i) \in i - 1 .. Len(s)
         /\ IsSpace(s, WordEnd(s, i) + 1)
         /\ \A k \in i .. WordEnd(s, i) : ~IsSpace(s, k)
<1> DEFINE S == {e \in i - 1 .. Len(s) : \A k \in i .. e : ~IsSpace(s, k)}
<1>1. Len(s) \in Nat /\ DOMAIN s = 1 .. Len(s)
  BY LenProperties
<1>2. i - 1 \in S
  BY <1>1
<1>3. S \in SUBSET Int /\ IsFiniteSet(S) /\ S # {}
  <2>1. IsFiniteSet(i - 1 .. Len(s))
    <3>1. i - 1 \in Int /\ Len(s) \in Int
      BY <1>1
    <3> QED BY <3>1, FS_Interval
  <2>2. S \in SUBSET (i - 1 .. Len(s))
    OBVIOUS
  <2>3. S \subseteq Int
    BY <1>1
  <2> QED BY <1>2, <2>1, <2>2, <2>3, FS_Subset
<1>4. PICK e \in S : \A x \in S : e >= x
  <2> HIDE DEF S
  <2> QED BY <1>3, GreatestExists
<1>5. e \in i - 1 .. Len(s) /\ \A k \in i .. e : ~IsSpace(s, k)
  BY <1>4
<1> HIDE DEF S
<1>6. IsSpace(s, e + 1)
  <2>1. CASE e = Len(s)
    BY <1>1, <2>1 DEF IsSpace
  <2>2. CASE e # Len(s)
    <3>1. e + 1 \in i - 1 .. Len(s) /\ e \in Int
      <4>1. i \in Int /\ e \in Int /\ e >= i - 1 /\ e <= Len(s)
        BY <1>1, <1>5
      <4>2. e + 1 >= i - 1 /\ e + 1 <= Len(s)
        <5>1. Len(s) \in Int
          BY <1>1
        <5>2. \A a, b, l \in Int : a >= b - 1 /\ a <= l /\ a # l => a + 1 >= b - 1 /\ a + 1 <= l
          OBVIOUS
        <5> QED BY <2>2, <4>1, <5>1, <5>2, Zenon
      <4> QED BY <1>1, <4>1, <4>2
    <3>2. e + 1 \notin S
      BY <1>4, <3>1
    <3>3. \E k \in i .. e + 1 : IsSpace(s, k)
      BY <3>1, <3>2 DEF S
    <3>4. \A k \in i .. e + 1 : k \in i .. e \/ k = e + 1
      BY <3>1, <1>1
    <3> QED BY <1>5, <3>3, <3>4
  <2> QED BY <2>1, <2>2
<1>7. \E x \in i - 1 .. Len(s) : IsSpace(s, x + 1) /\ \A k \in i .. x : ~IsSpace(s, k)
  BY <1>5, <1>6
<1> QED BY <1>7, Zenon DEF WordEnd

\* r is what is left of s: its pieces stand at the places f of s, in their order.
Left(f, r, s) ==
  /\ r \in Seq(Pieces) /\ s \in Seq(Pieces)
  /\ f \in [1 .. Len(r) -> 1 .. Len(s)]
  /\ \A i, j \in 1 .. Len(r) : i < j => f[i] < f[j]
  /\ \A i \in 1 .. Len(r) : r[i] = s[f[i]]
Stands(f, r, k) == \E i \in 1 .. Len(r) : f[i] = k

\* The places of a line.
LEMMA PlacesOf ==
  ASSUME NEW s \in Seq(Pieces)
  PROVE  /\ Len(s) \in Nat /\ Len(s) \in Int /\ DOMAIN s = 1 .. Len(s)
         /\ \A i \in 1 .. Len(s) : s[i] \in Pieces
BY LenProperties, ElementOfSeq

\* The order of the places is the order of the pieces, and neighbours stay neighbours.
LEMMA LeftInOrder ==
  ASSUME NEW f, NEW r, NEW s, Left(f, r, s), NEW i \in 1 .. Len(r), NEW j \in 1 .. Len(r)
  PROVE  /\ f[i] < f[j] <=> i < j
         /\ f[i] = f[j] => i = j
         /\ f[j] = f[i] + 1 => j = i + 1
<1>1. Len(r) \in Int /\ Len(s) \in Int
  BY PlacesOf DEF Left
<1>2. \A k \in 1 .. Len(r) : f[k] \in Int
  BY <1>1 DEF Left
<1>3. \A k, l \in 1 .. Len(r) : k < l => f[k] < f[l]
  BY DEF Left
<1>4. i \in Int /\ j \in Int /\ f[i] \in Int /\ f[j] \in Int
  BY <1>1, <1>2
<1>5. (i < j => f[i] < f[j]) /\ (j < i => f[j] < f[i])
  BY <1>3
<1>6. f[i] < f[j] <=> i < j
  BY <1>4, <1>5
<1>7. f[i] = f[j] => i = j
  BY <1>4, <1>5
<1>8. ASSUME f[j] = f[i] + 1, j # i + 1 PROVE FALSE
  <2>1. i < j
    BY <1>4, <1>6, <1>8
  <2>2. i + 1 \in 1 .. Len(r) /\ i < i + 1 /\ i + 1 < j
    BY <1>1, <1>4, <1>8, <2>1
  <2>3. f[i] < f[i + 1] /\ f[i + 1] < f[j] /\ f[i + 1] \in Int
    BY <1>2, <1>3, <2>2
  <2> QED BY <1>4, <1>8, <2>3
<1> QED BY <1>6, <1>7, <1>8

\* The line stays lexed where a gap has a space or a sign on one side.
LEMMA LeftLexed ==
  ASSUME NEW f, NEW r, NEW s, Left(f, r, s), Lexed(s),
         \A i \in 1 .. Len(r) - 1 :
           f[i + 1] = f[i] + 1 \/ NoWord(s, f[i]) \/ NoWord(s, f[i + 1])
  PROVE  Lexed(r)
<1> SUFFICES ASSUME NEW i \in 1 .. Len(r) - 1 PROVE NoWord(r, i) \/ NoWord(r, i + 1)
  BY DEF Lexed
<1>1. Len(r) \in Int /\ Len(s) \in Int /\ DOMAIN r = 1 .. Len(r) /\ DOMAIN s = 1 .. Len(s)
  BY PlacesOf DEF Left
<1>2. i \in 1 .. Len(r) /\ i + 1 \in 1 .. Len(r)
  BY <1>1
<1>3. /\ f[i] \in 1 .. Len(s) /\ f[i + 1] \in 1 .. Len(s)
      /\ r[i] = s[f[i]] /\ r[i + 1] = s[f[i + 1]]
  BY <1>2 DEF Left
<1>4. (NoWord(s, f[i]) => NoWord(r, i)) /\ (NoWord(s, f[i + 1]) => NoWord(r, i + 1))
  BY <1>1, <1>2, <1>3 DEF NoWord
<1>5. CASE f[i + 1] = f[i] + 1
  <2>1. f[i] \in 1 .. Len(s) - 1
    BY <1>1, <1>3, <1>5
  <2>2. NoWord(s, f[i]) \/ NoWord(s, f[i] + 1)
    BY <2>1 DEF Lexed
  <2> QED BY <1>4, <1>5, <2>2
<1> QED BY <1>4, <1>5

\* Kept leaves exactly the pieces it is given, in their order.
LEMMA KeptLeft ==
  ASSUME NEW s \in Seq(Pieces), NEW K \in SUBSET (1 .. Len(s))
  PROVE  \E f : /\ Left(f, Kept(s, K), s)
                /\ \A k \in 1 .. Len(s) : Stands(f, Kept(s, K), k) <=> k \in K
<1> DEFINE c == Cardinality(K)
           r == Kept(s, K)
           f == [i \in 1 .. c |-> Nth(K, i)]
<1>1. Len(s) \in Int /\ \A i \in 1 .. Len(s) : s[i] \in Pieces
  BY PlacesOf
<1>2. /\ c \in Nat
      /\ \A i \in 1 .. c : Nth(K, i) \in K
      /\ \A i, j \in 1 .. c : i < j => Nth(K, i) < Nth(K, j)
      /\ \A k \in K : \E i \in 1 .. c : Nth(K, i) = k
  BY <1>1, NthInOrder
<1>3. r = [i \in 1 .. c |-> s[Nth(K, i)]]
  BY DEF Kept
<1>4. \A i \in 1 .. c : s[Nth(K, i)] \in Pieces
  BY <1>1, <1>2
<1> HIDE DEF c
<1>5. r \in Seq(Pieces) /\ Len(r) = c
  BY <1>2, <1>3, <1>4
<1> HIDE DEF r
<1>6. f \in [1 .. Len(r) -> 1 .. Len(s)]
  BY <1>2, <1>5
<1>7. \A i, j \in 1 .. Len(r) : i < j => f[i] < f[j]
  BY <1>2, <1>5
<1>8. \A i \in 1 .. Len(r) : r[i] = s[f[i]]
  BY <1>3, <1>5
<1>9. \A k \in 1 .. Len(s) : Stands(f, r, k) <=> k \in K
  BY <1>2, <1>5 DEF Stands
<1>10. Left(f, r, s)
  BY <1>5, <1>6, <1>7, <1>8 DEF Left
<1> QED BY <1>9, <1>10 DEF r

\* Without leaves exactly the pieces outside the gap.
LEMMA WithoutLeft ==
  ASSUME NEW s \in Seq(Pieces), NEW a \in 1 .. Len(s) + 1, NEW b \in a - 1 .. Len(s)
  PROVE  \E f : /\ Left(f, Without(s, a, b), s)
                /\ \A k \in 1 .. Len(s) : Stands(f, Without(s, a, b), k) <=> k \notin a .. b
                /\ \A i \in 1 .. Len(Without(s, a, b)) - 1 :
                     f[i + 1] = f[i] + 1 \/ (f[i] = a - 1 /\ f[i + 1] = b + 1)
<1> DEFINE l == Len(s)
           x == SubSeq(s, 1, a - 1)
           y == SubSeq(s, b + 1, l)
           r == x \o y
           g == b - a + 1
           f == [i \in 1 .. l - g |-> IF i < a THEN i ELSE i + g]
<1>1. l \in Nat /\ l \in Int /\ \A i \in 1 .. l : s[i] \in Pieces
  BY PlacesOf
<1>2. a \in Int /\ a >= 1 /\ a <= l + 1 /\ b \in Int /\ b >= a - 1 /\ b <= l
  BY <1>1
<1>3. x \in Seq(Pieces) /\ Len(x) = a - 1 /\ \A i \in 1 .. a - 1 : x[i] = s[i]
  <2> HIDE DEF l
  <2> QED BY <1>1, <1>2 DEF l
<1>4. y \in Seq(Pieces) /\ Len(y) = l - b /\ \A i \in 1 .. l - b : y[i] = s[b + i]
  BY <1>1, <1>2
<1> HIDE DEF x, y
<1>5. /\ r \in Seq(Pieces) /\ Len(r) = l - g
      /\ \A i \in 1 .. l - g : r[i] = IF i < a THEN x[i] ELSE y[i - (a - 1)]
  <2>1. /\ r \in Seq(Pieces) /\ Len(r) = Len(x) + Len(y)
        /\ \A i \in 1 .. Len(x) + Len(y) : r[i] = IF i <= Len(x) THEN x[i] ELSE y[i - Len(x)]
    BY <1>3, <1>4, ConcatProperties
  <2>2. Len(x) + Len(y) = l - g
    BY <1>1, <1>2, <1>3, <1>4
  <2>3. \A i \in 1 .. l - g : i <= Len(x) <=> i < a
    BY <1>1, <1>2, <1>3
  <2> QED BY <1>3, <2>1, <2>2, <2>3
<1> HIDE DEF r, l
<1>6. f \in [1 .. Len(r) -> 1 .. l]
  BY <1>1, <1>2, <1>5
<1>7. \A i, j \in 1 .. Len(r) : i < j => f[i] < f[j]
  BY <1>1, <1>2, <1>5
<1>8. \A i \in 1 .. Len(r) : r[i] = s[f[i]]
  BY <1>1, <1>2, <1>3, <1>4, <1>5
<1>9. Left(f, r, s)
  BY <1>5, <1>6, <1>7, <1>8 DEF Left, l
<1>10. \A k \in 1 .. l : Stands(f, r, k) <=> k \notin a .. b
  <2> SUFFICES ASSUME NEW k \in 1 .. l PROVE (\E i \in 1 .. l - g : f[i] = k) <=> k \notin a .. b
    BY <1>5 DEF Stands
  <2>1. ASSUME NEW i \in 1 .. l - g PROVE f[i] \notin a .. b
    BY <1>1, <1>2
  <2>2. CASE k < a
    <3>1. k \in 1 .. l - g /\ f[k] = k
      BY <1>1, <1>2, <2>2
    <3> QED BY <1>1, <1>2, <2>2, <3>1
  <2>3. CASE k > b
    <3>1. k - g \in 1 .. l - g /\ f[k - g] = k
      BY <1>1, <1>2, <2>3
    <3>2. k \notin a .. b
      BY <1>1, <1>2, <2>3
    <3> HIDE DEF f, g
    <3> QED BY <3>1, <3>2
  <2>4. k < a \/ k > b \/ k \in a .. b
    BY <1>1, <1>2
  <2> HIDE DEF f
  <2> QED BY <2>1, <2>2, <2>3, <2>4
<1>11. \A i \in 1 .. Len(r) - 1 : f[i + 1] = f[i] + 1 \/ (f[i] = a - 1 /\ f[i + 1] = b + 1)
  <2> SUFFICES ASSUME NEW i \in 1 .. l - g - 1
               PROVE  f[i + 1] = f[i] + 1 \/ (f[i] = a - 1 /\ f[i + 1] = b + 1)
    BY <1>5
  <2>1. i \in 1 .. l - g /\ i + 1 \in 1 .. l - g
    BY <1>1, <1>2
  <2>2. /\ f[i] = IF i < a THEN i ELSE i + g
        /\ f[i + 1] = IF i + 1 < a THEN i + 1 ELSE i + 1 + g
    BY <2>1
  <2> HIDE DEF f
  <2> QED BY <1>1, <1>2, <2>1, <2>2
<1>12. r = Without(s, a, b)
  BY DEF Without, From, r, x, y, l
<1> HIDE DEF f
<1> QED BY <1>9, <1>10, <1>11, <1>12 DEF l

\* Nothing taken: all is left.
LEMMA AllLeft ==
  ASSUME NEW s \in Seq(Pieces)
  PROVE  \E f : Left(f, s, s) /\ \A k \in 1 .. Len(s) : Stands(f, s, k)
<1> DEFINE f == [i \in 1 .. Len(s) |-> i]
<1>1. Left(f, s, s)
  BY DEF Left
<1>2. \A k \in 1 .. Len(s) : Stands(f, s, k)
  BY DEF Stands
<1> HIDE DEF f
<1> QED BY <1>1, <1>2

\* What is left of what is left.
LEMMA LeftOfLeft ==
  ASSUME NEW f, NEW g, NEW r, NEW s, NEW t, Left(f, r, s), Left(g, s, t)
  PROVE  \E h : /\ Left(h, r, t)
                /\ \A k \in 1 .. Len(t) :
                     Stands(h, r, k) <=> \E i \in 1 .. Len(s) : g[i] = k /\ Stands(f, r, i)
<1> DEFINE h == [i \in 1 .. Len(r) |-> g[f[i]]]
<1>1. f \in [1 .. Len(r) -> 1 .. Len(s)] /\ g \in [1 .. Len(s) -> 1 .. Len(t)]
  BY DEF Left
<1>2. h \in [1 .. Len(r) -> 1 .. Len(t)]
  BY <1>1
<1>3. \A i, j \in 1 .. Len(r) : i < j => h[i] < h[j]
  <2> SUFFICES ASSUME NEW i \in 1 .. Len(r), NEW j \in 1 .. Len(r), i < j PROVE g[f[i]] < g[f[j]]
    OBVIOUS
  <2>1. f[i] \in 1 .. Len(s) /\ f[j] \in 1 .. Len(s) /\ f[i] < f[j]
    BY DEF Left
  <2> QED BY <2>1 DEF Left
<1>4. \A i \in 1 .. Len(r) : r[i] = t[h[i]]
  <2> SUFFICES ASSUME NEW i \in 1 .. Len(r) PROVE r[i] = t[g[f[i]]]
    OBVIOUS
  <2>1. f[i] \in 1 .. Len(s) /\ r[i] = s[f[i]]
    BY DEF Left
  <2> QED BY <2>1 DEF Left
<1>5. Left(h, r, t)
  <2> HIDE DEF h
  <2> QED BY <1>2, <1>3, <1>4 DEF Left
<1>6. \A k \in 1 .. Len(t) : Stands(h, r, k) <=> \E i \in 1 .. Len(s) : g[i] = k /\ Stands(f, r, i)
  <2> SUFFICES ASSUME NEW k \in 1 .. Len(t)
               PROVE  (\E i \in 1 .. Len(r) : g[f[i]] = k)
                        <=> \E i \in 1 .. Len(s) : g[i] = k /\ \E j \in 1 .. Len(r) : f[j] = i
    BY DEF Stands
  <2> QED BY <1>1
<1> HIDE DEF h
<1> QED BY <1>5, <1>6

\* The priority takes a pN and the space before it, and no more.
LEMMA PriorityTaken ==
  ASSUME NEW s \in Seq(Pieces), Lexed(s), NEW ps
  PROVE  LET r == PriorityOf(s, ps).text IN
         /\ Lexed(r)
         /\ \E f : /\ Left(f, r, s)
                   /\ \A k \in 1 .. Len(s) :
                        \/ Stands(f, r, k) \/ s[k].k = "p"
                        \/ s[k].k = "space" /\ k + 1 \in 1 .. Len(s) /\ s[k + 1].k = "p"
<1> DEFINE r == PriorityOf(s, ps).text
           alone == {i \in DOMAIN s : s[i].k = "p" /\ IsSpace(s, i - 1) /\ IsSpace(s, i + 1)}
           first == CHOOSE j \in alone : \A k \in alone : j <= k
           a == IF first = 1 THEN 1 ELSE first - 1
<1>1. Len(s) \in Int /\ DOMAIN s = 1 .. Len(s)
  BY PlacesOf
<1>2. r = IF alone = {} THEN s ELSE Without(s, a, first)
  BY DEF PriorityOf
<1>3. CASE alone = {}
  BY <1>2, <1>3, AllLeft
<1>4. CASE alone # {}
  <2>1. alone \in SUBSET (1 .. Len(s))
    BY <1>1
  <2> HIDE DEF r
  <2>2. \E j \in alone : \A k \in alone : j <= k
    <3> HIDE DEF alone
    <3> QED BY <1>1, <1>4, <2>1, OuterPlaces
  <2>3. first \in alone
    <3> HIDE DEF alone
    <3> QED BY <2>2
  <2>4. /\ first \in 1 .. Len(s) /\ s[first].k = "p" /\ IsSpace(s, first - 1) /\ IsSpace(s, first + 1)
    BY <1>1, <2>3
  <2> HIDE DEF alone, first
  <2>5. r = Without(s, a, first)
    BY <1>2, <1>4
  <2>6. a \in 1 .. Len(s) + 1 /\ first \in a - 1 .. Len(s)
    BY <1>1, <2>4
  <2>7. PICK f : /\ Left(f, r, s)
                 /\ \A k \in 1 .. Len(s) : Stands(f, r, k) <=> k \notin a .. first
                 /\ \A i \in 1 .. Len(r) - 1 :
                      f[i + 1] = f[i] + 1 \/ (f[i] = a - 1 /\ f[i + 1] = first + 1)
    BY <2>5, <2>6, WithoutLeft
  <2>8. NoWord(s, first + 1)
    BY <2>4 DEF NoWord, IsSpace
  <2>9. Lexed(r)
    BY <2>7, <2>8, LeftLexed
  <2>10. ASSUME NEW k \in 1 .. Len(s), ~Stands(f, r, k)
         PROVE  \/ s[k].k = "p"
                \/ s[k].k = "space" /\ k + 1 \in 1 .. Len(s) /\ s[k + 1].k = "p"
    <3>1. k \in a .. first
      BY <2>7, <2>10
    <3>2. k = first \/ (k = first - 1 /\ first # 1)
      BY <1>1, <2>4, <3>1
    <3>3. CASE k = first
      BY <2>4, <3>3
    <3>4. CASE k = first - 1 /\ first # 1
      <4>1. s[k].k = "space"
        BY <1>1, <2>4, <3>4 DEF IsSpace
      <4>2. k + 1 = first
        BY <1>1, <2>4, <3>4
      <4> QED BY <2>4, <4>1, <4>2
    <3> QED BY <3>2, <3>3, <3>4
  <2> QED BY <2>7, <2>9, <2>10 DEF r
<1> QED BY <1>3, <1>4

\* Inside a label.
InLabel(s, k) ==
  \E a \in 1 .. k : /\ IsSign(s, a, "at") /\ ~IsSpace(s, a + 1)
                    /\ \A j \in a .. k : ~IsSpace(s, j)

\* What the labels take: from a sign that starts one to the next space.
LEMMA LabelsCover ==
  ASSUME NEW s \in Seq(Pieces), NEW k \in 1 .. Len(s)
  PROVE  k \in UNION {b .. b + Len(Run(s, b + 1)) : b \in LabelStarts(s)} <=> InLabel(s, k)
<1>1. Len(s) \in Int /\ Len(s) \in Nat /\ DOMAIN s = 1 .. Len(s) /\ \A i \in 1 .. Len(s) : s[i] \in Pieces
  BY PlacesOf
<1>2. ASSUME NEW b \in LabelStarts(s)
      PROVE  /\ b \in 1 .. Len(s) /\ IsSign(s, b, "at") /\ ~IsSpace(s, b + 1) /\ ~IsSpace(s, b)
             /\ b + Len(Run(s, b + 1)) = WordEnd(s, b + 1)
             /\ WordEnd(s, b + 1) \in b .. Len(s)
             /\ IsSpace(s, WordEnd(s, b + 1) + 1)
             /\ \A j \in b .. WordEnd(s, b + 1) : ~IsSpace(s, j)
  <2>1. b \in 1 .. Len(s) /\ IsSign(s, b, "at") /\ ~IsSpace(s, b + 1)
    BY <1>1 DEF LabelStarts
  <2>2. ~IsSpace(s, b)
    BY <1>1, <2>1 DEF IsSign, IsSpace
  <2>3. b + 1 \in 1 .. Len(s) + 1
    BY <1>1, <2>1
  <2>4. /\ WordEnd(s, b + 1) \in (b + 1) - 1 .. Len(s)
        /\ IsSpace(s, WordEnd(s, b + 1) + 1)
        /\ \A j \in b + 1 .. WordEnd(s, b + 1) : ~IsSpace(s, j)
    BY <2>3, WordEnds
  <2> DEFINE e == WordEnd(s, b + 1)
  <2> HIDE DEF e
  <2>5. e \in b .. Len(s)
    BY <1>1, <2>1, <2>4 DEF e
  <2>6. Len(SubSeq(s, b + 1, e)) = e - b
    <3>1. b + 1 \in Int /\ e \in Int /\ e >= b /\ b \in Int
      BY <1>1, <2>1, <2>5
    <3>2. \A i \in b + 1 .. e : s[i] \in Pieces
      BY <1>1, <2>1, <2>5
    <3>3. Len(SubSeq(s, b + 1, e)) = IF b + 1 <= e THEN e - (b + 1) + 1 ELSE 0
      BY <3>1, <3>2, SubSeqProperties
    <3> QED BY <3>1, <3>3
  <2>7. b + Len(Run(s, b + 1)) = e
    BY <1>1, <2>1, <2>5, <2>6 DEF Run, e
  <2>8. \A j \in b .. e : j = b \/ j \in b + 1 .. e
    BY <1>1, <2>1, <2>5
  <2> QED BY <2>1, <2>2, <2>4, <2>5, <2>7, <2>8 DEF e
<1>3. ASSUME NEW b \in LabelStarts(s), k \in b .. b + Len(Run(s, b + 1)) PROVE InLabel(s, k)
  <2>1. b \in 1 .. k /\ \A j \in b .. k : j \in b .. WordEnd(s, b + 1)
    BY <1>1, <1>2, <1>3
  <2> QED BY <1>2, <2>1 DEF InLabel
<1>4. ASSUME InLabel(s, k)
      PROVE  \E b \in LabelStarts(s) : k \in b .. b + Len(Run(s, b + 1))
  <2>1. PICK a \in 1 .. k : /\ IsSign(s, a, "at") /\ ~IsSpace(s, a + 1)
                            /\ \A j \in a .. k : ~IsSpace(s, j)
    BY <1>4 DEF InLabel
  <2> DEFINE S == {b \in 1 .. a : IsSign(s, b, "at") /\ \A j \in b .. a : ~IsSpace(s, j)}
  <2>2. a \in S
    <3>1. \A j \in a .. a : j \in a .. k
      BY <1>1
    <3>2. a \in 1 .. a
      OBVIOUS
    <3> QED BY <2>1, <3>1, <3>2
  <2>3. PICK b \in S : \A c \in S : b <= c
    <3>1. S \in SUBSET (1 .. a) /\ S # {} /\ a \in Int
      BY <2>2
    <3> HIDE DEF S
    <3> QED BY <3>1, OuterPlaces
  <2>4. b \in 1 .. a /\ IsSign(s, b, "at") /\ \A j \in b .. a : ~IsSpace(s, j)
    BY <2>3
  <2>5. ASSUME NEW j \in 1 .. b - 1, IsSign(s, j, "at"), \A i \in j .. b : s[i].k # "space" PROVE FALSE
    <3>1. j \in 1 .. a /\ j < b
      BY <1>1, <2>4
    <3>2. j \notin S
      BY <1>1, <2>3, <2>4, <3>1
    <3>3. PICK i \in j .. a : IsSpace(s, i)
      BY <2>5, <3>1, <3>2
    <3>4. i \in DOMAIN s
      BY <1>1, <3>1, <3>3
    <3>5. i \in j .. b \/ i \in b .. a
      BY <1>1, <2>4, <3>1, <3>3
    <3> QED BY <2>4, <2>5, <3>3, <3>4, <3>5 DEF IsSpace
  <2>6. ~IsSpace(s, b + 1)
    <3>1. CASE b = a
      BY <2>1, <3>1
    <3>2. CASE b # a
      <4>1. b + 1 \in b .. a
        BY <1>1, <2>4, <3>2
      <4> QED BY <2>4, <4>1
    <3> QED BY <3>1, <3>2
  <2>7. b \in LabelStarts(s)
    <3>1. b \in DOMAIN s
      BY <1>1, <2>4
    <3> QED BY <2>4, <2>5, <2>6, <3>1 DEF LabelStarts
  <2>8. WordEnd(s, b + 1) >= k
    <3> SUFFICES ASSUME WordEnd(s, b + 1) < k PROVE FALSE
      BY <1>1, <1>2, <2>7
    <3>1. WordEnd(s, b + 1) + 1 \in b .. k
      BY <1>1, <1>2, <2>7
    <3>2. WordEnd(s, b + 1) + 1 \in b .. a \/ WordEnd(s, b + 1) + 1 \in a .. k
      BY <1>1, <2>4, <3>1
    <3>3. IsSpace(s, WordEnd(s, b + 1) + 1)
      BY <1>2, <2>7
    <3> QED BY <2>1, <2>4, <3>2, <3>3
  <2>9. b + Len(Run(s, b + 1)) >= k /\ b + Len(Run(s, b + 1)) \in Int
    BY <1>1, <1>2, <2>7, <2>8
  <2>10. k \in b .. b + Len(Run(s, b + 1))
    BY <1>1, <2>4, <2>9
  <2> QED BY <2>7, <2>10
<1> QED BY <1>3, <1>4

\* The labels take what is inside of one.
LEMMA LabelsTaken ==
  ASSUME NEW s \in Seq(Pieces), Lexed(s)
  PROVE  LET r == LabelsOf(s).text IN
         /\ Lexed(r)
         /\ \E f : /\ Left(f, r, s)
                   /\ \A k \in 1 .. Len(s) : Stands(f, r, k) <=> ~InLabel(s, k)
<1> DEFINE r == LabelsOf(s).text
           inside == UNION {b .. b + Len(Run(s, b + 1)) : b \in LabelStarts(s)}
           K == DOMAIN s \ inside
<1>1. Len(s) \in Int /\ DOMAIN s = 1 .. Len(s)
  BY PlacesOf
<1>2. r = Kept(s, K)
  BY DEF LabelsOf
<1>3. \A k \in 1 .. Len(s) : k \in inside <=> InLabel(s, k)
  BY LabelsCover
<1> HIDE DEF inside, r
<1>4. PICK f : /\ Left(f, r, s)
               /\ \A k \in 1 .. Len(s) : Stands(f, r, k) <=> k \in K
  <2>1. K \in SUBSET (1 .. Len(s))
    BY <1>1
  <2> HIDE DEF K
  <2> QED BY <1>2, <2>1, KeptLeft
<1>5. \A k \in 1 .. Len(s) : Stands(f, r, k) <=> ~InLabel(s, k)
  BY <1>1, <1>3, <1>4
<1>6. ASSUME NEW i \in 1 .. Len(r) - 1, f[i + 1] # f[i] + 1
      PROVE  NoWord(s, f[i + 1])
  <2>1. Len(r) \in Int
    BY <1>4, PlacesOf DEF Left
  <2>2. i \in 1 .. Len(r) /\ i + 1 \in 1 .. Len(r) /\ i < i + 1
    BY <2>1
  <2>3. f[i] \in 1 .. Len(s) /\ f[i + 1] \in 1 .. Len(s) /\ f[i] < f[i + 1]
    BY <1>4, <2>2 DEF Left
  <2> DEFINE k == f[i + 1] - 1
  <2>4. k \in 1 .. Len(s) /\ f[i] < k /\ k < f[i + 1] /\ k + 1 = f[i + 1]
    BY <1>1, <1>6, <2>3
  <2> HIDE DEF k
  <2>5. ~Stands(f, r, k)
    <3> SUFFICES ASSUME NEW j \in 1 .. Len(r), f[j] = k PROVE FALSE
      BY DEF Stands
    <3>1. i < j /\ j < i + 1
      BY <1>4, <2>2, <2>4, LeftInOrder
    <3> QED BY <2>1, <2>2, <3>1
  <2>6. PICK a \in 1 .. k : /\ IsSign(s, a, "at") /\ ~IsSpace(s, a + 1)
                            /\ \A j \in a .. k : ~IsSpace(s, j)
    BY <1>5, <2>4, <2>5 DEF InLabel
  <2>7. IsSpace(s, f[i + 1])
    <3> SUFFICES ASSUME ~IsSpace(s, f[i + 1]) PROVE FALSE
      OBVIOUS
    <3>1. Stands(f, r, f[i + 1])
      BY <2>2 DEF Stands
    <3>2. a \in 1 .. f[i + 1] /\ \A j \in a .. f[i + 1] : j \in a .. k \/ j = f[i + 1]
      BY <1>1, <2>3, <2>4
    <3>3. InLabel(s, f[i + 1])
      BY <2>6, <3>2 DEF InLabel
    <3> QED BY <1>5, <2>3, <3>1, <3>3
  <2> QED BY <2>7 DEF IsSpace, NoWord
<1>7. Lexed(r)
  BY <1>4, <1>6, LeftLexed
<1> QED BY <1>4, <1>5, <1>7 DEF r

------------------------------------------------------------------------------
\* The mention is what the project takes, but for a "#" with nothing after it.
LEMMA MentionHas ==
  ASSUME text \in Seq(Pieces), NEW h \in 1 .. Len(text), IsSign(text, h, "hash"),
         \A j \in h + 1 .. Len(text) : ~IsSign(text, j, "hash")
  PROVE  Mention = {i \in h .. Len(text) :
           LET known == Known(projects, From(text, h + 1))
           IN  \/ \E k \in known : i <= h + Len(projects[k].name)
               \/ known = {} /\ \A j \in h .. i : ~IsSpace(text, j)}
<1> DEFINE reach(i, g) ==
             LET known == Known(projects, From(text, g + 1))
             IN  \/ \E k \in known : i <= g + Len(projects[k].name)
                 \/ known = {} /\ \A j \in g .. i : ~IsSpace(text, j)
<1>1. Len(text) \in Int /\ DOMAIN text = 1 .. Len(text)
  BY PlacesOf
<1>2. Mention = {i \in 1 .. Len(text) : \E g \in 1 .. i :
                   /\ IsSign(text, g, "hash") /\ \A j \in g + 1 .. Len(text) : ~IsSign(text, j, "hash")
                   /\ reach(i, g)}
  BY <1>1 DEF Mention
<1> HIDE DEF reach
<1>3. ASSUME NEW i \in 1 .. Len(text), NEW g \in 1 .. i,
             IsSign(text, g, "hash"), \A j \in g + 1 .. Len(text) : ~IsSign(text, j, "hash")
      PROVE  g = h
  <2>1. g \in 1 .. Len(text) /\ g \in Int /\ h \in Int
    BY <1>1
  <2>2. ~(g < h)
    <3> SUFFICES ASSUME g < h PROVE FALSE
      OBVIOUS
    <3>1. h \in g + 1 .. Len(text)
      BY <1>1, <2>1
    <3> QED BY <1>3, <3>1
  <2>3. ~(h < g)
    <3> SUFFICES ASSUME h < g PROVE FALSE
      OBVIOUS
    <3>1. g \in h + 1 .. Len(text)
      BY <1>1, <2>1
    <3> QED BY <1>3, <3>1
  <2> QED BY <2>1, <2>2, <2>3
<1>4. Mention = {i \in h .. Len(text) : reach(i, h)}
  <2>1. ASSUME NEW i \in Mention PROVE i \in h .. Len(text) /\ reach(i, h)
    <3>1. PICK g \in 1 .. i : /\ i \in 1 .. Len(text) /\ IsSign(text, g, "hash")
                              /\ \A j \in g + 1 .. Len(text) : ~IsSign(text, j, "hash")
                              /\ reach(i, g)
      BY <1>2
    <3>2. g = h
      BY <1>3, <3>1
    <3> QED BY <1>1, <3>1, <3>2
  <2>2. ASSUME NEW i \in h .. Len(text), reach(i, h) PROVE i \in Mention
    <3>1. i \in 1 .. Len(text) /\ h \in 1 .. i
      BY <1>1
    <3> QED BY <1>2, <2>2, <3>1
  <2>3. \A i \in Mention : i \in 1 .. Len(text)
    BY <1>2
  <2> QED BY <2>1, <2>2, <2>3
<1> QED BY <1>4 DEF reach

\* The longest name is as long as any.
LEMMA LongestOf ==
  ASSUME NEW ps \in ProjectLists, NEW after \in Seq(Pieces), Known(ps, after) # {}
  PROVE  LET best == ps[Longest(ps, Known(ps, after))] IN
         /\ best.name \in Seq(Pieces)
         /\ \E k \in Known(ps, after) : best = ps[k]
         /\ \A k \in Known(ps, after) : Len(ps[k].name) <= Len(best.name)
         /\ Len(best.name) <= Len(after)
<1> DEFINE ks == Known(ps, after)
           size(k) == Len(ps[k].name)
<1>1. /\ Len(ps) \in Nat /\ DOMAIN ps = 1 .. Len(ps)
      /\ \A k \in DOMAIN ps : ps[k].name \in Seq(Pieces)
  BY ProjectsGiven
<1>2. ks \in SUBSET (1 .. Len(ps)) /\ \A k \in ks : IsPrefix(ps[k].name, after)
  BY <1>1 DEF Known
<1>3. Len(after) \in Int
  BY PlacesOf
<1>4. \A k \in ks : k \in Int /\ size(k) \in Nat /\ size(k) <= Len(after)
  <2> SUFFICES ASSUME NEW k \in ks PROVE k \in Int /\ size(k) \in Nat /\ size(k) <= Len(after)
    OBVIOUS
  <2>1. ps[k].name \in Seq(Pieces) /\ k \in Int
    BY <1>1, <1>2
  <2> QED BY <1>2, <2>1, PlacesOf DEF IsPrefix
<1> HIDE DEF ks, size
<1> DEFINE sizes == {l \in 1 .. Len(after) + 1 : \E k \in ks : size(k) + 1 = l}
<1>5. PICK l \in sizes : \A m \in sizes : m <= l
  <2>1. sizes \in SUBSET (1 .. Len(after) + 1) /\ Len(after) + 1 \in Int
    BY <1>3
  <2>2. sizes # {}
    <3>1. PICK k \in ks : TRUE
      BY DEF ks
    <3>2. size(k) + 1 \in 1 .. Len(after) + 1
      BY <1>3, <1>4
    <3> QED BY <3>1, <3>2
  <2> HIDE DEF sizes
  <2> QED BY <2>1, <2>2, OuterPlaces
<1>6. \A k \in ks : size(k) + 1 <= l
  <2> SUFFICES ASSUME NEW k \in ks PROVE size(k) + 1 \in sizes
    BY <1>5
  <2> QED BY <1>3, <1>4
<1>7. l \in Int
  BY <1>3, <1>5
<1> DEFINE longest == {k \in ks : size(k) + 1 = l}
<1>8. PICK b \in longest : \A k \in longest : b <= k
  <2>1. longest \in SUBSET (1 .. Len(ps)) /\ longest # {} /\ Len(ps) \in Int
    <3>1. \E k \in ks : size(k) + 1 = l
      BY <1>5
    <3>2. longest # {}
      BY <3>1
    <3>3. longest \in SUBSET ks
      OBVIOUS
    <3> HIDE DEF longest
    <3> QED BY <1>1, <1>2, <3>2, <3>3
  <2> HIDE DEF longest
  <2> QED BY <2>1, OuterPlaces
<1>9. \A j \in ks : size(j) < size(b) \/ (size(j) = size(b) /\ b <= j)
  <2> SUFFICES ASSUME NEW j \in ks PROVE size(j) < size(b) \/ (size(j) = size(b) /\ b <= j)
    OBVIOUS
  <2>1. b \in ks /\ size(b) + 1 = l
    BY <1>8
  <2>2. size(j) + 1 <= l
    BY <1>6
  <2>3. size(j) \in Int /\ size(b) \in Int
    BY <1>4, <2>1
  <2>4. CASE size(j) + 1 = l
    <3>1. b <= j
      BY <1>8, <2>4
    <3> QED BY <2>1, <2>3, <2>4, <3>1
  <2>5. CASE size(j) + 1 # l
    BY <1>7, <2>1, <2>2, <2>3, <2>5
  <2> QED BY <2>4, <2>5
<1> DEFINE B == Longest(ps, ks)
<1>10. B \in ks /\ \A j \in ks : size(j) < size(B) \/ (size(j) = size(B) /\ B <= j)
  <2>1. b \in ks
    BY <1>8
  <2>2. \E c \in ks : \A j \in ks : \/ Len(ps[j].name) < Len(ps[c].name)
                                    \/ Len(ps[j].name) = Len(ps[c].name) /\ c <= j
    BY <1>9, <2>1, Zenon DEF size
  <2> QED BY <2>2, Zenon DEF Longest, size
<1> HIDE DEF B
<1>11. \A k \in ks : size(k) <= size(B)
  BY <1>4, <1>10
<1> QED BY <1>1, <1>2, <1>4, <1>10, <1>11 DEF size, ks, B

\* The project takes the mention, but for a "#" with nothing after it.
LEMMA MentionTaken ==
  ASSUME text \in Seq(Pieces), Lexed(text), projects \in ProjectLists, MentionEnds
  PROVE  LET r == ProjectOf(text, projects).text IN
         /\ Lexed(r)
         /\ \E f : /\ Left(f, r, text)
                   /\ \A k \in 1 .. Len(text) :
                        /\ ~Stands(f, r, k) => k \in Mention
                        /\ Stands(f, r, k) => k \notin Mention \/ text[k].k = "hash"
<1> DEFINE r == ProjectOf(text, projects).text
           hash == SelectLastInSeq(text, LAMBDA p : p.k = "hash")
           after == From(text, hash + 1)
           known == Known(projects, after)
           best == projects[Longest(projects, known)]
           bare == Run(text, hash + 1)
<1>1. Len(text) \in Int /\ Len(text) \in Nat /\ DOMAIN text = 1 .. Len(text) /\ \A i \in 1 .. Len(text) : text[i] \in Pieces
  BY PlacesOf
<1>2. /\ hash = 0 => r = text
      /\ hash # 0 /\ known # {} => r = Without(text, hash, hash + Len(best.name))
      /\ hash # 0 /\ known = {} => r = IF bare = <<>> THEN text ELSE Without(text, hash, hash + Len(bare))
  BY DEF ProjectOf
<1>3. \/ hash = 0 /\ \A i \in 1 .. Len(text) : ~IsSign(text, i, "hash")
      \/ /\ hash \in 1 .. Len(text) /\ IsSign(text, hash, "hash")
         /\ \A j \in hash + 1 .. Len(text) : ~IsSign(text, j, "hash")
  <2> DEFINE I == {i \in 1 .. Len(text) : text[i].k = "hash"}
  <2>1. hash = IF I # {} THEN Max(I) ELSE 0
    BY DEF SelectLastInSeq
  <2>2. CASE I = {}
    BY <2>1, <2>2, <1>1 DEF IsSign
  <2>3. CASE I # {}
    <3>1. I \in SUBSET Int /\ IsFiniteSet(I)
      <4>1. IsFiniteSet(1 .. Len(text))
        <5>1. 1 \in Int
          OBVIOUS
        <5> QED BY <1>1, <5>1, FS_Interval
      <4>2. I \in SUBSET (1 .. Len(text))
        OBVIOUS
      <4>3. IsFiniteSet(I)
        BY <4>1, <4>2, FS_Subset
      <4>4. 1 .. Len(text) \subseteq Int
        BY <1>1
      <4> HIDE DEF I
      <4> QED BY <4>2, <4>3, <4>4
    <3>2. Max(I) \in I /\ \A x \in I : Max(I) >= x
      <4> HIDE DEF I
      <4> QED BY <2>3, <3>1, GreatestExists
    <3> HIDE DEF hash
    <3>3. hash \in I /\ \A x \in I : hash >= x
      BY <2>1, <2>3, <3>2
    <3> QED BY <1>1, <3>3 DEF IsSign
  <2> QED BY <2>2, <2>3
<1> HIDE DEF hash, r
<1>4. CASE hash = 0
  <2>1. r = text
    BY <1>2, <1>4
  <2>2. Mention = {}
    <3> SUFFICES ASSUME NEW k \in Mention PROVE FALSE
      OBVIOUS
    <3>1. k \in 1 .. Len(text) /\ \E h \in 1 .. k : IsSign(text, h, "hash")
      BY <1>1 DEF Mention
    <3>2. \A h \in 1 .. k : h \in 1 .. Len(text)
      BY <1>1, <3>1
    <3>3. hash \notin 1 .. Len(text)
      BY <1>4
    <3> QED BY <1>3, <3>1, <3>2, <3>3
  <2> QED BY <2>1, <2>2, AllLeft DEF r
<1>5. CASE /\ hash \in 1 .. Len(text) /\ IsSign(text, hash, "hash")
           /\ \A j \in hash + 1 .. Len(text) : ~IsSign(text, j, "hash")
  <2>1. Mention = {i \in hash .. Len(text) :
                     \/ \E k \in known : i <= hash + Len(projects[k].name)
                     \/ known = {} /\ \A j \in hash .. i : ~IsSpace(text, j)}
    BY <1>5, MentionHas
  <2>2. after \in Seq(Pieces) /\ Len(after) = Len(text) - hash
    <3>1. hash + 1 \in Int /\ Len(text) \in Int /\ \A i \in hash + 1 .. Len(text) : text[i] \in Pieces
      BY <1>1, <1>5
    <3>2. /\ SubSeq(text, hash + 1, Len(text)) \in Seq(Pieces)
          /\ Len(SubSeq(text, hash + 1, Len(text))) = IF hash + 1 <= Len(text) THEN Len(text) - (hash + 1) + 1 ELSE 0
      BY <3>1, SubSeqProperties
    <3>3. (IF hash + 1 <= Len(text) THEN Len(text) - (hash + 1) + 1 ELSE 0) = Len(text) - hash
      <4>1. hash \in Int /\ Len(text) \in Int /\ hash <= Len(text)
        BY <1>1, <1>5
      <4>2. \A a, b \in Int : a <= b => (IF a + 1 <= b THEN b - (a + 1) + 1 ELSE 0) = b - a
        OBVIOUS
      <4> QED BY <4>1, <4>2
    <3> QED BY <3>2, <3>3 DEF From
  <2>3. ASSUME NEW e \in hash .. Len(text), Mention = hash .. e, r = Without(text, hash, e)
        PROVE  /\ Lexed(r)
               /\ \E f : /\ Left(f, r, text)
                         /\ \A k \in 1 .. Len(text) : Stands(f, r, k) <=> k \notin Mention
    <3>1. hash \in 1 .. Len(text) + 1 /\ e \in hash - 1 .. Len(text)
      BY <1>1, <1>5
    <3>2. PICK f : /\ Left(f, r, text)
                   /\ \A k \in 1 .. Len(text) : Stands(f, r, k) <=> k \notin hash .. e
                   /\ \A i \in 1 .. Len(r) - 1 :
                        f[i + 1] = f[i] + 1 \/ (f[i] = hash - 1 /\ f[i + 1] = e + 1)
      BY <2>3, <3>1, WithoutLeft
    <3>3. NoWord(text, e + 1)
      <4>1. e \in Mention /\ e + 1 \notin Mention
        BY <1>1, <1>5, <2>3
      <4> QED BY <4>1 DEF MentionEnds
    <3>4. Lexed(r)
      BY <3>2, <3>3, LeftLexed
    <3> QED BY <2>3, <3>2, <3>4
  <2>4. CASE known # {}
    <3>1. /\ best.name \in Seq(Pieces)
          /\ \E k \in known : best = projects[k]
          /\ \A k \in known : Len(projects[k].name) <= Len(best.name)
          /\ Len(best.name) <= Len(after)
      BY <2>2, <2>4, LongestOf
    <3>2. Len(best.name) \in Nat
      BY <3>1, PlacesOf
    <3> HIDE DEF best
    <3> DEFINE e == hash + Len(best.name)
    <3>3. e \in hash .. Len(text)
      BY <1>1, <1>5, <2>2, <3>1, <3>2
    <3>4. ASSUME NEW i \in hash .. Len(text)
          PROVE  (\E k \in known : i <= hash + Len(projects[k].name)) <=> i <= e
      <4>1. ASSUME NEW k \in known, i <= hash + Len(projects[k].name) PROVE i <= e
        <5>1. Len(projects[k].name) <= Len(best.name)
          BY <3>1
        <5>2. Len(projects[k].name) \in Int
          <6>1. k \in DOMAIN projects
            BY DEF Known
          <6>2. projects[k].name \in Seq(Pieces)
            BY <6>1, ProjectsGiven
          <6> QED BY <6>2, PlacesOf
        <5>3. hash \in Int /\ i \in Int
          BY <1>1, <1>5
        <5> QED BY <3>2, <4>1, <5>1, <5>2, <5>3
      <4> HIDE DEF known
      <4>2. ASSUME i <= e PROVE \E k \in known : i <= hash + Len(projects[k].name)
        BY <3>1, <4>2
      <4> QED BY <4>1, <4>2
    <3>5. Mention = hash .. e
      <4> HIDE DEF known, e
      <4>1. \A i \in hash .. Len(text) : i \in Mention <=> i <= e
        BY <2>1, <2>4, <3>4
      <4>2. Mention \subseteq hash .. Len(text)
        BY <2>1
      <4>3. e \in Int /\ hash \in Int /\ e <= Len(text)
        BY <1>1, <1>5, <3>3
      <4>4. ASSUME NEW i \in Mention PROVE i \in hash .. e
        <5>1. i \in hash .. Len(text)
          BY <4>2
        <5>2. i <= e
          BY <4>1, <5>1
        <5> QED BY <4>3, <5>1, <5>2
      <4>5. ASSUME NEW i \in hash .. e PROVE i \in Mention
        <5>1. i \in hash .. Len(text) /\ i <= e
          BY <1>1, <4>3
        <5> QED BY <4>1, <5>1
      <4> QED BY <4>4, <4>5
    <3>6. r = Without(text, hash, e)
      BY <1>2, <1>1, <1>5, <2>4 DEF best
    <3> HIDE DEF e
    <3> QED BY <2>3, <3>3, <3>5, <3>6 DEF r
  <2>5. CASE known = {}
    <3> DEFINE e == WordEnd(text, hash + 1)
    <3>1. hash + 1 \in 1 .. Len(text) + 1
      BY <1>1, <1>5
    <3>2. /\ e \in (hash + 1) - 1 .. Len(text)
          /\ IsSpace(text, e + 1)
          /\ \A j \in hash + 1 .. e : ~IsSpace(text, j)
      BY <3>1, WordEnds
    <3> HIDE DEF e
    <3>3. hash \in Int /\ e \in Int /\ e >= hash /\ e <= Len(text)
      BY <1>1, <1>5, <3>2
    <3>4. ~IsSpace(text, hash)
      BY <1>1, <1>5 DEF IsSpace, IsSign
    <3>5. ASSUME NEW i \in hash .. Len(text)
          PROVE  (\A j \in hash .. i : ~IsSpace(text, j)) <=> i <= e
      <4>1. ASSUME i <= e PROVE \A j \in hash .. i : ~IsSpace(text, j)
        <5>1. \A j \in hash .. i : j = hash \/ j \in hash + 1 .. e
          BY <3>3, <4>1
        <5> QED BY <3>2, <3>4, <5>1
      <4>2. ASSUME \A j \in hash .. i : ~IsSpace(text, j) PROVE i <= e
        <5> SUFFICES ASSUME ~(i <= e) PROVE FALSE
          OBVIOUS
        <5>1. e + 1 \in hash .. i
          BY <1>1, <3>3
        <5> QED BY <3>2, <4>2, <5>1
      <4> QED BY <4>1, <4>2
    <3>6. Mention = hash .. e
      <4>1. \A i \in hash .. Len(text) : i \in Mention <=> i <= e
        BY <2>1, <2>5, <3>5
      <4>2. Mention \subseteq hash .. Len(text)
        BY <2>1
      <4>3. ASSUME NEW i \in Mention PROVE i \in hash .. e
        <5>1. i \in hash .. Len(text)
          BY <4>2
        <5>2. i <= e
          BY <4>1, <5>1
        <5> QED BY <3>3, <5>1, <5>2
      <4>4. ASSUME NEW i \in hash .. e PROVE i \in Mention
        <5>1. i \in hash .. Len(text) /\ i <= e
          BY <1>1, <3>3
        <5> QED BY <4>1, <5>1
      <4> QED BY <4>3, <4>4
    <3>7. bare = SubSeq(text, hash + 1, e) /\ Len(bare) = e - hash
      <4>1. bare = SubSeq(text, hash + 1, e)
        BY DEF Run, e
      <4>2. hash + 1 \in Int /\ e \in Int /\ \A i \in hash + 1 .. e : text[i] \in Pieces
        BY <1>1, <1>5, <3>3
      <4>3. Len(SubSeq(text, hash + 1, e)) = IF hash + 1 <= e THEN e - (hash + 1) + 1 ELSE 0
        BY <4>2, SubSeqProperties
      <4> QED BY <3>3, <4>1, <4>3
    <3>8. CASE bare = <<>>
      <4>1. r = text
        BY <1>1, <1>2, <1>5, <2>5, <3>8
      <4>2. e = hash
        BY <3>3, <3>7, <3>8
      <4>3. PICK f : Left(f, text, text) /\ \A k \in 1 .. Len(text) : Stands(f, text, k)
        BY AllLeft
      <4>4. ASSUME NEW k \in Mention PROVE text[k].k = "hash"
        <5>1. k = hash
          BY <3>3, <3>6, <4>2
        <5> QED BY <1>5, <5>1 DEF IsSign
      <4> QED BY <4>1, <4>3, <4>4 DEF r
    <3>9. CASE bare # <<>>
      <4>1. hash + Len(bare) = e
        BY <3>3, <3>7
      <4>2. r = Without(text, hash, e)
        BY <1>1, <1>2, <1>5, <2>5, <3>9, <4>1
      <4>3. e \in hash .. Len(text)
        BY <1>1, <3>3
      <4> QED BY <2>3, <3>6, <4>2, <4>3 DEF r
    <3> QED BY <3>8, <3>9
  <2> QED BY <2>4, <2>5
<1> QED BY <1>3, <1>4, <1>5

\* Behind the mention comes a space or a label.
LEMMA BehindMention ==
  ASSUME text \in Seq(Pieces), MentionEnds,
         NEW i \in 1 .. Len(text), i \notin Mention, NEW k \in Mention, k < i
  PROVE  \E e \in k .. i - 1 :
           /\ \A j \in e + 1 .. i : j \notin Mention
           /\ IsSpace(text, e + 1) \/ IsSign(text, e + 1, "at")
<1>1. Len(text) \in Int /\ DOMAIN text = 1 .. Len(text)
  BY PlacesOf
<1>2. \A m \in Mention : m \in 1 .. Len(text)
  BY <1>1 DEF Mention
<1> DEFINE S == {m \in 1 .. i : m \in Mention}
<1>3. PICK e \in S : \A m \in S : m <= e
  <2>1. S \in SUBSET (1 .. i) /\ i \in Int
    OBVIOUS
  <2>2. k \in 1 .. i
    BY <1>1, <1>2
  <2>3. S # {}
    BY <2>2
  <2> HIDE DEF S
  <2> QED BY <2>1, <2>3, OuterPlaces
<1>4. e \in 1 .. i /\ e \in Mention /\ k <= e
  <2>1. k \in 1 .. i
    BY <1>1, <1>2
  <2> QED BY <1>3, <2>1
<1>5. e # i
  BY <1>4
<1>6. e \in k .. i - 1
  BY <1>2, <1>4, <1>5
<1>7. ASSUME NEW j \in e + 1 .. i, j \in Mention PROVE FALSE
  <2>1. j \in 1 .. i
    BY <1>4
  <2>2. j \in S
    BY <1>7, <2>1
  <2>3. j <= e
    BY <1>3, <2>2
  <2> QED BY <1>4, <2>1, <2>3
<1> HIDE DEF S
<1>8. e + 1 \in e + 1 .. i /\ e + 1 \in 1 .. Len(text)
  BY <1>1, <1>4, <1>5
<1>9. NoWord(text, e + 1)
  BY <1>4, <1>7, <1>8 DEF MentionEnds
<1>10. ~IsSign(text, e + 1, "hash")
  <2>1. PICK h \in 1 .. e : \A j \in h + 1 .. Len(text) : ~IsSign(text, j, "hash")
    BY <1>4 DEF Mention
  <2>2. e + 1 \in h + 1 .. Len(text)
    BY <1>1, <1>4, <1>8
  <2> QED BY <2>1, <2>2
<1>11. IsSpace(text, e + 1) \/ IsSign(text, e + 1, "at")
  BY <1>1, <1>8, <1>9, <1>10 DEF NoWord, IsSpace, IsSign
<1> QED BY <1>6, <1>7, <1>11

\* f tells where the pieces stood that the project left.
LeftByMention(f, r) ==
  /\ Left(f, r, text)
  /\ \A k \in 1 .. Len(text) : /\ ~Stands(f, r, k) => k \in Mention
                               /\ Stands(f, r, k) => k \notin Mention \/ text[k].k = "hash"

\* What is in a label then was in one before, or in what the mention hid of one.
LEMMA LabelsSeen ==
  ASSUME text \in Seq(Pieces), MentionEnds, NEW f, NEW r, LeftByMention(f, r),
         NEW x \in 1 .. Len(r), f[x] \notin Mention, text[f[x]].k # "at"
  PROVE  InLabel(r, x) <=> \E j \in 1 .. f[x] : /\ IsSign(text, j, "at")
                                                /\ \A k \in j .. f[x] : ~IsSpace(text, k)
<1> DEFINE i == f[x]
<1>1. /\ Len(text) \in Int /\ DOMAIN text = 1 .. Len(text)
      /\ Len(r) \in Int /\ DOMAIN r = 1 .. Len(r)
  BY PlacesOf DEF LeftByMention, Left
<1>2. \A y \in 1 .. Len(r) : f[y] \in 1 .. Len(text) /\ r[y] = text[f[y]]
  BY DEF LeftByMention, Left
<1>3. \A y \in 1 .. Len(r) : \A s \in {"at", "hash"} : /\ IsSign(r, y, s) <=> IsSign(text, f[y], s)
                                                       /\ IsSpace(r, y) <=> IsSpace(text, f[y])
  BY <1>1, <1>2 DEF IsSign, IsSpace
<1>4. \A y, z \in 1 .. Len(r) : f[y] < f[z] <=> y < z
  BY LeftInOrder DEF LeftByMention
<1>5. i \in 1 .. Len(text) /\ i \notin Mention /\ text[i].k # "at" /\ ~IsSign(text, i, "at")
  BY <1>2 DEF IsSign
<1> HIDE DEF i
\* An @ at a place that stands, with no space up to i.
<1>6. ASSUME NEW j \in 1 .. i, IsSign(text, j, "at"), \A k \in j .. i : ~IsSpace(text, k), Stands(f, r, j)
      PROVE  InLabel(r, x)
  <2>1. PICK a \in 1 .. Len(r) : f[a] = j
    BY <1>6 DEF Stands
  <2>2. j < i
    BY <1>1, <1>5, <1>6
  <2>3. a < x
    BY <1>4, <2>1, <2>2 DEF i
  <2>4. ASSUME NEW y \in a .. x PROVE ~IsSpace(r, y)
    <3>1. y \in 1 .. Len(r)
      BY <1>1
    <3>2. ~(y < a) /\ ~(x < y)
      BY <1>1
    <3>3. ~(f[y] < j) /\ ~(i < f[y])
      BY <1>4, <2>1, <3>1, <3>2 DEF i
    <3>4. f[y] \in j .. i
      BY <1>1, <1>2, <1>5, <3>1, <3>3
    <3> QED BY <1>3, <1>6, <3>1, <3>4
  <2>5. a \in 1 .. x /\ a + 1 \in a .. x
    BY <1>1, <2>3
  <2>6. IsSign(r, a, "at")
    BY <1>3, <1>6, <2>1
  <2> QED BY <2>4, <2>5, <2>6 DEF InLabel
\* Where the mention hides something before i, what follows it is an @ or a space.
<1>7. ASSUME NEW k \in Mention, k < i
      PROVE  \E e \in k + 1 .. i : /\ Stands(f, r, e)
                                   /\ \A j \in e .. i : Stands(f, r, j)
                                   /\ IsSpace(text, e) \/ IsSign(text, e, "at")
  <2>1. PICK d \in k .. i - 1 : /\ \A j \in d + 1 .. i : j \notin Mention
                                /\ IsSpace(text, d + 1) \/ IsSign(text, d + 1, "at")
    BY <1>5, <1>7, BehindMention
  <2>2. k \in 1 .. Len(text)
    BY <1>1 DEF Mention
  <2>3. d + 1 \in k + 1 .. i /\ d + 1 \in d + 1 .. i
    BY <1>1, <1>5, <2>2
  <2>4. \A j \in d + 1 .. i : j \in 1 .. Len(text)
    BY <1>1, <1>5, <2>2
  <2>5. \A j \in d + 1 .. i : Stands(f, r, j)
    BY <2>1, <2>4 DEF LeftByMention
  <2> QED BY <2>1, <2>3, <2>5
<1>8. ASSUME InLabel(r, x)
      PROVE  \E j \in 1 .. i : IsSign(text, j, "at") /\ \A k \in j .. i : ~IsSpace(text, k)
  <2>1. PICK a \in 1 .. x : IsSign(r, a, "at") /\ \A y \in a .. x : ~IsSpace(r, y)
    BY <1>8 DEF InLabel
  <2>2. a \in 1 .. Len(r) /\ IsSign(text, f[a], "at") /\ f[a] \in 1 .. Len(text) /\ ~(x < a)
    <3>1. a \in 1 .. Len(r) /\ ~(x < a)
      BY <1>1
    <3> QED BY <1>2, <1>3, <2>1, <3>1
  <2>3. f[a] \in 1 .. i
    <3>1. ~(i < f[a])
      BY <1>4, <2>2 DEF i
    <3> QED BY <1>1, <1>5, <2>2, <3>1
  <2>4. ASSUME NEW j \in f[a] .. i, Stands(f, r, j) PROVE ~IsSpace(text, j)
    <3>1. PICK y \in 1 .. Len(r) : f[y] = j
      BY <2>4 DEF Stands
    <3>2. ~(j < f[a]) /\ ~(i < j)
      BY <1>1, <1>5, <2>2
    <3>3. ~(y < a) /\ ~(x < y)
      BY <1>4, <2>2, <3>1, <3>2 DEF i
    <3>4. y \in a .. x
      BY <1>1, <2>2, <3>1, <3>3
    <3> QED BY <1>3, <2>1, <3>1, <3>4
  <2>5. CASE \A k \in f[a] .. i : ~IsSpace(text, k)
    BY <2>2, <2>3, <2>5
  <2>6. ASSUME NEW k \in f[a] .. i, IsSpace(text, k)
        PROVE  \E j \in 1 .. i : IsSign(text, j, "at") /\ \A m \in j .. i : ~IsSpace(text, m)
    <3>1. ~Stands(f, r, k) /\ k \in 1 .. Len(text)
      BY <1>1, <1>5, <2>2, <2>4, <2>6
    <3>2. k \in Mention
      BY <3>1 DEF LeftByMention
    <3>3. k < i
      BY <1>1, <1>5, <3>1, <3>2
    <3>4. PICK e \in k + 1 .. i : /\ \A j \in e .. i : Stands(f, r, j)
                                  /\ IsSpace(text, e) \/ IsSign(text, e, "at")
      BY <1>7, <3>2, <3>3
    <3>5. \A j \in e .. i : j \in f[a] .. i
      BY <1>1, <1>5, <2>2, <3>1
    <3>6. \A j \in e .. i : ~IsSpace(text, j)
      BY <2>4, <3>4, <3>5
    <3>7. e \in 1 .. i /\ e \in e .. i
      BY <1>1, <1>5, <3>1
    <3> QED BY <3>4, <3>6, <3>7
  <2> QED BY <2>5, <2>6
<1>9. ASSUME NEW j \in 1 .. i, IsSign(text, j, "at"), \A k \in j .. i : ~IsSpace(text, k)
      PROVE  InLabel(r, x)
  <2>1. CASE Stands(f, r, j)
    BY <1>6, <1>9, <2>1
  <2>2. CASE ~Stands(f, r, j)
    <3>1. j \in 1 .. Len(text)
      BY <1>1, <1>5
    <3>2. j \in Mention
      BY <2>2, <3>1 DEF LeftByMention
    <3>3. j < i
      BY <1>1, <1>5, <3>1, <3>2
    <3>4. PICK e \in j + 1 .. i : /\ Stands(f, r, e)
                                  /\ IsSpace(text, e) \/ IsSign(text, e, "at")
      BY <1>7, <3>2, <3>3
    <3>5. e \in 1 .. i /\ e \in j .. i /\ \A k \in e .. i : k \in j .. i
      BY <1>1, <1>5, <3>1
    <3> QED BY <1>6, <1>9, <3>4, <3>5
  <2> QED BY <2>1, <2>2
<1> QED BY <1>8, <1>9 DEF i

\* What the labels and the priority leave.
LEMMA RestLeft ==
  ASSUME NEW s \in Seq(Pieces), Lexed(s), NEW ps
  PROVE  LET t == PriorityOf(LabelsOf(s).text, ps).text IN
         /\ Lexed(t)
         /\ \E h : /\ Left(h, t, s)
                   /\ \A x \in 1 .. Len(s) :
                        /\ Stands(h, t, x) => ~InLabel(s, x)
                        /\ ~InLabel(s, x) /\ s[x].k \notin {"p", "space"} => Stands(h, t, x)
                        /\ /\ ~InLabel(s, x) /\ s[x].k # "p"
                           /\ x + 1 \in 1 .. Len(s) /\ ~InLabel(s, x + 1) /\ s[x + 1].k # "p"
                           => Stands(h, t, x)
<1> DEFINE r == LabelsOf(s).text
           t == PriorityOf(r, ps).text
<1>1. PICK f : /\ Lexed(r) /\ Left(f, r, s)
               /\ \A k \in 1 .. Len(s) : Stands(f, r, k) <=> ~InLabel(s, k)
  BY LabelsTaken
<1>2. r \in Seq(Pieces)
  BY <1>1 DEF Left
<1> HIDE DEF r
<1>3. PICK g : /\ Lexed(t) /\ Left(g, t, r)
               /\ \A k \in 1 .. Len(r) :
                    \/ Stands(g, t, k) \/ r[k].k = "p"
                    \/ r[k].k = "space" /\ k + 1 \in 1 .. Len(r) /\ r[k + 1].k = "p"
  BY <1>1, <1>2, PriorityTaken
<1> HIDE DEF t
<1>4. PICK h : /\ Left(h, t, s)
               /\ \A k \in 1 .. Len(s) :
                    Stands(h, t, k) <=> \E i \in 1 .. Len(r) : f[i] = k /\ Stands(g, t, i)
  BY <1>1, <1>3, LeftOfLeft
<1>5. \A y \in 1 .. Len(r) : r[y] = s[f[y]]
  BY <1>1 DEF Left
<1>6. ASSUME NEW x \in 1 .. Len(s), Stands(h, t, x) PROVE ~InLabel(s, x)
  <2>1. Stands(f, r, x)
    BY <1>4, <1>6 DEF Stands
  <2> QED BY <1>1, <2>1
<1>7. ASSUME NEW x \in 1 .. Len(s), ~InLabel(s, x)
      PROVE  \E y \in 1 .. Len(r) : f[y] = x /\ r[y] = s[x]
  BY <1>1, <1>5, <1>7 DEF Stands
<1>8. ASSUME NEW x \in 1 .. Len(s), ~InLabel(s, x), s[x].k \notin {"p", "space"} PROVE Stands(h, t, x)
  <2>1. PICK y \in 1 .. Len(r) : f[y] = x /\ r[y] = s[x]
    BY <1>7, <1>8
  <2>2. Stands(g, t, y)
    BY <1>3, <1>8, <2>1
  <2> QED BY <1>4, <2>1, <2>2
<1>9. ASSUME NEW x \in 1 .. Len(s), ~InLabel(s, x), s[x].k # "p",
             x + 1 \in 1 .. Len(s), ~InLabel(s, x + 1), s[x + 1].k # "p"
      PROVE  Stands(h, t, x)
  <2>1. PICK y \in 1 .. Len(r) : f[y] = x /\ r[y] = s[x]
    BY <1>7, <1>9
  <2>2. PICK z \in 1 .. Len(r) : f[z] = x + 1 /\ r[z] = s[x + 1]
    BY <1>7, <1>9
  <2>3. z = y + 1
    BY <1>1, <2>1, <2>2, LeftInOrder
  <2>4. Stands(g, t, y)
    BY <1>3, <1>9, <2>1, <2>2, <2>3
  <2> QED BY <1>4, <2>1, <2>4
<1>10. \A x \in 1 .. Len(s) :
         /\ Stands(h, t, x) => ~InLabel(s, x)
         /\ ~InLabel(s, x) /\ s[x].k \notin {"p", "space"} => Stands(h, t, x)
         /\ /\ ~InLabel(s, x) /\ s[x].k # "p"
            /\ x + 1 \in 1 .. Len(s) /\ ~InLabel(s, x + 1) /\ s[x + 1].k # "p"
            => Stands(h, t, x)
  BY <1>6, <1>8, <1>9
<1> QED BY <1>3, <1>4, <1>10, Zenon DEF t, r

\* The line in which the date is sought.
Remnant == PriorityOf(LabelsOf(ProjectOf(text, projects).text).text, priorities).text

\* What is left for it are the dates outside the mention and the labels, and all of
\* what is spelled out there.
LEMMA DatesLeft ==
  ASSUME text \in Seq(Pieces), Lexed(text), projects \in ProjectLists, MentionEnds
  PROVE  /\ Lexed(Remnant)
         /\ \E f : /\ Left(f, Remnant, text)
                   /\ \A k \in 1 .. Len(text) :
                        text[k].k \in DateKinds => (Stands(f, Remnant, k) <=> k \in DatePieces)
                   /\ \A i \in DatePieces :
                        SpelledOut(i) => \A k \in i - 4 .. i : Stands(f, Remnant, k)
<1> DEFINE r == ProjectOf(text, projects).text
           t == Remnant
<1>1. Len(text) \in Int /\ DOMAIN text = 1 .. Len(text)
  BY PlacesOf
<1>2. PICK f : Lexed(r) /\ LeftByMention(f, r)
  BY MentionTaken DEF LeftByMention
<1>3. r \in Seq(Pieces) /\ Left(f, r, text)
  BY <1>2 DEF LeftByMention, Left
<1>4. t = PriorityOf(LabelsOf(r).text, priorities).text
  BY DEF Remnant
<1> HIDE DEF r, t
<1>5. PICK h : /\ Lexed(t) /\ Left(h, t, r)
               /\ \A x \in 1 .. Len(r) :
                    /\ Stands(h, t, x) => ~InLabel(r, x)
                    /\ ~InLabel(r, x) /\ r[x].k \notin {"p", "space"} => Stands(h, t, x)
                    /\ /\ ~InLabel(r, x) /\ r[x].k # "p"
                       /\ x + 1 \in 1 .. Len(r) /\ ~InLabel(r, x + 1) /\ r[x + 1].k # "p"
                       => Stands(h, t, x)
  BY <1>2, <1>3, <1>4, RestLeft
<1>6. PICK g : /\ Left(g, t, text)
               /\ \A k \in 1 .. Len(text) :
                    Stands(g, t, k) <=> \E x \in 1 .. Len(r) : f[x] = k /\ Stands(h, t, x)
  BY <1>3, <1>5, LeftOfLeft
<1>7. \A x \in 1 .. Len(r) : r[x] = text[f[x]] /\ f[x] \in 1 .. Len(text)
  BY <1>3 DEF Left
<1>8. ASSUME NEW k \in 1 .. Len(text), k \notin Mention
      PROVE  \E x \in 1 .. Len(r) : f[x] = k /\ r[x] = text[k]
  BY <1>2, <1>7, <1>8 DEF LeftByMention, Stands
<1>9. ASSUME NEW k \in 1 .. Len(text), text[k].k \in DateKinds
      PROVE  Stands(g, t, k) <=> k \in DatePieces
  <2>1. text[k].k \notin {"p", "space", "at", "hash"}
    BY <1>9 DEF DateKinds
  <2>2. k \in DatePieces <=>
          /\ k \notin Mention
          /\ ~\E j \in 1 .. k : IsSign(text, j, "at") /\ \A m \in j .. k : ~IsSpace(text, m)
    BY <1>1, <1>9 DEF DatePieces
  <2>3. ASSUME NEW x \in 1 .. Len(r), f[x] = k, k \notin Mention
        PROVE  k \in DatePieces <=> ~InLabel(r, x)
    <3>1. text[f[x]].k # "at" /\ f[x] \notin Mention
      BY <2>1, <2>3
    <3>2. InLabel(r, x) <=> \E j \in 1 .. f[x] : /\ IsSign(text, j, "at")
                                                 /\ \A m \in j .. f[x] : ~IsSpace(text, m)
      BY <1>2, <3>1, LabelsSeen
    <3> QED BY <2>2, <2>3, <3>2
  <2>4. ASSUME Stands(g, t, k) PROVE k \in DatePieces
    <3>1. PICK x \in 1 .. Len(r) : f[x] = k /\ Stands(h, t, x)
      BY <1>6, <2>4
    <3>2. k \notin Mention
      BY <1>2, <2>1, <3>1 DEF LeftByMention, Stands
    <3>3. ~InLabel(r, x)
      BY <1>5, <3>1
    <3> QED BY <2>3, <3>1, <3>2, <3>3
  <2>5. ASSUME k \in DatePieces PROVE Stands(g, t, k)
    <3>1. k \notin Mention
      BY <2>2, <2>5
    <3>2. PICK x \in 1 .. Len(r) : f[x] = k /\ r[x] = text[k]
      BY <1>8, <3>1
    <3>3. ~InLabel(r, x)
      BY <2>3, <2>5, <3>1, <3>2
    <3>4. Stands(h, t, x)
      BY <1>5, <2>1, <3>2, <3>3
    <3> QED BY <1>6, <3>2, <3>4
  <2> QED BY <2>4, <2>5
<1>10. ASSUME NEW i \in DatePieces, SpelledOut(i), NEW k \in i - 4 .. i PROVE Stands(g, t, k)
  <2>1. i \in 1 .. Len(text) /\ i \in Int /\ text[i].k \in DateKinds
    BY <1>1 DEF DatePieces
  <2>2. /\ i > 4 /\ IsSpace(text, i - 5) /\ (i - 4 .. i) \cap Mention = {}
        /\ text[i - 4].k = "in" /\ text[i - 3].k = "space"
        /\ text[i - 2].k = "number" /\ text[i - 1].k = "space"
    BY <1>10 DEF SpelledOut
  <2>3. \A m \in i - 4 .. i : m \in {i - 4, i - 3, i - 2, i - 1, i}
    BY <2>1
  <2>4. \A m \in i - 4 .. i : /\ m \in 1 .. Len(text) /\ m \notin Mention
                              /\ text[m].k # "at" /\ text[m].k # "p"
    <3> SUFFICES ASSUME NEW m \in i - 4 .. i
                 PROVE  /\ m \in 1 .. Len(text) /\ m \notin Mention
                        /\ text[m].k # "at" /\ text[m].k # "p"
      OBVIOUS
    <3>1. m \in 1 .. Len(text) /\ m \notin Mention
      BY <1>1, <2>1, <2>2
    <3>2. text[m].k # "at" /\ text[m].k # "p"
      BY <2>1, <2>2, <2>3 DEF DateKinds
    <3> QED BY <3>1, <3>2
  <2>5. ASSUME NEW m \in i - 4 .. i, NEW x \in 1 .. Len(r), f[x] = m PROVE ~InLabel(r, x)
    <3> SUFFICES ASSUME InLabel(r, x) PROVE FALSE
      OBVIOUS
    <3>1. f[x] \notin Mention /\ text[f[x]].k # "at"
      BY <2>4, <2>5
    <3>2. PICK j \in 1 .. m : /\ IsSign(text, j, "at") /\ \A n \in j .. m : ~IsSpace(text, n)
      BY <1>2, <2>5, <3>1, LabelsSeen
    <3>3. CASE j <= i - 5
      <4>1. i - 5 \in j .. m
        BY <2>1, <3>2, <3>3
      <4> QED BY <2>2, <3>2, <4>1
    <3>4. CASE j > i - 5
      <4>1. j \in i - 4 .. i
        BY <2>1, <3>2, <3>4
      <4> QED BY <2>4, <3>2, <4>1 DEF IsSign
    <3> QED BY <2>1, <3>2, <3>3, <3>4
  <2>6. PICK x \in 1 .. Len(r) : f[x] = k /\ r[x] = text[k]
    BY <1>8, <2>4
  <2>7. ~InLabel(r, x)
    BY <2>5, <2>6
  <2>8. CASE text[k].k # "space"
    <3>1. Stands(h, t, x)
      BY <1>5, <2>4, <2>6, <2>7, <2>8
    <3> QED BY <1>6, <2>4, <2>6, <3>1
  <2>9. CASE text[k].k = "space"
    <3>1. k # i
      BY <2>1, <2>9 DEF DateKinds
    <3>2. k + 1 \in i - 4 .. i
      BY <2>1, <3>1
    <3>3. PICK y \in 1 .. Len(r) : f[y] = k + 1 /\ r[y] = text[k + 1]
      BY <1>8, <2>4, <3>2
    <3>4. y = x + 1
      BY <1>3, <2>6, <3>3, LeftInOrder
    <3>5. ~InLabel(r, y) /\ r[y].k # "p" /\ r[x].k # "p"
      BY <2>4, <2>5, <2>6, <3>2, <3>3
    <3>6. Stands(h, t, x)
      BY <1>5, <2>7, <3>4, <3>5
    <3> QED BY <1>6, <2>4, <2>6, <3>6
  <2> QED BY <2>8, <2>9
<1> QED BY <1>5, <1>6, <1>9, <1>10 DEF t

------------------------------------------------------------------------------
(* Finding the date.                                                         *)

\* Where the pattern k is first found, and the day it gives.
FirstAt(s, p) == CHOOSE i \in Found(s, p) : \A j \in Found(s, p) : i <= j
DayOf(s, k, today) ==
  Resolved(Last(Patterns[k]), s[FirstAt(s, Patterns[k]) + Group(Patterns[k]) - 1].v, today)

LEMMA PatternsAre ==
  /\ DOMAIN Patterns = 1 .. 10
  /\ Patterns[1] = <<"today">> /\ Patterns[2] = <<"tomorrow">> /\ Patterns[3] = <<"yesterday">>
  /\ Patterns[4] = <<"in", "space", "number", "space", "days">>
  /\ Patterns[5] = <<"in", "space", "number", "space", "weeks">>
  /\ Patterns[6] = <<"next", "space", "weekday">> /\ Patterns[7] = <<"weekday">>
  /\ Patterns[8] = <<"abbr">> /\ Patterns[9] = <<"iso">> /\ Patterns[10] = <<"slash">>
BY DEF Patterns

\* A pattern ends in a word that speaks of a date.
LEMMA PatternEnds ==
  ASSUME NEW k \in 1 .. 10
  PROVE  /\ Len(Patterns[k]) \in {1, 3, 5} /\ Len(Patterns[k]) \in DOMAIN Patterns[k]
         /\ Last(Patterns[k]) = Patterns[k][Len(Patterns[k])]
         /\ Last(Patterns[k]) \in DateKinds
<1>1. k \in {1, 2, 3, 4, 5, 6, 7, 8, 9, 10}
  OBVIOUS
<1>2. \A a : Len(<<a>>) = 1 /\ 1 \in DOMAIN <<a>> /\ <<a>>[1] = a
  OBVIOUS
<1>3. \A a, b, c : Len(<<a, b, c>>) = 3 /\ 3 \in DOMAIN <<a, b, c>> /\ <<a, b, c>>[3] = c
  OBVIOUS
<1>4. \A a, b, c, d, e : /\ Len(<<a, b, c, d, e>>) = 5 /\ 5 \in DOMAIN <<a, b, c, d, e>>
                         /\ <<a, b, c, d, e>>[5] = e
  OBVIOUS
<1>5. CASE k \in {1, 2, 3, 7, 8, 9, 10}
  <2>1. \E a \in DateKinds : Patterns[k] = <<a>>
    BY <1>5, PatternsAre DEF DateKinds
  <2> QED BY <1>2, <2>1 DEF Last
<1>6. CASE k = 6
  <2>1. \E a, b : \E c \in DateKinds : Patterns[k] = <<a, b, c>>
    BY <1>6, PatternsAre DEF DateKinds
  <2> QED BY <1>3, <2>1 DEF Last
<1>7. CASE k \in {4, 5}
  <2>1. \E a, b, c, d : \E e \in DateKinds : Patterns[k] = <<a, b, c, d, e>>
    BY <1>7, PatternsAre DEF DateKinds
  <2> QED BY <1>4, <2>1 DEF Last
<1> QED BY <1>1, <1>5, <1>6, <1>7

\* The patterns that are found and give a day that a Date holds.
Good(s, today) == {k \in DOMAIN Patterns : Found(s, Patterns[k]) # {} /\ DayOf(s, k, today) <= LastDate}

\* The date is the day of the first of them.
LEMMA DateOfFound ==
  ASSUME NEW s, NEW today
  PROVE  DateOf(s, today).due =
           IF Good(s, today) = {} THEN NULL
           ELSE ToISO(DayOf(s, CHOOSE k \in Good(s, today) : \A j \in Good(s, today) : k <= j, today))
<1>1. CASE Good(s, today) = {}
  <2>1. DateOf(s, today) = [text |-> s, due |-> NULL]
    BY <1>1 DEF DateOf, Good, DayOf, FirstAt
  <2> QED BY <1>1, <2>1
<1>2. CASE Good(s, today) # {}
  <2> DEFINE first == CHOOSE k \in Good(s, today) : \A j \in Good(s, today) : k <= j
  <2>1. DateOf(s, today) =
          [text |-> Without(s, FirstAt(s, Patterns[first]), FirstAt(s, Patterns[first]) + Len(Patterns[first]) - 1),
           due  |-> ToISO(DayOf(s, first, today))]
    BY <1>2 DEF DateOf, Good, DayOf, FirstAt
  <2> QED BY <1>2, <2>1
<1> QED BY <1>1, <1>2

\* When every pattern that is found gives the same day, the date is that day, or none
\* where a Date does not hold it.
LEMMA DueAs ==
  ASSUME NEW s, NEW today, NEW D,
         \E k \in 1 .. 10 : Found(s, Patterns[k]) # {},
         \A k \in 1 .. 10 : Found(s, Patterns[k]) # {} => DayOf(s, k, today) = D
  PROVE  DueIn(D, DateOf(s, today).due)
<1> DEFINE good == Good(s, today)
           first == CHOOSE k \in good : \A j \in good : k <= j
<1>1. DateOf(s, today).due = IF good = {} THEN NULL ELSE ToISO(DayOf(s, first, today))
  BY DateOfFound
<1>2. good \in SUBSET (1 .. 10)
  BY PatternsAre DEF Good
<1>3. good # {} <=> D <= LastDate
  BY PatternsAre DEF Good
<1>4. \A k \in good : DayOf(s, k, today) = D
  BY PatternsAre DEF Good
<1> HIDE DEF good
<1>5. ASSUME good # {} PROVE first \in good
  <2>1. \E k \in good : \A j \in good : k <= j
    <3>1. 10 \in Int
      OBVIOUS
    <3> QED BY <1>2, <1>5, <3>1, OuterPlaces
  <2> QED BY <2>1
<1> QED BY <1>1, <1>3, <1>4, <1>5 DEF DueIn

\* No pattern, no date.
LEMMA NoneFound ==
  ASSUME NEW s, NEW today, \A k \in 1 .. 10 : Found(s, Patterns[k]) = {}
  PROVE  DateOf(s, today).due = NULL
<1> DEFINE good == Good(s, today)
           first == CHOOSE k \in good : \A j \in good : k <= j
<1>1. DateOf(s, today).due = IF good = {} THEN NULL ELSE ToISO(DayOf(s, first, today))
  BY DateOfFound
<1>2. good = {}
  BY PatternsAre DEF Good
<1> QED BY <1>1, <1>2

\* What is found ends at a piece that speaks of a date.
LEMMA FoundEnds ==
  ASSUME NEW s \in Seq(Pieces), NEW k \in 1 .. 10, NEW i \in Found(s, Patterns[k])
  PROVE  /\ i + Len(Patterns[k]) - 1 \in 1 .. Len(s) /\ i \in 1 .. Len(s)
         /\ s[i + Len(Patterns[k]) - 1].k = Last(Patterns[k])
<1> DEFINE p == Patterns[k]
<1>1. Len(s) \in Int /\ DOMAIN s = 1 .. Len(s)
  BY PlacesOf
<1>2. Len(p) \in {1, 3, 5} /\ Len(p) \in DOMAIN p /\ Last(p) = p[Len(p)]
  BY PatternEnds
<1> HIDE DEF p
<1>3. i \in DOMAIN s /\ i + Len(p) - 1 <= Len(s) /\ \A j \in DOMAIN p : s[i + j - 1].k = p[j]
  BY DEF Found, p
<1> QED BY <1>1, <1>2, <1>3 DEF p

\* A line without a word that speaks of a date has none.
LEMMA NoDateNoDue ==
  ASSUME NEW s \in Seq(Pieces), NEW today, \A n \in 1 .. Len(s) : s[n].k \notin DateKinds
  PROVE  DateOf(s, today).due = NULL
<1>1. ASSUME NEW k \in 1 .. 10, NEW i \in Found(s, Patterns[k]) PROVE FALSE
  BY ZenonT(30), FoundEnds, PatternEnds
<1> QED BY <1>1, NoneFound

\* A single word is found where it stands.
LEMMA WordFound ==
  ASSUME NEW s \in Seq(Pieces), Lexed(s), NEW n \in 1 .. Len(s), s[n].k \in DateKinds
  PROVE  n \in Found(s, <<s[n].k>>)
<1>1. Len(s) \in Int /\ DOMAIN s = 1 .. Len(s)
  BY PlacesOf
<1>2. ~NoWord(s, n)
  BY <1>1 DEF NoWord, DateKinds
<1>3. NoWord(s, n - 1)
  <2>1. CASE n = 1
    BY <1>1, <2>1 DEF NoWord
  <2>2. CASE n # 1
    <3>1. n - 1 \in 1 .. Len(s) - 1 /\ (n - 1) + 1 = n
      BY <1>1, <2>2
    <3> QED BY <1>2, <3>1 DEF Lexed
  <2> QED BY <2>1, <2>2
<1>4. NoWord(s, n + 1)
  <2>1. CASE n = Len(s)
    BY <1>1, <2>1 DEF NoWord
  <2>2. CASE n # Len(s)
    <3>1. n \in 1 .. Len(s) - 1
      <4>1. n \in Int /\ n >= 1 /\ n <= Len(s)
        BY <1>1
      <4>2. \A a, b \in Int : a >= 1 /\ a <= b /\ a # b => a \in 1 .. b - 1
        OBVIOUS
      <4> QED BY <1>1, <2>2, <4>1, <4>2, Zenon
    <3> QED BY <1>2, <3>1 DEF Lexed
  <2> QED BY <2>1, <2>2
<1> DEFINE p == <<s[n].k>>
<1>5. Len(p) = 1 /\ DOMAIN p = 1 .. 1 /\ p[1] = s[n].k
  OBVIOUS
<1> HIDE DEF p
<1>6. n + Len(p) - 1 <= Len(s) /\ n + Len(p) = n + 1
  BY <1>1, <1>5
<1>7. \A k \in DOMAIN p : s[n + k - 1].k = p[k]
  <2> SUFFICES ASSUME NEW k \in DOMAIN p PROVE s[n + k - 1].k = p[k]
    OBVIOUS
  <2>1. k = 1 /\ n + k - 1 = n
    BY <1>1, <1>5
  <2> QED BY <1>5, <2>1
<1>8. n \in Found(s, p)
  BY <1>1, <1>3, <1>4, <1>6, <1>7 DEF Found
<1> QED BY <1>8 DEF p

\* Where only one piece speaks of a date, every pattern that is found ends there.
OnlyDate(s, n) ==
  /\ n \in 1 .. Len(s) /\ s[n].k \in DateKinds
  /\ \A m \in 1 .. Len(s) : s[m].k \in DateKinds => m = n

\* A pattern is found only where the only such word stands.
LEMMA OnlyFound ==
  ASSUME NEW s \in Seq(Pieces), NEW n, OnlyDate(s, n),
         NEW k \in 1 .. 10, NEW i \in Found(s, Patterns[k])
  PROVE  /\ i = n - Len(Patterns[k]) + 1 /\ Last(Patterns[k]) = s[n].k
         /\ FirstAt(s, Patterns[k]) = i
<1>1. Len(s) \in Int
  BY PlacesOf
<1> DEFINE l == Len(Patterns[k])
<1>2. l \in {1, 3, 5} /\ Last(Patterns[k]) \in DateKinds
  BY PatternEnds
<1>3. \A j \in Found(s, Patterns[k]) : j = n - l + 1 /\ Last(Patterns[k]) = s[n].k
  <2> SUFFICES ASSUME NEW j \in Found(s, Patterns[k])
               PROVE  j = n - l + 1 /\ Last(Patterns[k]) = s[n].k
    OBVIOUS
  <2>1. j + l - 1 \in 1 .. Len(s) /\ j \in 1 .. Len(s) /\ s[j + l - 1].k = Last(Patterns[k])
    BY FoundEnds
  <2>2. j + l - 1 = n
    BY <1>2, <2>1 DEF OnlyDate
  <2> HIDE DEF l
  <2>3. j \in Int /\ l \in Int
    BY <1>1, <1>2, <2>1
  <2>4. j = n - l + 1
    BY <2>2, <2>3
  <2> QED BY <2>1, <2>2, <2>4
<1>4. i \in Int
  BY <1>1, FoundEnds
<1>5. FirstAt(s, Patterns[k]) = i
  <2>1. Found(s, Patterns[k]) = {i}
    BY <1>3
  <2>2. i <= i
    BY <1>4
  <2> QED BY <2>1, <2>2 DEF FirstAt
<1> QED BY <1>3, <1>5

\* So a word gives its own day.
LEMMA WordsDay ==
  ASSUME NEW s \in Seq(Pieces), Lexed(s), NEW today, NEW n, OnlyDate(s, n),
         s[n].k \notin {"days", "weeks"}
  PROVE  DueIn(Resolved(s[n].k, s[n].v, today), DateOf(s, today).due)
<1>1. Len(s) \in Int
  BY PlacesOf
<1>2. ASSUME NEW k \in 1 .. 10, Found(s, Patterns[k]) # {}
      PROVE  DayOf(s, k, today) = Resolved(s[n].k, s[n].v, today)
  <2>1. PICK i \in Found(s, Patterns[k]) : TRUE
    BY <1>2
  <2>2. i = n - Len(Patterns[k]) + 1 /\ Last(Patterns[k]) = s[n].k /\ FirstAt(s, Patterns[k]) = i
    BY <2>1, OnlyFound
  <2>3. /\ k \in {1, 2, 3, 4, 5, 6, 7, 8, 9, 10}
        /\ Last(Patterns[4]) = "days" /\ Last(Patterns[5]) = "weeks"
    BY PatternsAre DEF Last
  <2>4. k \notin {4, 5}
    BY <2>2, <2>3
  <2>5. \A a, b, c : Len(<<a>>) = 1 /\ Len(<<a, b, c>>) = 3
    OBVIOUS
  <2>6. Len(Patterns[k]) = 1 \/ Len(Patterns[k]) = 3
    BY ZenonT(30), <2>3, <2>4, <2>5, PatternsAre
  <2>7. i + Group(Patterns[k]) - 1 = n
    <3>1. n \in Int
      BY <1>1 DEF OnlyDate
    <3>2. CASE Len(Patterns[k]) = 1
      <4>1. i = n /\ Group(Patterns[k]) = 1
        BY <2>2, <3>1, <3>2 DEF Group
      <4> QED BY <3>1, <4>1
    <3>3. CASE Len(Patterns[k]) = 3
      <4>1. i = n - 2 /\ Group(Patterns[k]) = 3
        BY <2>2, <3>1, <3>3 DEF Group
      <4> QED BY <3>1, <4>1
    <3> QED BY <2>6, <3>2, <3>3
  <2> QED BY <2>2, <2>7 DEF DayOf
<1>3. \E k \in 1 .. 10 : Found(s, Patterns[k]) # {}
  <2>1. n \in Found(s, <<s[n].k>>)
    BY WordFound DEF OnlyDate
  <2>2. \E k \in {1, 2, 3, 7, 8, 9, 10} : Patterns[k] = <<s[n].k>>
    BY PatternsAre DEF OnlyDate, DateKinds
  <2>3. PICK k \in {1, 2, 3, 7, 8, 9, 10} : Patterns[k] = <<s[n].k>>
    BY <2>2
  <2>4. k \in 1 .. 10
    OBVIOUS
  <2>5. n \in Found(s, Patterns[k])
    BY <2>1, <2>3
  <2> QED BY <2>4, <2>5
<1> QED BY <1>2, <1>3, DueAs

\* And "in N days" the day that is N days off.
LEMMA PhrasesDay ==
  ASSUME NEW s \in Seq(Pieces), Lexed(s), NEW today, NEW n, OnlyDate(s, n),
         s[n].k \in {"days", "weeks"}, n > 4,
         s[n - 4].k = "in", s[n - 3].k = "space", s[n - 2].k = "number", s[n - 1].k = "space"
  PROVE  DueIn(Resolved(s[n].k, s[n - 2].v, today), DateOf(s, today).due)
<1>1. Len(s) \in Int /\ DOMAIN s = 1 .. Len(s) /\ n \in 1 .. Len(s) /\ n \in Int
  BY PlacesOf DEF OnlyDate
<1> DEFINE p == <<"in", "space", "number", "space", s[n].k>>
<1>2. Len(p) = 5 /\ DOMAIN p = {1, 2, 3, 4, 5}
  <2>1. 1 .. 5 = {1, 2, 3, 4, 5}
    OBVIOUS
  <2> QED BY <2>1
<1>3. p[1] = "in" /\ p[2] = "space" /\ p[3] = "number" /\ p[4] = "space" /\ p[5] = s[n].k
  OBVIOUS
<1> HIDE DEF p
<1>4. ASSUME NEW k \in 1 .. 10, Found(s, Patterns[k]) # {}
      PROVE  DayOf(s, k, today) = Resolved(s[n].k, s[n - 2].v, today)
  <2>1. PICK i \in Found(s, Patterns[k]) : TRUE
    BY <1>4
  <2>2. i = n - Len(Patterns[k]) + 1 /\ Last(Patterns[k]) = s[n].k /\ FirstAt(s, Patterns[k]) = i
    BY <2>1, OnlyFound
  <2>3. k \in {1, 2, 3, 4, 5, 6, 7, 8, 9, 10}
    OBVIOUS
  <2>4. /\ Last(Patterns[1]) = "today" /\ Last(Patterns[2]) = "tomorrow" /\ Last(Patterns[3]) = "yesterday"
        /\ Last(Patterns[6]) = "weekday" /\ Last(Patterns[7]) = "weekday" /\ Last(Patterns[8]) = "abbr"
        /\ Last(Patterns[9]) = "iso" /\ Last(Patterns[10]) = "slash"
    BY PatternsAre DEF Last
  <2>5. k = 4 \/ k = 5
    BY <2>2, <2>3, <2>4
  <2>6. Len(Patterns[k]) = 5
    <3>1. \A a, b, c, d, e : Len(<<a, b, c, d, e>>) = 5
      OBVIOUS
    <3>2. \E a, b, c, d, e : Patterns[k] = <<a, b, c, d, e>>
      BY SMTT(30), <2>5, PatternsAre
    <3> QED BY <3>1, <3>2
  <2>7. i + Group(Patterns[k]) - 1 = n - 2
    BY <1>1, <2>2, <2>6 DEF Group
  <2> QED BY <2>2, <2>7 DEF DayOf
<1>5. n - 4 \in Found(s, p)
  <2>1. n - 4 \in DOMAIN s /\ (n - 4) + Len(p) - 1 <= Len(s)
    BY <1>1, <1>2
  <2>2. \A k \in DOMAIN p : s[(n - 4) + k - 1].k = p[k]
    <3> SUFFICES ASSUME NEW k \in DOMAIN p PROVE s[(n - 4) + k - 1].k = p[k]
      OBVIOUS
    <3>1. /\ (n - 4) + 1 - 1 = n - 4 /\ (n - 4) + 2 - 1 = n - 3 /\ (n - 4) + 3 - 1 = n - 2
          /\ (n - 4) + 4 - 1 = n - 1 /\ (n - 4) + 5 - 1 = n
      BY <1>1
    <3> QED BY <1>2, <1>3, <3>1
  <2>3. NoWord(s, (n - 4) - 1)
    <3>1. CASE n = 5
      BY <1>1, <3>1 DEF NoWord
    <3>2. CASE n # 5
      <4>1. (n - 4) - 1 \in 1 .. Len(s) - 1 /\ ((n - 4) - 1) + 1 = n - 4
        BY <1>1, <3>2
      <4>2. ~NoWord(s, n - 4)
        BY <2>1 DEF NoWord
      <4> QED BY <4>1, <4>2 DEF Lexed
    <3> QED BY <3>1, <3>2
  <2>4. NoWord(s, (n - 4) + Len(p))
    <3>1. (n - 4) + Len(p) = n + 1
      BY <1>1, <1>2
    <3>2. CASE n = Len(s)
      BY <1>1, <3>1, <3>2 DEF NoWord
    <3>3. CASE n # Len(s)
      <4>1. \A a, b \in Int : a \in 1 .. b /\ a # b => a \in 1 .. b - 1
        OBVIOUS
      <4>2. n \in 1 .. Len(s) - 1
        BY <1>1, <3>3, <4>1, Zenon
      <4>3. ~NoWord(s, n)
        BY <1>1 DEF NoWord
      <4> QED BY <3>1, <4>2, <4>3 DEF Lexed
    <3> QED BY <3>2, <3>3
  <2> QED BY <2>1, <2>2, <2>3, <2>4 DEF Found
<1>6. \E k \in 1 .. 10 : Found(s, Patterns[k]) # {}
  <2>1. Patterns[4] = p \/ Patterns[5] = p
    BY PatternsAre DEF p
  <2>2. 4 \in 1 .. 10 /\ 5 \in 1 .. 10
    OBVIOUS
  <2> QED BY <1>5, <2>1, <2>2
<1> QED BY <1>4, <1>6, DueAs

------------------------------------------------------------------------------
(* The line (QuickAdd).                                                      *)

\* Nothing is typed.
Blank(s) == \A i \in DOMAIN s : s[i].k = "space"

\* What the chips show is the line as it stands, read with the lists as they
\* stand on the day it was last read: it takes every change of the line or the
\* lists to read it again.
Fresh ==
  preview = IF Blank(text) THEN NULL ELSE ParseQuickAdd(text, priorities, projects, previewed)

\* What is shown anew is fresh.
LEMMA ShowsFresh ==
  ASSUME NEW s, NEW pris, NEW projs, Shows(s, pris, projs),
         text' = s, priorities' = pris, projects' = projs
  PROVE  Fresh'
BY DEF Shows, Parse, Fresh, Blank

LEMMA StepFresh ==
  ASSUME Fresh, [LineNext]_lineVars PROVE Fresh'
<1>1. ASSUME UNCHANGED <<text, priorities, projects, preview, previewed>> PROVE Fresh'
  BY <1>1 DEF Fresh, Blank
<1>2. ASSUME NEW phrase \in Phrases, Type(phrase) PROVE Fresh'
  BY <1>2, ShowsFresh DEF Type
<1>3. ASSUME NEW pris \in PriorityLists, NEW projs \in ProjectLists, ListsReload(pris, projs)
      PROVE  Fresh'
  BY <1>3, ShowsFresh DEF ListsReload
<1>4. CASE Submit
  <2>1. text' = <<>> /\ preview' = NULL
    BY <1>4 DEF Submit
  <2>2. Blank(<<>>)
    BY DEF Blank
  <2> QED BY <2>1, <2>2 DEF Fresh, Blank
<1>5. CASE UNCHANGED lineVars
  BY <1>1, <1>5 DEF lineVars
<1> QED BY <1>1, <1>2, <1>3, <1>4, <1>5 DEF LineNext, Pick, Open, Tick

\* Adding the line adds what its chips and pickers say.
LEMMA SubmitAddsPreview ==
  ASSUME Fresh, Submit, previewed = LocalDay
  PROVE  /\ added'.labels = IF preview.labels = <<>> THEN DefaultLabels ELSE preview.labels
         /\ \A f \in DOMAIN Nothing :
              added'[f] = IF picked[f] # NULL THEN picked[f]
                          ELSE IF preview[f] # NULL THEN preview[f] ELSE Default[f]
<1> DEFINE p == Parse(text, priorities, projects)
<1>1. p = preview
  BY DEF Submit, Fresh, Parse, Blank
<1>2. added' = [title    |-> IF p.title = <<>> THEN Squeezed(text) ELSE p.title,
                due      |-> Field("due", p), priority |-> Field("priority", p),
                project  |-> Field("project", p),
                labels   |-> IF p.labels = <<>> THEN DefaultLabels ELSE p.labels]
  BY DEF Submit
<1>3. added'.labels = IF preview.labels = <<>> THEN DefaultLabels ELSE preview.labels
  BY <1>1, <1>2
<1>4. DOMAIN Nothing = {"due", "priority", "project"}
  BY DEF Nothing
<1>5. ASSUME NEW f \in DOMAIN Nothing PROVE added'[f] = Field(f, preview)
  BY <1>1, <1>2, <1>4, <1>5
<1> QED BY <1>3, <1>5 DEF Field, Or

\* The task that is added is the one the chips and the pickers showed, whatever
\* happens to the lists, the view and the clock while the line is open, as long
\* as the local day is the one on which the line was last read (QuickAdd.jsx).
THEOREM PreviewAlwaysAdded == LineSpec => PreviewIsAdded
<1>1. LineInit => Fresh
  BY DEF LineInit, Fresh, Blank
<1>2. Fresh /\ [LineNext]_lineVars =>
        [added = NULL /\ added' # NULL /\ previewed = LocalDay =>
           /\ added'.labels = IF preview.labels = <<>> THEN DefaultLabels ELSE preview.labels
           /\ \A f \in DOMAIN Nothing :
                added'[f] = IF picked[f] # NULL THEN picked[f]
                            ELSE IF preview[f] # NULL THEN preview[f] ELSE Default[f]]_lineVars
  <2> SUFFICES ASSUME Fresh, [LineNext]_lineVars, added = NULL, added' # NULL, previewed = LocalDay
               PROVE  /\ added'.labels = IF preview.labels = <<>> THEN DefaultLabels ELSE preview.labels
                      /\ \A f \in DOMAIN Nothing :
                           added'[f] = IF picked[f] # NULL THEN picked[f]
                                       ELSE IF preview[f] # NULL THEN preview[f] ELSE Default[f]
    OBVIOUS
  <2>1. Submit
    BY DEF LineNext, lineVars, Type, ListsReload, Pick, Open, Tick
  <2> QED BY <2>1, SubmitAddsPreview
<1>3. Fresh /\ [LineNext]_lineVars => Fresh'
  BY StepFresh
<1> QED BY <1>1, <1>2, <1>3, PTL DEF LineSpec, PreviewIsAdded

------------------------------------------------------------------------------
(* The dates of the line.                                                    *)

\* What is typed stays lexed, since a space goes before every phrase.
LEMMA SpacedLexed ==
  ASSUME NEW s \in Seq(Pieces), NEW t \in Seq(Pieces), Lexed(s), Lexed(t)
  PROVE  s \o <<Space>> \o t \in Seq(Pieces) /\ Lexed(s \o <<Space>> \o t)
<1> DEFINE u == s \o <<Space>>
           w == u \o t
<1>1. Space \in Pieces /\ Space.k = "space"
  <2>1. Space = [k |-> "space", v |-> <<>>]
    BY DEF Space, Piece
  <2>2. <<>> \in Seq(Nat)
    OBVIOUS
  <2>3. Space \in [k : PieceKinds, v : Seq(Nat)] /\ Space.k = "space"
    BY <2>1, <2>2 DEF PieceKinds
  <2> QED BY <2>3 DEF Pieces
<1>2. <<Space>> \in Seq(Pieces) /\ Len(<<Space>>) = 1 /\ <<Space>>[1] = Space
  BY <1>1
<1>3. Len(s) \in Nat /\ Len(s) \in Int /\ DOMAIN s = 1 .. Len(s) /\ Len(t) \in Nat /\ Len(t) \in Int /\ DOMAIN t = 1 .. Len(t)
  BY PlacesOf
<1>4. /\ u \in Seq(Pieces) /\ Len(u) = Len(s) + 1
      /\ \A i \in 1 .. Len(s) + 1 : u[i] = IF i <= Len(s) THEN s[i] ELSE <<Space>>[i - Len(s)]
  BY <1>2, ConcatProperties
<1> HIDE DEF u
<1>5. /\ w \in Seq(Pieces) /\ Len(w) = Len(s) + 1 + Len(t)
      /\ \A i \in 1 .. Len(s) + 1 + Len(t) : w[i] = IF i <= Len(s) + 1 THEN u[i] ELSE t[i - (Len(s) + 1)]
  <2>1. /\ w \in Seq(Pieces) /\ Len(w) = Len(u) + Len(t)
        /\ \A i \in 1 .. Len(u) + Len(t) : w[i] = IF i <= Len(u) THEN u[i] ELSE t[i - Len(u)]
    <3>1. u \in Seq(Pieces)
      BY <1>4
    <3> QED BY <3>1, ConcatProperties
  <2>2. Len(u) = Len(s) + 1
    BY <1>4
  <2> HIDE DEF w
  <2> QED BY <2>1, <2>2
<1> HIDE DEF w
<1>6. DOMAIN w = 1 .. Len(w)
  BY <1>5, PlacesOf
<1>7. ASSUME NEW i \in 1 .. Len(w) - 1 PROVE NoWord(w, i) \/ NoWord(w, i + 1)
  <2>1. i \in Int /\ i >= 1 /\ i <= Len(s) + Len(t)
    BY <1>3, <1>5
  <2>2. CASE i < Len(s)
    <3>1. /\ i \in 1 .. Len(s) - 1 /\ i \in 1 .. Len(s) + 1 /\ i + 1 \in 1 .. Len(s) + 1 /\ i <= Len(s) /\ i + 1 <= Len(s)
          /\ i \in 1 .. Len(s) + 1 + Len(t) /\ i + 1 \in 1 .. Len(s) + 1 + Len(t)
          /\ i <= Len(s) + 1 /\ i + 1 <= Len(s) + 1
      BY <1>3, <2>1, <2>2
    <3>2. w[i] = s[i] /\ w[i + 1] = s[i + 1]
      BY <1>4, <1>5, <3>1
    <3>3. i \in DOMAIN s /\ i + 1 \in DOMAIN s
      BY <1>3, <3>1
    <3>4. NoWord(s, i) \/ NoWord(s, i + 1)
      BY <3>1 DEF Lexed
    <3> QED BY <3>2, <3>3, <3>4 DEF NoWord
  <2>3. ASSUME NEW j \in Int, j = Len(s) + 1 PROVE NoWord(w, j)
    <3>1. /\ j \in 1 .. Len(s) + 1 /\ j \in 1 .. Len(s) + 1 + Len(t) /\ j <= Len(s) + 1
          /\ ~(j <= Len(s)) /\ j - Len(s) = 1
      BY <1>3, <2>3
    <3>2. w[j] = Space
      BY <1>2, <1>4, <1>5, <3>1
    <3> QED BY <1>1, <3>2 DEF NoWord
  <2>4. CASE i = Len(s) \/ i = Len(s) + 1
    <3>1. CASE i = Len(s)
      <4>1. i + 1 \in Int /\ i + 1 = Len(s) + 1
        BY <2>1, <3>1
      <4> QED BY <2>3, <4>1
    <3>2. CASE i = Len(s) + 1
      BY <2>1, <2>3, <3>2
    <3> QED BY <2>4, <3>1, <3>2
  <2>5. CASE i > Len(s) + 1
    <3> DEFINE j == i - (Len(s) + 1)
    <3>1. /\ j \in 1 .. Len(t) - 1 /\ j \in 1 .. Len(t) /\ j + 1 \in 1 .. Len(t) /\ (i + 1) - (Len(s) + 1) = j + 1
          /\ i \in 1 .. Len(s) + 1 + Len(t) /\ i + 1 \in 1 .. Len(s) + 1 + Len(t)
          /\ ~(i <= Len(s) + 1) /\ ~(i + 1 <= Len(s) + 1)
      BY <1>3, <2>1, <2>5
    <3>2. w[i] = t[j] /\ w[i + 1] = t[j + 1]
      BY <1>5, <3>1
    <3> HIDE DEF j
    <3>3. NoWord(t, j) \/ NoWord(t, j + 1)
      BY <3>1 DEF Lexed
    <3> QED BY <1>3, <3>1, <3>2, <3>3 DEF NoWord
  <2>6. i < Len(s) \/ i = Len(s) \/ i = Len(s) + 1 \/ i > Len(s) + 1
    <3>1. \A a, b \in Int : a < b \/ a = b \/ a = b + 1 \/ a > b + 1
      OBVIOUS
    <3> QED BY <1>3, <2>1, <3>1, Zenon
  <2> QED BY <2>2, <2>4, <2>5, <2>6
<1>8. Lexed(w)
  BY <1>7 DEF Lexed
<1> QED BY <1>5, <1>8 DEF w, u

\* A line is what the lexer gives, and its day one on which the clock may stand.
OnClock(n) == n \in Int /\ n >= -1 /\ n <= ((Start + MaxTicks) \div 4) + 1
LineTypeOK ==
  /\ text \in Seq(Pieces) /\ Lexed(text)
  /\ projects \in ProjectLists
  /\ instant \in Start .. Start + MaxTicks /\ offset \in Offsets
  /\ OnClock(previewed)
LineInv == LineTypeOK /\ Fresh

\* The local day is one on which the clock may stand.
LEMMA DayOnClock ==
  ASSUME instant \in Start .. Start + MaxTicks, offset \in Offsets PROVE OnClock(LocalDay)
<1>1. Start \in Nat /\ MaxTicks \in Nat /\ Start + MaxTicks \in Int
  BY ClockGiven
<1>2. instant \in Int /\ instant >= 0 /\ instant <= Start + MaxTicks
  BY <1>1
<1>3. offset \in Int /\ offset >= -2 /\ offset <= 2
  BY ClockGiven
<1>4. \A a, b, c \in Int : a >= 0 /\ a <= c /\ b >= -2 /\ b <= 2 =>
        /\ ((a + b) \div 4) \in Int /\ ((a + b) \div 4) >= -1
        /\ ((a + b) \div 4) <= (c \div 4) + 1
  OBVIOUS
<1> QED BY <1>1, <1>2, <1>3, <1>4 DEF OnClock, LocalDay

LEMMA LineStarts == ASSUME LineInit PROVE LineInv
<1>1. <<>> \in Seq(Pieces) /\ Lexed(<<>>)
  <2>1. Len(<<>>) = 0
    OBVIOUS
  <2>2. 1 .. (0 - 1) = {}
    OBVIOUS
  <2> QED BY <2>1, <2>2 DEF Lexed
<1>2. instant \in Start .. Start + MaxTicks /\ offset \in Offsets
  BY ClockGiven DEF LineInit
<1>3. OnClock(previewed)
  BY <1>2, DayOnClock DEF LineInit
<1>4. Fresh
  BY DEF LineInit, Fresh, Blank
<1> QED BY <1>1, <1>2, <1>3, <1>4 DEF LineInv, LineTypeOK, LineInit

LEMMA ShowsOnClock ==
  ASSUME LineTypeOK, NEW s, NEW pris, NEW projs, Shows(s, pris, projs) PROVE OnClock(previewed')
<1>1. OnClock(LocalDay)
  BY DayOnClock DEF LineTypeOK
<1> QED BY <1>1 DEF Shows

\* Every step keeps the line as a lexer may give it.
LEMMA StepTyped ==
  ASSUME LineTypeOK, [LineNext]_lineVars PROVE LineTypeOK'
<1>1. ASSUME NEW phrase \in Phrases, Type(phrase) PROVE LineTypeOK'
  <2>1. phrase \in Seq(Pieces) /\ Lexed(phrase)
    BY PhrasesGiven
  <2>2. text' \in Seq(Pieces) /\ Lexed(text')
    <3>1. CASE text = <<>>
      BY <1>1, <2>1, <3>1 DEF Type
    <3>2. CASE text # <<>>
      <4>1. text' = text \o <<Space>> \o phrase
        BY <1>1, <3>2 DEF Type
      <4> QED BY <2>1, <4>1, SpacedLexed DEF LineTypeOK
    <3> QED BY <3>1, <3>2
  <2>3. OnClock(previewed')
    BY <1>1, ShowsOnClock DEF Type
  <2>4. Lexed(text)' /\ OnClock(previewed)'
    BY <2>2, <2>3 DEF Lexed, NoWord, OnClock
  <2> QED BY <1>1, <2>2, <2>4 DEF Type, LineTypeOK
<1>2. ASSUME NEW pris \in PriorityLists, NEW projs \in ProjectLists, ListsReload(pris, projs)
      PROVE  LineTypeOK'
  <2>1. OnClock(previewed')
    BY <1>2, ShowsOnClock DEF ListsReload
  <2> QED BY <1>2, <2>1 DEF ListsReload, LineTypeOK, Lexed, NoWord, OnClock
<1>3. CASE Tick
  <2>1. instant' \in Start .. Start + MaxTicks
    BY <1>3, ClockGiven DEF Tick, LineTypeOK
  <2> QED BY <1>3, <2>1 DEF Tick, LineTypeOK, Lexed, NoWord, OnClock
<1>4. CASE Submit
  <2>1. text' = <<>> /\ previewed' = previewed /\ projects' = projects /\ instant' = instant /\ offset' = offset
    BY <1>4 DEF Submit
  <2>2. <<>> \in Seq(Pieces) /\ Lexed(<<>>)
    <3>1. Len(<<>>) = 0
      OBVIOUS
    <3>2. 1 .. (0 - 1) = {}
      OBVIOUS
    <3> QED BY <3>1, <3>2 DEF Lexed
  <2>3. Lexed(text')
    BY <2>1, <2>2
  <2> QED BY <2>1, <2>2, <2>3 DEF LineTypeOK, Lexed, NoWord, OnClock
<1>5. ASSUME UNCHANGED <<text, projects, instant, offset, previewed>> PROVE LineTypeOK'
  BY <1>5 DEF LineTypeOK, Lexed, NoWord, OnClock
<1> QED BY <1>1, <1>2, <1>3, <1>4, <1>5 DEF LineNext, lineVars, Pick, Open

\* The line is always read as it stands, and always what a lexer can give.
LEMMA LineAlways == LineSpec => []LineInv
<1>1. LineInit => LineInv
  BY LineStarts
<1>2. LineInv /\ [LineNext]_lineVars => LineInv'
  BY StepTyped, StepFresh DEF LineInv
<1> QED BY <1>1, <1>2, PTL DEF LineSpec

\* The day that is meant by a valid date lies in its month.
LEMMA DateAt ==
  ASSUME NEW y \in Int, NEW m \in Int, NEW d \in Int, y >= 100, Valid(<<y, m, d>>)
  PROVE  m \in 1 .. 12 /\ NewDate(y, m, d) \in Int /\ Holds(y, m, NewDate(y, m, d))
<1>1. m \in 1 .. 12 /\ d >= 1 /\ d <= MonthStart(y, m + 1) - MonthStart(y, m)
  BY DEF Valid
<1>2. MonthStart(y, m) \in Int /\ MonthStart(y, m + 1) \in Int
  BY <1>1, MonthGiven
<1>3. NewDate(y, m, d) = MonthStart(y, m) + d - 1
  BY DEF NewDate
<1> QED BY <1>1, <1>2, <1>3 DEF Holds

\* A date as people write it, in this millennium or so, is one that a Date holds.
LEMMA DateHeld ==
  ASSUME NEW y \in Int, NEW m \in Int, NEW d \in Int, y >= 100, y <= LastYear, Valid(<<y, m, d>>)
  PROVE  NewDate(y, m, d) <= LastDate /\ ToISO(NewDate(y, m, d)) = <<y, m, d>>
<1> DEFINE n == NewDate(y, m, d)
<1>1. m \in 1 .. 12 /\ n \in Int /\ Holds(y, m, n)
  BY DateAt
<1> HIDE DEF n
<1>2. n < DaysToYear(y + 1)
  BY <1>1, HeldByYear
<1>3. DaysToYear(y + 1) <= DaysToYear(LastYear + 1)
  <2>1. y + 1 \in Int /\ LastYear + 1 \in Int /\ y + 1 <= LastYear + 1
    BY DEF LastYear
  <2> QED BY <2>1, YearsIncrease
<1>4. DaysToYear(LastYear + 1) <= LastDate
  BY DEF DaysToYear, LastYear, LastDate
<1>5. DaysToYear(LastYear + 1) \in Int /\ DaysToYear(y + 1) \in Int /\ LastDate \in Int
  BY DEF DaysToYear, LastYear, LastDate
<1>6. n <= LastDate
  BY <1>1, <1>2, <1>3, <1>4, <1>5
<1> QED BY <1>6, DatesWrittenAsRead DEF n

\* And so is one of the year it is.
LEMMA DateThisYear ==
  ASSUME NEW today, OnClock(today), NEW m \in Int, NEW d \in Int, Valid(<<ToISO(today)[1], m, d>>)
  PROVE  /\ NewDate(ToISO(today)[1], m, d) <= LastDate
         /\ ToISO(NewDate(ToISO(today)[1], m, d)) = <<ToISO(today)[1], m, d>>
<1> DEFINE y == ToISO(today)[1]
           n == NewDate(y, m, d)
<1>1. today \in Int /\ today >= -1 /\ today + 399 <= LastDate /\ LastDate \in Int
  <2>1. ((Start + MaxTicks) \div 4) \in Int /\ LastDate \in Int
    BY ClockGiven DEF LastDate
  <2> QED BY <2>1, LongBeforeLast DEF OnClock
<1>2. PICK z \in Int, k \in 1 .. 12 : Holds(z, k, today) /\ ToISO(today) = <<z, k, today - MonthStart(z, k) + 1>>
  BY <1>1, Written
<1>3. y = z
  BY <1>2
<1> HIDE DEF y
<1>4. DaysToYear(y) <= today /\ today < DaysToYear(y + 1)
  BY <1>1, <1>2, <1>3, HeldByYear
<1>5. DaysToYear(y) \in Int /\ DaysToYear(y + 1) \in Int /\ DaysToYear(y + 1) <= DaysToYear(y) + 366
  <2>1. DaysToYear(y + 1) = DaysToYear(y) + (IF Leap(y) THEN 366 ELSE 365)
    BY <1>2, <1>3, YearLength
  <2>2. DaysToYear(y) \in Int
    BY <1>2, <1>3 DEF DaysToYear
  <2> QED BY <2>1, <2>2
<1>6. y >= 100
  <2> SUFFICES ASSUME y < 100 PROVE FALSE
    BY <1>2, <1>3
  <2>1. y + 1 <= 101 /\ y + 1 \in Int
    BY <1>2, <1>3
  <2>2. DaysToYear(y + 1) <= DaysToYear(101)
    BY <2>1, YearsIncrease
  <2>3. DaysToYear(101) < -1 /\ DaysToYear(101) \in Int
    BY DEF DaysToYear
  <2> QED BY <1>1, <1>4, <1>5, <2>2, <2>3
<1>7. Valid(<<y, m, d>>)
  BY DEF y
<1>8. m \in 1 .. 12 /\ n \in Int /\ Holds(y, m, n)
  BY <1>2, <1>3, <1>6, <1>7, DateAt
<1>9. ToISO(n) = <<y, m, d>>
  BY <1>2, <1>3, <1>6, <1>7, DatesWrittenAsRead
<1> HIDE DEF n
<1>10. n < DaysToYear(y + 1)
  BY <1>2, <1>3, <1>8, HeldByYear
<1>11. n <= LastDate
  BY <1>1, <1>4, <1>5, <1>8, <1>10
<1> QED BY <1>9, <1>11 DEF y, n

LEMMA Triple ==
  ASSUME NEW s \in Seq(Nat), Len(s) = 3 PROVE s = <<s[1], s[2], s[3]>>
OBVIOUS

\* What the numbers of a piece may be.
LEMMA PieceGiven ==
  ASSUME NEW p \in Pieces
  PROVE  /\ p.v \in Seq(Nat)
         /\ p.k \in {"weekday", "abbr"} => p.v[1] \in 0 .. 6
         /\ p.k = "number" => p.v[1] \in Nat
         /\ p.k = "iso" => p.v = <<p.v[1], p.v[2], p.v[3]>> /\ p.v[1] \in 0 .. LastYear /\ p.v[2] \in Nat /\ p.v[3] \in Nat
         /\ p.k = "slash" => /\ Len(p.v) = 2 \/ (Len(p.v) = 3 /\ p.v[3] \in 0 .. LastYear)
                             /\ p.v[1] \in Nat /\ p.v[2] \in Nat
<1>1. /\ p.v \in Seq(Nat)
      /\ p.k \in {"weekday", "abbr"} => Len(p.v) = 1 /\ p.v[1] <= 6
      /\ p.k \in {"p", "number"} => Len(p.v) = 1
      /\ p.k = "iso" => Len(p.v) = 3 /\ p.v[1] <= LastYear
      /\ p.k = "slash" => Len(p.v) = 2 \/ (Len(p.v) = 3 /\ p.v[3] <= LastYear)
  BY DEF Pieces
<1> DEFINE v == p.v
<1>2. v \in Seq(Nat)
  BY <1>1
<1>3. Len(v) \in Nat /\ \A i \in 1 .. Len(v) : v[i] \in Nat
  BY <1>2, ElementOfSeq, LenProperties
<1>4. /\ Len(v) = 1 => v[1] \in Nat
      /\ Len(v) = 2 => v[1] \in Nat /\ v[2] \in Nat
      /\ Len(v) = 3 => v[1] \in Nat /\ v[2] \in Nat /\ v[3] \in Nat
  BY <1>3
<1>5. Len(v) = 3 => v = <<v[1], v[2], v[3]>>
  BY <1>2, Triple
<1>6. LastYear \in Int
  BY DEF LastYear
<1>7. CASE p.k \in {"weekday", "abbr"}
  BY SMTT(30), <1>1, <1>4, <1>7
<1>8. CASE p.k = "number"
  BY <1>1, <1>4, <1>8
<1>9. CASE p.k = "iso"
  BY <1>1, <1>4, <1>5, <1>6, <1>9
<1>10. CASE p.k = "slash"
  BY <1>1, <1>4, <1>6, <1>10
<1> QED BY <1>2, <1>7, <1>8, <1>9, <1>10

\* The only date of the line gives what is meant by it.
LEMMA DateMeant ==
  ASSUME LineTypeOK, MentionEnds, NEW today, OnClock(today), NEW i, DatePieces = {i}
  PROVE  Meant(i, today, DateOf(Remnant, today).due)
<1> DEFINE due == DateOf(Remnant, today).due
           v == text[i].v
<1>1. Len(text) \in Int /\ DOMAIN text = 1 .. Len(text) /\ \A j \in 1 .. Len(text) : text[j] \in Pieces
  BY PlacesOf DEF LineTypeOK
<1>2. i \in 1 .. Len(text) /\ text[i].k \in DateKinds
  BY <1>1 DEF DatePieces
<1>3. PICK f : /\ Lexed(Remnant) /\ Left(f, Remnant, text)
               /\ \A k \in 1 .. Len(text) :
                    text[k].k \in DateKinds => (Stands(f, Remnant, k) <=> k \in DatePieces)
               /\ \A k \in DatePieces :
                    SpelledOut(k) => \A j \in k - 4 .. k : Stands(f, Remnant, j)
  BY DatesLeft DEF LineTypeOK
<1>4. Remnant \in Seq(Pieces) /\ Len(Remnant) \in Int
  BY <1>3, PlacesOf DEF Left
<1>5. \A x \in 1 .. Len(Remnant) : Remnant[x] = text[f[x]] /\ f[x] \in 1 .. Len(text)
  BY <1>3 DEF Left
<1>6. PICK n \in 1 .. Len(Remnant) : f[n] = i
  BY <1>2, <1>3 DEF Stands
<1>7. OnlyDate(Remnant, n) /\ Remnant[n] = text[i]
  <2>1. ASSUME NEW m \in 1 .. Len(Remnant), Remnant[m].k \in DateKinds PROVE m = n
    <3>1. f[m] = i
      BY <1>3, <1>5, <2>1 DEF Stands
    <3> QED BY <1>3, <1>6, <3>1, LeftInOrder
  <2> QED BY <1>2, <1>5, <1>6, <2>1 DEF OnlyDate
<1>8. today \in Int /\ today + 399 <= LastDate /\ LastDate \in Int
  <2>1. ((Start + MaxTicks) \div 4) \in Int /\ LastDate \in Int
    BY ClockGiven DEF LastDate
  <2> QED BY <2>1, LongBeforeLast DEF OnClock
<1>9. ASSUME text[i].k \notin {"days", "weeks"} PROVE DueIn(Resolved(text[i].k, v, today), due)
  BY <1>3, <1>4, <1>7, <1>9, WordsDay
<1>10. text[i] \in Pieces
  BY <1>1, <1>2
<1> HIDE DEF due
<1>11. CASE text[i].k \in {"today", "tomorrow", "yesterday"}
  <2>1. DueIn(Resolved(text[i].k, v, today), due)
    BY <1>9, <1>11
  <2>2. CASE text[i].k = "today"
    <3>1. DueIn(today, due)
      BY <2>1, <2>2 DEF Resolved
    <3>2. today <= LastDate
      BY <1>8
    <3> QED BY <2>2, <3>1, <3>2 DEF Meant, DueIn, due
  <2>3. CASE text[i].k = "tomorrow"
    <3>1. DueIn(today + 1, due)
      BY <2>1, <2>3 DEF Resolved
    <3>2. today + 1 <= LastDate
      BY <1>8
    <3> QED BY <2>3, <3>1, <3>2 DEF Meant, DueIn, due
  <2>4. CASE text[i].k = "yesterday"
    <3>1. DueIn(today - 1, due)
      BY <2>1, <2>4 DEF Resolved
    <3>2. today - 1 <= LastDate
      BY <1>8
    <3> QED BY <2>4, <3>1, <3>2 DEF Meant, DueIn, due
  <2> QED BY <1>11, <2>2, <2>3, <2>4
<1>12. CASE text[i].k \in {"weekday", "abbr"}
  <2>1. v[1] \in 0 .. 6
    BY <1>10, <1>12, PieceGiven DEF v
  <2> DEFINE next == NextWeekday(today, v[1])
  <2>2. next \in today + 1 .. today + 7 /\ GetDay(next) = v[1]
    <3> HIDE DEF v
    <3> QED BY <1>8, <2>1, NextWeekdayComes
  <2>3. DueIn(next, due)
    BY <1>9, <1>12 DEF Resolved
  <2> HIDE DEF next
  <2>4. next <= LastDate
    BY <1>8, <2>2
  <2>5. due = ToISO(next)
    BY <2>3, <2>4 DEF DueIn
  <2>6. \E m \in today + 1 .. today + 7 : due = ToISO(m) /\ GetDay(m) = text[i].v[1]
    BY <2>2, <2>5
  <2> QED BY <1>12, <2>6 DEF Meant, due
<1>13. CASE text[i].k = "iso"
  <2>1. v = <<v[1], v[2], v[3]>> /\ v[1] \in 0 .. LastYear /\ v[2] \in Nat /\ v[3] \in Nat
    BY <1>10, <1>13, PieceGiven
  <2>2. ASSUME Valid(v), v[1] >= 100 PROVE due = v
    <3>1. DueIn(NewDate(v[1], v[2], v[3]), due)
      BY <1>9, <1>13 DEF Resolved
    <3>2. Valid(<<v[1], v[2], v[3]>>)
      BY <2>1, <2>2
    <3>3. NewDate(v[1], v[2], v[3]) <= LastDate /\ ToISO(NewDate(v[1], v[2], v[3])) = <<v[1], v[2], v[3]>>
      BY <2>1, <2>2, <3>2, DateHeld
    <3> QED BY <2>1, <3>1, <3>3 DEF DueIn
  <2> QED BY <1>13, <2>2 DEF Meant, due
<1>14. CASE text[i].k = "slash"
  <2>1. /\ Len(v) = 2 \/ (Len(v) = 3 /\ v[3] \in 0 .. LastYear)
        /\ v[1] \in Nat /\ v[2] \in Nat
    BY <1>10, <1>14, PieceGiven
  <2> DEFINE year == CASE Len(v) = 2 -> ToISO(today)[1]
                       [] Len(v) = 3 /\ v[3] < 100 -> 2000 + v[3]
                       [] OTHER -> v[3]
  <2>2. DueIn(Resolved("slash", v, today), due)
    BY <1>9, <1>14
  <2>3. ASSUME Valid(<<year, v[1], v[2]>>) PROVE due = <<year, v[1], v[2]>>
    <3>1. CASE Len(v) = 2
      <4>1. year = ToISO(today)[1]
        BY <3>1
      <4>2. DueIn(NewDate(ToISO(today)[1], v[1], v[2]), due)
        BY <2>2, <3>1 DEF Resolved
      <4> HIDE DEF year
      <4>3. /\ NewDate(ToISO(today)[1], v[1], v[2]) <= LastDate
            /\ ToISO(NewDate(ToISO(today)[1], v[1], v[2])) = <<ToISO(today)[1], v[1], v[2]>>
        BY <2>1, <2>3, <4>1, DateThisYear
      <4> QED BY <4>1, <4>2, <4>3 DEF DueIn
    <3>2. CASE Len(v) = 3
      <4>1. year = IF v[3] < 100 THEN 2000 + v[3] ELSE v[3]
        BY <3>2
      <4>2. DueIn(NewDate(year, v[1], v[2]), due)
        BY <2>2, <3>2, <4>1 DEF Resolved
      <4> HIDE DEF year
      <4>3. year \in Int /\ year >= 100 /\ year <= LastYear
        <5>1. LastYear \in Int /\ LastYear >= 2100
          BY DEF LastYear
        <5>2. v[3] \in 0 .. LastYear
          BY <2>1, <3>2
        <5> HIDE DEF v
        <5> QED BY <4>1, <5>1, <5>2
      <4>4. NewDate(year, v[1], v[2]) <= LastDate /\ ToISO(NewDate(year, v[1], v[2])) = <<year, v[1], v[2]>>
        BY <2>1, <2>3, <4>3, DateHeld
      <4> QED BY <4>2, <4>4 DEF DueIn
    <3> QED BY <2>1, <3>1, <3>2
  <2> QED BY <1>14, <2>3 DEF Meant, due
<1>15. CASE text[i].k \in {"days", "weeks"}
  <2>1. ASSUME SpelledOut(i) PROVE DueIn(Resolved(text[i].k, text[i - 2].v, today), due) /\ text[i - 2].v[1] \in Nat
    <3>1. /\ i > 4 /\ text[i - 4].k = "in" /\ text[i - 3].k = "space"
          /\ text[i - 2].k = "number" /\ text[i - 1].k = "space"
      BY <2>1 DEF SpelledOut
    <3>2. i - 4 \in 1 .. Len(text) /\ i - 3 \in 1 .. Len(text) /\ i - 2 \in 1 .. Len(text) /\ i - 1 \in 1 .. Len(text)
      BY <1>1, <1>2, <3>1
    <3>3. /\ Stands(f, Remnant, i - 4) /\ Stands(f, Remnant, i - 3)
          /\ Stands(f, Remnant, i - 2) /\ Stands(f, Remnant, i - 1)
      <4>1. i - 4 \in i - 4 .. i /\ i - 3 \in i - 4 .. i /\ i - 2 \in i - 4 .. i /\ i - 1 \in i - 4 .. i
        BY <1>1, <1>2
      <4> QED BY <1>3, <2>1, <4>1
    <3>4. PICK a \in 1 .. Len(Remnant) : f[a] = i - 4
      BY <3>3 DEF Stands
    <3>5. PICK b \in 1 .. Len(Remnant) : f[b] = i - 3
      BY <3>3 DEF Stands
    <3>6. PICK c \in 1 .. Len(Remnant) : f[c] = i - 2
      BY <3>3 DEF Stands
    <3>7. PICK d \in 1 .. Len(Remnant) : f[d] = i - 1
      BY <3>3 DEF Stands
    <3>8. /\ f[b] = f[a] + 1 /\ f[c] = f[b] + 1 /\ f[d] = f[c] + 1 /\ f[n] = f[d] + 1
      BY <1>1, <1>2, <1>6, <3>4, <3>5, <3>6, <3>7
    <3>9. b = a + 1 /\ c = b + 1 /\ d = c + 1 /\ n = d + 1
      BY <1>3, <3>8, LeftInOrder
    <3>10. a = n - 4 /\ b = n - 3 /\ c = n - 2 /\ d = n - 1 /\ n > 4
      <4>1. a \in Int /\ b \in Int /\ c \in Int /\ d \in Int /\ n \in Int /\ a >= 1
        BY <1>4
      <4> QED BY <3>9, <4>1
    <3>11. /\ Remnant[n - 4] = text[i - 4] /\ Remnant[n - 3] = text[i - 3]
           /\ Remnant[n - 2] = text[i - 2] /\ Remnant[n - 1] = text[i - 1]
      BY <1>5, <3>4, <3>5, <3>6, <3>7, <3>10
    <3>12. DueIn(Resolved(Remnant[n].k, Remnant[n - 2].v, today), DateOf(Remnant, today).due)
      BY <1>3, <1>4, <1>7, <1>15, <3>1, <3>10, <3>11, PhrasesDay
    <3>13. text[i - 2].v[1] \in Nat
      BY <1>1, <3>1, <3>2, PieceGiven
    <3> QED BY <1>7, <3>11, <3>12, <3>13 DEF due
  <2>2. CASE text[i].k = "days"
    <3>1. SpelledOut(i) => DueIn(today + text[i - 2].v[1], due)
      BY <2>1, <2>2 DEF Resolved
    <3> QED BY <2>2, <3>1 DEF Meant, due
  <2>3. CASE text[i].k = "weeks"
    <3>1. ASSUME SpelledOut(i) PROVE DueIn(today + 7 * text[i - 2].v[1], due)
      <4>1. DueIn(today + text[i - 2].v[1] * 7, due) /\ text[i - 2].v[1] \in Nat
        BY <2>1, <2>3, <3>1 DEF Resolved
      <4>2. text[i - 2].v[1] * 7 = 7 * text[i - 2].v[1]
        BY <4>1
      <4> QED BY <4>1, <4>2
    <3> QED BY <2>3, <3>1 DEF Meant, due
  <2> QED BY <1>15, <2>2, <2>3
<1> QED BY <1>2, <1>11, <1>12, <1>13, <1>14, <1>15 DEF DateKinds

\* A line without a date, outside the mention and the labels, is due on no day.
LEMMA NoDateMeant ==
  ASSUME LineTypeOK, MentionEnds, NEW today, DatePieces = {}
  PROVE  DateOf(Remnant, today).due = NULL
<1>1. PICK f : /\ Left(f, Remnant, text)
               /\ \A k \in 1 .. Len(text) :
                    text[k].k \in DateKinds => (Stands(f, Remnant, k) <=> k \in DatePieces)
  BY DatesLeft DEF LineTypeOK
<1>2. Remnant \in Seq(Pieces)
  BY <1>1 DEF Left
<1>3. ASSUME NEW n \in 1 .. Len(Remnant) PROVE Remnant[n].k \notin DateKinds
  <2>1. Remnant[n] = text[f[n]] /\ f[n] \in 1 .. Len(text)
    BY <1>1 DEF Left
  <2>2. Stands(f, Remnant, f[n])
    BY DEF Stands
  <2> QED BY <1>1, <2>1, <2>2
<1> QED BY <1>2, <1>3, NoDateNoDue

\* The date that is shown for a line is the one that is found in what is left of it.
LEMMA DueOfLine ==
  ASSUME NEW today
  PROVE  ParseQuickAdd(text, priorities, projects, today).due = DateOf(Remnant, today).due
BY DEF ParseQuickAdd, Remnant

LEMMA DatesNowAsTyped == ASSUME LineInv PROVE DatesAsTyped
<1> SUFFICES ASSUME preview # NULL, MentionEnds
             PROVE  /\ DatePieces = {} => preview.due = NULL
                    /\ \A i \in DatePieces : DatePieces = {i} => Meant(i, previewed, preview.due)
  BY DEF DatesAsTyped
<1>1. LineTypeOK /\ OnClock(previewed)
  BY DEF LineInv, LineTypeOK
<1>2. preview.due = DateOf(Remnant, previewed).due
  <2>1. preview = ParseQuickAdd(text, priorities, projects, previewed)
    BY DEF LineInv, Fresh
  <2> QED BY <2>1, DueOfLine
<1>3. DatePieces = {} => preview.due = NULL
  BY <1>1, <1>2, NoDateMeant
<1>4. ASSUME NEW i \in DatePieces, DatePieces = {i} PROVE Meant(i, previewed, preview.due)
  BY <1>1, <1>2, <1>4, DateMeant
<1> QED BY <1>3, <1>4

\* A line with one date in it is due on that date, whatever else it mentions, and
\* words of a label or a project are no date (quickAddParser.js 28-67, 69-128).
THEOREM DatesAlwaysAsTyped == LineSpec => []DatesAsTyped
BY LineAlways, DatesNowAsTyped, PTL

------------------------------------------------------------------------------
(* The lists (Catalog): what is always so.                                   *)

RowSet == [name : Names, order : Int]
FormSet == [seen : SUBSET Names, value : SUBSET Names]

\* The tables and what the clients hold keep their types, and what a thing has
\* or a form asks for is finite.
RowsTyped == rows \in Seq(RowSet \cup {NULL})
HeldTyped == IF ByName THEN held \subseteq Names /\ IsFiniteSet(held) ELSE held \subseteq Nat
ClientsTyped ==
  /\ list \in [Clients -> Seq([id : Nat, name : Names])]
  /\ form \in [Clients -> FormSet \cup {NULL}]
  /\ \A c \in Clients : form[c] # NULL => IsFiniteSet(form[c].value)
  /\ blocked \in [Clients -> Nat \cup {NULL}]
  /\ moves \in [Clients -> SUBSET [id : Nat, order : Int]]
CatalogTypeOK ==
  kind \in Kinds /\ RowsTyped /\ HeldTyped /\ ClientsTyped /\ stale \in BOOLEAN

\* UNIQUE(name), and a list that shows no row twice.
NamesUnique == \A i, j \in Ids : rows[i].name = rows[j].name => i = j
ListsOnce == \A c \in Clients : IsInjective(Order(c))

\* Only what is reassigned asks for a replacement.
BlockedReassigns == \A c \in Clients : blocked[c] # NULL => Reassigns

\* While the calls of a drop are under way, each row is where it was dropped or
\* has its call still to come, and there are no other calls.
DropUnderWay ==
  dropped # NULL =>
    /\ dropped \in Seq(Nat) /\ ToSet(dropped) = Ids /\ IsInjective(dropped)
    /\ \A k \in DOMAIN dropped :
         \/ rows[dropped[k]].order = k - 1
         \/ \E c \in Clients : [id |-> dropped[k], order |-> k - 1] \in moves[c]
    /\ \A c \in Clients : \A m \in moves[c] :
         \E k \in DOMAIN dropped : m = [id |-> dropped[k], order |-> k - 1]

CatalogInv ==
  /\ CatalogTypeOK /\ NamesUnique /\ HoldersKeepRows
  /\ ListsOnce /\ BlockedReassigns /\ DropUnderWay

LEMMA IdsAreFinite ==
  ASSUME rows \in Seq(RowSet \cup {NULL})
  PROVE  /\ Ids \subseteq 1 .. Len(rows) /\ IsFiniteSet(Ids) /\ Cardinality(Ids) \in Nat
         /\ Ids \subseteq Nat
         /\ \A i \in Ids : rows[i] \in RowSet
<1>1. Len(rows) \in Nat /\ DOMAIN rows = 1 .. Len(rows)
  BY LenProperties
<1>2. Ids \subseteq 1 .. Len(rows)
  BY <1>1 DEF Ids
<1>3. IsFiniteSet(1 .. Len(rows))
  BY <1>1, FS_Interval
<1>4. IsFiniteSet(Ids)
  BY <1>2, <1>3, FS_Subset
<1>5. \A i \in Ids : rows[i] \in RowSet
  BY <1>1, ElementOfSeq DEF Ids
<1> QED BY <1>1, <1>2, <1>4, <1>5, FS_CardinalityType

\* A query in sort_order answers every row once, in that order.
LEMMA SortedLists ==
  ASSUME rows \in Seq(RowSet \cup {NULL})
  PROVE  /\ Sorted \in [1 .. Cardinality(Ids) -> Ids]
         /\ IsInjective(Sorted)
         /\ \A x \in Ids : \E k \in 1 .. Cardinality(Ids) : Sorted[k] = x
         /\ \A i, j \in 1 .. Cardinality(Ids) : i < j => Earlier(Sorted[i], Sorted[j])
<1> DEFINE n == Cardinality(Ids)
           R == {p \in Ids \X Ids : Earlier(p[1], p[2])}
<1>1. /\ IsFiniteSet(Ids) /\ n \in Nat /\ Ids \subseteq Nat
      /\ \A i \in Ids : rows[i].order \in Int
  BY IdsAreFinite DEF RowSet
<1>2. \A x, y \in Ids : <<x, y>> \in R <=> Earlier(x, y)
  OBVIOUS
<1>3. /\ \A x \in Ids : ~Earlier(x, x)
      /\ \A x, y, z \in Ids : Earlier(x, y) /\ Earlier(y, z) => Earlier(x, z)
      /\ \A x, y \in Ids : x # y => Earlier(x, y) \/ Earlier(y, x)
  BY SMTT(30), <1>1 DEF Earlier
<1> HIDE DEF R
<1>4. PICK r \in [Ids -> 1 .. n] :
         /\ \A x, y \in Ids : <<x, y>> \in R <=> r[x] < r[y]
         /\ \A k \in 1 .. n : \E x \in Ids : r[x] = k
         /\ \A x \in Ids : Cardinality({y \in Ids : <<y, x>> \in R}) = r[x] - 1
  <2>1. /\ \A x \in Ids : <<x, x>> \notin R
        /\ \A x, y, z \in Ids : <<x, y>> \in R /\ <<y, z>> \in R => <<x, z>> \in R
        /\ \A x, y \in Ids : x # y => <<x, y>> \in R \/ <<y, x>> \in R
    <3> HIDE DEF n
    <3> QED BY <1>2, <1>3
  <2>2. \E r \in [Ids -> 1 .. Cardinality(Ids)] :
           /\ \A x, y \in Ids : <<x, y>> \in R <=> r[x] < r[y]
           /\ \A k \in 1 .. Cardinality(Ids) : \E x \in Ids : r[x] = k
           /\ \A x \in Ids : Cardinality({y \in Ids : <<y, x>> \in R}) = r[x] - 1
    BY ZenonT(30), <1>1, <2>1, RanksExist
  <2> QED BY <2>2
<1>5. ASSUME NEW x \in Ids PROVE Cardinality({j \in Ids : Earlier(j, x)}) = r[x] - 1
  <2>1. {j \in Ids : Earlier(j, x)} = {y \in Ids : <<y, x>> \in R}
    BY <1>2
  <2> QED BY <1>4, <2>1
<1>6. ASSUME NEW k \in 1 .. n PROVE Sorted[k] \in Ids /\ r[Sorted[k]] = k
  <2>1. PICK x \in Ids : r[x] = k
    BY <1>4
  <2>2. Cardinality({j \in Ids : Earlier(j, x)}) = k - 1
    BY <1>5, <2>1
  <2>3. Sorted[k] = CHOOSE i \in Ids : Cardinality({j \in Ids : Earlier(j, i)}) = k - 1
    BY DEF Sorted
  <2>4. Sorted[k] \in Ids /\ Cardinality({j \in Ids : Earlier(j, Sorted[k])}) = k - 1
    BY <2>2, <2>3
  <2>5. r[Sorted[k]] \in 1 .. n /\ r[Sorted[k]] - 1 = k - 1
    BY <1>4, <1>5, <2>4
  <2> QED BY <1>1, <2>4, <2>5
<1>7. Sorted \in [1 .. n -> Ids]
  BY <1>6 DEF Sorted
<1>8. IsInjective(Sorted)
  BY <1>6, <1>7 DEF IsInjective
<1>9. \A i, j \in 1 .. n : i < j => Earlier(Sorted[i], Sorted[j])
  BY ZenonT(30), <1>2, <1>4, <1>6
<1>10. \A x \in Ids : \E k \in 1 .. n : Sorted[k] = x
  BY <1>1, <1>7, <1>8, FullEnumeration
<1> QED BY <1>7, <1>8, <1>9, <1>10

\* A row is no NULL, and neither is a form or an id.
LEMMA NeverNull ==
  /\ \A r \in RowSet : r # NULL
  /\ \A f \in FormSet : f # NULL
  /\ \A i \in Nat : i # NULL
BY NullIsNothing DEF RowSet, FormSet

\* What a client shows after a GET has every row once.
LEMMA ShownLists ==
  ASSUME RowsTyped
  PROVE  /\ Shown \in Seq([id : Nat, name : Names])
         /\ \A k, l \in DOMAIN Shown : Shown[k].id = Shown[l].id => k = l
<1> DEFINE n == Cardinality(Ids)
           item(k) == [id |-> Sorted[k], name |-> rows[Sorted[k]].name]
<1>1. n \in Nat /\ Ids \subseteq Nat /\ \A i \in Ids : rows[i] \in RowSet
  BY IdsAreFinite DEF RowsTyped
<1>2. Sorted \in [1 .. n -> Ids] /\ IsInjective(Sorted)
  BY SortedLists DEF RowsTyped
<1>3. Shown = [k \in 1 .. n |-> item(k)]
  BY <1>2 DEF Shown
<1>4. \A k \in 1 .. n : item(k) \in [id : Nat, name : Names]
  BY <1>1, <1>2 DEF RowSet
<1>5. Shown \in Seq([id : Nat, name : Names])
  <2> HIDE DEF item, n
  <2> QED BY <1>1, <1>3, <1>4, IsASeq
<1>6. \A k, l \in DOMAIN Shown : Shown[k].id = Shown[l].id => k = l
  BY <1>2, <1>3 DEF IsInjective
<1> QED BY <1>5, <1>6

\* A new row goes to a place at the end.
LEMMA EndIsPlace == ASSUME RowsTyped PROVE End \in Int
<1> DEFINE S == {rows[i].order : i \in Ids}
           f == [i \in Ids |-> rows[i].order]
<1>1. IsFiniteSet(Ids) /\ \A i \in Ids : rows[i].order \in Int
  BY IdsAreFinite DEF RowsTyped, RowSet
<1>2. f \in Surjection(Ids, S)
  BY DEF Surjection
<1>3. IsFiniteSet(S)
  <2> HIDE DEF f, S
  <2> QED BY <1>1, <1>2, FS_Surjection
<1>4. IsFiniteSet(S \cup {-1}) /\ S \cup {-1} \subseteq Int /\ S \cup {-1} # {}
  BY <1>1, <1>3, FS_AddElement
<1>5. Max(S \cup {-1}) \in S \cup {-1}
  <2> HIDE DEF S
  <2> QED BY <1>4, GreatestExists
<1> QED BY SMTT(30), <1>4, <1>5 DEF End

\* The labels that a saved form makes come after the rows there are, one for
\* each name that nobody has.
LEMMA MadeRows ==
  ASSUME RowsTyped, NamesUnique, NEW names \in SUBSET Names, IsFiniteSet(names)
  PROVE  LET new == Made(names)
             ids == {i \in DOMAIN new : new[i] # NULL}
         IN  /\ new \in Seq(RowSet \cup {NULL})
             /\ DOMAIN rows \subseteq DOMAIN new
             /\ \A i \in DOMAIN rows : new[i] = rows[i]
             /\ \A i, j \in ids : new[i].name = new[j].name => i = j
             /\ names \subseteq NamesOf(rows) => new = rows
<1> DEFINE T == {Row(n, 0) : n \in names \ NamesOf(rows)}
           U == RowSet \cup {NULL}
           s == SetToSeq(T)
           new == Made(names)
           f == [n \in names \ NamesOf(rows) |-> Row(n, 0)]
<1>1. IsFiniteSet(names \ NamesOf(rows))
  BY FS_Difference
<1>2. f \in Surjection(names \ NamesOf(rows), T)
  BY DEF Surjection
<1>3. IsFiniteSet(T)
  <2> HIDE DEF f, T
  <2> QED BY <1>1, <1>2, FS_Surjection
<1>4. Cardinality(T) \in Nat /\ s \in [1 .. Cardinality(T) -> T] /\ IsInjective(s)
  <2> HIDE DEF T
  <2> QED BY <1>3, SetToSeqLists
<1>5. T \subseteq RowSet
  BY DEF RowSet, Row
<1>6. s \in Seq(U) /\ Len(s) = Cardinality(T)
  <2> HIDE DEF T, s
  <2> QED BY <1>4, <1>5
<1>7. rows \in Seq(U) /\ Len(rows) \in Nat /\ DOMAIN rows = 1 .. Len(rows)
  BY LenProperties DEF RowsTyped
<1>8. new = rows \o s
  BY DEF Made
<1>9. /\ new \in Seq(U) /\ Len(new) = Len(rows) + Len(s)
      /\ \A i \in 1 .. Len(rows) + Len(s) :
           new[i] = IF i <= Len(rows) THEN rows[i] ELSE s[i - Len(rows)]
  <2> HIDE DEF s, new, U
  <2> QED BY <1>6, <1>7, <1>8, ConcatProperties
<1>10. DOMAIN new = 1 .. Len(rows) + Len(s)
  <2> HIDE DEF s, new, U
  <2> QED BY <1>9, LenProperties
<1>11. Len(s) \in Nat
  BY <1>4, <1>6
<1>12. DOMAIN rows \subseteq DOMAIN new /\ \A i \in DOMAIN rows : new[i] = rows[i]
  <2> HIDE DEF s, new, U
  <2> QED BY <1>7, <1>9, <1>10, <1>11
<1>13. ASSUME NEW i \in DOMAIN new, NEW j \in DOMAIN new, new[i] # NULL, new[j] # NULL,
              new[i].name = new[j].name
       PROVE  i = j
  <2> HIDE DEF new, s
  <2>1. ASSUME NEW k \in DOMAIN new, k \notin DOMAIN rows
        PROVE  /\ k - Len(rows) \in 1 .. Len(s) /\ new[k] = s[k - Len(rows)]
               /\ new[k] \in T
    <3>1. k \in 1 .. Len(rows) + Len(s) /\ ~(k <= Len(rows)) /\ k \in Int
      BY <1>7, <1>10, <1>11, <2>1
    <3>2. k - Len(rows) \in 1 .. Len(s)
      BY <1>7, <1>11, <3>1
    <3>3. new[k] = s[k - Len(rows)]
      BY <1>9, <3>1
    <3> HIDE DEF T
    <3> QED BY <1>4, <1>6, <3>2, <3>3
  <2>2. ASSUME NEW k \in DOMAIN rows, NEW l \in DOMAIN new, l \notin DOMAIN rows,
               new[k] # NULL, new[k].name = new[l].name
        PROVE  FALSE
    <3>1. PICK n \in names \ NamesOf(rows) : new[l] = Row(n, 0)
      BY <2>1, <2>2
    <3>2. new[k] = rows[k] /\ rows[k].name = n
      BY <1>12, <2>2, <3>1 DEF Row
    <3> QED BY <2>2, <3>1, <3>2 DEF NamesOf
  <2>3. CASE i \in DOMAIN rows /\ j \in DOMAIN rows
    BY <1>12, <1>13, <2>3 DEF NamesUnique, Ids
  <2>4. CASE i \notin DOMAIN rows /\ j \notin DOMAIN rows
    <3>1. PICK n \in names, m \in names : new[i] = Row(n, 0) /\ new[j] = Row(m, 0)
      BY <2>1, <2>4
    <3>2. n = m
      BY <1>13, <3>1 DEF Row
    <3>3. s[i - Len(rows)] = s[j - Len(rows)]
      BY <2>1, <2>4, <3>1, <3>2
    <3>4. i - Len(rows) = j - Len(rows)
      BY <1>4, <1>6, <2>1, <2>4, <3>3 DEF IsInjective
    <3>5. i \in Int /\ j \in Int
      BY <1>7, <1>10, <1>11
    <3> QED BY <1>7, <3>4, <3>5
  <2> QED BY <1>13, <2>2, <2>3, <2>4
<1>14. ASSUME names \subseteq NamesOf(rows) PROVE new = rows
  <2>1. T = {}
    BY <1>14
  <2>2. Len(s) = 0
    <3> HIDE DEF s, T
    <3> QED BY <1>6, <2>1, FS_EmptySet
  <2> HIDE DEF s, new, U
  <2> QED BY <1>7, <1>9, <2>2, SeqEqual
<1> QED BY <1>9, <1>12, <1>13, <1>14

\* A row that is dragged changes its place and no row is lost or doubled.
LEMMA MovedPermutes ==
  ASSUME NEW S, NEW s \in Seq(S), NEW from \in DOMAIN s, NEW to \in DOMAIN s, from # to
  PROVE  /\ Moved(s, from, to) \in Seq(S)
         /\ DOMAIN Moved(s, from, to) = DOMAIN s
         /\ ToSet(Moved(s, from, to)) = ToSet(s)
         /\ IsInjective(s) => IsInjective(Moved(s, from, to))
<1> DEFINE n == Len(s)
           r == RemoveAt(s, from)
           t == Moved(s, from, to)
           ahead == SubSeq(s, 1, from - 1)
           after == SubSeq(s, from + 1, n)
           spot(k) == IF k < to THEN IF k < from THEN k ELSE k + 1
                    ELSE IF k = to THEN from
                    ELSE IF k - 1 < from THEN k - 1 ELSE k
           back(k) == IF k = from THEN to
                      ELSE LET j == IF k < from THEN k ELSE k - 1
                           IN  IF j < to THEN j ELSE j + 1
<1>1. /\ n \in Nat /\ DOMAIN s = 1 .. n /\ from \in 1 .. n /\ to \in 1 .. n
      /\ \A k \in 1 .. n : s[k] \in S
  BY LenProperties, ElementOfSeq
<1>2. /\ ahead \in Seq(S) /\ Len(ahead) = from - 1
      /\ \A k \in 1 .. from - 1 : ahead[k] = s[k]
  <2>1. \A k \in 1 .. from - 1 : s[k] \in S
    BY <1>1
  <2>2. 1 \in Int /\ from - 1 \in Int
    BY <1>1
  <2>3. /\ ahead \in Seq(S) /\ Len(ahead) = IF 1 <= from - 1 THEN from - 1 - 1 + 1 ELSE 0
        /\ \A k \in 1 .. from - 1 - 1 + 1 : ahead[k] = s[1 + k - 1]
    BY <2>1, <2>2, SubSeqProperties
  <2> HIDE DEF ahead
  <2> QED BY <1>1, <2>3
<1>3. /\ after \in Seq(S) /\ Len(after) = n - from
      /\ \A k \in 1 .. n - from : after[k] = s[from + k]
  <2>1. \A k \in from + 1 .. n : s[k] \in S
    BY <1>1
  <2>2. from + 1 \in Int /\ n \in Int
    BY <1>1
  <2>3. /\ after \in Seq(S) /\ Len(after) = IF from + 1 <= n THEN n - (from + 1) + 1 ELSE 0
        /\ \A k \in 1 .. n - (from + 1) + 1 : after[k] = s[from + 1 + k - 1]
    BY <2>1, <2>2, SubSeqProperties
  <2>4. n - (from + 1) + 1 = n - from
    BY <1>1
  <2>5. \A k \in 1 .. n - from : from + 1 + k - 1 = from + k
    BY <1>1
  <2> HIDE DEF after
  <2>6. Len(after) = n - from
    BY <1>1, <2>3
  <2> QED BY <2>3, <2>4, <2>5, <2>6
<1>4. /\ r \in Seq(S) /\ Len(r) = n - 1
      /\ \A k \in 1 .. n - 1 : r[k] = s[IF k < from THEN k ELSE k + 1]
  <2>1. r = ahead \o after
    BY DEF RemoveAt
  <2> HIDE DEF r, ahead, after
  <2>2. /\ r \in Seq(S) /\ Len(r) = Len(ahead) + Len(after)
        /\ \A k \in 1 .. Len(ahead) + Len(after) :
             r[k] = IF k <= Len(ahead) THEN ahead[k] ELSE after[k - Len(ahead)]
    BY <1>2, <1>3, <2>1, ConcatProperties
  <2>3. Len(r) = n - 1
    BY <1>1, <1>2, <1>3, <2>2
  <2>4. ASSUME NEW k \in 1 .. n - 1 PROVE r[k] = s[IF k < from THEN k ELSE k + 1]
    <3>1. k \in Int /\ k \in 1 .. Len(ahead) + Len(after)
      BY <1>1, <1>2, <1>3
    <3>2. CASE k < from
      BY <1>1, <1>2, <2>2, <3>1, <3>2
    <3>3. CASE ~(k < from)
      <4>1. k - (from - 1) \in 1 .. n - from
        BY <1>1, <3>1, <3>3
      <4>2. r[k] = after[k - (from - 1)]
        BY <1>1, <1>2, <2>2, <3>1, <3>3
      <4>3. after[k - (from - 1)] = s[from + (k - (from - 1))]
        BY <1>3, <4>1
      <4>4. from + (k - (from - 1)) = k + 1
        BY <1>1, <3>1
      <4> QED BY <3>3, <4>2, <4>3, <4>4
    <3> QED BY <3>2, <3>3
  <2> QED BY <2>2, <2>3, <2>4
<1> DEFINE left == SubSeq(r, 1, to - 1)
           right == SubSeq(r, to, Len(r))
<1>5. \A k \in 1 .. n - 1 : r[k] \in S
  <2> HIDE DEF r
  <2> QED BY <1>1, <1>4, ElementOfSeq
<1>6. /\ left \in Seq(S) /\ Len(left) = to - 1
      /\ \A k \in 1 .. to - 1 : left[k] = r[k]
  <2> HIDE DEF r
  <2>1. \A k \in 1 .. to - 1 : r[k] \in S
    BY <1>1, <1>5
  <2>2. 1 \in Int /\ to - 1 \in Int
    BY <1>1
  <2>3. /\ left \in Seq(S) /\ Len(left) = IF 1 <= to - 1 THEN to - 1 - 1 + 1 ELSE 0
        /\ \A k \in 1 .. to - 1 - 1 + 1 : left[k] = r[1 + k - 1]
    BY <2>1, <2>2, SubSeqProperties
  <2> HIDE DEF left
  <2> QED BY <1>1, <2>3
<1>7. /\ right \in Seq(S) /\ Len(right) = n - to
      /\ \A k \in 1 .. n - to : right[k] = r[to + k - 1]
  <2> HIDE DEF r
  <2>1. \A k \in to .. Len(r) : r[k] \in S
    BY <1>1, <1>4, <1>5
  <2>2. to \in Int /\ Len(r) \in Int
    BY <1>1, <1>4
  <2>3. /\ right \in Seq(S) /\ Len(right) = IF to <= Len(r) THEN Len(r) - to + 1 ELSE 0
        /\ \A k \in 1 .. Len(r) - to + 1 : right[k] = r[to + k - 1]
    BY <2>1, <2>2, SubSeqProperties
  <2> HIDE DEF right
  <2> QED BY <1>1, <1>4, <2>3
<1>8. /\ t \in Seq(S) /\ Len(t) = n
      /\ \A k \in 1 .. n : t[k] = s[spot(k)]
  <2> DEFINE one == <<s[from]>>
             most == left \o one
  <2>1. t = most \o right
    BY DEF Moved, InsertAt
  <2>2. one \in Seq(S) /\ Len(one) = 1 /\ one[1] = s[from]
    BY <1>1
  <2> HIDE DEF one, left, right, r, t
  <2>3. /\ most \in Seq(S) /\ Len(most) = Len(left) + Len(one)
        /\ \A k \in 1 .. Len(left) + Len(one) :
             most[k] = IF k <= Len(left) THEN left[k] ELSE one[k - Len(left)]
    BY <1>6, <2>2, ConcatProperties
  <2> HIDE DEF most
  <2>4. /\ t \in Seq(S) /\ Len(t) = Len(most) + Len(right)
        /\ \A k \in 1 .. Len(most) + Len(right) :
             t[k] = IF k <= Len(most) THEN most[k] ELSE right[k - Len(most)]
    BY SMTT(30), <1>7, <2>1, <2>3, ConcatProperties
  <2>5. Len(most) = to /\ Len(t) = n
    <3>1. Len(most) = to - 1 + 1 /\ Len(t) = Len(most) + (n - to)
      BY <1>6, <1>7, <2>2, <2>3, <2>4
    <3> QED BY <1>1, <3>1
  <2>6. ASSUME NEW k \in 1 .. n PROVE t[k] = s[spot(k)]
    <3>1. k \in Int
      OBVIOUS
    <3>2. CASE k < to
      <4>1. k \in 1 .. n - 1 /\ k \in 1 .. to - 1 /\ k \in 1 .. to - 1 + 1 /\ k \in 1 .. to + (n - to)
            /\ k <= to - 1 /\ k <= to
        BY <1>1, <3>1, <3>2
      <4>3. t[k] = most[k]
        BY <1>7, <2>4, <2>5, <4>1
      <4>4. most[k] = left[k]
        BY <1>6, <2>2, <2>3, <4>1
      <4>5. left[k] = r[k]
        BY <1>6, <4>1
      <4>2. r[k] = s[IF k < from THEN k ELSE k + 1]
        BY <1>4, <4>1
      <4> QED BY <3>2, <4>2, <4>3, <4>4, <4>5
    <3>3. CASE k = to
      <4>1. /\ k \in 1 .. to - 1 + 1 /\ k \in 1 .. to + (n - to)
            /\ ~(k <= to - 1) /\ k <= to /\ k - (to - 1) = 1
        BY <1>1, <3>1, <3>3
      <4>2. t[k] = most[k]
        BY <1>7, <2>4, <2>5, <4>1
      <4>3. most[k] = one[1]
        BY <1>6, <2>2, <2>3, <4>1
      <4> QED BY <1>1, <2>2, <3>3, <4>2, <4>3
    <3>4. CASE k > to
      <4>1. t[k] = right[k - to] /\ k - to \in 1 .. n - to
        BY <1>1, <1>7, <2>4, <2>5, <3>4
      <4>2. right[k - to] = r[to + (k - to) - 1]
        BY <1>7, <4>1
      <4>3. to + (k - to) - 1 = k - 1 /\ k - 1 \in 1 .. n - 1
        BY <1>1, <3>1, <3>4
      <4>4. t[k] = r[k - 1]
        BY <4>1, <4>2, <4>3
      <4>5. r[k - 1] = s[IF k - 1 < from THEN k - 1 ELSE k - 1 + 1]
        BY <1>4, <4>3
      <4>6. spot(k) = IF k - 1 < from THEN k - 1 ELSE k - 1 + 1
        <5>1. ~(k < to) /\ k # to /\ k - 1 + 1 = k
          BY <1>1, <3>1, <3>4
        <5> QED BY <5>1
      <4> QED BY <4>4, <4>5, <4>6
    <3> QED BY <1>1, <3>1, <3>2, <3>3, <3>4
  <2> QED BY <2>4, <2>5, <2>6
<1>9. \A k \in 1 .. n : spot(k) \in 1 .. n /\ back(spot(k)) = k
  BY <1>1
<1>10. \A k \in 1 .. n : back(k) \in 1 .. n /\ spot(back(k)) = k
  BY <1>1
<1> HIDE DEF t, spot, back
<1>11. DOMAIN t = 1 .. n
  BY <1>8, LenProperties
<1>12. ToSet(t) = ToSet(s)
  <2>1. \A k \in 1 .. n : t[k] \in ToSet(s)
    BY <1>1, <1>8, <1>9 DEF ToSet
  <2>2. \A k \in 1 .. n : s[k] \in ToSet(t)
    BY <1>8, <1>10, <1>11 DEF ToSet
  <2> QED BY <1>1, <1>11, <2>1, <2>2 DEF ToSet
<1>13. IsInjective(s) => IsInjective(t)
  BY <1>1, <1>8, <1>9, <1>11 DEF IsInjective
<1> QED BY <1>1, <1>8, <1>11, <1>12, <1>13 DEF t

\* What is filed and what it is filed under.
TablesOK == kind \in Kinds /\ RowsTyped /\ HeldTyped /\ stale \in BOOLEAN /\ NamesUnique /\ HoldersKeepRows
\* What the clients show and wait for.
ClientsOK == ClientsTyped /\ ListsOnce /\ BlockedReassigns

LEMMA InvParts == /\ CatalogInv <=> TablesOK /\ ClientsOK /\ DropUnderWay
                  /\ CatalogInv' <=> TablesOK' /\ ClientsOK' /\ DropUnderWay'
BY DEF CatalogInv, CatalogTypeOK, TablesOK, ClientsOK

LEMMA TablesStay ==
  ASSUME TablesOK, UNCHANGED <<kind, rows, held, stale>> PROVE TablesOK' /\ Ids' = Ids
<1> USE DEF Ids, ByName
<1>1. RowsTyped' /\ HeldTyped' /\ kind' \in Kinds /\ stale' \in BOOLEAN
  BY DEF TablesOK, RowsTyped, HeldTyped
<1>2. NamesUnique' /\ Ids' = Ids
  BY DEF TablesOK, NamesUnique
<1>3. HoldersKeepRows'
  BY DEF TablesOK, HoldersKeepRows, NamesOf
<1> QED BY <1>1, <1>2, <1>3 DEF TablesOK

LEMMA ClientsStay ==
  ASSUME ClientsOK, UNCHANGED <<kind, list, form, blocked, moves>> PROVE ClientsOK'
BY DEF ClientsOK, ClientsTyped, ListsOnce, BlockedReassigns, Reassigns, Order

LEMMA DropStays ==
  ASSUME DropUnderWay, UNCHANGED <<dropped, moves>>, Ids' = Ids,
         \A i \in Ids : rows'[i].order = rows[i].order
  PROVE  DropUnderWay'
<1> SUFFICES ASSUME dropped' # NULL PROVE DropUnderWay'
  BY DEF DropUnderWay
<1>1. \A k \in DOMAIN dropped : dropped[k] \in Ids
  BY DEF DropUnderWay, ToSet
<1> QED BY <1>1 DEF DropUnderWay

LEMMA DropGone == ASSUME dropped' = NULL PROVE DropUnderWay'
BY DEF DropUnderWay

\* A name in use is one a row has, by its id or by its name.
LEMMA NamesOfIds == NamesOf(rows) = {rows[i].name : i \in Ids}
BY DEF NamesOf, Ids

LEMMA RowDeleted ==
  ASSUME TablesOK, NEW i \in Ids, NEW h,
         rows' = [rows EXCEPT ![i] = NULL], held' = Dropped(i, h), UNCHANGED <<kind, stale>>,
         IF ByName THEN /\ h \subseteq Names /\ IsFiniteSet(h)
                        /\ stale \/ \A n \in h : \E j \in Ids \ {i} : rows[j].name = n
                   ELSE h \subseteq Ids
  PROVE  TablesOK'
<1>1. /\ rows \in Seq(RowSet \cup {NULL}) /\ DOMAIN rows = 1 .. Len(rows)
      /\ i \in 1 .. Len(rows) /\ Ids \subseteq Nat
  BY IdsAreFinite, LenProperties DEF TablesOK, RowsTyped
<1>2. rows' \in Seq(RowSet \cup {NULL}) /\ DOMAIN rows' = DOMAIN rows
  BY <1>1, ExceptSeq
<1>3. Ids' = Ids \ {i} /\ \A j \in Ids' : rows'[j] = rows[j]
  BY <1>1 DEF Ids
<1>4. HeldTyped'
  BY <1>1 DEF HeldTyped, ByName, Dropped
<1>5. NamesUnique'
  BY <1>3 DEF TablesOK, NamesUnique
<1>6. HoldersKeepRows'
  <2>1. CASE ByName
    <3>1. held' = h /\ (stale \/ \A n \in h : \E j \in Ids' : rows'[j].name = n)
      BY <1>3, <2>1 DEF Dropped
    <3>2. stale' \/ held' \subseteq NamesOf(rows')
      BY <3>1 DEF NamesOf, Ids
    <3> QED BY <2>1, <3>2 DEF HoldersKeepRows, ByName
  <2>2. CASE ~ByName
    BY <1>3, <2>2 DEF HoldersKeepRows, ByName, Dropped
  <2> QED BY <2>1, <2>2
<1> QED BY <1>2, <1>4, <1>5, <1>6 DEF TablesOK, RowsTyped

------------------------------------------------------------------------------
(* One lemma for each operation.                                             *)

LEMMA RefreshKeeps ==
  ASSUME CatalogInv, NEW c \in Clients, Refresh(c) PROVE CatalogInv'
<1> USE InvParts
<1>1. TablesOK' /\ Ids' = Ids
  BY TablesStay DEF Refresh
<1>2. RowsTyped
  BY DEF TablesOK
<1>3. ClientsTyped'
  BY <1>2, ShownLists DEF Refresh, ClientsOK, ClientsTyped
<1>4. ListsOnce'
  <2> SUFFICES ASSUME NEW d \in Clients PROVE IsInjective(Order(d))'
    BY DEF ListsOnce
  <2>1. CASE d = c
    <3>1. list'[d] = Shown
      BY <2>1 DEF Refresh, ClientsOK, ClientsTyped
    <3>2. \A k, l \in DOMAIN list'[d] : list'[d][k].id = list'[d][l].id => k = l
      BY <1>2, <3>1, ShownLists
    <3> QED BY <3>2 DEF Order, IsInjective
  <2>2. CASE d # c
    BY <2>2 DEF Refresh, ClientsOK, ClientsTyped, ListsOnce, Order
  <2> QED BY <2>1, <2>2
<1>5. BlockedReassigns'
  BY DEF Refresh, ClientsOK, BlockedReassigns, Reassigns
<1>6. DropUnderWay'
  BY <1>1, DropStays DEF Refresh
<1> QED BY <1>1, <1>3, <1>4, <1>5, <1>6 DEF ClientsOK

LEMMA CreateKeeps ==
  ASSUME CatalogInv, NEW c \in Clients, NEW n \in Names, Create(c, n) PROVE CatalogInv'
<1> USE InvParts
<1>1. /\ rows \in Seq(RowSet \cup {NULL}) /\ DOMAIN rows = 1 .. Len(rows) /\ Len(rows) \in Nat
      /\ Ids \subseteq 1 .. Len(rows)
  BY IdsAreFinite, LenProperties DEF TablesOK, RowsTyped
<1>2. Row(n, End) \in RowSet /\ Row(n, End) # NULL
  <2>1. End \in Int
    BY EndIsPlace DEF TablesOK
  <2> QED BY <2>1, NeverNull DEF Row, RowSet
<1>3. /\ rows' \in Seq(RowSet \cup {NULL}) /\ Len(rows') = Len(rows) + 1
      /\ \A i \in 1 .. Len(rows) : rows'[i] = rows[i]
      /\ rows'[Len(rows) + 1] = Row(n, End)
  BY <1>1, <1>2, AppendProperties DEF Create
<1>4. DOMAIN rows' = 1 .. Len(rows) + 1
  BY <1>3, LenProperties
<1>5. Ids' = Ids \cup {Len(rows) + 1} /\ \A i \in Ids : rows'[i] = rows[i]
  BY <1>1, <1>2, <1>3, <1>4 DEF Ids
<1>6. NamesUnique'
  <2>1. \A i \in Ids : rows[i].name # n
    BY NamesOfIds DEF Create
  <2>2. rows'[Len(rows) + 1].name = n
    BY <1>3 DEF Row
  <2>3. \A i, j \in Ids : rows'[i].name = rows'[j].name => i = j
    BY <1>5 DEF TablesOK, NamesUnique
  <2> QED BY <1>5, <2>1, <2>2, <2>3 DEF NamesUnique
<1>7. HoldersKeepRows'
  <2>1. NamesOf(rows) \subseteq NamesOf(rows')
    BY <1>1, <1>3, <1>4 DEF NamesOf
  <2> QED BY <1>5, <2>1 DEF Create, TablesOK, HoldersKeepRows, ByName
<1>8. HeldTyped'
  BY DEF Create, TablesOK, HeldTyped, ByName
<1>9. TablesOK'
  BY <1>3, <1>6, <1>7, <1>8 DEF Create, TablesOK, RowsTyped
<1>10. ClientsOK'
  BY ClientsStay DEF Create
<1> QED BY <1>9, <1>10, DropGone DEF Create

LEMMA RenameKeeps ==
  ASSUME CatalogInv, NEW c \in Clients, NEW item \in Listed(c), NEW n \in Names, Rename(c, item, n)
  PROVE  CatalogInv'
<1> USE InvParts
<1> DEFINE i == item.id
           old == rows[i].name
<1>1. /\ rows \in Seq(RowSet \cup {NULL}) /\ DOMAIN rows = 1 .. Len(rows)
      /\ i \in Ids /\ i \in 1 .. Len(rows) /\ \A j \in Ids : rows[j] \in RowSet
      /\ rows' = [rows EXCEPT ![i] = [rows[i] EXCEPT !.name = n]]
  BY IdsAreFinite, LenProperties DEF TablesOK, RowsTyped, Rename
<1>2. [rows[i] EXCEPT !.name = n] \in RowSet /\ [rows[i] EXCEPT !.name = n] # NULL
  <2>1. [rows[i] EXCEPT !.name = n] \in RowSet
    BY <1>1 DEF RowSet
  <2> QED BY <2>1, NeverNull
<1>3. /\ rows' \in Seq(RowSet \cup {NULL}) /\ DOMAIN rows' = DOMAIN rows
      /\ rows'[i] = [rows[i] EXCEPT !.name = n]
      /\ \A j \in DOMAIN rows : j # i => rows'[j] = rows[j]
  BY <1>1, <1>2, ExceptSeq
<1>4. Ids' = Ids
  BY <1>1, <1>2, <1>3 DEF Ids
<1>5. rows'[i].name = n /\ \A j \in Ids : rows'[j].order = rows[j].order
  BY <1>1, <1>3 DEF Ids, RowSet
<1>6. \A j \in Ids \ {i} : rows'[j].name = rows[j].name /\ rows[j].name # n
  BY <1>3 DEF Rename, Ids
<1>7. NamesUnique'
  BY <1>4, <1>5, <1>6 DEF TablesOK, NamesUnique
<1>8. old \in Names
  BY <1>1 DEF RowSet
<1>9. HeldTyped'
  <2>1. CASE ByName
    <3>1. held \subseteq Names /\ IsFiniteSet(held)
      BY <2>1 DEF TablesOK, HeldTyped
    <3>2. IsFiniteSet(held \ {old})
      BY <3>1, FS_RemoveElement
    <3>3. IsFiniteSet((held \ {old}) \cup {n})
      BY <3>2, FS_AddElement
    <3>4. held' \subseteq Names /\ IsFiniteSet(held')
      BY <3>1, <3>3 DEF Rename, Renamed
    <3> QED BY <2>1, <3>4 DEF HeldTyped, ByName, Rename
  <2>2. CASE ~ByName
    BY <2>2 DEF Rename, Renamed, HeldTyped, ByName, TablesOK
  <2> QED BY <2>1, <2>2
<1>10. HoldersKeepRows'
  <2>1. CASE ByName
    <3>1. CASE stale
      BY <2>1, <3>1 DEF HoldersKeepRows, Rename, ByName
    <3>2. CASE ~stale
      <4>1. held \subseteq {rows[j].name : j \in Ids}
        BY <2>1, <3>2, NamesOfIds DEF TablesOK, HoldersKeepRows
      <4>2. ASSUME NEW m \in held' PROVE \E j \in Ids : rows'[j].name = m
        <5>1. CASE m = n
          BY <1>1, <1>5, <5>1
        <5>2. CASE m # n
          <6>1. m \in held /\ m # old
            BY <2>1, <5>2, <4>2 DEF Rename, Renamed
          <6>2. PICK j \in Ids : rows[j].name = m
            BY <4>1, <6>1
          <6> QED BY <1>6, <6>1, <6>2
        <5> QED BY <5>1, <5>2
      <4>3. held' \subseteq NamesOf(rows')
        BY <1>4, <4>2 DEF NamesOf, Ids
      <4> QED BY <2>1, <4>3 DEF HoldersKeepRows, Rename, ByName
    <3> QED BY <3>1, <3>2 DEF TablesOK
  <2>2. CASE ~ByName
    BY <1>4, <2>2 DEF Rename, Renamed, HoldersKeepRows, ByName, TablesOK
  <2> QED BY <2>1, <2>2
<1>11. TablesOK'
  BY <1>3, <1>7, <1>9, <1>10 DEF Rename, TablesOK, RowsTyped
<1>12. ClientsOK'
  BY ClientsStay DEF Rename
<1>13. DropUnderWay'
  BY <1>4, <1>5, DropStays DEF Rename
<1> QED BY <1>11, <1>12, <1>13

\* The dialog that asks for a replacement opens and closes.
LEMMA AskKeeps ==
  ASSUME ClientsOK, NEW c \in Clients, NEW i \in Nat \cup {NULL}, i # NULL => Reassigns,
         blocked' = [blocked EXCEPT ![c] = i], UNCHANGED <<kind, list, form, moves>>
  PROVE  ClientsOK'
BY DEF ClientsOK, ClientsTyped, ListsOnce, BlockedReassigns, Reassigns, Order

LEMMA TryDeleteKeeps ==
  ASSUME CatalogInv, NEW c \in Clients, NEW item \in Listed(c), TryDelete(c, item)
  PROVE  CatalogInv'
<1> USE InvParts
<1> DEFINE i == item.id
<1>1. i \in Ids /\ i \in Nat
  BY IdsAreFinite DEF TablesOK, RowsTyped, TryDelete
<1>2. CASE Reassigns /\ InUse(i)
  <2>1. blocked' = [blocked EXCEPT ![c] = i] /\ UNCHANGED <<kind, rows, held, stale, dropped, list, form, moves>>
    BY <1>2 DEF TryDelete
  <2>2. TablesOK' /\ Ids' = Ids
    BY <2>1, TablesStay
  <2>3. ClientsOK'
    BY <1>1, <1>2, <2>1, AskKeeps
  <2> QED BY <2>1, <2>2, <2>3, DropStays
<1>3. CASE ~(Reassigns /\ InUse(i))
  <2>1. /\ rows' = [rows EXCEPT ![i] = NULL] /\ held' = Dropped(i, held) /\ dropped' = NULL
        /\ blocked' = [blocked EXCEPT ![c] = NULL] /\ UNCHANGED <<kind, stale, list, form, moves>>
    BY <1>3 DEF TryDelete, Delete
  <2>2. CASE ByName
    <3>1. rows[i].name \notin held
      BY <1>3, <2>2 DEF Reassigns, ByName, InUse
    <3>2. stale \/ \A n \in held : \E j \in Ids \ {i} : rows[j].name = n
      BY <2>2, <3>1, NamesOfIds DEF TablesOK, HoldersKeepRows
    <3>3. TablesOK'
      BY <1>1, <2>1, <2>2, <3>2, RowDeleted DEF TablesOK, HeldTyped
    <3> QED BY <2>1, <3>3, AskKeeps, DropGone
  <2>3. CASE ~ByName
    <3>1. TablesOK'
      BY <1>1, <2>1, <2>3, RowDeleted DEF TablesOK, HoldersKeepRows
    <3> QED BY <2>1, <3>1, AskKeeps, DropGone
  <2> QED BY <2>2, <2>3
<1> QED BY <1>2, <1>3

LEMMA ConfirmDeleteKeeps ==
  ASSUME CatalogInv, NEW c \in Clients, NEW item \in Listed(c), NEW to \in Listed(c),
         ConfirmDelete(c, item, to)
  PROVE  CatalogInv'
<1> USE InvParts
<1> DEFINE i == item.id
<1>1. i \in Ids /\ Ids \subseteq Nat /\ \A j \in Ids : rows[j] \in RowSet
  BY IdsAreFinite DEF TablesOK, RowsTyped, ConfirmDelete
<1>2. UNCHANGED <<kind, stale, list, form, moves>>
  BY DEF ConfirmDelete
<1>3. ASSUME NEW h, Delete(c, i, h),
             IF ByName THEN /\ h \subseteq Names /\ IsFiniteSet(h)
                            /\ stale \/ \A n \in h : \E j \in Ids \ {i} : rows[j].name = n
                       ELSE h \subseteq Ids
      PROVE  CatalogInv'
  <2>1. /\ rows' = [rows EXCEPT ![i] = NULL] /\ held' = Dropped(i, h)
        /\ dropped' = NULL /\ blocked' = [blocked EXCEPT ![c] = NULL]
    BY <1>3 DEF Delete
  <2>2. TablesOK'
    BY <1>1, <1>2, <1>3, <2>1, RowDeleted
  <2> QED BY <1>2, <2>1, <2>2, AskKeeps, DropGone
<1>4. CASE InUse(i)
  <2>1. PICK t \in Targets(i, to.name) : Delete(c, i, IF ByName THEN {to.name} ELSE {t})
    BY <1>4 DEF ConfirmDelete
  <2>2. t \in Ids /\ rows[t].name = to.name /\ (ByName => t # i)
    BY <2>1 DEF Targets
  <2>3. CASE ByName
    <3>1. Delete(c, i, {to.name}) /\ IsFiniteSet({to.name}) /\ {to.name} \subseteq Names
      BY <1>1, <2>1, <2>2, <2>3, FS_Singleton DEF RowSet
    <3>2. \A n \in {to.name} : \E j \in Ids \ {i} : rows[j].name = n
      BY <2>2, <2>3
    <3> QED BY <1>3, <2>3, <3>1, <3>2
  <2>4. CASE ~ByName
    <3>1. Delete(c, i, {t}) /\ {t} \subseteq Ids
      BY <2>1, <2>2, <2>4
    <3> QED BY <1>3, <2>4, <3>1
  <2> QED BY <2>3, <2>4
<1>5. CASE ~InUse(i)
  <2>1. Delete(c, i, held)
    BY <1>5 DEF ConfirmDelete
  <2>2. CASE ByName
    <3>1. stale \/ \A n \in held : \E j \in Ids \ {i} : rows[j].name = n
      BY <1>5, <2>2, NamesOfIds DEF InUse, TablesOK, HoldersKeepRows
    <3>2. held \subseteq Names /\ IsFiniteSet(held)
      BY <2>2 DEF TablesOK, HeldTyped
    <3> QED BY <1>3, <2>1, <2>2, <3>1, <3>2
  <2>3. CASE ~ByName
    BY <1>3, <2>1, <2>3 DEF TablesOK, HoldersKeepRows
  <2> QED BY <2>2, <2>3
<1> QED BY <1>4, <1>5

LEMMA CancelDeleteKeeps ==
  ASSUME CatalogInv, NEW c \in Clients, CancelDelete(c) PROVE CatalogInv'
<1> USE InvParts
<1>1. TablesOK' /\ Ids' = Ids
  BY TablesStay DEF CancelDelete
<1>2. ClientsOK'
  BY AskKeeps DEF CancelDelete
<1> QED BY <1>1, <1>2, DropStays DEF CancelDelete

LEMMA DropKeeps ==
  ASSUME CatalogInv, NEW c \in Clients, NEW from \in DOMAIN list[c], NEW to \in DOMAIN list[c],
         Drop(c, from, to)
  PROVE  CatalogInv'
<1> USE InvParts
<1> DEFINE s == Order(c)
           t == Moved(s, from, to)
<1>1. TablesOK' /\ Ids' = Ids
  BY TablesStay DEF Drop
<1>2. s \in Seq(Nat) /\ DOMAIN s = DOMAIN list[c] /\ from \in DOMAIN s /\ to \in DOMAIN s /\ from # to
  <2>1. list[c] \in Seq([id : Nat, name : Names])
    BY DEF ClientsOK, ClientsTyped
  <2>2. \A k \in DOMAIN list[c] : list[c][k].id \in Nat
    <3>1. \A k \in DOMAIN list[c] : list[c][k] \in [id : Nat, name : Names]
      BY <2>1, LenProperties, ElementOfSeq
    <3> QED BY <3>1
  <2>3. DOMAIN list[c] = 1 .. Len(list[c]) /\ Len(list[c]) \in Nat
    BY <2>1, LenProperties
  <2> QED BY <2>2, <2>3, IsASeq DEF Order, Drop
<1>3. t \in Seq(Nat) /\ DOMAIN t = DOMAIN s /\ ToSet(t) = ToSet(s) /\ IsInjective(t)
  <2>1. IsInjective(s)
    BY DEF ClientsOK, ListsOnce
  <2> HIDE DEF s
  <2> QED BY <1>2, <2>1, MovedPermutes
<1>4. DOMAIN t \subseteq Nat /\ \A k \in DOMAIN t : t[k] \in Nat
  BY <1>3, LenProperties
<1>5. CallsOf(s, from, to) = {[id |-> t[k], order |-> k - 1] : k \in DOMAIN t}
  BY <1>3 DEF CallsOf
<1> HIDE DEF s, t
<1>6. moves' = [moves EXCEPT ![c] = CallsOf(s, from, to)]
  BY DEF Drop, s
<1>7. ClientsOK'
  <2>1. CallsOf(s, from, to) \subseteq [id : Nat, order : Int]
    BY <1>4, <1>5
  <2>2. ClientsTyped'
    BY <1>6, <2>1 DEF Drop, ClientsOK, ClientsTyped
  <2> QED BY <2>2 DEF Drop, ClientsOK, ListsOnce, BlockedReassigns, Reassigns, Order
<1>8. DropUnderWay'
  <2> SUFFICES ASSUME dropped' # NULL PROVE DropUnderWay'
    BY DEF DropUnderWay
  <2>1. ToSet(s) = Ids /\ (\A d \in Clients : moves[d] = {}) /\ dropped' = t
    BY DEF Drop, s, t
  <2>2. moves'[c] = CallsOf(s, from, to) /\ \A d \in Clients : d # c => moves'[d] = {}
    BY <1>6, <2>1 DEF ClientsOK, ClientsTyped
  <2>3. \A k \in DOMAIN t : [id |-> t[k], order |-> k - 1] \in moves'[c]
    BY <1>5, <2>2
  <2>4. \A d \in Clients : \A m \in moves'[d] : \E k \in DOMAIN t : m = [id |-> t[k], order |-> k - 1]
    BY <1>5, <2>2
  <2> QED BY <1>1, <1>3, <2>1, <2>3, <2>4 DEF DropUnderWay
<1> QED BY <1>1, <1>7, <1>8

LEMMA ArriveKeeps ==
  ASSUME CatalogInv, NEW c \in Clients, NEW m \in moves[c], Arrive(c, m) PROVE CatalogInv'
<1> USE InvParts
<1>1. /\ m \in [id : Nat, order : Int] /\ moves' = [moves EXCEPT ![c] = @ \ {m}]
      /\ UNCHANGED <<kind, held, list, form, blocked, stale>>
  BY DEF Arrive, ClientsOK, ClientsTyped
<1>2. ClientsOK'
  <2>1. ClientsTyped'
    BY <1>1 DEF ClientsOK, ClientsTyped
  <2> QED BY <1>1, <2>1 DEF ClientsOK, ListsOnce, BlockedReassigns, Reassigns, Order
<1>3. CASE rows' = rows /\ dropped' = NULL
  <2>1. TablesOK'
    BY <1>1, <1>3, TablesStay
  <2> QED BY <1>2, <1>3, <2>1, DropGone
<1>4. CASE m.id \in Ids /\ rows' = [rows EXCEPT ![m.id].order = m.order] /\ dropped' = dropped
  <2> DEFINE i == m.id
             row == [rows[i] EXCEPT !.order = m.order]
  <2>1. /\ rows \in Seq(RowSet \cup {NULL}) /\ DOMAIN rows = 1 .. Len(rows)
        /\ i \in Ids /\ i \in 1 .. Len(rows) /\ rows[i] \in RowSet
        /\ rows' = [rows EXCEPT ![i] = row]
    BY <1>4, IdsAreFinite, LenProperties DEF TablesOK, RowsTyped
  <2>2. row \in RowSet /\ row # NULL /\ row.name = rows[i].name /\ row.order = m.order
    <3>1. row \in RowSet /\ row.name = rows[i].name /\ row.order = m.order
      BY <1>1, <2>1 DEF RowSet
    <3> QED BY <3>1, NeverNull
  <2> HIDE DEF row
  <2>3. /\ rows' \in Seq(RowSet \cup {NULL}) /\ DOMAIN rows' = DOMAIN rows
        /\ rows'[i] = row /\ \A j \in DOMAIN rows : j # i => rows'[j] = rows[j]
    BY <2>1, <2>2, ExceptSeq
  <2>4. Ids' = Ids /\ \A j \in Ids : rows'[j].name = rows[j].name
    BY <2>1, <2>2, <2>3 DEF Ids
  <2>5. NamesOf(rows') = NamesOf(rows)
    BY <2>4 DEF NamesOf, Ids
  <2>6. TablesOK'
    <3>1. HeldTyped' /\ RowsTyped' /\ kind' \in Kinds /\ stale' \in BOOLEAN
      BY <1>1, <2>3 DEF TablesOK, HeldTyped, RowsTyped, ByName
    <3>2. NamesUnique'
      BY <2>4 DEF TablesOK, NamesUnique
    <3>3. HoldersKeepRows'
      BY <1>1, <2>4, <2>5 DEF TablesOK, HoldersKeepRows, ByName
    <3> QED BY <3>1, <3>2, <3>3 DEF TablesOK
  <2>7. DropUnderWay'
    <3> SUFFICES ASSUME dropped # NULL PROVE DropUnderWay'
      BY <1>4 DEF DropUnderWay
    <3>1. /\ dropped \in Seq(Nat) /\ ToSet(dropped) = Ids /\ IsInjective(dropped)
          /\ DOMAIN dropped \subseteq Nat
      BY LenProperties DEF DropUnderWay
    <3>2. PICK k \in DOMAIN dropped : m = [id |-> dropped[k], order |-> k - 1]
      BY DEF DropUnderWay
    <3>3. rows'[dropped[k]].order = k - 1
      BY <2>2, <2>3, <3>2
    <3>4. ASSUME NEW l \in DOMAIN dropped, l # k
          PROVE  \/ rows'[dropped[l]].order = l - 1
                 \/ \E d \in Clients : [id |-> dropped[l], order |-> l - 1] \in moves'[d]
      <4>1. dropped[l] # i /\ dropped[l] \in Ids
        BY <3>1, <3>2, <3>4 DEF IsInjective, ToSet
      <4>2. CASE rows[dropped[l]].order = l - 1
        BY <2>3, <4>1, <4>2 DEF Ids
      <4>3. CASE \E d \in Clients : [id |-> dropped[l], order |-> l - 1] \in moves[d]
        <5>1. PICK d \in Clients : [id |-> dropped[l], order |-> l - 1] \in moves[d]
          BY <4>3
        <5>2. [id |-> dropped[l], order |-> l - 1] # m
          BY <4>1
        <5>3. [id |-> dropped[l], order |-> l - 1] \in moves'[d]
          BY <1>1, <5>1, <5>2 DEF ClientsOK, ClientsTyped
        <5> QED BY <5>3
      <4> QED BY <4>2, <4>3 DEF DropUnderWay
    <3>5. \A d \in Clients : moves'[d] \subseteq moves[d]
      BY <1>1 DEF ClientsOK, ClientsTyped
    <3>6. \A d \in Clients : \A x \in moves'[d] :
             \E l \in DOMAIN dropped : x = [id |-> dropped[l], order |-> l - 1]
      BY <3>5 DEF DropUnderWay
    <3> QED BY <1>4, <2>4, <3>1, <3>3, <3>4, <3>6 DEF DropUnderWay
  <2> QED BY <1>2, <2>6, <2>7
<1> QED BY <1>3, <1>4 DEF Arrive

\* A form opens, changes and closes.
LEMMA FormKeeps ==
  ASSUME ClientsOK, NEW c \in Clients, NEW f \in FormSet \cup {NULL},
         f # NULL => IsFiniteSet(f.value),
         form' = [form EXCEPT ![c] = f], UNCHANGED <<kind, list, blocked, moves>>
  PROVE  ClientsOK'
<1>1. ClientsTyped'
  BY DEF ClientsOK, ClientsTyped
<1> QED BY <1>1 DEF ClientsOK, ListsOnce, BlockedReassigns, Reassigns, Order

LEMMA HeldNamesFinite ==
  ASSUME TablesOK PROVE HeldNames \subseteq Names /\ IsFiniteSet(HeldNames)
<1>1. CASE ByName
  BY <1>1 DEF TablesOK, HeldTyped, HeldNames
<1>2. CASE ~ByName
  <2> DEFINE S == {rows[i].name : i \in held}
             f == [i \in held |-> rows[i].name]
  <2>1. held \subseteq Ids /\ IsFiniteSet(Ids) /\ \A i \in Ids : rows[i].name \in Names
    BY <1>2, IdsAreFinite DEF TablesOK, HoldersKeepRows, RowsTyped, RowSet
  <2>2. IsFiniteSet(held)
    BY <2>1, FS_Subset
  <2>3. f \in Surjection(held, S)
    BY DEF Surjection
  <2>4. IsFiniteSet(S)
    <3> HIDE DEF f, S
    <3> QED BY <2>2, <2>3, FS_Surjection
  <2>5. HeldNames = S /\ S \subseteq Names
    BY <1>2, <2>1 DEF HeldNames
  <2> QED BY <2>4, <2>5
<1> QED BY <1>1, <1>2

LEMMA AskedFinite ==
  ASSUME NEW v \in SUBSET Names, IsFiniteSet(v)
  PROVE  Asked(v) \subseteq Names /\ IsFiniteSet(Asked(v))
<1> DEFINE S == {Parts[n] : n \in v}
           f == [n \in v |-> Parts[n]]
<1>1. f \in Surjection(v, S)
  BY DEF Surjection
<1>2. IsFiniteSet(S)
  <2> HIDE DEF f, S
  <2> QED BY <1>1, FS_Surjection
<1>3. \A T \in S : IsFiniteSet(T) /\ T \subseteq Names
  BY PartsAreNames, PartsAreFinite
<1>4. Asked(v) = UNION S
  BY DEF Asked
<1> HIDE DEF S
<1> QED BY <1>2, <1>3, <1>4, FS_UNION

LEMMA OpenFormKeeps ==
  ASSUME CatalogInv, NEW c \in Clients, OpenForm(c) PROVE CatalogInv'
<1> USE InvParts
<1> DEFINE f == [seen |-> HeldNames, value |-> HeldNames]
<1>1. TablesOK' /\ Ids' = Ids
  BY TablesStay DEF OpenForm
<1>2. f \in FormSet /\ IsFiniteSet(f.value)
  BY HeldNamesFinite DEF FormSet
<1>3. ClientsOK'
  <2> HIDE DEF f
  <2>1. form' = [form EXCEPT ![c] = f]
    BY DEF OpenForm, f
  <2> QED BY <1>2, <2>1, FormKeeps DEF OpenForm
<1> QED BY <1>1, <1>3, DropStays DEF OpenForm

LEMMA EditFormKeeps ==
  ASSUME CatalogInv, NEW c \in Clients, NEW v \in SUBSET Names, EditForm(c, v) PROVE CatalogInv'
<1> USE InvParts
<1> DEFINE f == [form[c] EXCEPT !.value = v]
<1>1. TablesOK' /\ Ids' = Ids
  BY TablesStay DEF EditForm
<1>2. IsFiniteSet(v)
  <2>1. v = {} \/ \E n : v = {n}
    BY DEF EditForm, Choosable
  <2> QED BY <2>1, FS_EmptySet, FS_Singleton
<1>3. f \in FormSet /\ f.value = v
  BY DEF ClientsOK, ClientsTyped, FormSet, EditForm
<1>4. ClientsOK'
  <2>1. form' = [form EXCEPT ![c] = f]
    BY DEF EditForm
  <2> HIDE DEF f
  <2> QED BY <1>2, <1>3, <2>1, FormKeeps DEF EditForm
<1> QED BY <1>1, <1>4, DropStays DEF EditForm

LEMMA SaveFormKeeps ==
  ASSUME CatalogInv, NEW c \in Clients, NEW done \in SUBSET Names, NEW last \in SUBSET Names,
         NEW killed \in BOOLEAN, SaveForm(c, done, last, killed)
  PROVE  CatalogInv'
<1> USE InvParts
<1> DEFINE v == form[c].value
<1>1. v \subseteq Names /\ IsFiniteSet(v)
  BY DEF ClientsOK, ClientsTyped, FormSet, SaveForm
<1>2. ClientsOK'
  <2>1. UNCHANGED <<kind, list, blocked, moves>>
    BY DEF SaveForm
  <2>2. CASE killed
    BY <2>1, <2>2, ClientsStay DEF SaveForm
  <2>3. CASE ~killed
    BY <2>1, <2>3, FormKeeps DEF SaveForm
  <2> QED BY <2>2, <2>3
<1>3. CASE ByName
  <2>1. /\ held' = v /\ stale' = ~(v \subseteq NamesOf(rows))
        /\ UNCHANGED <<kind, rows, dropped, moves>>
    BY <1>3 DEF SaveForm
  <2>2. HeldTyped' /\ RowsTyped' /\ kind' \in Kinds /\ stale' \in BOOLEAN
    BY <1>1, <1>3, <2>1 DEF TablesOK, HeldTyped, RowsTyped, ByName
  <2>3. NamesUnique' /\ Ids' = Ids
    BY <2>1 DEF TablesOK, NamesUnique, Ids
  <2>4. HoldersKeepRows'
    BY <1>3, <2>1 DEF HoldersKeepRows, ByName
  <2>5. TablesOK'
    BY <2>2, <2>3, <2>4 DEF TablesOK
  <2> QED BY <1>2, <2>1, <2>3, <2>5, DropStays
<1>4. CASE ~ByName
  <2> DEFINE names == done \cup last
             new == Made(names)
  <2>1. /\ names \subseteq Asked(v) /\ rows' = new
        /\ held' = {i \in DOMAIN rows' : rows'[i] # NULL /\ rows'[i].name \in done}
        /\ dropped' = IF rows' = rows THEN dropped ELSE NULL
        /\ UNCHANGED <<kind, stale, moves>>
    BY <1>4 DEF SaveForm
  <2>2. names \in SUBSET Names /\ IsFiniteSet(names)
    BY <1>1, <2>1, AskedFinite, FS_Subset
  <2>3. /\ new \in Seq(RowSet \cup {NULL}) /\ DOMAIN rows \subseteq DOMAIN new
        /\ \A i, j \in {k \in DOMAIN new : new[k] # NULL} : new[i].name = new[j].name => i = j
    <3> HIDE DEF names
    <3> QED BY <2>2, MadeRows DEF TablesOK
  <2> HIDE DEF new, names
  <2>4. DOMAIN rows' \subseteq Nat
    BY <2>1, <2>3, LenProperties
  <2>5. TablesOK'
    <3>1. NamesUnique'
      BY <2>1, <2>3 DEF NamesUnique, Ids
    <3>2. HeldTyped' /\ HoldersKeepRows'
      BY <1>4, <2>1, <2>4 DEF HeldTyped, HoldersKeepRows, ByName, Ids
    <3> QED BY <2>1, <2>3, <3>1, <3>2 DEF TablesOK, RowsTyped
  <2>6. CASE rows' = rows
    BY <1>2, <2>1, <2>5, <2>6, DropStays DEF Ids
  <2>7. CASE rows' # rows
    BY <1>2, <2>1, <2>5, <2>7, DropGone
  <2> QED BY <2>6, <2>7
<1> QED BY <1>3, <1>4

\* A person's domain and teams are of the rows there are.
LEMMA FiledKeeps ==
  ASSUME CatalogInv, ~ByName, held' \subseteq Ids,
         UNCHANGED <<kind, rows, list, form, blocked, moves, dropped, stale>>
  PROVE  CatalogInv'
<1> USE InvParts
<1>1. HeldTyped'
  BY IdsAreFinite DEF TablesOK, HeldTyped, ByName, RowsTyped
<1>2. RowsTyped' /\ NamesUnique' /\ Ids' = Ids
  BY DEF TablesOK, RowsTyped, NamesUnique, Ids
<1>3. HoldersKeepRows'
  BY <1>2 DEF HoldersKeepRows, ByName
<1>4. TablesOK'
  BY <1>1, <1>2, <1>3 DEF TablesOK
<1> QED BY <1>2, <1>4, ClientsStay, DropStays

LEMMA StartsInOrder == Init => CatalogInv
<1> SUFFICES ASSUME Init PROVE CatalogInv
  OBVIOUS
<1> USE InvParts
<1>1. Seeded \in Seq(Names) /\ DOMAIN Seeded = 1 .. Len(Seeded) /\ Len(Seeded) \in Nat
      /\ \A k \in DOMAIN Seeded : Seeded[k] \in Names
  BY SeedsAreNames, LenProperties, ElementOfSeq
<1>2. rows = [k \in 1 .. Len(Seeded) |-> Row(Seeded[k], k - 1)]
  BY <1>1 DEF Init
<1>3. \A k \in 1 .. Len(Seeded) : Row(Seeded[k], k - 1) \in RowSet /\ Row(Seeded[k], k - 1).name = Seeded[k]
  BY <1>1 DEF Row, RowSet
<1>4. RowsTyped
  BY <1>1, <1>2, <1>3, IsASeq DEF RowsTyped
<1>5. NamesUnique
  BY <1>1, <1>2, <1>3, SeedsAreNames DEF NamesUnique, Ids, IsInjective
<1>6. HeldTyped /\ HoldersKeepRows /\ kind \in Kinds /\ stale \in BOOLEAN
  BY FS_EmptySet DEF Init, HeldTyped, HoldersKeepRows
<1>7. \A c \in Clients : list[c] = [k \in 1 .. Len(Seeded) |-> [id |-> k, name |-> Seeded[k]]]
  BY <1>1 DEF Init
<1>8. ASSUME NEW c \in Clients PROVE list[c] \in Seq([id : Nat, name : Names])
  <2>1. \A k \in 1 .. Len(Seeded) : [id |-> k, name |-> Seeded[k]] \in [id : Nat, name : Names]
    BY <1>1
  <2>2. [k \in 1 .. Len(Seeded) |-> [id |-> k, name |-> Seeded[k]]] \in Seq([id : Nat, name : Names])
    BY <1>1, <2>1, IsASeq
  <2> QED BY <1>7, <2>2
<1>9. ClientsTyped
  BY <1>8 DEF Init, ClientsTyped
<1>10. ListsOnce
  <2> SUFFICES ASSUME NEW c \in Clients, NEW k \in DOMAIN list[c], NEW l \in DOMAIN list[c],
                      list[c][k].id = list[c][l].id
               PROVE  k = l
    BY DEF ListsOnce, Order, IsInjective
  <2> DEFINE s == [j \in 1 .. Len(Seeded) |-> [id |-> j, name |-> Seeded[j]]]
  <2>1. list[c] = s
    BY <1>7
  <2>2. \A j \in DOMAIN s : s[j].id = j
    OBVIOUS
  <2> HIDE DEF s
  <2> QED BY <2>1, <2>2
<1> QED BY <1>4, <1>5, <1>6, <1>9, <1>10 DEF Init, TablesOK, ClientsOK, BlockedReassigns, DropUnderWay

LEMMA StepKeeps == CatalogInv /\ [Next]_vars => CatalogInv'
<1> SUFFICES ASSUME CatalogInv, [Next]_vars PROVE CatalogInv'
  OBVIOUS
<1>1. CASE UNCHANGED vars
  BY <1>1, InvParts, TablesStay, ClientsStay, DropStays DEF vars
<1>2. CASE Next
  <2>1. PICK c \in Clients :
          \/ Refresh(c) \/ OpenForm(c) \/ CancelDelete(c)
          \/ \E n \in Names : Create(c, n)
          \/ \E item \in Listed(c), n \in Names : Rename(c, item, n)
          \/ \E item \in Listed(c) : TryDelete(c, item)
          \/ \E item, to \in Listed(c) : ConfirmDelete(c, item, to)
          \/ \E from, to \in DOMAIN list[c] : Drop(c, from, to)
          \/ \E m \in moves[c] : Arrive(c, m)
          \/ \E v \in SUBSET Names : EditForm(c, v)
          \/ \E done, last \in SUBSET Names, killed \in BOOLEAN : SaveForm(c, done, last, killed)
          \/ \E h \in SUBSET Ids : PickDomain(c, h)
          \/ \E i \in Ids : Join(c, i)
    BY <1>2 DEF Next
  <2>2. ASSUME NEW h \in SUBSET Ids, PickDomain(c, h) PROVE CatalogInv'
    BY <2>2, FiledKeeps DEF PickDomain, ByName
  <2>3. ASSUME NEW i \in Ids, Join(c, i) PROVE CatalogInv'
    <3>1. ~ByName /\ held \subseteq Ids
      BY <2>3 DEF Join, ByName, CatalogInv, HoldersKeepRows
    <3>2. held' \subseteq Ids
      BY <2>3, <3>1 DEF Join
    <3> QED BY <2>3, <3>1, <3>2, FiledKeeps DEF Join
  <2> QED BY <2>1, <2>2, <2>3, RefreshKeeps, OpenFormKeeps, CancelDeleteKeeps, CreateKeeps, RenameKeeps,
             TryDeleteKeeps, ConfirmDeleteKeeps, DropKeeps, ArriveKeeps, EditFormKeeps, SaveFormKeeps
<1> QED BY <1>1, <1>2

LEMMA CatalogInvariant == Spec => []CatalogInv
BY StartsInOrder, StepKeeps, PTL DEF Spec

------------------------------------------------------------------------------
(* The properties of the lists.                                              *)

\* Every list, table and form keeps its type, names stay unique, and no client
\* shows a row twice, for any number of clients, rows and names.
THEOREM CatalogTypeCorrect == Spec => [](CatalogTypeOK /\ NamesUnique /\ ListsOnce)
BY CatalogInvariant, PTL DEF CatalogInv

\* Nobody's priority, label, domain or team is one that its list lacks, but for a
\* priority saved from a list that was out of date (priorities.js, tasks.js).
THEOREM HoldersAlwaysKeepRows == Spec => []HoldersKeepRows
BY CatalogInvariant, PTL DEF CatalogInv

\* n calls that put n rows at 0 .. n - 1 leave no other order to a query.
LEMMA SortedAsPlaced ==
  ASSUME RowsTyped, NEW s \in Seq(Nat), ToSet(s) = Ids, IsInjective(s),
         \A k \in DOMAIN s : rows[s[k]].order = k - 1
  PROVE  Sorted = s
<1> DEFINE n == Cardinality(Ids)
           a == [k \in 1 .. n |-> rows[Sorted[k]].order]
<1>1. Len(s) \in Nat /\ DOMAIN s = 1 .. Len(s) /\ s \in [1 .. Len(s) -> Nat]
  BY LenProperties
<1>2. s \in Bijection(1 .. Len(s), Ids)
  <2>1. s \in [1 .. Len(s) -> Ids] /\ \A x \in Ids : \E k \in 1 .. Len(s) : s[k] = x
    BY <1>1 DEF ToSet
  <2> QED BY <2>1 DEF Bijection, Injection, Surjection
<1>3. Len(s) = n
  BY <1>1, <1>2, FS_CountingElements DEF ExistsBijection
<1>4. /\ Sorted \in [1 .. n -> Ids] /\ IsInjective(Sorted)
      /\ \A i, j \in 1 .. n : i < j => Earlier(Sorted[i], Sorted[j])
  BY SortedLists DEF RowsTyped
<1>5. \A x \in Ids : \E k \in 1 .. n : s[k] = x /\ rows[x].order = k - 1
  BY <1>1, <1>2, <1>3 DEF Bijection, Surjection
<1>6. a \in [1 .. n -> 0 .. n - 1]
  BY <1>1, <1>3, <1>4, <1>5
<1>7. ASSUME NEW x \in Ids, NEW y \in Ids, rows[x].order = rows[y].order PROVE x = y
  BY <1>1, <1>3, <1>5, <1>7
<1>8. \A i, j \in 1 .. n : i < j => a[i] < a[j]
  <2> SUFFICES ASSUME NEW i \in 1 .. n, NEW j \in 1 .. n, i < j
               PROVE  rows[Sorted[i]].order < rows[Sorted[j]].order
    OBVIOUS
  <2>1. Sorted[i] \in Ids /\ Sorted[j] \in Ids /\ Sorted[i] # Sorted[j]
    BY <1>4 DEF IsInjective
  <2> QED BY <1>4, <1>7, <2>1 DEF Earlier
<1>9. \A k \in 1 .. n : rows[Sorted[k]].order = k - 1
  <2>1. \A k \in 1 .. n : a[k] = k - 1
    <3> HIDE DEF a
    <3> QED BY <1>1, <1>3, <1>6, <1>8, IncreasingIsExact
  <2> QED BY <2>1
<1>10. \A k \in 1 .. n : Sorted[k] = s[k]
  <2> SUFFICES ASSUME NEW k \in 1 .. n PROVE Sorted[k] = s[k]
    OBVIOUS
  <2>1. Sorted[k] \in Ids /\ s[k] \in Ids
    BY <1>2, <1>3, <1>4 DEF Bijection, Injection
  <2>2. rows[s[k]].order = k - 1
    BY <1>1, <1>3
  <2> QED BY <1>7, <1>9, <2>1, <2>2
<1> QED BY <1>1, <1>3, <1>4, <1>10

\* When the calls of a drop have all arrived, in whatever order, the rows are in
\* the order that was dropped (SettingsList.jsx, Settings.jsx).
THEOREM OrderAlwaysAsDropped == Spec => []OrderAsDropped
<1>1. CatalogInv => OrderAsDropped
  <2> SUFFICES ASSUME CatalogInv, dropped # NULL, \A c \in Clients : moves[c] = {}
               PROVE  Sorted = dropped
    BY DEF OrderAsDropped
  <2>1. \A k \in DOMAIN dropped : rows[dropped[k]].order = k - 1
    BY DEF CatalogInv, DropUnderWay
  <2> QED BY <2>1, SortedAsPlaced DEF CatalogInv, CatalogTypeOK, DropUnderWay
<1> QED BY <1>1, CatalogInvariant, PTL

\* A dialog that asked for a replacement closes with the deletion of its row.
HoldingKept ==
  \A c \in Clients : blocked[c] \in Ids /\ blocked'[c] = NULL /\ rows'[blocked[c]] = NULL =>
    \/ held = {} \/ held' # {}
    \/ kind = "domains" /\ \E item \in Listed(c) :
         item.id # blocked[c] /\ item.name = rows[blocked[c]].name

\* Nothing but a deletion takes a row away.
LEMMA RowsRemain ==
  ASSUME CatalogInv, NEW c \in Clients,
         \/ \E n \in Names : Create(c, n)
         \/ \E item \in Listed(c), n \in Names : Rename(c, item, n)
         \/ \E m \in moves[c] : Arrive(c, m)
         \/ \E done, last \in SUBSET Names, killed \in BOOLEAN : SaveForm(c, done, last, killed)
  PROVE  \A i \in Ids : rows'[i] # NULL
<1> USE InvParts
<1>1. /\ rows \in Seq(RowSet \cup {NULL}) /\ DOMAIN rows = 1 .. Len(rows) /\ Len(rows) \in Nat
      /\ Ids \subseteq DOMAIN rows /\ \A i \in Ids : rows[i] \in RowSet /\ rows[i] # NULL
  BY IdsAreFinite, LenProperties DEF TablesOK, RowsTyped, Ids
<1>2. ASSUME NEW n \in Names, Create(c, n) PROVE \A i \in Ids : rows'[i] # NULL
  <2>1. Row(n, End) \in RowSet
    BY EndIsPlace DEF TablesOK, Row, RowSet
  <2>2. \A i \in 1 .. Len(rows) : rows'[i] = rows[i]
    BY <1>1, <1>2, <2>1, AppendProperties DEF Create
  <2> QED BY <1>1, <2>2
<1>3. ASSUME NEW item \in Listed(c), NEW n \in Names, Rename(c, item, n)
      PROVE  \A i \in Ids : rows'[i] # NULL
  <2>1. [rows[item.id] EXCEPT !.name = n] \in RowSet
    BY <1>1, <1>3 DEF Rename, RowSet
  <2> QED BY <1>1, <1>3, <2>1, NeverNull DEF Rename
<1>4. ASSUME NEW m \in moves[c], Arrive(c, m) PROVE \A i \in Ids : rows'[i] # NULL
  <2>1. m.order \in Int
    BY DEF ClientsOK, ClientsTyped
  <2>2. CASE rows' = rows
    BY <1>1, <2>2
  <2>3. CASE m.id \in Ids /\ rows' = [rows EXCEPT ![m.id].order = m.order]
    <3>1. [rows[m.id] EXCEPT !.order = m.order] \in RowSet
      BY <1>1, <2>1, <2>3 DEF RowSet
    <3> QED BY <1>1, <2>3, <3>1, NeverNull
  <2> QED BY <1>4, <2>2, <2>3 DEF Arrive
<1>5. ASSUME NEW done \in SUBSET Names, NEW last \in SUBSET Names, NEW killed \in BOOLEAN,
             SaveForm(c, done, last, killed)
      PROVE  \A i \in Ids : rows'[i] # NULL
  <2>1. CASE ByName
    BY <1>1, <1>5, <2>1 DEF SaveForm
  <2>2. CASE ~ByName
    <3> DEFINE v == form[c].value
               names == done \cup last
    <3>1. v \in SUBSET Names /\ IsFiniteSet(v)
      BY <1>5 DEF ClientsOK, ClientsTyped, FormSet, SaveForm
    <3>2. names \subseteq Asked(v) /\ rows' = Made(names)
      BY <1>5, <2>2 DEF SaveForm
    <3>3. names \in SUBSET Names /\ IsFiniteSet(names)
      BY <3>1, <3>2, AskedFinite, FS_Subset
    <3> HIDE DEF names
    <3>4. \A i \in DOMAIN rows : rows'[i] = rows[i]
      BY <3>2, <3>3, MadeRows DEF TablesOK
    <3> QED BY <1>1, <3>4
  <2> QED BY <2>1, <2>2
<1> QED BY <1>2, <1>3, <1>4, <1>5

LEMMA StepKeepsHolding == CatalogInv /\ [Next]_vars => [HoldingKept]_vars
<1> USE InvParts
<1> SUFFICES ASSUME CatalogInv, Next, NEW c \in Clients,
                    blocked[c] \in Ids, blocked'[c] = NULL, rows'[blocked[c]] = NULL
             PROVE  \/ held = {} \/ held' # {}
                    \/ kind = "domains" /\ \E item \in Listed(c) :
                         item.id # blocked[c] /\ item.name = rows[blocked[c]].name
  BY DEF HoldingKept
<1> DEFINE i == blocked[c]
<1>1. i # NULL /\ rows[i] # NULL /\ Reassigns /\ rows' # rows /\ i \in DOMAIN rows
  <2>1. i \in Nat
    BY IdsAreFinite DEF TablesOK, RowsTyped
  <2> QED BY <2>1, NeverNull DEF Ids, ClientsOK, BlockedReassigns
<1>2. ASSUME NEW d \in Clients, NEW item \in Listed(d), NEW h, Delete(d, item.id, h)
      PROVE  d = c /\ item.id = i /\ held' = Dropped(i, h)
  <2>1. item.id = i
    BY <1>1, <1>2 DEF Delete
  <2>2. d = c
    BY <1>1, <1>2 DEF Delete, ClientsOK, ClientsTyped
  <2> QED BY <1>2, <2>1, <2>2 DEF Delete
<1>3. ASSUME ~InUse(i), held' = Dropped(i, held) PROVE held' = held
  BY <1>3 DEF InUse, Dropped
<1>4. ASSUME NEW d \in Clients, NEW item \in Listed(d), TryDelete(d, item)
      PROVE  held' = held
  <2>1. Delete(d, item.id, held) /\ ~(Reassigns /\ InUse(item.id))
    BY <1>1, <1>4 DEF TryDelete
  <2>2. item.id = i /\ held' = Dropped(i, held)
    BY <1>2, <2>1
  <2> QED BY <1>1, <1>3, <2>1, <2>2
<1>5. ASSUME NEW d \in Clients, NEW item \in Listed(d), NEW to \in Listed(d),
             ConfirmDelete(d, item, to)
      PROVE  \/ held' = held \/ held' # {}
             \/ kind = "domains" /\ \E x \in Listed(c) : x.id # i /\ x.name = rows[i].name
  <2>1. CASE ~InUse(item.id)
    <3>1. Delete(d, item.id, held)
      BY <1>5, <2>1 DEF ConfirmDelete
    <3>2. item.id = i /\ held' = Dropped(i, held)
      BY <1>2, <3>1
    <3> QED BY <1>3, <2>1, <3>2
  <2>2. CASE InUse(item.id)
    <3>1. PICK t \in Targets(item.id, to.name) :
                 Delete(d, item.id, IF ByName THEN {to.name} ELSE {t})
      BY <1>5, <2>2 DEF ConfirmDelete
    <3>2. d = c /\ item.id = i /\ held' = Dropped(i, IF ByName THEN {to.name} ELSE {t})
      BY <1>2, <3>1
    <3>3. CASE ByName
      BY <3>2, <3>3 DEF Dropped
    <3>4. CASE ~ByName /\ t # i
      BY <3>2, <3>4 DEF Dropped
    <3>5. CASE ~ByName /\ t = i
      <4>1. kind = "domains" /\ rows[i].name = to.name
        BY <1>1, <3>1, <3>5 DEF Reassigns, ByName, Targets
      <4>2. to.id # i
        <5>1. item # to /\ item \in Listed(c) /\ to \in Listed(c)
          BY <1>5, <3>2 DEF ConfirmDelete
        <5>2. PICK k \in DOMAIN list[c], l \in DOMAIN list[c] : item = list[c][k] /\ to = list[c][l]
          BY <5>1 DEF Listed
        <5>3. list[c][k].id = list[c][l].id => k = l
          BY DEF ClientsOK, ListsOnce, IsInjective, Order
        <5> QED BY <3>2, <5>1, <5>2, <5>3
      <4> QED BY <1>5, <3>2, <4>1, <4>2
    <3> QED BY <3>3, <3>4, <3>5
  <2> QED BY <2>1, <2>2
<1>6. PICK d \in Clients :
        \/ \E item \in Listed(d) : TryDelete(d, item)
        \/ \E item, to \in Listed(d) : ConfirmDelete(d, item, to)
        \/ \E n \in Names : Create(d, n)
        \/ \E item \in Listed(d), n \in Names : Rename(d, item, n)
        \/ \E m \in moves[d] : Arrive(d, m)
        \/ \E done, last \in SUBSET Names, killed \in BOOLEAN : SaveForm(d, done, last, killed)
  BY <1>1 DEF Next, Refresh, OpenForm, CancelDelete, Drop, EditForm, PickDomain, Join
<1> QED BY <1>4, <1>5, <1>6, RowsRemain

\* "Reassign & delete" leaves no task without its priority and nobody without a
\* domain, but for a domain whose own row has taken the name of its replacement
\* (priorities.js, admin.js).
THEOREM ReassignAlwaysKeepsHolding == Spec => ReassignKeepsHolding
<1>1. Spec => [][HoldingKept]_vars
  BY CatalogInvariant, StepKeepsHolding, PTL DEF Spec
<1> QED BY <1>1, PTL DEF ReassignKeepsHolding, HoldingKept

\* A form that closes without an edit leaves things as they are.
UneditedKept ==
  \A c \in Clients :
    form[c] # NULL /\ form'[c] = NULL /\ form[c].value = form[c].seen
      /\ HeldNames = form[c].seen /\ (\A n \in HeldNames : Parts[n] = {n}) =>
    held' = held /\ rows' = rows

LEMMA StepKeepsUnedited == CatalogInv /\ [Next]_vars => [UneditedKept]_vars
<1> USE InvParts
<1> SUFFICES ASSUME CatalogInv, Next, NEW c \in Clients,
                    form[c] # NULL, form'[c] = NULL, form[c].value = form[c].seen,
                    HeldNames = form[c].seen, \A n \in HeldNames : Parts[n] = {n}
             PROVE  held' = held /\ rows' = rows
  BY DEF UneditedKept
<1>1. ASSUME NEW d \in Clients, OpenForm(d) PROVE FALSE
  <2>1. [seen |-> HeldNames, value |-> HeldNames] # NULL
    BY HeldNamesFinite, NeverNull DEF FormSet
  <2> QED BY <1>1, <2>1 DEF OpenForm, ClientsOK, ClientsTyped
<1>2. ASSUME NEW d \in Clients, NEW v \in SUBSET Names, EditForm(d, v) PROVE FALSE
  <2>1. [form[d] EXCEPT !.value = v] # NULL
    <3>1. form[d] \in FormSet
      BY <1>2 DEF EditForm, ClientsOK, ClientsTyped
    <3>2. [form[d] EXCEPT !.value = v] \in FormSet
      BY <3>1 DEF FormSet
    <3> QED BY <3>2, NeverNull
  <2> QED BY <1>2, <2>1 DEF EditForm, ClientsOK, ClientsTyped
<1>3. PICK d \in Clients, done \in SUBSET Names, last \in SUBSET Names, killed \in BOOLEAN :
        SaveForm(d, done, last, killed)
  BY ZenonT(30), <1>1, <1>2
     DEF Next, Refresh, CancelDelete, Create, Rename, TryDelete, ConfirmDelete, Drop, Arrive, PickDomain, Join
<1>4. d = c /\ ~killed
  BY <1>3 DEF SaveForm, ClientsOK, ClientsTyped
<1>5. CASE ByName
  BY <1>3, <1>4, <1>5 DEF SaveForm, HeldNames
<1>6. CASE ~ByName
  <2> DEFINE names == done \cup last
  <2>1. Asked(form[c].value) = HeldNames
    BY DEF Asked
  <2>2. done = HeldNames /\ names = HeldNames
    BY <1>3, <1>4, <1>6, <2>1 DEF SaveForm
  <2>3. held \subseteq Ids /\ HeldNames = {rows[j].name : j \in held}
    BY <1>6 DEF TablesOK, HoldersKeepRows, HeldNames
  <2>4. rows' = rows
    <3>1. HeldNames \subseteq NamesOf(rows)
      BY <2>3, NamesOfIds
    <3>2. Made(HeldNames) = rows
      BY <3>1, HeldNamesFinite, MadeRows DEF TablesOK
    <3> QED BY <1>3, <1>6, <2>2, <3>2 DEF SaveForm
  <2>5. held' = {j \in Ids : rows[j].name \in HeldNames}
    BY <1>3, <1>6, <2>2, <2>4 DEF SaveForm, Ids
  <2>6. held' = held
    BY <2>3, <2>5 DEF TablesOK, NamesUnique
  <2> QED BY <2>4, <2>6
<1> QED BY <1>5, <1>6

\* Saving a form in which nothing was edited changes nothing, unless the task was
\* changed since or a name has a comma in it (TaskModal.jsx, tasks.js).
THEOREM UneditedAlwaysKept == Spec => SaveKeepsUnedited
<1>1. Spec => [][UneditedKept]_vars
  BY CatalogInvariant, StepKeepsUnedited, PTL DEF Spec
<1> QED BY <1>1, PTL DEF SaveKeepsUnedited, UneditedKept

------------------------------------------------------------------------------
(* The screen (Screen): what is always so.                                   *)

Accounts == Users \cup {NULL}
Places == Workspaces \cup {NULL}
Questions == {<<>>} \cup (Places \X Accounts \X PageViews \X (Persons \cup {NULL}))
         \cup (Places \X PageViews) \cup (Places \X Places)
CallKinds == Lists \cup {"save", "edit", "names", "boot", "login", "join", "accept", "accepted",
                     "refresh", "logout", "create", "created"}
Answers == [user : Accounts, workspaces : SUBSET Workspaces]
CallSet == [kind : CallKinds, c : Closure, asks : Questions, since : Nat, sees : SUBSET Answers,
            good : BOOLEAN, late : BOOLEAN, held : SUBSET Answers]

\* The page keeps its type; no bound on clicks or calls is needed.
PageTypeOK ==
  /\ session \in Accounts
  /\ members \in [Users -> SUBSET Workspaces]
  /\ saved \in Nat
  /\ checked \in BOOLEAN
  /\ workspaces \subseteq Workspaces
  /\ kept \in Places
  /\ before \in PageViews
  /\ searching \in PageViews \cup {NULL}
  /\ invite \in [up : BOOLEAN, error : BOOLEAN, accepting : BOOLEAN]
  /\ stray \subseteq Lists \cup {"identity"}
  /\ clicks \in Nat
ScreenTypeOK ==
  /\ PageTypeOK
  /\ at \in Closure
  /\ lists \in [Lists -> [asks : Questions, version : Nat]]
  /\ loading \in BOOLEAN
  /\ calls \in Seq(CallSet)

\* What a call was made for: a handler's closure is of a screen that could make it.
CallOK(x, ms) ==
  /\ x.kind \in {"login", "join"} => x.c.user # NULL
  /\ x.kind = "created" => x.c.active # NULL
  /\ x.kind \in {"join", "accept", "accepted"} => Invited # NULL
  /\ x.kind = "accepted" => Invited \in ms[Invitee]
  /\ x.kind \in {"save", "edit"} => Wanted("tasks", x.c)
CallsOK == /\ \A i \in DOMAIN calls : CallOK(calls[i], members)
           /\ invite.up => Invited # NULL

\* The answers that a call may show, and whether they say how things are.
Offers(x) == IF x.kind = "accept" THEN x.held ELSE x.sees
UpToDate(x, ms) == \A a \in Offers(x) : a.user # NULL => a.workspaces = ms[a.user]

\* The workspaces shown are right, or a call is under way that will set them.
Telling == {"accepted", "created"}
WillTell(x) == x.kind \in Telling \/ (x.kind = "accept" /\ x.held # {})
WorkspacesTold ==
  at.user # NULL /\ "identity" \notin stray =>
    \/ \E i \in DOMAIN calls : WillTell(calls[i])
    \/ /\ workspaces = members[at.user]
       /\ at.active = NULL <=> workspaces = {}

\* A call that was not overtaken may be out of date only while one made after it
\* is on its way to ask again.
LatestTold ==
  \A i \in DOMAIN calls :
    calls[i].kind \in Identity /\ ~calls[i].late =>
      \/ UpToDate(calls[i], members)
      \/ \E j \in DOMAIN calls : i < j /\ calls[j].kind \in Telling

\* List l on the screen.  Calls for it that were overtaken come before those
\* that were not; the last one asks what the screen asks now, unless it is known
\* not to; with nothing but overtaken calls under way, the list is the answer.
LateFirst(l) ==
  \A i, j \in DOMAIN calls :
    i < j /\ calls[i].kind = l /\ calls[j].kind = l /\ calls[j].late => calls[i].late
Right(l, asks, version, now, count) ==
  /\ asks = Asks(l, now, now.active)
  /\ l = "tasks" => version = count
LastAsks(l) ==
  Wanted(l, at) =>
    \A i \in DOMAIN calls :
      /\ calls[i].kind = l /\ calls[i].good /\ ~calls[i].late
      /\ \A j \in DOMAIN calls : calls[j].kind = l => j <= i
      => Right(l, calls[i].asks, calls[i].since, at, saved)
Settles(l) ==
  l \notin stray /\ Wanted(l, at) /\ (\A i \in DOMAIN calls : calls[i].kind = l => calls[i].late) =>
    Right(l, lists[l].asks, lists[l].version, at, saved)
ListOK(l) == LateFirst(l) /\ LastAsks(l) /\ Settles(l)

ScreenInv ==
  ScreenTypeOK /\ CallsOK /\ WorkspacesTold /\ LatestTold /\ \A l \in Lists : ListOK(l)

\* Call y is what has become of x: later knowledge may have spoilt it, or it has
\* signed in and accepts now, nothing else.
Continues(y, x) ==
  /\ y.kind = x.kind \/ (x.kind = "join" /\ y.kind = "accept")
  /\ y.c = x.c
  /\ x.kind \in Lists => y.asks = x.asks /\ y.since = x.since /\ (y.good => x.good)
  /\ x.kind = "accept" => y.held = x.held
  /\ x.late => y.late
  /\ \A a \in Offers(y) : a \in Offers(x) \/ (a.user # NULL => a.workspaces = members'[a.user])

\* The calls that are left of `calls` when the i-th is gone, or all of them when
\* i is beyond; those before it with an answer to the same are overtaken.
Place(i, j) == IF j < i THEN j ELSE j + 1
Ahead(i, j) == i <= Len(calls) /\ Place(i, j) < i
Follows(P, i) ==
  /\ P \in Seq(CallSet)
  /\ i \in 1 .. Len(calls) + 1
  /\ Len(P) = IF i <= Len(calls) THEN Len(calls) - 1 ELSE Len(calls)
  /\ \A j \in 1 .. Len(P) :
       LET x == calls[Place(i, j)] IN
       /\ Continues(P[j], x)
       /\ x.kind \in Lists => (P[j].late <=> x.late \/ (Ahead(i, j) /\ x.kind = calls[i].kind))
       /\ x.kind \in Identity /\ Ahead(i, j) /\ calls[i].kind \in Identity => P[j].late

LEMMA RemovedAt ==
  ASSUME NEW S, NEW s \in Seq(S), NEW from \in DOMAIN s
  PROVE  /\ RemoveAt(s, from) \in Seq(S) /\ Len(RemoveAt(s, from)) = Len(s) - 1
         /\ \A k \in 1 .. Len(s) - 1 : RemoveAt(s, from)[k] = s[IF k < from THEN k ELSE k + 1]
<1> DEFINE n == Len(s)
           r == RemoveAt(s, from)
           before_ == SubSeq(s, 1, from - 1)
           after == SubSeq(s, from + 1, n)
<1>1. /\ n \in Nat /\ DOMAIN s = 1 .. n /\ from \in 1 .. n
      /\ \A k \in 1 .. n : s[k] \in S
  BY LenProperties, ElementOfSeq
<1>2. /\ before_ \in Seq(S) /\ Len(before_) = from - 1
      /\ \A k \in 1 .. from - 1 : before_[k] = s[k]
  <2>1. \A k \in 1 .. from - 1 : s[k] \in S
    BY <1>1
  <2>2. 1 \in Int /\ from - 1 \in Int
    BY <1>1
  <2>3. /\ before_ \in Seq(S) /\ Len(before_) = IF 1 <= from - 1 THEN from - 1 - 1 + 1 ELSE 0
        /\ \A k \in 1 .. from - 1 - 1 + 1 : before_[k] = s[1 + k - 1]
    BY <2>1, <2>2, SubSeqProperties
  <2> HIDE DEF before_
  <2> QED BY <1>1, <2>3
<1>3. /\ after \in Seq(S) /\ Len(after) = n - from
      /\ \A k \in 1 .. n - from : after[k] = s[from + k]
  <2>1. \A k \in from + 1 .. n : s[k] \in S
    BY <1>1
  <2>2. from + 1 \in Int /\ n \in Int
    BY <1>1
  <2>3. /\ after \in Seq(S) /\ Len(after) = IF from + 1 <= n THEN n - (from + 1) + 1 ELSE 0
        /\ \A k \in 1 .. n - (from + 1) + 1 : after[k] = s[from + 1 + k - 1]
    BY <2>1, <2>2, SubSeqProperties
  <2>4. n - (from + 1) + 1 = n - from
    BY <1>1
  <2>5. \A k \in 1 .. n - from : from + 1 + k - 1 = from + k
    BY <1>1
  <2> HIDE DEF after
  <2>6. Len(after) = n - from
    BY <1>1, <2>3
  <2> QED BY <2>3, <2>4, <2>5, <2>6
<1>4. r = before_ \o after
  BY DEF RemoveAt
<1> HIDE DEF r, before_, after
<1>5. /\ r \in Seq(S) /\ Len(r) = Len(before_) + Len(after)
      /\ \A k \in 1 .. Len(before_) + Len(after) :
           r[k] = IF k <= Len(before_) THEN before_[k] ELSE after[k - Len(before_)]
  BY <1>2, <1>3, <1>4, ConcatProperties
<1>6. Len(r) = n - 1
  BY <1>1, <1>2, <1>3, <1>5
<1>7. ASSUME NEW k \in 1 .. n - 1 PROVE r[k] = s[IF k < from THEN k ELSE k + 1]
  <2>1. k \in Int /\ k \in 1 .. Len(before_) + Len(after)
    BY <1>1, <1>2, <1>3
  <2>2. CASE k < from
    BY <1>1, <1>2, <1>5, <2>1, <2>2
  <2>3. CASE ~(k < from)
    <3>1. k - (from - 1) \in 1 .. n - from
      BY <1>1, <2>1, <2>3
    <3>2. r[k] = after[k - (from - 1)]
      BY <1>1, <1>2, <1>5, <2>1, <2>3
    <3>3. after[k - (from - 1)] = s[from + (k - (from - 1))]
      BY <1>3, <3>1
    <3>4. from + (k - (from - 1)) = k + 1
      BY <1>1, <2>1
    <3> QED BY <2>3, <3>2, <3>3, <3>4
  <2> QED BY <2>2, <2>3
<1> QED BY <1>5, <1>6, <1>7 DEF r

LEMMA CallsAre ==
  ASSUME ScreenTypeOK
  PROVE  /\ Len(calls) \in Nat /\ DOMAIN calls = 1 .. Len(calls)
         /\ \A i \in 1 .. Len(calls) : calls[i] \in CallSet
BY LenProperties, ElementOfSeq DEF ScreenTypeOK, PageTypeOK

LEMMA AllFollow == ASSUME ScreenTypeOK PROVE Follows(calls, Len(calls) + 1)
<1>1. /\ Len(calls) \in Nat /\ DOMAIN calls = 1 .. Len(calls) /\ calls \in Seq(CallSet)
  BY CallsAre DEF ScreenTypeOK, PageTypeOK
<1>2. Len(calls) + 1 \in 1 .. Len(calls) + 1 /\ ~(Len(calls) + 1 <= Len(calls))
  BY <1>1
<1>3. ASSUME NEW j \in 1 .. Len(calls)
      PROVE  Place(Len(calls) + 1, j) = j /\ ~Ahead(Len(calls) + 1, j)
  BY <1>1 DEF Place, Ahead
<1>4. \A j \in 1 .. Len(calls) : Continues(calls[j], calls[j])
  BY DEF Continues
<1> QED BY <1>1, <1>2, <1>3, <1>4 DEF Follows

\* What a step makes of the calls that are left keeps them what they were.
LEMMA FollowsOn ==
  ASSUME NEW P, NEW i, Follows(P, i), NEW Q \in Seq(CallSet), Len(Q) = Len(P),
         \A j \in 1 .. Len(P) : /\ Continues(Q[j], P[j])
                                /\ P[j].kind \in Lists => Q[j].late = P[j].late
  PROVE  Follows(Q, i)
<1>1. ASSUME NEW j \in 1 .. Len(Q), NEW x, x = calls[Place(i, j)]
      PROVE  /\ Continues(Q[j], x)
             /\ x.kind \in Lists => (Q[j].late <=> x.late \/ (Ahead(i, j) /\ x.kind = calls[i].kind))
             /\ x.kind \in Identity /\ Ahead(i, j) /\ calls[i].kind \in Identity => Q[j].late
  <2>1. /\ Continues(P[j], x)
        /\ x.kind \in Lists => (P[j].late <=> x.late \/ (Ahead(i, j) /\ x.kind = calls[i].kind))
        /\ x.kind \in Identity /\ Ahead(i, j) /\ calls[i].kind \in Identity => P[j].late
    BY <1>1 DEF Follows
  <2>0. j \in 1 .. Len(P) /\ j \in DOMAIN P /\ j \in DOMAIN Q
    BY LenProperties DEF Follows
  <2>2. Continues(Q[j], P[j]) /\ (P[j].kind \in Lists => Q[j].late = P[j].late)
    BY <2>0
  <2>3. Continues(Q[j], x)
    BY <2>1, <2>2 DEF Continues, Lists
  <2>4. P[j].late => Q[j].late
    BY <2>2 DEF Continues
  <2>5. x.kind \in Lists => P[j].kind \in Lists
    BY <2>1 DEF Continues, Lists
  <2>6. Q[j].late \in BOOLEAN /\ P[j].late \in BOOLEAN
    <3>1. Q[j] \in CallSet /\ P[j] \in CallSet
      BY <2>0, ElementOfSeq DEF Follows
    <3> QED BY <3>1 DEF CallSet
  <2> QED BY <2>1, <2>2, <2>3, <2>4, <2>5, <2>6
<1> QED BY <1>1 DEF Follows

\* The calls before one that settles.
LEMMA OvertakenAre ==
  ASSUME ScreenTypeOK, NEW i \in DOMAIN calls
  PROVE  /\ Overtaken(i) \in Seq(CallSet) /\ Len(Overtaken(i)) = Len(calls)
         /\ \A j \in 1 .. Len(calls) :
              /\ Continues(Overtaken(i)[j], calls[j])
              /\ Overtaken(i)[j].late <=>
                   calls[j].late \/ (j < i /\ Rivals(calls[j].kind, calls[i].kind))
<1> DEFINE n == Len(calls)
           s == Overtaken(i)
<1>1. /\ n \in Nat /\ DOMAIN calls = 1 .. n /\ i \in 1 .. n
      /\ \A j \in 1 .. n : calls[j] \in CallSet
  BY CallsAre
<1>2. \A j \in 1 .. n : s[j] = IF j < i /\ Rivals(calls[j].kind, calls[i].kind)
                              THEN [calls[j] EXCEPT !.late = TRUE] ELSE calls[j]
  BY <1>1 DEF Overtaken
<1>3. \A j \in 1 .. n : s[j] \in CallSet
  BY <1>1, <1>2 DEF CallSet
<1>4. s \in Seq(CallSet) /\ Len(s) = n
  <2>1. s = [j \in 1 .. n |-> s[j]]
    BY <1>1 DEF Overtaken
  <2>2. s \in [1 .. n -> CallSet]
    BY <1>3, <2>1
  <2> HIDE DEF s
  <2> QED BY <1>1, <2>2
<1>5. ASSUME NEW j \in 1 .. n
      PROVE  /\ Continues(s[j], calls[j])
             /\ s[j].late <=> calls[j].late \/ (j < i /\ Rivals(calls[j].kind, calls[i].kind))
  <2>1. calls[j] \in CallSet
    BY <1>1
  <2>2. CASE j < i /\ Rivals(calls[j].kind, calls[i].kind)
    <3>1. s[j] = [calls[j] EXCEPT !.late = TRUE]
      BY <1>2, <2>2
    <3> HIDE DEF s
    <3> QED BY <2>1, <2>2, <3>1 DEF CallSet, Continues, Offers
  <2>3. CASE ~(j < i /\ Rivals(calls[j].kind, calls[i].kind))
    <3>1. s[j] = calls[j]
      BY <1>2, <2>3
    <3> HIDE DEF s
    <3> QED BY <2>1, <2>3, <3>1 DEF CallSet, Continues
  <2> QED BY <2>2, <2>3
<1> QED BY <1>4, <1>5

LEMMA RestFollows ==
  ASSUME ScreenTypeOK, NEW i \in DOMAIN calls PROVE Follows(Rest(i), i)
<1> DEFINE n == Len(calls)
           s == Overtaken(i)
<1>1. /\ n \in Nat /\ DOMAIN calls = 1 .. n /\ i \in 1 .. n /\ i <= n
      /\ \A j \in 1 .. n : calls[j] \in CallSet
  BY CallsAre
<1>2. /\ s \in Seq(CallSet) /\ Len(s) = n /\ DOMAIN s = 1 .. n
      /\ \A j \in 1 .. n :
           /\ Continues(s[j], calls[j])
           /\ s[j].late <=> calls[j].late \/ (j < i /\ Rivals(calls[j].kind, calls[i].kind))
  BY OvertakenAre, LenProperties
<1>3. Rest(i) = RemoveAt(s, i)
  BY DEF Rest
<1> HIDE DEF s
<1>4. /\ Rest(i) \in Seq(CallSet) /\ Len(Rest(i)) = n - 1
      /\ \A k \in 1 .. n - 1 : Rest(i)[k] = s[Place(i, k)]
  <2>1. i \in DOMAIN s
    BY <1>1, <1>2
  <2>2. /\ RemoveAt(s, i) \in Seq(CallSet) /\ Len(RemoveAt(s, i)) = Len(s) - 1
        /\ \A k \in 1 .. Len(s) - 1 : RemoveAt(s, i)[k] = s[IF k < i THEN k ELSE k + 1]
    BY <1>2, <2>1, RemovedAt
  <2>3. \A k : Place(i, k) = IF k < i THEN k ELSE k + 1
    BY DEF Place
  <2> HIDE DEF n
  <2> QED BY <1>2, <1>3, <2>2, <2>3
<1>5. ASSUME NEW k \in 1 .. n - 1, NEW x, x = calls[Place(i, k)]
      PROVE  /\ Continues(Rest(i)[k], x)
             /\ x.kind \in Lists =>
                  (Rest(i)[k].late <=> x.late \/ (Ahead(i, k) /\ x.kind = calls[i].kind))
             /\ x.kind \in Identity /\ Ahead(i, k) /\ calls[i].kind \in Identity => Rest(i)[k].late
  <2>1. Place(i, k) \in 1 .. n
    BY <1>1 DEF Place
  <2>2. /\ Continues(Rest(i)[k], x)
        /\ Rest(i)[k].late <=> x.late \/ (Place(i, k) < i /\ Rivals(x.kind, calls[i].kind))
    BY <1>2, <1>4, <1>5, <2>1
  <2>3. Ahead(i, k) <=> Place(i, k) < i
    BY <1>1 DEF Ahead
  <2>4. x.kind \in Lists => (Rivals(x.kind, calls[i].kind) <=> x.kind = calls[i].kind)
    BY DEF Rivals, Lists, Identity
  <2>5. x.kind \in Identity /\ calls[i].kind \in Identity => Rivals(x.kind, calls[i].kind)
    BY DEF Rivals
  <2> QED BY <2>2, <2>3, <2>4, <2>5
<1> QED BY <1>1, <1>4, <1>5 DEF Follows

\* An answer given now says how things are.
ServerTypeOK == session \in Accounts /\ members \in [Users -> SUBSET Workspaces]
LEMMA SeenNow ==
  ASSUME ServerTypeOK', NEW what, NEW c \in Closure
  PROVE  /\ Seen(what, c) \subseteq Answers
         /\ \A a \in Seen(what, c) : a.user # NULL => a.workspaces = members'[a.user]
         /\ what \notin Tells => Seen(what, c) = {}
<1>1. \A u \in Accounts : Told(u) \in Answers /\ Told(u).user = u
                           /\ (u # NULL => Told(u).workspaces = members'[u])
  BY DEF Told, Answers, Accounts, ServerTypeOK
<1>2. c.user \in Accounts /\ session' \in Accounts
  BY DEF Closure, Accounts, ServerTypeOK
<1> QED BY <1>1, <1>2 DEF Seen

LEMMA SeeingAre ==
  ASSUME ServerTypeOK', NEW P \in Seq(CallSet)
  PROVE  /\ Seeing(P) \in Seq(CallSet) /\ Len(Seeing(P)) = Len(P)
         /\ \A j \in 1 .. Len(P) :
              /\ Continues(Seeing(P)[j], P[j]) /\ Seeing(P)[j].late = P[j].late
              /\ Seeing(P)[j].kind = P[j].kind
<1>1. /\ Len(P) \in Nat /\ DOMAIN P = 1 .. Len(P)
      /\ \A j \in 1 .. Len(P) : P[j] \in CallSet
  BY LenProperties, ElementOfSeq
<1>2. ASSUME NEW j \in 1 .. Len(P)
      PROVE  /\ Seeing(P)[j] = [P[j] EXCEPT !.sees = P[j].sees \cup Seen(P[j].kind, P[j].c)]
             /\ Seeing(P)[j] \in CallSet
  <2>1. P[j] \in CallSet /\ P[j].c \in Closure /\ P[j].sees \subseteq Answers
    BY <1>1 DEF CallSet
  <2>2. Seen(P[j].kind, P[j].c) \subseteq Answers
    BY <2>1, SeenNow
  <2>3. Seeing(P)[j] = [P[j] EXCEPT !.sees = P[j].sees \cup Seen(P[j].kind, P[j].c)]
    BY <1>1 DEF Seeing
  <2> QED BY <2>1, <2>2, <2>3 DEF CallSet
<1>3. Seeing(P) \in Seq(CallSet) /\ Len(Seeing(P)) = Len(P)
  <2>1. Seeing(P) \in [1 .. Len(P) -> CallSet]
    BY <1>1, <1>2 DEF Seeing
  <2> QED BY <1>1, <2>1
<1>4. ASSUME NEW j \in 1 .. Len(P)
      PROVE  /\ Continues(Seeing(P)[j], P[j]) /\ Seeing(P)[j].late = P[j].late
             /\ Seeing(P)[j].kind = P[j].kind
  <2> DEFINE x == P[j]
             y == [x EXCEPT !.sees = x.sees \cup Seen(x.kind, x.c)]
  <2>1. x \in CallSet /\ x.c \in Closure
    BY <1>1 DEF CallSet
  <2>2. \A a \in Seen(x.kind, x.c) : a.user # NULL => a.workspaces = members'[a.user]
    BY <2>1, SeenNow
  <2>3. /\ y.kind = x.kind /\ y.c = x.c /\ y.asks = x.asks /\ y.since = x.since /\ y.good = x.good
        /\ y.late = x.late /\ y.held = x.held /\ y.sees = x.sees \cup Seen(x.kind, x.c)
    BY <2>1 DEF CallSet
  <2>4. Seeing(P)[j] = y
    BY <1>2
  <2> HIDE DEF y, x
  <2>5. Continues(y, x)
    BY <2>2, <2>3 DEF Continues, Offers
  <2> QED BY <2>3, <2>4, <2>5 DEF x
<1> QED BY <1>3, <1>4

LEMMA SeeingFollows ==
  ASSUME ServerTypeOK', NEW P, NEW i, Follows(P, i) PROVE Follows(Seeing(P), i)
<1>1. P \in Seq(CallSet)
  BY DEF Follows
<1> QED BY <1>1, SeeingAre, FollowsOn

\* Nobody told the page: what is under way may not know of it either.
LEMMA MissedFollows ==
  ASSUME NEW P, NEW i, Follows(P, i)
  PROVE  /\ Follows(Missed(P), i)
         /\ \A j \in 1 .. Len(Missed(P)) : Missed(P)[j].kind \in Identity => Missed(P)[j].late
<1> DEFINE Q == Missed(P)
<1>1. /\ P \in Seq(CallSet) /\ Len(P) \in Nat /\ DOMAIN P = 1 .. Len(P)
      /\ \A j \in 1 .. Len(P) : P[j] \in CallSet
  BY LenProperties, ElementOfSeq DEF Follows
<1>2. \A j \in 1 .. Len(P) :
        /\ Q[j] = IF P[j].kind \in Identity THEN [P[j] EXCEPT !.late = TRUE] ELSE P[j]
        /\ Q[j] \in CallSet
  BY <1>1 DEF CallSet, Missed
<1>3. Q \in Seq(CallSet) /\ Len(Q) = Len(P)
  <2>1. Q \in [1 .. Len(P) -> CallSet]
    BY <1>1, <1>2 DEF Missed
  <2> HIDE DEF Q
  <2> QED BY <1>1, <2>1
<1> HIDE DEF Q
<1>4. ASSUME NEW j \in 1 .. Len(P)
      PROVE  /\ Continues(Q[j], P[j])
             /\ P[j].kind \in Lists => Q[j].late = P[j].late
             /\ Q[j].kind \in Identity => Q[j].late
  <2>1. P[j] \in CallSet
    BY <1>1
  <2>2. CASE P[j].kind \in Identity
    <3>1. Q[j] = [P[j] EXCEPT !.late = TRUE] /\ P[j].kind \notin Lists
      BY <1>2, <2>2 DEF Lists, Identity
    <3> QED BY <2>1, <3>1 DEF CallSet, Continues, Offers
  <2>3. CASE P[j].kind \notin Identity
    BY <1>2, <2>3 DEF Continues
  <2> QED BY <2>2, <2>3
<1>5. Follows(Q, i)
  BY <1>3, <1>4, FollowsOn
<1> QED BY <1>3, <1>4, <1>5 DEF Q

\* Calls just made: those for a list ask what the screen asks now, or are known
\* not to.
Placed(E) ==
  /\ E \in Seq(CallSet)
  /\ \A j \in 1 .. Len(E) :
       /\ CallOK(E[j], members')
       /\ E[j].kind \in Identity => UpToDate(E[j], members')
       /\ E[j].kind \in Lists =>
            /\ ~E[j].late
            /\ E[j].good => Right(E[j].kind, E[j].asks, E[j].since, at', saved')
Has(E, kinds) == \E j \in 1 .. Len(E) : E[j].kind \in kinds

\* Every call but the one that settled is still under way.
LEMMA StillThere ==
  ASSUME ScreenTypeOK, NEW P, NEW i, Follows(P, i), NEW j \in 1 .. Len(calls), j # i
  PROVE  \E k \in 1 .. Len(P) : Place(i, k) = j
<1>1. /\ Len(calls) \in Nat /\ i \in 1 .. Len(calls) + 1 /\ Len(P) \in Nat
      /\ Len(P) = IF i <= Len(calls) THEN Len(calls) - 1 ELSE Len(calls)
  BY CallsAre, LenProperties DEF Follows
<1>2. i \in Int /\ j \in Int
  <2>1. Len(calls) \in Int
    BY <1>1
  <2> QED BY <1>1, <2>1
<1>3. CASE j < i
  <2>1. j \in 1 .. Len(P)
    <3>1. CASE i <= Len(calls)
      BY <1>1, <1>2, <1>3, <3>1
    <3>2. CASE ~(i <= Len(calls))
      BY <1>1, <1>2, <1>3, <3>2
    <3> QED BY <3>1, <3>2
  <2>2. Place(i, j) = j
    BY <1>3 DEF Place
  <2> QED BY <2>1, <2>2
<1>4. CASE ~(j < i)
  <2>1. i <= Len(calls) /\ i < j
    BY <1>1, <1>2, <1>4
  <2>2. j - 1 \in 1 .. Len(P)
    BY <1>1, <1>2, <2>1
  <2>3. ~(j - 1 < i) /\ j - 1 + 1 = j
    BY <1>2, <2>1
  <2>4. Place(i, j - 1) = j
    BY <2>3 DEF Place
  <2> QED BY <2>2, <2>4
<1> QED BY <1>3, <1>4

\* The calls after a step: what is left and what was just made.
LEMMA CallsAfter ==
  ASSUME ScreenTypeOK, NEW P, NEW i, Follows(P, i), NEW E, Placed(E), calls' = P \o E
  PROVE  /\ Len(calls) \in Nat /\ Len(P) \in Nat /\ Len(E) \in Nat /\ i \in 1 .. Len(calls) + 1
         /\ DOMAIN calls = 1 .. Len(calls) /\ DOMAIN calls' = 1 .. Len(P) + Len(E)
         /\ calls' \in Seq(CallSet)
         /\ \A j \in 1 .. Len(P) : calls'[j] = P[j] /\ Place(i, j) \in 1 .. Len(calls)
         /\ \A j \in 1 .. Len(E) : Len(P) + j \in DOMAIN calls' /\ calls'[Len(P) + j] = E[j]
         /\ \A j \in DOMAIN calls' : j \in 1 .. Len(P) \/ \E k \in 1 .. Len(E) : j = Len(P) + k
<1>1. Len(calls) \in Nat /\ DOMAIN calls = 1 .. Len(calls)
  BY CallsAre
<1>2. /\ P \in Seq(CallSet) /\ i \in 1 .. Len(calls) + 1 /\ Len(P) \in Nat
      /\ Len(P) = IF i <= Len(calls) THEN Len(calls) - 1 ELSE Len(calls)
  BY LenProperties DEF Follows
<1>3. E \in Seq(CallSet) /\ Len(E) \in Nat
  BY LenProperties DEF Placed
<1>4. /\ calls' \in Seq(CallSet) /\ Len(calls') = Len(P) + Len(E)
      /\ \A j \in 1 .. Len(P) + Len(E) : calls'[j] = IF j <= Len(P) THEN P[j] ELSE E[j - Len(P)]
  BY ZenonT(30), <1>2, <1>3, ConcatProperties
<1>5. DOMAIN calls' = 1 .. Len(P) + Len(E)
  BY <1>4, LenProperties
<1>6. ASSUME NEW j \in 1 .. Len(P) PROVE calls'[j] = P[j] /\ Place(i, j) \in 1 .. Len(calls)
  <2>1. j \in 1 .. Len(P) + Len(E) /\ j <= Len(P)
    BY <1>2, <1>3
  <2>2. Place(i, j) \in 1 .. Len(calls)
    <3>1. CASE i <= Len(calls)
      BY <1>1, <1>2, <3>1 DEF Place
    <3>2. CASE ~(i <= Len(calls))
      BY <1>1, <1>2, <3>2 DEF Place
    <3> QED BY <3>1, <3>2
  <2> QED BY <1>4, <2>1, <2>2
<1>7. ASSUME NEW j \in 1 .. Len(E) PROVE Len(P) + j \in DOMAIN calls' /\ calls'[Len(P) + j] = E[j]
  <2>1. Len(P) + j \in 1 .. Len(P) + Len(E) /\ ~(Len(P) + j <= Len(P)) /\ Len(P) + j - Len(P) = j
    BY <1>2, <1>3
  <2> QED BY <1>4, <1>5, <2>1
<1>8. ASSUME NEW j \in DOMAIN calls', j \notin 1 .. Len(P) PROVE \E k \in 1 .. Len(E) : j = Len(P) + k
  <2>1. j - Len(P) \in 1 .. Len(E) /\ j = Len(P) + (j - Len(P))
    BY SMTT(30), <1>2, <1>3, <1>5, <1>8
  <2> QED BY <2>1
<1> QED BY <1>1, <1>2, <1>3, <1>4, <1>5, <1>6, <1>7, <1>8

\* The list is asked for, not wanted, as it was, or known to be behind.
Same(l) ==
  /\ Wanted(l, at) /\ Asks(l, at', at'.active) = Asks(l, at, at.active) /\ lists'[l] = lists[l]
  /\ l = "tasks" => saved' = saved
  /\ l \in stray => l \in stray'
Cared(l, P, E) ==
  \/ Has(E, {l}) /\ (l \in stray => l \in stray')
  \/ ~Wanted(l, at')
  \/ Same(l)
  \/ l \in stray' /\ \A j \in 1 .. Len(P) : P[j].kind = l => ~P[j].good

\* The heart of the matter: a step that leaves the calls for l to themselves.
LEMMA Carry ==
  ASSUME ScreenTypeOK, NEW l \in Lists, ListOK(l), NEW P, NEW i, Follows(P, i), NEW E, Placed(E),
         calls' = P \o E, i <= Len(calls) => calls[i].kind # l, Cared(l, P, E)
  PROVE  ListOK(l)'
<1> DEFINE n == Len(calls)
           m == Len(P)
<1> HIDE DEF n, m
<1>1. /\ n \in Nat /\ m \in Nat /\ Len(E) \in Nat /\ i \in 1 .. n + 1
      /\ DOMAIN calls = 1 .. n /\ DOMAIN calls' = 1 .. m + Len(E)
      /\ \A j \in 1 .. m : calls'[j] = P[j] /\ Place(i, j) \in 1 .. n
      /\ \A j \in 1 .. Len(E) : m + j \in DOMAIN calls' /\ calls'[m + j] = E[j]
      /\ \A j \in DOMAIN calls' : j \in 1 .. m \/ \E k \in 1 .. Len(E) : j = m + k
      /\ \A j \in 1 .. n : j # i => \E k \in 1 .. m : Place(i, k) = j
  <2> USE DEF n, m
  <2>1. Len(calls) \in Nat /\ Len(P) \in Nat /\ Len(E) \in Nat /\ i \in 1 .. Len(calls) + 1
    BY CallsAfter
  <2>2. DOMAIN calls = 1 .. Len(calls) /\ DOMAIN calls' = 1 .. Len(P) + Len(E)
    BY CallsAfter
  <2>3. \A j \in 1 .. Len(P) : calls'[j] = P[j] /\ Place(i, j) \in 1 .. Len(calls)
    BY CallsAfter
  <2>4. \A j \in 1 .. Len(E) : Len(P) + j \in DOMAIN calls' /\ calls'[Len(P) + j] = E[j]
    BY CallsAfter
  <2>5. \A j \in DOMAIN calls' : j \in 1 .. Len(P) \/ \E k \in 1 .. Len(E) : j = Len(P) + k
    BY CallsAfter
  <2>6. \A j \in 1 .. Len(calls) : j # i => \E k \in 1 .. Len(P) : Place(i, k) = j
    BY StillThere
  <2> QED BY <2>1, <2>2, <2>3, <2>4, <2>5, <2>6
<1>2. ASSUME NEW j \in 1 .. m, P[j].kind = l
      PROVE  /\ calls[Place(i, j)].kind = l /\ (P[j].late <=> calls[Place(i, j)].late)
             /\ P[j].asks = calls[Place(i, j)].asks /\ P[j].since = calls[Place(i, j)].since
             /\ P[j].good => calls[Place(i, j)].good
  <2> DEFINE x == calls[Place(i, j)]
  <2>1. /\ Continues(P[j], x)
        /\ x.kind \in Lists => (P[j].late <=> x.late \/ (Ahead(i, j) /\ x.kind = calls[i].kind))
    BY DEF Follows, m
  <2> HIDE DEF x
  <2>2. x.kind = l
    BY <1>2, <2>1 DEF Continues, Lists
  <2>3. ~(Ahead(i, j) /\ x.kind = calls[i].kind)
    BY <2>2 DEF Ahead
  <2> QED BY <2>1, <2>2, <2>3 DEF Continues, x
<1>3. \A j \in 1 .. n : calls[j].kind = l => \E k \in 1 .. m : Place(i, k) = j /\ P[k].kind = l
  <2>1. ASSUME NEW j \in 1 .. n, calls[j].kind = l PROVE \E k \in 1 .. m : Place(i, k) = j /\ P[k].kind = l
    <3>1. j # i
      BY <1>1, <2>1
    <3>2. PICK k \in 1 .. m : Place(i, k) = j
      BY <1>1, <3>1
    <3>3. Continues(P[k], calls[j])
      BY <3>2 DEF Follows, m
    <3>4. P[k].kind = l
      BY <2>1, <3>3 DEF Continues, Lists
    <3> QED BY <3>2, <3>4
  <2> QED BY <2>1
<1>4. \A j, k \in 1 .. m : j < k => Place(i, j) < Place(i, k)
  BY <1>1 DEF Place
<1>5. \A j \in 1 .. Len(E) : E[j].kind = l => /\ ~E[j].late
                                              /\ E[j].good => Right(l, E[j].asks, E[j].since, at', saved')
  BY DEF Placed
<1>6. LateFirst(l)'
  <2> SUFFICES ASSUME NEW j \in DOMAIN calls', NEW k \in DOMAIN calls', j < k,
                      calls'[j].kind = l, calls'[k].kind = l, calls'[k].late
               PROVE  calls'[j].late
    BY DEF LateFirst
  <2>1. k \in 1 .. m
    <3>1. ASSUME NEW p \in 1 .. Len(E), k = m + p PROVE FALSE
      BY <1>1, <1>5, <3>1
    <3> QED BY <1>1, <3>1
  <2>2. j \in 1 .. m
    BY <1>1, <2>1
  <2>3. calls[Place(i, k)].late /\ calls[Place(i, k)].kind = l /\ calls[Place(i, j)].kind = l
    BY <1>1, <1>2, <2>1, <2>2
  <2>4. calls[Place(i, j)].late
    BY <1>1, <1>4, <2>1, <2>2, <2>3 DEF ListOK, LateFirst
  <2> QED BY <1>1, <1>2, <2>2, <2>4
<1>7. ASSUME Same(l), \A j \in 1 .. Len(E) : E[j].kind # l
      PROVE  LastAsks(l)' /\ Settles(l)'
  <2>1. LastAsks(l)'
    <3> SUFFICES ASSUME NEW j \in DOMAIN calls', calls'[j].kind = l, calls'[j].good, ~calls'[j].late,
                        \A k \in DOMAIN calls' : calls'[k].kind = l => k <= j
                 PROVE  Right(l, calls'[j].asks, calls'[j].since, at', saved')
      BY DEF LastAsks
    <3>1. j \in 1 .. m
      BY ZenonT(30), <1>1, <1>7
    <3>2. /\ calls[Place(i, j)].kind = l /\ calls[Place(i, j)].good /\ ~calls[Place(i, j)].late
          /\ Place(i, j) \in 1 .. n
      BY <1>1, <1>2, <3>1
    <3>3. ASSUME NEW k \in 1 .. n, calls[k].kind = l PROVE k <= Place(i, j)
      <4>1. PICK p \in 1 .. m : Place(i, p) = k /\ P[p].kind = l
        BY <1>3, <3>3
      <4>2. p \in DOMAIN calls' /\ calls'[p].kind = l
        BY <1>1, <4>1
      <4>3. p <= j
        BY <4>2
      <4>4. Place(i, p) \in 1 .. n /\ Place(i, j) \in 1 .. n /\ (p < j => Place(i, p) < Place(i, j))
        BY <1>1, <1>4, <3>1
      <4>5. p = j \/ p < j
        BY <1>1, <3>1, <4>3
      <4> QED BY <1>1, <4>1, <4>4, <4>5
    <3>4. Right(l, calls[Place(i, j)].asks, calls[Place(i, j)].since, at, saved)
      BY <1>1, <1>7, <3>2, <3>3 DEF ListOK, LastAsks, Same
    <3>5. calls'[j] = P[j] /\ P[j].kind = l
      BY <1>1, <3>1
    <3>6. P[j].asks = calls[Place(i, j)].asks /\ P[j].since = calls[Place(i, j)].since
      BY <1>2, <3>1, <3>5
    <3> QED BY <1>7, <3>4, <3>5, <3>6 DEF Right, Same
  <2>2. Settles(l)'
    <3> SUFFICES ASSUME l \notin stray', \A j \in DOMAIN calls' : calls'[j].kind = l => calls'[j].late
                 PROVE  Right(l, lists'[l].asks, lists'[l].version, at', saved')
      BY DEF Settles
    <3>1. ASSUME NEW k \in 1 .. n, calls[k].kind = l PROVE calls[k].late
      <4>1. PICK p \in 1 .. m : Place(i, p) = k /\ P[p].kind = l
        BY <1>3, <3>1
      <4>2. p \in DOMAIN calls' /\ calls'[p].kind = l /\ calls'[p] = P[p]
        BY <1>1, <4>1
      <4> QED BY <1>2, <4>1, <4>2
    <3>2. Right(l, lists[l].asks, lists[l].version, at, saved)
      BY <1>1, <1>7, <3>1 DEF ListOK, Settles, Same
    <3> QED BY <1>7, <3>2 DEF Right, Same
  <2> QED BY <2>1, <2>2
<1>8. ASSUME Has(E, {l}), l \in stray => l \in stray' PROVE LastAsks(l)' /\ Settles(l)'
  <2>1. PICK p \in 1 .. Len(E) : E[p].kind = l
    BY <1>8 DEF Has
  <2>2. m + p \in DOMAIN calls' /\ calls'[m + p] = E[p]
    BY <1>1
  <2>3. Settles(l)'
    BY <1>5, <2>1, <2>2 DEF Settles
  <2>4. LastAsks(l)'
    <3> SUFFICES ASSUME NEW j \in DOMAIN calls', calls'[j].kind = l, calls'[j].good, ~calls'[j].late,
                        \A k \in DOMAIN calls' : calls'[k].kind = l => k <= j
                 PROVE  Right(l, calls'[j].asks, calls'[j].since, at', saved')
      BY DEF LastAsks
    <3>1. m + p <= j
      BY <2>1, <2>2
    <3>2. j \notin 1 .. m
      BY <1>1, <3>1
    <3>3. PICK k \in 1 .. Len(E) : j = m + k
      BY <1>1, <3>2
    <3> QED BY <1>1, <1>5, <3>3
  <2> QED BY <2>3, <2>4
<1>9. ASSUME l \in stray', \A j \in 1 .. m : P[j].kind = l => ~P[j].good PROVE LastAsks(l)' /\ Settles(l)'
  <2>1. Settles(l)'
    BY <1>9 DEF Settles
  <2>2. LastAsks(l)'
    <3> SUFFICES ASSUME NEW j \in DOMAIN calls', calls'[j].kind = l, calls'[j].good, ~calls'[j].late
                 PROVE  Right(l, calls'[j].asks, calls'[j].since, at', saved')
      BY DEF LastAsks
    <3>1. j \notin 1 .. m
      BY <1>1, <1>9
    <3>2. PICK k \in 1 .. Len(E) : j = m + k
      BY <1>1, <3>1
    <3> QED BY <1>1, <1>5, <3>2
  <2> QED BY <2>1, <2>2
<1>10. ASSUME ~Wanted(l, at') PROVE LastAsks(l)' /\ Settles(l)'
  BY <1>10 DEF LastAsks, Settles
<1>11. ASSUME Same(l) PROVE LastAsks(l)' /\ Settles(l)'
  <2>1. CASE Has(E, {l})
    BY <1>8, <1>11, <2>1 DEF Same
  <2>2. CASE ~Has(E, {l})
    BY <1>7, <1>11, <2>2 DEF Has
  <2> QED BY <2>1, <2>2
<1> QED BY <1>6, <1>8, <1>9, <1>10, <1>11 DEF ListOK, Cared, m

------------------------------------------------------------------------------
(* What a step calls for.                                                    *)

LEMMA NothingMade == Placed(<<>>)
<1>1. <<>> \in Seq(CallSet) /\ Len(<<>>) = 0
  BY EmptySeq
<1> QED BY <1>1 DEF Placed

LEMMA BothMade ==
  ASSUME NEW D, Placed(D), NEW E, Placed(E)
  PROVE  Placed(D \o E) /\ \A kinds : Has(D, kinds) \/ Has(E, kinds) => Has(D \o E, kinds)
<1>1. D \in Seq(CallSet) /\ E \in Seq(CallSet) /\ Len(D) \in Nat /\ Len(E) \in Nat
  BY LenProperties DEF Placed
<1>2. /\ D \o E \in Seq(CallSet) /\ Len(D \o E) = Len(D) + Len(E)
      /\ \A j \in 1 .. Len(D) + Len(E) : (D \o E)[j] = IF j <= Len(D) THEN D[j] ELSE E[j - Len(D)]
  BY <1>1, ConcatProperties
<1>3. \A j \in 1 .. Len(D) : j \in 1 .. Len(D \o E) /\ (D \o E)[j] = D[j]
  <2>1. ASSUME NEW j \in 1 .. Len(D) PROVE j \in 1 .. Len(D) + Len(E) /\ j <= Len(D)
    BY <1>1
  <2> QED BY <1>2, <2>1
<1>4. \A j \in 1 .. Len(E) : Len(D) + j \in 1 .. Len(D \o E) /\ (D \o E)[Len(D) + j] = E[j]
  <2>1. ASSUME NEW j \in 1 .. Len(E)
        PROVE  Len(D) + j \in 1 .. Len(D) + Len(E) /\ ~(Len(D) + j <= Len(D)) /\ Len(D) + j - Len(D) = j
    BY <1>1
  <2> QED BY <1>2, <2>1
<1>5. \A j \in 1 .. Len(D \o E) : j \in 1 .. Len(D) \/ \E k \in 1 .. Len(E) : j = Len(D) + k
  <2>1. ASSUME NEW j \in 1 .. Len(D) + Len(E), j \notin 1 .. Len(D)
        PROVE  j - Len(D) \in 1 .. Len(E) /\ j = Len(D) + (j - Len(D))
    BY <1>1, <2>1
  <2> QED BY <1>2, <2>1
<1>6. ASSUME NEW j \in 1 .. Len(D \o E)
      PROVE  \/ \E k \in 1 .. Len(D) : (D \o E)[j] = D[k]
             \/ \E k \in 1 .. Len(E) : (D \o E)[j] = E[k]
  BY <1>3, <1>4, <1>5
<1>7. Placed(D \o E)
  BY <1>2, <1>6 DEF Placed
<1>8. ASSUME NEW kinds, Has(D, kinds) \/ Has(E, kinds) PROVE Has(D \o E, kinds)
  BY <1>3, <1>4, <1>8 DEF Has
<1> QED BY <1>7, <1>8

\* A call that lists nothing; one that is made with an answer to fall back on.
Holding(what, c, h) == [Request(what, c) EXCEPT !.held = h]
LEMMA RequestIs ==
  ASSUME NEW what, NEW c
  PROVE  Request(what, c) =
           [kind |-> what, c |-> c, asks |-> <<>>, since |-> saved', sees |-> Seen(what, c),
            good |-> TRUE, late |-> FALSE, held |-> {}]
BY DEF Request, Call

LEMMA HoldingIs ==
  ASSUME NEW what, NEW c, NEW h
  PROVE  Holding(what, c, h) =
           [kind |-> what, c |-> c, asks |-> <<>>, since |-> saved', sees |-> Seen(what, c),
            good |-> TRUE, late |-> FALSE, held |-> h]
<1> DEFINE none == {}
           seen == Seen(what, c)
           yes == TRUE
           no == FALSE
           count == saved'
           nothing == <<>>
           x == [kind |-> what, c |-> c, asks |-> nothing, since |-> count, sees |-> seen,
                 good |-> yes, late |-> no, held |-> none]
<1>1. Request(what, c) = x
  BY RequestIs
<1> HIDE DEF none, seen, yes, no, count, nothing
<1>2. [x EXCEPT !.held = h] =
        [kind |-> what, c |-> c, asks |-> nothing, since |-> count, sees |-> seen,
         good |-> yes, late |-> no, held |-> h]
  OBVIOUS
<1> HIDE DEF x
<1>3. Holding(what, c, h) = [x EXCEPT !.held = h]
  BY Zenon, <1>1 DEF Holding
<1> QED BY Zenon, <1>2, <1>3 DEF none, seen, yes, no, count, nothing

LEMMA HoldingMade ==
  ASSUME saved' \in Nat, ServerTypeOK', NEW what \in CallKinds \ Lists, NEW c \in Closure,
         NEW h \in SUBSET Answers, what = "accept" => h = {}, CallOK([kind |-> what, c |-> c], members')
  PROVE  /\ Placed(<<Holding(what, c, h)>>)
         /\ \A kinds : what \in kinds => Has(<<Holding(what, c, h)>>, kinds)
<1> DEFINE r == Holding(what, c, h)
           s == <<r>>
<1>1. /\ Seen(what, c) \subseteq Answers
      /\ \A a \in Seen(what, c) : a.user # NULL => a.workspaces = members'[a.user]
  BY SeenNow
<1>2. /\ r.kind = what /\ r.c = c /\ r.held = h /\ r.sees = Seen(what, c)
      /\ r.asks = <<>> /\ r.since = saved' /\ r.good = TRUE /\ r.late = FALSE
  BY DEF Holding, Request, Call
<1>3. r \in CallSet
  <2>1. <<>> \in Questions
    BY DEF Questions
  <2>2. r = [kind |-> what, c |-> c, asks |-> <<>>, since |-> saved', sees |-> Seen(what, c),
             good |-> TRUE, late |-> FALSE, held |-> h]
    BY HoldingIs
  <2> HIDE DEF r
  <2> QED BY <1>1, <2>1, <2>2 DEF CallSet
<1> HIDE DEF r
<1>4. s \in Seq(CallSet) /\ Len(s) = 1 /\ s[1] = r
  BY <1>3
<1>5. CallOK(r, members')
  BY <1>2 DEF CallOK
<1>6. UpToDate(r, members')
  BY <1>1, <1>2 DEF UpToDate, Offers
<1>7. Placed(s)
  <2> HIDE DEF s
  <2>1. \A j \in 1 .. Len(s) : s[j] = r
    BY <1>4
  <2> QED BY <1>2, <1>4, <1>5, <1>6, <2>1 DEF Placed
<1>8. ASSUME NEW kinds, what \in kinds PROVE Has(s, kinds)
  BY <1>2, <1>4, <1>8 DEF Has
<1> QED BY <1>7, <1>8 DEF r

LEMMA NothingHeld ==
  ASSUME NEW what, NEW c PROVE Request(what, c) = Holding(what, c, {})
BY RequestIs DEF Holding

LEMMA RequestMade ==
  ASSUME saved' \in Nat, ServerTypeOK', NEW what \in CallKinds \ Lists, NEW c \in Closure,
         CallOK([kind |-> what, c |-> c], members')
  PROVE  /\ Placed(<<Request(what, c)>>)
         /\ \A kinds : what \in kinds => Has(<<Request(what, c)>>, kinds)
BY HoldingMade, NothingHeld

LEMMA AskedFor ==
  ASSUME NEW l \in Lists, NEW c \in Closure, NEW header \in Places
  PROVE  Asks(l, c, header) \in Questions
<1>1. c.user \in Accounts /\ c.active \in Places /\ c.view \in PageViews /\ Filter(c) \in Persons \cup {NULL}
  BY DEF Closure, Accounts, Places, Filter
<1> QED BY <1>1 DEF Asks, Questions, Lists

\* A load by the closure of any render: only that of the screen as it is now counts.
LEMMA LoadMade ==
  ASSUME saved' \in Nat, at' \in Closure, NEW c \in Closure, NEW l \in Lists
  PROVE  /\ Placed(Load(l, c, at'))
         /\ Wanted(l, c) => Has(Load(l, c, at'), {l})
<1>1. CASE ~Wanted(l, c)
  BY <1>1, NothingMade DEF Load
<1>2. CASE Wanted(l, c)
  <2> DEFINE asks == Asks(l, c, at'.active)
             r == Call(l, c, asks, c = at')
             s == <<r>>
  <2>1. asks \in Questions
    BY AskedFor DEF Closure, Places
  <2>2. c = at' => asks = Asks(l, at', at'.active)
    OBVIOUS
  <2> HIDE DEF asks
  <2>3. /\ r \in CallSet /\ r.kind = l /\ r.asks = asks /\ r.since = saved' /\ ~r.late
        /\ r.good => c = at'
    <3>1. Seen(l, c) = {}
      BY DEF Seen, Tells, Lists
    <3> QED BY <2>1, <3>1 DEF Call, CallSet, CallKinds
  <2>4. CallOK(r, members') /\ r.kind \notin Identity
    BY <2>3 DEF CallOK, Lists, Identity
  <2> HIDE DEF r
  <2>5. s \in Seq(CallSet) /\ Len(s) = 1 /\ s[1] = r
    BY <2>3
  <2>6. Load(l, c, at') = s
    BY <1>2 DEF Load, r, asks
  <2> HIDE DEF s
  <2>7. \A j \in 1 .. Len(s) : s[j] = r
    BY <2>5
  <2>8. Placed(s)
    BY <2>2, <2>3, <2>4, <2>5, <2>7 DEF Placed, Right
  <2>9. Has(s, {l})
    BY <2>3, <2>5 DEF Has
  <2> QED BY <2>6, <2>8, <2>9
<1> QED BY <1>1, <1>2

LEMMA EffectsMade ==
  ASSUME saved' \in Nat, at' \in Closure, NEW changed
  PROVE  /\ Placed(Effects(changed, at'))
         /\ \A l \in Lists : changed \cap Deps[l] # {} /\ Wanted(l, at') => Has(Effects(changed, at'), {l})
<1> DEFINE run(l) == IF changed \cap Deps[l] # {} THEN Load(l, at', at') ELSE <<>>
<1>1. ASSUME NEW l \in Lists
      PROVE  Placed(run(l)) /\ (changed \cap Deps[l] # {} /\ Wanted(l, at') => Has(run(l), {l}))
  BY LoadMade, NothingMade
<1>2. Effects(changed, at') = run("tasks") \o run("sections") \o run("lookups")
  BY DEF Effects
<1> HIDE DEF run
<1>3. "tasks" \in Lists /\ "sections" \in Lists /\ "lookups" \in Lists
  BY DEF Lists
<1>4. Placed(run("tasks") \o run("sections"))
      /\ \A kinds : Has(run("tasks"), kinds) \/ Has(run("sections"), kinds)
                      => Has(run("tasks") \o run("sections"), kinds)
  BY <1>1, <1>3, BothMade
<1>5. /\ Placed((run("tasks") \o run("sections")) \o run("lookups"))
      /\ \A kinds : Has(run("tasks") \o run("sections"), kinds) \/ Has(run("lookups"), kinds)
                      => Has((run("tasks") \o run("sections")) \o run("lookups"), kinds)
  BY <1>1, <1>3, <1>4, BothMade
<1>6. ASSUME NEW l \in Lists, changed \cap Deps[l] # {}, Wanted(l, at')
      PROVE  Has(Effects(changed, at'), {l})
  <2>1. Has(run(l), {l})
    BY <1>1, <1>6
  <2>2. l = "tasks" \/ l = "sections" \/ l = "lookups"
    BY DEF Lists
  <2> QED BY <1>2, <1>4, <1>5, <2>1, <2>2
<1> QED BY <1>2, <1>5, <1>6

------------------------------------------------------------------------------
(* Steps.                                                                    *)

\* A step that is not the answer to a list: the i-th call, if there is one,
\* settles, P is left and E is made.
Leaves(P, i, E) == Follows(P, i) /\ Placed(E) /\ calls' = P \o E
Goes(P, i, E) ==
  /\ Leaves(P, i, E)
  /\ i <= Len(calls) => calls[i].kind \notin Lists
  /\ \A l \in Lists : Cared(l, P, E)

LEMMA RendersToCalls ==
  ASSUME ScreenTypeOK, saved' = saved, NEW now \in Closure,
         NEW P, NEW i, Follows(P, i), i <= Len(calls) => calls[i].kind \notin Lists,
         NEW D, Placed(D), NEW changed, Render(now, changed, P \o D),
         now.user # at.user => "user" \in changed, now.active # at.active => "active" \in changed,
         now.view # at.view => "view" \in changed, now.filter # at.filter => "filter" \in changed,
         stray \cap Lists \subseteq stray'
  PROVE  /\ at' = now /\ lists' \in [Lists -> [asks : Questions, version : Nat]] /\ loading' \in BOOLEAN
         /\ \E E : Goes(P, i, E) /\ \A kinds : Has(D, kinds) => Has(E, kinds)
<1> DEFINE F == Effects(changed, at')
           E == D \o F
<1>1. at' = now /\ calls' = (P \o D) \o F /\ at' \in Closure
  BY DEF Render
<1>2. saved' \in Nat
  BY DEF ScreenTypeOK, PageTypeOK
<1>3. Placed(F) /\ \A l \in Lists : changed \cap Deps[l] # {} /\ Wanted(l, at') => Has(F, {l})
  BY <1>1, <1>2, EffectsMade
<1>4. loading' \in BOOLEAN
  BY DEF Render, Loads
<1>5. /\ lists' \in [Lists -> [asks : Questions, version : Nat]]
      /\ \A l \in Lists : lists'[l] = lists[l] \/ (l = "sections" /\ changed \cap Deps[l] # {})
  <2>1. lists \in [Lists -> [asks : Questions, version : Nat]]
    BY DEF ScreenTypeOK, PageTypeOK
  <2>2. NoAnswer \in [asks : Questions, version : Nat]
    BY DEF NoAnswer, Questions
  <2>3. lists' = lists \/ (lists' = [lists EXCEPT !["sections"] = NoAnswer] /\ changed \cap Deps["sections"] # {})
    BY DEF Render
  <2> QED BY <2>1, <2>2, <2>3
<1> HIDE DEF F
<1>6. Placed(E) /\ \A kinds : Has(D, kinds) \/ Has(F, kinds) => Has(E, kinds)
  BY <1>3, BothMade
<1>7. calls' = P \o E
  <2>1. P \in Seq(CallSet) /\ D \in Seq(CallSet) /\ F \in Seq(CallSet)
    BY <1>3 DEF Follows, Placed
  <2> QED BY SMTT(30), <1>1, <2>1, ConcatAssociative
<1> HIDE DEF E
<1>8. ASSUME NEW l \in Lists PROVE Cared(l, P, E)
  <2>1. CASE changed \cap Deps[l] # {}
    <3>1. CASE Wanted(l, at')
      BY <1>3, <1>6, <2>1, <3>1 DEF Cared
    <3>2. CASE ~Wanted(l, at')
      BY <3>2 DEF Cared
    <3> QED BY <3>1, <3>2
  <2>2. CASE changed \cap Deps[l] = {} /\ Wanted(l, at')
    <3>1. /\ l # "lookups" => now.view = at.view
          /\ now.active = at.active
          /\ l \in {"tasks", "lookups"} => now.user = at.user
          /\ l = "tasks" => now.filter = at.filter
      <4>1. l = "tasks" \/ l = "sections" \/ l = "lookups"
        BY DEF Lists
      <4>2. CASE l = "tasks"
        BY <2>2, <4>2 DEF Deps
      <4>3. CASE l = "sections"
        BY <2>2, <4>3 DEF Deps
      <4>4. CASE l = "lookups"
        BY <2>2, <4>4 DEF Deps
      <4> QED BY <4>1, <4>2, <4>3, <4>4
    <3>2. Wanted(l, at)
      BY <1>1, <2>2, <3>1 DEF Wanted
    <3>3. Asks(l, at', at'.active) = Asks(l, at, at.active)
      BY <1>1, <3>1 DEF Asks, Filter, Lists
    <3> QED BY <1>5, <2>2, <3>2, <3>3 DEF Cared, Same
  <2> QED BY <2>1, <2>2 DEF Cared
<1>9. Goes(P, i, E)
  BY <1>6, <1>7, <1>8 DEF Goes, Leaves
<1> QED BY <1>1, <1>4, <1>5, <1>6, <1>9

\* What follows for the calls and the lists.
LEMMA CallsGoOn ==
  ASSUME ScreenTypeOK, CallsOK, NEW P, NEW i, NEW E, Leaves(P, i, E),
         Invited \in members[Invitee] => Invited \in members'[Invitee],
         invite'.up => invite.up
  PROVE  calls' \in Seq(CallSet) /\ CallsOK'
<1>1. ScreenTypeOK /\ CallsOK
  OBVIOUS
<1>2. Follows(P, i) /\ Placed(E) /\ calls' = P \o E
  BY DEF Leaves
<1>3. /\ calls' \in Seq(CallSet) /\ DOMAIN calls = 1 .. Len(calls)
      /\ \A j \in 1 .. Len(P) : calls'[j] = P[j] /\ Place(i, j) \in 1 .. Len(calls)
      /\ \A j \in 1 .. Len(E) : Len(P) + j \in DOMAIN calls' /\ calls'[Len(P) + j] = E[j]
      /\ \A j \in DOMAIN calls' : j \in 1 .. Len(P) \/ \E k \in 1 .. Len(E) : j = Len(P) + k
  BY SMTT(30), <1>1, <1>2, CallsAfter
<1>4. ASSUME NEW j \in DOMAIN calls' PROVE CallOK(calls'[j], members')
  <2>1. CASE j \in 1 .. Len(P)
    <3>1. CallOK(calls[Place(i, j)], members)
      BY <1>1, <1>3, <2>1 DEF CallsOK
    <3>2. Continues(P[j], calls[Place(i, j)])
      BY <1>2, <2>1 DEF Follows
    <3> QED BY <1>3, <2>1, <3>1, <3>2 DEF CallOK, Continues
  <2>2. CASE \E k \in 1 .. Len(E) : j = Len(P) + k
    BY <1>2, <1>3, <2>2 DEF Placed
  <2> QED BY <1>3, <2>1, <2>2
<1>5. CallsOK'
  BY <1>1, <1>4 DEF CallsOK
<1> QED BY <1>3, <1>5

LEMMA GoesOn ==
  ASSUME ScreenInv, NEW P, NEW i, NEW E, Goes(P, i, E),
         Invited \in members[Invitee] => Invited \in members'[Invitee],
         invite'.up => invite.up
  PROVE  calls' \in Seq(CallSet) /\ CallsOK' /\ \A l \in Lists : ListOK(l)'
<1>1. calls' \in Seq(CallSet) /\ CallsOK'
  BY CallsGoOn DEF ScreenInv, Goes
<1>2. ASSUME NEW l \in Lists PROVE ListOK(l)'
  <2>1. Cared(l, P, E) /\ (i <= Len(calls) => calls[i].kind # l)
    BY DEF Goes, Leaves
  <2>2. Follows(P, i) /\ Placed(E) /\ calls' = P \o E
    BY DEF Goes, Leaves
  <2> QED BY <2>1, <2>2, Carry DEF ScreenInv
<1> QED BY <1>1, <1>2

\* The workspaces: a step that neither ends a telling call nor changes what is told.
LEMMA TellingStays ==
  ASSUME ScreenTypeOK, NEW P, NEW i, Follows(P, i), NEW j \in 1 .. Len(calls), j # i, WillTell(calls[j])
  PROVE  \E k \in 1 .. Len(P) : WillTell(P[k])
<1>1. PICK k \in 1 .. Len(P) : Place(i, k) = j
  BY StillThere
<1>2. Continues(P[k], calls[j])
  BY <1>1 DEF Follows
<1> QED BY <1>1, <1>2 DEF Continues, WillTell, Telling

LEMMA StillTold ==
  ASSUME ScreenTypeOK, WorkspacesTold, NEW P, NEW i, NEW E, Leaves(P, i, E),
         i <= Len(calls) => ~WillTell(calls[i]),
         at'.user = at.user, (at'.active = NULL) <=> (at.active = NULL), workspaces' = workspaces,
         members' = members, "identity" \in stray => "identity" \in stray'
  PROVE  WorkspacesTold'
<1>1. /\ DOMAIN calls = 1 .. Len(calls) /\ i \in 1 .. Len(calls) + 1 /\ Len(calls) \in Nat
      /\ DOMAIN calls' = 1 .. Len(P) + Len(E) /\ Len(P) \in Nat /\ Len(E) \in Nat
      /\ \A j \in 1 .. Len(P) : calls'[j] = P[j] /\ Place(i, j) \in 1 .. Len(calls)
  BY CallsAfter DEF Leaves
<1>2. ASSUME NEW j \in DOMAIN calls, WillTell(calls[j]) PROVE \E k \in DOMAIN calls' : WillTell(calls'[k])
  <2>1. j \in 1 .. Len(calls) /\ j # i
    BY <1>1, <1>2
  <2>2. PICK k \in 1 .. Len(P) : WillTell(P[k])
    BY <1>2, <2>1, TellingStays DEF Leaves
  <2>3. k \in DOMAIN calls' /\ calls'[k] = P[k]
    BY <1>1
  <2> QED BY <2>2, <2>3
<1> QED BY <1>2 DEF WorkspacesTold

LEMMA MadeTelling ==
  ASSUME ScreenTypeOK, NEW P, NEW i, NEW E, Leaves(P, i, E),
         Has(E, Telling) \/ \E j \in 1 .. Len(P) : WillTell(P[j])
  PROVE  \E j \in DOMAIN calls' : WillTell(calls'[j])
<1>1. /\ Len(P) \in Nat /\ Len(E) \in Nat /\ DOMAIN calls' = 1 .. Len(P) + Len(E)
      /\ \A j \in 1 .. Len(P) : calls'[j] = P[j]
      /\ \A j \in 1 .. Len(E) : Len(P) + j \in DOMAIN calls' /\ calls'[Len(P) + j] = E[j]
  BY CallsAfter DEF Leaves
<1>2. \A j \in 1 .. Len(P) : j \in DOMAIN calls'
  BY <1>1
<1> QED BY <1>1, <1>2 DEF Has, WillTell

\* A call under way that was not overtaken says how things are, or one made after
\* it will: a change of the members is asked about, or known to be missed.
Heard(P, E) ==
  \/ members' = members
  \/ Has(E, Telling)
  \/ \A j \in 1 .. Len(P) : P[j].kind \in Identity => P[j].late
LEMMA StillLatest ==
  ASSUME ScreenTypeOK, LatestTold, NEW P, NEW i, NEW E, Leaves(P, i, E), Heard(P, E)
  PROVE  LatestTold'
<1> DEFINE n == Len(calls)
           m == Len(P)
<1> HIDE DEF n, m
<1>0. Follows(P, i) /\ Placed(E) /\ calls' = P \o E
  BY DEF Leaves
<1>1. /\ n \in Nat /\ m \in Nat /\ Len(E) \in Nat /\ i \in 1 .. n + 1 /\ DOMAIN calls = 1 .. n
      /\ \A j \in 1 .. m : calls'[j] = P[j] /\ Place(i, j) \in 1 .. n
      /\ \A j \in 1 .. Len(E) : m + j \in DOMAIN calls' /\ calls'[m + j] = E[j]
      /\ \A j \in DOMAIN calls' : j \in 1 .. m \/ \E k \in 1 .. Len(E) : j = m + k
  BY SMTT(30), <1>0, CallsAfter DEF n, m
<1>2. DOMAIN calls' = 1 .. m + Len(E)
  BY ZenonT(30), <1>0, CallsAfter DEF m
<1> SUFFICES ASSUME NEW k \in DOMAIN calls', calls'[k].kind \in Identity, ~calls'[k].late,
                    ~\E j \in DOMAIN calls' : k < j /\ calls'[j].kind \in Telling
             PROVE  UpToDate(calls'[k], members')
  BY DEF LatestTold
<1>3. CASE k \notin 1 .. m
  <2>1. PICK q \in 1 .. Len(E) : k = m + q
    BY <1>1, <1>3
  <2> QED BY <1>1, <2>1 DEF Leaves, Placed
<1>4. CASE k \in 1 .. m
  <2> DEFINE p == Place(i, k)
             x == calls[p]
  <2>1. /\ calls'[k] = P[k] /\ p \in 1 .. n
        /\ Continues(P[k], x)
        /\ x.kind \in Identity /\ Ahead(i, k) /\ calls[i].kind \in Identity => P[k].late
    BY <1>1, <1>4 DEF Leaves, Follows, m
  <2> HIDE DEF p, x
  <2>2. x.kind \in Identity /\ ~x.late
    BY <2>1 DEF Continues, Identity
  <2>3. ~Has(E, Telling)
    <3>1. ASSUME NEW q \in 1 .. Len(E), E[q].kind \in Telling PROVE FALSE
      <4>1. m + q \in DOMAIN calls' /\ calls'[m + q] = E[q] /\ k < m + q
        BY <1>1, <1>4
      <4> QED BY <3>1, <4>1
    <3> QED BY <3>1 DEF Has
  <2>4. members' = members
    <3>1. ~P[k].late /\ P[k].kind \in Identity
      BY <2>1
    <3> QED BY <1>4, <2>3, <3>1 DEF Heard, m
  <2>5. ~\E j \in DOMAIN calls : p < j /\ calls[j].kind \in Telling
    <3> SUFFICES ASSUME NEW j \in 1 .. n, p < j, calls[j].kind \in Telling PROVE FALSE
      BY <1>1
    <3>1. CASE j = i
      <4>1. Ahead(i, k)
        BY <1>1, <3>1 DEF Ahead, p, n
      <4>2. calls[i].kind \in Identity
        BY <3>1 DEF Telling, Identity
      <4> QED BY <2>1, <2>2, <4>1, <4>2
    <3>2. CASE j # i
      <4>1. PICK q \in 1 .. m : Place(i, q) = j
        BY <3>2, StillThere DEF Leaves, n, m
      <4>2. Continues(P[q], calls[j])
        BY <4>1 DEF Leaves, Follows, m
      <4>3. P[q].kind \in Telling
        BY <4>2 DEF Continues, Telling
      <4>4. k < q
        BY <1>1, <1>4, <4>1 DEF Place, p
      <4>5. q \in DOMAIN calls' /\ calls'[q] = P[q]
        BY <1>1, <1>2
      <4> QED BY <4>3, <4>4, <4>5
    <3> QED BY <3>1, <3>2
  <2>6. UpToDate(x, members)
    BY <1>1, <2>1, <2>2, <2>5 DEF LatestTold, x
  <2> QED BY <2>1, <2>2, <2>4, <2>6 DEF Continues, UpToDate
<1> QED BY <1>3, <1>4

\* What an answer says that settles as the i-th call: how things are, unless it was
\* overtaken or another is on its way.
LEMMA AnswerTold ==
  ASSUME ScreenTypeOK, LatestTold, members' = members, NEW i \in DOMAIN calls,
         calls[i].kind \in Identity, ~calls[i].late, NEW a \in Offers(calls[i]), a.user # NULL,
         NEW P, Follows(P, i)
  PROVE  a.workspaces = members'[a.user] \/ \E j \in 1 .. Len(P) : WillTell(P[j])
<1>1. DOMAIN calls = 1 .. Len(calls) /\ Len(calls) \in Nat
  BY CallsAre
<1>2. CASE UpToDate(calls[i], members)
  BY <1>2 DEF UpToDate
<1>3. CASE \E j \in DOMAIN calls : i < j /\ calls[j].kind \in Telling
  <2>1. PICK j \in 1 .. Len(calls) : i < j /\ calls[j].kind \in Telling
    BY <1>1, <1>3
  <2>2. j # i /\ WillTell(calls[j])
    BY <1>1, <2>1 DEF WillTell
  <2> QED BY <2>2, TellingStays
<1> QED BY <1>2, <1>3 DEF LatestTold

\* The workspaces are told about, told already as before, or right.
Informs(P, i, E) ==
  /\ Heard(P, E)
  /\ \/ Has(E, Telling)
     \/ \E j \in 1 .. Len(P) : WillTell(P[j])
     \/ /\ i <= Len(calls) => ~WillTell(calls[i])
        /\ at'.user = at.user /\ ((at'.active = NULL) <=> (at.active = NULL))
        /\ workspaces' = workspaces /\ members' = members
        /\ "identity" \in stray => "identity" \in stray'
     \/ at'.user # NULL /\ "identity" \notin stray' =>
          /\ workspaces' = members'[at'.user]
          /\ (at'.active = NULL) <=> (workspaces' = {})
Grows ==
  /\ Invited \in members[Invitee] => Invited \in members'[Invitee]
  /\ invite'.up => invite.up

LEMMA Stepped ==
  ASSUME ScreenInv, PageTypeOK', at' \in Closure, lists' \in [Lists -> [asks : Questions, version : Nat]],
         loading' \in BOOLEAN, Grows, NEW P, NEW i, NEW E, Goes(P, i, E), Informs(P, i, E)
  PROVE  ScreenInv'
<1>1. calls' \in Seq(CallSet) /\ CallsOK' /\ \A l \in Lists : ListOK(l)'
  BY GoesOn DEF Grows
<1>2. ScreenTypeOK'
  BY <1>1 DEF ScreenTypeOK
<1>3. Leaves(P, i, E) /\ Heard(P, E)
  BY DEF Goes, Informs
<1>4. LatestTold'
  BY <1>3, StillLatest DEF ScreenInv
<1>5. WorkspacesTold'
  <2>1. CASE Has(E, Telling) \/ \E j \in 1 .. Len(P) : WillTell(P[j])
    BY <1>3, <2>1, MadeTelling DEF ScreenInv, WorkspacesTold
  <2>2. CASE /\ i <= Len(calls) => ~WillTell(calls[i])
             /\ at'.user = at.user /\ ((at'.active = NULL) <=> (at.active = NULL))
             /\ workspaces' = workspaces /\ members' = members
             /\ "identity" \in stray => "identity" \in stray'
    BY <1>3, <2>2, StillTold DEF ScreenInv
  <2>3. CASE at'.user # NULL /\ "identity" \notin stray' =>
               /\ workspaces' = members'[at'.user]
               /\ (at'.active = NULL) <=> (workspaces' = {})
    BY <2>3 DEF WorkspacesTold
  <2> QED BY <2>1, <2>2, <2>3 DEF Informs
<1> QED BY <1>1, <1>2, <1>4, <1>5 DEF ScreenInv

\* The screen stays as it is.
LEMMA Stays ==
  ASSUME ScreenInv, PageTypeOK', at' = at, lists' = lists, loading' \in BOOLEAN, saved' = saved, Grows,
         stray \cap Lists \subseteq stray',
         NEW P, NEW i, NEW E, Follows(P, i), Placed(E), calls' = P \o E,
         i <= Len(calls) => calls[i].kind \notin Lists, Informs(P, i, E)
  PROVE  ScreenInv'
<1>1. \A l \in Lists : Cared(l, P, E)
  BY DEF Cared, Same
<1>2. Goes(P, i, E)
  BY <1>1 DEF Goes, Leaves
<1> QED BY <1>2, Stepped DEF ScreenInv, ScreenTypeOK

\* The screen changes.
LEMMA Renders ==
  ASSUME ScreenInv, PageTypeOK', saved' = saved, Grows, stray \cap Lists \subseteq stray',
         NEW now \in Closure, NEW P, NEW i, Follows(P, i), i <= Len(calls) => calls[i].kind \notin Lists,
         NEW D, Placed(D), NEW changed, Render(now, changed, P \o D), Informs(P, i, D),
         now.user # at.user => "user" \in changed, now.active # at.active => "active" \in changed,
         now.view # at.view => "view" \in changed, now.filter # at.filter => "filter" \in changed
  PROVE  ScreenInv'
<1>1. ScreenTypeOK
  BY DEF ScreenInv
<1>2. at' = now /\ lists' \in [Lists -> [asks : Questions, version : Nat]] /\ loading' \in BOOLEAN
  BY <1>1, RendersToCalls
<1>3. \E E : Goes(P, i, E) /\ \A kinds : Has(D, kinds) => Has(E, kinds)
  BY <1>1, RendersToCalls
<1>4. PICK E : Goes(P, i, E) /\ \A kinds : Has(D, kinds) => Has(E, kinds)
  BY <1>3
<1>5. Informs(P, i, E)
  BY <1>4 DEF Informs, Heard
<1> QED BY <1>2, <1>4, <1>5, Stepped

LEMMA RendersPlainly ==
  ASSUME ScreenInv, PageTypeOK', saved' = saved, Grows, stray \cap Lists \subseteq stray',
         NEW now \in Closure, NEW P, NEW i, Follows(P, i), i <= Len(calls) => calls[i].kind \notin Lists,
         NEW changed, Render(now, changed, P), Informs(P, i, <<>>),
         now.user # at.user => "user" \in changed, now.active # at.active => "active" \in changed,
         now.view # at.view => "view" \in changed, now.filter # at.filter => "filter" \in changed
  PROVE  ScreenInv'
<1>1. P \o <<>> = P
  BY ConcatEmptySeq DEF Follows
<1>2. Render(now, changed, P \o <<>>)
  BY <1>1
<1> QED BY <1>2, NothingMade, Renders

------------------------------------------------------------------------------
(* The screen: what each action keeps.                                       *)

LEMMA ScreenParts ==
  ASSUME ScreenInv
  PROVE  /\ ScreenTypeOK /\ PageTypeOK /\ CallsOK /\ WorkspacesTold /\ LatestTold
         /\ \A l \in Lists : ListOK(l)
         /\ at.user \in Accounts /\ at.active \in Places /\ at.view \in PageViews
         /\ at.filter \in Persons \cup {NULL}
         /\ at = [user |-> at.user, active |-> at.active, view |-> at.view, filter |-> at.filter]
         /\ Follows(calls, Len(calls) + 1) /\ ~(Len(calls) + 1 <= Len(calls))
<1>1. ScreenTypeOK
  BY DEF ScreenInv
<1>2. Len(calls) \in Nat
  BY <1>1, CallsAre
<1>3. ~(Len(calls) + 1 <= Len(calls))
  BY <1>2
<1>4. at \in Closure
  BY <1>1 DEF ScreenTypeOK
<1> QED BY <1>1, <1>3, <1>4, AllFollow DEF ScreenInv, ScreenTypeOK, Closure, Accounts, Places

\* Setting the view or the filter, or opening another workspace.
LEMMA ShownAnew ==
  ASSUME ScreenInv, PageTypeOK', NEW now \in Closure, NEW changed, Render(now, changed, calls),
         now.user = at.user, (now.active = NULL) <=> (at.active = NULL),
         now.active # at.active => "active" \in changed,
         now.view # at.view => "view" \in changed, now.filter # at.filter => "filter" \in changed,
         UNCHANGED <<Server, workspaces, invite, stray>>
  PROVE  ScreenInv'
<1>1. /\ Follows(calls, Len(calls) + 1) /\ ~(Len(calls) + 1 <= Len(calls))
  BY ScreenParts
<1>2. at' = now
  BY DEF Render
<1>3. Grows /\ saved' = saved /\ stray \cap Lists \subseteq stray'
  BY DEF Grows, Server
<1>4. Informs(calls, Len(calls) + 1, <<>>)
  BY <1>1, <1>2 DEF Informs, Heard, Server
<1> QED BY <1>1, <1>3, <1>4, RendersPlainly

LEMMA NavigateKeeps ==
  ASSUME ScreenInv, NEW v \in PageViews, NEW f \in Persons \cup {NULL}, NEW changed,
         Navigate([at EXCEPT !.view = v, !.filter = f], changed), v # at.view => "view" \in changed,
         before' \in PageViews, searching' \in PageViews \cup {NULL}, clicks' \in Nat
  PROVE  ScreenInv'
<1> DEFINE now == [at EXCEPT !.view = v, !.filter = f]
<1>1. /\ now \in Closure /\ now.user = at.user /\ now.active = at.active
      /\ now.view = v /\ now.filter = f
  BY ScreenParts DEF Closure, Accounts, Places
<1>2. now.filter # at.filter => "filter" \in changed \cup Changed(now)
  BY <1>1 DEF Changed
<1> HIDE DEF now
<1>3. Render(now, changed \cup Changed(now), calls)
  BY DEF Navigate, now
<1>4. PageTypeOK'
  BY ScreenParts DEF Navigate, PageTypeOK, Server
<1>5. UNCHANGED <<Server, workspaces, invite, stray>>
  BY DEF Navigate
<1> QED BY <1>1, <1>2, <1>3, <1>4, <1>5, ShownAnew

LEMMA SelectViewKeeps ==
  ASSUME ScreenInv, NEW v \in PageViews, SelectView(v) PROVE ScreenInv'
<1>1. Navigate([at EXCEPT !.view = v, !.filter = NULL], {"view"})
  BY DEF SelectView
<1>2. before' \in PageViews /\ searching' \in PageViews \cup {NULL} /\ clicks' \in Nat
  BY ScreenParts DEF SelectView, Click, PageTypeOK
<1> QED BY <1>1, <1>2, NavigateKeeps

LEMMA FollowLinkKeeps ==
  ASSUME ScreenInv, NEW p \in Projects, FollowLink(p) PROVE ScreenInv'
<1>1. [at EXCEPT !.view = Project(p)] = [at EXCEPT !.view = Project(p), !.filter = at.filter]
  BY ScreenParts DEF Closure
<1>2. Navigate([at EXCEPT !.view = Project(p), !.filter = at.filter], {"view"})
  BY <1>1 DEF FollowLink
<1>3. before' \in PageViews /\ searching' \in PageViews \cup {NULL} /\ clicks' \in Nat
  BY ScreenParts DEF FollowLink, Click, PageTypeOK
<1>4. Project(p) \in PageViews
  BY DEF PageViews
<1> QED BY <1>2, <1>3, <1>4, NavigateKeeps, ScreenParts

LEMMA ChooseFilterKeeps ==
  ASSUME ScreenInv, NEW f \in Persons \cup {NULL}, ChooseFilter(f) PROVE ScreenInv'
<1>1. [at EXCEPT !.filter = f] = [at EXCEPT !.view = at.view, !.filter = f]
  BY ScreenParts DEF Closure
<1>2. Navigate([at EXCEPT !.view = at.view, !.filter = f], {})
  BY <1>1 DEF ChooseFilter
<1>3. before' \in PageViews /\ searching' \in PageViews \cup {NULL} /\ clicks' \in Nat
  BY ScreenParts DEF ChooseFilter, Click, PageTypeOK
<1> QED BY <1>2, <1>3, NavigateKeeps, ScreenParts

LEMMA FireSearchKeeps ==
  ASSUME ScreenInv, FireSearch PROVE ScreenInv'
<1>1. [at EXCEPT !.view = Search] = [at EXCEPT !.view = Search, !.filter = at.filter]
  BY ScreenParts DEF Closure
<1>2. Navigate([at EXCEPT !.view = Search, !.filter = at.filter], {"view"})
  BY <1>1 DEF FireSearch
<1>3. before' \in PageViews /\ searching' \in PageViews \cup {NULL} /\ clicks' \in Nat
  BY ScreenParts DEF FireSearch, PageTypeOK
<1>4. Search \in PageViews
  BY DEF PageViews
<1> QED BY <1>2, <1>3, <1>4, NavigateKeeps, ScreenParts

LEMMA EraseSearchKeeps ==
  ASSUME ScreenInv, EraseSearch PROVE ScreenInv'
<1>1. [at EXCEPT !.view = before] = [at EXCEPT !.view = before, !.filter = at.filter]
  BY ScreenParts DEF Closure
<1>2. Navigate([at EXCEPT !.view = before, !.filter = at.filter], {"view"})
  BY <1>1 DEF EraseSearch
<1>3. before' \in PageViews /\ searching' \in PageViews \cup {NULL} /\ clicks' \in Nat /\ before \in PageViews
  BY ScreenParts DEF EraseSearch, Click, PageTypeOK
<1> QED BY <1>2, <1>3, NavigateKeeps, ScreenParts

LEMMA SwitchedTo ==
  ASSUME NEW c \in Closure, NEW w \in Places
  PROVE  /\ Switched(c, w) \in Closure
         /\ Switched(c, w).user = c.user /\ Switched(c, w).active = w
         /\ Switched(c, w).view = Today /\ Switched(c, w).filter = c.filter
BY DEF Switched, Closure, Places, PageViews

LEMMA SwitchWorkspaceKeeps ==
  ASSUME ScreenInv, NEW w \in Workspaces, SwitchWorkspace(w) PROVE ScreenInv'
<1> DEFINE now == Switched(at, w)
<1>1. /\ now \in Closure /\ now.user = at.user /\ now.active = w /\ now.filter = at.filter
  BY SwitchedTo, ScreenParts DEF ScreenTypeOK, Places
<1> HIDE DEF now
<1>2. Render(now, {"view", "active"}, calls)
  BY DEF SwitchWorkspace, now
<1>3. PageTypeOK'
  BY ScreenParts DEF SwitchWorkspace, PageTypeOK, Server, Keep, Places, Click
<1>4. (now.active = NULL) <=> (at.active = NULL)
  BY <1>1, NullIsNobody DEF SwitchWorkspace, Shell
<1>5. UNCHANGED <<Server, workspaces, invite, stray>>
  BY DEF SwitchWorkspace
<1> QED BY <1>1, <1>2, <1>3, <1>4, <1>5, ShownAnew

\* Steps that leave the calls alone.
LEMMA NoCallKeeps ==
  ASSUME ScreenInv, PageTypeOK', Grows, UNCHANGED <<Server, at, workspaces, lists, loading, calls, stray>>
  PROVE  ScreenInv'
<1>1. calls' = calls \o <<>>
  BY ScreenParts, ConcatEmptySeq DEF Follows
<1>2. Informs(calls, Len(calls) + 1, <<>>)
  BY ScreenParts DEF Informs, Heard, Server
<1> QED BY <1>1, <1>2, ScreenParts, NothingMade, Stays DEF Server, ScreenTypeOK

LEMMA TypeKeeps == ASSUME ScreenInv, TypeSearch PROVE ScreenInv'
<1>1. PageTypeOK' /\ Grows
  BY ScreenParts DEF TypeSearch, PageTypeOK, Server, Click, Grows
<1> QED BY <1>1, NoCallKeeps DEF TypeSearch

LEMMA DismissInviteKeeps == ASSUME ScreenInv, DismissInvite PROVE ScreenInv'
<1>1. invite' \in [up : BOOLEAN, error : BOOLEAN, accepting : BOOLEAN] /\ ~invite'.up
  BY ScreenParts DEF DismissInvite, PageTypeOK
<1>2. PageTypeOK' /\ Grows
  BY <1>1, ScreenParts DEF DismissInvite, PageTypeOK, Server, Click, Grows
<1> QED BY <1>2, NoCallKeeps DEF DismissInvite

\* Steps that only make a call.
LEMMA PlacedKeeps ==
  ASSUME ScreenInv, PageTypeOK', Grows, UNCHANGED <<Server, at, workspaces, lists, loading, stray>>,
         NEW what \in CallKinds \ Lists, NEW c \in Closure, CallOK([kind |-> what, c |-> c], members'),
         calls' = Append(calls, Request(what, c))
  PROVE  ScreenInv'
<1> DEFINE E == <<Request(what, c)>>
<1>1. Placed(E)
  BY RequestMade DEF PageTypeOK, ServerTypeOK
<1>2. Request(what, c) \in CallSet
  BY <1>1 DEF Placed
<1>3. calls' = calls \o E
  BY <1>2, ScreenParts, AppendIsConcat DEF ScreenTypeOK
<1> HIDE DEF E
<1>4. Informs(calls, Len(calls) + 1, E)
  BY ScreenParts DEF Informs, Heard, Server
<1> QED BY <1>1, <1>3, <1>4, ScreenParts, Stays DEF Server, ScreenTypeOK

LEMMA ChangeKeeps ==
  ASSUME ScreenInv, NEW what \in DOMAIN Reloads, ChangeTask(what) PROVE ScreenInv'
<1>1. what \in {"save", "edit", "names"}
  BY DEF Reloads
<1>2. what \in CallKinds \ Lists
  BY <1>1 DEF CallKinds, Lists
<1>3. CallOK([kind |-> what, c |-> at], members')
  BY <1>1 DEF CallOK, ChangeTask
<1>4. PageTypeOK' /\ Grows
  BY ScreenParts DEF ChangeTask, PageTypeOK, Server, Client, Click, Grows
<1> QED BY <1>2, <1>3, <1>4, ScreenParts, PlacedKeeps DEF ChangeTask, Client, ScreenTypeOK

LEMMA SignInKeeps ==
  ASSUME ScreenInv, NEW u \in Users, SignIn(u) PROVE ScreenInv'
<1> DEFINE c == [at EXCEPT !.user = u]
           what == IF invite.up THEN "join" ELSE "login"
<1>1. c \in Closure /\ c.user = u
  BY ScreenParts DEF Closure, Places
<1>2. calls' = Append(calls, Request(what, c))
  BY DEF SignIn
<1>3. what \in {"join", "login"} /\ (what = "join" => invite.up)
  OBVIOUS
<1> HIDE DEF c, what
<1>4. what \in CallKinds \ Lists
  BY <1>3 DEF CallKinds, Lists
<1>5. CallOK([kind |-> what, c |-> c], members')
  BY <1>1, <1>3, NullIsNobody, ScreenParts DEF CallOK, CallsOK
<1>6. PageTypeOK' /\ Grows
  BY ScreenParts DEF SignIn, PageTypeOK, Server, Client, Click, Grows
<1> QED BY <1>1, <1>2, <1>4, <1>5, <1>6, PlacedKeeps DEF SignIn, Client

LEMMA AcceptNowKeeps ==
  ASSUME ScreenInv, AcceptNow PROVE ScreenInv'
<1>1. at \in Closure
  BY ScreenParts DEF ScreenTypeOK
<1>2. "accept" \in CallKinds \ Lists
  BY DEF CallKinds, Lists
<1>3. CallOK([kind |-> "accept", c |-> at], members')
  BY ScreenParts DEF CallOK, CallsOK, AcceptNow
<1>4. invite' \in [up : BOOLEAN, error : BOOLEAN, accepting : BOOLEAN] /\ invite'.up = invite.up
  BY ScreenParts DEF AcceptNow, PageTypeOK
<1>5. PageTypeOK' /\ Grows
  BY <1>4, ScreenParts DEF AcceptNow, PageTypeOK, Server, Click, Grows
<1> QED BY <1>1, <1>2, <1>3, <1>5, PlacedKeeps DEF AcceptNow

LEMMA PlainAskKeeps ==
  ASSUME ScreenInv, NEW what \in {"refresh", "logout", "create"}, Click,
         UNCHANGED <<Server, Client, stray>>, calls' = Append(calls, Request(what, at))
  PROVE  ScreenInv'
<1>1. what \in CallKinds \ Lists
  BY DEF CallKinds, Lists
<1>2. CallOK([kind |-> what, c |-> at], members')
  BY DEF CallOK
<1>3. PageTypeOK' /\ Grows
  BY ScreenParts DEF PageTypeOK, Server, Client, Click, Grows
<1> QED BY <1>1, <1>2, <1>3, ScreenParts, PlacedKeeps DEF Client, ScreenTypeOK

LEMMA AsksKeep ==
  ASSUME ScreenInv, \/ AcceptNow
                    \/ RefreshUser
                    \/ Logout
                    \/ CreateWorkspace
  PROVE ScreenInv'
BY AcceptNowKeeps, PlainAskKeeps DEF RefreshUser, Logout, CreateWorkspace

------------------------------------------------------------------------------
(* The screen: what each answer keeps.                                       *)

LEMMA Settling ==
  ASSUME ScreenInv, NEW i \in DOMAIN calls
  PROVE  /\ Follows(Rest(i), i) /\ Rest(i) \in Seq(CallSet)
         /\ (ServerTypeOK' => Follows(Seeing(Rest(i)), i))
         /\ i <= Len(calls) /\ i \in 1 .. Len(calls) /\ calls[i] \in CallSet
         /\ calls[i].c \in Closure /\ calls[i].sees \subseteq Answers /\ calls[i].held \subseteq Answers
         /\ CallOK(calls[i], members)
<1>1. ScreenTypeOK /\ Len(calls) \in Nat /\ DOMAIN calls = 1 .. Len(calls)
      /\ \A j \in 1 .. Len(calls) : calls[j] \in CallSet
  BY ScreenParts, CallsAre
<1>2. Follows(Rest(i), i)
  BY <1>1, RestFollows
<1>3. ServerTypeOK' => Follows(Seeing(Rest(i)), i)
  BY <1>2, SeeingFollows
<1>4. CallOK(calls[i], members)
  BY ScreenParts DEF CallsOK
<1>5. calls[i] \in CallSet /\ i <= Len(calls)
  BY <1>1
<1> QED BY <1>1, <1>2, <1>3, <1>4, <1>5 DEF Follows, CallSet

\* What is left when the page does not hear of what was done.
LEMMA UnheardFollows ==
  ASSUME ScreenInv, ServerTypeOK', NEW i \in DOMAIN calls
  PROVE  /\ Follows(Unheard(i), i) /\ Heard(Unheard(i), <<>>)
         /\ members' = members => Unheard(i) = Rest(i)
<1>1. Follows(Missed(Seeing(Rest(i))), i)
      /\ \A j \in 1 .. Len(Missed(Seeing(Rest(i)))) :
           Missed(Seeing(Rest(i)))[j].kind \in Identity => Missed(Seeing(Rest(i)))[j].late
  BY Settling, MissedFollows
<1> QED BY <1>1, Settling DEF Unheard, Heard

\* An answer that changes nothing on the page.
LEMMA QuietlyKeeps ==
  ASSUME ScreenInv, PageTypeOK', Grows, NEW i \in DOMAIN calls, calls[i].kind \notin Lists,
         UNCHANGED <<saved, at, lists, loading>>, stray \cap Lists \subseteq stray',
         NEW P, Follows(P, i), calls' = P, Heard(P, <<>>),
         \/ ~WillTell(calls[i]) /\ UNCHANGED <<workspaces, members, stray>>
         \/ "identity" \in stray'
  PROVE  ScreenInv'
<1>1. calls' = P \o <<>>
  BY ConcatEmptySeq DEF Follows
<1>2. Informs(P, i, <<>>)
  BY DEF Informs
<1> QED BY <1>1, <1>2, NothingMade, Stays, ScreenParts DEF ScreenTypeOK

LEMMA SignInFailsKeeps ==
  ASSUME ScreenInv, NEW i \in DOMAIN calls, SignInFails(i) PROVE ScreenInv'
<1>1. session' \in Accounts
  BY ScreenParts, Settling DEF SignInFails, PageTypeOK, Closure, Accounts
<1>2. PageTypeOK' /\ Grows
  BY <1>1, ScreenParts DEF SignInFails, Client, PageTypeOK, Grows
<1>3. calls[i].kind \notin Lists /\ ~WillTell(calls[i])
  BY DEF SignInFails, Lists, Telling, WillTell
<1>4. Follows(Seeing(Rest(i)), i) /\ Heard(Seeing(Rest(i)), <<>>)
  BY <1>2, Settling DEF PageTypeOK, ServerTypeOK, Heard, SignInFails
<1> QED BY <1>1, <1>2, <1>3, <1>4, QuietlyKeeps DEF SignInFails, Client

LEMMA LogoutFailsKeeps ==
  ASSUME ScreenInv, NEW i \in DOMAIN calls, LogoutFails(i) PROVE ScreenInv'
<1>1. session' \in Accounts
  BY ScreenParts DEF LogoutFails, PageTypeOK, Accounts
<1>2. PageTypeOK' /\ Grows
  BY <1>1, ScreenParts DEF LogoutFails, Client, PageTypeOK, Grows
<1>3. calls[i].kind \notin Lists /\ ~WillTell(calls[i])
  BY DEF LogoutFails, Lists, Telling, WillTell
<1>4. Follows(Seeing(Rest(i)), i) /\ Heard(Seeing(Rest(i)), <<>>)
  BY <1>2, Settling DEF PageTypeOK, ServerTypeOK, Heard, LogoutFails
<1> QED BY <1>1, <1>2, <1>3, <1>4, QuietlyKeeps DEF LogoutFails, Client

LEMMA OpenedTypes ==
  ASSUME ScreenInv, NEW w \in Workspaces, Opened(w)
  PROVE  /\ members' \in [Users -> SUBSET Workspaces]
         /\ Invited \in members[Invitee] => Invited \in members'[Invitee]
BY ScreenParts, InvitedSomewhere DEF Opened, PageTypeOK, Accounts

LEMMA JoinedTypes ==
  ASSUME ScreenInv, session = Invitee, Joined(session), Invited # NULL
  PROVE  /\ members' \in [Users -> SUBSET Workspaces]
         /\ Invited \in members'[Invitee]
BY ScreenParts, InvitedSomewhere DEF Joined, PageTypeOK, Accounts

LEMMA CreateFailsKeeps ==
  ASSUME ScreenInv, NEW i \in DOMAIN calls, CreateFails(i) PROVE ScreenInv'
<1>1. calls[i].kind \notin Lists /\ (calls[i].kind = "create" => ~WillTell(calls[i]))
  BY DEF CreateFails, Lists, WillTell, Telling
<1>2. members' \in [Users -> SUBSET Workspaces] /\ Grows
  BY ScreenParts, OpenedTypes DEF CreateFails, Client, PageTypeOK, Grows
<1>3. stray' = stray \/ stray' = stray \cup {"identity"}
  BY DEF CreateFails
<1>4. PageTypeOK'
  BY <1>2, <1>3, ScreenParts DEF CreateFails, Client, PageTypeOK
<1>5. \/ ~WillTell(calls[i]) /\ UNCHANGED <<workspaces, members, stray>>
      \/ "identity" \in stray'
  BY <1>1 DEF CreateFails, Client
<1>6. stray \cap Lists \subseteq stray'
  BY <1>3
<1>7. Follows(Unheard(i), i) /\ Heard(Unheard(i), <<>>)
  BY <1>4, UnheardFollows DEF PageTypeOK, ServerTypeOK
<1> QED BY <1>1, <1>2, <1>4, <1>5, <1>6, <1>7, QuietlyKeeps DEF CreateFails, Client

\* An answer after which one more call is made.
LEMMA GoesOnAsking ==
  ASSUME ScreenInv, PageTypeOK', Grows, NEW i \in DOMAIN calls, calls[i].kind \notin Lists,
         UNCHANGED <<saved, at, lists, loading, stray>>,
         NEW what \in Telling, NEW c \in Closure, NEW h \in SUBSET Answers,
         CallOK([kind |-> what, c |-> c], members'),
         calls' = Append(Seeing(Rest(i)), Holding(what, c, h))
  PROVE  ScreenInv'
<1> DEFINE E == <<Holding(what, c, h)>>
           P == Seeing(Rest(i))
<1>1. what \in CallKinds \ Lists /\ what # "accept"
  BY DEF CallKinds, Lists, Telling
<1>2. Placed(E) /\ Has(E, Telling)
  BY <1>1, HoldingMade DEF PageTypeOK, ServerTypeOK
<1>3. Holding(what, c, h) \in CallSet
  BY <1>2 DEF Placed
<1>4. Follows(P, i)
  BY Settling DEF PageTypeOK, ServerTypeOK
<1> HIDE DEF P
<1>5. calls' = P \o E
  BY <1>3, <1>4, AppendIsConcat DEF Follows, P
<1> HIDE DEF E
<1>6. Informs(P, i, E)
  BY <1>2 DEF Informs, Heard
<1> QED BY <1>2, <1>4, <1>5, <1>6, Settling, ScreenParts, Stays DEF ScreenTypeOK

LEMMA AcceptedKeeps ==
  ASSUME ScreenInv, NEW i \in DOMAIN calls, Accepted(i) PROVE ScreenInv'
<1>1. calls[i].kind \notin Lists /\ "accepted" \in Telling
  BY DEF Accepted, Lists, Telling
<1>2. Invited # NULL
  BY Settling DEF Accepted, CallOK
<1>3. members' \in [Users -> SUBSET Workspaces] /\ Invited \in members'[Invitee]
  BY <1>2, JoinedTypes DEF Accepted
<1>4. PageTypeOK' /\ Grows
  BY <1>3, ScreenParts DEF Accepted, Client, PageTypeOK, Grows
<1>5. CallOK([kind |-> "accepted", c |-> calls[i].c], members')
  BY <1>2, <1>3 DEF CallOK
<1>6. calls' = Append(Seeing(Rest(i)), Holding("accepted", calls[i].c, calls[i].held))
  BY DEF Accepted, Holding
<1> QED BY <1>1, <1>4, <1>5, <1>6, Settling, GoesOnAsking DEF Accepted, Client

LEMMA CreatedKeeps ==
  ASSUME ScreenInv, NEW i \in DOMAIN calls, Created(i) PROVE ScreenInv'
<1>1. calls[i].kind \notin Lists /\ "created" \in Telling
  BY DEF Created, Lists, Telling
<1>2. PICK w \in Workspaces :
        Opened(w) /\ calls' = Append(Seeing(Rest(i)), Request("created", [at EXCEPT !.active = w]))
  BY DEF Created
<1> DEFINE c == [at EXCEPT !.active = w]
<1>3. c \in Closure /\ c.active = w
  BY ScreenParts DEF Closure, Accounts
<1> HIDE DEF c
<1>4. PageTypeOK' /\ Grows
  BY <1>2, OpenedTypes, ScreenParts DEF Created, Client, PageTypeOK, Grows
<1>5. CallOK([kind |-> "created", c |-> c], members')
  BY <1>3, NullIsNobody DEF CallOK
<1>6. calls' = Append(Seeing(Rest(i)), Holding("created", c, {}))
  BY <1>2, NothingHeld DEF c
<1>7. UNCHANGED <<saved, at, lists, loading, stray>>
  BY DEF Created, Client
<1>8. {} \in SUBSET Answers
  OBVIOUS
<1> QED BY <1>1, <1>3, <1>4, <1>5, <1>6, <1>7, <1>8, GoesOnAsking

\* A change that was made loads the lists it concerns, with the callbacks of
\* the render it began in.
LEMMA AgainMade ==
  ASSUME ScreenInv, saved' \in Nat, at' = at, NEW x \in CallSet,
         x.kind \in DOMAIN Reloads
  PROVE  /\ Placed(Again(x))
         /\ "tasks" \in Reloads[x.kind] /\ Wanted("tasks", x.c) => Has(Again(x), {"tasks"})
<1> DEFINE load(l) == IF l \in Reloads[x.kind] THEN Load(l, x.c, at) ELSE <<>>
<1>1. x.c \in Closure /\ at' \in Closure
  BY ScreenParts DEF CallSet, ScreenTypeOK
<1>2. ASSUME NEW l \in Lists
      PROVE  Placed(load(l)) /\ (l \in Reloads[x.kind] /\ Wanted(l, x.c) => Has(load(l), {l}))
  <2>1. Placed(Load(l, x.c, at')) /\ (Wanted(l, x.c) => Has(Load(l, x.c, at'), {l}))
    BY <1>1, LoadMade
  <2>2. Load(l, x.c, at') = Load(l, x.c, at)
    OBVIOUS
  <2> QED BY <2>1, <2>2, NothingMade
<1>3. Again(x) = load("tasks") \o load("lookups")
  BY DEF Again
<1> HIDE DEF load
<1>4. "tasks" \in Lists /\ "lookups" \in Lists
  BY DEF Lists
<1>5. /\ Placed(load("tasks") \o load("lookups"))
      /\ \A kinds : Has(load("tasks"), kinds) \/ Has(load("lookups"), kinds)
                      => Has(load("tasks") \o load("lookups"), kinds)
  BY <1>2, <1>4, BothMade
<1> QED BY <1>2, <1>3, <1>4, <1>5

LEMMA ChangeSavedKeeps ==
  ASSUME ScreenInv, NEW i \in DOMAIN calls, ChangeSaved(i) PROVE ScreenInv'
<1> DEFINE x == calls[i]
           E == Again(x)
<1>1. x.kind \in {"save", "edit", "names"}
  BY DEF ChangeSaved, Reloads
<1>2. x.kind \notin Lists /\ ~WillTell(x)
  BY <1>1 DEF Lists, Telling, WillTell
<1>3. saved' \in Nat /\ (x.kind = "names" => saved' = saved)
  BY ScreenParts DEF ChangeSaved, PageTypeOK
<1>4. Placed(E) /\ ("tasks" \in Reloads[x.kind] /\ Wanted("tasks", x.c) => Has(E, {"tasks"}))
  BY <1>3, ScreenParts, Settling, AgainMade DEF ChangeSaved, PageTypeOK
<1>5. x.kind # "names" => Has(E, {"tasks"})
  BY <1>1, <1>4, Settling DEF CallOK, Reloads
<1> HIDE DEF E
<1>6. calls' = Rest(i) \o E
  BY DEF ChangeSaved, E
<1>7. ASSUME NEW l \in Lists PROVE Cared(l, Rest(i), E)
  <2>1. at' = at /\ stray' = stray /\ lists' = lists
    BY DEF ChangeSaved
  <2>2. CASE x.kind # "names" /\ l = "tasks"
    BY <1>5, <2>1, <2>2 DEF Cared
  <2>3. CASE ~(x.kind # "names" /\ l = "tasks")
    BY <1>3, <2>1, <2>3 DEF Cared, Same
  <2> QED BY <2>2, <2>3
<1>8. Goes(Rest(i), i, E)
  BY <1>2, <1>4, <1>6, <1>7, Settling DEF Goes, Leaves
<1>9. Informs(Rest(i), i, E)
  BY <1>2 DEF Informs, Heard, ChangeSaved
<1>10. PageTypeOK' /\ Grows
  BY <1>3, ScreenParts DEF ChangeSaved, PageTypeOK, Grows
<1>11. loading' \in BOOLEAN
  BY DEF ChangeSaved, Loads
<1> QED BY <1>8, <1>9, <1>10, <1>11, ScreenParts, Stepped DEF ChangeSaved, ScreenTypeOK

\* A lost answer spoils the loads of tasks under way, and nothing else of a call.
Spoilt(R) ==
  [j \in DOMAIN R |-> IF R[j].kind = "tasks" THEN [R[j] EXCEPT !.good = FALSE] ELSE R[j]]
LEMMA SpoiltFollows ==
  ASSUME NEW R, NEW i, Follows(R, i)
  PROVE  /\ Follows(Spoilt(R), i)
         /\ \A j \in 1 .. Len(Spoilt(R)) : Spoilt(R)[j].kind = "tasks" => ~Spoilt(R)[j].good
<1> DEFINE P == Spoilt(R)
<1>1. /\ R \in Seq(CallSet) /\ Len(R) \in Nat /\ DOMAIN R = 1 .. Len(R)
      /\ \A j \in 1 .. Len(R) : R[j] \in CallSet
  BY LenProperties, ElementOfSeq DEF Follows
<1>2. \A j \in 1 .. Len(R) : /\ P[j] = IF R[j].kind = "tasks" THEN [R[j] EXCEPT !.good = FALSE] ELSE R[j]
                             /\ P[j] \in CallSet
  BY <1>1 DEF CallSet, Spoilt
<1>3. P \in Seq(CallSet) /\ Len(P) = Len(R)
  <2>1. P \in [1 .. Len(R) -> CallSet]
    BY <1>1, <1>2 DEF Spoilt
  <2> HIDE DEF P
  <2> QED BY <1>1, <2>1
<1> HIDE DEF P
<1>4. ASSUME NEW j \in 1 .. Len(R)
      PROVE  /\ Continues(P[j], R[j])
             /\ R[j].kind \in Lists => P[j].late = R[j].late
             /\ P[j].kind = "tasks" => ~P[j].good
  <2>1. R[j] \in CallSet
    BY <1>1
  <2>2. CASE R[j].kind = "tasks"
    <3>1. P[j] = [R[j] EXCEPT !.good = FALSE]
      BY <1>2, <2>2
    <3> QED BY <2>1, <2>2, <3>1 DEF CallSet, Continues, Offers
  <2>3. CASE R[j].kind # "tasks"
    BY <1>2, <2>3 DEF Continues
  <2> QED BY <2>2, <2>3
<1>5. Follows(P, i)
  BY <1>3, <1>4, FollowsOn
<1> QED BY <1>3, <1>4, <1>5 DEF P

\* A lost answer: the list of tasks is known to be behind, and so is every load
\* of it that is under way.
LEMMA ChangeFailsKeeps ==
  ASSUME ScreenInv, NEW i \in DOMAIN calls, ChangeFails(i) PROVE ScreenInv'
<1> DEFINE R == Rest(i)
           P == Spoilt(R)
<1>1. calls[i].kind \in {"save", "edit", "names"}
  BY DEF ChangeFails, Reloads
<1>2. calls[i].kind \notin Lists /\ ~WillTell(calls[i])
  BY <1>1 DEF Lists, Telling, WillTell
<1>3. CASE UNCHANGED <<saved, stray>> /\ calls' = R
  <2>1. PageTypeOK' /\ Grows
    BY <1>3, ScreenParts DEF ChangeFails, Client, PageTypeOK, Grows
  <2> HIDE DEF R
  <2>2. Follows(R, i)
    BY Settling DEF R
  <2>3. Heard(R, <<>>)
    BY DEF Heard, ChangeFails
  <2> QED BY <1>2, <1>3, <2>1, <2>2, <2>3, QuietlyKeeps DEF ChangeFails, Client
<1>4. CASE saved' = saved + 1 /\ stray' = stray \cup {"tasks"} /\ calls' = P
  <2> HIDE DEF R
  <2>1. Follows(R, i)
    BY Settling DEF R
  <2>2. Follows(P, i) /\ \A j \in 1 .. Len(P) : P[j].kind = "tasks" => ~P[j].good
    BY <2>1, SpoiltFollows
  <2> HIDE DEF P
  <2>3. calls' = P \o <<>>
    BY <1>4, <2>2, ConcatEmptySeq DEF Follows
  <2>4. ASSUME NEW l \in Lists PROVE Cared(l, P, <<>>)
    <3>1. at' = at /\ lists' = lists
      BY DEF ChangeFails, Client
    <3>2. CASE l = "tasks"
      BY <1>4, <2>2, <3>2 DEF Cared
    <3>3. CASE l # "tasks"
      BY <1>4, <3>1, <3>3 DEF Cared, Same
    <3> QED BY <3>2, <3>3
  <2>5. Goes(P, i, <<>>)
    BY <1>2, <2>2, <2>3, <2>4, NothingMade DEF Goes, Leaves
  <2>6. Informs(P, i, <<>>)
    BY <1>2, <1>4 DEF Informs, Heard, ChangeFails, Client
  <2>7. PageTypeOK' /\ Grows
    BY <1>4, ScreenParts DEF ChangeFails, Client, PageTypeOK, Grows, Lists
  <2> QED BY <2>5, <2>6, <2>7, ScreenParts, Stepped DEF ChangeFails, Client, ScreenTypeOK
<1> QED BY <1>3, <1>4 DEF ChangeFails, Spoilt

\* The part of the page's type that applyAuthResult leaves to its callers.
AroundTypeOK ==
  /\ session \in Accounts
  /\ members \in [Users -> SUBSET Workspaces]
  /\ checked \in BOOLEAN
  /\ before \in PageViews
  /\ invite \in [up : BOOLEAN, error : BOOLEAN, accepting : BOOLEAN]
  /\ stray \subseteq Lists \cup {"identity"}
  /\ clicks \in Nat

LEMMA ApplyAuthKeeps ==
  ASSUME ScreenInv, AroundTypeOK', saved' = saved, Grows, stray \cap Lists \subseteq stray',
         NEW i \in DOMAIN calls, calls[i].kind \notin Lists, NEW P, Follows(P, i), Heard(P, <<>>),
         NEW a \in Answers, ApplyAuth(a, P),
         \/ a.user # NULL => a.workspaces = members'[a.user]
         \/ \E j \in 1 .. Len(P) : WillTell(P[j])
         \/ "identity" \in stray'
  PROVE  ScreenInv'
<1> DEFINE u == a.user
           ws == a.workspaces
<1>0. u \in Accounts /\ ws \in SUBSET Workspaces
  BY DEF Answers
<1>1. PICK w \in Openable(ws) :
        LET now == Switched([at EXCEPT !.user = u], w) IN
        /\ workspaces' = ws
        /\ Keep(w)
        /\ searching' = IF w = NULL THEN NULL ELSE searching
        /\ Render(now, {"user", "view"} \cup Changed(now), P)
  BY DEF ApplyAuth
<1> DEFINE now == Switched([at EXCEPT !.user = u], w)
<1>2. w \in Places /\ (w = NULL <=> ws = {})
  BY <1>0, NullIsNobody DEF Openable, Places
<1>3. [at EXCEPT !.user = u] \in Closure
      /\ [at EXCEPT !.user = u].filter = at.filter /\ [at EXCEPT !.user = u].user = u
  BY <1>0, ScreenParts DEF Closure, Places, Accounts
<1>4. now \in Closure /\ now.user = u /\ now.active = w /\ now.filter = at.filter
  BY <1>2, <1>3, SwitchedTo
<1> HIDE DEF now
<1>5. workspaces' = ws /\ Keep(w) /\ searching' \in {NULL, searching}
      /\ Render(now, {"user", "view"} \cup Changed(now), P)
  BY <1>1 DEF now
<1>6. PageTypeOK'
  BY <1>0, <1>2, <1>5, ScreenParts DEF AroundTypeOK, PageTypeOK, Keep
<1>7. at' = now
  BY <1>5 DEF Render
<1>8. Informs(P, i, <<>>)
  BY <1>2, <1>4, <1>5, <1>7 DEF Informs
<1>9. now.active # at.active => "active" \in {"user", "view"} \cup Changed(now)
  BY DEF Changed
<1> DEFINE changed == {"user", "view"} \cup Changed(now)
<1>10. "user" \in changed /\ "view" \in changed /\ (now.active # at.active => "active" \in changed)
  BY <1>9
<1>11. Render(now, changed, P)
  BY <1>5
<1> HIDE DEF changed
<1> QED BY <1>4, <1>6, <1>8, <1>10, <1>11, Settling, RendersPlainly

\* An answer that is shown: known to be overtaken, or as AnswerTold has it.
LEMMA NotedKeeps ==
  ASSUME ScreenInv, AroundTypeOK', UNCHANGED <<saved, members>>, Grows,
         NEW i \in DOMAIN calls, calls[i].kind \in Identity, NEW P, Follows(P, i),
         NEW a \in Offers(calls[i]), ApplyAuth(a, P),
         \/ stray' = Noted(calls[i])
         \/ ~calls[i].late /\ stray' = stray
         \/ "identity" \in stray' /\ stray \subseteq stray'
  PROVE  ScreenInv'
<1>1. calls[i].kind \notin Lists
  BY DEF Identity, Lists
<1>2. a \in Answers
  BY Settling DEF Offers
<1>3. stray \cap Lists \subseteq stray'
  BY DEF Noted, Lists
<1>4. Heard(P, <<>>)
  BY DEF Heard
<1>5. "identity" \in stray' \/ ~calls[i].late
  BY DEF Noted
<1>6. \/ a.user # NULL => a.workspaces = members'[a.user]
      \/ \E j \in 1 .. Len(P) : WillTell(P[j])
      \/ "identity" \in stray'
  BY <1>5, ScreenParts, AnswerTold
<1> QED BY <1>1, <1>2, <1>3, <1>4, <1>6, ApplyAuthKeeps

LEMMA BootKeeps ==
  ASSUME ScreenInv, NEW i \in DOMAIN calls, Boot(i) PROVE ScreenInv'
<1>1. calls[i].kind \notin Lists /\ ~WillTell(calls[i]) /\ calls[i].kind \in Identity
  BY DEF Boot, Lists, Telling, WillTell, Identity
<1>2. Grows /\ UNCHANGED <<saved, members>>
  BY DEF Boot, Grows, Server
<1>3. CASE \E a \in Signed(calls[i]) : ApplyAuth(a, Rest(i)) /\ stray' = Noted(calls[i])
  <2>1. PICK a \in Signed(calls[i]) : ApplyAuth(a, Rest(i)) /\ stray' = Noted(calls[i])
    BY <1>3
  <2>2. a \in Offers(calls[i])
    BY DEF Signed, Offers, Boot
  <2>3. AroundTypeOK'
    BY <2>1, ScreenParts DEF Boot, Server, PageTypeOK, AroundTypeOK, Noted
  <2> QED BY <1>1, <1>2, <2>1, <2>2, <2>3, Settling, NotedKeeps
<1>4. CASE UNCHANGED <<at, workspaces, kept, searching, lists, loading, stray>> /\ calls' = Rest(i)
  <2>1. PageTypeOK'
    BY <1>4, ScreenParts DEF Boot, Server, PageTypeOK
  <2>2. Heard(Rest(i), <<>>)
    BY <1>2 DEF Heard
  <2> QED BY <1>1, <1>2, <1>4, <2>1, <2>2, Settling, QuietlyKeeps
<1> QED BY <1>3, <1>4 DEF Boot

\* Somebody signs in on the page of the invitation: the call goes on as the one
\* that accepts.
Accepting(i, a) ==
  [Overtaken(i) EXCEPT
     ![i] = [Request("accept", calls[i].c) EXCEPT !.late = calls[i].late, !.held = {a}]]
LEMMA AcceptingFollows ==
  ASSUME ScreenInv, ServerTypeOK', saved' \in Nat, NEW i \in DOMAIN calls, calls[i].kind = "join",
         NEW a \in calls[i].sees
  PROVE  /\ Follows(Seeing(Accepting(i, a)), Len(calls) + 1)
         /\ \E j \in 1 .. Len(Seeing(Accepting(i, a))) :
              Seeing(Accepting(i, a))[j].kind = "accept" /\ WillTell(Seeing(Accepting(i, a))[j])
<1> DEFINE n == Len(calls)
           O == Overtaken(i)
           y == [Request("accept", calls[i].c) EXCEPT !.late = calls[i].late, !.held = {a}]
           Q == Accepting(i, a)
<1>1. /\ n \in Nat /\ DOMAIN calls = 1 .. n /\ i \in 1 .. n /\ calls[i] \in CallSet
      /\ calls[i].c \in Closure /\ calls[i].sees \subseteq Answers
  BY ScreenParts, CallsAre, Settling
<1>2. /\ O \in Seq(CallSet) /\ Len(O) = n /\ DOMAIN O = 1 .. n
      /\ \A j \in 1 .. n :
           /\ Continues(O[j], calls[j])
           /\ O[j].late <=> calls[j].late \/ (j < i /\ Rivals(calls[j].kind, "join"))
  BY OvertakenAre, ScreenParts, LenProperties
<1>3. /\ y \in CallSet /\ y.kind = "accept" /\ y.c = calls[i].c /\ y.late = calls[i].late
      /\ y.held = {a}
  <2> DEFINE x == Request("accept", calls[i].c)
  <2>1. x = [kind |-> "accept", c |-> calls[i].c, asks |-> <<>>, since |-> saved', sees |-> {},
             good |-> TRUE, late |-> FALSE, held |-> {}]
    <3>1. Seen("accept", calls[i].c) = {}
      BY DEF Seen, Tells
    <3> QED BY <3>1, RequestIs
  <2>2. <<>> \in Questions /\ "accept" \in CallKinds /\ calls[i].late \in BOOLEAN /\ a \in Answers
    BY <1>1 DEF Questions, CallKinds, CallSet
  <2> HIDE DEF x
  <2>3. x \in CallSet /\ x.kind = "accept" /\ x.c = calls[i].c
    BY <1>1, <2>1, <2>2 DEF CallSet
  <2> QED BY <2>2, <2>3 DEF CallSet, x
<1>4. Continues(y, calls[i])
  BY <1>3 DEF Continues, Offers, Lists
<1> HIDE DEF O, y
<1>5. Q = [O EXCEPT ![i] = y]
  BY DEF Accepting, O, y
<1>6. /\ Q \in Seq(CallSet) /\ Len(Q) = n
      /\ \A j \in 1 .. n : Q[j] = IF j = i THEN y ELSE O[j]
  <2>1. O \in [1 .. n -> CallSet]
    BY <1>2, ElementOfSeq
  <2>2. Q \in [1 .. n -> CallSet]
    BY <1>3, <1>5, <2>1
  <2>3. \A j \in 1 .. n : Q[j] = IF j = i THEN y ELSE O[j]
    BY <1>5, <2>1
  <2> HIDE DEF Q
  <2> QED BY <1>1, <2>2, <2>3
<1> HIDE DEF Q
<1>7. ASSUME NEW j \in 1 .. n
      PROVE  /\ Continues(Q[j], calls[j])
             /\ calls[j].kind \in Lists => (Q[j].late <=> calls[j].late)
  <2>1. CASE j = i
    BY <1>1, <1>4, <1>6, <2>1 DEF Lists
  <2>2. CASE j # i
    <3>1. Q[j] = O[j]
      BY <1>6, <2>2
    <3>2. calls[j].kind \in Lists => ~Rivals(calls[j].kind, "join")
      BY DEF Rivals, Lists, Identity
    <3>3. /\ Continues(O[j], calls[j])
          /\ O[j].late <=> calls[j].late \/ (j < i /\ Rivals(calls[j].kind, "join"))
      BY <1>2
    <3> QED BY Zenon, <3>1, <3>2, <3>3
  <2> QED BY <2>1, <2>2
<1>8. Follows(Q, n + 1)
  <2>1. /\ n + 1 \in 1 .. n + 1 /\ ~(n + 1 <= n)
        /\ \A j \in 1 .. n : Place(n + 1, j) = j /\ ~Ahead(n + 1, j)
    BY <1>1 DEF Place, Ahead
  <2> QED BY <1>6, <1>7, <2>1 DEF Follows
<1>9. Follows(Seeing(Q), n + 1)
  BY <1>8, SeeingFollows
<1>10. Len(Seeing(Q)) = n /\ Continues(Seeing(Q)[i], y) /\ Seeing(Q)[i].kind = "accept"
  BY <1>1, <1>3, <1>6, SeeingAre
<1>11. WillTell(Seeing(Q)[i])
  BY <1>3, <1>10 DEF WillTell, Continues
<1> QED BY <1>1, <1>9, <1>10, <1>11 DEF Q

LEMMA SignedInKeeps ==
  ASSUME ScreenInv, NEW i \in DOMAIN calls, SignedIn(i) PROVE ScreenInv'
<1> DEFINE c == calls[i]
           u == c.c.user
<1>1. /\ c.kind \in {"login", "join"} /\ c.kind \notin Lists /\ c.kind \in Identity
      /\ c.c \in Closure /\ c.sees \subseteq Answers
  BY Settling DEF SignedIn, Lists, Identity
<1>2. u \in Users
  BY <1>1, Settling DEF SignedIn, CallOK, Closure
<1>3. session' \in Accounts /\ stray' = Noted(c) /\ members' = members /\ saved' = saved
  BY <1>2 DEF SignedIn, Accounts
<1>4. ServerTypeOK' /\ saved' \in Nat
  BY <1>3, ScreenParts DEF PageTypeOK, ServerTypeOK
<1>5. PICK a \in c.sees :
       IF c.kind = "join"
       THEN /\ invite' = [invite EXCEPT !.accepting = TRUE]
            /\ UNCHANGED <<workspaces, kept, searching>>
            /\ Render([at EXCEPT !.user = u], {"user"}, Seeing(Accepting(i, a)))
       ELSE invite' = invite /\ ApplyAuth(a, Seeing(Rest(i)))
  BY DEF SignedIn, Accepting
<1> HIDE DEF c
<1>6. invite' \in [up : BOOLEAN, error : BOOLEAN, accepting : BOOLEAN] /\ invite'.up = invite.up
  BY <1>5, ScreenParts DEF PageTypeOK
<1>7. Grows /\ stray \cap Lists \subseteq stray'
  BY <1>3, <1>6 DEF Grows, Noted, Lists
<1>8. AroundTypeOK'
  BY <1>3, <1>6, ScreenParts DEF SignedIn, PageTypeOK, AroundTypeOK, Noted
<1>9. CASE c.kind = "join"
  <2> DEFINE now == [at EXCEPT !.user = u]
             P == Seeing(Accepting(i, a))
  <2>1. now \in Closure /\ now.active = at.active /\ now.view = at.view /\ now.filter = at.filter
    BY <1>2, ScreenParts DEF Closure, Places
  <2>2. PageTypeOK'
    BY <1>5, <1>8, <1>9, <1>3, ScreenParts DEF PageTypeOK, AroundTypeOK
  <2>3. Follows(P, Len(calls) + 1) /\ \E j \in 1 .. Len(P) : WillTell(P[j])
    BY <1>4, <1>9, AcceptingFollows DEF c
  <2>4. Render(now, {"user"}, P)
    BY <1>5, <1>9
  <2> HIDE DEF P, now
  <2>5. Informs(P, Len(calls) + 1, <<>>)
    BY <1>3, <2>3 DEF Informs, Heard
  <2>6. "user" \in {"user"} /\ ~(Len(calls) + 1 <= Len(calls))
    BY ScreenParts
  <2> QED BY <1>3, <1>7, <2>1, <2>2, <2>3, <2>4, <2>5, <2>6, RendersPlainly
<1>10. CASE c.kind # "join"
  <2>1. ApplyAuth(a, Seeing(Rest(i))) /\ a \in Offers(c)
    BY <1>1, <1>5, <1>10 DEF Offers
  <2> QED BY <1>1, <1>3, <1>4, <1>7, <1>8, <2>1, Settling, NotedKeeps DEF c
<1> QED BY <1>9, <1>10

LEMMA AskedAgainKeeps ==
  ASSUME ScreenInv, NEW i \in DOMAIN calls, AskedAgain(i) PROVE ScreenInv'
<1>1. calls[i].kind = "accepted" /\ calls[i].kind \in Identity
  BY DEF AskedAgain, Identity
<1>2. PICK a \in Signed(calls[i]) : ApplyAuth(a, Rest(i))
  BY DEF AskedAgain
<1>3. a \in Offers(calls[i])
  BY <1>1 DEF Signed, Offers
<1>4. UNCHANGED <<saved, members>> /\ stray' = Noted(calls[i])
  BY DEF AskedAgain, Server
<1>5. Grows
  BY <1>4 DEF AskedAgain, Grows
<1>6. AroundTypeOK'
  BY ScreenParts DEF AskedAgain, Server, PageTypeOK, AroundTypeOK, Noted
<1> QED BY <1>1, <1>2, <1>3, <1>4, <1>5, <1>6, Settling, NotedKeeps

LEMMA AcceptFailsKeeps ==
  ASSUME ScreenInv, NEW i \in DOMAIN calls, AcceptFails(i) PROVE ScreenInv'
<1> DEFINE c == calls[i]
           P == Unheard(i)
<1>1. /\ c.kind \in {"accept", "accepted"} /\ c.kind \notin Lists /\ c.kind \in Identity
      /\ Invited # NULL /\ c.held \subseteq Answers
  BY Settling DEF AcceptFails, Lists, Identity, CallOK
<1>2. members' \in [Users -> SUBSET Workspaces]
      /\ (Invited \in members[Invitee] => Invited \in members'[Invitee])
  BY <1>1, JoinedTypes, ScreenParts DEF AcceptFails, PageTypeOK
<1>3. invite' \in [up : BOOLEAN, error : BOOLEAN, accepting : BOOLEAN] /\ invite'.up = invite.up
  BY ScreenParts DEF AcceptFails, PageTypeOK, Refused
<1>4. /\ Grows /\ stray \subseteq stray' /\ stray' \in {stray, stray \cup {"identity"}}
      /\ c.kind = "accepted" \/ members' # members \/ (c.late /\ c.held # {}) => "identity" \in stray'
      /\ c.kind = "accept" /\ members' = members /\ ~(c.late /\ c.held # {}) => stray' = stray
  BY <1>2, <1>3 DEF Grows, AcceptFails
<1>5. AroundTypeOK'
  BY <1>2, <1>3, <1>4, ScreenParts DEF AcceptFails, PageTypeOK, AroundTypeOK
<1>6. Follows(P, i) /\ Heard(P, <<>>)
  BY <1>5, UnheardFollows DEF AroundTypeOK, ServerTypeOK
<1>7. saved' = saved
  BY DEF AcceptFails
<1> HIDE DEF P
<1>8. CASE \E a \in c.held : ApplyAuth(a, P)
  <2>1. PICK a \in c.held : ApplyAuth(a, P)
    BY <1>8
  <2>2. a \in Answers /\ c.held # {}
    BY <1>1, <2>1
  <2>3. CASE "identity" \in stray'
    <3>1. stray \cap Lists \subseteq stray'
      BY <1>4
    <3> QED BY <1>1, <1>4, <1>5, <1>6, <1>7, <2>1, <2>2, <2>3, <3>1, ApplyAuthKeeps
  <2>4. CASE "identity" \notin stray'
    <3>1. c.kind = "accept" /\ members' = members /\ ~c.late /\ stray' = stray
      BY <1>1, <1>4, <2>2, <2>4
    <3>2. a \in Offers(c)
      BY <2>1, <3>1 DEF Offers
    <3> QED BY <1>1, <1>4, <1>5, <1>6, <1>7, <2>1, <3>1, <3>2, NotedKeeps
  <2> QED BY <2>3, <2>4
<1>9. CASE /\ c.held = {} /\ calls' = P
           /\ UNCHANGED <<at, workspaces, kept, searching, lists, loading>>
  <2>1. PageTypeOK'
    BY <1>5, <1>7, <1>9, ScreenParts DEF PageTypeOK, AroundTypeOK
  <2>2. \/ ~WillTell(c) /\ UNCHANGED <<workspaces, members, stray>>
        \/ "identity" \in stray'
    BY <1>1, <1>4, <1>9 DEF WillTell, Telling
  <2>3. stray \cap Lists \subseteq stray'
    BY <1>4
  <2> QED BY <1>1, <1>4, <1>6, <1>7, <1>9, <2>1, <2>2, <2>3, QuietlyKeeps
<1> QED BY <1>8, <1>9 DEF AcceptFails, P

LEMMA RefreshedKeeps ==
  ASSUME ScreenInv, NEW i \in DOMAIN calls, Refreshed(i) PROVE ScreenInv'
<1>1. calls[i].kind \notin Lists /\ ~WillTell(calls[i])
  BY DEF Refreshed, Lists, Telling, WillTell
<1>2. Grows /\ members' = members /\ Heard(Rest(i), <<>>)
  BY DEF Refreshed, Grows, Server, Heard
<1>3. CASE \E a \in Signed(calls[i]) :
             /\ Render([at EXCEPT !.user = a.user], {"user"}, Rest(i))
             /\ stray' = IF a.user = at.user THEN stray ELSE stray \cup {"identity"}
  <2>1. PICK a \in Signed(calls[i]) :
             /\ Render([at EXCEPT !.user = a.user], {"user"}, Rest(i))
             /\ stray' = IF a.user = at.user THEN stray ELSE stray \cup {"identity"}
    BY <1>3
  <2> DEFINE u == a.user
             now == [at EXCEPT !.user = u]
  <2>2. u \in Users
    BY Settling DEF Signed, Answers, Accounts
  <2>3. now \in Closure /\ now.user = u /\ now.active = at.active /\ now.view = at.view
        /\ now.filter = at.filter
    BY <2>2, ScreenParts DEF Closure, Places
  <2>4. Render(now, {"user"}, Rest(i)) /\ at' = now
        /\ stray' = IF u = at.user THEN stray ELSE stray \cup {"identity"}
    BY <2>1 DEF Render
  <2> HIDE DEF now, u
  <2>5. PageTypeOK'
    BY <2>4, ScreenParts DEF Refreshed, Server, PageTypeOK
  <2>6. Informs(Rest(i), i, <<>>)
    BY <1>1, <1>2, <2>3, <2>4 DEF Informs, Refreshed, Server
  <2>7. stray \cap Lists \subseteq stray' /\ saved' = saved
    BY <2>4 DEF Refreshed, Server
  <2>8. "user" \in {"user"}
    OBVIOUS
  <2> QED BY <1>1, <1>2, <2>3, <2>4, <2>5, <2>6, <2>7, <2>8, Settling, RendersPlainly
<1>4. CASE UNCHANGED <<at, lists, loading, stray>> /\ calls' = Rest(i)
  <2>1. PageTypeOK'
    BY <1>4, ScreenParts DEF Refreshed, Server, PageTypeOK
  <2> QED BY <1>1, <1>2, <1>4, <2>1, Settling, QuietlyKeeps DEF Refreshed, Server
<1> QED BY <1>3, <1>4 DEF Refreshed

LEMMA LoggedOutKeeps ==
  ASSUME ScreenInv, NEW i \in DOMAIN calls, LoggedOut(i) PROVE ScreenInv'
<1> DEFINE now == Switched([at EXCEPT !.user = NULL], NULL)
           changed == {"user", "view"} \cup Changed(now)
           P == Seeing(Rest(i))
<1>1. calls[i].kind \notin Lists
  BY DEF LoggedOut, Lists
<1>2. [at EXCEPT !.user = NULL] \in Closure /\ [at EXCEPT !.user = NULL].user = NULL
      /\ [at EXCEPT !.user = NULL].filter = at.filter
  BY ScreenParts DEF Closure, Places
<1>3. now \in Closure /\ now.user = NULL /\ now.filter = at.filter
  BY <1>2, SwitchedTo DEF Places
<1>4. "user" \in changed /\ "view" \in changed /\ (now.active # at.active => "active" \in changed)
  BY DEF Changed
<1>5. Render(now, changed, P)
  BY DEF LoggedOut
<1>6. PageTypeOK' /\ Grows
  BY ScreenParts DEF LoggedOut, PageTypeOK, Grows, Accounts
<1>7. Follows(P, i) /\ Heard(P, <<>>)
  BY <1>6, Settling DEF PageTypeOK, ServerTypeOK, Heard, LoggedOut
<1> HIDE DEF now, changed, P
<1>8. Informs(P, i, <<>>)
  BY <1>3, <1>5, <1>7 DEF Informs, Render
<1> QED BY <1>1, <1>3, <1>4, <1>5, <1>6, <1>7, <1>8, Settling, RendersPlainly DEF LoggedOut

LEMMA OpenCreatedKeeps ==
  ASSUME ScreenInv, NEW i \in DOMAIN calls, OpenCreated(i) PROVE ScreenInv'
<1> DEFINE w == calls[i].c.active
           now == Switched(at, w)
           changed == {"view"} \cup Changed(now)
<1>1. calls[i].kind \notin Lists
  BY DEF OpenCreated, Lists
<1>2. w \in Workspaces
  BY Settling DEF OpenCreated, CallOK, Closure
<1>3. now \in Closure /\ now.user = at.user /\ now.active = w /\ now.filter = at.filter
  BY <1>2, SwitchedTo, ScreenParts DEF ScreenTypeOK, Places
<1>4. "view" \in changed /\ (now.active # at.active => "active" \in changed)
  BY DEF Changed
<1>5. Render(now, changed, Rest(i)) /\ Keep(w)
  BY DEF OpenCreated
<1>6. PICK a \in Signed(calls[i]) :
       /\ workspaces' = a.workspaces
       /\ stray' = IF a.user = at.user /\ w \in a.workspaces THEN Noted(calls[i])
                   ELSE stray \cup {"identity"}
  BY DEF OpenCreated
<1>7. a \in Answers /\ a.user # NULL /\ a \in Offers(calls[i]) /\ calls[i].kind \in Identity
      /\ UNCHANGED <<saved, members>>
  BY Settling DEF Signed, Offers, OpenCreated, Identity, Server
<1> HIDE DEF now, changed, w
<1>8. PageTypeOK' /\ Grows
  BY <1>2, <1>5, <1>6, <1>7, ScreenParts
     DEF OpenCreated, Server, Keep, PageTypeOK, Grows, Places, Answers, Noted
<1>9. at' = now
  BY <1>5 DEF Render
<1>10. Informs(Rest(i), i, <<>>)
  <2>1. CASE a.user = at.user /\ w \in a.workspaces /\ ~calls[i].late
    <3>1. a.workspaces = members'[a.user] \/ \E j \in 1 .. Len(Rest(i)) : WillTell(Rest(i)[j])
      BY <1>7, <2>1, Settling, ScreenParts, AnswerTold
    <3>2. (at'.active = NULL) <=> (workspaces' = {})
      BY <1>2, <1>3, <1>6, <1>9, <2>1, NullIsNobody
    <3> QED BY <1>3, <1>6, <1>7, <1>9, <2>1, <3>1, <3>2 DEF Informs, Heard
  <2>2. CASE ~(a.user = at.user /\ w \in a.workspaces /\ ~calls[i].late)
    <3>1. "identity" \in stray'
      BY <1>6, <2>2 DEF Noted
    <3> QED BY <1>7, <3>1 DEF Informs, Heard
  <2> QED BY <2>1, <2>2
<1>11. stray \cap Lists \subseteq stray' /\ saved' = saved
  BY <1>6, <1>7 DEF Noted, Lists
<1> QED BY <1>1, <1>3, <1>4, <1>5, <1>8, <1>10, <1>11, Settling, RendersPlainly

------------------------------------------------------------------------------
(* The screen: answers to the calls for lists.                               *)

\* Of the calls for a list, those made before one that settles for it are
\* overtaken; the others are as they were.
LEMMA ListsOvertaken ==
  ASSUME ScreenTypeOK, NEW i \in DOMAIN calls, calls' = Rest(i)
  PROVE  /\ Len(calls) \in Nat /\ DOMAIN calls = 1 .. Len(calls) /\ i \in 1 .. Len(calls)
         /\ DOMAIN calls' = 1 .. Len(calls) - 1
         /\ \A j \in DOMAIN calls' :
              LET x == calls[Place(i, j)] IN
              /\ Place(i, j) \in 1 .. Len(calls) /\ Place(i, j) # i
              /\ \A l \in Lists : calls'[j].kind = l <=> x.kind = l
              /\ x.kind \in Lists =>
                   /\ calls'[j].asks = x.asks /\ calls'[j].since = x.since
                   /\ calls'[j].good => x.good
                   /\ calls'[j].late <=> x.late \/ (Place(i, j) < i /\ x.kind = calls[i].kind)
         /\ \A j \in 1 .. Len(calls) : j # i => \E k \in DOMAIN calls' : Place(i, k) = j
<1>1. Len(calls) \in Nat /\ DOMAIN calls = 1 .. Len(calls) /\ i \in 1 .. Len(calls) /\ i <= Len(calls)
  BY CallsAre
<1>2. Follows(Rest(i), i)
  BY RestFollows
<1>3. Len(Rest(i)) = Len(calls) - 1 /\ Rest(i) \in Seq(CallSet)
  BY <1>1, <1>2 DEF Follows
<1>4. DOMAIN calls' = 1 .. Len(calls) - 1
  BY <1>3, LenProperties
<1>5. ASSUME NEW j \in 1 .. Len(calls) - 1 PROVE Place(i, j) \in 1 .. Len(calls) /\ Place(i, j) # i
  BY <1>1 DEF Place
<1>6. ASSUME NEW j \in 1 .. Len(calls) - 1, NEW x, x = calls[Place(i, j)]
      PROVE  /\ \A l \in Lists : calls'[j].kind = l <=> x.kind = l
             /\ x.kind \in Lists =>
                  /\ calls'[j].asks = x.asks /\ calls'[j].since = x.since
                  /\ calls'[j].good => x.good
                  /\ calls'[j].late <=> x.late \/ (Place(i, j) < i /\ x.kind = calls[i].kind)
  <2>1. /\ Continues(calls'[j], x)
        /\ x.kind \in Lists => (calls'[j].late <=> x.late \/ (Ahead(i, j) /\ x.kind = calls[i].kind))
    BY <1>2, <1>3, <1>6 DEF Follows
  <2>2. Ahead(i, j) <=> Place(i, j) < i
    BY <1>1 DEF Ahead
  <2>3. \A l \in Lists : calls'[j].kind = l <=> x.kind = l
    BY <2>1 DEF Continues, Lists
  <2> QED BY <2>1, <2>2, <2>3 DEF Continues
<1>7. ASSUME NEW j \in 1 .. Len(calls), j # i PROVE \E k \in DOMAIN calls' : Place(i, k) = j
  BY <1>2, <1>3, <1>4, <1>7, StillThere
<1> QED BY <1>1, <1>4, <1>5, <1>6, <1>7

\* Either way the other lists are left alone.
LEMMA OtherListsKeep ==
  ASSUME ScreenInv, NEW i \in DOMAIN calls, NEW l \in Lists, calls[i].kind # l, calls' = Rest(i),
         UNCHANGED <<saved, at>>, lists'[l] = lists[l], l \in stray => l \in stray'
  PROVE  ListOK(l)'
<1>1. Follows(Rest(i), i) /\ calls' = Rest(i) \o <<>>
  BY Settling, ConcatEmptySeq
<1>2. Cared(l, Rest(i), <<>>)
  BY DEF Cared, Same
<1> QED BY <1>1, <1>2, ScreenParts, NothingMade, Carry

\* The list itself.
LEMMA OwnListKeeps ==
  ASSUME ScreenInv, NEW i \in DOMAIN calls, NEW l \in Lists, calls[i].kind = l, calls' = Rest(i),
         UNCHANGED <<saved, at>>,
         \/ l \in stray'
         \/ /\ calls[i].good /\ ~calls[i].late
            /\ lists'[l].asks = calls[i].asks
            /\ l = "tasks" => lists'[l].version \in calls[i].since .. saved
         \/ calls[i].late /\ l \notin stray /\ lists'[l] = lists[l]
  PROVE  ListOK(l)'
<1> DEFINE n == Len(calls)
<1>1. /\ n \in Nat /\ DOMAIN calls = 1 .. n /\ i \in 1 .. n
      /\ DOMAIN calls' = 1 .. n - 1
      /\ \A j \in DOMAIN calls' :
           LET x == calls[Place(i, j)] IN
           /\ Place(i, j) \in 1 .. n /\ Place(i, j) # i
           /\ calls'[j].kind = l <=> x.kind = l
           /\ x.kind = l =>
                /\ calls'[j].asks = x.asks /\ calls'[j].since = x.since
                /\ calls'[j].good => x.good
                /\ calls'[j].late <=> x.late \/ Place(i, j) < i
      /\ \A j \in 1 .. n : j # i => \E k \in DOMAIN calls' : Place(i, k) = j
  BY ScreenParts, ListsOvertaken
<1>2. ListOK(l) /\ ScreenTypeOK
  BY ScreenParts
<1> HIDE DEF n
<1>3. \A j, k \in DOMAIN calls' : j < k <=> Place(i, j) < Place(i, k)
  BY <1>1 DEF Place
<1>4. \A j \in DOMAIN calls' : j \in Int /\ Place(i, j) \in Int
  BY <1>1
<1>5. i \in Int
  BY <1>1
<1>6. LateFirst(l)'
  <2> SUFFICES ASSUME NEW j \in DOMAIN calls', NEW k \in DOMAIN calls', j < k,
                      calls'[j].kind = l, calls'[k].kind = l, calls'[k].late
               PROVE  calls'[j].late
    BY DEF LateFirst
  <2>1. Place(i, j) < Place(i, k) /\ Place(i, j) \in 1 .. n /\ Place(i, k) \in 1 .. n
    BY <1>1, <1>3
  <2>2. calls[Place(i, j)].kind = l /\ calls[Place(i, k)].kind = l
    BY <1>1
  <2>3. CASE calls[Place(i, k)].late
    <3>1. calls[Place(i, j)].late
      BY <1>1, <1>2, <2>1, <2>2, <2>3 DEF ListOK, LateFirst
    <3> QED BY <1>1, <3>1
  <2>4. CASE Place(i, k) < i
    <3>1. Place(i, j) < i
      BY <1>4, <1>5, <2>1, <2>4
    <3> QED BY <1>1, <2>2, <3>1
  <2> QED BY <1>1, <2>3, <2>4
<1>7. ASSUME NEW j \in DOMAIN calls', calls'[j].kind = l, ~calls'[j].late
      PROVE  i < Place(i, j) /\ calls[Place(i, j)].kind = l /\ ~calls[Place(i, j)].late
  <2>1. calls[Place(i, j)].kind = l /\ ~calls[Place(i, j)].late /\ ~(Place(i, j) < i) /\ Place(i, j) # i
    BY <1>1, <1>7
  <2> QED BY <1>4, <1>5, <2>1
<1>8. LastAsks(l)'
  <2> SUFFICES ASSUME Wanted(l, at'),
                      NEW j \in DOMAIN calls', calls'[j].kind = l, calls'[j].good, ~calls'[j].late,
                      \A k \in DOMAIN calls' : calls'[k].kind = l => k <= j
               PROVE  Right(l, calls'[j].asks, calls'[j].since, at', saved')
    BY DEF LastAsks
  <2>1. /\ i < Place(i, j) /\ calls[Place(i, j)].kind = l /\ ~calls[Place(i, j)].late
        /\ calls[Place(i, j)].good /\ Place(i, j) \in 1 .. n
    BY <1>1, <1>7
  <2>2. ASSUME NEW k \in 1 .. n, calls[k].kind = l PROVE k <= Place(i, j)
    <3>1. CASE k = i
      BY <1>4, <1>5, <2>1, <3>1
    <3>2. CASE k # i
      <4>1. PICK p \in DOMAIN calls' : Place(i, p) = k
        BY <1>1, <3>2
      <4>2. p <= j
        BY <1>1, <2>2, <4>1
      <4>3. p = j \/ p < j
        BY <1>4, <4>2
      <4>4. k = Place(i, j) \/ k < Place(i, j)
        BY <1>3, <4>1, <4>3
      <4> QED BY <1>4, <4>1, <4>4
    <3> QED BY <3>1, <3>2
  <2>3. Right(l, calls[Place(i, j)].asks, calls[Place(i, j)].since, at, saved)
    BY <1>1, <1>2, <2>1, <2>2 DEF ListOK, LastAsks
  <2> QED BY <1>1, <2>3
<1>9. Settles(l)'
  <2> SUFFICES ASSUME l \notin stray', Wanted(l, at'),
                      \A j \in DOMAIN calls' : calls'[j].kind = l => calls'[j].late
               PROVE  Right(l, lists'[l].asks, lists'[l].version, at', saved')
    BY DEF Settles
  <2>1. ASSUME NEW k \in 1 .. n, calls[k].kind = l, i < k PROVE calls[k].late
    <3>1. k # i
      BY <1>5, <2>1
    <3>2. PICK p \in DOMAIN calls' : Place(i, p) = k
      BY <1>1, <3>1
    <3>3. ~(Place(i, p) < i)
      BY <1>1, <1>4, <1>5, <2>1, <3>2
    <3>4. calls[Place(i, p)].kind = l
      BY <2>1, <3>2
    <3>5. calls'[p].kind = l /\ (calls'[p].late <=> calls[Place(i, p)].late \/ Place(i, p) < i)
      BY <1>1, <3>4
    <3>6. calls'[p].late
      BY <3>2, <3>5
    <3> QED BY <3>2, <3>3, <3>5, <3>6
  <2>2. CASE /\ calls[i].good /\ ~calls[i].late
             /\ lists'[l].asks = calls[i].asks
             /\ l = "tasks" => lists'[l].version \in calls[i].since .. saved
    <3>1. ASSUME NEW k \in 1 .. n, calls[k].kind = l PROVE k <= i
      <4>1. ~(i < k)
        BY <1>1, <1>2, <2>1, <2>2, <3>1 DEF ListOK, LateFirst
      <4>2. k \in Int
        BY <1>1
      <4> QED BY <1>5, <4>1, <4>2
    <3>2. Right(l, calls[i].asks, calls[i].since, at, saved)
      BY <1>1, <1>2, <2>2, <3>1 DEF ListOK, LastAsks
    <3>3. l = "tasks" => lists'[l].version = saved
      <4>1. l = "tasks" => lists'[l].version \in saved .. saved
        BY <2>2, <3>2 DEF Right
      <4>2. saved \in Nat
        BY <1>2 DEF ScreenTypeOK, PageTypeOK
      <4> QED BY <4>1, <4>2
    <3> QED BY <2>2, <3>2, <3>3 DEF Right
  <2>3. CASE calls[i].late /\ l \notin stray /\ lists'[l] = lists[l]
    <3>1. ASSUME NEW k \in 1 .. n, calls[k].kind = l PROVE calls[k].late
      <4>1. k \in Int
        BY <1>1
      <4>2. k < i \/ k = i \/ i < k
        BY <1>5, <4>1
      <4>3. k < i => calls[k].late
        BY <1>1, <1>2, <2>3, <3>1 DEF ListOK, LateFirst
      <4> QED BY <2>1, <2>3, <3>1, <4>2, <4>3
    <3>2. Right(l, lists[l].asks, lists[l].version, at, saved)
      BY <1>1, <1>2, <2>3, <3>1 DEF ListOK, Settles
    <3> QED BY <2>3, <3>2
  <2> QED BY <2>2, <2>3
<1> QED BY <1>6, <1>8, <1>9 DEF ListOK

\* Neither kind of answer touches anything else.
LEMMA ListsKeep ==
  ASSUME ScreenInv, NEW i \in DOMAIN calls, calls[i].kind \in Lists, calls' = Rest(i),
         UNCHANGED <<Server, checked, at, workspaces, kept, before, searching, invite, clicks>>,
         lists' \in [Lists -> [asks : Questions, version : Nat]], loading' \in BOOLEAN,
         stray' \subseteq Lists \cup {"identity"}, "identity" \in stray => "identity" \in stray',
         \A l \in Lists : ListOK(l)'
  PROVE  ScreenInv'
<1>1. Leaves(Rest(i), i, <<>>)
  BY Settling, ConcatEmptySeq, NothingMade DEF Leaves
<1>2. PageTypeOK' /\ at' \in Closure
  BY ScreenParts DEF PageTypeOK, ScreenTypeOK, Server
<1>3. calls' \in Seq(CallSet) /\ CallsOK'
  BY <1>1, ScreenParts, CallsGoOn DEF Server
<1>4. ~WillTell(calls[i]) /\ Heard(Rest(i), <<>>)
  BY DEF WillTell, Telling, Lists, Heard, Server
<1>5. WorkspacesTold' /\ LatestTold'
  BY <1>1, <1>4, ScreenParts, StillTold, StillLatest DEF Server
<1> QED BY <1>2, <1>3, <1>5 DEF ScreenInv, ScreenTypeOK

LEMMA AnswerListKeeps ==
  ASSUME ScreenInv, NEW i \in DOMAIN calls, AnswerList(i) PROVE ScreenInv'
<1> DEFINE c == calls[i]
<1>1. c \in CallSet /\ c.kind \in Lists /\ c.asks \in Questions /\ c.since \in Nat /\ saved \in Nat
      /\ lists \in [Lists -> [asks : Questions, version : Nat]]
  BY Settling, ScreenParts DEF AnswerList, CallSet, PageTypeOK, ScreenTypeOK
<1>2. PICK v \in IF c.kind = "tasks" THEN c.since .. saved ELSE {0} :
        lists' = [lists EXCEPT ![c.kind] = [asks |-> c.asks, version |-> v]]
  BY DEF AnswerList
<1>3. v \in Nat /\ (c.kind = "tasks" => v \in c.since .. saved)
  BY <1>1, <1>2
<1>4. /\ lists' \in [Lists -> [asks : Questions, version : Nat]]
      /\ lists'[c.kind].asks = c.asks /\ lists'[c.kind].version = v
      /\ \A l \in Lists : l # c.kind => lists'[l] = lists[l]
  BY <1>1, <1>2, <1>3
<1>5. calls' = Rest(i) /\ UNCHANGED <<saved, at>>
      /\ stray' = IF c.good /\ ~c.late THEN stray \ {c.kind} ELSE stray \cup {c.kind}
  BY DEF AnswerList, Server
<1>6. loading' \in BOOLEAN
  BY ScreenParts DEF AnswerList, Settled, ScreenTypeOK
<1>7. stray' \subseteq Lists \cup {"identity"} /\ ("identity" \in stray => "identity" \in stray')
  BY <1>1, <1>5, ScreenParts DEF PageTypeOK, Lists
<1>8. ASSUME NEW l \in Lists PROVE ListOK(l)'
  <2>1. CASE c.kind = l
    <3>1. \/ l \in stray'
          \/ /\ calls[i].good /\ ~calls[i].late
             /\ lists'[l].asks = calls[i].asks
             /\ l = "tasks" => lists'[l].version \in calls[i].since .. saved
      BY <1>3, <1>4, <1>5, <2>1
    <3> QED BY <1>5, <2>1, <3>1, OwnListKeeps
  <2>2. CASE c.kind # l
    <3>1. lists'[l] = lists[l] /\ (l \in stray => l \in stray')
      BY <1>4, <1>5, <2>2
    <3> QED BY <1>5, <2>2, <3>1, OtherListsKeep
  <2> QED BY <2>1, <2>2
<1> QED BY <1>1, <1>4, <1>5, <1>6, <1>7, <1>8, ListsKeep DEF AnswerList

LEMMA FailListKeeps ==
  ASSUME ScreenInv, NEW i \in DOMAIN calls, FailList(i) PROVE ScreenInv'
<1> DEFINE c == calls[i]
<1>1. c.kind \in Lists /\ lists' = lists /\ calls' = Rest(i) /\ UNCHANGED <<saved, at>>
      /\ stray' = IF c.late THEN stray ELSE stray \cup {c.kind}
  BY DEF FailList, Server
<1>2. lists' \in [Lists -> [asks : Questions, version : Nat]] /\ loading' \in BOOLEAN
  BY ScreenParts DEF FailList, Settled, ScreenTypeOK
<1>3. stray' \subseteq Lists \cup {"identity"} /\ ("identity" \in stray => "identity" \in stray')
  BY <1>1, ScreenParts DEF PageTypeOK
<1>4. ASSUME NEW l \in Lists PROVE ListOK(l)'
  <2>1. CASE c.kind = l
    <3>1. l \in stray' \/ (calls[i].late /\ l \notin stray /\ lists'[l] = lists[l])
      BY <1>1, <2>1
    <3> QED BY <1>1, <2>1, <3>1, OwnListKeeps
  <2>2. CASE c.kind # l
    BY <1>1, <2>2, OtherListsKeep
  <2> QED BY <2>1, <2>2
<1> QED BY <1>1, <1>2, <1>3, <1>4, ListsKeep DEF FailList

------------------------------------------------------------------------------
(* The screen: the theorems.                                                 *)

LEMMA ScreenStarts == ASSUME PageInit PROVE ScreenInv
<1> DEFINE mine == [user |-> session, workspaces |-> IF session = NULL THEN {} ELSE members[session]]
           boot == [kind |-> "boot", c |-> at, asks |-> <<>>, since |-> 0, sees |-> {mine},
                    good |-> TRUE, late |-> FALSE, held |-> {}]
<1>1. at \in Closure
  BY DEF PageInit, Closure, PageViews
<1>2. boot \in CallSet
  <2>1. mine \in Answers
    BY DEF PageInit, Answers, Accounts
  <2>2. "boot" \in CallKinds /\ <<>> \in Questions
    BY DEF CallKinds, Questions
  <2> HIDE DEF mine
  <2> QED BY <1>1, <2>1, <2>2 DEF CallSet
<1>3. calls = <<boot>>
  BY DEF PageInit
<1>4. boot.kind = "boot" /\ UpToDate(boot, members)
  BY DEF UpToDate, Offers
<1> HIDE DEF boot, mine
<1>5. calls \in Seq(CallSet) /\ DOMAIN calls = {1} /\ calls[1] = boot
  BY <1>2, <1>3
<1>0. /\ invite \in [up : BOOLEAN, error : BOOLEAN, accepting : BOOLEAN]
      /\ invite.up => Invited # NULL
  <2>1. PICK invalid \in BOOLEAN :
          invite \in {[up |-> Invited # NULL, error |-> invalid /\ Invited # NULL, accepting |-> FALSE],
                     [up |-> FALSE, error |-> FALSE, accepting |-> FALSE]}
    BY DEF PageInit
  <2>2. CASE invite = [up |-> Invited # NULL, error |-> invalid /\ Invited # NULL, accepting |-> FALSE]
    BY <2>2
  <2>3. CASE invite = [up |-> FALSE, error |-> FALSE, accepting |-> FALSE]
    BY <2>3
  <2> QED BY <2>1, <2>2, <2>3
<1>6. PageTypeOK
  BY <1>0 DEF PageInit, PageTypeOK, Accounts, Places, PageViews
<1>7. lists \in [Lists -> [asks : Questions, version : Nat]]
  BY DEF PageInit, NoAnswer, Questions
<1>8. ScreenTypeOK
  BY <1>1, <1>5, <1>6, <1>7 DEF ScreenTypeOK, PageInit
<1>9. CallsOK
  <2>1. invite.up => Invited # NULL
    BY <1>0
  <2> QED BY <1>4, <1>5, <2>1 DEF CallsOK, CallOK
<1>10. at.user = NULL /\ at.active = NULL
  BY DEF PageInit
<1>11. \A l \in Lists : ListOK(l)
  BY <1>4, <1>5, <1>10 DEF ListOK, LateFirst, LastAsks, Settles, Wanted
<1>12. WorkspacesTold /\ LatestTold
  BY <1>4, <1>5, <1>10 DEF WorkspacesTold, LatestTold
<1> QED BY <1>8, <1>9, <1>11, <1>12 DEF ScreenInv

LEMMA SettleKeeps ==
  ASSUME ScreenInv, NEW i \in DOMAIN calls, Settle(i) PROVE ScreenInv'
<1>1. CASE AnswerList(i) \/ FailList(i)
  BY <1>1, AnswerListKeeps, FailListKeeps
<1>2. CASE ChangeSaved(i) \/ ChangeFails(i)
  BY <1>2, ChangeSavedKeeps, ChangeFailsKeeps
<1>3. CASE Boot(i) \/ SignedIn(i) \/ SignInFails(i)
  BY <1>3, BootKeeps, SignedInKeeps, SignInFailsKeeps
<1>4. CASE Accepted(i) \/ AskedAgain(i) \/ AcceptFails(i)
  BY <1>4, AcceptedKeeps, AskedAgainKeeps, AcceptFailsKeeps
<1>5. CASE Refreshed(i) \/ LoggedOut(i) \/ LogoutFails(i)
  BY <1>5, RefreshedKeeps, LoggedOutKeeps, LogoutFailsKeeps
<1>6. CASE Created(i) \/ OpenCreated(i) \/ CreateFails(i)
  BY <1>6, CreatedKeeps, OpenCreatedKeeps, CreateFailsKeeps
<1> QED BY <1>1, <1>2, <1>3, <1>4, <1>5, <1>6 DEF Settle

LEMMA ScreenStep ==
  ASSUME ScreenInv, [PageNext]_pageVars PROVE ScreenInv'
<1>1. CASE \E v \in PageViews : SelectView(v)
  BY <1>1, SelectViewKeeps
<1>2. CASE \E p \in Projects : FollowLink(p)
  BY <1>2, FollowLinkKeeps
<1>3. CASE \E f \in Persons \cup {NULL} : ChooseFilter(f)
  BY <1>3, ChooseFilterKeeps
<1>4. CASE \/ TypeSearch
           \/ FireSearch
           \/ EraseSearch
  BY <1>4, TypeKeeps, FireSearchKeeps, EraseSearchKeeps
<1>5. CASE \E w \in Workspaces : SwitchWorkspace(w)
  BY <1>5, SwitchWorkspaceKeeps
<1>6. CASE \E what \in DOMAIN Reloads : ChangeTask(what)
  BY <1>6, ChangeKeeps
<1>7. CASE \E u \in Users : SignIn(u)
  BY <1>7, SignInKeeps
<1>8. CASE \/ AcceptNow
           \/ RefreshUser
           \/ Logout
           \/ CreateWorkspace
  BY <1>8, AsksKeep
<1>9. CASE DismissInvite
  BY <1>9, DismissInviteKeeps
<1>10. CASE \E i \in DOMAIN calls : Settle(i)
  BY <1>10, SettleKeeps
<1>11. CASE UNCHANGED pageVars
  BY <1>11 DEF pageVars, ScreenInv, ScreenTypeOK, PageTypeOK, CallsOK, CallOK, WorkspacesTold, WillTell,
                LatestTold, UpToDate, ListOK, LateFirst, LastAsks, Settles, Right
<1> QED BY <1>1, <1>2, <1>3, <1>4, <1>5, <1>6, <1>7, <1>8, <1>9, <1>10, <1>11 DEF PageNext

LEMMA ScreenAlways ==
  PageSpec => []ScreenInv
BY ScreenStarts, ScreenStep, PTL DEF PageSpec

\* The page keeps its type, whatever is clicked, answered, refused or lost
\* (App.jsx 26-60, 124-375).
THEOREM ScreenTypeCorrect ==
  PageSpec => []ScreenTypeOK
BY ScreenAlways, PTL DEF ScreenInv

\* Whatever the number of clicks and of calls under way, a list that the screen
\* wants and that nothing is fetching answers what the screen asks now and shows
\* what was saved through it, unless its last answer was overtaken, lost or of a
\* render that is gone (App.jsx 160-215, 318-350, lib/api.js 8-17).
THEOREM ListsAlwaysMatchScreen ==
  PageSpec => []ListsMatchScreen
<1>1. ScreenInv => ListsMatchScreen
  <2> SUFFICES ASSUME ScreenInv, NEW l \in Lists \ stray, Wanted(l, at), ~InFlight({l})
               PROVE  /\ lists[l].asks = Asks(l, at, at.active)
                      /\ l = "tasks" => lists[l].version = saved
    BY DEF ListsMatchScreen
  <2>1. Settles(l)
    BY ScreenParts DEF ListOK
  <2>2. \A i \in DOMAIN calls : calls[i].kind # l
    BY DEF InFlight
  <2> QED BY <2>1, <2>2 DEF Settles, Right
<1> QED BY <1>1, ScreenAlways, PTL

\* For any accounts, workspaces and calls: once nothing is under way the page
\* shows the workspaces of the account that is signed in and one of them is open
\* if there is any, unless the answer that said so last was lost, overtaken or
\* another account's (App.jsx 124-158, 352-365).
THEOREM WorkspacesAlwaysTheirs ==
  PageSpec => []WorkspacesAreTheirs
<1>1. ScreenInv => WorkspacesAreTheirs
  <2> SUFFICES ASSUME ScreenInv, calls = <<>>, at.user # NULL, "identity" \notin stray
               PROVE  /\ workspaces = members[at.user]
                      /\ at.active = NULL <=> workspaces = {}
    BY DEF WorkspacesAreTheirs
  <2>1. DOMAIN calls = {}
    OBVIOUS
  <2> QED BY <2>1, ScreenParts DEF WorkspacesTold
<1> QED BY <1>1, ScreenAlways, PTL

\* No step but the person's own dismissal takes the page of an invitation down
\* before they are in the workspace (App.jsx 111-139).
THEOREM InvitePageAlwaysStays ==
  PageSpec => InvitePageStays
<1>1. ScreenInv /\ [PageNext]_pageVars =>
        [invite.up /\ ~invite'.up => clicks' # clicks \/ Invited \in members'[Invitee]]_pageVars
  <2> SUFFICES ASSUME ScreenInv, [PageNext]_pageVars, invite.up, ~invite'.up, clicks' = clicks
               PROVE  Invited \in members'[Invitee]
    OBVIOUS
  <2>1. clicks \in Nat /\ clicks + 1 # clicks /\ invite \in [up : BOOLEAN, error : BOOLEAN, accepting : BOOLEAN]
    BY ScreenParts DEF PageTypeOK
  <2>2. ~Click
    BY <2>1 DEF Click
  <2>3. PICK i \in DOMAIN calls : Settle(i)
    BY <2>2 DEF PageNext, pageVars, SelectView, FollowLink, ChooseFilter, TypeSearch, FireSearch, EraseSearch,
                 SwitchWorkspace, ChangeTask, SignIn, AcceptNow, DismissInvite, RefreshUser, Logout,
                 CreateWorkspace, Navigate
  <2>4. CASE AskedAgain(i)
    BY <2>4, Settling DEF AskedAgain, CallOK, Server
  <2>5. CASE ~AskedAgain(i)
    <3>1. invite'.up = invite.up
      BY <2>1, <2>3, <2>5 DEF Settle, AnswerList, FailList, ChangeSaved, ChangeFails, Boot, SignedIn,
           SignInFails, Accepted, AcceptFails, Refused, Refreshed, LoggedOut, LogoutFails, Created,
           OpenCreated, CreateFails, Client
    <3> QED BY <3>1
  <2> QED BY <2>4, <2>5
<1> QED BY <1>1, ScreenAlways, PTL DEF PageSpec, InvitePageStays

------------------------------------------------------------------------------
(* The screen: its indicators.                                               *)

Joining == {"accept", "accepted"}

\* Call i is not the one that an indicator waits for.
Spares(i, kinds) == i <= Len(calls) => calls[i].kind \notin kinds

\* A call under way stays so unless it settles, and those just made are, too.
LEMMA Flight ==
  ASSUME ScreenTypeOK, NEW P, NEW i, NEW E, Leaves(P, i, E), NEW kinds, "join" \notin kinds,
         Has(P, kinds) \/ Has(E, kinds) \/ (InFlight(kinds) /\ Spares(i, kinds))
  PROVE  InFlight(kinds)'
<1>1. /\ DOMAIN calls = 1 .. Len(calls) /\ Len(calls) \in Nat /\ Len(P) \in Nat /\ Len(E) \in Nat
      /\ DOMAIN calls' = 1 .. Len(P) + Len(E)
      /\ \A j \in 1 .. Len(P) : calls'[j] = P[j]
      /\ \A j \in 1 .. Len(E) : Len(P) + j \in DOMAIN calls' /\ calls'[Len(P) + j] = E[j]
  BY CallsAfter DEF Leaves
<1>2. CASE Has(E, kinds)
  BY <1>1, <1>2 DEF Has, InFlight
<1>4. CASE Has(P, kinds)
  <2>1. PICK k \in 1 .. Len(P) : P[k].kind \in kinds
    BY <1>4 DEF Has
  <2>2. k \in DOMAIN calls' /\ calls'[k].kind \in kinds
    BY <1>1, <2>1
  <2> QED BY <2>2 DEF InFlight
<1>3. CASE InFlight(kinds) /\ Spares(i, kinds)
  <2>1. PICK j \in 1 .. Len(calls) : calls[j].kind \in kinds
    BY <1>1, <1>3 DEF InFlight
  <2>2. j # i
    BY <1>1, <1>3, <2>1 DEF Spares
  <2>3. PICK k \in 1 .. Len(P) : Place(i, k) = j
    BY <2>2, StillThere DEF Leaves
  <2>4. P[k].kind = calls[j].kind
    BY <2>1, <2>3 DEF Leaves, Follows, Continues
  <2>5. k \in DOMAIN calls' /\ calls'[k].kind \in kinds
    BY <1>1, <2>1, <2>3, <2>4
  <2> QED BY <2>5 DEF InFlight
<1> QED BY <1>2, <1>3, <1>4

\* What a step does to the three indicators.
LEMMA StillAwaits ==
  ASSUME ScreenInv, BusyAwaits, NEW P, NEW i, NEW E, Follows(P, i), Placed(E), calls' = P \o E,
         checked' \/ (~checked /\ Spares(i, {"boot"})),
         loading' => Has(E, {"tasks"}) \/ (loading /\ Spares(i, {"tasks"})),
         invite'.accepting =>
           Has(P, Joining) \/ Has(E, Joining) \/ (invite.accepting /\ Spares(i, Joining))
  PROVE  BusyAwaits'
<1>1. ScreenTypeOK /\ Leaves(P, i, E)
  BY ScreenParts DEF Leaves
<1>2. \A kinds : /\ "join" \notin kinds
                 /\ Has(P, kinds) \/ Has(E, kinds) \/ (InFlight(kinds) /\ Spares(i, kinds))
                 => InFlight(kinds)'
  BY <1>1, Flight
<1>3. BusyAwaits' <=> /\ ~checked' => InFlight({"boot"})'
                      /\ loading' => InFlight({"tasks"})'
                      /\ invite'.accepting => InFlight(Joining)'
  BY DEF BusyAwaits, Joining
<1> QED BY <1>2, <1>3 DEF BusyAwaits, Joining

\* A render switches the spinner on only with a load of tasks.
LEMMA RenderAwaits ==
  ASSUME ScreenInv, BusyAwaits, ScreenInv', NEW P, NEW i, Follows(P, i),
         NEW now, NEW changed, Render(now, changed, P), Spares(i, {"tasks"}),
         checked' \/ (~checked /\ Spares(i, {"boot"})),
         invite'.accepting => Has(P, Joining) \/ (invite.accepting /\ Spares(i, Joining))
  PROVE  BusyAwaits'
<1> DEFINE E == Effects(changed, at')
<1>1. calls' = P \o E /\ loading' = (loading \/ Loads(E))
  BY DEF Render
<1>2. saved' \in Nat /\ at' \in Closure
  BY DEF ScreenInv, ScreenTypeOK, PageTypeOK
<1>3. Placed(E)
  BY <1>2, EffectsMade
<1> HIDE DEF E
<1>4. Loads(E) => Has(E, {"tasks"})
  BY <1>3, LenProperties DEF Placed, Loads, Has
<1>5. loading' => Has(E, {"tasks"}) \/ (loading /\ Spares(i, {"tasks"}))
  BY <1>1, <1>4
<1> QED BY <1>1, <1>3, <1>5, StillAwaits

LEMMA ApplyAuthAwaits ==
  ASSUME ScreenInv, BusyAwaits, ScreenInv', NEW P, NEW i, Follows(P, i),
         NEW a, ApplyAuth(a, P), Spares(i, {"tasks"}),
         checked' \/ (~checked /\ Spares(i, {"boot"})),
         invite'.accepting => invite.accepting /\ Spares(i, Joining)
  PROVE  BusyAwaits'
<1>1. \E now, changed : Render(now, changed, P)
  BY DEF ApplyAuth
<1> QED BY <1>1, RenderAwaits

\* A call that was just made is of the kind that the page makes.
LEMMA CallMade ==
  ASSUME ScreenInv', NEW P \in Seq(CallSet), NEW what \in CallKinds \ Lists, NEW c, NEW h,
         what = "accept" => h = {}, calls' = Append(P, Holding(what, c, h))
  PROVE  /\ Placed(<<Holding(what, c, h)>>) /\ calls' = P \o <<Holding(what, c, h)>>
         /\ \A kinds : what \in kinds => Has(<<Holding(what, c, h)>>, kinds)
<1> DEFINE x == Holding(what, c, h)
           n == Len(P) + 1
<1>1. /\ calls' \in Seq(CallSet) /\ CallsOK' /\ saved' \in Nat /\ ServerTypeOK'
  BY DEF ScreenInv, ScreenTypeOK, PageTypeOK, ServerTypeOK
<1>2. x.kind = what /\ x.c = c /\ x.held = h
  BY DEF Holding, Request, Call
<1> HIDE DEF x
<1>3. n \in DOMAIN calls' /\ calls'[n] = x
  <2>1. calls' = Append(P, x) /\ Len(P) \in Nat
    BY LenProperties DEF x
  <2> QED BY <2>1
<1>4. x \in CallSet
  BY <1>1, <1>3, ElementOfSeq, LenProperties
<1>5. c \in Closure /\ h \subseteq Answers
  BY <1>2, <1>4 DEF CallSet
<1>6. CallOK(x, members')
  BY <1>1, <1>3 DEF CallsOK
<1>7. CallOK([kind |-> what, c |-> c], members')
  BY <1>2, <1>6 DEF CallOK
<1>8. Placed(<<x>>) /\ \A kinds : what \in kinds => Has(<<x>>, kinds)
  BY <1>1, <1>5, <1>7, HoldingMade DEF x
<1>9. calls' = P \o <<x>>
  BY <1>4, AppendIsConcat DEF x
<1> QED BY <1>8, <1>9 DEF x

\* Clicks: nothing settles.
LEMMA NothingSettles ==
  ASSUME ScreenInv
  PROVE  /\ Follows(calls, Len(calls) + 1) /\ \A kinds : Spares(Len(calls) + 1, kinds)
         /\ calls \in Seq(CallSet) /\ checked \in BOOLEAN /\ loading \in BOOLEAN
BY ScreenParts DEF Spares, PageTypeOK, ScreenTypeOK

LEMMA NavigateAwaits ==
  ASSUME ScreenInv, BusyAwaits, ScreenInv', UNCHANGED <<checked, invite>>,
         NEW now, NEW changed, Render(now, changed, calls)
  PROVE  BusyAwaits'
BY NothingSettles, RenderAwaits

LEMMA AskAwaits ==
  ASSUME ScreenInv, BusyAwaits, ScreenInv', UNCHANGED <<checked, loading>>,
         NEW what \in CallKinds \ Lists, NEW c, calls' = Append(calls, Request(what, c)),
         invite'.accepting => invite.accepting \/ what \in Joining
  PROVE  BusyAwaits'
<1> DEFINE E == <<Holding(what, c, {})>>
<1>1. Request(what, c) = Holding(what, c, {})
  BY NothingHeld
<1>2. Placed(E) /\ calls' = calls \o E /\ (what \in Joining => Has(E, Joining))
  BY <1>1, NothingSettles, CallMade
<1> HIDE DEF E
<1> QED BY <1>2, NothingSettles, StillAwaits

LEMMA ClickAwaits ==
  ASSUME ScreenInv, BusyAwaits, ScreenInv', PageNext, ~\E i \in DOMAIN calls : Settle(i)
  PROVE  BusyAwaits'
<1>1. CASE \/ \E v \in PageViews : SelectView(v)
           \/ \E p \in Projects : FollowLink(p)
           \/ \E f \in Persons \cup {NULL} : ChooseFilter(f)
           \/ FireSearch
           \/ EraseSearch
           \/ \E w \in Workspaces : SwitchWorkspace(w)
  <2>1. UNCHANGED <<checked, invite>> /\ \E now, changed : Render(now, changed, calls)
    BY <1>1 DEF SelectView, FollowLink, ChooseFilter, FireSearch, EraseSearch, SwitchWorkspace, Navigate
  <2> QED BY <2>1, NavigateAwaits
<1>2. CASE TypeSearch \/ DismissInvite
  <2>1. UNCHANGED <<checked, loading, calls>> /\ invite'.accepting = invite.accepting
    BY <1>2, ScreenParts DEF TypeSearch, DismissInvite, PageTypeOK
  <2> QED BY <2>1 DEF BusyAwaits, InFlight
<1>3. CASE \/ \E what \in DOMAIN Reloads : ChangeTask(what)
           \/ \E u \in Users : SignIn(u)
           \/ AcceptNow
           \/ RefreshUser
           \/ Logout
           \/ CreateWorkspace
  <2>1. UNCHANGED <<checked, loading>>
    BY <1>3 DEF ChangeTask, SignIn, AcceptNow, RefreshUser, Logout, CreateWorkspace, Client
  <2>2. \E what \in CallKinds \ Lists : \E c :
          /\ calls' = Append(calls, Request(what, c))
          /\ invite'.accepting => invite.accepting \/ what \in Joining
    BY <1>3 DEF ChangeTask, SignIn, AcceptNow, RefreshUser, Logout, CreateWorkspace, Client, Reloads, CallKinds,
                Lists, Joining
  <2> QED BY <2>1, <2>2, AskAwaits
<1> QED BY <1>1, <1>2, <1>3 DEF PageNext

\* A call settles and no other is made.
LEMMA QuietlyAwaits ==
  ASSUME ScreenInv, BusyAwaits, ScreenInv', NEW i \in DOMAIN calls, NEW P, Follows(P, i), calls' = P,
         checked' \/ (~checked /\ Spares(i, {"boot"})),
         loading' => loading /\ Spares(i, {"tasks"}),
         invite'.accepting => invite.accepting /\ Spares(i, Joining)
  PROVE  BusyAwaits'
<1>1. calls' = P \o <<>>
  BY ConcatEmptySeq DEF Follows
<1> QED BY <1>1, NothingMade, StillAwaits

LEMMA SettleAwaits ==
  ASSUME ScreenInv, BusyAwaits, ScreenInv', NEW i \in DOMAIN calls, Settle(i) PROVE BusyAwaits'
<1>1. /\ Follows(Rest(i), i) /\ Follows(Seeing(Rest(i)), i) /\ Follows(Unheard(i), i)
      /\ checked \in BOOLEAN /\ ServerTypeOK' /\ saved' \in Nat
  BY Settling, UnheardFollows, ScreenParts DEF ScreenInv, ScreenTypeOK, PageTypeOK, ServerTypeOK
<1>2. \A kinds : calls[i].kind \notin kinds => Spares(i, kinds)
  BY DEF Spares
<1>3. CASE AnswerList(i) \/ FailList(i)
  <2>1. /\ calls' = Rest(i) /\ UNCHANGED <<checked, invite>> /\ calls[i].kind \in Lists
        /\ loading' = IF calls[i].kind = "tasks" THEN FALSE ELSE loading
    BY <1>3 DEF AnswerList, FailList, Settled
  <2> QED BY <1>1, <1>2, <2>1, QuietlyAwaits DEF Lists, Joining
<1>4. CASE ChangeSaved(i)
  <2> DEFINE E == Again(calls[i])
  <2>1. /\ calls' = Rest(i) \o E /\ UNCHANGED <<checked, invite>> /\ loading' = (loading \/ Loads(E))
        /\ calls[i].kind \in {"save", "edit", "names"}
    BY <1>4 DEF ChangeSaved, Reloads
  <2>2. Placed(E)
    BY <1>4, Settling, AgainMade DEF ScreenInv, ScreenTypeOK, PageTypeOK, ChangeSaved
  <2> HIDE DEF E
  <2>3. Loads(E) => Has(E, {"tasks"})
    BY <2>2, LenProperties DEF Placed, Loads, Has
  <2>4. Spares(i, {"boot"}) /\ Spares(i, {"tasks"}) /\ Spares(i, Joining)
    BY <1>2, <2>1 DEF Joining
  <2> QED BY <1>1, <2>1, <2>2, <2>3, <2>4, StillAwaits
<1>5. CASE ChangeFails(i)
  <2>1. /\ calls' = Rest(i) \/ calls' = Spoilt(Rest(i))
        /\ UNCHANGED <<checked, loading, invite>>
        /\ calls[i].kind \in {"save", "edit", "names"}
    BY <1>5 DEF ChangeFails, Reloads, Client, Spoilt
  <2>2. Follows(Spoilt(Rest(i)), i)
    BY <1>1, SpoiltFollows
  <2> QED BY <1>1, <1>2, <2>1, <2>2, QuietlyAwaits DEF Joining
<1>6. CASE Boot(i)
  <2>1. checked' /\ UNCHANGED invite /\ calls[i].kind = "boot"
        /\ \/ \E a : ApplyAuth(a, Rest(i))
           \/ UNCHANGED loading /\ calls' = Rest(i)
    BY <1>6 DEF Boot
  <2> QED BY <1>1, <1>2, <2>1, ApplyAuthAwaits, QuietlyAwaits DEF Joining
<1>7. CASE SignedIn(i)
  <2>1. UNCHANGED checked /\ calls[i].kind \in {"login", "join"}
    BY <1>7 DEF SignedIn
  <2>2. PICK a \in calls[i].sees :
          IF calls[i].kind = "join"
          THEN \E now : Render(now, {"user"}, Seeing(Accepting(i, a)))
          ELSE invite' = invite /\ ApplyAuth(a, Seeing(Rest(i)))
    BY <1>7 DEF SignedIn, Accepting
  <2>3. CASE calls[i].kind = "join"
    <3> DEFINE P == Seeing(Accepting(i, a))
    <3>1. /\ Follows(P, Len(calls) + 1)
          /\ \E j \in 1 .. Len(P) : P[j].kind = "accept" /\ WillTell(P[j])
      BY <1>1, <2>3, AcceptingFollows
    <3>2. \E now : Render(now, {"user"}, P)
      BY <2>2, <2>3
    <3> HIDE DEF P
    <3>3. Has(P, Joining)
      BY <3>1 DEF Has, Joining
    <3> QED BY <1>1, <2>1, <3>1, <3>2, <3>3, NothingSettles, RenderAwaits
  <2>4. CASE calls[i].kind # "join"
    BY <1>1, <1>2, <2>1, <2>2, <2>4, ApplyAuthAwaits DEF Joining
  <2> QED BY <2>3, <2>4
<1>8. CASE SignInFails(i) \/ LogoutFails(i) \/ CreateFails(i)
  <2>1. /\ calls' = Unheard(i) \/ calls' = Seeing(Rest(i))
        /\ UNCHANGED <<checked, loading, invite>>
        /\ calls[i].kind \in {"login", "join", "logout", "create", "created"}
    BY <1>8 DEF SignInFails, LogoutFails, CreateFails, Client
  <2> QED BY <1>1, <1>2, <2>1, QuietlyAwaits DEF Joining
<1>9. CASE Accepted(i) \/ Created(i)
  <2>1. /\ UNCHANGED <<checked, loading, invite>>
        /\ \E what \in {"accepted", "created"} : \E c, h :
             /\ calls' = Append(Seeing(Rest(i)), Holding(what, c, h))
             /\ calls[i].kind = IF what = "accepted" THEN "accept" ELSE "create"
    <3>1. CASE Accepted(i)
      BY <3>1 DEF Accepted, Client, Holding
    <3>2. CASE Created(i)
      BY <3>2, NothingHeld DEF Created, Client
    <3> QED BY <1>9, <3>1, <3>2
  <2>9. PICK what \in {"accepted", "created"} : \E c, h :
          /\ calls' = Append(Seeing(Rest(i)), Holding(what, c, h))
          /\ calls[i].kind = IF what = "accepted" THEN "accept" ELSE "create"
    BY <2>1
  <2>2. PICK c, h : /\ calls' = Append(Seeing(Rest(i)), Holding(what, c, h))
                    /\ calls[i].kind = IF what = "accepted" THEN "accept" ELSE "create"
    BY <2>9
  <2> DEFINE E == <<Holding(what, c, h)>>
             P == Seeing(Rest(i))
  <2>3. what \in CallKinds \ Lists /\ what # "accept"
    BY DEF CallKinds, Lists
  <2>4. P \in Seq(CallSet) /\ Follows(P, i)
    BY <1>1 DEF Follows
  <2>5. Placed(E) /\ calls' = P \o E /\ (what = "accepted" => Has(E, Joining))
    BY <2>2, <2>3, <2>4, CallMade DEF Joining
  <2> HIDE DEF E, P
  <2>6. what = "accepted" \/ calls[i].kind \notin Joining
    BY <2>2 DEF Joining
  <2>7. calls[i].kind \notin {"boot"} /\ calls[i].kind \notin {"tasks"}
    BY <2>2
  <2> QED BY <1>1, <1>2, <2>1, <2>4, <2>5, <2>6, <2>7, StillAwaits
<1>10. CASE AskedAgain(i) \/ AcceptFails(i)
  <2>1. /\ UNCHANGED checked /\ ~invite'.accepting /\ calls[i].kind \in Joining
        /\ \/ \E a : ApplyAuth(a, Rest(i)) \/ ApplyAuth(a, Unheard(i))
           \/ UNCHANGED loading /\ calls' = Unheard(i)
    <3>1. CASE AskedAgain(i)
      BY <3>1 DEF AskedAgain, Joining
    <3>2. CASE AcceptFails(i)
      <4>1. ~Refused.accepting
        BY ScreenParts DEF Refused, PageTypeOK
      <4> QED BY <3>2, <4>1 DEF AcceptFails, Joining
    <3> QED BY <1>10, <3>1, <3>2
  <2> QED BY <1>1, <1>2, <2>1, ApplyAuthAwaits, QuietlyAwaits DEF Joining
<1>11. CASE Refreshed(i) \/ OpenCreated(i)
  <2>1. /\ UNCHANGED <<checked, invite>> /\ calls[i].kind \in {"refresh", "created"}
        /\ \/ \E now, changed : Render(now, changed, Rest(i))
           \/ UNCHANGED loading /\ calls' = Rest(i)
    BY <1>11 DEF Refreshed, OpenCreated
  <2> QED BY <1>1, <1>2, <2>1, RenderAwaits, QuietlyAwaits DEF Joining
<1>12. CASE LoggedOut(i)
  <2>1. /\ UNCHANGED <<checked, invite>> /\ calls[i].kind = "logout"
        /\ \E now, changed : Render(now, changed, Seeing(Rest(i)))
    BY <1>12 DEF LoggedOut
  <2> QED BY <1>1, <1>2, <2>1, RenderAwaits DEF Joining
<1> QED BY <1>3, <1>4, <1>5, <1>6, <1>7, <1>8, <1>9, <1>10, <1>11, <1>12 DEF Settle

\* On every path through answers, refusals and losses the boot screen, the spinner
\* and "Joining..." are on only while a call is under way that ends them; so it takes
\* no more than the browser settling its calls for them to end (App.jsx 70, 120,
\* 139 and 201).
THEOREM BusyAlwaysAwaits == PageSpec => []BusyAwaits
<1>1. PageInit => BusyAwaits
  BY DEF PageInit, BusyAwaits, InFlight
<1>2. ScreenInv /\ ScreenInv' /\ BusyAwaits /\ [PageNext]_pageVars => BusyAwaits'
  <2> SUFFICES ASSUME ScreenInv, ScreenInv', BusyAwaits, [PageNext]_pageVars PROVE BusyAwaits'
    OBVIOUS
  <2>1. CASE UNCHANGED pageVars
    BY <2>1 DEF pageVars, BusyAwaits, InFlight
  <2>2. CASE PageNext
    BY <2>2, ClickAwaits, SettleAwaits
  <2> QED BY <2>1, <2>2
<1> QED BY <1>1, <1>2, ScreenAlways, PTL DEF PageSpec
==============================================================================
