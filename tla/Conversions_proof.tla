--------------------------- MODULE Conversions_proof ---------------------------
(***************************************************************************)
(* Proofs about the sequential parts of base/, for any years, zones,       *)
(* moments, numbers, files and names: the formulas of Date against counting*)
(* days, the search of TimeZone against the last transition, and the way   *)
(* back from a local time; the loop of readFile(), which ends whatever each*)
(* read() gives; and the digits of convert() and convertHex().  What the   *)
(* code or a reference defines by recursion is a choice of a function, so  *)
(* each such function is first shown to exist.                             *)
(***************************************************************************)
EXTENDS Conversions, TLAPS, SequenceTheorems, WellFoundedInduction, NaturalsInduction

(* A set of natural numbers that is not empty has a least one. *)
LEMMA Least ==
  ASSUME NEW T, T \subseteq Nat, T # {}
  PROVE  \E n \in T : \A m \in T : ~ (m < n)
<1> DEFINE less == OpToRel(<, Nat)
<1>1. \A m, n \in Nat : m < n => <<m, n>> \in less
  BY DEF OpToRel
<1>2. IsWellFoundedOn(less, Nat)
  BY NatLessThanWellFounded
<1> HIDE DEF less
<1>3. PICK n \in T : \A m \in T : ~ (<<m, n>> \in less)
  BY <1>2, WFMin
<1> QED BY <1>1, <1>3

(* Induction, for a set *)
LEMMA Upward ==
  ASSUME NEW G, 0 \in G, \A n \in Nat : n \in G => n + 1 \in G
  PROVE  \A n \in Nat : n \in G
<1> DEFINE Bad == {i \in Nat : i \notin G}
<1>1. ASSUME NEW i \in Bad, \A k \in Bad : ~ (k < i) PROVE FALSE
  <2>1. i - 1 \in Nat /\ i - 1 < i /\ (i - 1) + 1 = i
    BY <1>1
  <2>2. i - 1 \in G
    BY <1>1, <2>1
  <2> QED BY <1>1, <2>1, <2>2
<1>2. Bad \subseteq Nat
  OBVIOUS
<1>3. Bad = {}
  <2> HIDE DEF Bad
  <2> QED BY <1>1, <1>2, Least
<1> QED BY <1>3

(* The least and the greatest of a set *)
LEMMA MinOf ==
  ASSUME NEW S, S \subseteq Nat, S # {}
  PROVE  Min(S) \in S /\ \A i \in S : Min(S) <= i
<1>1. PICK n \in S : \A m \in S : ~ (m < n)
  BY Least
<1>2. n \in S /\ \A m \in S : n <= m
  BY <1>1
<1>3. \E x \in S : \A y \in S : x =< y
  BY <1>2
<1> QED BY <1>3, Zenon DEF Min

(* The greatest of a set of indices *)
LEMMA MaxOf ==
  ASSUME NEW n \in Nat, NEW S, S \subseteq 1..n, S # {}
  PROVE  Max(S) \in S /\ \A i \in S : i <= Max(S)
<1> DEFINE T == {n - i : i \in S}
<1>1. T \subseteq Nat /\ T # {}
  OBVIOUS
<1>2. PICK k \in T : \A m \in T : ~ (m < k)
  <2> HIDE DEF T
  <2> QED BY <1>1, Least
<1>3. PICK x \in S : k = n - x
  OBVIOUS
<1>4. \A y \in S : x >= y
  BY <1>2, <1>3
<1>5. \E x1 \in S : \A y \in S : x1 >= y
  BY <1>4
<1>6. Max(S) \in S /\ \A y \in S : Max(S) >= y
  BY <1>5, Zenon DEF Max
<1> QED BY <1>6

(* The least of a set of integers that has a lower bound *)
LEMMA MinAbove ==
  ASSUME NEW lo \in Int, NEW S, S \subseteq Int, S # {}, \A x \in S : lo <= x
  PROVE  Min(S) \in S /\ \A x \in S : Min(S) <= x
<1> DEFINE T == {x - lo : x \in S}
<1>1. T \subseteq Nat /\ T # {}
  <2>1. ASSUME NEW x \in S PROVE x - lo \in Nat
    <3>1. x \in Int /\ lo <= x
      OBVIOUS
    <3> QED BY <3>1
  <2>2. PICK x \in S : TRUE
    OBVIOUS
  <2> QED BY <2>1, <2>2, Zenon
<1>2. PICK k \in T : \A m \in T : ~ (m < k)
  <2> HIDE DEF T
  <2> QED BY <1>1, Least
<1>3. PICK x \in S : k = x - lo
  OBVIOUS
<1>4. \A y \in S : x =< y
  <2>1. ASSUME NEW y \in S PROVE x =< y
    <3>1. ~ (y - lo < x - lo) /\ x \in Int /\ y \in Int
      BY <1>2, <1>3
    <3> QED BY <3>1
  <2> QED BY <2>1
<1>5. \E x1 \in S : \A y \in S : x1 =< y
  BY <1>4
<1> QED BY <1>5, Zenon DEF Min

(* A recursive function exists if the recursion goes down a measure: where it *)
(* does not stop, its value at x is made of x and of its value at next[x].    *)
Recurs(f, D, stop, base, next, made) ==
  f = [x \in D |-> IF x \in stop THEN base[x] ELSE made[<<x, f[next[x]]>>]]

(* Below every k there is a solution, two solutions agree where both are, and *)
(* the function takes its value at x from a solution that has x.              *)
LEMMA RecursionExists ==
  ASSUME NEW D, NEW R, NEW stop, NEW base, NEW next, NEW made, NEW mu,
         \A x \in D : mu[x] \in Nat,
         \A x \in D : x \notin stop => next[x] \in D /\ mu[next[x]] < mu[x],
         \A x \in D : base[x] \in R,
         \A x \in D, r \in R : made[<<x, r>>] \in R
  PROVE  \E f \in [D -> R] : Recurs(f, D, stop, base, next, made)
<1> DEFINE Below(k)    == {x \in D : mu[x] < k}
           Value(f, x) == IF x \in stop THEN base[x] ELSE made[<<x, f[next[x]]>>]
           Solves(f, k) == f \in [Below(k) -> R] /\ \A x \in Below(k) : f[x] = Value(f, x)
           Solved == {k \in Nat : \E f : Solves(f, k)}
<1>1. 0 \in Solved
  <2>1. Below(0) = {}
    OBVIOUS
  <2> DEFINE e == [x \in {} |-> x]
  <2>2. Solves(e, 0)
    BY <2>1
  <2> HIDE DEF e, Solves
  <2> QED BY <2>2
<1>2. \A k \in Nat : k \in Solved => k + 1 \in Solved
  <2> SUFFICES ASSUME NEW k \in Nat, k \in Solved PROVE k + 1 \in Solved
    OBVIOUS
  <2>1. PICK f : Solves(f, k)
    OBVIOUS
  <2> DEFINE g == [x \in Below(k + 1) |-> Value(f, x)]
  <2>2. \A x \in Below(k + 1) : x \in D /\ (x \notin stop => next[x] \in Below(k))
    BY SMT
  <2>3. \A x \in Below(k + 1) : Value(f, x) \in R
    <3>1. ASSUME NEW x \in Below(k + 1) PROVE Value(f, x) \in R
      <4>1. CASE x \in stop
        BY <2>2, <4>1
      <4>2. CASE x \notin stop
        <5>1. f[next[x]] \in R
          BY <2>1, <2>2, <4>2
        <5> QED BY <2>2, <4>2, <5>1
      <4> QED BY <4>1, <4>2
    <3> QED BY <3>1
  <2>4. g \in [Below(k + 1) -> R]
    BY <2>3, Zenon
  <2>5. \A x \in Below(k) : x \in Below(k + 1)
    OBVIOUS
  <2>6. \A x \in Below(k) : g[x] = f[x]
    BY <2>1, <2>5
  <2>7. \A x \in Below(k + 1) : g[x] = Value(g, x)
    <3>1. ASSUME NEW x \in Below(k + 1) PROVE g[x] = Value(g, x)
      <4>1. g[x] = Value(f, x)
        BY <3>1
      <4>2. x \notin stop => g[next[x]] = f[next[x]]
        BY <2>2, <2>6
      <4> HIDE DEF g, Below
      <4> QED BY <4>1, <4>2
    <3> QED BY <3>1
  <2>8. Solves(g, k + 1)
    <3> HIDE DEF g
    <3> QED BY <2>4, <2>7
  <2> HIDE DEF g, Solves
  <2> QED BY <2>8
<1>3. \A k \in Nat : \E f : Solves(f, k)
  <2>1. \A k \in Nat : k \in Solved
    <3> HIDE DEF Solved
    <3> QED BY <1>1, <1>2, Upward
  <2> HIDE DEF Solves
  <2> QED BY <2>1
<1> DEFINE F(k) == CHOOSE f : Solves(f, k)
<1>4. \A k \in Nat : Solves(F(k), k)
  <2> HIDE DEF Solves
  <2> QED BY <1>3
<1>5. ASSUME NEW k \in Nat, NEW l \in Nat
      PROVE  \A x \in D : x \in Below(k) /\ x \in Below(l) => F(k)[x] = F(l)[x]
  <2> DEFINE Same == {n \in Nat : \A x \in D : mu[x] < n /\ x \in Below(k) /\ x \in Below(l) => F(k)[x] = F(l)[x]}
  <2> HIDE DEF F
  <2>1. 0 \in Same
    OBVIOUS
  <2>2. \A n \in Nat : n \in Same => n + 1 \in Same
    <3> SUFFICES ASSUME NEW n \in Nat, n \in Same,
                        NEW x \in D, mu[x] < n + 1, x \in Below(k), x \in Below(l)
                 PROVE  F(k)[x] = F(l)[x]
      OBVIOUS
    <3>1. F(k)[x] = Value(F(k), x) /\ F(l)[x] = Value(F(l), x)
      BY <1>4
    <3>2. x \notin stop => F(k)[next[x]] = F(l)[next[x]]
      <4> SUFFICES ASSUME x \notin stop PROVE F(k)[next[x]] = F(l)[next[x]]
        OBVIOUS
      <4>1. next[x] \in D /\ mu[next[x]] < n /\ mu[next[x]] < k /\ mu[next[x]] < l
        BY SMT
      <4> QED BY <4>1
    <3> QED BY <3>1, <3>2
  <2>3. \A n \in Nat : n \in Same
    <3> HIDE DEF Same
    <3> QED BY <2>1, <2>2, Upward
  <2>4. \A x \in D : mu[x] < mu[x] + 1 /\ mu[x] + 1 \in Nat
    OBVIOUS
  <2> QED BY <2>3, <2>4
<1> DEFINE f == [x \in D |-> F(mu[x] + 1)[x]]
<1>6. \A x \in D : mu[x] + 1 \in Nat /\ x \in Below(mu[x] + 1)
  OBVIOUS
<1>7. f \in [D -> R]
  <2>1. \A x \in D : F(mu[x] + 1)[x] \in R
    <3> HIDE DEF F, Below
    <3> QED BY <1>4, <1>6
  <2> HIDE DEF F
  <2> QED BY <2>1, Zenon
<1>8. \A x \in D : f[x] = Value(f, x)
  <2>1. ASSUME NEW x \in D PROVE f[x] = Value(f, x)
    <3> DEFINE k == mu[x] + 1
    <3>1. f[x] = F(k)[x] /\ F(k)[x] = Value(F(k), x)
      <4> HIDE DEF F, Below
      <4> QED BY <1>4, <1>6
    <3>2. ASSUME x \notin stop PROVE f[next[x]] = F(k)[next[x]]
      <4> DEFINE y == next[x]
                 l == mu[y] + 1
      <4>1. y \in D /\ mu[y] < mu[x]
        BY <3>2
      <4> HIDE DEF y
      <4>2. y \in Below(k) /\ y \in Below(l) /\ k \in Nat /\ l \in Nat
        BY <4>1
      <4>3. f[y] = F(l)[y]
        BY <4>1
      <4> HIDE DEF F, k, l, Below
      <4>4. F(l)[y] = F(k)[y]
        BY <1>5, <4>1, <4>2
      <4> QED BY <4>3, <4>4 DEF y
    <3> HIDE DEF F, k, f
    <3> QED BY <3>1, <3>2
  <2> QED BY <2>1
<1>9. f = [x \in D |-> f[x]]
  OBVIOUS
<1> HIDE DEF f
<1>10. Recurs(f, D, stop, base, next, made)
  BY <1>8, <1>9, Zenon DEF Recurs
<1> QED BY <1>7, <1>10

(* The question stays the same. *)
LEMMA NothingChanges == [Next]_question => question' = question
  BY DEF Next

-----------------------------------------------------------------------------
(* Dates *)

(* The first day of a year in closed form *)
FirstDayOf(y) == 365 * y + (y - 1) \div 4 - (y - 1) \div 100 + (y - 1) \div 400 + 1721061

(* A divisor of y makes the quotients of y and y - 1 differ. *)
LEMMA Quotients ==
  ASSUME NEW y \in Int
  PROVE  /\ y \div 4 = (y - 1) \div 4 + IF y % 4 = 0 THEN 1 ELSE 0
         /\ y \div 100 = (y - 1) \div 100 + IF y % 100 = 0 THEN 1 ELSE 0
         /\ y \div 400 = (y - 1) \div 400 + IF y % 400 = 0 THEN 1 ELSE 0
OBVIOUS

(* What is divisible by 400 is by 100, and what is by 100 is by 4. *)
LEMMA LeapFacts ==
  ASSUME NEW y \in Int
  PROVE  /\ y % 100 = 0 => y % 4 = 0
         /\ y % 400 = 0 => y % 100 = 0
         /\ y \div 4 \in Int /\ y \div 100 \in Int /\ y \div 400 \in Int
OBVIOUS

(* The closed form counts days from year to year. *)
LEMMA FirstDayOfStep ==
  ASSUME NEW y \in Int
  PROVE  FirstDayOf(y + 1) = FirstDayOf(y) + YearLength(y)
<1>1. (y + 1) - 1 = y
  OBVIOUS
<1>2. (y - 1) \div 4 \in Int /\ (y - 1) \div 100 \in Int /\ (y - 1) \div 400 \in Int
  OBVIOUS
<1> QED
  BY <1>1, <1>2, Quotients, LeapFacts, SMT DEF FirstDayOf, YearLength, IsLeap

FirstDayEquation(f) ==
  f = [y \in Int |-> IF y = Epoch THEN DayOfEpoch
                     ELSE IF y > Epoch THEN f[y - 1] + YearLength(y - 1)
                     ELSE f[y + 1] - YearLength(y)]

(* So the reference definition has a value, *)
LEMMA FirstDayDefined == FirstDayEquation(FirstDay)
<1> DEFINE w == [y \in Int |-> FirstDayOf(y)]
<1>1. ASSUME NEW y \in Int
      PROVE  w[y] = IF y = Epoch THEN DayOfEpoch
                     ELSE IF y > Epoch THEN w[y - 1] + YearLength(y - 1)
                     ELSE w[y + 1] - YearLength(y)
  <2>0. w[y] = FirstDayOf(y) /\ w[y - 1] = FirstDayOf(y - 1) /\ w[y + 1] = FirstDayOf(y + 1)
    OBVIOUS
  <2> HIDE DEF w
  <2>1. FirstDayOf(Epoch) = DayOfEpoch
    BY SMT DEF FirstDayOf, DayOfEpoch, Epoch
  <2>2. FirstDayOf(y) = FirstDayOf(y - 1) + YearLength(y - 1)
    <3>1. y - 1 \in Int /\ (y - 1) + 1 = y
      OBVIOUS
    <3> QED BY <3>1, FirstDayOfStep
  <2>3. FirstDayOf(y + 1) = FirstDayOf(y) + YearLength(y)
    BY FirstDayOfStep
  <2>4. FirstDayOf(y) \in Int /\ YearLength(y) \in Int
    BY SMT DEF FirstDayOf, YearLength
  <2> QED BY <2>0, <2>1, <2>2, <2>3, <2>4
<1>2. w = [y \in Int |-> w[y]]
  OBVIOUS
<1> HIDE DEF w
<1>3. FirstDayEquation(w)
  BY <1>1, <1>2, Zenon DEF FirstDayEquation
<1> QED BY <1>3, Zenon DEF FirstDay, FirstDayEquation

DaysBeforeOf(y, m) ==
  IF m <= 2 THEN 31 * (m - 1) ELSE (153 * (m - 3) + 2) \div 5 + IF IsLeap(y) THEN 60 ELSE 59

DaysBeforeEquation(f, y) ==
  f = [m \in 1..12 |-> IF m = 1 THEN 0 ELSE f[m - 1] + MonthLength(y, m - 1)]

(* The same for the months of a year *)
LEMMA DaysBeforeOfStep ==
  ASSUME NEW y \in Int, NEW m \in 1..12, m # 1
  PROVE  DaysBeforeOf(y, m) = DaysBeforeOf(y, m - 1) + MonthLength(y, m - 1)
<1>1. m \in {2, 3, 4, 5, 6, 7, 8, 9, 10, 11, 12}
  OBVIOUS
<1> QED BY <1>1 DEF DaysBeforeOf, MonthLength

(* The days before a month are defined, *)
LEMMA DaysBeforeDefined ==
  ASSUME NEW y \in Int
  PROVE  DaysBeforeEquation(DaysBefore(y), y)
<1> DEFINE w == [m \in 1..12 |-> DaysBeforeOf(y, m)]
<1>1. ASSUME NEW m \in 1..12
      PROVE  w[m] = IF m = 1 THEN 0 ELSE w[m - 1] + MonthLength(y, m - 1)
  <2>1. w[m] = DaysBeforeOf(y, m) /\ (m # 1 => w[m - 1] = DaysBeforeOf(y, m - 1))
    OBVIOUS
  <2>2. DaysBeforeOf(y, 1) = 0
    BY DEF DaysBeforeOf
  <2> HIDE DEF w
  <2> QED BY <2>1, <2>2, DaysBeforeOfStep
<1>2. w = [m \in 1..12 |-> w[m]]
  OBVIOUS
<1> HIDE DEF w
<1>3. DaysBeforeEquation(w, y)
  BY <1>1, <1>2, Zenon DEF DaysBeforeEquation
<1> QED BY <1>3, Zenon DEF DaysBefore, DaysBeforeEquation

(* Both are what their closed forms say. *)
LEMMA FirstDayClosed == \A y \in Int : FirstDay[y] = FirstDayOf(y)
<1>0. Epoch \in Int
  BY DEF Epoch
<1> DEFINE Up == {n \in Nat : FirstDay[Epoch + n] = FirstDayOf(Epoch + n)}
           Down == {n \in Nat : FirstDay[Epoch - n] = FirstDayOf(Epoch - n)}
<1>1. ASSUME NEW y \in Int
      PROVE  FirstDay[y] = IF y = Epoch THEN DayOfEpoch
                           ELSE IF y > Epoch THEN FirstDay[y - 1] + YearLength(y - 1)
                           ELSE FirstDay[y + 1] - YearLength(y)
  BY FirstDayDefined, Zenon DEF FirstDayEquation
<1>2. FirstDayOf(Epoch) = DayOfEpoch
  BY SMT DEF FirstDayOf, DayOfEpoch, Epoch
<1>3. \A y \in Int : FirstDayOf(y + 1) = FirstDayOf(y) + YearLength(y)
  BY FirstDayOfStep
<1>4. \A y \in Int : FirstDayOf(y) \in Int /\ YearLength(y) \in Int
  BY SMT DEF FirstDayOf, YearLength
<1>5. 0 \in Up /\ 0 \in Down
  BY <1>0, <1>1, <1>2
<1>6. \A n \in Nat : n \in Up => n + 1 \in Up
  <2> SUFFICES ASSUME NEW n \in Nat, FirstDay[Epoch + n] = FirstDayOf(Epoch + n)
               PROVE  FirstDay[Epoch + (n + 1)] = FirstDayOf(Epoch + (n + 1))
    OBVIOUS
  <2> DEFINE z == Epoch + n
  <2>1. z \in Int /\ z + 1 \in Int /\ z + 1 > Epoch /\ (z + 1) - 1 = z /\ Epoch + (n + 1) = z + 1
    BY <1>0
  <2>2. FirstDay[z] = FirstDayOf(z)
    OBVIOUS
  <2> HIDE DEF z
  <2>3. FirstDay[z + 1] = FirstDay[z] + YearLength(z)
    <3>1. FirstDay[z + 1] = FirstDay[(z + 1) - 1] + YearLength((z + 1) - 1)
      BY <1>1, <2>1
    <3> QED BY <3>1, <2>1
  <2>4. FirstDay[z + 1] = FirstDayOf(z + 1)
    BY <1>3, <2>1, <2>2, <2>3
  <2> QED BY <2>1, <2>4
<1>7. \A n \in Nat : n \in Down => n + 1 \in Down
  <2> SUFFICES ASSUME NEW n \in Nat, FirstDay[Epoch - n] = FirstDayOf(Epoch - n)
               PROVE  FirstDay[Epoch - (n + 1)] = FirstDayOf(Epoch - (n + 1))
    OBVIOUS
  <2> DEFINE z == Epoch - (n + 1)
  <2>1. z \in Int /\ z < Epoch /\ z + 1 = Epoch - n
    BY <1>0
  <2>2. FirstDay[z + 1] = FirstDayOf(z + 1)
    BY <2>1
  <2> HIDE DEF z
  <2>3. FirstDay[z] = FirstDay[z + 1] - YearLength(z)
    BY <1>0, <1>1, <2>1
  <2>4. FirstDay[z] = FirstDayOf(z)
    BY <1>3, <1>4, <2>1, <2>2, <2>3
  <2> QED BY <2>4 DEF z
<1> HIDE DEF Up, Down
<1>8. \A n \in Nat : n \in Up
  BY <1>5, <1>6, Upward
<1>9. \A n \in Nat : n \in Down
  BY <1>5, <1>7, Upward
<1>10. ASSUME NEW y \in Int PROVE FirstDay[y] = FirstDayOf(y)
  <2>1. CASE y >= Epoch
    <3>1. PICK n \in Nat : y = Epoch + n
      <4>1. y - Epoch \in Nat
        BY <1>0, <2>1
      <4> WITNESS y - Epoch \in Nat
      <4> QED BY <1>0
    <3> QED BY <3>1, <1>8 DEF Up
  <2>2. CASE ~ (y >= Epoch)
    <3>1. PICK n \in Nat : y = Epoch - n
      <4>1. Epoch - y \in Nat
        BY <1>0, <2>2
      <4> WITNESS Epoch - y \in Nat
      <4> QED BY <1>0
    <3> QED BY <3>1, <1>9 DEF Down
  <2> QED BY <2>1, <2>2
<1> QED BY <1>10

(* and are those of the closed form. *)
LEMMA DaysBeforeClosed ==
  ASSUME NEW y \in Int, NEW m \in 1..12
  PROVE  DaysBefore(y)[m] = DaysBeforeOf(y, m)
<1> DEFINE f == DaysBefore(y)
<1>1. \A k \in 1..12 : f[k] = IF k = 1 THEN 0 ELSE f[k - 1] + MonthLength(y, k - 1)
  BY DaysBeforeDefined, Zenon DEF DaysBeforeEquation
<1>2. DaysBeforeOf(y, 1) = 0
  BY DEF DaysBeforeOf
<1>3. \A k \in 1..12 : k # 1 => DaysBeforeOf(y, k) = DaysBeforeOf(y, k - 1) + MonthLength(y, k - 1)
  BY DaysBeforeOfStep
<1> DEFINE Good == {n \in Nat : n + 1 \in 1..12 => f[n + 1] = DaysBeforeOf(y, n + 1)}
<1> HIDE DEF f
<1>4. 0 \in Good
  BY <1>1, <1>2
<1>5. \A n \in Nat : n \in Good => n + 1 \in Good
  <2> SUFFICES ASSUME NEW n \in Nat, n \in Good, (n + 1) + 1 \in 1..12
               PROVE  f[(n + 1) + 1] = DaysBeforeOf(y, (n + 1) + 1)
    OBVIOUS
  <2> DEFINE k == n + 2
  <2>1. k \in 1..12 /\ k # 1 /\ k - 1 = n + 1 /\ n + 1 \in 1..12 /\ k = (n + 1) + 1
    OBVIOUS
  <2>2. f[k - 1] = DaysBeforeOf(y, k - 1)
    BY <2>1
  <2> HIDE DEF k
  <2> QED BY <1>1, <1>3, <2>1, <2>2
<1> HIDE DEF Good
<1>6. \A n \in Nat : n \in Good
  BY <1>4, <1>5, Upward
<1>7. m - 1 \in Nat /\ (m - 1) + 1 = m
  OBVIOUS
<1> QED BY <1>6, <1>7 DEF Good, f

(* The algorithm counts years from the first of March of 4801 BC, so that a   *)
(* leap day is the last of its year: the year and the month of a date in that *)
(* count                                                                      *)
MarchYear(y, m)  == IF m <= 2 THEN y + 4799 ELSE y + 4800
MarchMonth(m)    == IF m <= 2 THEN m + 9 ELSE m - 3

(* The days of that year before this one *)
DaysSinceMarch(m, d) == (153 * MarchMonth(m) + 2) \div 5 + d - 1

(* The days before year n of that count *)
DaysBeforeMarch(n) == 365 * n + n \div 4 - n \div 100 + n \div 400

(* A year of which the dates of 4801 BC and before are no concern *)
IsDate(y, m, d) == y \in Int /\ y > -4800 /\ m \in 1..12 /\ d \in 1..MonthLength(y, m)

(* The parts of a date counted from March *)
LEMMA DateTypes ==
  ASSUME NEW y, NEW m, NEW d, IsDate(y, m, d)
  PROVE  /\ y \in Int /\ m \in 1..12 /\ d \in 1..31
         /\ MarchYear(y, m) \in Nat /\ MarchMonth(m) \in 0..11
         /\ DaysSinceMarch(m, d) \in 0..365
<1>1. y \in Int /\ y > -4800 /\ m \in 1..12
  BY DEF IsDate
<1>2. d \in 1..31
  BY <1>1, SMT DEF IsDate, MonthLength
<1>3. MarchYear(y, m) \in Nat /\ MarchMonth(m) \in 0..11
  BY <1>1, SMT DEF MarchYear, MarchMonth
<1>4. DaysSinceMarch(m, d) \in Int
  BY <1>2, <1>3, SMT DEF DaysSinceMarch
<1>5. DaysSinceMarch(m, d) >= 0
  BY <1>2, <1>3, SMT DEF DaysSinceMarch
<1>6. DaysSinceMarch(m, d) <= 365
  <2>1. CASE m = 2
    <3>1. d \in 1..29
      BY <1>1, <2>1, SMT DEF IsDate, MonthLength
    <3> QED BY <2>1, <3>1, SMT DEF DaysSinceMarch, MarchMonth
  <2>2. CASE m # 2
    <3>1. MarchMonth(m) \in 0..10
      BY <1>1, <2>2, SMT DEF MarchMonth
    <3> QED BY <1>2, <3>1, SMT DEF DaysSinceMarch
  <2> QED BY <2>1, <2>2
<1> QED BY <1>1, <1>2, <1>3, <1>4, <1>5, <1>6

(* What getJulianDayNumber() computes *)
LEMMA JulianDayByMarch ==
  ASSUME NEW y, NEW m, NEW d, IsDate(y, m, d)
  PROVE  getJulianDayNumber(y, m, d) =
           DaysSinceMarch(m, d) + DaysBeforeMarch(MarchYear(y, m)) - 32044
<1> DEFINE a == CDiv(14 - m, 12)
           n == y + 4800 - a
           k == m + 12 * a - 3
<1>1. y \in Int /\ y > -4800 /\ m \in 1..12 /\ d \in Int
  BY DateTypes DEF IsDate
<1>2. a = IF m <= 2 THEN 1 ELSE 0
  BY <1>1, SMT DEF CDiv
<1>3. getJulianDayNumber(y, m, d) =
        d + CDiv(153 * k + 2, 5) + n * 365 + CDiv(n, 4) - CDiv(n, 100) + CDiv(n, 400) - 32045
  BY DEF getJulianDayNumber
<1>4. n = MarchYear(y, m) /\ k = MarchMonth(m)
  BY <1>1, <1>2, SMT DEF MarchYear, MarchMonth
<1>5. n >= 0 /\ k >= 0 /\ n \in Int /\ k \in Int
  BY <1>4, DateTypes
<1> HIDE DEF n, k
<1>6. CDiv(153 * k + 2, 5) = (153 * k + 2) \div 5 /\ CDiv(n, 4) = n \div 4
      /\ CDiv(n, 100) = n \div 100 /\ CDiv(n, 400) = n \div 400
  BY <1>5, SMT DEF CDiv
<1>7. (153 * k + 2) \div 5 \in Int /\ n \div 4 \in Int /\ n \div 100 \in Int /\ n \div 400 \in Int
  BY <1>5, SMT
<1>8. DaysBeforeMarch(n) = 365 * n + n \div 4 - n \div 100 + n \div 400
      /\ DaysSinceMarch(m, d) = (153 * k + 2) \div 5 + d - 1
  BY <1>4 DEF DaysBeforeMarch, DaysSinceMarch
<1> QED
  BY <1>1, <1>3, <1>4, <1>5, <1>6, <1>7, <1>8, SMT

(* getJulianDayNumber() counts days. *)
LEMMA JulianDay ==
  ASSUME NEW y, NEW m, NEW d, IsDate(y, m, d)
  PROVE  getJulianDayNumber(y, m, d) = FirstDay[y] + (DaysBefore(y)[m] - 1 + d)
<1>1. y \in Int /\ m \in 1..12 /\ d \in Int
  BY DateTypes
<1>2. FirstDay[y] = FirstDayOf(y) /\ DaysBefore(y)[m] = DaysBeforeOf(y, m)
  BY <1>1, FirstDayClosed, DaysBeforeClosed
<1>3. ASSUME m <= 2
      PROVE  DaysSinceMarch(m, d) + DaysBeforeMarch(MarchYear(y, m)) - 32044
             = FirstDayOf(y) + (DaysBeforeOf(y, m) - 1 + d)
  <2>1. MarchYear(y, m) = y + 4799 /\ DaysBeforeOf(y, m) = 31 * (m - 1)
    BY <1>3 DEF MarchYear, DaysBeforeOf
  <2>2. DaysSinceMarch(m, d) = 31 * (m - 1) + 306 + d - 1
    BY <1>1, <1>3, SMT DEF DaysSinceMarch, MarchMonth
  <2>3. (y + 4799) \div 4 = (y - 1) \div 4 + 1200 /\ (y + 4799) \div 100 = (y - 1) \div 100 + 48
        /\ (y + 4799) \div 400 = (y - 1) \div 400 + 12
    BY <1>1, SMT
  <2>4. (y - 1) \div 4 \in Int /\ (y - 1) \div 100 \in Int /\ (y - 1) \div 400 \in Int
    BY <1>1, SMT
  <2> QED BY <1>1, <2>1, <2>2, <2>3, <2>4, SMT DEF DaysBeforeMarch, FirstDayOf
<1>4. ASSUME ~ (m <= 2)
      PROVE  DaysSinceMarch(m, d) + DaysBeforeMarch(MarchYear(y, m)) - 32044
             = FirstDayOf(y) + (DaysBeforeOf(y, m) - 1 + d)
  <2>1. MarchYear(y, m) = y + 4800
    BY <1>4 DEF MarchYear
  <2>2. DaysSinceMarch(m, d) = (153 * (m - 3) + 2) \div 5 + d - 1
    BY <1>4 DEF DaysSinceMarch, MarchMonth
  <2>3. DaysBeforeOf(y, m) = (153 * (m - 3) + 2) \div 5 + IF IsLeap(y) THEN 60 ELSE 59
    BY <1>4 DEF DaysBeforeOf
  <2>4. (y + 4800) \div 4 = y \div 4 + 1200 /\ (y + 4800) \div 100 = y \div 100 + 48
        /\ (y + 4800) \div 400 = y \div 400 + 12
    BY <1>1, SMT
  <2>5. /\ (y - 1) \div 4 \in Int /\ (y - 1) \div 100 \in Int /\ (y - 1) \div 400 \in Int
        /\ (153 * (m - 3) + 2) \div 5 \in Int
    BY <1>1, SMT
  <2>6. y \div 4 - y \div 100 + y \div 400 =
          (y - 1) \div 4 - (y - 1) \div 100 + (y - 1) \div 400 + IF IsLeap(y) THEN 1 ELSE 0
    BY <1>1, <2>5, Quotients, LeapFacts, SMT DEF IsLeap
  <2>7. y \div 4 \in Int /\ y \div 100 \in Int /\ y \div 400 \in Int
    BY <1>1, SMT
  <2>8. DaysBeforeMarch(y + 4800) = 365 * (y + 4800) + (y \div 4 + 1200) - (y \div 100 + 48) + (y \div 400 + 12)
    BY <2>4 DEF DaysBeforeMarch
  <2>9. FirstDayOf(y) = 365 * y + (y - 1) \div 4 - (y - 1) \div 100 + (y - 1) \div 400 + 1721061
    BY DEF FirstDayOf
  <2> QED BY <1>1, <2>1, <2>2, <2>3, <2>5, <2>6, <2>7, <2>8, <2>9, SMT
<1> QED BY <1>2, <1>3, <1>4, JulianDayByMarch

(* The last day of a year of that count is the leap day of the next year. *)
LeapDayNext(n) == n % 4 = 3 /\ (n % 100 # 99 \/ n % 400 = 399)

(* The last day of a year that begins in March is a leap day. *)
LEMMA LeapDay ==
  ASSUME NEW y, NEW m, NEW d, IsDate(y, m, d), DaysSinceMarch(m, d) = 365
  PROVE  LeapDayNext(MarchYear(y, m))
<1>1. y \in Int /\ m \in 1..12 /\ d \in 1..31
  BY DateTypes
<1>2. m = 2
  <2>1. ASSUME m # 2 PROVE FALSE
    <3>1. MarchMonth(m) \in 0..10
      BY <1>1, <2>1, SMT DEF MarchMonth
    <3> QED BY <1>1, <3>1, SMT DEF DaysSinceMarch
  <2> QED BY <2>1
<1>3. d = 29
  BY <1>1, <1>2, SMT DEF DaysSinceMarch, MarchMonth
<1>4. IsLeap(y)
  BY <1>2, <1>3, SMT DEF IsDate, MonthLength
<1>5. MarchYear(y, m) = y + 4799
  BY <1>2 DEF MarchYear
<1>6. (y % 4 = 0 => (y + 4799) % 4 = 3) /\ (y % 100 # 0 => (y + 4799) % 100 # 99)
      /\ (y % 400 = 0 => (y + 4799) % 400 = 399)
  BY <1>1, SMT
<1> QED BY <1>4, <1>5, <1>6 DEF IsLeap, LeapDayNext

(* The centuries, the years and the days come apart. *)
ComesApart(n, e) ==
  LET a == e + DaysBeforeMarch(n)
      c == e + 365 * (n % 100) + (n % 100) \div 4
  IN  /\ a \in Nat /\ c \in Nat
      /\ (4 * a + 3) \div 146097 = n \div 100
      /\ a - ((n \div 100) * 146097) \div 4 = c
      /\ (4 * c + 3) \div 1461 = n % 100
      /\ c - (1461 * (n % 100)) \div 4 = e

(* A year and a day in it come back from the days before them. *)
LEMMA Centuries ==
  ASSUME NEW n \in Nat, NEW e \in 0..365, e = 365 => LeapDayNext(n)
  PROVE  ComesApart(n, e)
<1> DEFINE a == e + DaysBeforeMarch(n)
           c == e + 365 * (n % 100) + (n % 100) \div 4
<1>1. PICK b \in Nat, d \in 0..99 : n = 100 * b + d /\ b = n \div 100 /\ d = n % 100
  <2>1. n \div 100 \in Nat /\ n % 100 \in 0..99 /\ n = 100 * (n \div 100) + (n % 100)
    BY SMT
  <2> QED BY <2>1, SMT
<1>2. PICK g \in Nat, h \in 0..3 : b = 4 * g + h
  <2>1. b \div 4 \in Nat /\ b % 4 \in 0..3 /\ b = 4 * (b \div 4) + (b % 4)
    BY SMT
  <2> QED BY <2>1, SMT
<1>3. PICK p \in 0..24, q \in 0..3 : d = 4 * p + q
  <2>1. d \div 4 \in 0..24 /\ d % 4 \in 0..3 /\ d = 4 * (d \div 4) + (d % 4)
    BY SMT
  <2> QED BY <2>1, SMT
<1>4. n \div 4 = 25 * b + p /\ n \div 400 = g /\ d \div 4 = p
  <2>1. n = 4 * (25 * b + p) + q /\ n = 400 * g + (100 * h + d)
    BY <1>1, <1>2, <1>3, SMTT(30)
  <2> DEFINE v == 25 * b + p
             w == 100 * h + d
  <2>2. v \in Nat /\ w \in 0..399
    BY <1>1, <1>2, <1>3, SMT
  <2> HIDE DEF v, w
  <2>3. (4 * v + q) \div 4 = v /\ (400 * g + w) \div 400 = g /\ (4 * p + q) \div 4 = p
    BY <1>2, <1>3, <2>2, SMTT(30)
  <2> QED BY <1>3, <2>1, <2>3 DEF v, w
<1>5. a = e + 36500 * b + 365 * d + 25 * b + p - b + g
  BY <1>1, <1>4, SMT DEF DaysBeforeMarch
<1>6. c = e + 365 * d + p
  BY <1>1, <1>4, SMT
<1>7. e = 365 => q = 3 /\ (d = 99 => h = 3)
  <2> SUFFICES ASSUME e = 365 PROVE q = 3 /\ (d = 99 => h = 3)
    OBVIOUS
  <2>1. n % 4 = q /\ n % 400 = 100 * h + d
    <3>1. n = 4 * (25 * b + p) + q /\ n = 400 * g + (100 * h + d)
      BY <1>1, <1>2, <1>3, SMT
    <3> DEFINE v == 25 * b + p
               w == 100 * h + d
    <3>2. v \in Nat /\ w \in 0..399
      BY <1>1, <1>2, <1>3, SMT
    <3> HIDE DEF v, w
    <3>3. (4 * v + q) % 4 = q /\ (400 * g + w) % 400 = w
      BY <1>2, <1>3, <3>2, SMT
    <3> QED BY <3>1, <3>3 DEF v, w
  <2> QED BY <1>1, <1>2, <1>3, <2>1, SMT DEF LeapDayNext
<1> HIDE DEF a, c
<1>8. a \in Nat /\ c \in Nat
  BY <1>1, <1>2, <1>3, <1>5, <1>6, SMT
<1>9. 4 * a + 3 = 146097 * b + (3 - h + 4 * c)
  BY <1>2, <1>5, <1>6, SMT
<1>10. 4 * c + 3 = 1461 * d + (3 - q + 4 * e)
  BY <1>3, <1>6, SMT
<1>11. 3 - q + 4 * e \in 0..1460
  BY <1>3, <1>7, SMT
<1>12. 3 - h + 4 * c >= 0 /\ 3 - h + 4 * c < 146097
  <2>1. CASE d = 99
    <3>1. p = 24 /\ q = 3
      BY <1>3, <2>1, SMT
    <3> QED BY <1>2, <1>6, <1>7, <2>1, <3>1, SMT
  <2>2. CASE d # 99
    BY <1>1, <1>2, <1>3, <1>6, <2>2, SMT
  <2> QED BY <2>1, <2>2, SMT
<1>13. (4 * a + 3) \div 146097 = b
  <2> DEFINE r == 3 - h + 4 * c
  <2>1. r \in Int /\ r >= 0 /\ r < 146097 /\ 4 * a + 3 = 146097 * b + r
    BY <1>2, <1>8, <1>9, <1>12, SMT
  <2> HIDE DEF r
  <2>2. (146097 * b + r) \div 146097 = b
    BY <2>1, SMT
  <2> QED BY <2>1, <2>2, SMT
<1>14. (4 * c + 3) \div 1461 = d
  <2> DEFINE r == 3 - q + 4 * e
  <2>1. r \in 0..1460 /\ 4 * c + 3 = 1461 * d + r
    BY <1>10, <1>11, SMT
  <2> HIDE DEF r
  <2>2. (1461 * d + r) \div 1461 = d
    BY <2>1, SMT
  <2> QED BY <2>1, <2>2, SMT
<1>15. (b * 146097) \div 4 = 36524 * b + g
  <2> DEFINE v == 36524 * b + g
  <2>1. v \in Int /\ b * 146097 = 4 * v + h
    BY <1>1, <1>2, SMT
  <2> HIDE DEF v
  <2>2. (4 * v + h) \div 4 = v
    BY <1>2, <2>1, SMTT(30)
  <2> QED BY <2>1, <2>2 DEF v
<1>16. (1461 * d) \div 4 = 365 * d + p
  <2> DEFINE v == 365 * d + p
  <2>1. v \in Int /\ 1461 * d = 4 * v + q
    BY <1>1, <1>3, SMTT(30)
  <2> HIDE DEF v
  <2>2. (4 * v + q) \div 4 = v
    BY <1>3, <2>1, SMT
  <2> QED BY <2>1, <2>2 DEF v
<1>17. a - (b * 146097) \div 4 = c
  BY <1>1, <1>2, <1>3, <1>5, <1>6, <1>15, SMT
<1>18. c - (1461 * d) \div 4 = e
  BY <1>1, <1>3, <1>6, <1>16, SMT
<1> QED BY <1>1, <1>8, <1>13, <1>14, <1>17, <1>18, SMT DEF a, c, ComesApart

(* getYearMonthDay() finds the date of a day. *)
LEMMA DateOfDay ==
  ASSUME NEW y, NEW m, NEW d, IsDate(y, m, d)
  PROVE  getYearMonthDay(getJulianDayNumber(y, m, d)) = [year |-> y, month |-> m, day |-> d]
<1> DEFINE n == MarchYear(y, m)
           k == MarchMonth(m)
           s == DaysSinceMarch(m, d)
           aa == s + DaysBeforeMarch(n)
           bb == n \div 100
           dd == n % 100
           cc == s + 365 * dd + dd \div 4
<1>1. y \in Int /\ m \in 1..12 /\ d \in 1..31 /\ n \in Nat /\ k \in 0..11 /\ s \in 0..365
  BY DateTypes, SMT
<1>2. s = 365 => LeapDayNext(n)
  BY LeapDay, SMT
<1>3. s = (153 * k + 2) \div 5 + d - 1
  BY SMT DEF DaysSinceMarch
<1>4. n = 100 * bb + dd /\ bb \in Nat /\ dd \in Nat
  BY <1>1, SMT
<1>5. n = IF m <= 2 THEN y + 4799 ELSE y + 4800
  BY SMT DEF MarchYear
<1>6. k = IF m <= 2 THEN m + 9 ELSE m - 3
  BY SMT DEF MarchMonth
<1>7. getJulianDayNumber(y, m, d) + 32044 = aa
  <2>1. getJulianDayNumber(y, m, d) = DaysSinceMarch(m, d) + DaysBeforeMarch(MarchYear(y, m)) - 32044
    <3> HIDE DEF n, k, s, aa, bb, cc, dd
    <3> QED BY JulianDayByMarch
  <2>2. DaysSinceMarch(m, d) \in Int /\ DaysBeforeMarch(MarchYear(y, m)) \in Int
    BY <1>1, SMT DEF DaysBeforeMarch
  <2> QED BY <2>1, <2>2, SMT
<1> HIDE DEF n, k, s
<1>8. /\ aa \in Nat /\ cc \in Nat
      /\ (4 * aa + 3) \div 146097 = bb
      /\ aa - (bb * 146097) \div 4 = cc
      /\ (4 * cc + 3) \div 1461 = dd
      /\ cc - (1461 * dd) \div 4 = s
  <2>1. ComesApart(n, s)
    BY <1>1, <1>2, Centuries
  <2> QED BY <2>1 DEF ComesApart, aa, bb, cc, dd
<1> HIDE DEF aa, bb, cc, dd
<1>9. CDiv(4 * aa + 3, 146097) = bb /\ CDiv(bb * 146097, 4) = (bb * 146097) \div 4
      /\ CDiv(4 * cc + 3, 1461) = dd /\ CDiv(1461 * dd, 4) = (1461 * dd) \div 4
  BY <1>4, <1>8, SMT DEF CDiv
<1>10. CDiv(5 * s + 2, 153) = k
  <2>1. 5 * s + 2 = 153 * k + (5 * d + (5 * ((153 * k + 2) \div 5) - (153 * k + 2)) - 1)
    BY <1>1, <1>3, SMT
  <2>2. 5 * s + 2 >= 0
    BY <1>1, SMT
  <2>3. (5 * s + 2) \div 153 = k
    <3> k \in {0, 1, 2, 3, 4, 5, 6, 7, 8, 9, 10, 11}
      BY <1>1, SMT
    <3>1. d <= (IF k \in {1, 3, 6, 8} THEN 30 ELSE 31)
      BY <1>1, <1>6, SMT DEF IsDate, MonthLength
    <3> QED BY <1>1, <1>3, <3>1, SMT
  <2> QED BY <2>2, <2>3, SMT DEF CDiv
<1>11. CDiv(153 * k + 2, 5) = (153 * k + 2) \div 5 /\ CDiv(k, 10) = IF m <= 2 THEN 1 ELSE 0
  BY <1>1, <1>6, SMT DEF CDiv
<1> DEFINE x == getJulianDayNumber(y, m, d)
<1>12. getYearMonthDay(x) = [year  |-> bb * 100 + dd - 4800 + CDiv(k, 10),
                             month |-> k + 3 - 12 * CDiv(k, 10),
                             day   |-> s - CDiv(153 * k + 2, 5) + 1]
  <2> HIDE DEF x
  <2>1. x + 32044 = aa
    BY <1>7, SMT DEF x
  <2> QED BY <1>8, <1>9, <1>10, <2>1, SMT DEF getYearMonthDay
<1>13. bb * 100 + dd - 4800 + CDiv(k, 10) = y /\ k + 3 - 12 * CDiv(k, 10) = m
  BY <1>1, <1>4, <1>5, <1>6, <1>11, SMT
<1>14. s - CDiv(153 * k + 2, 5) + 1 = d
  <2>1. (153 * k + 2) \div 5 \in Int
    BY <1>1, SMT
  <2> QED BY <1>1, <1>3, <1>11, <2>1, SMT
<1> QED BY <1>12, <1>13, <1>14, SMT

(* A day has 86400 seconds. *)
LEMMA SecondsOfDays ==
  ASSUME NEW days \in Int
  PROVE  kSecondsPerDay = 86400 /\ days * kSecondsPerDay = 86400 * days
  BY SMT DEF kSecondsPerDay

(* The quotient of a sum of whole days and a time of day *)
LEMMA WholeDays ==
  ASSUME NEW q \in Int, NEW r \in Int, r >= 0, r < 86400
  PROVE  (86400 * q + r) \div 86400 = q
  BY SMT

(* Dividing a time by the seconds of a day truncates towards 1970. *)
LEMMA DayDivision ==
  ASSUME NEW days \in Int, NEW s \in Int, s >= 0, s < 86400, NEW t \in Int, t = 86400 * days + s
  PROVE  /\ days >= 0 \/ s = 0 => CDiv(t, 86400) = days /\ CMod(t, 86400) = s
         /\ days < 0 /\ s > 0 => CDiv(t, 86400) = days + 1 /\ CMod(t, 86400) = s - 86400
<1>1. CASE days >= 0
  <2>1. t >= 0
    BY <1>1, SMT
  <2>2. (86400 * days + s) \div 86400 = days
    BY WholeDays
  <2>3. CDiv(t, 86400) = days
    BY <2>1, <2>2, SMT DEF CDiv
  <2>4. CMod(t, 86400) = t - 86400 * days
    BY <2>3, SMT DEF CMod
  <2> QED BY <1>1, <2>3, <2>4, SMT
<1>2. CASE days < 0 /\ s = 0
  <2>1. ~ (t >= 0) /\ t + 86400 - 1 = 86400 * days + 86399
    BY <1>2, SMT
  <2>2. (86400 * days + 86399) \div 86400 = days
    BY WholeDays, SMT
  <2>3. CDiv(t, 86400) = days
    BY <2>1, <2>2, SMT DEF CDiv
  <2>4. CMod(t, 86400) = t - 86400 * days
    BY <2>3, SMT DEF CMod
  <2> QED BY <1>2, <2>3, <2>4, SMT
<1>3. CASE days < 0 /\ s > 0
  <2>1. ~ (t >= 0) /\ t + 86400 - 1 = 86400 * (days + 1) + (s - 1)
    BY <1>3, SMT
  <2>2. (86400 * (days + 1) + (s - 1)) \div 86400 = days + 1
    <3>1. days + 1 \in Int /\ s - 1 \in Int /\ s - 1 >= 0 /\ s - 1 < 86400
      BY <1>3, SMT
    <3> QED BY <3>1, WholeDays
  <2>3. CDiv(t, 86400) = days + 1
    BY <2>1, <2>2, SMT DEF CDiv
  <2>4. CMod(t, 86400) = t - 86400 * (days + 1)
    BY <2>3, SMT DEF CMod
  <2> QED BY <1>3, <2>3, <2>4, SMT
<1> QED BY <1>1, <1>2, <1>3, SMT

(* A time of a day, of whatever sign *)
LEMMA TimeOfDay ==
  ASSUME NEW days \in Int, NEW s \in Int, s >= 0, s < kSecondsPerDay
  PROVE  DayAndSecond(days * kSecondsPerDay + s) = [days |-> days, seconds |-> s]
<1> DEFINE K == kSecondsPerDay
           t == days * K + s
<1>1. K = 86400
  BY SecondsOfDays
<1>2. days * K = 86400 * days
  BY SecondsOfDays
<1>3. t \in Int /\ t = 86400 * days + s
  <2> DEFINE start == days * K
  <2>1. start = 86400 * days
    BY <1>2
  <2> HIDE DEF start, K
  <2>2. start + s \in Int /\ start + s = 86400 * days + s
    BY <2>1, SMT
  <2> QED BY <2>2 DEF start
<1>4. s < 86400
  BY <1>1
<1> HIDE DEF t, K
<1>5. /\ days >= 0 \/ s = 0 => CDiv(t, 86400) = days /\ CMod(t, 86400) = s
      /\ days < 0 /\ s > 0 => CDiv(t, 86400) = days + 1 /\ CMod(t, 86400) = s - 86400
  BY <1>3, <1>4, DayDivision
<1>6. /\ days >= 0 \/ s = 0 => CDiv(t, K) = days /\ CMod(t, K) = s /\ ~ (s < 0)
      /\ days < 0 /\ s > 0 => CDiv(t, K) = days + 1 /\ CMod(t, K) = s - K /\ s - K < 0
  BY <1>1, <1>4, <1>5, SMT
<1>7. (days + 1) - 1 = days /\ (s - K) + K = s
  BY <1>1, SMT
<1>8. CASE days >= 0 \/ s = 0
  <2>1. DayAndSecond(t) = [days |-> days, seconds |-> s]
    BY <1>6, <1>8, Zenon DEF DayAndSecond, K
  <2> QED BY <2>1 DEF t, K
<1>9. CASE days < 0 /\ s > 0
  <2>1. DayAndSecond(t) = [days |-> days, seconds |-> s]
    BY <1>6, <1>7, <1>9, Zenon DEF DayAndSecond, K
  <2> QED BY <2>1 DEF t, K
<1> QED
  <2>1. (days >= 0 \/ s = 0) \/ (days < 0 /\ s > 0)
    BY SMT
  <2> QED BY <1>8, <1>9, <2>1

(* fillHMS() splits the seconds of a day into hours, minutes and seconds. *)
LEMMA ClockParts ==
  ASSUME NEW s \in Int
  PROVE  /\ ((s \div 60) \div 60) * 3600 + ((s \div 60) % 60) * 60 + (s % 60) = s
         /\ (s \div 60) % 60 < 60 /\ s % 60 < 60
         /\ (s \div 60) \div 60 \in Int /\ (s \div 60) % 60 \in Int /\ s % 60 \in Int
<1> DEFINE q == s \div 60
           h == q \div 60
           i == q % 60
           j == s % 60
<1>1. q \in Int /\ j \in Int /\ j < 60 /\ s = 60 * q + j
  BY SMTT(30)
<1> HIDE DEF q, j
<1>2. h \in Int /\ i \in Int /\ i < 60 /\ q = 60 * h + i
  BY <1>1, SMTT(30)
<1> HIDE DEF h, i
<1>3. h * 3600 + i * 60 + j = s
  BY <1>1, <1>2, SMTT(30)
<1> QED BY <1>1, <1>2, <1>3 DEF h, i, q, j

(* toUtcTime() and fromUtcTime() at any second of a date *)
LEMMA UtcTime ==
  ASSUME NEW y, NEW m, NEW d, IsDate(y, m, d), ValidYear(y),
         NEW s \in Int, s >= 0, s < kSecondsPerDay
  PROVE  TimeRight([year |-> y, month |-> m, day |-> d],
                   (FirstDay[y] + (DaysBefore(y)[m] - 1 + d)) - DayOfEpoch,
                   DaysBefore(y)[m] - 1 + d, s)
<1> DEFINE yday   == DaysBefore(y)[m] - 1 + d
           day    == FirstDay[y] + yday
           days   == day - DayOfEpoch
           t      == days * kSecondsPerDay + s
           tm     == toUtcTime(t)
           date   == [year |-> y, month |-> m, day |-> d]
           first  == getJulianDayNumber(y, 1, 1)
           w      == days + 4
<1> SUFFICES TimeRight(date, days, yday, s)
  OBVIOUS
<1>1. y \in Int /\ m \in 1..12 /\ d \in 1..31
  BY DateTypes
<1>2. getJulianDayNumber(y, m, d) = day
  BY JulianDay
<1>3. getYearMonthDay(day) = date
  <2> HIDE DEF day
  <2> QED BY <1>2, DateOfDay
<1>4. DaysBefore(y)[m] = DaysBeforeOf(y, m) /\ DaysBefore(y)[1] = 0
  <2>1. DaysBefore(y)[m] = DaysBeforeOf(y, m) /\ DaysBefore(y)[1] = DaysBeforeOf(y, 1)
    BY <1>1, DaysBeforeClosed
  <2> QED BY <2>1 DEF DaysBeforeOf
<1>5. FirstDay[y] = FirstDayOf(y)
  BY <1>1, FirstDayClosed
<1>6. yday \in Int /\ yday >= 0
  BY <1>1, <1>4, SMT DEF DaysBeforeOf
<1>7. FirstDay[y] \in Int /\ FirstDay[y] > 0
  BY <1>1, <1>5, SMT DEF FirstDayOf, ValidYear
<1>8. first = FirstDay[y]
  <2>1. IsDate(y, 1, 1)
    BY <1>1, SMT DEF IsDate, MonthLength, ValidYear
  <2>2. first = FirstDay[y] + (DaysBefore(y)[1] - 1 + 1)
    BY <2>1, JulianDay
  <2> HIDE DEF first
  <2> QED BY <1>4, <1>7, <2>2, SMT
<1>9. kJulianDayOf1970_01_01 = DayOfEpoch
  BY SMT DEF kJulianDayOf1970_01_01, DayOfEpoch, getJulianDayNumber, CDiv
<1> HIDE DEF yday, first
<1>10. /\ day \in Int /\ day > 0 /\ days \in Int
       /\ days + DayOfEpoch = day /\ day - DayOfEpoch = days
  BY <1>6, <1>7, SMT DEF DayOfEpoch
<1>11. kSecondsPerDay = 86400 /\ days * kSecondsPerDay = 86400 * days
  BY <1>10, SecondsOfDays
<1>12. day - first = yday
  BY <1>6, <1>7, <1>8, SMT
<1> HIDE DEF days
<1>13. DayAndSecond(t) = [days |-> days, seconds |-> s]
  BY <1>10, TimeOfDay
<1> HIDE DEF day
<1>14. weekDay(day) = w % 7
  <2>1. CMod(day + 1, 7) = (day + 1) - 7 * ((day + 1) \div 7)
    BY <1>10, SMT DEF CMod, CDiv
  <2>2. (day + 1) - 7 * ((day + 1) \div 7) = (day + 1) % 7
    BY <1>10, SMT
  <2>3. (day + 1) % 7 = w % 7
    <3>1. w \in Int /\ day + 1 = w + 7 * 348655
      BY <1>10, SMT DEF DayOfEpoch
    <3> HIDE DEF w
    <3> QED BY <3>1, SMT
  <2> QED BY <2>1, <2>2, <2>3, SMT DEF weekDay
<1> DEFINE hms == fillHMS(s)
<1>15. hms.hour = (s \div 60) \div 60 /\ hms.min = (s \div 60) % 60 /\ hms.sec = s % 60
  BY DEF fillHMS
<1>16. hms.hour * 3600 + hms.min * 60 + hms.sec = s /\ hms.min < 60 /\ hms.sec < 60
       /\ hms.hour \in Int /\ hms.min \in Int /\ hms.sec \in Int
  <2> HIDE DEF hms
  <2> QED BY <1>15, ClockParts
<1> HIDE DEF t, date, hms, w
<1>17. tm = [ymd  |-> date, hour |-> hms.hour, min |-> hms.min, sec |-> hms.sec,
             wday |-> w % 7, yday |-> yday]
  <2>1. DayAndSecond(t).days = days /\ DayAndSecond(t).seconds = s
    BY <1>13
  <2>2. DayAndSecond(t).days + kJulianDayOf1970_01_01 = day
    <3>1. days + DayOfEpoch = day
      BY <1>10
    <3> QED BY <1>9, <2>1, <3>1
  <2>3. date.year = y
    BY DEF date
  <2>4. tm = [ymd  |-> getYearMonthDay(day), hour |-> fillHMS(s).hour, min |-> fillHMS(s).min,
              sec |-> fillHMS(s).sec, wday |-> weekDay(day),
              yday |-> day - getJulianDayNumber(getYearMonthDay(day).year, 1, 1)]
    BY <2>1, <2>2, Zenon DEF toUtcTime
  <2>5. getJulianDayNumber(getYearMonthDay(day).year, 1, 1) = first
    BY <1>3, <2>3, Zenon DEF first
  <2>6. day - getJulianDayNumber(getYearMonthDay(day).year, 1, 1) = yday
    BY <1>12, <2>5
  <2> QED BY <1>3, <1>14, <2>4, <2>6, Zenon DEF hms
<1> HIDE DEF tm
<1>18. /\ tm.ymd = date /\ tm.hour = hms.hour /\ tm.min = hms.min /\ tm.sec = hms.sec
       /\ tm.wday = w % 7 /\ tm.yday = yday
  BY <1>17
<1>19. fromUtcTime(tm) = t
  <2>1. tm.ymd.year = y /\ tm.ymd.month = m /\ tm.ymd.day = d
    BY <1>18 DEF date
  <2>2. day - kJulianDayOf1970_01_01 = days
    BY <1>9, <1>10
  <2>3. fromUtcTime(tm) = days * kSecondsPerDay + hms.hour * 3600 + hms.min * 60 + hms.sec
    BY <1>2, <1>18, <2>1, <2>2, SMT DEF fromUtcTime
  <2> DEFINE start == days * kSecondsPerDay
  <2>4. start \in Int
    <3>1. 86400 * days \in Int
      BY <1>10, SMT
    <3> QED BY <1>11, <3>1
  <2>5. fromUtcTime(tm) = start + hms.hour * 3600 + hms.min * 60 + hms.sec /\ t = start + s
    BY <2>3 DEF t
  <2> HIDE DEF start
  <2>6. \A p, h, i, j \in Int : p + h * 3600 + i * 60 + j = p + (h * 3600 + i * 60 + j)
    BY SMT
  <2>7. fromUtcTime(tm) = start + (hms.hour * 3600 + hms.min * 60 + hms.sec)
    BY <1>16, <2>4, <2>5, <2>6
  <2>8. fromUtcTime(tm) = start + s
    BY <1>16, <2>7
  <2> QED BY <2>5, <2>8
<1>20. tm.hour * 3600 + tm.min * 60 + tm.sec = s /\ tm.min < 60 /\ tm.sec < 60
  BY <1>16, <1>18, SMT
<1>21. TimeRight(date, days, yday, s)
  <2>1. /\ tm.ymd = date /\ tm.wday = (days + 4) % 7 /\ tm.yday = yday
        /\ tm.hour * 3600 + tm.min * 60 + tm.sec = s /\ tm.min < 60 /\ tm.sec < 60
        /\ fromUtcTime(tm) = days * kSecondsPerDay + s
    BY <1>18, <1>19, <1>20 DEF t, w
  <2> QED BY <2>1, SMT DEF TimeRight, tm, t
<1> QED BY <1>21

(* What is true of every question asked stays true. *)
LEMMA DateAt ==
  ASSUME NEW y \in Years, NEW m \in 1..12, NEW d \in 1..MonthLength(y, m)
  PROVE  DateRight(y, m, d)
<1>1. ValidYear(y)
  BY YearsAssumption
<1>2. IsDate(y, m, d)
  BY <1>1, SMT DEF IsDate, ValidYear
<1> DEFINE yday == DaysBefore(y)[m] - 1 + d
           day  == FirstDay[y] + yday
           date == [year |-> y, month |-> m, day |-> d]
<1>3. getJulianDayNumber(y, m, d) = day
  BY <1>2, JulianDay
<1>4. getYearMonthDay(day) = date
  <2> HIDE DEF day
  <2> QED BY <1>2, <1>3, DateOfDay
<1>5. ASSUME NEW s \in Seconds PROVE TimeRight(date, day - DayOfEpoch, yday, s)
  <2>1. s \in Int /\ s >= 0 /\ s < kSecondsPerDay
    <3>1. s \in 0..(kSecondsPerDay - 1) /\ kSecondsPerDay \in Int
      BY <1>5, YearsAssumption, SecondsOfDays
    <3> QED BY <3>1, SMT
  <2> QED BY <1>1, <1>2, <2>1, UtcTime, Zenon
<1> QED BY <1>3, <1>4, <1>5, Zenon DEF DateRight

(* Every year asked for *)
LEMMA InitDates == Init => DatesRight
<1> SUFFICES ASSUME Init, question.kind = "year"
             PROVE  question.year \in Years
  BY DateAt DEF DatesRight
<1> QED BY DEF Init, ZoneQuestions

(* DatesRight for any years whose Julian day numbers are positive.            *)
(* getJulianDayNumber() counts as FirstDay does, and getYearMonthDay() and    *)
(* toUtcTime() take it apart again, however far a year is from 1970.          *)
THEOREM DatesHold == Spec => []DatesRight
<1>1. DatesRight /\ [Next]_question => DatesRight'
  BY NothingChanges DEF DatesRight
<1> QED BY <1>1, InitDates, PTL DEF Spec

-----------------------------------------------------------------------------
(* Zones *)

(* What lower_bound() finds is the last of the times that are not later, or   *)
(* the next one.                                                              *)
Past(data, gmt, sentry) == {i \in 1..Len(data.transitions) : TimeAt(data, gmt, i) <= sentry}

Ascends(data, gmt) ==
  /\ Len(data.transitions) \in Nat
  /\ \A i \in 1..Len(data.transitions) : TimeAt(data, gmt, i) \in Int
  /\ \A i, j \in 1..Len(data.transitions) : i < j => TimeAt(data, gmt, i) < TimeAt(data, gmt, j)

(* With ascending times findLocaltime() finds the last that is not later. *)
LEMMA LookupFinds ==
  ASSUME NEW data, NEW gmt \in BOOLEAN, NEW sentry \in Int, Ascends(data, gmt)
  PROVE  findLocaltime(data, gmt, sentry) =
           data.localtimes[IF Past(data, gmt, sentry) = {} THEN 1
                           ELSE data.transitions[Max(Past(data, gmt, sentry))].localtimeIdx]
<1> DEFINE n == Len(data.transitions)
           notLess == {i \in 1..n : TimeAt(data, gmt, i) >= sentry}
           past == Past(data, gmt, sentry)
           at(i) == TimeAt(data, gmt, i)
<1>1. n \in Nat /\ \A i \in 1..n : at(i) \in Int
  BY DEF Ascends
<1>2. \A i, j \in 1..n : i < j => at(i) < at(j)
  BY DEF Ascends
<1>3. past = {i \in 1..n : at(i) <= sentry}
  BY DEF Past
<1> HIDE DEF at, past, n
<1>4. CASE n = 0 \/ sentry < at(1)
  <2>1. past = {}
    <3>1. ASSUME NEW i \in past PROVE FALSE
      <4>1. i \in 1..n /\ 1 \in 1..n /\ at(i) <= sentry /\ at(i) \in Int /\ at(1) \in Int /\ sentry < at(1)
        BY <1>1, <1>3, <1>4, <3>1
      <4>2. 1 < i => at(1) < at(i)
        BY <1>2, <4>1
      <4> QED BY <4>1, <4>2
    <3> QED BY <3>1
  <2>2. findLocaltime(data, gmt, sentry) = data.localtimes[1]
    BY <1>4, Zenon DEF findLocaltime, at, n
  <2> QED BY <2>1, <2>2 DEF past
<1>5. CASE ~ (n = 0 \/ sentry < at(1))
  <2>1. 1 \in 1..n /\ at(1) <= sentry
    BY <1>1, <1>5
  <2>2. 1 \in past /\ past # {} /\ past \subseteq 1..n
    BY <1>3, <2>1
  <2>3. Max(past) \in past /\ \A i \in past : i <= Max(past)
    BY <1>1, <2>2, MaxOf
  <2>4. Max(past) = IF notLess = {} THEN n ELSE Chosen(data, gmt, Min(notLess), sentry)
    <3>1. CASE notLess = {}
      <4>1. n \in 1..n /\ n \in past
        BY <1>1, <1>3, <2>1, <3>1 DEF at, n
      <4>2. Max(past) \in 1..n /\ n <= Max(past)
        BY <2>2, <2>3, <4>1
      <4>3. Max(past) = n
        BY <4>1, <4>2
      <4> QED BY <3>1, <4>3
    <3>2. CASE notLess # {}
      <4> DEFINE b == Min(notLess)
      <4>0. notLess = {i \in 1..n : at(i) >= sentry} /\ notLess \subseteq Nat
        BY <1>1 DEF at
      <4> HIDE DEF notLess
      <4>1. b \in notLess /\ \A i \in notLess : b <= i
        BY <3>2, <4>0, MinOf
      <4> HIDE DEF b
      <4>2. b \in 1..n /\ at(b) >= sentry /\ at(b) \in Int
        BY <1>1, <4>0, <4>1
      <4>3. Chosen(data, gmt, b, sentry) = IF at(b) = sentry THEN b ELSE b - 1
        BY DEF Chosen, at
      <4>4. \A j \in 1..n : b < j => j \notin past
        <5>1. ASSUME NEW j \in 1..n, b < j PROVE ~ (at(j) <= sentry)
          <6>1. at(b) < at(j) /\ at(j) \in Int
            BY <1>1, <1>2, <4>2, <5>1
          <6> QED BY <4>2, <6>1
        <5> QED BY <1>3, <5>1
      <4>5. CASE at(b) = sentry
        <5>1. b \in past
          BY <1>3, <4>2, <4>5
        <5>2. Max(past) \in 1..n /\ ~ (b < Max(past)) /\ b <= Max(past)
          BY <2>2, <2>3, <4>4, <5>1
        <5>3. Max(past) = b
          BY <4>2, <5>2
        <5> QED BY <3>2, <4>3, <4>5, <5>3 DEF b
      <4>6. CASE at(b) # sentry
        <5>1. b \notin past /\ b # 1
          BY <1>3, <2>1, <4>2, <4>6
        <5>2. b - 1 \in 1..n /\ b - 1 \notin notLess
          BY <1>1, <4>0, <4>1, <4>2, <5>1
        <5>3. b - 1 \in past
          <6>1. at(b - 1) \in Int /\ ~ (at(b - 1) >= sentry)
            BY <1>1, <4>0, <5>2
          <6> QED BY <1>3, <5>2, <6>1
        <5>4. Max(past) \in 1..n /\ ~ (b < Max(past)) /\ Max(past) # b /\ b - 1 <= Max(past)
          BY <2>2, <2>3, <4>4, <5>1, <5>3
        <5>5. Max(past) = b - 1
          BY <4>2, <5>4
        <5> QED BY <3>2, <4>3, <4>6, <5>5 DEF b
      <4> QED BY <4>5, <4>6
    <3> QED BY <3>1, <3>2
  <2>5. findLocaltime(data, gmt, sentry) =
          data.localtimes[data.transitions[
            IF notLess = {} THEN n ELSE Chosen(data, gmt, Min(notLess), sentry)].localtimeIdx]
    BY <1>5, Zenon DEF findLocaltime, at, n
  <2> HIDE DEF notLess
  <2> QED BY <2>2, <2>4, <2>5 DEF past
<1> QED BY <1>4, <1>5

(* A zone's fields *)
LEMMA ZoneTypes ==
  ASSUME NEW z, IsZone(z)
  PROVE  /\ z = [localtimes |-> z.localtimes, transitions |-> z.transitions, abbreviation |-> z.abbreviation]
         /\ z.localtimes \in Seq(KindsOfTime) /\ Len(z.localtimes) \in Nat /\ Len(z.localtimes) >= 1
         /\ \A k \in 1..Len(z.localtimes) : z.localtimes[k] \in KindsOfTime
         /\ Len(z.transitions) \in Nat
         /\ \A i \in 1..Len(z.transitions) :
              z.transitions[i].gmttime \in Int /\ z.transitions[i].localtimeIdx \in 1..Len(z.localtimes)
         /\ \A i, j \in 1..Len(z.transitions) :
              i < j => z.transitions[i].gmttime < z.transitions[j].gmttime
<1> DEFINE Kinds == KindsOfTime
           Transitions == [gmttime : Int, localtimeIdx : Nat]
           ls == z.localtimes
           ts == z.transitions
<1>1. z \in [localtimes : Seq(Kinds) \ {<<>>}, transitions : Seq(Transitions), abbreviation : Nat]
  BY DEF IsZone, ZoneFiles
<1>2. \A i \in 1..Len(ts) : ts[i].localtimeIdx \in 1..Len(ls)
  BY DEF IsZone
<1>3. \A i, j \in 1..Len(ts) : i < j => ts[i].gmttime < ts[j].gmttime
  BY DEF IsZone
<1>4. z = [localtimes |-> ls, transitions |-> ts, abbreviation |-> z.abbreviation]
  <2> HIDE DEF Kinds, Transitions
  <2> QED BY <1>1
<1>5. ls \in Seq(Kinds) /\ ls # <<>> /\ ts \in Seq(Transitions)
  <2> HIDE DEF Kinds, Transitions
  <2> QED BY <1>1
<1>6. Transitions = [gmttime : Int, localtimeIdx : Nat]
  OBVIOUS
<1> HIDE DEF Kinds, Transitions, ls, ts
<1>7. Len(ls) \in Nat /\ Len(ls) >= 1
  BY <1>5, EmptySeq
<1>8. \A k \in 1..Len(ls) : ls[k] \in Kinds
  BY <1>5, ElementOfSeq
<1>9. Len(ts) \in Nat /\ \A i \in 1..Len(ts) : ts[i] \in Transitions
  BY <1>5, LenProperties, ElementOfSeq
<1>10. \A i \in 1..Len(ts) : ts[i].gmttime \in Int
  BY <1>6, <1>9
<1> QED BY <1>2, <1>3, <1>4, <1>5, <1>7, <1>8, <1>9, <1>10 DEF Kinds, ls, ts

(* toLocalTime() with the data of the whole zone *)
LEMMA LocalTimeRight ==
  ASSUME NEW z, NEW moment \in Int, IsZone(z)
  PROVE  toLocalTime(z, moment) = LocalTime(KindAt(z, moment), moment)
<1> DEFINE n == Len(z.transitions)
           past == {i \in 1..n : z.transitions[i].gmttime <= moment}
<1>1. \A i \in 1..n : z.transitions[i].gmttime \in Int
  BY ZoneTypes
<1>2. \A i \in 1..n : TimeAt(z, TRUE, i) = z.transitions[i].gmttime
  BY <1>1 DEF TimeAt
<1>3. Ascends(z, TRUE)
  BY <1>1, <1>2, ZoneTypes DEF Ascends
<1>4. Past(z, TRUE, moment) = past
  BY <1>2 DEF Past
<1>5. findLocaltime(z, TRUE, moment) =
        z.localtimes[IF past = {} THEN 1 ELSE z.transitions[Max(past)].localtimeIdx]
  <2> HIDE DEF past
  <2> QED BY <1>3, <1>4, LookupFinds
<1>6. findLocaltime(z, TRUE, moment) = KindAt(z, moment)
  BY <1>5, Zenon DEF KindAt
<1>7. KindAt(z, moment).arrbIdx <= z.abbreviation
  <2> DEFINE k == IF past = {} THEN 1 ELSE z.transitions[Max(past)].localtimeIdx
  <2>1. past \subseteq 1..n /\ n \in Nat
    BY ZoneTypes
  <2>2. past # {} => Max(past) \in 1..n
    <3> HIDE DEF past, n
    <3> QED BY <2>1, MaxOf
  <2>3. \A i \in 1..n : z.transitions[i].localtimeIdx \in 1..Len(z.localtimes)
    BY ZoneTypes
  <2>4. 1 \in 1..Len(z.localtimes)
    BY ZoneTypes
  <2>5. k \in 1..Len(z.localtimes)
    <3> HIDE DEF past, n
    <3> QED BY <2>2, <2>3, <2>4
  <2>6. KindAt(z, moment) = z.localtimes[k]
    BY DEF KindAt
  <2> HIDE DEF k
  <2> QED BY <2>5, <2>6, Zenon DEF IsZone
<1> QED BY <1>6, <1>7, Zenon DEF toLocalTime, LocalTime

(* The clock of a kind of local time, whether or not its name is there *)
LEMMA ClockOf ==
  ASSUME NEW data, NEW moment
  PROVE  LET kind == findLocaltime(data, TRUE, moment)
             tm   == toLocalTime(data, moment)
         IN  /\ Clock(tm) = Clock(LocalTime(kind, moment))
             /\ tm.seconds = moment + kind.gmtOffset
             /\ tm.isDst = kind.isDst
BY DEF Clock, LocalTime, toLocalTime

(* What is left of a zone whose file is cut. *)
LEMMA Cut ==
  ASSUME NEW z, IsZone(z), NEW fields \in 0..FileLength(z)
  PROVE  LET data == readTimeZoneFile(z, fields)
         IN  /\ fields < TypesStart(z) + 3 => data.localtimes = <<>>
             /\ fields >= TypesStart(z) + 3 =>
                  data.localtimes # <<>> /\ data.localtimes[1] = z.localtimes[1]
             /\ fields < TypesEnd(z) => data.transitions = <<>>
             /\ fields >= TypesEnd(z) =>
                  data.localtimes = z.localtimes /\ data.transitions = z.transitions
             /\ fields < TypesStart(z) + 3 => fields < TypesEnd(z)
             /\ fields = FileLength(z) => fields >= TypesEnd(z) /\ data.abbreviation = z.abbreviation
<1> DEFINE data == readTimeZoneFile(z, fields)
           ls == z.localtimes
           k == (fields - TypesStart(z)) \div 3
           Kinds == KindsOfTime
<1>1. /\ ls \in Seq(Kinds) /\ Len(ls) \in Nat /\ Len(ls) >= 1
      /\ \A i \in 1..Len(ls) : ls[i] \in Kinds
  BY ZoneTypes
<1>2. TypesStart(z) \in Nat
  BY ZoneTypes DEF TypesStart
<1>3. TypesEnd(z) = TypesStart(z) + 3 * Len(ls) /\ TypesEnd(z) \in Nat /\ fields \in Nat
      /\ fields <= TypesEnd(z) + 1 /\ FileLength(z) = TypesEnd(z) + 1
  BY <1>1, <1>2 DEF FileLength, TypesEnd
<1>4. /\ data.localtimes = SubSeq(ls, 1, k)
      /\ data.transitions = IF fields >= TypesEnd(z) THEN z.transitions ELSE <<>>
      /\ data.abbreviation = IF fields >= FileLength(z) THEN z.abbreviation ELSE 0
  BY DEF readTimeZoneFile
<1>5. k \in Int /\ k <= Len(ls)
  BY <1>1, <1>2, <1>3
<1>6. fields < TypesStart(z) + 3 <=> k < 1
  BY <1>2, <1>3
<1>7. ASSUME fields >= TypesEnd(z) PROVE k = Len(ls)
  <2> DEFINE len  == Len(ls)
             rest == fields - TypesEnd(z)
  <2>1. len \in Nat /\ rest \in {0, 1} /\ fields - TypesStart(z) = 3 * len + rest
    BY <1>1, <1>2, <1>3, <1>7
  <2> HIDE DEF len, rest
  <2>2. (3 * len + rest) \div 3 = len
    BY <2>1
  <2> QED BY <2>1, <2>2 DEF len
<1> HIDE DEF data, k, ls, Kinds
<1>8. k < 1 => SubSeq(ls, 1, k) = <<>>
  BY <1>5, SubSeqEmpty
<1>9. ASSUME k >= 1 PROVE SubSeq(ls, 1, k) # <<>> /\ SubSeq(ls, 1, k)[1] = ls[1]
  <2> DEFINE m == 1
             sub == SubSeq(ls, m, k)
  <2>1. \A i \in m..k : ls[i] \in Kinds
    BY <1>1, <1>5
  <2>2. /\ sub \in Seq(Kinds)
        /\ Len(sub) = IF m <= k THEN k - m + 1 ELSE 0
        /\ \A i \in 1..(k - m + 1) : sub[i] = ls[m + i - 1]
    <3>1. m \in Int
      OBVIOUS
    <3> HIDE DEF m
    <3> QED BY <1>5, <2>1, <3>1, SubSeqProperties
  <2> HIDE DEF sub
  <2>3. Len(sub) = k /\ 1 \in 1..(k - m + 1) /\ m + 1 - 1 = 1
    BY <1>5, <1>9, <2>2
  <2>4. sub[1] = ls[1]
    BY <2>2, <2>3
  <2>5. sub # <<>>
    BY <1>5, <1>9, <2>3, EmptySeq
  <2> QED BY <2>4, <2>5 DEF sub
<1>10. SubSeq(ls, 1, Len(ls)) = ls
  BY <1>1, SubSeqFull
<1>11. fields < TypesStart(z) + 3 => fields < TypesEnd(z)
  BY <1>1, <1>2, <1>3
<1>12. fields = FileLength(z) => fields >= TypesEnd(z) /\ data.abbreviation = z.abbreviation
  BY <1>3, <1>4
<1>13. fields < TypesEnd(z) => data.transitions = <<>>
  <2>1. fields < TypesEnd(z) => ~ (fields >= TypesEnd(z))
    BY <1>3
  <2> QED BY <1>4, <2>1, Zenon
<1>14. fields >= TypesStart(z) + 3 => k >= 1
  BY <1>2, <1>3, <1>5, <1>6
<1> QED
  BY <1>4, <1>6, <1>7, <1>8, <1>9, <1>10, <1>11, <1>12, <1>13, <1>14 DEF data, ls

(* A zone, how much of its file is there, and a moment *)
LEMMA ZoneAt ==
  ASSUME NEW z \in Zones, NEW fields \in 0..FileLength(z), NEW moment \in Moments
  PROVE  ZoneRight(z, fields, moment)
<1> DEFINE data == readTimeZoneFile(z, fields)
           right == LocalTime(KindAt(z, moment), moment)
<1>1. IsZone(z) /\ moment \in Int
  BY ZonesAssumption
<1>2. /\ fields < TypesStart(z) + 3 => data.localtimes = <<>>
      /\ fields >= TypesStart(z) + 3 =>
           data.localtimes # <<>> /\ data.localtimes[1] = z.localtimes[1]
      /\ fields < TypesEnd(z) => data.transitions = <<>>
      /\ fields >= TypesEnd(z) =>
           data.localtimes = z.localtimes /\ data.transitions = z.transitions
      /\ fields < TypesStart(z) + 3 => fields < TypesEnd(z)
      /\ fields = FileLength(z) => fields >= TypesEnd(z) /\ data.abbreviation = z.abbreviation
  BY <1>1, Cut
<1>3. fields \in Int /\ TypesEnd(z) \in Int /\ TypesStart(z) \in Int
  BY <1>1, ZoneTypes DEF TypesStart, TypesEnd
<1>4. ASSUME fields >= TypesEnd(z) PROVE Clock(toLocalTime(data, moment)) = Clock(right)
  <2>1. \A gmt \in BOOLEAN : \A i : TimeAt(data, gmt, i) = TimeAt(z, gmt, i)
    BY <1>2, <1>4 DEF TimeAt
  <2>2. findLocaltime(data, TRUE, moment) = findLocaltime(z, TRUE, moment)
    BY <1>2, <1>4, <2>1, Zenon DEF findLocaltime, Chosen
  <2>3. Clock(toLocalTime(data, moment)) = Clock(toLocalTime(z, moment))
    <3> DEFINE kind == findLocaltime(z, TRUE, moment)
    <3>1. findLocaltime(z, TRUE, moment) = kind /\ findLocaltime(data, TRUE, moment) = kind
      BY <2>2
    <3> HIDE DEF kind, data
    <3>2. Clock(toLocalTime(z, moment)) = Clock(LocalTime(kind, moment))
      BY <3>1, ClockOf
    <3>3. Clock(toLocalTime(data, moment)) = Clock(LocalTime(kind, moment))
      BY <3>1, ClockOf
    <3> QED BY <3>2, <3>3
  <2> QED BY <1>1, <2>3, LocalTimeRight
<1>5. ASSUME fields < TypesEnd(z), data.localtimes # <<>>
      PROVE  Clock(toLocalTime(data, moment)) = Clock(LocalTime(z.localtimes[1], moment))
  <2>1. data.transitions = <<>> /\ data.localtimes[1] = z.localtimes[1]
    BY <1>2, <1>3, <1>5
  <2>2. Len(data.transitions) = 0
    BY <2>1, EmptySeq
  <2>3. findLocaltime(data, TRUE, moment) = data.localtimes[1]
    BY <2>2, Zenon DEF findLocaltime
  <2> HIDE DEF data
  <2>4. findLocaltime(data, TRUE, moment) = z.localtimes[1]
    BY <2>1, <2>3
  <2> QED BY <2>4, ClockOf
<1>6. fields = FileLength(z) => data = z
  <2>1. z = [localtimes |-> z.localtimes, transitions |-> z.transitions, abbreviation |-> z.abbreviation]
    BY <1>1, ZoneTypes
  <2>2. data = [localtimes |-> data.localtimes, transitions |-> data.transitions,
                abbreviation |-> data.abbreviation]
    BY DEF readTimeZoneFile
  <2> HIDE DEF data
  <2> QED BY <1>2, <2>1, <2>2
<1> HIDE DEF data, right
<1>7. data.localtimes = <<>> => data.transitions = <<>> /\ fields < TypesStart(z) + 3
  BY <1>2, <1>3
<1>8. data.localtimes # <<>> =>
        Clock(toLocalTime(data, moment)) \in {Clock(right), Clock(LocalTime(z.localtimes[1], moment))}
  BY <1>3, <1>4, <1>5
<1>9. fields >= TypesEnd(z) => Clock(toLocalTime(data, moment)) = Clock(right)
  BY <1>4
<1>10. fields = FileLength(z) => data = z /\ toLocalTime(data, moment) = right
  BY <1>1, <1>6, LocalTimeRight DEF right
<1> QED BY <1>7, <1>8, <1>9, <1>10, Zenon DEF ZoneRight, data, right

(* Every zone asked for *)
LEMMA InitLookups == Init => LookupRight
<1> SUFFICES ASSUME Init, question.kind = "zone"
             PROVE  /\ question.zone \in Zones /\ question.moment \in Moments
                    /\ question.fields \in 0..FileLength(question.zone)
  BY ZoneAt DEF LookupRight
<1> QED BY DEF Init, ZoneQuestions

(* LookupRight for any zones and moments: the search of findLocaltime() finds *)
(* the last transition that is not later, in whatever was there of the file.  *)
THEOREM LookupsHold == Spec => []LookupRight
<1>1. LookupRight /\ [Next]_question => LookupRight'
  BY NothingChanges DEF LookupRight
<1> QED BY <1>1, InitLookups, PTL DEF Spec

-----------------------------------------------------------------------------
LastOf(S) == IF S = {} THEN 0 ELSE Max(S)

(* The kind of local time from a transition on, or from the beginning *)
KindFrom(z, i) == z.localtimes[IF i = 0 THEN 1 ELSE z.transitions[i].localtimeIdx]

(* The last time that is not later, between its neighbours *)
Around(z, gmt, t, j) ==
  LET n == Len(z.transitions)
  IN  /\ j \in 0..n
      /\ j # 0 => TimeAt(z, gmt, j) <= t
      /\ j # n => t < TimeAt(z, gmt, j + 1)

(* The last transition until t is there, and the next one is later; *)
LEMMA LastIsAround ==
  ASSUME NEW z, NEW gmt, NEW t \in Int, Ascends(z, gmt)
  PROVE  Around(z, gmt, t, LastOf(Past(z, gmt, t)))
<1> DEFINE n == Len(z.transitions)
           past == Past(z, gmt, t)
           at(i) == TimeAt(z, gmt, i)
<1>1. n \in Nat /\ \A i \in 1..n : at(i) \in Int
  BY DEF Ascends
<1>2. past = {i \in 1..n : at(i) <= t}
  BY DEF Past
<1> HIDE DEF at, past, n
<1>3. CASE past = {}
  <2>1. n # 0 => t < at(1)
    <3>1. ASSUME n # 0 PROVE t < at(1)
      <4>1. 1 \in 1..n /\ at(1) \in Int /\ ~ (at(1) <= t)
        BY <1>1, <1>2, <1>3, <3>1
      <4> QED BY <4>1
    <3> QED BY <3>1
  <2>2. LastOf(past) = 0
    BY <1>3 DEF LastOf
  <2>3. 0 \in 0..n /\ 0 + 1 = 1
    BY <1>1
  <2> QED BY <2>1, <2>2, <2>3 DEF Around, n, at, past
<1>4. CASE past # {}
  <2> DEFINE j == Max(past)
  <2>1. j \in past /\ \A i \in past : i <= j
    BY <1>1, <1>2, <1>4, MaxOf
  <2> HIDE DEF j
  <2>2. j \in 1..n /\ at(j) <= t
    BY <1>2, <2>1
  <2>3. j # n => t < at(j + 1)
    <3>1. ASSUME j # n PROVE t < at(j + 1)
      <4>1. j + 1 \in 1..n /\ ~ (j + 1 <= j)
        BY <1>1, <2>2, <3>1
      <4>2. at(j + 1) \in Int /\ ~ (at(j + 1) <= t)
        BY <1>1, <1>2, <2>1, <4>1
      <4> QED BY <4>2
    <3> QED BY <3>1
  <2>4. LastOf(past) = j
    BY <1>4 DEF LastOf, j
  <2> QED BY <2>2, <2>3, <2>4 DEF Around, n, at, past
<1> QED BY <1>3, <1>4

(* and only the last one is like that. *)
LEMMA AroundIsLast ==
  ASSUME NEW z, NEW gmt, NEW t \in Int, Ascends(z, gmt), NEW j, Around(z, gmt, t, j)
  PROVE  LastOf(Past(z, gmt, t)) = j
<1> DEFINE n == Len(z.transitions)
           past == Past(z, gmt, t)
           at(i) == TimeAt(z, gmt, i)
<1>1. n \in Nat /\ \A i \in 1..n : at(i) \in Int
  BY DEF Ascends
<1>2. past = {i \in 1..n : at(i) <= t}
  BY DEF Past
<1>3. \A i, k \in 1..n : i < k => at(i) < at(k)
  BY DEF Ascends
<1>4. j \in 0..n /\ (j # 0 => at(j) <= t) /\ (j # n => t < at(j + 1))
  BY DEF Around
<1> HIDE DEF at, past, n
<1>5. \A i \in past : i <= j
  <2>1. ASSUME NEW i \in past, ~ (i <= j) PROVE FALSE
    <3>1. i \in 1..n /\ at(i) <= t /\ at(i) \in Int /\ j + 1 \in 1..n /\ j # n /\ j + 1 <= i
      BY <1>1, <1>2, <1>4, <2>1
    <3>2. t < at(j + 1) /\ at(j + 1) \in Int
      BY <1>1, <1>4, <3>1
    <3>3. CASE j + 1 = i
      BY <3>1, <3>2, <3>3
    <3>4. CASE j + 1 < i
      <4>1. at(j + 1) < at(i)
        BY <1>3, <3>1, <3>4
      <4> QED BY <3>1, <3>2, <4>1
    <3> QED BY <1>4, <3>1, <3>3, <3>4
  <2> QED BY <2>1
<1>6. CASE j = 0
  <2>1. past = {}
    BY <1>1, <1>2, <1>5, <1>6
  <2> QED BY <1>6, <2>1 DEF LastOf, past
<1>7. CASE j # 0
  <2>1. j \in past /\ past \subseteq 1..n
    BY <1>1, <1>2, <1>4, <1>7
  <2>2. Max(past) \in past /\ j <= Max(past)
    BY <1>1, <2>1, MaxOf
  <2>3. Max(past) \in 1..n /\ Max(past) <= j
    BY <1>5, <2>1, <2>2
  <2>4. Max(past) = j
    BY <1>4, <2>2, <2>3
  <2> QED BY <2>1, <2>4 DEF LastOf, past
<1> QED BY <1>6, <1>7

(* findLocaltime() by where the time is *)
LEMMA FoundAt ==
  ASSUME NEW z, NEW gmt \in BOOLEAN, NEW t \in Int, Ascends(z, gmt), NEW j, Around(z, gmt, t, j)
  PROVE  findLocaltime(z, gmt, t) = KindFrom(z, j)
<1> DEFINE past == Past(z, gmt, t)
<1>1. findLocaltime(z, gmt, t) =
        z.localtimes[IF past = {} THEN 1 ELSE z.transitions[Max(past)].localtimeIdx]
  BY LookupFinds
<1>2. LastOf(past) = j
  BY AroundIsLast
<1>3. past # {} => Max(past) \in 1..Len(z.transitions)
  <2>1. past \subseteq 1..Len(z.transitions) /\ Len(z.transitions) \in Nat
    BY DEF Past, Ascends
  <2> HIDE DEF past
  <2> QED BY <2>1, MaxOf
<1>4. past # {} => Max(past) # 0
  BY <1>3 DEF Ascends
<1> HIDE DEF past
<1> QED BY <1>1, <1>2, <1>4 DEF KindFrom, LastOf

(* A zone that saves: its offsets, and the order of its transitions by UTC as *)
(* well as by local time                                                      *)
Offset(z, i) == KindFrom(z, i).gmtOffset

LEMMA Saving ==
  ASSUME NEW z, IsZone(z), Saves(z), Hour \in Nat
  PROVE  LET n   == Len(z.transitions)
             g(i) == z.transitions[i].gmttime
             std == Standard(z.localtimes[1])
         IN  /\ n \in Nat /\ std \in Int
             /\ \A i \in 1..n : g(i) \in Int
             /\ \A i \in 0..n : Offset(z, i) \in Int /\ KindFrom(z, i).isDst \in BOOLEAN
             /\ \A i, k \in 1..n : i < k => g(k) - g(i) > Hour
             /\ \A i \in 0..n : Offset(z, i) = IF KindFrom(z, i).isDst THEN std + Hour ELSE std
             /\ \A i \in 0..n : std <= Offset(z, i) /\ Offset(z, i) <= std + Hour
             /\ \A i \in 1..n : TimeAt(z, TRUE, i) = g(i) /\ TimeAt(z, FALSE, i) = g(i) + Offset(z, i)
             /\ \A i \in 1..n : i \in 0..n
             /\ Ascends(z, TRUE) /\ Ascends(z, FALSE)
<1> DEFINE n      == Len(z.transitions)
           g(i)   == z.transitions[i].gmttime
           kind(i) == KindFrom(z, i)
           std    == Standard(z.localtimes[1])
           off(i) == kind(i).gmtOffset
<1>1. n \in Nat /\ \A i \in 1..n : g(i) \in Int
  BY ZoneTypes
<1>2. \A i \in 0..n : off(i) \in Int /\ kind(i).isDst \in BOOLEAN
  <2>1. \A k \in 1..Len(z.localtimes) : z.localtimes[k].gmtOffset \in Int /\ z.localtimes[k].isDst \in BOOLEAN
    BY ZoneTypes DEF KindsOfTime
  <2>2. 1 \in 1..Len(z.localtimes)
    BY ZoneTypes
  <2>3. \A i \in 0..n : i # 0 => i \in 1..n
    BY <1>1
  <2>4. \A i \in 1..n : z.transitions[i].localtimeIdx \in 1..Len(z.localtimes)
    BY ZoneTypes
  <2> QED BY <2>1, <2>2, <2>3, <2>4 DEF KindFrom
<1>3. \A i \in 0..n : off(i) - (IF kind(i).isDst THEN Hour ELSE 0) = std
  <2>1. \A i \in 1..n : Standard(z.localtimes[z.transitions[i].localtimeIdx]) = std
    BY DEF Saves
  <2>2. \A i \in 0..n : i # 0 => i \in 1..n
    BY <1>1
  <2>3. \A i \in 0..n : Standard(kind(i)) = std
    BY <2>1, <2>2 DEF KindFrom
  <2> QED BY <2>3 DEF Standard
<1>4. \A i, k \in 1..n : i < k => g(k) - g(i) > Hour
  BY DEF Saves
<1> HIDE DEF n, kind, std
<1>5. std \in Int
  <2>1. off(0) - (IF kind(0).isDst THEN Hour ELSE 0) = std /\ off(0) \in Int
    BY <1>1, <1>2, <1>3
  <2> QED BY <2>1
<1>6. \A i \in 0..n : off(i) = IF kind(i).isDst THEN std + Hour ELSE std
  <2>1. ASSUME NEW i \in 0..n PROVE off(i) = IF kind(i).isDst THEN std + Hour ELSE std
    <3>1. off(i) - (IF kind(i).isDst THEN Hour ELSE 0) = std /\ off(i) \in Int
      BY <1>2, <1>3
    <3>2. CASE kind(i).isDst
      BY <1>5, <3>1, <3>2
    <3>3. CASE ~ kind(i).isDst
      BY <1>5, <3>1, <3>3
    <3> QED BY <3>2, <3>3
  <2> QED BY <2>1
<1>7. \A i \in 0..n : std <= off(i) /\ off(i) <= std + Hour
  <2>1. ASSUME NEW i \in 0..n PROVE std <= off(i) /\ off(i) <= std + Hour
    <3>1. off(i) = std + Hour \/ off(i) = std
      BY <1>6
    <3> QED BY <1>5, <3>1
  <2> QED BY <2>1
<1>8. \A i \in 1..n : TimeAt(z, TRUE, i) = g(i) /\ TimeAt(z, FALSE, i) = g(i) + off(i)
  <2>1. \A i \in 1..n : i # 0
    BY <1>1
  <2>2. \A i \in 1..n : g(i) + 0 = g(i)
    BY <1>1
  <2> QED BY <2>1, <2>2 DEF TimeAt, KindFrom, kind
<1> HIDE DEF g, off
<1>9. \A i \in 1..n : i \in 0..n
  BY <1>1
<1>10. \A i, k \in 1..n : i < k => g(i) < g(k) /\ g(i) + off(i) < g(k) + off(k)
  <2>1. ASSUME NEW i \in 1..n, NEW k \in 1..n, i < k
        PROVE  g(i) < g(k) /\ g(i) + off(i) < g(k) + off(k)
    <3>1. /\ g(k) - g(i) > Hour /\ off(i) <= std + Hour /\ std <= off(k)
          /\ g(i) \in Int /\ g(k) \in Int /\ off(i) \in Int /\ off(k) \in Int
      BY <1>1, <1>2, <1>4, <1>7, <1>9, <2>1
    <3> QED BY <1>5, <3>1
  <2> QED BY <2>1
<1>11. Ascends(z, TRUE) /\ Ascends(z, FALSE)
  <2>1. \A i \in 1..n : g(i) + off(i) \in Int
    BY <1>1, <1>2, <1>9
  <2> QED BY <1>1, <1>8, <1>10, <2>1 DEF Ascends, n
<1> QED BY <1>1, <1>2, <1>4, <1>5, <1>6, <1>7, <1>8, <1>9, <1>11 DEF n, g, kind, std, off, Offset

(* Either the local time is that of the next transition too, or it is not;    *)
(* the flag tells which side of the transition is meant.                      *)
LEMMA RoundTrip ==
  ASSUME NEW z, IsZone(z), Saves(z), NEW moment \in Int, Hour \in Nat
  PROVE  ComesBack(z, moment)
<1> DEFINE n      == Len(z.transitions)
           g(i)   == z.transitions[i].gmttime
           kind(i) == KindFrom(z, i)
           std    == Standard(z.localtimes[1])
           off(i) == kind(i).gmtOffset
           j      == LastOf(Past(z, TRUE, moment))
           L      == moment + off(j)
           tm     == toLocalTime(z, moment)
<1>1. n \in Nat /\ (\A i \in 1..n : g(i) \in Int) /\ std \in Int
  BY Saving
<1>2. \A i \in 0..n : off(i) \in Int /\ kind(i).isDst \in BOOLEAN
  BY Saving DEF Offset
<1>4. \A i, k \in 1..n : i < k => g(k) - g(i) > Hour
  BY Saving
<1>5. std \in Int
  BY <1>1
<1>6. \A i \in 0..n : off(i) = IF kind(i).isDst THEN std + Hour ELSE std
  BY Saving DEF Offset
<1>7. \A i \in 0..n : std <= off(i) /\ off(i) <= std + Hour
  BY Saving DEF Offset
<1>8. \A i \in 1..n : TimeAt(z, TRUE, i) = g(i) /\ TimeAt(z, FALSE, i) = g(i) + off(i)
  BY Saving DEF Offset
<1>9. \A i \in 1..n : i \in 0..n
  BY <1>1
<1>11. Ascends(z, TRUE) /\ Ascends(z, FALSE)
  BY Saving
<1> HIDE DEF n, kind, std, g, off
<1>12. Around(z, TRUE, moment, j)
  BY <1>11, LastIsAround
<1> HIDE DEF j
<1>13. j \in 0..n /\ (j # 0 => j \in 1..n /\ g(j) <= moment)
       /\ (j # n => j + 1 \in 1..n /\ moment < g(j + 1))
  <2>1. j \in 0..n /\ (j # 0 => TimeAt(z, TRUE, j) <= moment)
        /\ (j # n => moment < TimeAt(z, TRUE, j + 1))
    BY <1>12 DEF Around, n
  <2>2. (j # 0 => j \in 1..n) /\ (j # n => j + 1 \in 1..n)
    BY <1>1, <2>1
  <2> QED BY <1>8, <2>1, <2>2
<1>14. tm.seconds = L /\ tm.isDst = kind(j).isDst
  <2>1. findLocaltime(z, TRUE, moment) = kind(j)
    BY <1>11, <1>12, FoundAt DEF kind
  <2> QED BY <2>1, ClockOf, Zenon DEF off
<1>15. L \in Int /\ off(j) \in Int /\ L - off(j) = moment
  BY <1>2, <1>13
<1>16. CASE j = n \/ L < g(j + 1) + off(j + 1)
  <2>1. Around(z, FALSE, L, j)
    <3>1. j # 0 => g(j) + off(j) <= L
      <4>1. ASSUME j # 0 PROVE g(j) + off(j) <= L
        <5>1. g(j) <= moment /\ g(j) \in Int
          BY <1>1, <1>13, <4>1
        <5> QED BY <1>15, <5>1
      <4> QED BY <4>1
    <3>2. j # 0 => TimeAt(z, FALSE, j) <= L
      BY <1>8, <1>13, <3>1
    <3>3. j # n => L < TimeAt(z, FALSE, j + 1)
      BY <1>8, <1>13, <1>16
    <3> HIDE DEF L
    <3> QED BY <1>13, <3>2, <3>3 DEF Around, n
  <2> HIDE DEF L
  <2>2. findLocaltime(z, FALSE, L) = kind(j)
    BY <1>11, <1>15, <2>1, FoundAt DEF kind
  <2>3. tm.seconds = L /\ tm.isDst = kind(j).isDst
    BY <1>14
  <2>4. toLocalTime(z, tm.seconds - kind(j).gmtOffset) = tm
    BY <1>15, <2>3 DEF off
  <2> HIDE DEF tm
  <2>5. ~ Repeated(z, tm, kind(j))
    BY <2>4, Zenon DEF Repeated
  <2>6. fromLocalTime(z, tm) = L - off(j)
    BY <2>2, <2>3, <2>5, Zenon DEF fromLocalTime, off
  <2> QED BY <1>15, <2>6 DEF ComesBack, tm
<1>17. CASE j # n /\ ~ (L < g(j + 1) + off(j + 1))
  <2> DEFINE next == j + 1
  <2>1. next \in 1..n /\ next \in 0..n /\ moment < g(next) /\ g(next) \in Int /\ off(next) \in Int
    BY <1>1, <1>2, <1>9, <1>13, <1>17
  <2>2. g(next) + off(next) <= L
    BY <1>15, <1>17, <2>1
  <2> HIDE DEF next
  <2>3. off(next) < off(j)
    BY <1>15, <2>1, <2>2
  <2>4. kind(j).isDst /\ off(j) = std + Hour /\ ~ kind(next).isDst /\ off(next) = std
    <3>1. off(j) = (IF kind(j).isDst THEN std + Hour ELSE std)
          /\ off(next) = IF kind(next).isDst THEN std + Hour ELSE std
      BY <1>6, <1>13, <2>1
    <3>2. std <= std + Hour /\ ~ (std < std) /\ ~ (std + Hour < std + Hour) /\ ~ (std + Hour < std)
      BY <1>5
    <3> QED BY <2>3, <3>1, <3>2, Zenon
  <2>5. L - off(next) = moment + Hour /\ moment + Hour \in Int /\ moment + Hour + off(next) = L
    BY <1>5, <1>15, <2>4
  <2>6. next # n => next + 1 \in 1..n /\ g(next + 1) \in Int /\ off(next + 1) \in Int
                    /\ g(next + 1) - g(next) > Hour /\ std <= off(next + 1)
    <3>1. ASSUME next # n
          PROVE  next + 1 \in 1..n /\ next < next + 1
      BY <1>1, <2>1, <3>1
    <3> QED BY <1>1, <1>2, <1>4, <1>7, <1>9, <2>1, <3>1
  <2>7. Around(z, FALSE, L, next)
    <3>1. next # n => L < g(next + 1) + off(next + 1)
      BY <1>5, <1>15, <2>1, <2>4, <2>6
    <3> HIDE DEF L
    <3>2. TimeAt(z, FALSE, next) <= L
      BY <1>8, <2>1, <2>2
    <3>3. next # n => L < TimeAt(z, FALSE, next + 1)
      BY <1>8, <2>6, <3>1
    <3> QED BY <2>1, <3>2, <3>3 DEF Around, n
  <2>8. Around(z, TRUE, moment + Hour, next)
    <3>1. next # n => moment + Hour < g(next + 1)
      BY <2>1, <2>6
    <3>2. g(next) <= moment + Hour
      BY <1>5, <1>15, <2>1, <2>2, <2>4
    <3>3. TimeAt(z, TRUE, next) <= moment + Hour
      BY <1>8, <2>1, <3>2
    <3>4. next # n => moment + Hour < TimeAt(z, TRUE, next + 1)
      BY <1>8, <2>6, <3>1
    <3> QED BY <2>1, <3>3, <3>4 DEF Around, n
  <2>9. L - Hour - off(next) = moment
    BY <1>5, <1>15, <2>4
  <2> HIDE DEF L
  <2>10. findLocaltime(z, FALSE, L) = kind(next)
    BY <1>11, <1>15, <2>7, FoundAt DEF kind
  <2> DEFINE try == toLocalTime(z, moment + Hour)
  <2>11. try.seconds = L /\ try.isDst = kind(next).isDst
    <3>1. findLocaltime(z, TRUE, moment + Hour) = kind(next)
      BY <1>11, <2>5, <2>8, FoundAt DEF kind
    <3> QED BY <2>5, <3>1, ClockOf DEF off
  <2>12. tm.seconds = L /\ tm.isDst = kind(j).isDst
    BY <1>14
  <2>13. toLocalTime(z, tm.seconds - kind(next).gmtOffset) = try
    BY <2>5, <2>12 DEF off
  <2> HIDE DEF tm, try
  <2>14. Repeated(z, tm, kind(next))
    <3>1. try.seconds = L /\ try.isDst = kind(next).isDst
      BY <2>11
    <3>2. toLocalTime(z, tm.seconds - kind(next).gmtOffset) = try
      BY <2>13
    <3> QED BY <2>4, <2>12, <3>1, <3>2, Zenon DEF Repeated
  <2>15. fromLocalTime(z, tm) = L - Hour - off(next)
    BY <2>10, <2>12, <2>14, Zenon DEF fromLocalTime, off
  <2> QED BY <2>9, <2>15 DEF ComesBack, tm
<1> QED BY <1>16, <1>17

(* The standard time in the hour that is left out: the transition is still to *)
(* come by local time, and the moment itself has daylight saving.             *)
LEMMA SkippedHour ==
  ASSUME NEW z, IsZone(z), Saves(z), NEW moment \in Int, Hour \in Nat, NEW flag \in BOOLEAN
  PROVE  SkippedComesBack(z, moment, flag)
<1> DEFINE n      == Len(z.transitions)
           g(i)   == z.transitions[i].gmttime
           kind(i) == KindFrom(z, i)
           std    == Standard(z.localtimes[1])
           off(i) == kind(i).gmtOffset
           L      == moment + std
           tm     == [seconds |-> L, isDst |-> flag]
           try    == toLocalTime(z, moment)
<1>1. n \in Nat /\ (\A i \in 1..n : g(i) \in Int) /\ std \in Int
  BY Saving
<1>2. \A i \in 0..n : off(i) \in Int /\ kind(i).isDst \in BOOLEAN
  BY Saving DEF Offset
<1>4. \A i, k \in 1..n : i < k => g(k) - g(i) > Hour
  BY Saving
<1>5. std \in Int
  BY <1>1
<1>6. \A i \in 0..n : off(i) = IF kind(i).isDst THEN std + Hour ELSE std
  BY Saving DEF Offset
<1>7. \A i \in 0..n : std <= off(i) /\ off(i) <= std + Hour
  BY Saving DEF Offset
<1>8. \A i \in 1..n : TimeAt(z, TRUE, i) = g(i) /\ TimeAt(z, FALSE, i) = g(i) + off(i)
  BY Saving DEF Offset
<1>9. \A i \in 1..n : i \in 0..n
  BY <1>1
<1>11. Ascends(z, TRUE) /\ Ascends(z, FALSE)
  BY Saving
<1> HIDE DEF n, kind, std, g, off
<1> HIDE DEF L
<1> SUFFICES ASSUME Springs(z, moment) PROVE fromLocalTime(z, tm) = moment
  BY DEF SkippedComesBack, L, std
<1>12. PICK i \in 1..n : /\ z.localtimes[z.transitions[i].localtimeIdx].isDst
                         /\ ~z.localtimes[IF i = 1 THEN 1 ELSE z.transitions[i - 1].localtimeIdx].isDst
                         /\ g(i) <= moment /\ moment < g(i) + Hour
  BY DEF Springs, n, g
<1> DEFINE j == i - 1
<1>13. i \in 0..n /\ j \in 0..n /\ i # 0 /\ j # n /\ j + 1 = i /\ (j # 0 => j \in 1..n /\ j < i)
       /\ (j = 0 <=> i = 1) /\ (i # n => i + 1 \in 1..n /\ i < i + 1)
  BY <1>1
<1>14. kind(i).isDst /\ ~kind(j).isDst
  BY <1>12, <1>13 DEF kind, KindFrom
<1> HIDE DEF j
<1>15. off(i) = std + Hour /\ off(j) = std
  BY <1>6, <1>13, <1>14
<1>16. L \in Int /\ L = moment + std /\ L - std = moment
  BY <1>1 DEF L
<1>17. Around(z, FALSE, L, j)
  <2>1. L < g(i) + off(i)
    BY <1>1, <1>12, <1>15, <1>16
  <2>2. ASSUME j # 0 PROVE g(j) + off(j) <= L
    <3>1. g(i) - g(j) > Hour /\ g(i) \in Int /\ g(j) \in Int
      BY <1>1, <1>4, <1>13, <2>2
    <3> QED BY <1>1, <1>12, <1>15, <1>16, <3>1
  <2>3. L < TimeAt(z, FALSE, j + 1)
    BY <1>8, <1>13, <2>1
  <2>4. j # 0 => TimeAt(z, FALSE, j) <= L
    BY <1>8, <1>13, <2>2
  <2> QED BY <1>13, <2>3, <2>4 DEF Around, n
<1>18. Around(z, TRUE, moment, i)
  <2>1. ASSUME i # n PROVE moment < g(i + 1)
    <3>1. g(i + 1) - g(i) > Hour /\ g(i) \in Int /\ g(i + 1) \in Int
      BY <1>1, <1>4, <1>13, <2>1
    <3> QED BY <1>12, <3>1
  <2>2. i # n => moment < TimeAt(z, TRUE, i + 1)
    BY <1>8, <1>13, <2>1
  <2>3. TimeAt(z, TRUE, i) <= moment
    BY <1>8, <1>12
  <2> QED BY <1>13, <2>2, <2>3 DEF Around, n
<1>19. findLocaltime(z, FALSE, L) = kind(j)
  BY <1>11, <1>16, <1>17, FoundAt DEF kind
<1>20. try.isDst = kind(i).isDst
  <2>1. findLocaltime(z, TRUE, moment) = kind(i)
    BY <1>11, <1>18, FoundAt DEF kind
  <2> QED BY <2>1, ClockOf, Zenon
<1>21. tm.seconds = L
  OBVIOUS
<1>22. toLocalTime(z, tm.seconds - kind(j).gmtOffset) = try
  BY <1>15, <1>16, <1>21 DEF off
<1> HIDE DEF tm, try
<1>23. ~Repeated(z, tm, kind(j))
  BY <1>14, <1>20, <1>22, Zenon DEF Repeated
<1>24. fromLocalTime(z, tm) = L - off(j)
  BY <1>19, <1>21, <1>23, Zenon DEF fromLocalTime, off
<1> QED BY <1>15, <1>16, <1>24

(* Every moment asked for in a zone with daylight saving *)
LEMMA InitRoundTrips == Init => LocalRoundTrip
<1> SUFFICES ASSUME Init, question.kind = "zone", question.zone \in SavingZones
             PROVE  /\ ComesBack(question.zone, question.moment)
                    /\ \A flag \in BOOLEAN : SkippedComesBack(question.zone, question.moment, flag)
  BY DEF LocalRoundTrip
<1>1. question.moment \in Moments
  BY DEF Init, ZoneQuestions
<1> QED BY <1>1, RoundTrip, SkippedHour, ZonesAssumption

(* LocalRoundTrip for any zones with daylight saving of one hour, whose local *)
(* times last longer than that: fromLocalTime() undoes toLocalTime(), and it  *)
(* takes the hour that never comes for standard time.                         *)
THEOREM RoundTripsHold == Spec => []LocalRoundTrip
<1>1. LocalRoundTrip /\ [Next]_question => LocalRoundTrip'
  BY NothingChanges DEF LocalRoundTrip
<1> QED BY <1>1, InitRoundTrips, PTL DEF Spec

-----------------------------------------------------------------------------
(* Files *)

IsFile(f) ==
  f.stat \in {"regular", "directory", "other", "fails"} /\ f.size \in Nat /\ f.fd \in Int
  /\ \A j \in DOMAIN f.reads : f.reads[j] \in Nat

(* read() fails, or gives no more than was asked for and than there is; it    *)
(* gives nothing only at the end of the file.                                 *)
LEMMA AnswerIs ==
  ASSUME NEW f, IsFile(f), NEW i, NEW have \in Nat, NEW toRead \in Nat
  PROVE  LET n == Answer(f, i, have, toRead)
         IN  /\ n \in Int
             /\ n = -1 \/ (n <= toRead /\ n <= f.size - have)
             /\ n = 0 => toRead = 0 \/ have = f.size
             /\ f.stat = "directory" => n = -1
             /\ have <= f.size => n >= -1
<1> DEFINE limits == {f.reads[j] : j \in {i} \cap DOMAIN f.reads}
           S == {toRead, f.size - have} \cup limits
           n == Answer(f, i, have, toRead)
           size == f.size
<1>1. limits \subseteq Nat
  BY DEF IsFile
<1>2. size \in Nat
  BY DEF IsFile
<1>3. CASE f.stat = "directory" \/ 0 \in limits
  <2>1. n = -1
    BY <1>3 DEF Answer
  <2> QED BY <2>1
<1>4. CASE ~ (f.stat = "directory" \/ 0 \in limits)
  <2>1. n = Min(S)
    BY <1>4, Zenon DEF Answer
  <2> HIDE DEF limits, n, size
  <2> DEFINE lo == IF size - have < 0 THEN size - have ELSE 0
  <2>2. S \subseteq Int /\ S # {} /\ lo \in Int
    <3>1. toRead \in Int /\ size - have \in Int /\ limits \subseteq Int /\ lo \in Int
      BY <1>1, <1>2
    <3> HIDE DEF lo
    <3> QED BY <3>1 DEF size
  <2>3. \A x \in S : lo <= x
    <3>1. \A x \in limits : lo <= x
      BY <1>1, <1>2
    <3>2. lo <= toRead /\ lo <= size - have
      BY <1>2
    <3> QED BY <3>1, <3>2 DEF size
  <2>4. toRead \in S /\ size - have \in S
    BY DEF size
  <2> HIDE DEF S, lo
  <2>5. Min(S) \in S /\ \A x \in S : Min(S) <= x
    BY <2>2, <2>3, MinAbove
  <2>6. n \in Int /\ n <= toRead /\ n <= size - have
    BY <2>1, <2>2, <2>4, <2>5
  <2>7. n \in limits => n # 0
    BY <1>4
  <2>8. n = toRead \/ n = size - have \/ n \in limits
    BY <2>1, <2>5 DEF S, size
  <2>9. n = 0 => toRead = 0 \/ have = size
    BY <1>2, <2>7, <2>8
  <2>10. have <= size => n >= -1
    <3>1. toRead >= -1
      OBVIOUS
    <3>2. have <= size => size - have >= -1
      BY <1>2
    <3>3. n \in limits => n >= -1
      BY <1>1
    <3> QED BY <2>8, <3>1, <3>2, <3>3
  <2>11. f.stat # "directory"
    BY <1>4
  <2> QED BY <2>6, <2>9, <2>10, <2>11 DEF n, size
<1> QED BY <1>3, <1>4

(* The next read asks for something as long as more is wanted. *)
LEMMA ToReadIs ==
  ASSUME NEW maxSize \in Int, NEW have \in Nat, Wants(have, maxSize)
  PROVE  /\ ToRead(have, maxSize) \in Nat \ {0}
         /\ maxSize >= 0 => have + ToRead(have, maxSize) <= maxSize
<1> DEFINE S == {kBufferSize} \cup IF maxSize < 0 THEN {} ELSE {maxSize - have}
<1>1. kBufferSize \in Nat \ {0}
  BY FilesAssumption
<1>2. S \subseteq Nat \ {0} /\ kBufferSize \in S
  BY <1>1 DEF Wants
<1>3. maxSize >= 0 => maxSize - have \in S
  OBVIOUS
<1>4. ToRead(have, maxSize) = Min(S)
  BY DEF ToRead
<1> HIDE DEF S
<1>5. Min(S) \in S /\ \A x \in S : Min(S) <= x
  <2> DEFINE floor == 0
  <2>1. floor \in Int /\ S \subseteq Int /\ S # {} /\ \A x \in S : floor <= x
    BY <1>2
  <2> HIDE DEF floor
  <2> QED BY <2>1, MinAbove
<1> HIDE DEF S
<1> QED
  <2>1. ToRead(have, maxSize) \in Nat \ {0}
    BY <1>2, <1>4, <1>5
  <2>2. ASSUME maxSize >= 0 PROVE have + ToRead(have, maxSize) <= maxSize
    <3>1. maxSize - have \in S
      BY <1>3, <2>2
    <3>2. Min(S) <= maxSize - have
      BY <1>5, <3>1, Zenon
    <3>3. Min(S) \in Nat
      BY <1>2, <1>5
    <3> QED BY <1>4, <3>2, <3>3
  <2> QED BY <2>1, <2>2

(* Before the read() with this number, after these bytes *)
Places == Nat \X Nat

Gives(f, maxSize, at) == Answer(f, at[1], at[2], ToRead(at[2], maxSize))

Ends(f, maxSize, at) == ~ Wants(at[2], maxSize) \/ Gives(f, maxSize, at) <= 0

Ended(f, maxSize, at) ==
  [content |-> at[2],
   err     |-> IF Wants(at[2], maxSize) /\ Gives(f, maxSize, at) < 0 THEN "read" ELSE "none"]

After(f, maxSize, at) == <<at[1] + 1, at[2] + Gives(f, maxSize, at)>>

IsLoop(Read, f, maxSize) ==
  Read = [at \in Places |-> IF Ends(f, maxSize, at) THEN Ended(f, maxSize, at)
                            ELSE Read[After(f, maxSize, at)]]

(* What a read that was made does *)
LEMMA Progress ==
  ASSUME NEW f, IsFile(f), NEW maxSize \in Int, NEW at \in Places, ~ Ends(f, maxSize, at)
  PROVE  /\ After(f, maxSize, at) \in Places
         /\ After(f, maxSize, at)[2] > at[2]
         /\ After(f, maxSize, at)[2] <= f.size
         /\ maxSize >= 0 => After(f, maxSize, at)[2] <= maxSize
<1> DEFINE have == at[2]
           i == at[1]
           n == Gives(f, maxSize, at)
           asked == ToRead(have, maxSize)
           size == f.size
<1>1. have \in Nat /\ i \in Nat /\ size \in Nat
  BY DEF Places, IsFile
<1>2. Wants(have, maxSize) /\ ~ (n <= 0)
  BY DEF Ends
<1>3. asked \in Nat /\ (maxSize >= 0 => have + asked <= maxSize)
  <2> HIDE DEF have
  <2> QED BY <1>1, <1>2, ToReadIs
<1>4. n = Answer(f, i, have, asked)
  BY DEF Gives
<1>5. After(f, maxSize, at) = <<i + 1, have + n>>
  BY DEF After
<1> HIDE DEF have, i, n, asked, size
<1>6. n \in Int /\ (n = -1 \/ (n <= asked /\ n <= size - have))
  BY <1>1, <1>3, <1>4, AnswerIs DEF size
<1>7. n > 0 /\ n <= asked /\ n <= size - have
  BY <1>2, <1>6
<1>8. <<i + 1, have + n>>[2] = have + n
  OBVIOUS
<1>9. have + n \in Nat /\ have + n > have /\ have + n <= size
  BY <1>1, <1>6, <1>7
<1>10. maxSize >= 0 => have + n <= maxSize
  BY <1>1, <1>3, <1>6, <1>7
<1>11. <<i + 1, have + n>> \in Places
  BY <1>1, <1>9 DEF Places
<1> QED BY <1>5, <1>8, <1>9, <1>10, <1>11 DEF have, size

(* The loop ends, so that what it computes is defined. *)
LEMMA LoopExists ==
  ASSUME NEW f, IsFile(f), NEW maxSize \in Int
  PROVE  \E Read : IsLoop(Read, f, maxSize)
<1> DEFINE size == f.size
           R     == {Ended(f, maxSize, at) : at \in Places}
           stop  == {at \in Places : Ends(f, maxSize, at)}
           base  == [at \in Places |-> Ended(f, maxSize, at)]
           next  == [at \in Places |-> After(f, maxSize, at)]
           made  == [p \in Places \X R |-> p[2]]
           mu    == [at \in Places |-> IF at[2] < size THEN size - at[2] ELSE 0]
<1>1. size \in Nat
  BY DEF IsFile
<1>2. \A at \in Places : mu[at] \in Nat
  BY <1>1 DEF Places
<1>3. \A at \in Places : at \notin stop => next[at] \in Places /\ mu[next[at]] < mu[at]
  <2>1. ASSUME NEW at \in Places, at \notin stop PROVE next[at] \in Places /\ mu[next[at]] < mu[at]
    <3> DEFINE new == After(f, maxSize, at)
    <3>1. new \in Places /\ new[2] > at[2] /\ new[2] <= size
      BY <2>1, Progress
    <3>2. next[at] = new
      OBVIOUS
    <3> HIDE DEF new, size
    <3>3. at[2] \in Nat /\ new[2] \in Nat
      BY <3>1 DEF Places
    <3>4. mu[new] = IF new[2] < size THEN size - new[2] ELSE 0
      BY <3>1
    <3>5. mu[at] = size - at[2]
      BY <1>1, <3>1, <3>3
    <3> HIDE DEF mu, next
    <3> QED BY <1>1, <3>1, <3>2, <3>3, <3>4, <3>5
  <2> QED BY <2>1
<1>4. \A at \in Places : base[at] \in R
  OBVIOUS
<1>5. \A at \in Places, r \in R : made[<<at, r>>] \in R
  <2> HIDE DEF R
  <2> QED OBVIOUS
<1>6. PICK Read \in [Places -> R] : Recurs(Read, Places, stop, base, next, made)
  <2> HIDE DEF R, stop, base, next, made, mu
  <2> QED BY <1>2, <1>3, <1>4, <1>5, RecursionExists
<1>7. \A at \in Places : Read[at] = IF at \in stop THEN base[at] ELSE made[<<at, Read[next[at]]>>]
  <2> HIDE DEF stop, base, next, made
  <2> QED BY <1>6, Zenon DEF Recurs
<1>8. ASSUME NEW at \in Places
      PROVE  Read[at] = IF Ends(f, maxSize, at) THEN Ended(f, maxSize, at)
                        ELSE Read[After(f, maxSize, at)]
  <2>1. CASE at \in stop
    BY <1>7, <2>1
  <2>2. CASE at \notin stop
    <3>1. next[at] \in Places /\ next[at] = After(f, maxSize, at)
      BY <1>3, <2>2
    <3>2. Read[next[at]] \in R
      BY <3>1
    <3>3. made[<<at, Read[next[at]]>>] = Read[next[at]]
      <4> HIDE DEF R, next
      <4> QED BY <3>2
    <3> QED BY <1>7, <2>2, <3>1, <3>3
  <2> QED BY <2>1, <2>2
<1>9. Read = [at \in Places |-> Read[at]]
  OBVIOUS
<1>10. IsLoop(Read, f, maxSize)
  BY <1>8, <1>9, Zenon DEF IsLoop
<1> QED BY <1>10

(* What readFile() has read is what the loop returns from its first place. *)
LEMMA ReadAllIs ==
  ASSUME NEW f, IsFile(f), NEW maxSize \in Int
  PROVE  \E Read : IsLoop(Read, f, maxSize) /\ ReadAll(f, maxSize) = Read[<<1, 0>>]
<1> DEFINE Read == CHOOSE Read : IsLoop(Read, f, maxSize)
<1>1. IsLoop(Read, f, maxSize)
  BY LoopExists, Zenon
<1>2. ReadAll(f, maxSize) = Read[<<1, 0>>]
  BY Zenon DEF ReadAll, IsLoop, Places, Ends, Ended, After, Gives
<1> QED BY <1>1, <1>2

(* What the loop returns, from a place that is neither past the end of the    *)
(* file nor past maxSize: no more than either, and less than both only with   *)
(* an error.                                                                  *)
Within(f, maxSize, n) == n \in Nat /\ n <= f.size /\ (maxSize >= 0 => n <= maxSize)

Returned(f, maxSize, r) ==
  /\ r \in [content : Nat, err : {"none", "read"}] /\ Within(f, maxSize, r.content)
  /\ r.err = "none" => r.content = f.size \/ (maxSize >= 0 /\ r.content = maxSize)

(* Where the loop ends *)
LEMMA EndedReturns ==
  ASSUME NEW f, IsFile(f), NEW maxSize \in Int, NEW at \in Places,
         Ends(f, maxSize, at), Within(f, maxSize, at[2])
  PROVE  Returned(f, maxSize, Ended(f, maxSize, at))
<1> DEFINE have == at[2]
           i == at[1]
           n == Gives(f, maxSize, at)
           asked == ToRead(have, maxSize)
           size == f.size
           r == Ended(f, maxSize, at)
<1>1. have \in Nat /\ size \in Nat
  BY DEF Places, IsFile
<1>2. r.content = have /\ r.err = IF Wants(have, maxSize) /\ n < 0 THEN "read" ELSE "none"
  BY DEF Ended
<1>3. ~ Wants(have, maxSize) \/ n <= 0
  BY DEF Ends
<1>4. have <= size /\ (maxSize >= 0 => have <= maxSize)
  BY DEF Within
<1>5. n = Answer(f, i, have, asked)
  BY DEF Gives
<1> HIDE DEF have, i, n, asked, size, r
<1>6. ASSUME Wants(have, maxSize), ~ (n < 0) PROVE have = size
  <2>1. asked \in Nat \ {0}
    BY <1>1, <1>6, ToReadIs DEF asked
  <2>2. n \in Int /\ (n = 0 => asked = 0 \/ have = size)
    BY <1>1, <1>5, <2>1, AnswerIs DEF size
  <2>3. n = 0
    BY <1>3, <1>6, <2>2
  <2> QED BY <2>1, <2>2, <2>3
<1>7. ~ Wants(have, maxSize) => maxSize >= 0 /\ have = maxSize
  BY <1>1, <1>4 DEF Wants
<1>8. r.err = "none" => have = size \/ (maxSize >= 0 /\ have = maxSize)
  BY <1>2, <1>6, <1>7
<1>9. Within(f, maxSize, r.content)
  BY <1>2 DEF have
<1>10. r \in [content : Nat, err : {"none", "read"}]
  BY <1>1 DEF r, Ended, have
<1>11. Returned(f, maxSize, r)
  <2>1. r.err = "none" => r.content = f.size \/ (maxSize >= 0 /\ r.content = maxSize)
    BY <1>2, <1>8, Zenon DEF size
  <2> QED BY <1>9, <1>10, <2>1, Zenon DEF Returned
<1> QED BY <1>11 DEF r

(* From wherever the loop is, by induction over what is left of the file *)
LEMMA LoopReturns ==
  ASSUME NEW f, IsFile(f), NEW maxSize \in Int, NEW Read, IsLoop(Read, f, maxSize),
         NEW at \in Places, Within(f, maxSize, at[2])
  PROVE  Returned(f, maxSize, Read[at])
<1> DEFINE size == f.size
           Ready(p) == Within(f, maxSize, p[2])
           Fine == {n \in Nat : \A p \in Places :
                      Ready(p) /\ size - p[2] < n => Returned(f, maxSize, Read[p])}
<1>1. size \in Nat /\ \A p \in Places : p[2] \in Nat /\ (Ready(p) => size - p[2] \in Nat)
  BY DEF Places, IsFile, Within
<1>2. 0 \in Fine
  <2> HIDE DEF size, Ready
  <2>1. \A p \in Places : Ready(p) => ~ (size - p[2] < 0)
    <3>1. ASSUME NEW p \in Places, Ready(p) PROVE ~ (size - p[2] < 0)
      <4>1. size - p[2] \in Nat
        BY <1>1, <3>1
      <4> QED BY <4>1
    <3> QED BY <3>1
  <2> QED BY <2>1
<1>3. \A n \in Nat : n \in Fine => n + 1 \in Fine
  <2>1. ASSUME NEW n \in Nat, n \in Fine, NEW p \in Places, Ready(p), size - p[2] < n + 1
        PROVE  Returned(f, maxSize, Read[p])
    <3>1. Read[p] = IF Ends(f, maxSize, p) THEN Ended(f, maxSize, p) ELSE Read[After(f, maxSize, p)]
      BY Zenon DEF IsLoop
    <3>2. CASE Ends(f, maxSize, p)
      <4>1. Within(f, maxSize, p[2])
        BY <2>1
      <4> QED BY <3>1, <3>2, <4>1, EndedReturns
    <3>3. CASE ~ Ends(f, maxSize, p)
      <4> DEFINE q == After(f, maxSize, p)
      <4>1. q \in Places /\ q[2] > p[2] /\ q[2] <= size /\ (maxSize >= 0 => q[2] <= maxSize)
        BY <3>3, Progress
      <4> HIDE DEF q
      <4>2. p[2] \in Nat /\ q[2] \in Nat
        BY <4>1, <1>1
      <4>3. Ready(q)
        BY <4>1, <4>2 DEF Within
      <4> HIDE DEF size, Ready
      <4>4. size - q[2] < n
        BY <1>1, <2>1, <4>1, <4>2
      <4>5. Returned(f, maxSize, Read[q])
        BY <2>1, <4>1, <4>3, <4>4
      <4> QED BY <3>1, <3>3, <4>5 DEF q
    <3> QED BY <3>2, <3>3
  <2> HIDE DEF Ready, size
  <2> QED BY <2>1
<1>4. \A n \in Nat : n \in Fine
  <2> HIDE DEF Fine
  <2> QED BY <1>2, <1>3, Upward
<1>5. Ready(at)
  OBVIOUS
<1> HIDE DEF Ready, size
<1>6. size - at[2] \in Nat
  BY <1>1, <1>5
<1>7. (size - at[2]) + 1 \in Nat /\ size - at[2] < (size - at[2]) + 1
  BY <1>6
<1> QED BY <1>4, <1>5, <1>7

(* What readFile() makes of a file that is open, before it asks fstat() *)
LEMMA ReadAllReturns ==
  ASSUME NEW f, IsFile(f), NEW maxSize \in Int
  PROVE  /\ Returned(f, maxSize, ReadAll(f, maxSize))
         /\ f.stat = "directory" /\ maxSize # 0 => ReadAll(f, maxSize).err = "read"
<1> DEFINE at == <<1, 0>>
           n == Gives(f, maxSize, at)
           asked == ToRead(0, maxSize)
<1>1. PICK Read : IsLoop(Read, f, maxSize) /\ ReadAll(f, maxSize) = Read[at]
  BY ReadAllIs
<1>2. at \in Places /\ at[1] = 1 /\ at[2] = 0
  BY DEF Places
<1>3. Within(f, maxSize, at[2])
  BY <1>2 DEF Within, IsFile
<1>4. n = Answer(f, 1, 0, asked)
  BY DEF Gives
<1> HIDE DEF at, n
<1>5. Returned(f, maxSize, Read[at])
  BY <1>1, <1>2, <1>3, LoopReturns
<1>6. ASSUME f.stat = "directory", maxSize # 0 PROVE Read[at].err = "read"
  <2>1. Wants(0, maxSize)
    BY <1>6 DEF Wants
  <2>2. asked \in Nat
    BY <2>1, ToReadIs
  <2>3. n = -1
    <3> HIDE DEF asked
    <3> QED BY <1>4, <1>6, <2>2, AnswerIs
  <2>4. Ends(f, maxSize, at)
    BY <2>3 DEF Ends, n
  <2>5. Read[at] = Ended(f, maxSize, at)
    BY <1>1, <1>2, <2>4, Zenon DEF IsLoop
  <2>6. Wants(at[2], maxSize) /\ Gives(f, maxSize, at) < 0
    BY <1>2, <2>1, <2>3 DEF n
  <2> QED BY <2>5, <2>6 DEF Ended
<1> QED BY <1>1, <1>5, <1>6

(* readToString() and readToBuffer() of a file *)
LEMMA FilesRight ==
  ASSUME NEW f, IsFile(f), NEW maxSize \in Int, NEW fileSize \in BOOLEAN
  PROVE  FileRight(f, maxSize, fileSize)
<1> DEFINE limit == {maxSize} \cap Nat
           whole == readToString(f, maxSize, fileSize)
           part  == readToBuffer(f)
           read  == ReadAll(f, maxSize)
           size  == f.size
           fd    == f.fd
           S     == {size} \cup limit
           thrown == fileSize /\ Throws(f, maxSize)
<1>1. size \in Nat /\ fd \in Int
  BY DEF IsFile
<1>2. Returned(f, maxSize, read) /\ (f.stat = "directory" /\ maxSize # 0 => read.err = "read")
  BY ReadAllReturns
<1>3. fd <= 0 => whole = [content |-> Untouched, err |-> OpenError(f)]
  BY DEF readToString
<1>4. fd <= 0 \/ thrown \/ whole = [read EXCEPT !.err = IF read.err = "none" /\ fileSize THEN StatError(f) ELSE read.err]
  BY DEF readToString
<1>5. fd <= 0 => whole.content = -1 /\ (fd # 0 => whole.err # "none") /\ whole.err # "length_error"
  BY <1>1, <1>3 DEF Untouched, OpenError
<1> DEFINE asRead == /\ whole.content = read.content
                     /\ whole.err = "none" => read.err = "none"
                     /\ whole.err # "length_error"
           asThrown == /\ whole.content = 0
                       /\ whole.err = "length_error"
                       /\ maxSize < 0 /\ fileSize /\ f.stat = "regular"
<1>6. fd <= 0 \/ thrown \/ asRead
  <2>1. read \in [content : Nat, err : {"none", "read"}]
    BY <1>2 DEF Returned
  <2>2. StatError(f) # "length_error"
    BY DEF StatError
  <2> HIDE DEF read, whole, fd, thrown
  <2> QED BY <1>4, <2>1, <2>2
<1>13. thrown /\ ~ (fd <= 0) => asThrown
  <2>1. ASSUME thrown PROVE maxSize < 0
    <3>1. Min({maxSize, size}) < 0
      BY <2>1 DEF Throws, Reserved
    <3>2. Min({maxSize, size}) \in {maxSize, size}
      <4> DEFINE T == {maxSize, size}
                 floor == IF maxSize < 0 THEN maxSize ELSE 0
      <4>1. floor \in Int /\ T \subseteq Int /\ T # {} /\ \A x \in T : floor <= x
        BY <1>1
      <4> HIDE DEF floor
      <4>2. Min(T) \in T
        BY <4>1, MinAbove
      <4> QED BY <4>2
    <3> HIDE DEF size
    <3> QED BY <1>1, <3>1, <3>2
  <2>2. thrown /\ ~ (fd <= 0) => whole = [content |-> 0, err |-> "length_error"]
    BY DEF readToString
  <2>3. thrown => fileSize /\ f.stat = "regular"
    BY DEF Throws
  <2> HIDE DEF thrown, whole, fd
  <2> QED BY <2>1, <2>2, <2>3
<1>7. /\ read.content \in Nat /\ read.content <= size /\ (maxSize >= 0 => read.content <= maxSize)
      /\ read.err = "none" => read.content = size \/ (maxSize >= 0 /\ read.content = maxSize)
  BY <1>2 DEF Returned, Within
<1> HIDE DEF whole, part, read, size, fd, thrown
<1>8. ASSUME whole.err = "none", fd # 0 PROVE whole.content = Min(S)
  <2> DEFINE c == read.content
  <2>1. ~ (fd <= 0) /\ whole.content = c /\ read.err = "none"
    BY <1>1, <1>5, <1>6, <1>8, <1>13
  <2>2. c \in S /\ \A x \in S : x \in Nat /\ c <= x
    BY <1>1, <1>7, <2>1
  <2>3. Min(S) \in S /\ \A x \in S : Min(S) <= x
    <3> DEFINE floor == 0
    <3>1. floor \in Int /\ S \subseteq Int /\ S # {} /\ \A x \in S : floor <= x
      BY <2>2
    <3> HIDE DEF floor, S
    <3> QED BY <3>1, MinAbove
  <2> HIDE DEF S, c
  <2>4. Min(S) <= c /\ c <= Min(S) /\ Min(S) \in Nat /\ c \in Nat
    BY <2>2, <2>3
  <2> QED BY <2>1, <2>4
<1>9. whole.content = Untouched => whole.err # "none" \/ fd = 0
  BY <1>1, <1>5, <1>6, <1>7, <1>13 DEF Untouched
<1>10. \A n \in limit : whole.content <= n
  BY <1>1, <1>5, <1>6, <1>7, <1>13
<1>11. f.stat = "directory" /\ fd # 0 /\ maxSize # 0 => whole.err # "none"
  <2>1. read.err = "read" => whole.err # "none" \/ fd <= 0
    BY <1>6, <1>13
  <2> QED BY <1>1, <1>2, <1>5, <2>1 DEF read
<1>14. whole.err = "length_error" => maxSize < 0 /\ fileSize /\ whole.content = 0
  BY <1>5, <1>6, <1>13
<1>12. part.content < kBufferSize /\ part.content <= size
  <2> DEFINE n == Answer(f, 1, 0, kBufferSize - 1)
  <2>1. kBufferSize \in Nat \ {0} /\ kBufferSize - 1 \in Nat
    BY FilesAssumption
  <2>2. n \in Int /\ (n = -1 \/ (n <= kBufferSize - 1 /\ n <= size - 0))
    BY <2>1, AnswerIs DEF size
  <2>3. part.content = -1 \/ part.content = n
    BY DEF part, readToBuffer, Untouched
  <2> HIDE DEF n
  <2> QED BY <1>1, <2>1, <2>2, <2>3
<1> QED BY <1>8, <1>9, <1>10, <1>11, <1>12, <1>14, Zenon DEF FileRight, whole, part, size, fd

(* Every file asked for *)
LEMMA InitReads == Init => ReadsRight
<1> SUFFICES ASSUME Init, question.kind = "file"
             PROVE  FileRight(question.file, question.maxSize, question.fileSize)
  BY DEF ReadsRight
<1>1. question \in [kind : {"file"}, file : Files, maxSize : Limits, fileSize : BOOLEAN]
  BY DEF Init, ZoneQuestions
<1>2. question.file \in Files /\ question.maxSize \in Limits /\ question.fileSize \in BOOLEAN
  BY <1>1
<1> DEFINE f == question.file
<1>3. /\ f \in [fd : Int, stat : {"regular", "directory", "other", "fails"}, size : Nat, reads : Seq(Nat)]
      /\ question.maxSize \in Int
  BY <1>2, FilesAssumption
<1> HIDE DEF f
<1>4. f.fd \in Int /\ f.stat \in {"regular", "directory", "other", "fails"} /\ f.size \in Nat /\ f.reads \in Seq(Nat)
  BY <1>3
<1> DEFINE reads == f.reads
<1>5. \A j \in DOMAIN reads : reads[j] \in Nat
  <2> HIDE DEF reads
  <2>1. reads \in Seq(Nat)
    BY <1>4 DEF reads
  <2>2. DOMAIN reads = 1..Len(reads)
    BY <2>1, LenProperties
  <2> QED BY <2>1, <2>2, ElementOfSeq
<1>6. IsFile(f)
  BY <1>4, <1>5 DEF IsFile
<1> QED BY <1>2, <1>3, <1>6, FilesRight DEF f

(* ReadsRight for any files, any buffer and any maxSize, however little each  *)
(* read() gives: the loop of readToString() stops short only with an error,   *)
(* and reserve() throws for no maxSize from 0 on.                             *)
THEOREM ReadsHold == Spec => []ReadsRight
<1>1. ReadsRight /\ [Next]_question => ReadsRight'
  BY DEF Next, ReadsRight
<1> QED BY <1>1, InitReads, PTL DEF Spec

-----------------------------------------------------------------------------
(* Texts *)

(* The place of the first and the last of a character in a text *)
FirstAt(s, c) == SelectInSeq(s, LAMBDA x : x = c)
LastAt(s, c)  == SelectLastInSeq(s, LAMBDA x : x = c)

(* The first of a character is the one that has none before it, *)
LEMMA FirstIs ==
  ASSUME NEW s, Len(s) \in Nat, NEW c, NEW k \in 1..Len(s), s[k] = c,
         \A i \in 1..Len(s) : i < k => s[i] # c
  PROVE  FirstAt(s, c) = k
<1> DEFINE I == {i \in 1..Len(s) : s[i] = c}
<1>1. FirstAt(s, c) = IF I # {} THEN Min(I) ELSE 0
  BY Zenon DEF FirstAt, SelectInSeq
<1>2. k \in I
  OBVIOUS
<1>3. I \subseteq Nat
  OBVIOUS
<1>4. Min(I) \in I /\ \A i \in I : Min(I) <= i
  BY <1>2, <1>3, MinOf
<1>5. Min(I) \in 1..Len(s) /\ s[Min(I)] = c /\ Min(I) <= k
  BY <1>2, <1>4
<1> HIDE DEF I
<1>6. Min(I) = k
  BY <1>5
<1> QED BY <1>1, <1>2, <1>6

(* and the last the one that has none after it. *)
LEMMA LastIs ==
  ASSUME NEW s, Len(s) \in Nat, NEW c, NEW k \in 1..Len(s), s[k] = c,
         \A i \in 1..Len(s) : k < i => s[i] # c
  PROVE  LastAt(s, c) = k
<1> DEFINE I == {i \in 1..Len(s) : s[i] = c}
<1>1. LastAt(s, c) = IF I # {} THEN Max(I) ELSE 0
  BY Zenon DEF LastAt, SelectLastInSeq
<1>2. k \in I
  OBVIOUS
<1>3. I \subseteq 1..Len(s)
  OBVIOUS
<1>4. Max(I) \in I /\ \A i \in I : i <= Max(I)
  BY <1>2, <1>3, MaxOf
<1>5. Max(I) \in 1..Len(s) /\ s[Max(I)] = c /\ k <= Max(I)
  BY <1>2, <1>4
<1> HIDE DEF I
<1>6. Max(I) = k
  BY <1>5
<1> QED BY <1>1, <1>2, <1>6

(* The digits that zero() and digitsHex give stand for what they were given. *)
LEMMA DigitIs ==
  /\ \A d \in 0..15 : DigitOf(digitsHex[d + 1]) = d
  /\ \A l \in (-9)..9 : DigitOf(zero(l)) = IF l < 0 THEN -l ELSE l
<1>0. Len(digitsHex) = 16
  BY DEF digitsHex
<1>1. \A i, j \in 1..16 : i # j => digitsHex[i] # digitsHex[j]
  BY DEF digitsHex
<1>2. ASSUME NEW d \in 0..15 PROVE DigitOf(digitsHex[d + 1]) = d
  <2>1. FirstAt(digitsHex, digitsHex[d + 1]) = d + 1
    <3> DEFINE k == d + 1
    <3>1. k \in 1..16 /\ \A i \in 1..16 : i < k => i # k
      OBVIOUS
    <3> HIDE DEF k
    <3>2. /\ Len(digitsHex) \in Nat /\ k \in 1..Len(digitsHex)
          /\ \A i \in 1..Len(digitsHex) : i < k => digitsHex[i] # digitsHex[k]
      BY <1>0, <1>1, <3>1
    <3>3. FirstAt(digitsHex, digitsHex[k]) = k
      BY <3>2, FirstIs
    <3> QED BY <3>3 DEF k
  <2>2. DigitOf(digitsHex[d + 1]) = FirstAt(digitsHex, digitsHex[d + 1]) - 1
    BY Zenon DEF DigitOf, FirstAt
  <2> QED BY <2>1, <2>2
<1>3. ASSUME NEW l \in (-9)..9 PROVE zero(l) = digitsHex[(IF l < 0 THEN -l ELSE l) + 1]
  BY DEF zero, digits, digitsHex
<1>4. \A l \in (-9)..9 : (IF l < 0 THEN -l ELSE l) \in 0..15
  OBVIOUS
<1> QED BY <1>2, <1>3, <1>4

(* Whatever the character *)
LEMMA DigitIsInt == \A char : DigitOf(char) \in Int
<1>1. ASSUME NEW char PROVE DigitOf(char) \in Int
  <2> DEFINE I == {i \in 1..Len(digitsHex) : digitsHex[i] = char}
  <2>1. DigitOf(char) = (IF I # {} THEN Min(I) ELSE 0) - 1
    BY Zenon DEF DigitOf, SelectInSeq
  <2>2. I \subseteq Nat
    BY DEF digitsHex
  <2> HIDE DEF I
  <2>3. I # {} => Min(I) \in Nat
    BY <2>2, MinOf
  <2> QED BY <2>1, <2>3
<1> QED BY <1>1

(* The numbers that the beginnings of a text stand for *)
ValueOf(V, text, base, sign, n) ==
  IF n = 0 THEN 0 ELSE (base * V[n - 1]) + (sign * DigitOf(text[n]))

AreValues(V, text, base, sign) ==
  /\ V = [n \in 0..Len(text) |-> ValueOf(V, text, base, sign, n)]
  /\ V \in [0..Len(text) -> Int]

(* A text has such numbers, *)
LEMMA ValuesExist ==
  ASSUME NEW text, Len(text) \in Nat, NEW base \in Int, NEW sign \in Int
  PROVE  \E V : AreValues(V, text, base, sign)
<1> DEFINE size == Len(text)
           D    == 0..size
           stop == {0}
           first == [n \in D |-> 0]
           next == [n \in D |-> n - 1]
           made == [p \in D \X Int |-> (base * p[2]) + (sign * DigitOf(text[p[1]]))]
           mu   == [n \in D |-> n]
<1>1. \A n \in D : mu[n] \in Nat
  OBVIOUS
<1>2. \A n \in D : n \notin stop => next[n] \in D /\ mu[next[n]] < mu[n]
  OBVIOUS
<1>3. \A n \in D : first[n] \in Int
  OBVIOUS
<1>4. ASSUME NEW n \in D, NEW r \in Int
      PROVE  /\ made[<<n, r>>] = (base * r) + (sign * DigitOf(text[n]))
             /\ made[<<n, r>>] \in Int
  <2>1. made[<<n, r>>] = (base * r) + (sign * DigitOf(text[n]))
    <3> HIDE DEF D
    <3> QED OBVIOUS
  <2>2. DigitOf(text[n]) \in Int
    BY DigitIsInt
  <2>3. (base * r) \in Int
    OBVIOUS
  <2>4. (sign * DigitOf(text[n])) \in Int
    BY <2>2
  <2> HIDE DEF made
  <2> QED BY <2>1, <2>3, <2>4
<1>5. PICK V \in [D -> Int] : Recurs(V, D, stop, first, next, made)
  <2> DEFINE Z == Int
  <2>1. \A n \in D : first[n] \in Z
    BY <1>3
  <2>2. \A n \in D, r \in Z : made[<<n, r>>] \in Z
    BY <1>4
  <2> HIDE DEF D, stop, first, next, made, mu, Z
  <2>3. \E f \in [D -> Z] : Recurs(f, D, stop, first, next, made)
    BY <1>1, <1>2, <2>1, <2>2, RecursionExists
  <2> QED BY <2>3 DEF Z
<1>6. \A n \in D : V[n] = IF n \in stop THEN first[n] ELSE made[<<n, V[next[n]]>>]
  <2> HIDE DEF D, stop, first, next, made
  <2> QED BY <1>5, Zenon DEF Recurs
<1>7. ASSUME NEW n \in D PROVE V[n] = ValueOf(V, text, base, sign, n)
  <2>1. CASE n = 0
    BY <1>6, <2>1 DEF ValueOf
  <2>2. CASE n # 0
    <3>1. next[n] = n - 1 /\ n - 1 \in D
      BY <2>2
    <3>2. V[n - 1] \in Int
      BY <3>1
    <3>3. V[n] = made[<<n, V[n - 1]>>]
      <4> HIDE DEF made, D, next
      <4> QED BY <1>6, <2>2, <3>1
    <3>4. made[<<n, V[n - 1]>>] = (base * V[n - 1]) + (sign * DigitOf(text[n]))
      <4> HIDE DEF made, D
      <4> QED BY <1>4, <3>2
    <3> HIDE DEF made
    <3> QED BY <2>2, <3>3, <3>4 DEF ValueOf
  <2> QED BY <2>1, <2>2
<1>8. V = [n \in D |-> V[n]]
  OBVIOUS
<1>9. V = [n \in D |-> ValueOf(V, text, base, sign, n)]
  BY <1>7, <1>8, Zenon
<1>10. AreValues(V, text, base, sign)
  BY <1>9, Zenon DEF AreValues, D, size
<1> QED BY <1>10

(* of which Numeral is the last. *)
LEMMA NumeralIs ==
  ASSUME NEW text, Len(text) \in Nat, NEW base \in Int, NEW sign \in Int
  PROVE  \E V : AreValues(V, text, base, sign) /\ Numeral(text, base, sign) = V[Len(text)]
<1> DEFINE
      E(V) == V = [n \in 0..Len(text) |->
                     IF n = 0 THEN 0 ELSE (base * V[n - 1]) + (sign * DigitOf(text[n]))]
      V == CHOOSE V : E(V)
<1>1. \A W : AreValues(W, text, base, sign) => E(W)
  BY Zenon DEF AreValues, ValueOf
<1>2. E(V)
  BY <1>1, ValuesExist, Zenon
<1>3. Numeral(text, base, sign) = V[Len(text)]
  BY Zenon DEF Numeral
<1>4. V \in [0..Len(text) -> Int]
  <2> DEFINE Done == {n \in Nat : n <= Len(text) => V[n] \in Int}
  <2> HIDE DEF V
  <2>1. \A n \in 0..Len(text) : V[n] = IF n = 0 THEN 0 ELSE (base * V[n - 1]) + (sign * DigitOf(text[n]))
    BY <1>2
  <2> HIDE DEF E
  <2>2. 0 \in Done
    BY <2>1
  <2>3. \A n \in Nat : n \in Done => n + 1 \in Done
    <3>1. ASSUME NEW n \in Nat, n \in Done, n + 1 <= Len(text) PROVE V[n + 1] \in Int
      <4>1. n + 1 \in 0..Len(text) /\ n + 1 # 0 /\ (n + 1) - 1 = n /\ n <= Len(text)
        BY <3>1
      <4>2. V[n] \in Int /\ DigitOf(text[n + 1]) \in Int
        BY <3>1, <4>1, DigitIsInt
      <4>3. V[n + 1] = (base * V[n]) + (sign * DigitOf(text[n + 1]))
        BY <2>1, <4>1
      <4>4. (base * V[n]) \in Int /\ (sign * DigitOf(text[n + 1])) \in Int
        BY <4>2
      <4> QED BY <4>3, <4>4
    <3> QED BY <3>1
  <2>4. \A n \in Nat : n \in Done
    <3> HIDE DEF Done
    <3> QED BY <2>2, <2>3, Upward
  <2>5. \A n \in 0..Len(text) : V[n] \in Int
    BY <2>4
  <2>6. V = [n \in 0..Len(text) |-> V[n]]
    BY <1>2, Zenon DEF E
  <2> QED BY <2>5, <2>6
<1>5. AreValues(V, text, base, sign)
  BY <1>2, <1>4, Zenon DEF AreValues, ValueOf
<1> QED BY <1>3, <1>5

(* What a text stands for is a number. *)
LEMMA NumeralIsInt ==
  ASSUME NEW text, Len(text) \in Nat, NEW base \in Int, NEW sign \in Int
  PROVE  Numeral(text, base, sign) \in Int
<1>1. PICK V : AreValues(V, text, base, sign) /\ Numeral(text, base, sign) = V[Len(text)]
  BY NumeralIs
<1>2. V \in [0..Len(text) -> Int]
  BY <1>1, Zenon DEF AreValues
<1> QED BY <1>1, <1>2

(* No digits stand for zero. *)
LEMMA NumeralOfEmpty ==
  ASSUME NEW text, Len(text) = 0, NEW base \in Int, NEW sign \in Int
  PROVE  Numeral(text, base, sign) = 0
<1>1. PICK V : AreValues(V, text, base, sign) /\ Numeral(text, base, sign) = V[Len(text)]
  BY NumeralIs
<1>2. V[0] = ValueOf(V, text, base, sign, 0)
  BY <1>1 DEF AreValues
<1> QED BY <1>1, <1>2 DEF ValueOf

(* One text begins with so many zeros and goes on with the other text. *)
GoesOn(more, k, text) ==
  /\ Len(text) \in Nat /\ Len(more) \in Nat /\ k \in Nat /\ k + Len(text) <= Len(more)
  /\ \A i \in 1..k : DigitOf(more[i]) = 0
  /\ \A i \in 1..Len(text) : more[k + i] = text[i]

(* The numbers of the beginnings are then those of the other text. *)
LEMMA ValuesAgree ==
  ASSUME NEW text, NEW more, NEW k, GoesOn(more, k, text), NEW base \in Int, NEW sign \in Int,
         NEW V, AreValues(V, text, base, sign), NEW W, AreValues(W, more, base, sign)
  PROVE  W[k + Len(text)] = V[Len(text)]
<1> DEFINE m == Len(text)
<1>0. /\ m \in Nat /\ Len(more) \in Nat /\ k \in Nat /\ k + m <= Len(more)
      /\ \A i \in 1..k : DigitOf(more[i]) = 0
      /\ \A i \in 1..m : more[k + i] = text[i]
  BY DEF GoesOn
<1>1. \A n \in 0..m : V[n] = ValueOf(V, text, base, sign, n) /\ V[n] \in Int
  BY <1>0 DEF AreValues
<1>2. \A n \in 0..Len(more) : W[n] = ValueOf(W, more, base, sign, n) /\ W[n] \in Int
  BY <1>0 DEF AreValues
<1> HIDE DEF m
<1> DEFINE Zeros == {n \in Nat : n <= k => W[n] = 0}
           Same  == {n \in Nat : n <= m => W[k + n] = V[n]}
<1>3. \A n \in Nat : n \in Zeros
  <2>1. 0 \in Zeros
    BY <1>0, <1>2 DEF ValueOf
  <2>2. \A n \in Nat : n \in Zeros => n + 1 \in Zeros
    <3>1. ASSUME NEW n \in Nat, n \in Zeros, n + 1 <= k PROVE W[n + 1] = 0
      <4>1. n + 1 \in 0..Len(more) /\ n + 1 # 0 /\ (n + 1) - 1 = n /\ n + 1 \in 1..k /\ n <= k
        BY <1>0, <3>1
      <4>2. W[n + 1] = (base * W[n]) + (sign * DigitOf(more[n + 1]))
        BY <1>2, <4>1 DEF ValueOf
      <4>3. W[n] = 0 /\ DigitOf(more[n + 1]) = 0
        BY <1>0, <3>1, <4>1
      <4> QED BY <4>2, <4>3
    <3> QED BY <3>1
  <2> HIDE DEF Zeros
  <2> QED BY <2>1, <2>2, Upward
<1>4. \A n \in Nat : n \in Same
  <2>1. 0 \in Same
    <3>1. W[k] = 0 /\ V[0] = 0
      BY <1>0, <1>1, <1>2, <1>3 DEF ValueOf
    <3> QED BY <1>0, <3>1
  <2>2. \A n \in Nat : n \in Same => n + 1 \in Same
    <3>1. ASSUME NEW n \in Nat, n \in Same, n + 1 <= m PROVE W[k + (n + 1)] = V[n + 1]
      <4>1. /\ n + 1 \in 0..m /\ n + 1 # 0 /\ (n + 1) - 1 = n /\ n + 1 \in 1..m /\ n <= m
            /\ k + (n + 1) \in 0..Len(more) /\ k + (n + 1) # 0 /\ (k + (n + 1)) - 1 = k + n
        BY <1>0, <3>1
      <4>2. V[n + 1] = (base * V[n]) + (sign * DigitOf(text[n + 1]))
        BY <1>1, <4>1 DEF ValueOf
      <4>3. W[k + (n + 1)] = (base * W[k + n]) + (sign * DigitOf(more[k + (n + 1)]))
        BY <1>2, <4>1 DEF ValueOf
      <4>4. W[k + n] = V[n] /\ more[k + (n + 1)] = text[n + 1]
        BY <1>0, <3>1, <4>1
      <4> QED BY <4>2, <4>3, <4>4
    <3> QED BY <3>1
  <2> HIDE DEF Same
  <2> QED BY <2>1, <2>2, Upward
<1> QED BY <1>0, <1>4 DEF m

(* Zeros at the front change nothing. *)
LEMMA LeadingZeros ==
  ASSUME NEW text, NEW more, NEW k, GoesOn(more, k, text), Len(more) = k + Len(text),
         NEW base \in Int, NEW sign \in Int
  PROVE  Numeral(more, base, sign) = Numeral(text, base, sign)
<1>0. Len(text) \in Nat /\ Len(more) \in Nat
  BY DEF GoesOn
<1>1. PICK V : AreValues(V, text, base, sign) /\ Numeral(text, base, sign) = V[Len(text)]
  BY <1>0, NumeralIs
<1>2. PICK W : AreValues(W, more, base, sign) /\ Numeral(more, base, sign) = W[Len(more)]
  BY <1>0, NumeralIs
<1>3. W[k + Len(text)] = V[Len(text)]
  BY <1>1, <1>2, ValuesAgree
<1> QED BY <1>1, <1>2, <1>3

(* A digit at the end *)
LEMMA OneMoreDigit ==
  ASSUME NEW text, Len(text) \in Nat, NEW more, Len(more) = Len(text) + 1,
         NEW base \in Int, NEW sign \in Int,
         \A i \in 1..Len(text) : more[i] = text[i]
  PROVE  Numeral(more, base, sign) =
           (base * Numeral(text, base, sign)) + (sign * DigitOf(more[Len(more)]))
<1>0. Len(more) \in Nat
  OBVIOUS
<1>1. PICK V : AreValues(V, text, base, sign) /\ Numeral(text, base, sign) = V[Len(text)]
  BY NumeralIs
<1>2. PICK W : AreValues(W, more, base, sign) /\ Numeral(more, base, sign) = W[Len(more)]
  BY <1>0, NumeralIs
<1>3. GoesOn(more, 0, text)
  BY DEF GoesOn
<1>4. W[0 + Len(text)] = V[Len(text)]
  BY <1>1, <1>2, <1>3, ValuesAgree
<1>5. W[Len(more)] = ValueOf(W, more, base, sign, Len(more))
  BY <1>0, <1>2 DEF AreValues
<1>6. Len(more) # 0 /\ Len(more) - 1 = Len(text) /\ 0 + Len(text) = Len(text)
  OBVIOUS
<1>7. W[Len(more)] = (base * W[Len(text)]) + (sign * DigitOf(more[Len(more)]))
  BY <1>5, <1>6 DEF ValueOf
<1> QED BY <1>1, <1>2, <1>4, <1>6, <1>7

(* The characters of numbers, and their sequences *)
DigitChars == {digitsHex[d] : d \in 1..16}

(* zero() and digitsHex give digits, which are neither a sign nor a point. *)
LEMMA DigitsAreDigits ==
  /\ \A d \in 0..15 : digitsHex[d + 1] \in DigitChars
  /\ \A l \in (-9)..9 : zero(l) \in DigitChars
  /\ "." \notin DigitChars /\ "-" \notin DigitChars
  /\ DigitOf("0") = 0 /\ "0" \in DigitChars
<1>1. \A d \in 0..15 : digitsHex[d + 1] \in DigitChars
  <2>1. \A d \in 0..15 : d + 1 \in 1..16
    OBVIOUS
  <2> QED BY <2>1 DEF DigitChars
<1>2. ASSUME NEW l \in (-9)..9 PROVE zero(l) \in DigitChars
  <2>1. zero(l) = digitsHex[(IF l < 0 THEN -l ELSE l) + 1]
    BY DEF zero, digits, digitsHex
  <2>2. (IF l < 0 THEN -l ELSE l) \in 0..15
    OBVIOUS
  <2> QED BY <1>1, <2>1, <2>2
<1>3. \A d \in 1..16 : digitsHex[d] # "." /\ digitsHex[d] # "-"
  BY DEF digitsHex
<1>4. DigitOf("0") = 0 /\ "0" \in DigitChars
  <2>1. digitsHex[0 + 1] = "0" /\ 0 \in 0..15
    BY DEF digitsHex
  <2> QED BY <1>1, <2>1, DigitIs
<1> QED BY <1>1, <1>2, <1>3, <1>4 DEF DigitChars

(* A sequence from its end to its beginning *)
LEMMA ReverseIs ==
  ASSUME NEW S, NEW r \in Seq(S)
  PROVE  /\ Reverse(r) \in Seq(S) /\ Len(Reverse(r)) = Len(r)
         /\ \A i \in 1..Len(r) : Reverse(r)[i] = r[(Len(r) - i) + 1]
<1> DEFINE n == Len(r)
           t == Reverse(r)
<1>1. n \in Nat /\ r \in [1..n -> S]
  BY LenProperties
<1>2. t = [i \in 1..n |-> r[(n - i) + 1]]
  BY DEF Reverse
<1> HIDE DEF n, t
<1>3. \A i \in 1..n : (n - i) + 1 \in 1..n
  BY <1>1
<1>4. \A i \in 1..n : r[(n - i) + 1] \in S
  BY <1>1, <1>3
<1>5. t \in [1..n -> S]
  BY <1>2, <1>4
<1>6. t \in Seq(S)
  BY <1>1, <1>5, SeqDef
<1>7. Len(t) = n
  <2>1. DOMAIN t = 1..n /\ DOMAIN t = 1..Len(t) /\ Len(t) \in Nat
    BY <1>5, <1>6, LenProperties
  <2> QED BY <1>1, <2>1
<1> QED BY <1>2, <1>6, <1>7 DEF n, t

(* A sequence with one more element at the front *)
LEMMA FirstOf ==
  ASSUME NEW S, NEW c \in S, NEW r \in Seq(S)
  PROVE  /\ <<c>> \o r \in Seq(S) /\ Len(<<c>> \o r) = Len(r) + 1
         /\ (<<c>> \o r)[1] = c /\ \A i \in 1..Len(r) : (<<c>> \o r)[i + 1] = r[i]
<1>1. <<c>> \in Seq(S) /\ Len(<<c>>) = 1 /\ <<c>>[1] = c
  OBVIOUS
<1> DEFINE one == <<c>>
           s   == one \o r
<1> HIDE DEF one
<1>2. Len(r) \in Nat
  BY LenProperties
<1>3. /\ s \in Seq(S) /\ Len(s) = 1 + Len(r)
      /\ \A i \in 1..(1 + Len(r)) : s[i] = IF i <= 1 THEN one[i] ELSE r[i - 1]
  BY <1>1, ConcatProperties DEF one
<1> HIDE DEF s
<1>4. s[1] = c
  BY <1>1, <1>2, <1>3 DEF one
<1>5. ASSUME NEW i \in 1..Len(r) PROVE s[i + 1] = r[i]
  <2>1. i + 1 \in 1..(1 + Len(r)) /\ ~ (i + 1 <= 1) /\ (i + 1) - 1 = i
    BY <1>2
  <2> QED BY <1>3, <2>1
<1> QED BY <1>2, <1>3, <1>4, <1>5 DEF s, one

(* Digits, the least significant first, are those of a number in this base,   *)
(* without leading zeros.                                                     *)
AreDigits(r, base, sign, v) ==
  /\ r \in Seq(DigitChars) /\ r # <<>>
  /\ IF v = 0 THEN Len(r) = 1 ELSE r[Len(r)] # "0"
  /\ Numeral(Reverse(r), base, sign) = v

(* A single digit *)
LEMMA OneDigit ==
  ASSUME NEW c \in DigitChars, NEW base \in Int, NEW sign \in Int
  PROVE  /\ AreDigits(<<c>>, base, sign, sign * DigitOf(c))
         /\ Len(<<c>>) = 1
<1> DEFINE r == <<c>>
           e == <<>>
           v == sign * DigitOf(c)
<1>1. r \in Seq(DigitChars) /\ Len(r) = 1 /\ r[1] = c /\ r # <<>> /\ Len(e) = 0
  OBVIOUS
<1> HIDE DEF r, e
<1>2. DigitOf(c) \in Int
  BY DigitIsInt
<1>3. Len(Reverse(r)) = 1 /\ Reverse(r)[1] = c
  BY <1>1, ReverseIs
<1>4. Numeral(e, base, sign) = 0
  BY <1>1, NumeralOfEmpty
<1>5. \A i \in 1..Len(e) : Reverse(r)[i] = e[i]
  BY <1>1
<1>6. Numeral(Reverse(r), base, sign) = (base * Numeral(e, base, sign)) + (sign * DigitOf(Reverse(r)[1]))
  BY <1>1, <1>3, <1>5, OneMoreDigit
<1>7. Numeral(Reverse(r), base, sign) = v
  BY <1>2, <1>3, <1>4, <1>6
<1>8. c = "0" => v = 0
  BY DigitsAreDigits
<1> HIDE DEF v
<1>9. AreDigits(r, base, sign, v)
  BY <1>1, <1>7, <1>8 DEF AreDigits
<1> QED BY <1>1, <1>9 DEF r, v

(* A digit before those of a number that is not zero *)
LEMMA MoreDigits ==
  ASSUME NEW r, NEW base \in Int, NEW sign \in Int, NEW q, q # 0, AreDigits(r, base, sign, q),
         NEW c \in DigitChars, NEW v, v # 0, v = (base * q) + (sign * DigitOf(c))
  PROVE  AreDigits(<<c>> \o r, base, sign, v) /\ Len(<<c>> \o r) = Len(r) + 1
<1> DEFINE s == <<c>> \o r
           n == Len(r)
<1>1. /\ r \in Seq(DigitChars) /\ r # <<>> /\ r[n] # "0"
      /\ Numeral(Reverse(r), base, sign) = q
  BY DEF AreDigits
<1>2. n \in Nat \ {0}
  BY <1>1, EmptySeq
<1>3. /\ s \in Seq(DigitChars) /\ Len(s) = n + 1 /\ s[1] = c
      /\ \A i \in 1..n : s[i + 1] = r[i]
  BY <1>1, FirstOf
<1> HIDE DEF s, n
<1>4. Len(Reverse(r)) = n /\ \A i \in 1..n : Reverse(r)[i] = r[(n - i) + 1]
  BY <1>1, ReverseIs DEF n
<1>5. Len(Reverse(s)) = n + 1 /\ \A i \in 1..(n + 1) : Reverse(s)[i] = s[((n + 1) - i) + 1]
  BY <1>3, ReverseIs
<1>6. ASSUME NEW i \in 1..n PROVE Reverse(s)[i] = Reverse(r)[i]
  <2>1. i \in 1..(n + 1) /\ (n - i) + 1 \in 1..n /\ ((n + 1) - i) + 1 = ((n - i) + 1) + 1
    BY <1>2
  <2> QED BY <1>3, <1>4, <1>5, <2>1
<1>7. Reverse(s)[n + 1] = c
  <2>1. n + 1 \in 1..(n + 1) /\ ((n + 1) - (n + 1)) + 1 = 1
    BY <1>2
  <2> QED BY <1>3, <1>5, <2>1
<1>8. Numeral(Reverse(s), base, sign) = (base * q) + (sign * DigitOf(c))
  <2> DEFINE t == Reverse(r)
             u == Reverse(s)
  <2>1. Len(t) = n /\ Len(t) \in Nat /\ Len(u) = Len(t) + 1 /\ \A i \in 1..Len(t) : u[i] = t[i]
    BY <1>2, <1>4, <1>5, <1>6
  <2>2. u[Len(u)] = c /\ Numeral(t, base, sign) = q
    BY <1>1, <1>5, <1>7
  <2> HIDE DEF t, u
  <2>3. Numeral(u, base, sign) = (base * Numeral(t, base, sign)) + (sign * DigitOf(u[Len(u)]))
    BY <2>1, OneMoreDigit
  <2> QED BY <2>2, <2>3 DEF u
<1>9. s # <<>> /\ s[Len(s)] # "0"
  <2>1. n \in 1..n /\ s[n + 1] = r[n]
    BY <1>2, <1>3
  <2>2. s # <<>>
    BY <1>2, <1>3, EmptySeq
  <2> QED BY <1>1, <1>3, <2>1, <2>2
<1>10. AreDigits(s, base, sign, v)
  BY <1>3, <1>8, <1>9 DEF AreDigits
<1> QED BY <1>3, <1>10 DEF s, n

(* The last digit of a number has its sign, and the rest of it is smaller. *)
LEMMA LastDigit ==
  ASSUME NEW v \in Int
  PROVE  LET q == CDiv(v, 10)
             l == CMod(v, 10)
         IN  /\ q \in Int /\ l \in (-9)..9 /\ v = (10 * q) + l
             /\ v >= 0 => q >= 0 /\ l >= 0 /\ (v # 0 => q < v)
             /\ v < 0 => q <= 0 /\ l <= 0 /\ v < q
             /\ v = 0 => q = 0
  BY DEF CDiv, CMod

(* A function that writes digits, one after the other, exists if what is left *)
(* to write goes down a measure.                                              *)
Writes(f, D, char, stop, next) ==
  f = [i \in D |-> <<char[i]>> \o IF i \in stop THEN <<>> ELSE f[next[i]]]

(* By the existence of recursive functions *)
LEMMA WritingExists ==
  ASSUME NEW D, NEW char, NEW stop, NEW next, NEW mu,
         \A i \in D : char[i] \in DigitChars,
         \A i \in D : mu[i] \in Nat,
         \A i \in D : i \notin stop => next[i] \in D /\ mu[next[i]] < mu[i]
  PROVE  \E f : Writes(f, D, char, stop, next)
<1> DEFINE R == Seq(DigitChars)
           first == [i \in D |-> <<char[i]>>]
           made == [p \in D \X R |-> <<char[p[1]]>> \o p[2]]
<1>1. \A i \in D : first[i] \in R
  OBVIOUS
<1>2. \A i \in D, r \in R : made[<<i, r>>] = <<char[i]>> \o r
  <2> HIDE DEF R
  <2> QED OBVIOUS
<1>3. \A i \in D, r \in R : made[<<i, r>>] \in R
  <2>1. ASSUME NEW i \in D, NEW r \in R PROVE made[<<i, r>>] \in R
    <3> DEFINE c == char[i]
    <3>1. c \in DigitChars /\ made[<<i, r>>] = <<c>> \o r
      BY <1>2
    <3> HIDE DEF made, c
    <3>2. <<c>> \o r \in Seq(DigitChars)
      BY <3>1, FirstOf
    <3> QED BY <3>1, <3>2
  <2> QED BY <2>1
<1>4. PICK f \in [D -> R] : Recurs(f, D, stop, first, next, made)
  <2> HIDE DEF R, first, made
  <2> QED BY <1>1, <1>3, RecursionExists
<1>5. \A i \in D : f[i] = IF i \in stop THEN first[i] ELSE made[<<i, f[next[i]]>>]
  <2> HIDE DEF first, made
  <2> QED BY <1>4, Zenon DEF Recurs
<1>6. ASSUME NEW i \in D
      PROVE  f[i] = <<char[i]>> \o IF i \in stop THEN <<>> ELSE f[next[i]]
  <2>1. CASE i \in stop
    <3> DEFINE s == <<char[i]>>
    <3>1. f[i] = s
      <4>1. first[i] = s
        OBVIOUS
      <4> HIDE DEF first, made, s
      <4> QED BY <1>5, <2>1, <4>1
    <3>2. s \in Seq({char[i]})
      OBVIOUS
    <3> HIDE DEF s
    <3>3. s \o <<>> = s
      BY <3>2, ConcatEmptySeq
    <3> QED BY <2>1, <3>1, <3>3 DEF s
  <2>2. CASE i \notin stop
    <3>1. f[next[i]] \in R
      BY <2>2
    <3>2. f[i] = made[<<i, f[next[i]]>>]
      <4> HIDE DEF made
      <4> QED BY <1>5, <2>2
    <3>3. made[<<i, f[next[i]]>>] = <<char[i]>> \o f[next[i]]
      <4> HIDE DEF made, R
      <4> QED BY <1>2, <3>1
    <3> HIDE DEF made
    <3> QED BY <2>2, <3>2, <3>3
  <2> QED BY <2>1, <2>2
<1>7. f = [i \in D |-> f[i]]
  OBVIOUS
<1>8. f = [i \in D |-> <<char[i]>> \o IF i \in stop THEN <<>> ELSE f[next[i]]]
  BY <1>6, <1>7, Zenon
<1> QED BY <1>8, Zenon DEF Writes

Rest(v) == IF CDiv(v, 10) = 0 THEN <<>> ELSE Digits[CDiv(v, 10)]

AreAllDigits(D) ==
  D = [i \in Int |-> <<zero(CMod(i, 10))>> \o IF CDiv(i, 10) = 0 THEN <<>> ELSE D[CDiv(i, 10)]]

(* convert() comes to an end for numbers of either sign. *)
LEMMA AllDigitsExist == \E D : AreAllDigits(D)
<1> DEFINE Z == Int
           char == [i \in Z |-> zero(CMod(i, 10))]
           stop == {i \in Z : CDiv(i, 10) = 0}
           next == [i \in Z |-> CDiv(i, 10)]
           mu == [i \in Z |-> IF i < 0 THEN -i ELSE i]
<1>1. \A i \in Z : mu[i] \in Nat
  OBVIOUS
<1>2. ASSUME NEW i \in Z, i \notin stop PROVE next[i] \in Z /\ mu[next[i]] < mu[i]
  <2> DEFINE q == CDiv(i, 10)
  <2>1. q \in Int /\ (i >= 0 => q >= 0 /\ (i # 0 => q < i)) /\ (i < 0 => q <= 0 /\ i < q) /\ (i = 0 => q = 0)
    BY LastDigit
  <2>2. q # 0 /\ next[i] = q
    BY <1>2
  <2> HIDE DEF q, next
  <2>3. mu[q] < mu[i]
    BY <2>1, <2>2
  <2> QED BY <2>1, <2>2, <2>3
<1>3. \A i \in Z : char[i] \in DigitChars
  BY LastDigit, DigitsAreDigits
<1>4. PICK D : Writes(D, Z, char, stop, next)
  <2> HIDE DEF Z, char, stop, next, mu
  <2> QED BY <1>1, <1>2, <1>3, WritingExists
<1>5. /\ D = [i \in Z |-> D[i]]
      /\ \A i \in Z : D[i] = <<char[i]>> \o IF i \in stop THEN <<>> ELSE D[next[i]]
  <2> HIDE DEF Z, char, stop, next
  <2> QED BY <1>4, Zenon DEF Writes
<1>6. \A i \in Z : char[i] = zero(CMod(i, 10)) /\ next[i] = CDiv(i, 10) /\ (i \in stop <=> CDiv(i, 10) = 0)
  OBVIOUS
<1>7. ASSUME NEW i \in Z
      PROVE  D[i] = <<zero(CMod(i, 10))>> \o IF CDiv(i, 10) = 0 THEN <<>> ELSE D[CDiv(i, 10)]
  <2> HIDE DEF Z, char, stop, next
  <2> QED BY <1>5, <1>6
<1>8. D = [i \in Z |-> <<zero(CMod(i, 10))>> \o IF CDiv(i, 10) = 0 THEN <<>> ELSE D[CDiv(i, 10)]]
  BY <1>5, <1>7, Zenon
<1> QED BY <1>8, Zenon DEF AreAllDigits

(* So the digits are defined: the last one, and the rest. *)
LEMMA DigitsOf == \A v \in Int : Digits[v] = <<zero(CMod(v, 10))>> \o Rest(v)
<1> DEFINE D == CHOOSE D : AreAllDigits(D)
<1>1. Digits = D
  BY Zenon DEF Digits, AreAllDigits
<1>2. AreAllDigits(D)
  BY AllDigitsExist, Zenon
<1> HIDE DEF D
<1>3. \A v \in Int : D[v] = <<zero(CMod(v, 10))>> \o IF CDiv(v, 10) = 0 THEN <<>> ELSE D[CDiv(v, 10)]
  BY <1>2, Zenon DEF AreAllDigits
<1> QED BY <1>1, <1>3, Zenon DEF Rest

SignOf(v) == IF v < 0 THEN -1 ELSE 1

(* They are those of the number, by induction over its magnitude. *)
LEMMA DigitsRight ==
  \A v \in Int : AreDigits(Digits[v], 10, SignOf(v), v)
                 /\ Len(Digits[v]) = IF CDiv(v, 10) = 0 THEN 1 ELSE Len(Digits[CDiv(v, 10)]) + 1
<1> DEFINE Right(v) == AreDigits(Digits[v], 10, SignOf(v), v)
                       /\ Len(Digits[v]) = IF CDiv(v, 10) = 0 THEN 1 ELSE Len(Digits[CDiv(v, 10)]) + 1
           Good == {n \in Nat : \A v \in Int : v < n /\ -v < n => Right(v)}
<1>1. 0 \in Good
  BY SMT
<1>2. \A n \in Nat : n \in Good => n + 1 \in Good
  <2>1. ASSUME NEW n \in Nat, n \in Good, NEW v \in Int, v < n + 1, -v < n + 1 PROVE Right(v)
    <3> DEFINE q == CDiv(v, 10)
               l == CMod(v, 10)
               c == zero(l)
               sign == SignOf(v)
    <3>1. /\ q \in Int /\ l \in (-9)..9 /\ v = (10 * q) + l
          /\ v >= 0 => q >= 0 /\ l >= 0 /\ (v # 0 => q < v)
          /\ v < 0 => q <= 0 /\ l <= 0 /\ v < q
          /\ v = 0 => q = 0
      BY LastDigit
    <3>2. c \in DigitChars /\ DigitOf(c) = IF l < 0 THEN -l ELSE l
      <4> HIDE DEF l
      <4> QED BY <3>1, DigitsAreDigits, DigitIs
    <3>3. Digits[v] = <<c>> \o (IF q = 0 THEN <<>> ELSE Digits[q])
      BY DigitsOf DEF Rest
    <3>4. sign \in Int /\ (v < 0 => sign = -1) /\ (v >= 0 => sign = 1)
      BY DEF SignOf
    <3> HIDE DEF q, l, c, sign
    <3>5. sign * DigitOf(c) = l
      BY <3>1, <3>2, <3>4
    <3>6. CASE q = 0
      <4>1. v = l
        BY <3>1, <3>6
      <4>2. Digits[v] = <<c>>
        <5> DEFINE s == <<c>>
        <5>1. s \in Seq({c})
          OBVIOUS
        <5> HIDE DEF s
        <5>2. s \o <<>> = s
          BY <5>1, ConcatEmptySeq
        <5> QED BY <3>3, <3>6, <5>2 DEF s
      <4>3. AreDigits(<<c>>, 10, sign, v) /\ Len(<<c>>) = 1
        BY <3>2, <3>4, <3>5, <4>1, OneDigit
      <4> QED BY <3>6, <4>2, <4>3 DEF q, sign
    <3>7. CASE q # 0
      <4>1. v # 0 /\ q < n /\ -q < n /\ SignOf(q) = sign
        BY <2>1, <3>1, <3>4, <3>7 DEF SignOf
      <4>2. AreDigits(Digits[q], 10, sign, q)
        BY <2>1, <3>1, <4>1
      <4>3. v = (10 * q) + (sign * DigitOf(c))
        BY <3>1, <3>5
      <4>4. Digits[v] = <<c>> \o Digits[q]
        BY <3>3, <3>7
      <4> HIDE DEF Good, Right
      <4>5. AreDigits(<<c>> \o Digits[q], 10, sign, v) /\ Len(<<c>> \o Digits[q]) = Len(Digits[q]) + 1
        BY <3>2, <3>4, <3>7, <4>1, <4>2, <4>3, MoreDigits
      <4> QED BY <3>7, <4>4, <4>5 DEF q, sign, Right
    <3> QED BY <3>6, <3>7
  <2> HIDE DEF Right
  <2> QED BY <2>1
<1>3. \A n \in Nat : n \in Good
  <2> HIDE DEF Good
  <2> QED BY <1>1, <1>2, Upward
<1>4. ASSUME NEW v \in Int PROVE Right(v)
  <2> HIDE DEF Right
  <2> DEFINE n == (IF v < 0 THEN -v ELSE v) + 1
  <2>1. n \in Nat /\ v < n /\ -v < n
    OBVIOUS
  <2> HIDE DEF n
  <2> QED BY <1>3, <2>1
<1> QED BY <1>4

(* The same to base 16, for numbers that are not negative *)
LEMMA LastHexDigit ==
  ASSUME NEW v \in Nat
  PROVE  LET q == v \div 16
             l == v % 16
         IN  /\ q \in Nat /\ l \in 0..15 /\ v = (16 * q) + l
             /\ v < 16 => q = 0
             /\ ~ (v < 16) => q # 0 /\ q < v
  BY SMT

HexRest(v) == IF v < 16 THEN <<>> ELSE HexDigits[v \div 16]

AreAllHexDigits(D) ==
  D = [i \in Nat |-> <<digitsHex[(i % 16) + 1]>> \o IF i < 16 THEN <<>> ELSE D[i \div 16]]

(* convertHex() comes to an end. *)
LEMMA AllHexDigitsExist == \E D : AreAllHexDigits(D)
<1> DEFINE N == Nat
           char == [i \in N |-> digitsHex[(i % 16) + 1]]
           stop == {i \in N : i < 16}
           next == [i \in N |-> i \div 16]
           mu == [i \in N |-> i]
<1>1. \A i \in N : mu[i] \in Nat
  OBVIOUS
<1>2. ASSUME NEW i \in N, i \notin stop PROVE next[i] \in N /\ mu[next[i]] < mu[i]
  <2> DEFINE q == i \div 16
  <2>1. q \in N /\ q < i
    BY <1>2, LastHexDigit
  <2>2. next[i] = q
    OBVIOUS
  <2> HIDE DEF q, next
  <2> QED BY <2>1, <2>2
<1>3. \A i \in N : char[i] \in DigitChars
  <2>1. \A i \in N : i % 16 \in 0..15
    BY SMT
  <2> QED BY <2>1, DigitsAreDigits
<1>4. PICK D : Writes(D, N, char, stop, next)
  <2> HIDE DEF N, char, stop, next, mu
  <2> QED BY <1>1, <1>2, <1>3, WritingExists
<1>5. /\ D = [i \in N |-> D[i]]
      /\ \A i \in N : D[i] = <<char[i]>> \o IF i \in stop THEN <<>> ELSE D[next[i]]
  <2> HIDE DEF N, char, stop, next
  <2> QED BY <1>4, Zenon DEF Writes
<1>6. \A i \in N : char[i] = digitsHex[(i % 16) + 1] /\ next[i] = i \div 16 /\ (i \in stop <=> i < 16)
  OBVIOUS
<1>7. ASSUME NEW i \in N
      PROVE  D[i] = <<digitsHex[(i % 16) + 1]>> \o IF i < 16 THEN <<>> ELSE D[i \div 16]
  <2> HIDE DEF N, char, stop, next
  <2> QED BY <1>5, <1>6
<1>8. D = [i \in N |-> <<digitsHex[(i % 16) + 1]>> \o IF i < 16 THEN <<>> ELSE D[i \div 16]]
  BY <1>5, <1>7, Zenon
<1> QED BY <1>8, Zenon DEF AreAllHexDigits

(* So its digits are defined, *)
LEMMA HexDigitsOf == \A v \in Nat : HexDigits[v] = <<digitsHex[(v % 16) + 1]>> \o HexRest(v)
<1> DEFINE D == CHOOSE D : AreAllHexDigits(D)
<1>1. HexDigits = D
  BY Zenon DEF HexDigits, AreAllHexDigits
<1>2. AreAllHexDigits(D)
  BY AllHexDigitsExist, Zenon
<1> HIDE DEF D
<1>3. \A v \in Nat : D[v] = <<digitsHex[(v % 16) + 1]>> \o IF v < 16 THEN <<>> ELSE D[v \div 16]
  BY <1>2, Zenon DEF AreAllHexDigits
<1> QED BY <1>1, <1>3, Zenon DEF HexRest

(* and are those of the number. *)
LEMMA HexDigitsRight == \A v \in Nat : AreDigits(HexDigits[v], 16, 1, v)
<1> DEFINE Right(v) == AreDigits(HexDigits[v], 16, 1, v)
           Good == {n \in Nat : \A v \in Nat : v < n => Right(v)}
<1>1. 0 \in Good
  BY SMT
<1>2. \A n \in Nat : n \in Good => n + 1 \in Good
  <2>1. ASSUME NEW n \in Nat, n \in Good, NEW v \in Nat, v < n + 1 PROVE Right(v)
    <3> DEFINE q == v \div 16
               l == v % 16
               c == digitsHex[l + 1]
    <3>1. /\ q \in Nat /\ l \in 0..15 /\ v = (16 * q) + l
          /\ v < 16 => q = 0
          /\ ~ (v < 16) => q # 0 /\ q < v
      BY LastHexDigit
    <3>2. c \in DigitChars /\ DigitOf(c) = l
      <4> HIDE DEF l
      <4> QED BY <3>1, DigitsAreDigits, DigitIs
    <3>3. HexDigits[v] = <<c>> \o (IF v < 16 THEN <<>> ELSE HexDigits[q])
      BY HexDigitsOf DEF HexRest
    <3> HIDE DEF q, l, c
    <3>4. 1 * DigitOf(c) = l
      BY <3>1, <3>2
    <3>5. CASE v < 16
      <4>1. v = l
        BY <3>1, <3>5
      <4>2. HexDigits[v] = <<c>>
        <5> DEFINE s == <<c>>
        <5>1. s \in Seq({c})
          OBVIOUS
        <5> HIDE DEF s
        <5>2. s \o <<>> = s
          BY <5>1, ConcatEmptySeq
        <5> QED BY <3>3, <3>5, <5>2 DEF s
      <4>3. AreDigits(<<c>>, 16, 1, v)
        BY <3>2, <3>4, <4>1, OneDigit
      <4> QED BY <4>2, <4>3
    <3>6. CASE ~ (v < 16)
      <4>1. v # 0 /\ q # 0 /\ q < n
        BY <2>1, <3>1, <3>6
      <4>2. AreDigits(HexDigits[q], 16, 1, q)
        BY <2>1, <3>1, <4>1
      <4>3. v = (16 * q) + (1 * DigitOf(c))
        BY <3>1, <3>4
      <4>4. HexDigits[v] = <<c>> \o HexDigits[q]
        BY <3>3, <3>6
      <4> HIDE DEF Good, Right
      <4>5. AreDigits(<<c>> \o HexDigits[q], 16, 1, v)
        BY <3>2, <4>1, <4>2, <4>3, MoreDigits
      <4> QED BY <4>4, <4>5 DEF Right
    <3> QED BY <3>5, <3>6
  <2> HIDE DEF Right
  <2> QED BY <2>1
<1>3. \A n \in Nat : n \in Good
  <2> HIDE DEF Good
  <2> QED BY <1>1, <1>2, Upward
<1>4. ASSUME NEW v \in Nat PROVE Right(v)
  <2> HIDE DEF Right
  <2>1. v + 1 \in Nat /\ v < v + 1
    OBVIOUS
  <2> QED BY <1>3, <2>1
<1> QED BY <1>4

(* The text of digits is a numeral for their number. *)
LEMMA DigitsRead ==
  ASSUME NEW r, NEW base, NEW sign, NEW v, AreDigits(r, base, sign, v)
  PROVE  /\ Reverse(r) \in Seq(DigitChars) /\ Len(Reverse(r)) = Len(r) /\ Len(r) \in Nat \ {0}
         /\ IsNumeral(Reverse(r)) /\ Numeral(Reverse(r), base, sign) = v
<1> DEFINE t == Reverse(r)
           n == Len(r)
<1>1. /\ r \in Seq(DigitChars) /\ r # <<>> /\ (n = 1 \/ r[n] # "0")
      /\ Numeral(t, base, sign) = v
  BY DEF AreDigits
<1>2. n \in Nat \ {0}
  BY <1>1, EmptySeq
<1>3. t \in Seq(DigitChars) /\ Len(t) = n /\ \A i \in 1..n : t[i] = r[(n - i) + 1]
  BY <1>1, ReverseIs
<1> HIDE DEF t, n
<1>4. t # <<>>
  BY <1>2, <1>3, EmptySeq
<1>5. Head(t) = t[1]
  BY <1>3, <1>4
<1>6. 1 \in 1..n /\ (n - 1) + 1 = n
  BY <1>2
<1>7. t[1] = r[n]
  BY <1>3, <1>6
<1>8. IsNumeral(t)
  BY <1>1, <1>3, <1>4, <1>5, <1>7 DEF IsNumeral
<1> QED BY <1>1, <1>2, <1>3, <1>8 DEF t, n

(* The text of a number that is not negative *)
LEMMA ConvertPositive ==
  ASSUME NEW v \in Nat
  PROVE  /\ convert(v) \in Seq(DigitChars) /\ Len(convert(v)) = Len(Digits[v])
         /\ Len(convert(v)) \in Nat \ {0}
         /\ IsNumeral(convert(v)) /\ Numeral(convert(v), 10, 1) = v
<1> DEFINE r == Digits[v]
           e == <<>>
<1>1. AreDigits(r, 10, 1, v)
  BY DigitsRight DEF SignOf
<1>2. convert(v) = Reverse(r \o e)
  <2>1. ~ (v < 0)
    OBVIOUS
  <2> QED BY <2>1, Zenon DEF convert
<1>3. r \in Seq(DigitChars)
  BY <1>1 DEF AreDigits
<1> HIDE DEF r
<1>4. r \o e = r
  BY <1>3, ConcatEmptySeq
<1> HIDE DEF e
<1>5. convert(v) = Reverse(r)
  BY <1>2, <1>4
<1> QED BY <1>1, <1>5, DigitsRead DEF r

(* The texts of a number: the sign, if any, was written after the digits and  *)
(* stands before them.                                                        *)
LEMMA NumbersRight == \A v \in Int : NumberRight(v)
<1>1. ASSUME NEW v \in Int, ~ (v < 0) PROVE NumberRight(v)
  <2>1. v \in Nat
    BY <1>1
  <2>2. IsNumeral(convert(v)) /\ Numeral(convert(v), 10, 1) = v
    BY <2>1, ConvertPositive
  <2>3. AreDigits(HexDigits[v], 16, 1, v)
    BY <2>1, HexDigitsRight
  <2>4. IsNumeral(convertHex(v)) /\ Numeral(convertHex(v), 16, 1) = v
    BY <2>3, DigitsRead DEF convertHex
  <2> QED BY <1>1, <2>2, <2>4, Zenon DEF NumberRight
<1>2. ASSUME NEW v \in Int, v < 0 PROVE NumberRight(v)
  <2> DEFINE r == Digits[v]
             n == Len(r)
             minus == <<"-">>
             s == r \o minus
             S == DigitChars \cup {"-"}
             t == convert(v)
             u == Reverse(r)
  <2>1. AreDigits(r, 10, -1, v)
    BY <1>2, DigitsRight DEF SignOf
  <2>2. t = Reverse(s)
    BY <1>2 DEF convert
  <2>3. r \in Seq(DigitChars) /\ minus \in Seq(S) /\ Len(minus) = 1 /\ minus[1] = "-"
    BY <2>1 DEF AreDigits
  <2>4. /\ u \in Seq(DigitChars) /\ Len(u) = n /\ n \in Nat \ {0}
        /\ IsNumeral(u) /\ Numeral(u, 10, -1) = v
    BY <2>1, DigitsRead
  <2>5. DigitChars \subseteq S
    OBVIOUS
  <2> HIDE DEF r, minus, S
  <2>6. r \in Seq(S) /\ u \in Seq(S)
    BY <2>3, <2>4, <2>5, SeqMonotonic
  <2>7. /\ s \in Seq(S) /\ Len(s) = n + 1
        /\ \A i \in 1..(n + 1) : s[i] = IF i <= n THEN r[i] ELSE minus[i - n]
    <3>1. /\ s \in Seq(S) /\ Len(s) = Len(r) + Len(minus)
          /\ \A i \in 1..(Len(r) + Len(minus)) : s[i] = IF i <= Len(r) THEN r[i] ELSE minus[i - Len(r)]
      BY <2>3, <2>6, ConcatProperties
    <3> HIDE DEF s
    <3> QED BY <2>3, <3>1
  <2>8. \A i \in 1..n : u[i] = r[(n - i) + 1]
    BY <2>3, ReverseIs
  <2> HIDE DEF s, t, u, n
  <2>9. /\ t \in Seq(S) /\ Len(t) = n + 1
        /\ \A i \in 1..(n + 1) : t[i] = s[((n + 1) - i) + 1]
    BY <2>2, <2>7, ReverseIs
  <2>10. t # <<>>
    BY <2>4, <2>9, EmptySeq
  <2>11. t[1] = "-"
    <3>1. 1 \in 1..(n + 1) /\ ((n + 1) - 1) + 1 = n + 1 /\ n + 1 \in 1..(n + 1) /\ ~ (n + 1 <= n) /\ (n + 1) - n = 1
      BY <2>4
    <3> QED BY <2>3, <2>7, <2>9, <3>1
  <2>12. Head(t) = "-"
    BY <2>9, <2>10, <2>11
  <2>13. Tail(t) = u
    <3> DEFINE w == Tail(t)
    <3>1. w \in Seq(S) /\ Len(w) = (n + 1) - 1 /\ \A i \in 1..Len(w) : w[i] = t[i + 1]
      BY <2>9, <2>10, HeadTailProperties
    <3> HIDE DEF w
    <3>2. Len(w) = n
      BY <2>4, <3>1
    <3>3. ASSUME NEW i \in 1..n PROVE w[i] = u[i]
      <4>1. /\ i + 1 \in 1..(n + 1) /\ ((n + 1) - (i + 1)) + 1 = (n - i) + 1
            /\ (n - i) + 1 \in 1..(n + 1) /\ (n - i) + 1 <= n
        BY <2>4
      <4>2. w[i] = t[i + 1]
        BY <3>1, <3>2
      <4>3. t[i + 1] = s[(n - i) + 1]
        BY <2>9, <4>1
      <4>4. s[(n - i) + 1] = r[(n - i) + 1]
        BY <2>7, <4>1
      <4> QED BY <2>8, <4>2, <4>3, <4>4
    <3>4. w = u
      BY <2>4, <2>6, <3>1, <3>2, <3>3, SeqEqual
    <3> QED BY <3>4 DEF w
  <2> QED BY <1>2, <2>4, <2>12, <2>13, Zenon DEF NumberRight, t
<1> QED BY <1>1, <1>2

(* A number has few digits if it is small. *)
LEMMA OneDigitMore ==
  ASSUME NEW b \in Nat, NEW k \in Nat, \A w \in Nat : w < b => Len(Digits[w]) <= k,
         NEW v \in Nat, v < 10 * b, b > 0, k > 0
  PROVE  Len(Digits[v]) <= k + 1
<1> DEFINE q == CDiv(v, 10)
<1>1. q \in Nat /\ q < b
  BY SMT DEF CDiv
<1>2. Len(Digits[v]) = IF q = 0 THEN 1 ELSE Len(Digits[q]) + 1
  BY DigitsRight
<1> HIDE DEF q
<1>3. Len(Digits[q]) <= k /\ Len(Digits[q]) \in Nat
  <2>1. AreDigits(Digits[q], 10, SignOf(q), q)
    BY <1>1, DigitsRight
  <2> QED BY <1>1, <2>1, DigitsRead
<1> QED BY <1>2, <1>3

(* The microseconds of a second have at most six digits, *)
LEMMA SixDigitsAreEnough ==
  ASSUME NEW m \in Nat, m < kMicroSecondsPerSecond
  PROVE  Len(Digits[m]) <= 6
<1> DEFINE Fit(b, k) == \A w \in Nat : w < b => Len(Digits[w]) <= k
<1>1. Fit(10, 1)
  <2>1. ASSUME NEW w \in Nat, w < 10 PROVE Len(Digits[w]) <= 1
    <3>1. CDiv(w, 10) = 0
      BY <2>1 DEF CDiv
    <3>2. Len(Digits[w]) = IF CDiv(w, 10) = 0 THEN 1 ELSE Len(Digits[CDiv(w, 10)]) + 1
      BY DigitsRight
    <3> QED BY <3>1, <3>2
  <2> QED BY <2>1
<1>2. \A b \in Nat, k \in Nat : b > 0 /\ k > 0 /\ Fit(b, k) => Fit(10 * b, k + 1)
  BY OneDigitMore
<1> HIDE DEF Fit
<1>3. Fit(100, 2)
  <2>1. Fit(10 * 10, 1 + 1)
    BY <1>1, <1>2
  <2> QED BY <2>1, SMT
<1>4. Fit(1000, 3)
  <2>1. Fit(10 * 100, 2 + 1)
    BY <1>2, <1>3, SMT
  <2> QED BY <2>1, SMT
<1>5. Fit(10 * 1000, 4)
  <2>1. Fit(10 * 1000, 3 + 1)
    BY <1>2, <1>4, SMT
  <2> QED BY <2>1, SMT
<1>6. Fit(10 * (10 * 1000), 5)
  <2>1. Fit(10 * (10 * 1000), 4 + 1)
    BY <1>2, <1>5, SMT
  <2> QED BY <2>1, SMT
<1>7. Fit(10 * (10 * (10 * 1000)), 6)
  <2>1. Fit(10 * (10 * (10 * 1000)), 5 + 1)
    BY <1>2, <1>6, SMT
  <2> QED BY <2>1, SMT
<1>8. m < 10 * (10 * (10 * 1000))
  BY SMT DEF kMicroSecondsPerSecond
<1> QED BY <1>7, <1>8, SMT DEF Fit

(* and with zeros at the front exactly six. *)
LEMMA SixDigitsRight ==
  ASSUME NEW m \in Nat, m < kMicroSecondsPerSecond
  PROVE  /\ SixDigits(m) \in Seq(DigitChars) /\ Len(SixDigits(m)) = 6
         /\ Numeral(SixDigits(m), 10, 1) = m
<1> DEFINE c == convert(m)
           n == Len(c)
           k == 6 - n
           z == [i \in 1..k |-> "0"]
           s == z \o c
<1>1. /\ c \in Seq(DigitChars) /\ n \in Nat \ {0} /\ n <= 6
      /\ Numeral(c, 10, 1) = m
  BY ConvertPositive, SixDigitsAreEnough
<1>2. SixDigits(m) = s
  BY Zenon DEF SixDigits
<1> HIDE DEF c
<1>3. k \in Nat /\ k + n = 6
  BY <1>1
<1> HIDE DEF k
<1>4. z \in Seq(DigitChars) /\ Len(z) = k /\ \A i \in 1..k : z[i] = "0"
  <2>1. "0" \in DigitChars
    BY DigitsAreDigits
  <2>2. z \in [1..k -> DigitChars]
    BY <2>1
  <2>3. z \in Seq(DigitChars)
    BY <1>3, <2>2, SeqDef
  <2>4. DOMAIN z = 1..k /\ DOMAIN z = 1..Len(z) /\ Len(z) \in Nat
    BY <2>2, <2>3, LenProperties
  <2>5. Len(z) = k
    BY <1>3, <2>4
  <2> QED BY <2>3, <2>5
<1> HIDE DEF z
<1>5. /\ s \in Seq(DigitChars) /\ Len(s) = Len(z) + Len(c)
      /\ \A i \in 1..(Len(z) + Len(c)) : s[i] = IF i <= Len(z) THEN z[i] ELSE c[i - Len(z)]
  BY <1>1, <1>4, ConcatProperties
<1> HIDE DEF s
<1>6. /\ Len(s) = 6 /\ \A i \in 1..6 : s[i] = IF i <= k THEN z[i] ELSE c[i - k]
  BY <1>3, <1>4, <1>5
<1>7. ASSUME NEW i \in 1..k PROVE DigitOf(s[i]) = 0
  <2>1. i \in 1..6 /\ i <= k
    BY <1>1, <1>3
  <2>2. s[i] = "0"
    BY <1>4, <1>6, <2>1
  <2> QED BY <2>2, DigitsAreDigits
<1>8. ASSUME NEW i \in 1..n PROVE s[k + i] = c[i]
  <2>1. k + i \in 1..6 /\ ~ (k + i <= k) /\ (k + i) - k = i
    BY <1>1, <1>3
  <2> QED BY <1>6, <2>1
<1>9. GoesOn(s, k, c) /\ Len(s) = k + Len(c)
  BY <1>1, <1>3, <1>6, <1>7, <1>8 DEF GoesOn
<1>10. Numeral(s, 10, 1) = Numeral(c, 10, 1)
  BY <1>9, LeadingZeros
<1> QED BY <1>1, <1>2, <1>5, <1>6, <1>10

(* The product in the source *)
LEMMA AMillion == kMicroSecondsPerSecond = 1000000
  BY SMT DEF kMicroSecondsPerSecond

(* A Timestamp comes apart into what now() put together. *)
LEMMA SecondsAndMicros ==
  ASSUME NEW s \in Nat, NEW m \in Nat, m < kMicroSecondsPerSecond
  PROVE  /\ secondsSinceEpoch(Now(s, m)) = s
         /\ CMod(Now(s, m), kMicroSecondsPerSecond) = m
<1> DEFINE K == kMicroSecondsPerSecond
           t == Now(s, m)
<1>1. K = 1000000
  BY AMillion, SMT
<1>2. K \in Nat /\ m < K
  BY <1>1, SMT
<1>3. t = (s * K) + m
  BY SMT DEF Now
<1> HIDE DEF K, t
<1>4. t = (1000000 * s) + m /\ m < 1000000
  BY <1>1, <1>2, <1>3, SMT
<1>5. t \in Int /\ t >= 0 /\ t \div 1000000 = s
  BY <1>4, SMT
<1>6. CDiv(t, K) = s
  BY <1>1, <1>5, SMT DEF CDiv
<1>7. CMod(t, K) = t - (1000000 * s)
  BY <1>1, <1>6, SMT DEF CMod
<1>8. CMod(t, K) = m
  BY <1>4, <1>7, SMT
<1>9. secondsSinceEpoch(t) = s
  BY <1>6, SMT DEF secondsSinceEpoch, K
<1> QED BY <1>8, <1>9, SMT DEF K, t

(* The only point in the text of a Timestamp is the one before the            *)
(* microseconds.                                                              *)
LEMMA StampsRight ==
  ASSUME NEW at, at.seconds \in Nat, at.micros \in Nat, at.micros < kMicroSecondsPerSecond
  PROVE  StampRight(at)
<1> DEFINE t == Now(at.seconds, at.micros)
           S == DigitChars \cup {"."}
           a == convert(at.seconds)
           n == Len(a)
           dot == <<".">>
           six == SixDigits(at.micros)
           most == a \o dot
           text == toString(t)
           point == n + 1
<1>1. secondsSinceEpoch(t) = at.seconds /\ CMod(t, kMicroSecondsPerSecond) = at.micros
  BY SecondsAndMicros
<1> HIDE DEF t
<1>2. /\ a \in Seq(DigitChars) /\ n \in Nat \ {0} /\ Numeral(a, 10, 1) = at.seconds
  BY ConvertPositive
<1>3. six \in Seq(DigitChars) /\ Len(six) = 6 /\ Numeral(six, 10, 1) = at.micros
  BY SixDigitsRight
<1>4. text = most \o six
  BY <1>1, Zenon DEF toString
<1> HIDE DEF text, a, six
<1>5. dot \in Seq(S) /\ Len(dot) = 1 /\ dot[1] = "."
  OBVIOUS
<1> HIDE DEF dot
<1>6. a \in Seq(S) /\ six \in Seq(S) /\ "." \in S
  <2>1. DigitChars \subseteq S /\ "." \in S
    OBVIOUS
  <2> HIDE DEF S
  <2> QED BY <1>2, <1>3, <2>1, SeqMonotonic
<1> HIDE DEF S
<1>7. /\ most \in Seq(S) /\ Len(most) = Len(a) + Len(dot)
      /\ \A i \in 1..(Len(a) + Len(dot)) : most[i] = IF i <= Len(a) THEN a[i] ELSE dot[i - Len(a)]
  BY <1>5, <1>6, ConcatProperties
<1> HIDE DEF most
<1>8. /\ text \in Seq(S) /\ Len(text) = Len(most) + Len(six)
      /\ \A i \in 1..(Len(most) + Len(six)) : text[i] = IF i <= Len(most) THEN most[i] ELSE six[i - Len(most)]
  <2>1. most \in Seq(S) /\ six \in Seq(S)
    BY <1>6, <1>7
  <2>2. /\ most \o six \in Seq(S) /\ Len(most \o six) = Len(most) + Len(six)
        /\ \A i \in 1..(Len(most) + Len(six)) :
             (most \o six)[i] = IF i <= Len(most) THEN most[i] ELSE six[i - Len(most)]
    BY <2>1, ConcatProperties
  <2> QED BY <1>4, <2>2, Zenon
<1>9. /\ Len(most) = n + 1 /\ (\A i \in 1..n : most[i] = a[i]) /\ most[n + 1] = "."
  <2>1. n + 1 \in 1..(n + 1) /\ ~ (n + 1 <= n) /\ (n + 1) - n = 1
    BY <1>2
  <2>2. Len(most) = n + 1 /\ \A i \in 1..(n + 1) : most[i] = IF i <= n THEN a[i] ELSE dot[i - n]
    BY <1>5, <1>7
  <2>3. most[n + 1] = "."
    BY <1>5, <2>1, <2>2
  <2>4. \A i \in 1..n : i \in 1..(n + 1) /\ i <= n
    BY <1>2
  <2> QED BY <2>2, <2>3, <2>4
<1> HIDE DEF n
<1>10. Len(text) = n + 7 /\ \A i \in 1..(n + 7) : text[i] = IF i <= n + 1 THEN most[i] ELSE six[i - (n + 1)]
  <2>1. (n + 1) + 6 = n + 7
    BY <1>2
  <2> QED BY <1>3, <1>8, <1>9, <2>1
<1>11. ASSUME NEW i \in 1..n PROVE text[i] = a[i] /\ text[i] # "."
  <2>1. i \in 1..(n + 7) /\ i <= n + 1
    BY <1>2
  <2>2. a[i] \in DigitChars
    BY <1>2, ElementOfSeq DEF n
  <2>3. text[i] = a[i]
    BY <1>9, <1>10, <2>1
  <2> QED BY <2>2, <2>3, DigitsAreDigits
<1>12. point \in 1..Len(text) /\ text[point] = "." /\ Len(text) \in Nat
  <2>1. n + 1 \in 1..(n + 7) /\ n + 1 <= n + 1 /\ n + 7 \in Nat
    BY <1>2
  <2> QED BY <1>9, <1>10, <2>1
<1>13. FirstAt(text, ".") = point
  <2>1. \A i \in 1..Len(text) : i < point => text[i] # "."
    <3>1. ASSUME NEW i \in 1..Len(text), i < point PROVE text[i] # "."
      <4>1. i \in 1..n
        BY <1>2, <1>10, <3>1
      <4> QED BY <1>11, <4>1
    <3> QED BY <3>1
  <2> HIDE DEF point
  <2> QED BY <1>12, <2>1, FirstIs
<1>14. SubSeq(text, 1, point - 1) = a
  <2> DEFINE w == SubSeq(text, 1, n)
  <2>1. point - 1 = n /\ 1 <= n /\ (n - 1) + 1 = n /\ n \in Int
    BY <1>2
  <2>2. \A i \in 1..n : text[i] \in S
    BY <1>2, <1>6, <1>11, ElementOfSeq DEF n
  <2>3. /\ w \in Seq(S) /\ Len(w) = (IF 1 <= n THEN n - 1 + 1 ELSE 0)
        /\ \A i \in 1..(n - 1 + 1) : w[i] = text[1 + i - 1]
    BY <2>1, <2>2, SubSeqProperties
  <2> HIDE DEF w
  <2>4. Len(w) = n /\ \A i \in 1..n : w[i] = a[i]
    BY <1>11, <2>1, <2>3
  <2>5. w = a
    BY <1>6, <2>3, <2>4, SeqEqual DEF n
  <2> QED BY <2>1, <2>5 DEF w
<1>15. SubSeq(text, point + 1, point + 6) = six
  <2> DEFINE lo == point + 1
             hi == point + 6
             w == SubSeq(text, lo, hi)
  <2>1. lo \in Int /\ hi \in Int /\ lo = n + 2 /\ hi = n + 7
    BY <1>2
  <2>2. \A i \in lo..hi : text[i] \in S
    <3>1. \A i \in lo..hi : i \in 1..Len(text)
      BY <1>2, <1>10, <2>1
    <3> HIDE DEF lo, hi
    <3> QED BY <1>8, <3>1, ElementOfSeq
  <2> HIDE DEF lo, hi
  <2>3. /\ w \in Seq(S) /\ Len(w) = (IF lo <= hi THEN hi - lo + 1 ELSE 0)
        /\ \A i \in 1..(hi - lo + 1) : w[i] = text[lo + i - 1]
    BY <2>1, <2>2, SubSeqProperties
  <2> HIDE DEF w
  <2>4. Len(w) = 6 /\ \A i \in 1..6 : w[i] = text[(n + 1) + i]
    BY <1>2, <2>1, <2>3
  <2>5. ASSUME NEW i \in 1..6 PROVE w[i] = six[i]
    <3>1. (n + 1) + i \in 1..(n + 7) /\ ~ ((n + 1) + i <= n + 1) /\ ((n + 1) + i) - (n + 1) = i
      BY <1>2
    <3> QED BY <1>10, <2>4, <3>1
  <2>6. w = six
    BY <1>3, <1>6, <2>3, <2>4, <2>5, SeqEqual
  <2> QED BY <2>6 DEF w, lo, hi
<1>16. Len(text) = point + 6
  BY <1>2, <1>10
<1> HIDE DEF point
<1>17. SelectInSeq(text, LAMBDA c : c = ".") = point
  BY <1>13, Zenon DEF FirstAt
<1> QED BY <1>1, <1>2, <1>3, <1>14, <1>15, <1>16, <1>17, Zenon DEF StampRight, text, t

(* The name between the first "(" and the last ")" *)
LEMMA NamesRight ==
  ASSUME NEW name \in Seq(STRING)
  PROVE  NameRight(name)
<1> DEFINE S == STRING \cup {"1", " ", "(", ")", "S"}
           before == <<"1", " ", "(">>
           after == <<")", " ", "S">>
           n == Len(name)
           most == before \o name
           stat == most \o after
<1>1. before \in Seq(S) /\ Len(before) = 3 /\ before[1] # "(" /\ before[2] # "(" /\ before[3] = "("
  OBVIOUS
<1>2. after \in Seq(S) /\ Len(after) = 3 /\ after[1] = ")" /\ after[2] # ")" /\ after[3] # ")"
  OBVIOUS
<1>3. name \in Seq(S) /\ n \in Nat
  <2>1. STRING \subseteq S
    OBVIOUS
  <2> HIDE DEF S
  <2> QED BY <2>1, SeqMonotonic, LenProperties
<1>4. NameRight(name) <=> procname(stat) = name
  BY Zenon DEF NameRight
<1> HIDE DEF S, before, after, most, stat
<1>5. /\ most \in Seq(S) /\ Len(most) = 3 + n
      /\ \A i \in 1..(3 + n) : most[i] = IF i <= 3 THEN before[i] ELSE name[i - 3]
  <2>1. /\ before \o name \in Seq(S) /\ Len(before \o name) = Len(before) + n
        /\ \A i \in 1..(Len(before) + n) :
             (before \o name)[i] = IF i <= Len(before) THEN before[i] ELSE name[i - Len(before)]
    BY <1>1, <1>3, ConcatProperties
  <2>2. most = before \o name
    BY DEF most
  <2> QED BY <1>1, <2>1, <2>2
<1>6. /\ stat \in Seq(S) /\ Len(stat) = (3 + n) + 3
      /\ \A i \in 1..((3 + n) + 3) : stat[i] = IF i <= 3 + n THEN most[i] ELSE after[i - (3 + n)]
  <2>1. /\ most \o after \in Seq(S) /\ Len(most \o after) = Len(most) + Len(after)
        /\ \A i \in 1..(Len(most) + Len(after)) :
             (most \o after)[i] = IF i <= Len(most) THEN most[i] ELSE after[i - Len(most)]
    BY <1>2, <1>5, ConcatProperties
  <2>2. stat = most \o after
    BY DEF stat
  <2> QED BY <1>2, <1>5, <2>1, <2>2
<1> HIDE DEF n
<1>7. ASSUME NEW i \in 1..3 PROVE stat[i] = before[i]
  <2>1. i \in 1..((3 + n) + 3) /\ i <= 3 + n /\ i \in 1..(3 + n) /\ i <= 3
    BY <1>3
  <2> QED BY <1>5, <1>6, <2>1
<1>8. ASSUME NEW i \in 1..n PROVE stat[3 + i] = name[i]
  <2>1. 3 + i \in 1..((3 + n) + 3) /\ 3 + i <= 3 + n /\ 3 + i \in 1..(3 + n) /\ ~ (3 + i <= 3) /\ (3 + i) - 3 = i
    BY <1>3
  <2> QED BY <1>5, <1>6, <2>1
<1>9. ASSUME NEW i \in 1..3 PROVE stat[(3 + n) + i] = after[i]
  <2>1. (3 + n) + i \in 1..((3 + n) + 3) /\ ~ ((3 + n) + i <= 3 + n) /\ ((3 + n) + i) - (3 + n) = i
    BY <1>3
  <2> QED BY <1>6, <2>1
<1>10. FirstAt(stat, "(") = 3
  <2>1. Len(stat) \in Nat /\ 3 \in 1..Len(stat) /\ stat[3] = "("
    BY <1>1, <1>3, <1>6, <1>7
  <2>2. \A i \in 1..Len(stat) : i < 3 => stat[i] # "("
    BY <1>1, <1>3, <1>6, <1>7
  <2> QED BY <2>1, <2>2, FirstIs
<1>11. LastAt(stat, ")") = n + 4
  <2> DEFINE k == n + 4
  <2>1. Len(stat) \in Nat /\ k \in 1..Len(stat) /\ k = (3 + n) + 1
    BY <1>3, <1>6
  <2>2. stat[k] = ")"
    BY <1>2, <1>9, <2>1
  <2>3. ASSUME NEW i \in 1..Len(stat), k < i PROVE stat[i] # ")"
    <3>1. i = (3 + n) + 2 \/ i = (3 + n) + 3
      BY <1>3, <1>6, <2>3
    <3> QED BY <1>2, <1>9, <3>1
  <2> HIDE DEF k
  <2>4. LastAt(stat, ")") = k
    BY <2>1, <2>2, <2>3, LastIs
  <2> QED BY <2>4 DEF k
<1>12. procname(stat) = SubSeq(stat, 4, n + 3)
  <2>1. /\ SelectInSeq(stat, LAMBDA c : c = "(") = 3
        /\ SelectLastInSeq(stat, LAMBDA c : c = ")") = n + 4
    BY <1>10, <1>11, Zenon DEF FirstAt, LastAt
  <2>2. 3 # 0 /\ n + 4 # 0 /\ 3 < n + 4 /\ 3 + 1 = 4 /\ (n + 4) - 1 = n + 3
    BY <1>3
  <2>3. procname(stat) = IF 3 # 0 /\ n + 4 # 0 /\ 3 < n + 4 THEN SubSeq(stat, 3 + 1, (n + 4) - 1) ELSE <<>>
    BY <2>1, Zenon DEF procname
  <2> QED BY <2>2, <2>3
<1>13. SubSeq(stat, 4, n + 3) = name
  <2> DEFINE lo == 4
             hi == n + 3
             w == SubSeq(stat, lo, hi)
  <2>1. lo \in Int /\ hi \in Int /\ lo = 4 /\ hi = n + 3
    BY <1>3
  <2>2. \A i \in lo..hi : stat[i] \in S
    <3>1. \A i \in lo..hi : i \in 1..Len(stat)
      BY <1>3, <1>6, <2>1
    <3> HIDE DEF lo, hi
    <3> QED BY <1>6, <3>1, ElementOfSeq
  <2> HIDE DEF lo, hi
  <2>3. /\ w \in Seq(S) /\ Len(w) = (IF lo <= hi THEN hi - lo + 1 ELSE 0)
        /\ \A i \in 1..(hi - lo + 1) : w[i] = stat[lo + i - 1]
    BY <2>1, <2>2, SubSeqProperties
  <2> HIDE DEF w
  <2>4. Len(w) = n /\ \A i \in 1..n : w[i] = stat[3 + i]
    BY <1>3, <2>1, <2>3
  <2>5. \A i \in 1..n : w[i] = name[i]
    BY <1>8, <2>4
  <2>6. w = name
    BY <1>3, <2>3, <2>4, <2>5, SeqEqual DEF n
  <2> QED BY <2>6 DEF w, lo, hi
<1> QED BY <1>4, <1>12, <1>13

(* Every number, Timestamp and name asked for *)
LEMMA InitTexts == Init => TextRight
<1> SUFFICES ASSUME Init PROVE TextRight
  OBVIOUS
<1>1. ASSUME question.kind = "number" PROVE NumberRight(question.value)
  <2>1. question \in [kind : {"number"}, value : Values]
    BY <1>1 DEF Init, ZoneQuestions
  <2>2. question.value \in Values
    BY <2>1
  <2>3. question.value \in Int
    BY <2>2, TextsAssumption
  <2> QED BY <2>3, NumbersRight
<1>2. ASSUME question.kind = "stamp" PROVE StampRight(question.at)
  <2> DEFINE K == kMicroSecondsPerSecond
             at == question.at
  <2>1. question \in [kind : {"stamp"}, at : Stamps]
    BY <1>2 DEF Init, ZoneQuestions
  <2>2. at \in Stamps
    BY <2>1
  <2>3. K \in Nat
    BY SMT DEF kMicroSecondsPerSecond
  <2>4. Stamps \subseteq [seconds : Nat, micros : 0..(K - 1)]
    BY TextsAssumption
  <2> HIDE DEF K, at
  <2>5. at.seconds \in Nat /\ at.micros \in 0..(K - 1)
    BY <2>2, <2>4
  <2>6. at.micros \in Nat /\ at.micros < K
    BY <2>3, <2>5
  <2>7. StampRight(at)
    BY <2>5, <2>6, StampsRight DEF K
  <2> QED BY <2>7 DEF at
<1>3. ASSUME question.kind = "process" PROVE NameRight(question.name)
  <2>1. question \in [kind : {"process"}, name : Names]
    BY <1>3 DEF Init, ZoneQuestions
  <2>2. question.name \in Names
    BY <2>1
  <2>3. question.name \in Seq(STRING)
    BY <2>2, TextsAssumption, Zenon
  <2> QED BY <2>3, NamesRight
<1> QED BY <1>1, <1>2, <1>3, Zenon DEF TextRight

(* TextRight for any numbers, Timestamps and names: convert() writes every    *)
(* integer, the least one of any width included, and procname() finds any     *)
(* name.                                                                      *)
THEOREM TextsHold == Spec => []TextRight
<1>1. TextRight /\ [Next]_question => TextRight'
  BY Zenon DEF Next, TextRight
<1> QED BY <1>1, InitTexts, PTL DEF Spec

=============================================================================
