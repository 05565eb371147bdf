--------------------------- MODULE ScheduleProofs ---------------------------
(***************************************************************************)
(* What the operators of Schedule, IntervalSearch and RpsGenerator compute,  *)
(* for sequences of every length: sums, the intervals of the minutes and the *)
(* search in them, the division of a minute among invocations, the times of  *)
(* warm and cold functions.                                                 *)
(*                                                                          *)
(* The recursive functions of these modules are characterised by induction  *)
(* over natural numbers, which rests on the fact that every non-empty set   *)
(* of natural numbers has a least element.                                  *)
(***************************************************************************)
EXTENDS Schedule, RpsGenerator, TLAPS, WellFoundedInduction, FiniteSetTheorems

-----------------------------------------------------------------------------
(***************************************************************************)
(* Induction                                                                *)
(***************************************************************************)
\* Every non-empty set of natural numbers has a least element.
LEMMA Least ==
  ASSUME NEW T, T \subseteq Nat, T # {}
  PROVE  \E x \in T : \A y \in T : x <= y
  <1>1. PICK x \in T : \A y \in T : ~(<<y, x>> \in OpToRel(<, Nat))
    BY NatLessThanWellFounded, WFMin
  <1>2. \A y \in T : ~(y < x)  BY <1>1 DEF OpToRel
  <1> QED BY <1>2

\* A set that contains 0 and is closed under +1 up to n contains 0 .. n.
LEMMA InductionTo ==
  ASSUME NEW n \in Nat, NEW T, 0 \in T, \A k \in 0 .. n - 1 : k \in T => k + 1 \in T
  PROVE  \A k \in 0 .. n : k \in T
  <1> DEFINE U == (0 .. n) \ T
  <1> SUFFICES ASSUME U # {} PROVE FALSE  OBVIOUS
  <1>1. U \subseteq Nat  OBVIOUS
  <1> HIDE DEF U
  <1>2. PICK k \in U : \A y \in U : k <= y  BY <1>1, Least
  <1>3. k \in 0 .. n /\ k \notin T  BY <1>2 DEF U
  <1>4. k # 0 /\ k - 1 \in 0 .. n - 1 /\ k - 1 \in 0 .. n /\ k - 1 + 1 = k  BY <1>3
  <1>5. k - 1 \notin U  BY <1>2, <1>3
  <1>6. k - 1 \in T  BY <1>4, <1>5 DEF U
  <1> QED BY <1>3, <1>4, <1>6

\* A product of positive numbers, and one that is not smaller.
LEMMA Products ==
  ASSUME NEW a \in Nat, NEW b \in Nat, NEW c \in Nat, a <= b
  PROVE  a * c <= b * c /\ a * c \in Nat /\ b * c \in Nat
  OBVIOUS

-----------------------------------------------------------------------------
(***************************************************************************)
(* Sums                                                                     *)
(***************************************************************************)
IsSum(f, s) == f = [k \in 0 .. Len(s) |-> IF k = 0 THEN 0 ELSE f[k - 1] + s[k]]

LEMMA SumExists ==
  ASSUME NEW s, Len(s) \in Nat
  PROVE  \E f : IsSum(f, s)
  <1> DEFINE Good(f, n) == f = [k \in 0 .. n |-> IF k = 0 THEN 0 ELSE f[k - 1] + s[k]]
             T == {n \in 0 .. Len(s) : \E f : Good(f, n)}
  <1>1. 0 \in T
    <2> DEFINE z == [k \in 0 .. 0 |-> 0]
    <2>1. Good(z, 0)  OBVIOUS
    <2>2. 0 \in 0 .. Len(s)  OBVIOUS
    <2> HIDE DEF z, Good
    <2> QED BY <2>1, <2>2
  <1>2. ASSUME NEW n \in 0 .. Len(s) - 1, n \in T PROVE n + 1 \in T
    <2>1. PICK f : Good(f, n)  BY <1>2
    <2> DEFINE g == [k \in 0 .. n + 1 |-> IF k = n + 1 THEN f[n] + s[n + 1] ELSE f[k]]
    <2>2. ASSUME NEW k \in 0 .. n + 1 PROVE g[k] = IF k = 0 THEN 0 ELSE g[k - 1] + s[k]
      BY <2>1
    <2>3. Good(g, n + 1)  BY <2>2
    <2> HIDE DEF g, Good
    <2>4. n + 1 \in 0 .. Len(s) OBVIOUS
    <2> QED BY <2>3, <2>4
  <1> HIDE DEF T
  <1>3. \A k \in 0 .. Len(s) : k \in T
    <2>1. 0 \in T /\ \A n \in 0 .. Len(s) - 1 : n \in T => n + 1 \in T  BY <1>1, <1>2
    <2> QED BY <2>1, InductionTo
  <1>4. Len(s) \in T  BY <1>3
  <1> QED BY <1>4 DEF T, IsSum

LEMMA SumIs ==
  ASSUME NEW s, Len(s) \in Nat
  PROVE  \E f : IsSum(f, s) /\ Sum(s) = f[Len(s)]
  <1> DEFINE h == CHOOSE f : f = [k \in 0 .. Len(s) |-> IF k = 0 THEN 0 ELSE f[k - 1] + s[k]]
  <1>1. IsSum(h, s)  BY SumExists DEF IsSum
  <1>2. Sum(s) = h[Len(s)]  BY DEF Sum
  <1> QED BY <1>1, <1>2

\* The sum of a prefix is the value of the function on the way.
LEMMA SumOfPrefix ==
  ASSUME NEW S, NEW s \in Seq(S), NEW f, IsSum(f, s), NEW n \in 0 .. Len(s)
  PROVE  Sum(SubSeq(s, 1, n)) = f[n]
  <1> DEFINE p == SubSeq(s, 1, n)
  <1>1. Len(p) = n /\ \A k \in 1 .. n : p[k] = s[k]  OBVIOUS
  <1> HIDE DEF p
  <1>2. PICK g : IsSum(g, p) /\ Sum(p) = g[n]  BY <1>1, SumIs
  <1> DEFINE T == {k \in 0 .. n : g[k] = f[k]}
  <1>3. 0 \in T  BY <1>1, <1>2 DEF IsSum
  <1>4. ASSUME NEW k \in 0 .. n - 1, k \in T PROVE k + 1 \in T
    <2>1. g[k + 1] = g[k] + p[k + 1]  BY <1>1, <1>2 DEF IsSum
    <2>2. f[k + 1] = f[k] + s[k + 1]  BY DEF IsSum
    <2>3. g[k] = f[k] /\ k + 1 \in 0 .. n  BY <1>4
    <2> QED BY <2>1, <2>2, <2>3, <1>1
  <1> HIDE DEF T
  <1>5. \A k \in 0 .. n : k \in T
    <2>1. 0 \in T /\ \A k \in 0 .. n - 1 : k \in T => k + 1 \in T  BY <1>3, <1>4
    <2> QED BY <2>1, InductionTo
  <1>6. n \in T  BY <1>5
  <1> QED BY <1>2, <1>6 DEF T, p

\* Sum of the first n elements.
Upto(s, n) == Sum(SubSeq(s, 1, n))

LEMMA UptoRec ==
  ASSUME NEW S, NEW s \in Seq(S)
  PROVE  /\ Upto(s, 0) = 0
         /\ \A n \in 0 .. Len(s) - 1 : Upto(s, n + 1) = Upto(s, n) + s[n + 1]
         /\ Upto(s, Len(s)) = Sum(s)
  <1>1. PICK f : IsSum(f, s) /\ Sum(s) = f[Len(s)]  BY SumIs
  <1>2. \A n \in 0 .. Len(s) : Upto(s, n) = f[n]  BY <1>1, SumOfPrefix DEF Upto
  <1>3. f[0] = 0 /\ \A n \in 0 .. Len(s) - 1 : f[n + 1] = f[n] + s[n + 1]  BY <1>1 DEF IsSum
  <1> QED BY <1>1, <1>2, <1>3

LEMMA UptoInt ==
  ASSUME NEW s \in Seq(Int)
  PROVE  (\A n \in 0 .. Len(s) : Upto(s, n) \in Int) /\ Sum(s) \in Int
  <1> DEFINE T == {n \in 0 .. Len(s) : Upto(s, n) \in Int}
  <1>1. 0 \in T  BY UptoRec
  <1>2. ASSUME NEW n \in 0 .. Len(s) - 1, n \in T PROVE n + 1 \in T
    <2>1. Upto(s, n + 1) = Upto(s, n) + s[n + 1]  BY UptoRec
    <2>2. Upto(s, n) \in Int /\ s[n + 1] \in Int /\ n + 1 \in 0 .. Len(s)  BY <1>2
    <2> QED BY <2>1, <2>2
  <1> HIDE DEF T
  <1>3. \A n \in 0 .. Len(s) : n \in T
    <2>1. 0 \in T /\ \A n \in 0 .. Len(s) - 1 : n \in T => n + 1 \in T  BY <1>1, <1>2
    <2>2. Len(s) \in Nat  OBVIOUS
    <2> QED BY <2>1, <2>2, InductionTo
  <1>4. Sum(s) = Upto(s, Len(s)) /\ Len(s) \in 0 .. Len(s)  BY UptoRec
  <1> QED BY <1>3, <1>4 DEF T

\* Prefix sums of natural numbers are natural numbers and do not decrease.
LEMMA UptoNat ==
  ASSUME NEW s \in Seq(Nat)
  PROVE  /\ \A n \in 0 .. Len(s) : Upto(s, n) \in Nat
         /\ Sum(s) \in Nat
         /\ \A i, j \in 0 .. Len(s) : i <= j => Upto(s, i) <= Upto(s, j)
  <1> DEFINE T == {n \in 0 .. Len(s) : Upto(s, n) \in Nat /\ \A i \in 0 .. n : Upto(s, i) <= Upto(s, n)}
  <1>1. 0 \in T  BY UptoRec
  <1>2. ASSUME NEW n \in 0 .. Len(s) - 1, n \in T PROVE n + 1 \in T
    <2>1. Upto(s, n + 1) = Upto(s, n) + s[n + 1]  BY UptoRec
    <2>2. /\ Upto(s, n) \in Nat /\ s[n + 1] \in Nat /\ n + 1 \in 0 .. Len(s)
          /\ \A i \in 0 .. n : Upto(s, i) <= Upto(s, n)
      BY <1>2
    <2>3. s \in Seq(Int)  OBVIOUS
    <2>4. \A i \in 0 .. n : Upto(s, i) \in Int  BY <2>3, UptoInt
    <2>5. \A i \in 0 .. n + 1 : Upto(s, i) <= Upto(s, n + 1)  BY SMTT(30), <2>1, <2>2, <2>4
    <2> QED BY <2>1, <2>2, <2>5
  <1> HIDE DEF T
  <1>3. \A n \in 0 .. Len(s) : n \in T
    <2>1. 0 \in T /\ \A n \in 0 .. Len(s) - 1 : n \in T => n + 1 \in T  BY <1>1, <1>2
    <2>2. Len(s) \in Nat  OBVIOUS
    <2> QED BY <2>1, <2>2, InductionTo
  <1>4. Sum(s) = Upto(s, Len(s)) /\ Len(s) \in 0 .. Len(s)  BY UptoRec
  <1> QED BY <1>3, <1>4 DEF T

\* The prefixes of an extended sequence.
LEMMA UptoExtend ==
  ASSUME NEW S, NEW s \in Seq(S), NEW t \in Seq(S), NEW n \in 0 .. Len(s), n <= Len(t),
         \A k \in 1 .. n : t[k] = s[k]
  PROVE  Upto(t, n) = Upto(s, n)
  <1>1. SubSeq(t, 1, n) = SubSeq(s, 1, n)  OBVIOUS
  <1> QED BY <1>1 DEF Upto

LEMMA SumAppend ==
  ASSUME NEW S, NEW s \in Seq(S), NEW x \in S
  PROVE  /\ Sum(Append(s, x)) = Sum(s) + x
         /\ \A n \in 0 .. Len(s) : Upto(Append(s, x), n) = Upto(s, n)
  <1> DEFINE t == Append(s, x)
  <1>1. t \in Seq(S) /\ Len(t) = Len(s) + 1 /\ t[Len(s) + 1] = x /\ \A k \in 1 .. Len(s) : t[k] = s[k]
    OBVIOUS
  <1> HIDE DEF t
  <1>2. \A n \in 0 .. Len(s) : Upto(t, n) = Upto(s, n)  BY SMTT(30), <1>1, UptoExtend
  <1>3. Upto(t, Len(s) + 1) = Upto(t, Len(s)) + t[Len(s) + 1] /\ Upto(t, Len(t)) = Sum(t)
    BY <1>1, UptoRec
  <1>4. Upto(s, Len(s)) = Sum(s)  BY UptoRec
  <1> QED BY <1>1, <1>2, <1>3, <1>4 DEF t

LEMMA SumEmpty == Sum(<<>>) = 0
  <1>1. <<>> \in Seq(Int) /\ Len(<<>>) = 0  OBVIOUS
  <1> QED BY <1>1, UptoRec

-----------------------------------------------------------------------------
(***************************************************************************)
(* Minutes: invocation k (from 0) is in minute m (from 0)                   *)
(***************************************************************************)
InMinute(counts, k, m) ==
  m \in 0 .. Len(counts) - 1 /\ Upto(counts, m) <= k /\ k < Upto(counts, m + 1)

LEMMA MinuteExists ==
  ASSUME NEW counts \in Seq(Nat), NEW k \in 0 .. Sum(counts) - 1
  PROVE  \E m : InMinute(counts, k, m)
  <1> DEFINE T == {n \in 0 .. Len(counts) : Upto(counts, n) > k}
  <1>1. /\ Upto(counts, 0) = 0 /\ Upto(counts, Len(counts)) = Sum(counts)
        /\ \A n \in 0 .. Len(counts) : Upto(counts, n) \in Nat
        /\ Sum(counts) \in Nat /\ Len(counts) \in Nat
    BY UptoRec, UptoNat
  <1>2. Len(counts) \in T  BY <1>1
  <1>3. T \subseteq Nat  OBVIOUS
  <1>4. PICK n \in T : \A y \in T : n <= y
    <2> HIDE DEF T
    <2> QED BY <1>2, <1>3, Least
  <1>5. n # 0  BY <1>1, <1>4
  <1>6. n - 1 \in 0 .. Len(counts) - 1 /\ n - 1 + 1 = n /\ n - 1 \notin T  BY <1>4, <1>5
  <1>7. Upto(counts, n - 1) <= k  BY SMTT(30), <1>1, <1>6
  <1> QED BY <1>4, <1>6, <1>7 DEF InMinute

LEMMA MinuteOrder ==
  ASSUME NEW counts \in Seq(Nat), NEW k \in Int, NEW l \in Int, NEW m, NEW n,
         InMinute(counts, k, m), InMinute(counts, l, n), k <= l
  PROVE  m <= n
  <1>1. m \in 0 .. Len(counts) - 1 /\ n \in 0 .. Len(counts) - 1  BY DEF InMinute
  <1>2. SUFFICES ASSUME n < m PROVE FALSE  BY <1>1
  <1>3. n + 1 \in 0 .. Len(counts) /\ m \in 0 .. Len(counts) /\ n + 1 <= m  BY <1>1, <1>2
  <1>4. Upto(counts, n + 1) <= Upto(counts, m)  BY <1>3, UptoNat
  <1>5. Upto(counts, n + 1) \in Nat /\ Upto(counts, m) \in Nat  BY <1>3, UptoNat
  <1> QED BY <1>4, <1>5 DEF InMinute

LEMMA MinuteUnique ==
  ASSUME NEW counts \in Seq(Nat), NEW k \in Int, NEW m, NEW n,
         InMinute(counts, k, m), InMinute(counts, k, n)
  PROVE  m = n
  <1>1. m \in Int /\ n \in Int  BY DEF InMinute
  <1>2. k <= k  OBVIOUS
  <1>3. m <= n  BY <1>2, MinuteOrder
  <1>4. n <= m  BY <1>2, MinuteOrder
  <1> QED BY <1>1, <1>3, <1>4

LEMMA MinuteBound ==
  ASSUME NEW counts \in Seq(Nat), NEW k \in Int, NEW m, InMinute(counts, k, m)
  PROVE  k < Sum(counts)
  <1>1. m + 1 \in 0 .. Len(counts) /\ Len(counts) \in 0 .. Len(counts)  BY DEF InMinute
  <1>2. Upto(counts, m + 1) <= Upto(counts, Len(counts))  BY <1>1, UptoNat
  <1>3. Upto(counts, Len(counts)) = Sum(counts)  BY UptoRec
  <1>4. Upto(counts, m + 1) \in Nat /\ Sum(counts) \in Nat  BY <1>1, UptoNat
  <1> QED BY <1>2, <1>3, <1>4 DEF InMinute

-----------------------------------------------------------------------------
(***************************************************************************)
(* constructIntervals                                                       *)
(***************************************************************************)
Intervals == [Start : Int, End : Int, Value : Int]

\* The intervals of the first n minutes, and their number of invocations.
IntervalsOf(acc, counts, n) ==
  /\ acc.sum = Upto(counts, n)
  /\ acc.result \in Seq(Intervals)
  /\ \A j \in 1 .. Len(acc.result) :
       /\ acc.result[j].Value \in 0 .. n - 1
       /\ counts[acc.result[j].Value + 1] > 0
       /\ acc.result[j].Start = Upto(counts, acc.result[j].Value)
       /\ acc.result[j].End = Upto(counts, acc.result[j].Value + 1) - 1
  /\ \A i, j \in 1 .. Len(acc.result) : i < j => acc.result[i].Value < acc.result[j].Value
  /\ \A m \in 0 .. n - 1 : counts[m + 1] > 0 =>
       \E j \in 1 .. Len(acc.result) : acc.result[j].Value = m

Extended(counts, acc, i) ==
  IF counts[i] = 0 THEN acc
  ELSE [sum    |-> acc.sum + counts[i],
        result |-> Append(acc.result, [Start |-> acc.sum,
                                       End   |-> acc.sum + counts[i] - 1,
                                       Value |-> i - 1])]

LEMMA ExtendIntervals ==
  ASSUME NEW counts \in Seq(Nat), NEW n \in 0 .. Len(counts) - 1, NEW acc,
         IntervalsOf(acc, counts, n)
  PROVE  IntervalsOf(Extended(counts, acc, n + 1), counts, n + 1)
  <1> DEFINE c == counts[n + 1]
  <1>1. c \in Nat /\ Upto(counts, n + 1) = Upto(counts, n) + c
        /\ Upto(counts, n) \in Nat /\ Upto(counts, n + 1) \in Nat
    BY UptoRec, UptoNat
  <1>2. CASE c = 0
    <2>1. Extended(counts, acc, n + 1) = acc  BY <1>2 DEF Extended
    <2>2. Upto(counts, n + 1) = Upto(counts, n) /\ n + 1 - 1 = n  BY <1>1, <1>2
    <2>3. \A m \in 0 .. n : counts[m + 1] > 0 =>
            \E j \in 1 .. Len(acc.result) : acc.result[j].Value = m
      <3> SUFFICES ASSUME NEW m \in 0 .. n, counts[m + 1] > 0
                   PROVE  \E j \in 1 .. Len(acc.result) : acc.result[j].Value = m
        OBVIOUS
      <3>1. m \in 0 .. n - 1  BY <1>2
      <3> QED BY <3>1 DEF IntervalsOf
    <2>4. \A j \in 1 .. Len(acc.result) : acc.result[j].Value \in 0 .. n  BY DEF IntervalsOf
    <2>5. IntervalsOf(acc, counts, n + 1)  BY <2>2, <2>3, <2>4 DEF IntervalsOf
    <2> QED BY <2>1, <2>5
  <1>3. CASE c # 0
    <2> DEFINE x == [Start |-> Upto(counts, n), End |-> Upto(counts, n) + c - 1, Value |-> n]
               r == acc.result
               s == Append(r, x)
    <2>1. Extended(counts, acc, n + 1) = [sum |-> Upto(counts, n) + c, result |-> s]
      BY <1>3 DEF Extended, IntervalsOf
    <2>2. x \in Intervals  BY <1>1 DEF Intervals
    <2>3. r \in Seq(Intervals)  BY DEF IntervalsOf
    <2>4. s \in Seq(Intervals) /\ Len(s) = Len(r) + 1 /\ s[Len(r) + 1] = x
          /\ \A j \in 1 .. Len(r) : s[j] = r[j]
      BY <2>2, <2>3
    <2>5. Len(r) \in Nat /\ x.Value = n /\ x.Start = Upto(counts, n) /\ x.End = Upto(counts, n + 1) - 1
      BY <1>1, <2>3
    <2> HIDE DEF x, s, c
    <2>6. ASSUME NEW j \in 1 .. Len(s)
          PROVE  /\ s[j].Value \in 0 .. n /\ counts[s[j].Value + 1] > 0
                 /\ s[j].Start = Upto(counts, s[j].Value)
                 /\ s[j].End = Upto(counts, s[j].Value + 1) - 1
      <3>1. CASE j = Len(r) + 1
        <4>1. s[j] = x  BY <2>4, <3>1
        <4>2. counts[n + 1] > 0 /\ n \in 0 .. n  BY <1>1, <1>3 DEF c
        <4>3. /\ x.Value \in 0 .. n /\ counts[x.Value + 1] > 0
              /\ x.Start = Upto(counts, x.Value) /\ x.End = Upto(counts, x.Value + 1) - 1
          BY ONLY <4>2, <2>5, Zenon
        <4> QED BY ONLY <4>1, <4>3, Zenon
      <3>2. CASE j # Len(r) + 1
        <4>1. j \in 1 .. Len(r) /\ s[j] = r[j]  BY SMTT(30), <2>4, <2>5, <3>2
        <4> QED BY <4>1 DEF IntervalsOf
      <3> QED BY <3>1, <3>2
    <2>7. ASSUME NEW i \in 1 .. Len(s), NEW j \in 1 .. Len(s), i < j
          PROVE  s[i].Value < s[j].Value
      <3>1. i \in 1 .. Len(r) /\ s[i] = r[i] /\ r[i].Value \in 0 .. n - 1
        <4>1. i \in 1 .. Len(r)  BY <2>7, <2>4, <2>5
        <4> QED BY <4>1, <2>4 DEF IntervalsOf
      <3>2. CASE j = Len(r) + 1
        <4>1. s[j] = x  BY <2>4, <3>2
        <4>2. s[j].Value = n /\ s[i].Value \in 0 .. n - 1  BY <3>1, <4>1, <2>5
        <4> QED BY ONLY <4>2, n \in 0 .. Len(counts) - 1, SMTT(30)
      <3>3. CASE j # Len(r) + 1
        <4>1. j \in 1 .. Len(r)  BY ONLY <2>4, <2>5, <3>3, j \in 1 .. Len(s)
        <4>2. s[j] = r[j]  BY ONLY <2>4, <4>1
        <4> QED BY <2>7, <3>1, <4>1, <4>2 DEF IntervalsOf
      <3> QED BY <3>2, <3>3
    <2>8. ASSUME NEW m \in 0 .. n, counts[m + 1] > 0
          PROVE  \E j \in 1 .. Len(s) : s[j].Value = m
      <3>1. CASE m = n
        <4>1. Len(r) + 1 \in 1 .. Len(s) /\ s[Len(r) + 1].Value = n  BY <2>4, <2>5
        <4> QED BY <3>1, <4>1
      <3>2. CASE m # n
        <4>0. m \in 0 .. n - 1  BY <3>2
        <4>1. PICK j \in 1 .. Len(r) : r[j].Value = m  BY <2>8, <4>0 DEF IntervalsOf
        <4>2. j \in 1 .. Len(s) /\ s[j] = r[j]  BY <4>1, <2>4, <2>5
        <4> QED BY <4>1, <4>2
      <3> QED BY <3>1, <3>2
    <2>9. (n + 1) - 1 = n  OBVIOUS
    <2>10. Upto(counts, n + 1) = Upto(counts, n) + c  BY <1>1
    <2> DEFINE a == [sum |-> Upto(counts, n) + c, result |-> s]
    <2>11. a.sum = Upto(counts, n) + c /\ a.result = s  OBVIOUS
    <2> HIDE DEF a
    <2>12. IntervalsOf(a, counts, n + 1)
      <3>1. a.sum = Upto(counts, n + 1)  BY <2>10, <2>11
      <3>2. /\ \A j \in 1 .. Len(a.result) :
                 /\ a.result[j].Value \in 0 .. (n + 1) - 1
                 /\ counts[a.result[j].Value + 1] > 0
                 /\ a.result[j].Start = Upto(counts, a.result[j].Value)
                 /\ a.result[j].End = Upto(counts, a.result[j].Value + 1) - 1
        BY <2>6, <2>9, <2>11
      <3>3. \A i, j \in 1 .. Len(a.result) : i < j => a.result[i].Value < a.result[j].Value
        BY <2>7, <2>11
      <3>4. \A m \in 0 .. (n + 1) - 1 : counts[m + 1] > 0 =>
              \E j \in 1 .. Len(a.result) : a.result[j].Value = m
        BY <2>8, <2>9, <2>11
      <3>5. a.result \in Seq(Intervals)  BY <2>4, <2>11
      <3> QED BY <3>1, <3>2, <3>3, <3>4, <3>5 DEF IntervalsOf
    <2> QED BY <2>1, <2>12 DEF a
  <1> QED BY <1>2, <1>3

LEMMA IntervalsExist ==
  ASSUME NEW counts \in Seq(Nat)
  PROVE  \E f : f = [i \in 0 .. Len(counts) |->
                       IF i = 0 THEN [sum |-> 0, result |-> <<>>] ELSE Extended(counts, f[i - 1], i)]
  <1> DEFINE Good(f, n) == f = [i \in 0 .. n |->
                       IF i = 0 THEN [sum |-> 0, result |-> <<>>] ELSE Extended(counts, f[i - 1], i)]
             T == {n \in 0 .. Len(counts) : \E f : Good(f, n)}
  <1>1. 0 \in T
    <2> DEFINE z == [k \in 0 .. 0 |-> [sum |-> 0, result |-> <<>>]]
    <2>1. Good(z, 0)  OBVIOUS
    <2>2. 0 \in 0 .. Len(counts)  OBVIOUS
    <2> HIDE DEF z, Good
    <2> QED BY <2>1, <2>2
  <1>2. ASSUME NEW n \in 0 .. Len(counts) - 1, n \in T PROVE n + 1 \in T
    <2>1. PICK f : Good(f, n)  BY <1>2
    <2> DEFINE g == [k \in 0 .. n + 1 |-> IF k = n + 1 THEN Extended(counts, f[n], n + 1) ELSE f[k]]
    <2>2. ASSUME NEW k \in 0 .. n + 1
          PROVE g[k] = IF k = 0 THEN [sum |-> 0, result |-> <<>>] ELSE Extended(counts, g[k - 1], k)
      <3>1. CASE k = n + 1
        <4>1. g[k] = Extended(counts, f[n], n + 1)  BY <3>1
        <4>2. k - 1 = n /\ g[n] = f[n] /\ k # 0  BY <3>1
        <4> QED BY <3>1, <4>1, <4>2
      <3>2. CASE k # n + 1
        <4>1. k \in 0 .. n /\ g[k] = f[k]  BY <3>2
        <4>2. f[k] = IF k = 0 THEN [sum |-> 0, result |-> <<>>] ELSE Extended(counts, f[k - 1], k)
          BY <2>1, <4>1
        <4>3. k # 0 => g[k - 1] = f[k - 1]  BY <4>1
        <4> QED BY <4>1, <4>2, <4>3
      <3> QED BY <3>1, <3>2
    <2>3. Good(g, n + 1)  BY <2>2
    <2> HIDE DEF g, Good
    <2>4. n + 1 \in 0 .. Len(counts) OBVIOUS
    <2> QED BY <2>3, <2>4
  <1> HIDE DEF T
  <1>3. \A k \in 0 .. Len(counts) : k \in T
    <2>1. 0 \in T /\ \A n \in 0 .. Len(counts) - 1 : n \in T => n + 1 \in T  BY <1>1, <1>2
    <2>2. Len(counts) \in Nat  OBVIOUS
    <2> QED BY <2>1, <2>2, InductionTo
  <1>4. Len(counts) \in T  BY <1>3
  <1> QED BY <1>4 DEF T

LEMMA ConstructsIntervals ==
  ASSUME NEW counts \in Seq(Nat)
  PROVE  \E acc : IntervalsOf(acc, counts, Len(counts)) /\ constructIntervals(counts) = acc.result
  <1> DEFINE Base == [sum |-> 0, result |-> <<>>]
             h == CHOOSE f : f = [i \in 0 .. Len(counts) |->
                                    IF i = 0 THEN Base ELSE Extended(counts, f[i - 1], i)]
  <1>1. h = [i \in 0 .. Len(counts) |-> IF i = 0 THEN Base ELSE Extended(counts, h[i - 1], i)]
    BY IntervalsExist
  <1>2. constructIntervals(counts) = h[Len(counts)].result
    BY DEF constructIntervals, Extended
  <1> HIDE DEF h
  <1> DEFINE T == {n \in 0 .. Len(counts) : IntervalsOf(h[n], counts, n)}
  <1>3. 0 \in T
    <2>1. h[0] = Base  BY <1>1
    <2>2. IntervalsOf(Base, counts, 0)
      <3>1. Base.sum = 0 /\ Base.result = <<>> /\ Len(Base.result) = 0  OBVIOUS
      <3>2. Upto(counts, 0) = 0  BY UptoRec
      <3> QED BY <3>1, <3>2 DEF IntervalsOf
    <2> QED BY <2>1, <2>2
  <1>4. ASSUME NEW n \in 0 .. Len(counts) - 1, n \in T PROVE n + 1 \in T
    <2>1. h[n + 1] = Extended(counts, h[n], n + 1)  BY <1>1
    <2>2. IntervalsOf(h[n], counts, n) /\ n + 1 \in 0 .. Len(counts)  BY <1>4
    <2> QED BY <2>1, <2>2, ExtendIntervals
  <1> HIDE DEF T
  <1>5. \A n \in 0 .. Len(counts) : n \in T
    <2>1. 0 \in T /\ \A n \in 0 .. Len(counts) - 1 : n \in T => n + 1 \in T  BY <1>3, <1>4
    <2>2. Len(counts) \in Nat  OBVIOUS
    <2> QED BY <2>1, <2>2, InductionTo
  <1>6. IntervalsOf(h[Len(counts)], counts, Len(counts))  BY <1>5 DEF T
  <1> QED BY <1>2, <1>6

-----------------------------------------------------------------------------
(***************************************************************************)
(* SearchInterval                                                           *)
(***************************************************************************)
Middle(low, high) == (low + high) \div 2

\* One iteration of the loop; f are the results for shorter ranges.
Looked(f, intervals, val, r) ==
  LET mid == Middle(r[1], r[2])
      it  == intervals[mid + 1]
  IN
  IF r[1] > r[2] THEN NoInterval
  ELSE IF val >= it.Start /\ val <= it.End THEN it
  ELSE IF val < it.Start THEN f[<<r[1], mid - 1>>]
  ELSE f[<<mid + 1, r[2]>>]

Ranges(intervals) == (0 .. Len(intervals)) \X (-1 .. Len(intervals) - 1)

IsSearch(f, intervals, val) == f = [r \in Ranges(intervals) |-> Looked(f, intervals, val, r)]

LEMMA MiddleBetween ==
  ASSUME NEW low \in Int, NEW high \in Int, low <= high
  PROVE  Middle(low, high) \in low .. high
  BY DEF Middle

\* The shorter ranges.
LEMMA LookedAt ==
  ASSUME NEW intervals, Len(intervals) \in Nat, NEW r \in Ranges(intervals), r[1] <= r[2]
  PROVE  /\ Middle(r[1], r[2]) \in r[1] .. r[2]
         /\ <<r[1], Middle(r[1], r[2]) - 1>> \in Ranges(intervals)
         /\ <<Middle(r[1], r[2]) + 1, r[2]>> \in Ranges(intervals)
  <1>1. r[1] \in 0 .. Len(intervals) /\ r[2] \in -1 .. Len(intervals) - 1  BY DEF Ranges
  <1>2. Middle(r[1], r[2]) \in r[1] .. r[2]
    <2>1. r[1] \in Int /\ r[2] \in Int  BY <1>1
    <2> QED BY <2>1, MiddleBetween
  <1>3. /\ Middle(r[1], r[2]) - 1 \in -1 .. Len(intervals) - 1
        /\ Middle(r[1], r[2]) + 1 \in 0 .. Len(intervals)
    BY <1>1, <1>2
  <1> QED BY <1>1, <1>2, <1>3 DEF Ranges

LEMMA SearchExists ==
  ASSUME NEW intervals, Len(intervals) \in Nat, NEW val
  PROVE  \E f : IsSearch(f, intervals, val)
  <1> DEFINE N == Len(intervals)
             R == Ranges(intervals)
             Good(f, d) == /\ f = [r \in R |-> f[r]]
                           /\ \A r \in R : r[2] - r[1] < d => f[r] = Looked(f, intervals, val, r)
             T == {d \in 0 .. N : \E f : Good(f, d)}
  <1>0. \A r \in R : r[1] \in 0 .. N /\ r[2] \in -1 .. N - 1  BY DEF Ranges
  <1> HIDE DEF R, Good
  <1>1. 0 \in T
    <2> DEFINE z == [r \in R |-> NoInterval]
    <2>1. ASSUME NEW r \in R, r[2] - r[1] < 0 PROVE z[r] = Looked(z, intervals, val, r)
      <3>1. r[1] > r[2]  BY <1>0, <2>1
      <3>2. z[r] = NoInterval  OBVIOUS
      <3> HIDE DEF z
      <3> QED BY <3>1, <3>2 DEF Looked
    <2>2. z = [r \in R |-> z[r]]  OBVIOUS
    <2> HIDE DEF z
    <2>3. Good(z, 0)  BY <2>1, <2>2 DEF Good
    <2> QED BY <2>3
  <1>2. ASSUME NEW d \in 0 .. N - 1, d \in T PROVE d + 1 \in T
    <2>1. PICK f : Good(f, d)  BY <1>2
    <2> DEFINE g == [r \in R |-> IF r[2] - r[1] < d THEN f[r] ELSE Looked(f, intervals, val, r)]
    <2>2. \A r \in R : g[r] = IF r[2] - r[1] < d THEN f[r] ELSE Looked(f, intervals, val, r)
      OBVIOUS
    <2>3. g = [r \in R |-> g[r]]  OBVIOUS
    <2> HIDE DEF g
    <2>4. ASSUME NEW r \in R, r[2] - r[1] < d + 1
          PROVE  g[r] = Looked(g, intervals, val, r)
      <3>1. g[r] = Looked(f, intervals, val, r)  BY <2>1, <2>2 DEF Good
      <3>2. CASE r[1] > r[2]  BY <3>1, <3>2 DEF Looked
      <3>3. CASE r[1] <= r[2]
        <4> DEFINE mid == Middle(r[1], r[2])
                   lo == <<r[1], mid - 1>>
                   hi == <<mid + 1, r[2]>>
        <4>1. mid \in r[1] .. r[2] /\ lo \in R /\ hi \in R  BY <3>3, LookedAt DEF R
        <4>2. lo[1] = r[1] /\ lo[2] = mid - 1 /\ hi[1] = mid + 1 /\ hi[2] = r[2]  OBVIOUS
        <4> HIDE DEF mid, lo, hi
        <4>3. r[1] \in Int /\ r[2] \in Int /\ mid \in Int /\ r[1] <= mid /\ mid <= r[2]
          BY <1>0, <4>1
        <4>4. lo[2] - lo[1] < d /\ hi[2] - hi[1] < d  BY <4>2, <4>3, <2>4
        <4>5. g[lo] = f[lo] /\ g[hi] = f[hi]  BY <4>1, <4>4, <2>2
        <4> QED BY <3>1, <4>5 DEF Looked, mid, lo, hi
      <3> QED BY <1>0, <3>2, <3>3
    <2>5. Good(g, d + 1)  BY <2>3, <2>4 DEF Good
    <2>6. d + 1 \in 0 .. N  OBVIOUS
    <2> QED BY <2>5, <2>6
  <1> HIDE DEF T
  <1>3. N \in T
    <2>1. 0 \in T /\ \A d \in 0 .. N - 1 : d \in T => d + 1 \in T  BY <1>1, <1>2
    <2>2. N \in Nat  OBVIOUS
    <2> HIDE DEF N
    <2>3. \A d \in 0 .. N : d \in T  BY <2>1, <2>2, InductionTo
    <2> QED BY <2>2, <2>3
  <1>4. PICK f : Good(f, N)  BY <1>3 DEF T
  <1>5. \A r \in R : f[r] = Looked(f, intervals, val, r)  BY <1>0, <1>4 DEF Good
  <1>6. IsSearch(f, intervals, val)  BY <1>4, <1>5 DEF Good, IsSearch, R
  <1> QED BY <1>6

LEMMA SearchIs ==
  ASSUME NEW intervals, Len(intervals) \in Nat, NEW val
  PROVE  \E f : IsSearch(f, intervals, val)
                /\ SearchInterval(intervals, val) = f[<<0, Len(intervals) - 1>>]
  <1> DEFINE h == CHOOSE f : f = [r \in Ranges(intervals) |-> Looked(f, intervals, val, r)]
  <1>1. IsSearch(h, intervals, val)  BY SearchExists DEF IsSearch
  <1>2. SearchInterval(intervals, val) = h[<<0, Len(intervals) - 1>>]
    BY DEF SearchInterval, Looked, Middle, Ranges
  <1> QED BY <1>1, <1>2

\* Value val lies in the interval at place j, from 0.
Covers(intervals, j, val) ==
  intervals[j + 1].Start <= val /\ val <= intervals[j + 1].End

\* The intervals do not overlap and are in order.
Ascending(intervals) ==
  /\ intervals \in Seq(Intervals)
  /\ \A i, j \in 1 .. Len(intervals) : i < j => intervals[i].End < intervals[j].Start
  /\ \A i \in 1 .. Len(intervals) : intervals[i].Start <= intervals[i].End

LEMMA SearchFinds ==
  ASSUME NEW intervals, Ascending(intervals), NEW val \in Int
  PROVE  /\ \A j \in 0 .. Len(intervals) - 1 : Covers(intervals, j, val) =>
              SearchInterval(intervals, val) = intervals[j + 1]
         /\ (\A j \in 0 .. Len(intervals) - 1 : ~Covers(intervals, j, val)) =>
              SearchInterval(intervals, val) = NoInterval
  <1> DEFINE N == Len(intervals)
  <1>0. N \in Nat  BY DEF Ascending
  <1>1. PICK f : IsSearch(f, intervals, val) /\ SearchInterval(intervals, val) = f[<<0, N - 1>>]
    BY <1>0, SearchIs
  <1> DEFINE R == Ranges(intervals)
             Right(r) == /\ \A j \in r[1] .. r[2] : Covers(intervals, j, val) => f[r] = intervals[j + 1]
                         /\ (\A j \in r[1] .. r[2] : ~Covers(intervals, j, val)) => f[r] = NoInterval
             T == {d \in 0 .. N : \A r \in R : r[2] - r[1] < d => Right(r)}
  <1>2. \A r \in R : /\ r[1] \in 0 .. N /\ r[2] \in -1 .. N - 1
                     /\ f[r] = Looked(f, intervals, val, r)
    BY <1>1 DEF Ranges, IsSearch
  <1>3. \A j \in 0 .. N - 1 : intervals[j + 1].Start \in Int /\ intervals[j + 1].End \in Int
    <2>1. ASSUME NEW j \in 0 .. N - 1
          PROVE  intervals[j + 1].Start \in Int /\ intervals[j + 1].End \in Int
      <3>1. j + 1 \in 1 .. Len(intervals)  BY <1>0
      <3>2. intervals[j + 1] \in Intervals  BY <3>1 DEF Ascending
      <3> QED BY <3>2 DEF Intervals
    <2> QED BY <2>1
  <1> HIDE DEF N, R, Right
  <1>4. 0 \in T
    <2>1. ASSUME NEW r \in R, r[2] - r[1] < 0 PROVE Right(r)
      <3>1. r[1] > r[2]  BY <1>2, <2>1
      <3>2. f[r] = NoInterval  BY <1>2, <3>1 DEF Looked
      <3>3. r[1] .. r[2] = {}  BY <1>2, <3>1
      <3> QED BY <3>2, <3>3 DEF Right
    <2> QED BY <1>0, <2>1
  <1>5. ASSUME NEW d \in 0 .. N - 1, d \in T PROVE d + 1 \in T
    <2>1. ASSUME NEW r \in R, r[2] - r[1] < d + 1 PROVE Right(r)
      <3>0. r[1] \in Int /\ r[2] \in Int  BY <1>2
      <3>1. CASE r[1] > r[2]
        <4>1. f[r] = NoInterval  BY <1>2, <3>1 DEF Looked
        <4>2. r[1] .. r[2] = {}  BY <1>2, <3>1
        <4> QED BY <4>1, <4>2 DEF Right
      <3>2. CASE r[1] <= r[2]
        <4> DEFINE mid == Middle(r[1], r[2])
                   lo == <<r[1], mid - 1>>
                   hi == <<mid + 1, r[2]>>
                   it == intervals[mid + 1]
        <4>1. mid \in r[1] .. r[2] /\ lo \in R /\ hi \in R  BY <3>2, <1>0, LookedAt DEF R, N
        <4>2. lo[1] = r[1] /\ lo[2] = mid - 1 /\ hi[1] = mid + 1 /\ hi[2] = r[2]  OBVIOUS
        <4>3. f[r] = IF val >= it.Start /\ val <= it.End THEN it
                     ELSE IF val < it.Start THEN f[lo] ELSE f[hi]
          BY <1>2, <3>0, <3>2 DEF Looked
        <4> HIDE DEF mid, lo, hi
        <4>4. mid \in Int /\ r[1] <= mid /\ mid <= r[2] /\ mid \in 0 .. N - 1
          <5>1. r[1] \in 0 .. N /\ r[2] \in -1 .. N - 1  BY <1>2
          <5> QED BY <1>0, <4>1, <5>1, <3>0
        <4>5. lo[2] - lo[1] < d /\ hi[2] - hi[1] < d  BY <4>2, <4>4, <2>1, <3>0
        <4>6. Right(lo) /\ Right(hi)  BY <4>1, <4>5, <1>5
        <4>7. \A j \in r[1] .. r[2] : j \in 0 .. N - 1
          <5>1. r[1] \in 0 .. N /\ r[2] \in -1 .. N - 1  BY <1>2
          <5> QED BY <1>0, <5>1
        <4>8. it.Start \in Int /\ it.End \in Int  BY <4>4, <1>3
        <4>16. it.Start <= it.End  BY <4>4, <1>0 DEF Ascending, N
        <4>9. \A j \in r[1] .. r[2] : j < mid => intervals[j + 1].End < it.Start
          BY <4>4, <4>7, <1>0 DEF Ascending, N
        <4>10. \A j \in r[1] .. r[2] : j > mid => it.End < intervals[j + 1].Start
          BY <4>4, <4>7, <1>0 DEF Ascending, N
        <4>11. \A j \in r[1] .. r[2] : intervals[j + 1].Start \in Int /\ intervals[j + 1].End \in Int
          BY <4>7, <1>3
        <4>12. it = intervals[mid + 1]  OBVIOUS
        <4> HIDE DEF it
        <4>13. CASE val >= it.Start /\ val <= it.End
          <5>1. f[r] = it  BY <4>3, <4>13
          <5>2. Covers(intervals, mid, val)  BY <4>12, <4>13, <4>8 DEF Covers
          <5>3. ASSUME NEW j \in r[1] .. r[2], Covers(intervals, j, val) PROVE j = mid
            BY <5>3, <4>4, <4>8, <4>9, <4>10, <4>11, <4>13 DEF Covers
          <5>4. \A j \in r[1] .. r[2] : Covers(intervals, j, val) => f[r] = intervals[j + 1]
            BY <5>1, <5>3, <4>12
          <5>5. ~(\A j \in r[1] .. r[2] : ~Covers(intervals, j, val))  BY <4>1, <5>2
          <5> QED BY <5>4, <5>5 DEF Right
        <4>14. CASE val < it.Start
          <5>1. f[r] = f[lo]  BY <4>3, <4>14, <4>8
          <5>2. ASSUME NEW j \in r[1] .. r[2], Covers(intervals, j, val) PROVE j \in lo[1] .. lo[2]
            <6>1. ~(j > mid)  BY <5>2, <4>8, <4>10, <4>11, <4>14, <4>16 DEF Covers
            <6>2. j # mid  BY <5>2, <4>12, <4>8, <4>14 DEF Covers
            <6> QED BY <6>1, <6>2, <4>2, <4>4, <3>0
          <5>3. lo[1] .. lo[2] \subseteq r[1] .. r[2]  BY <4>2, <4>4, <3>0
          <5> QED BY <5>1, <5>2, <5>3, <4>6 DEF Right
        <4>15. CASE ~(val < it.Start) /\ ~(val >= it.Start /\ val <= it.End)
          <5>1. f[r] = f[hi]  BY <4>3, <4>15
          <5>2. ASSUME NEW j \in r[1] .. r[2], Covers(intervals, j, val) PROVE j \in hi[1] .. hi[2]
            <6>1. ~(j < mid)  BY <5>2, <4>8, <4>9, <4>11, <4>15 DEF Covers
            <6>2. j # mid  BY <5>2, <4>12, <4>8, <4>15 DEF Covers
            <6> QED BY <6>1, <6>2, <4>2, <4>4, <3>0
          <5>3. hi[1] .. hi[2] \subseteq r[1] .. r[2]  BY <4>2, <4>4, <3>0
          <5> QED BY <5>1, <5>2, <5>3, <4>6 DEF Right
        <4> QED BY <4>13, <4>14, <4>15
      <3> QED BY <3>0, <3>1, <3>2
    <2>2. d + 1 \in 0 .. N  BY <1>0
    <2> QED BY <2>1, <2>2
  <1> HIDE DEF T
  <1>6. N \in T
    <2>1. 0 \in T /\ \A d \in 0 .. N - 1 : d \in T => d + 1 \in T  BY <1>4, <1>5
    <2>3. \A d \in 0 .. N : d \in T  BY <2>1, <1>0, InductionTo
    <2> QED BY <1>0, <2>3
  <1> DEFINE whole == <<0, N - 1>>
  <1>7. whole \in R /\ whole[1] = 0 /\ whole[2] = N - 1  BY <1>0 DEF R, N, Ranges
  <1> HIDE DEF whole
  <1>8. whole[2] - whole[1] < N  BY <1>0, <1>7
  <1>9. Right(whole)  BY <1>6, <1>7, <1>8 DEF T
  <1> QED BY <1>1, <1>7, <1>9 DEF Right, N, whole

\* SearchInterval finds the minute of an invocation, its first and its last one.
LEMMA MinuteFound ==
  ASSUME NEW counts \in Seq(Nat), NEW k \in Nat
  PROVE  /\ \A m : InMinute(counts, k, m) =>
              SearchInterval(constructIntervals(counts), k) =
                [Start |-> Upto(counts, m), End |-> Upto(counts, m + 1) - 1, Value |-> m]
         /\ k >= Sum(counts) => SearchInterval(constructIntervals(counts), k) = NoInterval
  <1>1. PICK acc : IntervalsOf(acc, counts, Len(counts)) /\ constructIntervals(counts) = acc.result
    BY ConstructsIntervals
  <1> DEFINE iv == acc.result
             N == Len(iv)
  <1>2. iv \in Seq(Intervals) /\ N \in Nat  BY <1>1 DEF IntervalsOf
  <1>3. \A n \in 0 .. Len(counts) : Upto(counts, n) \in Nat  BY UptoNat
  <1>4. ASSUME NEW j \in 1 .. N
        PROVE  /\ iv[j].Value \in 0 .. Len(counts) - 1 /\ counts[iv[j].Value + 1] > 0
               /\ iv[j].Start = Upto(counts, iv[j].Value)
               /\ iv[j].End = Upto(counts, iv[j].Value + 1) - 1
               /\ iv[j] = [Start |-> Upto(counts, iv[j].Value),
                           End |-> Upto(counts, iv[j].Value + 1) - 1, Value |-> iv[j].Value]
    <2>1. iv[j] \in Intervals  BY <1>2
    <2> QED BY <1>1, <2>1 DEF IntervalsOf, Intervals
  <1>5. \A i, j \in 1 .. N : i < j => iv[i].Value < iv[j].Value  BY <1>1 DEF IntervalsOf
  <1>6. \A m \in 0 .. Len(counts) - 1 : counts[m + 1] > 0 => \E j \in 1 .. N : iv[j].Value = m
    BY <1>1 DEF IntervalsOf
  <1> HIDE DEF iv, N
  <1>7. Ascending(iv)
    <2>1. ASSUME NEW i \in 1 .. N, NEW j \in 1 .. N, i < j PROVE iv[i].End < iv[j].Start
      <3>1. iv[i].Value \in 0 .. Len(counts) - 1 /\ iv[j].Value \in 0 .. Len(counts) - 1  BY <1>4
      <3>2. iv[i].Value < iv[j].Value  BY <2>1, <1>5
      <3>3. iv[i].Value + 1 \in 0 .. Len(counts) /\ iv[j].Value \in 0 .. Len(counts)
            /\ iv[i].Value + 1 <= iv[j].Value
        BY SMTT(30), <3>1, <3>2
      <3>4. Upto(counts, iv[i].Value + 1) <= Upto(counts, iv[j].Value)  BY <3>3, UptoNat
      <3>5. Upto(counts, iv[i].Value + 1) \in Nat /\ Upto(counts, iv[j].Value) \in Nat  BY <3>3, <1>3
      <3>6. iv[i].End = Upto(counts, iv[i].Value + 1) - 1 /\ iv[j].Start = Upto(counts, iv[j].Value)
        BY <1>4
      <3> QED BY <3>4, <3>5, <3>6
    <2>2. ASSUME NEW i \in 1 .. N PROVE iv[i].Start <= iv[i].End
      <3> DEFINE v == iv[i].Value
      <3>1. v \in 0 .. Len(counts) - 1 /\ counts[v + 1] > 0
            /\ iv[i].Start = Upto(counts, v) /\ iv[i].End = Upto(counts, v + 1) - 1
        BY <1>4
      <3> HIDE DEF v
      <3>2. Upto(counts, v + 1) = Upto(counts, v) + counts[v + 1]  BY <3>1, UptoRec
      <3>3. Upto(counts, v) \in Nat /\ counts[v + 1] \in Nat  BY <3>1, <1>3
      <3> QED BY <3>1, <3>2, <3>3
    <2> QED BY <1>2, <2>1, <2>2 DEF Ascending, N
  <1>8. ASSUME NEW m, InMinute(counts, k, m)
        PROVE  SearchInterval(iv, k) =
                 [Start |-> Upto(counts, m), End |-> Upto(counts, m + 1) - 1, Value |-> m]
    <2>1. m \in 0 .. Len(counts) - 1 /\ Upto(counts, m) <= k /\ k < Upto(counts, m + 1)
      BY <1>8 DEF InMinute
    <2>2. Upto(counts, m + 1) = Upto(counts, m) + counts[m + 1]  BY <2>1, UptoRec
    <2>3. Upto(counts, m) \in Nat /\ Upto(counts, m + 1) \in Nat /\ counts[m + 1] \in Nat
      BY <2>1, <1>3
    <2>4. counts[m + 1] > 0  BY <2>1, <2>2, <2>3
    <2>5. PICK j \in 1 .. N : iv[j].Value = m  BY <2>1, <2>4, <1>6
    <2>6. j - 1 \in 0 .. Len(iv) - 1 /\ j - 1 + 1 = j  BY <1>2 DEF N
    <2>7. iv[j].Start <= k /\ k <= iv[j].End
      <3>1. iv[j].Start = Upto(counts, m) /\ iv[j].End = Upto(counts, m + 1) - 1  BY <2>5, <1>4
      <3> QED BY <3>1, <2>1, <2>3
    <2>8. Covers(iv, j - 1, k)  BY <2>6, <2>7 DEF Covers
    <2>9. SearchInterval(iv, k) = iv[j]
      <3>1. k \in Int  OBVIOUS
      <3>2. SearchInterval(iv, k) = iv[j - 1 + 1]  BY <3>1, <2>6, <2>8, <1>7, SearchFinds
      <3> QED BY <3>2, <2>6
    <2> QED BY <2>5, <2>9, <1>4
  <1>9. ASSUME k >= Sum(counts) PROVE SearchInterval(iv, k) = NoInterval
    <2>1. ASSUME NEW j \in 0 .. Len(iv) - 1 PROVE ~Covers(iv, j, k)
      <3> DEFINE v == iv[j + 1].Value
      <3>1. j + 1 \in 1 .. N  BY <1>2 DEF N
      <3>2. v \in 0 .. Len(counts) - 1 /\ iv[j + 1].End = Upto(counts, v + 1) - 1  BY <3>1, <1>4
      <3> HIDE DEF v
      <3>3. v + 1 \in 0 .. Len(counts) /\ Len(counts) \in 0 .. Len(counts) /\ v + 1 <= Len(counts)
        BY <3>2
      <3>4. Upto(counts, v + 1) <= Upto(counts, Len(counts))  BY <3>3, UptoNat
      <3>5. Upto(counts, Len(counts)) = Sum(counts)  BY UptoRec
      <3>6. Upto(counts, v + 1) \in Nat /\ Sum(counts) \in Nat  BY <3>3, UptoNat
      <3> QED BY <1>9, <3>2, <3>4, <3>5, <3>6 DEF Covers
    <2>2. k \in Int  OBVIOUS
    <2> QED BY <2>1, <2>2, <1>7, SearchFinds
  <1>10. constructIntervals(counts) = iv  BY <1>1 DEF iv
  <1> QED BY <1>8, <1>9, <1>10

-----------------------------------------------------------------------------
(***************************************************************************)
(* Counting the invocations of each minute                                  *)
(***************************************************************************)
\* When due[k] is the minute of invocation k and the minutes do not decrease, the
\* numbers of invocations per minute give it back.
LEMMA CountedInMinute ==
  ASSUME NEW n \in Nat, NEW due \in [1 .. n -> Nat], NEW counts \in Seq(Nat),
         \A i, j \in 1 .. n : i <= j => due[i] <= due[j],
         \A i \in 1 .. n : due[i] < Len(counts),
         \A m \in 1 .. Len(counts) : counts[m] = Cardinality({k \in 1 .. n : due[k] = m - 1})
  PROVE  Sum(counts) = n /\ \A k \in 1 .. n : InMinute(counts, k - 1, due[k])
  <1> DEFINE U(m) == {k \in 1 .. n : due[k] < m}
             E(m) == {k \in 1 .. n : due[k] = m}
             M == Len(counts)
  <1>0. M \in Nat /\ IsFiniteSet(1 .. n)  BY FS_Interval
  <1>1. \A m \in 0 .. M : IsFiniteSet(U(m)) /\ IsFiniteSet(E(m))
    BY <1>0, FS_Subset
  <1> DEFINE T == {m \in 0 .. M : Upto(counts, m) = Cardinality(U(m))}
  <1>2. 0 \in T
    <2>1. U(0) = {}  OBVIOUS
    <2>2. Cardinality(U(0)) = 0  BY <2>1, FS_EmptySet
    <2> QED BY <1>0, <2>2, UptoRec
  <1>3. ASSUME NEW m \in 0 .. M - 1, m \in T PROVE m + 1 \in T
    <2>1. U(m + 1) = U(m) \cup E(m) /\ U(m) \cap E(m) = {}  OBVIOUS
    <2>2. Cardinality(U(m + 1)) = Cardinality(U(m)) + Cardinality(E(m))
      <3>0. m \in 0 .. M  BY <1>0
      <3> HIDE DEF U, E
      <3>1. IsFiniteSet(U(m)) /\ IsFiniteSet(E(m))  BY <1>1, <3>0
      <3>2. /\ Cardinality(U(m) \cup E(m)) = Cardinality(U(m)) + Cardinality(E(m)) - Cardinality(U(m) \cap E(m))
            /\ Cardinality(U(m)) \in Nat /\ Cardinality(E(m)) \in Nat
        BY <3>1, FS_Union, FS_CardinalityType
      <3>3. Cardinality(U(m) \cap E(m)) = 0  BY <2>1, FS_EmptySet
      <3>4. Cardinality(U(m + 1)) = Cardinality(U(m) \cup E(m))  BY <2>1
      <3> QED BY <3>2, <3>3, <3>4
    <2>3. Upto(counts, m + 1) = Upto(counts, m) + counts[m + 1]  BY UptoRec
    <2>4. m + 1 \in 1 .. M /\ m + 1 - 1 = m  BY <1>0
    <2>5. counts[m + 1] = Cardinality(E(m))  BY <2>4
    <2> HIDE DEF U, E
    <2> QED BY <2>2, <2>3, <2>4, <2>5, <1>3
  <1>4. \A m \in 0 .. M : Upto(counts, m) = Cardinality(U(m))
    <2>1. 0 \in T /\ \A m \in 0 .. M - 1 : m \in T => m + 1 \in T  BY <1>2, <1>3
    <2> HIDE DEF T, M
    <2>2. \A m \in 0 .. M : m \in T  BY <1>0, <2>1, InductionTo
    <2> QED BY <2>2 DEF T
  <1>5. ASSUME NEW m \in 0 .. M PROVE Upto(counts, m) \in 0 .. n /\ U(m) = 1 .. Upto(counts, m)
    <2> DEFINE V == {k \in 1 .. n : due[k] >= m}
    <2>1. \E c \in 0 .. n : U(m) = 1 .. c
      <3>1. CASE V = {}
        <4>1. U(m) = 1 .. n  BY <3>1
        <4> QED BY <4>1
      <3>2. CASE V # {}
        <4>1. V \subseteq Nat  OBVIOUS
        <4>2. PICK v \in V : \A y \in V : v <= y
          <5> HIDE DEF V
          <5> QED BY <3>2, <4>1, Least
        <4>3. v \in 1 .. n /\ due[v] >= m  BY <4>2
        <4>4. ASSUME NEW k \in 1 .. n PROVE due[k] < m <=> k <= v - 1
          <5>1. CASE k < v
            <6>1. k \notin V  BY <5>1, <4>2, <4>3
            <6> QED BY <5>1, <6>1, <4>3
          <5>2. CASE k >= v
            <6>1. due[v] <= due[k]  BY <5>2, <4>3
            <6> QED BY <5>2, <6>1, <4>3
          <5> QED BY <5>1, <5>2, <4>3
        <4>5. v - 1 \in 0 .. n /\ U(m) = 1 .. (v - 1)
          <5>1. v - 1 \in 0 .. n /\ \A k : k \in 1 .. (v - 1) => k \in 1 .. n  BY <4>3
          <5>2. \A k : k \in U(m) <=> k \in 1 .. (v - 1)  BY <4>3, <4>4, <5>1
          <5> QED BY <5>1, <5>2
        <4> QED BY <4>5
      <3> QED BY <3>1, <3>2
    <2>2. PICK c \in 0 .. n : U(m) = 1 .. c  BY <2>1
    <2>3. Cardinality(1 .. c) = c  BY FS_Interval
    <2> QED BY <2>2, <2>3, <1>4
  <1>6. Sum(counts) = n
    <2>1. U(M) = 1 .. n  OBVIOUS
    <2>2. Cardinality(1 .. n) = n  BY FS_Interval
    <2>3. Upto(counts, M) = n  BY <1>0, <1>4, <2>1, <2>2
    <2> QED BY <2>3, UptoRec
  <1>7. ASSUME NEW k \in 1 .. n PROVE InMinute(counts, k - 1, due[k])
    <2>1. due[k] \in 0 .. M - 1 /\ due[k] \in 0 .. M /\ due[k] + 1 \in 0 .. M  BY <1>0
    <2>2. k \notin U(due[k]) /\ k \in U(due[k] + 1)  BY <2>1
    <2>3. k \notin 1 .. Upto(counts, due[k]) /\ k \in 1 .. Upto(counts, due[k] + 1)
      BY <2>1, <2>2, <1>5
    <2>4. Upto(counts, due[k]) \in Int /\ Upto(counts, due[k] + 1) \in Int  BY <2>1, <1>5
    <2> QED BY <2>1, <2>3, <2>4 DEF InMinute
  <1> QED BY <1>6, <1>7

\* The invocations before k in its minute, counted.
LEMMA IndexInMinute ==
  ASSUME NEW counts \in Seq(Nat), NEW n \in Nat, NEW due \in [1 .. n -> Int],
         \A k \in 1 .. n : InMinute(counts, k - 1, due[k]), NEW k \in 1 .. n
  PROVE  Cardinality({j \in 1 .. k - 1 : due[j] = due[k]}) = k - 1 - Upto(counts, due[k])
  <1> DEFINE m == due[k]
             b == Upto(counts, m)
             S == {j \in 1 .. k - 1 : due[j] = m}
  <1>1. m \in 0 .. Len(counts) - 1 /\ b <= k - 1 /\ k - 1 < Upto(counts, m + 1)  BY DEF InMinute
  <1>2. b \in Nat /\ Upto(counts, m + 1) \in Nat  BY <1>1, UptoNat
  <1>3. ASSUME NEW j \in 1 .. k - 1 PROVE due[j] = m <=> j \in b + 1 .. k - 1
    <2>0. j \in 1 .. n /\ j - 1 \in Int  OBVIOUS
    <2>1. InMinute(counts, j - 1, due[j])  BY <2>0
    <2>2. ASSUME due[j] = m PROVE j \in b + 1 .. k - 1
      <3>1. b <= j - 1  BY <2>1, <2>2 DEF InMinute
      <3> QED BY <3>1, <1>2
    <2>3. ASSUME j \in b + 1 .. k - 1 PROVE due[j] = m
      <3>2. b <= j - 1 /\ j - 1 < Upto(counts, m + 1)
        <4> HIDE DEF b, m
        <4>1. j \in Int /\ b + 1 <= j /\ j <= k - 1 /\ k \in Int  BY <2>3, <1>2
        <4> QED BY <4>1, <1>1, <1>2
      <3>1. InMinute(counts, j - 1, m)  BY <3>2, <1>1 DEF InMinute
      <3> QED BY <2>0, <2>1, <3>1, MinuteUnique
    <2> QED BY <2>2, <2>3
  <1>4. S = b + 1 .. k - 1
    <2>1. \A j \in b + 1 .. k - 1 : j \in 1 .. k - 1  BY <1>2
    <2> HIDE DEF b, m
    <2> QED BY <1>3, <2>1
  <1>5. Cardinality(b + 1 .. k - 1) = k - 1 - b
    <2>1. b + 1 \in Int /\ k - 1 \in Int  BY <1>2
    <2>2. Cardinality(b + 1 .. k - 1) = IF b + 1 > k - 1 THEN 0 ELSE k - 1 - (b + 1) + 1
      BY <2>1, FS_Interval
    <2> QED BY SMTT(30), <2>2, <1>1, <1>2
  <1> QED BY <1>4, <1>5

-----------------------------------------------------------------------------
(***************************************************************************)
(* The IATs of a minute                                                     *)
(***************************************************************************)
LEMMA Concatenated ==
  ASSUME NEW S, NEW s \in Seq(S), NEW t \in Seq(S)
  PROVE  /\ s \o t \in Seq(S) /\ Len(s \o t) = Len(s) + Len(t)
         /\ \A k \in 1 .. Len(s) : (s \o t)[k] = s[k]
         /\ \A k \in 1 .. Len(t) : (s \o t)[Len(s) + k] = t[k]
  OBVIOUS

LEMMA UptoConcat ==
  ASSUME NEW s \in Seq(Int), NEW t \in Seq(Int)
  PROVE  /\ \A n \in 0 .. Len(t) : Upto(s \o t, Len(s) + n) = Sum(s) + Upto(t, n)
         /\ Sum(s \o t) = Sum(s) + Sum(t)
  <1> DEFINE u == s \o t
             T == {n \in 0 .. Len(t) : Upto(u, Len(s) + n) = Sum(s) + Upto(t, n)}
  <1>1. /\ u \in Seq(Int) /\ Len(u) = Len(s) + Len(t)
        /\ \A k \in 1 .. Len(s) : u[k] = s[k]
        /\ \A k \in 1 .. Len(t) : u[Len(s) + k] = t[k]
        /\ Len(s) \in Nat /\ Len(t) \in Nat
    OBVIOUS
  <1> HIDE DEF u
  <1>2. 0 \in T
    <2>1. Upto(u, Len(s)) = Upto(s, Len(s))
      <3>1. Len(s) \in 0 .. Len(s) /\ Len(s) <= Len(u)  BY <1>1
      <3> QED BY <1>1, <3>1, UptoExtend
    <2>2. Upto(s, Len(s)) = Sum(s) /\ Sum(s) \in Int /\ Upto(t, 0) = 0  BY UptoRec, UptoInt
    <2> QED BY <1>1, <2>1, <2>2
  <1>3. ASSUME NEW n \in 0 .. Len(t) - 1, n \in T PROVE n + 1 \in T
    <2>1. Len(s) + n \in 0 .. Len(u) - 1  BY <1>1
    <2>2. Upto(u, Len(s) + n + 1) = Upto(u, Len(s) + n) + u[Len(s) + n + 1]  BY <1>1, <2>1, UptoRec
    <2>3. Upto(t, n + 1) = Upto(t, n) + t[n + 1]  BY UptoRec
    <2>4. u[Len(s) + (n + 1)] = t[n + 1] /\ Len(s) + n + 1 = Len(s) + (n + 1)  BY <1>1
    <2>5. Upto(t, n) \in Int /\ t[n + 1] \in Int /\ Sum(s) \in Int  BY UptoInt
    <2>6. Upto(u, Len(s) + n) = Sum(s) + Upto(t, n)  BY <1>3
    <2>7. Upto(u, Len(s) + (n + 1)) = Sum(s) + Upto(t, n + 1)  BY <2>2, <2>3, <2>4, <2>5, <2>6
    <2> QED BY <2>7
  <1>4. \A n \in 0 .. Len(t) : n \in T
    <2>1. 0 \in T /\ \A n \in 0 .. Len(t) - 1 : n \in T => n + 1 \in T  BY <1>2, <1>3
    <2> HIDE DEF T
    <2> QED BY <1>1, <2>1, InductionTo
  <1>5. Sum(u) = Sum(s) + Sum(t)
    <2>1. Upto(u, Len(s) + Len(t)) = Sum(s) + Upto(t, Len(t))  BY <1>1, <1>4
    <2>2. Upto(u, Len(u)) = Sum(u) /\ Upto(t, Len(t)) = Sum(t)  BY <1>1, UptoRec
    <2> QED BY <1>1, <2>1, <2>2
  <1> QED BY <1>4, <1>5 DEF u

LEMMA SumConcat ==
  ASSUME NEW s \in Seq(Nat), NEW t \in Seq(Nat)
  PROVE  s \o t \in Seq(Nat) /\ Len(s \o t) = Len(s) + Len(t) /\ Sum(s \o t) = Sum(s) + Sum(t)
  <1>1. s \in Seq(Int) /\ t \in Seq(Int)  OBVIOUS
  <1>2. Sum(s \o t) = Sum(s) + Sum(t)  BY <1>1, UptoConcat
  <1> QED BY <1>2

LEMMA SumOne ==
  ASSUME NEW x \in Int
  PROVE  Sum(<<x>>) = x /\ Upto(<<x>>, 0) = 0 /\ Upto(<<x>>, 1) = x
  <1> DEFINE s == <<x>>
  <1>1. s \in Seq(Int) /\ Len(s) = 1 /\ s[1] = x  OBVIOUS
  <1> HIDE DEF s
  <1>2. Upto(s, 0) = 0 /\ Upto(s, Len(s)) = Sum(s)  BY <1>1, UptoRec
  <1>3. Upto(s, 1) = x
    <2>1. 0 \in 0 .. Len(s) - 1  BY <1>1
    <2>2. Upto(s, 0 + 1) = Upto(s, 0) + s[0 + 1]  BY <1>1, <2>1, UptoRec
    <2> QED BY <1>1, <1>2, <2>2
  <1> QED BY <1>1, <1>2, <1>3 DEF s

\* n invocations and the pause after the last one share a minute.
MinuteOf_n(p, n) == p \in Seq(Nat) /\ Len(p) = n + 1 /\ Sum(p) = Unit

LEMMA CutExists ==
  ASSUME NEW p \in Seq(Nat), NEW split \in Nat, split < Sum(p)
  PROVE  \E i \in 1 .. Len(p) : Upto(p, i) > split /\ Upto(p, i - 1) <= split
  <1> DEFINE T == {i \in 0 .. Len(p) : Upto(p, i) > split}
  <1>1. Upto(p, 0) = 0 /\ Upto(p, Len(p)) = Sum(p) /\ Len(p) \in Nat
        /\ \A i \in 0 .. Len(p) : Upto(p, i) \in Nat
    BY UptoRec, UptoNat
  <1>2. Len(p) \in T /\ T \subseteq Nat  BY <1>1, UptoNat
  <1>3. PICK i \in T : \A y \in T : i <= y
    <2> HIDE DEF T
    <2> QED BY <1>2, Least
  <1>4. i \in 1 .. Len(p)  BY <1>1, <1>3
  <1>5. i - 1 \in 0 .. Len(p) /\ i - 1 \notin T  BY <1>3, <1>4
  <1>6. Upto(p, i - 1) <= split  BY <1>1, <1>5
  <1> QED BY <1>3, <1>4, <1>6

LEMMA ShiftedMinute ==
  ASSUME NEW n \in Nat, n # 0, NEW p \in Parts(n), NEW split \in 0 .. Unit - 1
  PROVE  MinuteOf_n(Shifted(p, split), n)
  <1>0. p \in Seq(Nat) /\ Len(p) = n /\ Sum(p) = Unit /\ Unit \in Nat
    BY TimeAssumption DEF Parts
  <1> DEFINE Cut(j) == Sum(SubSeq(p, 1, j)) > split /\ Sum(SubSeq(p, 1, j - 1)) <= split
             i == CHOOSE j \in 1 .. Len(p) : Cut(j)
             beginning == Sum(SubSeq(p, 1, i)) - split
  <1>1. i \in 1 .. Len(p) /\ Cut(i)
    <2>1. split \in Nat /\ split < Sum(p)  BY <1>0
    <2>2. \E j \in 1 .. Len(p) : Cut(j)  BY <1>0, <2>1, CutExists DEF Upto
    <2> QED BY <2>2
  <1>2. Shifted(p, split) = <<beginning>> \o SubSeq(p, i + 1, Len(p)) \o SubSeq(p, 1, i - 1) \o <<p[i] - beginning>>
    BY DEF Shifted
  <1> HIDE DEF i
  <1>3. beginning \in Nat /\ p[i] - beginning \in Nat /\ p[i] \in Nat
    <2>1. i - 1 \in 0 .. Len(p) - 1 /\ i - 1 + 1 = i /\ i \in 0 .. Len(p) /\ i - 1 \in 0 .. Len(p)  BY <1>0, <1>1
    <2>2. Upto(p, i) = Upto(p, i - 1) + p[i]
      <3>1. Upto(p, i - 1 + 1) = Upto(p, i - 1) + p[i - 1 + 1]  BY <1>0, <2>1, UptoRec
      <3> QED BY <2>1, <3>1
    <2>3. Upto(p, i) \in Nat /\ Upto(p, i - 1) \in Nat  BY <1>0, <2>1, UptoNat
    <2>4. p[i] \in Nat  BY <1>0, <1>1
    <2>5. Upto(p, i) > split /\ Upto(p, i - 1) <= split /\ beginning = Upto(p, i) - split
      BY <1>1 DEF Upto
    <2> HIDE DEF beginning
    <2> QED BY <2>2, <2>3, <2>4, <2>5
  <1> HIDE DEF beginning
  <1> DEFINE a == <<beginning>>
             b == SubSeq(p, i + 1, Len(p))
             c == SubSeq(p, 1, i - 1)
             d == <<p[i] - beginning>>
             q == SubSeq(p, 1, i)
  <1>4. a \in Seq(Nat) /\ Len(a) = 1 /\ d \in Seq(Nat) /\ Len(d) = 1  BY <1>3
  <1>5. /\ b \in Seq(Nat) /\ Len(b) = n - i /\ c \in Seq(Nat) /\ Len(c) = i - 1
        /\ q \in Seq(Nat) /\ q \o b = p
    <2>1. i \in 1 .. n  BY <1>0, <1>1
    <2>2. b \in Seq(Nat) /\ Len(b) = n - i  BY <1>0, <2>1
    <2>3. c \in Seq(Nat) /\ Len(c) = i - 1  BY <1>0, <2>1
    <2>4. q \in Seq(Nat) /\ Len(q) = i  BY <1>0, <2>1
    <2>5. q \o b = p  BY <1>0, <2>1
    <2> QED BY <2>2, <2>3, <2>4, <2>5
  <1>6. Sum(q) = Sum(c) + p[i]
    <2>1. i - 1 \in 0 .. Len(p) - 1 /\ i - 1 + 1 = i  BY <1>0, <1>1
    <2>2. Upto(p, i - 1 + 1) = Upto(p, i - 1) + p[i - 1 + 1]  BY <1>0, <2>1, UptoRec
    <2> QED BY <2>1, <2>2 DEF Upto
  <1>7. Sum(a) = beginning /\ Sum(d) = p[i] - beginning  BY <1>3, SumOne
  <1> HIDE DEF a, b, c, d, q
  <1> DEFINE ab == a \o b
             abc == ab \o c
  <1>8. ab \in Seq(Nat) /\ abc \in Seq(Nat) /\ Len(ab) = 1 + (n - i) /\ Len(abc) = 1 + (n - i) + (i - 1)
    <2>0. ab \in Seq(Nat) /\ Len(ab) = Len(a) + Len(b)  BY <1>4, <1>5, SumConcat
    <2> HIDE DEF ab
    <2>1. ab \in Seq(Nat) /\ Len(ab) = 1 + (n - i)  BY <2>0, <1>4, <1>5
    <2>2. abc \in Seq(Nat) /\ Len(abc) = Len(ab) + Len(c)  BY <2>1, <1>5, SumConcat
    <2> QED BY <2>1, <2>2, <1>5
  <1>9. Sum(ab) = Sum(a) + Sum(b)  BY <1>4, <1>5, SumConcat
  <1> HIDE DEF ab
  <1>10. Sum(abc) = Sum(ab) + Sum(c)  BY <1>8, <1>5, SumConcat
  <1> HIDE DEF abc
  <1>11. Sum(abc \o d) = Sum(abc) + Sum(d)  BY <1>8, <1>4, SumConcat
  <1>12. Sum(p) = Sum(q) + Sum(b)  BY <1>5, SumConcat
  <1>13. abc \o d \in Seq(Nat) /\ Len(abc \o d) = n + 1
    <2>1. abc \o d \in Seq(Nat) /\ Len(abc \o d) = Len(abc) + Len(d)  BY <1>4, <1>8, SumConcat
    <2>2. i \in Int  BY <1>1
    <2> QED BY <2>1, <2>2, <1>4, <1>8
  <1>14. Sum(b) \in Nat /\ Sum(c) \in Nat  BY <1>5, UptoNat
  <1>15. Sum(abc \o d) = Unit
    BY <1>0, <1>3, <1>6, <1>7, <1>9, <1>10, <1>11, <1>12, <1>14
  <1>16. Shifted(p, split) = abc \o d  BY <1>2 DEF a, b, c, d, ab, abc
  <1> QED BY <1>13, <1>15, <1>16 DEF MinuteOf_n

LEMMA MinuteDivided ==
  ASSUME NEW n \in Nat, NEW shift \in BOOLEAN, NEW p \in minuteIATs(n, shift)
  PROVE  MinuteOf_n(p, n)
  <1>0. Unit \in Nat  BY TimeAssumption
  <1>1. CASE n = 0
    <2>1. p = <<Unit>>  BY <1>1 DEF minuteIATs
    <2>2. p \in Seq(Nat) /\ Len(p) = 1  BY <1>0, <2>1
    <2>3. Sum(p) = Unit  BY <1>0, <2>1, SumOne
    <2> QED BY <1>1, <2>2, <2>3 DEF MinuteOf_n
  <1>2. CASE n # 0 /\ shift
    <2>1. PICK q \in Parts(n), split \in 0 .. Unit - 1 : p = Shifted(q, split)
      BY <1>2 DEF minuteIATs
    <2> QED BY <1>2, <2>1, ShiftedMinute
  <1>3. CASE n # 0 /\ ~shift
    <2>1. PICK q \in Parts(n) : p = <<0>> \o q  BY <1>3 DEF minuteIATs
    <2>2. q \in Seq(Nat) /\ Len(q) = n /\ Sum(q) = Unit  BY <1>0 DEF Parts
    <2>3. p \in Seq(Nat) /\ Len(p) = n + 1  BY <2>1, <2>2
    <2>4. Sum(p) = Sum(<<0>>) + Sum(q)
      <3>1. <<0>> \in Seq(Nat)  OBVIOUS
      <3> QED BY <2>1, <2>2, <3>1, SumConcat
    <2>5. Sum(<<0>>) = 0  BY SumOne
    <2> QED BY <1>0, <2>2, <2>3, <2>4, <2>5 DEF MinuteOf_n
  <1> QED BY <1>1, <1>2, <1>3

(***************************************************************************)
(* generateIAT: the IATs so far, the last of which is the pause up to the    *)
(* end of the last minute.                                                  *)
(***************************************************************************)
Spread(iats, counts) ==
  /\ iats \in Seq(Nat) /\ counts \in Seq(Nat)
  /\ Len(iats) = Sum(counts) + 1
  /\ Sum(iats) = Unit * Len(counts)
  /\ \A k \in 1 .. Sum(counts) : \A m : InMinute(counts, k - 1, m) =>
       m * Unit <= Upto(iats, k) /\ Upto(iats, k) <= (m + 1) * Unit

\* The IATs of a function: every invocation is due in its minute.
DueInMinute(iats, counts, length) ==
  \A k \in 1 .. Len(iats) : \A m : InMinute(counts, k - 1, m) =>
    m * length <= Upto(iats, k) /\ Upto(iats, k) <= (m + 1) * length

LEMMA SpreadInit == Spread(<<0>>, <<>>)
  <1>1. Sum(<<>>) = 0 /\ Sum(<<0>>) = 0  BY SumEmpty, SumOne
  <1>2. <<0>> \in Seq(Nat) /\ Len(<<0>>) = 1 /\ <<>> \in Seq(Nat) /\ Len(<<>>) = 0  OBVIOUS
  <1>3. Unit * 0 = 0  BY TimeAssumption
  <1> QED BY <1>1, <1>2, <1>3 DEF Spread

\* The prefixes of the IATs when a minute is added.
LEMMA UptoJoined ==
  ASSUME NEW iats \in Seq(Nat), Len(iats) > 0, NEW p \in Seq(Nat), Len(p) > 0
  PROVE  LET joined == [iats EXCEPT ![Len(iats)] = @ + p[1]] \o Tail(p) IN
         /\ joined \in Seq(Nat) /\ Len(joined) = Len(iats) + Len(p) - 1
         /\ \A k \in 0 .. Len(iats) - 1 : Upto(joined, k) = Upto(iats, k)
         /\ \A i \in 1 .. Len(p) : Upto(joined, Len(iats) - 1 + i) = Sum(iats) + Upto(p, i)
         /\ Sum(joined) = Sum(iats) + Sum(p)
  <1> DEFINE L == Len(iats)
             e == [iats EXCEPT ![L] = @ + p[1]]
             j == e \o Tail(p)
  <1>1. L \in Nat /\ L > 0 /\ iats[L] \in Nat /\ p[1] \in Nat  OBVIOUS
  <1>2. e \in Seq(Nat) /\ Len(e) = L /\ e[L] = iats[L] + p[1] /\ \A k \in 1 .. L - 1 : e[k] = iats[k]
    <2>1. e = [k \in 1 .. L |-> IF k = L THEN iats[L] + p[1] ELSE iats[k]]  BY SMTT(30), <1>1
    <2>2. \A k \in 1 .. L : iats[k] \in Nat  OBVIOUS
    <2> HIDE DEF e, L
    <2>3. \A k \in 1 .. L : e[k] = IF k = L THEN iats[L] + p[1] ELSE iats[k]  BY <2>1
    <2>4. iats[L] + p[1] \in Nat  BY <1>1
    <2>5. e \in [1 .. L -> Nat]  BY <2>1, <2>2, <2>4
    <2>6. e \in Seq(Nat) /\ Len(e) = L  BY SMTT(30), <1>1, <2>5
    <2>7. L \in 1 .. L /\ \A k \in 1 .. L - 1 : k \in 1 .. L /\ k # L  BY <1>1
    <2> QED BY <2>3, <2>6, <2>7
  <1>3. Tail(p) \in Seq(Nat) /\ Len(Tail(p)) = Len(p) - 1 /\ \A k \in 1 .. Len(p) - 1 : Tail(p)[k] = p[k + 1]
    OBVIOUS
  <1> HIDE DEF e
  <1>4. /\ j \in Seq(Nat) /\ Len(j) = L + Len(p) - 1
        /\ \A k \in 1 .. L : j[k] = e[k]
        /\ \A k \in 1 .. Len(p) - 1 : j[L + k] = Tail(p)[k]
    <2> DEFINE t == Tail(p)
    <2>1. t \in Seq(Nat) /\ Len(t) = Len(p) - 1 /\ Len(p) \in Nat  BY <1>3
    <2>2. j = e \o t  OBVIOUS
    <2> HIDE DEF j, t, L
    <2>3. j \in Seq(Nat) /\ Len(j) = Len(e) + Len(t)  BY SMTT(30), <1>2, <2>1, <2>2
    <2>4. \A k \in 1 .. Len(e) : j[k] = e[k]  BY <1>2, <2>1, <2>2
    <2>5. \A k \in 1 .. Len(t) : j[Len(e) + k] = t[k]  
      <3>1. e \in Seq(Nat) /\ t \in Seq(Nat)  BY <1>2, <2>1
      <3>2. \A k \in 1 .. Len(t) : (e \o t)[Len(e) + k] = t[k]  BY ONLY <3>1
      <3> QED BY <2>2, <3>2
    <2> QED BY <1>1, <1>2, <2>1, <2>3, <2>4, <2>5 DEF t
  <1> HIDE DEF j, L
  <1>4a. /\ \A k \in 1 .. L - 1 : j[k] = iats[k]
         /\ j[L] = iats[L] + p[1]
         /\ \A k \in 1 .. Len(p) - 1 : j[L + k] = p[k + 1]
    <2>1. \A k \in 1 .. L - 1 : k \in 1 .. L  BY <1>1
    <2>2. L \in 1 .. L  BY <1>1
    <2> QED BY <1>2, <1>3, <1>4, <2>1, <2>2
  <1>5. \A k \in 0 .. L - 1 : Upto(j, k) = Upto(iats, k)
    <2> SUFFICES ASSUME NEW k \in 0 .. L - 1 PROVE Upto(j, k) = Upto(iats, k)  OBVIOUS
    <2>1. k \in 0 .. Len(iats) /\ k <= Len(j)  BY SMTT(30), <1>1, <1>4 DEF L
    <2>2. \A i \in 1 .. k : j[i] = iats[i]  BY <1>1, <1>4a
    <2> QED BY <2>1, <2>2, <1>4, UptoExtend
  <1>6. Upto(iats, L) = Upto(iats, L - 1) + iats[L] /\ Upto(iats, L) = Sum(iats)
        /\ Upto(iats, L - 1) \in Nat /\ Sum(iats) \in Nat
    <2>1. L - 1 \in 0 .. Len(iats) - 1 /\ L - 1 \in 0 .. Len(iats) /\ L - 1 + 1 = L  BY <1>1 DEF L
    <2>2. Upto(iats, L - 1 + 1) = Upto(iats, L - 1) + iats[L - 1 + 1]  BY <2>1, UptoRec
    <2>3. Upto(iats, L) = Sum(iats)  BY UptoRec DEF L
    <2>4. Upto(iats, L - 1) \in Nat /\ Sum(iats) \in Nat  BY <2>1, UptoNat
    <2> QED BY <2>1, <2>2, <2>3, <2>4
  <1> DEFINE T == {i \in 0 .. Len(p) - 1 : Upto(j, L + i) = Sum(iats) + Upto(p, i + 1)}
  <1>7. 0 \in T
    <2>1. L - 1 \in 0 .. Len(j) - 1 /\ L - 1 + 1 = L /\ L - 1 \in 0 .. L - 1  BY <1>1, <1>4
    <2>2. Upto(j, L - 1 + 1) = Upto(j, L - 1) + j[L - 1 + 1]  BY <1>4, <2>1, UptoRec
    <2>3. Upto(j, L - 1) = Upto(iats, L - 1)  BY <1>5, <2>1
    <2>4. Upto(j, L) = Sum(iats) + p[1]  BY SMTT(30), <1>1, <1>4a, <1>6, <2>1, <2>2, <2>3
    <2>5. 0 \in 0 .. Len(p) - 1 /\ 0 + 1 = 1 /\ L + 0 = L  BY <1>1
    <2>6. Upto(p, 0 + 1) = Upto(p, 0) + p[0 + 1] /\ Upto(p, 0) = 0  BY <2>5, UptoRec
    <2> QED BY <1>1, <2>4, <2>5, <2>6
  <1>8. ASSUME NEW i \in 0 .. Len(p) - 1 - 1, i \in T PROVE i + 1 \in T
    <2>1. L + i \in 0 .. Len(j) - 1 /\ i + 1 \in 0 .. Len(p) - 1 /\ i + 1 \in 1 .. Len(p) - 1
          /\ L + i + 1 = L + (i + 1) /\ i + 1 \in 0 .. Len(p) /\ i + 1 + 1 \in 1 .. Len(p)
      <3> DEFINE n == Len(p)
      <3>1. n \in Nat /\ i \in 0 .. n - 2  OBVIOUS
      <3>2. Len(j) = L + n - 1  BY <1>4
      <3> HIDE DEF n
      <3>3. L + i \in 0 .. Len(j) - 1  BY <1>1, <3>1, <3>2
      <3>4. i + 1 \in 0 .. n - 1 /\ i + 1 \in 1 .. n - 1 /\ i + 1 \in 0 .. n /\ i + 1 + 1 \in 1 .. n
        BY <3>1
      <3>5. L + i + 1 = L + (i + 1)  BY <1>1, <3>1
      <3> QED BY <3>3, <3>4, <3>5 DEF n
    <2>2. Upto(j, L + i + 1) = Upto(j, L + i) + j[L + i + 1]  BY <1>4, <2>1, UptoRec
    <2>3. Upto(p, i + 1 + 1) = Upto(p, i + 1) + p[i + 1 + 1]  BY <2>1, UptoRec
    <2>4. j[L + (i + 1)] = p[i + 1 + 1]  BY SMTT(30), <1>4a, <2>1
    <2>5. Upto(p, i + 1) \in Nat /\ p[i + 1 + 1] \in Nat
      <3>1. Upto(p, i + 1) \in Nat  BY <2>1, UptoNat
      <3>2. p[i + 1 + 1] \in Nat  BY SMTT(30), <2>1
      <3> QED BY <3>1, <3>2
    <2>6. Upto(j, L + i) = Sum(iats) + Upto(p, i + 1)  BY <1>8
    <2>7. Upto(j, L + (i + 1)) = Sum(iats) + Upto(p, i + 1 + 1)
      <3>1. j[L + i + 1] = p[i + 1 + 1] /\ Upto(j, L + i + 1) = Upto(j, L + (i + 1))  BY <2>1, <2>4
      <3>2. Sum(iats) \in Nat  BY <1>6
      <3>3. Upto(j, L + i + 1) = Sum(iats) + Upto(p, i + 1) + p[i + 1 + 1]  BY <2>2, <2>6, <3>1
      <3>4. Sum(iats) + Upto(p, i + 1) + p[i + 1 + 1] = Sum(iats) + (Upto(p, i + 1) + p[i + 1 + 1])
        BY <2>5, <3>2
      <3> QED BY <2>3, <3>1, <3>3, <3>4
    <2> QED BY <2>1, <2>7
  <1>9. \A i \in 0 .. Len(p) - 1 : i \in T
    <2>1. 0 \in T /\ \A i \in 0 .. Len(p) - 1 - 1 : i \in T => i + 1 \in T  BY <1>7, <1>8
    <2>2. Len(p) - 1 \in Nat  OBVIOUS
    <2> HIDE DEF T
    <2> QED BY <2>1, <2>2, InductionTo
  <1>10. \A i \in 1 .. Len(p) : Upto(j, L - 1 + i) = Sum(iats) + Upto(p, i)
    <2> SUFFICES ASSUME NEW i \in 1 .. Len(p) PROVE Upto(j, L - 1 + i) = Sum(iats) + Upto(p, i)
      OBVIOUS
    <2>1. i - 1 \in 0 .. Len(p) - 1 /\ i - 1 + 1 = i /\ L + (i - 1) = L - 1 + i  BY <1>1
    <2> QED BY <1>9, <2>1
  <1>11. Sum(j) = Sum(iats) + Sum(p)
    <2>1. Len(p) \in 1 .. Len(p) /\ L - 1 + Len(p) = Len(j)  BY SMTT(30), <1>1, <1>4
    <2>2. Upto(j, Len(j)) = Sum(j) /\ Upto(p, Len(p)) = Sum(p)  BY <1>4, UptoRec
    <2> QED BY <1>10, <2>1, <2>2
  <1> QED BY <1>4, <1>5, <1>10, <1>11 DEF j, e, L

LEMMA SpreadStep ==
  ASSUME NEW iats, NEW counts, Spread(iats, counts), NEW n \in Nat, NEW p, MinuteOf_n(p, n)
  PROVE  Spread([iats EXCEPT ![Len(iats)] = @ + p[1]] \o Tail(p), Append(counts, n))
  <1> DEFINE j == [iats EXCEPT ![Len(iats)] = @ + p[1]] \o Tail(p)
             c == Append(counts, n)
             L == Len(iats)
             M == Len(counts)
  <1>0. /\ Unit \in Nat /\ iats \in Seq(Nat) /\ counts \in Seq(Nat) /\ p \in Seq(Nat)
        /\ L = Sum(counts) + 1 /\ Len(p) = n + 1 /\ Sum(p) = Unit /\ Sum(iats) = Unit * M
        /\ M \in Nat /\ L \in Nat
    BY TimeAssumption DEF Spread, MinuteOf_n
  <1>1. Sum(counts) \in Nat  BY <1>0, UptoNat
  <1>2. /\ j \in Seq(Nat) /\ Len(j) = L + n
        /\ \A k \in 0 .. L - 1 : Upto(j, k) = Upto(iats, k)
        /\ \A i \in 1 .. n + 1 : Upto(j, L - 1 + i) = Sum(iats) + Upto(p, i)
        /\ Sum(j) = Sum(iats) + Sum(p)
    <2>1. Len(iats) > 0 /\ Len(p) > 0  BY <1>0, <1>1
    <2>2. /\ j \in Seq(Nat) /\ Len(j) = Len(iats) + Len(p) - 1
          /\ \A k \in 0 .. Len(iats) - 1 : Upto(j, k) = Upto(iats, k)
          /\ \A i \in 1 .. Len(p) : Upto(j, Len(iats) - 1 + i) = Sum(iats) + Upto(p, i)
          /\ Sum(j) = Sum(iats) + Sum(p)
      BY <1>0, <2>1, UptoJoined
    <2> HIDE DEF j
    <2>3. Len(j) = L + n  BY <1>0, <2>2
    <2>4. Len(p) = n + 1  BY <1>0
    <2> QED BY <2>2, <2>3, <2>4
  <1>3. /\ c \in Seq(Nat) /\ Len(c) = M + 1
        /\ Sum(c) = Sum(counts) + n
        /\ \A m \in 0 .. M : Upto(c, m) = Upto(counts, m)
        /\ Upto(counts, M) = Sum(counts) /\ Upto(c, M + 1) = Sum(c)
    <2>1. c \in Seq(Nat) /\ Len(c) = M + 1  BY <1>0
    <2>2. Sum(c) = Sum(counts) + n /\ \A m \in 0 .. M : Upto(c, m) = Upto(counts, m)
      BY <1>0, SumAppend
    <2> HIDE DEF c
    <2>3. Upto(counts, M) = Sum(counts) /\ Upto(c, Len(c)) = Sum(c)  BY <1>0, <2>1, UptoRec
    <2> QED BY <2>1, <2>2, <2>3
  <1> HIDE DEF j, c, L, M
  <1>4. Len(j) = Sum(c) + 1  BY SMTT(30), <1>0, <1>1, <1>2, <1>3
  <1>5. Sum(j) = Unit * Len(c)  BY <1>0, <1>2, <1>3
  <1>6. ASSUME NEW k \in 1 .. Sum(c), NEW m, InMinute(c, k - 1, m)
        PROVE  m * Unit <= Upto(j, k) /\ Upto(j, k) <= (m + 1) * Unit
    <2>1. m \in 0 .. M /\ Upto(c, m) <= k - 1 /\ k - 1 < Upto(c, m + 1)  BY <1>6, <1>0, <1>3 DEF InMinute
    <2>2. CASE m = M
      <3>1. Sum(counts) <= k - 1 /\ k \in Int  BY <2>1, <2>2, <1>3, <1>0
      <3> DEFINE i == k - Sum(counts)
      <3>2. i \in 1 .. n + 1 /\ i \in 0 .. Len(p) /\ L - 1 + i = k
        <4>1. k \in Int /\ k <= Sum(counts) + n /\ Sum(counts) <= k - 1  BY <3>1, <1>3, <1>1
        <4>2. i \in Int /\ 1 <= i /\ i <= n  BY <4>1, <1>1
        <4>3. L - 1 + i = k  BY SMTT(30), <4>1, <1>0, <1>1
        <4> HIDE DEF i
        <4> QED BY <4>2, <4>3, <1>0
      <3>3. Upto(j, k) = Sum(iats) + Upto(p, i)  BY <3>2, <1>2
      <3>4. Upto(p, i) \in Nat /\ Upto(p, i) <= Upto(p, Len(p)) /\ Upto(p, Len(p)) = Sum(p)
        <4>1. Len(p) \in 0 .. Len(p) /\ i <= Len(p)  BY <3>2, <1>0
        <4> QED BY <3>2, <4>1, <1>0, UptoNat, UptoRec
      <3> HIDE DEF i
      <3>5. Upto(j, k) = Unit * M + Upto(p, i) /\ Upto(p, i) <= Unit /\ Upto(p, i) \in Nat
        BY <3>3, <3>4, <1>0
      <3>6. Unit * M \in Nat /\ m * Unit = Unit * M /\ (m + 1) * Unit = Unit * M + Unit
        BY <1>0, <2>2
      <3> QED BY <3>5, <3>6, <1>0
    <2>3. CASE m # M
      <3>1. m \in 0 .. M - 1 /\ m \in 0 .. M /\ m + 1 \in 0 .. M  BY <2>1, <2>3, <1>0
      <3>2. Upto(counts, m) <= k - 1 /\ k - 1 < Upto(counts, m + 1)  BY <2>1, <3>1, <1>3
      <3>3. InMinute(counts, k - 1, m)  BY <3>1, <3>2 DEF InMinute, M
      <3>4. k - 1 < Sum(counts)  BY <3>3, <1>0, MinuteBound
      <3>5. k \in 1 .. Sum(counts) /\ k \in 0 .. L - 1  BY <3>4, <1>0, <1>1
      <3>6. Upto(j, k) = Upto(iats, k)  BY <3>5, <1>2
      <3> QED BY <3>3, <3>5, <3>6 DEF Spread
    <2> QED BY <2>2, <2>3
  <1>7. Spread(j, c)  BY <1>2, <1>3, <1>4, <1>5, <1>6 DEF Spread
  <1> QED BY <1>7 DEF j, c

\* The pause after the last invocation is dropped.
LEMMA SpreadDropped ==
  ASSUME NEW iats, NEW counts, Spread(iats, counts)
  PROVE  /\ DropLast(iats) \in Seq(Nat) /\ Len(DropLast(iats)) = Sum(counts)
         /\ DueInMinute(DropLast(iats), counts, Unit)
  <1> DEFINE d == DropLast(iats)
  <1>0. iats \in Seq(Nat) /\ counts \in Seq(Nat) /\ Len(iats) = Sum(counts) + 1  BY DEF Spread
  <1>1. Sum(counts) \in Nat  BY <1>0, UptoNat
  <1>2. d \in Seq(Nat) /\ Len(d) = Sum(counts) /\ \A k \in 1 .. Len(d) : d[k] = iats[k]
    <2>1. d = SubSeq(iats, 1, Sum(counts)) /\ Sum(counts) <= Len(iats)  BY <1>0, <1>1 DEF DropLast
    <2> HIDE DEF d
    <2> QED BY <1>0, <1>1, <2>1
  <1> HIDE DEF d
  <1>3. ASSUME NEW k \in 1 .. Len(d) PROVE Upto(d, k) = Upto(iats, k)
    <2>1. k \in 0 .. Len(iats) /\ k <= Len(d) /\ \A i \in 1 .. k : d[i] = iats[i]  BY <1>0, <1>1, <1>2
    <2> QED BY <1>0, <1>2, <2>1, UptoExtend
  <1>4. DueInMinute(d, counts, Unit)  BY <1>2, <1>3 DEF DueInMinute, Spread
  <1> QED BY <1>2, <1>4 DEF d

-----------------------------------------------------------------------------
(***************************************************************************)
(* Requests per second                                                      *)
(***************************************************************************)
LEMMA Seconds == second \in Nat /\ second > 0 /\ minute \in Nat /\ minute > 0
  <1>1. Fraction \in Nat /\ Fraction > 0 /\ MicrosPerSecond \in Nat /\ MicrosPerSecond > 0
        /\ SecondsPerMinute \in Nat /\ SecondsPerMinute > 0
    BY TimeAssumption
  <1>2. second \in Nat /\ second > 0  BY <1>1 DEF second
  <1> QED BY <1>1, <1>2 DEF minute

\* What a division leaves.
LEMMA Quotient ==
  ASSUME NEW a \in Nat, NEW b \in Nat, b > 0
  PROVE  /\ a \div b \in Nat
         /\ (a \div b) * b <= a /\ a < (a \div b) * b + b
  OBVIOUS

LEMMA WholeQuotient ==
  ASSUME NEW a \in Nat, NEW b \in Nat, b > 0, a % b = 0
  PROVE  a = (a \div b) * b
  OBVIOUS

LEMMA QuotientAtLeast ==
  ASSUME NEW a \in Nat, NEW b \in Nat, b > 0, NEW q \in Nat, q * b <= a
  PROVE  q <= a \div b
  <1> DEFINE r == a \div b
  <1>1. r \in Nat /\ a < r * b + b  BY Quotient
  <1> HIDE DEF r
  <1>2. SUFFICES ASSUME q > r PROVE FALSE  BY <1>1 DEF r
  <1>3. r + 1 <= q /\ r + 1 \in Nat  BY <1>1, <1>2
  <1>4. (r + 1) * b <= q * b  BY <1>3, Products
  <1>5. (r + 1) * b = r * b + b  BY <1>1
  <1>6. r * b \in Nat /\ q * b \in Nat  BY <1>1
  <1> QED BY <1>1, <1>4, <1>5, <1>6

\* Rounding up: the least number of parts that is enough.
LEMMA RoundedUp ==
  ASSUME NEW a \in Nat, NEW b \in Nat, b > 0
  PROVE  /\ CeilDiv(a, b) \in Nat
         /\ a <= CeilDiv(a, b) * b /\ CeilDiv(a, b) * b < a + b
  <1> DEFINE c == a + b - 1
             q == c \div b
  <1>1. c \in Nat  OBVIOUS
  <1>2. q \in Nat /\ q * b <= c /\ c < q * b + b  BY <1>1, Quotient
  <1>3. CeilDiv(a, b) = q  BY DEF CeilDiv
  <1>4. q * b \in Nat  BY <1>2
  <1> HIDE DEF q
  <1> QED BY <1>2, <1>3, <1>4

\* When an invocation is due is the sum of the IATs up to it.
LEMMA TimestampIs ==
  ASSUME NEW S, NEW iats \in Seq(S)
  PROVE  \A k \in 0 .. Len(iats) : timestamp(iats)[k] = Upto(iats, k)
  <1> DEFINE t == CHOOSE f : f = [k \in 0 .. Len(iats) |-> IF k = 0 THEN 0 ELSE f[k - 1] + iats[k]]
  <1>1. timestamp(iats) = t  BY DEF timestamp
  <1>2. IsSum(t, iats)
    <2>1. Len(iats) \in Nat  OBVIOUS
    <2> QED BY <2>1, SumExists DEF IsSum
  <1> HIDE DEF t
  <1> QED BY <1>1, <1>2, SumOfPrefix DEF Upto

\* The counts of a function whose invocations are in range.
LEMMA RpsCounted ==
  ASSUME NEW D \in Nat, NEW iats \in Seq(Nat), InRange(D, iats)
  PROVE  LET counts == countNumberOfInvocationsPerMinute(D, iats) IN
         /\ counts \in Seq(Nat) /\ Sum(counts) = Len(iats)
         /\ \A k \in 1 .. Len(iats) :
              timestamp(iats)[k] \div minute \in Nat
              /\ InMinute(counts, k - 1, timestamp(iats)[k] \div minute)
         /\ DueInMinute(iats, counts, minute)
  <1> DEFINE counts == countNumberOfInvocationsPerMinute(D, iats)
             n == Len(iats)
             due == [k \in 1 .. n |-> Upto(iats, k) \div minute]
  <1>0. n \in Nat /\ minute \in Nat /\ minute > 0  BY Seconds
  <1>1. \A k \in 0 .. n : Upto(iats, k) \in Nat /\ timestamp(iats)[k] = Upto(iats, k)
    BY UptoNat, TimestampIs
  <1>2. \A k \in 1 .. n : timestamp(iats)[k] = Upto(iats, k) /\ Upto(iats, k) \in Nat
                          /\ due[k] = Upto(iats, k) \div minute
    BY <1>0, <1>1
  <1>3. \A k \in 1 .. n : due[k] \in Nat /\ due[k] * minute <= Upto(iats, k)
                          /\ Upto(iats, k) < due[k] * minute + minute
    <2> SUFFICES ASSUME NEW k \in 1 .. n
                 PROVE  due[k] \in Nat /\ due[k] * minute <= Upto(iats, k)
                          /\ Upto(iats, k) < due[k] * minute + minute
      OBVIOUS
    <2>1. Upto(iats, k) \in Nat /\ due[k] = Upto(iats, k) \div minute  BY <1>2
    <2> HIDE DEF due
    <2> QED BY <1>0, <2>1, Quotient
  <1>4. due \in [1 .. n -> Nat]  BY <1>3
  <1>5. counts = [m \in 1 .. D |-> Cardinality({k \in 1 .. n : due[k] = m - 1})]
    <2>1. counts = [m \in 1 .. D |-> Cardinality({k \in 1 .. n : timestamp(iats)[k] \div minute = m - 1})]
      BY DEF countNumberOfInvocationsPerMinute
    <2>2. \A m \in 1 .. D : {k \in 1 .. n : timestamp(iats)[k] \div minute = m - 1}
                            = {k \in 1 .. n : due[k] = m - 1}
      BY <1>2
    <2> HIDE DEF counts, due
    <2> QED BY <2>1, <2>2
  <1>6. \A m \in Int : Cardinality({k \in 1 .. n : due[k] = m - 1}) \in Nat
    <2>1. IsFiniteSet(1 .. n)  BY <1>0, FS_Interval
    <2> SUFFICES ASSUME NEW m \in Int PROVE Cardinality({k \in 1 .. n : due[k] = m - 1}) \in Nat
      OBVIOUS
    <2>2. {k \in 1 .. n : due[k] = m - 1} \subseteq 1 .. n  OBVIOUS
    <2> HIDE DEF due
    <2> QED BY <2>1, <2>2, FS_Subset, FS_CardinalityType
  <1>7. counts \in Seq(Nat) /\ Len(counts) = D
        /\ \A m \in 1 .. Len(counts) : counts[m] = Cardinality({k \in 1 .. n : due[k] = m - 1})
    <2> HIDE DEF counts, due
    <2> QED BY <1>5, <1>6
  <1>8. \A k \in 1 .. n : due[k] < Len(counts)
    <2> SUFFICES ASSUME NEW k \in 1 .. n PROVE due[k] < D  BY <1>7
    <2>1. Upto(iats, k) < D * minute  BY <1>2 DEF InRange
    <2>2. due[k] \in Nat /\ due[k] * minute <= Upto(iats, k) /\ Upto(iats, k) \in Nat  BY <1>2, <1>3
    <2> HIDE DEF due
    <2>3. SUFFICES ASSUME D <= due[k] PROVE FALSE  BY <2>2
    <2>4. D * minute <= due[k] * minute  BY <1>0, <2>2, <2>3, Products
    <2>5. D * minute \in Nat /\ due[k] * minute \in Nat  BY <1>0, <2>2
    <2> QED BY <2>1, <2>2, <2>4, <2>5
  <1>9. \A i, j \in 1 .. n : i <= j => due[i] <= due[j]
    <2> SUFFICES ASSUME NEW i \in 1 .. n, NEW j \in 1 .. n, i <= j PROVE due[i] <= due[j]
      OBVIOUS
    <2>1. Upto(iats, i) <= Upto(iats, j)
      <3>1. i \in 0 .. Len(iats) /\ j \in 0 .. Len(iats)  BY <1>0
      <3> QED BY <3>1, UptoNat
    <2>2. /\ due[i] \in Nat /\ due[i] * minute <= Upto(iats, i) /\ Upto(iats, i) \in Nat
          /\ Upto(iats, j) \in Nat /\ due[j] = Upto(iats, j) \div minute
      BY <1>2, <1>3
    <2>3. due[i] * minute <= Upto(iats, j)
      <3>1. due[i] * minute \in Nat  BY <1>0, <2>2
      <3> QED BY <2>1, <2>2, <3>1
    <2> HIDE DEF due
    <2> QED BY <1>0, <2>2, <2>3, QuotientAtLeast
  <1> HIDE DEF counts, due
  <1>10. Sum(counts) = n /\ \A k \in 1 .. n : InMinute(counts, k - 1, due[k])
    BY <1>0, <1>4, <1>7, <1>8, <1>9, CountedInMinute
  <1>11. DueInMinute(iats, counts, minute)
    <2> SUFFICES ASSUME NEW k \in 1 .. n, NEW m, InMinute(counts, k - 1, m)
                 PROVE  m * minute <= Upto(iats, k) /\ Upto(iats, k) <= (m + 1) * minute
      BY DEF DueInMinute
    <2>1. InMinute(counts, k - 1, due[k]) /\ k - 1 \in Int  BY <1>0, <1>10
    <2>2. m = due[k]  BY <1>7, <2>1, MinuteUnique
    <2>3. due[k] \in Nat /\ Upto(iats, k) \in Nat /\ due[k] * minute <= Upto(iats, k)
          /\ Upto(iats, k) < due[k] * minute + minute
      BY <1>2, <1>3
    <2>4. (due[k] + 1) * minute = due[k] * minute + minute /\ due[k] * minute \in Nat  BY SMTT(30), <1>0, <2>3
    <2> QED BY <1>0, <2>2, <2>3, <2>4
  <1>12. \A k \in 1 .. Len(iats) : timestamp(iats)[k] \div minute \in Nat
           /\ InMinute(counts, k - 1, timestamp(iats)[k] \div minute)
    <2> SUFFICES ASSUME NEW k \in 1 .. n
                 PROVE  timestamp(iats)[k] \div minute \in Nat
                        /\ InMinute(counts, k - 1, timestamp(iats)[k] \div minute)
      OBVIOUS
    <2>1. timestamp(iats)[k] \div minute = due[k]  BY <1>2 DEF due
    <2> QED BY <1>3, <1>10, <2>1
  <1> QED BY <1>7, <1>10, <1>11, <1>12 DEF counts

\* Equidistant invocations are all before the end.
LEMMA Equidistant ==
  ASSUME NEW D \in Nat, NEW iat \in Nat, iat > 0
  PROVE  LET iats == generateFunctionByRPS(D, iat) IN
         /\ iats \in Seq(Nat) /\ \A k \in 2 .. Len(iats) : iats[k] = iat
         /\ InRange(D, iats)
  <1> DEFINE n == CeilDiv(D * minute, iat)
             iats == generateFunctionByRPS(D, iat)
             all == D * minute
  <1>0. all \in Nat  BY Seconds
  <1>1. n \in Nat /\ n * iat < all + iat
    <2> HIDE DEF all
    <2>1. CeilDiv(all, iat) \in Nat /\ CeilDiv(all, iat) * iat < all + iat  BY <1>0, RoundedUp
    <2>2. n = CeilDiv(all, iat)  BY DEF all
    <2> QED BY <2>1, <2>2
  <1>2. iats = [k \in 1 .. n |-> IF k = 1 THEN 0 ELSE iat]  BY DEF generateFunctionByRPS
  <1> HIDE DEF n, iats, all
  <1>3. iats \in Seq(Nat) /\ Len(iats) = n /\ \A k \in 1 .. n : iats[k] = IF k = 1 THEN 0 ELSE iat
    BY <1>1, <1>2
  <1> DEFINE T == {k \in 0 .. n : k > 0 => Upto(iats, k) = (k - 1) * iat}
  <1>4. 0 \in T  BY <1>1
  <1>5. ASSUME NEW k \in 0 .. n - 1, k \in T PROVE k + 1 \in T
    <2>1. k \in 0 .. Len(iats) - 1 /\ k + 1 \in 1 .. n /\ k + 1 \in 0 .. n  BY <1>1, <1>3
    <2>2. Upto(iats, k + 1) = Upto(iats, k) + iats[k + 1]  BY <1>3, <2>1, UptoRec
    <2>3. CASE k = 0
      <3>1. Upto(iats, 0) = 0 /\ iats[1] = 0  BY <1>3, <2>1, <2>3, UptoRec
      <3> QED BY <2>1, <2>2, <2>3, <3>1
    <2>4. CASE k > 0
      <3>1. Upto(iats, k) = (k - 1) * iat  BY <1>5, <2>4
      <3>2. iats[k + 1] = iat  BY <1>3, <2>1, <2>4
      <3>3. (k - 1) * iat + iat = k * iat /\ k + 1 - 1 = k  OBVIOUS
      <3>4. Upto(iats, k + 1) = (k + 1 - 1) * iat  BY <2>2, <3>1, <3>2, <3>3
      <3> QED BY <2>1, <3>4
    <2> QED BY <1>1, <2>3, <2>4
  <1>6. \A k \in 0 .. n : k \in T
    <2>1. 0 \in T /\ \A k \in 0 .. n - 1 : k \in T => k + 1 \in T  BY <1>4, <1>5
    <2> HIDE DEF T
    <2> QED BY <1>1, <2>1, InductionTo
  <1>7. ASSUME NEW k \in 1 .. n PROVE timestamp(iats)[k] < all
    <2>1. k \in 0 .. n /\ k > 0 /\ k \in 0 .. Len(iats)  BY <1>1, <1>3
    <2>2. timestamp(iats)[k] = Upto(iats, k)  BY <1>3, <2>1, TimestampIs
    <2>3. Upto(iats, k) = (k - 1) * iat  BY <1>6, <2>1
    <2>4. (k - 1) * iat <= (n - 1) * iat
      <3>1. k - 1 \in Nat /\ n - 1 \in Nat /\ k - 1 <= n - 1  BY <1>1
      <3> QED BY <3>1, Products
    <2>5. (n - 1) * iat = n * iat - iat /\ n * iat \in Nat /\ (n - 1) * iat \in Int /\ (k - 1) * iat \in Int
      BY <1>1
    <2> QED BY <1>0, <1>1, <2>2, <2>3, <2>4, <2>5
  <1>8. InRange(D, iats)  BY <1>3, <1>7 DEF InRange, all
  <1>9. \A k \in 2 .. Len(iats) : iats[k] = iat  BY <1>1, <1>3
  <1> QED BY <1>3, <1>8, <1>9 DEF iats

Rates == {r \in [num : Nat, den : Nat \ {0}] : r.num > 0 /\ (second * r.den) % r.num = 0}

LEMMA IatOf ==
  ASSUME NEW r \in Rates
  PROVE  iatOf(r) \in Nat /\ iatOf(r) > 0
  <1> DEFINE x == second * r.den
  <1>1. r.num \in Nat /\ r.num > 0 /\ r.den \in Nat /\ r.den > 0 /\ x % r.num = 0  BY DEF Rates
  <1>2. x \in Nat /\ x > 0
    <2>1. second \in Nat /\ second > 0  BY Seconds
    <2> QED BY <1>1, <2>1
  <1>3. iatOf(r) = x \div r.num  BY DEF iatOf
  <1> HIDE DEF x
  <1>4. x = (x \div r.num) * r.num /\ x \div r.num \in Nat  BY <1>1, <1>2, Quotient, WholeQuotient
  <1> QED BY <1>1, <1>2, <1>3, <1>4

\* A cold function has cooled down when it is invoked again.
LEMMA ColdIat ==
  ASSUME NEW r \in Rates, NEW cooldown \in Nat, cooldown > 0
  PROVE  /\ coldIAT(r, cooldown) \in Nat /\ coldIAT(r, cooldown) > 0
         /\ coldIAT(r, cooldown) >= cooldown * second
  <1> DEFINE least == cooldown * second
  <1>1. r.num \in Nat /\ r.num > 0 /\ r.den \in Nat /\ r.den > 0  BY DEF Rates
  <1>2. least \in Nat /\ least > 0 /\ second \in Nat /\ second > 0
    <2>1. second \in Nat /\ second > 0  BY Seconds
    <2> QED BY <2>1
  <1>3. CASE AtLeastOne(r)
    <2>1. coldIAT(r, cooldown) = least  BY <1>3 DEF coldIAT
    <2> HIDE DEF least
    <2> QED BY <1>2, <2>1 DEF least
  <1>4. CASE ~AtLeastOne(r)
    <2> DEFINE t == totalFunctions(r, cooldown)
               a == r.num * cooldown
    <2>1. a \in Nat  BY <1>1
    <2>2. t \in Nat /\ a <= t * r.den
      <3>1. t = CeilDiv(a, r.den)  BY DEF totalFunctions
      <3> HIDE DEF t, a
      <3> QED BY <1>1, <2>1, <3>1, RoundedUp
    <2>3. coldIAT(r, cooldown) = (t * r.den * second) \div r.num  BY <1>4 DEF coldIAT
    <2> HIDE DEF t
    <2> DEFINE b == t * r.den
    <2>4. b \in Nat  BY <1>1, <2>2
    <2>5. a * second <= b * second /\ a * second \in Nat /\ b * second \in Nat
      <3>1. a <= b  BY <2>2
      <3> HIDE DEF a, b
      <3> QED BY <1>2, <2>1, <2>4, <3>1, Products
    <2>6. least * r.num = a * second
      <3>1. cooldown * second * r.num = r.num * cooldown * second  BY <1>1, <1>2
      <3> QED BY <3>1
    <2>7. least <= (b * second) \div r.num /\ (b * second) \div r.num \in Nat
      <3> HIDE DEF least, a, b
      <3> DEFINE c == b * second
      <3>1. c \in Nat /\ least * r.num <= c  BY <2>5, <2>6
      <3> HIDE DEF c
      <3>2. least <= c \div r.num /\ c \div r.num \in Nat  BY <1>1, <1>2, <3>1, QuotientAtLeast, Quotient
      <3> QED BY <3>2 DEF c
    <2>8. coldIAT(r, cooldown) = (b * second) \div r.num  BY <2>3
    <2> HIDE DEF least, b
    <2> QED BY <1>2, <2>7, <2>8 DEF least
  <1> QED BY <1>3, <1>4

ColdOffset(r, i) == offsetWithinBatch(r, i) + offsetBetweenFunctions(r, i)

LEMMA Cancelled ==
  ASSUME NEW a \in Int, NEW b \in Int, NEW c \in Nat, a * c < b * c
  PROVE  a < b
  OBVIOUS

LEMMA CancelledWeakly ==
  ASSUME NEW a \in Int, NEW b \in Int, NEW c \in Nat, c > 0, a * c <= b * c
  PROVE  a <= b
  <1> SUFFICES ASSUME b < a PROVE FALSE  OBVIOUS
  <1>1. b + 1 <= a  OBVIOUS
  <1>2. (a - (b + 1)) * c >= 0  BY <1>1
  <1>3. (a - (b + 1)) * c = a * c - b * c - c  OBVIOUS
  <1>4. a * c \in Int /\ b * c \in Int  OBVIOUS
  <1> QED BY <1>2, <1>3, <1>4

\* The rates of a configuration divide a second into whole units.
LEMMA WholeIat ==
  ASSUME NEW r \in Rates
  PROVE  iatOf(r) * r.num = second * r.den
  <1> DEFINE x == second * r.den
  <1>1. r.num \in Nat /\ r.num > 0 /\ r.den \in Nat /\ x % r.num = 0  BY DEF Rates
  <1>2. x \in Nat  BY <1>1, Seconds
  <1>3. iatOf(r) = x \div r.num  BY DEF iatOf
  <1> HIDE DEF x
  <1>4. x = (x \div r.num) * r.num  BY <1>1, <1>2, WholeQuotient
  <1> QED BY <1>3, <1>4 DEF x

\* The functions of a batch are invoked within a second.
LEMMA WithinBatch ==
  ASSUME NEW r \in Rates, NEW i \in Nat
  PROVE  offsetWithinBatch(r, i) \in 0 .. second - 1
  <1>1. r.num \in Nat /\ r.num > 0 /\ r.den \in Nat /\ r.den > 0  BY DEF Rates
  <1>2. /\ second \in Nat /\ second > 0 /\ iatOf(r) \in Nat /\ iatOf(r) > 0
        /\ Fraction \in Nat /\ Fraction > 0
    BY Seconds, IatOf, TimeAssumption
  <1>3. CASE ~AtLeastOne(r)
    <2>1. offsetWithinBatch(r, i) = 0  BY <1>3 DEF offsetWithinBatch
    <2> QED BY <1>2, <2>1
  <1>4. CASE AtLeastOne(r)
    <2> DEFINE q == r.num \div r.den
               j == i % q
               x == j * iatOf(r)
               y == (x \div Fraction) * Fraction
    <2>1. q \in Nat /\ q > 0 /\ q * r.den <= r.num
      <3>1. 1 * r.den <= r.num  BY <1>1, <1>4 DEF AtLeastOne
      <3>2. 1 <= q /\ q \in Nat /\ q * r.den <= r.num  BY <1>1, <3>1, QuotientAtLeast, Quotient
      <3> HIDE DEF q
      <3> QED BY <3>2
    <2>2. offsetWithinBatch(r, i) = y  BY <1>4 DEF offsetWithinBatch, WholeMicros
    <2> HIDE DEF q
    <2>3. j \in Nat /\ j + 1 <= q  BY <2>1
    <2> HIDE DEF j
    <2>4. q * iatOf(r) <= second
      <3> DEFINE t == iatOf(r)
                 s == second
                 p == q * r.den
      <3>1. t * r.num = s * r.den  BY WholeIat
      <3>2. s \in Nat /\ t \in Nat /\ p \in Nat /\ p <= r.num  BY <1>1, <1>2, <2>1
      <3> HIDE DEF t, s
      <3>3. (q * t) * r.num = p * s
        <4>1. (q * t) * r.num = q * (t * r.num)  BY <1>1, <2>1, <3>2
        <4>2. q * (s * r.den) = (q * r.den) * s  BY <1>1, <2>1, <3>2
        <4> QED BY <3>1, <4>1, <4>2
      <3> HIDE DEF p
      <3>4. p * s <= r.num * s  BY <1>1, <3>2, Products
      <3>5. r.num * s = s * r.num  BY <1>1, <3>2
      <3>6. (q * t) * r.num <= s * r.num  BY <3>3, <3>4, <3>5
      <3>7. q * t \in Int  BY <2>1, <3>2
      <3>8. q * t <= s
        <4> DEFINE a == q * t
        <4> HIDE DEF a
        <4>1. a * r.num <= s * r.num /\ a \in Int  BY <3>6, <3>7 DEF a
        <4>2. a <= s  BY <1>1, <3>2, <4>1, CancelledWeakly
        <4> QED BY <4>2 DEF a
      <3> QED BY <3>8 DEF t, s
    <2>5. x \in Nat /\ x + iatOf(r) <= second
      <3>1. (j + 1) * iatOf(r) <= q * iatOf(r) /\ q * iatOf(r) \in Nat  BY <1>2, <2>1, <2>3, Products
      <3>2. (j + 1) * iatOf(r) = j * iatOf(r) + iatOf(r) /\ j * iatOf(r) \in Nat  BY <1>2, <2>3
      <3> QED BY <1>2, <2>4, <3>1, <3>2
    <2> HIDE DEF x
    <2>6. y \in Nat /\ y <= x
      <3>1. x \div Fraction \in Nat /\ (x \div Fraction) * Fraction <= x  BY <1>2, <2>5, Quotient
      <3> QED BY <1>2, <3>1
    <2> HIDE DEF y
    <2> QED BY <1>2, <2>2, <2>5, <2>6
  <1> QED BY <1>3, <1>4

\* Where the batches start.
LEMMA BetweenFunctions ==
  ASSUME NEW r \in Rates, NEW i \in Nat
  PROVE  LET b == (i * r.den) \div r.num IN
         b \in Nat /\ b * r.num <= i * r.den /\ offsetBetweenFunctions(r, i) = b * second
  <1> DEFINE x == i * r.den
  <1>1. r.num \in Nat /\ r.num > 0 /\ r.den \in Nat /\ r.den > 0  BY DEF Rates
  <1>2. x \in Nat  BY <1>1
  <1>3. offsetBetweenFunctions(r, i) = (x \div r.num) * second  BY DEF offsetBetweenFunctions
  <1> HIDE DEF x
  <1>4. x \div r.num \in Nat /\ (x \div r.num) * r.num <= x  BY <1>1, <1>2, Quotient
  <1> QED BY <1>3, <1>4 DEF x

LEMMA OffsetIs ==
  ASSUME NEW r \in Rates, NEW i \in Nat
  PROVE  ColdOffset(r, i) \in Nat
  <1> DEFINE b == (i * r.den) \div r.num
  <1>1. b \in Nat /\ offsetBetweenFunctions(r, i) = b * second  BY BetweenFunctions
  <1> HIDE DEF b
  <1>2. second \in Nat  BY Seconds
  <1>3. b * second \in Nat  BY <1>1, <1>2
  <1> QED BY <1>1, <1>2, <1>3, WithinBatch DEF ColdOffset

LEMMA ColdFunction ==
  ASSUME NEW D \in Nat, NEW r \in Rates, NEW cooldown \in Nat, cooldown > 0, NEW i \in Nat
  PROVE  LET iats == coldStartFunction(D, r, cooldown, i) IN
         /\ iats \in Seq(Nat)
         /\ \A k \in 2 .. Len(iats) : iats[k] >= cooldown * second
  <1> DEFINE c == coldIAT(r, cooldown)
             iats == generateFunctionByRPS(D, c)
             offset == offsetWithinBatch(r, i) + offsetBetweenFunctions(r, i)
             shifted == coldStartFunction(D, r, cooldown, i)
  <1>1. c \in Nat /\ c > 0 /\ c >= cooldown * second  BY ColdIat
  <1>2. shifted = [iats EXCEPT ![1] = @ + offset]  BY DEF coldStartFunction
  <1>3. iats \in Seq(Nat) /\ \A k \in 2 .. Len(iats) : iats[k] = c
    <2> HIDE DEF c
    <2> QED BY <1>1, Equidistant
  <1>4. offset \in Nat  BY OffsetIs DEF ColdOffset
  <1> HIDE DEF iats, offset, c, shifted
  <1>5. shifted \in Seq(Nat) /\ Len(shifted) = Len(iats) /\ \A k \in 2 .. Len(iats) : shifted[k] = iats[k]
    <2>0. DOMAIN iats = 1 .. Len(iats)  BY <1>3
    <2>1. shifted = [k \in 1 .. Len(iats) |-> IF k = 1 THEN iats[1] + offset ELSE iats[k]]
      BY ONLY <1>2, <2>0
    <2>2. \A k \in 1 .. Len(iats) : (IF k = 1 THEN iats[1] + offset ELSE iats[k]) \in Nat
      BY <1>3, <1>4
    <2> QED BY <1>3, <2>1, <2>2
  <1>6. \A k \in 2 .. Len(shifted) : shifted[k] >= cooldown * second  BY <1>1, <1>3, <1>5
  <1> QED BY <1>5, <1>6 DEF shifted

\* All functions have been invoked once before the first is invoked again.
LEMMA OffsetInPeriod ==
  ASSUME NEW r \in Rates, NEW cooldown \in Nat, cooldown > 0, NEW i \in Nat,
         i < totalFunctions(r, cooldown)
  PROVE  ColdOffset(r, i) < coldIAT(r, cooldown)
  <1> DEFINE b == (i * r.den) \div r.num
             t == totalFunctions(r, cooldown)
             a == r.num * cooldown
             s == second
             o == offsetWithinBatch(r, i)
             id == i * r.den
             td == t * r.den
  <1>1. r.num \in Nat /\ r.num > 0 /\ r.den \in Nat /\ r.den > 0  BY DEF Rates
  <1>2. s \in Nat /\ s > 0 /\ a \in Nat  BY <1>1, Seconds
  <1>3. b \in Nat /\ b * r.num <= id /\ ColdOffset(r, i) = o + b * s
    BY BetweenFunctions DEF ColdOffset
  <1>4. t \in Nat /\ td < a + r.den
    <2>1. t = CeilDiv(a, r.den)  BY DEF totalFunctions
    <2> HIDE DEF t, a
    <2> QED BY <1>1, <1>2, <2>1, RoundedUp
  <1>5. o \in 0 .. s - 1  BY WithinBatch
  <1>6. i + 1 <= t  BY <1>4
  <1> HIDE DEF b, t, o, s
  <1>7. id \in Nat /\ td \in Nat /\ id + r.den <= td
    <2>1. (i + 1) * r.den <= t * r.den /\ t * r.den \in Nat  BY <1>1, <1>4, <1>6, Products
    <2>2. (i + 1) * r.den = i * r.den + r.den /\ i * r.den \in Nat  BY <1>1
    <2> QED BY <2>1, <2>2
  <1> HIDE DEF id, td
  <1>8. CASE AtLeastOne(r)
    <2>1. coldIAT(r, cooldown) = cooldown * s  BY <1>8 DEF coldIAT, s
    <2>2. b < cooldown
      <3> DEFINE bn == b * r.num
      <3>1. bn <= id /\ bn \in Nat  BY <1>1, <1>3
      <3> HIDE DEF bn, a
      <3>2. bn < a  BY <1>1, <1>2, <1>4, <1>7, <3>1
      <3>3. a = cooldown * r.num  BY <1>1 DEF a
      <3>4. b * r.num < cooldown * r.num  BY <3>2, <3>3 DEF bn
      <3> QED BY <1>1, <1>3, <3>4, Cancelled
    <2>3. (b + 1) * s <= cooldown * s /\ cooldown * s \in Nat
      <3>1. b + 1 <= cooldown /\ b + 1 \in Nat  BY <1>3, <2>2
      <3> QED BY <1>2, <3>1, Products
    <2>4. (b + 1) * s = b * s + s /\ b * s \in Nat  BY <1>2, <1>3
    <2> QED BY <1>2, <1>3, <1>5, <2>1, <2>3, <2>4
  <1>9. CASE ~AtLeastOne(r)
    <2> DEFINE c == t * iatOf(r)
    <2>1. o = 0  BY <1>9 DEF offsetWithinBatch, o
    <2>2. iatOf(r) \in Nat /\ iatOf(r) * r.num = s * r.den  BY IatOf, WholeIat DEF s
    <2>3. c \in Nat /\ c * r.num = td * s
      <3>1. (t * iatOf(r)) * r.num = t * (iatOf(r) * r.num)  BY <1>1, <1>4, <2>2
      <3>2. t * (s * r.den) = (t * r.den) * s  BY <1>1, <1>2, <1>4
      <3>3. t * iatOf(r) \in Nat  BY <1>4, <2>2
      <3> QED BY <2>2, <3>1, <3>2, <3>3 DEF td
    <2> HIDE DEF c
    <2>4. coldIAT(r, cooldown) = (td * s) \div r.num  BY <1>9 DEF coldIAT, t, td, s
    <2>5. coldIAT(r, cooldown) = c
      <3>1. (c * r.num) \div r.num = c  BY <1>1, <2>3
      <3> QED BY <2>3, <2>4, <3>1
    <2>6. (b * s) * r.num < c * r.num
      <3>1. (b * s) * r.num = (b * r.num) * s  BY <1>1, <1>2, <1>3
      <3>2. (b * r.num) * s <= id * s /\ id * s \in Nat /\ (b * r.num) * s \in Nat
        <4> DEFINE bn == b * r.num
        <4>1. bn \in Nat /\ bn <= id  BY <1>1, <1>3
        <4> HIDE DEF bn
        <4>2. bn * s <= id * s /\ id * s \in Nat /\ bn * s \in Nat  BY <1>2, <1>7, <4>1, Products
        <4> QED BY <4>2 DEF bn
      <3>3. (id + 1) * s <= td * s /\ td * s \in Nat
        <4>1. id + 1 <= td /\ id + 1 \in Nat  BY <1>1, <1>7
        <4> QED BY <1>2, <1>7, <4>1, Products
      <3>4. (id + 1) * s = id * s + s  BY <1>2, <1>7
      <3> QED BY <1>2, <2>3, <3>1, <3>2, <3>3, <3>4
    <2>7. b * s \in Int  BY <1>2, <1>3
    <2>8. b * s < c
      <3> DEFINE x == b * s
      <3> HIDE DEF x
      <3>1. x * r.num < c * r.num /\ x \in Int  BY <2>6, <2>7 DEF x
      <3>2. x < c  BY <1>1, <2>3, <3>1, Cancelled
      <3> QED BY <3>2 DEF x
    <2> QED BY <1>3, <2>1, <2>5, <2>7, <2>8
  <1> QED BY <1>8, <1>9

\* When the invocations of a cold function are due.
LEMMA ColdTimes ==
  ASSUME NEW D \in Nat, NEW r \in Rates, NEW cooldown \in Nat, cooldown > 0, NEW i \in Nat
  PROVE  LET iats == coldStartFunction(D, r, cooldown, i)
             c == coldIAT(r, cooldown)
         IN  /\ Len(iats) = CeilDiv(D * minute, c)
             /\ \A k \in 1 .. Len(iats) : timestamp(iats)[k] = ColdOffset(r, i) + (k - 1) * c
  <1> DEFINE c == coldIAT(r, cooldown)
             n == CeilDiv(D * minute, c)
             offset == ColdOffset(r, i)
             base == generateFunctionByRPS(D, c)
             iats == coldStartFunction(D, r, cooldown, i)
             all == D * minute
  <1>1. c \in Nat /\ c > 0 /\ offset \in Nat  BY ColdIat, OffsetIs
  <1>2. iats = [base EXCEPT ![1] = @ + offset]  BY DEF coldStartFunction, ColdOffset
  <1>3. base = [k \in 1 .. n |-> IF k = 1 THEN 0 ELSE c]  BY DEF generateFunctionByRPS
  <1>4. n \in Nat
    <2>1. all \in Nat  BY Seconds
    <2> HIDE DEF all, c
    <2>2. CeilDiv(all, c) \in Nat  BY <1>1, <2>1, RoundedUp
    <2> QED BY <2>2 DEF all
  <1>5. iats \in Seq(Nat)  BY ColdFunction
  <1> HIDE DEF c, n, offset, base, iats
  <1>6. iats = [k \in 1 .. n |-> IF k = 1 THEN offset ELSE c]
    <2>1. \A k \in 1 .. n : base[k] = IF k = 1 THEN 0 ELSE c  BY <1>3
    <2>2. DOMAIN base = 1 .. n  BY <1>3
    <2>3. iats = [k \in 1 .. n |-> IF k = 1 THEN base[1] + offset ELSE base[k]]  BY ONLY <1>2, <2>2
    <2>4. \A k \in 1 .. n : (IF k = 1 THEN base[1] + offset ELSE base[k]) = IF k = 1 THEN offset ELSE c
      BY <1>1, <2>1
    <2> QED BY <2>3, <2>4
  <1>7. Len(iats) = n /\ \A k \in 1 .. n : iats[k] = IF k = 1 THEN offset ELSE c  BY <1>4, <1>6
  <1> DEFINE T == {k \in 0 .. n : k > 0 => Upto(iats, k) = offset + (k - 1) * c}
  <1>8. 0 \in T  BY <1>4
  <1>9. ASSUME NEW k \in 0 .. n - 1, k \in T PROVE k + 1 \in T
    <2>1. k \in 0 .. Len(iats) - 1 /\ k + 1 \in 1 .. n /\ k + 1 \in 0 .. n  BY <1>4, <1>7
    <2>2. Upto(iats, k + 1) = Upto(iats, k) + iats[k + 1]  BY <1>5, <2>1, UptoRec
    <2>3. CASE k = 0
      <3>1. Upto(iats, 0) = 0 /\ iats[1] = offset  BY <1>5, <1>7, <2>1, <2>3, UptoRec
      <3>2. Upto(iats, k + 1) = offset + (k + 1 - 1) * c  BY <1>1, <2>2, <2>3, <3>1
      <3> QED BY <2>1, <3>2
    <2>4. CASE k > 0
      <3>1. Upto(iats, k) = offset + (k - 1) * c  BY <1>9, <2>4
      <3>2. iats[k + 1] = c  BY <1>7, <2>1, <2>4
      <3>3. (k - 1) * c + c = k * c /\ k + 1 - 1 = k /\ (k - 1) * c \in Int  BY <1>1
      <3>4. Upto(iats, k + 1) = offset + (k + 1 - 1) * c  BY <1>1, <2>2, <3>1, <3>2, <3>3
      <3> QED BY <2>1, <3>4
    <2> QED BY <1>4, <2>3, <2>4
  <1>10. \A k \in 0 .. n : k \in T
    <2>1. 0 \in T /\ \A k \in 0 .. n - 1 : k \in T => k + 1 \in T  BY <1>8, <1>9
    <2> HIDE DEF T
    <2> QED BY <1>4, <2>1, InductionTo
  <1>11. ASSUME NEW k \in 1 .. n PROVE timestamp(iats)[k] = offset + (k - 1) * c
    <2>1. k \in 0 .. n /\ k > 0 /\ k \in 0 .. Len(iats)  BY <1>4, <1>7
    <2>2. timestamp(iats)[k] = Upto(iats, k)  BY <1>5, <2>1, TimestampIs
    <2> QED BY <1>10, <2>1, <2>2
  <1>12. \A k \in 1 .. Len(iats) : timestamp(iats)[k] = offset + (k - 1) * c  BY <1>7, <1>11
  <1> QED BY <1>7, <1>12 DEF c, n, offset, iats

\* Rounding up a whole quotient.
LEMMA RoundedExactly ==
  ASSUME NEW a \in Nat, NEW b \in Nat, b > 0, a % b = 0
  PROVE  CeilDiv(a, b) \in Nat /\ CeilDiv(a, b) * b = a
  <1> DEFINE q == a \div b
             n == CeilDiv(a, b)
  <1>1. q \in Nat /\ a = q * b  BY Quotient, WholeQuotient
  <1>2. n \in Nat /\ a <= n * b /\ n * b < a + b  BY RoundedUp
  <1> HIDE DEF q, n
  <1>3. q <= n  BY <1>1, <1>2, CancelledWeakly
  <1>4. n < q + 1
    <2>1. (q + 1) * b = q * b + b /\ q * b \in Nat /\ n * b \in Nat  BY <1>1, <1>2
    <2>2. n * b < (q + 1) * b  BY <1>1, <1>2, <2>1
    <2>3. q + 1 \in Int  BY <1>1
    <2> QED BY <1>2, <2>2, <2>3, Cancelled
  <1>5. n = q  BY <1>1, <1>2, <1>3, <1>4
  <1> QED BY <1>1, <1>5 DEF n

\* If the period divides the duration, no invocation is after the last minute.
LEMMA ColdInRange ==
  ASSUME NEW D \in Nat, NEW r \in Rates, NEW cooldown \in Nat, cooldown > 0, NEW i \in Nat,
         i < totalFunctions(r, cooldown), (D * minute) % coldIAT(r, cooldown) = 0
  PROVE  InRange(D, coldStartFunction(D, r, cooldown, i))
  <1> DEFINE c == coldIAT(r, cooldown)
             n == CeilDiv(D * minute, c)
             offset == ColdOffset(r, i)
             iats == coldStartFunction(D, r, cooldown, i)
             all == D * minute
  <1>1. c \in Nat /\ c > 0 /\ offset \in Nat /\ offset < c  BY ColdIat, OffsetIs, OffsetInPeriod
  <1>2. all \in Nat /\ all % c = 0  BY Seconds
  <1>3. n \in Nat /\ n * c = all
    <2> HIDE DEF all, c
    <2>1. CeilDiv(all, c) \in Nat /\ CeilDiv(all, c) * c = all  BY <1>1, <1>2, RoundedExactly
    <2> QED BY <2>1 DEF all
  <1>4. Len(iats) = n /\ \A k \in 1 .. n : timestamp(iats)[k] = offset + (k - 1) * c  BY ColdTimes
  <1> HIDE DEF c, n, offset, iats, all
  <1>5. ASSUME NEW k \in 1 .. n PROVE timestamp(iats)[k] < all
    <2>1. k \in Nat /\ k <= n  BY <1>3
    <2>2. k * c <= n * c /\ k * c \in Nat /\ n * c \in Nat  BY <1>1, <1>3, <2>1, Products
    <2>3. (k - 1) * c = k * c - c  BY <1>1
    <2>4. timestamp(iats)[k] = offset + (k - 1) * c  BY <1>4
    <2> QED BY <1>1, <1>3, <2>2, <2>3, <2>4
  <1> QED BY <1>4, <1>5 DEF InRange, iats, all

LEMMA QuotientIs ==
  ASSUME NEW a \in Nat, NEW b \in Nat, b > 0, NEW q \in Nat, NEW o \in 0 .. b - 1, a = o + q * b
  PROVE  a \div b = q
  <1> DEFINE u == a \div b
             z == q * b
  <1>1. z \in Nat /\ a = o + z  OBVIOUS
  <1>2. u \in Nat /\ u * b <= a /\ a < u * b + b  BY Quotient
  <1>3. q <= u
    <2> HIDE DEF u
    <2>1. q * b <= a  BY <1>1
    <2> QED BY <2>1, QuotientAtLeast DEF u
  <1>4. u < q + 1
    <2>1. (q + 1) * b = q * b + b  OBVIOUS
    <2> HIDE DEF u, z
    <2>2. u * b \in Nat  BY <1>2
    <2>3. u * b < z + b  BY <1>1, <1>2, <2>2
    <2>4. u * b < (q + 1) * b  BY <2>1, <2>3 DEF z
    <2> QED BY <1>2, <2>4, Cancelled
  <1> HIDE DEF u
  <1>5. u = q  BY <1>2, <1>3, <1>4
  <1> QED BY <1>5 DEF u

\* The second of an invocation, if a whole number of functions start in each second.
LEMMA ColdSecond ==
  ASSUME NEW r \in Rates, r.den = 1, NEW cooldown \in Nat, cooldown > 0, NEW i \in Nat, NEW k \in Nat
  PROVE  /\ coldIAT(r, cooldown) = cooldown * second
         /\ i \div r.num \in Nat
         /\ (ColdOffset(r, i) + k * coldIAT(r, cooldown)) \div second = i \div r.num + k * cooldown
  <1> DEFINE b == i \div r.num
             o == offsetWithinBatch(r, i)
             s == second
             q == b + k * cooldown
             t == ColdOffset(r, i) + k * coldIAT(r, cooldown)
  <1>1. r.num \in Nat /\ r.num > 0  BY DEF Rates
  <1>2. coldIAT(r, cooldown) = cooldown * s  BY <1>1 DEF coldIAT, AtLeastOne
  <1>3. s \in Nat /\ s > 0 /\ o \in 0 .. s - 1  BY Seconds, WithinBatch
  <1>4. i * r.den = i  OBVIOUS
  <1>5. b \in Nat /\ ColdOffset(r, i) = o + b * s  BY <1>4, BetweenFunctions DEF ColdOffset
  <1> HIDE DEF b, o, s
  <1>6. q \in Nat  BY <1>5
  <1>7. t = o + q * s
    <2>1. k * (cooldown * s) = (k * cooldown) * s  BY <1>3
    <2>2. (b + k * cooldown) * s = b * s + (k * cooldown) * s  BY <1>3, <1>5
    <2>3. b * s \in Int /\ (k * cooldown) * s \in Int  BY <1>3, <1>5
    <2> QED BY <1>2, <1>3, <1>5, <2>1, <2>2, <2>3
  <1> HIDE DEF q, t
  <1>8. t \div s = q
    <2>1. t \in Nat  BY <1>3, <1>6, <1>7
    <2> QED BY <1>3, <1>6, <1>7, <2>1, QuotientIs
  <1> QED BY <1>2, <1>5, <1>8 DEF b, q, t, s

\* ColdInSecond, of any functions of which all but the first are cold.
ColdIn(fs, s) ==
  {p \in UNION {{<<j, n>> : n \in 1 .. Len(fs[j].IAT)} : j \in 2 .. Len(fs)} :
     timestamp(fs[p[1]].IAT)[p[2]] \div second = s}

\* In every second as many functions are invoked as the rate says: with the periods and
\* the functions numbered from 0, those of batch s % cooldown in period s \div cooldown.
LEMMA ColdStartsPerSecond ==
  ASSUME NEW fs, Len(fs) \in Nat, NEW D \in Nat, NEW r \in Rates, r.den = 1,
         NEW cooldown \in Nat, cooldown > 0, (D * minute) % coldIAT(r, cooldown) = 0,
         Len(fs) - 1 = totalFunctions(r, cooldown),
         \A j \in 2 .. Len(fs) : fs[j].IAT = coldStartFunction(D, r, cooldown, j - 2),
         NEW s \in 0 .. D * SecondsPerMinute - 1
  PROVE  Cardinality(ColdIn(fs, s)) = r.num
  <1> DEFINE S == {p \in UNION {{<<j, n>> : n \in 1 .. Len(fs[j].IAT)} : j \in 2 .. Len(fs)} :
                     timestamp(fs[p[1]].IAT)[p[2]] \div second = s}
             c == coldIAT(r, cooldown)
             N == CeilDiv(D * minute, c)
             w == r.num
             u == s \div cooldown
             v == s - u * cooldown
             base == v * w
  <1>1. w \in Nat /\ w > 0  BY DEF Rates
  <1>2. /\ second \in Nat /\ second > 0 /\ minute \in Nat /\ D * minute \in Nat
        /\ SecondsPerMinute \in Nat /\ minute = SecondsPerMinute * second
    BY Seconds, TimeAssumption DEF minute
  <1>3. c \in Nat /\ c > 0 /\ c = cooldown * second
    <2>1. 0 \in Nat  OBVIOUS
    <2> QED BY <2>1, ColdIat, ColdSecond
  <1>4. N \in Nat /\ N * c = D * minute
    <2> DEFINE all == D * minute
    <2>1. all \in Nat /\ all % c = 0  BY <1>2
    <2> HIDE DEF all, c
    <2>2. CeilDiv(all, c) \in Nat /\ CeilDiv(all, c) * c = all  BY <1>3, <2>1, RoundedExactly
    <2> QED BY <2>2 DEF all
  <1>5. Len(fs) = w * cooldown + 1
    <2>1. totalFunctions(r, cooldown) = CeilDiv(w * cooldown, 1)  BY DEF totalFunctions
    <2>2. w * cooldown \in Nat  BY <1>1
    <2>3. CeilDiv(w * cooldown, 1) = w * cooldown
      <3> DEFINE a == w * cooldown
      <3> HIDE DEF a
      <3>1. a \in Nat  BY <2>2 DEF a
      <3>2. CeilDiv(a, 1) = a  BY <3>1 DEF CeilDiv
      <3> QED BY <3>2 DEF a
    <2> QED BY <2>1, <2>2, <2>3
  <1>6. ASSUME NEW j \in 2 .. Len(fs)
        PROVE  /\ Len(fs[j].IAT) = N
               /\ \A n \in 1 .. N : timestamp(fs[j].IAT)[n] \div second = (j - 2) \div w + (n - 1) * cooldown
    <2>1. j - 2 \in Nat /\ fs[j].IAT = coldStartFunction(D, r, cooldown, j - 2)  OBVIOUS
    <2>2. Len(fs[j].IAT) = N /\ \A n \in 1 .. N :
            timestamp(fs[j].IAT)[n] = ColdOffset(r, j - 2) + (n - 1) * c
      BY <2>1, ColdTimes
    <2>3. ASSUME NEW n \in 1 .. N
          PROVE  timestamp(fs[j].IAT)[n] \div second = (j - 2) \div w + (n - 1) * cooldown
      <3> DEFINE i == j - 2
                 k == n - 1
      <3>1. k \in Nat /\ i \in Nat  BY <1>4, <2>1
      <3> HIDE DEF i, k
      <3>2. (ColdOffset(r, i) + k * c) \div second = i \div w + k * cooldown  BY <3>1, ColdSecond
      <3>3. timestamp(fs[j].IAT)[n] = ColdOffset(r, i) + k * c  BY <2>2 DEF i, k
      <3> QED BY <3>2, <3>3 DEF i, k
    <2> QED BY <2>2, <2>3
  <1> HIDE DEF N, c, w
  <1>7. N * cooldown = D * SecondsPerMinute
    <2> DEFINE a == N * cooldown
               b == D * SecondsPerMinute
    <2>1. a \in Nat /\ b \in Nat  BY <1>2, <1>4
    <2>2. a * second = N * c  BY <1>2, <1>3, <1>4
    <2>3. b * second = D * minute  BY <1>2
    <2> HIDE DEF a, b
    <2>4. a * second <= b * second /\ b * second <= a * second
      <3>1. a * second = b * second /\ a * second \in Nat  BY <1>2, <1>4, <2>1, <2>2, <2>3
      <3> QED BY <3>1
    <2>5. a <= b /\ b <= a  BY <1>2, <2>1, <2>4, CancelledWeakly
    <2> QED BY <2>1, <2>5 DEF a, b
  <1>8. s \in Nat /\ s < N * cooldown
    <2>1. D * SecondsPerMinute \in Nat  BY <1>2
    <2> QED BY <1>7, <2>1
  <1>9. u \in Nat /\ u * cooldown \in Nat /\ v \in 0 .. cooldown - 1 /\ s = v + u * cooldown
    <2>1. u \in Nat /\ u * cooldown <= s /\ s < u * cooldown + cooldown  BY <1>8, Quotient
    <2> HIDE DEF u
    <2>2. u * cooldown \in Nat  BY <2>1
    <2> QED BY <1>8, <2>1, <2>2
  <1>10. u + 1 \in 1 .. N
    <2> HIDE DEF u, v
    <2>1. N * cooldown \in Nat  BY <1>4
    <2>2. u * cooldown < N * cooldown  BY <1>8, <1>9, <2>1
    <2>3. u < N  BY <1>4, <1>9, <2>2, Cancelled
    <2> QED BY <1>4, <1>9, <2>3
  <1> HIDE DEF u, v
  <1>11. base \in Nat /\ base + w <= w * cooldown
    <2>1. v \in Nat /\ v + 1 \in Nat /\ v + 1 <= cooldown  BY <1>9
    <2>2. (v + 1) * w <= cooldown * w  BY <1>1, <2>1, Products
    <2>3. (v + 1) * w = v * w + w /\ cooldown * w = w * cooldown /\ v * w \in Nat /\ w * cooldown \in Nat
      BY <1>1, <2>1
    <2> QED BY <1>1, <2>2, <2>3
  <1> DEFINE g == [x \in 1 .. w |-> <<2 + base + (x - 1), u + 1>>]
  <1>12. ASSUME NEW x \in 1 .. w PROVE g[x] \in S
    <2> DEFINE i == base + (x - 1)
               j == 2 + base + (x - 1)
    <2>1. i \in Nat /\ i < w * cooldown
      <3>1. w * cooldown \in Nat  BY <1>1
      <3> HIDE DEF base
      <3> QED BY <1>1, <1>11, <3>1
    <2>2. i \div w = v
      <3>1. v \in Nat /\ x - 1 \in 0 .. w - 1  BY <1>1, <1>9
      <3>2. i = (x - 1) + v * w
        <4> HIDE DEF base
        <4>1. i = (x - 1) + base  BY <1>11
        <4> QED BY <4>1 DEF base
      <3> HIDE DEF i
      <3> QED BY <1>1, <2>1, <3>1, <3>2, QuotientIs
    <2>3. j \in 2 .. Len(fs) /\ j - 2 = i
      <3>1. w * cooldown \in Nat  BY <1>1
      <3> HIDE DEF base
      <3> QED BY <1>5, <1>11, <2>1, <3>1
    <2> HIDE DEF i, j
    <2>4. Len(fs[j].IAT) = N
          /\ \A n \in 1 .. N : timestamp(fs[j].IAT)[n] \div second = (j - 2) \div w + (n - 1) * cooldown
      BY <1>6, <2>3
    <2>5. timestamp(fs[j].IAT)[u + 1] \div second = s
      <3>1. ASSUME NEW n \in 1 .. N, n = u + 1 PROVE timestamp(fs[j].IAT)[n] \div second = s
        <4>1. n - 1 = u  BY <1>9, <3>1
        <4>2. timestamp(fs[j].IAT)[n] \div second = v + u * cooldown  BY <2>2, <2>3, <2>4, <4>1
        <4> QED BY <1>9, <4>2
      <3> QED BY <1>10, <3>1
    <2>6. <<j, u + 1>> \in {<<j, n>> : n \in 1 .. Len(fs[j].IAT)}  BY <1>10, <2>4
    <2>7. <<j, u + 1>> \in UNION {{<<h, n>> : n \in 1 .. Len(fs[h].IAT)} : h \in 2 .. Len(fs)}  BY <2>3, <2>6
    <2>8. <<j, u + 1>> \in S  BY <2>5, <2>7
    <2>9. g[x] = <<j, u + 1>>  BY DEF j
    <2> QED BY <2>8, <2>9
  <1>13. ASSUME NEW p \in S PROVE \E x \in 1 .. w : g[x] = p
    <2>1. PICK j \in 2 .. Len(fs) : \E n \in 1 .. Len(fs[j].IAT) : p = <<j, n>>  OBVIOUS
    <2>2. PICK n \in 1 .. Len(fs[j].IAT) : p = <<j, n>>  BY <2>1
    <2>3. timestamp(fs[j].IAT)[n] \div second = s  BY <2>2
    <2> DEFINE i == j - 2
               b == i \div w
    <2>4. n \in 1 .. N /\ b + (n - 1) * cooldown = s  BY <1>6, <2>3
    <2>5. i \in Nat /\ i < w * cooldown
      <3>1. w * cooldown \in Nat  BY <1>1
      <3> QED BY <1>5, <3>1
    <2>6. b \in Nat /\ b * w <= i /\ i < b * w + w
      <3> HIDE DEF i
      <3> QED BY <1>1, <2>5, Quotient
    <2> HIDE DEF b
    <2>7. b \in 0 .. cooldown - 1
      <3>1. b * w \in Nat /\ w * cooldown \in Nat /\ w * cooldown = cooldown * w  BY <1>1, <2>6
      <3> HIDE DEF i
      <3>2. b * w < cooldown * w  BY <2>5, <2>6, <3>1
      <3>3. b < cooldown  BY <1>1, <2>6, <3>2, Cancelled
      <3> QED BY <2>6, <3>3
    <2>8. n - 1 = u
      <3> DEFINE k == n - 1
      <3>1. k \in Nat
        <4>1. N \in Nat /\ n \in 1 .. N  BY <1>4, <2>4
        <4> QED BY ONLY <4>1
      <3> HIDE DEF k
      <3>2. s = b + k * cooldown  BY ONLY <2>4 DEF k
      <3>3. s \div cooldown = k  BY <1>8, <2>7, <3>1, <3>2, QuotientIs
      <3> QED BY <3>3 DEF k, u
    <2>9. b = v
      <3>1. b + u * cooldown = s  BY <2>4, <2>8
      <3> QED BY <1>9, <2>6, <3>1
    <2> DEFINE x == i - base + 1
    <2>10. base <= i /\ i < base + w
      <3>1. b * w = base  BY <2>9
      <3>2. b * w <= i /\ i < b * w + w  BY <2>6
      <3> HIDE DEF base, i
      <3> QED BY ONLY <3>1, <3>2
    <2>11. x \in 1 .. w /\ 2 + base + (x - 1) = j
      <3> HIDE DEF base
      <3> QED BY <1>1, <1>11, <2>5, <2>10
    <2>12. n = u + 1  BY <1>4, <1>9, <2>4, <2>8
    <2> HIDE DEF x, base
    <2> QED BY <2>2, <2>11, <2>12
  <1>14. \A x, y \in 1 .. w : g[x] = g[y] => x = y
    <2> HIDE DEF base
    <2> SUFFICES ASSUME NEW x \in 1 .. w, NEW y \in 1 .. w, g[x] = g[y] PROVE x = y  OBVIOUS
    <2>1. 2 + base + (x - 1) = 2 + base + (y - 1)  OBVIOUS
    <2> QED BY <1>11, <2>1
  <1>15. ExistsBijection(1 .. w, S)
    <2>1. g \in [1 .. w -> S]
      <3>1. \A x \in 1 .. w : g[x] \in S  BY <1>12
      <3>2. DOMAIN g = 1 .. w /\ g = [x \in 1 .. w |-> g[x]]  OBVIOUS
      <3> HIDE DEF g, S
      <3> QED BY <3>1, <3>2
    <2> HIDE DEF g, S
    <2>2. g \in Injection(1 .. w, S)  BY <1>14, <2>1 DEF Injection, IsInjective
    <2>3. g \in Surjection(1 .. w, S)  BY <1>13, <2>1 DEF Surjection
    <2> QED BY <2>2, <2>3 DEF Bijection, ExistsBijection
  <1> HIDE DEF S
  <1>16. Cardinality(S) = Cardinality(1 .. w)
    <2>1. IsFiniteSet(1 .. w)  BY <1>1, FS_Interval
    <2> QED BY <1>15, <2>1, FS_Bijection
  <1>17. Cardinality(1 .. w) = w
    <2>1. 1 \in Int /\ w \in Int /\ ~(1 > w)  BY <1>1
    <2>2. Cardinality(1 .. w) = w - 1 + 1  BY <2>1, FS_Interval
    <2> QED BY <1>1, <2>2
  <1> QED BY <1>16, <1>17 DEF S, w, ColdIn
=============================================================================
