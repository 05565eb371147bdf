------------------------- MODULE LoaderCommandProofs -------------------------
(***************************************************************************)
(* The loader command: from any of its inputs to functions whose IATs and   *)
(* counts agree, and through the loop of a driver that labels and times     *)
(* every invocation as the input has it, or to DAGs; the rate of cold       *)
(* starts; the rows of the timeline tool; and the types of all variables.   *)
(***************************************************************************)
EXTENDS LoaderCommand, DagGenerationProofs

-----------------------------------------------------------------------------
(***************************************************************************)
(* Sequences of sequences                                                   *)
(***************************************************************************)
IsFlat(f, seqs) == f = [i \in 1 .. Len(seqs) |-> IF i = 1 THEN seqs[i] ELSE f[i - 1] \o seqs[i]]

LEMMA FlatExists ==
  ASSUME NEW seqs, Len(seqs) \in Nat, Len(seqs) > 0
  PROVE  \E f : IsFlat(f, seqs)
  <1> DEFINE Good(f, n) == f = [i \in 1 .. n |-> IF i = 1 THEN seqs[i] ELSE f[i - 1] \o seqs[i]]
             L == Len(seqs) - 1
             T == {n \in 0 .. L : \E f : Good(f, n + 1)}
  <1>0. L \in Nat  OBVIOUS
  <1>1. 0 \in T
    <2> DEFINE z == [i \in 1 .. 1 |-> seqs[1]]
    <2>1. Good(z, 1)  OBVIOUS
    <2>2. 0 \in 0 .. L /\ 0 + 1 = 1  BY <1>0
    <2> HIDE DEF z, Good
    <2>3. Good(z, 0 + 1)  BY <2>1, <2>2
    <2> QED BY <2>2, <2>3
  <1>2. ASSUME NEW n \in 0 .. L - 1, n \in T PROVE n + 1 \in T
    <2>1. PICK f : Good(f, n + 1)  BY <1>2
    <2> DEFINE g == [i \in 1 .. n + 2 |-> IF i = n + 2 THEN f[n + 1] \o seqs[n + 2] ELSE f[i]]
    <2>2. ASSUME NEW i \in 1 .. n + 2
          PROVE  g[i] = IF i = 1 THEN seqs[i] ELSE g[i - 1] \o seqs[i]
      <3>1. CASE i = n + 2
        <4>1. i - 1 = n + 1 /\ i # 1 /\ g[n + 1] = f[n + 1]  BY <3>1
        <4> QED BY <3>1, <4>1
      <3>2. CASE i # n + 2
        <4>1. i \in 1 .. n + 1 /\ g[i] = f[i]  BY <3>2
        <4>2. f[i] = IF i = 1 THEN seqs[i] ELSE f[i - 1] \o seqs[i]  BY <2>1, <4>1
        <4>3. i # 1 => g[i - 1] = f[i - 1]  BY <4>1
        <4> QED BY <4>1, <4>2, <4>3
      <3> QED BY <3>1, <3>2
    <2>3. Good(g, n + 2)  BY <2>2
    <2> HIDE DEF g, Good
    <2>4. n + 1 \in 0 .. L /\ n + 1 + 1 = n + 2  BY <1>0
    <2> QED BY <2>3, <2>4
  <1> HIDE DEF T, L
  <1>3. L \in T
    <2>1. 0 \in T /\ \A n \in 0 .. L - 1 : n \in T => n + 1 \in T  BY <1>1, <1>2
    <2>2. \A n \in 0 .. L : n \in T  BY <1>0, <2>1, InductionTo
    <2> QED BY <1>0, <2>2
  <1>4. L + 1 = Len(seqs)  BY DEF L
  <1> QED BY <1>3, <1>4 DEF T, IsFlat

LEMMA FlattenIs ==
  ASSUME NEW seqs, Len(seqs) \in Nat, Len(seqs) > 0
  PROVE  \E f : IsFlat(f, seqs) /\ Seqs!FlattenSeq(seqs) = f[Len(seqs)]
  <1> DEFINE h == CHOOSE f : f = [i \in 1 .. Len(seqs) |-> IF i = 1 THEN seqs[i] ELSE f[i - 1] \o seqs[i]]
  <1>1. IsFlat(h, seqs)  BY FlatExists DEF IsFlat
  <1>2. Seqs!FlattenSeq(seqs) = h[Len(seqs)]  BY DEF Seqs!FlattenSeq
  <1> QED BY <1>1, <1>2

\* One and two sequences.
LEMMA FlattenOne ==
  ASSUME NEW seqs, Len(seqs) = 1
  PROVE  Seqs!FlattenSeq(seqs) = seqs[1]
  <1>0. Len(seqs) \in Nat /\ Len(seqs) > 0  OBVIOUS
  <1>1. PICK f : IsFlat(f, seqs) /\ Seqs!FlattenSeq(seqs) = f[Len(seqs)]  BY <1>0, FlattenIs
  <1> QED BY <1>1 DEF IsFlat

LEMMA FlattenTwo ==
  ASSUME NEW seqs, Len(seqs) = 2
  PROVE  Seqs!FlattenSeq(seqs) = seqs[1] \o seqs[2]
  <1>0. Len(seqs) \in Nat /\ Len(seqs) > 0  OBVIOUS
  <1>1. PICK f : IsFlat(f, seqs) /\ Seqs!FlattenSeq(seqs) = f[Len(seqs)]  BY <1>0, FlattenIs
  <1>2. f[1] = seqs[1] /\ f[2] = f[1] \o seqs[2]
    <2>1. f = [i \in 1 .. 2 |-> IF i = 1 THEN seqs[i] ELSE f[i - 1] \o seqs[i]]  BY <1>1 DEF IsFlat
    <2>2. f[1] = seqs[1]  BY <2>1
    <2>3. f[2] = f[2 - 1] \o seqs[2]  BY <2>1
    <2>4. 2 - 1 = 1  OBVIOUS
    <2> QED BY <2>2, <2>3, <2>4
  <1> QED BY <1>1, <1>2

\* The minutes of a row are those of its invocations.
LEMMA RowMinutesAre ==
  ASSUME NEW row \in Seq(Nat)
  PROVE  /\ RowMinutes(row) \in Seq(Nat) /\ Len(RowMinutes(row)) = Sum(row)
         /\ \A k \in 1 .. Sum(row) : InMinute(row, k - 1, RowMinutes(row)[k])
  <1> DEFINE seqs == [m \in 1 .. Len(row) |-> [k \in 1 .. row[m] |-> m - 1]]
             L == Len(row)
  <1>0. L \in Nat /\ \A m \in 1 .. L : row[m] \in Nat  OBVIOUS
  <1>1. Len(seqs) = L /\ seqs \in Seq(Seq(Nat))
        /\ \A m \in 1 .. L : Len(seqs[m]) = row[m] /\ seqs[m] \in Seq(Nat)
                             /\ \A k \in 1 .. row[m] : seqs[m][k] = m - 1
    <2>1. \A m \in 1 .. L : seqs[m] = [k \in 1 .. row[m] |-> m - 1]  OBVIOUS
    <2>2. \A m \in 1 .. L : m - 1 \in Nat  BY <1>0
    <2>3. ASSUME NEW m \in 1 .. L
          PROVE  Len(seqs[m]) = row[m] /\ seqs[m] \in Seq(Nat) /\ \A k \in 1 .. row[m] : seqs[m][k] = m - 1
      <3> DEFINE s == [k \in 1 .. row[m] |-> m - 1]
      <3>1. s \in Seq(Nat) /\ Len(s) = row[m] /\ \A k \in 1 .. row[m] : s[k] = m - 1  BY <1>0, <2>2
      <3> QED BY <2>1, <3>1
    <2>4. seqs \in [1 .. L -> Seq(Nat)]  BY <2>3
    <2> QED BY SMTT(30), <1>0, <2>3, <2>4
  <1>2. RowMinutes(row) = Seqs!FlattenSeq(seqs)  BY DEF RowMinutes
  <1> HIDE DEF seqs
  <1>3. CASE L = 0
    <2>1. Seqs!FlattenSeq(seqs) = seqs  BY <1>1, <1>3 DEF Seqs!FlattenSeq
    <2>2. Sum(row) = 0  BY <1>3, UptoRec
    <2>3. seqs = <<>>  BY <1>1, <1>3
    <2> QED BY <1>2, <2>1, <2>2, <2>3
  <1>4. CASE L # 0
    <2>1. PICK f : IsFlat(f, seqs) /\ Seqs!FlattenSeq(seqs) = f[L]
      <3>1. Len(seqs) \in Nat /\ Len(seqs) > 0  BY <1>0, <1>1, <1>4
      <3> QED BY <1>1, <3>1, FlattenIs
    <2>2. f[1] = seqs[1] /\ \A i \in 1 .. L - 1 : f[i + 1] = f[i] \o seqs[i + 1]
      <3>1. f = [i \in 1 .. L |-> IF i = 1 THEN seqs[i] ELSE f[i - 1] \o seqs[i]]
        BY <1>1, <2>1 DEF IsFlat
      <3> HIDE DEF L
      <3>2. f[1] = seqs[1]  BY <1>0, <1>4, <3>1
      <3>3. ASSUME NEW i \in 1 .. L - 1 PROVE f[i + 1] = f[i] \o seqs[i + 1]
        <4>1. i + 1 \in 1 .. L /\ i + 1 # 1 /\ i + 1 - 1 = i  BY <1>0
        <4>3. \A j \in 1 .. L : f[j] = IF j = 1 THEN seqs[j] ELSE f[j - 1] \o seqs[j]  BY ONLY <3>1
        <4> DEFINE Joined(a, b) == a \o b
        <4>4. \A j \in 1 .. L : j # 1 => f[j] = Joined(f[j - 1], seqs[j])  BY ONLY <4>3
        <4> HIDE DEF Joined
        <4>5. f[i + 1] = Joined(f[i + 1 - 1], seqs[i + 1])  BY ONLY <4>1, <4>4
        <4>2. f[i + 1] = f[i + 1 - 1] \o seqs[i + 1]  BY ONLY <4>5 DEF Joined
        <4> QED BY <4>1, <4>2
      <3> QED BY <3>2, <3>3
    <2> HIDE DEF L
    <2> DEFINE P(i) == /\ f[i] \in Seq(Nat) /\ Len(f[i]) = Upto(row, i)
                       /\ \A k \in 1 .. Upto(row, i) : InMinute(row, k - 1, f[i][k])
               T == {n \in 0 .. L - 1 : P(n + 1)}
    <2>3. \A i \in 0 .. L : Upto(row, i) \in Nat  BY UptoNat DEF L
    <2>4. \A i \in 0 .. L - 1 : Upto(row, i + 1) = Upto(row, i) + row[i + 1]  BY UptoRec DEF L
    <2>5. ASSUME NEW i \in 0 .. L - 1, NEW g \in Seq(Nat), Len(g) = Upto(row, i),
                 \A k \in 1 .. Upto(row, i) : InMinute(row, k - 1, g[k]),
                 NEW h, h = g \o seqs[i + 1]
          PROVE  /\ h \in Seq(Nat) /\ Len(h) = Upto(row, i + 1)
                 /\ \A k \in 1 .. Upto(row, i + 1) : InMinute(row, k - 1, h[k])
      <3> DEFINE s == seqs[i + 1]
      <3>1. i + 1 \in 1 .. L /\ i \in 0 .. L /\ i + 1 \in 0 .. L  BY <1>0
      <3>2. s \in Seq(Nat) /\ Len(s) = row[i + 1] /\ \A k \in 1 .. row[i + 1] : s[k] = i
        <4>1. i + 1 - 1 = i  OBVIOUS
        <4> QED BY <1>1, <3>1, <4>1
      <3> HIDE DEF s
      <3>3. h = g \o s  BY <2>5 DEF s
      <3>4. h \in Seq(Nat) /\ Len(h) = Len(g) + Len(s)
            /\ (\A k \in 1 .. Len(g) : h[k] = g[k])
            /\ (\A k \in 1 .. Len(s) : h[Len(g) + k] = s[k])
        <4>3. s \in Seq(Nat)  BY <3>2
        <4>1. g \o s \in Seq(Nat) /\ Len(g \o s) = Len(g) + Len(s)  BY <4>3, SumConcat
        <4>2. \A k \in 1 .. Len(g) : (g \o s)[k] = g[k]  BY ONLY <4>3, g \in Seq(Nat)
        <4>4. \A k \in 1 .. Len(s) : (g \o s)[Len(g) + k] = s[k]  BY ONLY <4>3, g \in Seq(Nat)
        <4> QED BY <3>3, <4>1, <4>2, <4>4
      <3>5. Len(h) = Upto(row, i + 1)  BY <2>4, <2>5, <3>2, <3>4
      <3>6. Upto(row, i) \in Nat /\ Upto(row, i + 1) \in Nat /\ row[i + 1] \in Nat
            /\ Upto(row, i + 1) = Upto(row, i) + row[i + 1]
        BY <1>0, <2>3, <2>4, <3>1
      <3>7. ASSUME NEW k \in 1 .. Upto(row, i + 1) PROVE InMinute(row, k - 1, h[k])
        <4>1. CASE k <= Upto(row, i)
          <5>1. k \in 1 .. Upto(row, i)  BY <3>6, <4>1
          <5>2. h[k] = g[k]  BY <2>5, <3>4, <5>1
          <5> QED BY <2>5, <5>1, <5>2
        <4>2. CASE k > Upto(row, i)
          <5> DEFINE r == k - Upto(row, i)
          <5>1. r \in 1 .. row[i + 1] /\ Upto(row, i) + r = k  BY SMTT(30), <3>6, <4>2
          <5>2. h[k] = s[r]
            <6>1. r \in 1 .. Len(s) /\ Len(g) + r = k  BY <2>5, <3>2, <5>1
            <6> HIDE DEF r
            <6> QED BY <3>4, <6>1
          <5>3. s[r] = i
            <6> HIDE DEF r
            <6> QED BY <3>2, <5>1
          <5>4. Upto(row, i) <= k - 1 /\ k - 1 < Upto(row, i + 1)  BY <3>6, <4>2
          <5> HIDE DEF r
          <5> QED BY <5>2, <5>3, <5>4 DEF InMinute, L
        <4> QED BY <3>6, <4>1, <4>2
      <3> QED BY <3>4, <3>5, <3>7
    <2>6. 0 \in T
      <3>1. 0 \in 0 .. L - 1 /\ 0 + 1 = 1  BY <1>0, <1>4
      <3>2. <<>> \in Seq(Nat) /\ Len(<<>>) = 0  OBVIOUS
      <3>3. Upto(row, 0) = 0  BY UptoRec
      <3>4. f[1] = <<>> \o seqs[0 + 1]
        <4>1. seqs[1] \in Seq(Nat)  BY <1>1, <3>1, <1>0
        <4> QED BY <2>2, <3>1, <4>1
      <3>6. \A k \in 1 .. Upto(row, 0) : InMinute(row, k - 1, <<>>[k])  BY <3>3
      <3>7. Len(<<>>) = Upto(row, 0)  BY <3>3
      <3>8. /\ f[1] \in Seq(Nat) /\ Len(f[1]) = Upto(row, 0 + 1)
            /\ \A k \in 1 .. Upto(row, 0 + 1) : InMinute(row, k - 1, f[1][k])
        BY ONLY <2>5, <3>1, <3>2, <3>4, <3>6, <3>7
      <3>5. P(0 + 1)  BY <3>1, <3>8
      <3> QED BY <3>1, <3>5
    <2>7. ASSUME NEW n \in 0 .. L - 1 - 1, n \in T PROVE n + 1 \in T
      <3>1. n + 1 \in 0 .. L - 1 /\ n + 1 \in 1 .. L - 1  BY <1>0
      <3>2. P(n + 1)  BY <2>7
      <3>3. f[n + 1 + 1] = f[n + 1] \o seqs[n + 1 + 1]  BY <2>2, <3>1
      <3>4. P(n + 1 + 1)  BY <2>5, <3>1, <3>2, <3>3
      <3> QED BY <3>1, <3>4
    <2> HIDE DEF P
    <2>8. \A n \in 0 .. L - 1 : n \in T
      <3>1. 0 \in T /\ \A n \in 0 .. L - 1 - 1 : n \in T => n + 1 \in T  BY <2>6, <2>7
      <3>2. L - 1 \in Nat  BY <1>0, <1>4
      <3> HIDE DEF T
      <3> QED BY <3>1, <3>2, InductionTo
    <2>9. P(L)
      <3>1. L - 1 \in 0 .. L - 1 /\ L - 1 + 1 = L  BY <1>0, <1>4
      <3> QED BY <2>8, <3>1
    <2>10. Upto(row, L) = Sum(row)  BY UptoRec DEF L
    <2> QED BY <1>2, <2>1, <2>9, <2>10 DEF P
  <1> QED BY <1>3, <1>4

-----------------------------------------------------------------------------
(***************************************************************************)
(* Requests per second, for the rates of a configuration                    *)
(***************************************************************************)
\* A rate of the configuration that is not zero.
LEMMA RateIs ==
  ASSUME NEW r \in WarmRates \cup ColdRates
  PROVE  r.num \in Nat /\ r.den \in Nat /\ r.den > 0 /\ (r.num # 0 => r \in Rates)
  BY CommandAssumption DEF Rates

LEMMA WarmFunction ==
  ASSUME NEW D \in Nat, NEW r \in WarmRates
  PROVE  GenerateWarmStartFunction(D, r) \in Seq(Nat) /\ InRange(D, GenerateWarmStartFunction(D, r))
  <1>1. CASE r.num = 0
    <2>1. GenerateWarmStartFunction(D, r) = <<>>  BY <1>1 DEF GenerateWarmStartFunction
    <2>2. InRange(D, <<>>)  BY DEF InRange
    <2> QED BY <2>1, <2>2
  <1>2. CASE r.num # 0
    <2>1. r \in Rates  BY <1>2, RateIs
    <2>2. iatOf(r) \in Nat /\ iatOf(r) > 0  BY <2>1, IatOf
    <2>3. GenerateWarmStartFunction(D, r) = generateFunctionByRPS(D, iatOf(r))
      BY <1>2 DEF GenerateWarmStartFunction
    <2> QED BY <2>2, <2>3, Equidistant
  <1> QED BY <1>1, <1>2

-----------------------------------------------------------------------------
(***************************************************************************)
(* Azure 2021                                                               *)
(***************************************************************************)
Nothing(M) == [previous |-> 0, IAT |-> <<>>, fatal |-> FALSE, count |-> [m \in 1 .. M |-> 0]]

Took(acc, inv, D) ==
  IF ~EndsInTime(inv, D) THEN acc
  ELSE [previous |-> inv.start,
        IAT      |-> Append(acc.IAT, inv.start - acc.previous),
        count    |-> IF inv.start <= acc.previous THEN acc.count
                     ELSE [acc.count EXCEPT ![MinuteOf(inv.start) + 1] = @ + 1],
        fatal    |-> acc.fatal \/ inv.start <= acc.previous]

IsTaken(f, slice, M, D) ==
  f = [k \in 0 .. Len(slice) |-> IF k = 0 THEN Nothing(M) ELSE Took(f[k - 1], slice[k], D)]

LEMMA TakenExists ==
  ASSUME NEW slice, Len(slice) \in Nat, NEW M, NEW D
  PROVE  \E f : IsTaken(f, slice, M, D)
  <1> DEFINE Good(f, n) == f = [k \in 0 .. n |-> IF k = 0 THEN Nothing(M) ELSE Took(f[k - 1], slice[k], D)]
             T == {n \in 0 .. Len(slice) : \E f : Good(f, n)}
  <1>1. 0 \in T
    <2> DEFINE z == [k \in 0 .. 0 |-> Nothing(M)]
    <2>1. Good(z, 0)  OBVIOUS
    <2>2. 0 \in 0 .. Len(slice)  OBVIOUS
    <2> HIDE DEF z, Good
    <2> QED BY <2>1, <2>2
  <1>2. ASSUME NEW n \in 0 .. Len(slice) - 1, n \in T PROVE n + 1 \in T
    <2>1. PICK f : Good(f, n)  BY <1>2
    <2> DEFINE g == [k \in 0 .. n + 1 |-> IF k = n + 1 THEN Took(f[n], slice[n + 1], D) ELSE f[k]]
    <2>2. ASSUME NEW k \in 0 .. n + 1
          PROVE g[k] = IF k = 0 THEN Nothing(M) ELSE Took(g[k - 1], slice[k], D)
      <3>1. CASE k = n + 1
        <4>1. g[k] = Took(f[n], slice[n + 1], D)  BY <3>1
        <4>2. k - 1 = n /\ g[n] = f[n] /\ k # 0  BY <3>1
        <4> QED BY <3>1, <4>1, <4>2
      <3>2. CASE k # n + 1
        <4>1. k \in 0 .. n /\ g[k] = f[k]  BY <3>2
        <4>2. f[k] = IF k = 0 THEN Nothing(M) ELSE Took(f[k - 1], slice[k], D)  BY <2>1, <4>1
        <4>3. k # 0 => g[k - 1] = f[k - 1]  BY <4>1
        <4> QED BY <4>1, <4>2, <4>3
      <3> QED BY <3>1, <3>2
    <2>3. Good(g, n + 1)  BY <2>2
    <2> HIDE DEF g, Good
    <2>4. n + 1 \in 0 .. Len(slice) OBVIOUS
    <2> QED BY <2>3, <2>4
  <1> HIDE DEF T
  <1>3. \A k \in 0 .. Len(slice) : k \in T
    <2>1. 0 \in T /\ \A n \in 0 .. Len(slice) - 1 : n \in T => n + 1 \in T  BY <1>1, <1>2
    <2> QED BY <2>1, InductionTo
  <1>4. Len(slice) \in T  BY <1>3
  <1> QED BY <1>4 DEF T, IsTaken

\* The starts of the first k invocations that end in time.
StartsOf(slice, k, D) == {slice[i].start : i \in {j \in 1 .. k : EndsInTime(slice[j], D)}}

\* When the invocations with these IATs are due.
DueTimes(iats) == {Upto(iats, j) : j \in 1 .. Len(iats)}
DueIn(iats, m) == {j \in 1 .. Len(iats) : Upto(iats, j) \div Unit = m - 1}

\* What is known of the specification after k invocations.
TakenOf(acc, slice, k, M, D) ==
  /\ acc.previous \in Nat /\ acc.IAT \in Seq(Nat) /\ Sum(acc.IAT) = acc.previous
  /\ \A i, j \in 0 .. Len(acc.IAT) : i < j => Upto(acc.IAT, i) < Upto(acc.IAT, j)
  /\ StartsOf(slice, k, D) = DueTimes(acc.IAT)
  /\ acc.count \in [1 .. M -> Nat]
  /\ \A m \in 1 .. M : acc.count[m] = Cardinality(DueIn(acc.IAT, m))
  /\ \A j \in 1 .. Len(acc.IAT) : Upto(acc.IAT, j) \div Unit < M

LEMMA UnitIs == Unit \in Nat /\ Unit > 0
  BY TimeAssumption

LEMMA QuotientOrder ==
  ASSUME NEW a \in Nat, NEW b \in Nat, a <= b, NEW c \in Nat, c > 0
  PROVE  a \div c <= b \div c /\ a \div c \in Nat /\ b \div c \in Nat
  <1> DEFINE q == a \div c
  <1>1. q \in Nat /\ q * c <= a  BY Quotient
  <1>2. b \div c \in Nat  BY Quotient
  <1> HIDE DEF q
  <1>3. q * c \in Nat  BY <1>1
  <1>4. q * c <= b  BY <1>1, <1>3
  <1>5. q <= b \div c  BY <1>1, <1>4, QuotientAtLeast
  <1> QED BY <1>1, <1>2, <1>5 DEF q

\* An invocation more: after the one before, and not after the last one.
LEMMA TakeOne ==
  ASSUME NEW slice, NEW k \in Nat, NEW D, NEW M \in Nat, NEW acc, TakenOf(acc, slice, k, M, D),
         NEW start \in Nat, slice[k + 1].start = start, EndsInTime(slice[k + 1], D),
         start > acc.previous, start \div Unit < M, ~acc.fatal
  PROVE  TakenOf(Took(acc, slice[k + 1], D), slice, k + 1, M, D)
  <1> DEFINE iats == acc.IAT
             n == Len(iats)
             x == start - acc.previous
             next == Append(iats, x)
             c == start \div Unit
             new == Took(acc, slice[k + 1], D)
  <1>1. /\ acc.previous \in Nat /\ iats \in Seq(Nat) /\ Sum(iats) = acc.previous
        /\ StartsOf(slice, k, D) = DueTimes(iats)
        /\ acc.count \in [1 .. M -> Nat]
    BY DEF TakenOf
  <1>2. \A i, j \in 0 .. n : i < j => Upto(iats, i) < Upto(iats, j)  BY DEF TakenOf
  <1>3. \A m \in 1 .. M : acc.count[m] = Cardinality(DueIn(iats, m))  BY DEF TakenOf
  <1>4. \A j \in 1 .. n : Upto(iats, j) \div Unit < M  BY DEF TakenOf
  <1>5. x \in Nat /\ n \in Nat /\ x > 0  BY <1>1
  <1>6. c \in Nat /\ MinuteOf(start) = c  BY UnitIs, Quotient DEF MinuteOf
  <1>7. /\ new.previous = start /\ new.IAT = next
        /\ new.count = [acc.count EXCEPT ![c + 1] = @ + 1]
    <2>1. ~(start <= acc.previous)  BY <1>1
    <2>2. new = [previous |-> start, IAT |-> next, count |-> [acc.count EXCEPT ![c + 1] = @ + 1],
                 fatal |-> acc.fatal \/ start <= acc.previous]
      <3> HIDE DEF c
      <3> QED BY <1>6, <2>1 DEF Took
    <2> HIDE DEF new
    <2> QED BY <2>2
  <1> HIDE DEF x, c, new
  <1>8. next \in Seq(Nat) /\ Len(next) = n + 1 /\ Sum(next) = start
    <2>1. Sum(next) = Sum(iats) + x  BY <1>1, <1>5, SumAppend
    <2> QED BY <1>1, <1>5, <2>1 DEF x
  <1>9. \A j \in 0 .. n : Upto(next, j) = Upto(iats, j)
    BY <1>1, <1>5, SumAppend
  <1>10. Upto(next, n + 1) = start
    <2>1. Upto(next, Len(next)) = Sum(next)  BY <1>8, UptoRec
    <2> QED BY <1>8, <2>1
  <1>11. \A j \in 0 .. n : Upto(iats, j) <= acc.previous /\ Upto(iats, j) \in Nat
    <2> SUFFICES ASSUME NEW j \in 0 .. n PROVE Upto(iats, j) <= acc.previous /\ Upto(iats, j) \in Nat
      OBVIOUS
    <2>1. n \in 0 .. n /\ j <= n  BY <1>5
    <2>2. Upto(iats, j) <= Upto(iats, n) /\ Upto(iats, j) \in Nat  BY <1>1, <2>1, UptoNat
    <2>3. Upto(iats, n) = Sum(iats)  BY <1>1, UptoRec
    <2> QED BY <1>1, <2>2, <2>3
  <1> HIDE DEF n, next
  <1>12. \A i, j \in 0 .. n + 1 : i < j => Upto(next, i) < Upto(next, j)
    <2> SUFFICES ASSUME NEW i \in 0 .. n + 1, NEW j \in 0 .. n + 1, i < j
                 PROVE  Upto(next, i) < Upto(next, j)
      OBVIOUS
    <2>1. i \in 0 .. n /\ Upto(next, i) = Upto(iats, i)  BY <1>5, <1>9
    <2>2. CASE j = n + 1
      <3>1. Upto(iats, i) <= acc.previous /\ Upto(iats, i) \in Nat  BY <1>11, <2>1
      <3> QED BY <1>1, <1>10, <2>1, <2>2, <3>1
    <2>3. CASE j # n + 1
      <3>1. j \in 0 .. n  BY <1>5, <2>3
      <3> QED BY <1>2, <1>9, <2>1, <3>1
    <2> QED BY <2>2, <2>3
  <1>13. StartsOf(slice, k + 1, D) = StartsOf(slice, k, D) \cup {start}
    <2>1. {j \in 1 .. k + 1 : EndsInTime(slice[j], D)} = {j \in 1 .. k : EndsInTime(slice[j], D)} \cup {k + 1}
      OBVIOUS
    <2> QED BY <2>1 DEF StartsOf
  <1>14. DueTimes(next) = DueTimes(iats) \cup {start}
    <2>1. ASSUME NEW t \in DueTimes(next) PROVE t \in DueTimes(iats) \cup {start}
      <3>1. PICK j \in 1 .. n + 1 : t = Upto(next, j)  BY <1>8, <2>1 DEF DueTimes
      <3>2. CASE j = n + 1  BY <1>10, <3>1, <3>2
      <3>3. CASE j # n + 1
        <4>1. j \in 1 .. n /\ j \in 0 .. n  BY <1>5, <3>3
        <4>2. t = Upto(iats, j)  BY <1>9, <3>1, <4>1
        <4> QED BY <4>1, <4>2 DEF DueTimes, n
      <3> QED BY <3>2, <3>3
    <2>2. start \in DueTimes(next)
      <3>1. n + 1 \in 1 .. Len(next)  BY <1>5, <1>8
      <3> QED BY <1>10, <3>1 DEF DueTimes
    <2>3. ASSUME NEW t \in DueTimes(iats) PROVE t \in DueTimes(next)
      <3>1. PICK j \in 1 .. n : t = Upto(iats, j)  BY <2>3 DEF DueTimes, n
      <3>2. j \in 1 .. Len(next) /\ j \in 0 .. n  BY <1>5, <1>8
      <3>3. t = Upto(next, j)  BY <1>9, <3>1, <3>2
      <3> QED BY <3>2, <3>3 DEF DueTimes
    <2> QED BY <2>1, <2>2, <2>3
  <1>15. \A j \in 1 .. n + 1 : Upto(next, j) \div Unit < M
    <2> SUFFICES ASSUME NEW j \in 1 .. n + 1 PROVE Upto(next, j) \div Unit < M  OBVIOUS
    <2>1. CASE j = n + 1  BY <1>10, <2>1
    <2>2. CASE j # n + 1
      <3>1. j \in 1 .. n /\ j \in 0 .. n  BY <1>5, <2>2
      <3>2. Upto(next, j) = Upto(iats, j)  BY <1>9, <3>1
      <3> QED BY <1>4, <3>1, <3>2
    <2> QED BY <2>1, <2>2
  <1>16. \A m \in 1 .. M : DueIn(next, m) = DueIn(iats, m) \cup (IF m = c + 1 THEN {n + 1} ELSE {})
    <2> SUFFICES ASSUME NEW m \in 1 .. M
                 PROVE  DueIn(next, m) = DueIn(iats, m) \cup (IF m = c + 1 THEN {n + 1} ELSE {})
      OBVIOUS
    <2>1. DueIn(next, m) = {j \in 1 .. n + 1 : Upto(next, j) \div Unit = m - 1}  BY <1>8 DEF DueIn
    <2>2. DueIn(iats, m) = {j \in 1 .. n : Upto(iats, j) \div Unit = m - 1}  BY DEF DueIn, n
    <2>3. \A j \in 1 .. n : Upto(next, j) = Upto(iats, j)  BY <1>5, <1>9
    <2>4. Upto(next, n + 1) \div Unit = c  BY <1>10 DEF c
    <2>5. c = m - 1 <=> m = c + 1  BY <1>6
    <2>6. 1 .. n + 1 = (1 .. n) \cup {n + 1}  BY <1>5
    <2> QED BY <2>1, <2>2, <2>3, <2>4, <2>5, <2>6
  <1>17. \A m \in 1 .. M : IsFiniteSet(DueIn(iats, m)) /\ n + 1 \notin DueIn(iats, m)
    <2> SUFFICES ASSUME NEW m \in 1 .. M PROVE IsFiniteSet(DueIn(iats, m)) /\ n + 1 \notin DueIn(iats, m)
      OBVIOUS
    <2>1. DueIn(iats, m) \subseteq 1 .. n  BY DEF DueIn, n
    <2>2. IsFiniteSet(1 .. n)  BY <1>5, FS_Interval
    <2>3. n + 1 \notin 1 .. n  BY <1>5
    <2> QED BY <2>1, <2>2, <2>3, FS_Subset
  <1>18. new.count \in [1 .. M -> Nat]
         /\ \A m \in 1 .. M : new.count[m] = IF m = c + 1 THEN acc.count[m] + 1 ELSE acc.count[m]
    <2> DEFINE old == acc.count
               counts == new.count
    <2>1. old \in [1 .. M -> Nat] /\ counts = [old EXCEPT ![c + 1] = old[c + 1] + 1]  BY <1>1, <1>7
    <2>2. c + 1 \in 1 .. M  BY <1>6 DEF c
    <2> HIDE DEF old, counts
    <2>3. old[c + 1] + 1 \in Nat  BY <2>1, <2>2
    <2>4. counts \in [1 .. M -> Nat]  BY <2>1, <2>2, <2>3
    <2>5. \A m \in 1 .. M : counts[m] = IF m = c + 1 THEN old[m] + 1 ELSE old[m]  BY <2>1, <2>2
    <2> QED BY <2>4, <2>5 DEF old, counts
  <1>19. \A m \in 1 .. M : new.count[m] = Cardinality(DueIn(next, m))
    <2> SUFFICES ASSUME NEW m \in 1 .. M PROVE new.count[m] = Cardinality(DueIn(next, m))
      OBVIOUS
    <2>1. IsFiniteSet(DueIn(iats, m)) /\ n + 1 \notin DueIn(iats, m)  BY <1>17
    <2>2. acc.count[m] = Cardinality(DueIn(iats, m))  BY <1>3
    <2>3. CASE m = c + 1
      <3>1. DueIn(next, m) = DueIn(iats, m) \cup {n + 1}  BY <1>16, <2>3
      <3>2. Cardinality(DueIn(iats, m) \cup {n + 1}) = Cardinality(DueIn(iats, m)) + 1
        BY <2>1, FS_AddElement
      <3> QED BY <1>18, <2>2, <2>3, <3>1, <3>2
    <2>4. CASE m # c + 1
      <3>1. DueIn(next, m) = DueIn(iats, m)  BY <1>16, <2>4
      <3> QED BY <1>18, <2>2, <2>4, <3>1
    <2> QED BY <2>3, <2>4
  <1>20. TakenOf(new, slice, k + 1, M, D)
    BY <1>1, <1>7, <1>8, <1>12, <1>13, <1>14, <1>15, <1>18, <1>19 DEF TakenOf
  <1> QED BY <1>20 DEF new

Invocations2021 == [start : Int, duration : Int]
SortedSlice(slice) ==
  /\ slice \in Seq(Invocations2021) /\ Len(slice) > 0
  /\ \A i \in 2 .. Len(slice) : slice[i - 1].start <= slice[i].start

LEMMA LastIsLatest ==
  ASSUME NEW slice, SortedSlice(slice)
  PROVE  \A i \in 1 .. Len(slice) : slice[i].start \in Int /\ slice[i].start <= slice[Len(slice)].start
  <1> DEFINE n == Len(slice)
             T == {k \in 0 .. n - 1 : slice[n - k].start <= slice[n].start}
  <1>1. n \in Nat /\ n > 0 /\ \A i \in 1 .. n : slice[i].start \in Int
    <2>1. n \in Nat /\ n > 0 /\ \A i \in 1 .. n : slice[i] \in Invocations2021  BY DEF SortedSlice
    <2>2. \A inv \in Invocations2021 : inv.start \in Int  BY DEF Invocations2021
    <2> HIDE DEF n
    <2> QED BY <2>1, <2>2
  <1>2. \A i \in 2 .. n : slice[i - 1].start <= slice[i].start  BY DEF SortedSlice
  <1> HIDE DEF n
  <1>3. 0 \in T
    <2>1. n - 0 = n /\ n \in 1 .. n /\ 0 \in 0 .. n - 1  BY <1>1
    <2> QED BY <1>1, <2>1
  <1>4. ASSUME NEW k \in 0 .. n - 1 - 1, k \in T PROVE k + 1 \in T
    <2>1. n - k \in 2 .. n /\ n - k - 1 = n - (k + 1) /\ n - (k + 1) \in 1 .. n /\ k + 1 \in 0 .. n - 1
          /\ n \in 1 .. n /\ n - k \in 1 .. n
      BY <1>1
    <2>2. slice[n - (k + 1)].start <= slice[n - k].start
      <3>1. slice[n - k - 1].start <= slice[n - k].start  BY <1>2, <2>1
      <3> QED BY <2>1, <3>1
    <2>3. slice[n - k].start <= slice[n].start  BY <1>4
    <2>4. slice[n - (k + 1)].start <= slice[n].start  BY <1>1, <2>1, <2>2, <2>3
    <2> QED BY <2>1, <2>4
  <1>5. \A k \in 0 .. n - 1 : k \in T
    <2>1. 0 \in T /\ \A k \in 0 .. n - 1 - 1 : k \in T => k + 1 \in T  BY <1>3, <1>4
    <2>2. n - 1 \in Nat  BY <1>1
    <2> HIDE DEF T
    <2> QED BY <2>1, <2>2, InductionTo
  <1>6. ASSUME NEW i \in 1 .. n PROVE slice[i].start \in Int /\ slice[i].start <= slice[n].start
    <2>1. n - i \in 0 .. n - 1 /\ n - (n - i) = i  BY <1>1
    <2>2. n - i \in T  BY <1>5, <2>1
    <2>3. slice[n - (n - i)].start <= slice[n].start  BY <2>2
    <2> QED BY <1>1, <2>1, <2>3
  <1> QED BY <1>6 DEF n

Minutes2021(slice) == MinuteOf(slice[Len(slice)].start) + 1

LEMMA Specified2021 ==
  ASSUME NEW slice, SortedSlice(slice), NEW D,
         ~GenerateFunctionSpecification(slice, D).fatal
  PROVE  TakenOf(GenerateFunctionSpecification(slice, D), slice, Len(slice), Minutes2021(slice), D)
  <1> DEFINE n == Len(slice)
             M == Minutes2021(slice)
             h == CHOOSE f : IsTaken(f, slice, M, D)
             spec == GenerateFunctionSpecification(slice, D)
  <1>0. n \in Nat /\ n > 0  BY DEF SortedSlice
  <1>1. IsTaken(h, slice, M, D)  BY <1>0, TakenExists
  <1>2. spec = h[n]
    BY DEF GenerateFunctionSpecification, IsTaken, Nothing, Took, Minutes2021, Seqs!Last
  <1> HIDE DEF h, spec
  <1>3. \A i \in 1 .. n : slice[i].start \in Int /\ slice[i].start <= slice[n].start  BY LastIsLatest
  <1>4. M \in Nat /\ \A t \in Nat : t <= slice[n].start => t \div Unit < M
    <2> DEFINE last == slice[n].start
    <2>1. last \in Int /\ M = MinuteOf(last) + 1  BY <1>0, <1>3 DEF Minutes2021
    <2> HIDE DEF last, M
    <2>2. CASE last < 0
      <3>1. M = 1  BY <2>1, <2>2 DEF MinuteOf
      <3> QED BY <2>1, <2>2, <3>1 DEF last
    <2>3. CASE last >= 0
      <3>1. last \in Nat /\ M = last \div Unit + 1  BY <2>1, <2>3 DEF MinuteOf
      <3>2. last \div Unit \in Nat  BY <3>1, UnitIs, Quotient
      <3>3. ASSUME NEW t \in Nat, t <= last PROVE t \div Unit < M
        <4>1. t \div Unit <= last \div Unit /\ t \div Unit \in Nat  BY <3>1, <3>3, UnitIs, QuotientOrder
        <4> DEFINE a == t \div Unit
                   b == last \div Unit
        <4>2. a <= b /\ a \in Nat /\ b \in Nat /\ M = b + 1  BY <3>1, <3>2, <4>1
        <4> HIDE DEF a, b
        <4>3. a < M  BY <4>2
        <4> QED BY <4>3 DEF a
      <3> QED BY <3>1, <3>2, <3>3 DEF last
    <2> QED BY <2>1, <2>2, <2>3
  <1> HIDE DEF M, n
  <1>5. h[0] = Nothing(M) /\ \A k \in 0 .. n - 1 : h[k + 1] = Took(h[k], slice[k + 1], D)
    <2>1. h = [k \in 0 .. n |-> IF k = 0 THEN Nothing(M) ELSE Took(h[k - 1], slice[k], D)]
      BY <1>1 DEF IsTaken, n
    <2>2. h[0] = Nothing(M)  BY <1>0, <2>1
    <2>3. ASSUME NEW k \in 0 .. n - 1 PROVE h[k + 1] = Took(h[k], slice[k + 1], D)
      <3>1. k + 1 \in 0 .. n /\ k + 1 # 0 /\ k + 1 - 1 = k  BY <1>0
      <3>2. \A j \in 0 .. n : j # 0 => h[j] = Took(h[j - 1], slice[j], D)  BY <2>1
      <3>3. h[k + 1] = Took(h[k + 1 - 1], slice[k + 1], D)  BY ONLY <3>1, <3>2
      <3> QED BY <3>1, <3>3
    <2> QED BY <2>2, <2>3
  <1> DEFINE T == {k \in 0 .. n : ~h[k].fatal => TakenOf(h[k], slice, k, M, D)}
  <1>6. 0 \in T
    <2>1. TakenOf(Nothing(M), slice, 0, M, D)
      <3> DEFINE z == Nothing(M)
      <3>1. z.previous = 0 /\ z.IAT = <<>> /\ z.count = [m \in 1 .. M |-> 0]  BY DEF Nothing
      <3> HIDE DEF z
      <3>2. <<>> \in Seq(Nat) /\ Len(<<>>) = 0 /\ Sum(<<>>) = 0  BY SumEmpty
      <3>3. StartsOf(slice, 0, D) = {}
        <4>1. {j \in 1 .. 0 : EndsInTime(slice[j], D)} = {}  OBVIOUS
        <4> QED BY <4>1 DEF StartsOf
      <3>4. DueTimes(<<>>) = {} /\ \A m \in 1 .. M : DueIn(<<>>, m) = {}  BY <3>2 DEF DueTimes, DueIn
      <3>5. Cardinality({}) = 0  BY FS_EmptySet
      <3>6. z.count \in [1 .. M -> Nat] /\ \A m \in 1 .. M : z.count[m] = Cardinality(DueIn(z.IAT, m))
        <4>1. [m \in 1 .. M |-> 0] \in [1 .. M -> Nat] /\ \A m \in 1 .. M : [j \in 1 .. M |-> 0][m] = 0
          OBVIOUS
        <4>2. z.count \in [1 .. M -> Nat] /\ \A m \in 1 .. M : z.count[m] = 0  BY ONLY <3>1, <4>1
        <4>3. \A m \in 1 .. M : Cardinality(DueIn(z.IAT, m)) = 0  BY ONLY <3>1, <3>4, <3>5
        <4> QED BY ONLY <4>2, <4>3
      <3>7. \A i, j \in 0 .. Len(z.IAT) : i < j => Upto(z.IAT, i) < Upto(z.IAT, j)  BY <3>1, <3>2
      <3>8. \A j \in 1 .. Len(z.IAT) : Upto(z.IAT, j) \div Unit < M  BY <3>1, <3>2
      <3>9. TakenOf(z, slice, 0, M, D)
        BY SMTT(30), <3>1, <3>2, <3>3, <3>4, <3>6, <3>7, <3>8 DEF TakenOf
      <3> QED BY <3>9 DEF z
    <2> QED BY <1>0, <1>5, <2>1
  <1>7. ASSUME NEW k \in 0 .. n - 1, k \in T PROVE k + 1 \in T
    <2> DEFINE acc == h[k]
               inv == slice[k + 1]
    <2>1. k + 1 \in 0 .. n /\ k + 1 \in 1 .. n /\ k \in Nat /\ h[k + 1] = Took(acc, inv, D)  BY <1>0, <1>5
    <2> SUFFICES ASSUME ~h[k + 1].fatal PROVE TakenOf(h[k + 1], slice, k + 1, M, D)
      BY <2>1
    <2>2. CASE ~EndsInTime(inv, D)
      <3>1. h[k + 1] = acc  BY <2>1, <2>2 DEF Took
      <3>2. TakenOf(acc, slice, k, M, D)  BY <1>7, <3>1
      <3>3. StartsOf(slice, k + 1, D) = StartsOf(slice, k, D)
        <4>1. {j \in 1 .. k + 1 : EndsInTime(slice[j], D)} = {j \in 1 .. k : EndsInTime(slice[j], D)}
          BY <2>1, <2>2
        <4> QED BY <4>1 DEF StartsOf
      <3>4. TakenOf(acc, slice, k + 1, M, D)  BY <3>2, <3>3 DEF TakenOf
      <3> QED BY <3>1, <3>4
    <2>3. CASE EndsInTime(inv, D)
      <3>1. h[k + 1].fatal = (acc.fatal \/ inv.start <= acc.previous)  BY <2>1, <2>3 DEF Took
      <3>2. ~acc.fatal /\ ~(inv.start <= acc.previous)  BY <3>1
      <3>3. TakenOf(acc, slice, k, M, D)  BY <1>7, <3>2
      <3>4. inv.start \in Int /\ inv.start <= slice[n].start /\ acc.previous \in Nat
        BY <1>3, <2>1, <3>3 DEF TakenOf
      <3>5. inv.start \in Nat /\ inv.start > acc.previous  BY <3>2, <3>4
      <3>6. inv.start \div Unit < M  BY <1>4, <3>4, <3>5
      <3> HIDE DEF acc
      <3>7. TakenOf(Took(acc, slice[k + 1], D), slice, k + 1, M, D)
        BY <1>4, <2>1, <2>3, <3>2, <3>3, <3>5, <3>6, TakeOne
      <3> QED BY <2>1, <3>7
    <2> QED BY <2>2, <2>3
  <1>8. \A k \in 0 .. n : k \in T
    <2>1. 0 \in T /\ \A k \in 0 .. n - 1 : k \in T => k + 1 \in T  BY <1>6, <1>7
    <2> HIDE DEF T
    <2> QED BY <1>0, <2>1, InductionTo
  <1>9. n \in 0 .. n  BY <1>0
  <1>10. ~h[n].fatal => TakenOf(h[n], slice, n, M, D)  BY <1>8, <1>9
  <1> QED BY <1>2, <1>10 DEF n, M, spec

LEMMA Counted2021 ==
  ASSUME NEW acc, NEW slice, NEW k, NEW M \in Nat, NEW D, TakenOf(acc, slice, k, M, D)
  PROVE  /\ acc.count \in Seq(Nat) /\ Sum(acc.count) = Len(acc.IAT)
         /\ \A j \in 1 .. Len(acc.IAT) :
              Upto(acc.IAT, j) \div Unit \in Nat
              /\ InMinute(acc.count, j - 1, Upto(acc.IAT, j) \div Unit)
         /\ DueInMinute(acc.IAT, acc.count, Unit)
  <1> DEFINE iats == acc.IAT
             counts == acc.count
             n == Len(iats)
             due == [j \in 1 .. n |-> Upto(iats, j) \div Unit]
  <1>1. iats \in Seq(Nat) /\ counts \in [1 .. M -> Nat]  BY DEF TakenOf
  <1>2. \A m \in 1 .. M : counts[m] = Cardinality(DueIn(iats, m))  BY DEF TakenOf
  <1>3. \A j \in 1 .. n : Upto(iats, j) \div Unit < M  BY DEF TakenOf
  <1> HIDE DEF iats, counts
  <1>4. n \in Nat /\ counts \in Seq(Nat) /\ Len(counts) = M  BY <1>1
  <1>5. \A j \in 1 .. n : Upto(iats, j) \in Nat
    <2>1. \A j \in 1 .. n : j \in 0 .. Len(iats)  BY <1>4
    <2> QED BY <1>1, <2>1, UptoNat
  <1>6. ASSUME NEW j \in 1 .. n
        PROVE  /\ due[j] = Upto(iats, j) \div Unit /\ due[j] \in Nat
               /\ due[j] * Unit <= Upto(iats, j) /\ Upto(iats, j) < due[j] * Unit + Unit
    <2>1. Upto(iats, j) \in Nat /\ due[j] = Upto(iats, j) \div Unit  BY <1>5
    <2> HIDE DEF due
    <2> QED BY <2>1, UnitIs, Quotient
  <1>7. due \in [1 .. n -> Nat]  BY <1>6
  <1>8. \A i, j \in 1 .. n : i <= j => due[i] <= due[j]
    <2> SUFFICES ASSUME NEW i \in 1 .. n, NEW j \in 1 .. n, i <= j PROVE due[i] <= due[j]
      OBVIOUS
    <2>1. i \in 0 .. Len(iats) /\ j \in 0 .. Len(iats)  BY <1>4
    <2>2. Upto(iats, i) <= Upto(iats, j) /\ Upto(iats, i) \in Nat /\ Upto(iats, j) \in Nat
      BY <1>1, <2>1, UptoNat
    <2>3. due[i] = Upto(iats, i) \div Unit /\ due[j] = Upto(iats, j) \div Unit  BY <1>6
    <2> HIDE DEF due
    <2> QED BY <2>2, <2>3, UnitIs, QuotientOrder
  <1>9. \A m \in 1 .. Len(counts) : counts[m] = Cardinality({j \in 1 .. n : due[j] = m - 1})
    <2> SUFFICES ASSUME NEW m \in 1 .. M
                 PROVE  counts[m] = Cardinality({j \in 1 .. n : due[j] = m - 1})
      BY <1>4
    <2>1. DueIn(iats, m) = {j \in 1 .. n : due[j] = m - 1}  BY DEF DueIn
    <2> HIDE DEF due
    <2> QED BY <1>2, <2>1
  <1>10. \A j \in 1 .. n : due[j] < Len(counts)  BY <1>3, <1>4, <1>6
  <1> HIDE DEF due, n
  <1>11. Sum(counts) = n /\ \A j \in 1 .. n : InMinute(counts, j - 1, due[j])
    BY <1>4, <1>7, <1>8, <1>9, <1>10, CountedInMinute
  <1>12. DueInMinute(iats, counts, Unit)
    <2> SUFFICES ASSUME NEW j \in 1 .. n, NEW m, InMinute(counts, j - 1, m)
                 PROVE  m * Unit <= Upto(iats, j) /\ Upto(iats, j) <= (m + 1) * Unit
      BY DEF DueInMinute, n
    <2>1. InMinute(counts, j - 1, due[j]) /\ j - 1 \in Int  BY <1>4, <1>11
    <2>2. m = due[j]  BY <1>4, <2>1, MinuteUnique
    <2>3. Upto(iats, j) \in Nat /\ due[j] \in Nat /\ due[j] * Unit <= Upto(iats, j)
          /\ Upto(iats, j) < due[j] * Unit + Unit
      BY <1>5, <1>6
    <2>4. (due[j] + 1) * Unit = due[j] * Unit + Unit /\ due[j] * Unit \in Nat  BY <2>3, UnitIs
    <2> QED BY <2>2, <2>3, <2>4, UnitIs
  <1>13. \A j \in 1 .. n : Upto(iats, j) \div Unit \in Nat
                           /\ InMinute(counts, j - 1, Upto(iats, j) \div Unit)
    BY <1>6, <1>11
  <1> QED BY <1>4, <1>11, <1>12, <1>13 DEF iats, counts, n

\* Of starts in ascending order, the k-th has k - 1 before it.
LEMMA KthDue ==
  ASSUME NEW iats \in Seq(Nat), \A i, j \in 0 .. Len(iats) : i < j => Upto(iats, i) < Upto(iats, j)
  PROVE  LET starts == DueTimes(iats) IN
         /\ Cardinality(starts) = Len(iats)
         /\ \A k \in 1 .. Len(iats) :
              (CHOOSE t \in starts : Cardinality({u \in starts : u < t}) = k - 1) = Upto(iats, k)
  <1> DEFINE n == Len(iats)
             starts == DueTimes(iats)
  <1>0. n \in Nat  OBVIOUS
  <1>1. \A j \in 1 .. n : Upto(iats, j) \in Nat /\ j \in 0 .. n
    <2>1. \A j \in 1 .. n : j \in 0 .. Len(iats)  BY <1>0
    <2> QED BY <2>1, UptoNat
  <1>2. \A i, j \in 1 .. n : i < j => Upto(iats, i) < Upto(iats, j)  BY <1>1
  <1>3. \A i, j \in 1 .. n : Upto(iats, i) < Upto(iats, j) => i < j
    <2> SUFFICES ASSUME NEW i \in 1 .. n, NEW j \in 1 .. n, ~(i < j), Upto(iats, i) < Upto(iats, j)
                 PROVE  FALSE
      OBVIOUS
    <2>1. CASE i = j  BY <1>1, <2>1
    <2>2. CASE i > j
      <3>1. Upto(iats, j) < Upto(iats, i)  BY <1>2, <2>2
      <3> QED BY <1>1, <3>1
    <2> QED BY <1>0, <2>1, <2>2
  <1>4. starts = {Upto(iats, j) : j \in 1 .. n}  BY DEF DueTimes
  <1> HIDE DEF n, starts
  <1>5. ASSUME NEW k \in 0 .. n PROVE Cardinality({Upto(iats, j) : j \in 1 .. k}) = k
    <2> DEFINE f == [j \in 1 .. k |-> Upto(iats, j)]
               R == {Upto(iats, j) : j \in 1 .. k}
    <2>1. \A j \in 1 .. k : j \in 1 .. n  BY <1>0
    <2>2. \A i, j \in 1 .. k : f[i] = f[j] => i = j
      <3> SUFFICES ASSUME NEW i \in 1 .. k, NEW j \in 1 .. k, Upto(iats, i) = Upto(iats, j), i # j
                   PROVE  FALSE
        OBVIOUS
      <3>0. Upto(iats, i) \in Nat /\ Upto(iats, j) \in Nat  BY <1>1, <2>1
      <3>1. CASE i < j
        <4>1. Upto(iats, i) < Upto(iats, j)  BY <1>2, <2>1, <3>1
        <4> QED BY <3>0, <4>1
      <3>2. CASE j < i
        <4>1. Upto(iats, j) < Upto(iats, i)  BY <1>2, <2>1, <3>2
        <4> QED BY <3>0, <4>1
      <3> QED BY <3>1, <3>2
    <2>3. f \in Bijection(1 .. k, R)
      <3>1. f \in [1 .. k -> R]  OBVIOUS
      <3>2. \A t \in R : \E j \in 1 .. k : f[j] = t  OBVIOUS
      <3> HIDE DEF f, R
      <3> QED BY <2>2, <3>1, <3>2 DEF Bijection, Injection, Surjection, IsInjective
    <2>4. ExistsBijection(1 .. k, R)  BY <2>3 DEF ExistsBijection
    <2> HIDE DEF R
    <2>5. k \in Nat  BY <1>0
    <2>6. Cardinality(R) = k  BY <2>4, <2>5, FS_CountingElements
    <2> QED BY <2>6 DEF R
  <1>6. ASSUME NEW k \in 1 .. n
        PROVE  Upto(iats, k) \in starts /\ Cardinality({u \in starts : u < Upto(iats, k)}) = k - 1
    <2>1. {u \in starts : u < Upto(iats, k)} = {Upto(iats, j) : j \in 1 .. k - 1}
      <3>1. ASSUME NEW u \in starts, u < Upto(iats, k) PROVE u \in {Upto(iats, j) : j \in 1 .. k - 1}
        <4>1. PICK j \in 1 .. n : u = Upto(iats, j)  BY <1>4
        <4>2. j < k  BY <1>3, <3>1, <4>1
        <4>3. j \in 1 .. k - 1  BY <1>0, <4>2
        <4> QED BY <4>1, <4>3
      <3>2. ASSUME NEW j \in 1 .. k - 1 PROVE Upto(iats, j) \in starts /\ Upto(iats, j) < Upto(iats, k)
        <4>1. j \in 1 .. n /\ j < k  BY <1>0
        <4> QED BY <1>2, <1>4, <4>1
      <3> QED BY <3>1, <3>2
    <2>2. k - 1 \in 0 .. n  BY <1>0
    <2> QED BY <1>4, <1>5, <2>1, <2>2
  <1>7. Cardinality(starts) = n
    <2>1. n \in 0 .. n  BY <1>0
    <2> QED BY <1>4, <1>5, <2>1
  <1>8. ASSUME NEW k \in 1 .. n
        PROVE  (CHOOSE t \in starts : Cardinality({u \in starts : u < t}) = k - 1) = Upto(iats, k)
    <2> DEFINE P(t) == Cardinality({u \in starts : u < t}) = k - 1
    <2>1. Upto(iats, k) \in starts /\ P(Upto(iats, k))  BY <1>6
    <2>2. ASSUME NEW t \in starts, P(t) PROVE t = Upto(iats, k)
      <3>1. PICK j \in 1 .. n : t = Upto(iats, j)  BY <1>4
      <3>2. Cardinality({u \in starts : u < Upto(iats, j)}) = j - 1  BY <1>6
      <3>3. j - 1 = k - 1  BY <2>2, <3>1, <3>2
      <3>4. j = k  BY <1>0, <3>3
      <3> QED BY <3>1, <3>4
    <2> HIDE DEF P
    <2>3. (CHOOSE t \in starts : P(t)) = Upto(iats, k)  BY <2>1, <2>2
    <2> QED BY <2>3 DEF P
  <1> QED BY <1>7, <1>8 DEF n, starts

\* Sorting keeps the invocations.
LEMMA SortedIs ==
  ASSUME NEW invocations \in Seq(Invocations2021), Len(invocations) > 0,
         NEW slice \in Sorted(invocations), NEW D
  PROVE  /\ SortedSlice(slice)
         /\ StartsOf(slice, Len(slice), D) =
              {inv.start : inv \in {x \in Seqs!Range(invocations) : x.start + x.duration <= D * Unit}}
  <1> DEFINE n == Len(invocations)
  <1>0. n \in Nat /\ n > 0  OBVIOUS
  <1>1. PICK p \in [1 .. n -> 1 .. n] : /\ \A i, j \in 1 .. n : p[i] = p[j] => i = j
                                        /\ slice = [i \in 1 .. n |-> invocations[p[i]]]
    <2>1. PICK p \in {q \in [1 .. n -> 1 .. n] : \A i, j \in DOMAIN q : q[i] = q[j] => i = j} :
             slice = [i \in 1 .. n |-> invocations[p[i]]]
      BY DEF Sorted
    <2>2. DOMAIN p = 1 .. n  BY <2>1
    <2> QED BY <2>1, <2>2
  <1>2. \A i \in 1 .. n : invocations[i] \in Invocations2021  OBVIOUS
  <1>3. slice \in Seq(Invocations2021) /\ Len(slice) = n /\ \A i \in 1 .. n : slice[i] = invocations[p[i]]
    <2>1. \A i \in 1 .. n : invocations[p[i]] \in Invocations2021  BY <1>1, <1>2
    <2> HIDE DEF n
    <2> QED BY <1>0, <1>1, <2>1
  <1>4. \A i \in 2 .. Len(slice) : slice[i - 1].start <= slice[i].start  BY DEF Sorted
  <1>5. SortedSlice(slice)  BY <1>0, <1>3, <1>4 DEF SortedSlice
  <1>6. \A j \in 1 .. n : \E i \in 1 .. n : p[i] = j
    <2>1. p \in Injection(1 .. n, 1 .. n)  BY <1>1 DEF Injection, IsInjective
    <2>2. IsFiniteSet(1 .. n)  BY <1>0, FS_Interval
    <2> HIDE DEF n
    <2>3. p \in Surjection(1 .. n, 1 .. n)  BY <2>1, <2>2, FS_Injection
    <2> QED BY <2>3 DEF Surjection
  <1> DEFINE S == {inv.start : inv \in {x \in Seqs!Range(invocations) : x.start + x.duration <= D * Unit}}
  <1>7. Seqs!Range(invocations) = {invocations[i] : i \in 1 .. n}  BY DEF Seqs!Range
  <1> HIDE DEF n
  <1>8. ASSUME NEW t \in StartsOf(slice, n, D) PROVE t \in S
    <2>1. PICK i \in 1 .. n : EndsInTime(slice[i], D) /\ t = slice[i].start  BY <1>8 DEF StartsOf
    <2>2. slice[i] \in Seqs!Range(invocations)  BY <1>1, <1>3, <1>7
    <2> QED BY <2>1, <2>2 DEF EndsInTime
  <1>9. ASSUME NEW t \in S PROVE t \in StartsOf(slice, n, D)
    <2>1. PICK inv \in Seqs!Range(invocations) : inv.start + inv.duration <= D * Unit /\ t = inv.start
      BY <1>9
    <2>2. PICK j \in 1 .. n : inv = invocations[j]  BY <1>7, <2>1
    <2>3. PICK i \in 1 .. n : p[i] = j  BY <1>6
    <2>4. inv = slice[i]  BY <1>3, <2>2, <2>3
    <2>5. EndsInTime(slice[i], D) /\ t = slice[i].start  BY <2>1, <2>4 DEF EndsInTime
    <2> QED BY <2>5 DEF StartsOf
  <1> HIDE DEF S
  <1>10. StartsOf(slice, n, D) = S  BY <1>8, <1>9
  <1> QED BY <1>3, <1>5, <1>10 DEF S

-----------------------------------------------------------------------------
(***************************************************************************)
(* The inputs.  What depends on the configuration and on the functions is    *)
(* stated of any c and f, for the values before a step and after it.         *)
(***************************************************************************)
Inputs == RpsInputs \cup TraceInputs \cup FunctionInputs \cup Azure2021Inputs \cup TimelineInputs

Directories == [rows : Seq(Seq(Nat)), runtimeStats : Stats, memoryStats : Stats, mapped : BOOLEAN]
FunctionType ==
  [kind : {"trace", "warm", "cold"}, Invocations : Seq(Nat), runtimeStats : Stats, memoryStats : Stats,
   IAT : Seq(Nat), PerMinuteCount : Seq(Nat), specs : Int]

DurationOf(c) == c.warmup + c.minutes
LengthOf(c) == IF c.input = "RPS" THEN minute ELSE Unit
Driveable(c) == c.command = "loader" /\ ~c.DAGMode
RowsOf(c) == Seqs!FlattenSeq([d \in 1 .. Len(c.dirs) |-> c.dirs[d].rows])
FirstRow(c) == parseInvocationTrace(c.dirs[1].rows[1], DurationOf(c))

\* The directories of a trace; only the last of several may be unmapped.  Rows are
\* not longer than the experiment.
TraceInput(c) ==
  /\ c.dirs \in Seq(Directories) /\ Len(c.dirs) \in {1, 2} /\ c.dirs[1].mapped
  /\ c.shift \in BOOLEAN
  /\ \A d \in 1 .. Len(c.dirs) : \A r \in 1 .. Len(c.dirs[d].rows) :
       Len(c.dirs[d].rows[r]) <= FitDuration(DurationOf(c))
  /\ c.DAGMode => c.input = "Azure2019" /\ c.command = "loader" /\ Len(c.dirs[1].rows) >= 1

LEMMA Bounds ==
  /\ MaxCooldown \in Nat /\ MaxCooldown > 0 /\ MaxMinutes \in Nat /\ MaxMinutes > 0
  /\ MaxTraceFunctions \in Nat /\ MaxTraceFunctions > 0 /\ MaxPerMinute \in Nat /\ MaxPerMinute > 0
  /\ Max2021 \in Nat /\ Max2021 > 0 /\ MaxTraceMinutes \in Nat /\ MaxTraceMinutes >= 2
  BY CommandAssumption, ParserAssumption

LEMMA FitIs ==
  ASSUME NEW d \in Int
  PROVE  FitDuration(d) \in Nat /\ FitDuration(d) > 0
  BY Bounds DEF FitDuration

LEMMA RowsAre ==
  ASSUME NEW n \in Nat, NEW max \in Nat, NEW row \in Rows(n, max)
  PROVE  row \in Seq(Nat) /\ Len(row) = n
  <1>1. row \in [1 .. n -> Nat]  BY DEF Rows
  <1> QED BY <1>1

LEMMA FoundIs ==
  ASSUME NEW rows \in Seq(Seq(Nat)), NEW r \in Stats, NEW m \in Stats, NEW mapped \in BOOLEAN
  PROVE  /\ Directory(rows, r, m, mapped) \in Directories
         /\ Directory(rows, r, m, mapped).rows = rows /\ Directory(rows, r, m, mapped).mapped = mapped
         /\ Found(rows) \in Directories /\ Found(rows).rows = rows /\ Found(rows).mapped
  BY DEF Directory, Found, Directories, Stats

LEMMA TraceInputsAre ==
  ASSUME NEW c \in TraceInputs
  PROVE  TraceInput(c) /\ Driveable(c) /\ c.input = "Azure2019"
  <1>1. /\ c.command = "loader" /\ c.input = "Azure2019" /\ c.DAGMode = FALSE /\ c.shift \in BOOLEAN
        /\ c.dirs \in {<<Found(<<row>>)>> : row \in Rows(MaxTraceMinutes, MaxPerMinute)}
        /\ c.minutes + c.warmup \in {MaxTraceMinutes, MaxTraceMinutes + 1}
        /\ c.minutes \in 1 .. MaxTraceMinutes + 1 /\ c.warmup \in 0 .. MaxTraceMinutes
    BY DEF TraceInputs
  <1>2. PICK row \in Rows(MaxTraceMinutes, MaxPerMinute) : c.dirs = <<Found(<<row>>)>>  BY <1>1
  <1>3. row \in Seq(Nat) /\ Len(row) = MaxTraceMinutes  BY Bounds, RowsAre
  <1>4. <<row>> \in Seq(Seq(Nat)) /\ Len(<<row>>) = 1 /\ <<row>>[1] = row  BY <1>3
  <1>5. Found(<<row>>) \in Directories /\ Found(<<row>>).rows = <<row>> /\ Found(<<row>>).mapped
    BY <1>4, FoundIs DEF Stats
  <1>6. FitDuration(DurationOf(c)) = MaxTraceMinutes
    <2>1. c.warmup + c.minutes \in {MaxTraceMinutes, MaxTraceMinutes + 1}  BY <1>1, Bounds
    <2> QED BY <2>1, Bounds DEF FitDuration, DurationOf
  <1>7. c.dirs \in Seq(Directories) /\ Len(c.dirs) = 1 /\ c.dirs[1] = Found(<<row>>)  BY <1>2, <1>5
  <1>8. \A d \in 1 .. Len(c.dirs) : \A r \in 1 .. Len(c.dirs[d].rows) :
          Len(c.dirs[d].rows[r]) <= FitDuration(DurationOf(c))
    <2> SUFFICES ASSUME NEW d \in 1 .. Len(c.dirs), NEW r \in 1 .. Len(c.dirs[d].rows)
                 PROVE  Len(c.dirs[d].rows[r]) <= FitDuration(DurationOf(c))
      OBVIOUS
    <2>1. d = 1  BY <1>7
    <2>2. c.dirs[d].rows = <<row>>  BY <1>5, <1>7, <2>1
    <2>3. r = 1 /\ c.dirs[d].rows[r] = row  BY <1>4, <2>2
    <2> QED BY <1>3, <1>6, <2>3, Bounds
  <1> QED BY <1>1, <1>5, <1>7, <1>8 DEF TraceInput, Driveable

\* The directories of the runs with several functions.
FunctionDirectory(dir) ==
  dir \in Directories /\ \A r \in 1 .. Len(dir.rows) : Len(dir.rows[r]) <= 1

LEMMA FunctionRowsAre ==
  ASSUME NEW n \in Nat, NEW k
  PROVE  /\ FunctionRows(n, k) \in Seq(Seq(Nat)) /\ Len(FunctionRows(n, k)) = n
         /\ \A i \in 1 .. n : Len(FunctionRows(n, k)[i]) = 1
  <1>1. \A i \in 1 .. n : (IF i = k THEN <<0>> ELSE <<1>>) \in Seq(Nat) /\ Len(IF i = k THEN <<0>> ELSE <<1>>) = 1
    OBVIOUS
  <1>2. FunctionRows(n, k) = [i \in 1 .. n |-> IF i = k THEN <<0>> ELSE <<1>>]  BY DEF FunctionRows
  <1> QED BY <1>1, <1>2

LEMMA FunctionDirsAre ==
  ASSUME NEW dirs \in FunctionDirs
  PROVE  /\ dirs \in Seq(Directories) /\ Len(dirs) \in {1, 2} /\ dirs[1].mapped /\ Len(dirs[1].rows) >= 1
         /\ \A d \in 1 .. Len(dirs) : FunctionDirectory(dirs[d])
  <1>0. TRUE \in BOOLEAN /\ "ok" \in Stats  BY DEF Stats
  <1>1. ASSUME NEW n \in Nat, NEW k, n >= 1
        PROVE  LET f == Found(FunctionRows(n, k)) IN
               FunctionDirectory(f) /\ f.mapped /\ Len(f.rows) >= 1
    <2>1. /\ FunctionRows(n, k) \in Seq(Seq(Nat)) /\ Len(FunctionRows(n, k)) = n
          /\ \A i \in 1 .. n : Len(FunctionRows(n, k)[i]) = 1
      BY FunctionRowsAre
    <2> DEFINE f == Found(FunctionRows(n, k))
    <2>2. f \in Directories /\ f.rows = FunctionRows(n, k) /\ f.mapped  BY <1>0, <2>1, FoundIs
    <2> HIDE DEF f
    <2>4. \A i \in 1 .. Len(f.rows) : Len(f.rows[i]) <= 1
      <3>1. \A i \in 1 .. n : Len(f.rows[i]) = 1  BY <2>1, <2>2
      <3>2. Len(f.rows) = n  BY <2>1, <2>2
      <3>3. ASSUME NEW i \in 1 .. Len(f.rows) PROVE Len(f.rows[i]) <= 1
        <4>1. Len(f.rows[i]) = 1  BY <3>1, <3>2
        <4> QED BY ONLY <4>1
      <3> QED BY <3>3
    <2>3. FunctionDirectory(f) /\ f.mapped /\ Len(f.rows) >= 1
      BY <1>1, <2>1, <2>2, <2>4 DEF FunctionDirectory
    <2> QED BY <2>3 DEF f
  <1>2. ASSUME NEW row \in Seq(Nat), Len(row) <= 1, NEW r \in Stats, NEW m \in Stats, NEW mapped \in BOOLEAN
        PROVE  LET f == Directory(<<row>>, r, m, mapped) IN
               FunctionDirectory(f) /\ f.mapped = mapped /\ Len(f.rows) >= 1
    <2>1. row \in Seq(Nat) /\ Len(row) <= 1  BY <1>2
    <2>2. <<row>> \in Seq(Seq(Nat)) /\ Len(<<row>>) = 1 /\ <<row>>[1] = row  BY <2>1
    <2> DEFINE f == Directory(<<row>>, r, m, mapped)
    <2>3. f \in Directories /\ f.rows = <<row>> /\ f.mapped = mapped
      <3> DEFINE rows == <<row>>
      <3>1. rows \in Seq(Seq(Nat)) /\ f = Directory(rows, r, m, mapped)  BY <2>2
      <3> HIDE DEF rows, f
      <3>2. f \in Directories /\ f.rows = rows /\ f.mapped = mapped  BY <3>1, FoundIs
      <3> QED BY <3>2 DEF rows
    <2> HIDE DEF f
    <2>4. \A i \in 1 .. Len(f.rows) : Len(f.rows[i]) <= 1  BY <2>1, <2>2, <2>3
    <2>5. FunctionDirectory(f) /\ f.mapped = mapped /\ Len(f.rows) >= 1
      BY <2>2, <2>3, <2>4 DEF FunctionDirectory
    <2> QED BY <2>5 DEF f
  <1>3. ASSUME NEW f, FunctionDirectory(f), f.mapped, Len(f.rows) >= 1, dirs = <<f>>
        PROVE  /\ dirs \in Seq(Directories) /\ Len(dirs) \in {1, 2} /\ dirs[1].mapped /\ Len(dirs[1].rows) >= 1
               /\ \A d \in 1 .. Len(dirs) : FunctionDirectory(dirs[d])
    <2>1. f \in Directories  BY <1>3 DEF FunctionDirectory
    <2>2. dirs \in Seq(Directories) /\ Len(dirs) = 1 /\ dirs[1] = f  BY <1>3, <2>1
    <2> QED BY <1>3, <2>2
  <1>4. CASE dirs \in SeveralFunctions
    <2>1. PICK n \in 1 .. MaxTraceFunctions, k \in 0 .. 2 : dirs = <<Found(FunctionRows(n, k))>>
      BY <1>4 DEF SeveralFunctions
    <2>2. n \in Nat /\ n >= 1  BY Bounds
    <2> QED BY <1>1, <1>3, <2>1, <2>2
  <1>5. CASE dirs \in TwoDirectories
    <2>1. PICK n \in 1 .. 2, mapped \in BOOLEAN :
            dirs = <<Found(FunctionRows(n, 0)), Directory(<<<<1>>>>, "ok", "ok", mapped)>>
      BY <1>5 DEF TwoDirectories
    <2> DEFINE f == Found(FunctionRows(n, 0))
               g == Directory(<<<<1>>>>, "ok", "ok", mapped)
    <2>2. n \in Nat /\ n >= 1  OBVIOUS
    <2>3. FunctionDirectory(f) /\ f.mapped /\ Len(f.rows) >= 1  BY <1>1, <2>2
    <2>4. FunctionDirectory(g)
      <3>1. <<1>> \in Seq(Nat) /\ Len(<<1>>) <= 1  OBVIOUS
      <3> QED BY <1>0, <1>2, <3>1
    <2> HIDE DEF f, g
    <2>5. dirs = <<f, g>>  BY <2>1 DEF f, g
    <2>6. f \in Directories /\ g \in Directories  BY <2>3, <2>4 DEF FunctionDirectory
    <2>7. dirs \in Seq(Directories) /\ Len(dirs) = 2 /\ dirs[1] = f /\ dirs[2] = g  BY <2>5, <2>6
    <2>8. \A d \in 1 .. Len(dirs) : d = 1 \/ d = 2  BY <2>7
    <2> QED BY <2>3, <2>4, <2>7, <2>8
  <1>6. CASE dirs \in OneFunction
    <2>1. PICK row \in {<<>>, <<0>>, <<1>>}, r \in Stats, m \in Stats : dirs = Single(row, r, m)
      BY ONLY <1>6 DEF OneFunction
    <2> DEFINE f == Directory(<<row>>, r, m, TRUE)
    <2>2. FunctionDirectory(f) /\ f.mapped = TRUE /\ Len(f.rows) >= 1
      <3>1. <<>> \in Seq(Nat) /\ Len(<<>>) <= 1  OBVIOUS
      <3>2. <<0>> \in Seq(Nat) /\ Len(<<0>>) <= 1  OBVIOUS
      <3>3. <<1>> \in Seq(Nat) /\ Len(<<1>>) <= 1  OBVIOUS
      <3>4. row \in Seq(Nat) /\ Len(row) <= 1  BY <3>1, <3>2, <3>3
      <3> QED BY <1>0, <1>2, <3>4
    <2> HIDE DEF f
    <2>3. dirs = <<f>>  BY <2>1 DEF f, Single
    <2> QED BY <1>3, <2>2, <2>3
  <1> QED BY <1>4, <1>5, <1>6 DEF FunctionDirs

LEMMA FunctionInputsAre ==
  ASSUME NEW c \in FunctionInputs
  PROVE  TraceInput(c) /\ c.command = "loader" /\ c.input \in {"Azure2019", "vSwarm"}
         /\ c.DAGMode \in BOOLEAN /\ c.minutes = 1 /\ c.warmup = 0
  <1>1. /\ c.command = "loader" /\ c.input \in {"Azure2019", "vSwarm"} /\ c.dirs \in FunctionDirs
        /\ c.shift \in BOOLEAN /\ c.minutes = 1 /\ c.warmup = 0 /\ c.DAGMode \in BOOLEAN
        /\ (c.DAGMode => c.input = "Azure2019")
    BY DEF FunctionInputs
  <1>2. /\ c.dirs \in Seq(Directories) /\ Len(c.dirs) \in {1, 2} /\ c.dirs[1].mapped /\ Len(c.dirs[1].rows) >= 1
        /\ \A d \in 1 .. Len(c.dirs) : FunctionDirectory(c.dirs[d])
    BY <1>1, FunctionDirsAre
  <1>3. FitDuration(DurationOf(c)) = 1
    <2>1. DurationOf(c) = 1  BY <1>1 DEF DurationOf
    <2> QED BY <2>1, Bounds DEF FitDuration
  <1>4. \A d \in 1 .. Len(c.dirs) : \A r \in 1 .. Len(c.dirs[d].rows) :
          Len(c.dirs[d].rows[r]) <= FitDuration(DurationOf(c))
    BY <1>2, <1>3 DEF FunctionDirectory
  <1> QED BY <1>1, <1>2, <1>4 DEF TraceInput

LEMMA TimelineInputsAre ==
  ASSUME NEW c \in TimelineInputs
  PROVE  TraceInput(c) /\ c.command = "timeline" /\ c.input = "Azure2019" /\ c.DAGMode = FALSE
         /\ c.minutes = 2 /\ c.warmup = 0
  <1>1. /\ c.command = "timeline" /\ c.input = "Azure2019" /\ c.shift = FALSE /\ c.DAGMode = FALSE
        /\ c.dirs \in {BothFunctions(r1, r2) : r1 \in Rows(2, MaxPerMinute), r2 \in Rows(2, MaxPerMinute)}
        /\ c.minutes = 2 /\ c.warmup = 0
    <2>1. c.command = "timeline" /\ c.input = "Azure2019" /\ c.dirs \in TimelineDirs
          /\ c.minutes = 2 /\ c.warmup = 0
      BY DEF TimelineInputs
    <2>2. c.shift = FALSE /\ c.DAGMode = FALSE  BY DEF TimelineInputs
    <2> QED BY <2>1, <2>2 DEF TimelineDirs
  <1>2. PICK r1 \in Rows(2, MaxPerMinute), r2 \in Rows(2, MaxPerMinute) : c.dirs = BothFunctions(r1, r2)
    BY <1>1
  <1>3. r1 \in Seq(Nat) /\ r2 \in Seq(Nat) /\ Len(r1) = 2 /\ Len(r2) = 2  BY Bounds, RowsAre
  <1> DEFINE rows == <<r1, r2>>
  <1>4. rows \in Seq(Seq(Nat)) /\ \A r \in 1 .. Len(rows) : Len(rows[r]) = 2  BY <1>3
  <1> HIDE DEF rows
  <1>5. Found(rows) \in Directories /\ Found(rows).rows = rows /\ Found(rows).mapped  BY <1>4, FoundIs DEF Stats
  <1>6. c.dirs = <<Found(rows)>>  BY <1>2 DEF rows, BothFunctions
  <1>7. c.dirs \in Seq(Directories) /\ Len(c.dirs) = 1 /\ c.dirs[1] = Found(rows)  BY <1>5, <1>6
  <1>8. FitDuration(DurationOf(c)) = 2
    <2>1. DurationOf(c) = 2  BY <1>1 DEF DurationOf
    <2> QED BY <2>1, Bounds DEF FitDuration
  <1>9. \A d \in 1 .. Len(c.dirs) : \A r \in 1 .. Len(c.dirs[d].rows) :
          Len(c.dirs[d].rows[r]) <= FitDuration(DurationOf(c))
    <2> SUFFICES ASSUME NEW d \in 1 .. Len(c.dirs), NEW r \in 1 .. Len(c.dirs[d].rows)
                 PROVE  Len(c.dirs[d].rows[r]) <= 2
      BY <1>8
    <2>1. d = 1  BY <1>7
    <2>2. c.dirs[d].rows = rows  BY <1>5, <1>7, <2>1
    <2>3. Len(c.dirs[d].rows[r]) = 2  BY <1>4, <2>2
    <2> QED BY ONLY <2>3
  <1> QED BY <1>1, <1>5, <1>7, <1>9 DEF TraceInput

LEMMA Inputs2021Are ==
  ASSUME NEW c \in Azure2021Inputs
  PROVE  /\ Driveable(c) /\ c.input = "Azure2021" /\ c.minutes \in {1, 2} /\ c.warmup \in {0, 1}
         /\ c.invocations \in Seq(Invocations2021) /\ Len(c.invocations) > 0
  <1>1. /\ c.command = "loader" /\ c.input = "Azure2021" /\ c.DAGMode = FALSE
        /\ c.minutes \in {1, 2} /\ c.warmup \in {0, 1}
        /\ c.invocations \in UNION {[1 .. n -> [start : Starts, duration : {0, 1}]] : n \in 1 .. Max2021}
    BY DEF Azure2021Inputs
  <1>2. PICK n \in 1 .. Max2021 : c.invocations \in [1 .. n -> [start : Starts, duration : {0, 1}]]
    BY <1>1
  <1>3. [start : Starts, duration : {0, 1}] \subseteq Invocations2021
    <2>1. Starts \subseteq Int  BY UnitIs DEF Starts
    <2>2. ASSUME NEW inv \in [start : Starts, duration : {0, 1}] PROVE inv \in Invocations2021
      <3>0. inv.start \in Starts /\ inv.duration \in {0, 1}  OBVIOUS
      <3>3. inv.start \in Int  BY <2>1, <3>0
      <3>4. inv.duration \in Int  BY <3>0
      <3>1. inv.start \in Int /\ inv.duration \in Int  BY <3>3, <3>4
      <3>2. inv = [start |-> inv.start, duration |-> inv.duration]  OBVIOUS
      <3> QED BY <3>1, <3>2 DEF Invocations2021
    <2> QED BY <2>2
  <1>4. c.invocations \in [1 .. n -> Invocations2021]  BY <1>2, <1>3
  <1>5. n \in Nat /\ n > 0  BY Bounds
  <1>6. c.invocations \in Seq(Invocations2021) /\ Len(c.invocations) = n  BY <1>4, <1>5
  <1> QED BY <1>1, <1>5, <1>6 DEF Driveable

Configured(c) ==
  /\ c.input \in {"RPS", "Azure2019", "vSwarm", "Azure2021"} /\ c.command \in {"loader", "timeline"}
  /\ c.DAGMode \in BOOLEAN /\ c.warmup \in Nat /\ c.minutes \in Nat /\ DurationOf(c) \in Nat
  /\ c.input \in {"Azure2019", "vSwarm"} => TraceInput(c)
  /\ c.input = "RPS" => /\ Driveable(c) /\ c.warm \in WarmRates /\ c.cold \in ColdRates
                        /\ c.cooldown \in Nat /\ c.cooldown > 0
  /\ c.input = "Azure2021" =>
       Driveable(c) /\ c.invocations \in Seq(Invocations2021) /\ Len(c.invocations) > 0
  /\ c.DAGMode => c.input = "Azure2019" /\ c.command = "loader"

LEMMA InputIs ==
  ASSUME NEW c \in Inputs
  PROVE  Configured(c)
  <1>1. CASE c \in RpsInputs
    <2>1. /\ c.command = "loader" /\ c.input = "RPS" /\ c.warm \in WarmRates /\ c.cold \in ColdRates
          /\ c.cooldown \in 1 .. MaxCooldown /\ c.minutes \in 1 .. MaxMinutes /\ c.warmup \in {0, 1}
          /\ c.DAGMode = FALSE
      BY <1>1 DEF RpsInputs
    <2>2. c.cooldown \in Nat /\ c.cooldown > 0 /\ c.minutes \in Nat /\ c.warmup \in Nat  BY <2>1, Bounds
    <2>3. DurationOf(c) \in Nat  BY <2>2 DEF DurationOf
    <2> QED BY <2>1, <2>2, <2>3 DEF Configured, Driveable
  <1>2. CASE c \in TraceInputs
    <2>1. TraceInput(c) /\ Driveable(c) /\ c.input = "Azure2019"  BY <1>2, TraceInputsAre
    <2>4. c.minutes \in 1 .. MaxTraceMinutes + 1 /\ c.warmup \in 0 .. MaxTraceMinutes /\ c.DAGMode = FALSE
      BY <1>2 DEF TraceInputs
    <2>2. c.minutes \in Nat /\ c.warmup \in Nat /\ c.DAGMode = FALSE  BY <2>4, Bounds
    <2>3. DurationOf(c) \in Nat  BY <2>2 DEF DurationOf
    <2> QED BY <2>1, <2>2, <2>3 DEF Configured, Driveable
  <1>3. CASE c \in FunctionInputs
    <2>1. TraceInput(c) /\ c.command = "loader" /\ c.input \in {"Azure2019", "vSwarm"}
          /\ c.DAGMode \in BOOLEAN /\ c.minutes = 1 /\ c.warmup = 0
      BY <1>3, FunctionInputsAre
    <2>2. DurationOf(c) \in Nat  BY <2>1 DEF DurationOf
    <2>3. c.DAGMode => c.input = "Azure2019"  BY <2>1 DEF TraceInput
    <2> QED BY <2>1, <2>2, <2>3 DEF Configured
  <1>4. CASE c \in Azure2021Inputs
    <2>1. /\ Driveable(c) /\ c.input = "Azure2021" /\ c.minutes \in {1, 2} /\ c.warmup \in {0, 1}
          /\ c.invocations \in Seq(Invocations2021) /\ Len(c.invocations) > 0
      BY <1>4, Inputs2021Are
    <2>2. c.DAGMode = FALSE  BY <1>4 DEF Azure2021Inputs
    <2>3. c.minutes \in Nat /\ c.warmup \in Nat /\ DurationOf(c) \in Nat  BY <2>1 DEF DurationOf
    <2> QED BY <2>1, <2>2, <2>3 DEF Configured, Driveable
  <1>5. CASE c \in TimelineInputs
    <2>1. TraceInput(c) /\ c.command = "timeline" /\ c.input = "Azure2019" /\ c.DAGMode = FALSE
          /\ c.minutes = 2 /\ c.warmup = 0
      BY <1>5, TimelineInputsAre
    <2>2. DurationOf(c) \in Nat  BY <2>1 DEF DurationOf
    <2>5. c.DAGMode \in BOOLEAN  BY <2>1, Zenon
    <2>3. c.minutes \in Nat /\ c.warmup \in Nat /\ c.DAGMode \in BOOLEAN  BY <2>1, <2>5
    <2>4. c.input # "RPS" /\ c.input # "Azure2021" /\ ~c.DAGMode  BY <2>1
    <2> QED BY <2>1, <2>2, <2>3, <2>4 DEF Configured
  <1> QED BY <1>1, <1>2, <1>3, <1>4, <1>5 DEF Inputs

-----------------------------------------------------------------------------
(***************************************************************************)
(* The functions of a run, before their specification is generated and       *)
(* after.                                                                   *)
(***************************************************************************)
StartsIn(c) ==
  {inv.start : inv \in {x \in Seqs!Range(c.invocations) : x.start + x.duration <= DurationOf(c) * Unit}}

MinutesOf(c, f, i) ==
  CASE c.input = "RPS" -> [k \in 1 .. Len(f.IAT) |-> timestamp(f.IAT)[k] \div minute]
    [] c.input = "Azure2021" ->
         [k \in 1 .. Cardinality(StartsIn(c)) |->
            (CHOOSE t \in StartsIn(c) : Cardinality({u \in StartsIn(c) : u < t}) = k - 1) \div Unit]
    [] OTHER -> RowMinutes(RowsOf(c)[i])

LEMMA TrueMinutesIs ==
  ASSUME NEW i
  PROVE  TrueMinutes(i) = MinutesOf(cfg, functions[i], i)
  BY DEF TrueMinutes, MinutesOf, StartsIn, InTime, RowsOf, Duration, DurationOf

Pending(c, f, i) ==
  /\ f \in FunctionType /\ f.kind = "trace" /\ f.specs = -1 /\ f.IAT = <<>>
  /\ ~c.DAGMode => f.Invocations = RowsOf(c)[i]
  /\ c.DAGMode /\ i = 1 => f.Invocations = FirstRow(c)

Good(c, f, i) ==
  /\ f \in FunctionType /\ f.specs = Len(f.IAT) /\ Sum(f.PerMinuteCount) = Len(f.IAT)
  /\ DueInMinute(f.IAT, f.PerMinuteCount, LengthOf(c))
  /\ ~c.DAGMode => /\ MinutesOf(c, f, i) \in [1 .. Len(f.IAT) -> Nat]
                   /\ \A k \in 1 .. Len(f.IAT) : InMinute(f.PerMinuteCount, k - 1, MinutesOf(c, f, i)[k])
  /\ f.kind = "cold" => \A k \in 2 .. Len(f.IAT) : f.IAT[k] >= c.cooldown * second
  /\ c.DAGMode => f.specs = Sum(FirstRow(c)) /\ (i = 1 => f.Invocations = FirstRow(c))

LEMMA FunctionFields ==
  ASSUME NEW f \in FunctionType
  PROVE  /\ f.kind \in {"trace", "warm", "cold"} /\ f.Invocations \in Seq(Nat) /\ f.IAT \in Seq(Nat)
         /\ f.PerMinuteCount \in Seq(Nat) /\ f.specs \in Int /\ f.runtimeStats \in Stats
         /\ f.memoryStats \in Stats
  BY DEF FunctionType

LEMMA FunctionIs ==
  ASSUME NEW kind \in {"trace", "warm", "cold"}, NEW invocations \in Seq(Nat), NEW r \in Stats, NEW m \in Stats
  PROVE  /\ Function(kind, invocations, r, m) \in FunctionType
         /\ Function(kind, invocations, r, m).kind = kind
         /\ Function(kind, invocations, r, m).Invocations = invocations
         /\ Function(kind, invocations, r, m).IAT = <<>> /\ Function(kind, invocations, r, m).specs = -1
  BY DEF Function, FunctionType

LEMMA ParsedIs ==
  ASSUME NEW c, Configured(c), TraceInput(c), NEW dir \in Directories, NEW r \in 1 .. Len(dir.rows),
         ~TooShort(dir.rows[r], DurationOf(c))
  PROVE  /\ parseInvocationTrace(dir.rows[r], DurationOf(c)) \in Seq(Nat)
         /\ Len(dir.rows[r]) <= FitDuration(DurationOf(c)) =>
              parseInvocationTrace(dir.rows[r], DurationOf(c)) = dir.rows[r]
  <1> DEFINE row == dir.rows[r]
             d == FitDuration(DurationOf(c))
  <1>1. row \in Seq(Nat)
    <2>1. dir.rows \in Seq(Seq(Nat))  BY DEF Directories
    <2> QED BY <2>1
  <1>2. d \in Nat /\ d > 0  BY FitIs DEF Configured
  <1>3. ~(Len(row) < d) /\ Len(row) \in Nat  BY <1>1 DEF TooShort
  <1>4. parseInvocationTrace(row, DurationOf(c)) = SubSeq(row, 1, d)  BY DEF parseInvocationTrace
  <1> HIDE DEF row, d
  <1>5. SubSeq(row, 1, d) \in Seq(Nat)  BY <1>1, <1>2, <1>3
  <1>6. Len(row) <= d => SubSeq(row, 1, d) = row  BY <1>1, <1>2, <1>3
  <1> QED BY <1>4, <1>5, <1>6 DEF row, d

\* The functions of a directory.
LEMMA ExtractedAre ==
  ASSUME NEW c, Configured(c), TraceInput(c), NEW dir \in Directories,
         \A r \in 1 .. Len(dir.rows) : ~TooShort(dir.rows[r], DurationOf(c)),
         \A r \in 1 .. Len(dir.rows) : Len(dir.rows[r]) <= FitDuration(DurationOf(c))
  PROVE  LET fs == extractFunctions(dir, DurationOf(c)) IN
         /\ fs \in Seq(FunctionType) /\ Len(fs) = Len(dir.rows)
         /\ \A r \in 1 .. Len(fs) :
              /\ fs[r].kind = "trace" /\ fs[r].specs = -1 /\ fs[r].IAT = <<>>
              /\ fs[r].Invocations = parseInvocationTrace(dir.rows[r], DurationOf(c))
              /\ fs[r].Invocations = dir.rows[r]
  <1> DEFINE fs == extractFunctions(dir, DurationOf(c))
             n == Len(dir.rows)
             Parsed(r) == parseInvocationTrace(dir.rows[r], DurationOf(c))
             F(r) == Function("trace", Parsed(r), dir.runtimeStats, dir.memoryStats)
  <1>1. n \in Nat /\ dir.runtimeStats \in Stats /\ dir.memoryStats \in Stats  BY DEF Directories
  <1>2. fs = [r \in 1 .. n |-> F(r)]  BY DEF extractFunctions
  <1> HIDE DEF fs
  <1>3. ASSUME NEW r \in 1 .. n
        PROVE  /\ F(r) \in FunctionType /\ F(r).kind = "trace" /\ F(r).specs = -1 /\ F(r).IAT = <<>>
               /\ F(r).Invocations = Parsed(r)
               /\ Parsed(r) = dir.rows[r]
    <2>1. Parsed(r) \in Seq(Nat) /\ (Len(dir.rows[r]) <= FitDuration(DurationOf(c)) => Parsed(r) = dir.rows[r])
      BY ParsedIs
    <2>2. Parsed(r) = dir.rows[r]  BY <2>1
    <2> HIDE DEF Parsed
    <2> QED BY <1>1, <2>1, <2>2, FunctionIs
  <1> HIDE DEF F, n
  <1>4. fs \in Seq(FunctionType) /\ Len(fs) = n /\ \A r \in 1 .. n : fs[r] = F(r)
    BY <1>1, <1>2, <1>3
  <1>5. ASSUME NEW r \in 1 .. Len(fs)
        PROVE  /\ fs[r].kind = "trace" /\ fs[r].specs = -1 /\ fs[r].IAT = <<>>
               /\ fs[r].Invocations = Parsed(r)
               /\ fs[r].Invocations = dir.rows[r]
    <2>1. r \in 1 .. n /\ fs[r] = F(r)  BY <1>4
    <2> HIDE DEF Parsed
    <2> QED BY <1>3, <2>1
  <1> QED BY <1>4, <1>5 DEF fs, n

\* What the parsers return has no specification, and the rows of the trace.
LEMMA ParsedPending ==
  ASSUME NEW c, Configured(c), TraceInput(c), c.input \in {"Azure2019", "vSwarm"},
         \A d \in 1 .. Len(c.dirs) : \A r \in 1 .. Len(c.dirs[d].rows) : ~TooShort(c.dirs[d].rows[r], DurationOf(c))
  PROVE  LET fs == IF c.input = "vSwarm" THEN ParseDirectories(c.dirs, DurationOf(c))
                   ELSE extractFunctions(c.dirs[1], DurationOf(c)) IN
         /\ fs \in Seq(FunctionType) /\ \A i \in 1 .. Len(fs) : Pending(c, fs[i], i)
         /\ c.DAGMode => Len(fs) >= 1
  <1> DEFINE n == Len(c.dirs)
             D == DurationOf(c)
             E(d) == extractFunctions(c.dirs[d], D)
             fs == IF c.input = "vSwarm" THEN ParseDirectories(c.dirs, D) ELSE E(1)
             Start(f, row) == /\ f.kind = "trace" /\ f.specs = -1 /\ f.IAT = <<>>
                              /\ f.Invocations = row
  <1>1. n \in {1, 2} /\ c.dirs[1].mapped /\ \A d \in 1 .. n : c.dirs[d] \in Directories
    BY DEF TraceInput
  <1>2. ASSUME NEW d \in 1 .. n
        PROVE  /\ E(d) \in Seq(FunctionType) /\ Len(E(d)) = Len(c.dirs[d].rows) /\ c.dirs[d].rows \in Seq(Seq(Nat))
               /\ \A r \in 1 .. Len(E(d)) : Start(E(d)[r], c.dirs[d].rows[r])
               /\ \A r \in 1 .. Len(E(d)) : E(d)[r].Invocations = parseInvocationTrace(c.dirs[d].rows[r], D)
    <2> DEFINE dir == c.dirs[d]
    <2>1. dir \in Directories  BY <1>1
    <2>2. \A r \in 1 .. Len(dir.rows) : Len(dir.rows[r]) <= FitDuration(DurationOf(c))
      BY DEF TraceInput
    <2>3. \A r \in 1 .. Len(dir.rows) : ~TooShort(dir.rows[r], DurationOf(c))  OBVIOUS
    <2>4. dir.rows \in Seq(Seq(Nat))  BY <2>1 DEF Directories
    <2> HIDE DEF dir
    <2>5. /\ extractFunctions(dir, DurationOf(c)) \in Seq(FunctionType)
          /\ Len(extractFunctions(dir, DurationOf(c))) = Len(dir.rows)
          /\ \A r \in 1 .. Len(extractFunctions(dir, DurationOf(c))) :
              /\ extractFunctions(dir, DurationOf(c))[r].kind = "trace"
              /\ extractFunctions(dir, DurationOf(c))[r].specs = -1
              /\ extractFunctions(dir, DurationOf(c))[r].IAT = <<>>
              /\ extractFunctions(dir, DurationOf(c))[r].Invocations = parseInvocationTrace(dir.rows[r], DurationOf(c))
              /\ extractFunctions(dir, DurationOf(c))[r].Invocations = dir.rows[r]
      BY <2>1, <2>2, <2>3, ExtractedAre
    <2> QED BY <2>4, <2>5 DEF dir
  <1>3. ASSUME NEW f \in FunctionType, NEW row, Start(f, row), NEW i, i # 1, row = RowsOf(c)[i]
        PROVE  Pending(c, f, i)
    BY <1>3 DEF Pending
  <1>4. ASSUME NEW f \in FunctionType, NEW row, Start(f, row), row = RowsOf(c)[1],
               f.Invocations = FirstRow(c)
        PROVE  Pending(c, f, 1)
    BY <1>4 DEF Pending
  <1> HIDE DEF Start
  <1> DEFINE rows == [d \in 1 .. n |-> c.dirs[d].rows]
             parts == [d \in 1 .. n |-> IF c.dirs[d].mapped THEN E(d) ELSE <<>>]
  <1>5. RowsOf(c) = Seqs!FlattenSeq(rows) /\ Len(rows) = n /\ \A d \in 1 .. n : rows[d] = c.dirs[d].rows
    <2>1. Len(rows) = n  BY <1>1
    <2> QED BY <2>1 DEF RowsOf
  <1>6. ParseDirectories(c.dirs, D) = Seqs!FlattenSeq(parts) /\ Len(parts) = n
        /\ \A d \in 1 .. n : parts[d] = IF c.dirs[d].mapped THEN E(d) ELSE <<>>
    <2>1. Len(parts) = n  BY <1>1
    <2> QED BY <2>1 DEF ParseDirectories
  <1>7. FirstRow(c) = parseInvocationTrace(c.dirs[1].rows[1], D)  BY DEF FirstRow
  <1>8. 1 \in 1 .. n  BY <1>1
  <1>9. c.DAGMode => c.input # "vSwarm" /\ Len(E(1)) >= 1
    <2>1. c.DAGMode => c.input = "Azure2019" /\ Len(c.dirs[1].rows) >= 1  BY DEF TraceInput
    <2> QED BY <1>2, <1>8, <2>1
  <1> HIDE DEF E, rows, parts, n
  <1>10. parts[1] = E(1) /\ rows[1] = c.dirs[1].rows  BY <1>1, <1>5, <1>6, <1>8
  <1>11. ASSUME \A i \in 1 .. Len(E(1)) : RowsOf(c)[i] = c.dirs[1].rows[i]
         PROVE  \A i \in 1 .. Len(E(1)) : Pending(c, E(1)[i], i)
    <2> SUFFICES ASSUME NEW i \in 1 .. Len(E(1)) PROVE Pending(c, E(1)[i], i)  OBVIOUS
    <2>1. E(1)[i] \in FunctionType /\ Start(E(1)[i], c.dirs[1].rows[i])
      <3>1. E(1) \in Seq(FunctionType)  BY <1>2, <1>8
      <3> QED BY <1>2, <1>8, <3>1
    <2>2. c.dirs[1].rows[i] = RowsOf(c)[i]  BY <1>11
    <2>3. CASE i = 1
      <3>1. E(1)[1].Invocations = FirstRow(c)  BY <1>2, <1>7, <1>8, <2>3
      <3> QED BY <1>4, <2>1, <2>2, <2>3, <3>1
    <2>4. CASE i # 1  BY <1>3, <2>1, <2>2, <2>4
    <2> QED BY <2>3, <2>4
  <1>12. CASE n = 1
    <2>1. RowsOf(c) = c.dirs[1].rows /\ ParseDirectories(c.dirs, D) = E(1)
      BY <1>5, <1>6, <1>10, <1>12, FlattenOne
    <2>2. fs = E(1)  BY <2>1
    <2>3. \A i \in 1 .. Len(E(1)) : Pending(c, E(1)[i], i)  BY <1>11, <2>1
    <2> QED BY <1>2, <1>8, <1>9, <2>2, <2>3 DEF E
  <1>13. CASE n = 2
    <2> DEFINE more == parts[2]
    <2>1. 2 \in 1 .. n  BY <1>13
    <2>2. RowsOf(c) = c.dirs[1].rows \o c.dirs[2].rows
      BY <1>5, <1>10, <1>13, <2>1, FlattenTwo
    <2>3. ParseDirectories(c.dirs, D) = E(1) \o more  BY <1>6, <1>10, <1>13, FlattenTwo
    <2>4. more \in {E(2), <<>>}  BY <1>6, <2>1
    <2> HIDE DEF more
    <2>5. c.dirs[1].rows \in Seq(Seq(Nat)) /\ c.dirs[2].rows \in Seq(Seq(Nat))  BY <1>2, <1>8, <2>1
    <2>6. /\ Len(RowsOf(c)) = Len(c.dirs[1].rows) + Len(c.dirs[2].rows)
          /\ \A k \in 1 .. Len(c.dirs[1].rows) : RowsOf(c)[k] = c.dirs[1].rows[k]
          /\ \A k \in 1 .. Len(c.dirs[2].rows) : RowsOf(c)[Len(c.dirs[1].rows) + k] = c.dirs[2].rows[k]
      <3> DEFINE r1 == c.dirs[1].rows
                 r2 == c.dirs[2].rows
      <3> HIDE DEF r1, r2
      <3>1. r1 \in Seq(Seq(Nat)) /\ r2 \in Seq(Seq(Nat)) /\ RowsOf(c) = r1 \o r2  BY <2>2, <2>5 DEF r1, r2
      <3>2. /\ Len(r1 \o r2) = Len(r1) + Len(r2)
            /\ \A k \in 1 .. Len(r1) : (r1 \o r2)[k] = r1[k]
            /\ \A k \in 1 .. Len(r2) : (r1 \o r2)[Len(r1) + k] = r2[k]
        BY <3>1, Concatenated
      <3> QED BY <3>1, <3>2 DEF r1, r2
    <2>7. /\ Len(E(1)) = Len(c.dirs[1].rows) /\ E(1) \in Seq(FunctionType)
          /\ Len(E(2)) = Len(c.dirs[2].rows) /\ E(2) \in Seq(FunctionType)
          /\ \A r \in 1 .. Len(E(2)) : Start(E(2)[r], c.dirs[2].rows[r])
      BY <1>2, <1>8, <2>1
    <2>8. \A i \in 1 .. Len(E(1)) : Pending(c, E(1)[i], i)  BY <1>11, <2>6, <2>7
    <2>9. CASE c.input # "vSwarm"  BY <1>9, <2>7, <2>8, <2>9 DEF E
    <2>10. CASE c.input = "vSwarm"
      <3> DEFINE a == E(1)
                 all == a \o more
                 N == Len(a)
      <3>1. a \in Seq(FunctionType) /\ more \in Seq(FunctionType) /\ N \in Nat
        <4>1. <<>> \in Seq(FunctionType)  OBVIOUS
        <4>2. more \in Seq(FunctionType)
          <5>1. CASE more = <<>>  BY <4>1, <5>1
          <5>2. CASE more = E(2)  BY <2>7, <5>2
          <5> QED BY <2>4, <5>1, <5>2
        <4>3. E(1) \in Seq(FunctionType) /\ Len(E(1)) \in Nat  BY <2>7
        <4> QED BY <4>2, <4>3
      <3>2. \A k \in 1 .. Len(more) : Start(more[k], c.dirs[2].rows[k]) /\ k \in 1 .. Len(c.dirs[2].rows)
                                      /\ more[k] \in FunctionType
        <4>1. CASE more = <<>>  BY <4>1
        <4>2. CASE more = E(2)
          <5>1. \A k \in 1 .. Len(more) : more[k] \in FunctionType  BY <3>1
          <5> QED BY <2>7, <4>2, <5>1
        <4> QED BY <2>4, <4>1, <4>2
      <3> HIDE DEF a, all, N
      <3>3. /\ all \in Seq(FunctionType) /\ Len(all) = N + Len(more)
            /\ \A k \in 1 .. N : all[k] = a[k]
            /\ \A k \in 1 .. Len(more) : all[N + k] = more[k]
        <4>1. /\ a \o more \in Seq(FunctionType) /\ Len(a \o more) = Len(a) + Len(more)
              /\ \A k \in 1 .. Len(a) : (a \o more)[k] = a[k]
              /\ \A k \in 1 .. Len(more) : (a \o more)[Len(a) + k] = more[k]
          BY <3>1, Concatenated
        <4> QED BY <4>1 DEF all, N
      <3>4. fs = all  BY <2>3, <2>10 DEF all, a
      <3>5. ASSUME NEW i \in 1 .. Len(all) PROVE Pending(c, all[i], i)
        <4>1. CASE i <= N
          <5>1. i \in 1 .. N /\ all[i] = a[i]  BY <3>1, <3>3, <4>1
          <5> QED BY <2>8, <5>1 DEF a, N
        <4>2. CASE i > N
          <5>1. PICK k : k = i - N  OBVIOUS
          <5>2. k \in 1 .. Len(more) /\ i = N + k  BY <3>1, <3>3, <4>2, <5>1
          <5>3. all[i] = more[k]  BY <3>3, <5>2
          <5>4. N = Len(c.dirs[1].rows)  BY <2>7 DEF N, a
          <5>5. RowsOf(c)[i] = c.dirs[2].rows[k]
            <6>1. RowsOf(c)[Len(c.dirs[1].rows) + k] = c.dirs[2].rows[k]  BY <2>6, <3>2, <5>2
            <6> QED BY <5>2, <5>4, <6>1
          <5>6. Start(all[i], c.dirs[2].rows[k]) /\ all[i] \in FunctionType  BY <3>2, <5>2, <5>3
          <5>7. CASE i # 1  BY <1>3, <5>5, <5>6, <5>7
          <5>8. CASE i = 1
            <6>1. ~c.DAGMode  BY <1>9, <2>10
            <6> QED BY <5>5, <5>6, <5>8, <6>1 DEF Pending, Start
          <5> QED BY <5>7, <5>8
        <4> QED BY <3>1, <4>1, <4>2
      <3>6. ~c.DAGMode  BY <1>9, <2>10
      <3> QED BY <3>3, <3>4, <3>5, <3>6 DEF E
    <2> QED BY <2>9, <2>10
  <1> QED BY <1>1, <1>12, <1>13

\* A function of an Azure 2021 trace.
LEMMA Good2021 ==
  ASSUME NEW c, Configured(c), c.input = "Azure2021", NEW slice \in Sorted(c.invocations),
         ~GenerateFunctionSpecification(slice, DurationOf(c)).fatal, NEW i
  PROVE  LET spec == GenerateFunctionSpecification(slice, DurationOf(c)) IN
         Good(c, [Function("trace", <<>>, "nil", "ok") EXCEPT !.IAT = spec.IAT, !.PerMinuteCount = spec.count,
                                                            !.specs = Len(spec.IAT)], i)
  <1> DEFINE D == DurationOf(c)
             spec == GenerateFunctionSpecification(slice, D)
             M == Minutes2021(slice)
             f == Function("trace", <<>>, "nil", "ok")
             g == [f EXCEPT !.IAT = spec.IAT, !.PerMinuteCount = spec.count, !.specs = Len(spec.IAT)]
             iats == spec.IAT
  <1>1. c.invocations \in Seq(Invocations2021) /\ Len(c.invocations) > 0 /\ ~c.DAGMode
    BY DEF Configured, Driveable
  <1>2. SortedSlice(slice) /\ StartsOf(slice, Len(slice), D) = StartsIn(c)
    BY <1>1, SortedIs DEF StartsIn
  <1>3. TakenOf(spec, slice, Len(slice), M, D)  BY <1>2, Specified2021
  <1>4. M \in Nat
    <2> DEFINE t == slice[Len(slice)].start
    <2>1. t \in Int
      <3>1. Len(slice) \in 1 .. Len(slice)  BY <1>2 DEF SortedSlice
      <3> QED BY <1>2, <3>1, LastIsLatest
    <2>2. M = MinuteOf(t) + 1  BY DEF Minutes2021
    <2> HIDE DEF t, M
    <2>3. CASE t < 0  BY <2>1, <2>2, <2>3 DEF MinuteOf
    <2>4. CASE t >= 0
      <3>1. t \div Unit \in Nat  BY <2>1, <2>4, UnitIs, Quotient
      <3> QED BY <2>1, <2>2, <2>4, <3>1 DEF MinuteOf
    <2> QED BY <2>1, <2>3, <2>4
  <1> HIDE DEF spec, M
  <1>5. /\ spec.count \in Seq(Nat) /\ Sum(spec.count) = Len(iats)
        /\ \A j \in 1 .. Len(iats) : Upto(iats, j) \div Unit \in Nat /\ InMinute(spec.count, j - 1, Upto(iats, j) \div Unit)
        /\ DueInMinute(iats, spec.count, Unit)
    BY <1>3, <1>4, Counted2021
  <1>6. /\ iats \in Seq(Nat) /\ StartsIn(c) = DueTimes(iats)
        /\ \A a, b \in 0 .. Len(iats) : a < b => Upto(iats, a) < Upto(iats, b)
    BY <1>2, <1>3 DEF TakenOf
  <1>7. /\ g \in FunctionType /\ g.kind = "trace" /\ g.IAT = iats /\ g.PerMinuteCount = spec.count
        /\ g.specs = Len(iats)
    <2>1. iats \in Seq(Nat) /\ spec.count \in Seq(Nat) /\ Len(iats) \in Int  BY <1>5, <1>6
    <2> HIDE DEF iats
    <2>2. f \in FunctionType /\ f.kind = "trace"
      <3>1. <<>> \in Seq(Nat) /\ "nil" \in Stats /\ "ok" \in Stats  BY DEF Stats
      <3>2. "trace" \in {"trace", "warm", "cold"}  OBVIOUS
      <3> QED BY ONLY <3>1, <3>2 DEF Function, FunctionType
    <2>3. g = [f EXCEPT !.IAT = iats, !.PerMinuteCount = spec.count, !.specs = Len(iats)]  BY DEF iats
    <2> HIDE DEF f, g
    <2> QED BY <2>1, <2>2, <2>3 DEF FunctionType
  <1> HIDE DEF iats
  <1>8. MinutesOf(c, g, i) = [k \in 1 .. Len(iats) |-> Upto(iats, k) \div Unit]
    <2> DEFINE S == StartsIn(c)
    <2>1. MinutesOf(c, g, i) = [k \in 1 .. Cardinality(S) |->
             (CHOOSE t \in S : Cardinality({u \in S : u < t}) = k - 1) \div Unit]
      BY DEF MinutesOf
    <2>2. Cardinality(S) = Len(iats)
          /\ \A k \in 1 .. Len(iats) : (CHOOSE t \in S : Cardinality({u \in S : u < t}) = k - 1) = Upto(iats, k)
      <3> HIDE DEF S
      <3>1. S = DueTimes(iats)  BY <1>6 DEF S
      <3> QED BY <1>6, <3>1, KthDue
    <2> HIDE DEF S
    <2> QED BY <2>1, <2>2
  <1> HIDE DEF g
  <1>9. MinutesOf(c, g, i) \in [1 .. Len(iats) -> Nat]
        /\ \A k \in 1 .. Len(iats) : InMinute(spec.count, k - 1, MinutesOf(c, g, i)[k])
    BY <1>5, <1>8
  <1>10. LengthOf(c) = Unit  BY DEF LengthOf
  <1>11. Good(c, g, i)  BY <1>1, <1>5, <1>7, <1>9, <1>10 DEF Good
  <1> QED BY <1>11 DEF g, spec

\* A function for requests per second.
LEMMA GoodRps ==
  ASSUME NEW c, Configured(c), c.input = "RPS", NEW kind \in {"warm", "cold"}, NEW iats \in Seq(Nat),
         InRange(DurationOf(c), iats), NEW i,
         kind = "cold" => \A k \in 2 .. Len(iats) : iats[k] >= c.cooldown * second
  PROVE  LET count == countNumberOfInvocationsPerMinute(DurationOf(c), iats) IN
         Good(c, [Function(kind, count, IF kind = "warm" THEN "ok" ELSE "nil", "ok") EXCEPT
                    !.IAT = iats, !.PerMinuteCount = count, !.specs = Len(iats)], i)
  <1> DEFINE D == DurationOf(c)
             count == countNumberOfInvocationsPerMinute(D, iats)
             stats == IF kind = "warm" THEN "ok" ELSE "nil"
             f == Function(kind, count, stats, "ok")
             g == [f EXCEPT !.IAT = iats, !.PerMinuteCount = count, !.specs = Len(iats)]
  <1>1. D \in Nat /\ ~c.DAGMode  BY DEF Configured, Driveable
  <1>2. /\ count \in Seq(Nat) /\ Sum(count) = Len(iats)
        /\ \A k \in 1 .. Len(iats) : timestamp(iats)[k] \div minute \in Nat
                                     /\ InMinute(count, k - 1, timestamp(iats)[k] \div minute)
        /\ DueInMinute(iats, count, minute)
    BY <1>1, RpsCounted
  <1> HIDE DEF count
  <1>3. /\ g \in FunctionType /\ g.kind = kind /\ g.IAT = iats /\ g.PerMinuteCount = count
        /\ g.specs = Len(iats)
    <2>1. f \in FunctionType /\ f.kind = kind
      <3>1. stats \in Stats /\ "ok" \in Stats  BY DEF Stats
      <3> HIDE DEF stats
      <3> QED BY <1>2, <3>1, FunctionIs
    <2>2. Len(iats) \in Int  OBVIOUS
    <2> HIDE DEF f
    <2> QED BY <1>2, <2>1, <2>2 DEF FunctionType
  <1> HIDE DEF g
  <1>4. MinutesOf(c, g, i) = [k \in 1 .. Len(iats) |-> timestamp(iats)[k] \div minute]
    BY <1>3 DEF MinutesOf
  <1>5. MinutesOf(c, g, i) \in [1 .. Len(iats) -> Nat]
        /\ \A k \in 1 .. Len(iats) : InMinute(count, k - 1, MinutesOf(c, g, i)[k])
    BY <1>2, <1>4
  <1>6. LengthOf(c) = minute  BY DEF LengthOf
  <1>7. Good(c, g, i)  BY <1>1, <1>2, <1>3, <1>5, <1>6 DEF Good
  <1> QED BY <1>7 DEF g, count

\* A function of an Azure 2019 or vSwarm trace, with what has been generated.
LEMMA GoodGenerated ==
  ASSUME NEW c, Configured(c), c.input \in {"Azure2019", "vSwarm"}, NEW i, NEW f, Pending(c, f, i),
         NEW iats, NEW counts, Spread(iats, counts), NEW invocations \in Seq(Nat), counts = invocations,
         ~c.DAGMode => invocations = f.Invocations, c.DAGMode => invocations = FirstRow(c)
  PROVE  Good(c, [f EXCEPT !.Invocations = invocations, !.IAT = DropLast(iats),
                           !.PerMinuteCount = counts, !.specs = Sum(counts)], i)
  <1> DEFINE drop == DropLast(iats)
             g == [f EXCEPT !.Invocations = invocations, !.IAT = drop, !.PerMinuteCount = counts, !.specs = Sum(counts)]
  <1>1. drop \in Seq(Nat) /\ Len(drop) = Sum(counts) /\ DueInMinute(drop, counts, Unit)  BY SpreadDropped
  <1>2. counts \in Seq(Nat) /\ Sum(counts) \in Nat  BY UptoNat
  <1> HIDE DEF drop
  <1>3. /\ g \in FunctionType /\ g.kind = "trace" /\ g.Invocations = invocations /\ g.IAT = drop
        /\ g.PerMinuteCount = counts /\ g.specs = Sum(counts)
    <2>1. f \in FunctionType /\ f.kind = "trace"  BY DEF Pending
    <2>2. Sum(counts) \in Int  BY <1>2
    <2> DEFINE n == Sum(counts)
               h == [f EXCEPT !.Invocations = invocations, !.IAT = drop, !.PerMinuteCount = counts, !.specs = n]
    <2>3. n \in Int  BY <2>2
    <2> HIDE DEF n
    <2>4. /\ h \in FunctionType /\ h.kind = f.kind /\ h.Invocations = invocations /\ h.IAT = drop
          /\ h.PerMinuteCount = counts /\ h.specs = n
      BY ONLY <1>1, <1>2, <2>1, <2>3, invocations \in Seq(Nat) DEF FunctionType
    <2> HIDE DEF h
    <2>5. g = h  BY DEF h, n
    <2> QED BY <2>1, <2>4, <2>5 DEF n
  <1> HIDE DEF g
  <1>4. ASSUME ~c.DAGMode
        PROVE  /\ MinutesOf(c, g, i) \in [1 .. Len(drop) -> Nat]
               /\ \A k \in 1 .. Len(drop) : InMinute(counts, k - 1, MinutesOf(c, g, i)[k])
    <2>1. RowsOf(c)[i] = counts  BY <1>4 DEF Pending
    <2>2. MinutesOf(c, g, i) = RowMinutes(counts)  BY <2>1 DEF MinutesOf
    <2>3. /\ RowMinutes(counts) \in Seq(Nat) /\ Len(RowMinutes(counts)) = Sum(counts)
          /\ \A k \in 1 .. Sum(counts) : InMinute(counts, k - 1, RowMinutes(counts)[k])
      BY <1>2, RowMinutesAre
    <2> QED BY <1>1, <2>2, <2>3
  <1>5. LengthOf(c) = Unit  BY DEF LengthOf
  <1>6. Good(c, g, i)  BY <1>1, <1>3, <1>4, <1>5 DEF Good
  <1> QED BY <1>6 DEF g, drop

-----------------------------------------------------------------------------
(***************************************************************************)
(* The inductive invariant                                                  *)
(***************************************************************************)
Phases == {"start", "parse", "generate", "warm", "cold", "files", "driver", "run", "loop",
           "timeline", "walk", "done", "exited", "fatal", "panic"}

\* Which phase the command is in depends on its input.
PhaseInv ==
  /\ phase \in Phases
  /\ phase \in {"warm", "cold"} => cfg.input = "RPS"
  /\ phase = "cold" => Len(functions) >= 1
  /\ phase = "generate" => cfg.input \in {"Azure2019", "vSwarm"}
  /\ phase \in {"files", "driver", "run", "loop"} => cfg.command = "loader"
  /\ cfg.DAGMode /\ phase \in {"generate", "files", "driver", "run"} => Len(functions) >= 1
  /\ driven \in 0 .. Len(functions)
  /\ driven # 0 => phase \in {"loop", "done"} /\ Driveable(cfg)
  /\ phase = "loop" => driven # 0 /\ functions[driven].IAT # <<>>

FunctionsInv ==
  /\ functions \in Seq(FunctionType)
  /\ \A i \in 1 .. Len(functions) :
       \/ Good(cfg, functions[i], i)
       \/ phase \in {"generate", "fatal", "panic"} /\ Pending(cfg, functions[i], i)

\* The loop has not been entered.
LoopIdle ==
  /\ iatIndex = 0 /\ minuteIndex = 0 /\ minuteIndexEnd = 0 /\ sinceMinute = 0
  /\ currentPhase = "execution" /\ previousIATSum = 0 /\ now = 0 /\ fired = NothingFired

\* Missing, Current and InvocationsOf, of any functions.
MissingIn(fs) == {i \in 1 .. Len(fs) : fs[i].specs = -1}
CurrentIn(fs) == CHOOSE i \in MissingIn(fs) : \A j \in MissingIn(fs) : i <= j
InvocationsIn(c, fs, i) == IF c.DAGMode THEN fs[1].Invocations ELSE fs[i].Invocations

\* While a function is generated: the minutes so far are the first ones of it.
GenerateInv ==
  phase = "generate" =>
    LET invocations == InvocationsIn(cfg, functions, CurrentIn(functions)) IN
    /\ LoopIdle /\ Spread(IAT, pmc)
    /\ MissingIn(functions) = {} => IAT = <<0>> /\ pmc = <<>>
    /\ MissingIn(functions) # {} => /\ Len(pmc) <= Len(invocations)
                                    /\ \A k \in 1 .. Len(pmc) : pmc[k] = invocations[k]

IdleInv ==
  phase # "generate" /\ (driven = 0 \/ functions[driven].IAT = <<>>) =>
    LoopIdle /\ IAT = <<0>> /\ pmc = <<>>

\* The invocation fired last.
FiredRight ==
  /\ fired.index = iatIndex - 1
  /\ InMinute(pmc, fired.index, fired.minute)
  /\ fired.inv = fired.index - Upto(pmc, fired.minute)
  /\ fired.phase = "warmup" <=> fired.minute < cfg.warmup

\* In the loop: the variables belong to the invocation that is next.
Position ==
  iatIndex < Len(IAT) =>
    /\ InMinute(pmc, iatIndex, minuteIndex)
    /\ minuteIndexEnd = Upto(pmc, minuteIndex + 1) - 1
    /\ sinceMinute = iatIndex - Upto(pmc, minuteIndex)

Clock ==
  /\ previousIATSum \in Nat /\ now \in Nat /\ now >= previousIATSum
  /\ Fraction * previousIATSum <= Upto(IAT, iatIndex)
  /\ Upto(IAT, iatIndex) + iatIndex <= Fraction * (previousIATSum + iatIndex)

Driving ==
  /\ IAT = functions[driven].IAT /\ pmc = functions[driven].PerMinuteCount
  /\ iatIndex \in 0 .. Len(IAT)
  /\ minuteIndex \in Nat /\ minuteIndexEnd \in Nat /\ sinceMinute \in Nat
  /\ currentPhase \in {"warmup", "execution"}
  /\ currentPhase = "execution" => minuteIndex >= cfg.warmup
  /\ Position /\ Clock
  /\ IF iatIndex = 0 THEN fired = NothingFired ELSE FiredRight

DriverInv ==
  driven # 0 /\ functions[driven].IAT # <<>> =>
    Driving /\ (phase = "done" => iatIndex = Len(IAT))

CommandInv ==
  /\ Configured(cfg) /\ PhaseInv /\ FunctionsInv /\ GenerateInv /\ IdleInv /\ DriverInv

LEMMA SameSequence ==
  ASSUME NEW s \in Seq(Nat), NEW t \in Seq(Nat), Len(s) = Len(t), \A k \in 1 .. Len(s) : s[k] = t[k]
  PROVE  s = t
  <1>1. s = [k \in 1 .. Len(s) |-> s[k]] /\ t = [k \in 1 .. Len(t) |-> t[k]]  OBVIOUS
  <1> QED BY <1>1

LEMMA MissingIs == Missing = MissingIn(functions)
  BY DEF Missing, MissingIn

LEMMA CurrentIs == Current = CurrentIn(functions)
  BY DEF Current, CurrentIn, Missing, MissingIn

LEMMA InvocationsAre ==
  ASSUME NEW i
  PROVE  InvocationsOf(i) = InvocationsIn(cfg, functions, i)
  BY DEF InvocationsOf, InvocationsIn

\* The first function without a specification.
LEMMA CurrentIsMissing ==
  ASSUME NEW fs \in Seq(FunctionType), MissingIn(fs) # {}, NEW c
  PROVE  /\ CurrentIn(fs) \in 1 .. Len(fs) /\ fs[CurrentIn(fs)].specs = -1
         /\ InvocationsIn(c, fs, CurrentIn(fs)) \in Seq(Nat)
  <1>1. MissingIn(fs) \subseteq Nat  BY DEF MissingIn
  <1>2. \E i \in MissingIn(fs) : \A j \in MissingIn(fs) : i <= j  BY <1>1, Least
  <1>3. CurrentIn(fs) \in MissingIn(fs)  BY <1>2 DEF CurrentIn
  <1>4. CurrentIn(fs) \in 1 .. Len(fs) /\ fs[CurrentIn(fs)].specs = -1  BY <1>3 DEF MissingIn
  <1>5. \A i \in 1 .. Len(fs) : fs[i].Invocations \in Seq(Nat)
    <2>1. \A i \in 1 .. Len(fs) : fs[i] \in FunctionType  OBVIOUS
    <2> QED BY <2>1, FunctionFields
  <1>6. 1 \in 1 .. Len(fs)  BY <1>4
  <1> QED BY <1>4, <1>5, <1>6 DEF InvocationsIn

LEMMA GoodIsNotMissing ==
  ASSUME NEW c, NEW f, NEW i
  PROVE  /\ Good(c, f, i) => f.specs # -1 /\ f \in FunctionType
         /\ Pending(c, f, i) => f.specs = -1 /\ f \in FunctionType
  <1>1. ASSUME Good(c, f, i) PROVE f.specs # -1
    <2>1. f.IAT \in Seq(Nat) /\ f.specs = Len(f.IAT)  BY <1>1, FunctionFields DEF Good
    <2>2. Len(f.IAT) \in Nat  BY <2>1
    <2> QED BY <2>1, <2>2
  <1> QED BY <1>1 DEF Good, Pending

\* The invariant holds for every configuration the command can be given.
THEOREM CommandInitial == Init => CommandInv
  <1> SUFFICES ASSUME Init PROVE CommandInv  OBVIOUS
  <1>1. cfg \in Inputs  BY DEF Init, Inputs
  <1>2. Configured(cfg)  BY <1>1, InputIs
  <1>3. phase = "start" /\ functions = <<>> /\ driven = 0  BY DEF Init
  <1>4. PhaseInv  BY <1>3 DEF PhaseInv, Phases
  <1>5. FunctionsInv  BY <1>3 DEF FunctionsInv
  <1>6. GenerateInv  BY <1>3 DEF GenerateInv
  <1>7. IdleInv  BY DEF Init, ScheduleInit, IdleInv, LoopIdle
  <1>8. DriverInv  BY <1>3 DEF DriverInv
  <1> QED BY <1>2, <1>4, <1>5, <1>6, <1>7, <1>8 DEF CommandInv

\* Steps that leave the functions and the loop alone.
LEMMA Frame ==
  ASSUME CommandInv, UNCHANGED <<cfg, functions, driven, scheduleVars>>, PhaseInv',
         phase' = "generate" => phase = "generate",
         phase = "generate" /\ phase' # "generate" => MissingIn(functions) = {},
         phase \in {"fatal", "panic"} => phase' = phase,
         phase' = "done" /\ phase # "done" /\ driven # 0 => iatIndex = Len(IAT)
  PROVE  CommandInv'
  <1>0. /\ cfg' = cfg /\ functions' = functions /\ driven' = driven
        /\ IAT' = IAT /\ pmc' = pmc /\ iatIndex' = iatIndex /\ minuteIndex' = minuteIndex
        /\ minuteIndexEnd' = minuteIndexEnd /\ sinceMinute' = sinceMinute /\ currentPhase' = currentPhase
        /\ previousIATSum' = previousIATSum /\ now' = now /\ fired' = fired
    BY DEF scheduleVars, specificationVars, loopVars
  <1>1. Configured(cfg')  BY <1>0 DEF CommandInv
  <1>2. FunctionsInv'
    <2>1. functions \in Seq(FunctionType)  BY DEF CommandInv, FunctionsInv
    <2>2. ASSUME NEW i \in 1 .. Len(functions)
          PROVE  \/ Good(cfg, functions[i], i)
                 \/ phase' \in {"generate", "fatal", "panic"} /\ Pending(cfg, functions[i], i)
      <3>1. CASE Good(cfg, functions[i], i)  BY <3>1
      <3>2. CASE phase \in {"generate", "fatal", "panic"} /\ Pending(cfg, functions[i], i)
        <4>1. functions[i].specs = -1  BY <3>2, GoodIsNotMissing
        <4>2. MissingIn(functions) # {}  BY <4>1 DEF MissingIn
        <4> QED BY <3>2, <4>2
      <3> QED BY <3>1, <3>2 DEF CommandInv, FunctionsInv
    <2> QED BY <1>0, <2>1, <2>2 DEF FunctionsInv
  <1>3. GenerateInv'  BY <1>0 DEF CommandInv, GenerateInv, LoopIdle
  <1>4. IdleInv'
    <2> SUFFICES ASSUME phase' # "generate", driven = 0 \/ functions[driven].IAT = <<>>
                 PROVE  LoopIdle /\ IAT = <<0>> /\ pmc = <<>>
      BY <1>0 DEF IdleInv, LoopIdle
    <2>1. CASE phase = "generate"  BY <2>1 DEF CommandInv, GenerateInv
    <2>2. CASE phase # "generate"  BY <2>2 DEF CommandInv, IdleInv
    <2> QED BY <2>1, <2>2
  <1>5. DriverInv'
    <2> SUFFICES ASSUME driven # 0, functions[driven].IAT # <<>>
                 PROVE  Driving' /\ (phase' = "done" => iatIndex' = Len(IAT'))
      BY <1>0 DEF DriverInv
    <2>1. Driving /\ (phase = "done" => iatIndex = Len(IAT))  BY DEF CommandInv, DriverInv
    <2>2. Driving'  BY <1>0, <2>1 DEF Driving, Position, Clock, FiredRight
    <2> QED BY <1>0, <2>1, <2>2
  <1> QED BY <1>1, <1>2, <1>3, <1>4, <1>5 DEF CommandInv

\* The functions and the loop stay as they are.
QuietNext ==
  \/ InvalidInput \/ DetermineInput \/ AllGenerated \/ RpsGenerated
  \/ ReadOrWriteSpecificationToFile \/ RunExperiment \/ internalRunDAGs \/ EndLoop
  \/ GenerateLoad \/ TimelineStep \/ TimelineEnds \/ Stop \/ UNCHANGED vars

LEMMA QuietSteps ==
  ASSUME CommandInv, QuietNext
  PROVE  CommandInv'
  <1>0. PhaseInv /\ Configured(cfg)  BY DEF CommandInv
  <1>1. UNCHANGED <<cfg, functions, driven, scheduleVars>>
    BY DEF QuietNext, InvalidInput, DetermineInput, AllGenerated, RpsGenerated,
           ReadOrWriteSpecificationToFile, RunExperiment, internalRunDAGs, EndLoop, GenerateLoad,
           TimelineStep, TimelineEnds, Stop, vars, commandVars, otherVars
  <1>2. ASSUME PhaseInv', phase' = "generate" => phase = "generate",
               phase = "generate" /\ phase' # "generate" => MissingIn(functions) = {},
               phase \in {"fatal", "panic"} => phase' = phase,
               phase' = "done" /\ phase # "done" /\ driven # 0 => iatIndex = Len(IAT)
        PROVE  CommandInv'
    BY <1>1, <1>2, Frame
  <1>3. driven # 0 => phase \in {"loop", "done"}  BY <1>0 DEF PhaseInv
  <1>4. CASE InvalidInput
    <2>1. phase \in {"start", "parse", "warm", "driver"} /\ phase' = "fatal"  BY <1>4 DEF InvalidInput, End
    <2>2. PhaseInv'  BY <1>0, <1>1, <2>1 DEF PhaseInv, Phases
    <2> QED BY <1>2, <2>1, <2>2
  <1>5. CASE DetermineInput
    <2>1. phase = "start" /\ phase' = IF cfg.input = "RPS" THEN "warm" ELSE "parse"  BY <1>5 DEF DetermineInput
    <2>2. PhaseInv'  BY <1>0, <1>1, <2>1 DEF PhaseInv, Phases
    <2> QED BY <1>2, <2>1, <2>2
  <1>6. CASE AllGenerated
    <2>1. /\ phase = "generate" /\ Missing = {}
          /\ phase' = IF cfg.command = "timeline" THEN "timeline" ELSE "files"
      BY <1>6 DEF AllGenerated
    <2>2. MissingIn(functions) = {}  BY <2>1, MissingIs
    <2>3. cfg.command \in {"loader", "timeline"}  BY <1>0 DEF Configured
    <2>4. PhaseInv'  BY <1>0, <1>1, <2>1, <2>3 DEF PhaseInv, Phases
    <2> QED BY <1>2, <2>1, <2>2, <2>4
  <1>7. CASE RpsGenerated
    <2>1. phase = "cold" /\ phase' = "files"  BY <1>7 DEF RpsGenerated
    <2>2. cfg.command = "loader" /\ ~cfg.DAGMode  BY <1>0, <2>1 DEF PhaseInv, Configured, Driveable
    <2>3. PhaseInv'  BY <1>0, <1>1, <2>1, <2>2 DEF PhaseInv, Phases
    <2> QED BY <1>2, <2>1, <2>3
  <1>8. CASE ReadOrWriteSpecificationToFile
    <2>1. phase = "files" /\ phase' \in {"fatal", "exited", "driver"}
      BY <1>8 DEF ReadOrWriteSpecificationToFile, End
    <2>2. PhaseInv'  BY <1>0, <1>1, <2>1 DEF PhaseInv, Phases
    <2> QED BY <1>2, <2>1, <2>2
  <1>9. CASE RunExperiment
    <2>1. phase = "driver" /\ phase' \in {"exited", "run", "panic"}  BY <1>9 DEF RunExperiment
    <2>2. PhaseInv'  BY <1>0, <1>1, <2>1 DEF PhaseInv, Phases
    <2> QED BY <1>2, <2>1, <2>2
  <1>10. CASE EndLoop
    <2>1. phase = "loop" /\ phase' = "done" /\ iatIndex = Len(IAT)  BY <1>10 DEF EndLoop
    <2>2. PhaseInv'  BY <1>0, <1>1, <2>1 DEF PhaseInv, Phases
    <2> QED BY <1>2, <2>1, <2>2
  <1>11. CASE GenerateLoad
    <2>1. phase = "timeline" /\ phase' \in {"fatal", "walk"}  BY <1>11 DEF GenerateLoad, End
    <2>2. PhaseInv'  BY <1>0, <1>1, <2>1 DEF PhaseInv, Phases
    <2> QED BY <1>2, <2>1, <2>2
  <1>12. CASE TimelineEnds
    <2>1. phase = "walk" /\ phase' = "done"  BY <1>12 DEF TimelineEnds
    <2>2. PhaseInv'  BY <1>0, <1>1, <2>1 DEF PhaseInv, Phases
    <2> QED BY <1>2, <1>3, <2>1, <2>2
  <1>13. CASE phase' = phase
    <2>1. PhaseInv'  BY <1>0, <1>1, <1>13 DEF PhaseInv
    <2> QED BY <1>2, <1>13, <2>1
  <1>14. internalRunDAGs \/ TimelineStep \/ Stop \/ UNCHANGED vars => phase' = phase
    BY DEF internalRunDAGs, TimelineStep, Stop, vars, commandVars
  <1> QED BY <1>4, <1>5, <1>6, <1>7, <1>8, <1>9, <1>10, <1>11, <1>12, <1>13, <1>14 DEF QuietNext

\* Nothing is generated or driven yet.
LEMMA IdleBefore ==
  ASSUME CommandInv, phase \notin {"generate", "loop", "done"}
  PROVE  driven = 0 /\ LoopIdle /\ IAT = <<0>> /\ pmc = <<>>
  BY DEF CommandInv, PhaseInv, IdleInv

\* Steps that make functions, while nothing is driven.
LEMMA MakesFunctions ==
  ASSUME CommandInv, phase \notin {"generate", "loop", "done"}, UNCHANGED <<cfg, driven, scheduleVars>>,
         PhaseInv', FunctionsInv', phase' \notin {"loop", "done"}
  PROVE  CommandInv'
  <1>0. /\ cfg' = cfg /\ driven' = driven
        /\ IAT' = IAT /\ pmc' = pmc /\ iatIndex' = iatIndex /\ minuteIndex' = minuteIndex
        /\ minuteIndexEnd' = minuteIndexEnd /\ sinceMinute' = sinceMinute /\ currentPhase' = currentPhase
        /\ previousIATSum' = previousIATSum /\ now' = now /\ fired' = fired
    BY DEF scheduleVars, specificationVars, loopVars
  <1>1. driven = 0 /\ LoopIdle /\ IAT = <<0>> /\ pmc = <<>>  BY IdleBefore
  <1>2. Configured(cfg')  BY <1>0 DEF CommandInv
  <1>3. LoopIdle'  BY <1>0, <1>1 DEF LoopIdle
  <1>4. GenerateInv'
    <2>1. Spread(IAT', pmc')  BY <1>0, <1>1, SpreadInit
    <2>2. functions' \in Seq(FunctionType)  BY DEF FunctionsInv
    <2> DEFINE invocations == InvocationsIn(cfg', functions', CurrentIn(functions'))
    <2>3. MissingIn(functions') # {} => invocations \in Seq(Nat)  BY <2>2, CurrentIsMissing
    <2> HIDE DEF invocations
    <2>4. Len(pmc') = 0  BY <1>0, <1>1
    <2>5. MissingIn(functions') # {} => Len(pmc') <= Len(invocations)
                                        /\ \A k \in 1 .. Len(pmc') : pmc'[k] = invocations[k]
      BY <2>3, <2>4
    <2> QED BY <1>0, <1>1, <1>3, <2>1, <2>5 DEF GenerateInv, invocations
  <1>5. IdleInv'  BY <1>0, <1>1, <1>3 DEF IdleInv
  <1>6. DriverInv'  BY <1>0, <1>1 DEF DriverInv
  <1> QED BY <1>2, <1>4, <1>5, <1>6 DEF CommandInv

LEMMA ParseTraceStep ==
  ASSUME CommandInv, ParseTrace
  PROVE  CommandInv'
  <1>0. PhaseInv /\ Configured(cfg) /\ FunctionsInv  BY DEF CommandInv
  <1>1. /\ phase = "parse" /\ cfg.input \in {"Azure2019", "vSwarm"} /\ cfg' = cfg /\ driven' = driven
        /\ scheduleVars' = scheduleVars
    BY DEF ParseTrace, otherVars
  <1>2. TraceInput(cfg)  BY <1>0, <1>1 DEF Configured
  <1>3. driven = 0  BY <1>1, IdleBefore
  <1>4. CASE phase' = "panic" /\ functions' = functions
    <2>1. PhaseInv'  BY <1>0, <1>1, <1>4 DEF PhaseInv, Phases
    <2> QED BY <1>1, <1>4, <2>1, Frame
  <1>5. CASE ~(phase' = "panic" /\ functions' = functions)
    <2> DEFINE fs == IF cfg.input = "vSwarm" THEN ParseDirectories(cfg.dirs, DurationOf(cfg))
                     ELSE extractFunctions(cfg.dirs[1], DurationOf(cfg))
    <2>1. /\ phase' = "generate" /\ functions' = fs
          /\ ~ \E i \in 1 .. Len(cfg.dirs) : \E r \in 1 .. Len(cfg.dirs[i].rows) :
                 TooShort(cfg.dirs[i].rows[r], DurationOf(cfg))
      BY <1>5 DEF ParseTrace, End, Duration, DurationOf
    <2>2. \A d \in 1 .. Len(cfg.dirs) : \A r \in 1 .. Len(cfg.dirs[d].rows) :
            ~TooShort(cfg.dirs[d].rows[r], DurationOf(cfg))
      BY <2>1
    <2>3. /\ fs \in Seq(FunctionType) /\ \A i \in 1 .. Len(fs) : Pending(cfg, fs[i], i)
          /\ cfg.DAGMode => Len(fs) >= 1
      BY <1>0, <1>1, <1>2, <2>2, ParsedPending
    <2> HIDE DEF fs
    <2>4. FunctionsInv'  BY <1>1, <2>1, <2>3 DEF FunctionsInv
    <2>5. PhaseInv'
      <3>1. Len(functions') \in Nat  BY <2>1, <2>3
      <3> QED BY <1>0, <1>1, <1>3, <2>1, <2>3, <3>1 DEF PhaseInv, Phases
    <2> QED BY <1>1, <2>1, <2>4, <2>5, MakesFunctions
  <1> QED BY <1>4, <1>5

LEMMA Parse2021Step ==
  ASSUME CommandInv, Parse2021
  PROVE  CommandInv'
  <1>0. PhaseInv /\ Configured(cfg) /\ FunctionsInv  BY DEF CommandInv
  <1>1. /\ phase = "parse" /\ cfg.input = "Azure2021" /\ cfg' = cfg /\ driven' = driven
        /\ scheduleVars' = scheduleVars
    BY DEF Parse2021, otherVars
  <1>2. Driveable(cfg)  BY <1>0, <1>1 DEF Configured
  <1>3. driven = 0  BY <1>1, IdleBefore
  <1> DEFINE Spec2021(slice) == GenerateFunctionSpecification(slice, DurationOf(cfg))
             F(slice) == [Function("trace", <<>>, "nil", "ok") EXCEPT
                            !.IAT = Spec2021(slice).IAT, !.PerMinuteCount = Spec2021(slice).count,
                            !.specs = Len(Spec2021(slice).IAT)]
  <1>4. PICK slice \in Sorted(cfg.invocations) :
          \/ Spec2021(slice).fatal /\ phase' = "fatal" /\ functions' = functions
          \/ /\ ~Spec2021(slice).fatal
             /\ functions' = IF Spec2021(slice).IAT = <<>> THEN <<>> ELSE <<F(slice)>>
             /\ phase' = "files"
    BY DEF Parse2021, End, Duration, DurationOf
  <1>5. CASE phase' = "fatal" /\ functions' = functions
    <2>1. PhaseInv'  BY <1>0, <1>1, <1>5 DEF PhaseInv, Phases
    <2> QED BY <1>1, <1>5, <2>1, Frame
  <1>6. CASE ~(phase' = "fatal" /\ functions' = functions)
    <2>1. ~Spec2021(slice).fatal /\ phase' = "files" /\ functions' \in {<<>>, <<F(slice)>>}
      BY <1>4, <1>6
    <2>2. Good(cfg, F(slice), 1)  BY <1>0, <1>1, <2>1, Good2021
    <2>3. F(slice) \in FunctionType  BY <2>2, GoodIsNotMissing
    <2> HIDE DEF F
    <2>4. /\ functions' \in Seq(FunctionType) /\ Len(functions') \in {0, 1}
          /\ \A i \in 1 .. Len(functions') : i = 1 /\ functions'[i] = F(slice)
      <3>1. CASE functions' = <<>>
        <4>1. <<>> \in Seq(FunctionType) /\ Len(<<>>) = 0  OBVIOUS
        <4> QED BY <3>1, <4>1
      <3>2. CASE functions' = <<F(slice)>>
        <4>1. <<F(slice)>> \in Seq(FunctionType) /\ Len(<<F(slice)>>) = 1 /\ <<F(slice)>>[1] = F(slice)  BY <2>3
        <4> QED BY <3>2, <4>1
      <3> QED BY <2>1, <3>1, <3>2
    <2>5. FunctionsInv'  BY <1>1, <2>2, <2>4 DEF FunctionsInv
    <2>6. PhaseInv'
      <3>1. cfg.command = "loader" /\ ~cfg.DAGMode  BY <1>2 DEF Driveable
      <3> QED BY <1>0, <1>1, <1>3, <2>1, <2>4, <3>1 DEF PhaseInv, Phases
    <2> QED BY <1>1, <2>1, <2>5, <2>6, MakesFunctions
  <1> QED BY <1>5, <1>6

LEMMA GenerateFunctionMinuteStep ==
  ASSUME CommandInv, GenerateFunctionMinute
  PROVE  CommandInv'
  <1> DEFINE invocations == InvocationsIn(cfg, functions, CurrentIn(functions))
             n == invocations[Len(pmc) + 1]
  <1>0. PhaseInv /\ Configured(cfg) /\ FunctionsInv /\ GenerateInv  BY DEF CommandInv
  <1>1. /\ phase = "generate" /\ MissingIn(functions) # {} /\ Len(pmc) < Len(invocations)
        /\ GenerateMinute(n, cfg.shift)
        /\ cfg' = cfg /\ functions' = functions /\ driven' = driven /\ phase' = phase
    BY MissingIs, CurrentIs, InvocationsAre DEF GenerateFunctionMinute, commandVars
  <1>2. /\ Spread(IAT, pmc) /\ LoopIdle
        /\ \A k \in 1 .. Len(pmc) : pmc[k] = invocations[k]
    BY <1>0, <1>1 DEF GenerateInv
  <1>3. functions \in Seq(FunctionType)  BY <1>0 DEF FunctionsInv
  <1>4. invocations \in Seq(Nat)  BY <1>1, <1>3, CurrentIsMissing
  <1> HIDE DEF invocations
  <1>5. pmc \in Seq(Nat) /\ Len(pmc) \in Nat  BY <1>2 DEF Spread
  <1>6. n \in Nat  BY <1>1, <1>4, <1>5
  <1>7. cfg.shift \in BOOLEAN  BY <1>0, <1>1 DEF PhaseInv, Configured, TraceInput
  <1>8. PICK m \in minuteIATs(n, cfg.shift) :
          /\ IAT' = [IAT EXCEPT ![Len(IAT)] = @ + m[1]] \o Tail(m)
          /\ pmc' = Append(pmc, Len(m) - 1)
    BY <1>1 DEF GenerateMinute
  <1>9. UNCHANGED loopVars  BY <1>1 DEF GenerateMinute
  <1> HIDE DEF n
  <1>10. MinuteOf_n(m, n)  BY <1>6, <1>7, MinuteDivided
  <1>11. pmc' = Append(pmc, n)
    <2>1. Len(m) - 1 = n  BY <1>6, <1>10 DEF MinuteOf_n
    <2> QED BY <1>8, <2>1
  <1>12. Spread(IAT', pmc')  BY <1>2, <1>6, <1>8, <1>10, <1>11, SpreadStep
  <1>13. LoopIdle'  BY <1>2, <1>9 DEF LoopIdle, loopVars
  <1>14. Len(pmc') = Len(pmc) + 1 /\ \A k \in 1 .. Len(pmc') : pmc'[k] = invocations[k]
    <2>1. Len(pmc') = Len(pmc) + 1 /\ pmc'[Len(pmc) + 1] = n /\ \A k \in 1 .. Len(pmc) : pmc'[k] = pmc[k]
      BY <1>5, <1>6, <1>11
    <2>2. n = invocations[Len(pmc) + 1]  BY DEF n
    <2> QED BY <1>2, <1>5, <2>1, <2>2
  <1>15. GenerateInv'
    <2>1. Len(pmc') <= Len(invocations)  BY <1>1, <1>4, <1>5, <1>14
    <2>2. MissingIn(functions') # {} /\ invocations = InvocationsIn(cfg', functions', CurrentIn(functions'))
      BY <1>1 DEF invocations
    <2> QED BY <1>12, <1>13, <1>14, <2>1, <2>2 DEF GenerateInv
  <1>16. PhaseInv'  BY <1>0, <1>1 DEF PhaseInv
  <1>17. FunctionsInv'  BY <1>0, <1>1 DEF FunctionsInv
  <1>18. driven = 0  BY <1>0, <1>1 DEF PhaseInv
  <1>19. IdleInv' /\ DriverInv' /\ Configured(cfg')  BY <1>0, <1>1, <1>18 DEF IdleInv, DriverInv
  <1> QED BY <1>15, <1>16, <1>17, <1>19 DEF CommandInv

LEMMA GenerateInvocationDataStep ==
  ASSUME CommandInv, GenerateInvocationData
  PROVE  CommandInv'
  <1> DEFINE i == CurrentIn(functions)
             invocations == InvocationsIn(cfg, functions, i)
             f == functions[i]
             g == [f EXCEPT !.Invocations = invocations, !.IAT = DropLast(IAT), !.PerMinuteCount = pmc,
                            !.specs = Sum(pmc)]
  <1>0. PhaseInv /\ Configured(cfg) /\ FunctionsInv /\ GenerateInv  BY DEF CommandInv
  <1>1. /\ phase = "generate" /\ MissingIn(functions) # {} /\ Len(pmc) = Len(invocations)
        /\ EndGenerate /\ cfg' = cfg /\ driven' = driven
        /\ \/ phase' \in {"panic", "fatal"} /\ functions' = functions
           \/ /\ phase' = phase
              /\ functions' = [functions EXCEPT ![i].Invocations = invocations, ![i].IAT = DropLast(IAT),
                                                ![i].PerMinuteCount = pmc, ![i].specs = Sum(pmc)]
    BY MissingIs, CurrentIs, InvocationsAre DEF GenerateInvocationData, End
  <1>2. /\ Spread(IAT, pmc) /\ LoopIdle
        /\ \A k \in 1 .. Len(pmc) : pmc[k] = invocations[k]
    BY <1>0, <1>1 DEF GenerateInv
  <1>3. functions \in Seq(FunctionType)  BY <1>0 DEF FunctionsInv
  <1>4. i \in 1 .. Len(functions) /\ f.specs = -1 /\ invocations \in Seq(Nat)
    BY <1>1, <1>3, CurrentIsMissing
  <1> HIDE DEF invocations, i
  <1>5. pmc = invocations
    <2>1. pmc \in Seq(Nat)  BY <1>2 DEF Spread
    <2> QED BY <1>1, <1>2, <1>4, <2>1, SameSequence
  <1>6. cfg.input \in {"Azure2019", "vSwarm"} /\ driven = 0  BY <1>0, <1>1 DEF PhaseInv
  <1>7. IAT' = <<0>> /\ pmc' = <<>> /\ LoopIdle'  BY <1>1, <1>2 DEF EndGenerate, LoopIdle, loopVars
  <1>8. \A j \in 1 .. Len(functions) : Good(cfg, functions[j], j) \/ Pending(cfg, functions[j], j)
    BY <1>0 DEF FunctionsInv
  <1>9. Pending(cfg, f, i)  BY <1>4, <1>8, GoodIsNotMissing
  <1>10. CASE phase' \in {"panic", "fatal"} /\ functions' = functions
    <2>1. PhaseInv'  BY <1>0, <1>1, <1>6, <1>10 DEF PhaseInv, Phases
    <2>2. FunctionsInv'  BY <1>1, <1>3, <1>8, <1>10 DEF FunctionsInv
    <2>3. GenerateInv'  BY <1>10 DEF GenerateInv
    <2>4. IdleInv' /\ DriverInv' /\ Configured(cfg')  BY <1>0, <1>1, <1>6, <1>7 DEF IdleInv, DriverInv
    <2> QED BY <2>1, <2>2, <2>3, <2>4 DEF CommandInv
  <1>11. CASE ~(phase' \in {"panic", "fatal"} /\ functions' = functions)
    <2>1. /\ phase' = "generate"
          /\ functions' = [functions EXCEPT ![i].Invocations = invocations, ![i].IAT = DropLast(IAT),
                                            ![i].PerMinuteCount = pmc, ![i].specs = Sum(pmc)]
      BY <1>1, <1>11
    <2>2. functions' = [functions EXCEPT ![i] = g]
      <3>1. DOMAIN functions = 1 .. Len(functions)  BY <1>3
      <3> QED BY <1>4, <2>1, <3>1
    <2>3. Good(cfg, g, i)
      <3>1. ~cfg.DAGMode => invocations = f.Invocations  BY DEF invocations, InvocationsIn
      <3>2. cfg.DAGMode => invocations = FirstRow(cfg)
        <4> SUFFICES ASSUME cfg.DAGMode PROVE functions[1].Invocations = FirstRow(cfg)
          BY DEF invocations, InvocationsIn
        <4>1. 1 \in 1 .. Len(functions)  BY <1>4
        <4>2. Good(cfg, functions[1], 1) \/ Pending(cfg, functions[1], 1)  BY <1>8, <4>1
        <4> QED BY <4>2 DEF Good, Pending
      <3> HIDE DEF f
      <3> QED BY <1>0, <1>2, <1>4, <1>5, <1>6, <1>9, <3>1, <3>2, GoodGenerated
    <2>4. g \in FunctionType  BY <2>3, GoodIsNotMissing
    <2> HIDE DEF g
    <2>5. functions' \in Seq(FunctionType) /\ Len(functions') = Len(functions)
          /\ \A j \in 1 .. Len(functions) : functions'[j] = IF j = i THEN g ELSE functions[j]
      BY <1>3, <1>4, <2>2, <2>4
    <2>6. FunctionsInv'
      <3>1. \A j \in 1 .. Len(functions) : Good(cfg, functions'[j], j) \/ Pending(cfg, functions'[j], j)
        BY <1>8, <2>3, <2>5
      <3> QED BY <1>1, <2>1, <2>5, <3>1 DEF FunctionsInv
    <2>7. PhaseInv'  BY <1>0, <1>1, <1>6, <2>1, <2>5 DEF PhaseInv, Phases
    <2>8. GenerateInv'
      <3> DEFINE next == InvocationsIn(cfg', functions', CurrentIn(functions'))
      <3>1. MissingIn(functions') # {} => next \in Seq(Nat)  BY <2>5, CurrentIsMissing
      <3> HIDE DEF next
      <3>2. Len(pmc') = 0  BY <1>7
      <3>3. MissingIn(functions') # {} => Len(pmc') <= Len(next) /\ \A k \in 1 .. Len(pmc') : pmc'[k] = next[k]
        BY <3>1, <3>2
      <3>4. Spread(IAT', pmc')  BY <1>7, SpreadInit
      <3> QED BY <1>7, <3>3, <3>4 DEF GenerateInv, next
    <2>9. IdleInv' /\ DriverInv' /\ Configured(cfg')  BY <1>0, <1>1, <1>6, <2>1 DEF IdleInv, DriverInv
    <2> QED BY <2>6, <2>7, <2>8, <2>9 DEF CommandInv
  <1> QED BY <1>10, <1>11

LEMMA GenerateWarmStep ==
  ASSUME CommandInv, GenerateWarm
  PROVE  CommandInv'
  <1> DEFINE D == DurationOf(cfg)
             iats == GenerateWarmStartFunction(D, cfg.warm)
             f == RpsFunction("warm", iats)
  <1>0. PhaseInv /\ Configured(cfg)  BY DEF CommandInv
  <1>1. /\ phase = "warm" /\ phase' = "cold" /\ functions' = <<f>> /\ cfg' = cfg /\ driven' = driven
        /\ scheduleVars' = scheduleVars
    BY DEF GenerateWarm, otherVars, Duration, DurationOf
  <1>2. cfg.input = "RPS" /\ D \in Nat /\ cfg.warm \in WarmRates /\ driven = 0
    BY <1>0, <1>1 DEF PhaseInv, Configured
  <1>3. iats \in Seq(Nat) /\ InRange(D, iats)  BY <1>2, WarmFunction
  <1>4. Good(cfg, f, 1)
    <2> HIDE DEF iats
    <2> QED BY <1>0, <1>2, <1>3, GoodRps DEF RpsFunction, Duration, DurationOf
  <1>5. f \in FunctionType  BY <1>4, GoodIsNotMissing
  <1> HIDE DEF f
  <1>6. functions' \in Seq(FunctionType) /\ Len(functions') = 1 /\ functions'[1] = f  BY <1>1, <1>5
  <1>7. \A i \in 1 .. Len(functions') : i = 1 /\ functions'[i] = f  BY <1>6
  <1>8. FunctionsInv'  BY <1>1, <1>4, <1>6, <1>7 DEF FunctionsInv
  <1>9. PhaseInv'  BY <1>0, <1>1, <1>2, <1>6 DEF PhaseInv, Phases
  <1> QED BY <1>1, <1>8, <1>9, MakesFunctions

LEMMA GenerateColdStep ==
  ASSUME CommandInv, GenerateCold
  PROVE  CommandInv'
  <1> DEFINE D == DurationOf(cfg)
             n == Len(functions)
             iats == coldStartFunction(D, cfg.cold, cfg.cooldown, n - 1)
             f == RpsFunction("cold", iats)
  <1>0. PhaseInv /\ Configured(cfg) /\ FunctionsInv  BY DEF CommandInv
  <1>1. /\ phase = "cold" /\ cfg.cold.num > 0 /\ cfg' = cfg /\ driven' = driven
        /\ scheduleVars' = scheduleVars
        /\ \/ InRange(D, iats) /\ functions' = Append(functions, f) /\ phase' = phase
           \/ phase' = "panic" /\ functions' = functions
    BY DEF GenerateCold, otherVars, Duration, DurationOf, End
  <1>2. /\ cfg.input = "RPS" /\ D \in Nat /\ cfg.cold \in ColdRates /\ cfg.cooldown \in Nat /\ cfg.cooldown > 0
        /\ driven = 0 /\ n >= 1 /\ ~cfg.DAGMode
    BY <1>0, <1>1 DEF PhaseInv, Configured, Driveable
  <1>3. functions \in Seq(FunctionType) /\ n \in Nat  BY <1>0 DEF FunctionsInv
  <1>4. CASE phase' = "panic" /\ functions' = functions
    <2>1. PhaseInv'  BY <1>0, <1>1, <1>2, <1>4 DEF PhaseInv, Phases
    <2> QED BY <1>1, <1>4, <2>1, Frame
  <1>5. CASE InRange(D, iats) /\ functions' = Append(functions, f) /\ phase' = phase
    <2>1. cfg.cold \in Rates  BY <1>1, <1>2, RateIs
    <2>2. n - 1 \in Nat  BY <1>2, <1>3
    <2>3. iats \in Seq(Nat) /\ \A k \in 2 .. Len(iats) : iats[k] >= cfg.cooldown * second
      <3> HIDE DEF n, D
      <3> QED BY <1>2, <2>1, <2>2, ColdFunction
    <2> HIDE DEF iats
    <2>4. \A j : Good(cfg, f, j)
      BY <1>0, <1>2, <1>5, <2>3, GoodRps DEF RpsFunction, Duration, DurationOf
    <2>5. f \in FunctionType  BY <2>4, GoodIsNotMissing
    <2> HIDE DEF f
    <2>6. functions' \in Seq(FunctionType) /\ Len(functions') = n + 1
          /\ \A j \in 1 .. n + 1 : functions'[j] = IF j = n + 1 THEN f ELSE functions[j]
      BY <1>3, <1>5, <2>5
    <2>7. \A j \in 1 .. n : Good(cfg, functions[j], j)  BY <1>0, <1>1 DEF FunctionsInv
    <2>8. \A j \in 1 .. Len(functions') : Good(cfg, functions'[j], j)  BY <1>3, <2>4, <2>6, <2>7
    <2>9. FunctionsInv'  BY <1>1, <2>6, <2>8 DEF FunctionsInv
    <2>10. PhaseInv'
      <3>1. Len(functions') >= 1 /\ Len(functions') \in Nat  BY <1>3, <2>6
      <3> QED BY <1>0, <1>1, <1>2, <1>5, <3>1 DEF PhaseInv, Phases
    <2> QED BY <1>1, <1>5, <2>9, <2>10, MakesFunctions
  <1> QED BY <1>1, <1>4, <1>5

LEMMA RunDriverStep ==
  ASSUME CommandInv, NEW i \in 1 .. Len(functions), RunDriver(i)
  PROVE  CommandInv'
  <1> DEFINE f == functions[i]
             counts == f.PerMinuteCount
             iats == f.IAT
  <1>0. PhaseInv /\ Configured(cfg) /\ FunctionsInv  BY DEF CommandInv
  <1>1. phase = "run" /\ ~cfg.DAGMode /\ driven' = i /\ cfg' = cfg /\ functions' = functions
    BY DEF RunDriver
  <1>2. LoopIdle /\ IAT = <<0>> /\ pmc = <<>>  BY <1>1, IdleBefore
  <1>3. Good(cfg, f, i) /\ f \in FunctionType  BY <1>0, <1>1, GoodIsNotMissing DEF FunctionsInv
  <1>4. counts \in Seq(Nat) /\ iats \in Seq(Nat) /\ Sum(counts) = Len(iats)
    BY <1>3, FunctionFields DEF Good
  <1>5. FunctionsInv' /\ Configured(cfg')
    <2>1. \A j \in 1 .. Len(functions) : Good(cfg, functions[j], j)  BY <1>0, <1>1 DEF FunctionsInv
    <2> QED BY <1>0, <1>1, <2>1 DEF FunctionsInv
  <1>6. Driveable(cfg) /\ Len(functions) \in Nat /\ cfg.warmup \in Nat
    BY <1>0, <1>1 DEF PhaseInv, Driveable, FunctionsInv, Configured
  <1>7. CASE iats = <<>>
    <2>1. phase' = "done" /\ scheduleVars' = scheduleVars  BY <1>7 DEF RunDriver
    <2>2. LoopIdle' /\ IAT' = <<0>> /\ pmc' = <<>>
      BY <1>2, <2>1 DEF LoopIdle, scheduleVars, specificationVars, loopVars
    <2>3. PhaseInv'  BY <1>0, <1>1, <1>6, <2>1 DEF PhaseInv, Phases, Driveable
    <2>4. GenerateInv' /\ IdleInv' /\ DriverInv'
      BY <1>1, <1>7, <2>1, <2>2 DEF GenerateInv, IdleInv, DriverInv
    <2> QED BY <1>5, <2>3, <2>4 DEF CommandInv
  <1>8. CASE iats # <<>>
    <2>1. phase' = "loop" /\ StartDriver(iats, counts, cfg.warmup)  BY <1>8 DEF RunDriver
    <2>2. PhaseInv'  BY <1>0, <1>1, <1>6, <1>8, <2>1 DEF PhaseInv, Phases, Driveable
    <2>3. GenerateInv' /\ IdleInv'  BY <1>1, <1>8, <2>1 DEF GenerateInv, IdleInv
    <2> HIDE DEF counts, iats
    <2> DEFINE first == SearchInterval(constructIntervals(counts), 0)
    <2>4. /\ IAT' = iats /\ pmc' = counts /\ minuteIndexEnd' = first.End /\ minuteIndex' = first.Value
          /\ currentPhase' = IF cfg.warmup > 0 THEN "warmup" ELSE "execution"
          /\ iatIndex' = 0 /\ sinceMinute' = 0 /\ previousIATSum' = 0 /\ now' = 0 /\ fired' = NothingFired
      BY <1>2, <2>1 DEF StartDriver, LoopIdle
    <2>5. Len(iats) \in Nat /\ Len(iats) > 0  BY <1>4, <1>8
    <2>6. PICK m : InMinute(counts, 0, m)
      <3>1. 0 \in 0 .. Sum(counts) - 1  BY <1>4, <2>5
      <3> QED BY <1>4, <3>1, MinuteExists
    <2>7. first = [Start |-> Upto(counts, m), End |-> Upto(counts, m + 1) - 1, Value |-> m]
      BY <1>4, <2>6, MinuteFound
    <2> HIDE DEF first
    <2>8. first.End = Upto(counts, m + 1) - 1 /\ first.Value = m  BY <2>7
    <2>9. m \in 0 .. Len(counts) - 1 /\ Upto(counts, m) <= 0 /\ 0 < Upto(counts, m + 1)  BY <2>6 DEF InMinute
    <2>10. m \in Nat /\ Upto(counts, m) \in Nat /\ Upto(counts, m + 1) \in Nat
      <3>1. m \in Nat /\ m \in 0 .. Len(counts) /\ m + 1 \in 0 .. Len(counts)  BY <1>4, <2>9
      <3> QED BY <1>4, <3>1, UptoNat
    <2>11. Upto(counts, m) = 0 /\ Upto(counts, m + 1) - 1 \in Nat  BY <2>9, <2>10
    <2>12. Position'
      <3>1. InMinute(pmc', iatIndex', minuteIndex')  BY <2>4, <2>6, <2>8
      <3>2. minuteIndexEnd' = Upto(pmc', minuteIndex' + 1) - 1  BY <2>4, <2>8
      <3>3. sinceMinute' = iatIndex' - Upto(pmc', minuteIndex')  BY <2>4, <2>8, <2>11
      <3> QED BY <3>1, <3>2, <3>3 DEF Position
    <2>13. Clock'
      <3>1. Upto(IAT', iatIndex') = 0  BY <1>4, <2>4, UptoRec
      <3>2. Fraction \in Nat  BY TimeAssumption
      <3> QED BY <2>4, <3>1, <3>2 DEF Clock
    <2>14. Driving'
      <3>1. IAT' = functions'[driven'].IAT /\ pmc' = functions'[driven'].PerMinuteCount
        BY <1>1, <2>4 DEF iats, counts
      <3>2. iatIndex' \in 0 .. Len(IAT') /\ minuteIndex' \in Nat /\ minuteIndexEnd' \in Nat /\ sinceMinute' \in Nat
        BY <2>4, <2>5, <2>8, <2>10, <2>11
      <3>3. currentPhase' \in {"warmup", "execution"}
            /\ (currentPhase' = "execution" => minuteIndex' >= cfg'.warmup)
        BY <1>1, <1>6, <2>4, <2>8, <2>10
      <3>4. iatIndex' = 0 /\ fired' = NothingFired  BY <2>4
      <3> QED BY <2>12, <2>13, <3>1, <3>2, <3>3, <3>4 DEF Driving
    <2>15. DriverInv'  BY <2>1, <2>14 DEF DriverInv
    <2> QED BY <1>5, <2>2, <2>3, <2>15 DEF CommandInv
  <1> QED BY <1>7, <1>8

\* The clock of the driver, when it fires an invocation.
LEMMA FireClock ==
  ASSUME Clock, IAT \in Seq(Nat), iatIndex \in 0 .. Len(IAT) - 1,
         NEW w \in Nat, FireInvocation(w)
  PROVE  /\ Clock' /\ now' - previousIATSum' <=
                        (IF Micros(IAT[iatIndex + 1]) >= now - previousIATSum THEN Jitter
                         ELSE now' - previousIATSum')
  <1> DEFINE a == IAT[iatIndex + 1]
             iat == Micros(a)
  <1>0. Fraction \in Nat /\ Fraction > 0 /\ Jitter \in Nat  BY TimeAssumption, ScheduleAssumption
  <1>1. /\ previousIATSum \in Nat /\ now \in Nat /\ now >= previousIATSum
        /\ Fraction * previousIATSum <= Upto(IAT, iatIndex)
        /\ Upto(IAT, iatIndex) + iatIndex <= Fraction * (previousIATSum + iatIndex)
    BY DEF Clock
  <1>2. iatIndex \in Nat /\ iatIndex \in 0 .. Len(IAT) /\ iatIndex + 1 \in 1 .. Len(IAT)  OBVIOUS
  <1>3. a \in Nat  BY <1>2
  <1>4. Upto(IAT, iatIndex) \in Nat /\ Upto(IAT, iatIndex + 1) = Upto(IAT, iatIndex) + a
    BY <1>2, UptoNat, UptoRec
  <1>5. iat \in Nat /\ iat * Fraction <= a /\ a < iat * Fraction + Fraction
    <2> HIDE DEF a
    <2> QED BY <1>0, <1>3, Quotient DEF Micros
  <1>6. PICK late \in 0 .. Jitter : now' = now + SleepFor(iat) + late
    BY DEF FireInvocation
  <1>7. previousIATSum' = previousIATSum + iat /\ iatIndex' = iatIndex + 1 /\ IAT' = IAT
    BY DEF FireInvocation, specificationVars
  <1> HIDE DEF a, iat
  <1>8. SleepFor(iat) = IF iat - (now - previousIATSum) > 0 THEN iat - (now - previousIATSum) ELSE 0
    BY DEF SleepFor
  <1>9. SleepFor(iat) \in Nat /\ now + SleepFor(iat) >= previousIATSum + iat
        /\ (iat >= now - previousIATSum => now + SleepFor(iat) = previousIATSum + iat)
    BY <1>1, <1>5, <1>8
  <1>10. /\ previousIATSum' \in Nat /\ now' \in Nat /\ now' >= previousIATSum'
         /\ (iat >= now - previousIATSum => now' - previousIATSum' <= Jitter)
    <2> DEFINE s == SleepFor(iat)
    <2>1. late \in Nat /\ late <= Jitter  BY <1>0, <1>6
    <2>2. s \in Nat /\ now + s >= previousIATSum + iat
          /\ (iat >= now - previousIATSum => now + s = previousIATSum + iat)
      BY <1>9
    <2>3. now' = now + s + late  BY <1>6
    <2> HIDE DEF s
    <2>4. now + s + late \in Nat /\ previousIATSum + iat \in Nat /\ now + s + late >= previousIATSum + iat
      BY <1>1, <1>5, <2>1, <2>2
    <2>5. ASSUME iat >= now - previousIATSum PROVE (now + s + late) - (previousIATSum + iat) <= Jitter
      <3>1. now + s = previousIATSum + iat  BY <2>2, <2>5
      <3> QED BY <1>0, <1>1, <1>5, <2>1, <2>2, <3>1
    <2> QED BY <1>7, <2>3, <2>4, <2>5
  <1>11. Fraction * (previousIATSum + iat) = Fraction * previousIATSum + iat * Fraction
         /\ Fraction * (previousIATSum + iat + (iatIndex + 1))
              = Fraction * (previousIATSum + iatIndex) + iat * Fraction + Fraction
    BY <1>0, <1>1, <1>2, <1>5
  <1>12. Fraction * previousIATSum \in Nat /\ iat * Fraction \in Nat /\ Fraction * (previousIATSum + iatIndex) \in Nat
    BY <1>0, <1>1, <1>2, <1>5
  <1>13. Fraction * (previousIATSum + iat) <= Upto(IAT, iatIndex + 1)
         /\ Upto(IAT, iatIndex + 1) + (iatIndex + 1) <= Fraction * (previousIATSum + iat + (iatIndex + 1))
    <2> DEFINE x == Fraction * previousIATSum
               y == iat * Fraction
               z == Fraction * (previousIATSum + iatIndex)
               u == Upto(IAT, iatIndex)
    <2>1. x \in Nat /\ y \in Nat /\ z \in Nat /\ u \in Nat /\ x <= u /\ u + iatIndex <= z /\ y <= a /\ a < y + Fraction
      BY <1>1, <1>4, <1>5, <1>12
    <2>2. /\ Fraction * (previousIATSum + iat) = x + y
          /\ Fraction * (previousIATSum + iat + (iatIndex + 1)) = z + y + Fraction
          /\ Upto(IAT, iatIndex + 1) = u + a
      BY <1>4, <1>11
    <2> HIDE DEF x, y, z, u
    <2>3. x + y <= u + a /\ u + a + (iatIndex + 1) <= z + y + Fraction  BY <1>0, <1>2, <1>3, <2>1
    <2> QED BY <2>2, <2>3
  <1>14. Clock'  BY <1>7, <1>10, <1>13 DEF Clock
  <1>15. iat >= now - previousIATSum <=> Micros(IAT[iatIndex + 1]) >= now - previousIATSum  BY DEF iat, a
  <1> QED BY <1>10, <1>14, <1>15

\* The variables of the loop after an invocation, which was the k-th (from 0) and in
\* minute m.
NextInterval(counts, k) == SearchInterval(constructIntervals(counts), k + 1)
NextIsOver(counts, k, m) == k + 1 > Upto(counts, m + 1) - 1 /\ NextInterval(counts, k) # NoInterval
NextMinute(counts, k, m) == IF NextIsOver(counts, k, m) THEN NextInterval(counts, k).Value ELSE m
NextEnd(counts, k, m) ==
  IF NextIsOver(counts, k, m) THEN NextInterval(counts, k).End ELSE Upto(counts, m + 1) - 1
NextSince(counts, k, m) == IF NextIsOver(counts, k, m) THEN 0 ELSE k - Upto(counts, m) + 1

LEMMA FirePosition ==
  ASSUME NEW counts \in Seq(Nat), NEW k \in Nat, NEW m, InMinute(counts, k, m)
  PROVE  /\ NextMinute(counts, k, m) \in Nat /\ NextEnd(counts, k, m) \in Nat
         /\ NextSince(counts, k, m) \in Nat /\ NextMinute(counts, k, m) >= m
         /\ k + 1 < Sum(counts) =>
              /\ InMinute(counts, k + 1, NextMinute(counts, k, m))
              /\ NextEnd(counts, k, m) = Upto(counts, NextMinute(counts, k, m) + 1) - 1
              /\ NextSince(counts, k, m) = k + 1 - Upto(counts, NextMinute(counts, k, m))
  <1> DEFINE n == Sum(counts)
             next == NextInterval(counts, k)
             mn == NextMinute(counts, k, m)
             en == NextEnd(counts, k, m)
             sn == NextSince(counts, k, m)
  <1>0. /\ n \in Nat /\ next = SearchInterval(constructIntervals(counts), k + 1)
        /\ IF k + 1 > Upto(counts, m + 1) - 1 /\ next # NoInterval
           THEN mn = next.Value /\ en = next.End /\ sn = 0
           ELSE mn = m /\ en = Upto(counts, m + 1) - 1 /\ sn = k - Upto(counts, m) + 1
    BY UptoNat DEF NextInterval, NextIsOver, NextMinute, NextEnd, NextSince
  <1> SUFFICES /\ mn \in Nat /\ en \in Nat /\ sn \in Nat /\ mn >= m
               /\ k + 1 < n => /\ InMinute(counts, k + 1, mn)
                               /\ en = Upto(counts, mn + 1) - 1
                               /\ sn = k + 1 - Upto(counts, mn)
    OBVIOUS
  <1>1. m \in 0 .. Len(counts) - 1 /\ Upto(counts, m) <= k /\ k < Upto(counts, m + 1)  BY DEF InMinute
  <1>2. m \in Nat /\ m \in 0 .. Len(counts) /\ m + 1 \in 0 .. Len(counts)  BY <1>1
  <1>3. Upto(counts, m) \in Nat /\ Upto(counts, m + 1) \in Nat  BY <1>2, UptoNat
  <1>4. CASE k + 1 >= n
    <2>1. next = NoInterval  BY <1>0, <1>4, MinuteFound
    <2>2. mn = m /\ en = Upto(counts, m + 1) - 1 /\ sn = k - Upto(counts, m) + 1  BY <1>0, <2>1
    <2>3. Upto(counts, m + 1) - 1 \in Nat /\ k - Upto(counts, m) + 1 \in Nat  BY <1>1, <1>3
    <2>4. m >= m /\ ~(k + 1 < n)  BY <1>0, <1>2, <1>4
    <2> QED BY <1>2, <2>2, <2>3, <2>4
  <1>5. CASE k + 1 < n
    <2>0. k + 1 \in 0 .. Sum(counts) - 1 /\ k + 1 \in Nat  BY <1>0, <1>5
    <2> HIDE DEF n, next, mn, en, sn
    <2>1. PICK p : InMinute(counts, k + 1, p)  BY <2>0, MinuteExists
    <2>2. next = [Start |-> Upto(counts, p), End |-> Upto(counts, p + 1) - 1, Value |-> p]
      BY <1>0, <2>0, <2>1, MinuteFound
    <2>3. p \in 0 .. Len(counts) - 1 /\ Upto(counts, p) <= k + 1 /\ k + 1 < Upto(counts, p + 1)
      BY <2>1 DEF InMinute
    <2>4. p \in Nat /\ p \in 0 .. Len(counts) /\ p + 1 \in 0 .. Len(counts)  BY <2>3
    <2>5. Upto(counts, p) \in Nat /\ Upto(counts, p + 1) \in Nat  BY <2>4, UptoNat
    <2>6. next # NoInterval /\ next.Value = p /\ next.End = Upto(counts, p + 1) - 1
      BY <2>2, <2>4 DEF NoInterval
    <2>7. m <= p
      <3>1. k \in Int /\ k + 1 \in Int /\ k <= k + 1  OBVIOUS
      <3> QED BY <2>1, <3>1, MinuteOrder
    <2>8. CASE k + 1 > Upto(counts, m + 1) - 1
      <3>1. mn = p /\ en = Upto(counts, p + 1) - 1 /\ sn = 0  BY <1>0, <2>6, <2>8
      <3>2. k + 1 = Upto(counts, m + 1)  BY <1>1, <1>3, <2>8
      <3>3. m # p  BY <1>3, <2>3, <3>2
      <3>4. m + 1 <= p  BY <1>2, <2>4, <2>7, <3>3
      <3>5. Upto(counts, m + 1) <= Upto(counts, p)  BY <1>2, <2>4, <3>4, UptoNat
      <3>6. Upto(counts, p) = k + 1  BY <1>3, <2>3, <2>5, <3>2, <3>5
      <3>7. en \in Nat /\ sn = k + 1 - Upto(counts, p)  BY <2>3, <2>5, <3>1, <3>6
      <3> QED BY <2>1, <2>4, <2>7, <3>1, <3>7
    <2>9. CASE ~(k + 1 > Upto(counts, m + 1) - 1)
      <3>1. mn = m /\ en = Upto(counts, m + 1) - 1 /\ sn = k - Upto(counts, m) + 1  BY <1>0, <2>9
      <3>2. k + 1 < Upto(counts, m + 1) /\ Upto(counts, m) <= k + 1  BY <1>1, <1>3, <2>9
      <3>3. InMinute(counts, k + 1, m)  BY <1>1, <3>2 DEF InMinute
      <3>4. en \in Nat /\ sn \in Nat /\ sn = k + 1 - Upto(counts, m)  BY SMTT(30), <1>1, <1>3, <3>1, <3>2
      <3> QED BY <1>2, <3>1, <3>3, <3>4
    <2> QED BY <2>8, <2>9
  <1>6. k + 1 >= n \/ k + 1 < n  BY <1>0
  <1> QED BY <1>4, <1>5, <1>6

LEMMA FireStep ==
  ASSUME CommandInv, Fire
  PROVE  CommandInv'
  <1>0. PhaseInv /\ Configured(cfg) /\ FunctionsInv /\ DriverInv  BY DEF CommandInv
  <1>1. /\ phase = "loop" /\ FireInvocation(cfg.warmup)
        /\ cfg' = cfg /\ functions' = functions /\ driven' = driven /\ phase' = phase
    BY DEF Fire, commandVars
  <1>2. driven \in 1 .. Len(functions) /\ functions[driven].IAT # <<>>
    <2>1. driven # 0 /\ driven \in 0 .. Len(functions) /\ functions[driven].IAT # <<>>
      BY <1>0, <1>1 DEF PhaseInv
    <2>2. Len(functions) \in Nat  BY <1>0 DEF FunctionsInv
    <2> QED BY <2>1, <2>2
  <1>3. Driving  BY <1>0, <1>2 DEF DriverInv
  <1>4. functions[driven] \in FunctionType /\ Good(cfg, functions[driven], driven)
    BY <1>0, <1>1, <1>2, GoodIsNotMissing DEF FunctionsInv
  <1>5. IAT \in Seq(Nat) /\ pmc \in Seq(Nat) /\ Sum(pmc) = Len(IAT)
    BY <1>3, <1>4, FunctionFields DEF Driving, Good
  <1>6. Len(IAT) \in Nat /\ iatIndex \in 0 .. Len(IAT) - 1 /\ iatIndex \in Nat /\ cfg.warmup \in Nat
    <2>1. Len(IAT) \in Nat /\ iatIndex \in 0 .. Len(IAT) /\ iatIndex < Len(IAT)
      BY <1>1, <1>3, <1>5 DEF Driving, FireInvocation
    <2> QED BY <1>0, <2>1 DEF Configured
  <1>7. /\ InMinute(pmc, iatIndex, minuteIndex) /\ minuteIndexEnd = Upto(pmc, minuteIndex + 1) - 1
        /\ sinceMinute = iatIndex - Upto(pmc, minuteIndex) /\ minuteIndex \in Nat
    BY <1>3, <1>6 DEF Driving, Position
  <1>8. Clock'  BY <1>1, <1>3, <1>5, <1>6, FireClock DEF Driving
  <1>9. /\ IAT' = IAT /\ pmc' = pmc /\ iatIndex' = iatIndex + 1
        /\ minuteIndex' = NextMinute(pmc, iatIndex, minuteIndex)
        /\ minuteIndexEnd' = NextEnd(pmc, iatIndex, minuteIndex)
        /\ sinceMinute' = NextSince(pmc, iatIndex, minuteIndex)
        /\ currentPhase' = PhaseAt(minuteIndex, cfg.warmup)
        /\ fired' = [index |-> iatIndex, minute |-> minuteIndex, inv |-> sinceMinute, phase |-> currentPhase']
    BY <1>1, <1>7 DEF FireInvocation, MinuteOver, Interval, specificationVars, NextInterval, NextIsOver,
                      NextMinute, NextEnd, NextSince
  <1>10. /\ minuteIndex' \in Nat /\ minuteIndexEnd' \in Nat /\ sinceMinute' \in Nat /\ minuteIndex' >= minuteIndex
         /\ iatIndex + 1 < Len(IAT) => /\ InMinute(pmc, iatIndex + 1, minuteIndex')
                                       /\ minuteIndexEnd' = Upto(pmc, minuteIndex' + 1) - 1
                                       /\ sinceMinute' = iatIndex + 1 - Upto(pmc, minuteIndex')
    BY <1>5, <1>6, <1>7, <1>9, FirePosition
  <1>11. Position'
    <2> SUFFICES ASSUME iatIndex' < Len(IAT')
                 PROVE  /\ InMinute(pmc', iatIndex', minuteIndex')
                        /\ minuteIndexEnd' = Upto(pmc', minuteIndex' + 1) - 1
                        /\ sinceMinute' = iatIndex' - Upto(pmc', minuteIndex')
      BY DEF Position
    <2>1. iatIndex + 1 < Len(IAT)  BY <1>9
    <2>2. /\ InMinute(pmc, iatIndex + 1, minuteIndex')
          /\ minuteIndexEnd' = Upto(pmc, minuteIndex' + 1) - 1
          /\ sinceMinute' = iatIndex + 1 - Upto(pmc, minuteIndex')
      BY <1>10, <2>1
    <2>3. iatIndex' = iatIndex + 1 /\ pmc' = pmc  BY <1>9
    <2>4. InMinute(pmc', iatIndex', minuteIndex')  BY <2>2, <2>3
    <2>5. minuteIndexEnd' = Upto(pmc', minuteIndex' + 1) - 1  BY <2>2, <2>3
    <2>6. sinceMinute' = iatIndex' - Upto(pmc', minuteIndex')
      <3> DEFINE u == Upto(pmc, minuteIndex')
      <3>1. sinceMinute' = iatIndex + 1 - u /\ iatIndex \in Nat  BY <1>6, <2>2
      <3>2. u \in Nat
        <4>1. minuteIndex' \in 0 .. Len(pmc)  BY <1>5, <2>2 DEF InMinute
        <4> QED BY <1>5, <4>1, UptoNat
      <3>3. Upto(pmc', minuteIndex') = u  BY <2>3
      <3> HIDE DEF u
      <3> QED BY <2>3, <3>1, <3>2, <3>3
    <2> QED BY <2>4, <2>5, <2>6
  <1>12. /\ currentPhase' \in {"warmup", "execution"}
         /\ currentPhase' = "warmup" <=> minuteIndex < cfg.warmup
    BY <1>3, <1>6, <1>7, <1>9 DEF PhaseAt, Driving
  <1>13. currentPhase' = "execution" => minuteIndex' >= cfg'.warmup
    BY <1>1, <1>6, <1>7, <1>10, <1>12
  <1>14. FiredRight'
    <2>1. fired'.index = iatIndex' - 1  BY <1>6, <1>9
    <2>2. InMinute(pmc', fired'.index, fired'.minute)  BY <1>7, <1>9
    <2>3. fired'.inv = fired'.index - Upto(pmc', fired'.minute)  BY <1>7, <1>9
    <2>4. fired'.phase = "warmup" <=> fired'.minute < cfg'.warmup  BY <1>1, <1>9, <1>12
    <2> QED BY <2>1, <2>2, <2>3, <2>4 DEF FiredRight
  <1>15. iatIndex' \in 0 .. Len(IAT') /\ iatIndex' # 0  BY <1>6, <1>9
  <1>16. IAT' = functions'[driven'].IAT /\ pmc' = functions'[driven'].PerMinuteCount
    BY <1>1, <1>3, <1>9 DEF Driving
  <1>17. Driving'  BY <1>8, <1>10, <1>11, <1>12, <1>13, <1>14, <1>15, <1>16 DEF Driving
  <1>18. Configured(cfg') /\ PhaseInv'  BY <1>0, <1>1 DEF PhaseInv
  <1>19. FunctionsInv'
    <2>1. \A j \in 1 .. Len(functions) : Good(cfg, functions[j], j)  BY <1>0, <1>1 DEF FunctionsInv
    <2> QED BY <1>0, <1>1, <2>1 DEF FunctionsInv
  <1>20. GenerateInv' /\ IdleInv' /\ DriverInv'  BY <1>1, <1>2, <1>17 DEF GenerateInv, IdleInv, DriverInv
  <1> QED BY <1>18, <1>19, <1>20 DEF CommandInv

-----------------------------------------------------------------------------
(***************************************************************************)
(* Every step of the command preserves the invariant.                       *)
(***************************************************************************)
LEMMA NextCases ==
  ASSUME [Next]_vars
  PROVE  \/ QuietNext \/ ParseTrace \/ Parse2021 \/ GenerateFunctionMinute \/ GenerateInvocationData
         \/ GenerateWarm \/ GenerateCold \/ (\E i \in 1 .. Len(functions) : RunDriver(i)) \/ Fire
  BY DEF Next, QuietNext

LEMMA CommandNext ==
  ASSUME CommandInv, [Next]_vars
  PROVE  CommandInv'
  <1>1. CASE QuietNext  BY <1>1, QuietSteps
  <1>2. CASE ParseTrace  BY <1>2, ParseTraceStep
  <1>3. CASE Parse2021  BY <1>3, Parse2021Step
  <1>4. CASE GenerateFunctionMinute  BY <1>4, GenerateFunctionMinuteStep
  <1>5. CASE GenerateInvocationData  BY <1>5, GenerateInvocationDataStep
  <1>6. CASE GenerateWarm  BY <1>6, GenerateWarmStep
  <1>7. CASE GenerateCold  BY <1>7, GenerateColdStep
  <1>8. CASE \E i \in 1 .. Len(functions) : RunDriver(i)  BY <1>8, RunDriverStep
  <1>9. CASE Fire  BY <1>9, FireStep
  <1> QED BY <1>1, <1>2, <1>3, <1>4, <1>5, <1>6, <1>7, <1>8, <1>9, NextCases

\* The invariant the theorems about the command rest on: what is generated is what
\* the input asks for, and the loop of the driver stands where its index says.
THEOREM CommandInvariant == Spec => []CommandInv
  <1>1. Init => CommandInv  BY CommandInitial
  <1>2. CommandInv /\ [Next]_vars => CommandInv'  BY CommandNext
  <1> QED BY <1>1, <1>2, PTL DEF Spec

\* What an invocation that has been fired says of the state.
LEMMA WhenFired ==
  ASSUME CommandInv, fired # NothingFired
  PROVE  /\ driven \in 1 .. Len(functions) /\ Driveable(cfg) /\ phase \in {"loop", "done"}
         /\ Driving /\ FiredRight /\ iatIndex \in 1 .. Len(IAT)
         /\ Good(cfg, functions[driven], driven)
         /\ IAT \in Seq(Nat) /\ pmc \in Seq(Nat)
  <1>0. PhaseInv /\ FunctionsInv /\ GenerateInv /\ IdleInv /\ DriverInv  BY DEF CommandInv
  <1>1. ~LoopIdle  BY DEF LoopIdle
  <1>2. phase # "generate"  BY <1>0, <1>1 DEF GenerateInv
  <1>3. driven # 0 /\ functions[driven].IAT # <<>>  BY <1>0, <1>1, <1>2 DEF IdleInv
  <1>4. phase \in {"loop", "done"} /\ Driveable(cfg)  BY <1>0, <1>3 DEF PhaseInv
  <1>5. driven \in 1 .. Len(functions)
    <2>1. driven \in 0 .. Len(functions) /\ Len(functions) \in Nat  BY <1>0 DEF PhaseInv, FunctionsInv
    <2> QED BY <1>3, <2>1
  <1>6. Driving  BY <1>0, <1>3 DEF DriverInv
  <1>7. Good(cfg, functions[driven], driven) /\ functions[driven] \in FunctionType
    BY <1>0, <1>4, <1>5, GoodIsNotMissing DEF FunctionsInv
  <1>8. IAT \in Seq(Nat) /\ pmc \in Seq(Nat)  BY <1>6, <1>7, FunctionFields DEF Driving
  <1>9. iatIndex # 0 /\ FiredRight /\ iatIndex \in 0 .. Len(IAT)  BY <1>6 DEF Driving
  <1>10. iatIndex \in 1 .. Len(IAT)  BY <1>8, <1>9
  <1> QED BY <1>4, <1>5, <1>6, <1>7, <1>8, <1>9, <1>10

-----------------------------------------------------------------------------
(***************************************************************************)
(* The theorems.                                                            *)
(***************************************************************************)
\* A record is of the warm-up phase exactly if its minute is before the end of the
\* warm-up: announceWarmupEnd is called in time, whatever minutes are empty.
THEOREM PhaseIsRight == Spec => []PhaseRight
  <1>1. CommandInv => PhaseRight  BY WhenFired DEF PhaseRight, FiredRight
  <1> QED BY <1>1, CommandInvariant, PTL

\* The driver never fires early by its own clock, and by less than a microsecond per
\* invocation in generated time.
THEOREM DriverNeverEarly == Spec => []NeverEarly
  <1>1. ASSUME CommandInv PROVE NeverEarly
    <2> SUFFICES ASSUME fired # NothingFired
                 PROVE  /\ now >= previousIATSum
                        /\ Fraction * previousIATSum <= Upto(IAT, iatIndex)
                        /\ Fraction * (previousIATSum + iatIndex) > Upto(IAT, iatIndex)
      BY DEF NeverEarly, Upto
    <2>1. Clock /\ iatIndex \in 1 .. Len(IAT) /\ IAT \in Seq(Nat)  BY <1>1, WhenFired DEF Driving
    <2>2. /\ previousIATSum \in Nat /\ now \in Nat /\ now >= previousIATSum
          /\ Fraction * previousIATSum <= Upto(IAT, iatIndex)
          /\ Upto(IAT, iatIndex) + iatIndex <= Fraction * (previousIATSum + iatIndex)
      BY <2>1 DEF Clock
    <2>3. iatIndex \in Nat /\ iatIndex > 0 /\ iatIndex \in 0 .. Len(IAT)  BY <2>1
    <2>4. Upto(IAT, iatIndex) \in Nat  BY <2>1, <2>3, UptoNat
    <2>5. Fraction * (previousIATSum + iatIndex) \in Nat
      <3>1. previousIATSum + iatIndex \in Nat  BY <2>2, <2>3
      <3> QED BY <3>1, TimeAssumption, Products
    <2> DEFINE x == Fraction * (previousIATSum + iatIndex)
               u == Upto(IAT, iatIndex)
    <2>6. x \in Nat /\ u \in Nat /\ u + iatIndex <= x  BY <2>2, <2>4, <2>5
    <2> HIDE DEF x, u
    <2>7. x > u  BY <2>3, <2>6
    <2> QED BY <2>2, <2>7 DEF x, u
  <1> QED BY <1>1, CommandInvariant, PTL

\* The record of an invocation carries the minute and the index in the minute that
\* the invocation has in the input, for requests per second and for traces of all
\* formats: the binary search and the counter of the loop never drift from the input.
THEOREM LabelsAreRight == Spec => []LabelsRight
  <1>1. ASSUME CommandInv PROVE LabelsRight
    <2> DEFINE f == functions[driven]
               minutes == MinutesOf(cfg, f, driven)
               k == fired.index + 1
    <2> SUFFICES ASSUME fired # NothingFired
                 PROVE  /\ k \in DOMAIN minutes /\ fired.minute = minutes[k]
                        /\ fired.inv = Cardinality({j \in 1 .. k - 1 : minutes[j] = minutes[k]})
      BY TrueMinutesIs DEF LabelsRight
    <2>1. /\ Driveable(cfg) /\ Driving /\ FiredRight /\ iatIndex \in 1 .. Len(IAT)
          /\ Good(cfg, f, driven) /\ IAT \in Seq(Nat) /\ pmc \in Seq(Nat)
      BY <1>1, WhenFired
    <2>2. f.IAT = IAT /\ f.PerMinuteCount = pmc  BY <2>1 DEF Driving
    <2>3. /\ minutes \in [1 .. Len(IAT) -> Nat]
          /\ \A j \in 1 .. Len(IAT) : InMinute(pmc, j - 1, minutes[j])
      BY <2>1, <2>2 DEF Good, Driveable
    <2>4. /\ fired.index = iatIndex - 1 /\ InMinute(pmc, fired.index, fired.minute)
          /\ fired.inv = fired.index - Upto(pmc, fired.minute)
      BY <2>1 DEF FiredRight
    <2>5. Len(IAT) \in Nat /\ iatIndex \in Nat  BY <2>1
    <2>6. k = iatIndex /\ k \in 1 .. Len(IAT) /\ fired.index = k - 1 /\ k - 1 \in Int  BY <2>1, <2>4, <2>5
    <2> HIDE DEF f, minutes, k
    <2>7. InMinute(pmc, k - 1, minutes[k]) /\ InMinute(pmc, k - 1, fired.minute)  BY <2>3, <2>4, <2>6
    <2>8. fired.minute = minutes[k]  BY <2>1, <2>6, <2>7, MinuteUnique
    <2>9. Cardinality({j \in 1 .. k - 1 : minutes[j] = minutes[k]}) = k - 1 - Upto(pmc, minutes[k])
      <3>1. minutes \in [1 .. Len(IAT) -> Int]  BY <2>3
      <3> QED BY ONLY <2>1, <2>3, <2>5, <2>6, <3>1, IndexInMinute
    <2> QED BY <2>3, <2>4, <2>6, <2>8, <2>9
  <1> QED BY <1>1, CommandInvariant, PTL

\* When the loop ends, every invocation of the input has been fired.
THEOREM EveryInvocationFired == Spec => []AllFired
  <1>1. ASSUME CommandInv PROVE AllFired
    <2> DEFINE f == functions[driven]
               minutes == MinutesOf(cfg, f, driven)
    <2> SUFFICES ASSUME driven # 0, phase = "done" PROVE iatIndex = Len(minutes)
      BY TrueMinutesIs DEF AllFired
    <2>0. PhaseInv /\ FunctionsInv /\ IdleInv /\ DriverInv  BY <1>1 DEF CommandInv
    <2>1. driven \in 1 .. Len(functions) /\ Driveable(cfg)
      <3>1. driven \in 0 .. Len(functions) /\ Len(functions) \in Nat /\ Driveable(cfg)
        BY <2>0 DEF PhaseInv, FunctionsInv
      <3> QED BY <3>1
    <2>2. Good(cfg, f, driven) /\ f \in FunctionType  BY <2>0, <2>1, GoodIsNotMissing DEF FunctionsInv
    <2>3. f.IAT \in Seq(Nat) /\ minutes \in [1 .. Len(f.IAT) -> Nat]
      BY <2>1, <2>2, FunctionFields DEF Good, Driveable
    <2> HIDE DEF minutes
    <2>4. Len(minutes) = Len(f.IAT)
      <3>1. Len(f.IAT) \in Nat  BY <2>3
      <3> QED BY <2>3, <3>1
    <2>5. CASE f.IAT = <<>>
      <3>1. iatIndex = 0  BY <2>0, <2>5 DEF IdleInv, LoopIdle
      <3> QED BY <2>4, <2>5, <3>1
    <2>6. CASE f.IAT # <<>>
      <3>1. Driving /\ iatIndex = Len(IAT)  BY <2>0, <2>6 DEF DriverInv
      <3> QED BY <2>4, <3>1 DEF Driving
    <2> QED BY <2>5, <2>6
  <1> QED BY <1>1, CommandInvariant, PTL

\* The sum of the IATs up to an invocation lies in the minute of its label, across
\* empty minutes, dropped pauses and shifts.
THEOREM InvocationsAreInTheirMinute == Spec => []GeneratedInItsMinute
  <1>1. ASSUME CommandInv PROVE GeneratedInItsMinute
    <2> DEFINE t == Upto(IAT, fired.index + 1)
    <2> SUFFICES ASSUME fired # NothingFired
                 PROVE  fired.minute * LengthOf(cfg) <= t /\ t <= (fired.minute + 1) * LengthOf(cfg)
      BY DEF GeneratedInItsMinute, LengthOf, Upto
    <2>1. /\ Driving /\ FiredRight /\ iatIndex \in 1 .. Len(IAT)
          /\ Good(cfg, functions[driven], driven) /\ IAT \in Seq(Nat)
      BY <1>1, WhenFired
    <2>2. DueInMinute(IAT, pmc, LengthOf(cfg))  BY <2>1 DEF Driving, Good
    <2>3. fired.index = iatIndex - 1 /\ InMinute(pmc, fired.index, fired.minute)  BY <2>1 DEF FiredRight
    <2>4. fired.index + 1 = iatIndex /\ InMinute(pmc, iatIndex - 1, fired.minute)  BY <2>1, <2>3
    <2> QED BY <2>1, <2>2, <2>4 DEF DueInMinute
  <1> QED BY <1>1, CommandInvariant, PTL

\* At least RpsCooldownSeconds pass between the invocations of a cold function.
THEOREM ColdStartsAreCold == Spec => []ColdStartsCold
  <1>1. ASSUME CommandInv PROVE ColdStartsCold
    <2> SUFFICES ASSUME NEW i \in 1 .. Len(functions), functions[i].kind = "cold"
                 PROVE  \A k \in 2 .. Len(functions[i].IAT) : functions[i].IAT[k] >= cfg.cooldown * second
      BY DEF ColdStartsCold, Cold
    <2>1. Good(cfg, functions[i], i) \/ Pending(cfg, functions[i], i)  BY <1>1 DEF CommandInv, FunctionsInv
    <2>2. ~Pending(cfg, functions[i], i)  BY DEF Pending
    <2> QED BY <2>1, <2>2 DEF Good
  <1> QED BY <1>1, CommandInvariant, PTL

\* A driver that is late catches up at the first IAT as long as its lateness: the
\* sleep subtracts the delay, and no other step moves the loop.
THEOREM DriverCatchesUp == Spec => CatchesUp
  <1>1. ASSUME CommandInv, [Next]_vars
        PROVE  [iatIndex' = iatIndex + 1 /\ Micros(IAT[iatIndex + 1]) >= Lateness
                  => Lateness' <= Jitter]_scheduleVars
    <2>0. PhaseInv /\ FunctionsInv /\ GenerateInv /\ IdleInv /\ DriverInv  BY <1>1 DEF CommandInv
    <2>1. iatIndex \in Nat
      <3>1. CASE fired # NothingFired  BY <1>1, <3>1, WhenFired
      <3>2. CASE fired = NothingFired
        <4>1. CASE phase = "generate"  BY <2>0, <4>1 DEF GenerateInv, LoopIdle
        <4>2. CASE phase # "generate" /\ (driven = 0 \/ functions[driven].IAT = <<>>)
          BY <2>0, <4>2 DEF IdleInv, LoopIdle
        <4>3. CASE driven # 0 /\ functions[driven].IAT # <<>>
          <5>1. iatIndex \in 0 .. Len(IAT)  BY <2>0, <4>3 DEF DriverInv, Driving
          <5> QED BY <5>1
        <4> QED BY <4>1, <4>2, <4>3
      <3> QED BY <3>1, <3>2
    <2>2. CASE Fire
      <3>1. phase = "loop" /\ FireInvocation(cfg.warmup) /\ iatIndex < Len(IAT)  BY <2>2 DEF Fire, FireInvocation
      <3>2. driven # 0 /\ functions[driven].IAT # <<>> /\ driven \in 0 .. Len(functions)  BY <2>0, <3>1 DEF PhaseInv
      <3>3. Driving  BY <2>0, <3>2 DEF DriverInv
      <3>4. driven \in 1 .. Len(functions)
        <4>1. Len(functions) \in Nat  BY <2>0 DEF FunctionsInv
        <4> QED BY <3>2, <4>1
      <3>5. functions[driven] \in FunctionType
        BY <2>0, <3>1, <3>4, GoodIsNotMissing DEF FunctionsInv
      <3>6. IAT \in Seq(Nat) /\ iatIndex \in 0 .. Len(IAT) - 1
        <4>1. IAT \in Seq(Nat)  BY <3>3, <3>5, FunctionFields DEF Driving
        <4>2. Len(IAT) \in Nat  BY <4>1
        <4> QED BY <2>1, <3>1, <4>1, <4>2
      <3>7. cfg.warmup \in Nat  BY <1>1 DEF CommandInv, Configured
      <3>8. Clock  BY <3>3 DEF Driving
      <3>9. now' - previousIATSum' <= (IF Micros(IAT[iatIndex + 1]) >= now - previousIATSum THEN Jitter
                                       ELSE now' - previousIATSum')
        BY <3>1, <3>6, <3>7, <3>8, FireClock
      <3> QED BY <3>9 DEF Lateness
    <2>3. CASE UNCHANGED scheduleVars  BY <2>3
    <2>4. CASE iatIndex' = iatIndex
      <3>1. iatIndex' # iatIndex + 1  BY <2>1, <2>4
      <3> QED BY <3>1
    <2>5. QuietNext \/ ParseTrace \/ Parse2021 \/ GenerateWarm \/ GenerateCold => UNCHANGED scheduleVars
      BY DEF QuietNext, InvalidInput, DetermineInput, AllGenerated, RpsGenerated,
             ReadOrWriteSpecificationToFile, RunExperiment, internalRunDAGs, EndLoop, GenerateLoad,
             TimelineStep, TimelineEnds, Stop, vars, otherVars, ParseTrace, Parse2021, GenerateWarm, GenerateCold
    <2>6. GenerateFunctionMinute \/ GenerateInvocationData => iatIndex' = iatIndex
      BY DEF GenerateFunctionMinute, GenerateMinute, GenerateInvocationData, EndGenerate, loopVars
    <2>7. ASSUME NEW i \in 1 .. Len(functions), RunDriver(i) PROVE iatIndex' = iatIndex
      BY <2>7 DEF RunDriver, StartDriver, scheduleVars, loopVars
    <2> QED BY <1>1, <2>2, <2>3, <2>4, <2>5, <2>6, <2>7, NextCases
  <1> QED BY <1>1, CommandInvariant, PTL DEF Spec, CatchesUp

-----------------------------------------------------------------------------
(***************************************************************************)
(* The DAGs of a run                                                        *)
(***************************************************************************)
DagInv ==
  /\ GeneratorInv
  /\ dagPC # "off" => phase = "run" /\ cfg.DAGMode /\ numFunctions = Len(functions)

LEMMA DagInitial == Init => DagInv
  BY GeneratorInitial DEF Init, DagInit, DagInv

\* Steps that are not about DAGs happen in other phases.
LEMMA DagFrame ==
  ASSUME DagInv, UNCHANGED dagVars,
         dagPC # "off" => UNCHANGED <<phase, cfg, functions>>
  PROVE  DagInv'
  <1>1. GeneratorInv'  BY DEF DagInv, GeneratorInv, dagVars
  <1> QED BY <1>1 DEF DagInv, dagVars

LEMMA RunExperimentDags ==
  ASSUME DagInv, CommandInv, RunExperiment
  PROVE  DagInv'
  <1>1. phase = "driver" /\ numFunctions' = Len(functions)
        /\ (dagPC' = IF cfg.DAGMode /\ phase' = "run" THEN "shape" ELSE "off")
        /\ UNCHANGED <<cfg, functions, width, depth, widthList, functionIndex, dag, totalDAGList>>
    BY DEF RunExperiment
  <1>2. dagPC = "off" /\ GeneratorInv  BY <1>1 DEF DagInv
  <1>3. Len(functions) \in Nat
    <2>1. functions \in Seq(FunctionType)  BY DEF CommandInv, FunctionsInv
    <2> QED BY <2>1
  <1>4. dagPC' \in {"shape", "off"} /\ (dagPC' = "shape" => cfg.DAGMode /\ phase' = "run")  BY <1>1
  <1>5. GeneratorInv'  BY <1>1, <1>2, <1>3, <1>4, GeneratorEntered
  <1> QED BY <1>1, <1>4, <1>5 DEF DagInv

LEMMA DagNext ==
  ASSUME DagInv, CommandInv, [Next]_vars
  PROVE  DagInv'
  <1>1. PhaseInv  BY DEF CommandInv
  <1>2. CASE internalRunDAGs
    <2>1. phase = "run" /\ GenerateDAGs /\ UNCHANGED <<phase, cfg, functions>>
      BY <1>2 DEF internalRunDAGs, commandVars
    <2>2. dagPC # "off" /\ UNCHANGED numFunctions
      BY <2>1 DEF GenerateDAGs, StartDAG, NoMoreDAGs, SkipLeaf, AddChildren, EndDAG
    <2>3. numFunctions >= 1  BY <1>1, <2>1, <2>2 DEF PhaseInv, DagInv
    <2>4. GeneratorInv'  BY <2>1, <2>3, GeneratorStep DEF DagInv
    <2> QED BY <2>1, <2>2, <2>4 DEF DagInv
  <1>3. CASE RunExperiment  BY <1>3, RunExperimentDags
  <1>4. CASE UNCHANGED vars
    <2>1. UNCHANGED dagVars /\ UNCHANGED <<phase, cfg, functions>>  BY <1>4 DEF vars, commandVars
    <2> QED BY <2>1, DagFrame
  <1>5. dagPC # "off" => phase = "run" /\ cfg.DAGMode  BY DEF DagInv
  <1>6. CASE InvalidInput \/ DetermineInput \/ ParseTrace \/ Parse2021
    <2>1. UNCHANGED dagVars /\ phase # "run"
      BY <1>6 DEF InvalidInput, DetermineInput, ParseTrace, Parse2021, otherVars
    <2> QED BY <1>5, <2>1, DagFrame
  <1>7. CASE GenerateFunctionMinute \/ GenerateInvocationData \/ AllGenerated
    <2>1. UNCHANGED dagVars /\ phase # "run"
      BY <1>7 DEF GenerateFunctionMinute, GenerateInvocationData, AllGenerated, otherVars
    <2> QED BY <1>5, <2>1, DagFrame
  <1>8. CASE GenerateWarm \/ GenerateCold \/ RpsGenerated \/ ReadOrWriteSpecificationToFile
    <2>1. UNCHANGED dagVars /\ phase # "run"
      BY <1>8 DEF GenerateWarm, GenerateCold, RpsGenerated, ReadOrWriteSpecificationToFile, otherVars
    <2> QED BY <1>5, <2>1, DagFrame
  <1>9. CASE \E i \in 1 .. Len(functions) : RunDriver(i)
    <2>1. UNCHANGED dagVars /\ ~cfg.DAGMode  BY <1>9 DEF RunDriver
    <2> QED BY <1>5, <2>1, DagFrame
  <1>10. CASE Fire \/ EndLoop
    <2>1. UNCHANGED dagVars /\ phase # "run"  BY <1>10 DEF Fire, EndLoop, otherVars
    <2> QED BY <1>5, <2>1, DagFrame
  <1>11. CASE GenerateLoad \/ TimelineStep \/ TimelineEnds
    <2>1. UNCHANGED dagVars /\ phase # "run"  BY <1>11 DEF GenerateLoad, TimelineStep, TimelineEnds
    <2> QED BY <1>5, <2>1, DagFrame
  <1>12. CASE Stop  BY <1>4, <1>12 DEF Stop
  <1> QED BY <1>2, <1>3, <1>4, <1>6, <1>7, <1>8, <1>9, <1>10, <1>11, <1>12 DEF Next

\* The invariant of the generator of DAGs: the DAGs finished so far are right, and the
\* one being built can only become so.
THEOREM DagInvariant == Spec => []DagInv
  <1>1. Init => DagInv  BY DagInitial
  <1>2. DagInv /\ CommandInv /\ [Next]_vars => DagInv'  BY DagNext
  <1> QED BY <1>1, <1>2, CommandInvariant, PTL DEF Spec

\* Every DAG has the width, the depth and the number of nodes at each depth that were
\* drawn for it, and no placeholder is left, for any number of functions and any choice
\* of branches: the last node of a stage takes what the next stage lacks.
THEOREM DagsHaveTheirShape == Spec => []DagShapeRight
  <1>1. DagInv => DagShapeRight  BY ShapesFollow DEF DagInv
  <1> QED BY <1>1, DagInvariant, PTL

\* No function is in two places of the DAGs, finished or being built, and none is
\* looked up beyond the end of the list: the size that is reserved for a DAG is enough.
THEOREM DagFunctionsAreUnique == Spec => []FunctionsUnique
  <1>1. DagInv => FunctionsUnique  BY UniquenessFollows DEF DagInv
  <1> QED BY <1>1, DagInvariant, PTL

-----------------------------------------------------------------------------
(***************************************************************************)
(* The other variables                                                      *)
(***************************************************************************)
\* The channel is a sequence, and never fuller than its capacity.
WriterInv == (\E S : writer \in Seq(S)) /\ Len(writer) <= WriterSize

LEMMA WriterNext ==
  ASSUME WriterInv, [Next]_vars
  PROVE  WriterInv'
  <1>1. CASE writer' = writer  BY <1>1 DEF WriterInv
  <1>2. CASE WriteTimelineRow
    <2>1. writer # <<>> /\ writer' = Tail(writer)  BY <1>2 DEF WriteTimelineRow
    <2>2. PICK S : writer \in Seq(S)  BY DEF WriterInv
    <2>3. writer' \in Seq(S) /\ Len(writer') = Len(writer) - 1  BY <2>1, <2>2
    <2>4. Len(writer) \in Nat /\ Len(writer) <= WriterSize /\ WriterSize \in Nat
      BY <2>2, TimelineAssumption DEF WriterInv
    <2>5. Len(writer') <= WriterSize  BY <2>3, <2>4
    <2> QED BY <2>3, <2>5 DEF WriterInv
  <1>3. ASSUME NEW i \in DOMAIN walker, Walk(functions, i, millisecondScale, runtimeOf(i)) PROVE WriterInv'
    <2>1. PICK rows : Send(rows) /\ (rows = <<>> \/ \E x : rows = <<x>>)  BY <1>3 DEF Walk
    <2>2. PICK S : writer \in Seq(S)  BY DEF WriterInv
    <2>3. Len(writer) + Len(rows) <= WriterSize /\ writer' = writer \o rows  BY <2>1 DEF Send
    <2>4. PICK R : rows \in Seq(R)
      <3>1. CASE rows = <<>>
        <4>1. rows \in Seq({})  BY <3>1
        <4> QED BY <4>1
      <3>2. CASE \E x : rows = <<x>>
        <4>1. PICK x : rows = <<x>>  BY <3>2
        <4>2. rows \in Seq({x})  BY <4>1
        <4> QED BY <4>2
      <3> QED BY <2>1, <3>1, <3>2
    <2> DEFINE U == S \cup R
    <2>5. writer \in Seq(U) /\ rows \in Seq(U)  BY <2>2, <2>4
    <2> HIDE DEF U
    <2>6. writer' \in Seq(U) /\ Len(writer') = Len(writer) + Len(rows)  BY <2>3, <2>5
    <2> QED BY <2>3, <2>6 DEF WriterInv
  <1>4. CASE TimelineStep
    <2>1. CASE CloseWriter  BY <1>1, <2>1 DEF CloseWriter
    <2> QED BY <1>2, <1>3, <1>4, <2>1 DEF TimelineStep
  <1>5. CASE TimelineEnds  BY <1>1, <1>5 DEF TimelineEnds, buildTimeline, timelineVars
  <1>6. CASE GenerateLoad  BY <1>1, <1>6 DEF GenerateLoad, StartTimeline, timelineVars
  <1>7. CASE UNCHANGED vars  BY <1>1, <1>7 DEF vars, timelineVars
  <1>8. CASE Stop  BY <1>7, <1>8 DEF Stop
  <1>9. CASE InvalidInput \/ DetermineInput \/ ParseTrace \/ Parse2021 \/ AllGenerated \/ RpsGenerated \/ EndLoop
    BY <1>1, <1>9 DEF InvalidInput, DetermineInput, ParseTrace, Parse2021, AllGenerated, RpsGenerated, EndLoop,
                      otherVars, timelineVars
  <1>10. CASE GenerateFunctionMinute \/ GenerateInvocationData \/ GenerateWarm \/ GenerateCold
              \/ ReadOrWriteSpecificationToFile
    BY <1>1, <1>10 DEF GenerateFunctionMinute, GenerateInvocationData, GenerateWarm, GenerateCold,
                       ReadOrWriteSpecificationToFile, otherVars, timelineVars
  <1>11. CASE RunExperiment \/ internalRunDAGs \/ Fire
    BY <1>1, <1>11 DEF RunExperiment, internalRunDAGs, Fire, timelineVars
  <1>12. CASE \E i \in 1 .. Len(functions) : RunDriver(i)  BY <1>1, <1>12 DEF RunDriver, timelineVars
  <1> QED BY <1>4, <1>5, <1>6, <1>7, <1>8, <1>9, <1>10, <1>11, <1>12 DEF Next

LEMMA ScheduleTypes ==
  ASSUME CommandInv
  PROVE  ScheduleTypeOK
  <1>0. PhaseInv /\ FunctionsInv /\ GenerateInv /\ IdleInv /\ DriverInv  BY DEF CommandInv
  <1>1. ASSUME LoopIdle, IAT \in Seq(Nat), pmc \in Seq(Nat) PROVE ScheduleTypeOK
    <2>1. Len(IAT) \in Nat  BY <1>1
    <2>2. 0 \in 0 .. Len(IAT)  BY <2>1
    <2> QED BY <1>1, <2>2 DEF LoopIdle, ScheduleTypeOK
  <1>2. CASE phase = "generate"
    <2>1. LoopIdle /\ Spread(IAT, pmc)  BY <1>0, <1>2 DEF GenerateInv
    <2> QED BY <1>1, <2>1 DEF Spread
  <1>3. CASE phase # "generate" /\ (driven = 0 \/ functions[driven].IAT = <<>>)
    <2>1. LoopIdle /\ IAT = <<0>> /\ pmc = <<>>  BY <1>0, <1>3 DEF IdleInv
    <2>2. <<0>> \in Seq(Nat) /\ <<>> \in Seq(Nat)  OBVIOUS
    <2> QED BY <1>1, <2>1, <2>2
  <1>4. CASE driven # 0 /\ functions[driven].IAT # <<>>
    <2>1. Driving  BY <1>0, <1>4 DEF DriverInv
    <2>2. driven \in 1 .. Len(functions)
      <3>1. driven \in 0 .. Len(functions) /\ Len(functions) \in Nat  BY <1>0 DEF PhaseInv, FunctionsInv
      <3> QED BY <1>4, <3>1
    <2>3. functions[driven] \in FunctionType  BY <1>0, <2>2 DEF FunctionsInv
    <2>4. IAT \in Seq(Nat) /\ pmc \in Seq(Nat)  BY <2>1, <2>3, FunctionFields DEF Driving
    <2> QED BY <2>1, <2>4 DEF Driving, Clock, ScheduleTypeOK
  <1> QED BY <1>2, <1>3, <1>4

\* The types of the command's variables: the index of the driver stays within the
\* IATs, that of the generator of DAGs within the functions, no stage ever lacks a
\* negative number of nodes, and the channel of the timeline tool holds its capacity.
THEOREM Types == Spec => []TypeOK
  <1>1. Init => WriterInv
    <2> SUFFICES ASSUME Init PROVE WriterInv  OBVIOUS
    <2>1. writer = <<>>  BY DEF Init, TimelineInit
    <2>2. <<>> \in Seq({}) /\ Len(<<>>) <= WriterSize  BY TimelineAssumption
    <2> QED BY <2>1, <2>2 DEF WriterInv
  <1>2. WriterInv /\ [Next]_vars => WriterInv'  BY WriterNext
  <1>3. ASSUME CommandInv, DagInv, WriterInv PROVE TypeOK
    <2>1. ScheduleTypeOK  BY <1>3, ScheduleTypes
    <2>2. phase \in Phases /\ driven \in 0 .. Len(functions)  BY <1>3 DEF CommandInv, PhaseInv
    <2>3. /\ dagPC \in {"off", "shape", "build", "done"} /\ functionIndex \in 0 .. numFunctions
          /\ \A i \in DOMAIN widthList : widthList[i] \in 0 .. MaxWidth
      BY <1>3 DEF DagInv, GeneratorInv
    <2>4. Len(writer) <= WriterSize  BY <1>3 DEF WriterInv
    <2> QED BY <2>1, <2>2, <2>3, <2>4 DEF TypeOK, Phases
  <1> QED BY <1>1, <1>2, <1>3, CommandInvariant, DagInvariant, PTL DEF Spec

\* Every invocation of a function has a run time specification, and so has every node
\* of a DAG for every invocation of its entry: in DAG mode all functions are generated
\* from the first row of the trace.
THEOREM SpecificationsAlwaysFit == Spec => []SpecificationsFit
  <1>1. ASSUME CommandInv, DagInv PROVE SpecificationsFit
    <2>0. FunctionsInv  BY <1>1 DEF CommandInv
    <2>1. ASSUME phase \in {"run", "loop", "timeline"}, NEW i \in 1 .. Len(functions)
          PROVE  Good(cfg, functions[i], i)
      BY <2>0, <2>1 DEF FunctionsInv
    <2>2. ASSUME NEW x \in 1 .. Len(totalDAGList), NEW p \in Places(totalDAGList[x].lists)
          PROVE  functions[totalDAGList[x].lists[p[1]][p[2]].function + 1].specs
                   >= Len(functions[totalDAGList[x].lists[1][1].function + 1].IAT)
      <3> DEFINE L == totalDAGList[x].lists
                 a == L[p[1]][p[2]].function
                 b == L[1][1].function
      <3>1. dagPC # "off"
        <4> SUFFICES ASSUME dagPC = "off" PROVE FALSE  OBVIOUS
        <4>1. totalDAGList = <<>>  BY <1>1 DEF DagInv, GeneratorInv
        <4> QED BY <4>1
      <3>2. /\ phase = "run" /\ cfg.DAGMode /\ numFunctions = Len(functions)
            /\ numFunctions \in Nat /\ functionIndex \in 0 .. numFunctions
        BY <1>1, <3>1 DEF DagInv, GeneratorInv
      <3>3. PICK B, f : AllFinished(totalDAGList, B, f) /\ f \in 0 .. numFunctions
        <4>1. CASE dagPC = "build"
          <5>1. PICK F, base, B :
                  /\ Building(dag, F, base, functionIndex, nodeQueue, widthList, stages, width, depth, numFunctions)
                  /\ AllFinished(totalDAGList, B, base)
            BY <1>1, <4>1 DEF DagInv, GeneratorInv
          <5>2. base \in 0 .. functionIndex  BY <5>1, WithinFunctions
          <5>3. base \in 0 .. numFunctions  BY <3>2, <5>2
          <5> QED BY <5>1, <5>3
        <4>2. CASE dagPC # "build"  BY <1>1, <3>2, <4>2 DEF DagInv, GeneratorInv
        <4> QED BY <4>1, <4>2
      <3>4. Finished(totalDAGList[x], B[x], B[x + 1])  BY <3>3 DEF AllFinished
      <3>5. B[x + 1] <= numFunctions /\ B[x + 1] \in Nat /\ B[x] \in Nat
        <4> DEFINE n == Len(totalDAGList)
        <4>1. /\ n \in Nat /\ x \in 1 .. n /\ B \in Seq(Nat) /\ Len(B) = n + 1 /\ B[n + 1] = f
              /\ \A i, j \in 1 .. n + 1 : i <= j => B[i] <= B[j]
          BY <3>3 DEF AllFinished
        <4> HIDE DEF n
        <4>2. x \in 1 .. n + 1 /\ x + 1 \in 1 .. n + 1 /\ n + 1 \in 1 .. n + 1 /\ x + 1 <= n + 1  BY ONLY <4>1
        <4>3. B[x + 1] <= f /\ B[x + 1] \in Nat /\ B[x] \in Nat  BY ONLY <4>1, <4>2
        <4> QED BY ONLY <3>2, <3>3, <4>3
      <3>6. Complete(L, totalDAGList[x].depth, B[x], B[x + 1])  BY <3>4 DEF Finished
      <3> HIDE DEF L
      <3>7. \A l \in 1 .. Len(L) : \A k \in 1 .. Len(L[l]) : L[l][k].function \in B[x] .. B[x + 1] - 1
        BY <3>6 DEF Complete
      <3>8. a \in B[x] .. B[x + 1] - 1 /\ b \in B[x] .. B[x + 1] - 1
        <4>1. p[1] \in 1 .. Len(L) /\ p[2] \in 1 .. Len(L[p[1]])  BY <2>2, PlacesAre DEF L
        <4>2. Len(L) \in Nat /\ Len(L) >= 1 /\ Len(L[1]) \in Nat /\ Len(L[1]) >= 1
          <5>1. L \in Seq(Seq(NodeType)) /\ Len(L) >= 1 /\ Len(L[1]) = totalDAGList[x].depth
                /\ totalDAGList[x].depth \in Nat /\ totalDAGList[x].depth >= 1
            BY <3>6 DEF Complete
          <5> QED BY <5>1
        <4>3. 1 \in 1 .. Len(L) /\ 1 \in 1 .. Len(L[1])  BY <4>2
        <4> QED BY <3>7, <4>1, <4>3
      <3> HIDE DEF a, b
      <3>9. a + 1 \in 1 .. numFunctions /\ b + 1 \in 1 .. numFunctions  BY ONLY <3>2, <3>5, <3>8
      <3>10. Good(cfg, functions[a + 1], a + 1) /\ Good(cfg, functions[b + 1], b + 1)  BY <2>1, <3>2, <3>9
      <3>11. /\ functions[a + 1].specs = Sum(FirstRow(cfg)) /\ functions[b + 1].specs = Sum(FirstRow(cfg))
             /\ functions[b + 1].specs = Len(functions[b + 1].IAT)
             /\ functions[b + 1] \in FunctionType
        BY <3>2, <3>10 DEF Good
      <3>12. Len(functions[b + 1].IAT) \in Nat
        <4>1. functions[b + 1].IAT \in Seq(Nat)  BY <3>11, FunctionFields
        <4> QED BY <4>1
      <3>13. functions[a + 1].specs = Len(functions[b + 1].IAT)  BY <3>11
      <3>14. functions[a + 1].specs >= Len(functions[b + 1].IAT)  BY <3>12, <3>13
      <3> QED BY <3>14 DEF a, b, L
    <2>3. \A i \in 1 .. Len(functions) : Good(cfg, functions[i], i) => functions[i].specs = Len(functions[i].IAT)
      BY DEF Good
    <2> QED BY <2>1, <2>2, <2>3 DEF SpecificationsFit
  <1> QED BY <1>1, CommandInvariant, DagInvariant, PTL

-----------------------------------------------------------------------------
(***************************************************************************)
(* The rate of cold starts                                                  *)
(***************************************************************************)
\* For requests per second: the warm function comes first, and the cold ones are those
\* that GenerateColdStartFunctions makes, all of them unless one is out of range.
TotalCold == totalFunctions(cfg.cold, cfg.cooldown)
PeriodDivides == (Duration * minute) % coldIAT(cfg.cold, cfg.cooldown) = 0
RpsInv ==
  cfg.input = "RPS" =>
    /\ \A j \in 1 .. Len(functions) : functions[j].kind = "cold" <=> j # 1
    /\ \A j \in 2 .. Len(functions) : functions[j].IAT = coldStartFunction(Duration, cfg.cold, cfg.cooldown, j - 2)
    /\ phase \in {"start", "parse", "warm"} => functions = <<>>
    /\ cfg.cold.num > 0 /\ phase \in {"files", "driver"} => Len(functions) - 1 = TotalCold
    /\ cfg.cold.num > 0 /\ phase = "panic" /\ PeriodDivides => Len(functions) - 1 = TotalCold

LEMMA RpsInitial == Init => RpsInv
  <1> SUFFICES ASSUME Init PROVE RpsInv  OBVIOUS
  <1>1. phase = "start" /\ functions = <<>>  BY DEF Init
  <1>2. Len(functions) = 0  BY <1>1
  <1> QED BY <1>1, <1>2 DEF RpsInv

LEMMA RpsFunctionIs ==
  ASSUME NEW kind \in {"warm", "cold"}, NEW iats
  PROVE  RpsFunction(kind, iats).kind = kind /\ RpsFunction(kind, iats).IAT = iats
  BY DEF RpsFunction, Function

LEMMA GenerateColdRps ==
  ASSUME CommandInv, RpsInv, GenerateCold
  PROVE  RpsInv'
  <1> DEFINE n == Len(functions)
             iats == coldStartFunction(Duration, cfg.cold, cfg.cooldown, n - 1)
             f == RpsFunction("cold", iats)
  <1>1. /\ phase = "cold" /\ cfg.cold.num > 0 /\ cfg' = cfg /\ n - 1 < TotalCold
        /\ \/ InRange(Duration, iats) /\ functions' = Append(functions, f) /\ phase' = phase
           \/ ~InRange(Duration, iats) /\ phase' = "panic" /\ functions' = functions
    BY DEF GenerateCold, End, TotalCold
  <1>2. PhaseInv /\ Configured(cfg) /\ functions \in Seq(FunctionType)  BY DEF CommandInv, FunctionsInv
  <1>3. /\ cfg.input = "RPS" /\ Duration \in Nat /\ cfg.cold \in ColdRates /\ cfg.cooldown \in Nat
        /\ cfg.cooldown > 0 /\ n >= 1 /\ n \in Nat
    BY <1>1, <1>2 DEF PhaseInv, Configured, Duration, DurationOf
  <1>4. /\ \A j \in 1 .. n : functions[j].kind = "cold" <=> j # 1
        /\ \A j \in 2 .. n : functions[j].IAT = coldStartFunction(Duration, cfg.cold, cfg.cooldown, j - 2)
    BY <1>3 DEF RpsInv
  <1>5. Duration' = Duration /\ TotalCold' = TotalCold /\ PeriodDivides' = PeriodDivides
    BY <1>1 DEF Duration, TotalCold, PeriodDivides
  <1>6. CASE InRange(Duration, iats) /\ functions' = Append(functions, f) /\ phase' = phase
    <2>1. f.kind = "cold" /\ f.IAT = iats  BY RpsFunctionIs
    <2> HIDE DEF f
    <2>2. Len(functions') = n + 1 /\ \A j \in 1 .. n + 1 : functions'[j] = IF j = n + 1 THEN f ELSE functions[j]
      BY <1>2, <1>6
    <2>3. \A j \in 1 .. n + 1 : functions'[j].kind = "cold" <=> j # 1
      <3> SUFFICES ASSUME NEW j \in 1 .. n + 1 PROVE functions'[j].kind = "cold" <=> j # 1  OBVIOUS
      <3>1. CASE j = n + 1  BY <1>3, <2>1, <2>2, <3>1
      <3>2. CASE j # n + 1
        <4>1. j \in 1 .. n  BY <1>3, <3>2
        <4> QED BY <1>4, <2>2, <3>2, <4>1
      <3> QED BY <3>1, <3>2
    <2>4. \A j \in 2 .. n + 1 : functions'[j].IAT = coldStartFunction(Duration, cfg.cold, cfg.cooldown, j - 2)
      <3> SUFFICES ASSUME NEW j \in 2 .. n + 1
                   PROVE  functions'[j].IAT = coldStartFunction(Duration, cfg.cold, cfg.cooldown, j - 2)
        OBVIOUS
      <3>1. CASE j = n + 1
        <4>1. n - 1 = j - 2 /\ functions'[j] = f  BY <1>3, <2>2, <3>1
        <4> QED BY <2>1, <4>1
      <3>2. CASE j # n + 1
        <4>1. j \in 2 .. n /\ j \in 1 .. n + 1  BY <1>3, <3>2
        <4> QED BY <1>4, <2>2, <3>2, <4>1
      <3> QED BY <3>1, <3>2
    <2>5. phase' = "cold"  BY <1>1, <1>6
    <2> QED BY <1>1, <1>5, <2>2, <2>3, <2>4, <2>5 DEF RpsInv
  <1>7. CASE ~InRange(Duration, iats) /\ phase' = "panic" /\ functions' = functions
    <2>1. ~PeriodDivides
      <3> SUFFICES ASSUME PeriodDivides PROVE FALSE  OBVIOUS
      <3> DEFINE i == n - 1
      <3>1. i \in Nat /\ i < totalFunctions(cfg.cold, cfg.cooldown)  BY <1>1, <1>3 DEF TotalCold
      <3>2. cfg.cold \in Rates  BY <1>1, <1>3, RateIs
      <3> HIDE DEF i
      <3>3. InRange(Duration, coldStartFunction(Duration, cfg.cold, cfg.cooldown, i))
        BY <1>3, <3>1, <3>2, ColdInRange DEF PeriodDivides
      <3> QED BY <1>7, <3>3 DEF i
    <2> QED BY <1>1, <1>4, <1>5, <1>7, <2>1 DEF RpsInv
  <1> QED BY <1>1, <1>6, <1>7

LEMMA RpsNext ==
  ASSUME CommandInv, RpsInv, [Next]_vars
  PROVE  RpsInv'
  <1>0. PhaseInv  BY DEF CommandInv
  <1>1. CASE UNCHANGED <<phase, cfg, functions>>
    BY <1>1 DEF RpsInv, Duration, TotalCold, PeriodDivides
  <1>2. CASE cfg' = cfg /\ cfg.input # "RPS"  BY <1>2 DEF RpsInv
  <1>3. ASSUME UNCHANGED <<cfg, functions>>, phase \notin {"start", "parse", "warm"} => phase' \notin {"start", "parse", "warm"},
               phase' \in {"files", "driver"} /\ cfg.input = "RPS" /\ cfg.cold.num > 0 => Len(functions) - 1 = TotalCold,
               phase' = "panic" /\ cfg.input = "RPS" /\ cfg.cold.num > 0 => phase = "driver"
        PROVE  RpsInv'
    <2>1. Duration' = Duration /\ TotalCold' = TotalCold /\ PeriodDivides' = PeriodDivides
      BY <1>3 DEF Duration, TotalCold, PeriodDivides
    <2> QED BY <1>3, <2>1 DEF RpsInv
  <1>4. CASE InvalidInput
    <2>1. phase' = "fatal" /\ UNCHANGED <<cfg, functions>>  BY <1>4 DEF InvalidInput, End
    <2> QED BY <1>3, <2>1
  <1>5. CASE DetermineInput
    <2>1. phase = "start" /\ phase' \in {"warm", "parse"} /\ UNCHANGED <<cfg, functions>>  BY <1>5 DEF DetermineInput
    <2> QED BY <1>3, <2>1
  <1>6. CASE ParseTrace \/ Parse2021
    <2>1. cfg' = cfg /\ cfg.input # "RPS"  BY <1>6 DEF ParseTrace, Parse2021
    <2> QED BY <1>2, <2>1
  <1>7. CASE GenerateFunctionMinute \/ GenerateInvocationData \/ AllGenerated
    <2>1. cfg' = cfg /\ phase = "generate"
      BY <1>7 DEF GenerateFunctionMinute, GenerateInvocationData, AllGenerated, commandVars
    <2>2. cfg.input # "RPS"  BY <1>0, <2>1 DEF PhaseInv
    <2> QED BY <1>2, <2>1, <2>2
  <1>8. CASE GenerateWarm
    <2> DEFINE f == RpsFunction("warm", GenerateWarmStartFunction(Duration, cfg.warm))
    <2>1. phase' = "cold" /\ functions' = <<f>>  BY <1>8 DEF GenerateWarm
    <2>2. f.kind = "warm"  BY RpsFunctionIs
    <2> HIDE DEF f
    <2>3. Len(functions') = 1 /\ functions'[1].kind = "warm"  BY <2>1, <2>2
    <2> QED BY <2>1, <2>3 DEF RpsInv
  <1>9. CASE GenerateCold  BY <1>9, GenerateColdRps
  <1>10. CASE RpsGenerated
    <2>1. /\ phase = "cold" /\ phase' = "files" /\ UNCHANGED <<cfg, functions>>
          /\ cfg.cold.num = 0 \/ Len(functions) - 1 = TotalCold
      BY <1>10 DEF RpsGenerated, TotalCold
    <2> QED BY <1>3, <2>1
  <1>11. CASE ReadOrWriteSpecificationToFile
    <2>1. phase = "files" /\ phase' \in {"fatal", "exited", "driver"} /\ UNCHANGED <<cfg, functions>>
      BY <1>11 DEF ReadOrWriteSpecificationToFile, End
    <2> QED BY <1>3, <2>1 DEF RpsInv
  <1>12. CASE RunExperiment
    <2>1. phase = "driver" /\ phase' \in {"exited", "run", "panic"} /\ UNCHANGED <<cfg, functions>>
      BY <1>12 DEF RunExperiment
    <2> QED BY <1>3, <2>1
  <1>13. CASE internalRunDAGs \/ Fire \/ TimelineStep \/ Stop \/ UNCHANGED vars
    <2>1. UNCHANGED <<phase, cfg, functions>>
      BY <1>13 DEF internalRunDAGs, Fire, TimelineStep, Stop, vars, commandVars
    <2> QED BY <1>1, <2>1
  <1>14. CASE (\E i \in 1 .. Len(functions) : RunDriver(i)) \/ EndLoop \/ GenerateLoad \/ TimelineEnds
    <2>1. /\ phase \in {"run", "loop", "timeline", "walk"} /\ phase' \in {"loop", "done", "fatal", "walk"}
          /\ UNCHANGED <<cfg, functions>>
      BY <1>14 DEF RunDriver, EndLoop, GenerateLoad, TimelineEnds, End
    <2> QED BY <1>3, <2>1
  <1> QED BY <1>4, <1>5, <1>6, <1>7, <1>8, <1>9, <1>10, <1>11, <1>12, <1>13, <1>14 DEF Next

\* If the time between two invocations of a cold function divides the duration, no cold
\* function has an invocation after the last minute, and with a whole number of cold
\* starts per second exactly so many are due in every second: offsets and periods of the
\* functions of GenerateColdStartFunctions neither overlap nor leave a gap.
THEOREM RpsTargetIsMet == Spec => []RpsTargetMet
  <1>1. Init => RpsInv  BY RpsInitial
  <1>2. CommandInv /\ RpsInv /\ [Next]_vars => RpsInv'  BY RpsNext
  <1>3. ASSUME CommandInv, RpsInv PROVE RpsTargetMet
    <2> SUFFICES ASSUME cfg.input = "RPS", phase \in {"cold", "files", "panic"}, cfg.cold.num > 0,
                        (Duration * minute) % coldIAT(cfg.cold, cfg.cooldown) = 0
                 PROVE  /\ phase # "panic" \/ Len(functions) - 1 = totalFunctions(cfg.cold, cfg.cooldown)
                        /\ phase = "files" /\ cfg.cold.den = 1 =>
                             \A s \in 0 .. Duration * SecondsPerMinute - 1 :
                               Cardinality(ColdInSecond(s)) = cfg.cold.num
      BY DEF RpsTargetMet
    <2>1. phase # "panic" \/ Len(functions) - 1 = totalFunctions(cfg.cold, cfg.cooldown)
      BY <1>3 DEF RpsInv, PeriodDivides, TotalCold
    <2>2. ASSUME phase = "files", cfg.cold.den = 1, NEW s \in 0 .. Duration * SecondsPerMinute - 1
          PROVE  Cardinality(ColdInSecond(s)) = cfg.cold.num
      <3>1. /\ Len(functions) - 1 = totalFunctions(cfg.cold, cfg.cooldown)
            /\ \A j \in 1 .. Len(functions) : functions[j].kind = "cold" <=> j # 1
            /\ \A j \in 2 .. Len(functions) :
                 functions[j].IAT = coldStartFunction(Duration, cfg.cold, cfg.cooldown, j - 2)
        BY <1>3, <2>2 DEF RpsInv, TotalCold
      <3>2. /\ Len(functions) \in Nat /\ Duration \in Nat /\ cfg.cold \in ColdRates /\ cfg.cooldown \in Nat
            /\ cfg.cooldown > 0
        BY <1>3 DEF CommandInv, FunctionsInv, Configured, Duration, DurationOf
      <3>3. cfg.cold \in Rates  BY <3>2, RateIs
      <3>4. Cold = 2 .. Len(functions)
        <4>1. Cold = {i \in 1 .. Len(functions) : functions[i].kind = "cold"}  BY DEF Cold
        <4>2. {i \in 1 .. Len(functions) : functions[i].kind = "cold"} = {i \in 1 .. Len(functions) : i # 1}
          BY <3>1
        <4>3. {i \in 1 .. Len(functions) : i # 1} = 2 .. Len(functions)  BY <3>2
        <4> QED BY <4>1, <4>2, <4>3
      <3>5. ColdInSecond(s) = ColdIn(functions, s)  BY <3>4, Zenon DEF ColdInSecond, ColdIn
      <3> DEFINE D == Duration
                 r == cfg.cold
                 cooldown == cfg.cooldown
      <3>6. /\ (D * minute) % coldIAT(r, cooldown) = 0 /\ r.den = 1 /\ s \in 0 .. D * SecondsPerMinute - 1
            /\ Len(functions) \in Nat /\ D \in Nat /\ r \in Rates /\ cooldown \in Nat /\ cooldown > 0
            /\ Len(functions) - 1 = totalFunctions(r, cooldown)
            /\ \A j \in 2 .. Len(functions) : functions[j].IAT = coldStartFunction(D, r, cooldown, j - 2)
        BY <2>2, <3>1, <3>2, <3>3
      <3> HIDE DEF D, r, cooldown
      <3>7. Cardinality(ColdInSecond(s)) = r.num  BY ONLY <3>5, <3>6, ColdStartsPerSecond
      <3> QED BY <3>7 DEF r
    <2> QED BY <2>1, <2>2
  <1> QED BY <1>1, <1>2, <1>3, CommandInvariant, PTL DEF Spec

-----------------------------------------------------------------------------
(***************************************************************************)
(* The timeline tool                                                       *)
(***************************************************************************)
\* h lists the members of D, each once, in n places.
Lists(h, n, D) ==
  /\ h \in [1 .. n -> D]
  /\ \A a, b \in 1 .. n : h[a] = h[b] => a = b
  /\ \A p \in D : \E a \in 1 .. n : h[a] = p

\* A further member takes the next place.
Listed(h, n, p) == [a \in 1 .. n + 1 |-> IF a = n + 1 THEN p ELSE h[a]]

LEMMA ListsMore ==
  ASSUME NEW n \in Nat, NEW D, NEW h, Lists(h, n, D), NEW p, p \notin D
  PROVE  Lists(Listed(h, n, p), n + 1, D \cup {p})
  <1> DEFINE g == [a \in 1 .. n + 1 |-> IF a = n + 1 THEN p ELSE h[a]]
  <1>1. \A a \in 1 .. n : a \in 1 .. n + 1 /\ a # n + 1 /\ g[a] = h[a] /\ h[a] \in D  BY DEF Lists
  <1>2. n + 1 \in 1 .. n + 1 /\ g[n + 1] = p  OBVIOUS
  <1>3. \A a \in 1 .. n + 1 : a \in 1 .. n \/ a = n + 1  OBVIOUS
  <1>4. g \in [1 .. n + 1 -> D \cup {p}]
    <2>1. \A a \in 1 .. n + 1 : g[a] \in D \cup {p}  BY <1>1, <1>2, <1>3
    <2>2. g = [a \in 1 .. n + 1 |-> g[a]]  OBVIOUS
    <2> HIDE DEF g
    <2> QED BY <2>1, <2>2
  <1> HIDE DEF g
  <1>5. ASSUME NEW a \in 1 .. n + 1, NEW b \in 1 .. n + 1, g[a] = g[b] PROVE a = b
    BY <1>1, <1>2, <1>3, <1>5 DEF Lists
  <1>6. ASSUME NEW q \in D \cup {p} PROVE \E a \in 1 .. n + 1 : g[a] = q
    BY <1>1, <1>2 DEF Lists
  <1>7. Lists(g, n + 1, D \cup {p})  BY <1>4, <1>5, <1>6 DEF Lists
  <1>8. Listed(h, n, p) = g  BY DEF Listed, g
  <1> QED BY <1>7, <1>8

\* As many places as members, and of any part of D as many places as members of it.
LEMMA ListsPart ==
  ASSUME NEW n \in Nat, NEW D, NEW h, Lists(h, n, D), NEW Q, Q \subseteq D
  PROVE  Cardinality({a \in 1 .. n : h[a] \in Q}) = Cardinality(Q)
  <1> DEFINE P == {a \in 1 .. n : h[a] \in Q}
             g == [a \in P |-> h[a]]
  <1>1. IsFiniteSet(P)
    <2>1. IsFiniteSet(1 .. n)  BY FS_Interval
    <2>2. P \subseteq 1 .. n  OBVIOUS
    <2> HIDE DEF P
    <2> QED BY <2>1, <2>2, FS_Subset
  <1>2. ExistsBijection(P, Q)
    <2>1. \A a \in P : a \in 1 .. n /\ g[a] = h[a] /\ g[a] \in Q  OBVIOUS
    <2>2. g \in [P -> Q]  BY <2>1
    <2>3. ASSUME NEW q \in Q PROVE \E a \in P : g[a] = q
      <3>1. PICK a \in 1 .. n : h[a] = q  BY DEF Lists
      <3>2. a \in P  BY <3>1
      <3> QED BY <2>1, <3>1, <3>2
    <2> HIDE DEF P, g
    <2>4. \A a, b \in P : g[a] = g[b] => a = b  BY <2>1 DEF Lists
    <2>5. g \in Injection(P, Q)  BY <2>2, <2>4 DEF Injection, IsInjective
    <2>6. g \in Surjection(P, Q)  BY <2>2, <2>3 DEF Surjection
    <2> QED BY <2>5, <2>6 DEF Bijection, ExistsBijection
  <1> HIDE DEF P
  <1>3. Cardinality(P) = Cardinality(Q)  BY <1>1, <1>2, FS_Bijection
  <1> QED BY <1>3 DEF P

LEMMA ListsAll ==
  ASSUME NEW n \in Nat, NEW D, NEW h, Lists(h, n, D)
  PROVE  Cardinality(D) = n
  <1>1. {a \in 1 .. n : h[a] \in D} = 1 .. n  BY DEF Lists
  <1>2. Cardinality({a \in 1 .. n : h[a] \in D}) = Cardinality(D)  BY ListsPart
  <1>3. Cardinality(1 .. n) = n
    <2>1. CASE n = 0
      <3>1. 1 .. n = {}  BY <2>1
      <3> QED BY <2>1, <3>1, FS_EmptySet
    <2>2. CASE n > 0
      <3>1. 1 \in Int /\ n \in Int /\ ~(1 > n)  BY <2>2
      <3>2. Cardinality(1 .. n) = n - 1 + 1  BY <3>1, FS_Interval
      <3> QED BY <3>2
    <2> QED BY <2>1, <2>2
  <1> QED BY <1>1, <1>2, <1>3

-----------------------------------------------------------------------------
\* The rows in the file and in the channel are those of h, in the order of h.
RowsInOrder(out, ch, h, row) ==
  /\ \A n \in 1 .. Len(out) : out[n] = row[h[n]]
  /\ \A n \in 1 .. Len(ch) : ch[n] = row[h[Len(out) + n]]

\* The rows sent so far are those of the members of D, each once.
Sent(out, ch, D, row) ==
  \E h : Lists(h, Len(out) + Len(ch), D) /\ RowsInOrder(out, ch, h, row)

LEMMA SentNothing ==
  ASSUME NEW row
  PROVE  Sent(<<>>, <<>>, {}, row)
  <1> DEFINE h == [a \in 1 .. 0 |-> 0]
  <1>1. h \in [1 .. 0 -> {}]  OBVIOUS
  <1>2. Lists(h, 0, {})  BY <1>1 DEF Lists
  <1>3. RowsInOrder(<<>>, <<>>, h, row)  BY DEF RowsInOrder
  <1>4. Len(<<>>) + Len(<<>>) = 0  OBVIOUS
  <1> HIDE DEF h
  <1> QED BY <1>2, <1>3, <1>4 DEF Sent

LEMMA SentOne ==
  ASSUME NEW S, NEW out \in Seq(S), NEW ch \in Seq(S), NEW D, NEW row, Sent(out, ch, D, row),
         NEW p, p \notin D, row[p] \in S
  PROVE  Sent(out, ch \o <<row[p]>>, D \cup {p}, row)
  <1> DEFINE n == Len(out) + Len(ch)
             more == ch \o <<row[p]>>
  <1>1. PICK h : Lists(h, n, D) /\ RowsInOrder(out, ch, h, row)  BY DEF Sent
  <1>2. n \in Nat  OBVIOUS
  <1> DEFINE g == Listed(h, n, p)
  <1> HIDE DEF g
  <1>3. Lists(g, n + 1, D \cup {p}) /\ g[n + 1] = p /\ \A a \in 1 .. n : g[a] = h[a]
    <2> HIDE DEF n
    <2>1. Lists(g, n + 1, D \cup {p})  BY <1>1, <1>2, ListsMore DEF g
    <2>2. g[n + 1] = p /\ \A a \in 1 .. n : g[a] = h[a]  BY <1>2 DEF g, Listed
    <2> QED BY <2>1, <2>2
  <1>4. /\ Len(more) = Len(ch) + 1 /\ more[Len(ch) + 1] = row[p]
        /\ \A k \in 1 .. Len(ch) : more[k] = ch[k]
    OBVIOUS
  <1> HIDE DEF more
  <1>5. \A k \in 1 .. Len(out) : k \in 1 .. n  OBVIOUS
  <1>6. \A k \in 1 .. Len(ch) : Len(out) + k \in 1 .. n  OBVIOUS
  <1>7. \A k \in 1 .. Len(out) : out[k] = row[g[k]]  BY <1>1, <1>3, <1>5 DEF RowsInOrder
  <1>8. ASSUME NEW k \in 1 .. Len(more) PROVE more[k] = row[g[Len(out) + k]]
    <2>1. CASE k \in 1 .. Len(ch)  BY <1>1, <1>3, <1>4, <1>6, <2>1 DEF RowsInOrder
    <2>2. CASE k = Len(ch) + 1
      <3>1. Len(out) + k = n + 1  BY <2>2
      <3> QED BY <1>3, <1>4, <2>2, <3>1
    <2> QED BY <1>4, <2>1, <2>2
  <1>9. Len(out) + Len(more) = n + 1  BY <1>4
  <1>10. RowsInOrder(out, more, g, row)  BY <1>7, <1>8 DEF RowsInOrder
  <1>11. Lists(g, Len(out) + Len(more), D \cup {p})  BY <1>3, <1>9
  <1> QED BY <1>10, <1>11 DEF Sent, more

LEMMA SentAndWritten ==
  ASSUME NEW S, NEW out \in Seq(S), NEW ch \in Seq(S), NEW D, NEW row, Sent(out, ch, D, row), ch # <<>>
  PROVE  /\ Append(out, Head(ch)) \in Seq(S) /\ Tail(ch) \in Seq(S)
         /\ Sent(Append(out, Head(ch)), Tail(ch), D, row)
  <1> DEFINE more == Append(out, Head(ch))
             rest == Tail(ch)
  <1>1. PICK h : Lists(h, Len(out) + Len(ch), D) /\ RowsInOrder(out, ch, h, row)  BY DEF Sent
  <1>2. Len(ch) > 0 /\ Head(ch) = ch[1]  OBVIOUS
  <1>3. /\ more \in Seq(S) /\ Len(more) = Len(out) + 1 /\ more[Len(out) + 1] = ch[1]
        /\ \A k \in 1 .. Len(out) : more[k] = out[k]
    BY <1>2
  <1>4. /\ rest \in Seq(S) /\ Len(rest) = Len(ch) - 1
        /\ \A k \in 1 .. Len(ch) - 1 : rest[k] = ch[k + 1]
    OBVIOUS
  <1> HIDE DEF more, rest
  <1>5. ASSUME NEW k \in 1 .. Len(more) PROVE more[k] = row[h[k]]
    <2>1. CASE k \in 1 .. Len(out)  BY <1>1, <1>3, <2>1 DEF RowsInOrder
    <2>2. CASE k = Len(out) + 1
      <3>1. 1 \in 1 .. Len(ch)  BY <1>2
      <3>2. ch[1] = row[h[Len(out) + 1]]  BY <1>1, <3>1 DEF RowsInOrder
      <3> QED BY <1>3, <2>2, <3>2
    <2> QED BY <1>3, <2>1, <2>2
  <1>6. ASSUME NEW k \in 1 .. Len(rest) PROVE rest[k] = row[h[Len(more) + k]]
    <2>1. k \in 1 .. Len(ch) - 1 /\ k + 1 \in 1 .. Len(ch) /\ Len(more) + k = Len(out) + (k + 1)
      BY <1>3, <1>4
    <2>2. ch[k + 1] = row[h[Len(out) + (k + 1)]]  BY <1>1, <2>1 DEF RowsInOrder
    <2> QED BY <1>4, <2>1, <2>2
  <1>7. Len(more) + Len(rest) = Len(out) + Len(ch)  BY <1>3, <1>4
  <1>8. RowsInOrder(more, rest, h, row)  BY <1>5, <1>6 DEF RowsInOrder
  <1>9. Sent(more, rest, D, row)  BY <1>1, <1>7, <1>8 DEF Sent
  <1> QED BY <1>3, <1>4, <1>9 DEF more, rest

-----------------------------------------------------------------------------
\* buildTimeline: the last millisecond that is counted, and what is counted.
LaterEnd(r, last) == IF EndOf(r) > last THEN EndOf(r) ELSE last
IsMaxTime(f, records) ==
  f = [n \in 0 .. Len(records) |-> IF n = 0 THEN 0 ELSE LaterEnd(records[n], f[n - 1])]

LEMMA MaxTimeExists ==
  ASSUME NEW records, Len(records) \in Nat
  PROVE  \E f : IsMaxTime(f, records)
  <1> DEFINE Upto_n(f, n) == f = [k \in 0 .. n |-> IF k = 0 THEN 0 ELSE LaterEnd(records[k], f[k - 1])]
             T == {n \in 0 .. Len(records) : \E f : Upto_n(f, n)}
  <1>1. 0 \in T
    <2> DEFINE z == [k \in 0 .. 0 |-> 0]
    <2>1. Upto_n(z, 0)  OBVIOUS
    <2>2. 0 \in 0 .. Len(records)  OBVIOUS
    <2> HIDE DEF z, Upto_n
    <2> QED BY <2>1, <2>2
  <1>2. ASSUME NEW n \in 0 .. Len(records) - 1, n \in T PROVE n + 1 \in T
    <2>1. PICK f : Upto_n(f, n)  BY <1>2
    <2> DEFINE g == [k \in 0 .. n + 1 |-> IF k = n + 1 THEN LaterEnd(records[n + 1], f[n]) ELSE f[k]]
    <2>2. ASSUME NEW k \in 0 .. n + 1 PROVE g[k] = IF k = 0 THEN 0 ELSE LaterEnd(records[k], g[k - 1])
      BY <2>1
    <2>3. Upto_n(g, n + 1)  BY <2>2
    <2> HIDE DEF g, Upto_n
    <2>4. n + 1 \in 0 .. Len(records) OBVIOUS
    <2> QED BY <2>3, <2>4
  <1> HIDE DEF T
  <1>3. \A k \in 0 .. Len(records) : k \in T
    <2>1. 0 \in T /\ \A n \in 0 .. Len(records) - 1 : n \in T => n + 1 \in T  BY <1>1, <1>2
    <2> QED BY <2>1, InductionTo
  <1>4. Len(records) \in T  BY <1>3
  <1> QED BY <1>4 DEF T, IsMaxTime

\* No record ends after maxTime.
LEMMA MaxTimeIs ==
  ASSUME NEW records, Len(records) \in Nat, \A n \in 1 .. Len(records) : EndOf(records[n]) \in Nat
  PROVE  /\ maxTime(records) \in Nat
         /\ \A n \in 1 .. Len(records) : EndOf(records[n]) <= maxTime(records)
  <1> DEFINE f == CHOOSE h : h = [n \in 0 .. Len(records) |->
                    IF n = 0 THEN 0
                    ELSE IF EndOf(records[n]) > h[n - 1] THEN EndOf(records[n]) ELSE h[n - 1]]
             T == {k \in 0 .. Len(records) :
                     f[k] \in Nat /\ \A n \in 1 .. k : EndOf(records[n]) <= f[k]}
  <1>1. IsMaxTime(f, records)  BY MaxTimeExists DEF IsMaxTime, LaterEnd
  <1>2. maxTime(records) = f[Len(records)]  BY DEF maxTime
  <1> HIDE DEF f
  <1>3. 0 \in T
    <2>1. f[0] = 0  BY <1>1 DEF IsMaxTime
    <2> QED BY <2>1
  <1>4. ASSUME NEW k \in 0 .. Len(records) - 1, k \in T PROVE k + 1 \in T
    <2>1. k + 1 \in 1 .. Len(records) /\ k + 1 \in 0 .. Len(records) /\ k + 1 # 0 /\ k + 1 - 1 = k  OBVIOUS
    <2>2. f[k + 1] = LaterEnd(records[k + 1], f[k])
      <3>1. \A n \in 0 .. Len(records) : f[n] = IF n = 0 THEN 0 ELSE LaterEnd(records[n], f[n - 1])
        BY <1>1 DEF IsMaxTime
      <3> QED BY <2>1, <3>1
    <2>3. f[k] \in Nat /\ (\A n \in 1 .. k : EndOf(records[n]) <= f[k]) /\ EndOf(records[k + 1]) \in Nat
      BY <1>4, <2>1
    <2>4. f[k + 1] \in Nat /\ f[k] <= f[k + 1] /\ EndOf(records[k + 1]) <= f[k + 1]
      BY <2>2, <2>3 DEF LaterEnd
    <2>5. ASSUME NEW n \in 1 .. k + 1 PROVE EndOf(records[n]) <= f[k + 1]
      <3>1. CASE n = k + 1  BY <2>4, <3>1
      <3>2. CASE n \in 1 .. k
        <4>1. EndOf(records[n]) \in Nat /\ EndOf(records[n]) <= f[k]  BY <2>1, <2>3, <3>2
        <4> QED BY <2>3, <2>4, <4>1
      <3> QED BY <3>1, <3>2
    <2> QED BY <2>1, <2>4, <2>5
  <1> HIDE DEF T
  <1>5. \A k \in 0 .. Len(records) : k \in T
    <2>1. 0 \in T /\ \A k \in 0 .. Len(records) - 1 : k \in T => k + 1 \in T  BY <1>3, <1>4
    <2> QED BY <2>1, InductionTo
  <1>6. Len(records) \in T  BY <1>5
  <1> QED BY <1>2, <1>6 DEF T

Counted(r, cnt, last) == [t \in 0 .. last |-> IF Running(r, t) THEN cnt[t] + 1 ELSE cnt[t]]
IsCount(f, records, last) ==
  f = [n \in 0 .. Len(records) |->
         IF n = 0 THEN [t \in 0 .. last |-> 0] ELSE Counted(records[n], f[n - 1], last)]

LEMMA CountExists ==
  ASSUME NEW records, Len(records) \in Nat, NEW last
  PROVE  \E f : IsCount(f, records, last)
  <1> DEFINE zero == [t \in 0 .. last |-> 0]
             Upto_n(f, n) == f = [k \in 0 .. n |-> IF k = 0 THEN zero ELSE Counted(records[k], f[k - 1], last)]
             T == {n \in 0 .. Len(records) : \E f : Upto_n(f, n)}
  <1> HIDE DEF zero
  <1>1. 0 \in T
    <2> DEFINE z == [k \in 0 .. 0 |-> zero]
    <2>1. Upto_n(z, 0)  OBVIOUS
    <2>2. 0 \in 0 .. Len(records)  OBVIOUS
    <2> HIDE DEF z, Upto_n
    <2> QED BY <2>1, <2>2
  <1>2. ASSUME NEW n \in 0 .. Len(records) - 1, n \in T PROVE n + 1 \in T
    <2>1. PICK f : Upto_n(f, n)  BY <1>2
    <2> DEFINE g == [k \in 0 .. n + 1 |-> IF k = n + 1 THEN Counted(records[n + 1], f[n], last) ELSE f[k]]
    <2>2. ASSUME NEW k \in 0 .. n + 1 PROVE g[k] = IF k = 0 THEN zero ELSE Counted(records[k], g[k - 1], last)
      BY <2>1
    <2>3. Upto_n(g, n + 1)  BY <2>2
    <2> HIDE DEF g, Upto_n
    <2>4. n + 1 \in 0 .. Len(records) OBVIOUS
    <2> QED BY <2>3, <2>4
  <1> HIDE DEF T
  <1>3. \A k \in 0 .. Len(records) : k \in T
    <2>1. 0 \in T /\ \A n \in 0 .. Len(records) - 1 : n \in T => n + 1 \in T  BY <1>1, <1>2
    <2> QED BY <2>1, InductionTo
  <1>4. Len(records) \in T  BY <1>3
  <1> QED BY <1>4 DEF T, IsCount, zero

\* Each millisecond has the number of the records that are running then.
LEMMA CountIs ==
  ASSUME NEW records, Len(records) \in Nat, NEW last \in Nat
  PROVE  /\ DOMAIN countRunning(records, last) = 0 .. last
         /\ \A t \in 0 .. last : countRunning(records, last)[t] =
              Cardinality({n \in 1 .. Len(records) : Running(records[n], t)})
  <1> DEFINE f == CHOOSE h : h = [n \in 0 .. Len(records) |->
                    IF n = 0 THEN [t \in 0 .. last |-> 0]
                    ELSE [t \in 0 .. last |-> IF Running(records[n], t) THEN h[n - 1][t] + 1 ELSE h[n - 1][t]]]
             At(k, t) == {n \in 1 .. k : Running(records[n], t)}
             T == {k \in 0 .. Len(records) :
                     DOMAIN f[k] = 0 .. last /\ \A t \in 0 .. last : f[k][t] = Cardinality(At(k, t))}
  <1>1. IsCount(f, records, last)
    <2>1. \E h : IsCount(h, records, last)  BY CountExists
    <2>2. f = CHOOSE h : IsCount(h, records, last)  BY Zenon DEF IsCount, Counted, f
    <2> HIDE DEF f
    <2> QED BY <2>1, <2>2
  <1>2. countRunning(records, last) = f[Len(records)]  BY DEF countRunning
  <1> HIDE DEF f
  <1>0. \A n \in 0 .. Len(records) :
          f[n] = IF n = 0 THEN [t \in 0 .. last |-> 0] ELSE Counted(records[n], f[n - 1], last)
    BY <1>1 DEF IsCount
  <1>3. 0 \in T
    <2>1. f[0] = [t \in 0 .. last |-> 0] /\ 0 \in 0 .. Len(records)  BY <1>0
    <2>2. \A t \in 0 .. last : At(0, t) = {}  OBVIOUS
    <2> HIDE DEF At
    <2>3. \A t \in 0 .. last : f[0][t] = Cardinality(At(0, t))  BY <2>1, <2>2, FS_EmptySet
    <2> QED BY <2>1, <2>3
  <1>4. ASSUME NEW k \in 0 .. Len(records) - 1, k \in T PROVE k + 1 \in T
    <2>1. k + 1 \in 0 .. Len(records) /\ k + 1 # 0 /\ k + 1 - 1 = k  OBVIOUS
    <2>2. f[k + 1] = Counted(records[k + 1], f[k], last)  BY <1>0, <2>1
    <2>3. ASSUME NEW t \in 0 .. last PROVE f[k + 1][t] = Cardinality(At(k + 1, t))
      <3>1. f[k][t] = Cardinality(At(k, t))  BY <1>4
      <3>2. f[k + 1][t] = IF Running(records[k + 1], t) THEN f[k][t] + 1 ELSE f[k][t]  BY <2>2 DEF Counted
      <3>3. IsFiniteSet(At(k, t)) /\ k + 1 \notin At(k, t)
        <4>1. IsFiniteSet(1 .. k)  BY FS_Interval
        <4>2. At(k, t) \subseteq 1 .. k /\ k + 1 \notin At(k, t)  OBVIOUS
        <4> HIDE DEF At
        <4> QED BY <4>1, <4>2, FS_Subset
      <3>4. CASE Running(records[k + 1], t)
        <4>1. At(k + 1, t) = At(k, t) \cup {k + 1}  BY <3>4
        <4> HIDE DEF At
        <4>2. Cardinality(At(k, t) \cup {k + 1}) = Cardinality(At(k, t)) + 1  BY <3>3, FS_AddElement
        <4> QED BY <3>1, <3>2, <3>4, <4>1, <4>2
      <3>5. CASE ~Running(records[k + 1], t)
        <4>1. At(k + 1, t) = At(k, t)  BY <3>5
        <4> HIDE DEF At
        <4> QED BY <3>1, <3>2, <3>5, <4>1
      <3> QED BY <3>4, <3>5
    <2>4. DOMAIN f[k + 1] = 0 .. last  BY <2>2 DEF Counted
    <2> HIDE DEF At
    <2> QED BY <2>1, <2>3, <2>4
  <1> HIDE DEF T
  <1>5. \A k \in 0 .. Len(records) : k \in T
    <2>1. 0 \in T /\ \A k \in 0 .. Len(records) - 1 : k \in T => k + 1 \in T  BY <1>3, <1>4
    <2> QED BY <2>1, InductionTo
  <1>6. Len(records) \in T  BY <1>5
  <1> QED BY <1>2, <1>6 DEF T

-----------------------------------------------------------------------------
\* IATs in whole microseconds.
InMicros(iats) == [j \in 1 .. Len(iats) |-> Micros(iats[j])]

LEMMA MicrosAre ==
  ASSUME NEW iats \in Seq(Nat)
  PROVE  /\ InMicros(iats) \in Seq(Nat) /\ Len(InMicros(iats)) = Len(iats)
         /\ \A k \in 1 .. Len(iats) : InMicros(iats)[k] = Micros(iats[k])
         /\ \A k \in 0 .. Len(iats) :
              Sum([j \in 1 .. k |-> iats[j] \div Fraction]) = Upto(InMicros(iats), k)
  <1>1. Fraction \in Nat /\ Fraction > 0  BY TimeAssumption
  <1>2. ASSUME NEW k \in 1 .. Len(iats) PROVE Micros(iats[k]) \in Nat
    <2>1. iats[k] \in Nat  OBVIOUS
    <2> QED BY <1>1, <2>1, Quotient DEF Micros
  <1>3. InMicros(iats) \in Seq(Nat) /\ Len(InMicros(iats)) = Len(iats)
        /\ \A k \in 1 .. Len(iats) : InMicros(iats)[k] = Micros(iats[k])
    <2> DEFINE s == [j \in 1 .. Len(iats) |-> Micros(iats[j])]
    <2>1. s \in [1 .. Len(iats) -> Nat] /\ \A k \in 1 .. Len(iats) : s[k] = Micros(iats[k])  BY <1>2
    <2>3. Len(iats) \in Nat  OBVIOUS
    <2> HIDE DEF s
    <2>2. s \in Seq(Nat) /\ Len(s) = Len(iats)  BY <2>1, <2>3
    <2> QED BY <2>1, <2>2 DEF s, InMicros
  <1>4. ASSUME NEW k \in 0 .. Len(iats)
        PROVE  Sum([j \in 1 .. k |-> iats[j] \div Fraction]) = Upto(InMicros(iats), k)
    <2> DEFINE t == [j \in 1 .. k |-> iats[j] \div Fraction]
               s == InMicros(iats)
               u == SubSeq(s, 1, k)
    <2>1. k \in Nat /\ DOMAIN t = 1 .. k /\ t = [j \in 1 .. k |-> t[j]] /\ \A j \in 1 .. k : t[j] = Micros(iats[j])
      BY DEF Micros
    <2> HIDE DEF s, t
    <2>2. s \in Seq(Nat) /\ Len(s) = Len(iats)  BY <1>3 DEF s
    <2>3. u = [j \in 1 .. k |-> u[j]] /\ \A j \in 1 .. k : u[j] = s[j]
      <3>1. u \in Seq(Nat) /\ Len(u) = k /\ \A j \in 1 .. k : u[j] = s[j]  BY <2>2
      <3> HIDE DEF u
      <3> QED BY <3>1
    <2> HIDE DEF u
    <2>4. \A j \in 1 .. k : u[j] = t[j]
      <3>1. \A j \in 1 .. k : s[j] = Micros(iats[j])  BY <1>3 DEF s
      <3> QED BY <2>1, <2>3, <3>1
    <2>5. u = t  BY <2>1, <2>3, <2>4
    <2> QED BY <2>5 DEF Upto, u, t, s
  <1> QED BY <1>3, <1>4

-----------------------------------------------------------------------------
\* What a goroutine has walked through after k invocations: the invocations or, with
\* minutes, those minutes with invocations all of whose invocations are among them.
Walked(ms, f, k) ==
  IF ms THEN 1 .. k
  ELSE {m \in 0 .. Len(f.PerMinuteCount) - 1 :
          f.PerMinuteCount[m + 1] > 0 /\ Upto(f.PerMinuteCount, m + 1) <= k}

\* The variables of a goroutine between two iterations.
WalkerAt(ms, f, w) ==
  /\ w.iatIndex \in 0 .. Len(f.IAT)
  /\ w.done <=> w.iatIndex = Len(f.IAT)
  /\ w.previousIATSum = Upto(InMicros(f.IAT), w.iatIndex)
  /\ w.iatIndex < Len(f.IAT) =>
       /\ InMinute(f.PerMinuteCount, w.iatIndex, w.minuteIndex)
       /\ w.minuteIndexEnd = Upto(f.PerMinuteCount, w.minuteIndex + 1) - 1
       /\ ~ms => w.sums = Upto(f.PerMinuteCount, w.minuteIndex) .. w.iatIndex - 1

\* The parts of an iteration.
OverAfter(w) == w.iatIndex + 1 > w.minuteIndexEnd
SumsWith(ms, w) == IF ms THEN {} ELSE w.sums \cup {w.iatIndex}
SumAfter(f, w) == w.previousIATSum + Micros(f.IAT[w.iatIndex + 1])
NextFor(f, w) == SearchInterval(constructIntervals(f.PerMinuteCount), w.iatIndex + 1)
WalkerAfter(ms, f, w) ==
  [iatIndex       |-> w.iatIndex + 1,
   minuteIndex    |-> IF OverAfter(w) /\ NextFor(f, w) # NoInterval THEN NextFor(f, w).Value ELSE w.minuteIndex,
   minuteIndexEnd |-> IF OverAfter(w) /\ NextFor(f, w) # NoInterval THEN NextFor(f, w).End ELSE w.minuteIndexEnd,
   previousIATSum |-> SumAfter(f, w),
   sums           |-> SumsAfter(SumsWith(ms, w), OverAfter(w)),
   done           |-> w.iatIndex + 1 = Len(f.IAT) \/ (OverAfter(w) /\ NextFor(f, w) = NoInterval)]

LEMMA NoIntervalAfter ==
  ASSUME NEW counts \in Seq(Nat), NEW k \in Nat, k < Sum(counts)
  PROVE  SearchInterval(constructIntervals(counts), k) # NoInterval
  <1>1. Sum(counts) \in Nat  BY UptoNat
  <1>2. k \in 0 .. Sum(counts) - 1  BY <1>1
  <1>3. PICK m : InMinute(counts, k, m)  BY <1>2, MinuteExists
  <1>4. SearchInterval(constructIntervals(counts), k) =
          [Start |-> Upto(counts, m), End |-> Upto(counts, m + 1) - 1, Value |-> m]
    BY <1>3, MinuteFound
  <1>5. m \in Nat  BY <1>3 DEF InMinute
  <1> QED BY <1>4, <1>5 DEF NoInterval

LEMMA WalkerSteps ==
  ASSUME NEW ms \in BOOLEAN, NEW f, f.IAT \in Seq(Nat), f.PerMinuteCount \in Seq(Nat),
         Sum(f.PerMinuteCount) = Len(f.IAT), NEW w, WalkerAt(ms, f, w), ~w.done
  PROVE  WalkerAt(ms, f, WalkerAfter(ms, f, w))
  <1> DEFINE k == w.iatIndex
             c == f.PerMinuteCount
             m == w.minuteIndex
             v == WalkerAfter(ms, f, w)
  <1>1. k \in 0 .. Len(f.IAT) - 1 /\ k \in Nat /\ k < Len(f.IAT) /\ Len(f.IAT) \in Nat
    BY DEF WalkerAt
  <1>2. /\ InMinute(c, k, m) /\ w.minuteIndexEnd = Upto(c, m + 1) - 1
        /\ ~ms => w.sums = Upto(c, m) .. k - 1
    BY <1>1 DEF WalkerAt
  <1>3. /\ v.iatIndex = k + 1 /\ v.minuteIndex = NextMinute(c, k, m) /\ v.minuteIndexEnd = NextEnd(c, k, m)
        /\ v.previousIATSum = SumAfter(f, w)
        /\ v.sums = SumsAfter(SumsWith(ms, w), OverAfter(w))
    BY <1>2 DEF WalkerAfter, NextMinute, NextEnd, NextIsOver, NextInterval, OverAfter, NextFor
  <1>4. v.done <=> k + 1 = Len(f.IAT)
    <2>1. v.done <=> (k + 1 = Len(f.IAT) \/ (OverAfter(w) /\ NextFor(f, w) = NoInterval))
      BY DEF WalkerAfter
    <2>2. ASSUME k + 1 < Len(f.IAT) PROVE NextFor(f, w) # NoInterval
      <3>1. k + 1 \in Nat /\ k + 1 < Sum(c)  BY <1>1, <2>2
      <3> QED BY <3>1, NoIntervalAfter DEF NextFor
    <2>3. k + 1 = Len(f.IAT) \/ k + 1 < Len(f.IAT)  BY <1>1
    <2> HIDE DEF v, k
    <2> QED BY <2>1, <2>2, <2>3
  <1>5. v.previousIATSum = Upto(InMicros(f.IAT), k + 1)
    <2> DEFINE s == InMicros(f.IAT)
    <2>1. s \in Seq(Nat) /\ Len(s) = Len(f.IAT) /\ \A j \in 1 .. Len(f.IAT) : s[j] = Micros(f.IAT[j])
      BY MicrosAre
    <2>2. w.previousIATSum = Upto(s, k)  BY DEF WalkerAt
    <2> HIDE DEF s
    <2>3. k \in 0 .. Len(s) - 1 /\ k + 1 \in 1 .. Len(f.IAT)  BY <1>1, <2>1
    <2>4. Upto(s, k + 1) = Upto(s, k) + s[k + 1]  BY <2>1, <2>3, UptoRec
    <2>5. s[k + 1] = Micros(f.IAT[k + 1])  BY <2>1, <2>3
    <2> HIDE DEF v, k
    <2> QED BY <1>3, <2>2, <2>4, <2>5 DEF SumAfter, s, k
  <1>6. ASSUME k + 1 < Len(f.IAT)
        PROVE  /\ InMinute(c, k + 1, NextMinute(c, k, m))
               /\ NextEnd(c, k, m) = Upto(c, NextMinute(c, k, m) + 1) - 1
               /\ NextSince(c, k, m) = k + 1 - Upto(c, NextMinute(c, k, m))
               /\ NextSince(c, k, m) \in Nat
    BY <1>1, <1>2, <1>6, FirePosition
  <1>7. ASSUME k + 1 < Len(f.IAT), ~ms PROVE v.sums = Upto(c, NextMinute(c, k, m)) .. k
    <2>1. SumsWith(ms, w) = w.sums \cup {k}  BY <1>7 DEF SumsWith
    <2>2. m \in 0 .. Len(c) - 1 /\ Upto(c, m) <= k /\ k < Upto(c, m + 1)  BY <1>2 DEF InMinute
    <2>3. Upto(c, m) \in Nat /\ Upto(c, m + 1) \in Nat
      <3>1. m \in 0 .. Len(c) /\ m + 1 \in 0 .. Len(c)  BY <2>2
      <3> QED BY <3>1, UptoNat
    <2>4. NextInterval(c, k) # NoInterval
      <3>1. k + 1 \in Nat /\ k + 1 < Sum(c)  BY <1>1, <1>7
      <3> QED BY <3>1, NoIntervalAfter DEF NextInterval
    <2>5. CASE OverAfter(w)
      <3>1. NextIsOver(c, k, m)  BY <1>2, <2>4, <2>5 DEF NextIsOver, OverAfter
      <3>2. NextSince(c, k, m) = 0  BY <3>1 DEF NextSince
      <3>3. Upto(c, NextMinute(c, k, m)) = k + 1
        <4>1. NextMinute(c, k, m) \in 0 .. Len(c) - 1  BY <1>6, <1>7 DEF InMinute
        <4>2. NextMinute(c, k, m) \in 0 .. Len(c)  BY <4>1
        <4>3. Upto(c, NextMinute(c, k, m)) \in Nat  BY <4>2, UptoNat
        <4> HIDE DEF k
        <4> QED BY <1>1, <1>6, <1>7, <3>2, <4>3
      <3>4. v.sums = {}  BY <1>3, <2>5 DEF SumsAfter
      <3> HIDE DEF v
      <3> QED BY <1>1, <3>3, <3>4
    <2>6. CASE ~OverAfter(w)
      <3>1. ~NextIsOver(c, k, m)  BY <1>2, <2>6 DEF NextIsOver, OverAfter
      <3>2. NextMinute(c, k, m) = m  BY <3>1 DEF NextMinute
      <3>3. v.sums = w.sums \cup {k}  BY <1>3, <2>1, <2>6 DEF SumsAfter
      <3>4. w.sums = Upto(c, m) .. k - 1  BY <1>2, <1>7
      <3> HIDE DEF v, k, m, c
      <3> QED BY <1>1, <2>2, <2>3, <3>2, <3>3, <3>4
    <2> QED BY <2>5, <2>6
  <1>8. k + 1 \in 0 .. Len(f.IAT) /\ k + 1 - 1 = k  BY <1>1
  <1> HIDE DEF v
  <1>9. WalkerAt(ms, f, v)
    BY <1>3, <1>4, <1>5, <1>6, <1>7, <1>8 DEF WalkerAt
  <1> QED BY <1>9 DEF v

\* What an iteration adds to what has been walked through.
PlaceOf(ms, w) == IF ms THEN w.iatIndex + 1 ELSE w.minuteIndex

LEMMA WalkedOn ==
  ASSUME NEW ms \in BOOLEAN, NEW f, f.IAT \in Seq(Nat), f.PerMinuteCount \in Seq(Nat),
         Sum(f.PerMinuteCount) = Len(f.IAT), NEW w, WalkerAt(ms, f, w), ~w.done
  PROVE  /\ ms \/ OverAfter(w) =>
              /\ \A x : x \in Walked(ms, f, w.iatIndex + 1) <=> x \in Walked(ms, f, w.iatIndex) \/ x = PlaceOf(ms, w)
              /\ PlaceOf(ms, w) \notin Walked(ms, f, w.iatIndex) /\ PlaceOf(ms, w) \in Nat
         /\ ~ms /\ ~OverAfter(w) => Walked(ms, f, w.iatIndex + 1) = Walked(ms, f, w.iatIndex)
         /\ ~ms /\ OverAfter(w) => w.sums \cup {w.iatIndex} =
              Upto(f.PerMinuteCount, w.minuteIndex) .. Upto(f.PerMinuteCount, w.minuteIndex + 1) - 1
         /\ SumAfter(f, w) = Upto(InMicros(f.IAT), w.iatIndex + 1)
  <1> DEFINE k == w.iatIndex
             c == f.PerMinuteCount
             m == w.minuteIndex
  <1>1. k \in Nat /\ k < Len(f.IAT) /\ Len(f.IAT) \in Nat  BY DEF WalkerAt
  <1>2. /\ InMinute(c, k, m) /\ w.minuteIndexEnd = Upto(c, m + 1) - 1
        /\ ~ms => w.sums = Upto(c, m) .. k - 1
    BY <1>1 DEF WalkerAt
  <1>3. m \in 0 .. Len(c) - 1 /\ Upto(c, m) <= k /\ k < Upto(c, m + 1)  BY <1>2 DEF InMinute
  <1>4. \A l \in 0 .. Len(c) - 1 : Upto(c, l) \in Nat /\ Upto(c, l + 1) \in Nat /\ Upto(c, l + 1) = Upto(c, l) + c[l + 1]
    <2>1. \A l \in 0 .. Len(c) : Upto(c, l) \in Nat  BY UptoNat
    <2>2. \A l \in 0 .. Len(c) - 1 : Upto(c, l + 1) = Upto(c, l) + c[l + 1]  BY UptoRec
    <2>3. \A l \in 0 .. Len(c) - 1 : l \in 0 .. Len(c) /\ l + 1 \in 0 .. Len(c)  OBVIOUS
    <2> QED BY <2>1, <2>2, <2>3
  <1>5. c[m + 1] > 0
    <2>1. c[m + 1] \in Nat  BY <1>3
    <2>2. Upto(c, m + 1) = Upto(c, m) + c[m + 1] /\ Upto(c, m) \in Nat  BY <1>3, <1>4
    <2> HIDE DEF m, c, k
    <2> QED BY <1>1, <1>3, <2>1, <2>2
  <1>6. OverAfter(w) <=> Upto(c, m + 1) = k + 1
    <2>1. Upto(c, m + 1) \in Nat  BY <1>3, <1>4
    <2>2. OverAfter(w) <=> k + 1 > Upto(c, m + 1) - 1  BY <1>2 DEF OverAfter
    <2> HIDE DEF m, c, k
    <2> QED BY <1>1, <1>3, <2>1, <2>2
  <1>7. ASSUME NEW l \in 0 .. Len(c) - 1, c[l + 1] > 0, Upto(c, l + 1) = k + 1 PROVE l = m
    <2>1. c[l + 1] \in Nat /\ Upto(c, l) \in Nat /\ Upto(c, l + 1) = Upto(c, l) + c[l + 1]
      BY <1>4, <1>7
    <2>2. Upto(c, l) <= k /\ k < Upto(c, l + 1)
      <3> HIDE DEF c, k
      <3> QED BY <1>1, <1>7, <2>1
    <2>3. InMinute(c, k, l)  BY <1>7, <2>2 DEF InMinute
    <2>4. k \in Int /\ c \in Seq(Nat)  BY <1>1
    <2> HIDE DEF c, k, m
    <2> QED BY <1>2, <2>3, <2>4, MinuteUnique
  <1>8. ASSUME ms
        PROVE  /\ Walked(ms, f, k + 1) = Walked(ms, f, k) \cup {PlaceOf(ms, w)}
               /\ PlaceOf(ms, w) \notin Walked(ms, f, k) /\ PlaceOf(ms, w) \in Nat
    <2>1. PlaceOf(ms, w) = k + 1 /\ Walked(ms, f, k + 1) = 1 .. k + 1 /\ Walked(ms, f, k) = 1 .. k
      BY <1>8 DEF PlaceOf, Walked
    <2>2. 1 .. k + 1 = (1 .. k) \cup {k + 1} /\ k + 1 \notin 1 .. k /\ k + 1 \in Nat
      <3> HIDE DEF k
      <3> QED BY <1>1
    <2> QED BY <1>8, <2>1, <2>2
  <1>9. ASSUME ~ms, OverAfter(w)
        PROVE  /\ Walked(ms, f, k + 1) = Walked(ms, f, k) \cup {m}
               /\ m \notin Walked(ms, f, k) /\ m \in Nat /\ PlaceOf(ms, w) = m
               /\ w.sums \cup {k} = Upto(c, m) .. Upto(c, m + 1) - 1
    <2>1. PlaceOf(ms, w) = m /\ m \in Nat /\ Upto(c, m + 1) = k + 1  BY <1>3, <1>6, <1>9 DEF PlaceOf
    <2> DEFINE A == {l \in 0 .. Len(c) - 1 : c[l + 1] > 0 /\ Upto(c, l + 1) <= k + 1}
               B == {l \in 0 .. Len(c) - 1 : c[l + 1] > 0 /\ Upto(c, l + 1) <= k}
    <2>2. Walked(ms, f, k + 1) = A /\ Walked(ms, f, k) = B  BY <1>9 DEF Walked
    <2>3. ASSUME NEW l \in A PROVE l \in B \cup {m}
      <3>1. l \in 0 .. Len(c) - 1 /\ c[l + 1] > 0 /\ Upto(c, l + 1) <= k + 1  OBVIOUS
      <3>2. CASE Upto(c, l + 1) = k + 1  BY <1>7, <3>1, <3>2
      <3>3. CASE Upto(c, l + 1) # k + 1
        <4>1. Upto(c, l + 1) \in Nat  BY <1>4, <3>1
        <4>2. Upto(c, l + 1) <= k
          <5> HIDE DEF c, k
          <5> QED BY <1>1, <3>1, <3>3, <4>1
        <4> QED BY <3>1, <4>2
      <3> QED BY <3>2, <3>3
    <2>4. B \subseteq A
      <3>1. ASSUME NEW l \in B PROVE l \in A
        <4>1. l \in 0 .. Len(c) - 1 /\ c[l + 1] > 0 /\ Upto(c, l + 1) <= k  OBVIOUS
        <4>2. Upto(c, l + 1) \in Nat  BY <1>4, <4>1
        <4>3. Upto(c, l + 1) <= k + 1
          <5> HIDE DEF c, k
          <5> QED BY <1>1, <4>1, <4>2
        <4> QED BY <4>1, <4>3
      <3> QED BY <3>1
    <2>5. m \in A /\ m \notin B
      <3>1. Upto(c, m + 1) <= k + 1 /\ ~(Upto(c, m + 1) <= k)
        <4> HIDE DEF c, k, m
        <4> QED BY <1>1, <2>1
      <3> QED BY <1>3, <1>5, <3>1
    <2> HIDE DEF A, B
    <2>6. A = B \cup {m}  BY <2>3, <2>4, <2>5
    <2>7. w.sums \cup {k} = Upto(c, m) .. Upto(c, m + 1) - 1
      <3>1. w.sums = Upto(c, m) .. k - 1 /\ Upto(c, m) \in Nat  BY <1>2, <1>3, <1>4, <1>9
      <3> HIDE DEF c, k, m
      <3> QED BY <1>1, <1>3, <2>1, <3>1
    <2> QED BY <2>1, <2>2, <2>5, <2>6, <2>7
  <1>10. ASSUME ~ms, ~OverAfter(w) PROVE Walked(ms, f, k + 1) = Walked(ms, f, k)
    <2>1. ASSUME NEW l \in 0 .. Len(c) - 1, c[l + 1] > 0
          PROVE  Upto(c, l + 1) <= k + 1 <=> Upto(c, l + 1) <= k
      <3>1. Upto(c, l + 1) # k + 1  BY <1>6, <1>7, <1>10, <2>1
      <3>2. Upto(c, l + 1) \in Nat  BY <1>4
      <3> HIDE DEF c, k
      <3> QED BY <1>1, <3>1, <3>2
    <2> QED BY <1>10, <2>1 DEF Walked
  <1>11. SumAfter(f, w) = Upto(InMicros(f.IAT), k + 1)
    <2>1. WalkerAfter(ms, f, w).previousIATSum = SumAfter(f, w) /\ WalkerAfter(ms, f, w).iatIndex = k + 1
      BY DEF WalkerAfter
    <2>2. WalkerAt(ms, f, WalkerAfter(ms, f, w))  BY WalkerSteps
    <2> QED BY <2>1, <2>2 DEF WalkerAt
  <1> QED BY <1>8, <1>9, <1>10, <1>11

-----------------------------------------------------------------------------
\* The row that belongs to a function and an invocation of it, or a minute.
Pairs(fs) == (1 .. Len(fs)) \X Nat
RowFor(ms, fs, p) ==
  LET f == fs[p[1]] IN
  IF ms THEN [function |-> p[1], start |-> Upto(InMicros(f.IAT), p[2]) \div MicrosPerMilli,
              runtime |-> runtimeOf(p[1])]
  ELSE [function |-> p[1], minute |-> p[2],
        invocations |-> Upto(f.PerMinuteCount, p[2]) .. Upto(f.PerMinuteCount, p[2] + 1) - 1]
RowTable(ms, fs) == [p \in Pairs(fs) |-> RowFor(ms, fs, p)]
RowSet(ms, fs) == {RowFor(ms, fs, p) : p \in Pairs(fs)}

\* What all goroutines have walked through.
WalkedPairs(ms, fs, ws) == {p \in Pairs(fs) : p[2] \in Walked(ms, fs[p[1]], ws[p[1]].iatIndex)}

WalkInv ==
  /\ DOMAIN walker = 1 .. Len(functions)
  /\ \A i \in 1 .. Len(functions) : WalkerAt(millisecondScale, functions[i], walker[i])
  /\ writerOpen \/ WalkersDone
  /\ writer \in Seq(RowSet(millisecondScale, functions))
  /\ outputFile \in Seq(RowSet(millisecondScale, functions))
  /\ Sent(outputFile, writer, WalkedPairs(millisecondScale, functions, walker),
          RowTable(millisecondScale, functions))

\* What the timeline needs of the functions.
Walkable ==
  /\ functions \in Seq(FunctionType)
  /\ \A i \in 1 .. Len(functions) :
       /\ functions[i].IAT \in Seq(Nat) /\ functions[i].PerMinuteCount \in Seq(Nat)
       /\ Sum(functions[i].PerMinuteCount) = Len(functions[i].IAT)
       /\ TrueMinutes(i) \in [1 .. Len(functions[i].IAT) -> Nat]
       /\ \A k \in 1 .. Len(functions[i].IAT) :
            InMinute(functions[i].PerMinuteCount, k - 1, TrueMinutes(i)[k])

LEMMA FunctionsWalkable ==
  ASSUME CommandInv, phase \in {"timeline", "walk"}, cfg.command = "timeline"
  PROVE  Walkable
  <1>1. Configured(cfg) /\ FunctionsInv /\ functions \in Seq(FunctionType)
    BY DEF CommandInv, FunctionsInv
  <1>2. ~cfg.DAGMode  BY <1>1 DEF Configured
  <1>3. ASSUME NEW i \in 1 .. Len(functions)
        PROVE  /\ functions[i].IAT \in Seq(Nat) /\ functions[i].PerMinuteCount \in Seq(Nat)
               /\ Sum(functions[i].PerMinuteCount) = Len(functions[i].IAT)
               /\ TrueMinutes(i) \in [1 .. Len(functions[i].IAT) -> Nat]
               /\ \A k \in 1 .. Len(functions[i].IAT) :
                    InMinute(functions[i].PerMinuteCount, k - 1, TrueMinutes(i)[k])
    <2>1. Good(cfg, functions[i], i)  BY <1>1, <1>3 DEF FunctionsInv
    <2>2. functions[i] \in FunctionType  BY <2>1, GoodIsNotMissing
    <2>3. TrueMinutes(i) = MinutesOf(cfg, functions[i], i)  BY TrueMinutesIs
    <2> QED BY <1>2, <2>1, <2>2, <2>3, FunctionFields DEF Good
  <1> QED BY <1>1, <1>3 DEF Walkable

\* A goroutine starts at the first invocation, before anything has been walked through.
LEMMA WalkerStarts ==
  ASSUME NEW ms \in BOOLEAN, NEW f, f.IAT \in Seq(Nat), f.PerMinuteCount \in Seq(Nat),
         Sum(f.PerMinuteCount) = Len(f.IAT)
  PROVE  WalkerAt(ms, f, StartWalker(f)) /\ Walked(ms, f, 0) = {} /\ StartWalker(f).iatIndex = 0
  <1> DEFINE c == f.PerMinuteCount
             w == StartWalker(f)
             first == SearchInterval(constructIntervals(c), 0)
  <1>1. /\ w.iatIndex = 0 /\ w.minuteIndex = first.Value /\ w.minuteIndexEnd = first.End
        /\ w.previousIATSum = 0 /\ w.sums = {} /\ (w.done <=> f.IAT = <<>>)
    BY DEF StartWalker
  <1>2. Len(f.IAT) \in Nat /\ (f.IAT = <<>> <=> Len(f.IAT) = 0)  OBVIOUS
  <1>3. Upto(InMicros(f.IAT), 0) = 0
    <2>1. InMicros(f.IAT) \in Seq(Nat)  BY MicrosAre
    <2> QED BY <2>1, UptoRec
  <1>4. ASSUME 0 < Len(f.IAT)
        PROVE  /\ InMinute(c, 0, first.Value) /\ first.End = Upto(c, first.Value + 1) - 1
               /\ Upto(c, first.Value) .. 0 - 1 = {}
    <2>1. 0 \in 0 .. Sum(c) - 1  BY <1>2, <1>4
    <2>2. PICK m : InMinute(c, 0, m)  BY <2>1, MinuteExists
    <2>3. first = [Start |-> Upto(c, m), End |-> Upto(c, m + 1) - 1, Value |-> m]
      <3>1. 0 \in Nat  OBVIOUS
      <3> QED BY <2>2, <3>1, MinuteFound
    <2>4. first.Value = m /\ first.End = Upto(c, m + 1) - 1  BY <2>3
    <2>5. Upto(c, m) \in Nat
      <3>1. m \in 0 .. Len(c) BY <2>2 DEF InMinute
      <3> QED BY <3>1, UptoNat
    <2> HIDE DEF c, first
    <2>6. Upto(c, m) .. 0 - 1 = {}  BY <2>5
    <2> QED BY <2>2, <2>4, <2>6
  <1>5. WalkerAt(ms, f, w)
    <2> HIDE DEF w, first
    <2> QED BY <1>1, <1>2, <1>3, <1>4 DEF WalkerAt
  <1>6. Walked(ms, f, 0) = {}
    <2>1. CASE ms  BY <2>1 DEF Walked
    <2>2. CASE ~ms
      <3>1. ASSUME NEW m \in 0 .. Len(c) - 1, c[m + 1] > 0 PROVE ~(Upto(c, m + 1) <= 0)
        <4>1. m \in 0 .. Len(c) /\ c[m + 1] \in Nat  OBVIOUS
        <4>2. Upto(c, m) \in Nat  BY <4>1, UptoNat
        <4>3. Upto(c, m + 1) = Upto(c, m) + c[m + 1]  BY UptoRec
        <4> HIDE DEF c
        <4> QED BY <3>1, <4>1, <4>2, <4>3
      <3> QED BY <2>2, <3>1 DEF Walked
    <2> QED BY <2>1, <2>2
  <1> QED BY <1>1, <1>5, <1>6

LEMMA GenerateLoadStarts ==
  ASSUME Walkable, writer = <<>>, outputFile = <<>>, StartTimeline(functions), UNCHANGED <<cfg, functions>>
  PROVE  WalkInv'
  <1> DEFINE ms == millisecondScale
             ws == [i \in 1 .. Len(functions) |-> StartWalker(functions[i])]
  <1>1. /\ walker' = ws /\ writerOpen' = TRUE /\ writer' = <<>> /\ outputFile' = <<>>
        /\ functions' = functions /\ millisecondScale' = millisecondScale
    BY DEF StartTimeline, millisecondScale
  <1>2. ms \in BOOLEAN  BY DEF millisecondScale
  <1>3. ASSUME NEW i \in 1 .. Len(functions)
        PROVE  /\ WalkerAt(ms, functions[i], ws[i]) /\ Walked(ms, functions[i], ws[i].iatIndex) = {}
    <2>1. ws[i] = StartWalker(functions[i])  OBVIOUS
    <2>2. /\ functions[i].IAT \in Seq(Nat) /\ functions[i].PerMinuteCount \in Seq(Nat)
          /\ Sum(functions[i].PerMinuteCount) = Len(functions[i].IAT)
      BY DEF Walkable
    <2>3. /\ WalkerAt(ms, functions[i], StartWalker(functions[i]))
          /\ Walked(ms, functions[i], 0) = {} /\ StartWalker(functions[i]).iatIndex = 0
      <3> HIDE DEF ms, ws
      <3> QED BY <1>2, <2>2, WalkerStarts
    <2> HIDE DEF ms, ws
    <2> QED BY <2>1, <2>3
  <1>4. DOMAIN ws = 1 .. Len(functions)  OBVIOUS
  <1> HIDE DEF ms, ws
  <1>5. WalkedPairs(ms, functions, ws) = {}
    <2> SUFFICES ASSUME NEW p \in Pairs(functions), p[2] \in Walked(ms, functions[p[1]], ws[p[1]].iatIndex)
                 PROVE  FALSE
      BY DEF WalkedPairs
    <2>1. p[1] \in 1 .. Len(functions)  BY DEF Pairs
    <2> QED BY <1>3, <2>1
  <1>6. Sent(<<>>, <<>>, WalkedPairs(ms, functions, ws), RowTable(ms, functions))  BY <1>5, SentNothing
  <1>7. <<>> \in Seq(RowSet(ms, functions))  OBVIOUS
  <1> QED BY <1>1, <1>3, <1>4, <1>6, <1>7 DEF WalkInv, ms

-----------------------------------------------------------------------------
\* The row an iteration sends, if it sends one, is the row of what it adds.
SentBy(ms, f, i, w) ==
  IF ms THEN [function |-> i, start |-> SumAfter(f, w) \div MicrosPerMilli, runtime |-> runtimeOf(i)]
  ELSE [function |-> i, minute |-> w.minuteIndex, invocations |-> SumsWith(ms, w)]

LEMMA RowSent ==
  ASSUME NEW ms \in BOOLEAN, NEW fs, NEW i \in 1 .. Len(fs), NEW w, WalkerAt(ms, fs[i], w), ~w.done,
         fs[i].IAT \in Seq(Nat), fs[i].PerMinuteCount \in Seq(Nat),
         Sum(fs[i].PerMinuteCount) = Len(fs[i].IAT), ms \/ OverAfter(w)
  PROVE  /\ <<i, PlaceOf(ms, w)>> \in Pairs(fs)
         /\ RowTable(ms, fs)[<<i, PlaceOf(ms, w)>>] = SentBy(ms, fs[i], i, w)
         /\ RowTable(ms, fs)[<<i, PlaceOf(ms, w)>>] \in RowSet(ms, fs)
  <1> DEFINE f == fs[i]
             q == PlaceOf(ms, w)
             p == <<i, PlaceOf(ms, w)>>
  <1>1. /\ q \in Nat /\ SumAfter(f, w) = Upto(InMicros(f.IAT), w.iatIndex + 1)
        /\ ~ms => w.sums \cup {w.iatIndex} =
              Upto(f.PerMinuteCount, w.minuteIndex) .. Upto(f.PerMinuteCount, w.minuteIndex + 1) - 1
    BY WalkedOn
  <1>2. p \in Pairs(fs) /\ p[1] = i /\ p[2] = q  BY <1>1 DEF Pairs
  <1>3. RowTable(ms, fs)[p] = RowFor(ms, fs, p)  BY <1>2 DEF RowTable
  <1>4. RowFor(ms, fs, p) \in RowSet(ms, fs)  BY <1>2 DEF RowSet
  <1>5. RowFor(ms, fs, p) = SentBy(ms, f, i, w)
    <2>1. CASE ms
      <3>1. q = w.iatIndex + 1  BY <2>1 DEF PlaceOf
      <3> HIDE DEF f, p, q
      <3> QED BY <1>1, <1>2, <2>1, <3>1 DEF RowFor, SentBy, f
    <2>2. CASE ~ms
      <3>1. q = w.minuteIndex /\ SumsWith(ms, w) = w.sums \cup {w.iatIndex}  BY <2>2 DEF PlaceOf, SumsWith
      <3> HIDE DEF f, p, q
      <3> QED BY <1>1, <1>2, <2>2, <3>1 DEF RowFor, SentBy, f
    <2> QED BY <2>1, <2>2
  <1> QED BY <1>2, <1>3, <1>4, <1>5

LEMMA WalkIs ==
  ASSUME NEW i \in DOMAIN walker, Walk(functions, i, millisecondScale, runtimeOf(i))
  PROVE  LET ms == millisecondScale
             w == walker[i]
             f == functions[i]
         IN
         /\ ~w.done /\ walker' = [walker EXCEPT ![i] = WalkerAfter(ms, f, w)]
         /\ writer' = writer \o (IF ms \/ OverAfter(w) THEN <<SentBy(ms, f, i, w)>> ELSE <<>>)
         /\ UNCHANGED <<writerOpen, outputFile, funcCnt>>
  <1> DEFINE ms == millisecondScale
             w == walker[i]
             f == functions[i]
  <1>1. ~w.done /\ UNCHANGED <<writerOpen, outputFile, funcCnt>>  BY DEF Walk
  <1>2. walker' = [walker EXCEPT ![i] = WalkerAfter(ms, f, w)]
    BY Zenon DEF Walk, WalkerAfter, OverAfter, NextFor, SumAfter, SumsWith
  <1>3. writer' = writer \o (IF ms THEN <<SentBy(ms, f, i, w)>>
                             ELSE IF OverAfter(w) THEN <<SentBy(ms, f, i, w)>> ELSE <<>>)
    BY DEF Walk, Send, OverAfter, SumAfter, SumsWith, SentBy
  <1> QED BY <1>1, <1>2, <1>3

LEMMA WalkStep ==
  ASSUME Walkable, WalkInv, UNCHANGED <<cfg, functions>>, NEW i \in DOMAIN walker,
         Walk(functions, i, millisecondScale, runtimeOf(i))
  PROVE  WalkInv'
  <1> DEFINE ms == millisecondScale
             fs == functions
             f == functions[i]
             w == walker[i]
             v == WalkerAfter(ms, f, w)
             D == WalkedPairs(ms, fs, walker)
             E == WalkedPairs(ms, fs, walker')
             row == RowTable(ms, fs)
             p == <<i, PlaceOf(ms, w)>>
  <1>1. /\ ~w.done /\ walker' = [walker EXCEPT ![i] = v]
        /\ writer' = writer \o (IF ms \/ OverAfter(w) THEN <<SentBy(ms, f, i, w)>> ELSE <<>>)
        /\ outputFile' = outputFile /\ writerOpen' = writerOpen
    BY WalkIs
  <1>2. /\ DOMAIN walker = 1 .. Len(fs) /\ (\A j \in 1 .. Len(fs) : WalkerAt(ms, fs[j], walker[j]))
        /\ (writerOpen \/ WalkersDone) /\ writer \in Seq(RowSet(ms, fs)) /\ outputFile \in Seq(RowSet(ms, fs))
        /\ Sent(outputFile, writer, D, row)
    BY DEF WalkInv
  <1>3. /\ f.IAT \in Seq(Nat) /\ f.PerMinuteCount \in Seq(Nat) /\ Sum(f.PerMinuteCount) = Len(f.IAT)
    BY <1>2 DEF Walkable
  <1>4. ms \in BOOLEAN /\ WalkerAt(ms, f, w) /\ i \in 1 .. Len(fs)  BY <1>2 DEF millisecondScale
  <1>5. cfg' = cfg /\ functions' = functions /\ millisecondScale' = ms  BY DEF millisecondScale
  <1> HIDE DEF ms
  <1>6. WalkerAt(ms, f, v)  BY <1>1, <1>3, <1>4, WalkerSteps
  <1>7. v.iatIndex = w.iatIndex + 1  BY DEF WalkerAfter
  <1> HIDE DEF v
  <1>8. DOMAIN walker' = 1 .. Len(fs) /\ walker'[i] = v /\ \A j \in 1 .. Len(fs) : j # i => walker'[j] = walker[j]
    BY <1>1, <1>2
  <1>9. \A j \in 1 .. Len(fs) : WalkerAt(ms, fs[j], walker'[j])  BY <1>2, <1>6, <1>8
  <1>10. writerOpen'
    <2>1. ~WalkersDone  BY <1>1 DEF WalkersDone
    <2> QED BY <1>1, <1>2, <2>1
  <1>11. \A r \in Pairs(fs) : r[1] \in 1 .. Len(fs) /\ r[2] \in Nat /\ r = <<r[1], r[2]>>  BY DEF Pairs
  <1>12. \A r \in Pairs(fs) : r[1] # i => (r \in E <=> r \in D)
    <2> SUFFICES ASSUME NEW r \in Pairs(fs), r[1] # i PROVE r \in E <=> r \in D  OBVIOUS
    <2>1. walker'[r[1]] = walker[r[1]]  BY <1>8, <1>11
    <2> QED BY <2>1 DEF WalkedPairs
  <1>13. \A r \in Pairs(fs) : r[1] = i => /\ r \in E <=> r[2] \in Walked(ms, f, w.iatIndex + 1)
                                          /\ r \in D <=> r[2] \in Walked(ms, f, w.iatIndex)
    BY <1>7, <1>8 DEF WalkedPairs
  <1>14. D \subseteq Pairs(fs) /\ E \subseteq Pairs(fs)  BY DEF WalkedPairs
  <1>15. CASE ms \/ OverAfter(w)
    <2>1. p \in Pairs(fs) /\ row[p] = SentBy(ms, f, i, w) /\ row[p] \in RowSet(ms, fs)
      <3> HIDE DEF w
      <3> QED BY <1>1, <1>3, <1>4, <1>15, RowSent
    <2>2. /\ \A x : x \in Walked(ms, f, w.iatIndex + 1) <=> x \in Walked(ms, f, w.iatIndex) \/ x = PlaceOf(ms, w)
          /\ PlaceOf(ms, w) \notin Walked(ms, f, w.iatIndex)
      <3> HIDE DEF w, f
      <3>1. ~w.done /\ WalkerAt(ms, f, w) /\ ms \in BOOLEAN  BY <1>1, <1>4
      <3> QED BY ONLY <1>3, <1>15, <3>1, WalkedOn
    <2>3. p[1] = i /\ p[2] = PlaceOf(ms, w)  OBVIOUS
    <2> HIDE DEF D, E, row, w, f
    <2>4. p \notin D /\ p \in E  BY <1>13, <2>1, <2>2, <2>3
    <2>5. ASSUME NEW r \in E PROVE r \in D \cup {p}
      <3>1. r \in Pairs(fs)  BY <1>14
      <3>2. CASE r[1] # i  BY <1>12, <3>1, <3>2
      <3>3. CASE r[1] = i
        <4>1. r[2] \in Walked(ms, f, w.iatIndex) \/ r[2] = PlaceOf(ms, w)  BY <1>13, <2>2, <3>1, <3>3
        <4>2. r = <<r[1], r[2]>>  BY <1>11, <3>1
        <4> QED BY <1>13, <3>1, <3>3, <4>1, <4>2
      <3> QED BY <3>2, <3>3
    <2>6. ASSUME NEW r \in D PROVE r \in E
      <3>1. r \in Pairs(fs)  BY <1>14
      <3> QED BY <1>12, <1>13, <2>2, <3>1
    <2>7. E = D \cup {p}  BY <2>4, <2>5, <2>6
    <2>8. writer' = writer \o <<row[p]>>  BY <1>1, <1>15, <2>1
    <2> HIDE DEF p
    <2>9. Sent(outputFile, writer \o <<row[p]>>, D \cup {p}, row)
      <3> DEFINE S == RowSet(ms, fs)
      <3>1. outputFile \in Seq(S) /\ writer \in Seq(S) /\ row[p] \in S  BY <1>2, <2>1
      <3> HIDE DEF S
      <3> QED BY <1>2, <2>4, <3>1, SentOne
    <2>10. writer \o <<row[p]>> \in Seq(RowSet(ms, fs))  BY <1>2, <2>1
    <2>11. Sent(outputFile', writer', E, row) /\ writer' \in Seq(RowSet(ms, fs)) /\ outputFile' \in Seq(RowSet(ms, fs))
      BY <1>1, <1>2, <2>7, <2>8, <2>9, <2>10
    <2> QED BY <1>5, <1>8, <1>9, <1>10, <2>11 DEF WalkInv, E, row
  <1>16. CASE ~(ms \/ OverAfter(w))
    <2>1. Walked(ms, f, w.iatIndex + 1) = Walked(ms, f, w.iatIndex)
      <3> HIDE DEF w, f
      <3> QED BY <1>1, <1>3, <1>4, <1>16, WalkedOn
    <2> HIDE DEF D, E, row, w, f
    <2>2. ASSUME NEW r \in Pairs(fs) PROVE r \in D <=> r \in E  BY <1>12, <1>13, <2>1
    <2>3. E = D  BY <1>14, <2>2
    <2>4. writer' = writer \o <<>>  BY <1>1, <1>16
    <2>5. writer' = writer  BY <1>2, <2>4
    <2>6. Sent(outputFile', writer', E, row) /\ writer' \in Seq(RowSet(ms, fs)) /\ outputFile' \in Seq(RowSet(ms, fs))
      BY <1>1, <1>2, <2>3, <2>5
    <2> QED BY <1>5, <1>8, <1>9, <1>10, <2>6 DEF WalkInv, E, row
  <1> QED BY <1>15, <1>16

LEMMA TimelineSteps ==
  ASSUME Walkable, WalkInv, TimelineStep
  PROVE  WalkInv' /\ UNCHANGED <<phase, cfg, functions>>
  <1>1. UNCHANGED <<phase, cfg, functions>>  BY DEF TimelineStep, commandVars
  <1>2. ASSUME NEW i \in DOMAIN walker, Walk(functions, i, millisecondScale, runtimeOf(i)) PROVE WalkInv'
    BY <1>1, <1>2, WalkStep
  <1>3. CASE WriteTimelineRow
    <2> DEFINE ms == millisecondScale
               S == RowSet(ms, functions)
               D == WalkedPairs(ms, functions, walker)
               row == RowTable(ms, functions)
    <2>1. /\ writer # <<>> /\ writer' = Tail(writer) /\ outputFile' = Append(outputFile, Head(writer))
          /\ walker' = walker /\ writerOpen' = writerOpen /\ functions' = functions
          /\ millisecondScale' = millisecondScale
      BY <1>1, <1>3 DEF WriteTimelineRow, millisecondScale
    <2>2. writer \in Seq(S) /\ outputFile \in Seq(S) /\ Sent(outputFile, writer, D, row)  BY DEF WalkInv
    <2> HIDE DEF S, D, row
    <2>3. /\ outputFile' \in Seq(S) /\ writer' \in Seq(S) /\ Sent(outputFile', writer', D, row)
      BY <2>1, <2>2, SentAndWritten
    <2>4. writerOpen' \/ WalkersDone'
      <3>1. writerOpen \/ WalkersDone  BY DEF WalkInv
      <3> QED BY <2>1, <3>1 DEF WalkersDone
    <2>5. /\ DOMAIN walker' = 1 .. Len(functions)
          /\ \A i \in 1 .. Len(functions) : WalkerAt(ms, functions[i], walker'[i])
      BY <2>1 DEF WalkInv
    <2>6. D = WalkedPairs(ms, functions, walker')  BY <2>1 DEF D
    <2>7. functions' = functions /\ millisecondScale' = ms  BY <2>1
    <2> HIDE DEF ms
    <2> QED BY <1>1, <2>3, <2>4, <2>5, <2>6, <2>7 DEF WalkInv, S, row
  <1>4. CASE CloseWriter
    <2>1. WalkersDone /\ UNCHANGED <<walker, writer, outputFile>> /\ UNCHANGED <<cfg, functions>>
      BY <1>1, <1>4 DEF CloseWriter
    <2>2. WalkersDone'  BY <2>1 DEF WalkersDone
    <2>3. millisecondScale' = millisecondScale  BY <2>1 DEF millisecondScale
    <2> DEFINE ms == millisecondScale
    <2>4. /\ DOMAIN walker' = 1 .. Len(functions)
          /\ \A i \in 1 .. Len(functions) : WalkerAt(ms, functions[i], walker'[i])
      BY <2>1 DEF WalkInv
    <2>5. /\ writer' \in Seq(RowSet(ms, functions)) /\ outputFile' \in Seq(RowSet(ms, functions))
          /\ Sent(outputFile', writer', WalkedPairs(ms, functions, walker'), RowTable(ms, functions))
      BY <2>1 DEF WalkInv
    <2>6. functions' = functions /\ millisecondScale' = ms  BY <2>1, <2>3
    <2> HIDE DEF ms
    <2> QED BY <1>1, <2>2, <2>4, <2>5, <2>6 DEF WalkInv
  <1> QED BY <1>1, <1>2, <1>3, <1>4 DEF TimelineStep

-----------------------------------------------------------------------------
\* The minutes of the invocations are the minutes with invocations, and the invocations
\* of a minute are those between the counts up to it and up to its end.
CountsAgree(c, L, minutes) ==
  /\ \A m : (\E k \in 1 .. L : minutes[k] = m) <=> m \in 0 .. Len(c) - 1 /\ c[m + 1] > 0
  /\ \A m \in 0 .. Len(c) - 1 : Upto(c, m + 1) <= L
  /\ \A m \in 0 .. Len(c) - 1 :
       {k - 1 : k \in {j \in 1 .. L : minutes[j] = m}} = Upto(c, m) .. Upto(c, m + 1) - 1

LEMMA MinutesAndCounts ==
  ASSUME NEW c \in Seq(Nat), NEW L, L = Sum(c), NEW minutes \in [1 .. L -> Nat],
         \A k \in 1 .. L : InMinute(c, k - 1, minutes[k])
  PROVE  CountsAgree(c, L, minutes)
  <1>1. L \in Nat  BY UptoNat
  <1>2. ASSUME NEW m \in 0 .. Len(c) - 1
        PROVE  /\ Upto(c, m) \in Nat /\ Upto(c, m + 1) \in Nat /\ c[m + 1] \in Nat
               /\ Upto(c, m + 1) = Upto(c, m) + c[m + 1] /\ Upto(c, m + 1) <= L
    <2>1. m \in 0 .. Len(c) /\ m + 1 \in 0 .. Len(c) /\ Len(c) \in 0 .. Len(c) /\ m + 1 <= Len(c)
          /\ c[m + 1] \in Nat
      OBVIOUS
    <2>2. Upto(c, m) \in Nat /\ Upto(c, m + 1) \in Nat /\ Upto(c, m + 1) <= Upto(c, Len(c))
      BY <2>1, UptoNat
    <2>3. Upto(c, m + 1) = Upto(c, m) + c[m + 1] /\ Upto(c, Len(c)) = L  BY UptoRec
    <2> QED BY <2>1, <2>2, <2>3
  <1>3. ASSUME NEW m \in 0 .. Len(c) - 1, NEW x \in Upto(c, m) .. Upto(c, m + 1) - 1
        PROVE  x + 1 \in 1 .. L /\ minutes[x + 1] = m
    <2>1. x \in Nat /\ Upto(c, m) <= x /\ x < Upto(c, m + 1) /\ x + 1 \in 1 .. L /\ x + 1 - 1 = x
      BY <1>1, <1>2
    <2>2. InMinute(c, x, m)  BY <2>1 DEF InMinute
    <2>3. InMinute(c, x, minutes[x + 1])
      <3>1. InMinute(c, x + 1 - 1, minutes[x + 1])  BY <2>1
      <3> QED BY <2>1, <3>1
    <2>4. x \in Int  BY <2>1
    <2> QED BY <2>1, <2>2, <2>3, <2>4, MinuteUnique
  <1>4. ASSUME NEW k \in 1 .. L
        PROVE  /\ minutes[k] \in 0 .. Len(c) - 1 /\ Upto(c, minutes[k]) <= k - 1
               /\ k - 1 < Upto(c, minutes[k] + 1) /\ c[minutes[k] + 1] > 0
    <2> DEFINE m == minutes[k]
    <2>1. m \in 0 .. Len(c) - 1 /\ Upto(c, m) <= k - 1 /\ k - 1 < Upto(c, m + 1)  BY DEF InMinute
    <2> HIDE DEF m
    <2>2. c[m + 1] > 0  BY <1>1, <1>2, <2>1
    <2> QED BY <2>1, <2>2 DEF m
  <1>5. ASSUME NEW m, m \in 0 .. Len(c) - 1, c[m + 1] > 0 PROVE \E k \in 1 .. L : minutes[k] = m
    <2>1. Upto(c, m) \in Upto(c, m) .. Upto(c, m + 1) - 1  BY <1>2, <1>5
    <2>2. Upto(c, m) + 1 \in 1 .. L /\ minutes[Upto(c, m) + 1] = m  BY <1>3, <1>5, <2>1
    <2> QED BY <2>2
  <1>6. ASSUME NEW m \in 0 .. Len(c) - 1
        PROVE  {k - 1 : k \in {j \in 1 .. L : minutes[j] = m}} = Upto(c, m) .. Upto(c, m + 1) - 1
    <2> DEFINE A == {k - 1 : k \in {j \in 1 .. L : minutes[j] = m}}
               B == Upto(c, m) .. Upto(c, m + 1) - 1
    <2>1. ASSUME NEW x \in A PROVE x \in B
      <3>1. PICK k \in 1 .. L : minutes[k] = m /\ x = k - 1  OBVIOUS
      <3>2. Upto(c, m) <= k - 1 /\ k - 1 < Upto(c, m + 1)  BY <1>4, <3>1
      <3>3. Upto(c, m) \in Nat /\ Upto(c, m + 1) \in Nat  BY <1>2
      <3> QED BY <1>1, <3>1, <3>2, <3>3
    <2>2. ASSUME NEW x \in B PROVE x \in A
      <3>1. x + 1 \in 1 .. L /\ minutes[x + 1] = m  BY <1>3
      <3>2. x + 1 - 1 = x  BY <1>2
      <3> QED BY <3>1, <3>2
    <2> HIDE DEF A, B
    <2>3. A = B  BY <2>1, <2>2
    <2> QED BY <2>3 DEF A, B
  <1>7. \A m : (\E k \in 1 .. L : minutes[k] = m) <=> m \in 0 .. Len(c) - 1 /\ c[m + 1] > 0
    BY <1>4, <1>5
  <1> QED BY <1>2, <1>6, <1>7 DEF CountsAgree

\* When the goroutines are done and the channel is empty, the file has a row for each
\* invocation or minute.
LEMMA AllWritten ==
  ASSUME Walkable, WalkInv, WalkersDone, writer = <<>>
  PROVE  LET ms == millisecondScale
             All == {p \in Pairs(functions) : p[2] \in Walked(ms, functions[p[1]], Len(functions[p[1]].IAT))}
         IN  /\ Len(outputFile) \in Nat
             /\ \E h : /\ Lists(h, Len(outputFile), All)
                       /\ \A n \in 1 .. Len(outputFile) :
                            h[n] \in Pairs(functions) /\ outputFile[n] = RowFor(ms, functions, h[n])
  <1> DEFINE ms == millisecondScale
             All == {p \in Pairs(functions) : p[2] \in Walked(ms, functions[p[1]], Len(functions[p[1]].IAT))}
             D == WalkedPairs(ms, functions, walker)
  <1>1. ASSUME NEW i \in 1 .. Len(functions) PROVE walker[i].iatIndex = Len(functions[i].IAT)
    <2>1. walker[i].done  BY DEF WalkersDone, WalkInv
    <2>2. WalkerAt(ms, functions[i], walker[i])  BY DEF WalkInv
    <2> QED BY <2>1, <2>2 DEF WalkerAt
  <1>2. \A p \in Pairs(functions) : p[1] \in 1 .. Len(functions)  BY DEF Pairs
  <1>3. D = All  BY <1>1, <1>2 DEF WalkedPairs
  <1>4. Len(outputFile) \in Nat /\ Len(outputFile) + Len(writer) = Len(outputFile)
    <2>1. outputFile \in Seq(RowSet(ms, functions))  BY DEF WalkInv
    <2> QED BY <2>1
  <1>5. Sent(outputFile, writer, D, RowTable(ms, functions))  BY DEF WalkInv
  <1> HIDE DEF D, All, ms
  <1>6. PICK h : Lists(h, Len(outputFile), All) /\ RowsInOrder(outputFile, writer, h, RowTable(ms, functions))
    BY <1>3, <1>4, <1>5 DEF Sent
  <1>7. ASSUME NEW n \in 1 .. Len(outputFile)
        PROVE  h[n] \in Pairs(functions) /\ outputFile[n] = RowFor(ms, functions, h[n])
    <2>1. h[n] \in All  BY <1>6 DEF Lists
    <2>2. h[n] \in Pairs(functions)  BY <2>1 DEF All
    <2>3. outputFile[n] = RowTable(ms, functions)[h[n]]  BY <1>6 DEF RowsInOrder
    <2> QED BY <2>2, <2>3 DEF RowTable
  <1>8. \E g : /\ Lists(g, Len(outputFile), All)
               /\ \A n \in 1 .. Len(outputFile) :
                    g[n] \in Pairs(functions) /\ outputFile[n] = RowFor(ms, functions, g[n])
    BY <1>6, <1>7
  <1> QED BY <1>4, <1>8 DEF All, ms

\* With minutes, the rows of the file are the minutes with invocations, each once.
LEMMA MinutesWritten ==
  ASSUME Walkable, WalkInv, WalkersDone, writer = <<>>, ~millisecondScale
  PROVE  Seqs!Range(outputFile) = MinuteRows /\ Len(outputFile) = Cardinality(MinuteRows)
  <1> DEFINE fs == functions
             N == Len(outputFile)
             All == {p \in Pairs(fs) : p[2] \in Walked(millisecondScale, fs[p[1]], Len(fs[p[1]].IAT))}
             Of(i, m) == [function |-> i, minute |-> m,
                          invocations |-> {k - 1 : k \in {j \in DOMAIN TrueMinutes(i) : TrueMinutes(i)[j] = m}}]
  <1>1. N \in Nat  BY AllWritten
  <1>2. PICK h : Lists(h, N, All) /\ \A n \in 1 .. N :
          h[n] \in Pairs(fs) /\ outputFile[n] = RowFor(millisecondScale, fs, h[n])
    BY AllWritten
  <1>3. ASSUME NEW i \in 1 .. Len(fs)
        PROVE  LET c == fs[i].PerMinuteCount
                   L == Len(fs[i].IAT)
               IN
               /\ DOMAIN TrueMinutes(i) = 1 .. L
               /\ \A m : m \in Seqs!Range(TrueMinutes(i)) <=> m \in 0 .. Len(c) - 1 /\ c[m + 1] > 0
               /\ \A m \in 0 .. Len(c) - 1 : Upto(c, m + 1) <= L
               /\ \A m \in 0 .. Len(c) - 1 :
                    {k - 1 : k \in {j \in 1 .. L : TrueMinutes(i)[j] = m}} = Upto(c, m) .. Upto(c, m + 1) - 1
    <2> DEFINE c == fs[i].PerMinuteCount
               L == Len(fs[i].IAT)
               minutes == TrueMinutes(i)
    <2>1. /\ c \in Seq(Nat) /\ L = Sum(c) /\ minutes \in [1 .. L -> Nat]
          /\ \A k \in 1 .. L : InMinute(c, k - 1, minutes[k])
      BY DEF Walkable
    <2> HIDE DEF c, L, minutes
    <2>2. CountsAgree(c, L, minutes)  BY <2>1, MinutesAndCounts
    <2>3. DOMAIN minutes = 1 .. L  BY <2>1
    <2>4. \A m : m \in Seqs!Range(minutes) <=> \E k \in 1 .. L : minutes[k] = m  BY <2>3 DEF Seqs!Range
    <2>5. \A m : m \in Seqs!Range(minutes) <=> m \in 0 .. Len(c) - 1 /\ c[m + 1] > 0
      BY <2>2, <2>4 DEF CountsAgree
    <2> QED BY <2>2, <2>3, <2>5 DEF CountsAgree, c, L, minutes
  <1>4. \A p \in Pairs(fs) : p[1] \in 1 .. Len(fs) /\ p[2] \in Nat /\ p = <<p[1], p[2]>>  BY DEF Pairs
  <1>5. ASSUME NEW i \in 1 .. Len(fs), NEW m
        PROVE  <<i, m>> \in All <=> m \in Seqs!Range(TrueMinutes(i))
    <2>1. <<i, m>>[1] = i /\ <<i, m>>[2] = m  OBVIOUS
    <2>2. m \in 0 .. Len(fs[i].PerMinuteCount) - 1 => <<i, m>> \in Pairs(fs)  BY DEF Pairs
    <2>3. <<i, m>> \in All <=> <<i, m>> \in Pairs(fs) /\ m \in Walked(millisecondScale, fs[i], Len(fs[i].IAT))
      BY <2>1
    <2>4. m \in Walked(millisecondScale, fs[i], Len(fs[i].IAT)) <=>
            /\ m \in 0 .. Len(fs[i].PerMinuteCount) - 1
            /\ fs[i].PerMinuteCount[m + 1] > 0 /\ Upto(fs[i].PerMinuteCount, m + 1) <= Len(fs[i].IAT)
      BY DEF Walked
    <2> HIDE DEF All
    <2> QED BY <1>3, <2>2, <2>3, <2>4
  <1>6. ASSUME NEW i \in 1 .. Len(fs), NEW m, m \in Seqs!Range(TrueMinutes(i))
        PROVE  RowFor(millisecondScale, fs, <<i, m>>) = Of(i, m)
    <2>1. <<i, m>>[1] = i /\ <<i, m>>[2] = m  OBVIOUS
    <2>2. m \in 0 .. Len(fs[i].PerMinuteCount) - 1  BY <1>3, <1>6
    <2>3. {k - 1 : k \in {j \in DOMAIN TrueMinutes(i) : TrueMinutes(i)[j] = m}} =
            Upto(fs[i].PerMinuteCount, m) .. Upto(fs[i].PerMinuteCount, m + 1) - 1
      BY <1>3, <2>2
    <2> QED BY <2>1, <2>3 DEF RowFor
  <1>7. \A r : r \in MinuteRows <=> \E i \in 1 .. Len(fs) : \E m \in Seqs!Range(TrueMinutes(i)) : r = Of(i, m)
    BY DEF MinuteRows
  <1> HIDE DEF All
  <1>8. ASSUME NEW n \in 1 .. N
        PROVE  /\ h[n][1] \in 1 .. Len(fs) /\ h[n][2] \in Seqs!Range(TrueMinutes(h[n][1]))
               /\ h[n] = <<h[n][1], h[n][2]>> /\ outputFile[n] = Of(h[n][1], h[n][2])
    <2>1. h[n] \in All /\ h[n] \in Pairs(fs) /\ outputFile[n] = RowFor(millisecondScale, fs, h[n])
      BY <1>2 DEF Lists
    <2>2. h[n][1] \in 1 .. Len(fs) /\ h[n] = <<h[n][1], h[n][2]>>  BY <1>4, <2>1
    <2>3. <<h[n][1], h[n][2]>> \in All  BY <2>1, <2>2
    <2>4. h[n][2] \in Seqs!Range(TrueMinutes(h[n][1]))  BY <1>5, <2>2, <2>3
    <2>5. RowFor(millisecondScale, fs, <<h[n][1], h[n][2]>>) = Of(h[n][1], h[n][2])  BY <1>6, <2>2, <2>4
    <2>6. RowFor(millisecondScale, fs, h[n]) = RowFor(millisecondScale, fs, <<h[n][1], h[n][2]>>)  BY <2>2
    <2> HIDE DEF Of
    <2> QED BY <2>1, <2>2, <2>4, <2>5, <2>6
  <1>9. \A i, j, m, l : Of(i, m) = Of(j, l) => i = j /\ m = l
    <2> SUFFICES ASSUME NEW i, NEW j, NEW m, NEW l, Of(i, m) = Of(j, l) PROVE i = j /\ m = l  OBVIOUS
    <2>1. Of(i, m).function = i /\ Of(j, l).function = j /\ Of(i, m).minute = m /\ Of(j, l).minute = l  OBVIOUS
    <2> HIDE DEF Of
    <2> QED BY <2>1
  <1> HIDE DEF Of
  <1>10. outputFile \in [1 .. N -> MinuteRows]
    <2>1. \A n \in 1 .. N : outputFile[n] \in MinuteRows  BY <1>7, <1>8
    <2>2. outputFile = [n \in 1 .. N |-> outputFile[n]]
      <3>1. outputFile \in Seq(RowSet(millisecondScale, fs))  BY DEF WalkInv
      <3> QED BY <3>1
    <2> QED BY <2>1, <2>2
  <1>11. ASSUME NEW a \in 1 .. N, NEW b \in 1 .. N, outputFile[a] = outputFile[b] PROVE a = b
    <2>1. h[a][1] = h[b][1] /\ h[a][2] = h[b][2]  BY <1>8, <1>9, <1>11
    <2>2. h[a] = h[b]  BY <1>8, <2>1
    <2> QED BY <1>2, <2>2 DEF Lists
  <1>12. ASSUME NEW r \in MinuteRows PROVE \E a \in 1 .. N : outputFile[a] = r
    <2>1. PICK i \in 1 .. Len(fs) : \E m \in Seqs!Range(TrueMinutes(i)) : r = Of(i, m)  BY <1>7
    <2>2. PICK m \in Seqs!Range(TrueMinutes(i)) : r = Of(i, m)  BY <2>1
    <2>3. <<i, m>> \in All  BY <1>5
    <2>4. PICK a \in 1 .. N : h[a] = <<i, m>>  BY <1>2, <2>3 DEF Lists
    <2>5. h[a][1] = i /\ h[a][2] = m  BY <2>4
    <2> QED BY <1>8, <2>2, <2>5
  <1>13. Lists(outputFile, N, MinuteRows)  BY <1>10, <1>11, <1>12 DEF Lists
  <1>14. Cardinality(MinuteRows) = N
    <2> HIDE DEF N
    <2> QED BY <1>1, <1>13, ListsAll
  <1>15. Seqs!Range(outputFile) = MinuteRows
    <2>1. DOMAIN outputFile = 1 .. N  BY <1>10
    <2>2. \A r : r \in Seqs!Range(outputFile) <=> \E a \in 1 .. N : outputFile[a] = r  BY <2>1 DEF Seqs!Range
    <2>3. \A a \in 1 .. N : outputFile[a] \in MinuteRows  BY <1>10
    <2> HIDE DEF N
    <2> QED BY <1>12, <2>2, <2>3
  <1> QED BY <1>14, <1>15

-----------------------------------------------------------------------------
\* With milliseconds, what is counted from the file is what is running.
CountsRunning(cnt) ==
  \A t \in 0 .. Cardinality(DOMAIN cnt) :
    Cardinality(RunningAt(t)) = IF t \in DOMAIN cnt THEN cnt[t] ELSE 0

LEMMA MillisecondsCounted ==
  ASSUME Walkable, WalkInv, WalkersDone, writer = <<>>, millisecondScale
  PROVE  CountsRunning(countRunning(outputFile, maxTime(outputFile)))
  <1> DEFINE fs == functions
             ms == millisecondScale
             N == Len(outputFile)
             All == {p \in Pairs(fs) : p[2] \in Walked(ms, fs[p[1]], Len(fs[p[1]].IAT))}
             last == maxTime(outputFile)
             cnt == countRunning(outputFile, last)
  <1>1. N \in Nat  BY AllWritten
  <1>2. PICK h : Lists(h, N, All) /\ \A n \in 1 .. N :
          h[n] \in Pairs(fs) /\ outputFile[n] = RowFor(ms, fs, h[n])
    BY AllWritten
  <1>3. \A p \in Pairs(fs) : p[1] \in 1 .. Len(fs) /\ p[2] \in Nat /\ p = <<p[1], p[2]>>  BY DEF Pairs
  <1>4. ASSUME NEW p \in All
        PROVE  /\ p[1] \in 1 .. Len(fs) /\ p[2] \in 1 .. Len(fs[p[1]].IAT) /\ p = <<p[1], p[2]>>
               /\ p[2] \in DOMAIN TrueMinutes(p[1])
    <2>1. p \in Pairs(fs) /\ p[2] \in Walked(ms, fs[p[1]], Len(fs[p[1]].IAT))  OBVIOUS
    <2>2. p[1] \in 1 .. Len(fs) /\ p = <<p[1], p[2]>>  BY <1>3, <2>1
    <2>3. p[2] \in 1 .. Len(fs[p[1]].IAT)  BY <2>1 DEF Walked
    <2>4. DOMAIN TrueMinutes(p[1]) = 1 .. Len(fs[p[1]].IAT)  BY <2>2 DEF Walkable
    <2> QED BY <2>2, <2>3, <2>4
  <1>5. ASSUME NEW j \in 1 .. Len(fs), NEW n \in DOMAIN TrueMinutes(j) PROVE <<j, n>> \in All
    <2>1. DOMAIN TrueMinutes(j) = 1 .. Len(fs[j].IAT) /\ Len(fs[j].IAT) \in Nat  BY DEF Walkable
    <2>2. <<j, n>> \in Pairs(fs) /\ <<j, n>>[1] = j /\ <<j, n>>[2] = n  BY <2>1 DEF Pairs
    <2>3. n \in Walked(ms, fs[j], Len(fs[j].IAT))  BY <2>1 DEF Walked
    <2> QED BY <2>2, <2>3
  <1>6. ASSUME NEW p \in All
        PROVE  /\ Millisecond(p[1], p[2]) \in Nat /\ runtimeOf(p[1]) \in Nat
               /\ RowFor(ms, fs, p).start = Millisecond(p[1], p[2])
               /\ RowFor(ms, fs, p).runtime = runtimeOf(p[1])
    <2> DEFINE iats == fs[p[1]].IAT
               k == p[2]
    <2>1. p[1] \in 1 .. Len(fs) /\ p[1] \in Nat /\ k \in 1 .. Len(iats) /\ iats \in Seq(Nat)
      <3>1. p[1] \in 1 .. Len(fs) /\ p[2] \in 1 .. Len(fs[p[1]].IAT)  BY <1>4
      <3> QED BY <3>1 DEF Walkable
    <2>2. runtimeOf(p[1]) \in Nat  BY <2>1 DEF runtimeOf
    <2>3. Millisecond(p[1], k) = Sum([j \in 1 .. k |-> iats[j] \div Fraction]) \div MicrosPerMilli
      BY DEF Millisecond
    <2>4. RowFor(ms, fs, p).start = Upto(InMicros(iats), k) \div MicrosPerMilli
          /\ RowFor(ms, fs, p).runtime = runtimeOf(p[1])
      BY DEF RowFor
    <2> HIDE DEF iats, k
    <2>5. InMicros(iats) \in Seq(Nat) /\ Len(InMicros(iats)) = Len(iats)  BY <2>1, MicrosAre
    <2>6. k \in 0 .. Len(iats)  BY <2>1
    <2>7. Sum([j \in 1 .. k |-> iats[j] \div Fraction]) = Upto(InMicros(iats), k)  BY <2>1, <2>6, MicrosAre
    <2>8. Upto(InMicros(iats), k) \in Nat  BY <2>5, <2>6, UptoNat
    <2>9. Upto(InMicros(iats), k) \div MicrosPerMilli \in Nat
      <3>1. MicrosPerMilli \in Nat /\ MicrosPerMilli > 0  BY TimelineAssumption
      <3> QED BY <2>8, <3>1, Quotient
    <2> QED BY <2>2, <2>3, <2>4, <2>7, <2>9 DEF k
  <1>7. ASSUME NEW n \in 1 .. N
        PROVE  /\ h[n] \in All /\ EndOf(outputFile[n]) \in Nat
               /\ outputFile[n].start = Millisecond(h[n][1], h[n][2])
               /\ EndOf(outputFile[n]) = Millisecond(h[n][1], h[n][2]) + runtimeOf(h[n][1])
    <2> HIDE DEF All
    <2>1. h[n] \in All /\ outputFile[n] = RowFor(ms, fs, h[n])  BY <1>2 DEF Lists
    <2>2. /\ Millisecond(h[n][1], h[n][2]) \in Nat /\ runtimeOf(h[n][1]) \in Nat
          /\ RowFor(ms, fs, h[n]).start = Millisecond(h[n][1], h[n][2])
          /\ RowFor(ms, fs, h[n]).runtime = runtimeOf(h[n][1])
      BY <1>6, <2>1
    <2> DEFINE start == Millisecond(h[n][1], h[n][2])
               runtime == runtimeOf(h[n][1])
    <2>3. outputFile[n].start = start /\ outputFile[n].runtime = runtime  BY <2>1, <2>2
    <2>4. start \in Nat /\ runtime \in Nat  BY <2>2
    <2> HIDE DEF start, runtime
    <2>5. EndOf(outputFile[n]) = start + runtime /\ EndOf(outputFile[n]) \in Nat  BY <2>3, <2>4 DEF EndOf
    <2> QED BY <2>1, <2>3, <2>5 DEF start, runtime
  <1>8. last \in Nat /\ \A n \in 1 .. N : EndOf(outputFile[n]) <= last
    BY <1>1, <1>7, MaxTimeIs
  <1> HIDE DEF last
  <1>9. /\ DOMAIN cnt = 0 .. last
        /\ \A t \in 0 .. last : cnt[t] = Cardinality({n \in 1 .. N : Running(outputFile[n], t)})
    BY <1>1, <1>8, CountIs
  <1> HIDE DEF cnt
  <1>10. Cardinality(DOMAIN cnt) = last + 1
    <2>1. 0 \in Int /\ last \in Int /\ ~(0 > last)  BY <1>8
    <2>2. Cardinality(0 .. last) = last - 0 + 1  BY <2>1, FS_Interval
    <2> QED BY <1>8, <1>9, <2>2
  <1>11. \A p, t : p \in RunningAt(t) <=>
           p \in All /\ Millisecond(p[1], p[2]) <= t /\ t <= Millisecond(p[1], p[2]) + runtimeOf(p[1])
    <2> HIDE DEF All
    <2>1. \A p : p \in UNION {{<<j, n>> : n \in DOMAIN TrueMinutes(j)} : j \in 1 .. Len(fs)} <=> p \in All
      <3>1. ASSUME NEW p \in All
            PROVE  p \in UNION {{<<j, n>> : n \in DOMAIN TrueMinutes(j)} : j \in 1 .. Len(fs)}
        <4>1. p[1] \in 1 .. Len(fs) /\ p = <<p[1], p[2]>> /\ p[2] \in DOMAIN TrueMinutes(p[1])  BY <1>4
        <4> QED BY <4>1
      <3>2. ASSUME NEW p \in UNION {{<<j, n>> : n \in DOMAIN TrueMinutes(j)} : j \in 1 .. Len(fs)}
            PROVE  p \in All
        BY <1>5
      <3> QED BY <3>1, <3>2
    <2> QED BY <2>1 DEF RunningAt
  <1>12. \A t, n : n \in 1 .. N => (h[n] \in RunningAt(t) <=> Running(outputFile[n], t))
    BY <1>7, <1>11 DEF Running
  <1> HIDE DEF All
  <1>13. ASSUME NEW t
         PROVE  Cardinality(RunningAt(t)) = Cardinality({n \in 1 .. N : Running(outputFile[n], t)})
    <2>1. RunningAt(t) \subseteq All  BY <1>11
    <2>2. {n \in 1 .. N : h[n] \in RunningAt(t)} = {n \in 1 .. N : Running(outputFile[n], t)}  BY <1>12
    <2> HIDE DEF N
    <2>3. Cardinality({n \in 1 .. N : h[n] \in RunningAt(t)}) = Cardinality(RunningAt(t))
      BY <1>1, <1>2, <2>1, ListsPart
    <2> QED BY <2>2, <2>3
  <1>14. Cardinality(RunningAt(last + 1)) = 0
    <2>1. {n \in 1 .. N : Running(outputFile[n], last + 1)} = {}
      <3> SUFFICES ASSUME NEW n \in 1 .. N, Running(outputFile[n], last + 1) PROVE FALSE  OBVIOUS
      <3>1. last + 1 <= EndOf(outputFile[n])  BY DEF Running
      <3>2. EndOf(outputFile[n]) \in Nat /\ EndOf(outputFile[n]) <= last  BY <1>7, <1>8
      <3> QED BY <1>8, <3>1, <3>2
    <2> QED BY <1>13, <2>1, FS_EmptySet
  <1>15. ASSUME NEW t \in 0 .. last + 1
         PROVE  Cardinality(RunningAt(t)) = IF t \in DOMAIN cnt THEN cnt[t] ELSE 0
    <2>1. CASE t \in 0 .. last  BY <1>9, <1>13, <2>1
    <2>2. CASE t = last + 1
      <3>1. t \notin 0 .. last  BY <1>8, <2>2
      <3> QED BY <1>9, <1>14, <2>2, <3>1
    <2> QED BY <1>8, <2>1, <2>2
  <1> QED BY <1>10, <1>15 DEF CountsRunning, cnt, last

-----------------------------------------------------------------------------
TimelineInv ==
  /\ phase \in {"timeline", "walk"} => cfg.command = "timeline"
  /\ phase \notin {"walk", "done"} => writer = <<>> /\ outputFile = <<>>
  /\ phase = "walk" => WalkInv
  /\ TimelineRight

LEMMA TimelineInitial == Init => TimelineInv
  <1> SUFFICES ASSUME Init PROVE TimelineInv  OBVIOUS
  <1>1. phase = "start" /\ writer = <<>> /\ outputFile = <<>>  BY DEF Init, TimelineInit
  <1> QED BY <1>1 DEF TimelineInv, TimelineRight

LEMMA TimelineEndsRight ==
  ASSUME Walkable, WalkInv, TimelineEnds
  PROVE  TimelineRight'
  <1>1. /\ writer = <<>> /\ ~writerOpen /\ UNCHANGED <<cfg, functions>>
        /\ IF millisecondScale THEN buildTimeline ELSE UNCHANGED timelineVars
    BY DEF TimelineEnds, FileWritten
  <1>2. WalkersDone  BY <1>1 DEF WalkInv
  <1>3. \A i : TrueMinutes(i)' = TrueMinutes(i)
    BY <1>1 DEF TrueMinutes, InTime, Duration
  <1>4. millisecondScale' = millisecondScale  BY <1>1 DEF millisecondScale
  <1>5. CASE millisecondScale
    <2> DEFINE cnt == countRunning(outputFile, maxTime(outputFile))
    <2>1. funcCnt' = cnt  BY <1>1, <1>5 DEF buildTimeline
    <2>2. CountsRunning(cnt)  BY <1>1, <1>2, <1>5, MillisecondsCounted
    <2> HIDE DEF cnt
    <2>3. \A i, k : Millisecond(i, k)' = Millisecond(i, k)  BY <1>1 DEF Millisecond
    <2>4. \A t : RunningAt(t)' = RunningAt(t)  BY <1>1, <1>3, <2>3 DEF RunningAt, runtimeOf
    <2>5. \A t \in 0 .. Cardinality(DOMAIN funcCnt') :
            Cardinality(RunningAt(t)') = IF t \in DOMAIN funcCnt' THEN funcCnt'[t] ELSE 0
      BY <2>1, <2>2, <2>4 DEF CountsRunning
    <2> QED BY <1>4, <1>5, <2>5 DEF TimelineRight
  <1>6. CASE ~millisecondScale
    <2>1. Seqs!Range(outputFile) = MinuteRows /\ Len(outputFile) = Cardinality(MinuteRows)
      BY <1>1, <1>2, <1>6, MinutesWritten
    <2>2. outputFile' = outputFile  BY <1>1, <1>6 DEF timelineVars
    <2>3. MinuteRows' = MinuteRows  BY <1>1, <1>3 DEF MinuteRows
    <2> QED BY <1>4, <1>6, <2>1, <2>2, <2>3 DEF TimelineRight
  <1> QED BY <1>5, <1>6

LEMMA TimelineNext ==
  ASSUME CommandInv, TimelineInv, [Next]_vars
  PROVE  TimelineInv'
  <1>1. CASE GenerateLoad
    <2>1. phase = "timeline" /\ cfg.command = "timeline" /\ writer = <<>> /\ outputFile = <<>>
      BY <1>1 DEF GenerateLoad, TimelineInv
    <2>2. Walkable  BY <2>1, FunctionsWalkable
    <2>3. UNCHANGED <<cfg, functions>>  BY <1>1 DEF GenerateLoad
    <2>4. CASE phase' = "walk" /\ StartTimeline(functions)
      <3>1. WalkInv'  BY <2>1, <2>2, <2>3, <2>4, GenerateLoadStarts
      <3> QED BY <2>1, <2>3, <2>4, <3>1 DEF TimelineInv, TimelineRight
    <2>5. CASE phase' = "fatal" /\ UNCHANGED timelineVars
      <3>1. writer' = <<>> /\ outputFile' = <<>>  BY <2>1, <2>5 DEF timelineVars
      <3> QED BY <2>5, <3>1 DEF TimelineInv, TimelineRight
    <2> QED BY <1>1, <2>4, <2>5 DEF GenerateLoad, End
  <1>2. CASE TimelineStep
    <2>1. phase = "walk" /\ cfg.command = "timeline" /\ WalkInv  BY <1>2 DEF TimelineStep, TimelineInv
    <2>2. Walkable  BY <2>1, FunctionsWalkable
    <2>3. WalkInv' /\ UNCHANGED <<phase, cfg, functions>>  BY <1>2, <2>1, <2>2, TimelineSteps
    <2> QED BY <2>1, <2>3 DEF TimelineInv, TimelineRight
  <1>3. CASE TimelineEnds
    <2>1. phase = "walk" /\ cfg.command = "timeline" /\ WalkInv /\ phase' = "done"
      BY <1>3 DEF TimelineEnds, TimelineInv
    <2>2. Walkable  BY <2>1, FunctionsWalkable
    <2>3. TimelineRight'  BY <1>3, <2>1, <2>2, TimelineEndsRight
    <2> QED BY <2>1, <2>3 DEF TimelineInv
  <1>4. CASE UNCHANGED vars
    <2>1. UNCHANGED <<phase, cfg, functions, walker, writer, writerOpen, outputFile, funcCnt>>
      BY <1>4 DEF vars, commandVars, timelineVars
    <2>2. millisecondScale' = millisecondScale  BY <2>1 DEF millisecondScale
    <2>3. WalkInv' <=> WalkInv  BY <2>1, <2>2 DEF WalkInv, WalkersDone
    <2>4. TimelineRight' <=> TimelineRight
      <3>1. \A i : TrueMinutes(i)' = TrueMinutes(i)  BY <2>1 DEF TrueMinutes, InTime, Duration
      <3>2. MinuteRows' = MinuteRows  BY <2>1, <3>1 DEF MinuteRows
      <3>3. \A i, k : Millisecond(i, k)' = Millisecond(i, k)  BY <2>1 DEF Millisecond
      <3>4. \A t : RunningAt(t)' = RunningAt(t)  BY <2>1, <3>1, <3>3 DEF RunningAt, runtimeOf
      <3> QED BY <2>1, <2>2, <3>2, <3>4 DEF TimelineRight
    <2> QED BY <2>1, <2>3, <2>4 DEF TimelineInv
  <1>5. ASSUME phase \notin {"timeline", "walk", "done"}, UNCHANGED timelineVars, phase' # "walk",
               phase' = "timeline" => cfg'.command = "timeline", phase' = "done" => cfg'.command = "loader"
        PROVE  TimelineInv'
    <2>1. writer' = <<>> /\ outputFile' = <<>>  BY <1>5 DEF TimelineInv, timelineVars
    <2>2. TimelineRight'  BY <1>5 DEF TimelineRight
    <2> QED BY <1>5, <2>1, <2>2 DEF TimelineInv
  <1>6. PhaseInv  BY DEF CommandInv
  <1>7. CASE InvalidInput \/ DetermineInput
    BY <1>5, <1>7 DEF InvalidInput, DetermineInput, End, otherVars
  <1>8. CASE ParseTrace
    BY <1>5, <1>8 DEF ParseTrace, End, otherVars
  <1>9. CASE Parse2021
    BY <1>5, <1>9 DEF Parse2021, End, otherVars
  <1>10. CASE GenerateFunctionMinute
    BY <1>5, <1>10 DEF GenerateFunctionMinute, commandVars
  <1>11. CASE GenerateInvocationData
    BY <1>5, <1>11 DEF GenerateInvocationData, End
  <1>12. CASE AllGenerated
    BY <1>5, <1>12 DEF AllGenerated, otherVars
  <1>13. CASE GenerateWarm \/ GenerateCold \/ RpsGenerated
    BY <1>5, <1>13 DEF GenerateWarm, GenerateCold, RpsGenerated, End, otherVars
  <1>14. CASE ReadOrWriteSpecificationToFile
    BY <1>5, <1>14 DEF ReadOrWriteSpecificationToFile, End, otherVars
  <1>15. CASE RunExperiment
    BY <1>5, <1>15 DEF RunExperiment
  <1>16. CASE internalRunDAGs
    BY <1>5, <1>16 DEF internalRunDAGs, commandVars
  <1>17. CASE \E i \in 1 .. Len(functions) : RunDriver(i)
    <2>1. PICK i \in 1 .. Len(functions) : RunDriver(i)  BY <1>17
    <2>2. phase = "run" /\ cfg.command = "loader"  BY <1>6, <2>1 DEF RunDriver, PhaseInv
    <2> QED BY <1>5, <2>1, <2>2 DEF RunDriver
  <1>18. CASE Fire
    BY <1>5, <1>18 DEF Fire, commandVars
  <1>19. CASE EndLoop
    <2>1. phase = "loop" /\ cfg.command = "loader"  BY <1>6, <1>19 DEF EndLoop, PhaseInv
    <2> QED BY <1>5, <1>19, <2>1 DEF EndLoop, otherVars
  <1> QED BY <1>1, <1>2, <1>3, <1>4, <1>7, <1>8, <1>9, <1>10, <1>11, <1>12, <1>13, <1>14, <1>15, <1>16,
             <1>17, <1>18, <1>19 DEF Next, Stop

\* The rows of the timeline tool are the minutes or the running invocations of its input,
\* however the goroutines and the writer take turns.
THEOREM TimelineIsRight == Spec => []TimelineRight
  <1>1. TimelineInv => TimelineRight  BY DEF TimelineInv
  <1>2. CommandInv /\ TimelineInv /\ [Next]_vars => TimelineInv'  BY TimelineNext
  <1> QED BY <1>1, <1>2, TimelineInitial, CommandInvariant, PTL DEF Spec
=============================================================================
