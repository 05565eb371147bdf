------------------------ MODULE DagGenerationProofs -------------------------
(***************************************************************************)
(* The generator of DAGs keeps an invariant from which the DAGs have the    *)
(* shape that was drawn and share no function, for any number of functions, *)
(* any shapes and any choices; LoaderCommandProofs has the theorems.        *)
(*                                                                          *)
(* While a DAG is built, every list is filled up to some place and consists *)
(* of placeholders after it.  The queue holds the last filled place of each *)
(* list that has placeholders, sorted by depth, and spans at most two       *)
(* depths.  What is missing at a depth (widthList) is counted against the   *)
(* lists that reach it.                                                     *)
(***************************************************************************)
EXTENDS DagGeneration, ScheduleProofs

-----------------------------------------------------------------------------
(***************************************************************************)
(* Sums and sequences                                                       *)
(***************************************************************************)
LEMMA LocallyMonotone ==
  ASSUME NEW d \in Nat, NEW f, \A x \in 1 .. d : f[x] \in Int, \A x \in 2 .. d : f[x - 1] <= f[x]
  PROVE  \A x, y \in 1 .. d : x <= y => f[x] <= f[y]
  <1> SUFFICES ASSUME NEW x \in 1 .. d PROVE \A y \in 1 .. d : x <= y => f[x] <= f[y]  OBVIOUS
  <1> DEFINE T == {k \in 0 .. d - x : f[x] <= f[x + k]}
  <1>0. d - x \in Nat  OBVIOUS
  <1>1. 0 \in T  OBVIOUS
  <1>2. ASSUME NEW k \in 0 .. (d - x) - 1, k \in T PROVE k + 1 \in T
    <2>1. x + k \in 1 .. d /\ x + k + 1 \in 2 .. d /\ x + k + 1 \in 1 .. d /\ (x + k + 1) - 1 = x + k  OBVIOUS
    <2>2. f[x + k] <= f[x + k + 1]  BY <2>1
    <2>3. f[x] \in Int /\ f[x + k] \in Int /\ f[x + k + 1] \in Int /\ f[x] <= f[x + k]  BY <1>2, <2>1
    <2>4. f[x] <= f[x + k + 1]  BY <2>2, <2>3
    <2>5. x + (k + 1) = x + k + 1 /\ k + 1 \in 0 .. d - x  OBVIOUS
    <2> QED BY <2>4, <2>5
  <1> HIDE DEF T
  <1>3. \A k \in 0 .. d - x : k \in T  BY <1>0, <1>1, <1>2, InductionTo
  <1>4. ASSUME NEW y \in 1 .. d, x <= y PROVE f[x] <= f[y]
    <2>1. y - x \in 0 .. d - x /\ x + (y - x) = y  BY <1>4
    <2>2. y - x \in T  BY <1>3, <2>1
    <2> QED BY <2>1, <2>2 DEF T
  <1> QED BY <1>4

\* One list gets one place more, and n new lists have one.
LEMMA SumFilled ==
  ASSUME NEW F \in Seq(Nat), NEW G \in Seq(Nat), NEW n \in Nat, NEW l \in 1 .. Len(F),
         Len(G) = Len(F) + n, G[l] = F[l] + 1,
         \A m \in 1 .. Len(F) : m # l => G[m] = F[m],
         \A b \in 1 .. n : G[Len(F) + b] = 1
  PROVE  Sum(G) = Sum(F) + 1 + n
  <1> DEFINE T == {k \in 0 .. Len(F) : Upto(G, k) = Upto(F, k) + (IF k >= l THEN 1 ELSE 0)}
             U == {b \in 0 .. n : Upto(G, Len(F) + b) = Upto(G, Len(F)) + b}
  <1>0. F \in Seq(Nat) /\ Len(F) \in Nat /\ Len(G) \in Nat  OBVIOUS
  <1>1. 0 \in T  BY UptoRec
  <1>2. ASSUME NEW k \in 0 .. Len(F) - 1, k \in T PROVE k + 1 \in T
    <2>1. k \in 0 .. Len(G) - 1 /\ k \in 0 .. Len(F) /\ k + 1 \in 1 .. Len(F)  BY <1>0
    <2>2. Upto(G, k + 1) = Upto(G, k) + G[k + 1] /\ Upto(F, k + 1) = Upto(F, k) + F[k + 1]  BY <2>1, UptoRec
    <2>3. Upto(F, k) \in Nat /\ F[k + 1] \in Nat
      <3>1. Upto(F, k) \in Nat  BY <2>1, UptoNat
      <3>2. F[k + 1] \in Nat  BY ONLY <1>0, <2>1
      <3> QED BY <3>1, <3>2
    <2> DEFINE u == Upto(F, k)
               v == Upto(G, k)
               x == F[k + 1]
               y == G[k + 1]
    <2>4. u \in Nat /\ x \in Nat /\ k \in Nat /\ l \in Nat /\ v = u + (IF k >= l THEN 1 ELSE 0)
      BY <1>2, <2>3
    <2>5. (k + 1 = l => y = x + 1) /\ (k + 1 # l => y = x)  BY <2>1
    <2> HIDE DEF u, v, x, y
    <2>6. Upto(G, k + 1) = Upto(F, k + 1) + (IF k + 1 >= l THEN 1 ELSE 0)
      <3>1. v + y = (u + x) + (IF k + 1 >= l THEN 1 ELSE 0)
        <4>1. CASE k >= l
          <5>1. v = u + 1 /\ y = x /\ k + 1 >= l  BY <2>4, <2>5, <4>1
          <5>2. v + y = (u + x) + 1  BY <2>4, <5>1
          <5> QED BY <5>1, <5>2
        <4>2. CASE k + 1 = l
          <5>1. v = u /\ y = x + 1 /\ k + 1 >= l  BY <2>4, <2>5, <4>2
          <5>2. v + y = (u + x) + 1  BY <2>4, <5>1
          <5> QED BY <5>1, <5>2
        <4>3. CASE k + 1 < l
          <5>1. v = u /\ y = x /\ ~(k + 1 >= l)  BY <2>4, <2>5, <4>3
          <5>2. v + y = (u + x) + 0  BY <2>4, <5>1
          <5> QED BY <5>1, <5>2
        <4> QED BY <2>4, <4>1, <4>2, <4>3
      <3> QED BY <2>2, <3>1 DEF u, v, x, y
    <2>7. k + 1 \in 0 .. Len(F)  BY <2>1
    <2> QED BY <2>6, <2>7
  <1>3. 0 \in U
    <2>1. Upto(G, Len(F)) \in Nat  BY SMTT(30), <1>0, UptoNat
    <2> QED BY <1>0, <2>1
  <1>4. ASSUME NEW b \in 0 .. n - 1, b \in U PROVE b + 1 \in U
    <2>1. Len(F) + b \in 0 .. Len(G) - 1 /\ Len(F) \in 0 .. Len(G) /\ b + 1 \in 1 .. n
          /\ (Len(F) + b) + 1 = Len(F) + (b + 1)
      BY <1>0
    <2>2. Upto(G, (Len(F) + b) + 1) = Upto(G, Len(F) + b) + G[(Len(F) + b) + 1]  BY <2>1, UptoRec
    <2>3. Upto(G, Len(F)) \in Nat  BY <2>1, UptoNat
    <2>4. G[Len(F) + (b + 1)] = 1  BY <2>1
    <2>5. Upto(G, Len(F) + b) = Upto(G, Len(F)) + b  BY <1>4
    <2>6. Upto(G, Len(F) + (b + 1)) = Upto(G, Len(F)) + (b + 1)  BY <2>1, <2>2, <2>3, <2>4, <2>5
    <2>7. b + 1 \in 0 .. n  BY <2>1
    <2> QED BY <2>6, <2>7
  <1> HIDE DEF T, U
  <1>5. Len(F) \in T
    <2>1. \A k \in 0 .. Len(F) : k \in T  BY <1>0, <1>1, <1>2, InductionTo
    <2> QED BY <1>0, <2>1
  <1>6. n \in U
    <2>1. \A b \in 0 .. n : b \in U  BY <1>3, <1>4, InductionTo
    <2> QED BY <2>1
  <1>7. Upto(G, Len(F)) = Sum(F) + 1 /\ Upto(G, Len(G)) = Upto(G, Len(F)) + n
    <2>1. Upto(G, Len(F)) = Upto(F, Len(F)) + 1  BY <1>0, <1>5 DEF T
    <2>2. Upto(F, Len(F)) = Sum(F)  BY UptoRec
    <2>3. Upto(G, Len(F) + n) = Upto(G, Len(F)) + n  BY <1>6 DEF U
    <2> QED BY <2>1, <2>2, <2>3
  <1>8. Upto(G, Len(G)) = Sum(G) /\ Sum(F) \in Nat  BY UptoRec, UptoNat
  <1> QED BY <1>7, <1>8

\* No more places are filled than the lists have.
LEMMA SumBounded ==
  ASSUME NEW F \in Seq(Nat), NEW b \in Nat, Len(F) >= 1, F[1] <= b + 1,
         \A l \in 1 .. Len(F) : l # 1 => F[l] <= b
  PROVE  Sum(F) <= Len(F) * b + 1
  <1> DEFINE T == {k \in 0 .. Len(F) : k >= 1 => Upto(F, k) <= k * b + 1}
  <1>0. Len(F) \in Nat  OBVIOUS
  <1>1. 0 \in T  OBVIOUS
  <1>2. ASSUME NEW k \in 0 .. Len(F) - 1, k \in T PROVE k + 1 \in T
    <2>1. k \in 0 .. Len(F) /\ k + 1 \in 1 .. Len(F) /\ k + 1 \in 0 .. Len(F)  BY <1>0
    <2>2. Upto(F, k + 1) = Upto(F, k) + F[k + 1] /\ Upto(F, 0) = 0  BY UptoRec
    <2>3. Upto(F, k) \in Nat /\ F[k + 1] \in Nat  BY <2>1, UptoNat
    <2>4. CASE k = 0
      <3>1. Upto(F, k + 1) <= b + 1  BY <2>2, <2>3, <2>4
      <3>2. (k + 1) * b = b  BY <2>4
      <3> QED BY <2>1, <3>1, <3>2
    <2>5. CASE k # 0
      <3>1. Upto(F, k) <= k * b + 1 /\ F[k + 1] <= b  BY <1>2, <2>1, <2>5
      <3>2. (k + 1) * b = k * b + b /\ k * b \in Nat
        <4>1. k \in Nat  OBVIOUS
        <4> QED BY <4>1
      <3> DEFINE p == k * b
      <3>3. Upto(F, k) <= p + 1 /\ p \in Nat /\ (k + 1) * b = p + b  BY <3>1, <3>2
      <3> HIDE DEF p
      <3>4. Upto(F, k + 1) <= (p + b) + 1  BY <2>2, <2>3, <3>1, <3>3
      <3> QED BY <2>1, <3>3, <3>4
    <2> QED BY <2>4, <2>5
  <1> HIDE DEF T
  <1>3. Len(F) \in T
    <2>1. \A k \in 0 .. Len(F) : k \in T  BY <1>0, <1>1, <1>2, InductionTo
    <2> QED BY <1>0, <2>1
  <1>4. Upto(F, Len(F)) = Sum(F)  BY UptoRec
  <1> QED BY <1>3, <1>4 DEF T

-----------------------------------------------------------------------------
(***************************************************************************)
(* A DAG while it is built                                                  *)
(***************************************************************************)
NodeType == [function : Int, depth : Int, branches : Seq(Nat)]

\* The depth of place k of list l: all lists reach down to the last stage.
DepthAt(L, d, l, k) == (d - Len(L[l])) + (k - 1)

\* List l of L is filled up to place F[l].
Filled(L, F, d) ==
  /\ L \in Seq(Seq(NodeType)) /\ F \in Seq(Nat) /\ Len(F) = Len(L) /\ Len(L) >= 1 /\ Len(L[1]) = d
  /\ \A l \in 1 .. Len(L) : F[l] \in 1 .. Len(L[l]) /\ (l # 1 => Len(L[l]) <= d - 1)
  /\ \A l \in 1 .. Len(L) : \A k \in 1 .. Len(L[l]) :
       IF k <= F[l] THEN L[l][k].depth = DepthAt(L, d, l, k)
       ELSE L[l][k].depth = -1 /\ L[l][k].function = -1

\* The functions from base to f - 1 are used, no one twice.
Used(L, F, base, f) ==
  /\ base \in Nat /\ f \in Nat /\ Sum(F) = f - base
  /\ \A l \in 1 .. Len(L) : \A k \in 1 .. F[l] : L[l][k].function \in base .. f - 1
  /\ \A l, m \in 1 .. Len(L) : \A k \in 1 .. F[l] : \A j \in 1 .. F[m] :
       L[l][k].function = L[m][j].function => l = m /\ k = j

\* The queue.
EntryDepth(q, L, d, i) == DepthAt(L, d, q[i][1], q[i][2])
Queued(q, L, F, d) ==
  /\ q \in Seq(Nat \X Nat)
  /\ \A i \in 1 .. Len(q) : q[i][1] \in 1 .. Len(L) /\ q[i][2] = F[q[i][1]]
  /\ \A i, j \in 1 .. Len(q) : q[i][1] = q[j][1] => i = j
  /\ \A l \in 1 .. Len(L) : F[l] < Len(L[l]) => \E i \in 1 .. Len(q) : q[i][1] = l
  /\ \A i, j \in 1 .. Len(q) : i <= j =>
       EntryDepth(q, L, d, i) <= EntryDepth(q, L, d, j) /\ EntryDepth(q, L, d, j) <= EntryDepth(q, L, d, i) + 1

\* The lists that reach stage x, and what the stages lack.
Started(L, d, x) == {l \in 1 .. Len(L) : d - Len(L[l]) < x}
Lacking(wl, st, L, q, w, d) ==
  /\ wl \in [1 .. d -> Nat] /\ st \in [1 .. d -> Nat] /\ st[d] = w
  /\ \A x \in 1 .. d : wl[x] <= st[x] /\ st[x] <= w
  /\ \A x \in 1 .. d : Cardinality(Started(L, d, x)) = st[x] - wl[x]
  /\ q = <<>> => \A x \in 1 .. d : wl[x] = 0
  /\ q # <<>> => /\ \A x \in 1 .. d : x <= EntryDepth(q, L, d, 1) + 1 => wl[x] = 0
                 /\ \A x, y \in 1 .. d : EntryDepth(q, L, d, 1) + 2 <= x /\ x <= y => wl[x] <= wl[y]

-----------------------------------------------------------------------------
(***************************************************************************)
(* One step of it: the head <<l, k>> of the queue, at depth h, gets a child *)
(* and n branches.                                                          *)
(***************************************************************************)
Grown(L, M, d, l, k, h, n, f) ==
  /\ M \in Seq(Seq(NodeType)) /\ Len(M) = Len(L) + n
  /\ \A m \in 1 .. Len(L) : Len(M[m]) = Len(L[m]) /\ (m # l => M[m] = L[m])
  /\ \A j \in 1 .. Len(L[l]) :
       j # k + 1 => M[l][j].depth = L[l][j].depth /\ M[l][j].function = L[l][j].function
  /\ M[l][k + 1].depth = h + 1 /\ M[l][k + 1].function = f
  /\ \A b \in 1 .. n : /\ Len(M[Len(L) + b]) = d - (h + 1)
                       /\ M[Len(L) + b][1].depth = h + 1 /\ M[Len(L) + b][1].function = f + b
                       /\ \A j \in 2 .. d - (h + 1) :
                            M[Len(L) + b][j].depth = -1 /\ M[Len(L) + b][j].function = -1

Raised(F, G, l, n) ==
  /\ G \in Seq(Nat) /\ Len(G) = Len(F) + n /\ G[l] = F[l] + 1
  /\ \A m \in 1 .. Len(F) : m # l => G[m] = F[m]
  /\ \A b \in 1 .. n : G[Len(F) + b] = 1

Moved(q, p, N, l, k, n) ==
  /\ p \in Seq(Nat \X Nat) /\ Len(p) = Len(q) + n
  /\ \A i \in 1 .. Len(q) - 1 : p[i] = q[i + 1]
  /\ p[Len(q)] = <<l, k + 1>>
  /\ \A b \in 1 .. n : p[Len(q) + b] = <<N + b, 1>>

\* The whole step, from L, F and q to M, G and p.
Stepped(L, M, F, G, d, l, k, h, n, f, q, p) ==
  /\ d \in Nat /\ l \in 1 .. Len(L) /\ k \in Nat /\ h \in Nat /\ n \in Nat /\ f \in Nat
  /\ Filled(L, F, d) /\ Queued(q, L, F, d) /\ q # <<>> /\ q[1][1] = l /\ k = F[l] /\ k < Len(L[l])
  /\ h = DepthAt(L, d, l, k) /\ Grown(L, M, d, l, k, h, n, f) /\ Raised(F, G, l, n)
  /\ Moved(q, p, Len(L), l, k, n)

\* An old list or a new one.
LEMMA OldOrNew ==
  ASSUME NEW N \in Nat, NEW n \in Nat, NEW m \in 1 .. N + n
  PROVE  m \in 1 .. N \/ \E b \in 1 .. n : m = N + b
  <1>1. CASE m <= N  BY <1>1
  <1>2. CASE m > N
    <2>1. m - N \in 1 .. n /\ m = N + (m - N)  BY <1>2
    <2> QED BY <2>1
  <1> QED BY <1>1, <1>2

LEMMA FilledLists ==
  ASSUME NEW L, NEW F, NEW d \in Nat, Filled(L, F, d)
  PROVE  /\ Len(L) \in Nat /\ Len(L) >= 1 /\ Len(F) = Len(L) /\ Len(L[1]) = d /\ F \in Seq(Nat)
         /\ \A l \in 1 .. Len(L) : /\ L[l] \in Seq(NodeType) /\ Len(L[l]) \in Nat /\ F[l] \in Nat
                                   /\ F[l] \in 1 .. Len(L[l]) /\ Len(L[l]) <= d
                                   /\ (l # 1 => Len(L[l]) <= d - 1)
  <1>1. L \in Seq(Seq(NodeType)) /\ F \in Seq(Nat) /\ Len(F) = Len(L) /\ Len(L) >= 1 /\ Len(L[1]) = d
    BY DEF Filled
  <1>2. ASSUME NEW l \in 1 .. Len(L)
        PROVE  /\ L[l] \in Seq(NodeType) /\ Len(L[l]) \in Nat /\ F[l] \in Nat
               /\ F[l] \in 1 .. Len(L[l]) /\ Len(L[l]) <= d /\ (l # 1 => Len(L[l]) <= d - 1)
    <2>1. L[l] \in Seq(NodeType)  BY <1>1
    <2>2. Len(L[l]) \in Nat  BY <2>1
    <2>3. F[l] \in 1 .. Len(L[l]) /\ (l # 1 => Len(L[l]) <= d - 1)  BY DEF Filled
    <2> QED BY <1>1, <2>1, <2>2, <2>3
  <1> QED BY <1>1, <1>2

LEMMA FilledStep ==
  ASSUME NEW L, NEW M, NEW F, NEW G, NEW d, NEW l, NEW k, NEW h, NEW n, NEW f, NEW q, NEW p,
         Stepped(L, M, F, G, d, l, k, h, n, f, q, p)
  PROVE  Filled(M, G, d)
  <1> SUFFICES ASSUME d \in Nat, l \in 1 .. Len(L), k \in Nat, h \in Nat, n \in Nat, f \in Nat, Filled(L, F, d), k = F[l], k < Len(L[l]),
                      h = DepthAt(L, d, l, k), Grown(L, M, d, l, k, h, n, f), Raised(F, G, l, n)
               PROVE  Filled(M, G, d)
    BY DEF Stepped
  <1> DEFINE N == Len(L)
  <1>1. /\ N \in Nat /\ N >= 1 /\ Len(F) = N /\ Len(L[1]) = d
        /\ \A m \in 1 .. N : /\ Len(L[m]) \in Nat /\ F[m] \in Nat /\ F[m] \in 1 .. Len(L[m]) /\ Len(L[m]) <= d
                             /\ (m # 1 => Len(L[m]) <= d - 1)
    BY FilledLists
  <1>2. /\ M \in Seq(Seq(NodeType)) /\ Len(M) = N + n
        /\ \A m \in 1 .. N : Len(M[m]) = Len(L[m]) /\ (m # l => M[m] = L[m])
        /\ \A j \in 1 .. Len(L[l]) : j # k + 1 => M[l][j].depth = L[l][j].depth /\ M[l][j].function = L[l][j].function
        /\ M[l][k + 1].depth = h + 1 /\ M[l][k + 1].function = f
    BY DEF Grown
  <1>3. \A b \in 1 .. n : /\ Len(M[N + b]) = d - (h + 1)
                          /\ M[N + b][1].depth = h + 1 /\ M[N + b][1].function = f + b
                          /\ \A j \in 2 .. d - (h + 1) : M[N + b][j].depth = -1 /\ M[N + b][j].function = -1
    BY DEF Grown
  <1>4. /\ G \in Seq(Nat) /\ Len(G) = N + n /\ G[l] = F[l] + 1
        /\ \A m \in 1 .. N : m # l => G[m] = F[m]
        /\ \A b \in 1 .. n : G[N + b] = 1
    BY <1>1 DEF Raised
  <1>5. /\ k \in Nat /\ k >= 1 /\ k < Len(L[l]) /\ Len(L[l]) \in Nat /\ Len(L[l]) <= d
        /\ d \in Nat /\ h \in Nat /\ k = F[l]
    BY <1>1
  <1>10. h = (d - Len(L[l])) + (k - 1)  BY DEF DepthAt
  <1>11. h + 1 <= d - 1
    <2> DEFINE z == Len(L[l])
    <2>1. k \in Nat /\ k < z /\ z \in Nat /\ d \in Nat /\ h = (d - z) + (k - 1)  BY <1>5, <1>10
    <2> HIDE DEF z
    <2> QED BY ONLY <2>1
  <1>6. \A m \in 1 .. N : \A j \in 1 .. Len(L[m]) :
          IF j <= F[m] THEN L[m][j].depth = (d - Len(L[m])) + (j - 1)
          ELSE L[m][j].depth = -1 /\ L[m][j].function = -1
    BY DEF Filled, DepthAt
  <1> HIDE DEF N
  <1>7. Len(M) >= 1 /\ Len(M[1]) = d
    <2>1. 1 \in 1 .. N /\ N + n >= 1  BY <1>1
    <2>2. Len(M[1]) = Len(L[1])  BY <1>2, <2>1
    <2> QED BY <1>1, <1>2, <2>1, <2>2
  <1>8. ASSUME NEW m \in 1 .. N + n PROVE G[m] \in 1 .. Len(M[m]) /\ (m # 1 => Len(M[m]) <= d - 1)
    <2>1. CASE m \in 1 .. N /\ m # l
      BY <1>1, <1>2, <1>4, <2>1
    <2>2. CASE m = l
      <3>1. l \in 1 .. N  BY DEF N
      <3>2. Len(M[l]) = Len(L[l]) /\ G[l] = k + 1 /\ (l # 1 => Len(L[l]) <= d - 1)  BY <1>1, <1>2, <1>4, <3>1
      <3>3. k + 1 \in 1 .. Len(L[l])  BY ONLY <1>5
      <3> QED BY ONLY <2>2, <3>2, <3>3
    <2>3. ASSUME NEW b \in 1 .. n, m = N + b PROVE G[m] \in 1 .. Len(M[m]) /\ (m # 1 => Len(M[m]) <= d - 1)
      <3>1. G[m] = 1 /\ Len(M[m]) = d - (h + 1)  BY <1>3, <1>4, <2>3
      <3>2. 1 \in 1 .. d - (h + 1) /\ d - (h + 1) <= d - 1  BY ONLY <1>5, <1>11
      <3> QED BY ONLY <3>1, <3>2
    <2>4. m \in 1 .. N \/ \E b \in 1 .. n : m = N + b  BY <1>1, OldOrNew
    <2> QED BY <2>1, <2>2, <2>3, <2>4
  <1>9. ASSUME NEW m \in 1 .. N + n, NEW j \in 1 .. Len(M[m])
        PROVE  IF j <= G[m] THEN M[m][j].depth = (d - Len(M[m])) + (j - 1)
               ELSE M[m][j].depth = -1 /\ M[m][j].function = -1
    <2>1. CASE m \in 1 .. N /\ m # l
      <3>1. M[m] = L[m] /\ G[m] = F[m] /\ j \in 1 .. Len(L[m])  BY <1>2, <1>4, <2>1
      <3>2. IF j <= F[m] THEN L[m][j].depth = (d - Len(L[m])) + (j - 1)
            ELSE L[m][j].depth = -1 /\ L[m][j].function = -1
        BY <1>6, <2>1, <3>1
      <3> QED BY ONLY <3>1, <3>2
    <2>2. CASE m = l
      <3>0. l \in 1 .. N  BY DEF N
      <3>1. Len(M[m]) = Len(L[l]) /\ G[m] = k + 1 /\ j \in 1 .. Len(L[l])  BY <1>2, <1>4, <2>2, <3>0
      <3>2. CASE j = k + 1
        <4>1. M[m][j].depth = h + 1  BY <1>2, <2>2, <3>2
        <4> DEFINE z == Len(L[l])
        <4>2. k \in Nat /\ z \in Nat /\ d \in Nat /\ h = (d - z) + (k - 1)  BY <1>5, <1>10
        <4> HIDE DEF z
        <4>3. h + 1 = (d - z) + ((k + 1) - 1) /\ k + 1 <= k + 1  BY ONLY <4>2
        <4> QED BY ONLY <3>1, <3>2, <4>1, <4>3 DEF z
      <3>3. CASE j # k + 1
        <4>1. M[m][j].depth = L[l][j].depth /\ M[m][j].function = L[l][j].function  BY <1>2, <2>2, <3>1, <3>3
        <4>2. IF j <= F[l] THEN L[l][j].depth = (d - Len(L[l])) + (j - 1)
              ELSE L[l][j].depth = -1 /\ L[l][j].function = -1
          BY <1>6, <3>0, <3>1
        <4>3. j <= F[l] <=> j <= k + 1
          <5>1. j \in Int  BY <3>1
          <5> QED BY ONLY <1>5, <3>3, <5>1
        <4> QED BY <3>1, <4>1, <4>2, <4>3
      <3> QED BY <3>2, <3>3
    <2>3. ASSUME NEW b \in 1 .. n, m = N + b
          PROVE  IF j <= G[m] THEN M[m][j].depth = (d - Len(M[m])) + (j - 1)
                 ELSE M[m][j].depth = -1 /\ M[m][j].function = -1
      <3>1. G[m] = 1 /\ Len(M[m]) = d - (h + 1) /\ M[m][1].depth = h + 1
            /\ \A i \in 2 .. d - (h + 1) : M[m][i].depth = -1 /\ M[m][i].function = -1
        BY <1>3, <1>4, <2>3
      <3>2. CASE j = 1
        <4>1. h + 1 = (d - (d - (h + 1))) + (1 - 1)  BY ONLY <1>5
        <4> QED BY ONLY <3>1, <3>2, <4>1
      <3>3. CASE j # 1
        <4>0. j \in 1 .. d - (h + 1)  BY <3>1
        <4>1. j \in 2 .. d - (h + 1) /\ ~(j <= 1)  BY ONLY <1>5, <3>3, <4>0
        <4> QED BY <3>1, <4>1
      <3> QED BY <3>2, <3>3
    <2>4. m \in 1 .. N \/ \E b \in 1 .. n : m = N + b  BY <1>1, OldOrNew
    <2> QED BY <2>1, <2>2, <2>3, <2>4
  <1> QED BY <1>2, <1>4, <1>7, <1>8, <1>9 DEF Filled, DepthAt

LEMMA UsedStep ==
  ASSUME NEW L, NEW M, NEW F, NEW G, NEW d, NEW l, NEW k, NEW h, NEW n, NEW f, NEW q, NEW r, NEW base,
         Stepped(L, M, F, G, d, l, k, h, n, f, q, r), Used(L, F, base, f)
  PROVE  Used(M, G, base, f + 1 + n)
  <1> SUFFICES ASSUME d \in Nat, l \in 1 .. Len(L), k \in Nat, h \in Nat, n \in Nat, f \in Nat, Filled(L, F, d), k = F[l], k < Len(L[l]),
                      Grown(L, M, d, l, k, h, n, f), Raised(F, G, l, n)
               PROVE  Used(M, G, base, f + 1 + n)
    BY DEF Stepped
  <1> DEFINE N == Len(L)
  <1>1. /\ N \in Nat /\ Len(F) = N /\ F \in Seq(Nat) /\ l \in 1 .. N
        /\ \A m \in 1 .. N : Len(L[m]) \in Nat /\ F[m] \in Nat /\ F[m] \in 1 .. Len(L[m])
    BY FilledLists
  <1>2. /\ Len(M) = N + n
        /\ \A m \in 1 .. N : m # l => M[m] = L[m]
        /\ \A j \in 1 .. Len(L[l]) : j # k + 1 => M[l][j].function = L[l][j].function
        /\ M[l][k + 1].function = f
        /\ \A b \in 1 .. n : M[N + b][1].function = f + b
    BY DEF Grown
  <1>3. /\ G \in Seq(Nat) /\ Len(G) = N + n /\ G[l] = k + 1
        /\ \A m \in 1 .. N : m # l => G[m] = F[m]
        /\ \A b \in 1 .. n : G[N + b] = 1
    BY <1>1 DEF Raised
  <1>4. /\ base \in Nat /\ f \in Nat /\ Sum(F) = f - base
        /\ \A m \in 1 .. N : \A j \in 1 .. F[m] : L[m][j].function \in base .. f - 1
        /\ \A m, p \in 1 .. N : \A i \in 1 .. F[m] : \A j \in 1 .. F[p] :
             L[m][i].function = L[p][j].function => m = p /\ i = j
    BY DEF Used
  <1>5. Sum(G) = Sum(F) + 1 + n
    <2>1. /\ G \in Seq(Nat) /\ Len(G) = Len(F) + n /\ G[l] = F[l] + 1
          /\ \A m \in 1 .. Len(F) : m # l => G[m] = F[m]
          /\ \A b \in 1 .. n : G[Len(F) + b] = 1
      BY DEF Raised
    <2>2. l \in 1 .. Len(F)  BY <1>1
    <2> QED BY <1>1, <2>1, <2>2, SumFilled
  <1>6. k \in Nat /\ k = F[l] /\ k < Len(L[l]) /\ Len(L[l]) \in Nat /\ n \in Nat /\ f \in Nat  BY <1>1
  <1> HIDE DEF N
  <1> DEFINE Old(m, j) == m \in 1 .. N /\ j \in 1 .. F[m] /\ M[m][j].function = L[m][j].function
             Child(m, j) == m = l /\ j = k + 1 /\ M[m][j].function = f
             Branch(m, j) == j = 1 /\ \E b \in 1 .. n : m = N + b /\ M[m][j].function = f + b
  <1>7. ASSUME NEW m \in 1 .. N + n, NEW j \in 1 .. G[m]
        PROVE  Old(m, j) \/ Child(m, j) \/ Branch(m, j)
    <2>1. CASE m \in 1 .. N /\ m # l
      <3>1. M[m] = L[m] /\ G[m] = F[m]  BY <1>2, <1>3, <2>1
      <3> QED BY <2>1, <3>1
    <2>2. CASE m = l /\ j = k + 1  BY <1>2, <2>2
    <2>3. CASE m = l /\ j # k + 1
      <3>1. j \in 1 .. k + 1  BY <1>3, <2>3
      <3>2. j \in 1 .. k /\ j \in 1 .. Len(L[l])  BY ONLY <1>6, <2>3, <3>1
      <3>3. M[l][j].function = L[l][j].function  BY <1>2, <2>3, <3>2
      <3> QED BY <1>1, <1>6, <2>3, <3>2, <3>3
    <2>4. ASSUME NEW b \in 1 .. n, m = N + b PROVE Branch(m, j)
      <3>1. G[m] = 1 /\ M[m][1].function = f + b  BY <1>2, <1>3, <2>4
      <3>2. j = 1  BY <3>1
      <3> QED BY <2>4, <3>1, <3>2
    <2>5. m \in 1 .. N \/ \E b \in 1 .. n : m = N + b  BY <1>1, OldOrNew
    <2> QED BY <2>1, <2>2, <2>3, <2>4, <2>5
  <1>8. ASSUME NEW m, NEW j
        PROVE  /\ Old(m, j) => M[m][j].function \in base .. f - 1
               /\ Child(m, j) => M[m][j].function = f
               /\ Branch(m, j) => \E b \in 1 .. n : m = N + b /\ M[m][j].function = f + b
    BY <1>4
  <1>9. ASSUME NEW m, NEW j, Old(m, j) \/ Child(m, j) \/ Branch(m, j)
        PROVE  M[m][j].function \in base .. (f + 1 + n) - 1
    <2>0. f - base \in Nat
      <3>1. Sum(F) \in Nat  BY <1>1, UptoNat
      <3> QED BY <1>4, <3>1
    <2>1. CASE Old(m, j)
      <3>1. M[m][j].function \in base .. f - 1  BY <1>8, <2>1
      <3> QED BY ONLY <1>4, <1>6, <3>1
    <2>2. CASE Child(m, j)
      <3>1. M[m][j].function = f  BY <2>2
      <3>2. f \in base .. (f + 1 + n) - 1  BY ONLY <1>4, <1>6, <2>0
      <3> QED BY <3>1, <3>2
    <2>3. CASE Branch(m, j)
      <3>1. PICK b \in 1 .. n : M[m][j].function = f + b  BY <2>3
      <3>2. b \in 1 .. n  OBVIOUS
      <3>3. f + b \in base .. (f + 1 + n) - 1  BY ONLY <1>4, <1>6, <2>0, <3>2
      <3> QED BY <3>1, <3>3
    <2> QED BY <1>9, <2>1, <2>2, <2>3
  <1>10. ASSUME NEW m, NEW i, NEW p, NEW j, M[m][i].function = M[p][j].function,
                Old(m, i) \/ Child(m, i) \/ Branch(m, i), Old(p, j) \/ Child(p, j) \/ Branch(p, j)
         PROVE  m = p /\ i = j
    <2>1. CASE Old(m, i) /\ Old(p, j)
      <3>1. m \in 1 .. N /\ i \in 1 .. F[m] /\ p \in 1 .. N /\ j \in 1 .. F[p]  BY <2>1
      <3>2. L[m][i].function = L[p][j].function  BY <1>10, <2>1
      <3> QED BY ONLY <1>4, <3>1, <3>2
    <2>2. ASSUME NEW a, NEW b, NEW x, NEW y, M[a][x].function = M[b][y].function, Old(a, x),
                 Child(b, y) \/ Branch(b, y)
          PROVE  FALSE
      <3>1. M[a][x].function \in base .. f - 1  BY <1>8, <2>2
      <3>2. CASE Child(b, y)
        <4>1. M[a][x].function = f  BY <2>2, <3>2
        <4>2. f \in base .. f - 1  BY <3>1, <4>1
        <4> QED BY ONLY <1>4, <4>2
      <3>3. CASE Branch(b, y)
        <4>1. PICK c \in 1 .. n : M[b][y].function = f + c  BY <3>3
        <4>2. f + c \in base .. f - 1 /\ c \in 1 .. n  BY <2>2, <3>1, <4>1
        <4> QED BY ONLY <1>4, <1>6, <4>2
      <3> QED BY <2>2, <3>2, <3>3
    <2>3. CASE Child(m, i) /\ Child(p, j)  BY <2>3
    <2>4. ASSUME NEW a, NEW b, NEW x, NEW y, M[a][x].function = M[b][y].function, Child(a, x), Branch(b, y)
          PROVE  FALSE
      <3>1. PICK c \in 1 .. n : M[b][y].function = f + c  BY <2>4
      <3>2. f = f + c /\ c \in 1 .. n  BY <2>4, <3>1
      <3> QED BY ONLY <1>6, <3>2
    <2>5. CASE Branch(m, i) /\ Branch(p, j)
      <3>1. PICK b \in 1 .. n : m = N + b /\ M[m][i].function = f + b  BY <2>5
      <3>2. PICK c \in 1 .. n : p = N + c /\ M[p][j].function = f + c  BY <2>5
      <3>3. f + b = f + c /\ b \in 1 .. n /\ c \in 1 .. n  BY <1>10, <3>1, <3>2
      <3>4. b = c  BY ONLY <1>6, <3>3
      <3> QED BY <2>5, <3>1, <3>2, <3>4
    <2> HIDE DEF Old, Child, Branch
    <2>6. Child(m, i) \/ Branch(m, i) => ~Old(p, j)  BY <1>10, <2>2
    <2>7. Old(m, i) => ~(Child(p, j) \/ Branch(p, j))  BY <1>10, <2>2
    <2>8. Child(m, i) => ~Branch(p, j)  BY <1>10, <2>4
    <2>9. Branch(m, i) => ~Child(p, j)  BY <1>10, <2>4
    <2> QED BY <1>10, <2>1, <2>3, <2>5, <2>6, <2>7, <2>8, <2>9
  <1> HIDE DEF Old, Child, Branch
  <1>11. \A m \in 1 .. Len(M) : \A j \in 1 .. G[m] : M[m][j].function \in base .. (f + 1 + n) - 1
    BY <1>2, <1>7, <1>9
  <1>12. \A m, p \in 1 .. Len(M) : \A i \in 1 .. G[m] : \A j \in 1 .. G[p] :
           M[m][i].function = M[p][j].function => m = p /\ i = j
    BY <1>2, <1>7, <1>10
  <1>13. f + 1 + n \in Nat /\ Sum(G) = (f + 1 + n) - base
    <2>1. Sum(F) + 1 + n = (f + 1 + n) - base  BY ONLY <1>4, <1>6
    <2> QED BY <1>5, <1>6, <2>1
  <1> QED BY <1>4, <1>11, <1>12, <1>13 DEF Used

\* The entries of the queue afterwards: old ones, the child, the branches.
LEMMA MovedEntries ==
  ASSUME NEW L, NEW M, NEW F, NEW G, NEW d, NEW l, NEW k, NEW h, NEW n, NEW f, NEW q, NEW p,
         Stepped(L, M, F, G, d, l, k, h, n, f, q, p)
  PROVE  /\ Len(q) \in Nat /\ Len(q) >= 1 /\ Len(p) = Len(q) + n
         /\ \A i \in 1 .. Len(q) - 1 :
              /\ i + 1 \in 1 .. Len(q) /\ p[i][1] = q[i + 1][1] /\ p[i][1] \in 1 .. Len(L) /\ p[i][1] # l
              /\ p[i][2] = G[p[i][1]]
              /\ EntryDepth(p, M, d, i) = EntryDepth(q, L, d, i + 1)
              /\ EntryDepth(p, M, d, i) \in h .. h + 1
         /\ p[Len(q)][1] = l /\ p[Len(q)][2] = G[l] /\ EntryDepth(p, M, d, Len(q)) = h + 1
         /\ \A b \in 1 .. n : /\ p[Len(q) + b][1] = Len(L) + b /\ p[Len(q) + b][2] = G[Len(L) + b]
                              /\ EntryDepth(p, M, d, Len(q) + b) = h + 1
  <1> SUFFICES ASSUME d \in Nat, l \in 1 .. Len(L), k \in Nat, h \in Nat, n \in Nat, f \in Nat, Filled(L, F, d), k = F[l], k < Len(L[l]),
                      Queued(q, L, F, d), q # <<>>, q[1][1] = l, h = DepthAt(L, d, l, k),
                      Grown(L, M, d, l, k, h, n, f), Raised(F, G, l, n), Moved(q, p, Len(L), l, k, n)
               PROVE  /\ Len(q) \in Nat /\ Len(q) >= 1 /\ Len(p) = Len(q) + n
                      /\ \A i \in 1 .. Len(q) - 1 :
                           /\ i + 1 \in 1 .. Len(q) /\ p[i][1] = q[i + 1][1] /\ p[i][1] \in 1 .. Len(L) /\ p[i][1] # l
                           /\ p[i][2] = G[p[i][1]]
                           /\ EntryDepth(p, M, d, i) = EntryDepth(q, L, d, i + 1)
                           /\ EntryDepth(p, M, d, i) \in h .. h + 1
                      /\ p[Len(q)][1] = l /\ p[Len(q)][2] = G[l] /\ EntryDepth(p, M, d, Len(q)) = h + 1
                      /\ \A b \in 1 .. n : /\ p[Len(q) + b][1] = Len(L) + b /\ p[Len(q) + b][2] = G[Len(L) + b]
                                           /\ EntryDepth(p, M, d, Len(q) + b) = h + 1
    BY DEF Stepped
  <1> DEFINE N == Len(L)
             A == Len(q)
  <1>1. /\ N \in Nat /\ Len(F) = N
        /\ \A m \in 1 .. N : Len(L[m]) \in Nat /\ F[m] \in Nat /\ Len(L[m]) <= d
    BY FilledLists
  <1>2. /\ Len(M) = N + n
        /\ \A m \in 1 .. N : Len(M[m]) = Len(L[m])
        /\ \A b \in 1 .. n : Len(M[N + b]) = d - (h + 1)
    BY DEF Grown
  <1>3. /\ G[l] = k + 1
        /\ \A m \in 1 .. N : m # l => G[m] = F[m]
        /\ \A b \in 1 .. n : G[N + b] = 1
    BY <1>1 DEF Raised
  <1>4. /\ q \in Seq(Nat \X Nat)
        /\ \A i \in 1 .. A : q[i][1] \in 1 .. N /\ q[i][2] = F[q[i][1]]
        /\ \A i, j \in 1 .. A : q[i][1] = q[j][1] => i = j
        /\ \A i, j \in 1 .. A : i <= j =>
             EntryDepth(q, L, d, i) <= EntryDepth(q, L, d, j) /\ EntryDepth(q, L, d, j) <= EntryDepth(q, L, d, i) + 1
    BY DEF Queued
  <1>5. A \in Nat /\ A >= 1 /\ 1 \in 1 .. A  BY SMTT(30), <1>4
  <1>6. /\ Len(p) = A + n
        /\ \A i \in 1 .. A - 1 : p[i] = q[i + 1]
        /\ p[A] = <<l, k + 1>>
        /\ \A b \in 1 .. n : p[A + b] = <<N + b, 1>>
    BY DEF Moved
  <1>7. k \in Nat /\ d \in Nat /\ h \in Nat /\ Len(L[l]) \in Nat /\ h = (d - Len(L[l])) + (k - 1)
    BY <1>1 DEF DepthAt
  <1>8. EntryDepth(q, L, d, 1) = h
    <2>1. q[1][2] = k  BY <1>4, <1>5
    <2> QED BY <2>1 DEF EntryDepth
  <1> HIDE DEF N, A
  <1>9. ASSUME NEW i \in 1 .. A - 1
        PROVE  /\ i + 1 \in 1 .. A /\ p[i][1] = q[i + 1][1] /\ p[i][1] \in 1 .. N /\ p[i][1] # l
               /\ p[i][2] = G[p[i][1]]
               /\ EntryDepth(p, M, d, i) = EntryDepth(q, L, d, i + 1)
               /\ EntryDepth(p, M, d, i) \in h .. h + 1
    <2>1. i + 1 \in 1 .. A /\ i + 1 # 1 /\ 1 <= i + 1  BY <1>5
    <2>2. p[i] = q[i + 1]  BY <1>6
    <2>3. q[i + 1][1] \in 1 .. N /\ q[i + 1][2] = F[q[i + 1][1]]  BY <1>4, <2>1
    <2>4. q[i + 1][1] # l  BY <1>4, <1>5, <2>1
    <2>5. Len(M[q[i + 1][1]]) = Len(L[q[i + 1][1]]) /\ G[q[i + 1][1]] = F[q[i + 1][1]]  BY <1>2, <1>3, <2>3, <2>4
    <2>6. EntryDepth(p, M, d, i) = EntryDepth(q, L, d, i + 1)  BY <2>2, <2>5 DEF EntryDepth, DepthAt
    <2> DEFINE x == EntryDepth(q, L, d, i + 1)
    <2>7. h <= x /\ x <= h + 1  BY <1>4, <1>5, <1>8, <2>1
    <2>8. x \in Int
      <3> DEFINE m == q[i + 1][1]
      <3>1. Len(L[m]) \in Nat /\ F[m] \in Nat /\ x = (d - Len(L[m])) + (F[m] - 1)
        BY <1>1, <2>3 DEF EntryDepth, DepthAt
      <3> HIDE DEF m, x
      <3> QED BY <3>1
    <2> HIDE DEF x
    <2>9. x \in h .. h + 1
      <3>1. h \in Nat  OBVIOUS
      <3> QED BY ONLY <2>7, <2>8, <3>1
    <2> QED BY <2>1, <2>2, <2>3, <2>4, <2>5, <2>6, <2>9 DEF x
  <1>10. p[A][1] = l /\ p[A][2] = G[l] /\ EntryDepth(p, M, d, A) = h + 1
    <2>1. p[A][1] = l /\ p[A][2] = k + 1  BY <1>6
    <2>2. l \in 1 .. N  BY DEF N
    <2>3. EntryDepth(p, M, d, A) = (d - Len(L[l])) + ((k + 1) - 1)  BY <1>2, <2>1, <2>2 DEF EntryDepth, DepthAt
    <2> DEFINE z == Len(L[l])
    <2>4. z \in Nat /\ h = (d - z) + (k - 1) /\ k \in Nat /\ d \in Nat  BY <1>7
    <2> HIDE DEF z
    <2>5. (d - z) + ((k + 1) - 1) = h + 1  BY ONLY <2>4
    <2> QED BY <1>3, <2>1, <2>3, <2>5 DEF z
  <1>11. ASSUME NEW b \in 1 .. n
         PROVE  p[A + b][1] = N + b /\ p[A + b][2] = G[N + b] /\ EntryDepth(p, M, d, A + b) = h + 1
    <2>0. b \in 1 .. n  OBVIOUS
    <2>1. p[A + b][1] = N + b /\ p[A + b][2] = 1 /\ G[N + b] = 1 /\ Len(M[N + b]) = d - (h + 1)
      BY ONLY <1>2, <1>3, <1>6, <2>0
    <2>2. EntryDepth(p, M, d, A + b) = (d - (d - (h + 1))) + (1 - 1)  BY <2>1 DEF EntryDepth, DepthAt
    <2>3. (d - (d - (h + 1))) + (1 - 1) = h + 1  BY ONLY <1>7
    <2> QED BY <2>1, <2>2, <2>3
  <1> QED BY <1>5, <1>6, <1>9, <1>10, <1>11 DEF N, A

LEMMA QueuedStep ==
  ASSUME NEW L, NEW M, NEW F, NEW G, NEW d, NEW l, NEW k, NEW h, NEW n, NEW f, NEW q, NEW p,
         Stepped(L, M, F, G, d, l, k, h, n, f, q, p)
  PROVE  Queued(p, M, G, d)
  <1> DEFINE N == Len(L)
             A == Len(q)
             E1(i) == EntryDepth(q, L, d, i)
             E2(i) == EntryDepth(p, M, d, i)
  <1>1. /\ A \in Nat /\ A >= 1 /\ Len(p) = A + n
        /\ \A i \in 1 .. A - 1 :
             /\ i + 1 \in 1 .. A /\ p[i][1] = q[i + 1][1] /\ p[i][1] \in 1 .. N /\ p[i][1] # l
             /\ p[i][2] = G[p[i][1]] /\ E2(i) = E1(i + 1) /\ E2(i) \in h .. h + 1
        /\ p[A][1] = l /\ p[A][2] = G[l] /\ E2(A) = h + 1
        /\ \A b \in 1 .. n : p[A + b][1] = N + b /\ p[A + b][2] = G[N + b] /\ E2(A + b) = h + 1
    BY MovedEntries
  <1> SUFFICES ASSUME d \in Nat, l \in 1 .. Len(L), k \in Nat, h \in Nat, n \in Nat, f \in Nat, Filled(L, F, d), k = F[l], k < Len(L[l]),
                      Queued(q, L, F, d), q # <<>>, q[1][1] = l, h = DepthAt(L, d, l, k),
                      Grown(L, M, d, l, k, h, n, f), Raised(F, G, l, n), Moved(q, p, Len(L), l, k, n)
               PROVE  Queued(p, M, G, d)
    BY DEF Stepped
  <1>2. /\ q \in Seq(Nat \X Nat)
        /\ \A i, j \in 1 .. A : q[i][1] = q[j][1] => i = j
        /\ \A m \in 1 .. N : F[m] < Len(L[m]) => \E i \in 1 .. A : q[i][1] = m
        /\ \A i, j \in 1 .. A : i <= j => E1(i) <= E1(j) /\ E1(j) <= E1(i) + 1
    BY DEF Queued
  <1>3. N \in Nat /\ Len(M) = N + n /\ l \in 1 .. N /\ Len(F) = N
    BY FilledLists DEF Grown
  <1>4. /\ \A m \in 1 .. N : Len(M[m]) = Len(L[m])
        /\ \A m \in 1 .. N : m # l => G[m] = F[m]
    BY <1>3 DEF Grown, Raised
  <1>5. p \in Seq(Nat \X Nat)  BY DEF Moved
  <1>6. h \in Nat /\ n \in Nat  OBVIOUS
  <1>60. q[1][1] = l  OBVIOUS
  <1> HIDE DEF N, A, E1, E2
  <1>7. ASSUME NEW i \in 1 .. A + n PROVE i \in 1 .. A - 1 \/ i = A \/ \E b \in 1 .. n : i = A + b
    <2>1. i \in 1 .. A \/ \E b \in 1 .. n : i = A + b  BY <1>1, OldOrNew
    <2>2. i \in 1 .. A => i \in 1 .. A - 1 \/ i = A  BY <1>1
    <2> QED BY <2>1, <2>2
  <1>8. ASSUME NEW i \in 1 .. A + n PROVE p[i][1] \in 1 .. N + n /\ p[i][2] = G[p[i][1]]
    <2>1. CASE i \in 1 .. A - 1
      <3>1. p[i][1] \in 1 .. N /\ p[i][2] = G[p[i][1]]  BY <1>1, <2>1
      <3> QED BY ONLY <1>3, <1>6, <3>1
    <2>2. CASE i = A
      <3>1. l \in 1 .. N + n  BY ONLY <1>3, <1>6
      <3> QED BY <1>1, <2>2, <3>1
    <2>3. ASSUME NEW b \in 1 .. n, i = A + b PROVE p[i][1] \in 1 .. N + n /\ p[i][2] = G[p[i][1]]
      <3>1. b \in 1 .. n  OBVIOUS
      <3>2. N + b \in 1 .. N + n  BY ONLY <1>3, <1>6, <3>1
      <3> QED BY <1>1, <2>3, <3>2
    <2> QED BY <1>7, <2>1, <2>2, <2>3
  <1>9. ASSUME NEW i \in 1 .. A + n, NEW j \in 1 .. A + n, p[i][1] = p[j][1] PROVE i = j
    <2>1. ASSUME NEW x \in 1 .. A + n PROVE x \in 1 .. A - 1 <=> p[x][1] \in 1 .. N /\ p[x][1] # l
      <3>1. CASE x \in 1 .. A - 1  BY <1>1, <3>1
      <3>2. CASE x = A
        <4>1. x \notin 1 .. A - 1  BY ONLY <1>1, <3>2
        <4> QED BY <1>1, <3>2, <4>1
      <3>3. ASSUME NEW b \in 1 .. n, x = A + b PROVE x \notin 1 .. A - 1 /\ p[x][1] \notin 1 .. N
        <4>0. b \in 1 .. n  OBVIOUS
        <4>1. A + b \notin 1 .. A - 1 /\ N + b \notin 1 .. N  BY ONLY <1>1, <1>3, <4>0
        <4> QED BY <1>1, <3>3, <4>1
      <3> QED BY <1>7, <3>1, <3>2, <3>3
    <2>2. CASE i \in 1 .. A - 1 /\ j \in 1 .. A - 1
      <3>1. i + 1 \in 1 .. A /\ j + 1 \in 1 .. A /\ q[i + 1][1] = q[j + 1][1]  BY <1>1, <1>9, <2>2
      <3>2. i + 1 = j + 1  BY <1>2, <3>1
      <3> QED BY <3>2
    <2>3. CASE i \notin 1 .. A - 1 /\ j \notin 1 .. A - 1
      <3>1. ASSUME NEW x \in 1 .. A + n, x \notin 1 .. A - 1 
            PROVE  (p[x][1] = l /\ x = A) \/ (p[x][1] = N + (x - A) /\ x # A)
        <4>1. CASE x = A  BY <1>1, <4>1
        <4>2. ASSUME NEW b \in 1 .. n, x = A + b PROVE p[x][1] = N + (x - A) /\ x # A
          <5>1. b = x - A /\ x # A  BY <1>1, <4>2
          <5> QED BY <1>1, <4>2, <5>1
        <4> QED BY <1>7, <3>1, <4>1, <4>2
      <3>2. ASSUME NEW x \in 1 .. A + n, x \notin 1 .. A - 1 PROVE x >= A /\ x \in Int  BY SMTT(30), <1>1, <3>2
      <3>3. ASSUME NEW x \in 1 .. A + n, x >= A, x # A PROVE N + (x - A) # l
        <4>1. x \in Int /\ x >= A /\ x # A  BY <3>3
        <4> QED BY ONLY <1>1, <1>3, <4>1
      <3>4. ASSUME N + (i - A) = N + (j - A) PROVE i = j
        <4>1. i \in Int /\ j \in Int  OBVIOUS
        <4> QED BY ONLY <1>1, <1>3, <3>4, <4>1
      <3> QED BY <1>9, <2>3, <3>1, <3>2, <3>3, <3>4
    <2> QED BY <1>9, <2>1, <2>2, <2>3
  <1>10. ASSUME NEW m \in 1 .. N + n, G[m] < Len(M[m]) PROVE \E i \in 1 .. A + n : p[i][1] = m
    <2>1. CASE m = l
      <3>1. A \in 1 .. A + n  BY ONLY <1>1, <1>6
      <3> QED BY <1>1, <2>1, <3>1
    <2>2. CASE m \in 1 .. N /\ m # l
      <3>1. F[m] < Len(L[m])  BY <1>4, <1>10, <2>2
      <3>2. PICK i \in 1 .. A : q[i][1] = m  BY <1>2, <2>2, <3>1
      <3>3. i # 1  BY <1>60, <2>2, <3>2
      <3>4. i - 1 \in 1 .. A - 1 /\ i - 1 \in 1 .. A + n /\ (i - 1) + 1 = i  BY <1>1, <1>6, <3>3
      <3>5. p[i - 1][1] = q[(i - 1) + 1][1]  BY <1>1, <3>4
      <3> QED BY <3>2, <3>4, <3>5
    <2>3. ASSUME NEW b \in 1 .. n, m = N + b PROVE \E i \in 1 .. A + n : p[i][1] = m
      <3>1. b \in 1 .. n  OBVIOUS
      <3>2. A + b \in 1 .. A + n  BY ONLY <1>1, <1>6, <3>1
      <3> QED BY <1>1, <2>3, <3>2
    <2>4. m \in 1 .. N \/ \E b \in 1 .. n : m = N + b  BY <1>3, OldOrNew
    <2> QED BY <2>1, <2>2, <2>3, <2>4
  <1>11. ASSUME NEW i \in 1 .. A + n, NEW j \in 1 .. A + n, i <= j
         PROVE  E2(i) <= E2(j) /\ E2(j) <= E2(i) + 1
    <2>1. ASSUME NEW x \in 1 .. A + n, x \notin 1 .. A - 1 PROVE E2(x) = h + 1
      <3>1. CASE x = A  BY <1>1, <3>1
      <3>2. ASSUME NEW b \in 1 .. n, x = A + b PROVE E2(x) = h + 1  BY <1>1, <3>2
      <3> QED BY <1>7, <2>1, <3>1, <3>2
    <2>2. ASSUME NEW x \in 1 .. A + n PROVE E2(x) \in h .. h + 1
      <3>1. h + 1 \in h .. h + 1  BY ONLY <1>6
      <3> QED BY <1>1, <2>1, <3>1
    <2>3. CASE i \in 1 .. A - 1 /\ j \in 1 .. A - 1
      <3>1. E2(i) = E1(i + 1) /\ E2(j) = E1(j + 1) /\ i + 1 \in 1 .. A /\ j + 1 \in 1 .. A  BY <1>1, <2>3
      <3>2. i + 1 <= j + 1  BY <1>11
      <3> QED BY <1>2, <3>1, <3>2
    <2>4. CASE j \notin 1 .. A - 1
      <3>1. E2(j) = h + 1 /\ E2(i) \in h .. h + 1  BY <2>1, <2>2, <2>4
      <3> QED BY ONLY <1>6, <3>1
    <2>5. CASE i \notin 1 .. A - 1
      <3>1. i \in 1 .. A + n /\ j \in 1 .. A + n  OBVIOUS
      <3>2. j \notin 1 .. A - 1  BY ONLY <1>1, <1>6, <1>11, <2>5, <3>1
      <3> QED BY <2>4, <3>2
    <2> QED BY <2>3, <2>4, <2>5
  <1> QED BY <1>1, <1>3, <1>5, <1>8, <1>9, <1>10, <1>11 DEF Queued, E2

\* The lists that reach a stage afterwards.
LEMMA StartedStep ==
  ASSUME NEW L, NEW M, NEW F, NEW G, NEW d, NEW l, NEW k, NEW h, NEW n, NEW f, NEW q, NEW p,
         Stepped(L, M, F, G, d, l, k, h, n, f, q, p), NEW x \in 1 .. d
  PROVE  Cardinality(Started(M, d, x)) = Cardinality(Started(L, d, x)) + (IF x >= h + 2 THEN n ELSE 0)
         /\ Cardinality(Started(L, d, x)) \in Nat
  <1> DEFINE N == Len(L)
             S == Started(L, d, x)
             T == IF x >= h + 2 THEN (N + 1) .. (N + n) ELSE {}
  <1>1. d \in Nat /\ h \in Nat /\ n \in Nat /\ x \in Int  BY DEF Stepped
  <1>2. N \in Nat /\ \A m \in 1 .. N : Len(L[m]) \in Nat  BY <1>1, FilledLists DEF Stepped
  <1>3. /\ Len(M) = N + n /\ \A m \in 1 .. N : Len(M[m]) = Len(L[m])
        /\ \A b \in 1 .. n : Len(M[N + b]) = d - (h + 1)
    BY DEF Stepped, Grown
  <1> HIDE DEF N
  <1>4. ASSUME NEW m PROVE m \in Started(M, d, x) <=> m \in S \cup T
    <2>0. S = {i \in 1 .. N : d - Len(L[i]) < x}  BY DEF Started, N
    <2>1. m \in Started(M, d, x) <=> m \in 1 .. N + n /\ d - Len(M[m]) < x  BY <1>3 DEF Started
    <2>2. CASE m \in 1 .. N
      <3>1. m \in 1 .. N + n /\ m \notin T  BY ONLY <1>1, <1>2, <2>2 DEF T
      <3>2. Len(M[m]) = Len(L[m])  BY <1>3, <2>2
      <3>3. m \in S <=> d - Len(L[m]) < x  BY <2>0, <2>2
      <3> QED BY ONLY <2>1, <3>1, <3>2, <3>3
    <2>3. ASSUME NEW b \in 1 .. n, m = N + b PROVE m \in Started(M, d, x) <=> m \in S \cup T
      <3>0. b \in 1 .. n  OBVIOUS
      <3>1. m \in 1 .. N + n /\ m \notin 1 .. N /\ m \in (N + 1) .. (N + n)  BY ONLY <1>1, <1>2, <2>3, <3>0
      <3>2. Len(M[m]) = d - (h + 1)  BY <1>3, <2>3
      <3>3. d - (d - (h + 1)) < x <=> x >= h + 2  BY ONLY <1>1
      <3>4. m \notin S  BY <2>0, <3>1
      <3>5. m \in T <=> x >= h + 2  BY <3>1
      <3> QED BY ONLY <2>1, <3>1, <3>2, <3>3, <3>4, <3>5
    <2>4. CASE m \notin 1 .. N + n
      <3>1. m \notin 1 .. N /\ m \notin (N + 1) .. (N + n)  BY ONLY <1>1, <1>2, <2>4
      <3>2. m \notin S /\ m \notin T  BY <2>0, <3>1
      <3> QED BY ONLY <2>1, <2>4, <3>2
    <2>5. m \in 1 .. N + n => m \in 1 .. N \/ \E b \in 1 .. n : m = N + b  BY <1>1, <1>2, OldOrNew
    <2> QED BY <2>2, <2>3, <2>4, <2>5
  <1>5. Started(M, d, x) = S \cup T  BY <1>4
  <1>6. IsFiniteSet(S) /\ Cardinality(S) \in Nat
    <2>1. IsFiniteSet(1 .. N)  BY <1>2, FS_Interval
    <2>2. S \in SUBSET (1 .. N)  BY DEF Started, N
    <2>3. IsFiniteSet(S)  BY <2>1, <2>2, FS_Subset
    <2> QED BY <2>3, FS_CardinalityType
  <1>7. IsFiniteSet(T) /\ Cardinality(T) = IF x >= h + 2 THEN n ELSE 0
    <2>1. CASE x >= h + 2
      <3>1. N + 1 \in Int /\ N + n \in Int  BY <1>1, <1>2
      <3>2. IsFiniteSet((N + 1) .. (N + n))
            /\ Cardinality((N + 1) .. (N + n)) = IF N + 1 > N + n THEN 0 ELSE (N + n) - (N + 1) + 1
        BY <3>1, FS_Interval
      <3>3. (IF N + 1 > N + n THEN 0 ELSE (N + n) - (N + 1) + 1) = n  BY ONLY <1>1, <1>2
      <3> QED BY <2>1, <3>2, <3>3
    <2>2. CASE ~(x >= h + 2)  BY <2>2, FS_EmptySet
    <2> QED BY <2>1, <2>2
  <1>8. S \cap T = {}
    <2>1. S \subseteq 1 .. N  BY DEF Started, N
    <2>2. \A m \in T : m \notin 1 .. N  BY <1>1, <1>2
    <2> QED BY <2>1, <2>2
  <1> HIDE DEF S, T
  <1>9. Cardinality(S \cup T) = Cardinality(S) + Cardinality(T) - Cardinality(S \cap T)
    BY <1>6, <1>7, FS_Union
  <1>10. Cardinality(S \cap T) = 0  BY <1>8, FS_EmptySet
  <1>11. Cardinality(T) \in Nat  BY <1>7, FS_CardinalityType
  <1>12. Cardinality(S \cup T) = Cardinality(S) + Cardinality(T)  BY ONLY <1>6, <1>9, <1>10, <1>11
  <1> QED BY <1>5, <1>6, <1>7, <1>12 DEF S

LEMMA LackingStep ==
  ASSUME NEW L, NEW M, NEW F, NEW G, NEW d, NEW l, NEW k, NEW h, NEW n, NEW f, NEW q, NEW p,
         Stepped(L, M, F, G, d, l, k, h, n, f, q, p),
         NEW wl, NEW st, NEW w, Lacking(wl, st, L, q, w, d),
         h + 1 <= d - 1, n <= wl[h + 2],
         (Len(q) >= 2 /\ EntryDepth(q, L, d, 2) = h) \/ n = wl[h + 2],
         NEW vl, vl = [x \in 1 .. d |-> IF x >= h + 2 THEN wl[x] - n ELSE wl[x]]
  PROVE  Lacking(vl, st, M, p, w, d)
  <1> DEFINE e == EntryDepth(p, M, d, 1)
  <1>1. d \in Nat /\ h \in Nat /\ n \in Nat  BY DEF Stepped
  <1>2. EntryDepth(q, L, d, 1) = h /\ q # <<>>
    <2>1. q[1][1] = l /\ k = F[l] /\ h = DepthAt(L, d, l, k) /\ q # <<>> /\ Queued(q, L, F, d)  BY DEF Stepped
    <2>2. q \in Seq(Nat \X Nat)  BY <2>1 DEF Queued
    <2>3. 1 \in 1 .. Len(q)  BY <2>1, <2>2
    <2>4. q[1][2] = k  BY <2>1, <2>3 DEF Queued
    <2> QED BY <2>1, <2>4 DEF EntryDepth
  <1>3. /\ wl \in [1 .. d -> Nat] /\ st \in [1 .. d -> Nat] /\ st[d] = w
        /\ \A x \in 1 .. d : wl[x] <= st[x] /\ st[x] <= w
        /\ \A x \in 1 .. d : Cardinality(Started(L, d, x)) = st[x] - wl[x]
        /\ \A x \in 1 .. d : x <= h + 1 => wl[x] = 0
        /\ \A x, y \in 1 .. d : h + 2 <= x /\ x <= y => wl[x] <= wl[y]
    BY <1>2 DEF Lacking
  <1>4. h + 2 \in 1 .. d /\ h + 2 <= h + 2  BY <1>1
  <1>5. ASSUME NEW x \in 1 .. d
        PROVE  /\ wl[x] \in Nat /\ st[x] \in Nat /\ x \in Int
               /\ (x >= h + 2 => n <= wl[x] /\ vl[x] = wl[x] - n) /\ (~(x >= h + 2) => vl[x] = wl[x])
               /\ vl[x] \in Nat /\ vl[x] <= st[x]
    <2>1. wl[x] \in Nat /\ st[x] \in Nat /\ x \in Int /\ wl[x] <= st[x]  BY <1>3
    <2>2. (x >= h + 2 => vl[x] = wl[x] - n) /\ (~(x >= h + 2) => vl[x] = wl[x])  OBVIOUS
    <2>3. x >= h + 2 => wl[h + 2] <= wl[x]
      <3>1. x >= h + 2 => h + 2 <= x  BY <1>1
      <3> QED BY <1>3, <1>4, <3>1
    <2>4. wl[h + 2] \in Nat /\ n <= wl[h + 2]  BY <1>3, <1>4
    <2>5. x >= h + 2 => n <= wl[x]  BY ONLY <1>1, <2>1, <2>3, <2>4
    <2>6. vl[x] \in Nat /\ vl[x] <= st[x]  BY ONLY <1>1, <2>1, <2>2, <2>5
    <2> QED BY ONLY <2>1, <2>2, <2>5, <2>6
  <1>6. vl \in [1 .. d -> Nat]
    <2>1. vl = [x \in 1 .. d |-> vl[x]]  OBVIOUS
    <2> QED BY <1>5, <2>1
  <1>7. ASSUME NEW x \in 1 .. d PROVE Cardinality(Started(M, d, x)) = st[x] - vl[x]
    <2>1. Cardinality(Started(M, d, x)) = Cardinality(Started(L, d, x)) + (IF x >= h + 2 THEN n ELSE 0)
      BY StartedStep
    <2>2. Cardinality(Started(L, d, x)) = st[x] - wl[x]  BY <1>3
    <2>3. (st[x] - wl[x]) + (IF x >= h + 2 THEN n ELSE 0) = st[x] - vl[x]
      <3>1. x \in 1 .. d  OBVIOUS
      <3>2. /\ wl[x] \in Nat /\ st[x] \in Nat /\ x \in Int
            /\ (x >= h + 2 => vl[x] = wl[x] - n) /\ (~(x >= h + 2) => vl[x] = wl[x])
        BY <1>5
      <3> QED BY ONLY <1>1, <3>2
    <2> QED BY <2>1, <2>2, <2>3
  <1>8. /\ Len(q) \in Nat /\ Len(q) >= 1 /\ Len(p) = Len(q) + n
        /\ \A i \in 1 .. Len(q) - 1 : EntryDepth(p, M, d, i) = EntryDepth(q, L, d, i + 1)
                                      /\ EntryDepth(p, M, d, i) \in h .. h + 1
        /\ EntryDepth(p, M, d, Len(q)) = h + 1
    BY MovedEntries
  <1>9. p # <<>>
    <2>1. Len(p) >= 1  BY ONLY <1>1, <1>8
    <2> QED BY <2>1
  <1>10. (e = h) \/ (e = h + 1 /\ n = wl[h + 2])
    <2>1. CASE Len(q) = 1
      <3>1. e = h + 1  BY <1>8, <2>1
      <3>2. ~(Len(q) >= 2)  BY <2>1
      <3> QED BY <3>1, <3>2
    <2>2. CASE Len(q) >= 2
      <3>1. 1 \in 1 .. Len(q) - 1 /\ 1 + 1 = 2  BY ONLY <1>8, <2>2
      <3>2. e = EntryDepth(q, L, d, 2) /\ e \in h .. h + 1  BY <1>8, <3>1
      <3> HIDE DEF e
      <3>3. e = h \/ e = h + 1  BY ONLY <1>1, <3>2
      <3>4. h # h + 1  BY ONLY <1>1
      <3> QED BY <3>2, <3>3, <3>4
    <2> QED BY <1>8, <2>1, <2>2
  <1> HIDE DEF e
  <1>11. ASSUME NEW x \in 1 .. d, x <= e + 1 PROVE vl[x] = 0
    <2>0. x \in Int /\ wl[x] \in Nat  BY <1>3
    <2>1. CASE x <= h + 1
      <3>1. ~(x >= h + 2)  BY ONLY <1>1, <2>0, <2>1
      <3> QED BY <1>3, <1>5, <2>1, <3>1
    <2>2. CASE ~(x <= h + 1)
      <3>1. e # h  BY ONLY <1>11, <2>2
      <3>2. e = h + 1 /\ n = wl[h + 2]  BY <1>10, <3>1
      <3>3. x = h + 2 /\ x >= h + 2  BY ONLY <1>1, <1>11, <2>0, <2>2, <3>2
      <3>4. vl[x] = wl[x] - n  BY <1>5, <3>3
      <3>5. n = wl[x]  BY <3>2, <3>3
      <3> QED BY ONLY <1>1, <3>4, <3>5
    <2> QED BY <2>1, <2>2
  <1>12. ASSUME NEW x \in 1 .. d, NEW y \in 1 .. d, e + 2 <= x, x <= y PROVE vl[x] <= vl[y]
    <2>1. x \in Int /\ y \in Int  OBVIOUS
    <2>2. x >= h + 2 /\ y >= h + 2 /\ h + 2 <= x  BY ONLY <1>1, <1>10, <1>12, <2>1
    <2>3. wl[x] <= wl[y]  BY <1>3, <1>12, <2>2
    <2>4. vl[x] = wl[x] - n /\ vl[y] = wl[y] - n /\ wl[x] \in Nat /\ wl[y] \in Nat  BY <1>5, <2>2
    <2> QED BY ONLY <1>1, <2>3, <2>4
  <1>13. \A x \in 1 .. d : vl[x] <= st[x] /\ st[x] <= w  BY <1>3, <1>5
  <1> QED BY <1>3, <1>6, <1>7, <1>9, <1>11, <1>12, <1>13 DEF Lacking, e

\* A node of the last stage leaves the queue.
LEMMA LeafSkipped ==
  ASSUME NEW L, NEW F, NEW d \in Nat, NEW q, NEW wl, NEW st, NEW w,
         Filled(L, F, d), Queued(q, L, F, d), Lacking(wl, st, L, q, w, d),
         q # <<>>, EntryDepth(q, L, d, 1) = d - 1
  PROVE  Queued(Tail(q), L, F, d) /\ Lacking(wl, st, L, Tail(q), w, d)
  <1> DEFINE A == Len(q)
             p == Tail(q)
             E1(i) == EntryDepth(q, L, d, i)
             E2(i) == EntryDepth(p, L, d, i)
  <1>1. /\ q \in Seq(Nat \X Nat)
        /\ \A i \in 1 .. A : q[i][1] \in 1 .. Len(L) /\ q[i][2] = F[q[i][1]]
        /\ \A i, j \in 1 .. A : q[i][1] = q[j][1] => i = j
        /\ \A l \in 1 .. Len(L) : F[l] < Len(L[l]) => \E i \in 1 .. A : q[i][1] = l
        /\ \A i, j \in 1 .. A : i <= j => E1(i) <= E1(j) /\ E1(j) <= E1(i) + 1
    BY DEF Queued
  <1>2. p \in Seq(Nat \X Nat) /\ A \in Nat /\ A >= 1 /\ Len(p) = A - 1 /\ \A i \in 1 .. A - 1 : p[i] = q[i + 1]
    BY <1>1
  <1>3. \A l \in 1 .. Len(L) : Len(L[l]) \in Nat /\ F[l] \in Nat /\ F[l] <= Len(L[l])
    <2>1. \A l \in 1 .. Len(L) : Len(L[l]) \in Nat /\ F[l] \in Nat /\ F[l] \in 1 .. Len(L[l])  BY FilledLists
    <2> QED BY <2>1
  <1>4. ~(F[q[1][1]] < Len(L[q[1][1]]))
    <2> DEFINE l == q[1][1]
               z == Len(L[l])
               k == F[l]
    <2>1. l \in 1 .. Len(L) /\ q[1][2] = k  BY <1>1, <1>2
    <2>2. z \in Nat /\ k \in Nat  BY <1>3, <2>1
    <2>3. (d - z) + (k - 1) = d - 1  BY <2>1 DEF EntryDepth, DepthAt
    <2> HIDE DEF z, k
    <2>4. ~(k < z)  BY ONLY <2>2, <2>3, d \in Nat
    <2> QED BY <2>4 DEF z, k
  <1>5. \A i \in 1 .. A - 1 : i + 1 \in 1 .. A /\ p[i] = q[i + 1] /\ E2(i) = E1(i + 1)
    <2> SUFFICES ASSUME NEW i \in 1 .. A - 1
                 PROVE  i + 1 \in 1 .. A /\ p[i] = q[i + 1] /\ E2(i) = E1(i + 1)
      OBVIOUS
    <2>1. i + 1 \in 1 .. A /\ p[i] = q[i + 1]  BY <1>2
    <2> QED BY <2>1 DEF EntryDepth
  <1> HIDE DEF A, E1, E2, p
  <1>6. ASSUME NEW i \in 1 .. A - 1 PROVE p[i][1] \in 1 .. Len(L) /\ p[i][2] = F[p[i][1]]
    <2>1. i + 1 \in 1 .. A /\ p[i] = q[i + 1]  BY <1>5
    <2>2. q[i + 1][1] \in 1 .. Len(L) /\ q[i + 1][2] = F[q[i + 1][1]]  BY <1>1, <2>1
    <2> QED BY <2>1, <2>2
  <1>7. ASSUME NEW i \in 1 .. A - 1, NEW j \in 1 .. A - 1, p[i][1] = p[j][1] PROVE i = j
    <2>0. i + 1 \in 1 .. A /\ j + 1 \in 1 .. A /\ q[i + 1][1] = q[j + 1][1]  BY <1>5, <1>7
    <2>1. i + 1 = j + 1  BY <1>1, <2>0
    <2> QED BY <2>1
  <1>8. ASSUME NEW l \in 1 .. Len(L), F[l] < Len(L[l]) PROVE \E i \in 1 .. A - 1 : p[i][1] = l
    <2>1. PICK i \in 1 .. A : q[i][1] = l  BY <1>1, <1>8
    <2>2. i # 1  BY <1>4, <1>8, <2>1
    <2>3. i - 1 \in 1 .. A - 1 /\ (i - 1) + 1 = i  BY <1>2, <2>2
    <2>4. p[i - 1][1] = l  BY <1>5, <2>1, <2>3
    <2> QED BY <2>3, <2>4
  <1>9. ASSUME NEW i \in 1 .. A - 1, NEW j \in 1 .. A - 1, i <= j
        PROVE  E2(i) <= E2(j) /\ E2(j) <= E2(i) + 1
    <2>1. i + 1 \in 1 .. A /\ j + 1 \in 1 .. A /\ i + 1 <= j + 1  BY <1>5, <1>9
    <2>2. E1(i + 1) <= E1(j + 1) /\ E1(j + 1) <= E1(i + 1) + 1  BY <1>1, <2>1
    <2> QED BY <1>5, <2>2
  <1>10. Queued(p, L, F, d)  BY <1>2, <1>6, <1>7, <1>8, <1>9 DEF Queued, E2
  <1>11. /\ wl \in [1 .. d -> Nat] /\ st \in [1 .. d -> Nat] /\ st[d] = w
         /\ \A x \in 1 .. d : wl[x] <= st[x] /\ st[x] <= w
         /\ \A x \in 1 .. d : Cardinality(Started(L, d, x)) = st[x] - wl[x]
         /\ \A x \in 1 .. d : x <= (d - 1) + 1 => wl[x] = 0
    BY DEF Lacking
  <1>12. \A x \in 1 .. d : wl[x] = 0  BY <1>11
  <1>13. \A x, y \in 1 .. d : wl[x] <= wl[y]  BY <1>12
  <1>14. Lacking(wl, st, L, p, w, d)  BY <1>11, <1>12, <1>13 DEF Lacking
  <1> QED BY <1>10, <1>14 DEF p

\* A new DAG: its first list has the root.
FirstList(f, d) == [i \in 1 .. d |-> IF i = 1 THEN Node(f, 0) ELSE Placeholder]

LEMMA RootFilled ==
  ASSUME NEW d \in Nat, d >= 1, NEW f \in Nat
  PROVE  /\ Filled(<<FirstList(f, d)>>, <<1>>, d) /\ Used(<<FirstList(f, d)>>, <<1>>, f, f + 1)
         /\ \A x \in 1 .. d : Cardinality(Started(<<FirstList(f, d)>>, d, x)) = 1
         /\ \A i \in 1 .. d : DepthAt(<<FirstList(f, d)>>, d, 1, i) = i - 1
  <1> DEFINE r == FirstList(f, d)
             L == <<r>>
  <1>1. /\ r \in Seq(NodeType) /\ Len(r) = d /\ r[1].depth = 0 /\ r[1].function = f
        /\ \A i \in 1 .. d : i # 1 => r[i].depth = -1 /\ r[i].function = -1
    <2>1. Node(f, 0) \in NodeType /\ Placeholder \in NodeType /\ Node(f, 0).depth = 0 /\ Node(f, 0).function = f
          /\ Placeholder.depth = -1 /\ Placeholder.function = -1
      BY DEF Node, Placeholder, NodeType
    <2>2. \A i \in 1 .. d : r[i] = IF i = 1 THEN Node(f, 0) ELSE Placeholder  BY DEF FirstList
    <2>3. r \in [1 .. d -> NodeType]  BY <2>1 DEF FirstList
    <2>4. r \in Seq(NodeType) /\ Len(r) = d  BY <2>3
    <2>5. 1 \in 1 .. d  OBVIOUS
    <2> QED BY <2>1, <2>2, <2>4, <2>5
  <1> HIDE DEF r
  <1>2. L \in Seq(Seq(NodeType)) /\ Len(L) = 1 /\ L[1] = r  BY <1>1
  <1>3. <<1>> \in Seq(Nat) /\ Len(<<1>>) = 1 /\ <<1>>[1] = 1  OBVIOUS
  <1> DEFINE F == <<1>>
  <1> HIDE DEF L, F
  <1>4. F \in Seq(Nat) /\ Len(F) = 1 /\ F[1] = 1  BY <1>3 DEF F
  <1>5. \A i \in 1 .. d : DepthAt(L, d, 1, i) = i - 1
    <2>1. ASSUME NEW i \in 1 .. d PROVE (d - d) + (i - 1) = i - 1  OBVIOUS
    <2> QED BY <1>1, <1>2, <2>1 DEF DepthAt
  <1>6. Filled(L, F, d)
    <2>1. ASSUME NEW l \in 1 .. 1, NEW k \in 1 .. Len(L[l])
          PROVE  IF k <= F[l] THEN L[l][k].depth = DepthAt(L, d, l, k)
                 ELSE L[l][k].depth = -1 /\ L[l][k].function = -1
      <3>1. l = 1 /\ L[l] = r /\ F[l] = 1 /\ k \in 1 .. d  BY <1>1, <1>2, <1>4
      <3>2. CASE k = 1
        <4>1. DepthAt(L, d, 1, 1) = 1 - 1  BY <1>5
        <4> QED BY <1>1, <3>1, <3>2, <4>1
      <3>3. CASE k # 1
        <4>1. ~(k <= 1)  BY <3>1, <3>3
        <4> QED BY <1>1, <3>1, <3>3, <4>1
      <3> QED BY <3>2, <3>3
    <2>2. ASSUME NEW l \in 1 .. 1 PROVE F[l] \in 1 .. Len(L[l]) /\ (l # 1 => Len(L[l]) <= d - 1)
      <3>1. l = 1 /\ Len(L[l]) = d /\ F[l] = 1  BY <1>1, <1>2, <1>4
      <3> QED BY <3>1
    <2> QED BY <1>1, <1>2, <1>4, <2>1, <2>2 DEF Filled
  <1>7. Used(L, F, f, f + 1)
    <2>1. Sum(F) = (f + 1) - f  BY SumOne DEF F
    <2>2. ASSUME NEW l \in 1 .. Len(L), NEW k \in 1 .. F[l] PROVE l = 1 /\ k = 1 /\ L[l][k].function = f
      <3>1. l = 1 /\ F[l] = 1 /\ L[l] = r  BY <1>2, <1>4
      <3>2. k = 1  BY <3>1
      <3> QED BY <1>1, <3>1, <3>2
    <2>3. f \in f .. (f + 1) - 1 /\ f + 1 \in Nat  OBVIOUS
    <2> QED BY <2>1, <2>2, <2>3 DEF Used
  <1>8. ASSUME NEW x \in 1 .. d PROVE Cardinality(Started(L, d, x)) = 1
    <2>1. Started(L, d, x) = {1}
      <3>1. d - d < x  OBVIOUS
      <3>2. Len(L[1]) = d  BY <1>1, <1>2
      <3> QED BY <1>2, <3>1, <3>2 DEF Started
    <2> QED BY <2>1, FS_Singleton
  <1> QED BY <1>5, <1>6, <1>7, <1>8 DEF L, F, r

LEMMA BuildStarts ==
  ASSUME NEW w \in Nat, NEW d \in Nat, d >= 2, NEW st \in generateNodeDistribution(w, d), NEW f \in Nat
  PROVE  /\ Queued(<<<<1, 1>>>>, <<FirstList(f, d)>>, <<1>>, d)
         /\ Lacking([i \in 1 .. d |-> st[i] - 1], st, <<FirstList(f, d)>>, <<<<1, 1>>>>, w, d)
  <1> DEFINE L == <<FirstList(f, d)>>
             F == <<1>>
             q == <<<<1, 1>>>>
             wl == [i \in 1 .. d |-> st[i] - 1]
  <1>1. /\ st \in [1 .. d -> 1 .. w] /\ st[1] = 1 /\ st[d] = w
        /\ \A i \in 2 .. d - 1 : st[i] >= st[i - 1]
    BY DEF generateNodeDistribution
  <1>2. \A i \in 1 .. d : st[i] \in Nat /\ st[i] >= 1 /\ st[i] <= w /\ wl[i] = st[i] - 1 /\ wl[i] \in Nat
    BY <1>1
  <1>3. wl \in [1 .. d -> Nat] /\ st \in [1 .. d -> Nat]
    <2>1. st \in [1 .. d -> Nat]  BY <1>1
    <2>2. \A i \in 1 .. d : st[i] - 1 \in Nat  BY <1>2
    <2> QED BY <2>1, <2>2
  <1>4. \A x, y \in 1 .. d : x <= y => wl[x] <= wl[y]
    <2>1. \A x \in 1 .. d : wl[x] \in Int  BY <1>2
    <2>2. ASSUME NEW x \in 2 .. d PROVE wl[x - 1] <= wl[x]
      <3>1. x \in 1 .. d /\ x - 1 \in 1 .. d  OBVIOUS
      <3>2. st[x - 1] <= st[x]
        <4>1. CASE x = d
          <5>1. st[x] = w /\ st[x - 1] <= w  BY <1>1, <1>2, <3>1, <4>1
          <5> QED BY <5>1
        <4>2. CASE x # d
          <5>1. x \in 2 .. d - 1  BY <4>2
          <5>2. st[x] >= st[x - 1]  BY <1>1, <5>1
          <5>3. st[x] \in Nat /\ st[x - 1] \in Nat  BY <1>2, <3>1
          <5> QED BY <5>2, <5>3
        <4> QED BY <4>1, <4>2
      <3>3. wl[x] = st[x] - 1 /\ wl[x - 1] = st[x - 1] - 1 /\ st[x] \in Nat /\ st[x - 1] \in Nat  BY <1>2, <3>1
      <3> QED BY <3>2, <3>3
    <2> HIDE DEF wl
    <2> QED BY <2>1, <2>2, LocallyMonotone
  <1>5. /\ \A x \in 1 .. d : Cardinality(Started(L, d, x)) = 1
        /\ \A i \in 1 .. d : DepthAt(L, d, 1, i) = i - 1
    BY RootFilled
  <1>6. q \in Seq(Nat \X Nat) /\ Len(q) = 1 /\ q[1][1] = 1 /\ q[1][2] = 1 /\ q # <<>>  OBVIOUS
  <1>7. F[1] = 1 /\ Len(L) = 1  OBVIOUS
  <1> HIDE DEF L, F, q, wl
  <1>8. EntryDepth(q, L, d, 1) = 0
    <2>1. 1 \in 1 .. d  OBVIOUS
    <2> QED BY <1>5, <1>6, <2>1 DEF EntryDepth
  <1>9. Queued(q, L, F, d)
    <2>1. \A i \in 1 .. Len(q) : i = 1  BY <1>6
    <2>2. \A l \in 1 .. Len(L) : l = 1  BY <1>7
    <2>3. \A i \in 1 .. Len(q) : q[i][1] \in 1 .. Len(L) /\ q[i][2] = F[q[i][1]]  BY <1>6, <1>7, <2>1
    <2>4. \A i, j \in 1 .. Len(q) : i <= j =>
            EntryDepth(q, L, d, i) <= EntryDepth(q, L, d, j) /\ EntryDepth(q, L, d, j) <= EntryDepth(q, L, d, i) + 1
      BY <1>8, <2>1
    <2>5. \A l \in 1 .. Len(L) : \E i \in 1 .. Len(q) : q[i][1] = l  BY <1>6, <2>2
    <2> QED BY <1>6, <2>1, <2>3, <2>4, <2>5 DEF Queued
  <1>10. Lacking(wl, st, L, q, w, d)
    <2>1. \A x \in 1 .. d : wl[x] <= st[x] /\ st[x] <= w  BY <1>2
    <2>2. \A x \in 1 .. d : Cardinality(Started(L, d, x)) = st[x] - wl[x]  BY <1>2, <1>5
    <2>3. ASSUME NEW x \in 1 .. d, x <= 0 + 1 PROVE wl[x] = 0
      <3>1. x = 1  BY <2>3
      <3> QED BY <1>1, <1>2, <3>1
    <2> QED BY <1>1, <1>3, <1>4, <1>6, <1>8, <2>1, <2>2, <2>3 DEF Lacking
  <1> QED BY <1>9, <1>10 DEF L, F, q, wl

\* The list of a node with a child and branches, and the DAG, the filled places and
\* the queue with them.
NewBranch(d, h, f) == [i \in 1 .. d - (h + 1) |-> IF i = 1 THEN Node(f, h + 1) ELSE Placeholder]
Linked(r, k, ids, f, h) == [r EXCEPT ![k].branches = ids, ![k + 1] = Node(f, h + 1)]
BranchIds(N, n) == [b \in 1 .. n |-> N + b]
WithChildren(L, d, l, k, h, n, f) ==
  [L EXCEPT ![l] = Linked(L[l], k, BranchIds(Len(L), n), f, h)] \o [b \in 1 .. n |-> NewBranch(d, h, f + b)]
RaisedBy(F, l, n) == [F EXCEPT ![l] = F[l] + 1] \o [b \in 1 .. n |-> 1]
QueueWith(q, N, l, k, n) == Append(Tail(q), <<l, k + 1>>) \o [b \in 1 .. n |-> <<BranchIds(N, n)[b], 1>>]

LEMMA LinkedIs ==
  ASSUME NEW r \in Seq(NodeType), NEW k \in 1 .. Len(r) - 1, NEW ids \in Seq(Nat), NEW f \in Int, NEW h \in Int
  PROVE  /\ Linked(r, k, ids, f, h) \in Seq(NodeType) /\ Len(Linked(r, k, ids, f, h)) = Len(r)
         /\ Linked(r, k, ids, f, h)[k + 1].depth = h + 1 /\ Linked(r, k, ids, f, h)[k + 1].function = f
         /\ \A j \in 1 .. Len(r) : j # k + 1 => /\ Linked(r, k, ids, f, h)[j].depth = r[j].depth
                                                /\ Linked(r, k, ids, f, h)[j].function = r[j].function
  <1> DEFINE x == [r[k] EXCEPT !.branches = ids]
             y == Node(f, h + 1)
             s == Linked(r, k, ids, f, h)
  <1>0. k \in 1 .. Len(r) /\ k + 1 \in 1 .. Len(r) /\ k # k + 1 /\ DOMAIN r = 1 .. Len(r) /\ Len(r) \in Nat  OBVIOUS
  <1>1. r[k] \in NodeType  BY <1>0
  <1>2. x \in NodeType /\ x.depth = r[k].depth /\ x.function = r[k].function  BY <1>1 DEF NodeType
  <1>3. y \in NodeType /\ y.depth = h + 1 /\ y.function = f  BY DEF Node, NodeType
  <1>4. s = [[r EXCEPT ![k] = x] EXCEPT ![k + 1] = y]  BY DEF Linked
  <1> HIDE DEF x, y, s
  <1> DEFINE t == [r EXCEPT ![k] = x]
  <1>5. t \in Seq(NodeType) /\ Len(t) = Len(r) /\ DOMAIN t = 1 .. Len(r) /\ t[k] = x
        /\ \A j \in 1 .. Len(r) : j # k => t[j] = r[j]
    BY <1>0, <1>2
  <1> HIDE DEF t
  <1>6. s = [t EXCEPT ![k + 1] = y]  BY <1>4 DEF t
  <1>7. s \in Seq(NodeType) /\ Len(s) = Len(r) /\ s[k + 1] = y
        /\ \A j \in 1 .. Len(r) : j # k + 1 => s[j] = t[j]
    BY <1>0, <1>3, <1>5, <1>6
  <1>8. ASSUME NEW j \in 1 .. Len(r), j # k + 1 PROVE s[j].depth = r[j].depth /\ s[j].function = r[j].function
    <2>1. CASE j = k  BY <1>2, <1>5, <1>7, <1>8, <2>1
    <2>2. CASE j # k  BY <1>5, <1>7, <1>8, <2>2
    <2> QED BY <2>1, <2>2
  <1> QED BY <1>3, <1>7, <1>8 DEF s

LEMMA NewBranchIs ==
  ASSUME NEW d \in Nat, NEW h \in Nat, h + 1 <= d - 1, NEW f \in Int
  PROVE  /\ NewBranch(d, h, f) \in Seq(NodeType) /\ Len(NewBranch(d, h, f)) = d - (h + 1)
         /\ NewBranch(d, h, f)[1].depth = h + 1 /\ NewBranch(d, h, f)[1].function = f
         /\ \A j \in 2 .. d - (h + 1) : NewBranch(d, h, f)[j].depth = -1 /\ NewBranch(d, h, f)[j].function = -1
  <1> DEFINE s == NewBranch(d, h, f)
             z == d - (h + 1)
             y == Node(f, h + 1)
  <1>1. y \in NodeType /\ y.depth = h + 1 /\ y.function = f
        /\ Placeholder \in NodeType /\ Placeholder.depth = -1 /\ Placeholder.function = -1
    BY DEF Node, NodeType, Placeholder
  <1>2. z \in Nat /\ 1 \in 1 .. z /\ \A j \in 2 .. z : j \in 1 .. z /\ j # 1  OBVIOUS
  <1>3. s = [i \in 1 .. z |-> IF i = 1 THEN y ELSE Placeholder]  BY DEF NewBranch
  <1> HIDE DEF s, z, y
  <1>4. s \in Seq(NodeType) /\ Len(s) = z
    <2>1. s \in [1 .. z -> NodeType]  BY <1>1, <1>3
    <2> QED BY <1>2, <2>1
  <1>5. s[1] = y /\ \A j \in 2 .. z : s[j] = Placeholder  BY <1>2, <1>3
  <1> QED BY <1>1, <1>4, <1>5 DEF s, z, y

\* What is joined of two sequences.
ListOf(e, n, S) == e \in [1 .. n -> S]
Joins(r, s, e, n, S) ==
  /\ r \in Seq(S) /\ Len(r) = Len(s) + n
  /\ \A m \in 1 .. Len(s) : r[m] = s[m]
  /\ \A b \in 1 .. n : r[Len(s) + b] = e[b]
LEMMA JoinedLists ==
  ASSUME NEW S, NEW s \in Seq(S), NEW n \in Nat, NEW e, ListOf(e, n, S)
  PROVE  Joins(s \o e, s, e, n, S)
  <1>1. e \in [1 .. n -> S]  BY DEF ListOf
  <1>2. e \in Seq(S) /\ Len(e) = n  BY <1>1
  <1>3. s \o e \in Seq(S) /\ Len(s \o e) = Len(s) + n  BY <1>2
  <1>4. \A m \in 1 .. Len(s) : (s \o e)[m] = s[m]  BY <1>2
  <1>5. \A b \in 1 .. n : (s \o e)[Len(s) + b] = e[b]  BY <1>2
  <1> QED BY <1>3, <1>4, <1>5 DEF Joins

LEMMA BranchIdsAre ==
  ASSUME NEW N \in Nat, NEW n \in Nat
  PROVE  BranchIds(N, n) \in Seq(Nat) /\ \A b \in 1 .. n : BranchIds(N, n)[b] = N + b
  <1>1. BranchIds(N, n) \in [1 .. n -> Nat] /\ \A b \in 1 .. n : BranchIds(N, n)[b] = N + b  BY DEF BranchIds
  <1> QED BY <1>1

LEMMA GrownIs ==
  ASSUME NEW L \in Seq(Seq(NodeType)), NEW d \in Nat, NEW l \in 1 .. Len(L), NEW k \in 1 .. Len(L[l]) - 1,
         NEW h \in Nat, h + 1 <= d - 1, NEW n \in Nat, NEW f \in Nat
  PROVE  Grown(L, WithChildren(L, d, l, k, h, n, f), d, l, k, h, n, f)
  <1> DEFINE N == Len(L)
             ids == BranchIds(N, n)
             r == Linked(L[l], k, ids, f, h)
             X == [L EXCEPT ![l] = r]
             e == [b \in 1 .. n |-> NewBranch(d, h, f + b)]
             M == WithChildren(L, d, l, k, h, n, f)
  <1>0. N \in Nat /\ L[l] \in Seq(NodeType) /\ DOMAIN L = 1 .. N  OBVIOUS
  <1>1. /\ r \in Seq(NodeType) /\ Len(r) = Len(L[l]) /\ r[k + 1].depth = h + 1 /\ r[k + 1].function = f
        /\ \A j \in 1 .. Len(L[l]) : j # k + 1 => r[j].depth = L[l][j].depth /\ r[j].function = L[l][j].function
    <2>1. ids \in Seq(Nat) /\ f \in Int /\ h \in Int  BY <1>0, BranchIdsAre
    <2> HIDE DEF ids
    <2> QED BY SMTT(30), <1>0, <2>1, LinkedIs
  <1>2. \A b \in 1 .. n : /\ e[b] \in Seq(NodeType) /\ Len(e[b]) = d - (h + 1)
                          /\ e[b][1].depth = h + 1 /\ e[b][1].function = f + b
                          /\ \A j \in 2 .. d - (h + 1) : e[b][j].depth = -1 /\ e[b][j].function = -1
    <2> SUFFICES ASSUME NEW b \in 1 .. n
                 PROVE  /\ e[b] \in Seq(NodeType) /\ Len(e[b]) = d - (h + 1)
                        /\ e[b][1].depth = h + 1 /\ e[b][1].function = f + b
                        /\ \A j \in 2 .. d - (h + 1) : e[b][j].depth = -1 /\ e[b][j].function = -1
      OBVIOUS
    <2>1. e[b] = NewBranch(d, h, f + b) /\ f + b \in Int  OBVIOUS
    <2> DEFINE g == f + b
    <2> HIDE DEF e, g
    <2>2. /\ NewBranch(d, h, g) \in Seq(NodeType) /\ Len(NewBranch(d, h, g)) = d - (h + 1)
          /\ NewBranch(d, h, g)[1].depth = h + 1 /\ NewBranch(d, h, g)[1].function = g
          /\ \A j \in 2 .. d - (h + 1) : NewBranch(d, h, g)[j].depth = -1 /\ NewBranch(d, h, g)[j].function = -1
      <3>1. g \in Int  BY <2>1 DEF g
      <3>2. d \in Nat /\ h \in Nat /\ h + 1 <= d - 1  OBVIOUS
      <3> QED BY ONLY <3>1, <3>2, NewBranchIs
    <2> QED BY <2>1, <2>2 DEF g
  <1>3. e \in [1 .. n -> Seq(NodeType)]
    <2> DEFINE S == Seq(NodeType)
    <2>1. \A b \in 1 .. n : NewBranch(d, h, f + b) \in S  BY <1>2
    <2> HIDE DEF S
    <2>2. e \in [1 .. n -> S]  BY <2>1
    <2> QED BY <2>2 DEF S
  <1>4. M = X \o e  BY DEF WithChildren
  <1> HIDE DEF r, e, M
  <1>5. X \in Seq(Seq(NodeType)) /\ Len(X) = N /\ X[l] = r /\ \A m \in 1 .. N : m # l => X[m] = L[m]
    BY <1>0, <1>1
  <1> HIDE DEF X
  <1>6. /\ M \in Seq(Seq(NodeType)) /\ Len(M) = N + n
        /\ \A m \in 1 .. N : M[m] = X[m]
        /\ \A b \in 1 .. n : M[N + b] = e[b]
    <2> DEFINE S == Seq(NodeType)
    <2>1. X \in Seq(S) /\ e \in [1 .. n -> S]  BY <1>3, <1>5
    <2> HIDE DEF S
    <2>2. ListOf(e, n, S)  BY <2>1 DEF ListOf
    <2>3. Joins(M, X, e, n, S)  BY <1>4, <2>1, <2>2, JoinedLists
    <2> QED BY <1>5, <2>3 DEF S, Joins
  <1>7. \A m \in 1 .. N : Len(M[m]) = Len(L[m]) /\ (m # l => M[m] = L[m])  BY <1>1, <1>5, <1>6
  <1>8. M[l] = r  BY <1>5, <1>6
  <1>9. /\ \A j \in 1 .. Len(L[l]) :
             j # k + 1 => M[l][j].depth = L[l][j].depth /\ M[l][j].function = L[l][j].function
        /\ M[l][k + 1].depth = h + 1 /\ M[l][k + 1].function = f
    BY <1>1, <1>8
  <1>10. ASSUME NEW b \in 1 .. n
         PROVE  /\ Len(M[N + b]) = d - (h + 1)
                /\ M[N + b][1].depth = h + 1 /\ M[N + b][1].function = f + b
                /\ \A j \in 2 .. d - (h + 1) : M[N + b][j].depth = -1 /\ M[N + b][j].function = -1
    <2>1. M[N + b] = e[b]  BY <1>6
    <2> QED BY <1>2, <2>1
  <1>11. Grown(L, M, d, l, k, h, n, f)  BY <1>6, <1>7, <1>9, <1>10 DEF Grown
  <1> QED BY <1>11 DEF M

LEMMA RaisedIs ==
  ASSUME NEW F \in Seq(Nat), NEW l \in 1 .. Len(F), NEW n \in Nat
  PROVE  Raised(F, RaisedBy(F, l, n), l, n)
  <1> DEFINE X == [F EXCEPT ![l] = F[l] + 1]
             e == [b \in 1 .. n |-> 1]
  <1>0. DOMAIN F = 1 .. Len(F) /\ F[l] \in Nat  OBVIOUS
  <1>1. X \in Seq(Nat) /\ Len(X) = Len(F) /\ X[l] = F[l] + 1 /\ \A m \in 1 .. Len(F) : m # l => X[m] = F[m]
    BY <1>0
  <1>2. e \in [1 .. n -> Nat] /\ \A b \in 1 .. n : e[b] = 1  OBVIOUS
  <1>3. RaisedBy(F, l, n) = X \o e  BY DEF RaisedBy
  <1> HIDE DEF X, e
  <1>4. Joins(RaisedBy(F, l, n), X, e, n, Nat)
    <2>1. ListOf(e, n, Nat)  BY <1>2 DEF ListOf
    <2> QED BY <1>1, <1>3, <2>1, JoinedLists
  <1> QED BY <1>1, <1>2, <1>4 DEF Raised, Joins

LEMMA MovedIs ==
  ASSUME NEW q \in Seq(Nat \X Nat), q # <<>>, NEW N \in Nat, NEW l \in Nat, NEW k \in Nat, NEW n \in Nat
  PROVE  Moved(q, QueueWith(q, N, l, k, n), N, l, k, n)
  <1> DEFINE S == Nat \X Nat
             y == <<l, k + 1>>
             X == Append(Tail(q), y)
             e == [b \in 1 .. n |-> <<BranchIds(N, n)[b], 1>>]
             p == QueueWith(q, N, l, k, n)
  <1>1. y \in S /\ p = X \o e  BY DEF QueueWith
  <1>2. \A b \in 1 .. n : BranchIds(N, n)[b] = N + b  BY BranchIdsAre
  <1>3. e \in [1 .. n -> S] /\ \A b \in 1 .. n : e[b] = <<N + b, 1>>
    <2>1. \A b \in 1 .. n : <<N + b, 1>> \in S  OBVIOUS
    <2>2. e = [b \in 1 .. n |-> <<N + b, 1>>]  BY <1>2
    <2> HIDE DEF e
    <2> QED BY <2>1, <2>2
  <1>0. q \in Seq(S)  OBVIOUS
  <1> HIDE DEF S, y, e, p
  <1>4. X \in Seq(S) /\ Len(X) = Len(q) /\ X[Len(q)] = y /\ \A i \in 1 .. Len(q) - 1 : X[i] = q[i + 1]
    <2>1. Tail(q) \in Seq(S) /\ Len(q) \in Nat /\ Len(q) >= 1 /\ Len(Tail(q)) = Len(q) - 1
          /\ \A i \in 1 .. Len(q) - 1 : Tail(q)[i] = q[i + 1]
      BY <1>0
    <2> DEFINE t == Tail(q)
    <2> HIDE DEF t
    <2>2. t \in Seq(S) /\ Len(t) = Len(q) - 1 /\ \A i \in 1 .. Len(q) - 1 : t[i] = q[i + 1]  BY <2>1 DEF t
    <2>3. X = Append(t, y)  BY DEF t
    <2> HIDE DEF X
    <2>4. X \in Seq(S) /\ Len(X) = Len(t) + 1 /\ X[Len(t) + 1] = y /\ \A i \in 1 .. Len(t) : X[i] = t[i]
      BY <1>1, <2>2, <2>3
    <2>5. Len(t) + 1 = Len(q)  BY <2>1, <2>2
    <2> QED BY <2>2, <2>4, <2>5
  <1> HIDE DEF X
  <1>5. Joins(p, X, e, n, S)
    <2>1. ListOf(e, n, S)  BY <1>3 DEF ListOf
    <2> QED BY <1>1, <1>4, <2>1, JoinedLists
  <1>6. /\ p \in Seq(S) /\ Len(p) = Len(q) + n /\ \A m \in 1 .. Len(q) : p[m] = X[m]
        /\ \A b \in 1 .. n : p[Len(q) + b] = e[b]
    BY <1>4, <1>5 DEF Joins
  <1>7. \A i \in 1 .. Len(q) - 1 : p[i] = q[i + 1]
    <2>1. \A i \in 1 .. Len(q) - 1 : i \in 1 .. Len(q)  BY <1>0
    <2> QED BY <1>4, <1>6, <2>1
  <1>8. p[Len(q)] = <<l, k + 1>>
    <2>1. Len(q) \in 1 .. Len(q)  BY <1>0
    <2> QED BY <1>4, <1>6, <2>1 DEF y
  <1> QED BY <1>3, <1>6, <1>7, <1>8 DEF Moved, p, S

-----------------------------------------------------------------------------
(***************************************************************************)
(* The DAG being built, with N functions in all of which those before base  *)
(* are in finished DAGs and f is the next.                                  *)
(***************************************************************************)
Building(L, F, base, f, q, wl, st, w, d, N) ==
  /\ d \in Nat /\ d >= 2 /\ w \in Nat /\ N \in Nat
  /\ Filled(L, F, d) /\ Used(L, F, base, f) /\ Queued(q, L, F, d) /\ Lacking(wl, st, L, q, w, d)
  /\ base + MaxSize(w, d) <= N

\* The nodes in the queue have a depth.
LEMMA EntryIs ==
  ASSUME NEW L, NEW F, NEW base, NEW f, NEW q, NEW wl, NEW st, NEW w, NEW d, NEW N,
         Building(L, F, base, f, q, wl, st, w, d, N), NEW i \in 1 .. Len(q)
  PROVE  /\ q[i][1] \in 1 .. Len(L) /\ q[i][2] = F[q[i][1]] /\ q[i][2] \in 1 .. Len(L[q[i][1]])
         /\ L[q[i][1]][q[i][2]].depth = EntryDepth(q, L, d, i)
         /\ EntryDepth(q, L, d, i) \in 0 .. d - 1
         /\ EntryDepth(q, L, d, i) # d - 1 => q[i][2] < Len(L[q[i][1]])
  <1> DEFINE l == q[i][1]
             k == q[i][2]
             z == Len(L[l])
  <1>1. d \in Nat /\ Filled(L, F, d) /\ Queued(q, L, F, d)  BY DEF Building
  <1>2. l \in 1 .. Len(L) /\ k = F[l]  BY <1>1 DEF Queued
  <1> HIDE DEF l, k
  <1>3. z \in Nat /\ F[l] \in 1 .. z /\ z <= d  BY <1>1, <1>2, FilledLists
  <1>4. k \in 1 .. z  BY <1>2, <1>3
  <1>5. L[l][k].depth = DepthAt(L, d, l, k)
    <2>1. k <= F[l]  BY <1>2, <1>4
    <2> QED BY <1>1, <1>2, <1>4, <2>1 DEF Filled
  <1>6. EntryDepth(q, L, d, i) = (d - z) + (k - 1) /\ EntryDepth(q, L, d, i) = DepthAt(L, d, l, k)
    BY DEF EntryDepth, DepthAt, l, k
  <1> HIDE DEF z
  <1>7. (d - z) + (k - 1) \in 0 .. d - 1 /\ ((d - z) + (k - 1) # d - 1 => k < z)  BY ONLY <1>1, <1>3, <1>4
  <1> QED BY <1>2, <1>4, <1>5, <1>6, <1>7 DEF l, k, z

\* No function beyond the last is used.
LEMMA WithinFunctions ==
  ASSUME NEW L, NEW F, NEW base, NEW f, NEW q, NEW wl, NEW st, NEW w, NEW d, NEW N,
         Building(L, F, base, f, q, wl, st, w, d, N)
  PROVE  f \in 0 .. N /\ base \in 0 .. f /\ Len(L) = w - wl[d] /\ wl[d] \in Nat
  <1>1. d \in Nat /\ d >= 2 /\ w \in Nat /\ N \in Nat /\ Filled(L, F, d) /\ base + ((d - 1) * w + 1) <= N
    BY DEF Building, MaxSize
  <1>2. base \in Nat /\ f \in Nat /\ Sum(F) = f - base  BY DEF Building, Used
  <1>3. /\ Len(L) \in Nat /\ Len(L) >= 1 /\ Len(F) = Len(L) /\ Len(L[1]) = d /\ F \in Seq(Nat)
        /\ \A l \in 1 .. Len(L) : /\ Len(L[l]) \in Nat /\ F[l] \in Nat /\ F[l] \in 1 .. Len(L[l]) /\ Len(L[l]) <= d
                                  /\ (l # 1 => Len(L[l]) <= d - 1)
    BY <1>1, FilledLists
  <1>4. Started(L, d, d) = 1 .. Len(L)
    <2>1. ASSUME NEW l \in 1 .. Len(L) PROVE d - Len(L[l]) < d
      <3> DEFINE z == Len(L[l])
      <3>1. z \in Nat /\ F[l] \in 1 .. z  BY <1>3
      <3>2. z \in Nat /\ z >= 1  BY <3>1
      <3> HIDE DEF z
      <3>3. d - z < d  BY ONLY <1>1, <3>2
      <3> QED BY <3>3 DEF z
    <2> QED BY <2>1 DEF Started
  <1>5. Cardinality(1 .. Len(L)) = Len(L)
    <2> DEFINE b == Len(L)
    <2>1. b \in Int /\ 1 \in Int /\ ~(1 > b)  BY <1>3
    <2> HIDE DEF b
    <2>2. Cardinality(1 .. b) = (b - 1) + 1  BY <2>1, FS_Interval
    <2>3. Cardinality(1 .. b) = b  BY <2>1, <2>2
    <2> QED BY <2>3 DEF b
  <1>6. wl[d] \in Nat /\ st[d] = w /\ Cardinality(Started(L, d, d)) = st[d] - wl[d]
    <2>1. d \in 1 .. d  BY <1>1
    <2>2. wl \in [1 .. d -> Nat]  BY DEF Building, Lacking
    <2> QED BY <2>1, <2>2 DEF Building, Lacking
  <1>7. Len(L) = w - wl[d]  BY <1>4, <1>5, <1>6
  <1>8. Sum(F) <= Len(F) * (d - 1) + 1
    <2>1. d - 1 \in Nat  BY <1>1
    <2>2. F[1] <= (d - 1) + 1
      <3>1. 1 \in 1 .. Len(L)  BY <1>3
      <3>2. F[1] \in 1 .. d  BY <1>3, <3>1
      <3> QED BY <1>1, <3>2
    <2>3. ASSUME NEW l \in 1 .. Len(F), l # 1 PROVE F[l] <= d - 1
      <3>1. F[l] \in 1 .. Len(L[l]) /\ Len(L[l]) <= d - 1 /\ Len(L[l]) \in Nat  BY <1>3, <2>3
      <3> QED BY <2>1, <3>1
    <2> QED BY <1>3, <2>1, <2>2, <2>3, SumBounded
  <1>9. Len(L) * (d - 1) <= (d - 1) * w
    <2>1. d - 1 \in Nat /\ Len(L) <= w  BY <1>1, <1>3, <1>6, <1>7
    <2> DEFINE c == d - 1
               a == Len(L)
    <2>2. c \in Nat /\ a \in Nat /\ w \in Nat /\ a <= w  BY <1>1, <1>3, <2>1
    <2> HIDE DEF c, a
    <2>3. a * c <= w * c  BY ONLY <2>2, Products
    <2>4. w * c = c * w  BY ONLY <2>2
    <2>5. a * c <= c * w  BY <2>3, <2>4
    <2> QED BY <2>5 DEF c, a
  <1>10. f <= N
    <2> DEFINE a == Len(L) * (d - 1)
               b == (d - 1) * w
    <2>1. a \in Int /\ b \in Int
      <3>1. d - 1 \in Int /\ Len(L) \in Int /\ w \in Int  BY <1>1, <1>3
      <3> QED BY <3>1
    <2>2. a <= b /\ f - base <= a + 1 /\ base + (b + 1) <= N  BY <1>1, <1>2, <1>3, <1>8, <1>9
    <2> HIDE DEF a, b
    <2> QED BY ONLY <1>1, <1>2, <2>1, <2>2
  <1>11. base <= f
    <2>1. Sum(F) \in Nat  BY <1>3, UptoNat
    <2> QED BY <1>2, <2>1
  <1> QED BY <1>1, <1>2, <1>6, <1>7, <1>10, <1>11

\* additionalBranches, of any DAG.
BranchChoice(L, q, h, wl) ==
  IF Tail(q) # <<>> /\ L[Tail(q)[1][1]][Tail(q)[1][2]].depth = h THEN 0 .. wl[h + 2] ELSE {wl[h + 2]}

\* What is missing after n branches.
Spent(wl, h, n) == [x \in DOMAIN wl |-> IF x >= h + 2 THEN wl[x] - n ELSE wl[x]]

LEMMA BuildStep ==
  ASSUME NEW L, NEW F, NEW base, NEW f, NEW q, NEW wl, NEW st, NEW w, NEW d, NEW N,
         Building(L, F, base, f, q, wl, st, w, d, N), q # <<>>,
         NEW l, NEW k, NEW h, l = q[1][1], k = q[1][2], h = L[l][k].depth, h # d - 1,
         NEW n \in BranchChoice(L, q, h, wl)
  PROVE  \E G : Building(WithChildren(L, d, l, k, h, n, f), G, base, f + (1 + n), QueueWith(q, Len(L), l, k, n),
                            Spent(wl, h, n), st, w, d, N)
  <1> DEFINE M == WithChildren(L, d, l, k, h, n, f)
             G == RaisedBy(F, l, n)
             p == QueueWith(q, Len(L), l, k, n)
             vl == Spent(wl, h, n)
  <1>1. d \in Nat /\ d >= 2 /\ w \in Nat /\ N \in Nat /\ Filled(L, F, d) /\ Used(L, F, base, f)
        /\ Queued(q, L, F, d) /\ Lacking(wl, st, L, q, w, d) /\ base + MaxSize(w, d) <= N
    BY DEF Building
  <1>2. q \in Seq(Nat \X Nat) /\ Len(q) \in Nat /\ 1 \in 1 .. Len(q)
    <2>1. q \in Seq(Nat \X Nat)  BY <1>1 DEF Queued
    <2> QED BY <2>1
  <1>3. /\ l \in 1 .. Len(L) /\ k = F[l] /\ k \in 1 .. Len(L[l]) /\ h = EntryDepth(q, L, d, 1)
        /\ h \in 0 .. d - 1 /\ k < Len(L[l])
    <2>1. /\ q[1][1] \in 1 .. Len(L) /\ q[1][2] = F[q[1][1]] /\ q[1][2] \in 1 .. Len(L[q[1][1]])
          /\ L[q[1][1]][q[1][2]].depth = EntryDepth(q, L, d, 1)
          /\ EntryDepth(q, L, d, 1) \in 0 .. d - 1
          /\ EntryDepth(q, L, d, 1) # d - 1 => q[1][2] < Len(L[q[1][1]])
      <3>1. Building(L, F, base, f, q, wl, st, w, d, N) /\ 1 \in 1 .. Len(q)  BY <1>2
      <3> QED BY ONLY <3>1, EntryIs
    <2>2. l = q[1][1] /\ k = q[1][2] /\ h = L[l][k].depth /\ h # d - 1  OBVIOUS
    <2> QED BY ONLY <2>1, <2>2, Zenon
  <1>4. h = DepthAt(L, d, l, k)  BY <1>3 DEF EntryDepth
  <1>5. h \in Nat /\ h + 1 <= d - 1 /\ h + 2 \in 1 .. d
    <2>1. h \in 0 .. d - 1 /\ h # d - 1 /\ d \in Nat  BY <1>1, <1>3
    <2> QED BY ONLY <2>1
  <1>6. wl \in [1 .. d -> Nat] /\ DOMAIN wl = 1 .. d /\ wl[h + 2] \in Nat
    <2>1. wl \in [1 .. d -> Nat]  BY <1>1 DEF Lacking
    <2> QED BY <1>5, <2>1
  <1>7. n \in Nat /\ n <= wl[h + 2] /\ ((Len(q) >= 2 /\ EntryDepth(q, L, d, 2) = h) \/ n = wl[h + 2])
    <2>1. CASE Tail(q) # <<>> /\ L[Tail(q)[1][1]][Tail(q)[1][2]].depth = h
      <3>1. n \in 0 .. wl[h + 2]  BY <2>1 DEF BranchChoice
      <3>2. Len(q) >= 2
        <4> DEFINE t == Tail(q)
        <4>1. t \in Seq(Nat \X Nat) /\ Len(t) = Len(q) - 1 /\ t # <<>>  BY <1>2, <2>1
        <4> HIDE DEF t
        <4>2. Len(t) # 0  BY <4>1
        <4> QED BY <1>2, <4>1, <4>2
      <3>3. Tail(q)[1] = q[2]  BY <1>2, <3>2
      <3>4. 2 \in 1 .. Len(q)  BY <1>2, <3>2
      <3>5. L[q[2][1]][q[2][2]].depth = EntryDepth(q, L, d, 2)
        <4>1. Building(L, F, base, f, q, wl, st, w, d, N) /\ 2 \in 1 .. Len(q)  BY <3>4
        <4> QED BY ONLY <4>1, EntryIs
      <3>6. EntryDepth(q, L, d, 2) = h
        <4>1. L[Tail(q)[1][1]][Tail(q)[1][2]].depth = h  BY <2>1
        <4> QED BY ONLY <3>3, <3>5, <4>1
      <3>7. wl[h + 2] \in Nat  BY <1>6
      <3>8. n \in Nat /\ n <= wl[h + 2]  BY ONLY <3>1, <3>7
      <3> QED BY ONLY <3>2, <3>6, <3>8
    <2>2. CASE ~(Tail(q) # <<>> /\ L[Tail(q)[1][1]][Tail(q)[1][2]].depth = h)
      <3>1. n \in {wl[h + 2]}  BY <2>2 DEF BranchChoice
      <3>2. wl[h + 2] \in Nat  BY <1>6
      <3> QED BY ONLY <3>1, <3>2
    <2> QED BY <2>1, <2>2
  <1>8. L \in Seq(Seq(NodeType)) /\ F \in Seq(Nat) /\ Len(F) = Len(L) /\ Len(L) \in Nat /\ Len(L[l]) \in Nat
    <2>1. L \in Seq(Seq(NodeType)) /\ F \in Seq(Nat) /\ Len(F) = Len(L)  BY <1>1 DEF Filled
    <2>2. Len(L) \in Nat /\ Len(L[l]) \in Nat  BY <1>1, <1>3, FilledLists
    <2> QED BY <2>1, <2>2
  <1>9. f \in Nat /\ k \in Nat /\ l \in Nat /\ k \in 1 .. Len(L[l]) - 1
    <2>1. f \in Nat  BY <1>1 DEF Used
    <2>2. k \in 1 .. Len(L[l]) - 1
      <3> DEFINE z == Len(L[l])
      <3>1. z \in Nat /\ k \in 1 .. z /\ k < z  BY <1>3, <1>8
      <3> HIDE DEF z
      <3>2. k \in 1 .. z - 1  BY ONLY <3>1
      <3> QED BY <3>2 DEF z
    <2> QED BY <1>3, <2>1, <2>2
  <1> HIDE DEF M, G, p
  <1>10. Grown(L, M, d, l, k, h, n, f)
    <2>1. h \in Nat /\ h + 1 <= d - 1 /\ n \in Nat /\ f \in Nat /\ d \in Nat  BY <1>1, <1>5, <1>7, <1>9
    <2> QED BY ONLY <1>3, <1>8, <1>9, <2>1, GrownIs DEF M
  <1>11. Raised(F, G, l, n)  BY <1>3, <1>7, <1>8, RaisedIs DEF G
  <1>12. Moved(q, p, Len(L), l, k, n)  BY <1>2, <1>7, <1>8, <1>9, MovedIs DEF p
  <1>13. Stepped(L, M, F, G, d, l, k, h, n, f, q, p)
    BY <1>1, <1>3, <1>4, <1>5, <1>7, <1>9, <1>10, <1>11, <1>12 DEF Stepped
  <1>14. Filled(M, G, d) /\ Queued(p, M, G, d)  BY <1>13, FilledStep, QueuedStep
  <1>15. Used(M, G, base, f + (1 + n))
    <2>1. Used(M, G, base, f + 1 + n)  BY <1>1, <1>13, UsedStep
    <2>2. f + 1 + n = f + (1 + n)  BY <1>7, <1>9
    <2> QED BY <2>1, <2>2
  <1>16. vl = [x \in 1 .. d |-> IF x >= h + 2 THEN wl[x] - n ELSE wl[x]]  BY <1>6 DEF Spent
  <1> HIDE DEF vl
  <1>17. Lacking(vl, st, M, p, w, d)
    <2>1. h + 1 <= d - 1 /\ n <= wl[h + 2] /\ ((Len(q) >= 2 /\ EntryDepth(q, L, d, 2) = h) \/ n = wl[h + 2])
      BY <1>5, <1>7
    <2> QED BY ONLY <1>1, <1>13, <1>16, <2>1, LackingStep
  <1>18. Building(M, G, base, f + (1 + n), p, vl, st, w, d, N)  BY <1>1, <1>14, <1>15, <1>17 DEF Building
  <1> QED BY <1>18 DEF M, G, p, vl

-----------------------------------------------------------------------------
(***************************************************************************)
(* Finished DAGs                                                            *)
(***************************************************************************)
\* Every place has a depth and a function of its own, from lo to hi - 1.
Complete(L, d, lo, hi) ==
  /\ d \in Nat /\ d >= 1 /\ L \in Seq(Seq(NodeType)) /\ Len(L) >= 1 /\ Len(L[1]) = d
  /\ lo \in Nat /\ hi \in Nat /\ lo <= hi
  /\ \A l \in 1 .. Len(L) : Len(L[l]) \in 1 .. d
  /\ \A l \in 1 .. Len(L) : \A k \in 1 .. Len(L[l]) :
       L[l][k].depth = DepthAt(L, d, l, k) /\ L[l][k].function \in lo .. hi - 1
  /\ \A l, m \in 1 .. Len(L) : \A k \in 1 .. Len(L[l]) : \A j \in 1 .. Len(L[m]) :
       L[l][k].function = L[m][j].function => l = m /\ k = j

DagType == [lists : Seq(Seq(NodeType)), width : Int, depth : Int, stages : Seq(Nat)]

Finished(t, lo, hi) ==
  /\ t \in DagType /\ Complete(t.lists, t.depth, lo, hi)
  /\ Len(t.lists) = t.width \/ t.depth = 1
  /\ \A x \in 1 .. t.depth : Cardinality(Started(t.lists, t.depth, x)) = t.stages[x]

\* DAG i has the functions from B[i] to B[i + 1] - 1; f is the next function.
AllFinished(T, B, f) ==
  /\ T \in Seq(DagType) /\ B \in Seq(Nat) /\ Len(B) = Len(T) + 1 /\ B[Len(T) + 1] = f
  /\ \A i, j \in 1 .. Len(B) : i <= j => B[i] <= B[j]
  /\ \A i \in 1 .. Len(T) : Finished(T[i], B[i], B[i + 1])

LEMMA FilledIsComplete ==
  ASSUME NEW L, NEW F, NEW d \in Nat, d >= 1, NEW lo, NEW hi, Filled(L, F, d), Used(L, F, lo, hi), lo <= hi,
         \A l \in 1 .. Len(L) : F[l] = Len(L[l])
  PROVE  Complete(L, d, lo, hi)
  <1>1. /\ L \in Seq(Seq(NodeType)) /\ Len(L) >= 1 /\ Len(L[1]) = d
        /\ \A l \in 1 .. Len(L) : Len(L[l]) \in Nat /\ F[l] \in 1 .. Len(L[l]) /\ Len(L[l]) <= d
    <2>1. L \in Seq(Seq(NodeType)) /\ Len(L) >= 1 /\ Len(L[1]) = d  BY DEF Filled
    <2> QED BY <2>1, FilledLists
  <1>2. lo \in Nat /\ hi \in Nat  BY DEF Used
  <1>3. ASSUME NEW l \in 1 .. Len(L) PROVE Len(L[l]) \in 1 .. d
    <2>1. Len(L[l]) \in Nat /\ Len(L[l]) \in 1 .. Len(L[l]) /\ Len(L[l]) <= d  BY <1>1
    <2> QED BY <2>1
  <1>4. ASSUME NEW l \in 1 .. Len(L), NEW k \in 1 .. Len(L[l])
        PROVE  L[l][k].depth = DepthAt(L, d, l, k) /\ L[l][k].function \in lo .. hi - 1
    <2>1. F[l] = Len(L[l]) /\ Len(L[l]) \in Nat  BY <1>1
    <2>2. k <= F[l] /\ k \in 1 .. F[l]  BY <2>1
    <2>3. L[l][k].depth = DepthAt(L, d, l, k)  BY <2>2 DEF Filled
    <2>4. L[l][k].function \in lo .. hi - 1  BY <2>2 DEF Used
    <2> QED BY <2>3, <2>4
  <1>5. ASSUME NEW l \in 1 .. Len(L), NEW m \in 1 .. Len(L), NEW k \in 1 .. Len(L[l]), NEW j \in 1 .. Len(L[m]),
               L[l][k].function = L[m][j].function
        PROVE  l = m /\ k = j
    <2>1. k \in 1 .. F[l] /\ j \in 1 .. F[m]  OBVIOUS
    <2> QED BY <1>5, <2>1 DEF Used
  <1> QED BY <1>1, <1>2, <1>3, <1>4, <1>5 DEF Complete

\* When the queue is empty, no list has a placeholder and no stage lacks a node.
LEMMA BuildEnds ==
  ASSUME NEW L, NEW F, NEW base, NEW f, NEW q, NEW wl, NEW st, NEW w, NEW d, NEW N,
         Building(L, F, base, f, q, wl, st, w, d, N), q = <<>>
  PROVE  Finished([lists |-> L, width |-> w, depth |-> d, stages |-> st], base, f)
  <1> DEFINE t == [lists |-> L, width |-> w, depth |-> d, stages |-> st]
  <1>1. /\ d \in Nat /\ d >= 2 /\ w \in Nat /\ Filled(L, F, d) /\ Used(L, F, base, f) /\ Queued(q, L, F, d)
        /\ Lacking(wl, st, L, q, w, d)
    BY DEF Building
  <1>2. base <= f /\ Len(L) = w - wl[d]
    <2>1. base \in 0 .. f /\ f \in Nat /\ Len(L) = w - wl[d]  BY <1>1, WithinFunctions DEF Used
    <2> QED BY <2>1
  <1>3. ASSUME NEW l \in 1 .. Len(L) PROVE F[l] = Len(L[l])
    <2>1. ~(F[l] < Len(L[l]))
      <3>1. ~ \E i \in 1 .. Len(q) : q[i][1] = l  OBVIOUS
      <3> QED BY <1>1, <3>1 DEF Queued
    <2>2. Len(L[l]) \in Nat /\ F[l] \in 1 .. Len(L[l])  BY <1>1, FilledLists
    <2> QED BY <2>1, <2>2
  <1>4. \A x \in 1 .. d : wl[x] = 0 /\ st[x] \in Nat  BY <1>1 DEF Lacking
  <1>5. \A x \in 1 .. d : Cardinality(Started(L, d, x)) = st[x]
    <2>1. \A x \in 1 .. d : Cardinality(Started(L, d, x)) = st[x] - wl[x]  BY <1>1 DEF Lacking
    <2> QED BY <1>4, <2>1
  <1>6. Len(L) = w
    <2>1. d \in 1 .. d  BY <1>1
    <2> QED BY <1>1, <1>2, <1>4, <2>1
  <1>7. d \in Nat /\ d >= 1  BY <1>1
  <1>8. Complete(L, d, base, f)  BY <1>1, <1>2, <1>3, <1>7, FilledIsComplete
  <1>9. t \in DagType
    <2>1. st \in [1 .. d -> Nat]  BY <1>1 DEF Lacking
    <2>2. st \in Seq(Nat)  BY <1>7, <2>1
    <2>3. L \in Seq(Seq(NodeType))  BY <1>8 DEF Complete
    <2> QED BY <1>1, <2>2, <2>3 DEF DagType
  <1>10. t.lists = L /\ t.width = w /\ t.depth = d /\ t.stages = st  OBVIOUS
  <1> HIDE DEF t
  <1>11. Finished(t, base, f)  BY <1>5, <1>6, <1>8, <1>9, <1>10 DEF Finished
  <1> QED BY <1>11 DEF t

\* A DAG of depth one is its root.
LEMMA RootFinished ==
  ASSUME NEW w \in Int, NEW f \in Nat
  PROVE  Finished([lists |-> <<<<Node(f, 0)>>>>, width |-> w, depth |-> 1, stages |-> <<1>>], f, f + 1)
  <1> DEFINE L == <<<<Node(f, 0)>>>>
             st == <<1>>
             t == [lists |-> L, width |-> w, depth |-> 1, stages |-> st]
             F == <<1>>
  <1>1. FirstList(f, 1) = <<Node(f, 0)>>
    <2>1. \A i \in 1 .. 1 : i = 1  OBVIOUS
    <2>2. FirstList(f, 1) = [i \in 1 .. 1 |-> Node(f, 0)]  BY <2>1 DEF FirstList
    <2> QED BY <2>2
  <1>2. 1 \in Nat /\ 1 >= 1  OBVIOUS
  <1>3. /\ Filled(L, F, 1) /\ Used(L, F, f, f + 1)
        /\ \A x \in 1 .. 1 : Cardinality(Started(L, 1, x)) = 1
    BY ONLY <1>1, <1>2, f \in Nat, RootFilled
  <1>4. Len(L) = 1 /\ F[1] = 1 /\ Len(L[1]) = 1 /\ st[1] = 1 /\ st \in Seq(Nat)  OBVIOUS
  <1>5. t.lists = L /\ t.width = w /\ t.depth = 1 /\ t.stages = st  OBVIOUS
  <1> HIDE DEF L, F, st
  <1>6. \A l \in 1 .. Len(L) : F[l] = Len(L[l])
    <2>1. \A l \in 1 .. Len(L) : l = 1  BY <1>4
    <2> QED BY <1>4, <2>1
  <1>7. Complete(L, 1, f, f + 1)
    <2>1. f <= f + 1  OBVIOUS
    <2> QED BY <1>2, <1>3, <1>6, <2>1, FilledIsComplete
  <1>8. t \in DagType
    <2>1. L \in Seq(Seq(NodeType))  BY <1>7 DEF Complete
    <2> QED BY <1>4, <2>1 DEF DagType
  <1>9. \A x \in 1 .. 1 : Cardinality(Started(L, 1, x)) = st[x]
    <2>1. \A x \in 1 .. 1 : x = 1  OBVIOUS
    <2> QED BY <1>3, <1>4, <2>1
  <1> HIDE DEF t
  <1>10. Finished(t, f, f + 1)  BY <1>5, <1>7, <1>8, <1>9 DEF Finished
  <1> QED BY <1>10 DEF t, L, st

\* One more DAG.
LEMMA FinishOne ==
  ASSUME NEW T, NEW B, NEW base, NEW f, NEW t, AllFinished(T, B, base), Finished(t, base, f)
  PROVE  AllFinished(Append(T, t), Append(B, f), f)
  <1> DEFINE S == Append(T, t)
             C == Append(B, f)
             n == Len(T)
  <1>1. /\ T \in Seq(DagType) /\ B \in Seq(Nat) /\ Len(B) = n + 1 /\ B[n + 1] = base
        /\ \A i, j \in 1 .. Len(B) : i <= j => B[i] <= B[j]
        /\ \A i \in 1 .. n : Finished(T[i], B[i], B[i + 1])
    BY DEF AllFinished
  <1>2. t \in DagType /\ base \in Nat /\ f \in Nat /\ base <= f  BY DEF Finished, Complete
  <1>3. n \in Nat  BY <1>1
  <1>4. S \in Seq(DagType) /\ Len(S) = n + 1 /\ S[n + 1] = t /\ \A i \in 1 .. n : S[i] = T[i]  BY <1>1, <1>2
  <1>5. C \in Seq(Nat) /\ Len(C) = (n + 1) + 1 /\ C[(n + 1) + 1] = f /\ \A i \in 1 .. n + 1 : C[i] = B[i]
    BY <1>1, <1>2
  <1> HIDE DEF S, C, n
  <1>6. ASSUME NEW i \in 1 .. Len(C), NEW j \in 1 .. Len(C), i <= j PROVE C[i] <= C[j]
    <2>1. CASE j \in 1 .. n + 1
      <3>1. i \in 1 .. n + 1  BY <1>3, <1>6, <2>1
      <3> QED BY <1>1, <1>5, <1>6, <2>1, <3>1
    <2>2. CASE j = (n + 1) + 1 /\ i \in 1 .. n + 1
      <3>1. n + 1 \in 1 .. n + 1 /\ i <= n + 1  BY <1>3, <2>2
      <3>2. B[i] <= base  BY <1>1, <2>2, <3>1
      <3>3. B[i] \in Nat  BY <1>1, <2>2
      <3>4. B[i] <= f  BY ONLY <1>2, <3>2, <3>3
      <3> QED BY <1>5, <2>2, <3>4
    <2>3. CASE j = (n + 1) + 1 /\ i = (n + 1) + 1
      <3>1. f <= f  BY <1>2
      <3> QED BY <1>5, <2>3, <3>1
    <2>4. j \in 1 .. n + 1 \/ j = (n + 1) + 1  BY ONLY <1>3, <1>5, j \in 1 .. Len(C)
    <2>5. i \in 1 .. n + 1 \/ i = (n + 1) + 1  BY ONLY <1>3, <1>5, i \in 1 .. Len(C)
    <2> QED BY <2>1, <2>2, <2>3, <2>4, <2>5
  <1>7. ASSUME NEW i \in 1 .. n + 1 PROVE Finished(S[i], C[i], C[i + 1])
    <2>1. CASE i \in 1 .. n
      <3>1. S[i] = T[i]  BY <1>4, <2>1
      <3>2. C[i] = B[i] /\ C[i + 1] = B[i + 1]
        <4>1. i \in 1 .. n + 1 /\ i + 1 \in 1 .. n + 1  BY <1>3, <2>1
        <4> QED BY <1>5, <4>1
      <3> QED BY <1>1, <2>1, <3>1, <3>2
    <2>2. CASE i = n + 1
      <3>1. n + 1 \in 1 .. n + 1  BY <1>3
      <3>2. C[i] = base /\ C[i + 1] = f  BY <1>1, <1>5, <2>2, <3>1
      <3> QED BY <1>4, <2>2, <3>2
    <2>3. i \in 1 .. n \/ i = n + 1  BY <1>3
    <2> QED BY <2>1, <2>2, <2>3
  <1>8. AllFinished(S, C, f)  BY <1>4, <1>5, <1>6, <1>7 DEF AllFinished
  <1> QED BY <1>8 DEF S, C

-----------------------------------------------------------------------------
(***************************************************************************)
(* What a finished DAG looks like                                           *)
(***************************************************************************)
LEMMA PlacesAre ==
  ASSUME NEW L
  PROVE  /\ \A p \in Places(L) : /\ p[1] \in 1 .. Len(L) /\ p[2] \in 1 .. Len(L[p[1]])
                                 /\ p = <<p[1], p[2]>>
         /\ \A l \in 1 .. Len(L) : \A k \in 1 .. Len(L[l]) : <<l, k>> \in Places(L)
  BY DEF Places

\* Each list that has reached a stage has one node of it.
LEMMA StageSize ==
  ASSUME NEW L, NEW d, NEW lo, NEW hi, Complete(L, d, lo, hi), NEW j \in 1 .. d
  PROVE  Cardinality({p \in Places(L) : L[p[1]][p[2]].depth = j - 1}) = Cardinality(Started(L, d, j))
  <1> DEFINE P == {p \in Places(L) : L[p[1]][p[2]].depth = j - 1}
             S == Started(L, d, j)
             at(l) == j - (d - Len(L[l]))
             g == [l \in S |-> <<l, at(l)>>]
  <1>1. /\ d \in Nat /\ L \in Seq(Seq(NodeType)) /\ \A l \in 1 .. Len(L) : Len(L[l]) \in 1 .. d
        /\ \A l \in 1 .. Len(L) : \A k \in 1 .. Len(L[l]) : L[l][k].depth = DepthAt(L, d, l, k)
    BY DEF Complete
  <1>2. ASSUME NEW l \in 1 .. Len(L), NEW k \in 1 .. Len(L[l])
        PROVE  L[l][k].depth = j - 1 <=> (l \in S /\ k = at(l))
    <2> DEFINE z == Len(L[l])
    <2>1. L[l][k].depth = (d - z) + (k - 1)  BY <1>1 DEF DepthAt
    <2>2. l \in S <=> d - z < j  BY DEF Started
    <2>3. at(l) = j - (d - z)  OBVIOUS
    <2>4. z \in Nat /\ z \in 1 .. d /\ k \in 1 .. z /\ d \in Nat /\ j \in 1 .. d  BY <1>1
    <2> HIDE DEF z, S, at
    <2>5. (d - z) + (k - 1) = j - 1 <=> (d - z < j /\ k = j - (d - z))  BY ONLY <2>4
    <2> QED BY <2>1, <2>2, <2>3, <2>5
  <1>3. ASSUME NEW l \in S PROVE l \in 1 .. Len(L) /\ at(l) \in 1 .. Len(L[l])
    <2> DEFINE z == Len(L[l])
    <2>1. l \in 1 .. Len(L) /\ d - z < j  BY DEF Started
    <2>2. z \in 1 .. d /\ d \in Nat /\ j \in 1 .. d  BY <1>1, <2>1
    <2>3. at(l) = j - (d - z)  OBVIOUS
    <2> HIDE DEF z, S, at
    <2>4. j - (d - z) \in 1 .. z  BY ONLY <2>1, <2>2
    <2>5. at(l) \in 1 .. z  BY <2>3, <2>4
    <2> QED BY <2>1, <2>5 DEF z
  <1> HIDE DEF S, at
  <1>4. ASSUME NEW l \in S PROVE <<l, at(l)>> \in P
    <2>1. l \in 1 .. Len(L) /\ at(l) \in 1 .. Len(L[l])  BY <1>3
    <2>2. L[l][at(l)].depth = j - 1  BY <1>2, <2>1
    <2>3. <<l, at(l)>> \in Places(L)  BY <2>1, PlacesAre
    <2> QED BY <2>2, <2>3
  <1>5. ASSUME NEW p \in P PROVE \E l \in S : p = <<l, at(l)>>
    <2>1. p[1] \in 1 .. Len(L) /\ p[2] \in 1 .. Len(L[p[1]]) /\ p = <<p[1], p[2]>>  BY PlacesAre
    <2>2. L[p[1]][p[2]].depth = j - 1  OBVIOUS
    <2>3. p[1] \in S /\ p[2] = at(p[1])  BY <1>2, <2>1, <2>2
    <2> QED BY <2>1, <2>3
  <1> HIDE DEF P
  <1>6. g \in [S -> P] /\ \A l \in S : g[l] = <<l, at(l)>>  BY <1>4
  <1> HIDE DEF g
  <1>7. g \in Bijection(S, P)
    <2>1. \A l, m \in S : g[l] = g[m] => l = m  BY <1>6
    <2>2. \A p \in P : \E l \in S : g[l] = p  BY <1>5, <1>6
    <2>3. DOMAIN g = S  BY <1>6
    <2> QED BY <1>6, <2>1, <2>2, <2>3 DEF Bijection, Injection, Surjection, IsInjective
  <1>8. ExistsBijection(S, P)  BY <1>7 DEF ExistsBijection
  <1>9. IsFiniteSet(S)
    <2>1. Len(L) \in Nat  BY <1>1
    <2>2. IsFiniteSet(1 .. Len(L))  BY <2>1, FS_Interval
    <2>3. S \in SUBSET (1 .. Len(L))  BY <1>3
    <2> QED BY <2>2, <2>3, FS_Subset
  <1>10. Cardinality(P) = Cardinality(S)  BY <1>8, <1>9, FS_Bijection
  <1> QED BY <1>10 DEF P, S

\* The parts of DagShapeRight.
LEMMA FinishedShape ==
  ASSUME NEW t, NEW lo, NEW hi, Finished(t, lo, hi)
  PROVE  /\ Len(t.lists) = t.width \/ t.depth = 1
         /\ Len(t.lists[1]) = t.depth
         /\ \A j \in 1 .. t.depth :
              Cardinality({p \in Places(t.lists) : t.lists[p[1]][p[2]].depth = j - 1}) = t.stages[j]
         /\ \A l \in 1 .. Len(t.lists) : t.lists[l][Len(t.lists[l])].depth = t.depth - 1
         /\ \A p \in Places(t.lists) : t.lists[p[1]][p[2]].depth >= 0
  <1> DEFINE L == t.lists
             d == t.depth
  <1>1. /\ Complete(L, d, lo, hi) /\ (Len(L) = t.width \/ d = 1)
        /\ \A x \in 1 .. d : Cardinality(Started(L, d, x)) = t.stages[x]
    BY DEF Finished
  <1> HIDE DEF L, d
  <1>2. /\ d \in Nat /\ d >= 1 /\ Len(L[1]) = d /\ \A l \in 1 .. Len(L) : Len(L[l]) \in 1 .. d
        /\ \A l \in 1 .. Len(L) : \A k \in 1 .. Len(L[l]) : L[l][k].depth = DepthAt(L, d, l, k)
    BY <1>1 DEF Complete
  <1>3. ASSUME NEW j \in 1 .. d
        PROVE  Cardinality({p \in Places(L) : L[p[1]][p[2]].depth = j - 1}) = t.stages[j]
    BY <1>1, StageSize
  <1>4. ASSUME NEW l \in 1 .. Len(L), NEW k \in 1 .. Len(L[l])
        PROVE  L[l][k].depth >= 0 /\ (k = Len(L[l]) => L[l][k].depth = d - 1)
    <2> DEFINE z == Len(L[l])
    <2>1. L[l][k].depth = (d - z) + (k - 1)  BY <1>2 DEF DepthAt
    <2>2. z \in 1 .. d /\ d \in Nat /\ k \in 1 .. z  BY <1>2
    <2> HIDE DEF z
    <2>3. (d - z) + (k - 1) >= 0 /\ (k = z => (d - z) + (k - 1) = d - 1)  BY ONLY <2>2
    <2> QED BY <2>1, <2>3 DEF z
  <1>5. ASSUME NEW l \in 1 .. Len(L) PROVE L[l][Len(L[l])].depth = d - 1
    <2>1. Len(L[l]) \in 1 .. Len(L[l])  BY <1>2
    <2> QED BY <1>4, <2>1
  <1>6. ASSUME NEW p \in Places(L) PROVE L[p[1]][p[2]].depth >= 0
    <2>1. p[1] \in 1 .. Len(L) /\ p[2] \in 1 .. Len(L[p[1]])  BY PlacesAre
    <2> QED BY <1>4, <2>1
  <1>7. Len(L) = t.width \/ d = 1  BY <1>1
  <1> QED BY <1>2, <1>3, <1>5, <1>6, <1>7 DEF L, d

-----------------------------------------------------------------------------
(***************************************************************************)
(* Functions of several DAGs                                                *)
(***************************************************************************)
\* The functions in L are from lo to hi - 1, and no one is in two places.
Owns(L, lo, hi) ==
  /\ lo \in Nat /\ hi \in Nat
  /\ \A l \in 1 .. Len(L) : \A k \in 1 .. Len(L[l]) :
       L[l][k].function # -1 => L[l][k].function \in lo .. hi - 1
  /\ \A l, m \in 1 .. Len(L) : \A k \in 1 .. Len(L[l]) : \A j \in 1 .. Len(L[m]) :
       L[l][k].function # -1 /\ L[l][k].function = L[m][j].function => l = m /\ k = j

LEMMA FinishedOwns ==
  ASSUME NEW t, NEW lo, NEW hi, Finished(t, lo, hi)
  PROVE  Owns(t.lists, lo, hi)
  <1> DEFINE L == t.lists
  <1>1. Complete(L, t.depth, lo, hi)  BY DEF Finished
  <1> HIDE DEF L
  <1>2. /\ lo \in Nat /\ hi \in Nat
        /\ \A l \in 1 .. Len(L) : \A k \in 1 .. Len(L[l]) : L[l][k].function \in lo .. hi - 1
        /\ \A l, m \in 1 .. Len(L) : \A k \in 1 .. Len(L[l]) : \A j \in 1 .. Len(L[m]) :
             L[l][k].function = L[m][j].function => l = m /\ k = j
    BY ONLY <1>1, Zenon DEF Complete
  <1>3. Owns(L, lo, hi)  BY ONLY <1>2, Zenon DEF Owns
  <1> QED BY <1>3 DEF L

LEMMA BuildingOwns ==
  ASSUME NEW L, NEW F, NEW base, NEW f, NEW q, NEW wl, NEW st, NEW w, NEW d, NEW N,
         Building(L, F, base, f, q, wl, st, w, d, N)
  PROVE  Owns(L, base, f)
  <1>1. d \in Nat /\ Filled(L, F, d) /\ Used(L, F, base, f)  BY DEF Building
  <1>2. ASSUME NEW l \in 1 .. Len(L), NEW k \in 1 .. Len(L[l]), L[l][k].function # -1 PROVE k \in 1 .. F[l]
    <2>1. k <= F[l]  BY <1>1, <1>2 DEF Filled
    <2>2. F[l] \in Nat /\ Len(L[l]) \in Nat  BY <1>1, FilledLists
    <2> QED BY <2>1, <2>2
  <1>3. base \in Nat /\ f \in Nat  BY <1>1 DEF Used
  <1>4. ASSUME NEW l \in 1 .. Len(L), NEW k \in 1 .. Len(L[l]), L[l][k].function # -1
        PROVE  L[l][k].function \in base .. f - 1
    <2>1. k \in 1 .. F[l]  BY <1>2, <1>4
    <2> QED BY <1>1, <2>1 DEF Used
  <1>5. ASSUME NEW l \in 1 .. Len(L), NEW m \in 1 .. Len(L), NEW k \in 1 .. Len(L[l]), NEW j \in 1 .. Len(L[m]),
               L[l][k].function # -1, L[l][k].function = L[m][j].function
        PROVE  l = m /\ k = j
    <2>1. k \in 1 .. F[l] /\ j \in 1 .. F[m]  BY <1>2, <1>5
    <2> QED BY <1>1, <1>5, <2>1 DEF Used
  <1> QED BY <1>3, <1>4, <1>5 DEF Owns

\* The lists of all DAGs, the functions of each of which end where the next ones begin.
Owned(A, C, N) ==
  /\ N \in Nat /\ Len(A) \in Nat /\ C \in Seq(Nat) /\ Len(C) = Len(A) + 1 /\ C[Len(A) + 1] <= N
  /\ \A i, j \in 1 .. Len(C) : i <= j => C[i] <= C[j]
  /\ \A i \in 1 .. Len(A) : Owns(A[i], C[i], C[i + 1])

\* The function at place k of list l of DAG i is there only.
Once(A, N, i, l, k) ==
  /\ A[i][l][k].function < N
  /\ \A j \in 1 .. Len(A) : \A m \in 1 .. Len(A[j]) : \A n \in 1 .. Len(A[j][m]) :
       A[j][m][n].function = A[i][l][k].function => i = j /\ l = m /\ k = n

LEMMA OwnedOnce ==
  ASSUME NEW A, NEW C, NEW N, Owned(A, C, N),
         NEW i \in 1 .. Len(A), NEW l \in 1 .. Len(A[i]), NEW k \in 1 .. Len(A[i][l]),
         A[i][l][k].function # -1
  PROVE  Once(A, N, i, l, k)
  <1> DEFINE f == A[i][l][k].function
             z == Len(A)
  <1>1. N \in Nat /\ z \in Nat /\ C \in Seq(Nat) /\ Len(C) = z + 1 /\ C[z + 1] <= N  BY DEF Owned
  <1>2. \A x, y \in 1 .. z + 1 : x <= y => C[x] <= C[y]  BY <1>1 DEF Owned
  <1>3. \A x \in 1 .. z : Owns(A[x], C[x], C[x + 1])  BY DEF Owned
  <1>4. f \in C[i] .. C[i + 1] - 1  BY <1>3 DEF Owns
  <1> HIDE DEF z
  <1>5. \A x \in 1 .. z + 1 : C[x] \in Nat  BY ONLY <1>1
  <1>6. i \in 1 .. z  BY DEF z
  <1>7. i \in 1 .. z + 1 /\ i + 1 \in 1 .. z + 1 /\ z + 1 \in 1 .. z + 1 /\ i + 1 <= z + 1  BY <1>1, <1>6
  <1>8. f < N
    <2>1. C[i + 1] <= C[z + 1]  BY <1>2, <1>7
    <2>2. C[i] \in Nat /\ C[i + 1] \in Nat /\ C[z + 1] \in Nat  BY <1>5, <1>7
    <2> HIDE DEF f
    <2> QED BY ONLY SMTT(30), <1>1, <1>4, <2>1, <2>2
  <1>9. ASSUME NEW j \in 1 .. z, NEW m \in 1 .. Len(A[j]), NEW n \in 1 .. Len(A[j][m]), A[j][m][n].function = f
        PROVE  i = j /\ l = m /\ k = n
    <2>1. A[j][m][n].function # -1  BY <1>9
    <2>2. f \in C[j] .. C[j + 1] - 1
      <3>1. A[j][m][n].function \in C[j] .. C[j + 1] - 1  BY <1>3, <2>1 DEF Owns
      <3> QED BY <1>9, <3>1
    <2>3. j \in 1 .. z + 1 /\ j + 1 \in 1 .. z + 1  BY <1>1
    <2>4. C[i] \in Nat /\ C[i + 1] \in Nat /\ C[j] \in Nat /\ C[j + 1] \in Nat  BY <1>5, <1>7, <2>3
    <2>5. ~(i < j)
      <3> SUFFICES ASSUME i < j PROVE FALSE  OBVIOUS
      <3>1. i + 1 <= j  BY <1>6
      <3>2. C[i + 1] <= C[j]  BY <1>2, <1>7, <2>3, <3>1
      <3> HIDE DEF f
      <3> QED BY ONLY <1>4, <2>2, <2>4, <3>2
    <2>6. ~(j < i)
      <3> SUFFICES ASSUME j < i PROVE FALSE  OBVIOUS
      <3>1. j + 1 <= i  BY <1>6
      <3>2. C[j + 1] <= C[i]  BY <1>2, <1>7, <2>3, <3>1
      <3> HIDE DEF f
      <3> QED BY ONLY <1>4, <2>2, <2>4, <3>2
    <2>7. i = j  BY <1>6, <2>5, <2>6
    <2>8. l = m /\ k = n
      <3>1. Owns(A[i], C[i], C[i + 1])  BY <1>3, <1>6
      <3>2. m \in 1 .. Len(A[i]) /\ n \in 1 .. Len(A[i][m]) /\ A[i][l][k].function = A[i][m][n].function
        BY <1>9, <2>7
      <3> QED BY <3>1, <3>2 DEF Owns
    <2> QED BY <2>7, <2>8
  <1> QED BY <1>8, <1>9 DEF z, Once

\* The lists of the finished DAGs and of the one being built.
LEMMA AllOwned ==
  ASSUME NEW T, NEW B, NEW base, NEW f, NEW L, NEW N, AllFinished(T, B, base), Owns(L, base, f),
         base \in Nat, f \in Nat, N \in Nat, base <= f, f <= N
  PROVE  \E C : Owned([i \in 1 .. Len(T) |-> T[i].lists] \o <<L>>, C, N)
  <1> DEFINE n == Len(T)
             R == [i \in 1 .. n |-> T[i].lists]
             A == R \o <<L>>
             C == Append(B, f)
             S == {L} \cup {T[i].lists : i \in 1 .. n}
  <1>1. /\ B \in Seq(Nat) /\ Len(B) = n + 1 /\ B[n + 1] = base /\ n \in Nat
        /\ \A i, j \in 1 .. n + 1 : i <= j => B[i] <= B[j]
        /\ \A i \in 1 .. n : Finished(T[i], B[i], B[i + 1])
    BY DEF AllFinished
  <1>2. C \in Seq(Nat) /\ Len(C) = (n + 1) + 1 /\ C[(n + 1) + 1] = f /\ \A i \in 1 .. n + 1 : C[i] = B[i]
    BY <1>1
  <1> HIDE DEF n
  <1>3. R \in [1 .. n -> S]  OBVIOUS
  <1>4. (\A i \in 1 .. n : R[i] = T[i].lists) /\ L \in S  OBVIOUS
  <1> HIDE DEF R, S, C
  <1>5. R \in Seq(S) /\ Len(R) = n /\ <<L>> \in Seq(S) /\ Len(<<L>>) = 1 /\ <<L>>[1] = L  BY ONLY <1>1, <1>3, <1>4
  <1>6. Len(A) = n + 1 /\ A[n + 1] = L /\ \A i \in 1 .. n : A[i] = R[i]  BY <1>1, <1>5
  <1> HIDE DEF A
  <1>7. ASSUME NEW i \in 1 .. (n + 1) + 1, NEW j \in 1 .. (n + 1) + 1, i <= j PROVE C[i] <= C[j]
    <2>1. CASE j \in 1 .. n + 1
      <3>1. i \in 1 .. n + 1  BY <1>1, <1>7, <2>1
      <3> QED BY <1>1, <1>2, <1>7, <2>1, <3>1
    <2>2. CASE j = (n + 1) + 1 /\ i \in 1 .. n + 1
      <3>1. n + 1 \in 1 .. n + 1 /\ i <= n + 1  BY <1>1, <2>2
      <3>2. B[i] <= base /\ B[i] \in Nat  BY <1>1, <2>2, <3>1
      <3>3. B[i] <= f  BY ONLY <3>2, base \in Nat, f \in Nat, base <= f
      <3> QED BY <1>2, <2>2, <3>3
    <2>3. CASE j = (n + 1) + 1 /\ i = (n + 1) + 1
      <3>1. f <= f  OBVIOUS
      <3> QED BY <1>2, <2>3, <3>1
    <2>4. (j \in 1 .. n + 1 \/ j = (n + 1) + 1) /\ (i \in 1 .. n + 1 \/ i = (n + 1) + 1)  BY <1>1
    <2> QED BY <2>1, <2>2, <2>3, <2>4
  <1>8. ASSUME NEW i \in 1 .. n + 1 PROVE Owns(A[i], C[i], C[i + 1])
    <2>1. CASE i \in 1 .. n
      <3>1. A[i] = T[i].lists  BY <1>4, <1>6, <2>1
      <3>2. C[i] = B[i] /\ C[i + 1] = B[i + 1]
        <4>1. i \in 1 .. n + 1 /\ i + 1 \in 1 .. n + 1  BY <1>1, <2>1
        <4> QED BY <1>2, <4>1
      <3>3. Finished(T[i], B[i], B[i + 1])  BY <1>1, <2>1
      <3>4. Owns(T[i].lists, B[i], B[i + 1])  BY <3>3, FinishedOwns
      <3> QED BY <3>1, <3>2, <3>4
    <2>2. CASE i = n + 1
      <3>1. n + 1 \in 1 .. n + 1  BY <1>1
      <3>2. C[i] = base /\ C[i + 1] = f /\ A[i] = L  BY <1>1, <1>2, <1>6, <2>2, <3>1
      <3> QED BY <3>2
    <2>3. i \in 1 .. n \/ i = n + 1  BY <1>1
    <2> QED BY <2>1, <2>2, <2>3
  <1>9. n + 1 \in Nat  BY <1>1
  <1>10. Owned(A, C, N)  BY <1>2, <1>6, <1>7, <1>8, <1>9 DEF Owned
  <1> QED BY <1>10 DEF A, R, n

-----------------------------------------------------------------------------
(***************************************************************************)
(* The state of the generator                                               *)
(***************************************************************************)
GeneratorInv ==
  /\ dagPC \in {"off", "shape", "build", "done"}
  /\ numFunctions \in Nat /\ functionIndex \in 0 .. numFunctions
  /\ width \in 1 .. MaxWidth /\ depth \in Nat \ {0}
  /\ \A i \in DOMAIN widthList : widthList[i] \in 0 .. MaxWidth
  /\ dagPC = "off" => totalDAGList = <<>> /\ dag = <<>> /\ functionIndex = 0
  /\ dagPC # "build" => dag = <<>> /\ \E B : AllFinished(totalDAGList, B, functionIndex)
  /\ dagPC = "build" =>
       \E F, base, B : /\ Building(dag, F, base, functionIndex, nodeQueue, widthList, stages, width, depth, numFunctions)
                       /\ AllFinished(totalDAGList, B, base)

LEMMA NoneFinished == \E B : AllFinished(<<>>, B, 0)
  <1> DEFINE B == <<0>>
             T == <<>>
  <1>1. B \in Seq(Nat) /\ Len(B) = 1 /\ B[1] = 0 /\ T \in Seq(DagType) /\ Len(T) = 0  OBVIOUS
  <1> HIDE DEF B, T
  <1>2. \A i, j \in 1 .. Len(B) : i <= j => B[i] <= B[j]
    <2>1. \A i \in 1 .. Len(B) : i = 1  BY <1>1
    <2> QED BY <1>1, <2>1
  <1>3. AllFinished(T, B, 0)  BY <1>1, <1>2 DEF AllFinished
  <1> QED BY <1>3 DEF T

LEMMA GeneratorInitial ==
  ASSUME DagInit, numFunctions = 0
  PROVE  GeneratorInv
  <1>1. /\ dagPC = "off" /\ width \in 1 .. MaxWidth /\ depth \in 1 .. MaxDepth /\ widthList = <<>>
        /\ functionIndex = 0 /\ dag = <<>> /\ totalDAGList = <<>> /\ numFunctions = 0
    BY DEF DagInit
  <1>2. depth \in Nat \ {0}  BY <1>1, DagAssumption
  <1>3. \E B : AllFinished(totalDAGList, B, functionIndex)  BY <1>1, NoneFinished
  <1> QED BY <1>1, <1>2, <1>3 DEF GeneratorInv

\* GenerateDAGs is entered with the functions there are.
LEMMA GeneratorEntered ==
  ASSUME GeneratorInv, dagPC = "off", numFunctions' \in Nat, dagPC' \in {"shape", "off"},
         UNCHANGED <<width, depth, widthList, functionIndex, dag, totalDAGList>>
  PROVE  GeneratorInv'
  <1>1. totalDAGList = <<>> /\ dag = <<>> /\ functionIndex = 0  BY DEF GeneratorInv
  <1>2. \E B : AllFinished(totalDAGList', B, functionIndex')  BY <1>1, NoneFinished
  <1>3. functionIndex' \in 0 .. numFunctions'  BY <1>1
  <1> QED BY <1>1, <1>2, <1>3 DEF GeneratorInv

LEMMA ShapesAre ==
  ASSUME GeneratorInv, numFunctions >= 1, NEW s \in NextShape
  PROVE  s[1] \in 1 .. MaxWidth /\ s[2] \in Nat \ {0}
  <1>1. MaxWidth \in Nat \ {0} /\ MaxDepth \in Nat \ {0}  BY DagAssumption
  <1>2. CASE ~dataset
    <2>1. s = <<width, depth>>  BY <1>2 DEF NextShape
    <2> QED BY <2>1 DEF GeneratorInv
  <1>3. CASE dataset
    <2>1. s \in getDAGStats  BY <1>3 DEF NextShape
    <2>2. CASE s \in Shapes  BY <1>1, <2>2 DEF Shapes
    <2>3. CASE s = <<1, numFunctions>>
      <3>1. numFunctions \in Nat  BY DEF GeneratorInv
      <3> QED BY <1>1, <2>3, <3>1
    <2> QED BY <2>1, <2>2, <2>3 DEF getDAGStats
  <1> QED BY <1>2, <1>3

\* The first node of a DAG takes one function of those that it may need.
LEMMA SizeIs ==
  ASSUME NEW w \in Nat, NEW d \in Nat \ {0}
  PROVE  MaxSize(w, d) \in Nat /\ MaxSize(w, d) >= 1
  <1> DEFINE c == d - 1
  <1>1. c \in Nat  OBVIOUS
  <1> HIDE DEF c
  <1>2. c * w \in Nat  BY <1>1
  <1>3. c * w + 1 \in Nat /\ c * w + 1 >= 1  BY <1>2
  <1> QED BY <1>3 DEF MaxSize, c

LEMMA BuildBegins ==
  ASSUME NEW w \in Nat \ {0}, NEW d \in Nat, d >= 2, NEW st \in generateNodeDistribution(w, d),
         NEW f \in Nat, NEW N \in Nat, f + MaxSize(w, d) <= N
  PROVE  /\ Building(<<FirstList(f, d)>>, <<1>>, f, f + 1, <<<<1, 1>>>>, [i \in 1 .. d |-> st[i] - 1], st, w, d, N)
         /\ \A i \in 1 .. d : st[i] - 1 \in 0 .. w
  <1>1. w \in Nat /\ d >= 1  OBVIOUS
  <1>2. Filled(<<FirstList(f, d)>>, <<1>>, d) /\ Used(<<FirstList(f, d)>>, <<1>>, f, f + 1)
    BY ONLY <1>1, d \in Nat, f \in Nat, RootFilled
  <1>3. /\ Queued(<<<<1, 1>>>>, <<FirstList(f, d)>>, <<1>>, d)
        /\ Lacking([i \in 1 .. d |-> st[i] - 1], st, <<FirstList(f, d)>>, <<<<1, 1>>>>, w, d)
    BY <1>1, BuildStarts
  <1>4. \A i \in 1 .. d : st[i] \in 1 .. w  BY DEF generateNodeDistribution
  <1>5. \A i \in 1 .. d : st[i] - 1 \in 0 .. w  BY <1>1, <1>4
  <1>6. Building(<<FirstList(f, d)>>, <<1>>, f, f + 1, <<<<1, 1>>>>, [i \in 1 .. d |-> st[i] - 1], st, w, d, N)
    BY ONLY <1>1, <1>2, <1>3, d \in Nat, d >= 2, N \in Nat, f + MaxSize(w, d) <= N DEF Building
  <1> QED BY <1>5, <1>6

LEMMA StartDAGStep ==
  ASSUME GeneratorInv, numFunctions >= 1, StartDAG
  PROVE  GeneratorInv'
  <1>0. dagPC = "shape" /\ UNCHANGED <<numFunctions, dataset>>  BY DEF StartDAG
  <1>1. PICK s \in NextShape :
          /\ numFunctions - functionIndex >= MaxSize(s[1], s[2])
          /\ width' = s[1] /\ depth' = s[2]
          /\ functionIndex' = functionIndex + 1
          /\ IF s[2] = 1
             THEN /\ stages' = <<1>>
                  /\ totalDAGList' = Finish(<<<<Node(functionIndex, 0)>>>>, s)
                  /\ UNCHANGED <<dagPC, widthList, dag, nodeQueue>>
             ELSE /\ stages' \in generateNodeDistribution(s[1], s[2])
                  /\ widthList' = [i \in 1 .. s[2] |-> stages'[i] - 1]
                  /\ dag' = <<[i \in 1 .. s[2] |-> IF i = 1 THEN Node(functionIndex, 0) ELSE Placeholder]>>
                  /\ nodeQueue' = <<<<1, 1>>>>
                  /\ dagPC' = "build"
                  /\ UNCHANGED totalDAGList
    BY DEF StartDAG
  <1> DEFINE w == s[1]
             d == s[2]
             f == functionIndex
             N == numFunctions
  <1>2. w \in 1 .. MaxWidth /\ d \in Nat \ {0} /\ MaxWidth \in Nat  BY ShapesAre, DagAssumption
  <1>3. N \in Nat /\ f \in 0 .. N  BY <1>0 DEF GeneratorInv
  <1>4. dag = <<>> /\ \E B : AllFinished(totalDAGList, B, f)  BY <1>0 DEF GeneratorInv
  <1>5. PICK B : AllFinished(totalDAGList, B, f)  BY <1>4
  <1>6. MaxSize(w, d) \in Nat /\ MaxSize(w, d) >= 1 /\ w \in Nat /\ w \in Nat \ {0}
    <2>1. w \in Nat /\ w \in Nat \ {0}  BY <1>2
    <2> QED BY <1>2, <2>1, SizeIs
  <1>7. f \in Nat /\ f + MaxSize(w, d) <= N /\ f + 1 \in 0 .. N
    <2> DEFINE z == MaxSize(w, d)
    <2>1. N - f >= z /\ z \in Nat /\ z >= 1 /\ N \in Nat /\ f \in 0 .. N  BY <1>1, <1>3, <1>6
    <2> HIDE DEF z, f, N
    <2>2. f \in Nat /\ f + z <= N /\ f + 1 \in 0 .. N  BY ONLY <2>1
    <2> QED BY <2>2 DEF z
  <1>8. CASE d = 1
    <2> DEFINE t == [lists |-> <<<<Node(f, 0)>>>>, width |-> w, depth |-> 1, stages |-> <<1>>]
    <2>1. UNCHANGED <<dagPC, widthList, dag, nodeQueue>> /\ totalDAGList' = Append(totalDAGList, t)
      BY <1>1, <1>8 DEF Finish
    <2>2. w \in Int  BY <1>6
    <2>3. Finished(t, f, f + 1)  BY ONLY <2>2, <1>7, RootFinished
    <2> HIDE DEF t
    <2>4. AllFinished(totalDAGList', Append(B, f + 1), f + 1)  BY <1>5, <2>1, <2>3, FinishOne
    <2>5. dagPC' = "shape" /\ dag' = <<>> /\ widthList' = widthList /\ functionIndex' = f + 1
          /\ width' = w /\ depth' = d /\ numFunctions' = N
      BY <1>0, <1>1, <1>4, <2>1
    <2>6. \A i \in DOMAIN widthList : widthList[i] \in 0 .. MaxWidth  BY DEF GeneratorInv
    <2> HIDE DEF w, d, f, N
    <2> QED BY <1>2, <1>3, <1>7, <2>4, <2>5, <2>6 DEF GeneratorInv
  <1>9. CASE d # 1
    <2>1. /\ stages' \in generateNodeDistribution(w, d)
          /\ widthList' = [i \in 1 .. d |-> stages'[i] - 1]
          /\ dag' = <<FirstList(f, d)>> /\ nodeQueue' = <<<<1, 1>>>> /\ dagPC' = "build" /\ UNCHANGED totalDAGList
          /\ functionIndex' = f + 1 /\ width' = w /\ depth' = d /\ numFunctions' = N
      BY <1>0, <1>1, <1>9 DEF FirstList
    <2> HIDE DEF w, d, f, N
    <2>2. d \in Nat /\ d >= 2  BY <1>2, <1>9
    <2>3. /\ Building(<<FirstList(f, d)>>, <<1>>, f, f + 1, <<<<1, 1>>>>, [i \in 1 .. d |-> stages'[i] - 1],
                      stages', w, d, N)
          /\ \A i \in 1 .. d : stages'[i] - 1 \in 0 .. w
      BY ONLY <1>3, <1>6, <1>7, <2>1, <2>2, BuildBegins
    <2>4. Building(dag', <<1>>, f, functionIndex', nodeQueue', widthList', stages', width', depth', numFunctions')
      BY ONLY <2>1, <2>3
    <2>5. \A i \in DOMAIN widthList' : widthList'[i] \in 0 .. MaxWidth  BY <1>2, <2>1, <2>3
    <2>6. AllFinished(totalDAGList', B, f)  BY <1>5, <2>1 DEF f
    <2> QED BY <1>2, <1>3, <1>7, <2>1, <2>4, <2>5, <2>6 DEF GeneratorInv
  <1> QED BY <1>8, <1>9

LEMMA NoMoreDAGsStep ==
  ASSUME GeneratorInv, numFunctions >= 1, NoMoreDAGs
  PROVE  GeneratorInv'
  <1>1. PICK s \in NextShape : width' = s[1] /\ depth' = s[2]  BY DEF NoMoreDAGs
  <1>2. width' \in 1 .. MaxWidth /\ depth' \in Nat \ {0}  BY <1>1, ShapesAre
  <1>3. /\ dagPC = "shape" /\ dagPC' = "done"
        /\ UNCHANGED <<numFunctions, widthList, functionIndex, dag, totalDAGList>>
    BY DEF NoMoreDAGs
  <1> QED BY <1>2, <1>3 DEF GeneratorInv

LEMMA SkipLeafStep ==
  ASSUME GeneratorInv, SkipLeaf
  PROVE  GeneratorInv'
  <1>1. /\ dagPC = "build" /\ nodeQueue # <<>> /\ dag[nodeQueue[1][1]][nodeQueue[1][2]].depth = depth - 1
        /\ nodeQueue' = Tail(nodeQueue)
        /\ UNCHANGED <<dagPC, numFunctions, width, depth, stages, widthList, functionIndex, dag, totalDAGList>>
    BY DEF SkipLeaf, Place
  <1>2. PICK F, base, B :
          /\ Building(dag, F, base, functionIndex, nodeQueue, widthList, stages, width, depth, numFunctions)
          /\ AllFinished(totalDAGList, B, base)
    BY <1>1 DEF GeneratorInv
  <1>3. /\ depth \in Nat /\ depth >= 2 /\ width \in Nat /\ numFunctions \in Nat
        /\ Filled(dag, F, depth) /\ Used(dag, F, base, functionIndex) /\ Queued(nodeQueue, dag, F, depth)
        /\ Lacking(widthList, stages, dag, nodeQueue, width, depth)
        /\ base + MaxSize(width, depth) <= numFunctions
    BY <1>2 DEF Building
  <1>4. 1 \in 1 .. Len(nodeQueue)
    <2>1. nodeQueue \in Seq(Nat \X Nat)  BY <1>3 DEF Queued
    <2> QED BY <1>1, <2>1
  <1>5. EntryDepth(nodeQueue, dag, depth, 1) = depth - 1  BY <1>1, <1>2, <1>4, EntryIs
  <1>6. /\ Queued(Tail(nodeQueue), dag, F, depth)
        /\ Lacking(widthList, stages, dag, Tail(nodeQueue), width, depth)
    BY <1>1, <1>3, <1>5, LeafSkipped
  <1>7. Building(dag', F, base, functionIndex', nodeQueue', widthList', stages', width', depth', numFunctions')
    BY <1>1, <1>3, <1>6 DEF Building
  <1>8. AllFinished(totalDAGList', B, base)  BY <1>1, <1>2
  <1> QED BY <1>1, <1>7, <1>8 DEF GeneratorInv

LEMMA EndDAGStep ==
  ASSUME GeneratorInv, EndDAG
  PROVE  GeneratorInv'
  <1> DEFINE t == [lists |-> dag, width |-> width, depth |-> depth, stages |-> stages]
  <1>1. /\ dagPC = "build" /\ nodeQueue = <<>> /\ dagPC' = "shape" /\ stages' = stages
        /\ totalDAGList' = Append(totalDAGList, t) /\ dag' = <<>>
        /\ UNCHANGED <<numFunctions, width, depth, widthList, functionIndex>>
    BY DEF EndDAG, Finish
  <1>2. PICK F, base, B :
          /\ Building(dag, F, base, functionIndex, nodeQueue, widthList, stages, width, depth, numFunctions)
          /\ AllFinished(totalDAGList, B, base)
    BY <1>1 DEF GeneratorInv
  <1>3. Finished(t, base, functionIndex)  BY <1>1, <1>2, BuildEnds
  <1> HIDE DEF t
  <1>4. AllFinished(totalDAGList', Append(B, functionIndex), functionIndex')  BY <1>1, <1>2, <1>3, FinishOne
  <1> QED BY <1>1, <1>4 DEF GeneratorInv

LEMMA AddChildrenStep ==
  ASSUME GeneratorInv, AddChildren
  PROVE  GeneratorInv'
  <1> DEFINE l == nodeQueue[1][1]
             k == nodeQueue[1][2]
             h == dag[l][k].depth
             f == functionIndex
  <1>1. /\ dagPC = "build" /\ nodeQueue # <<>> /\ h # depth - 1
        /\ UNCHANGED <<dagPC, numFunctions, width, depth, stages, totalDAGList>>
    BY DEF AddChildren, Place
  <1>2. PICK n \in BranchChoice(dag, nodeQueue, h, widthList) :
          /\ widthList' = Spent(widthList, h, n)
          /\ dag' = WithChildren(dag, depth, l, k, h, n, f)
          /\ nodeQueue' = QueueWith(nodeQueue, Len(dag), l, k, n)
          /\ functionIndex' = f + (1 + n)
    BY DEF AddChildren, Place, additionalBranches, BranchChoice, WithChildren, Linked, NewBranch, BranchIds,
           QueueWith, createNewBranch, UsedBy, Spent
  <1>3. PICK F, base, B :
          /\ Building(dag, F, base, f, nodeQueue, widthList, stages, width, depth, numFunctions)
          /\ AllFinished(totalDAGList, B, base)
    BY <1>1 DEF GeneratorInv
  <1>4. PICK G : Building(WithChildren(dag, depth, l, k, h, n, f), G, base, f + (1 + n),
                          QueueWith(nodeQueue, Len(dag), l, k, n),
                          Spent(widthList, h, n), stages, width, depth, numFunctions)
    <2> HIDE DEF l, k, h, f
    <2>1. l = nodeQueue[1][1] /\ k = nodeQueue[1][2] /\ h = dag[l][k].depth  BY DEF l, k, h
    <2>2. n \in BranchChoice(dag, nodeQueue, h, widthList)  BY <1>2
    <2> QED BY ONLY SMTT(30), <1>1, <1>3, <2>1, <2>2, BuildStep
  <1>5. Building(dag', G, base, functionIndex', nodeQueue', widthList', stages', width', depth', numFunctions')
    <2> HIDE DEF l, k, h, f
    <2> QED BY ONLY <1>1, <1>2, <1>4
  <1>6. AllFinished(totalDAGList', B, base)  BY <1>1, <1>3
  <1>7. functionIndex' \in 0 .. numFunctions'  BY <1>5, WithinFunctions
  <1>8. \A i \in DOMAIN widthList' : widthList'[i] \in 0 .. MaxWidth
    <2>1. Lacking(widthList', stages', dag', nodeQueue', width', depth')  BY <1>5 DEF Building
    <2>2. width' \in 1 .. MaxWidth /\ MaxWidth \in Nat  BY <1>1, DagAssumption DEF GeneratorInv
    <2>3. /\ widthList' \in [1 .. depth' -> Nat] /\ stages' \in [1 .. depth' -> Nat]
          /\ \A x \in 1 .. depth' : widthList'[x] <= stages'[x] /\ stages'[x] <= width'
      BY <2>1 DEF Lacking
    <2>4. ASSUME NEW i \in DOMAIN widthList' PROVE widthList'[i] \in 0 .. MaxWidth
      <3>1. i \in 1 .. depth'  BY <2>3
      <3>2. widthList'[i] \in Nat /\ stages'[i] \in Nat /\ widthList'[i] <= stages'[i] /\ stages'[i] <= width'
        BY <2>3, <3>1
      <3> QED BY ONLY <2>2, <3>2
    <2> QED BY <2>4
  <1>9. dagPC' = "build" /\ numFunctions' \in Nat /\ width' \in 1 .. MaxWidth /\ depth' \in Nat \ {0}
    BY <1>1 DEF GeneratorInv
  <1> HIDE DEF l, k, h, f
  <1> QED BY ONLY <1>5, <1>6, <1>7, <1>8, <1>9 DEF GeneratorInv

LEMMA GeneratorStep ==
  ASSUME GeneratorInv, numFunctions >= 1, GenerateDAGs
  PROVE  GeneratorInv'
  BY StartDAGStep, NoMoreDAGsStep, SkipLeafStep, AddChildrenStep, EndDAGStep DEF GenerateDAGs

\* What the invariant says of the DAGs.
LEMMA ShapesFollow ==
  ASSUME GeneratorInv
  PROVE  DagShapeRight
  <1>1. \E B, f : AllFinished(totalDAGList, B, f)  BY DEF GeneratorInv
  <1>2. PICK B, f : AllFinished(totalDAGList, B, f)  BY <1>1
  <1>3. \A i \in 1 .. Len(totalDAGList) : Finished(totalDAGList[i], B[i], B[i + 1])  BY <1>2 DEF AllFinished
  <1> QED BY <1>3, FinishedShape DEF DagShapeRight

LEMMA UniquenessFollows ==
  ASSUME GeneratorInv
  PROVE  FunctionsUnique
  <1> DEFINE all == [i \in 1 .. Len(totalDAGList) |-> totalDAGList[i].lists] \o <<dag>>
             N == numFunctions
  <1>1. N \in Nat /\ functionIndex \in 0 .. N  BY DEF GeneratorInv
  <1>2. \E C : Owned(all, C, N)
    <2>1. CASE dagPC = "build"
      <3>1. PICK F, base, B :
              /\ Building(dag, F, base, functionIndex, nodeQueue, widthList, stages, width, depth, N)
              /\ AllFinished(totalDAGList, B, base)
        BY <2>1 DEF GeneratorInv
      <3>2. Owns(dag, base, functionIndex)  BY <3>1, BuildingOwns
      <3>3. base \in 0 .. functionIndex  BY <3>1, WithinFunctions
      <3>4. base \in Nat /\ functionIndex \in Nat /\ base <= functionIndex /\ functionIndex <= N  BY <1>1, <3>3
      <3> QED BY <1>1, <3>1, <3>2, <3>4, AllOwned
    <2>2. CASE dagPC # "build"
      <3>1. dag = <<>>  BY <2>2 DEF GeneratorInv
      <3>2. PICK B : AllFinished(totalDAGList, B, functionIndex)  BY <2>2 DEF GeneratorInv
      <3>3. functionIndex \in Nat /\ functionIndex <= functionIndex /\ functionIndex <= N  BY <1>1
      <3>4. Owns(dag, functionIndex, functionIndex)  BY <3>1, <3>3 DEF Owns
      <3> QED BY <1>1, <3>2, <3>3, <3>4, AllOwned
    <2> QED BY <2>1, <2>2
  <1>3. PICK C : Owned(all, C, N)  BY <1>2
  <1> DEFINE places == UNION {{<<i, p[1], p[2]>> : p \in Places(all[i])} : i \in 1 .. Len(all)}
             fun(q) == all[q[1]][q[2]][q[3]].function
  <1> HIDE DEF all
  <1>4. ASSUME NEW q \in places
        PROVE  /\ q[1] \in 1 .. Len(all) /\ q[2] \in 1 .. Len(all[q[1]]) /\ q[3] \in 1 .. Len(all[q[1]][q[2]])
               /\ q = <<q[1], q[2], q[3]>>
    <2>1. PICK i \in 1 .. Len(all) : q \in {<<i, p[1], p[2]>> : p \in Places(all[i])}  BY <1>4
    <2>2. PICK p \in Places(all[i]) : q = <<i, p[1], p[2]>>  BY <2>1
    <2>3. p[1] \in 1 .. Len(all[i]) /\ p[2] \in 1 .. Len(all[i][p[1]])  BY <2>2, PlacesAre
    <2> QED BY <2>2, <2>3
  <1>5. ASSUME NEW q \in places, fun(q) # -1 PROVE fun(q) < N /\ \A r \in places \ {q} : fun(r) # fun(q)
    <2> HIDE DEF places
    <2>1. /\ q[1] \in 1 .. Len(all) /\ q[2] \in 1 .. Len(all[q[1]]) /\ q[3] \in 1 .. Len(all[q[1]][q[2]])
          /\ q = <<q[1], q[2], q[3]>>
      BY <1>4
    <2>2. /\ fun(q) < N
          /\ \A j \in 1 .. Len(all) : \A m \in 1 .. Len(all[j]) : \A n \in 1 .. Len(all[j][m]) :
               all[j][m][n].function = fun(q) => q[1] = j /\ q[2] = m /\ q[3] = n
      <3> DEFINE a == q[1]
                 b == q[2]
                 c == q[3]
      <3>1. a \in 1 .. Len(all) /\ b \in 1 .. Len(all[a]) /\ c \in 1 .. Len(all[a][b])  BY <2>1
      <3>2. all[a][b][c].function # -1 /\ fun(q) = all[a][b][c].function  BY <1>5
      <3> HIDE DEF a, b, c
      <3>3. Once(all, N, a, b, c)  BY ONLY <1>3, <3>1, <3>2, OwnedOnce
      <3> QED BY <3>2, <3>3 DEF Once, a, b, c
    <2>3. ASSUME NEW r \in places, fun(r) = fun(q) PROVE r = q
      <3>1. /\ r[1] \in 1 .. Len(all) /\ r[2] \in 1 .. Len(all[r[1]]) /\ r[3] \in 1 .. Len(all[r[1]][r[2]])
            /\ r = <<r[1], r[2], r[3]>>
        BY <1>4
      <3>2. q[1] = r[1] /\ q[2] = r[2] /\ q[3] = r[3]  BY ONLY <2>2, <2>3, <3>1
      <3> QED BY <2>1, <3>1, <3>2
    <2> QED BY <2>2, <2>3
  <1> QED BY <1>5 DEF FunctionsUnique, all
=============================================================================
