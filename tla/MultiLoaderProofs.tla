-------------------------- MODULE MultiLoaderProofs -------------------------
(* Proofs about MultiLoader, for any studies, any nodes and any metrics:     *)
(* EachCombinationOnce, DryRunsFirst, RetryOnce and MetricsOfExperiment.     *)
EXTENDS MultiLoader, SequenceTheorems, FiniteSetTheorems, WellFoundedInduction, TLAPS

-----------------------------------------------------------------------------
(* The inductive invariant                                                   *)

InExperiment == {"prepare", "reset", "resetting", "execute", "collect", "collecting", "cleanup", "next"}
InRun == InExperiment \cup {"unpack", "studyDone", "ran"}

Exps == [study : Nat, trace : Nat, values : Seq(Nat)]
Starts == [dry : BOOLEAN, exp : Exps, verbosity : {"", "debug"}, ok : BOOLEAN]

CommonInv ==
  /\ studies \in StudyLists /\ failFast \in BOOLEAN /\ DryRun \in BOOLEAN /\ DryRunSuccess \in BOOLEAN
  /\ pc \in InRun \cup {"new", "dry", "actual", "exit", "fatal"}
  /\ pc \notin {"new", "fatal"} => CheckMultiLoaderConfig
  /\ pc \in {"new", "dry"} => ~DryRun
  /\ pc = "actual" => DryRun
  /\ pc \in InRun => study \in DOMAIN studies
  /\ pc = "ran" => study = Len(studies)
  /\ experiments \in Seq(Exps) /\ experiment \in Nat
  /\ pc \in InExperiment => experiment \in DOMAIN experiments
  /\ pc = "unpack" => experiment = 1

(* The order in which combinations of sweep values are tried: NextCProduct    *)
(* counts with the last option as its lowest digit.                           *)
Precedes(v, w) == \E k \in DOMAIN w : v[k] < w[k] /\ \A j \in DOMAIN w : j < k => v[j] = w[j]

Unpacking(x) == x.trace < trace \/ (x.trace = trace /\ Precedes(x.values, indices))

Distinct == \A i, j \in DOMAIN experiments : experiments[i] = experiments[j] => i = j

UnpackInv ==
  /\ pc = "unpack" =>
       /\ trace \in 1 .. NumTraces(S) + 1 /\ indices \in Combinations(S)
       /\ \A i \in DOMAIN experiments : experiments[i] \in ExperimentsOf(study) /\ Unpacking(experiments[i])
       /\ \A x \in ExperimentsOf(study) : Unpacking(x) => \E i \in DOMAIN experiments : x = experiments[i]
       /\ Distinct
  /\ pc \in InExperiment \cup {"studyDone", "ran"} =>
       /\ \A i \in DOMAIN experiments : experiments[i] \in ExperimentsOf(study)
       /\ \A x \in ExperimentsOf(study) : \E i \in DOMAIN experiments : x = experiments[i]
       /\ Distinct

(* The history of starts: dry runs first, then `runs' real ones.              *)
DryCount == Len(started) - runs
RealIndices == DryCount + 1 .. Len(started)

(* The experiments that the run under way has reached.                        *)
Tried == (pc = "execute" /\ tries > 0) \/ pc \in {"collect", "collecting", "cleanup", "next"}
RunIndices == IF DryRun THEN 1 .. DryCount ELSE RealIndices
Reached(x) ==
  \/ \E j \in 1 .. study - 1 : x \in ExperimentsOf(j)
  \/ pc \in {"studyDone", "ran"} /\ x \in ExperimentsOf(study)
  \/ pc \in InExperiment /\ \E k \in 1 .. experiment - 1 : x = experiments[k]
  \/ pc \in InExperiment /\ x = Current /\ Tried

StartedInv ==
  /\ started \in Seq(Starts) /\ runs \in Nat /\ runs <= Len(started)
  /\ \A i \in DOMAIN started : started[i].dry <=> i <= DryCount
  /\ pc \in {"new", "dry"} => started = <<>>
  /\ DryRun \/ pc \in {"new", "dry"} => runs = 0
  /\ \A i \in DOMAIN started : started[i].exp \in AllExperiments
  /\ pc \in InRun =>
       /\ \A i \in RunIndices : Reached(started[i].exp)
       /\ \A x \in AllExperiments : Reached(x) => \E i \in RunIndices : x = started[i].exp

DryRunsInv ==
  /\ pc \in InRun \cup {"actual"} /\ DryRun /\ DryRunSuccess => \A i \in DOMAIN started : started[i].ok
  /\ pc = "actual" => DryRunSuccess
  /\ pc = "actual" \/ (pc \in InRun /\ ~DryRun) \/ runs > 0 =>
       /\ \A i \in 1 .. DryCount : started[i].ok
       /\ \A x \in AllExperiments : \E i \in 1 .. DryCount : x = started[i].exp

(* The attempts at the current experiment are the last of the history.        *)
AttemptInv ==
  /\ tries \in Nat /\ verbosity \in {"", "debug"}
  /\ pc \in {"reset", "resetting", "execute"} => tempConfig = Current
  /\ pc \in InExperiment \ {"prepare"} => outputDir = dirOf(Current)
  /\ pc \in {"reset", "resetting"} => tries = 0
  /\ pc \in {"reset", "resetting", "execute"} =>
       tries < numTries /\ verbosity = IF tries > 0 THEN "debug" ELSE ""
  /\ pc \in {"reset", "resetting", "collect", "collecting"} => ~DryRun
  /\ pc \in InExperiment \ {"prepare"} /\ ~DryRun =>
       /\ tries <= runs
       /\ \A i \in RealIndices : started[i].exp = Current <=> i > Len(started) - tries
       /\ pc = "execute" => \A i \in RealIndices : i > Len(started) - tries => ~started[i].ok

RetryInv ==
  \A i \in RealIndices :
    /\ \A j \in RealIndices : j < i /\ started[j].exp = started[i].exp =>
         ~started[j].ok /\ ~failFast /\ j = i - 1
    /\ (started[i].verbosity = "debug") <=> \E j \in RealIndices : j < i /\ started[j].exp = started[i].exp

(* The goroutines on the nodes and what they rest on.                         *)
TopOn(n) == top[n].since = runs - tries /\ top[n].until = Running
NodesInv ==
  /\ metricsToCollect \subseteq Metrics /\ podNode \in [{"autoscaler", "activator"} -> Nodes]
  /\ nodeStep \in [Nodes -> {"kill", "start", "copy", "done"}]
  /\ top \in [Nodes -> [since : Int, until : Int]] /\ startTime \in Int
  /\ pc \notin {"resetting", "collecting"} => mmPC = "idle"
  /\ pc = "resetting" => mmPC \in {"resetTop", "idle", "fatal"}
  /\ pc = "collecting" =>
       mmPC \in {"top", "autoscaler", "activator", "prometheus", "fetch", "idle", "fatal"}
  /\ mmPC \notin {"resetTop", "top", "fatal"} => NodesDone
  /\ mmPC = "resetTop" => \A n \in Nodes : nodeStep[n] # "copy"
  /\ mmPC = "top" => \A n \in Nodes : nodeStep[n] # "start"
  /\ (\E n \in Nodes : nodeStep[n] # "done") => shouldCollect("top")

SinceInv ==
  /\ mmPC = "resetTop" /\ shouldCollect("top") => \A n \in Nodes : nodeStep[n] = "done" => TopOn(n)
  /\ pc \in {"resetting", "execute", "collect"} /\ mmPC = "idle" /\ ~DryRun =>
       startTime = runs - tries /\ (shouldCollect("top") => \A n \in Nodes : TopOn(n))
  /\ pc = "collecting" => startTime = runs - tries
  /\ mmPC = "top" => \A n \in Nodes :
       /\ nodeStep[n] = "kill" => TopOn(n)
       /\ nodeStep[n] = "copy" => top[n].since = runs - tries /\ top[n].until = runs

(* The files in output directories                                            *)
CollectedInv ==
  /\ pc = "execute" => \A f \in collected : f.dir[2] # Current
  /\ \A f \in collected :
       /\ f.dir[1] = FALSE /\ f.metric \in metricsToCollect
       /\ f.metric = "top" => f.from \in Nodes
       /\ \E i \in RealIndices : started[i].exp = f.dir[2]
       /\ f.metric # "prometheus" =>
            /\ f.runs \subseteq 1 .. runs
            /\ \A i \in RealIndices : i - DryCount \in f.runs <=> started[i].exp = f.dir[2]

HasTop(n) == \E f \in collected : f.dir = outputDir /\ f.metric = "top" /\ f.from = n
Has(m) == shouldCollect(m) => \E f \in collected : f.dir = outputDir /\ f.metric = m
After(m) ==
  \/ pc \in {"cleanup", "next"} /\ ~DryRun
  \/ /\ pc = "collecting"
     /\ mmPC \in CASE m = "top" -> {"autoscaler", "activator", "prometheus", "fetch", "idle"}
                   [] m = "autoscaler" -> {"activator", "prometheus", "fetch", "idle"}
                   [] m = "activator" -> {"prometheus", "fetch", "idle"}
                   [] m = "prometheus" -> {"idle"}

FilesInv ==
  /\ mmPC = "top" /\ shouldCollect("top") => \A n \in Nodes : nodeStep[n] = "done" => HasTop(n)
  /\ After("top") /\ shouldCollect("top") => \A n \in Nodes : HasTop(n)
  /\ \A m \in {"autoscaler", "activator", "prometheus"} : After(m) => Has(m)
  /\ mmPC = "fetch" => shouldCollect("prometheus")

MInv ==
  /\ CommonInv /\ UnpackInv /\ StartedInv /\ DryRunsInv /\ AttemptInv /\ RetryInv
  /\ NodesInv /\ SinceInv /\ CollectedInv /\ FilesInv

-----------------------------------------------------------------------------
(* Combinations of sweep values in their order                               *)

LEMMA Least ==
  ASSUME NEW T, T \subseteq Nat, T # {}
  PROVE  \E x \in T : \A y \in T : x <= y
  <1>1. PICK x \in T : \A y \in T : ~(<<y, x>> \in OpToRel(<, Nat))
    BY NatLessThanWellFounded, WFMin
  <1>2. \A y \in T : ~(y < x)  BY <1>1 DEF OpToRel
  <1> QED BY <1>2

LEMMA Greatest ==
  ASSUME NEW n \in Nat, NEW T, T \subseteq 1 .. n, T # {}
  PROVE  \E x \in T : \A y \in T : y <= x
  <1> DEFINE U == {u \in Nat : n - u \in T}
  <1>1. U # {}
    <2>1. PICK t : t \in T  OBVIOUS
    <2>2. n - t \in Nat /\ n - (n - t) = t  BY <2>1
    <2> QED BY <2>1, <2>2
  <1>2. PICK u \in U : \A y \in U : u <= y  BY <1>1, Least
  <1>3. \A y \in T : n - y \in U  OBVIOUS
  <1> QED BY <1>2, <1>3

LEMMA LastIsGreatest ==
  ASSUME NEW n \in Nat, NEW T, T \subseteq 1 .. n, T # {}
  PROVE  Last(T) \in T /\ \A y \in T : y <= Last(T)
  <1>1. \E x \in T : \A y \in T : y <= x  BY Greatest
  <1> QED BY <1>1 DEF Last

LEMMA FirstDifference ==
  ASSUME NEW n \in Nat, NEW v \in [1 .. n -> Nat], NEW w \in [1 .. n -> Nat], v # w
  PROVE  \E k \in 1 .. n : v[k] # w[k] /\ \A j \in 1 .. n : j < k => v[j] = w[j]
  <1> DEFINE T == {i \in 1 .. n : v[i] # w[i]}
  <1>1. T # {} /\ T \subseteq Nat
    <2>1. ~(\A i \in 1 .. n : v[i] = w[i])  BY SMTT(30)
    <2>2. T # {}  BY <2>1
    <2>3. T \subseteq Nat  OBVIOUS
    <2> QED BY <2>2, <2>3
  <1>2. PICK k \in T : \A y \in T : k <= y  BY <1>1, Least
  <1> QED BY <1>2

LEMMA CombinationsAre ==
  ASSUME NEW s \in Studies
  PROVE  /\ Len(s.sweep) \in Nat /\ DOMAIN s.sweep = 1 .. Len(s.sweep)
         /\ \A i \in DOMAIN s.sweep : s.sweep[i] \in Nat
         /\ \A v : v \in Combinations(s) <=>
              /\ v \in [DOMAIN s.sweep -> Nat] /\ \A i \in DOMAIN s.sweep : v[i] < s.sweep[i]
              /\ s.type = "linear" => \A i, j \in DOMAIN s.sweep : v[i] = v[j]
  <1>1. s.sweep \in Seq(Nat)  BY DEF Studies
  <1>2. /\ Len(s.sweep) \in Nat /\ DOMAIN s.sweep = 1 .. Len(s.sweep)
        /\ \A i \in DOMAIN s.sweep : s.sweep[i] \in Nat
    BY <1>1
  <1> DEFINE D == DOMAIN s.sweep
             B == UNION {0 .. s.sweep[i] - 1 : i \in D}
  <1>3. B \subseteq Nat  BY <1>2
  <1>4. ASSUME NEW v \in [D -> Nat], \A i \in D : v[i] < s.sweep[i] PROVE v \in [D -> B]
    <2>1. \A i \in D : v[i] \in 0 .. s.sweep[i] - 1  BY <1>2, <1>4
    <2> QED BY <2>1
  <1>5. ASSUME NEW v \in [D -> B] PROVE v \in [D -> Nat]  BY <1>3
  <1> QED BY <1>2, <1>4, <1>5 DEF Combinations

LEMMA FirstCombination ==
  ASSUME NEW s \in Studies, \A i \in DOMAIN s.sweep : s.sweep[i] > 0
  PROVE  /\ SweepStart(s) \in Combinations(s)
         /\ \A v \in Combinations(s) : ~Precedes(v, SweepStart(s))
  BY CombinationsAre DEF SweepStart, Precedes

LEMMA NotBeforeItself ==
  ASSUME NEW s \in Studies, NEW v \in Combinations(s)
  PROVE  ~Precedes(v, v)
  BY CombinationsAre DEF Precedes

LEMMA LastCombination ==
  ASSUME NEW s \in Studies, NEW ix \in Combinations(s), BelowLimit(s, ix) = {},
         NEW v \in Combinations(s)
  PROVE  v = ix \/ Precedes(v, ix)
  <1>1. /\ Len(s.sweep) \in Nat /\ DOMAIN s.sweep = 1 .. Len(s.sweep)
        /\ \A i \in DOMAIN s.sweep : s.sweep[i] \in Nat
        /\ v \in [1 .. Len(s.sweep) -> Nat] /\ ix \in [1 .. Len(s.sweep) -> Nat]
        /\ \A i \in DOMAIN s.sweep : v[i] < s.sweep[i]
    BY CombinationsAre
  <1>2. \A i \in DOMAIN s.sweep : ~(ix[i] < s.sweep[i] - 1)  BY <1>1 DEF BelowLimit, limits
  <1>3. \A i \in DOMAIN s.sweep : v[i] <= ix[i]  BY <1>1, <1>2
  <1>4. SUFFICES ASSUME v # ix PROVE Precedes(v, ix)  OBVIOUS
  <1>5. PICK k \in 1 .. Len(s.sweep) :
             v[k] # ix[k] /\ \A j \in 1 .. Len(s.sweep) : j < k => v[j] = ix[j]
    BY <1>1, <1>4, FirstDifference
  <1>6. v[k] < ix[k]  BY <1>1, <1>3, <1>5
  <1> QED BY <1>1, <1>5, <1>6 DEF Precedes

(* NextCProduct gives the next combination: none lies between.               *)
LEMMA NextCombination ==
  ASSUME NEW s \in Studies, NEW ix \in Combinations(s), BelowLimit(s, ix) # {}, s.type # "linear"
  PROVE  /\ NextCProduct(s, ix) \in Combinations(s)
         /\ \A v \in Combinations(s) : Precedes(v, NextCProduct(s, ix)) <=> v = ix \/ Precedes(v, ix)
  <1> DEFINE n == Len(s.sweep)
             k == Last(BelowLimit(s, ix))
             w == NextCProduct(s, ix)
  <1>1. /\ n \in Nat /\ DOMAIN s.sweep = 1 .. n /\ ix \in [1 .. n -> Nat]
        /\ \A i \in 1 .. n : s.sweep[i] \in Nat /\ ix[i] < s.sweep[i]
    BY CombinationsAre
  <1>2. /\ BelowLimit(s, ix) \subseteq 1 .. n
        /\ \A i \in 1 .. n : i \in BelowLimit(s, ix) <=> ix[i] < s.sweep[i] - 1
    BY <1>1 DEF BelowLimit, limits
  <1>3. k \in BelowLimit(s, ix) /\ \A i \in BelowLimit(s, ix) : i <= k
    BY <1>1, <1>2, LastIsGreatest
  <1> HIDE DEF k
  <1>4. /\ k \in 1 .. n /\ ix[k] < s.sweep[k] - 1
        /\ \A i \in 1 .. n : i > k => ix[i] = s.sweep[i] - 1
    <2>1. k \in 1 .. n /\ ix[k] < s.sweep[k] - 1  BY <1>2, <1>3
    <2>2. ASSUME NEW i \in 1 .. n, i > k PROVE ix[i] = s.sweep[i] - 1
      <3>1. i \notin BelowLimit(s, ix)  BY <1>3, <2>1, <2>2
      <3>2. ~(ix[i] < s.sweep[i] - 1)  BY <1>2, <3>1
      <3>3. ix[i] \in Nat /\ s.sweep[i] \in Nat /\ ix[i] < s.sweep[i]  BY <1>1
      <3> QED BY <3>2, <3>3
    <2> QED BY <2>1, <2>2
  <1>5. w = [i \in 1 .. n |-> IF i < k THEN ix[i] ELSE IF i = k THEN ix[i] + 1 ELSE 0]
    BY <1>1 DEF NextCProduct, k
  <1> HIDE DEF w, n
  <1>6. /\ w \in [1 .. n -> Nat] /\ w[k] = ix[k] + 1
        /\ \A i \in 1 .. n : (i < k => w[i] = ix[i]) /\ (i > k => w[i] = 0)
    BY <1>1, <1>4, <1>5
  <1>7. w \in Combinations(s)
    <2>1. ASSUME NEW i \in 1 .. n PROVE w[i] < s.sweep[i]
      <3>1. ix[i] \in Nat /\ s.sweep[i] \in Nat /\ ix[i] < s.sweep[i]  BY <1>1
      <3>2. i < k \/ i = k \/ i > k  BY <1>4
      <3> QED BY <1>4, <1>6, <3>1, <3>2
    <2> QED BY <1>1, <1>6, <2>1, CombinationsAre DEF n
  <1>8. ASSUME NEW v \in Combinations(s) PROVE Precedes(v, w) <=> v = ix \/ Precedes(v, ix)
    <2>1. v \in [1 .. n -> Nat] /\ \A i \in 1 .. n : v[i] < s.sweep[i]
      BY <1>1, CombinationsAre
    <2>2. ASSUME v = ix PROVE Precedes(v, w)
      <3>1. k \in 1 .. n /\ DOMAIN w = 1 .. n /\ v[k] < w[k]  BY <1>1, <1>4, <1>6, <2>2, SMTT(30)
      <3>2. \A j \in 1 .. n : j < k => v[j] = w[j]  BY <1>6, <2>2
      <3> QED BY <3>1, <3>2 DEF Precedes
    <2>3. ASSUME Precedes(v, ix) PROVE Precedes(v, w)
      <3>1. PICK p \in 1 .. n : v[p] < ix[p] /\ \A j \in 1 .. n : j < p => v[j] = ix[j]
        BY <1>1, <2>3 DEF Precedes
      <3>2. CASE p < k  BY <1>6, <3>1, <3>2, <1>4 DEF Precedes
      <3>3. CASE p = k
        <4>1. v[k] < w[k]  BY <1>1, <1>4, <1>6, <2>1, <3>1, <3>3
        <4>2. \A j \in 1 .. n : j < k => v[j] = w[j]  BY <1>6, <3>1, <3>3
        <4> QED BY <1>4, <1>6, <4>1, <4>2 DEF Precedes
      <3>4. CASE p > k
        <4>1. v[k] = ix[k]  BY <1>4, <3>1, <3>4
        <4>2. v[k] < w[k]  BY <1>1, <1>4, <1>6, <4>1
        <4>3. \A j \in 1 .. n : j < k => v[j] = w[j]  BY <1>1, <1>4, <1>6, <3>1, <3>4
        <4> QED BY <1>4, <1>6, <4>2, <4>3 DEF Precedes
      <3> QED BY <1>1, <1>4, <3>2, <3>3, <3>4
    <2>4. ASSUME Precedes(v, w), v # ix PROVE Precedes(v, ix)
      <3>1. PICK p \in 1 .. n : v[p] < w[p] /\ \A j \in 1 .. n : j < p => v[j] = w[j]
        BY <1>6, <2>4 DEF Precedes
      <3>2. ~(p > k)  BY <1>6, <2>1, <3>1
      <3>3. CASE p < k
        <4>1. v[p] < ix[p] /\ \A j \in 1 .. n : j < p => v[j] = ix[j]
          BY <1>1, <1>4, <1>6, <3>1, <3>3
        <4> QED BY <1>1, <4>1 DEF Precedes
      <3>4. CASE p = k
        <4>2. ASSUME NEW j \in 1 .. n PROVE v[j] <= ix[j]
          <5>1. /\ v[j] \in Nat /\ ix[j] \in Nat /\ s.sweep[j] \in Nat /\ v[j] < s.sweep[j]
                /\ j < k \/ j = k \/ j > k
            BY <1>1, <1>4, <2>1, SMTT(30)
          <5>2. CASE j < k  BY <1>6, <3>1, <3>4, <5>1, <5>2
          <5>3. CASE j = k  BY <1>6, <3>1, <3>4, <5>1, <5>3
          <5>4. CASE j > k  BY <1>4, <5>1, <5>4
          <5> QED BY <5>1, <5>2, <5>3, <5>4
        <4>3. PICK q \in 1 .. n : v[q] # ix[q] /\ \A j \in 1 .. n : j < q => v[j] = ix[j]
          BY <1>1, <2>1, <2>4, FirstDifference
        <4>4. v[q] < ix[q]
          <5>1. v[q] \in Nat /\ ix[q] \in Nat /\ v[q] <= ix[q] /\ v[q] # ix[q]  BY <1>1, <2>1, <4>2, <4>3
          <5> QED BY <5>1
        <4> QED BY <1>1, <4>3, <4>4 DEF Precedes
      <3> QED BY <1>1, <1>4, <3>2, <3>3, <3>4
    <2> QED BY <2>2, <2>3, <2>4
  <1> QED BY <1>7, <1>8 DEF w

(* unpackLinearSweep counts all options up together.                         *)
LEMMA NextLinear ==
  ASSUME NEW s \in Studies, NEW ix \in Combinations(s), BelowLimit(s, ix) # {}, Linear(s), SameLengths(s)
  PROVE  LET w == [i \in DOMAIN ix |-> ix[i] + 1] IN
         /\ w \in Combinations(s)
         /\ \A v \in Combinations(s) : Precedes(v, w) <=> v = ix \/ Precedes(v, ix)
  <1> DEFINE n == Len(s.sweep)
             w == [i \in DOMAIN ix |-> ix[i] + 1]
  <1>1. /\ n \in Nat /\ DOMAIN s.sweep = 1 .. n /\ ix \in [1 .. n -> Nat]
        /\ \A i \in 1 .. n : s.sweep[i] \in Nat /\ ix[i] < s.sweep[i] /\ ix[i] = ix[1]
    BY CombinationsAre DEF Linear
  <1>2. PICK k \in 1 .. n : ix[k] < s.sweep[k] - 1  BY <1>1 DEF BelowLimit, limits
  <1>3. \A i \in 1 .. n : ix[i] < s.sweep[i] - 1
    <2>1. ASSUME NEW i \in 1 .. n PROVE s.sweep[i] = s.sweep[k] /\ ix[i] = ix[k]
      BY <1>1 DEF SameLengths
    <2> QED BY <1>2, <2>1
  <1>4. w \in [1 .. n -> Nat] /\ \A i \in 1 .. n : w[i] = ix[i] + 1  BY <1>1
  <1>5. w \in Combinations(s)
    <2>1. \A i \in 1 .. n : w[i] < s.sweep[i]  BY <1>1, <1>3, <1>4
    <2>2. \A i, j \in 1 .. n : w[i] = w[j]  BY <1>1, <1>4
    <2> QED BY <1>1, <1>4, <2>1, <2>2, CombinationsAre
  <1> HIDE DEF w
  <1>6. ASSUME NEW v \in Combinations(s) PROVE Precedes(v, w) <=> v = ix \/ Precedes(v, ix)
    <2>1. v \in [1 .. n -> Nat] /\ \A i \in 1 .. n : v[i] = v[1]
      BY <1>1, CombinationsAre DEF Linear
    <2>2. 1 \in 1 .. n  BY <1>1, <1>2
    <2>3. Precedes(v, w) <=> v[1] < w[1]
      <3>1. ASSUME NEW p \in 1 .. n, v[p] < w[p] PROVE v[1] < w[1]  BY <1>1, <1>4, <2>1, <2>2, <3>1
      <3>2. \A j \in 1 .. n : ~(j < 1)  BY <1>1
      <3> QED BY <1>4, <2>2, <3>1, <3>2 DEF Precedes
    <2>4. Precedes(v, ix) <=> v[1] < ix[1]
      <3>1. ASSUME NEW p \in 1 .. n, v[p] < ix[p] PROVE v[1] < ix[1]  BY <1>1, <2>1, <2>2, <3>1
      <3>2. \A j \in 1 .. n : ~(j < 1)  BY <1>1
      <3> QED BY <1>1, <2>2, <3>1, <3>2 DEF Precedes
    <2>5. v = ix <=> v[1] = ix[1]
      <3>1. ASSUME v[1] = ix[1] PROVE \A i \in 1 .. n : v[i] = ix[i]  BY <1>1, <2>1, <3>1
      <3> QED BY <1>1, <2>1, <3>1
    <2>6. v[1] < w[1] <=> v[1] = ix[1] \/ v[1] < ix[1]  BY <1>1, <1>4, <2>1, <2>2
    <2> QED BY <2>3, <2>4, <2>5, <2>6
  <1> QED BY <1>5, <1>6 DEF w

-----------------------------------------------------------------------------
(* Studies and their experiments                                             *)

LEMMA StudyFacts ==
  ASSUME CommonInv, pc \notin {"new", "fatal"}
  PROVE  /\ studies \in Seq(Studies) /\ Len(studies) \in Nat /\ Len(studies) > 0
         /\ DOMAIN studies = 1 .. Len(studies)
         /\ \A i \in DOMAIN studies :
              /\ studies[i] \in Studies /\ NumTraces(studies[i]) \in Nat
              /\ \A j \in DOMAIN studies[i].sweep : studies[i].sweep[j] > 0
  <1>1. studies \in Seq(Studies)  BY StudiesAssumption DEF CommonInv
  <1>2. CheckMultiLoaderConfig  BY DEF CommonInv
  <1>3. Len(studies) \in Nat /\ Len(studies) > 0 /\ DOMAIN studies = 1 .. Len(studies)
    BY <1>1, <1>2 DEF CheckMultiLoaderConfig
  <1>4. ASSUME NEW i \in DOMAIN studies PROVE studies[i] \in Studies  BY <1>1, <1>3
  <1>5. ASSUME NEW i \in DOMAIN studies PROVE NumTraces(studies[i]) \in Nat
    <2>1. studies[i].dir \in Nat \cup {NoDir} /\ studies[i].values \in Nat  BY <1>4 DEF Studies
    <2> QED BY <2>1 DEF NumTraces
  <1> QED BY <1>1, <1>2, <1>3, <1>4, <1>5 DEF CheckMultiLoaderConfig

LEMMA ExperimentFacts ==
  ASSUME CommonInv, pc \notin {"new", "fatal"}, NEW i \in DOMAIN studies
  PROVE  /\ ExperimentsOf(i) \subseteq AllExperiments /\ ExperimentsOf(i) \subseteq Exps
         /\ \A x \in ExperimentsOf(i) :
              x.study = i /\ x.trace \in 1 .. NumTraces(studies[i]) /\ x.values \in Combinations(studies[i])
         /\ \A t \in 1 .. NumTraces(studies[i]), v \in Combinations(studies[i]) :
              [study |-> i, trace |-> t, values |-> v] \in ExperimentsOf(i)
         /\ \A x, y \in ExperimentsOf(i) : x.trace = y.trace /\ x.values = y.values => x = y
  <1>1. i \in Nat /\ NumTraces(studies[i]) \in Nat /\ studies[i] \in Studies  BY StudyFacts
  <1>2. Combinations(studies[i]) \subseteq Seq(Nat)
    <2>1. \A v \in Combinations(studies[i]) : v \in [1 .. Len(studies[i].sweep) -> Nat]
      BY <1>1, CombinationsAre
    <2>2. Len(studies[i].sweep) \in Nat  BY <1>1, CombinationsAre
    <2> QED BY <2>1, <2>2
  <1>3. ExperimentsOf(i) \subseteq AllExperiments  BY DEF AllExperiments
  <1>4. ExperimentsOf(i) \subseteq Exps  BY <1>1, <1>2 DEF ExperimentsOf, Exps
  <1> QED BY <1>3, <1>4 DEF ExperimentsOf

LEMMA CommonKept ==
  ASSUME MInv, [Next]_vars
  PROVE  CommonInv' /\ UNCHANGED <<studies, failFast>>
  <1> USE DEF unpackVars, runVars
  <1>1. CommonInv  BY DEF MInv
  <1>2. UNCHANGED <<studies, failFast>>
    BY DEF vars, Next, NewMultiLoaderRunner, StartRun, UnpackExperiment, UnpackFails, Unpacked,
           PrepareExperiment, Reset, ResetReturns, ExecuteLoader, CollectMetrics, CollectReturns,
           performCleanup, NextExperiment, NextStudy, EndRun, ScriptFails, MetricManagerStep, Terminated
  <1>3. CheckMultiLoaderConfig' <=> CheckMultiLoaderConfig  BY <1>2 DEF CheckMultiLoaderConfig
  <1> USE DEF InRun, InExperiment
  <1>4. CASE \/ Reset \/ ResetReturns \/ CollectMetrics \/ CollectReturns \/ performCleanup
             \/ PrepareExperiment \/ ExecuteLoader \/ MetricManagerStep \/ Terminated \/ UNCHANGED vars
    <2>1. UNCHANGED <<study, DryRun, experiment, experiments>> /\ DryRunSuccess' \in BOOLEAN
      BY <1>1, <1>4
      DEF CommonInv, vars, Reset, ResetReturns, CollectMetrics, CollectReturns, performCleanup,
          PrepareExperiment, ExecuteLoader, MetricManagerStep, Terminated
    <2>2. pc' = pc \/ (pc \in InExperiment /\ pc' \in InExperiment)
      BY <1>4
      DEF vars, Reset, ResetReturns, CollectMetrics, CollectReturns, performCleanup,
          PrepareExperiment, ExecuteLoader, MetricManagerStep, Terminated
    <2> QED BY <1>1, <1>2, <1>3, <2>1, <2>2 DEF CommonInv
  <1>5. CASE NewMultiLoaderRunner \/ UnpackFails \/ EndRun \/ ScriptFails
    BY <1>1, <1>2, <1>3, <1>5 DEF CommonInv, NewMultiLoaderRunner, UnpackFails, EndRun, ScriptFails
  <1>6. ASSUME NEW dry \in BOOLEAN, StartRun(dry) PROVE CommonInv'
    <2>1. pc \in {"dry", "actual"}  BY <1>6 DEF StartRun
    <2>2. 1 \in DOMAIN studies  BY <1>1, <2>1, StudyFacts
    <2>3. /\ study' = 1 /\ experiments' = <<>> /\ experiment' = 1 /\ pc' = "unpack" /\ DryRun' = dry
          /\ UNCHANGED DryRunSuccess
      BY <1>6 DEF StartRun, BeginStudy
    <2>4. <<>> \in Seq(Exps)  OBVIOUS
    <2> QED BY <1>1, <1>2, <1>3, <2>1, <2>2, <2>3, <2>4 DEF CommonInv
  <1>7. CASE NextStudy
    <2>1. pc = "studyDone" /\ UNCHANGED <<DryRun, DryRunSuccess>>  BY <1>7 DEF NextStudy
    <2>2. /\ study \in DOMAIN studies /\ DOMAIN studies = 1 .. Len(studies) /\ Len(studies) \in Nat
      BY <1>1, <2>1, StudyFacts DEF CommonInv
    <2>3. CASE study < Len(studies)
      <3>1. /\ study' = study + 1 /\ experiments' = <<>> /\ experiment' = 1 /\ pc' = "unpack"
        BY <1>7, <2>3 DEF NextStudy, BeginStudy
      <3>2. study + 1 \in DOMAIN studies  BY <2>2, <2>3
      <3>3. <<>> \in Seq(Exps)  OBVIOUS
      <3> QED BY <1>1, <1>2, <1>3, <2>1, <3>1, <3>2, <3>3 DEF CommonInv
    <2>4. CASE ~(study < Len(studies))
      <3>1. UNCHANGED <<study, experiments, experiment>> /\ pc' = "ran"  BY <1>7, <2>4 DEF NextStudy
      <3>2. study = Len(studies)  BY <2>2, <2>4
      <3> QED BY <1>1, <1>2, <1>3, <2>1, <2>2, <3>1, <3>2 DEF CommonInv
    <2> QED BY <2>3, <2>4
  <1>8. CASE UnpackExperiment
    <2>1. /\ pc = "unpack" /\ UNCHANGED <<DryRun, DryRunSuccess, pc, study, experiment>>
          /\ trace <= NumTraces(S)
          /\ experiments' = Append(experiments, [study |-> study, trace |-> trace, values |-> indices])
      BY <1>8 DEF UnpackExperiment
    <2>2. study \in DOMAIN studies  BY <1>1, <2>1 DEF CommonInv
    <2>3. trace \in 1 .. NumTraces(S) + 1 /\ indices \in Combinations(S)  BY <2>1 DEF MInv, UnpackInv
    <2>4. trace \in 1 .. NumTraces(S)  BY <1>1, <2>1, <2>2, <2>3, StudyFacts DEF S
    <2>5. [study |-> study, trace |-> trace, values |-> indices] \in Exps
      BY <1>1, <2>1, <2>2, <2>3, <2>4, ExperimentFacts DEF S
    <2>6. experiments' \in Seq(Exps)  BY <1>1, <2>1, <2>5, AppendProperties DEF CommonInv
    <2> QED BY <1>1, <1>2, <1>3, <2>1, <2>6 DEF CommonInv
  <1>9. CASE Unpacked
    <2>1. /\ pc = "unpack" /\ UNCHANGED <<DryRun, DryRunSuccess, study, experiments, experiment>>
          /\ pc' = IF experiments = <<>> THEN "studyDone" ELSE "prepare"
      BY <1>9 DEF Unpacked
    <2>2. experiment = 1 /\ experiments \in Seq(Exps)  BY <1>1, <2>1 DEF CommonInv
    <2>3. experiments # <<>> => 1 \in DOMAIN experiments  BY <2>2
    <2> QED BY <1>1, <1>2, <1>3, <2>1, <2>2, <2>3 DEF CommonInv
  <1>10. CASE NextExperiment
    <2>1. /\ pc = "next" /\ UNCHANGED <<DryRun, DryRunSuccess, study, experiments>>
          /\ \/ experiment < Len(experiments) /\ experiment' = experiment + 1 /\ pc' = "prepare"
             \/ pc' = "studyDone" /\ UNCHANGED experiment
      BY <1>10 DEF NextExperiment
    <2>2. experiment \in Nat /\ experiments \in Seq(Exps) /\ experiment \in DOMAIN experiments
      BY <1>1, <2>1 DEF CommonInv
    <2>3. experiment < Len(experiments) => experiment + 1 \in DOMAIN experiments  BY <2>2
    <2> QED BY <1>1, <1>2, <1>3, <2>1, <2>2, <2>3 DEF CommonInv
  <1> QED BY <1>2, <1>4, <1>5, <1>6, <1>7, <1>8, <1>9, <1>10 DEF Next

(* UnpackExperiment adds exactly the experiment that comes next.              *)
LEMMA UnpackedNext ==
  ASSUME MInv, UnpackExperiment
  PROVE  LET x0 == [study |-> study, trace |-> trace, values |-> indices] IN
         /\ x0 \in ExperimentsOf(study) /\ ~Unpacking(x0)
         /\ trace' \in 1 .. NumTraces(S) + 1 /\ indices' \in Combinations(S)
         /\ \A x \in ExperimentsOf(study) : Unpacking(x)' <=> Unpacking(x) \/ x = x0
  <1> DEFINE x0 == [study |-> study, trace |-> trace, values |-> indices]
             N == NumTraces(S)
  <1>1. pc = "unpack" /\ trace <= N /\ (Linear(S) => SameLengths(S))  BY DEF UnpackExperiment
  <1>2. CommonInv /\ study \in DOMAIN studies  BY <1>1 DEF MInv, CommonInv, InRun
  <1>3. /\ S \in Studies /\ N \in Nat /\ \A j \in DOMAIN S.sweep : S.sweep[j] > 0
    BY <1>1, <1>2, StudyFacts DEF S
  <1>4. trace \in 1 .. N + 1 /\ indices \in Combinations(S)  BY <1>1 DEF MInv, UnpackInv
  <1> HIDE DEF N
  <1>5. trace \in 1 .. N /\ trace \in Nat  BY <1>1, <1>3, <1>4
  <1>6. x0 \in ExperimentsOf(study)  BY <1>1, <1>2, <1>4, <1>5, ExperimentFacts DEF S, N
  <1>7. ~Unpacking(x0)
    <2>1. ~Precedes(indices, indices)  BY <1>3, <1>4, NotBeforeItself
    <2> QED BY <1>5, <2>1 DEF Unpacking
  <1>8. ASSUME NEW x \in ExperimentsOf(study)
        PROVE  /\ x.trace \in Nat /\ x.values \in Combinations(S)
               /\ x = x0 <=> x.trace = trace /\ x.values = indices
    BY <1>1, <1>2, <1>3, <1>6, ExperimentFacts DEF S, N
  <1>9. CASE BelowLimit(S, indices) = {}
    <2>1. trace' = trace + 1 /\ indices' = SweepStart(S)  BY <1>9 DEF UnpackExperiment
    <2>2. trace' \in 1 .. N + 1 /\ indices' \in Combinations(S)
      BY <1>3, <1>5, <2>1, FirstCombination
    <2>3. ASSUME NEW x \in ExperimentsOf(study) PROVE Unpacking(x)' <=> Unpacking(x) \/ x = x0
      <3>1. ~Precedes(x.values, indices')  BY <1>3, <1>8, <2>1, FirstCombination
      <3>2. Unpacking(x)' <=> x.trace < trace + 1  BY <2>1, <3>1 DEF Unpacking
      <3>3. x.values = indices \/ Precedes(x.values, indices)  BY <1>3, <1>4, <1>8, <1>9, LastCombination
      <3>4. x.trace < trace + 1 <=> x.trace < trace \/ x.trace = trace  BY <1>5, <1>8
      <3> QED BY <1>8, <3>2, <3>3, <3>4 DEF Unpacking
    <2> QED BY <1>6, <1>7, <2>2, <2>3 DEF N
  <1>10. CASE BelowLimit(S, indices) # {}
    <2>1. /\ trace' = trace
          /\ indices' = IF Linear(S) THEN [i \in DOMAIN indices |-> indices[i] + 1]
                        ELSE NextCProduct(S, indices)
      BY <1>10 DEF UnpackExperiment
    <2>2. /\ indices' \in Combinations(S)
          /\ \A v \in Combinations(S) : Precedes(v, indices') <=> v = indices \/ Precedes(v, indices)
      <3>1. CASE Linear(S)
        BY <1>1, <1>3, <1>4, <1>10, <2>1, <3>1, NextLinear
      <3>2. CASE ~Linear(S)
        <4>1. S.type # "linear"
          <5>1. SUFFICES ASSUME S.sweep = <<>> PROVE FALSE  BY <3>2 DEF Linear
          <5>2. indices \in [DOMAIN S.sweep -> Nat]  BY <1>3, <1>4, CombinationsAre
          <5>3. DOMAIN indices = {}  BY <5>1, <5>2
          <5> QED BY <1>10, <5>3 DEF BelowLimit
        <4> QED BY <1>3, <1>4, <1>10, <2>1, <3>2, <4>1, NextCombination
      <3> QED BY <3>1, <3>2
    <2>3. ASSUME NEW x \in ExperimentsOf(study) PROVE Unpacking(x)' <=> Unpacking(x) \/ x = x0
      <3>1. Precedes(x.values, indices') <=> x.values = indices \/ Precedes(x.values, indices)
        BY <1>8, <2>2
      <3> QED BY <1>8, <2>1, <3>1 DEF Unpacking
    <2> QED BY <1>4, <1>6, <1>7, <2>1, <2>2, <2>3 DEF N
  <1> QED BY <1>9, <1>10

LEMMA UnpackKept ==
  ASSUME MInv, [Next]_vars
  PROVE  UnpackInv'
  <1> USE DEF unpackVars, runVars, InExperiment
  <1>1. CommonInv /\ UnpackInv /\ CommonInv' /\ studies' = studies  BY CommonKept DEF MInv
  <1>2. \A i : ExperimentsOf(i)' = ExperimentsOf(i)  BY <1>1 DEF ExperimentsOf
  <1>3. ASSUME UNCHANGED <<study, trace, indices, experiments>>, pc' = "unpack" => pc = "unpack",
               pc' \in InExperiment \cup {"studyDone", "ran"} => pc \in InExperiment \cup {"studyDone", "ran"}
        PROVE  UnpackInv'
    <2>1. S' = S /\ ExperimentsOf(study)' = ExperimentsOf(study) /\ (Distinct' <=> Distinct)
      BY <1>1, <1>2, <1>3 DEF S, Distinct, ExperimentsOf
    <2>2. \A x : Unpacking(x)' <=> Unpacking(x)  BY <1>3 DEF Unpacking
    <2> QED BY <1>1, <1>3, <2>1, <2>2 DEF UnpackInv
  <1>4. CASE \/ Reset \/ ResetReturns \/ CollectMetrics \/ CollectReturns \/ performCleanup
             \/ PrepareExperiment \/ ExecuteLoader \/ MetricManagerStep \/ Terminated \/ UNCHANGED vars
             \/ NewMultiLoaderRunner \/ UnpackFails \/ EndRun \/ ScriptFails \/ NextExperiment
    <2>1. /\ UNCHANGED <<study, trace, indices, experiments>>
          /\ pc' = "unpack" => pc = "unpack"
          /\ pc' \in InExperiment \cup {"studyDone", "ran"} => pc \in InExperiment \cup {"studyDone", "ran"}
      BY <1>4
      DEF vars, Reset, ResetReturns, CollectMetrics, CollectReturns, performCleanup, NextExperiment,
          PrepareExperiment, ExecuteLoader, MetricManagerStep, Terminated, NewMultiLoaderRunner,
          UnpackFails, EndRun, ScriptFails
    <2> QED BY <1>3, <2>1
  <1>5. ASSUME NEW i \in DOMAIN studies, BeginStudy(i), pc \notin {"new", "fatal"} PROVE UnpackInv'
    <2>1. /\ study' = i /\ trace' = 1 /\ indices' = SweepStart(studies[i]) /\ experiments' = <<>>
          /\ pc' = "unpack"
      BY <1>5 DEF BeginStudy
    <2>2. S' = studies[i] /\ ExperimentsOf(study)' = ExperimentsOf(i)  BY <1>1, <2>1 DEF S, ExperimentsOf
    <2>3. /\ studies[i] \in Studies /\ NumTraces(studies[i]) \in Nat
          /\ \A j \in DOMAIN studies[i].sweep : studies[i].sweep[j] > 0
      BY <1>1, <1>5, StudyFacts
    <2>4. trace' \in 1 .. NumTraces(S') + 1 /\ indices' \in Combinations(S')
      BY <2>1, <2>2, <2>3, FirstCombination
    <2>5. ASSUME NEW x \in ExperimentsOf(i) PROVE ~Unpacking(x)'
      <3>1. x.trace \in 1 .. NumTraces(studies[i]) /\ x.values \in Combinations(studies[i])
        BY <1>1, <1>5, ExperimentFacts
      <3>2. ~Precedes(x.values, indices')  BY <2>1, <2>3, <3>1, FirstCombination
      <3>3. ~(x.trace < 1)  BY <2>3, <3>1
      <3> QED BY <2>1, <3>2, <3>3 DEF Unpacking
    <2>6. DOMAIN experiments' = {}  BY <2>1
    <2> QED BY <2>1, <2>2, <2>4, <2>5, <2>6 DEF UnpackInv, Distinct
  <1>6. ASSUME NEW dry \in BOOLEAN, StartRun(dry) PROVE UnpackInv'
    <2>1. pc \in {"dry", "actual"} /\ BeginStudy(1)  BY <1>6 DEF StartRun
    <2>2. 1 \in DOMAIN studies  BY <1>1, <2>1, StudyFacts
    <2> QED BY <1>5, <2>1, <2>2
  <1>7. CASE NextStudy
    <2>1. CASE study < Len(studies)
      <3>1. BeginStudy(study + 1) /\ pc = "studyDone"  BY <1>7, <2>1 DEF NextStudy
      <3>2. study \in DOMAIN studies /\ DOMAIN studies = 1 .. Len(studies) /\ Len(studies) \in Nat
        BY <1>1, <3>1, StudyFacts DEF CommonInv, InRun
      <3>3. study + 1 \in DOMAIN studies  BY <2>1, <3>2
      <3> QED BY <1>5, <3>1, <3>3
    <2>2. CASE ~(study < Len(studies))
      <3>1. UNCHANGED <<study, trace, indices, experiments>> /\ pc = "studyDone" /\ pc' = "ran"
        BY <1>7, <2>2 DEF NextStudy
      <3> QED BY <1>3, <3>1
    <2> QED BY <2>1, <2>2
  <1>8. CASE UnpackExperiment
    <2> DEFINE x0 == [study |-> study, trace |-> trace, values |-> indices]
    <2>1. /\ pc = "unpack" /\ UNCHANGED <<pc, study>> /\ experiments' = Append(experiments, x0)
      BY <1>8 DEF UnpackExperiment
    <2>2. S' = S /\ ExperimentsOf(study)' = ExperimentsOf(study)  BY <1>1, <2>1 DEF S, ExperimentsOf
    <2>3. /\ x0 \in ExperimentsOf(study) /\ ~Unpacking(x0)
          /\ trace' \in 1 .. NumTraces(S) + 1 /\ indices' \in Combinations(S)
          /\ \A x \in ExperimentsOf(study) : Unpacking(x)' <=> Unpacking(x) \/ x = x0
      BY <1>8, UnpackedNext
    <2>4. study \in DOMAIN studies /\ experiments \in Seq(Exps)  BY <1>1, <2>1 DEF CommonInv, InRun
    <2>5. x0 \in Exps  BY <1>1, <2>1, <2>3, <2>4, ExperimentFacts
    <2> HIDE DEF x0
    <2>6. /\ Len(experiments) \in Nat /\ DOMAIN experiments = 1 .. Len(experiments)
          /\ DOMAIN experiments' = 1 .. Len(experiments) + 1
          /\ \A i \in 1 .. Len(experiments) : experiments'[i] = experiments[i]
          /\ experiments'[Len(experiments) + 1] = x0
      BY <2>1, <2>4, <2>5, AppendProperties
    <2>7. /\ \A i \in DOMAIN experiments : experiments[i] \in ExperimentsOf(study) /\ Unpacking(experiments[i])
          /\ \A x \in ExperimentsOf(study) : Unpacking(x) => \E i \in DOMAIN experiments : x = experiments[i]
          /\ Distinct
      BY <1>1, <2>1 DEF UnpackInv
    <2>8. \A i \in DOMAIN experiments' : i \in DOMAIN experiments \/ i = Len(experiments) + 1  BY <2>6
    <2>9. \A i \in DOMAIN experiments' :
            experiments'[i] \in ExperimentsOf(study) /\ Unpacking(experiments[i])'
      <3>1. ASSUME NEW i \in DOMAIN experiments' PROVE experiments'[i] \in ExperimentsOf(study)
        BY <2>3, <2>6, <2>7, <2>8
      <3>2. ASSUME NEW i \in DOMAIN experiments' PROVE Unpacking(experiments'[i]) \/ experiments'[i] = x0
        BY <2>6, <2>7, <2>8
      <3>3. ASSUME NEW i \in DOMAIN experiments', NEW x \in ExperimentsOf(study), x = experiments'[i]
            PROVE  Unpacking(x)'
        BY <2>3, <3>2, <3>3
      <3>4. ASSUME NEW i \in DOMAIN experiments' PROVE Unpacking(experiments[i])'
        BY <3>1, <3>3 DEF Unpacking
      <3> QED BY <3>1, <3>4
    <2>10. \A x \in ExperimentsOf(study) : Unpacking(x)' => \E i \in DOMAIN experiments' : x = experiments'[i]
      <3>1. Len(experiments) + 1 \in DOMAIN experiments' /\ DOMAIN experiments \subseteq DOMAIN experiments'
        BY <2>6
      <3> QED BY <2>3, <2>6, <2>7, <3>1
    <2>11. Distinct'
      <3>1. \A i \in DOMAIN experiments : experiments[i] # x0  BY <2>3, <2>7
      <3> QED BY <2>6, <2>7, <2>8, <3>1 DEF Distinct
    <2> QED BY <2>1, <2>2, <2>3, <2>9, <2>10, <2>11 DEF UnpackInv
  <1>9. CASE Unpacked
    <2>1. /\ pc = "unpack" /\ UNCHANGED <<study, trace, indices, experiments>> /\ trace > NumTraces(S)
          /\ pc' \in {"studyDone", "prepare"}
      BY <1>9 DEF Unpacked
    <2>2. S' = S /\ ExperimentsOf(study)' = ExperimentsOf(study) /\ (Distinct' <=> Distinct)
      BY <1>1, <2>1 DEF S, Distinct, ExperimentsOf
    <2>3. study \in DOMAIN studies  BY <1>1, <2>1 DEF CommonInv, InRun
    <2>4. NumTraces(S) \in Nat  BY <1>1, <2>1, <2>3, StudyFacts DEF S
    <2>5. trace \in Nat  BY <1>1, <2>1, <2>4 DEF UnpackInv
    <2>6. ASSUME NEW x \in ExperimentsOf(study) PROVE Unpacking(x)
      <3>1. x.trace \in 1 .. NumTraces(S)  BY <1>1, <2>1, <2>3, ExperimentFacts DEF S
      <3> QED BY <2>1, <2>4, <2>5, <3>1 DEF Unpacking
    <2> QED BY <1>1, <2>1, <2>2, <2>6 DEF UnpackInv
  <1> QED BY <1>4, <1>6, <1>7, <1>8, <1>9 DEF Next

-----------------------------------------------------------------------------
(* The history of starts                                                     *)

LEMMA HistoryTypes ==
  ASSUME MInv
  PROVE  /\ started \in Seq(Starts) /\ Len(started) \in Nat /\ DOMAIN started = 1 .. Len(started)
         /\ runs \in Nat /\ runs <= Len(started) /\ DryCount \in Nat /\ DryCount + runs = Len(started)
         /\ RealIndices \subseteq DOMAIN started /\ 1 .. DryCount \subseteq DOMAIN started
         /\ \A i \in DOMAIN started : i \in RealIndices <=> i > DryCount
  <1>1. started \in Seq(Starts) /\ runs \in Nat /\ runs <= Len(started)  BY DEF MInv, StartedInv
  <1>2. Len(started) \in Nat /\ DOMAIN started = 1 .. Len(started)  BY <1>1
  <1> QED BY <1>1, <1>2 DEF DryCount, RealIndices

LEMMA Unstarted ==
  ASSUME [Next]_vars, ~ExecuteLoader
  PROVE  UNCHANGED <<started, runs>> /\ DryCount' = DryCount /\ RealIndices' = RealIndices
  <1>1. started' = started
    BY DEF vars, Next, NewMultiLoaderRunner, StartRun, UnpackExperiment, UnpackFails, Unpacked,
           PrepareExperiment, Reset, ResetReturns, CollectMetrics, CollectReturns, performCleanup,
           NextExperiment, NextStudy, EndRun, ScriptFails, MetricManagerStep, Terminated, runVars
  <1>2. MetricStep => runs' = runs
    BY DEF MetricStep, KillTop, StartTop, CopyTop, ResetDone, TopCollected, NodeFails, MetricFatal,
           collectPodLogs, collectPrometheusSnapshot, fetchPrometheusSnapshot
  <1>3. runs' = runs
    BY <1>2
    DEF vars, Next, NewMultiLoaderRunner, StartRun, UnpackExperiment, UnpackFails, Unpacked,
        PrepareExperiment, Reset, ResetReturns, CollectMetrics, CollectReturns, performCleanup,
        NextExperiment, NextStudy, EndRun, ScriptFails, MetricManagerStep, Terminated, metricVars,
        StartReset, StartCollect
  <1> QED BY <1>1, <1>3 DEF DryCount, RealIndices

LEMMA CurrentFacts ==
  ASSUME MInv, pc \in InExperiment
  PROVE  /\ study \in DOMAIN studies /\ study \in Nat /\ experiments \in Seq(Exps)
         /\ experiment \in DOMAIN experiments /\ experiment \in 1 .. Len(experiments)
         /\ experiment \in Nat /\ Len(experiments) \in Nat /\ DOMAIN experiments = 1 .. Len(experiments)
         /\ Current \in ExperimentsOf(study) /\ Current \in AllExperiments /\ Current \in Exps
         /\ Current.study = study
  <1>1. CommonInv /\ UnpackInv /\ pc \notin {"new", "fatal"}  BY DEF MInv, InExperiment
  <1>2. /\ study \in DOMAIN studies /\ experiments \in Seq(Exps) /\ experiment \in DOMAIN experiments
    BY <1>1 DEF CommonInv, InRun
  <1>3. study \in Nat  BY <1>1, <1>2, StudyFacts
  <1>4. Len(experiments) \in Nat /\ DOMAIN experiments = 1 .. Len(experiments)  BY <1>2
  <1>5. Current \in ExperimentsOf(study)  BY <1>1, <1>2 DEF UnpackInv, Current
  <1> QED BY <1>1, <1>2, <1>3, <1>4, <1>5, ExperimentFacts

(* What one start of the loader does.                                        *)
LEMMA Executed ==
  ASSUME MInv, ExecuteLoader
  PROVE  \E ok \in BOOLEAN :
           /\ pc = "execute" /\ UNCHANGED <<studies, failFast, DryRun, study, experiments, experiment,
                                            tempConfig, outputDir>>
           /\ started' \in Seq(Starts) /\ Len(started') = Len(started) + 1
           /\ \A i \in DOMAIN started : started'[i] = started[i]
           /\ started'[Len(started) + 1] =
                [dry |-> DryRun, exp |-> Current, verbosity |-> verbosity, ok |-> ok]
           /\ tries' = tries + 1 /\ verbosity' = (IF ok THEN verbosity ELSE "debug")
           /\ pc' = IF ~ok /\ tries' < numTries THEN "execute" ELSE IF DryRun THEN "cleanup" ELSE "collect"
           /\ DryRunSuccess' = IF ~ok /\ tries' = numTries THEN FALSE ELSE DryRunSuccess
           /\ runs' = IF DryRun THEN runs ELSE runs + 1
           /\ DryCount' = (IF DryRun THEN DryCount + 1 ELSE DryCount)
           /\ Current' = Current
  <1>1. pc = "execute" /\ pc \in InExperiment  BY DEF ExecuteLoader, InExperiment
  <1>2. tempConfig = Current /\ verbosity \in {"", "debug"}  BY <1>1 DEF MInv, AttemptInv
  <1>3. DryRun \in BOOLEAN  BY DEF MInv, CommonInv
  <1>4. PICK ok \in BOOLEAN :
             /\ started' = Append(started, [dry |-> DryRun, exp |-> tempConfig, verbosity |-> verbosity,
                                            ok |-> ok])
             /\ verbosity' = IF ok THEN verbosity ELSE "debug"
             /\ pc' = IF ~ok /\ tries' < numTries THEN "execute" ELSE IF DryRun THEN "cleanup" ELSE "collect"
             /\ DryRunSuccess' = IF ~ok /\ tries' = numTries THEN FALSE ELSE DryRunSuccess
    BY DEF ExecuteLoader
  <1> DEFINE e == [dry |-> DryRun, exp |-> Current, verbosity |-> verbosity, ok |-> ok]
  <1>5. e \in Starts  BY <1>1, <1>2, <1>3, CurrentFacts DEF Starts
  <1>6. started' = Append(started, e)  BY <1>2, <1>4
  <1> HIDE DEF e
  <1>7. /\ started' \in Seq(Starts) /\ Len(started') = Len(started) + 1
        /\ \A i \in DOMAIN started : started'[i] = started[i]
        /\ started'[Len(started) + 1] = e
    BY <1>5, <1>6, HistoryTypes, AppendProperties
  <1>8. /\ UNCHANGED <<studies, failFast, DryRun, study, experiments, experiment, tempConfig, outputDir>>
        /\ tries' = tries + 1 /\ runs' = (IF DryRun THEN runs ELSE runs + 1)
    BY DEF ExecuteLoader, unpackVars
  <1>9. DryCount' = (IF DryRun THEN DryCount + 1 ELSE DryCount)
    <2>1. Len(started) \in Nat /\ runs \in Nat  BY HistoryTypes
    <2>2. CASE DryRun  BY <1>7, <1>8, <2>1, <2>2 DEF DryCount
    <2>3. CASE ~DryRun  BY <1>7, <1>8, <2>1, <2>3 DEF DryCount
    <2> QED BY <2>2, <2>3
  <1>10. Current' = Current  BY <1>8 DEF Current
  <1> QED BY <1>1, <1>4, <1>7, <1>8, <1>9, <1>10 DEF e

(* No start of this run so far was of the experiment that is being prepared.  *)
LEMMA FreshWhenPrepared ==
  ASSUME MInv, pc = "prepare", NEW i \in RunIndices
  PROVE  started[i].exp # Current
  <1>1. Reached(started[i].exp)  BY DEF MInv, StartedInv, InRun, InExperiment
  <1>2. /\ Current.study = study /\ study \in DOMAIN studies /\ study \in Nat
        /\ experiment \in DOMAIN experiments /\ experiment \in Nat /\ Len(experiments) \in Nat
        /\ DOMAIN experiments = 1 .. Len(experiments)
    BY CurrentFacts DEF InExperiment
  <1>3. CASE \E j \in 1 .. study - 1 : started[i].exp \in ExperimentsOf(j)
    <2>1. PICK j \in 1 .. study - 1 : started[i].exp \in ExperimentsOf(j)  BY <1>3
    <2>2. j \in DOMAIN studies
      <3>1. CommonInv /\ pc \notin {"new", "fatal"}  BY DEF MInv
      <3>2. DOMAIN studies = 1 .. Len(studies) /\ Len(studies) \in Nat  BY <3>1, StudyFacts
      <3> QED BY <1>2, <3>2
    <2>3. started[i].exp.study = j  BY <2>1, <2>2, ExperimentFacts DEF MInv
    <2>4. j # study  BY <1>2
    <2> QED BY <1>2, <2>3, <2>4
  <1>4. CASE \E k \in 1 .. experiment - 1 : started[i].exp = experiments[k]
    <2>1. PICK k \in 1 .. experiment - 1 : started[i].exp = experiments[k]  BY <1>4
    <2>2. k \in DOMAIN experiments /\ k # experiment  BY <1>2
    <2>3. Distinct  BY DEF MInv, UnpackInv, InExperiment
    <2> QED BY <1>2, <2>1, <2>2, <2>3 DEF Distinct, Current
  <1> QED BY <1>1, <1>3, <1>4 DEF Reached, Tried

(* A run has reached more experiments only when it starts one.               *)
LEMMA ReachedKept ==
  ASSUME MInv, [Next]_vars, ~ExecuteLoader, pc \in InRun, pc' \in InRun
  PROVE  /\ DryRun' = DryRun
         /\ \A x \in AllExperiments : Reached(x)' <=> Reached(x)
  <1> USE DEF InRun, InExperiment, unpackVars, runVars
  <1>1. CommonInv /\ UnpackInv /\ studies' = studies /\ CommonInv' /\ UnpackInv'
    BY CommonKept, UnpackKept DEF MInv
  <1>2. DryRun' = DryRun
    BY DEF vars, Next, NewMultiLoaderRunner, StartRun, UnpackExperiment, UnpackFails, Unpacked,
           PrepareExperiment, Reset, ResetReturns, CollectMetrics, CollectReturns, performCleanup,
           NextExperiment, NextStudy, EndRun, ScriptFails, MetricManagerStep, Terminated
  <1>3. \A i, x : x \in ExperimentsOf(i)' <=> x \in ExperimentsOf(i)  BY <1>1 DEF ExperimentsOf
  <1>4. study \in Nat /\ experiment \in Nat
    <2>1. study \in DOMAIN studies /\ experiment \in Nat  BY <1>1 DEF CommonInv
    <2> QED BY <1>1, <2>1, StudyFacts
  <1>5. ASSUME UNCHANGED <<study, experiments, experiment>>,
               pc' \in InExperiment <=> pc \in InExperiment, Tried' <=> Tried,
               pc' \in {"studyDone", "ran"} <=> pc \in {"studyDone", "ran"}
        PROVE  \A x : Reached(x)' <=> Reached(x)
    BY <1>1, <1>5 DEF Reached, Current, ExperimentsOf
  <1>6. CASE UNCHANGED vars \/ Terminated \/ MetricManagerStep
    <2>1. UNCHANGED <<study, experiments, experiment, pc, tries>>
      BY <1>6 DEF vars, Terminated, MetricManagerStep
    <2>2. Tried' <=> Tried  BY <2>1 DEF Tried
    <2> QED BY <1>2, <1>5, <2>1, <2>2
  <1>7. CASE \/ PrepareExperiment \/ Reset \/ ResetReturns \/ CollectMetrics \/ CollectReturns
             \/ performCleanup
    <2>1. UNCHANGED <<study, experiments, experiment>> /\ pc \in InExperiment /\ pc' \in InExperiment
      BY <1>7
      DEF PrepareExperiment, Reset, ResetReturns, CollectMetrics, CollectReturns, performCleanup
    <2>2. pc \in {"reset", "resetting"} => tries = 0  BY DEF MInv, AttemptInv
    <2>3. \/ pc = "prepare" /\ pc' \in {"reset", "execute"} /\ tries' = 0
          \/ pc \in {"reset", "resetting"} /\ pc' \in {"resetting", "execute"} /\ tries' = 0
          \/ pc \in {"collect", "collecting", "cleanup"} /\ pc' \in {"collecting", "cleanup", "next"}
      BY <1>7, <2>2
      DEF PrepareExperiment, Reset, ResetReturns, CollectMetrics, CollectReturns, performCleanup
    <2>4. Tried' <=> Tried  BY <2>3 DEF Tried
    <2> QED BY <1>2, <1>5, <2>1, <2>4
  <1>8. CASE UnpackExperiment
    <2>1. UNCHANGED study /\ pc = "unpack" /\ pc' = "unpack"  BY <1>8 DEF UnpackExperiment
    <2> QED BY <1>1, <1>2, <2>1 DEF Reached, ExperimentsOf
  <1>9. CASE Unpacked
    <2>1. /\ UNCHANGED <<study, experiments, experiment>> /\ pc = "unpack"
          /\ \/ pc' = "studyDone" /\ experiments = <<>>
             \/ pc' = "prepare"
      BY <1>9 DEF Unpacked
    <2>2. experiment = 1  BY <1>1, <2>1 DEF CommonInv
    <2>3. \A k : k \notin 1 .. experiment - 1  BY <2>2
    <2>4. ASSUME NEW x, pc' = "studyDone" PROVE x \notin ExperimentsOf(study)'
      <3>1. DOMAIN experiments' = {}  BY <2>1, <2>4
      <3>2. \A y \in ExperimentsOf(study)' : \E i \in DOMAIN experiments' : y = experiments'[i]
        BY <1>1, <2>4 DEF UnpackInv
      <3> QED BY <1>1, <2>1, <3>1, <3>2 DEF ExperimentsOf
    <2>5. \A x : Reached(x)' <=> Reached(x)
      BY <1>1, <2>1, <2>3, <2>4 DEF Reached, Tried, ExperimentsOf
    <2> QED BY <1>2, <2>5
  <1>10. CASE NextStudy
    <2>1. pc = "studyDone"  BY <1>10 DEF NextStudy
    <2>2. CASE study < Len(studies)
      <3>1. study' = study + 1 /\ pc' = "unpack"  BY <1>10, <2>2 DEF NextStudy, BeginStudy
      <3>2. \A j : j \in 1 .. study' - 1 <=> j \in 1 .. study - 1 \/ j = study
        <4>1. study \in DOMAIN studies /\ DOMAIN studies = 1 .. Len(studies) /\ Len(studies) \in Nat
          BY <1>1, <2>1, StudyFacts DEF CommonInv
        <4> QED BY <3>1, <4>1
      <3>3. \A x : Reached(x)' <=> \E j \in 1 .. study' - 1 : x \in ExperimentsOf(j)
        BY <1>1, <3>1 DEF Reached, ExperimentsOf
      <3>4. \A x : Reached(x) <=> (\E j \in 1 .. study - 1 : x \in ExperimentsOf(j)) \/ x \in ExperimentsOf(study)
        BY <2>1 DEF Reached
      <3>5. \A x : Reached(x)' <=> Reached(x)  BY <3>2, <3>3, <3>4
      <3> QED BY <1>2, <3>5
    <2>3. CASE ~(study < Len(studies))
      <3>1. UNCHANGED <<study, experiments, experiment>> /\ pc' = "ran"  BY <1>10, <2>3 DEF NextStudy
      <3>2. Tried' <=> Tried  BY <2>1, <3>1 DEF Tried
      <3> QED BY <1>2, <1>5, <2>1, <3>1, <3>2
    <2> QED BY <2>2, <2>3
  <1>11. CASE NextExperiment
    <2>1. /\ pc = "next" /\ UNCHANGED <<study, experiments>>
          /\ \/ experiment < Len(experiments) /\ experiment' = experiment + 1 /\ pc' = "prepare"
             \/ ~(experiment < Len(experiments)) /\ pc' = "studyDone" /\ UNCHANGED experiment
      BY <1>11 DEF NextExperiment
    <2>2. /\ experiment \in 1 .. Len(experiments) /\ Len(experiments) \in Nat
          /\ DOMAIN experiments = 1 .. Len(experiments)
      BY <2>1, CurrentFacts
    <2>3. ASSUME NEW x
          PROVE  Reached(x) <=> \/ \E j \in 1 .. study - 1 : x \in ExperimentsOf(j)
                                \/ \E k \in 1 .. experiment : x = experiments[k]
      <3>1. \A k : k \in 1 .. experiment <=> k \in 1 .. experiment - 1 \/ k = experiment  BY <2>2
      <3> QED BY <2>1, <3>1 DEF Reached, Tried, Current
    <2>4. CASE pc' = "prepare"
      <3>1. experiment' = experiment + 1 /\ experiment' - 1 = experiment  BY <2>1, <2>2, <2>4
      <3>2. ASSUME NEW x
            PROVE  Reached(x)' <=> \/ \E j \in 1 .. study - 1 : x \in ExperimentsOf(j)
                                   \/ \E k \in 1 .. experiment : x = experiments[k]
        BY <1>1, <2>1, <2>4, <3>1 DEF Reached, Tried, ExperimentsOf
      <3> QED BY <1>2, <2>3, <3>2
    <2>5. CASE pc' = "studyDone"
      <3>1. ~(experiment < Len(experiments))  BY <2>1, <2>5
      <3>2. experiment \in Nat /\ Len(experiments) \in Nat /\ experiment <= Len(experiments)
        <4>1. experiment \in 1 .. Len(experiments) /\ Len(experiments) \in Nat  BY <2>2
        <4> QED BY <4>1
      <3>3. experiment = Len(experiments)  BY <3>1, <3>2
      <3>4. ASSUME NEW x
            PROVE  x \in ExperimentsOf(study) <=> \E k \in 1 .. experiment : x = experiments[k]
        BY <1>1, <2>1, <2>2, <3>3 DEF UnpackInv
      <3>5. ASSUME NEW x
            PROVE  Reached(x)' <=> \/ \E j \in 1 .. study - 1 : x \in ExperimentsOf(j)
                                   \/ x \in ExperimentsOf(study)
        BY <1>1, <2>1, <2>5 DEF Reached, ExperimentsOf
      <3> QED BY <1>2, <2>3, <3>4, <3>5
    <2> QED BY <2>1, <2>4, <2>5
  <1>12. ASSUME \/ NewMultiLoaderRunner \/ UnpackFails \/ EndRun \/ ScriptFails
                \/ \E dry \in BOOLEAN : StartRun(dry)
         PROVE  FALSE
    BY <1>12 DEF NewMultiLoaderRunner, UnpackFails, EndRun, ScriptFails, StartRun
  <1> QED
    BY <1>6, <1>7, <1>8, <1>9, <1>10, <1>11, <1>12 DEF Next

LEMMA StartedKept ==
  ASSUME MInv, [Next]_vars
  PROVE  StartedInv'
  <1> USE DEF InRun, InExperiment
  <1>1. StartedInv /\ CommonInv /\ studies' = studies  BY CommonKept DEF MInv
  <1>2. AllExperiments' = AllExperiments  BY <1>1 DEF AllExperiments, ExperimentsOf
  <1>3. CASE ~ExecuteLoader
    <2>1. UNCHANGED <<started, runs>> /\ DryCount' = DryCount /\ RealIndices' = RealIndices
      BY <1>3, Unstarted
    <2>2. /\ pc' \in {"new", "dry"} => pc \in {"new", "dry"}
          /\ DryRun' => DryRun \/ pc \in {"new", "dry"}
      <3>1. CASE \E dry \in BOOLEAN : StartRun(dry)
        BY <3>1 DEF StartRun, BeginStudy
      <3>2. CASE ~\E dry \in BOOLEAN : StartRun(dry)
        <4>1. DryRun' = DryRun /\ (pc' \in {"new", "dry"} => pc \in {"new", "dry"})
          BY <1>3, <3>2
          DEF vars, Next, NewMultiLoaderRunner, UnpackExperiment, UnpackFails, Unpacked,
              PrepareExperiment, Reset, ResetReturns, CollectMetrics, CollectReturns, performCleanup,
              NextExperiment, NextStudy, EndRun, ScriptFails, MetricManagerStep, Terminated, BeginStudy
        <4> QED BY <4>1
      <3> QED BY <3>1, <3>2
    <2>3. ASSUME pc' \in InRun
          PROVE  /\ \A i \in RunIndices' : Reached(started[i].exp)'
                 /\ \A x \in AllExperiments : Reached(x)' => \E i \in RunIndices' : x = started'[i].exp
      <3>1. CASE pc \in InRun
        <4>1. DryRun' = DryRun /\ \A x \in AllExperiments : Reached(x)' <=> Reached(x)
          BY <1>3, <2>3, <3>1, ReachedKept
        <4>2. RunIndices' = RunIndices  BY <2>1, <4>1 DEF RunIndices
        <4>3. RunIndices \subseteq DOMAIN started  BY HistoryTypes DEF RunIndices
        <4>4. \A i \in RunIndices : Reached(started[i].exp) /\ started[i].exp \in AllExperiments
          BY <1>1, <3>1, <4>3 DEF StartedInv
        <4>5. ASSUME NEW i \in RunIndices PROVE Reached(started[i].exp)'
          <5>1. \A x \in AllExperiments : x = started[i].exp => Reached(x)'  BY <4>1, <4>4
          <5>2. started[i].exp \in AllExperiments /\ started'[i].exp = started[i].exp  BY <2>1, <4>4
          <5> QED BY <5>1, <5>2 DEF Reached
        <4>6. \A x \in AllExperiments : Reached(x) => \E i \in RunIndices : x = started[i].exp
          BY <1>1, <3>1 DEF StartedInv
        <4> QED BY <2>1, <4>1, <4>2, <4>5, <4>6
      <3>2. CASE pc \notin InRun
        <4>1. PICK dry \in BOOLEAN : StartRun(dry)
          BY <1>3, <2>3, <3>2
          DEF vars, Next, NewMultiLoaderRunner, UnpackExperiment, UnpackFails, Unpacked,
              PrepareExperiment, Reset, ResetReturns, CollectMetrics, CollectReturns, performCleanup,
              NextExperiment, NextStudy, EndRun, ScriptFails, MetricManagerStep, Terminated
        <4>2. study' = 1 /\ pc' = "unpack" /\ DryRun' = dry  BY <4>1 DEF StartRun, BeginStudy
        <4>3. \A x : ~Reached(x)'  BY <4>2 DEF Reached
        <4>4. RunIndices' = {}
          <5>1. CASE dry
            <6>1. pc = "dry"  BY <4>1, <5>1 DEF StartRun
            <6>2. Len(started) = 0 /\ runs = 0  BY <1>1, <6>1 DEF StartedInv
            <6>3. DryCount' = 0 /\ DryRun'  BY <2>1, <4>2, <5>1, <6>2 DEF DryCount
            <6> QED BY <6>3 DEF RunIndices
          <5>2. CASE ~dry
            <6>1. pc = "actual"  BY <4>1, <5>2 DEF StartRun
            <6>2. runs = 0 /\ Len(started) \in Nat  BY <1>1, <6>1, HistoryTypes DEF StartedInv, CommonInv
            <6>3. RealIndices = {}  BY <6>2 DEF RealIndices, DryCount
            <6> QED BY <2>1, <4>2, <5>2, <6>3 DEF RunIndices
          <5> QED BY <5>1, <5>2
        <4> QED BY <4>3, <4>4
      <3> QED BY <3>1, <3>2
    <2> QED BY <1>1, <1>2, <2>1, <2>2, <2>3 DEF StartedInv
  <1>4. CASE ExecuteLoader
    <2>0. PICK ok \in BOOLEAN :
               /\ pc = "execute" /\ UNCHANGED <<DryRun, study, experiments, experiment>>
               /\ started' \in Seq(Starts) /\ Len(started') = Len(started) + 1
               /\ \A i \in DOMAIN started : started'[i] = started[i]
               /\ started'[Len(started) + 1] =
                    [dry |-> DryRun, exp |-> Current, verbosity |-> verbosity, ok |-> ok]
               /\ tries' = tries + 1
               /\ pc' = IF ~ok /\ tries' < numTries THEN "execute" ELSE IF DryRun THEN "cleanup" ELSE "collect"
               /\ runs' = IF DryRun THEN runs ELSE runs + 1
               /\ DryCount' = (IF DryRun THEN DryCount + 1 ELSE DryCount)
               /\ Current' = Current
      BY <1>4, Executed
    <2>1. /\ pc = "execute" /\ UNCHANGED <<DryRun, study, experiments, experiment>>
          /\ started' \in Seq(Starts) /\ Len(started') = Len(started) + 1
          /\ \A i \in DOMAIN started : started'[i] = started[i]
          /\ started'[Len(started) + 1].exp = Current
          /\ started'[Len(started) + 1].dry <=> DryRun
          /\ tries' = tries + 1 /\ pc' \in {"execute", "cleanup", "collect"}
          /\ runs' = IF DryRun THEN runs ELSE runs + 1
          /\ DryCount' = (IF DryRun THEN DryCount + 1 ELSE DryCount)
          /\ Current' = Current
      BY <2>0
    <2>2. /\ Len(started) \in Nat /\ DOMAIN started = 1 .. Len(started) /\ runs \in Nat
          /\ runs <= Len(started) /\ DryCount \in Nat /\ DryCount + runs = Len(started)
          /\ DryRun => runs = 0
      BY <1>1, HistoryTypes DEF StartedInv
    <2>3. DOMAIN started' = 1 .. Len(started) + 1  BY <2>1
    <2>4. runs' \in Nat /\ runs' <= Len(started') /\ DryCount' \in Nat  BY <2>1, <2>2
    <2>5. \A i \in DOMAIN started' : started'[i].dry <=> i <= DryCount'
      <3>1. \A i \in DOMAIN started : started[i].dry <=> i <= DryCount  BY <1>1 DEF StartedInv
      <3>2. ASSUME NEW i \in DOMAIN started PROVE i <= DryCount <=> i <= DryCount'  BY <2>1, <2>2
      <3>3. Len(started) + 1 <= DryCount' <=> DryRun  BY <2>1, <2>2
      <3>4. \A i \in DOMAIN started' : i \in DOMAIN started \/ i = Len(started) + 1  BY <2>2, <2>3
      <3> QED BY <2>1, <3>1, <3>2, <3>3, <3>4
    <2>6. Current \in AllExperiments  BY <2>1, CurrentFacts
    <2>7. \A i \in DOMAIN started' : started'[i].exp \in AllExperiments
      <3>1. \A i \in DOMAIN started' : i \in DOMAIN started \/ i = Len(started) + 1  BY <2>2, <2>3
      <3> QED BY <1>1, <2>1, <2>6, <3>1 DEF StartedInv
    <2>8. \A i : i \in RunIndices' <=> i \in RunIndices \/ i = Len(started) + 1
      <3>1. CASE DryRun  BY <2>1, <2>2, <3>1 DEF RunIndices
      <3>2. CASE ~DryRun
        <4>1. RealIndices' = DryCount + 1 .. Len(started) + 1  BY <2>1, <3>2 DEF RealIndices
        <4> QED BY <2>1, <2>2, <3>2, <4>1 DEF RunIndices, RealIndices
      <3> QED BY <3>1, <3>2
    <2>9. tries \in Nat  BY DEF MInv, AttemptInv
    <2>10. \A x : Reached(x)' <=> Reached(x) \/ x = Current
      <3>1. Tried'  BY <2>1, <2>9 DEF Tried
      <3> QED BY <1>1, <2>1, <3>1 DEF Reached, ExperimentsOf, Current
    <2>11. RunIndices \subseteq DOMAIN started  BY HistoryTypes DEF RunIndices
    <2>12. \A i \in RunIndices' : Reached(started[i].exp)'
      <3>1. ASSUME NEW i \in RunIndices, NEW x, x = started[i].exp PROVE Reached(x)'
        BY <1>1, <2>1, <2>10, <3>1 DEF StartedInv
      <3>2. ASSUME NEW i \in RunIndices PROVE Reached(started[i].exp)'
        <4>1. started'[i].exp = started[i].exp  BY <2>1, <2>11
        <4> QED BY <3>1, <4>1 DEF Reached
      <3>3. ASSUME NEW x, x = Current PROVE Reached(x)'  BY <2>10, <3>3
      <3>5. ASSUME NEW i, i = Len(started) + 1 PROVE Reached(started[i].exp)'
        <4>1. started'[i].exp = Current  BY <2>1, <3>5
        <4> QED BY <3>3, <4>1 DEF Reached
      <3> QED BY <2>8, <3>2, <3>5
    <2>13. \A x \in AllExperiments : Reached(x)' => \E i \in RunIndices' : x = started'[i].exp
      <3>1. \A x \in AllExperiments : Reached(x) => \E i \in RunIndices : x = started[i].exp
        BY <1>1, <2>1 DEF StartedInv
      <3> QED BY <2>1, <2>8, <2>10, <2>11, <3>1
    <2> QED BY <1>1, <1>2, <2>1, <2>2, <2>4, <2>5, <2>7, <2>12, <2>13 DEF StartedInv
  <1> QED BY <1>3, <1>4

LEMMA Moves ==
  ASSUME MInv, [Next]_vars, ~ExecuteLoader
  PROVE  /\ DryRunSuccess' = DryRunSuccess
         /\ \/ DryRun' = DryRun /\ (pc' = pc \/ (pc \in InRun /\ pc' \in InRun))
            \/ \E dry \in BOOLEAN : StartRun(dry)
            \/ EndRun /\ DryRun' = DryRun
            \/ DryRun' = DryRun /\ pc' = "fatal"
            \/ DryRun' = DryRun /\ pc = "new" /\ pc' = "dry"
  BY DEF vars, Next, NewMultiLoaderRunner, UnpackExperiment, UnpackFails, Unpacked, StartRun,
         PrepareExperiment, Reset, ResetReturns, CollectMetrics, CollectReturns, performCleanup,
         NextExperiment, NextStudy, EndRun, ScriptFails, MetricManagerStep, Terminated, BeginStudy,
         InRun, InExperiment

LEMMA DryRunsKept ==
  ASSUME MInv, [Next]_vars
  PROVE  DryRunsInv'
  <1> USE DEF InRun, InExperiment
  <1>1. DryRunsInv /\ StartedInv /\ CommonInv /\ studies' = studies  BY CommonKept DEF MInv
  <1>2. AllExperiments' = AllExperiments  BY <1>1 DEF AllExperiments, ExperimentsOf
  <1>3. CASE ~ExecuteLoader
    <2>1. UNCHANGED <<started, runs, DryRunSuccess>> /\ DryCount' = DryCount
      BY <1>3, Unstarted, Moves
    <2>2. CASE DryRun' = DryRun /\ (pc' = pc \/ (pc \in InRun /\ pc' \in InRun))
      BY <1>1, <1>2, <2>1, <2>2 DEF DryRunsInv
    <2>3. CASE DryRun' = DryRun /\ (pc' = "fatal" \/ (pc = "new" /\ pc' = "dry"))
      BY <1>1, <1>2, <2>1, <2>3 DEF DryRunsInv
    <2>4. ASSUME NEW dry \in BOOLEAN, StartRun(dry) PROVE DryRunsInv'
      <3>1. /\ pc = (IF dry THEN "dry" ELSE "actual") /\ DryRun' = dry /\ pc' = "unpack"
        BY <2>4 DEF StartRun, BeginStudy
      <3>2. CASE dry
        <4>1. DOMAIN started = {} /\ runs = 0  BY <1>1, <3>1, <3>2 DEF StartedInv
        <4>2. pc' = "unpack" /\ DryRun'  BY <3>1, <3>2
        <4>3. ~(runs' > 0) /\ DOMAIN started' = {}  BY <2>1, <4>1
        <4> QED BY <4>2, <4>3 DEF DryRunsInv
      <3>3. CASE ~dry
        BY <1>1, <1>2, <2>1, <3>1, <3>3 DEF DryRunsInv
      <3> QED BY <3>2, <3>3
    <2>5. CASE EndRun /\ DryRun' = DryRun
      <3>1. /\ pc = "ran"
            /\ pc' = IF ~DryRun THEN "exit" ELSE IF DryRunSuccess THEN "actual" ELSE "fatal"
        BY <2>5 DEF EndRun, DryRunsPassed
      <3>2. CASE DryRun /\ DryRunSuccess
        <4>1. pc' = "actual" /\ DryRun' /\ DryRunSuccess'  BY <2>1, <2>5, <3>1, <3>2
        <4>2. \A i \in DOMAIN started : started[i].ok  BY <1>1, <3>1, <3>2 DEF DryRunsInv
        <4>3. 1 .. DryCount \subseteq DOMAIN started  BY HistoryTypes
        <4>4. ASSUME NEW x \in AllExperiments PROVE \E i \in 1 .. DryCount : x = started[i].exp
          <5>1. PICK j \in DOMAIN studies : x \in ExperimentsOf(j)  BY DEF AllExperiments
          <5>2. study = Len(studies) /\ DOMAIN studies = 1 .. Len(studies) /\ Len(studies) \in Nat
            BY <1>1, <3>1, StudyFacts DEF CommonInv
          <5>3. j \in 1 .. study - 1 \/ j = study  BY <5>2
          <5>4. Reached(x)  BY <3>1, <5>1, <5>3 DEF Reached
          <5>5. RunIndices = 1 .. DryCount  BY <3>2 DEF RunIndices
          <5> QED BY <1>1, <3>1, <5>4, <5>5 DEF StartedInv
        <4> QED BY <1>2, <2>1, <4>1, <4>2, <4>3, <4>4 DEF DryRunsInv
      <3>3. CASE ~(DryRun /\ DryRunSuccess)
        <4>1. pc' \in {"exit", "fatal"}  BY <3>1, <3>3
        <4> QED BY <1>1, <1>2, <2>1, <4>1 DEF DryRunsInv
      <3> QED BY <3>2, <3>3
    <2> QED BY <1>3, <2>2, <2>3, <2>4, <2>5, Moves
  <1>4. CASE ExecuteLoader
    <2>1. PICK ok \in BOOLEAN :
             /\ pc = "execute" /\ UNCHANGED DryRun
             /\ started' \in Seq(Starts) /\ Len(started') = Len(started) + 1
             /\ \A i \in DOMAIN started : started'[i] = started[i]
             /\ started'[Len(started) + 1] =
                  [dry |-> DryRun, exp |-> Current, verbosity |-> verbosity, ok |-> ok]
             /\ tries' = tries + 1
             /\ pc' = IF ~ok /\ tries' < numTries THEN "execute" ELSE IF DryRun THEN "cleanup" ELSE "collect"
             /\ DryRunSuccess' = IF ~ok /\ tries' = numTries THEN FALSE ELSE DryRunSuccess
             /\ runs' = IF DryRun THEN runs ELSE runs + 1
             /\ DryCount' = (IF DryRun THEN DryCount + 1 ELSE DryCount)
      BY <1>4, Executed
    <2>2. /\ Len(started) \in Nat /\ DOMAIN started = 1 .. Len(started)
          /\ 1 .. DryCount \subseteq DOMAIN started
      BY HistoryTypes
    <2>3. pc' \in {"execute", "cleanup", "collect"} /\ started'[Len(started) + 1].ok = ok  BY <2>1
    <2>4. CASE DryRun
      <3>1. runs' = 0  BY <1>1, <2>1, <2>4 DEF StartedInv
      <3>2. ASSUME DryRunSuccess' PROVE \A i \in DOMAIN started' : started'[i].ok
        <4>1. numTries = 1 /\ tries \in Nat /\ tries < numTries
          BY <2>1, <2>4 DEF MInv, AttemptInv, numTries
        <4>2. tries' = numTries  BY <2>1, <4>1
        <4>3. ok /\ DryRunSuccess  BY <2>1, <3>2, <4>2
        <4>4. \A i \in DOMAIN started : started[i].ok  BY <1>1, <2>1, <2>4, <4>3 DEF DryRunsInv
        <4>5. \A i \in DOMAIN started' : i \in DOMAIN started \/ i = Len(started) + 1  BY <2>1, <2>2
        <4> QED BY <2>1, <2>3, <4>3, <4>4, <4>5
      <3>3. ~(runs' > 0) /\ DryRun' /\ pc' # "actual"  BY <2>1, <2>3, <2>4, <3>1
      <3> QED BY <3>2, <3>3 DEF DryRunsInv
    <2>5. CASE ~DryRun
      <3>1. DryCount' = DryCount /\ ~DryRun'  BY <2>1, <2>5
      <3>2. /\ \A i \in 1 .. DryCount : started[i].ok
            /\ \A x \in AllExperiments : \E i \in 1 .. DryCount : x = started[i].exp
        BY <1>1, <2>1, <2>5 DEF DryRunsInv
      <3>3. \A i \in 1 .. DryCount : started'[i] = started[i]  BY <2>1, <2>2
      <3> QED BY <1>2, <2>3, <3>1, <3>2, <3>3 DEF DryRunsInv
    <2> QED BY <2>4, <2>5
  <1> QED BY <1>3, <1>4

LEMMA AttemptKept ==
  ASSUME MInv, [Next]_vars
  PROVE  AttemptInv'
  <1> USE DEF InRun, InExperiment, unpackVars, runVars
  <1>1. AttemptInv /\ StartedInv /\ CommonInv /\ UNCHANGED <<studies, failFast>>  BY CommonKept DEF MInv
  <1>2. CASE UNCHANGED vars \/ Terminated \/ MetricManagerStep
    <2>1. MetricStep => outputDir' = outputDir
      BY DEF MetricStep, KillTop, StartTop, CopyTop, ResetDone, TopCollected, NodeFails, MetricFatal,
             collectPodLogs, collectPrometheusSnapshot, fetchPrometheusSnapshot
    <2>2. UNCHANGED <<pc, DryRun, tries, verbosity, tempConfig, outputDir, experiments, experiment>>
      BY <1>2, <2>1 DEF vars, Terminated, MetricManagerStep, metricVars
    <2>3. UNCHANGED <<started, runs>> /\ RealIndices' = RealIndices
      <3>1. ~ExecuteLoader
        <4>1. UNCHANGED tries  BY <2>2
        <4>2. tries \in Nat  BY <1>1 DEF AttemptInv
        <4>3. ExecuteLoader => tries' = tries + 1  BY DEF ExecuteLoader
        <4> QED BY <4>1, <4>2, <4>3
      <3> QED BY <3>1, Unstarted
    <2>4. numTries' = numTries /\ dirOf(Current)' = dirOf(Current) /\ Current' = Current
      BY <1>1, <2>2 DEF numTries, dirOf, Current
    <2> QED BY <1>1, <2>2, <2>3, <2>4 DEF AttemptInv
  <1>3. CASE Reset \/ ResetReturns \/ CollectMetrics \/ CollectReturns \/ performCleanup
    <2>1. ~ExecuteLoader
      BY <1>3 DEF Reset, ResetReturns, CollectMetrics, CollectReturns, performCleanup, ExecuteLoader
    <2>2. UNCHANGED <<started, runs>> /\ RealIndices' = RealIndices  BY <2>1, Unstarted
    <2>3. UNCHANGED <<DryRun, tries, verbosity, outputDir, experiments, experiment>>
      BY <1>3
      DEF Reset, ResetReturns, CollectMetrics, CollectReturns, performCleanup, StartReset, StartCollect,
          metricVars
    <2>4. \/ /\ pc \in {"reset", "resetting"} /\ pc' \in {"resetting", "execute"} /\ UNCHANGED tempConfig
          \/ pc \in {"collect", "collecting"} /\ pc' \in {"collecting", "cleanup"}
          \/ pc = "cleanup" /\ pc' = "next"
      BY <1>3 DEF Reset, ResetReturns, CollectMetrics, CollectReturns, performCleanup
    <2>5. numTries' = numTries /\ dirOf(Current)' = dirOf(Current) /\ Current' = Current
      BY <1>1, <2>3 DEF numTries, dirOf, Current
    <2>6. /\ tries \in Nat /\ verbosity \in {"", "debug"} /\ outputDir = dirOf(Current)
          /\ pc \in {"reset", "resetting"} => /\ tries = 0 /\ tries < numTries /\ tempConfig = Current /\ ~DryRun
                                             /\ verbosity = IF tries > 0 THEN "debug" ELSE ""
          /\ pc \in {"collect", "collecting"} => ~DryRun
          /\ ~DryRun => tries <= runs /\ \A i \in RealIndices : started[i].exp = Current <=> i > Len(started) - tries
      BY <1>1, <2>4 DEF AttemptInv
    <2>7. ASSUME tries = 0, NEW i \in RealIndices PROVE ~(i > Len(started) - tries)
      <3>1. Len(started) \in Nat /\ i \in Nat /\ i <= Len(started)  BY HistoryTypes DEF RealIndices
      <3> QED BY <2>7, <3>1
    <2>8. CASE pc \in {"reset", "resetting"}
      BY <2>2, <2>3, <2>4, <2>5, <2>6, <2>7, <2>8 DEF AttemptInv
    <2>9. CASE pc \in {"collect", "collecting", "cleanup"}
      BY <2>2, <2>3, <2>4, <2>5, <2>6, <2>9 DEF AttemptInv
    <2> QED BY <2>4, <2>8, <2>9
  <1>4. CASE PrepareExperiment
    <2>1. /\ pc = "prepare" /\ outputDir' = dirOf(Current) /\ tempConfig' = Current /\ tries' = 0
          /\ verbosity' = "" /\ pc' = (IF DryRun THEN "execute" ELSE "reset")
          /\ UNCHANGED <<DryRun, experiments, experiment>>
      BY <1>4 DEF PrepareExperiment
    <2>2. ~ExecuteLoader  BY <2>1 DEF ExecuteLoader
    <2>3. UNCHANGED <<started, runs>> /\ RealIndices' = RealIndices  BY <2>2, Unstarted
    <2>4. Current' = Current /\ dirOf(Current)' = dirOf(Current)  BY <2>1 DEF Current, dirOf
    <2>5. numTries' \in {1, 2}  BY DEF numTries, NUM_OF_RETRIES
    <2>6. ASSUME ~DryRun, NEW i \in RealIndices
          PROVE  started[i].exp # Current /\ ~(i > Len(started) - tries')
      <3>1. started[i].exp # Current  BY <2>1, <2>6, FreshWhenPrepared DEF RunIndices
      <3>2. i \in Nat /\ i <= Len(started) /\ Len(started) \in Nat  BY HistoryTypes DEF RealIndices
      <3>3. tries' = 0  BY <2>1
      <3> QED BY <3>1, <3>2, <3>3
    <2>7. tries' \in Nat /\ tries' <= runs /\ ~(tries' > 0) /\ tries' < numTries'
      <3>1. runs \in Nat /\ tries' = 0  BY <2>1, HistoryTypes
      <3> QED BY <2>5, <3>1
    <2>8. CASE DryRun
      <3>1. pc' = "execute" /\ DryRun'  BY <2>1, <2>8
      <3> QED BY <2>1, <2>4, <2>7, <3>1 DEF AttemptInv
    <2>9. CASE ~DryRun
      <3>1. pc' = "reset" /\ ~DryRun'  BY <2>1, <2>9
      <3> QED BY <2>1, <2>3, <2>4, <2>6, <2>7, <2>9, <3>1 DEF AttemptInv
    <2> QED BY <2>8, <2>9
  <1>5. CASE ExecuteLoader
    <2>1. PICK ok \in BOOLEAN :
             /\ pc = "execute" /\ UNCHANGED <<failFast, DryRun, experiments, experiment, tempConfig, outputDir>>
             /\ started' \in Seq(Starts) /\ Len(started') = Len(started) + 1
             /\ \A i \in DOMAIN started : started'[i] = started[i]
             /\ started'[Len(started) + 1] =
                  [dry |-> DryRun, exp |-> Current, verbosity |-> verbosity, ok |-> ok]
             /\ tries' = tries + 1 /\ verbosity' = (IF ok THEN verbosity ELSE "debug")
             /\ pc' = IF ~ok /\ tries' < numTries THEN "execute" ELSE IF DryRun THEN "cleanup" ELSE "collect"
             /\ runs' = IF DryRun THEN runs ELSE runs + 1
             /\ DryCount' = (IF DryRun THEN DryCount + 1 ELSE DryCount)
             /\ Current' = Current
      BY <1>5, Executed
    <2>2. /\ Len(started) \in Nat /\ DOMAIN started = 1 .. Len(started) /\ DryCount \in Nat
          /\ RealIndices \subseteq DOMAIN started /\ runs \in Nat
      BY HistoryTypes
    <2>3. /\ tries \in Nat /\ tries < numTries /\ verbosity \in {"", "debug"} /\ outputDir = dirOf(Current)
          /\ tempConfig = Current
      BY <1>1, <2>1 DEF AttemptInv
    <2>4. numTries' = numTries /\ dirOf(Current)' = dirOf(Current)
      BY <1>1, <2>1 DEF numTries, dirOf
    <2>5. /\ tries' \in Nat /\ tries' > 0 /\ verbosity' \in {"", "debug"}
          /\ pc' = "execute" => tries' < numTries /\ verbosity' = "debug" /\ ~ok
          /\ pc' \in {"execute", "cleanup", "collect"} /\ (pc' = "collect" => ~DryRun')
      <3>1. tries' \in Nat /\ tries' > 0
        <4>1. tries' = tries + 1 /\ tries \in Nat  BY <2>1, <2>3
        <4> QED BY <4>1
      <3> QED BY <2>1, <2>3, <3>1
    <2>6. ASSUME ~DryRun
          PROVE  /\ tries' <= runs'
                 /\ \A i \in RealIndices' : started'[i].exp = Current <=> i > Len(started') - tries'
                 /\ pc' = "execute" => \A i \in RealIndices' : i > Len(started') - tries' => ~started'[i].ok
      <3>1. /\ tries <= runs
            /\ \A i \in RealIndices : started[i].exp = Current <=> i > Len(started) - tries
            /\ \A i \in RealIndices : i > Len(started) - tries => ~started[i].ok
        BY <1>1, <2>1, <2>6 DEF AttemptInv
      <3>2. DryCount' = DryCount /\ runs' = runs + 1  BY <2>1, <2>6
      <3>3. \A i \in RealIndices' : i \in RealIndices \/ i = Len(started) + 1
        BY <2>1, <2>2, <3>2 DEF RealIndices
      <3>4. Len(started') - tries' = Len(started) - tries /\ Len(started) + 1 > Len(started) - tries
        <4>1. /\ Len(started') = Len(started) + 1 /\ tries' = tries + 1
              /\ Len(started) \in Nat /\ tries \in Nat
          BY <2>1, <2>2, <2>3
        <4> QED BY <4>1
      <3>5. started'[Len(started) + 1].exp = Current /\ started'[Len(started) + 1].ok = ok  BY <2>1
      <3>6. \A i \in RealIndices : started'[i] = started[i]  BY <2>1, <2>2
      <3>7. tries' <= runs'
        <4>1. /\ tries <= runs /\ tries' = tries + 1 /\ runs' = runs + 1 /\ tries \in Nat /\ runs \in Nat
          BY <2>1, <2>2, <2>3, <3>1, <3>2
        <4> QED BY <4>1
      <3> QED BY <2>5, <3>1, <3>3, <3>4, <3>5, <3>6, <3>7
    <2> QED BY <2>1, <2>3, <2>4, <2>5, <2>6 DEF AttemptInv
  <1>6. CASE \/ NewMultiLoaderRunner \/ UnpackExperiment \/ UnpackFails \/ Unpacked \/ NextExperiment
             \/ NextStudy \/ EndRun \/ ScriptFails \/ \E dry \in BOOLEAN : StartRun(dry)
    <2>1. UNCHANGED <<tries, verbosity>> /\ pc' \notin InExperiment \ {"prepare"}
      BY <1>6
      DEF NewMultiLoaderRunner, UnpackExperiment, UnpackFails, Unpacked, NextExperiment, NextStudy,
          EndRun, ScriptFails, StartRun, BeginStudy
    <2> QED BY <1>1, <2>1 DEF AttemptInv
  <1> QED BY <1>2, <1>3, <1>4, <1>5, <1>6 DEF Next

LEMMA RetryKept ==
  ASSUME MInv, [Next]_vars
  PROVE  RetryInv'
  <1>1. RetryInv /\ CommonInv /\ UNCHANGED failFast  BY CommonKept DEF MInv
  <1>2. CASE ~ExecuteLoader
    <2>1. UNCHANGED started /\ RealIndices' = RealIndices  BY <1>2, Unstarted
    <2> QED BY <1>1, <2>1 DEF RetryInv
  <1>3. CASE ExecuteLoader
    <2>1. PICK ok \in BOOLEAN :
             /\ pc = "execute" /\ UNCHANGED DryRun
             /\ started' \in Seq(Starts) /\ Len(started') = Len(started) + 1
             /\ \A i \in DOMAIN started : started'[i] = started[i]
             /\ started'[Len(started) + 1] =
                  [dry |-> DryRun, exp |-> Current, verbosity |-> verbosity, ok |-> ok]
             /\ runs' = IF DryRun THEN runs ELSE runs + 1
             /\ DryCount' = (IF DryRun THEN DryCount + 1 ELSE DryCount)
      BY <1>3, Executed
    <2>2. /\ Len(started) \in Nat /\ DOMAIN started = 1 .. Len(started) /\ DryCount \in Nat
          /\ RealIndices \subseteq DOMAIN started /\ runs \in Nat /\ DryCount + runs = Len(started)
      BY HistoryTypes
    <2>3. CASE DryRun
      <3>1. runs = 0 /\ runs' = 0  BY <2>1, <2>3 DEF MInv, StartedInv
      <3>2. RealIndices' = {}  BY <2>1, <2>2, <2>3, <3>1 DEF RealIndices
      <3> QED BY <3>2 DEF RetryInv
    <2>4. CASE ~DryRun
      <3> DEFINE n == Len(started) + 1
      <3>1. RealIndices' = DryCount + 1 .. n /\ RealIndices = DryCount + 1 .. Len(started)
        BY <2>1, <2>4 DEF RealIndices
      <3>2. /\ \A i \in RealIndices' : i \in RealIndices \/ i = n
            /\ n \in RealIndices' /\ RealIndices \subseteq RealIndices'
            /\ \A i \in RealIndices : i < n /\ i \in Nat /\ n \in Nat
        BY <2>2, <3>1
      <3>3. \A i \in RealIndices : started'[i] = started[i]  BY <2>1, <2>2
      <3>4. started'[n].exp = Current /\ started'[n].verbosity = verbosity  BY <2>1
      <3>5. /\ tries \in Nat /\ tries < numTries /\ verbosity = (IF tries > 0 THEN "debug" ELSE "")
            /\ tries <= runs
            /\ \A i \in RealIndices : started[i].exp = Current <=> i > Len(started) - tries
            /\ \A i \in RealIndices : i > Len(started) - tries => ~started[i].ok
        BY <2>1, <2>4 DEF MInv, AttemptInv, InExperiment
      <3>6. tries = 0 \/ (tries = 1 /\ ~failFast)
        <4>1. numTries \in {1, 2} /\ (failFast => numTries = 1)  BY DEF numTries, NUM_OF_RETRIES
        <4>2. tries \in Nat /\ tries < numTries  BY <3>5
        <4>3. CASE numTries = 1  BY <4>2, <4>3
        <4>4. CASE numTries = 2
          <5>1. tries = 0 \/ tries = 1  BY <4>2, <4>4
          <5> QED BY <4>1, <4>4, <5>1
        <4> QED BY <4>1, <4>3, <4>4
      <3> HIDE DEF n
      <3>7. ASSUME NEW j \in RealIndices, started[j].exp = Current
            PROVE  ~started[j].ok /\ ~failFast /\ j = n - 1 /\ tries = 1
        <4>1. j > Len(started) - tries /\ ~started[j].ok  BY <3>5, <3>7
        <4>2. j \in Nat /\ j <= Len(started)  BY <2>2
        <4>3. tries = 1 /\ ~failFast  BY <2>2, <3>6, <4>1, <4>2
        <4>4. j = Len(started)
          <5>1. Len(started) \in Nat /\ j > Len(started) - 1  BY <2>2, <4>1, <4>3
          <5> QED BY <4>2, <5>1
        <4> QED BY <2>2, <4>1, <4>3, <4>4 DEF n
      <3>8. ASSUME tries = 1 PROVE Len(started) \in RealIndices /\ started[Len(started)].exp = Current
        <4>1. runs >= 1  BY <2>2, <3>5, <3>8
        <4>2. Len(started) \in RealIndices  BY <2>2, <3>1, <4>1
        <4>3. Len(started) > Len(started) - tries  BY <2>2, <3>8
        <4> QED BY <3>5, <4>2, <4>3
      <3>9. ASSUME NEW i \in RealIndices
            PROVE  /\ \A j \in RealIndices' : j < i /\ started'[j].exp = started'[i].exp =>
                        ~started'[j].ok /\ ~failFast /\ j = i - 1
                   /\ (started'[i].verbosity = "debug")
                        <=> \E j \in RealIndices' : j < i /\ started'[j].exp = started'[i].exp
        <4>1. ~(n < i)  BY <3>2
        <4> QED BY <1>1, <3>2, <3>3, <4>1 DEF RetryInv
      <3>10. \A j \in RealIndices' : j < n /\ started'[j].exp = started'[n].exp =>
               ~started'[j].ok /\ ~failFast /\ j = n - 1
        <4>1. ~(n < n)  BY <2>2 DEF n
        <4> QED BY <3>2, <3>3, <3>4, <3>7, <4>1
      <3>11. (started'[n].verbosity = "debug") <=> \E j \in RealIndices' : j < n /\ started'[j].exp = started'[n].exp
        <4>1. ~(n < n)  BY <2>2 DEF n
        <4>2. CASE tries = 1
          <5>1. verbosity = "debug"  BY <3>5, <4>2
          <5>2. Len(started) \in RealIndices /\ started[Len(started)].exp = Current  BY <3>8, <4>2
          <5> QED BY <3>2, <3>3, <3>4, <5>1, <5>2
        <4>3. CASE tries = 0
          <5>1. verbosity = ""
            <6>1. ~(tries > 0)  BY <4>3
            <6> QED BY <3>5, <6>1
          <5>2. \A j \in RealIndices : started[j].exp # Current  BY <3>7, <4>3
          <5> QED BY <3>2, <3>3, <3>4, <4>1, <5>1, <5>2
        <4> QED BY <3>6, <4>2, <4>3
      <3> QED BY <1>1, <3>2, <3>9, <3>10, <3>11 DEF RetryInv
    <2> QED BY <2>3, <2>4
  <1> QED BY <1>2, <1>3

-----------------------------------------------------------------------------
(* The metric manager                                                        *)

LEMMA MetricFrame ==
  ASSUME MInv, [Next]_vars, ~Reset, ~CollectMetrics, ~MetricManagerStep
  PROVE  /\ UNCHANGED <<metricsToCollect, podNode, startTime, mmPC, nodeStep, top>>
         /\ pc' = pc \/ (mmPC = "idle" /\ pc' \notin {"resetting", "collecting"})
  <1>1. pc \notin {"resetting", "collecting"} => mmPC = "idle"  BY DEF MInv, NodesInv
  <1> QED
    BY <1>1
    DEF vars, Next, NewMultiLoaderRunner, StartRun, UnpackExperiment, UnpackFails, Unpacked,
        PrepareExperiment, ResetReturns, ExecuteLoader, CollectReturns, performCleanup,
        NextExperiment, NextStudy, EndRun, ScriptFails, Terminated, metricVars, config, BeginStudy

(* Where the manager is while it takes steps, and while a goroutine is not    *)
(* done.                                                                      *)
LEMMA ManagerAt ==
  ASSUME MInv
  PROVE  /\ mmPC = "resetTop" => pc = "resetting"
         /\ mmPC \in {"top", "autoscaler", "activator", "prometheus", "fetch"} => pc = "collecting"
         /\ pc \in {"resetting", "collecting"} => ~DryRun /\ (pc = "resetting" => tries = 0)
         /\ \A n \in Nodes : nodeStep[n] # "done" /\ mmPC # "fatal" =>
              /\ shouldCollect("top")
              /\ \/ mmPC = "resetTop" /\ nodeStep[n] \in {"kill", "start"}
                 \/ mmPC = "top" /\ nodeStep[n] \in {"kill", "copy"}
  <1>1. NodesInv /\ AttemptInv  BY DEF MInv
  <1>2. /\ mmPC = "resetTop" => pc = "resetting"
        /\ mmPC \in {"top", "autoscaler", "activator", "prometheus", "fetch"} => pc = "collecting"
    BY <1>1 DEF NodesInv
  <1>3. pc \in {"resetting", "collecting"} => ~DryRun /\ (pc = "resetting" => tries = 0)
    BY <1>1 DEF AttemptInv
  <1>4. ASSUME NEW n \in Nodes, nodeStep[n] # "done", mmPC # "fatal"
        PROVE  /\ shouldCollect("top")
               /\ \/ mmPC = "resetTop" /\ nodeStep[n] \in {"kill", "start"}
                  \/ mmPC = "top" /\ nodeStep[n] \in {"kill", "copy"}
    <2>1. nodeStep[n] \in {"kill", "start", "copy", "done"}  BY <1>1 DEF NodesInv
    <2> QED BY <1>1, <1>4, <2>1 DEF NodesInv, NodesDone
  <1> QED BY <1>2, <1>3, <1>4

LEMMA NodesKept ==
  ASSUME MInv, [Next]_vars
  PROVE  NodesInv'
  <1> USE DEF shouldCollect, config, metricVars
  <1>1. NodesInv  BY DEF MInv
  <1>2. CASE ~Reset /\ ~CollectMetrics /\ ~MetricManagerStep
    <2>1. /\ UNCHANGED <<metricsToCollect, podNode, startTime, mmPC, nodeStep, top>>
          /\ pc' = pc \/ (mmPC = "idle" /\ pc' \notin {"resetting", "collecting"})
      BY <1>2, MetricFrame
    <2> QED BY <1>1, <2>1 DEF NodesInv, NodesDone
  <1>3. CASE Reset
    <2>1. NodesDone  BY <1>1, <1>3 DEF NodesInv, Reset
    <2> QED BY <1>1, <1>3, <2>1 DEF NodesInv, NodesDone, Reset, StartReset, ForAllNodes
  <1>4. CASE CollectMetrics
    <2>1. NodesDone  BY <1>1, <1>4 DEF NodesInv, CollectMetrics
    <2> QED BY <1>1, <1>4, <2>1 DEF NodesInv, NodesDone, CollectMetrics, StartCollect, ForAllNodes
  <1>5. CASE MetricManagerStep
    <2>1. MetricStep /\ UNCHANGED pc  BY <1>5 DEF MetricManagerStep
    <2>2. ASSUME NEW n \in Nodes, KillTop(n) \/ StartTop(n) \/ CopyTop(n) PROVE NodesInv'
      <3>1. nodeStep[n] # "done" /\ mmPC # "fatal"  BY <2>2 DEF KillTop, StartTop, CopyTop
      <3>2. /\ shouldCollect("top")
            /\ \/ mmPC = "resetTop" /\ pc = "resetting" /\ nodeStep[n] \in {"kill", "start"}
               \/ mmPC = "top" /\ pc = "collecting" /\ nodeStep[n] \in {"kill", "copy"}
        BY <3>1, ManagerAt
      <3>3. /\ nodeStep' \in [Nodes -> {"kill", "start", "copy", "done"}]
            /\ mmPC = "resetTop" => nodeStep'[n] # "copy"
            /\ mmPC = "top" => nodeStep'[n] # "start"
            /\ \A m \in Nodes : m # n => nodeStep'[m] = nodeStep[m]
        BY <1>1, <2>2, <3>2 DEF NodesInv, KillTop, StartTop, CopyTop
      <3>4. top' \in [Nodes -> [since : Int, until : Int]]
        <4>1. runs \in Int /\ Running \in Int  BY HistoryTypes DEF Running
        <4>2. top \in [Nodes -> [since : Int, until : Int]]  BY <1>1 DEF NodesInv
        <4>3. CASE KillTop(n)  BY <4>1, <4>2, <4>3 DEF KillTop
        <4>4. CASE StartTop(n)  BY <4>1, <4>2, <4>4 DEF StartTop
        <4>5. CASE CopyTop(n)  BY <4>2, <4>5 DEF CopyTop
        <4> QED BY <2>2, <4>3, <4>4, <4>5
      <3>5. UNCHANGED <<metricsToCollect, podNode, startTime, mmPC>>
        BY <2>2 DEF KillTop, StartTop, CopyTop
      <3> QED BY <1>1, <2>1, <3>2, <3>3, <3>4, <3>5 DEF NodesInv, NodesDone
    <2>3. CASE ResetDone
      <3>1. startTime' \in Int  BY <2>3, HistoryTypes DEF ResetDone, resetTime
      <3>2. pc = "resetting"  BY <2>3, ManagerAt DEF ResetDone
      <3> QED BY <1>1, <2>1, <2>3, <3>1, <3>2 DEF NodesInv, NodesDone, ResetDone
    <2>4. CASE NodeFails
      <3>1. pc \in {"resetting", "collecting"}  BY <2>4, ManagerAt DEF NodeFails
      <3> QED BY <1>1, <2>1, <2>4, <3>1 DEF NodesInv, NodesDone, NodeFails, MetricFatal
    <2>5. CASE \/ TopCollected \/ collectPodLogs("autoscaler", "activator")
               \/ collectPodLogs("activator", "prometheus")
               \/ collectPrometheusSnapshot \/ fetchPrometheusSnapshot
      <3>1. /\ mmPC \in {"top", "autoscaler", "activator", "prometheus", "fetch"} /\ NodesDone
            /\ mmPC' \in {"autoscaler", "activator", "prometheus", "fetch", "idle", "fatal"}
            /\ UNCHANGED <<metricsToCollect, podNode, startTime, nodeStep, top>>
        BY <1>1, <2>5
        DEF NodesInv, TopCollected, collectPodLogs, collectPrometheusSnapshot, fetchPrometheusSnapshot
      <3>2. pc = "collecting"  BY <3>1, ManagerAt
      <3> QED BY <1>1, <2>1, <3>1, <3>2 DEF NodesInv, NodesDone
    <2> QED BY <2>1, <2>2, <2>3, <2>4, <2>5 DEF MetricStep
  <1> QED BY <1>2, <1>3, <1>4, <1>5

LEMMA SinceKept ==
  ASSUME MInv, [Next]_vars
  PROVE  SinceInv'
  <1> USE DEF shouldCollect, config, metricVars
  <1>1. SinceInv /\ NodesInv  BY DEF MInv
  <1>2. runs \in Nat /\ tries \in Nat  BY HistoryTypes DEF MInv, AttemptInv
  <1>3. CASE ~Reset /\ ~CollectMetrics /\ ~MetricManagerStep
    <2>1. /\ UNCHANGED <<metricsToCollect, podNode, startTime, mmPC, nodeStep, top>>
          /\ pc' = pc \/ (mmPC = "idle" /\ pc' \notin {"resetting", "collecting"})
      BY <1>3, MetricFrame
    <2>2. CASE ExecuteLoader
      <3>1. pc = "execute" /\ pc' \in {"execute", "cleanup", "collect"} /\ DryRun' = DryRun
            /\ (~DryRun => runs' - tries' = runs - tries)
        <4>1. /\ pc = "execute" /\ pc' \in {"execute", "cleanup", "collect"} /\ DryRun' = DryRun
              /\ tries' = tries + 1 /\ (~DryRun => runs' = runs + 1)
          BY <2>2, Executed
        <4>2. ASSUME ~DryRun PROVE runs' - tries' = runs - tries
          <5>1. runs' = runs + 1 /\ tries' = tries + 1  BY <4>1, <4>2
          <5> QED BY <1>2, <5>1
        <4> QED BY <4>1, <4>2
      <3>2. mmPC = "idle"  BY <1>1, <3>1 DEF NodesInv
      <3> QED BY <1>1, <2>1, <3>1, <3>2 DEF SinceInv, TopOn
    <2>3. CASE PrepareExperiment
      <3>1. pc = "prepare" /\ pc' = (IF DryRun THEN "execute" ELSE "reset") /\ DryRun' = DryRun
        BY <2>3 DEF PrepareExperiment
      <3>2. mmPC = "idle"  BY <1>1, <3>1 DEF NodesInv
      <3> QED BY <2>1, <3>1, <3>2 DEF SinceInv
    <2>4. CASE ~ExecuteLoader /\ ~PrepareExperiment
      <3>1. UNCHANGED runs  BY <2>4, Unstarted
      <3>2. /\ UNCHANGED tries
            /\ pc' \in {"resetting", "execute", "collect", "collecting"} =>
                 DryRun' = DryRun /\ (pc' = pc \/ (pc = "resetting" /\ pc' = "execute"))
        BY <1>3, <2>4
        DEF vars, Next, NewMultiLoaderRunner, StartRun, UnpackExperiment, UnpackFails, Unpacked,
            ResetReturns, CollectReturns, performCleanup, NextExperiment, NextStudy, EndRun,
            ScriptFails, Terminated, runVars, BeginStudy
      <3> QED BY <1>1, <2>1, <3>1, <3>2 DEF SinceInv, TopOn
    <2> QED BY <2>2, <2>3, <2>4
  <1>4. CASE Reset
    BY <1>1, <1>4 DEF SinceInv, Reset, StartReset, ForAllNodes
  <1>5. CASE CollectMetrics
    <2>1. /\ pc = "collect" /\ mmPC = "idle" /\ NodesDone /\ ~DryRun
          /\ UNCHANGED <<metricsToCollect, startTime, runs, top, tries>>
          /\ pc' = "collecting" /\ mmPC' = "top"
          /\ shouldCollect("top") => nodeStep' = [n \in Nodes |-> "kill"]
          /\ ~shouldCollect("top") => nodeStep' = nodeStep
      BY <1>1, <1>5 DEF MInv, AttemptInv, NodesInv, CollectMetrics, StartCollect, ForAllNodes, runVars
    <2>2. startTime = runs - tries /\ (shouldCollect("top") => \A n \in Nodes : TopOn(n))
      BY <1>1, <2>1 DEF SinceInv
    <2> QED BY <2>1, <2>2 DEF SinceInv, TopOn, NodesDone
  <1>6. CASE MetricManagerStep
    <2>1. MetricStep /\ UNCHANGED <<pc, tries, DryRun>>  BY <1>6 DEF MetricManagerStep, runVars
    <2>2. ASSUME NEW n \in Nodes, KillTop(n) \/ StartTop(n) \/ CopyTop(n) PROVE SinceInv'
      <3>1. nodeStep[n] # "done" /\ mmPC # "fatal"  BY <2>2 DEF KillTop, StartTop, CopyTop
      <3>2. /\ shouldCollect("top")
            /\ \/ mmPC = "resetTop" /\ pc = "resetting" /\ tries = 0 /\ nodeStep[n] \in {"kill", "start"}
               \/ mmPC = "top" /\ pc = "collecting" /\ nodeStep[n] \in {"kill", "copy"}
        BY <3>1, ManagerAt
      <3>3. UNCHANGED <<metricsToCollect, startTime, mmPC, runs>>
        BY <2>2 DEF KillTop, StartTop, CopyTop
      <3>4. \A m \in Nodes : m # n => nodeStep'[m] = nodeStep[m] /\ top'[m] = top[m]
        BY <1>1, <2>2 DEF NodesInv, KillTop, StartTop, CopyTop
      <3>5. CASE mmPC = "resetTop"
        <4>1. ASSUME nodeStep'[n] = "done" PROVE top'[n].since = runs - tries /\ top'[n].until = Running
          <5>1. StartTop(n)  BY <1>1, <2>2, <3>2, <3>5, <4>1 DEF NodesInv, KillTop, CopyTop
          <5>2. top'[n] = [since |-> runs, until |-> Running]  BY <1>1, <5>1 DEF NodesInv, StartTop
          <5>3. runs - tries = runs  BY <1>2, <3>2, <3>5
          <5> QED BY <5>2, <5>3
        <4>2. \A m \in Nodes : m # n /\ nodeStep[m] = "done" => TopOn(m)
          BY <1>1, <3>2, <3>5 DEF SinceInv
        <4>3. pc' = "resetting" /\ mmPC' = "resetTop" /\ runs' - tries' = runs - tries
          BY <2>1, <3>2, <3>3, <3>5
        <4> QED BY <3>4, <4>1, <4>2, <4>3 DEF SinceInv, TopOn
      <3>6. CASE mmPC = "top"
        <4>1. /\ nodeStep'[n] # "kill"
              /\ nodeStep'[n] = "copy" => top'[n].since = runs - tries /\ top'[n].until = runs
          <5>1. CASE KillTop(n)
            <6>1. TopOn(n)  BY <1>1, <3>6, <5>1 DEF SinceInv, KillTop
            <6>2. top' = [top EXCEPT ![n].until = runs]  BY <5>1, <6>1 DEF KillTop, TopOn
            <6>3. top \in [Nodes -> [since : Int, until : Int]]  BY <1>1 DEF NodesInv
            <6>4. top'[n].since = top[n].since /\ top'[n].until = runs  BY <6>2, <6>3
            <6>5. nodeStep'[n] = "copy"  BY <1>1, <3>6, <5>1 DEF KillTop, NodesInv
            <6> QED BY <6>1, <6>4, <6>5 DEF TopOn
          <5>2. CASE CopyTop(n)  BY <1>1, <5>2 DEF CopyTop, NodesInv
          <5> QED BY <2>2, <3>2, <3>6, <5>1, <5>2 DEF StartTop
        <4>2. pc' = "collecting" /\ mmPC' = "top" /\ runs' - tries' = runs - tries /\ runs' = runs
          BY <2>1, <3>2, <3>3, <3>6
        <4>3. \A m \in Nodes : /\ nodeStep[m] = "kill" => TopOn(m)
                               /\ nodeStep[m] = "copy" => top[m].since = runs - tries /\ top[m].until = runs
          BY <1>1, <3>6 DEF SinceInv
        <4>4. startTime = runs - tries  BY <1>1, <3>2, <3>6 DEF SinceInv
        <4> QED BY <3>3, <3>4, <4>1, <4>2, <4>3, <4>4 DEF SinceInv, TopOn
      <3> QED BY <3>2, <3>5, <3>6
    <2>3. CASE ResetDone
      <3>1. /\ mmPC = "resetTop" /\ NodesDone /\ startTime' = runs /\ mmPC' = "idle"
            /\ UNCHANGED <<metricsToCollect, runs, top>>
        BY <2>3 DEF ResetDone, resetTime
      <3>2. pc = "resetting" /\ tries = 0  BY <3>1, ManagerAt
      <3>3. runs - tries = runs  BY <1>2, <3>2
      <3>4. shouldCollect("top") => \A n \in Nodes : TopOn(n)  BY <1>1, <3>1 DEF SinceInv, NodesDone
      <3> QED BY <2>1, <3>1, <3>2, <3>3, <3>4 DEF SinceInv, TopOn
    <2>4. CASE NodeFails
      <3>1. mmPC' = "fatal" /\ UNCHANGED <<startTime, runs>>  BY <2>4 DEF NodeFails, MetricFatal
      <3> QED BY <1>1, <2>1, <3>1 DEF SinceInv
    <2>5. CASE \/ TopCollected \/ collectPodLogs("autoscaler", "activator")
               \/ collectPodLogs("activator", "prometheus")
               \/ collectPrometheusSnapshot \/ fetchPrometheusSnapshot
      <3>1. /\ mmPC \in {"top", "autoscaler", "activator", "prometheus", "fetch"}
            /\ mmPC' \in {"autoscaler", "activator", "prometheus", "fetch", "idle", "fatal"}
            /\ UNCHANGED <<startTime, runs>>
        BY <2>5 DEF TopCollected, collectPodLogs, collectPrometheusSnapshot, fetchPrometheusSnapshot
      <3>2. pc = "collecting"  BY <3>1, ManagerAt
      <3> QED BY <1>1, <2>1, <3>1, <3>2 DEF SinceInv
    <2> QED BY <2>1, <2>2, <2>3, <2>4, <2>5 DEF MetricStep
  <1> QED BY <1>3, <1>4, <1>5, <1>6

(* What is in the files that are written while metrics are collected.        *)
LEMMA WhileCollecting ==
  ASSUME MInv, pc = "collecting"
  PROVE  /\ outputDir = <<FALSE, Current>> /\ startTime = runs - tries
         /\ \E i \in RealIndices : started[i].exp = Current
         /\ runs - tries + 1 .. runs \subseteq 1 .. runs
         /\ \A i \in RealIndices : i - DryCount \in runs - tries + 1 .. runs <=> started[i].exp = Current
  <1>1. /\ ~DryRun /\ DryRun \in BOOLEAN /\ tries \in Nat /\ tries <= runs /\ outputDir = dirOf(Current)
        /\ \A i \in RealIndices : started[i].exp = Current <=> i > Len(started) - tries
    BY DEF MInv, AttemptInv, CommonInv, InExperiment
  <1>2. outputDir = <<FALSE, Current>>  BY <1>1 DEF dirOf
  <1>3. startTime = runs - tries  BY DEF MInv, SinceInv
  <1>4. \E i \in RealIndices : started[i].exp = Current
    <2>1. Current \in AllExperiments  BY CurrentFacts DEF InExperiment
    <2>2. Reached(Current)  BY DEF Reached, Tried, InExperiment
    <2> QED BY <1>1, <2>1, <2>2 DEF MInv, StartedInv, InRun, InExperiment, RunIndices
  <1>5. runs \in Nat /\ Len(started) \in Nat /\ DryCount = Len(started) - runs
    BY HistoryTypes DEF DryCount
  <1>6. runs - tries + 1 .. runs \subseteq 1 .. runs  BY <1>1, <1>5
  <1>7. ASSUME NEW i \in RealIndices
        PROVE  i - DryCount \in runs - tries + 1 .. runs <=> i > Len(started) - tries
    <2>1. i \in Int /\ i <= Len(started)  BY <1>5 DEF RealIndices
    <2>2. i - DryCount = i - Len(started) + runs  BY <1>5, <2>1
    <2>3. tries \in Nat  BY <1>1
    <2>4. i - Len(started) + runs \in runs - tries + 1 .. runs <=> i > Len(started) - tries
      BY <1>5, <2>1, <2>3
    <2> QED BY <2>2, <2>4
  <1> QED BY <1>1, <1>2, <1>3, <1>4, <1>6, <1>7

LEMMA CollectedKept ==
  ASSUME MInv, [Next]_vars
  PROVE  CollectedInv'
  <1> USE DEF config, metricVars
  <1>1. CollectedInv /\ NodesInv /\ CommonInv  BY DEF MInv
  <1>2. CASE ExecuteLoader
    <2>1. /\ UNCHANGED <<metricsToCollect, collected>> /\ pc = "execute"  BY <1>2 DEF ExecuteLoader
    <2>2. CASE DryRun
      <3>1. runs = 0  BY <2>2 DEF MInv, StartedInv
      <3>2. RealIndices = {}
        <4>1. Len(started) \in Nat /\ RealIndices = Len(started) - 0 + 1 .. Len(started)
          BY <3>1, HistoryTypes DEF RealIndices, DryCount
        <4> QED BY <4>1
      <3>3. collected = {}  BY <1>1, <3>2 DEF CollectedInv
      <3> QED BY <2>1, <3>3 DEF CollectedInv
    <2>3. CASE ~DryRun
      <3>1. /\ Len(started') = Len(started) + 1 /\ \A i \in DOMAIN started : started'[i] = started[i]
            /\ started'[Len(started) + 1].exp = Current
            /\ runs' = runs + 1 /\ DryCount' = DryCount /\ Current' = Current
        <4>1. PICK ok \in BOOLEAN :
                 /\ Len(started') = Len(started) + 1 /\ \A i \in DOMAIN started : started'[i] = started[i]
                 /\ started'[Len(started) + 1] =
                      [dry |-> DryRun, exp |-> Current, verbosity |-> verbosity, ok |-> ok]
                 /\ runs' = IF DryRun THEN runs ELSE runs + 1
                 /\ DryCount' = (IF DryRun THEN DryCount + 1 ELSE DryCount)
                 /\ Current' = Current
          BY <1>2, Executed
        <4> QED BY <2>3, <4>1
      <3>2. /\ Len(started) \in Nat /\ runs \in Nat /\ DryCount \in Nat /\ DryCount + runs = Len(started)
            /\ RealIndices \subseteq DOMAIN started
        BY HistoryTypes
      <3>3. /\ \A i \in RealIndices' : i \in RealIndices \/ i = Len(started) + 1
            /\ RealIndices \subseteq RealIndices'
        BY <3>1, <3>2 DEF RealIndices
      <3>4. \A i \in RealIndices : started'[i] = started[i]  BY <3>1, <3>2
      <3>5. Len(started) + 1 - DryCount = runs + 1 /\ 1 .. runs \subseteq 1 .. runs' /\ runs + 1 \notin 1 .. runs
        BY <3>1, <3>2
      <3>6. ASSUME NEW f \in collected
            PROVE  /\ f.dir[1] = FALSE /\ f.metric \in metricsToCollect
                   /\ f.metric = "top" => f.from \in Nodes
                   /\ f.dir[2] # Current
                   /\ \E i \in RealIndices' : started'[i].exp = f.dir[2]
                   /\ f.metric # "prometheus" =>
                        /\ f.runs \subseteq 1 .. runs'
                        /\ \A i \in RealIndices' : i - DryCount \in f.runs <=> started'[i].exp = f.dir[2]
        <4>1. /\ f.dir[1] = FALSE /\ f.metric \in metricsToCollect
              /\ f.metric = "top" => f.from \in Nodes
              /\ f.dir[2] # Current
              /\ \E i \in RealIndices : started[i].exp = f.dir[2]
              /\ f.metric # "prometheus" =>
                   /\ f.runs \subseteq 1 .. runs
                   /\ \A i \in RealIndices : i - DryCount \in f.runs <=> started[i].exp = f.dir[2]
          BY <1>1, <2>1 DEF CollectedInv
        <4>2. \E i \in RealIndices' : started'[i].exp = f.dir[2]  BY <3>3, <3>4, <4>1
        <4>3. ASSUME f.metric # "prometheus", NEW i \in RealIndices'
              PROVE  i - DryCount \in f.runs <=> started'[i].exp = f.dir[2]
          <5>1. CASE i \in RealIndices  BY <3>4, <4>1, <4>3, <5>1
          <5>2. CASE i = Len(started) + 1
            <6>1. i - DryCount = runs + 1
              <7>1. /\ i = Len(started) + 1 /\ Len(started) \in Nat
                    /\ DryCount \in Nat /\ runs \in Nat /\ DryCount + runs = Len(started)
                BY <3>2, <5>2
              <7> QED BY <7>1
            <6>2. started'[i].exp # f.dir[2]  BY <3>1, <4>1, <5>2
            <6>3. f.runs \subseteq 1 .. runs  BY <4>1, <4>3
            <6> QED BY <3>5, <6>1, <6>2, <6>3
          <5> QED BY <3>3, <5>1, <5>2
        <4> QED BY <3>5, <4>1, <4>2, <4>3
      <3> QED BY <2>1, <3>1, <3>6 DEF CollectedInv
    <2> QED BY <2>2, <2>3
  <1>3. CASE ~ExecuteLoader
    <2>1. UNCHANGED <<started, runs>> /\ DryCount' = DryCount /\ RealIndices' = RealIndices
      BY <1>3, Unstarted
    <2> DEFINE Fine(f) ==
          /\ f.dir[1] = FALSE /\ f.metric \in metricsToCollect
          /\ f.metric = "top" => f.from \in Nodes
          /\ \E i \in RealIndices : started[i].exp = f.dir[2]
          /\ f.metric # "prometheus" =>
               /\ f.runs \subseteq 1 .. runs
               /\ \A i \in RealIndices : i - DryCount \in f.runs <=> started[i].exp = f.dir[2]
    <2>2. \A f \in collected : Fine(f)  BY <1>1 DEF CollectedInv
    <2>3. UNCHANGED metricsToCollect
      <3>1. CASE Reset  BY <3>1 DEF Reset, StartReset
      <3>2. CASE CollectMetrics  BY <3>2 DEF CollectMetrics, StartCollect
      <3>3. CASE MetricManagerStep
        BY <3>3
        DEF MetricManagerStep, MetricStep, KillTop, StartTop, CopyTop, ResetDone, TopCollected,
            NodeFails, MetricFatal, collectPodLogs, collectPrometheusSnapshot, fetchPrometheusSnapshot
      <3> QED BY <3>1, <3>2, <3>3, MetricFrame
    <2>4. ASSUME pc' = "execute" PROVE \A f \in collected : f.dir[2] # Current
      <3>1. \/ pc = "execute" \/ pc = "resetting" \/ (pc = "prepare" /\ DryRun)
        BY <1>3, <2>4
        DEF vars, Next, NewMultiLoaderRunner, StartRun, UnpackExperiment, UnpackFails, Unpacked,
            PrepareExperiment, Reset, ResetReturns, CollectMetrics, CollectReturns, performCleanup,
            NextExperiment, NextStudy, EndRun, ScriptFails, MetricManagerStep, Terminated, BeginStudy
      <3>2. CASE pc = "execute"  BY <1>1, <3>2 DEF CollectedInv
      <3>3. CASE pc = "resetting"
        <4>1. \A i \in RealIndices : started[i].exp = Current <=> i > Len(started) - tries
          BY <3>3 DEF MInv, AttemptInv, InExperiment
        <4>2. tries = 0 /\ Len(started) \in Nat  BY <3>3, HistoryTypes, ManagerAt
        <4>3. \A i \in RealIndices : ~(i > Len(started) - tries)  BY <4>2, HistoryTypes DEF RealIndices
        <4> QED BY <2>2, <4>1, <4>3
      <3>4. CASE DryRun
        <4>1. runs = 0  BY <3>4 DEF MInv, StartedInv
        <4>2. RealIndices = {}
          <5>1. Len(started) \in Nat /\ RealIndices = Len(started) - 0 + 1 .. Len(started)
            BY <4>1, HistoryTypes DEF RealIndices, DryCount
          <5> QED BY <5>1
        <4> QED BY <2>2, <4>2
      <3> QED BY <3>1, <3>2, <3>3, <3>4
    <2>5. ASSUME pc' = "execute" PROVE Current' = Current /\ \A f \in collected' : f \in collected
      BY <1>3, <2>4, <2>5, ManagerAt
      DEF vars, Next, NewMultiLoaderRunner, StartRun, UnpackExperiment, UnpackFails, Unpacked,
          PrepareExperiment, Reset, ResetReturns, CollectMetrics, CollectReturns, performCleanup,
          NextExperiment, NextStudy, EndRun, ScriptFails, Terminated, BeginStudy, Current, unpackVars,
          MetricManagerStep, MetricStep, KillTop, StartTop, CopyTop, ResetDone, TopCollected,
          NodeFails, MetricFatal, collectPodLogs, collectPrometheusSnapshot, fetchPrometheusSnapshot
    <2>6. \A f \in collected' : Fine(f)
      <3>1. CASE MetricManagerStep
        <4>1. ASSUME NEW m, NEW from, NEW content, pc = "collecting", m \in metricsToCollect,
                     m = "top" => from \in Nodes,
                     m # "prometheus" => content = runs - tries + 1 .. runs
              PROVE  Fine(File(m, from, content))
          <5> DEFINE f == File(m, from, content)
          <5>1. f.dir = outputDir /\ f.metric = m /\ f.from = from /\ f.runs = content  BY DEF File
          <5>2. /\ outputDir[1] = FALSE /\ outputDir[2] = Current
                /\ \E i \in RealIndices : started[i].exp = Current
                /\ runs - tries + 1 .. runs \subseteq 1 .. runs
                /\ \A i \in RealIndices : i - DryCount \in runs - tries + 1 .. runs <=> started[i].exp = Current
            <6>1. /\ outputDir = <<FALSE, Current>>
                  /\ \E i \in RealIndices : started[i].exp = Current
                  /\ runs - tries + 1 .. runs \subseteq 1 .. runs
                  /\ \A i \in RealIndices : i - DryCount \in runs - tries + 1 .. runs <=> started[i].exp = Current
              BY <4>1, WhileCollecting
            <6>2. outputDir[1] = FALSE /\ outputDir[2] = Current  BY <6>1
            <6> QED BY <6>1, <6>2
          <5> HIDE DEF f
          <5>3. Fine(f)  BY <4>1, <5>1, <5>2
          <5> QED BY <5>3 DEF f
        <4> HIDE DEF Fine
        <4>2. \A f \in collected' : f \in collected \/ Fine(f)
          <5>1. CASE \E n \in Nodes : KillTop(n) \/ StartTop(n)  BY <5>1 DEF KillTop, StartTop
          <5>2. ASSUME NEW n \in Nodes, CopyTop(n) PROVE \A f \in collected' : f \in collected \/ Fine(f)
            <6>1. /\ nodeStep[n] = "copy" /\ mmPC # "fatal"
                  /\ collected' = collected \cup {File("top", n, top[n].since + 1 .. top[n].until)}
              BY <5>2 DEF CopyTop
            <6>2. mmPC = "top" /\ pc = "collecting" /\ shouldCollect("top")  BY <6>1, ManagerAt
            <6>3. top[n].since = runs - tries /\ top[n].until = runs
              BY <6>1, <6>2 DEF MInv, SinceInv
            <6>4. Fine(File("top", n, top[n].since + 1 .. top[n].until))
              BY <4>1, <6>2, <6>3 DEF shouldCollect
            <6> QED BY <6>1, <6>4
          <5>3. ASSUME NEW pod \in {"autoscaler", "activator"}, NEW then, collectPodLogs(pod, then)
                PROVE  \A f \in collected' : f \in collected \/ Fine(f)
            <6>1. pc = "collecting"  BY <5>3, ManagerAt DEF collectPodLogs
            <6>2. consolidateLogs = runs - tries + 1 .. runs  BY <6>1, WhileCollecting DEF consolidateLogs
            <6>3. shouldCollect(pod) => Fine(File(pod, podNode[pod], consolidateLogs))
              BY <4>1, <6>1, <6>2 DEF shouldCollect
            <6> QED BY <5>3, <6>3 DEF collectPodLogs
          <5>4. CASE fetchPrometheusSnapshot
            <6>1. pc = "collecting" /\ shouldCollect("prometheus")
              BY <5>4, ManagerAt DEF fetchPrometheusSnapshot, MInv, FilesInv
            <6>2. Fine(File("prometheus", "master", {}))  BY <4>1, <6>1 DEF shouldCollect
            <6> QED BY <5>4, <6>2 DEF fetchPrometheusSnapshot
          <5>5. CASE ResetDone \/ TopCollected \/ NodeFails \/ collectPrometheusSnapshot
            BY <5>5 DEF ResetDone, TopCollected, NodeFails, MetricFatal, collectPrometheusSnapshot
          <5> QED BY <3>1, <5>1, <5>2, <5>3, <5>4, <5>5 DEF MetricManagerStep, MetricStep
        <4> QED BY <2>2, <4>2
      <3>2. CASE ~MetricManagerStep
        <4>1. collected' \subseteq collected
          BY <1>3, <3>2
          DEF vars, Next, NewMultiLoaderRunner, StartRun, UnpackExperiment, UnpackFails, Unpacked,
              PrepareExperiment, Reset, ResetReturns, CollectMetrics, CollectReturns, performCleanup,
              NextExperiment, NextStudy, EndRun, ScriptFails, Terminated, StartReset, StartCollect,
              ClearCollectedMetrics
        <4> QED BY <2>2, <4>1
      <3> QED BY <3>1, <3>2
    <2> QED BY <2>1, <2>3, <2>4, <2>5, <2>6 DEF CollectedInv
  <1> QED BY <1>2, <1>3

LEMMA FilesKept ==
  ASSUME MInv, [Next]_vars
  PROVE  FilesInv'
  <1> USE DEF shouldCollect, config, metricVars
  <1>1. FilesInv /\ NodesInv  BY DEF MInv
  <1>2. CASE ~Reset /\ ~CollectMetrics /\ ~MetricManagerStep
    <2>1. /\ UNCHANGED <<metricsToCollect, mmPC, nodeStep>>
          /\ pc' = pc \/ (mmPC = "idle" /\ pc' \notin {"resetting", "collecting"})
      BY <1>2, MetricFrame
    <2>2. \/ pc' = pc /\ UNCHANGED <<collected, outputDir, DryRun>>
          \/ mmPC = "idle" /\ pc' \notin {"cleanup", "next", "collecting"}
          \/ mmPC = "idle" /\ pc' \in {"cleanup", "next"} /\ DryRun'
          \/ /\ mmPC = "idle" /\ pc \in {"collecting", "cleanup"} /\ pc' \in {"cleanup", "next"}
             /\ ~DryRun' /\ UNCHANGED <<collected, outputDir, DryRun>>
      <3>1. CASE ExecuteLoader
        <4>1. pc = "execute" /\ UNCHANGED <<collected, outputDir, DryRun>>  BY <3>1 DEF ExecuteLoader
        <4>2. pc' = "cleanup" => DryRun  BY <3>1, Executed
        <4>3. mmPC = "idle" /\ pc' \in {"execute", "cleanup", "collect"}
          BY <1>1, <3>1, <4>1, Executed DEF NodesInv
        <4> QED BY <4>1, <4>2, <4>3
      <3>2. CASE CollectReturns \/ performCleanup
        BY <1>1, <3>2 DEF CollectReturns, performCleanup, NodesInv
      <3>3. CASE ~ExecuteLoader /\ ~CollectReturns /\ ~performCleanup
        <4>1. \/ pc' = pc /\ UNCHANGED <<collected, outputDir, DryRun>>
              \/ pc' \notin {"cleanup", "next", "collecting"} /\ pc' # pc
          BY <1>2, <3>3
          DEF vars, Next, NewMultiLoaderRunner, StartRun, UnpackExperiment, UnpackFails, Unpacked,
              PrepareExperiment, ResetReturns, NextExperiment, NextStudy, EndRun, ScriptFails,
              Terminated, BeginStudy
        <4> QED BY <2>1, <4>1
      <3> QED BY <3>1, <3>2, <3>3
    <2>3. CASE pc' = pc /\ UNCHANGED <<collected, outputDir, DryRun>>
      BY <1>1, <2>1, <2>3 DEF FilesInv, After, Has, HasTop
    <2>4. CASE mmPC = "idle" /\ (pc' \notin {"cleanup", "next", "collecting"} \/ (pc' # "collecting" /\ DryRun'))
      BY <2>1, <2>4 DEF FilesInv, After
    <2>5. CASE /\ mmPC = "idle" /\ pc \in {"collecting", "cleanup"} /\ pc' \in {"cleanup", "next"}
               /\ ~DryRun' /\ UNCHANGED <<collected, outputDir, DryRun>>
      <3>1. \A m \in {"top", "autoscaler", "activator", "prometheus"} : After(m)
        BY <2>5 DEF After
      <3> QED BY <1>1, <2>1, <2>5, <3>1 DEF FilesInv, Has, HasTop
    <2> QED BY <2>2, <2>3, <2>4, <2>5
  <1>3. CASE Reset
    BY <1>3 DEF FilesInv, After, Reset, StartReset, ForAllNodes
  <1>4. CASE CollectMetrics
    BY <1>4 DEF FilesInv, After, CollectMetrics, StartCollect, ForAllNodes
  <1>5. CASE MetricManagerStep
    <2>1. MetricStep /\ UNCHANGED <<pc, DryRun>>  BY <1>5 DEF MetricManagerStep
    <2>2. UNCHANGED <<metricsToCollect, outputDir>> /\ collected \subseteq collected'
      BY <2>1
      DEF MetricStep, KillTop, StartTop, CopyTop, ResetDone, TopCollected, NodeFails, MetricFatal,
          collectPodLogs, collectPrometheusSnapshot, fetchPrometheusSnapshot
    <2>3. \A n \in Nodes : HasTop(n) => HasTop(n)'  BY <2>2 DEF HasTop
    <2>4. \A m \in Metrics : Has(m) => Has(m)'  BY <2>2 DEF Has
    <2>5. ASSUME NEW m, NEW from, NEW content, File(m, from, content) \in collected'
           PROVE  \E f \in collected' : f.dir = outputDir' /\ f.metric = m /\ f.from = from
      <3>1. /\ File(m, from, content).dir = outputDir' /\ File(m, from, content).metric = m
            /\ File(m, from, content).from = from
        BY <2>2 DEF File
      <3> QED BY <2>5, <3>1
    <2>6. CASE mmPC \notin {"top", "autoscaler", "activator", "prometheus", "fetch"}
      <3>1. \/ mmPC = "resetTop" /\ mmPC' \in {"resetTop", "idle", "fatal"} /\ pc = "resetting"
            \/ mmPC' = "fatal"
        BY <2>1, <2>6, ManagerAt
        DEF MetricStep, KillTop, StartTop, CopyTop, ResetDone, TopCollected, NodeFails, MetricFatal,
            collectPodLogs, collectPrometheusSnapshot, fetchPrometheusSnapshot
      <3>2. \/ pc' = "resetting" /\ mmPC' \in {"resetTop", "idle", "fatal"}
            \/ mmPC' = "fatal" /\ pc' \in {"resetting", "collecting"}
        <4>1. mmPC' = "fatal" => pc \in {"resetting", "collecting"}
          BY <1>1, <2>1, <2>6, <3>1, ManagerAt
          DEF NodesInv, MetricStep, KillTop, StartTop, CopyTop, ResetDone, TopCollected, NodeFails,
              MetricFatal, collectPodLogs, collectPrometheusSnapshot, fetchPrometheusSnapshot
        <4> QED BY <2>1, <3>1, <4>1
      <3> QED BY <3>2 DEF FilesInv, After
    <2>7. CASE mmPC \in {"top", "autoscaler", "activator", "prometheus", "fetch"}
      <3>1. pc = "collecting" /\ pc' = "collecting"  BY <2>1, <2>7, ManagerAt
      <3>2. ASSUME NEW n \in Nodes, KillTop(n) \/ StartTop(n) \/ CopyTop(n) PROVE FilesInv'
        <4>1. nodeStep[n] # "done" /\ mmPC # "fatal" /\ mmPC' = mmPC
          BY <3>2 DEF KillTop, StartTop, CopyTop
        <4>2. mmPC = "top" /\ mmPC' = "top" /\ shouldCollect("top") /\ nodeStep[n] \in {"kill", "copy"}
          BY <2>7, <4>1, ManagerAt
        <4>3. \A m \in Nodes : m # n => nodeStep'[m] = nodeStep[m]
          BY <1>1, <3>2 DEF NodesInv, KillTop, StartTop, CopyTop
        <4>4. nodeStep'[n] = "done" => HasTop(n)'
          <5>1. CASE KillTop(n)
            <6>1. nodeStep'[n] # "done"  BY <1>1, <5>1 DEF NodesInv, KillTop
            <6> QED BY <6>1
          <5>2. CASE CopyTop(n)
            <6>1. File("top", n, top[n].since + 1 .. top[n].until) \in collected'  BY <5>2 DEF CopyTop
            <6> QED BY <2>5, <6>1 DEF HasTop
          <5> QED BY <3>2, <4>2, <5>1, <5>2 DEF StartTop
        <4>5. \A m \in Nodes : nodeStep[m] = "done" => HasTop(m)  BY <1>1, <4>2 DEF FilesInv
        <4>6. \A m \in Nodes : nodeStep'[m] = "done" => HasTop(m)'  BY <2>3, <4>3, <4>4, <4>5
        <4> QED BY <3>1, <4>2, <4>6 DEF FilesInv, After
      <3>3. CASE TopCollected
        <4>1. mmPC = "top" /\ mmPC' = "autoscaler" /\ NodesDone  BY <3>3 DEF TopCollected
        <4>2. shouldCollect("top") => \A n \in Nodes : HasTop(n)'
          BY <1>1, <2>3, <4>1 DEF FilesInv, NodesDone
        <4> QED BY <2>2, <3>1, <4>1, <4>2 DEF FilesInv, After
      <3>4. CASE NodeFails
        <4>1. mmPC' = "fatal"  BY <3>4 DEF NodeFails, MetricFatal
        <4> QED BY <3>1, <4>1 DEF FilesInv, After
      <3>5. ASSUME mmPC \in {"autoscaler", "activator", "prometheus", "fetch"}
            PROVE  shouldCollect("top") => \A n \in Nodes : HasTop(n)'
        BY <1>1, <2>3, <3>1, <3>5 DEF FilesInv, After
      <3>6. CASE collectPodLogs("autoscaler", "activator")
        <4>1. mmPC = "autoscaler" /\ mmPC' \in {"activator", "fatal"}  BY <3>6 DEF collectPodLogs
        <4>2. mmPC' = "activator" => Has("autoscaler")'
          <5>1. mmPC' = "activator" /\ shouldCollect("autoscaler") =>
                  File("autoscaler", podNode["autoscaler"], consolidateLogs) \in collected'
            BY <3>6 DEF collectPodLogs
          <5> QED BY <2>2, <2>5, <5>1 DEF Has
        <4> QED BY <2>2, <3>1, <3>5, <4>1, <4>2 DEF FilesInv, After
      <3>7. CASE collectPodLogs("activator", "prometheus")
        <4>1. mmPC = "activator" /\ mmPC' \in {"prometheus", "fatal"}  BY <3>7 DEF collectPodLogs
        <4>2. mmPC' = "prometheus" => Has("activator")'
          <5>1. mmPC' = "prometheus" /\ shouldCollect("activator") =>
                  File("activator", podNode["activator"], consolidateLogs) \in collected'
            BY <3>7 DEF collectPodLogs
          <5> QED BY <2>2, <2>5, <5>1 DEF Has
        <4>3. Has("autoscaler")'  BY <1>1, <2>4, <3>1, <4>1 DEF FilesInv, After, Metrics
        <4> QED BY <2>2, <3>1, <3>5, <4>1, <4>2, <4>3 DEF FilesInv, After
      <3>8. CASE collectPrometheusSnapshot
        <4>1. /\ mmPC = "prometheus" /\ mmPC' = IF shouldCollect("prometheus") THEN "fetch" ELSE "idle"
          BY <3>8 DEF collectPrometheusSnapshot
        <4>2. Has("autoscaler")' /\ Has("activator")'
          BY <1>1, <2>4, <3>1, <4>1 DEF FilesInv, After, Metrics
        <4>3. mmPC' = "idle" => Has("prometheus")'  BY <2>2, <4>1 DEF Has
        <4> QED BY <2>2, <3>1, <3>5, <4>1, <4>2, <4>3 DEF FilesInv, After
      <3>9. CASE fetchPrometheusSnapshot
        <4>1. mmPC = "fetch" /\ mmPC' \in {"fetch", "idle", "fatal"}  BY <3>9 DEF fetchPrometheusSnapshot
        <4>2. Has("autoscaler")' /\ Has("activator")' /\ shouldCollect("prometheus")
          BY <1>1, <2>4, <3>1, <4>1 DEF FilesInv, After, Metrics
        <4>3. mmPC' = "idle" => Has("prometheus")'
          <5>1. mmPC' = "idle" => File("prometheus", "master", {}) \in collected'
            BY <3>9 DEF fetchPrometheusSnapshot
          <5> QED BY <2>2, <2>5, <5>1 DEF Has
        <4> QED BY <2>2, <3>1, <3>5, <4>1, <4>2, <4>3 DEF FilesInv, After
      <3> QED BY <2>1, <2>7, <3>2, <3>3, <3>4, <3>6, <3>7, <3>8, <3>9 DEF MetricStep, ResetDone
    <2> QED BY <2>6, <2>7
  <1> QED BY <1>2, <1>3, <1>4, <1>5

-----------------------------------------------------------------------------
(* The theorems                                                              *)

LEMMA InitMInv == Init => MInv
  <1> SUFFICES ASSUME Init PROVE MInv
    OBVIOUS
  <1>1. /\ studies \in StudyLists /\ failFast \in BOOLEAN /\ DryRun = FALSE /\ DryRunSuccess = TRUE
        /\ pc = "new" /\ experiments = <<>> /\ experiment = 1 /\ tries = 0 /\ verbosity = ""
        /\ started = <<>> /\ runs = 0 /\ mmPC = "idle" /\ startTime = 0 /\ collected = {}
        /\ metricsToCollect \in MetricChoices /\ podNode \in [{"autoscaler", "activator"} -> Nodes]
        /\ nodeStep = [n \in Nodes |-> "done"] /\ top = [n \in Nodes |-> [since |-> 0, until |-> 0]]
    BY DEF Init, MetricInit
  <1> USE DEF InRun, InExperiment
  <1>2. CommonInv
    <2>1. experiments \in Seq(Exps) /\ experiment \in Nat
      <3>1. experiments = <<>> /\ experiment = 1  BY <1>1
      <3> QED BY <3>1
    <2> QED BY <1>1, <2>1 DEF CommonInv
  <1>3. UnpackInv  BY <1>1 DEF UnpackInv
  <1>4. /\ started \in Seq(Starts) /\ Len(started) = 0 /\ DOMAIN started = {}
        /\ runs = 0 /\ DryCount = 0 /\ RealIndices = {}
    <2>1. started = <<>> /\ runs = 0  BY <1>1
    <2> QED BY <2>1 DEF DryCount, RealIndices
  <1>5. ~(runs > 0) /\ runs \in Nat /\ runs <= Len(started)  BY <1>4
  <1>6. StartedInv  BY <1>1, <1>4, <1>5 DEF StartedInv
  <1>7. DryRunsInv  BY <1>1, <1>5 DEF DryRunsInv
  <1>8. AttemptInv
    <2>1. tries \in Nat  BY <1>1
    <2> QED BY <1>1, <2>1 DEF AttemptInv
  <1>9. RetryInv  BY <1>4 DEF RetryInv
  <1>10. NodesInv
    <2>1. metricsToCollect \subseteq Metrics  BY <1>1, MetricAssumption
    <2>2. /\ nodeStep \in [Nodes -> {"kill", "start", "copy", "done"}]
          /\ \A n \in Nodes : nodeStep[n] = "done"
      <3>1. nodeStep = [n \in Nodes |-> "done"]  BY <1>1
      <3> QED BY <3>1
    <2>3. top \in [Nodes -> [since : Int, until : Int]] /\ startTime \in Int
      <3>1. top = [n \in Nodes |-> [since |-> 0, until |-> 0]] /\ startTime = 0  BY <1>1
      <3> QED BY <3>1
    <2> QED BY <1>1, <2>1, <2>2, <2>3 DEF NodesInv, NodesDone
  <1>11. SinceInv  BY <1>1 DEF SinceInv
  <1>12. CollectedInv  BY <1>1 DEF CollectedInv
  <1>13. FilesInv  BY <1>1 DEF FilesInv, After
  <1> QED
    BY <1>2, <1>3, <1>6, <1>7, <1>8, <1>9, <1>10, <1>11, <1>12, <1>13 DEF MInv

(* MInv is an invariant: what each step of the multi-loader, from the dry    *)
(* runs to the collection of metrics, rests on and leaves behind.            *)
THEOREM MultiLoaderInvariance == Spec => []MInv
  <1>1. Init => MInv  BY InitMInv
  <1>2. MInv /\ [Next]_vars => MInv'
    <2> SUFFICES ASSUME MInv, [Next]_vars PROVE MInv'
      OBVIOUS
    <2>1. CommonInv' /\ UnpackInv' /\ StartedInv'  BY CommonKept, UnpackKept, StartedKept
    <2>2. DryRunsInv' /\ AttemptInv' /\ RetryInv'  BY DryRunsKept, AttemptKept, RetryKept
    <2>3. NodesInv' /\ SinceInv'  BY NodesKept, SinceKept
    <2>4. CollectedInv' /\ FilesInv'  BY CollectedKept, FilesKept
    <2> QED BY <2>1, <2>2, <2>3, <2>4 DEF MInv
  <1> QED BY <1>1, <1>2, PTL DEF Spec

(* unpackStudy makes, of every study, each trace with each combination of    *)
(* sweep values once, whatever the number of options and of values, for grid *)
(* and for linear sweeps: NextCProduct skips and repeats none.               *)
THEOREM CombinationsOnce == Spec => []EachCombinationOnce
  <1>1. MInv => EachCombinationOnce
    <2> SUFFICES ASSUME MInv, pc \in {"prepare", "studyDone"}
                 PROVE  /\ {experiments[i] : i \in DOMAIN experiments} = ExperimentsOf(study)
                        /\ \A i, j \in DOMAIN experiments : i # j => experiments[i] # experiments[j]
      BY DEF EachCombinationOnce
    <2>1. /\ \A i \in DOMAIN experiments : experiments[i] \in ExperimentsOf(study)
          /\ \A x \in ExperimentsOf(study) : \E i \in DOMAIN experiments : x = experiments[i]
          /\ Distinct
      BY DEF MInv, UnpackInv, InExperiment
    <2>2. {experiments[i] : i \in DOMAIN experiments} = ExperimentsOf(study)  BY <2>1
    <2>3. \A i, j \in DOMAIN experiments : i # j => experiments[i] # experiments[j]
      BY <2>1 DEF Distinct
    <2> QED BY <2>2, <2>3
  <1> QED BY <1>1, MultiLoaderInvariance, PTL

(* RunActual starts nothing before every experiment of every study has had   *)
(* its dry run, and no dry run failed (main of multi_loader.go).             *)
THEOREM DryRunsComeFirst == Spec => []DryRunsFirst
  <1>1. MInv => DryRunsFirst
    <2> SUFFICES ASSUME MInv, NEW i \in DOMAIN started, ~started[i].dry
                 PROVE  /\ \A j \in DOMAIN started : started[j].dry => started[j].ok
                        /\ {started[j].exp : j \in {k \in 1 .. i : started[k].dry}} = AllExperiments
      BY DEF DryRunsFirst
    <2>1. /\ Len(started) \in Nat /\ DOMAIN started = 1 .. Len(started) /\ runs \in Nat
          /\ DryCount \in Nat /\ DryCount + runs = Len(started)
      BY HistoryTypes
    <2>2. \A j \in DOMAIN started : started[j].dry <=> j <= DryCount  BY DEF MInv, StartedInv
    <2>3. i \in Nat /\ i > DryCount /\ i <= Len(started)  BY <2>1, <2>2
    <2>4. runs > 0  BY <2>1, <2>3
    <2>5. /\ \A j \in 1 .. DryCount : started[j].ok
          /\ \A x \in AllExperiments : \E j \in 1 .. DryCount : x = started[j].exp
      BY <2>4 DEF MInv, DryRunsInv
    <2>6. \A j \in DOMAIN started : started[j].exp \in AllExperiments  BY DEF MInv, StartedInv
    <2>7. \A j \in DOMAIN started : started[j].dry => j \in 1 .. DryCount  BY <2>1, <2>2
    <2>8. 1 .. DryCount \subseteq 1 .. i /\ 1 .. i \subseteq DOMAIN started  BY <2>1, <2>3
    <2>9. \A j \in 1 .. DryCount : started[j].dry  BY <2>1, <2>2, <2>3
    <2>10. 1 .. DryCount \subseteq {k \in 1 .. i : started[k].dry}  BY <2>8, <2>9
    <2>11. {started[j].exp : j \in {k \in 1 .. i : started[k].dry}} \subseteq AllExperiments
      BY <2>6, <2>8
    <2>12. AllExperiments \subseteq {started[j].exp : j \in {k \in 1 .. i : started[k].dry}}
      BY <2>5, <2>10
    <2> QED BY <2>5, <2>7, <2>11, <2>12
  <1> QED BY <1>1, MultiLoaderInvariance, PTL

(* The starts at which an experiment runs for real are among the real ones.  *)
LEMMA RealStartsAre ==
  ASSUME MInv
  PROVE  \A x : \A i : i \in RealStarts(x) <=> i \in RealIndices /\ started[i].exp = x
  <1>1. \A i \in DOMAIN started : i \in RealIndices <=> i > DryCount  BY HistoryTypes
  <1>2. RealIndices \subseteq DOMAIN started /\ DryCount \in Nat /\ DOMAIN started = 1 .. Len(started)
        /\ Len(started) \in Nat
    BY HistoryTypes
  <1>3. \A i \in DOMAIN started : started[i].dry <=> i <= DryCount  BY DEF MInv, StartedInv
  <1>4. \A i \in DOMAIN started : i > DryCount <=> ~(i <= DryCount)  BY <1>2
  <1> QED BY <1>1, <1>2, <1>3, <1>4 DEF RealStarts

(* runExperiment tries an experiment a second time only if the first attempt *)
(* failed and failFast is off, at once, with debug verbosity, and never a    *)
(* third time, although verbosity and attempts outlive an experiment.        *)
THEOREM RetriedOnce == Spec => []RetryOnce
  <1>1. MInv => RetryOnce
    <2> SUFFICES ASSUME MInv, NEW x \in AllExperiments, NEW i \in RealStarts(x)
                 PROVE  /\ \A j \in RealStarts(x) : j < i => ~started[j].ok /\ ~failFast /\ j = i - 1
                        /\ (started[i].verbosity = "debug") <=> \E j \in RealStarts(x) : j < i
      BY DEF RetryOnce
    <2>1. i \in RealIndices /\ started[i].exp = x  BY RealStartsAre
    <2>2. \A j : j \in RealStarts(x) <=> j \in RealIndices /\ started[j].exp = x  BY RealStartsAre
    <2> QED BY <2>1, <2>2 DEF MInv, RetryInv
  <1> QED BY <1>1, MultiLoaderInvariance, PTL

(* A file of metrics holds the runs of the experiment whose directory it is  *)
(* in, all attempts and no other experiment's, and when runs of an experiment *)
(* are over each metric asked for has been collected, top from every node.    *)
THEOREM MetricsCollected == Spec => []MetricsOfExperiment
  <1>1. MInv => MetricsOfExperiment
    <2> SUFFICES ASSUME MInv PROVE MetricsOfExperiment
      OBVIOUS
    <2>1. ASSUME NEW f \in collected, f.metric # "prometheus" PROVE f.runs = RunsOf(f.dir[2])
      <3>1. /\ Len(started) \in Nat /\ DOMAIN started = 1 .. Len(started) /\ runs \in Nat
            /\ DryCount \in Nat /\ DryCount + runs = Len(started) /\ 1 .. DryCount \subseteq DOMAIN started
        BY HistoryTypes
      <3>2. Cardinality({i \in DOMAIN started : started[i].dry}) = DryCount
        <4>1. \A i \in DOMAIN started : started[i].dry <=> i <= DryCount  BY DEF MInv, StartedInv
        <4>2. {i \in DOMAIN started : started[i].dry} = 1 .. DryCount  BY <3>1, <4>1
        <4>3. Cardinality(1 .. DryCount) = DryCount
          <5>1. Cardinality(1 .. DryCount) = IF 1 > DryCount THEN 0 ELSE DryCount - 1 + 1
            BY <3>1, FS_Interval
          <5> QED BY <3>1, <5>1
        <4> QED BY <4>2, <4>3
      <3>3. RunsOf(f.dir[2]) = {i - DryCount : i \in RealStarts(f.dir[2])}  BY <3>2 DEF RunsOf
      <3>4. \A i : i \in RealStarts(f.dir[2]) <=> i \in RealIndices /\ started[i].exp = f.dir[2]
        BY RealStartsAre
      <3>5. /\ f.runs \subseteq 1 .. runs
            /\ \A i \in RealIndices : i - DryCount \in f.runs <=> started[i].exp = f.dir[2]
        BY <2>1 DEF MInv, CollectedInv
      <3>6. \A i \in RealStarts(f.dir[2]) : i - DryCount \in f.runs  BY <3>4, <3>5
      <3>7. ASSUME NEW r \in f.runs PROVE \E i \in RealStarts(f.dir[2]) : r = i - DryCount
        <4>1. r \in 1 .. runs  BY <3>5
        <4>2. r + DryCount \in RealIndices /\ r = (r + DryCount) - DryCount
          BY <3>1, <4>1 DEF RealIndices
        <4> QED BY <3>4, <3>5, <4>2
      <3> QED BY <3>3, <3>6, <3>7
    <2>2. ASSUME pc = "next", ~DryRun
          PROVE  LET here == {f \in collected : f.dir = outputDir} IN
                 /\ {f.metric : f \in here} = metricsToCollect
                 /\ "top" \in metricsToCollect => {f.from : f \in {g \in here : g.metric = "top"}} = Nodes
      <3> DEFINE here == {f \in collected : f.dir = outputDir}
      <3>1. \A m \in Metrics : After(m)  BY <2>2 DEF After, Metrics
      <3>2. /\ shouldCollect("top") => \A n \in Nodes : HasTop(n)
            /\ Has("autoscaler") /\ Has("activator") /\ Has("prometheus")
        BY <3>1 DEF MInv, FilesInv, Metrics
      <3>3. metricsToCollect \subseteq Metrics  BY DEF MInv, NodesInv
      <3>4. PICK n \in Nodes : TRUE  BY MetricAssumption
      <3>5. ASSUME NEW m \in metricsToCollect PROVE \E f \in here : f.metric = m
        <4>1. m \in Metrics /\ shouldCollect(m)  BY <3>3 DEF shouldCollect
        <4>2. CASE m = "top"  BY <3>2, <3>4, <4>1, <4>2 DEF HasTop
        <4>3. CASE m # "top"
          <5>1. Has(m)  BY <3>2, <4>1, <4>3 DEF Metrics
          <5> QED BY <4>1, <5>1 DEF Has
        <4> QED BY <4>2, <4>3
      <3>6. /\ \A f \in here : f.metric \in metricsToCollect
            /\ \A f \in here : f.metric = "top" => f.from \in Nodes
        BY DEF MInv, CollectedInv
      <3>7. {f.metric : f \in here} = metricsToCollect  BY <3>5, <3>6
      <3>8. ASSUME "top" \in metricsToCollect
            PROVE  {f.from : f \in {g \in here : g.metric = "top"}} = Nodes
        <4>1. \A m \in Nodes : \E f \in {g \in here : g.metric = "top"} : f.from = m
          BY <3>2, <3>8 DEF HasTop, shouldCollect
        <4> QED BY <3>6, <4>1
      <3> QED BY <3>7, <3>8
    <2>3. \A f \in collected : f.dir[1] = FALSE  BY DEF MInv, CollectedInv
    <2> QED BY <2>1, <2>2, <2>3 DEF MetricsOfExperiment
  <1> QED BY <1>1, MultiLoaderInvariance, PTL
=============================================================================
