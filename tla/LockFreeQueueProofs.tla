------------------------ MODULE LockFreeQueueProofs -------------------------
(***************************************************************************)
(* LockFreeQueue is a FIFO queue, for any number of calls in any            *)
(* interleaving and whatever the compiler does with the racy loads.         *)
(*                                                                          *)
(* ChainInv is not inductive by itself: whether a CompareAndSwap that       *)
(* succeeds keeps the list in shape depends on what the call has in its     *)
(* locals.  EnqueueLocals and DequeueLocals say what: places in the history *)
(* of links that the call has seen, and that tail has reached the place an  *)
(* Enqueue took for the end.                                                *)
(***************************************************************************)
EXTENDS LockFreeQueue, SequenceTheorems, FiniteSetTheorems, TLAPS

Place == 1 .. Len(order)

\* No element is linked twice, and what is not linked yet points nowhere.
OrderInv ==
  /\ Len(order) >= 1
  /\ order[1] = Sentinel
  /\ \A i, j \in Place : order[i] = order[j] => i = j
  /\ \A n \in Elements : (\A i \in Place : order[i] # n) => next[n] = NULL

Unlinked == {"eTail", "eNext", "eCheck", "eLink", "eHelp"}

\* Element n was seen at the end of the list: tail has got at least there.
TailAtOrBeyond(i) == \E t \in Place : t >= i /\ tail = order[t]

\* What call e has seen, while it has not linked its element and afterwards.
EnqueueView(e) ==
  /\ pc[e] \in Unlinked \cup {"eSwing", "eLength", "done"}
  /\ pc[e] \in Unlinked => \A i \in Place : order[i] # e
  /\ pc[e] \in {"eNext", "eCheck", "eLink", "eHelp"} =>
       \E i \in Place : last[e] = order[i] /\ TailAtOrBeyond(i)
  /\ pc[e] \in {"eCheck", "eLink", "eHelp"} /\ nxt[e] # NULL =>
       \E i \in Place : i < Len(order) /\ last[e] = order[i] /\ nxt[e] = order[i + 1]
  /\ pc[e] = "eHelp" => nxt[e] # NULL
  /\ pc[e] = "eSwing" =>
       \E i \in Place : i < Len(order) /\ last[e] = order[i] /\ e = order[i + 1]

EnqueueLocals == \A e \in Items : EnqueueView(e)

DequeueLocals ==
  \A d \in Dequeuers :
    /\ pc[d] \in {"dLoad", "dTail", "dHead", "dNext", "dTailLast", "dCheck", "dSwing", "dLength",
                 "done"}
    /\ pc[d] \in {"dTail", "dNext", "dTailLast", "dCheck", "dSwing"} =>
         \E i \in Place : first[d] = order[i]
    /\ pc[d] \in {"dTailLast", "dCheck", "dSwing"} /\ nxt[d] # NULL =>
         \E i \in Place : i < Len(order) /\ first[d] = order[i] /\ nxt[d] = order[i + 1]
    /\ pc[d] = "dSwing" => nxt[d] # NULL
    /\ pc[d] \notin {"dLength", "done"} => result[d] = NULL

IInv == TypeOK /\ ChainInv /\ OrderInv /\ EnqueueLocals /\ DequeueLocals

-----------------------------------------------------------------------------
\* Initially the list is the sentinel and nobody has seen anything.
LEMMA InitInv == Init => IInv
<1> SUFFICES ASSUME Init PROVE IInv
  OBVIOUS
<1> USE LFQAssumption DEF Init, Elements, Calls, Pointers, Place
<1>1. TypeOK
  BY DEF TypeOK
<1>2. Len(order) = 1 /\ order[1] = Sentinel
  OBVIOUS
<1>3. ChainInv
  BY <1>2 DEF ChainInv
<1>4. OrderInv
  BY <1>2 DEF OrderInv
<1>5. EnqueueLocals
  BY <1>2 DEF EnqueueLocals, EnqueueView, Unlinked
<1>6. DequeueLocals
  BY <1>2 DEF DequeueLocals
<1> QED
  BY <1>1, <1>3, <1>4, <1>5, <1>6 DEF IInv

\* Every step of every call keeps the invariant.
LEMMA StepInv == IInv /\ [Next]_vars => IInv'
<1> SUFFICES ASSUME IInv, [Next]_vars PROVE IInv'
  OBVIOUS
<1> USE LFQAssumption DEF Elements, Calls, Pointers, Place
<1> USE DEF IInv
<1>1. ASSUME NEW e \in Items, ELoadTail(e) PROVE IInv'
  <2>1. TypeOK'
    BY <1>1 DEF TypeOK, ELoadTail
  <2>2. ChainInv'
    BY <1>1 DEF TypeOK, ChainInv, OrderInv, ELoadTail
  <2>3. OrderInv'
    BY <1>1 DEF TypeOK, OrderInv, ELoadTail
  <2>4. EnqueueLocals'
    <3>1. PICK t \in Place : tail = order[t]
      BY DEF ChainInv, TypeOK
    <3>2. \E i \in Place' : last'[e] = (order[i])' /\ TailAtOrBeyond(i)'
      BY <1>1, <3>1 DEF ELoadTail, TypeOK, TailAtOrBeyond
    <3> QED
      BY <1>1, <3>2 DEF TypeOK, EnqueueLocals, EnqueueView, Unlinked, TailAtOrBeyond, ELoadTail
  <2>5. DequeueLocals'
    BY <1>1 DEF TypeOK, ChainInv, OrderInv, DequeueLocals, ELoadTail
  <2> QED
    BY <2>1, <2>2, <2>3, <2>4, <2>5
<1>2. ASSUME NEW e \in Items, ELoadNext(e) PROVE IInv'
  <2>0. PICK i \in Place : last[e] = order[i] /\ TailAtOrBeyond(i)
    BY <1>2 DEF ELoadNext, EnqueueLocals, EnqueueView
  <2>a. order[i] \in Elements /\ next[order[i]] \in Pointers
    BY DEF TypeOK
  <2>1. TypeOK'
    BY <1>2, <2>0, <2>a DEF TypeOK, ELoadNext
  <2>2. ChainInv'
    BY <1>2 DEF TypeOK, ChainInv, OrderInv, ELoadNext
  <2>3. OrderInv'
    BY <1>2 DEF TypeOK, OrderInv, ELoadNext
  <2>4. EnqueueLocals'
    <3>1. nxt'[e] # NULL => i < Len(order) /\ nxt'[e] = order[i + 1]
      BY <1>2, <2>0 DEF ELoadNext, ChainInv, TypeOK
    <3> QED
      BY <1>2, <2>0, <3>1, SMTT(30) DEF TypeOK, EnqueueLocals, EnqueueView, Unlinked, TailAtOrBeyond, ELoadNext
  <2>5. DequeueLocals'
    BY <1>2 DEF TypeOK, ChainInv, OrderInv, DequeueLocals, ELoadNext
  <2> QED
    BY <2>1, <2>2, <2>3, <2>4, <2>5
<1>3. ASSUME NEW e \in Items, ECheck(e) PROVE IInv'
  <2>1. TypeOK'
    BY <1>3 DEF TypeOK, ECheck
  <2>2. ChainInv'
    BY <1>3 DEF TypeOK, ChainInv, OrderInv, ECheck
  <2>3. OrderInv'
    BY <1>3 DEF TypeOK, OrderInv, ECheck
  <2>4. EnqueueLocals'
    BY <1>3, SMTT(30) DEF TypeOK, ChainInv, OrderInv, EnqueueLocals, EnqueueView, Unlinked, TailAtOrBeyond, ECheck
  <2>5. DequeueLocals'
    BY <1>3 DEF TypeOK, ChainInv, OrderInv, DequeueLocals, ECheck
  <2> QED
    BY <2>1, <2>2, <2>3, <2>4, <2>5
<1>4. ASSUME NEW e \in Items, ELink(e) PROVE IInv'
  <2>0. PICK i \in Place : last[e] = order[i] /\ TailAtOrBeyond(i)
    BY <1>4 DEF ELink, EnqueueLocals, EnqueueView
  <2>1. CASE ~LinkCAS(e)
    <3>1. TypeOK'
      BY <1>4, <2>1 DEF TypeOK, ELink
    <3>2. ChainInv' /\ OrderInv'
      BY <1>4, <2>1 DEF ELink, ChainInv, OrderInv
    <3>3. EnqueueLocals'
      BY <1>4, <2>1 DEF ELink, EnqueueLocals, EnqueueView, Unlinked, TypeOK, TailAtOrBeyond
    <3>4. DequeueLocals'
      BY <1>4, <2>1 DEF ELink, DequeueLocals, TypeOK
    <3> QED
      BY <3>1, <3>2, <3>3, <3>4
  <2>2. CASE LinkCAS(e)
    <3> DEFINE n == Len(order)
    \* The element whose next pointer is nil is the last one, and tail is there.
    <3>1. i = n /\ tail = order[n] /\ n \in Nat \ {0}
      <4>1. n \in Nat \ {0}
        BY DEF OrderInv, TypeOK
      <4>2. next[order[i]] = NULL
        BY <2>0, <2>2 DEF LinkCAS
      <4>3. i = n
        <5>1. i < n => next[order[i]] = order[i + 1] /\ order[i + 1] \in Elements
          BY <4>1 DEF ChainInv, TypeOK
        <5> QED
          BY <4>1, <4>2, <5>1
      <4>4. PICK t \in Place : t >= i /\ tail = order[t]
        BY <2>0 DEF TailAtOrBeyond
      <4> QED
        BY <4>1, <4>3, <4>4
    <3>2. \A k \in 1 .. n : order[k] # e
      BY <1>4 DEF ELink, EnqueueLocals, EnqueueView, Unlinked
    <3>3. /\ Len(order') = n + 1
          /\ order'[n + 1] = e
          /\ \A k \in 1 .. n : order'[k] = order[k]
          /\ order' \in Seq(Elements)
      <4>1. order' = Append(order, e) /\ e \in Elements
        BY <1>4, <2>2 DEF ELink
      <4>2. order \in Seq(Elements)
        BY DEF TypeOK
      <4> HIDE DEF Elements
      <4> QED
        BY <4>1, <4>2
    <3>4. next' = [next EXCEPT ![order[n]] = e] /\ order[n] \in Elements
      BY <1>4, <2>0, <2>2, <3>1 DEF ELink, TypeOK
    <3>5. /\ pc' = [pc EXCEPT ![e] = "eSwing"]
          /\ UNCHANGED <<head, tail, length, crashed, first, last, nxt, result, taken>>
          /\ pc[e] = "eLink"
      BY <1>4, <2>2 DEF ELink
    <3>6. TypeOK'
      BY <3>3, <3>4, <3>5 DEF TypeOK
    <3>7. ChainInv'
      <4>1. taken' < Len(order') /\ head' = order'[taken' + 1]
        BY <3>1, <3>3, <3>5 DEF ChainInv, TypeOK
      <4>2. \A k \in 1 .. Len(order') - 1 : next'[order'[k]] = order'[k + 1]
        <5> SUFFICES ASSUME NEW k \in 1 .. n PROVE next'[order'[k]] = order'[k + 1]
          BY <3>1, <3>3
        <5>1. order[k] \in Elements /\ order'[k] = order[k]
          BY <3>1, <3>3 DEF TypeOK
        <5>2. CASE k = n
          BY <3>1, <3>3, <3>4, <5>1, <5>2 DEF TypeOK
        <5>3. CASE k < n
          <6>1. next[order[k]] = order[k + 1] /\ order[k] # order[n]
            BY <3>1, <5>3 DEF ChainInv, OrderInv
          <6>2. next'[order[k]] = next[order[k]]
            BY <3>4, <5>1, <6>1 DEF TypeOK
          <6>3. order'[k + 1] = order[k + 1]
            BY <3>1, <3>3, <5>3
          <6> QED
            BY <5>1, <6>1, <6>2, <6>3
        <5> QED
          BY <3>1, <5>2, <5>3
      <4>3. next'[order'[Len(order')]] = NULL
        BY <3>1, <3>2, <3>3, <3>4 DEF OrderInv, TypeOK
      <4> QED
        BY <3>1, <3>3, <3>5, <4>1, <4>2, <4>3 DEF ChainInv
    <3>8. OrderInv'
      <4>1. \A m \in Elements : (\A k \in Place' : order'[k] # m) => next'[m] = NULL
        BY <3>1, <3>3, <3>4 DEF OrderInv, TypeOK
      <4>2. \A k, j \in Place' : order'[k] = order'[j] => k = j
        BY <3>1, <3>2, <3>3 DEF OrderInv
      <4> QED
        BY <3>1, <3>3, <4>1, <4>2 DEF OrderInv
    <3>9. EnqueueLocals'
      <4> SUFFICES ASSUME NEW x \in Items PROVE EnqueueView(x)'
        BY DEF EnqueueLocals
      <4>1. CASE x = e
        <5>1. pc'[e] = "eSwing" /\ last'[e] = order[n]
          BY <2>0, <3>1, <3>5 DEF TypeOK
        <5>2. n \in Place' /\ n < Len(order') /\ order'[n] = order[n] /\ order'[n + 1] = e
          BY <3>1, <3>3
        <5> QED
          BY <4>1, <5>1, <5>2 DEF EnqueueView, Unlinked
      <4>2. CASE x # e
        <5>0. EnqueueView(x)
          BY DEF EnqueueLocals
        <5>1. pc'[x] = pc[x] /\ last'[x] = last[x] /\ nxt'[x] = nxt[x] /\ tail' = tail
          BY <3>5, <4>2 DEF TypeOK
        <5>2. \A k \in Place : k \in Place' /\ order'[k] = order[k]
          BY <3>1, <3>3
        <5>3. \A k \in Place : k < Len(order) => k < Len(order') /\ order'[k + 1] = order[k + 1]
          BY <3>1, <3>3
        <5>4. ASSUME NEW k \in Place, TailAtOrBeyond(k)
              PROVE  TailAtOrBeyond(k)'
          BY <5>1, <5>2, <5>4 DEF TailAtOrBeyond
        <5>5. pc[x] \in Unlinked => \A k \in Place' : order'[k] # x
          BY <3>1, <3>3, <4>2, <5>0 DEF EnqueueView
        <5>6. pc[x] \in {"eNext", "eCheck", "eLink", "eHelp"} =>
                \E k \in Place' : last'[x] = order'[k] /\ TailAtOrBeyond(k)'
          BY <5>0, <5>1, <5>2, <5>4 DEF EnqueueView
        <5>7. pc[x] \in {"eCheck", "eLink", "eHelp"} /\ nxt[x] # NULL =>
                \E k \in Place' : k < Len(order') /\ last'[x] = order'[k] /\ nxt'[x] = order'[k + 1]
          BY <5>0, <5>1, <5>2, <5>3 DEF EnqueueView
        <5>8. pc[x] = "eSwing" =>
                \E k \in Place' : k < Len(order') /\ last'[x] = order'[k] /\ x = order'[k + 1]
          BY <5>0, <5>1, <5>2, <5>3 DEF EnqueueView
        <5> QED
          BY <5>0, <5>1, <5>5, <5>6, <5>7, <5>8 DEF EnqueueView
      <4> QED
        BY <4>1, <4>2
    <3>10. DequeueLocals'
      <4>1. \A x \in Dequeuers : pc'[x] = pc[x]
        BY <3>5 DEF TypeOK
      <4>2. \A k \in Place : k \in Place' /\ order'[k] = order[k]
        BY <3>1, <3>3
      <4>3. \A k \in Place : k < Len(order) => k < Len(order') /\ order'[k + 1] = order[k + 1]
        BY <3>1, <3>3
      <4> QED
        BY <3>5, <4>1, <4>2, <4>3 DEF DequeueLocals
    <3> QED
      BY <3>6, <3>7, <3>8, <3>9, <3>10
  <2> QED
    BY <2>1, <2>2
<1>5. ASSUME NEW e \in Items, ESwing(e) PROVE IInv'
  <2>0. PICK i \in Place : i < Len(order) /\ last[e] = order[i] /\ e = order[i + 1]
    BY <1>5 DEF ESwing, EnqueueLocals, EnqueueView
  <2>a. tail' = IF tail = order[i] THEN order[i + 1] ELSE tail
    BY <1>5, <2>0 DEF ESwing, SwingTail
  <2>b. i \in Nat /\ i + 1 \in Place /\ order[i + 1] \in Elements
    BY <2>0 DEF TypeOK
  <2>c. PICK t \in Place : t >= Len(order) - 1 /\ tail = order[t]
    BY DEF ChainInv, TypeOK
  \* tail moves forward or stays.
  <2>d. \E u \in Place : u >= t /\ tail' = order[u]
    BY <2>0, <2>a, <2>b, <2>c DEF OrderInv, TypeOK
  <2>1. TypeOK'
    BY <1>5, <2>a, <2>b DEF TypeOK, ESwing
  <2>2. ChainInv'
    BY <1>5, <2>c, <2>d DEF TypeOK, ChainInv, ESwing
  <2>3. OrderInv'
    BY <1>5 DEF TypeOK, OrderInv, ESwing
  <2>4. EnqueueLocals'
    <3>1. ASSUME NEW k \in Place, TailAtOrBeyond(k)
          PROVE  TailAtOrBeyond(k)'
      <4>1. PICK w \in Place : w >= k /\ tail = order[w]
        BY <3>1 DEF TailAtOrBeyond
      <4>2. w = t
        BY <2>c, <4>1 DEF OrderInv
      <4>3. PICK u \in Place : u >= t /\ tail' = order[u]
        BY <2>d
      <4>4. order' = order
        BY <1>5 DEF ESwing
      <4> QED
        BY <4>1, <4>2, <4>3, <4>4 DEF TailAtOrBeyond
    <3> QED
      BY <1>5, <3>1 DEF TypeOK, EnqueueLocals, EnqueueView, Unlinked, ESwing
  <2>5. DequeueLocals'
    BY <1>5 DEF TypeOK, DequeueLocals, ESwing
  <2> QED
    BY <2>1, <2>2, <2>3, <2>4, <2>5
<1>6. ASSUME NEW e \in Items, EHelp(e) PROVE IInv'
  <2>0. PICK i \in Place : i < Len(order) /\ last[e] = order[i] /\ nxt[e] = order[i + 1]
    BY <1>6 DEF EHelp, EnqueueLocals, EnqueueView
  <2>a. tail' = IF tail = order[i] THEN order[i + 1] ELSE tail
    BY <1>6, <2>0 DEF EHelp, SwingTail
  <2>b. i \in Nat /\ i + 1 \in Place /\ order[i + 1] \in Elements
    BY <2>0 DEF TypeOK
  <2>c. PICK t \in Place : t >= Len(order) - 1 /\ tail = order[t]
    BY DEF ChainInv, TypeOK
  \* tail moves forward or stays.
  <2>d. \E u \in Place : u >= t /\ tail' = order[u]
    BY <2>0, <2>a, <2>b, <2>c DEF OrderInv, TypeOK
  <2>1. TypeOK'
    BY <1>6, <2>a, <2>b DEF TypeOK, EHelp
  <2>2. ChainInv'
    BY <1>6, <2>c, <2>d DEF TypeOK, ChainInv, EHelp
  <2>3. OrderInv'
    BY <1>6 DEF TypeOK, OrderInv, EHelp
  <2>4. EnqueueLocals'
    <3>1. ASSUME NEW k \in Place, TailAtOrBeyond(k)
          PROVE  TailAtOrBeyond(k)'
      <4>1. PICK w \in Place : w >= k /\ tail = order[w]
        BY <3>1 DEF TailAtOrBeyond
      <4>2. w = t
        BY <2>c, <4>1 DEF OrderInv
      <4>3. PICK u \in Place : u >= t /\ tail' = order[u]
        BY <2>d
      <4>4. order' = order
        BY <1>6 DEF EHelp
      <4> QED
        BY <4>1, <4>2, <4>3, <4>4 DEF TailAtOrBeyond
    <3> QED
      BY <1>6, <3>1 DEF TypeOK, EnqueueLocals, EnqueueView, Unlinked, EHelp
  <2>5. DequeueLocals'
    BY <1>6 DEF TypeOK, DequeueLocals, EHelp
  <2> QED
    BY <2>1, <2>2, <2>3, <2>4, <2>5
<1>7. ASSUME NEW e \in Items, ELength(e) PROVE IInv'
  <2>1. TypeOK'
    BY <1>7 DEF TypeOK, ELength
  <2>2. ChainInv'
    BY <1>7 DEF TypeOK, ChainInv, OrderInv, ELength
  <2>3. OrderInv'
    BY <1>7 DEF TypeOK, OrderInv, ELength
  <2>4. EnqueueLocals'
    BY <1>7 DEF TypeOK, ChainInv, OrderInv, EnqueueLocals, EnqueueView, Unlinked, TailAtOrBeyond, ELength
  <2>5. DequeueLocals'
    BY <1>7 DEF TypeOK, ChainInv, OrderInv, DequeueLocals, ELength
  <2> QED
    BY <2>1, <2>2, <2>3, <2>4, <2>5
<1>8. ASSUME NEW d \in Dequeuers, DLoadHeadFirst(d) PROVE IInv'
  <2>1. TypeOK'
    BY <1>8 DEF TypeOK, DLoadHeadFirst
  <2>2. ChainInv'
    BY <1>8 DEF TypeOK, ChainInv, OrderInv, DLoadHeadFirst
  <2>3. OrderInv'
    BY <1>8 DEF TypeOK, OrderInv, DLoadHeadFirst
  <2>4. EnqueueLocals'
    BY <1>8 DEF TypeOK, ChainInv, OrderInv, EnqueueLocals, EnqueueView, Unlinked, TailAtOrBeyond, DLoadHeadFirst
  <2>5. DequeueLocals'
    BY <1>8 DEF TypeOK, ChainInv, OrderInv, DequeueLocals, DLoadHeadFirst
  <2> QED
    BY <2>1, <2>2, <2>3, <2>4, <2>5
<1>9. ASSUME NEW d \in Dequeuers, DLoadTailSecond(d) PROVE IInv'
  <2>1. TypeOK'
    BY <1>9 DEF TypeOK, DLoadTailSecond
  <2>2. ChainInv'
    BY <1>9 DEF TypeOK, ChainInv, OrderInv, DLoadTailSecond
  <2>3. OrderInv'
    BY <1>9 DEF TypeOK, OrderInv, DLoadTailSecond
  <2>4. EnqueueLocals'
    BY <1>9 DEF TypeOK, EnqueueLocals, EnqueueView, Unlinked, TailAtOrBeyond, DLoadTailSecond
  <2>5. DequeueLocals'
    BY <1>9 DEF TypeOK, ChainInv, OrderInv, DequeueLocals, DLoadTailSecond
  <2> QED
    BY <2>1, <2>2, <2>3, <2>4, <2>5
<1>10. ASSUME NEW d \in Dequeuers, DLoadTailFirst(d) PROVE IInv'
  <2>1. TypeOK'
    BY <1>10 DEF TypeOK, DLoadTailFirst
  <2>2. ChainInv'
    BY <1>10 DEF TypeOK, ChainInv, OrderInv, DLoadTailFirst
  <2>3. OrderInv'
    BY <1>10 DEF TypeOK, OrderInv, DLoadTailFirst
  <2>4. EnqueueLocals'
    BY <1>10 DEF TypeOK, ChainInv, OrderInv, EnqueueLocals, EnqueueView, Unlinked, TailAtOrBeyond, DLoadTailFirst
  <2>5. DequeueLocals'
    BY <1>10 DEF TypeOK, ChainInv, OrderInv, DequeueLocals, DLoadTailFirst
  <2> QED
    BY <2>1, <2>2, <2>3, <2>4, <2>5
<1>11. ASSUME NEW d \in Dequeuers, DLoadHeadSecond(d) PROVE IInv'
  <2>1. TypeOK'
    BY <1>11 DEF TypeOK, DLoadHeadSecond
  <2>2. ChainInv'
    BY <1>11 DEF TypeOK, ChainInv, OrderInv, DLoadHeadSecond
  <2>3. OrderInv'
    BY <1>11 DEF TypeOK, OrderInv, DLoadHeadSecond
  <2>4. EnqueueLocals'
    BY <1>11 DEF TypeOK, ChainInv, OrderInv, EnqueueLocals, EnqueueView, Unlinked, TailAtOrBeyond, DLoadHeadSecond
  <2>5. DequeueLocals'
    BY <1>11 DEF TypeOK, ChainInv, OrderInv, DequeueLocals, DLoadHeadSecond
  <2> QED
    BY <2>1, <2>2, <2>3, <2>4, <2>5
<1>12. ASSUME NEW d \in Dequeuers, DLoadNext(d) PROVE IInv'
  <2>0. PICK i \in Place : first[d] = order[i]
    BY <1>12 DEF DLoadNext, DequeueLocals
  <2>a. order[i] \in Elements /\ next[order[i]] \in Pointers
    BY DEF TypeOK
  <2>1. TypeOK'
    BY <1>12, <2>0, <2>a DEF TypeOK, DLoadNext
  <2>2. ChainInv'
    BY <1>12 DEF TypeOK, ChainInv, DLoadNext
  <2>3. OrderInv'
    BY <1>12 DEF TypeOK, OrderInv, DLoadNext
  <2>4. EnqueueLocals'
    BY <1>12 DEF TypeOK, EnqueueLocals, EnqueueView, Unlinked, TailAtOrBeyond, DLoadNext
  <2>5. DequeueLocals'
    <3>1. nxt'[d] # NULL => i < Len(order) /\ nxt'[d] = order[i + 1]
      BY <1>12, <2>0 DEF DLoadNext, ChainInv, TypeOK
    <3> QED
      BY <1>12, <2>0, <3>1 DEF TypeOK, DequeueLocals, DLoadNext
  <2> QED
    BY <2>1, <2>2, <2>3, <2>4, <2>5
<1>13. ASSUME NEW d \in Dequeuers, DCheck(d) PROVE IInv'
  <2>1. TypeOK'
    BY <1>13 DEF TypeOK, DCheck
  <2>2. ChainInv'
    BY <1>13 DEF TypeOK, ChainInv, OrderInv, DCheck
  <2>3. OrderInv'
    BY <1>13 DEF TypeOK, OrderInv, DCheck
  <2>4. EnqueueLocals'
    BY <1>13 DEF TypeOK, ChainInv, OrderInv, EnqueueLocals, EnqueueView, Unlinked, TailAtOrBeyond, DCheck
  <2>5. DequeueLocals'
    BY <1>13 DEF TypeOK, DequeueLocals, SeesEmpty, DCheck
  <2> QED
    BY <2>1, <2>2, <2>3, <2>4, <2>5
<1>14. ASSUME NEW d \in Dequeuers, DSwing(d) PROVE IInv'
  <2>0. PICK i \in Place : i < Len(order) /\ first[d] = order[i] /\ nxt[d] = order[i + 1]
    BY <1>14 DEF DSwing, DequeueLocals
  <2>a. i \in Nat /\ i + 1 \in Place /\ order[i + 1] \in Elements
    BY <2>0 DEF TypeOK
  <2>b. HeadCAS(d) => i = taken + 1
    <3>1. taken + 1 \in Place /\ head = order[taken + 1]
      BY DEF ChainInv, TypeOK
    <3> QED
      BY <2>0, <3>1 DEF HeadCAS, OrderInv
  <2>1. TypeOK'
    BY <1>14, <2>0, <2>a DEF TypeOK, DSwing
  <2>2. ChainInv'
    BY <1>14, <2>0, <2>a, <2>b DEF TypeOK, ChainInv, DSwing
  <2>3. OrderInv'
    BY <1>14 DEF TypeOK, OrderInv, DSwing
  <2>4. EnqueueLocals'
    BY <1>14 DEF TypeOK, EnqueueLocals, EnqueueView, Unlinked, TailAtOrBeyond, DSwing
  <2>5. DequeueLocals'
    BY <1>14 DEF TypeOK, DequeueLocals, DSwing
  <2> QED
    BY <2>1, <2>2, <2>3, <2>4, <2>5
<1>15. ASSUME NEW d \in Dequeuers, DLength(d) PROVE IInv'
  <2>1. TypeOK'
    BY <1>15 DEF TypeOK, DLength
  <2>2. ChainInv'
    BY <1>15 DEF TypeOK, ChainInv, OrderInv, DLength
  <2>3. OrderInv'
    BY <1>15 DEF TypeOK, OrderInv, DLength
  <2>4. EnqueueLocals'
    BY <1>15 DEF TypeOK, ChainInv, OrderInv, EnqueueLocals, EnqueueView, Unlinked, TailAtOrBeyond, DLength
  <2>5. DequeueLocals'
    BY <1>15 DEF TypeOK, ChainInv, OrderInv, DequeueLocals, DLength
  <2> QED
    BY <2>1, <2>2, <2>3, <2>4, <2>5
<1>16. ASSUME NEW d \in Dequeuers, DLoadNextSecond(d) PROVE IInv'
  <2>0. PICK i \in Place : first[d] = order[i]
    BY <1>16 DEF DLoadNextSecond, DequeueLocals
  <2>a. order[i] \in Elements /\ next[order[i]] \in Pointers
    BY DEF TypeOK
  <2>1. TypeOK'
    BY <1>16, <2>0, <2>a DEF TypeOK, DLoadNextSecond
  <2>2. ChainInv'
    BY <1>16 DEF TypeOK, ChainInv, DLoadNextSecond
  <2>3. OrderInv'
    BY <1>16 DEF TypeOK, OrderInv, DLoadNextSecond
  <2>4. EnqueueLocals'
    BY <1>16 DEF TypeOK, EnqueueLocals, EnqueueView, Unlinked, TailAtOrBeyond, DLoadNextSecond
  <2>5. DequeueLocals'
    <3>1. nxt'[d] # NULL => i < Len(order) /\ nxt'[d] = order[i + 1]
      BY <1>16, <2>0 DEF DLoadNextSecond, ChainInv, TypeOK
    <3> QED
      BY <1>16, <2>0, <3>1 DEF TypeOK, DequeueLocals, DLoadNextSecond
  <2> QED
    BY <2>1, <2>2, <2>3, <2>4, <2>5
<1>17. ASSUME NEW d \in Dequeuers, DLoadTailLast(d) PROVE IInv'
  <2>1. TypeOK'
    BY <1>17 DEF TypeOK, DLoadTailLast
  <2>2. ChainInv'
    BY <1>17 DEF TypeOK, ChainInv, OrderInv, DLoadTailLast
  <2>3. OrderInv'
    BY <1>17 DEF TypeOK, OrderInv, DLoadTailLast
  <2>4. EnqueueLocals'
    BY <1>17 DEF TypeOK, EnqueueLocals, EnqueueView, Unlinked, TailAtOrBeyond, DLoadTailLast
  <2>5. DequeueLocals'
    BY <1>17 DEF TypeOK, ChainInv, OrderInv, DequeueLocals, DLoadTailLast
  <2> QED
    BY <2>1, <2>2, <2>3, <2>4, <2>5
<1>18. CASE UNCHANGED vars
  BY <1>18 DEF vars, TypeOK, ChainInv, OrderInv, EnqueueLocals, EnqueueView, DequeueLocals, TailAtOrBeyond
<1> QED
  BY <1>1, <1>2, <1>3, <1>4, <1>5, <1>6, <1>7, <1>8, <1>9, <1>10, <1>11, <1>12, <1>13, <1>14,
     <1>15, <1>16,
     <1>17, <1>18 DEF Next, EnqueueStep, DequeueStep

-----------------------------------------------------------------------------
\* The whole invariant holds in every reachable state.
LEMMA Invariance == Spec => []IInv
  BY InitInv, StepInv, PTL DEF Spec

\* Type correctness; in particular no call ever loads through the nil pointer
\* except in the one place where Dequeue does so, which crashed records.
THEOREM TypeCorrect == Spec => []TypeOK
<1>1. IInv => TypeOK
  BY DEF IInv
<1> QED
  BY <1>1, Invariance, PTL

\* The list always is the sequence of linked elements, head and tail point into
\* it, and tail never is more than one element behind.
THEOREM ChainCorrect == Spec => []ChainInv
<1>1. IInv => ChainInv
  BY DEF IInv
<1> QED
  BY <1>1, Invariance, PTL

-----------------------------------------------------------------------------
(***************************************************************************)
(* Linearizability.  An Enqueue takes effect when it links its element, a   *)
(* Dequeue when it moves head; every other step leaves the abstract queue   *)
(* alone.                                                                   *)
(***************************************************************************)
Content == SubSeq(order, taken + 2, Len(order))
Entered == {order[i] : i \in 2 .. Len(order)}

\* What is appended to a sequence is appended to its suffixes.
LEMMA AppendToSuffix ==
  ASSUME NEW S, NEW s \in Seq(S), NEW x \in S, NEW m \in 1 .. Len(s) + 1
  PROVE  SubSeq(Append(s, x), m, Len(s) + 1) = Append(SubSeq(s, m, Len(s)), x)
<1> DEFINE a == SubSeq(Append(s, x), m, Len(s) + 1)
           p == SubSeq(s, m, Len(s))
<1>1. /\ Append(s, x) \in Seq(S) /\ Len(Append(s, x)) = Len(s) + 1
      /\ \A i \in 1 .. Len(s) : Append(s, x)[i] = s[i]
      /\ Append(s, x)[Len(s) + 1] = x
  BY AppendProperties
<1>2. Len(s) \in Nat /\ m \in Nat \ {0} /\ m <= Len(s) + 1
  OBVIOUS
<1>3. /\ a \in Seq(S) /\ Len(a) = Len(s) + 2 - m
      /\ \A i \in 1 .. Len(s) + 2 - m : a[i] = Append(s, x)[m + i - 1]
  <2>1. \A i \in m .. Len(s) + 1 : Append(s, x)[i] \in S
    BY <1>1, <1>2
  <2> QED
    BY <1>2, <2>1, SubSeqProperties, SMTT(30)
<1>4. /\ p \in Seq(S) /\ Len(p) = Len(s) + 1 - m
      /\ \A i \in 1 .. Len(s) + 1 - m : p[i] = s[m + i - 1]
  <2>1. \A i \in m .. Len(s) : s[i] \in S
    BY <1>2
  <2> QED
    BY <1>2, <2>1, SubSeqProperties
<1>5. /\ Append(p, x) \in Seq(S) /\ Len(Append(p, x)) = Len(p) + 1
      /\ \A i \in 1 .. Len(p) : Append(p, x)[i] = p[i]
      /\ Append(p, x)[Len(p) + 1] = x
  BY <1>4, AppendProperties
<1> HIDE DEF a, p
<1>6. Len(a) = Len(Append(p, x))
  BY <1>2, <1>3, <1>4, <1>5
<1>7. ASSUME NEW i \in 1 .. Len(a) PROVE a[i] = Append(p, x)[i]
  <2>1. CASE i = Len(s) + 2 - m
    <3>1. m + i - 1 = Len(s) + 1 /\ i = Len(p) + 1 /\ i \in 1 .. Len(s) + 2 - m
      BY <1>2, <1>4, <2>1
    <3>2. a[i] = Append(s, x)[m + i - 1]
      BY <1>3, <3>1
    <3> QED
      BY <1>1, <1>5, <3>1, <3>2
  <2>2. CASE i # Len(s) + 2 - m
    <3>1. i \in 1 .. Len(s) + 1 - m /\ m + i - 1 \in 1 .. Len(s)
      BY <1>2, <1>3, <2>2
    <3> QED
      BY <1>1, <1>2, <1>3, <1>4, <1>5, <3>1
  <2> QED
    BY <2>1, <2>2
<1>8. a = Append(p, x)
  BY <1>3, <1>5, <1>6, <1>7, SeqEqual
<1> QED
  BY <1>8 DEF a, p

LEMMA InitRefines == Init => Fifo!Init
<1> SUFFICES ASSUME Init PROVE Fifo!Init
  OBVIOUS
<1>1. Len(order) = 1 /\ taken = 0 /\ order \in Seq({Sentinel})
  BY DEF Init
<1>2. Content = <<>>
  BY <1>1 DEF Content
<1>3. Entered = {}
  BY <1>1 DEF Entered
<1> QED
  BY <1>2, <1>3 DEF Init, Fifo!Init, Content, Entered

\* Linking the element e is the abstract Enqueue(e).
LEMMA LinkRefines ==
  ASSUME IInv, NEW e \in Items, ELink(e), LinkCAS(e)
  PROVE  Fifo!Enqueue(e)
<1> DEFINE n == Len(order)
<1>1. n \in Nat /\ taken \in Nat /\ taken < n /\ order \in Seq(Elements)
  BY DEF IInv, TypeOK, ChainInv
<1>2. order' = Append(order, e) /\ e \in Elements /\ taken' = taken /\ result' = result
  BY DEF ELink, Elements
<1>3. \A k \in 1 .. n : order[k] # e
  BY DEF ELink, IInv, EnqueueLocals, EnqueueView, Unlinked, Place
<1>4. /\ Len(order') = n + 1
      /\ order'[n + 1] = e
      /\ \A k \in 1 .. n : order'[k] = order[k]
  BY <1>1, <1>2
<1>5. e \notin Entered
  BY <1>1, <1>3 DEF Entered
<1>6. Entered' = Entered \cup {e}
  BY <1>1, <1>4 DEF Entered
<1>7. Content' = Append(Content, e)
  <2>1. taken + 2 \in 1 .. n + 1
    BY <1>1
  <2>2. SubSeq(Append(order, e), taken + 2, n + 1) = Append(SubSeq(order, taken + 2, n), e)
    BY <1>1, <1>2, <2>1, AppendToSuffix
  <2> QED
    BY <1>2, <1>4, <2>2 DEF Content
<1> QED
  BY <1>2, <1>5, <1>6, <1>7 DEF Fifo!Enqueue, Content, Entered

\* Moving head to the next element is the abstract Dequeue.
LEMMA HeadRefines ==
  ASSUME IInv, NEW d \in Dequeuers, DSwing(d), HeadCAS(d)
  PROVE  Fifo!Dequeue(d)
<1> DEFINE n == Len(order)
<1>1. n \in Nat /\ taken \in Nat /\ taken < n /\ order \in Seq(Elements)
  BY DEF IInv, TypeOK, ChainInv
<1>2. PICK i \in 1 .. n : i < n /\ first[d] = order[i] /\ nxt[d] = order[i + 1]
  BY DEF DSwing, IInv, DequeueLocals, Place
<1>3. i = taken + 1
  <2>1. taken + 1 \in Place /\ head = order[taken + 1]
    BY <1>1 DEF IInv, ChainInv, Place
  <2> QED
    BY <1>2, <2>1 DEF HeadCAS, IInv, OrderInv, Place
<1>4. /\ taken' = taken + 1
      /\ order' = order
      /\ result' = [result EXCEPT ![d] = order[taken + 2]]
      /\ result[d] = NULL
  BY <1>1, <1>2, <1>3 DEF DSwing, IInv, DequeueLocals
<1>5. Content # <<>>
  <2>1. taken + 2 \in Int /\ taken + 2 <= n /\ \A j \in taken + 2 .. n : order[j] \in Elements
    BY <1>1, <1>2, <1>3
  <2>2. Len(Content) = n - (taken + 2) + 1
    BY <1>1, <2>1, SubSeqProperties DEF Content
  <2> QED
    BY <1>1, <2>1, <2>2
<1>6. Head(Content) = order[taken + 2] /\ Content' = Tail(Content)
  <2>1. taken + 2 \in 1 .. n /\ n \in taken + 2 .. n
    BY <1>1, <1>2, <1>3
  <2> QED
    BY <1>1, <1>4, <2>1, HeadTailOfSubSeq, SMTT(30) DEF Content
<1>7. Entered' = Entered
  BY <1>4 DEF Entered
<1> QED
  BY <1>4, <1>5, <1>6, <1>7 DEF Fifo!Dequeue, Content, Entered

LEMMA StepRefines == IInv /\ [Next]_vars => [Fifo!Next]_(Fifo!vars)
<1> SUFFICES ASSUME IInv, [Next]_vars PROVE [Fifo!Next]_(Fifo!vars)
  OBVIOUS
<1>1. ASSUME UNCHANGED <<order, taken, result>> PROVE UNCHANGED Fifo!vars
  BY <1>1 DEF Fifo!vars
<1>2. ASSUME NEW e \in Items, EnqueueStep(e) PROVE [Fifo!Next]_(Fifo!vars)
  <2>1. CASE ELink(e) /\ LinkCAS(e)
    BY <2>1, LinkRefines DEF Fifo!Next
  <2>2. CASE ~(ELink(e) /\ LinkCAS(e))
    <3>1. UNCHANGED <<order, taken, result>>
      BY <1>2, <2>2 DEF EnqueueStep, ELoadTail, ELoadNext, ECheck, ELink, ESwing, EHelp, ELength
    <3> QED
      BY <1>1, <3>1
  <2> QED
    BY <2>1, <2>2
<1>3. ASSUME NEW d \in Dequeuers, DequeueStep(d) PROVE [Fifo!Next]_(Fifo!vars)
  <2>1. CASE DSwing(d) /\ HeadCAS(d)
    BY <2>1, HeadRefines DEF Fifo!Next
  <2>2. CASE ~(DSwing(d) /\ HeadCAS(d))
    <3>1. UNCHANGED <<order, taken, result>>
      BY <1>3, <2>2 DEF DequeueStep, DLoadHeadFirst, DLoadTailSecond, DLoadTailFirst,
                        DLoadHeadSecond, DLoadNext, DLoadNextSecond, DLoadTailLast, DCheck,
                        DSwing, DLength
    <3> QED
      BY <1>1, <3>1
  <2> QED
    BY <2>1, <2>2
<1>4. CASE UNCHANGED vars
  BY <1>1, <1>4 DEF vars
<1> QED
  BY <1>2, <1>3, <1>4 DEF Next

\* The lock-free queue implements the FIFO queue.
THEOREM Linearizable == Spec => RefinesFifo
  BY Invariance, InitRefines, StepRefines, PTL DEF Spec, RefinesFifo, Fifo!Spec

-----------------------------------------------------------------------------
(***************************************************************************)
(* What writeAsyncRecordsToLog relies on when it empties the queue: Length  *)
(* is exact while no call is under way, and as many Dequeue calls as there  *)
(* are items, made after the last Enqueue has returned, all get one.        *)
(*                                                                          *)
(* Both come from counting: the elements linked, the elements taken and the *)
(* value of length are the numbers of calls that have got to certain lines. *)
(***************************************************************************)

Linked    == {e \in Items : pc[e] \notin Unlinked}
Enqueued  == {e \in Items : pc[e] = "done"}
Takers    == {d \in Dequeuers : pc[d] \in {"dLength", "done"}}
Dequeued  == {d \in Dequeuers : pc[d] = "done"}

CountInv ==
  /\ Len(order) = 1 + Cardinality(Linked)
  /\ taken = Cardinality(Takers)
  /\ length = Cardinality(Enqueued) - Cardinality(Dequeued)

Finite == IsFiniteSet(Items) /\ IsFiniteSet(Dequeuers)

LEMMA CountsFinite ==
  ASSUME Finite
  PROVE  /\ IsFiniteSet(Linked) /\ IsFiniteSet(Enqueued)
         /\ IsFiniteSet(Takers) /\ IsFiniteSet(Dequeued)
         /\ Cardinality(Linked) \in Nat /\ Cardinality(Enqueued) \in Nat
         /\ Cardinality(Takers) \in Nat /\ Cardinality(Dequeued) \in Nat
<1>1. /\ Linked \subseteq Items /\ Enqueued \subseteq Items
      /\ Takers \subseteq Dequeuers /\ Dequeued \subseteq Dequeuers
  BY DEF Linked, Enqueued, Takers, Dequeued
<1>2. /\ IsFiniteSet(Linked) /\ IsFiniteSet(Enqueued)
      /\ IsFiniteSet(Takers) /\ IsFiniteSet(Dequeued)
  BY <1>1, FS_Subset DEF Finite
<1> QED
  BY <1>2, FS_CardinalityType

LEMMA CountInit == ASSUME Init PROVE CountInv
<1> USE DEF Init
<1>1. Linked = {} /\ Enqueued = {} /\ Takers = {} /\ Dequeued = {}
  BY LFQAssumption DEF Linked, Enqueued, Takers, Dequeued, Unlinked, Calls
<1>2. Len(order) = 1 /\ taken = 0 /\ length = 0
  OBVIOUS
<1> QED
  BY <1>1, <1>2, FS_EmptySet DEF CountInv

LEMMA CountStep == ASSUME Finite, IInv, CountInv, [Next]_vars PROVE CountInv'
<1>0. /\ IsFiniteSet(Linked) /\ IsFiniteSet(Enqueued)
      /\ IsFiniteSet(Takers) /\ IsFiniteSet(Dequeued)
      /\ Cardinality(Linked) \in Nat /\ Cardinality(Enqueued) \in Nat
      /\ Cardinality(Takers) \in Nat /\ Cardinality(Dequeued) \in Nat
  BY CountsFinite
<1>1. DOMAIN pc = Calls /\ Len(order) \in Nat
  BY DEF IInv, TypeOK
<1> USE LFQAssumption DEF Linked, Enqueued, Takers, Dequeued, Calls
\* Steps that move no call into or out of one of the four sets.
<1>2. ASSUME UNCHANGED <<order, taken, length, Linked, Enqueued, Takers, Dequeued>>
      PROVE  CountInv'
  BY <1>2 DEF CountInv
<1>3. ASSUME NEW e \in Items, EnqueueStep(e) PROVE CountInv'
  <2>1. \A c \in Calls : c # e => pc'[c] = pc[c]
    BY <1>1, <1>3 DEF EnqueueStep, ELoadTail, ELoadNext, ECheck, ELink, ESwing, EHelp, ELength
  <2>2. UNCHANGED <<Takers, Dequeued>>
    BY <2>1
  <2>3. CASE ELink(e) /\ LinkCAS(e)
    <3>1. pc[e] = "eLink" /\ pc'[e] = "eSwing"
      BY <1>1, <2>3 DEF ELink
    <3>2. e \notin Linked /\ Linked' = Linked \cup {e}
      BY <2>1, <3>1 DEF Unlinked
    <3>3. Enqueued' = Enqueued
      BY <2>1, <3>1
    <3>4. Len(order') = Len(order) + 1
      BY <2>3 DEF ELink, IInv, TypeOK
    <3>5. UNCHANGED <<taken, length>>
      BY <2>3 DEF ELink
    <3> HIDE DEF Linked, Enqueued, Takers, Dequeued
    <3>6. Cardinality(Linked') = Cardinality(Linked) + 1
      BY <1>0, <3>2, FS_AddElement
    <3> QED
      BY <1>0, <1>1, <2>2, <3>3, <3>4, <3>5, <3>6 DEF CountInv
  <2>4. CASE ELength(e)
    <3>1. pc[e] = "eLength" /\ pc'[e] = "done"
      BY <1>1, <2>4 DEF ELength
    <3>2. e \notin Enqueued /\ Enqueued' = Enqueued \cup {e}
      BY <2>1, <3>1
    <3>3. Linked' = Linked
      BY <2>1, <3>1 DEF Unlinked
    <3>4. length' = length + 1 /\ UNCHANGED <<order, taken>>
      BY <2>4 DEF ELength
    <3> HIDE DEF Linked, Enqueued, Takers, Dequeued
    <3>5. Cardinality(Enqueued') = Cardinality(Enqueued) + 1
      BY <1>0, <3>2, FS_AddElement
    <3> QED
      BY <1>0, <2>2, <3>3, <3>4, <3>5 DEF CountInv
  <2>5. CASE ~(ELink(e) /\ LinkCAS(e)) /\ ~ELength(e)
    <3>1. /\ pc[e] \in Unlinked <=> pc'[e] \in Unlinked
          /\ pc[e] # "done" /\ pc'[e] # "done"
      BY <1>1, <1>3, <2>5 DEF EnqueueStep, ELoadTail, ELoadNext, ECheck, ELink, ESwing, EHelp,
                              Unlinked
    <3>2. UNCHANGED <<Linked, Enqueued>>
      BY <2>1, <3>1
    <3>3. UNCHANGED <<order, taken, length>>
      BY <1>3, <2>5 DEF EnqueueStep, ELoadTail, ELoadNext, ECheck, ELink, ESwing, EHelp
    <3> QED
      BY <1>2, <2>2, <3>2, <3>3
  <2> QED
    BY <2>3, <2>4, <2>5
<1>4. ASSUME NEW d \in Dequeuers, DequeueStep(d) PROVE CountInv'
  <2>1. \A c \in Calls : c # d => pc'[c] = pc[c]
    BY <1>1, <1>4 DEF DequeueStep, DLoadHeadFirst, DLoadTailSecond, DLoadTailFirst,
                      DLoadHeadSecond, DLoadNext, DLoadNextSecond, DLoadTailLast, DCheck,
                      DSwing, DLength
  <2>2. UNCHANGED <<Linked, Enqueued>>
    BY <2>1
  <2>3. CASE DSwing(d) /\ HeadCAS(d)
    <3>1. pc[d] = "dSwing" /\ pc'[d] = "dLength"
      BY <1>1, <2>3 DEF DSwing
    <3>2. d \notin Takers /\ Takers' = Takers \cup {d}
      BY <2>1, <3>1
    <3>3. Dequeued' = Dequeued
      BY <2>1, <3>1
    <3>4. taken' = taken + 1 /\ UNCHANGED <<order, length>>
      BY <2>3 DEF DSwing
    <3> HIDE DEF Linked, Enqueued, Takers, Dequeued
    <3>5. Cardinality(Takers') = Cardinality(Takers) + 1
      BY <1>0, <3>2, FS_AddElement
    <3> QED
      BY <1>0, <2>2, <3>3, <3>4, <3>5 DEF CountInv
  <2>4. CASE DLength(d)
    <3>1. pc[d] = "dLength" /\ pc'[d] = "done"
      BY <1>1, <2>4 DEF DLength
    <3>2. d \notin Dequeued /\ Dequeued' = Dequeued \cup {d}
      BY <2>1, <3>1
    <3>3. Takers' = Takers
      BY <2>1, <3>1
    <3>4. length' = length - 1 /\ UNCHANGED <<order, taken>>
      BY <2>4 DEF DLength
    <3> HIDE DEF Linked, Enqueued, Takers, Dequeued
    <3>5. Cardinality(Dequeued') = Cardinality(Dequeued) + 1
      BY <1>0, <3>2, FS_AddElement
    <3> QED
      BY <1>0, <2>2, <3>3, <3>4, <3>5 DEF CountInv
  <2>5. CASE ~(DSwing(d) /\ HeadCAS(d)) /\ ~DLength(d)
    <3>1. {pc[d], pc'[d]} \cap {"dLength", "done"} = {}
      BY <1>1, <1>4, <2>5 DEF DequeueStep, DLoadHeadFirst, DLoadTailSecond, DLoadTailFirst,
                        DLoadHeadSecond, DLoadNext, DLoadNextSecond, DLoadTailLast, DCheck, DSwing
    <3>2. UNCHANGED <<Takers, Dequeued>>
      BY <2>1, <3>1
    <3>3. UNCHANGED <<order, taken, length>>
      BY <1>4, <2>5 DEF DequeueStep, DLoadHeadFirst, DLoadTailSecond, DLoadTailFirst,
                        DLoadHeadSecond, DLoadNext, DLoadNextSecond, DLoadTailLast, DCheck, DSwing
    <3> QED
      BY <1>2, <2>2, <3>2, <3>3
  <2> QED
    BY <2>3, <2>4, <2>5
<1>5. CASE UNCHANGED vars
  BY <1>2, <1>5 DEF vars
<1> QED
  BY <1>3, <1>4, <1>5 DEF Next

-----------------------------------------------------------------------------
LEMMA Counting == ASSUME Finite PROVE Spec => [](IInv /\ CountInv)
<1>1. Init => IInv /\ CountInv
  BY InitInv, CountInit
<1>2. IInv /\ CountInv /\ [Next]_vars => (IInv /\ CountInv)'
  BY StepInv, CountStep
<1> QED
  BY <1>1, <1>2, PTL DEF Spec

\* Whenever no call is under way, Length() is the number of items in the queue,
\* whatever calls there have been: what writeAsyncRecordsToLog takes it for.
THEOREM LengthIsExact == ASSUME Finite PROVE Spec => []LengthExact
<1>1. IInv /\ CountInv => LengthExact
  <2> SUFFICES ASSUME IInv, CountInv, Quiescent PROVE length = Len(order) - 1 - taken
    BY DEF LengthExact
  <2>1. \A e \in Items : pc[e] \in {"eTail", "done"}
    BY DEF Quiescent, Calls, IInv, EnqueueLocals, EnqueueView, Unlinked
  <2>2. \A d \in Dequeuers : pc[d] \in {"dLoad", "done"}
    BY DEF Quiescent, Calls, IInv, DequeueLocals
  <2>3. Linked = Enqueued /\ Takers = Dequeued
    BY <2>1, <2>2 DEF Linked, Enqueued, Takers, Dequeued, Unlinked
  <2> QED
    BY <2>3, CountsFinite DEF CountInv
<1> QED
  BY <1>1, Counting, PTL

-----------------------------------------------------------------------------
(***************************************************************************)
(* The drain.  A Dequeue call under way has seen a head that some earlier   *)
(* Dequeue left there; as it has not taken an element itself, fewer have    *)
(* been taken than there are calls, so that head was not the last element.  *)
(***************************************************************************)
Drain == ~Overlap /\ Finite /\ Cardinality(Dequeuers) <= Cardinality(Items)

Loaded   == {"dTail", "dNext", "dTailLast", "dCheck", "dSwing"}
HasNext  == {"dTailLast", "dCheck", "dSwing"}

DrainInv ==
  /\ \A d \in Dequeuers : pc[d] # "dLoad" => \A e \in Items : pc[e] = "done"
  /\ \A d \in Dequeuers : pc[d] \in Loaded => \E i \in Place : i <= taken + 1 /\ first[d] = order[i]
  /\ \A d \in Dequeuers : pc[d] \in HasNext => nxt[d] # NULL
  /\ crashed = "no"

LEMMA DrainInit == ASSUME Init PROVE DrainInv
  BY LFQAssumption DEF Init, DrainInv, Calls, Loaded, HasNext

\* A Dequeue that has loaded head and not taken an element has one to take.
LEMMA SomethingLeft ==
  ASSUME Drain, IInv, CountInv, DrainInv, NEW d \in Dequeuers, pc[d] \in Loaded
  PROVE  next[first[d]] # NULL
<1>1. PICK i \in Place : i <= taken + 1 /\ first[d] = order[i]
  BY DEF DrainInv
<1>2. Linked = Items
  BY DEF DrainInv, Loaded, Linked, Unlinked
<1>3. Len(order) = 1 + Cardinality(Items) /\ Len(order) \in Nat /\ Cardinality(Items) \in Nat
  BY <1>2, CountsFinite DEF CountInv, Drain, IInv, TypeOK
<1>4. d \notin Takers /\ Takers \subseteq Dequeuers
  BY DEF Takers, Loaded
<1>5. Cardinality(Takers) < Cardinality(Dequeuers) /\ Cardinality(Dequeuers) \in Nat
  BY <1>4, FS_Subset, FS_CardinalityType, CountsFinite DEF Drain, Finite
<1>6. i \in Nat /\ i < Len(order)
  BY <1>1, <1>3, <1>5, CountsFinite DEF CountInv, Drain, Place
<1>7. next[order[i]] = order[i + 1] /\ order[i + 1] \in Elements
  BY <1>3, <1>6, <1>1 DEF IInv, ChainInv, TypeOK, Place
<1> QED
  BY <1>1, <1>7, LFQAssumption DEF Elements

LEMMA DrainStep ==
  ASSUME Drain, IInv, CountInv, DrainInv, [Next]_vars
  PROVE  DrainInv'
<1> USE LFQAssumption DEF Calls, Place
<1>1. /\ DOMAIN pc = Calls /\ DOMAIN first = Calls /\ DOMAIN nxt = Calls
      /\ taken \in Nat /\ Len(order) \in Nat
  BY DEF IInv, TypeOK
<1>2. ASSUME NEW e \in Items, EnqueueStep(e) PROVE DrainInv'
  <2>1. /\ \A c \in Calls : c # e => pc'[c] = pc[c] /\ nxt'[c] = nxt[c]
        /\ first' = first /\ taken' = taken /\ crashed' = crashed /\ pc[e] # "done"
    BY <1>1, <1>2 DEF EnqueueStep, ELoadTail, ELoadNext, ECheck, ELink, ESwing, EHelp, ELength
  <2>2. \A d \in Dequeuers : pc[d] = "dLoad"
    BY <2>1 DEF DrainInv
  <2> QED
    BY <2>1, <2>2 DEF DrainInv, Loaded, HasNext
<1>3. ASSUME NEW d \in Dequeuers, DequeueStep(d) PROVE DrainInv'
  <2>1. /\ \A c \in Calls : c # d => pc'[c] = pc[c] /\ nxt'[c] = nxt[c] /\ first'[c] = first[c]
        /\ order' = order /\ taken' \in {taken, taken + 1}
    BY <1>1, <1>3 DEF DequeueStep, DLoadHeadFirst, DLoadTailSecond, DLoadTailFirst,
                      DLoadHeadSecond, DLoadNext, DLoadNextSecond, DLoadTailLast, DCheck,
                      DSwing, DLength
  <2>2. \A e \in Items : pc'[e] = "done"
    <3>1. \A e \in Items : pc[e] = "done"
      BY <1>3 DEF DequeueStep, DLoadHeadFirst, DLoadTailSecond, DLoadTailFirst, DLoadHeadSecond,
                  DLoadNext, DLoadNextSecond, DLoadTailLast, DCheck, DSwing, DLength, MayDequeue,
                  DrainInv, Drain
    <3> QED
      BY <2>1, <3>1
  <2>3. ASSUME NEW c \in Dequeuers, pc'[c] \in Loaded
        PROVE  \E i \in Place' : i <= taken' + 1 /\ first'[c] = order'[i]
    <3>1. CASE c # d \/ (first'[d] = first[d] /\ pc[d] \in Loaded)
      <4>1. PICK i \in Place : i <= taken + 1 /\ first[c] = order[i]
        BY <2>1, <2>3, <3>1 DEF DrainInv
      <4>2. first'[c] = first[c]
        BY <2>1, <3>1
      <4>3. i \in Int /\ i <= taken + 1
        <5>1. i \in 1 .. Len(order)
          BY <4>1
        <5> QED
          BY <1>1, <4>1, <5>1
      <4>4. taken \in Nat /\ (taken' = taken \/ taken' = taken + 1)
        BY <1>1, <2>1
      <4>5. i <= taken' + 1
        BY ONLY <4>3, <4>4
      <4> QED
        BY <2>1, <4>1, <4>2, <4>5
    <3>2. CASE c = d /\ ~(first'[d] = first[d] /\ pc[d] \in Loaded)
      <4>1. first'[d] = head /\ taken' = taken
        BY <1>1, <1>3, <2>3, <3>2 DEF DequeueStep, DLoadHeadFirst, DLoadTailSecond, DLoadTailFirst,
                      DLoadHeadSecond, DLoadNext, DLoadNextSecond, DLoadTailLast, DCheck,
                      DSwing, DLength, Loaded
      <4>2. taken + 1 \in Place /\ head = order[taken + 1]
        BY <1>1 DEF IInv, ChainInv, TypeOK
      <4> QED
        BY <1>1, <2>1, <3>2, <4>1, <4>2
    <3> QED
      BY <3>1, <3>2
  <2>4. ASSUME NEW c \in Dequeuers, pc'[c] \in HasNext PROVE nxt'[c] # NULL
    <3>1. CASE c # d
      BY <2>1, <2>4, <3>1 DEF DrainInv
    <3>2. CASE c = d /\ pc[d] \in HasNext
      <4>1. nxt'[d] = nxt[d]
        BY <1>3, <3>2 DEF DequeueStep, DLoadHeadFirst, DLoadTailSecond, DLoadTailFirst,
                      DLoadHeadSecond, DLoadNext, DLoadNextSecond, DLoadTailLast, DCheck,
                      DSwing, DLength, HasNext
      <4> QED
        BY <3>2, <4>1 DEF DrainInv
    <3>3. CASE c = d /\ pc[d] \notin HasNext
      <4>1. nxt'[d] = next[first[d]] /\ pc[d] \in Loaded
        BY <1>1, <1>3, <2>4, <3>3 DEF DequeueStep, DLoadHeadFirst, DLoadTailSecond, DLoadTailFirst,
                      DLoadHeadSecond, DLoadNext, DLoadNextSecond, DLoadTailLast, DCheck,
                      DSwing, DLength, HasNext, Loaded
      <4> QED
        BY <3>3, <4>1, SomethingLeft
    <3> QED
      BY <3>1, <3>2, <3>3
  <2>5. crashed' = "no"
    <3>1. pc[d] = "dCheck" => ~SeesEmpty(d)
      BY DEF DrainInv, HasNext, SeesEmpty
    <3> QED
      BY <1>3, <3>1 DEF DequeueStep, DLoadHeadFirst, DLoadTailSecond, DLoadTailFirst,
                      DLoadHeadSecond, DLoadNext, DLoadNextSecond, DLoadTailLast, DCheck,
                      DSwing, DLength, DrainInv
  <2> QED
    BY <2>2, <2>3, <2>4, <2>5 DEF DrainInv
<1>4. CASE UNCHANGED vars
  BY <1>4 DEF vars, DrainInv
<1> QED
  BY <1>2, <1>3, <1>4 DEF Next

\* The drain of writeAsyncRecordsToLog never meets an empty queue or a nil
\* pointer: at most as many Dequeue calls as Enqueue calls, none of which starts
\* before the last Enqueue has returned.
THEOREM DrainNeverFails == ASSUME Drain PROVE Spec => []DrainSafe
<1>1. Init => DrainInv
  BY DrainInit
<1>2. IInv /\ CountInv /\ DrainInv /\ [Next]_vars => DrainInv'
  BY DrainStep
<1>3. DrainInv => DrainSafe
  BY DEF DrainInv, DrainSafe
<1>4. Spec => [](IInv /\ CountInv)
  BY Counting DEF Drain
<1> QED
  BY <1>1, <1>2, <1>3, <1>4, PTL DEF Spec
=============================================================================
