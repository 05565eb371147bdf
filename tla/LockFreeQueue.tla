--------------------------- MODULE LockFreeQueue ---------------------------
(***************************************************************************)
(* common.LockFreeQueue (pkg/common/lock_free_queue.go), the queue in which *)
(* the driver keeps the records of asynchronous Dirigent invocations.       *)
(*                                                                          *)
(* Every item of Items is the argument of one Enqueue call, every member of *)
(* Dequeuers is one Dequeue call; a goroutine that makes several calls one  *)
(* after the other is a special case.  An item stands for the lfqElement    *)
(* that its Enqueue allocates (elements are garbage collected, so an        *)
(* address is never reused while a goroutine still holds it).               *)
(*                                                                          *)
(* Only the CompareAndSwap and AddInt32 calls are atomic operations.  The   *)
(* loads of lfq.head, lfq.tail and .next are plain loads that race with     *)
(* them, so the compiler may take the second load of lfq.tail (line 44) or  *)
(* lfq.head (line 66) to be the first one, which makes the re-check true,   *)
(* and may emit the loads of lines 62, 63 and 64 in any order in which head  *)
(* comes before next.  Both are nondeterministic choices here.               *)
(*                                                                          *)
(* An operator X_Y that stands before X is a mistake in X that the project's *)
(* checks are known to catch; nothing else uses it.                          *)
(***************************************************************************)
EXTENDS Integers, Sequences, FiniteSets

CONSTANTS Items,      \* arguments of the Enqueue calls (and their elements)
          Dequeuers,  \* calls of Dequeue
          Overlap,    \* may a Dequeue run while an Enqueue has not returned?
          Sentinel,   \* the element NewLockFreeQueue allocates
          NULL        \* the nil pointer

ASSUME LFQAssumption == /\ Overlap \in BOOLEAN
                        /\ Items \cap Dequeuers = {}
                        /\ Sentinel \notin Items
                        /\ NULL \notin Items \cup {Sentinel}

VARIABLES head, tail, \* lfq.head and lfq.tail
          next,       \* the .next field of every element
          length,     \* lfq.length
          crashed,    \* "no", or how the process died: "fatal" or "nil"
          pc,         \* where each call is
          first,      \* the locals of each call
          last,
          nxt,
          result,     \* what each Dequeue returns
          order,      \* history: the elements in the order they were linked
          taken       \* history: how many elements were dequeued

vars == <<head, tail, next, length, crashed, pc, first, last, nxt, result,
          order, taken>>

Elements == Items \cup {Sentinel}
Calls    == Items \cup Dequeuers
Pointers == Elements \cup {NULL}

Init == /\ head = Sentinel
        /\ tail = Sentinel
        /\ next = [n \in Elements |-> NULL]
        /\ length = 0
        /\ crashed = "no"
        /\ pc = [c \in Calls |-> IF c \in Items THEN "eTail" ELSE "dLoad"]
        /\ first = [c \in Calls |-> NULL]
        /\ last = [c \in Calls |-> NULL]
        /\ nxt = [c \in Calls |-> NULL]
        /\ result = [d \in Dequeuers |-> NULL]
        /\ order = <<Sentinel>>
        /\ taken = 0

-----------------------------------------------------------------------------
(***************************************************************************)
(* Enqueue.                                                                 *)
(***************************************************************************)
ELoadTail(e) ==
  /\ pc[e] = "eTail"
  /\ last' = [last EXCEPT ![e] = tail]
  /\ pc' = [pc EXCEPT ![e] = "eNext"]
  /\ UNCHANGED <<head, tail, next, length, crashed, first, nxt, result, order, taken>>

ELoadNext(e) ==
  /\ pc[e] = "eNext"
  /\ nxt' = [nxt EXCEPT ![e] = next[last[e]]]
  /\ pc' = [pc EXCEPT ![e] = "eCheck"]
  /\ UNCHANGED <<head, tail, next, length, crashed, first, last, result, order, taken>>

\* Line 44: the re-check sends the call back only if tail really has moved, and
\* may be compiled away.  Line 45 then looks at the next pointer that was loaded.
ECheck(e) ==
  /\ pc[e] = "eCheck"
  /\ \/ /\ last[e] # tail
        /\ pc' = [pc EXCEPT ![e] = "eTail"]
     \/ pc' = [pc EXCEPT ![e] = IF nxt[e] = NULL THEN "eLink" ELSE "eHelp"]
  /\ UNCHANGED <<head, tail, next, length, crashed, first, last, nxt, result, order, taken>>

\* Line 46: CompareAndSwap of last.next from nil to the new element succeeds.
LinkCAS_PlainStore(e) == TRUE
LinkCAS(e) == next[last[e]] = NULL

ELink(e) ==
  /\ pc[e] = "eLink"
  /\ \/ /\ LinkCAS(e)
        /\ next' = [next EXCEPT ![last[e]] = e]
        /\ order' = Append(order, e)
        /\ pc' = [pc EXCEPT ![e] = "eSwing"]
     \/ /\ ~LinkCAS(e)
        /\ pc' = [pc EXCEPT ![e] = "eTail"]
        /\ UNCHANGED <<next, order>>
  /\ UNCHANGED <<head, tail, length, crashed, first, last, nxt, result, taken>>

\* CompareAndSwap of lfq.tail.
SwingTail_Never(from, to) == tail' = tail
SwingTail(from, to) == tail' = IF tail = from THEN to ELSE tail

ESwing(e) ==
  /\ pc[e] = "eSwing"
  /\ SwingTail(last[e], e)
  /\ pc' = [pc EXCEPT ![e] = "eLength"]
  /\ UNCHANGED <<head, next, length, crashed, first, last, nxt, result, order, taken>>

\* Line 51: help the Enqueue that has linked its element but not moved the tail.
EHelp(e) ==
  /\ pc[e] = "eHelp"
  /\ SwingTail(last[e], nxt[e])
  /\ pc' = [pc EXCEPT ![e] = "eTail"]
  /\ UNCHANGED <<head, next, length, crashed, first, last, nxt, result, order, taken>>

\* Line 33: the deferred atomic.AddInt32(&lfq.length, 1).
ELength(e) ==
  /\ pc[e] = "eLength"
  /\ length' = length + 1
  /\ pc' = [pc EXCEPT ![e] = "done"]
  /\ UNCHANGED <<head, tail, next, crashed, first, last, nxt, result, order, taken>>

-----------------------------------------------------------------------------
(***************************************************************************)
(* Dequeue.  Without Overlap the calls come as in the driver: functions     *)
(* stop enqueueing before writeAsyncRecordsToLog dequeues.                  *)
(***************************************************************************)
MayDequeue_Early == TRUE
MayDequeue == Overlap \/ \A e \in Items : pc[e] = "done"

DLoadHeadFirst(d) ==
  /\ pc[d] = "dLoad"
  /\ MayDequeue
  /\ first' = [first EXCEPT ![d] = head]
  /\ pc' = [pc EXCEPT ![d] = "dTail"]
  /\ UNCHANGED <<head, tail, next, length, crashed, last, nxt, result, order, taken>>

DLoadTailSecond(d) ==
  /\ pc[d] = "dTail"
  /\ last' = [last EXCEPT ![d] = tail]
  /\ pc' = [pc EXCEPT ![d] = "dNext"]
  /\ UNCHANGED <<head, tail, next, length, crashed, first, nxt, result, order, taken>>

DLoadTailFirst(d) ==
  /\ pc[d] = "dLoad"
  /\ MayDequeue
  /\ last' = [last EXCEPT ![d] = tail]
  /\ pc' = [pc EXCEPT ![d] = "dHead"]
  /\ UNCHANGED <<head, tail, next, length, crashed, first, nxt, result, order, taken>>

DLoadHeadSecond(d) ==
  /\ pc[d] = "dHead"
  /\ first' = [first EXCEPT ![d] = head]
  /\ pc' = [pc EXCEPT ![d] = "dNext"]
  /\ UNCHANGED <<head, tail, next, length, crashed, last, nxt, result, order, taken>>

DLoadNext(d) ==
  /\ pc[d] = "dNext"
  /\ nxt' = [nxt EXCEPT ![d] = next[first[d]]]
  /\ pc' = [pc EXCEPT ![d] = "dCheck"]
  /\ UNCHANGED <<head, tail, next, length, crashed, first, last, result, order, taken>>

\* The same two loads the other way round.
DLoadNextSecond(d) ==
  /\ pc[d] = "dTail"
  /\ nxt' = [nxt EXCEPT ![d] = next[first[d]]]
  /\ pc' = [pc EXCEPT ![d] = "dTailLast"]
  /\ UNCHANGED <<head, tail, next, length, crashed, first, last, result, order, taken>>

DLoadTailLast(d) ==
  /\ pc[d] = "dTailLast"
  /\ last' = [last EXCEPT ![d] = tail]
  /\ pc' = [pc EXCEPT ![d] = "dCheck"]
  /\ UNCHANGED <<head, tail, next, length, crashed, first, nxt, result, order, taken>>

\* Line 68: there is no element after first.
SeesEmpty_Unchecked(d) == FALSE
SeesEmpty(d) == nxt[d] = NULL

\* Lines 66-72.  When first = last and there is a next element, the loop simply
\* runs again: unlike Enqueue, Dequeue does not help to move the tail.
DCheck(d) ==
  /\ pc[d] = "dCheck"
  /\ \/ /\ first[d] # head
        /\ pc' = [pc EXCEPT ![d] = "dLoad"]
        /\ UNCHANGED crashed
     \/ /\ first[d] = last[d]
        /\ SeesEmpty(d)
        /\ crashed' = "fatal"
        /\ UNCHANGED pc
     \/ /\ first[d] = last[d]
        /\ ~SeesEmpty(d)
        /\ pc' = [pc EXCEPT ![d] = "dLoad"]
        /\ UNCHANGED crashed
     \/ /\ first[d] # last[d]
        /\ SeesEmpty(d)
        /\ crashed' = "nil"
        /\ UNCHANGED pc
     \/ /\ first[d] # last[d]
        /\ ~SeesEmpty(d)
        /\ pc' = [pc EXCEPT ![d] = "dSwing"]
        /\ UNCHANGED crashed
  /\ UNCHANGED <<head, tail, next, length, first, last, nxt, result, order, taken>>

\* Line 73: CompareAndSwap of lfq.head from first to next; the value returned
\* was read from next just before.
HeadCAS_PlainStore(d) == TRUE
HeadCAS(d) == head = first[d]

DSwing(d) ==
  /\ pc[d] = "dSwing"
  /\ \/ /\ HeadCAS(d)
        /\ head' = nxt[d]
        /\ result' = [result EXCEPT ![d] = nxt[d]]
        /\ taken' = taken + 1
        /\ pc' = [pc EXCEPT ![d] = "dLength"]
     \/ /\ ~HeadCAS(d)
        /\ pc' = [pc EXCEPT ![d] = "dLoad"]
        /\ UNCHANGED <<head, result, taken>>
  /\ UNCHANGED <<tail, next, length, crashed, first, last, nxt, order>>

\* Line 59: the deferred atomic.AddInt32(&lfq.length, -1).
DLength_Forgotten(d) ==
  /\ pc[d] = "dLength"
  /\ pc' = [pc EXCEPT ![d] = "done"]
  /\ UNCHANGED <<head, tail, next, length, crashed, first, last, nxt, result, order, taken>>

DLength(d) ==
  /\ pc[d] = "dLength"
  /\ length' = length - 1
  /\ pc' = [pc EXCEPT ![d] = "done"]
  /\ UNCHANGED <<head, tail, next, crashed, first, last, nxt, result, order, taken>>

-----------------------------------------------------------------------------
EnqueueStep(e) == \/ ELoadTail(e) \/ ELoadNext(e) \/ ECheck(e) \/ ELink(e)
                  \/ ESwing(e) \/ EHelp(e) \/ ELength(e)

DequeueStep(d) == \/ DLoadHeadFirst(d) \/ DLoadTailSecond(d)
                  \/ DLoadTailFirst(d) \/ DLoadHeadSecond(d)
                  \/ DLoadNext(d) \/ DLoadNextSecond(d) \/ DLoadTailLast(d)
                  \/ DCheck(d) \/ DSwing(d) \/ DLength(d)

\* logrus.Fatal and a nil dereference end the process: nothing runs after them.
Next == /\ crashed = "no"
        /\ \/ \E e \in Items : EnqueueStep(e)
           \/ \E d \in Dequeuers : DequeueStep(d)

Spec == Init /\ [][Next]_vars

\* Every goroutine inside a call keeps running: the Go scheduler is preemptive.
Running(c) == crashed = "no" /\ (IF c \in Items THEN EnqueueStep(c) ELSE DequeueStep(c))
FairSpec == Spec /\ \A c \in Calls : WF_vars(Running(c))

-----------------------------------------------------------------------------
TypeOK ==
  /\ head \in Elements
  /\ tail \in Elements
  /\ next \in [Elements -> Pointers]
  /\ length \in Int
  /\ crashed \in {"no", "fatal", "nil"}
  /\ pc \in [Calls -> {"eTail", "eNext", "eCheck", "eLink", "eSwing", "eHelp", "eLength",
                       "dLoad", "dTail", "dHead", "dNext", "dTailLast", "dCheck", "dSwing", "dLength",
                       "done"}]
  /\ first \in [Calls -> Pointers]
  /\ last \in [Calls -> Pointers]
  /\ nxt \in [Calls -> Pointers]
  /\ result \in [Dequeuers -> Pointers]
  /\ order \in Seq(Elements)
  /\ taken \in Nat

(***************************************************************************)
(* The list in memory is exactly the history of links: element i points to *)
(* element i + 1, the newest element to nil, head is at the last element    *)
(* taken, tail at the newest element or, while an Enqueue is between lines  *)
(* 46 and 47, at the one before.                                            *)
(***************************************************************************)
ChainInv ==
  /\ taken < Len(order)
  /\ head = order[taken + 1]
  /\ \A i \in 1 .. Len(order) - 1 : next[order[i]] = order[i + 1]
  /\ next[order[Len(order)]] = NULL
  /\ \E t \in {Len(order) - 1, Len(order)} : t > 0 /\ tail = order[t]

\* The queue is linearizable: it implements FifoQueue.
Fifo == INSTANCE FifoQueue WITH
          queue   <- SubSeq(order, taken + 2, Len(order)),
          entered <- {order[i] : i \in 2 .. Len(order)},
          NONE    <- NULL

RefinesFifo == Fifo!Spec

(***************************************************************************)
(* Length() may lag behind the list while calls are under way, but when    *)
(* none is, it is the number of items present.  writeAsyncRecordsToLog      *)
(* starts as many dequeuers as Length() says.                               *)
(***************************************************************************)
Quiescent == \A c \in Calls : pc[c] \in {"eTail", "dLoad", "done"}
LengthExact == Quiescent => length = Len(order) - 1 - taken

\* No more dequeuers than items, all of them after the last Enqueue returned:
\* no Dequeue finds the queue empty or follows a nil pointer.
DrainSafe == crashed = "no"

\* The drain ends: all calls return.
DrainTerminates == <>(\A c \in Calls : pc[c] = "done")
=============================================================================
