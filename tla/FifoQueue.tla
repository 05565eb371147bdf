----------------------------- MODULE FifoQueue -----------------------------
(***************************************************************************)
(* What the users of common.LockFreeQueue (pkg/common/lock_free_queue.go)  *)
(* rely on: a first-in-first-out queue on which Enqueue and Dequeue each    *)
(* take effect at one instant, however many goroutines call them.           *)
(*                                                                          *)
(* An item is the record one Enqueue call is given; every call has its own. *)
(* A dequeuer is one call of Dequeue.                                       *)
(***************************************************************************)
EXTENDS Sequences

CONSTANTS Items,      \* the values handed to Enqueue, one per call
          Dequeuers,  \* the calls of Dequeue
          NONE        \* "this Dequeue has not returned a value"

VARIABLES queue,      \* the items present, oldest first
          entered,    \* the items some Enqueue has put in so far
          result      \* the value each Dequeue has obtained

vars == <<queue, entered, result>>

Init == /\ queue = <<>>
        /\ entered = {}
        /\ result = [d \in Dequeuers |-> NONE]

Enqueue(x) == /\ x \notin entered
              /\ queue' = Append(queue, x)
              /\ entered' = entered \cup {x}
              /\ UNCHANGED result

Dequeue(d) == /\ queue # <<>>
              /\ result[d] = NONE
              /\ result' = [result EXCEPT ![d] = Head(queue)]
              /\ queue' = Tail(queue)
              /\ UNCHANGED entered

Next == \/ \E x \in Items : Enqueue(x)
        \/ \E d \in Dequeuers : Dequeue(d)

Spec == Init /\ [][Next]_vars
=============================================================================
