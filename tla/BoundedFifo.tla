----------------------------- MODULE BoundedFifo -----------------------------
(***************************************************************************)
(* What the data-file queue of the cloud synchronisation promises to the   *)
(* code that uses it: a first-in first-out buffer of at most Capacity      *)
(* elements whose refusals (full, empty) are visible to the caller and     *)
(* leave the buffer alone.  CircularQueue implements it.                   *)
(***************************************************************************)
EXTENDS Naturals, Sequences

CONSTANTS Elements, \* what can be queued
          Capacity, \* how many elements fit
          null      \* the value reported by calls that return no element

VARIABLES queue,    \* the elements held, oldest first
          returned  \* what the last call reported to its caller

vars == <<queue, returned>>

Outcome(call, value) == [call |-> call, value |-> value]

Init == /\ queue = <<>>
        /\ returned = Outcome("new", null)

Enqueue(item) ==
    /\ Len(queue) < Capacity
    /\ queue' = Append(queue, item)
    /\ returned' = Outcome("enqueued", null)

RefuseFull ==
    /\ Len(queue) = Capacity
    /\ returned' = Outcome("full", null)
    /\ UNCHANGED queue

Dequeue ==
    /\ queue # <<>>
    /\ queue' = Tail(queue)
    /\ returned' = Outcome("dequeued", Head(queue))

RefuseEmpty ==
    /\ queue = <<>>
    /\ returned' = Outcome("empty", null)
    /\ UNCHANGED queue

Next == \/ \E item \in Elements : Enqueue(item)
        \/ RefuseFull
        \/ Dequeue
        \/ RefuseEmpty

Spec == Init /\ [][Next]_vars
==============================================================================
