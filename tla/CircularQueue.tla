---------------------------- MODULE CircularQueue ----------------------------
(***************************************************************************)
(* utils/CircularQueue.java: the ring buffer behind the data-file queue,   *)
(* used by one thread at a time.  (CircularQueueRace has the two threads   *)
(* that really share it.)  The fields keep their Java names; an action is  *)
(* one whole call.  A call that throws is recorded in `returned`, which    *)
(* stands for what the caller sees.                                        *)
(***************************************************************************)
EXTENDS Integers, Sequences

CONSTANTS Elements, \* the items that callers enqueue
          MaxSize,  \* maxSize, the length of circularQueueElements
          null      \* Java's null: the content of a vacated slot

ASSUME MaxSizeAssumption == MaxSize \in Nat

VARIABLES circularQueueElements, currentSize, front, rear,
          draining, \* forEach is running its while loop
          returned  \* what the last call reported to its caller

vars == <<circularQueueElements, currentSize, front, rear, draining, returned>>

Slots == 0 .. MaxSize - 1

Outcome(call, value) == [call |-> call, value |-> value]

Init ==
    /\ circularQueueElements = [i \in Slots |-> null]
    /\ currentSize = 0
    /\ front = -1
    /\ rear = -1
    /\ draining = FALSE
    /\ returned = Outcome("new", null)

isFull == currentSize = MaxSize
isEmpty == currentSize = 0

FollowingWithoutWrap(i) == i + 1                   \* a slip, for a mutation run

Following(i) == (i + 1) % MaxSize

\* A slip, for a mutation run: front set whenever the queue was empty, before
\* rear moves.
enqueueSetsFrontEarly(item) ==
    /\ ~ isFull
    /\ rear' = Following(rear)
    /\ circularQueueElements' = [circularQueueElements EXCEPT ![rear'] = item]
    /\ currentSize' = currentSize + 1
    /\ front' = IF isEmpty /\ rear # -1 THEN rear ELSE rear'
    /\ returned' = Outcome("enqueued", null)
    /\ UNCHANGED draining

enqueue(item) ==
    /\ ~ isFull
    /\ rear' = Following(rear)
    /\ circularQueueElements' = [circularQueueElements EXCEPT ![rear'] = item]
    /\ currentSize' = currentSize + 1
    /\ front' = IF front = -1 THEN rear' ELSE front
    /\ returned' = Outcome("enqueued", null)
    /\ UNCHANGED draining

enqueueFull ==                                     \* QueueFullException
    /\ isFull
    /\ returned' = Outcome("full", null)
    /\ UNCHANGED <<circularQueueElements, currentSize, front, rear, draining>>

\* Slips, for mutation runs: the slot is not cleared; the newest element is taken.
TakeFrontKeepingReference ==
    /\ ~ isEmpty
    /\ front' = Following(front)
    /\ currentSize' = currentSize - 1
    /\ returned' = Outcome("dequeued", circularQueueElements[front])
    /\ UNCHANGED <<rear, circularQueueElements>>
TakeRear ==
    /\ ~ isEmpty
    /\ circularQueueElements' = [circularQueueElements EXCEPT ![rear] = null]
    /\ rear' = (rear + MaxSize - 1) % MaxSize
    /\ currentSize' = currentSize - 1
    /\ returned' = Outcome("dequeued", circularQueueElements[rear])
    /\ UNCHANGED front

\* The shared body of dequeue() and of one turn of forEach.
TakeFront ==
    /\ ~ isEmpty
    /\ circularQueueElements' = [circularQueueElements EXCEPT ![front] = null]
    /\ front' = Following(front)
    /\ currentSize' = currentSize - 1
    /\ returned' = Outcome("dequeued", circularQueueElements[front])
    /\ UNCHANGED rear

dequeue == TakeFront /\ UNCHANGED draining

dequeueEmpty ==                                    \* QueueEmptyException
    /\ isEmpty
    /\ returned' = Outcome("empty", null)
    /\ UNCHANGED <<circularQueueElements, currentSize, front, rear, draining>>

(***************************************************************************)
(* forEach dequeues until the queue is empty, handing every element to the *)
(* callback.  The callback may itself call enqueue or dequeue (the actions *)
(* above stay enabled), and an exception it throws leaves the loop early.  *)
(***************************************************************************)
forEach == /\ ~ draining
           /\ draining' = TRUE
           /\ UNCHANGED <<circularQueueElements, currentSize, front, rear, returned>>

forEachTurn == draining /\ TakeFront /\ UNCHANGED draining

forEachReturns ==
    /\ draining
    /\ \/ isEmpty                                  \* the while condition fails
       \/ returned.call = "dequeued"               \* accept(var2) threw
    /\ draining' = FALSE
    /\ UNCHANGED <<circularQueueElements, currentSize, front, rear, returned>>

Next ==
    \/ \E item \in Elements : enqueue(item)
    \/ enqueueFull
    \/ dequeue
    \/ dequeueEmpty
    \/ forEach
    \/ forEachTurn
    \/ forEachReturns

Spec == Init /\ [][Next]_vars
------------------------------------------------------------------------------
\* The slot of the k-th oldest element, k counting from 1.
SlotOf(k) == (front + k - 1) % MaxSize

\* The elements held, oldest first: the abstraction function of the ring.
Contents == [k \in 1 .. currentSize |-> circularQueueElements[SlotOf(k)]]

\* Every field stays in the range the Java declarations and the constructor
\* allow: indexes point into the array once the first element was stored, and
\* the size never leaves 0..maxSize (lines 57-63, 68-98).
TypeOK ==
    /\ circularQueueElements \in [Slots -> Elements \cup {null}]
    /\ currentSize \in 0 .. MaxSize
    /\ front \in Slots \cup {-1}
    /\ rear \in Slots \cup {-1}
    /\ draining \in BOOLEAN
    /\ returned \in [call : {"new", "enqueued", "full", "dequeued", "empty"},
                     value : Elements \cup {null}]

\* currentSize, front and rear, three separately maintained fields, always
\* agree: rear is exactly currentSize slots behind front around the ring, also
\* after the ring has wrapped, been filled and been drained any number of times
\* (front is only ever initialised by the first enqueue, line 77).
RingConsistent ==
    IF front = -1
    THEN rear = -1 /\ currentSize = 0
    ELSE rear # -1 /\ Following(rear) = SlotOf(currentSize + 1)

\* A slot outside the occupied window holds null: dequeue leaves no reference
\* behind (line 93), so a file name can never be delivered a second time from a
\* slot that was already consumed.
VacatedSlotsAreNull ==
    \A i \in Slots :
        (\A k \in 1 .. currentSize : SlotOf(k) # i) => circularQueueElements[i] = null

Fifo == INSTANCE BoundedFifo WITH Capacity <- MaxSize, queue <- Contents

\* The ring buffer is a bounded first-in first-out queue: the sequence of
\* results its callers see, exceptions included, is one BoundedFifo allows.
ImplementsFifo == Fifo!Spec
==============================================================================
