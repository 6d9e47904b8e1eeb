-------------------------- MODULE CircularQueueRace --------------------------
(***************************************************************************)
(* utils/CircularQueue.java as it is really shared: the static             *)
(* dataFilesQueue of CloudSynchService is filled by the thread that        *)
(* extracts data (or lists the directory) and emptied by the producer's    *)
(* scheduler thread, and neither enqueue nor dequeue is synchronized.      *)
(*                                                                         *)
(* Every access to a shared field or array cell is a step of its own, in   *)
(* program order; `currentSize++` is a read and a later write.  Threads    *)
(* see each other's writes at once: the Java memory model would allow      *)
(* staler reads still, so a violation found here is a real one and a       *)
(* property that passes is about this interleaving semantics only.         *)
(***************************************************************************)
EXTENDS Integers, Sequences, FiniteSets

CONSTANTS Enqueuers,  \* threads that call enqueue
          Dequeuers,  \* threads that call dequeue
          MaxSize,    \* maxSize
          MaxItems,   \* bound: number of items enqueued in a behaviour
          null

ASSUME RaceAssumption ==
    /\ MaxSize \in Nat \ {0}
    /\ MaxItems \in Nat
    /\ Enqueuers \cap Dequeuers = {}
    /\ null \notin 1 .. MaxItems               \* Java's null names no file

Threads == Enqueuers \cup Dequeuers
Slots == 0 .. MaxSize - 1
Items == 1 .. MaxItems

VARIABLES circularQueueElements, currentSize, front, rear,
          pc,         \* next statement of each thread's call; "idle" between calls
          reg,        \* the value a thread last read from a shared field
          arg,        \* the item being enqueued, or the element read by dequeue
          accepted,   \* items whose enqueue did not throw QueueFullException, in order
          delivered,  \* values returned by dequeue, in order
          thrown,     \* exceptions that left enqueue or dequeue
          overlapped  \* two calls have been in progress at the same time

shared == <<circularQueueElements, currentSize, front, rear>>
history == <<accepted, delivered, thrown, overlapped>>
vars == <<shared, pc, reg, arg, history>>

Init ==
    /\ circularQueueElements = [i \in Slots |-> null]
    /\ currentSize = 0
    /\ front = -1
    /\ rear = -1
    /\ pc = [t \in Threads |-> "idle"]
    /\ reg = [t \in Threads |-> 0]
    /\ arg = [t \in Threads |-> null]
    /\ accepted = <<>>
    /\ delivered = <<>>
    /\ thrown = {}
    /\ overlapped = FALSE

Goto(t, from, to) == pc[t] = from /\ pc' = [pc EXCEPT ![t] = to]
Load(t, value) == reg' = [reg EXCEPT ![t] = value]
Busy(t) == pc[t] # "idle"

\* A call begins; note whether it overlaps another one.
Call(t, first) ==
    /\ Goto(t, "idle", first)
    /\ overlapped' = (overlapped \/ \E u \in Threads \ {t} : Busy(u))
    /\ UNCHANGED <<shared, reg, delivered, thrown>>
------------------------------------------------------------------------------
(* enqueue(item), lines 68-81 *)

Started == Cardinality({t \in Enqueuers : Busy(t)}) + Len(accepted)

StartEnqueue(t) ==
    /\ Started < MaxItems
    /\ \E item \in Items :
          /\ \A i \in 1 .. Len(accepted) : accepted[i] # item
          /\ \A u \in Enqueuers : arg[u] # item
          /\ \A lower \in 1 .. item - 1 :          \* names are handed out in order
                \/ \E i \in 1 .. Len(accepted) : accepted[i] = lower
                \/ \E u \in Enqueuers : arg[u] = lower
          /\ arg' = [arg EXCEPT ![t] = item]
    /\ Call(t, "testFull")
    /\ UNCHANGED accepted

TestFull(t) ==
    /\ pc[t] = "testFull"
    /\ IF currentSize = MaxSize
       THEN /\ pc' = [pc EXCEPT ![t] = "idle"]
            /\ arg' = [arg EXCEPT ![t] = null]
            /\ thrown' = thrown \cup {"QueueFullException"}
       ELSE /\ pc' = [pc EXCEPT ![t] = "readRear"]
            /\ UNCHANGED <<arg, thrown>>
    /\ UNCHANGED <<shared, reg, accepted, delivered, overlapped>>

ReadRear(t) == /\ Goto(t, "readRear", "writeRear")
               /\ Load(t, rear)
               /\ UNCHANGED <<shared, arg, history>>

WriteRearWithoutWrap(t) ==                         \* a slip, for a mutation run
    /\ Goto(t, "writeRear", "readRearAgain")
    /\ rear' = reg[t] + 1
    /\ UNCHANGED <<circularQueueElements, currentSize, front, reg, arg, history>>

WriteRear(t) == /\ Goto(t, "writeRear", "readRearAgain")
                /\ rear' = (reg[t] + 1) % MaxSize
                /\ UNCHANGED <<circularQueueElements, currentSize, front, reg, arg, history>>

ReadRearAgain(t) == /\ Goto(t, "readRearAgain", "store")
                    /\ Load(t, rear)
                    /\ UNCHANGED <<shared, arg, history>>

Store(t) ==
    /\ Goto(t, "store", "readSizeToIncrement")
    /\ circularQueueElements' = [circularQueueElements EXCEPT ![reg[t]] = arg[t]]
    /\ UNCHANGED <<currentSize, front, rear, reg, arg, history>>

ReadSizeToIncrement(t) == /\ Goto(t, "readSizeToIncrement", "writeSizeIncremented")
                          /\ Load(t, currentSize)
                          /\ UNCHANGED <<shared, arg, history>>

WriteSizeIncremented(t) ==
    /\ Goto(t, "writeSizeIncremented", "testFront")
    /\ currentSize' = reg[t] + 1
    /\ UNCHANGED <<circularQueueElements, front, rear, reg, arg, history>>

EndEnqueue(t) == /\ accepted' = Append(accepted, arg[t])
                 /\ arg' = [arg EXCEPT ![t] = null]

TestFront(t) ==
    /\ pc[t] = "testFront"
    /\ IF front = -1
       THEN pc' = [pc EXCEPT ![t] = "readRearForFront"] /\ UNCHANGED <<accepted, arg>>
       ELSE pc' = [pc EXCEPT ![t] = "idle"] /\ EndEnqueue(t)
    /\ UNCHANGED <<shared, reg, delivered, thrown, overlapped>>

ReadRearForFront(t) == /\ Goto(t, "readRearForFront", "writeFrontFromRear")
                       /\ Load(t, rear)
                       /\ UNCHANGED <<shared, arg, history>>

WriteFrontOne(t) ==                               \* a slip, for a mutation run
    /\ Goto(t, "writeFrontFromRear", "idle")
    /\ front' = 1
    /\ EndEnqueue(t)
    /\ UNCHANGED <<circularQueueElements, currentSize, rear, reg, delivered, thrown, overlapped>>

WriteFrontFromRear(t) ==
    /\ Goto(t, "writeFrontFromRear", "idle")
    /\ front' = reg[t]
    /\ EndEnqueue(t)
    /\ UNCHANGED <<circularQueueElements, currentSize, rear, reg, delivered, thrown, overlapped>>
------------------------------------------------------------------------------
(* dequeue(), lines 86-98 *)

StartDequeue(t) == Call(t, "testEmpty") /\ UNCHANGED <<accepted, arg>>

TestEmpty(t) ==
    /\ pc[t] = "testEmpty"
    /\ pc' = [pc EXCEPT ![t] = IF currentSize = 0 THEN "idle" ELSE "readFront"]
    /\ thrown' = IF currentSize = 0 THEN thrown \cup {"QueueEmptyException"} ELSE thrown
    /\ UNCHANGED <<shared, reg, arg, accepted, delivered, overlapped>>

ReadFront(t) == /\ Goto(t, "readFront", "readElement")
                /\ Load(t, front)
                /\ UNCHANGED <<shared, arg, history>>

\* circularQueueElements[-1] throws ArrayIndexOutOfBoundsException.
ReadElement(t) ==
    /\ pc[t] = "readElement"
    /\ IF reg[t] \in Slots
       THEN /\ pc' = [pc EXCEPT ![t] = "readFrontToClear"]
            /\ arg' = [arg EXCEPT ![t] = circularQueueElements[reg[t]]]
            /\ UNCHANGED thrown
       ELSE /\ pc' = [pc EXCEPT ![t] = "idle"]
            /\ thrown' = thrown \cup {"ArrayIndexOutOfBoundsException"}
            /\ UNCHANGED arg
    /\ UNCHANGED <<shared, reg, accepted, delivered, overlapped>>

ReadFrontToClear(t) == /\ Goto(t, "readFrontToClear", "clear")
                       /\ Load(t, front)
                       /\ UNCHANGED <<shared, arg, history>>

ClearNothing(t) ==                                 \* a slip, for a mutation run
    /\ Goto(t, "clear", "readFrontToAdvance")
    /\ UNCHANGED <<shared, reg, arg, history>>

Clear(t) ==
    /\ Goto(t, "clear", "readFrontToAdvance")
    /\ circularQueueElements' = [circularQueueElements EXCEPT ![reg[t]] = null]
    /\ UNCHANGED <<currentSize, front, rear, reg, arg, history>>

ReadFrontToAdvance(t) == /\ Goto(t, "readFrontToAdvance", "writeFront")
                         /\ Load(t, front)
                         /\ UNCHANGED <<shared, arg, history>>

WriteFront(t) == /\ Goto(t, "writeFront", "readSizeToDecrement")
                 /\ front' = (reg[t] + 1) % MaxSize
                 /\ UNCHANGED <<circularQueueElements, currentSize, rear, reg, arg, history>>

ReadSizeToDecrement(t) == /\ Goto(t, "readSizeToDecrement", "writeSizeDecremented")
                          /\ Load(t, currentSize)
                          /\ UNCHANGED <<shared, arg, history>>

WriteSizeDecremented(t) ==
    /\ Goto(t, "writeSizeDecremented", "idle")
    /\ currentSize' = reg[t] - 1
    /\ delivered' = Append(delivered, arg[t])
    /\ arg' = [arg EXCEPT ![t] = null]
    /\ UNCHANGED <<circularQueueElements, front, rear, reg, accepted, thrown, overlapped>>
------------------------------------------------------------------------------
EnqueueStep(t) ==
    \/ StartEnqueue(t)
    \/ TestFull(t)
    \/ ReadRear(t)
    \/ WriteRear(t)
    \/ ReadRearAgain(t)
    \/ Store(t)
    \/ ReadSizeToIncrement(t)
    \/ WriteSizeIncremented(t)
    \/ TestFront(t)
    \/ ReadRearForFront(t)
    \/ WriteFrontFromRear(t)

DequeueStep(t) ==
    \/ StartDequeue(t)
    \/ TestEmpty(t)
    \/ ReadFront(t)
    \/ ReadElement(t)
    \/ ReadFrontToClear(t)
    \/ Clear(t)
    \/ ReadFrontToAdvance(t)
    \/ WriteFront(t)
    \/ ReadSizeToDecrement(t)
    \/ WriteSizeDecremented(t)

Next == \/ \E t \in Enqueuers : EnqueueStep(t)
        \/ \E t \in Dequeuers : DequeueStep(t)

Spec == Init /\ [][Next]_vars
------------------------------------------------------------------------------
Quiescent == \A t \in Threads : ~ Busy(t)
Real(values) == SelectSeq(values, LAMBDA v : v # null)
Stored == {i \in Slots : circularQueueElements[i] # null}

\* Every field keeps to its declared range even though neither method is
\* synchronized: with one enqueuer and one dequeuer the lost updates of
\* currentSize never push it below zero or above the array length, which
\* isFull and isEmpty, comparing with ==, would never recover from.
TypeOK ==
    /\ circularQueueElements \in [Slots -> Items \cup {null}]
    /\ currentSize \in 0 .. MaxSize
    /\ front \in Slots \cup {-1}
    /\ rear \in Slots \cup {-1}
    /\ arg \in [Threads -> Items \cup {null}]
    /\ Len(accepted) <= MaxItems
    /\ overlapped \in BOOLEAN

\* Whatever the interleaving, a file name is handed to the producer at most
\* once: dequeue clears the slot it has read before it moves on (line 93).
NoDuplicateDelivery ==
    \A i, j \in 1 .. Len(delivered) :
        i # j => delivered[i] = null \/ delivered[i] # delivered[j]

\* Calls that never overlapped leave the ring exact: the size is the number of
\* elements stored, what was delivered is what was accepted first, in order,
\* and nothing but the two declared exceptions was ever thrown.
ExactWithoutOverlap ==
    Quiescent /\ ~ overlapped =>
        /\ currentSize = Cardinality(Stored)
        /\ currentSize = Len(accepted) - Len(delivered)
        /\ delivered = SubSeq(accepted, 1, Len(delivered))
        /\ thrown \subseteq {"QueueFullException", "QueueEmptyException"}
==============================================================================
