------------------------ MODULE CircularQueueRaceProofs ------------------------
(***************************************************************************)
(* Proofs about CircularQueue.java shared without synchronization, for     *)
(* every maxSize and every number of items.                                *)
(*                                                                         *)
(* With one thread that enqueues and one that dequeues, which is how       *)
(* CloudSynchService shares the data-file queue, the fields keep to their  *)
(* ranges and no element is delivered twice, however their statements      *)
(* interleave.  With any threads, calls that never overlapped leave the    *)
(* ring exact.                                                             *)
(***************************************************************************)
EXTENDS CircularQueueRace, FiniteSetTheorems, TLAPS

\* One thread of each kind, at most.
AtMostOneOfEach ==
    /\ \A t, u \in Enqueuers : t = u
    /\ \A t, u \in Dequeuers : t = u

------------------------------------------------------------------------------
(***************************************************************************)
(* The inductive invariant of the two racing threads.                      *)
(***************************************************************************)
\* The statements of enqueue before the item is in its slot, and after.
BeforeSize == {"readRear", "writeRear", "readRearAgain", "store", "readSizeToIncrement"}
Placing == {"testFull", "readRear", "writeRear", "readRearAgain", "store"}
Placed == {"readSizeToIncrement", "writeSizeIncremented", "testFront", "readRearForFront",
           "writeFrontFromRear"}
EnqueuePoints == {"idle"} \cup Placing \cup Placed

\* The statements of dequeue before the element is read, before its slot is
\* cleared, and after.
Looking == {"testEmpty", "readFront", "readElement"}
Clearing == {"readFrontToClear", "clear"}
Advancing == {"readFrontToAdvance", "writeFront"}
Leaving == {"readSizeToDecrement", "writeSizeDecremented"}
DequeuePoints == {"idle"} \cup Looking \cup Clearing \cup Advancing \cup Leaving

RaceTypes ==
    /\ circularQueueElements \in [Slots -> Items \cup {null}]
    /\ currentSize \in 0 .. MaxSize
    /\ front \in Slots \cup {-1}
    /\ rear \in Slots \cup {-1}
    /\ pc \in [Threads -> EnqueuePoints \cup DequeuePoints]
    /\ \A e \in Enqueuers : pc[e] \in EnqueuePoints
    /\ \A d \in Dequeuers : pc[d] \in DequeuePoints
    /\ reg \in [Threads -> -1 .. MaxSize]
    /\ arg \in [Threads -> Items \cup {null}]
    /\ accepted \in Seq(Items) /\ Len(accepted) <= MaxItems
    /\ delivered \in Seq(Items \cup {null})
    /\ overlapped \in BOOLEAN

\* What an enqueuer relies on between two of its statements: it has room, also
\* after a dequeuer's write of the size, and front stays unset until it sets it.
EnqueuerKeeps ==
    \A e \in Enqueuers :
        /\ pc[e] # "idle" => Len(accepted) < MaxItems /\ arg[e] \in Items
        /\ pc[e] \in BeforeSize => currentSize < MaxSize
        /\ pc[e] = "writeSizeIncremented" => reg[e] \in 0 .. MaxSize - 1
        /\ pc[e] \in {"readRearAgain", "store"} \cup Placed => rear # -1
        /\ pc[e] \in {"store", "writeFrontFromRear"} => reg[e] \in Slots
        /\ pc[e] \in {"readRearForFront", "writeFrontFromRear"} => front = -1

\* What a dequeuer relies on: there is an element, and front is where it read
\* it, although it reads front three times.
DequeuerKeeps ==
    \A d \in Dequeuers :
        /\ pc[d] \in {"idle"} \cup Looking => arg[d] = null
        /\ pc[d] \in (Looking \cup Clearing \cup Advancing \cup {"readSizeToDecrement"})
                     \ {"testEmpty"} => currentSize > 0
        /\ pc[d] = "writeSizeDecremented" => reg[d] \in 1 .. MaxSize
        /\ pc[d] = "readElement" /\ reg[d] # -1 => front = reg[d]
        /\ pc[d] = "readElement" => reg[d] \in Slots \cup {-1}
        /\ pc[d] \in Clearing \cup Advancing => front # -1
        /\ pc[d] \in {"clear", "writeFront"} => front = reg[d]

RangeInv == RaceTypes /\ EnqueuerKeeps /\ DequeuerKeeps

Accepted(x) == \E i \in 1 .. Len(accepted) : accepted[i] = x
Delivered(x) == \E i \in 1 .. Len(delivered) : delivered[i] = x

\* An item that has been put in a slot.
Known(x) == Accepted(x) \/ \E e \in Enqueuers : pc[e] \in Placed /\ arg[e] = x

\* An item is in one place at a time: on its way in, in one slot, in the hands
\* of the dequeuer, or delivered.
OnItsWayIn ==
    \A e \in Enqueuers : pc[e] \in Placing => ~ Accepted(arg[e])

InOneSlot ==
    \A i \in Slots :
        circularQueueElements[i] # null =>
            /\ Known(circularQueueElements[i])
            /\ ~ Delivered(circularQueueElements[i])
            /\ \A j \in Slots : circularQueueElements[j] = circularQueueElements[i] => i = j

InHand ==
    \A d \in Dequeuers :
        arg[d] # null =>
            /\ Known(arg[d])
            /\ ~ Delivered(arg[d])
            /\ \A i \in Slots :
                   circularQueueElements[i] = arg[d] => pc[d] \in Clearing /\ i = front

DeliveredOnce ==
    \A i \in 1 .. Len(delivered) :
        delivered[i] # null =>
            /\ Known(delivered[i])
            /\ \A j \in 1 .. Len(delivered) : delivered[j] = delivered[i] => i = j

PlaceInv == OnItsWayIn /\ InOneSlot /\ InHand /\ DeliveredOnce
------------------------------------------------------------------------------
(***************************************************************************)
(* The inductive invariant of calls that do not overlap.                   *)
(***************************************************************************)
\* The k-th place of the ring, counted from index f, and the following index.
Place(f, k) == (f + k - 1) % MaxSize
Following(i) == (i + 1) % MaxSize

\* The cells hold the items after the first `gone` ones, from index f on, and
\* nothing else.
Holds(cells, f, items, gone) ==
    \A k \in 1 .. MaxSize :
        cells[Place(f, k)] = IF gone + k <= Len(items) THEN items[gone + k] ELSE null

Waiting == Len(accepted) - Len(delivered)

\* Where the oldest element is or, as long as front is unset, the first will be.
Base == IF front = -1 THEN 0 ELSE front

\* The ring between two calls.
Ring ==
    /\ Waiting \in 0 .. MaxSize
    /\ front = -1 <=> accepted = <<>>
    /\ Holds(circularQueueElements, Base, accepted, Len(delivered))

Settled ==
    /\ Ring
    /\ currentSize = Waiting
    /\ Following(rear) = Place(Base, Waiting + 1)

\* A thread about to read a field, or to use the value it has read.
Reads(t, before, after, value) ==
    pc[t] = before \/ (pc[t] = after /\ reg[t] = value)

\* Half-way through enqueue: rear has moved, then the slot is filled, then the
\* size counts it, then front may be set.
EnqueuePhase(e) ==
    LET grown == Append(accepted, arg[e])
        filled == /\ Waiting \in 0 .. MaxSize - 1
                  /\ front = -1 <=> accepted = <<>>
                  /\ rear = Place(Base, Waiting + 1)
                  /\ Holds(circularQueueElements, Base, grown, Len(delivered))
    IN  /\ arg[e] \in Items
        /\ \/ pc[e] = "testFull" /\ Settled
           \/ Reads(e, "readRear", "writeRear", rear) /\ Settled /\ Waiting < MaxSize
           \/ /\ Reads(e, "readRearAgain", "store", rear)
              /\ Ring /\ Waiting < MaxSize /\ currentSize = Waiting
              /\ rear = Place(Base, Waiting + 1)
           \/ /\ Reads(e, "readSizeToIncrement", "writeSizeIncremented", currentSize)
              /\ filled /\ currentSize = Waiting
           \/ /\ \/ pc[e] = "testFront"
                 \/ front = -1 /\ Reads(e, "readRearForFront", "writeFrontFromRear", rear)
              /\ filled /\ currentSize = Waiting + 1

\* Half-way through dequeue: the element is read, its slot cleared, front
\* moved, and then the size.
DequeuePhase(d) ==
    LET oldest == Len(delivered) + 1
        emptied == /\ Waiting \in 1 .. MaxSize
                   /\ currentSize = Waiting
                   /\ front # -1
                   /\ arg[d] = accepted[oldest]
    IN  \/ pc[d] = "testEmpty" /\ Settled
        \/ Reads(d, "readFront", "readElement", front) /\ Settled /\ Waiting > 0
        \/ /\ Reads(d, "readFrontToClear", "clear", front)
           /\ Settled /\ Waiting > 0 /\ arg[d] = accepted[oldest]
        \/ /\ Reads(d, "readFrontToAdvance", "writeFront", front)
           /\ emptied
           /\ Following(rear) = Place(front, Waiting + 1)
           /\ Holds(circularQueueElements, Following(front), accepted, oldest)
        \/ /\ Reads(d, "readSizeToDecrement", "writeSizeDecremented", currentSize)
           /\ emptied
           /\ Following(rear) = Place(front, Waiting)
           /\ Holds(circularQueueElements, front, accepted, oldest)

SequentialTypes ==
    /\ circularQueueElements \in [Slots -> Items \cup {null}]
    /\ front \in Slots \cup {-1}
    /\ rear \in Slots \cup {-1}
    /\ pc \in [Threads -> EnqueuePoints \cup DequeuePoints]
    /\ reg \in [Threads -> Int]
    /\ arg \in [Threads -> Items \cup {null}]
    /\ accepted \in Seq(Items)
    /\ delivered \in Seq(Items)
    /\ thrown \subseteq {"QueueFullException", "QueueEmptyException"}

Sequential ==
    /\ SequentialTypes
    /\ \A i \in 1 .. Len(delivered) : delivered[i] = accepted[i]
    /\ \A t, u \in Threads : Busy(t) /\ Busy(u) => t = u
    /\ Quiescent => Settled
    /\ \A e \in Enqueuers : Busy(e) => EnqueuePhase(e)
    /\ \A d \in Dequeuers : Busy(d) => DequeuePhase(d)

SequentialInv == overlapped \in BOOLEAN /\ (overlapped \/ Sequential)
------------------------------------------------------------------------------
\* An index modulo the length is a slot.
LEMMA ModRange ==
    ASSUME NEW i \in Int PROVE (i + 1) % MaxSize \in Slots /\ (i + 1) % MaxSize # -1
BY RaceAssumption DEF Slots

\* The state the constructor leaves.
LEMMA RangeInit == Init => RangeInv
<1> SUFFICES ASSUME Init PROVE RangeInv
  OBVIOUS
<1>1. RaceTypes
  <2>1. circularQueueElements \in [Slots -> Items \cup {null}]
    BY DEF Init
  <2>2. 0 \in 0 .. MaxSize /\ 0 \in -1 .. MaxSize
    BY RaceAssumption
  <2>3. accepted \in Seq(Items) /\ delivered \in Seq(Items \cup {null})
    BY DEF Init
  <2>4. reg \in [Threads -> -1 .. MaxSize] /\ arg \in [Threads -> Items \cup {null}]
    BY <2>2 DEF Init
  <2>5. Len(accepted) <= MaxItems
    BY RaceAssumption DEF Init
  <2> QED
    BY <2>1, <2>2, <2>3, <2>4, <2>5
       DEF Init, RaceTypes, EnqueuePoints, DequeuePoints, Threads
<1>2. EnqueuerKeeps /\ DequeuerKeeps
  BY DEF Init, EnqueuerKeeps, DequeuerKeeps, Threads, EnqueuePoints, DequeuePoints,
     BeforeSize, Placing, Placed, Looking, Clearing, Advancing, Leaving
<1> QED
  BY <1>1, <1>2 DEF RangeInv

LEMMA RangeEnqueue ==
    ASSUME AtMostOneOfEach, RangeInv, NEW e \in Enqueuers, EnqueueStep(e)
    PROVE  RangeInv'
<1> USE RaceAssumption DEF Goto, Load, Call, Threads, Slots, Items, shared, history,
       EndEnqueue, EnqueuePoints, DequeuePoints, BeforeSize, Placing, Placed, Looking,
       Clearing, Advancing, Leaving
<1>1. CASE TestFull(e)
  <2>1. RaceTypes'
    <3>1. pc' \in [Threads -> EnqueuePoints \cup DequeuePoints]
      BY <1>1 DEF TestFull, RangeInv, RaceTypes
    <3>2. arg' \in [Threads -> Items \cup {null}] /\ delivered' \in Seq(Items \cup {null})
      BY <1>1 DEF TestFull, RangeInv, RaceTypes
    <3> QED
      BY <1>1, <3>1, <3>2 DEF TestFull, RangeInv, RaceTypes, DequeuerKeeps
  <2>2. EnqueuerKeeps'
    BY <1>1, ModRange DEF TestFull, RangeInv, RaceTypes, EnqueuerKeeps, DequeuerKeeps,
       AtMostOneOfEach
  <2>3. DequeuerKeeps'
    BY <1>1, ModRange DEF TestFull, RangeInv, RaceTypes, EnqueuerKeeps, DequeuerKeeps,
       AtMostOneOfEach
  <2> QED
    BY <2>1, <2>2, <2>3 DEF RangeInv
<1>2. CASE ReadRear(e)
  <2>1. RaceTypes'
    BY <1>2, ModRange DEF ReadRear, RangeInv, RaceTypes, EnqueuerKeeps, DequeuerKeeps
  <2>2. EnqueuerKeeps'
    BY <1>2, ModRange DEF ReadRear, RangeInv, RaceTypes, EnqueuerKeeps, DequeuerKeeps,
       AtMostOneOfEach
  <2>3. DequeuerKeeps'
    BY <1>2, ModRange DEF ReadRear, RangeInv, RaceTypes, EnqueuerKeeps, DequeuerKeeps,
       AtMostOneOfEach
  <2> QED
    BY <2>1, <2>2, <2>3 DEF RangeInv
<1>3. CASE WriteRear(e)
  <2>1. RaceTypes'
    BY <1>3, ModRange DEF WriteRear, RangeInv, RaceTypes, EnqueuerKeeps, DequeuerKeeps
  <2>2. EnqueuerKeeps'
    BY <1>3, ModRange DEF WriteRear, RangeInv, RaceTypes, EnqueuerKeeps, DequeuerKeeps,
       AtMostOneOfEach
  <2>3. DequeuerKeeps'
    BY <1>3, ModRange DEF WriteRear, RangeInv, RaceTypes, EnqueuerKeeps, DequeuerKeeps,
       AtMostOneOfEach
  <2> QED
    BY <2>1, <2>2, <2>3 DEF RangeInv
<1>4. CASE ReadRearAgain(e)
  <2>1. RaceTypes'
    BY <1>4, ModRange DEF ReadRearAgain, RangeInv, RaceTypes, EnqueuerKeeps, DequeuerKeeps
  <2>2. EnqueuerKeeps'
    BY <1>4, ModRange DEF ReadRearAgain, RangeInv, RaceTypes, EnqueuerKeeps,
       DequeuerKeeps, AtMostOneOfEach
  <2>3. DequeuerKeeps'
    BY <1>4, ModRange DEF ReadRearAgain, RangeInv, RaceTypes, EnqueuerKeeps,
       DequeuerKeeps, AtMostOneOfEach
  <2> QED
    BY <2>1, <2>2, <2>3 DEF RangeInv
<1>5. CASE Store(e)
  <2>1. RaceTypes'
    BY <1>5, ModRange DEF Store, RangeInv, RaceTypes, EnqueuerKeeps, DequeuerKeeps
  <2>2. EnqueuerKeeps'
    BY <1>5, ModRange DEF Store, RangeInv, RaceTypes, EnqueuerKeeps, DequeuerKeeps,
       AtMostOneOfEach
  <2>3. DequeuerKeeps'
    BY <1>5, ModRange DEF Store, RangeInv, RaceTypes, EnqueuerKeeps, DequeuerKeeps,
       AtMostOneOfEach
  <2> QED
    BY <2>1, <2>2, <2>3 DEF RangeInv
<1>6. CASE ReadSizeToIncrement(e)
  <2>1. RaceTypes'
    BY <1>6, ModRange DEF ReadSizeToIncrement, RangeInv, RaceTypes, EnqueuerKeeps,
       DequeuerKeeps
  <2>2. EnqueuerKeeps'
    BY <1>6, ModRange DEF ReadSizeToIncrement, RangeInv, RaceTypes, EnqueuerKeeps,
       DequeuerKeeps, AtMostOneOfEach
  <2>3. DequeuerKeeps'
    BY <1>6, ModRange DEF ReadSizeToIncrement, RangeInv, RaceTypes, EnqueuerKeeps,
       DequeuerKeeps, AtMostOneOfEach
  <2> QED
    BY <2>1, <2>2, <2>3 DEF RangeInv
<1>7. CASE WriteSizeIncremented(e)
  <2>1. RaceTypes'
    BY <1>7, ModRange DEF WriteSizeIncremented, RangeInv, RaceTypes, EnqueuerKeeps,
       DequeuerKeeps
  <2>2. EnqueuerKeeps'
    BY <1>7, ModRange DEF WriteSizeIncremented, RangeInv, RaceTypes, EnqueuerKeeps,
       DequeuerKeeps, AtMostOneOfEach
  <2>3. DequeuerKeeps'
    BY <1>7, ModRange DEF WriteSizeIncremented, RangeInv, RaceTypes, EnqueuerKeeps,
       DequeuerKeeps, AtMostOneOfEach
  <2> QED
    BY <2>1, <2>2, <2>3 DEF RangeInv
<1>8. CASE TestFront(e)
  <2>1. accepted' \in Seq(Items) /\ arg' \in [Threads -> Items \cup {null}]
    <3>1. Append(accepted, arg[e]) \in Seq(Items)
      BY <1>8 DEF TestFront, RangeInv, RaceTypes, EnqueuerKeeps
    <3> QED
      BY <1>8, <3>1 DEF TestFront, RangeInv, RaceTypes
  <2>2. RaceTypes'
    <3>1. pc' \in [Threads -> EnqueuePoints \cup DequeuePoints]
      BY <1>8 DEF TestFront, RangeInv, RaceTypes
    <3>2. Len(accepted') <= MaxItems
      <4>1. accepted' = accepted \/ accepted' = Append(accepted, arg[e])
        BY <1>8 DEF TestFront
      <4>2. Len(accepted) < MaxItems
        BY <1>8 DEF TestFront, RangeInv, EnqueuerKeeps
      <4> QED
        BY <4>1, <4>2 DEF RangeInv, RaceTypes
    <3> QED
      BY <1>8, <2>1, <3>1, <3>2 DEF TestFront, RangeInv, RaceTypes, EnqueuerKeeps
  <2>3. EnqueuerKeeps'
    BY <1>8 DEF TestFront, RangeInv, RaceTypes, EnqueuerKeeps, AtMostOneOfEach
  <2>4. DequeuerKeeps'
    BY <1>8 DEF TestFront, RangeInv, RaceTypes, EnqueuerKeeps, DequeuerKeeps
  <2> QED
    BY <2>2, <2>3, <2>4 DEF RangeInv
<1>9. CASE ReadRearForFront(e)
  <2>1. RaceTypes'
    BY <1>9, ModRange DEF ReadRearForFront, RangeInv, RaceTypes, EnqueuerKeeps,
       DequeuerKeeps
  <2>2. EnqueuerKeeps'
    BY <1>9, ModRange DEF ReadRearForFront, RangeInv, RaceTypes, EnqueuerKeeps,
       DequeuerKeeps, AtMostOneOfEach
  <2>3. DequeuerKeeps'
    BY <1>9, ModRange DEF ReadRearForFront, RangeInv, RaceTypes, EnqueuerKeeps,
       DequeuerKeeps, AtMostOneOfEach
  <2> QED
    BY <2>1, <2>2, <2>3 DEF RangeInv
<1>10. CASE WriteFrontFromRear(e)
  <2>1. accepted' \in Seq(Items) /\ arg' \in [Threads -> Items \cup {null}]
    <3>1. Append(accepted, arg[e]) \in Seq(Items)
      BY <1>10 DEF WriteFrontFromRear, RangeInv, RaceTypes, EnqueuerKeeps
    <3> QED
      BY <1>10, <3>1 DEF WriteFrontFromRear, RangeInv, RaceTypes
  <2>2. RaceTypes'
    <3>1. pc' \in [Threads -> EnqueuePoints \cup DequeuePoints]
      BY <1>10 DEF WriteFrontFromRear, RangeInv, RaceTypes
    <3>2. Len(accepted') <= MaxItems
      <4>1. accepted' = accepted \/ accepted' = Append(accepted, arg[e])
        BY <1>10 DEF WriteFrontFromRear
      <4>2. Len(accepted) < MaxItems
        BY <1>10 DEF WriteFrontFromRear, RangeInv, EnqueuerKeeps
      <4> QED
        BY <4>1, <4>2 DEF RangeInv, RaceTypes
    <3> QED
      BY <1>10, <2>1, <3>1, <3>2 DEF WriteFrontFromRear, RangeInv, RaceTypes, EnqueuerKeeps
  <2>3. EnqueuerKeeps'
    BY <1>10 DEF WriteFrontFromRear, RangeInv, RaceTypes, EnqueuerKeeps, AtMostOneOfEach
  <2>4. DequeuerKeeps'
    BY <1>10 DEF WriteFrontFromRear, RangeInv, RaceTypes, EnqueuerKeeps, DequeuerKeeps
  <2> QED
    BY <2>2, <2>3, <2>4 DEF RangeInv
<1>11. CASE StartEnqueue(e)
  <2>1. PICK item \in Items :
           /\ arg' = [arg EXCEPT ![e] = item]
           /\ pc[e] = "idle" /\ pc' = [pc EXCEPT ![e] = "testFull"]
           /\ UNCHANGED <<shared, reg, accepted, delivered>>
    BY <1>11 DEF StartEnqueue
  <2>2. Len(accepted) < MaxItems
    <3>1. {t \in Enqueuers : Busy(t)} = {}
      BY <2>1 DEF Busy, AtMostOneOfEach
    <3>2. Cardinality({t \in Enqueuers : Busy(t)}) = 0
      BY <3>1, FS_EmptySet, Zenon
    <3>3. Len(accepted) \in Nat
      BY DEF RangeInv, RaceTypes
    <3>4. Started = Len(accepted)
      BY <3>2, <3>3 DEF Started
    <3> QED
      BY <1>11, <3>4 DEF StartEnqueue
  <2>3. overlapped' \in BOOLEAN
    BY <1>11, Zenon DEF StartEnqueue, RangeInv, RaceTypes
  <2>4. RaceTypes'
    BY <2>1, <2>3 DEF RangeInv, RaceTypes, EnqueuerKeeps, DequeuerKeeps
  <2>5. EnqueuerKeeps' /\ DequeuerKeeps'
    BY <2>1, <2>2 DEF RangeInv, RaceTypes, EnqueuerKeeps, DequeuerKeeps, AtMostOneOfEach
  <2> QED
    BY <2>4, <2>5 DEF RangeInv
<1> QED
  BY <1>1, <1>2, <1>3, <1>4, <1>5, <1>6, <1>7, <1>8, <1>9, <1>10, <1>11 DEF EnqueueStep

LEMMA RangeDequeue ==
    ASSUME AtMostOneOfEach, RangeInv, NEW d \in Dequeuers, DequeueStep(d)
    PROVE  RangeInv'
<1> USE RaceAssumption DEF Goto, Load, Call, Threads, Slots, Items, shared, history,
       EndEnqueue, EnqueuePoints, DequeuePoints, BeforeSize, Placing, Placed, Looking,
       Clearing, Advancing, Leaving
<1>1. CASE StartDequeue(d)
  <2>1. RaceTypes'
    BY <1>1, ModRange DEF StartDequeue, RangeInv, RaceTypes, EnqueuerKeeps, DequeuerKeeps
  <2>2. EnqueuerKeeps'
    BY <1>1, ModRange DEF StartDequeue, RangeInv, RaceTypes, EnqueuerKeeps, DequeuerKeeps,
       AtMostOneOfEach
  <2>3. DequeuerKeeps'
    BY <1>1, ModRange DEF StartDequeue, RangeInv, RaceTypes, EnqueuerKeeps, DequeuerKeeps,
       AtMostOneOfEach
  <2> QED
    BY <2>1, <2>2, <2>3 DEF RangeInv
<1>2. CASE TestEmpty(d)
  <2>1. RaceTypes'
    BY <1>2, ModRange DEF TestEmpty, RangeInv, RaceTypes, EnqueuerKeeps, DequeuerKeeps
  <2>2. EnqueuerKeeps'
    BY <1>2, ModRange DEF TestEmpty, RangeInv, RaceTypes, EnqueuerKeeps, DequeuerKeeps,
       AtMostOneOfEach
  <2>3. DequeuerKeeps'
    BY <1>2, ModRange DEF TestEmpty, RangeInv, RaceTypes, EnqueuerKeeps, DequeuerKeeps,
       AtMostOneOfEach
  <2> QED
    BY <2>1, <2>2, <2>3 DEF RangeInv
<1>3. CASE ReadFront(d)
  <2>1. RaceTypes'
    BY <1>3, ModRange DEF ReadFront, RangeInv, RaceTypes, EnqueuerKeeps, DequeuerKeeps
  <2>2. EnqueuerKeeps'
    BY <1>3, ModRange DEF ReadFront, RangeInv, RaceTypes, EnqueuerKeeps, DequeuerKeeps,
       AtMostOneOfEach
  <2>3. DequeuerKeeps'
    BY <1>3, ModRange DEF ReadFront, RangeInv, RaceTypes, EnqueuerKeeps, DequeuerKeeps,
       AtMostOneOfEach
  <2> QED
    BY <2>1, <2>2, <2>3 DEF RangeInv
<1>4. CASE ReadElement(d)
  <2>1. arg' \in [Threads -> Items \cup {null}]
    <3>1. reg[d] \in Slots => circularQueueElements[reg[d]] \in Items \cup {null}
      BY DEF RangeInv, RaceTypes
    <3> QED
      BY <1>4, <3>1 DEF ReadElement, RangeInv, RaceTypes
  <2>2. RaceTypes'
    <3>1. pc' \in [Threads -> EnqueuePoints \cup DequeuePoints]
      BY <1>4 DEF ReadElement, RangeInv, RaceTypes
    <3>2. UNCHANGED <<shared, reg, accepted, delivered, overlapped>>
      BY <1>4 DEF ReadElement
    <3>3. /\ \A e \in Enqueuers : pc'[e] \in EnqueuePoints
          /\ \A u \in Dequeuers : pc'[u] \in DequeuePoints
      BY <1>4 DEF ReadElement, RangeInv, RaceTypes
    <3> QED
      BY <2>1, <3>1, <3>2, <3>3 DEF RangeInv, RaceTypes
  <2>3. EnqueuerKeeps' /\ DequeuerKeeps'
    BY <1>4 DEF ReadElement, RangeInv, RaceTypes, EnqueuerKeeps, DequeuerKeeps,
       AtMostOneOfEach
  <2> QED
    BY <2>2, <2>3 DEF RangeInv
<1>5. CASE ReadFrontToClear(d)
  <2>1. RaceTypes'
    BY <1>5, ModRange DEF ReadFrontToClear, RangeInv, RaceTypes, EnqueuerKeeps,
       DequeuerKeeps
  <2>2. EnqueuerKeeps'
    BY <1>5, ModRange DEF ReadFrontToClear, RangeInv, RaceTypes, EnqueuerKeeps,
       DequeuerKeeps, AtMostOneOfEach
  <2>3. DequeuerKeeps'
    BY <1>5, ModRange DEF ReadFrontToClear, RangeInv, RaceTypes, EnqueuerKeeps,
       DequeuerKeeps, AtMostOneOfEach
  <2> QED
    BY <2>1, <2>2, <2>3 DEF RangeInv
<1>6. CASE Clear(d)
  <2>1. RaceTypes'
    BY <1>6, ModRange DEF Clear, RangeInv, RaceTypes, EnqueuerKeeps, DequeuerKeeps
  <2>2. EnqueuerKeeps'
    BY <1>6, ModRange DEF Clear, RangeInv, RaceTypes, EnqueuerKeeps, DequeuerKeeps,
       AtMostOneOfEach
  <2>3. DequeuerKeeps'
    BY <1>6, ModRange DEF Clear, RangeInv, RaceTypes, EnqueuerKeeps, DequeuerKeeps,
       AtMostOneOfEach
  <2> QED
    BY <2>1, <2>2, <2>3 DEF RangeInv
<1>7. CASE ReadFrontToAdvance(d)
  <2>1. RaceTypes'
    BY <1>7, ModRange DEF ReadFrontToAdvance, RangeInv, RaceTypes, EnqueuerKeeps,
       DequeuerKeeps
  <2>2. EnqueuerKeeps'
    BY <1>7, ModRange DEF ReadFrontToAdvance, RangeInv, RaceTypes, EnqueuerKeeps,
       DequeuerKeeps, AtMostOneOfEach
  <2>3. DequeuerKeeps'
    BY <1>7, ModRange DEF ReadFrontToAdvance, RangeInv, RaceTypes, EnqueuerKeeps,
       DequeuerKeeps, AtMostOneOfEach
  <2> QED
    BY <2>1, <2>2, <2>3 DEF RangeInv
<1>8. CASE WriteFront(d)
  <2>1. RaceTypes'
    BY <1>8, ModRange DEF WriteFront, RangeInv, RaceTypes, EnqueuerKeeps, DequeuerKeeps
  <2>2. EnqueuerKeeps'
    BY <1>8, ModRange DEF WriteFront, RangeInv, RaceTypes, EnqueuerKeeps, DequeuerKeeps,
       AtMostOneOfEach
  <2>3. DequeuerKeeps'
    BY <1>8, ModRange DEF WriteFront, RangeInv, RaceTypes, EnqueuerKeeps, DequeuerKeeps,
       AtMostOneOfEach
  <2> QED
    BY <2>1, <2>2, <2>3 DEF RangeInv
<1>9. CASE ReadSizeToDecrement(d)
  <2>1. RaceTypes'
    BY <1>9, ModRange DEF ReadSizeToDecrement, RangeInv, RaceTypes, EnqueuerKeeps,
       DequeuerKeeps
  <2>2. EnqueuerKeeps'
    BY <1>9, ModRange DEF ReadSizeToDecrement, RangeInv, RaceTypes, EnqueuerKeeps,
       DequeuerKeeps, AtMostOneOfEach
  <2>3. DequeuerKeeps'
    BY <1>9, ModRange DEF ReadSizeToDecrement, RangeInv, RaceTypes, EnqueuerKeeps,
       DequeuerKeeps, AtMostOneOfEach
  <2> QED
    BY <2>1, <2>2, <2>3 DEF RangeInv
<1>10. CASE WriteSizeDecremented(d)
  <2>1. RaceTypes'
    <3>1. pc' \in [Threads -> EnqueuePoints \cup DequeuePoints]
      BY <1>10 DEF WriteSizeDecremented, RangeInv, RaceTypes
    <3>2. arg' \in [Threads -> Items \cup {null}] /\ delivered' \in Seq(Items \cup {null})
      BY <1>10 DEF WriteSizeDecremented, RangeInv, RaceTypes
    <3> QED
      BY <1>10, <3>1, <3>2 DEF WriteSizeDecremented, RangeInv, RaceTypes, DequeuerKeeps
  <2>2. EnqueuerKeeps'
    BY <1>10, ModRange DEF WriteSizeDecremented, RangeInv, RaceTypes, EnqueuerKeeps,
       DequeuerKeeps, AtMostOneOfEach
  <2>3. DequeuerKeeps'
    BY <1>10, ModRange DEF WriteSizeDecremented, RangeInv, RaceTypes, EnqueuerKeeps,
       DequeuerKeeps, AtMostOneOfEach
  <2> QED
    BY <2>1, <2>2, <2>3 DEF RangeInv
<1> QED
  BY <1>1, <1>2, <1>3, <1>4, <1>5, <1>6, <1>7, <1>8, <1>9, <1>10 DEF DequeueStep
------------------------------------------------------------------------------
(***************************************************************************)
(* Where an item is.                                                       *)
(***************************************************************************)
LEMMA PlaceInit == Init => PlaceInv
BY DEF Init, PlaceInv, OnItsWayIn, InOneSlot, InHand, DeliveredOnce, Threads, Placing

\* What a step of a call does to the position of its thread.
LEMMA EnqueuerMoves ==
    ASSUME RangeInv, NEW e \in Enqueuers, EnqueueStep(e)
    PROVE  /\ \A t \in Threads \ {e} : pc'[t] = pc[t] /\ arg'[t] = arg[t]
           /\ delivered' = delivered
           /\ \/ accepted' = accepted
              \/ accepted' = Append(accepted, arg[e]) /\ arg[e] \in Items
           /\ pc[e] \in Placed =>
                 \/ pc'[e] \in Placed /\ arg'[e] = arg[e]
                 \/ accepted' = Append(accepted, arg[e])
<1> USE DEF Goto, Load, Call, Threads, EndEnqueue, Placed, RangeInv, RaceTypes,
EnqueuerKeeps
<1>1. CASE StartEnqueue(e) \/ TestFull(e) \/ ReadRear(e) \/ WriteRear(e) \/ ReadRearAgain(e)
  BY <1>1 DEF StartEnqueue, TestFull, ReadRear, WriteRear, ReadRearAgain, shared, history
<1>2. CASE Store(e) \/ ReadSizeToIncrement(e) \/ WriteSizeIncremented(e) \/ ReadRearForFront(e)
  BY <1>2 DEF Store, ReadSizeToIncrement, WriteSizeIncremented, ReadRearForFront,
              shared, history
<1>3. CASE TestFront(e) \/ WriteFrontFromRear(e)
  BY <1>3 DEF TestFront, WriteFrontFromRear, shared, history
<1> QED
  BY <1>1, <1>2, <1>3 DEF EnqueueStep

LEMMA DequeuerMoves ==
    ASSUME RangeInv, NEW d \in Dequeuers, DequeueStep(d)
    PROVE  /\ \A t \in Threads \ {d} : pc'[t] = pc[t] /\ arg'[t] = arg[t]
           /\ accepted' = accepted
<1> USE DEF Goto, Load, Call, Threads, RangeInv, RaceTypes, shared, history
<1>1. CASE StartDequeue(d) \/ TestEmpty(d) \/ ReadFront(d) \/ ReadElement(d)
  BY <1>1 DEF StartDequeue, TestEmpty, ReadFront, ReadElement
<1>2. CASE ReadFrontToClear(d) \/ Clear(d) \/ ReadFrontToAdvance(d) \/ WriteFront(d)
  BY <1>2 DEF ReadFrontToClear, Clear, ReadFrontToAdvance, WriteFront
<1>3. CASE ReadSizeToDecrement(d) \/ WriteSizeDecremented(d)
  BY <1>3 DEF ReadSizeToDecrement, WriteSizeDecremented
<1> QED
  BY <1>1, <1>2, <1>3 DEF DequeueStep

\* An item that was put in a slot stays one: enqueue always comes to its end.
LEMMA KnownStays ==
    ASSUME RangeInv, NEW x, Known(x),
           \/ \E e \in Enqueuers : EnqueueStep(e)
           \/ \E d \in Dequeuers : DequeueStep(d)
    PROVE  Known(x)'
<1>0. accepted \in Seq(Items)
  BY DEF RangeInv, RaceTypes
<1>1. CASE \E e \in Enqueuers : EnqueueStep(e)
  <2>1. PICK e \in Enqueuers : EnqueueStep(e)
    BY <1>1
  <2>2. Accepted(x) => Accepted(x)'
    BY <1>0, <2>1, EnqueuerMoves DEF Accepted
  <2>3. ASSUME NEW u \in Enqueuers, pc[u] \in Placed, arg[u] = x PROVE Known(x)'
    <3>1. CASE u # e \/ (pc'[e] \in Placed /\ arg'[e] = arg[e])
      BY <2>1, <2>3, <3>1, EnqueuerMoves DEF Known, Threads
    <3>2. CASE u = e /\ accepted' = Append(accepted, arg[e]) /\ arg[e] \in Items
      <4>1. accepted'[Len(accepted) + 1] = x /\ Len(accepted') = Len(accepted) + 1
        BY <1>0, <2>3, <3>2
      <4> QED
        BY <1>0, <4>1 DEF Known, Accepted
    <3> QED
      BY <2>1, <2>3, <3>1, <3>2, EnqueuerMoves DEF RangeInv, EnqueuerKeeps, Placed
  <2> QED
    BY <2>2, <2>3 DEF Known
<1>2. CASE \E d \in Dequeuers : DequeueStep(d)
  <2>1. PICK d \in Dequeuers : DequeueStep(d)
    BY <1>2
  <2>2. \A e \in Enqueuers : e # d /\ e \in Threads
    BY RaceAssumption DEF Threads
  <2> QED
    BY <2>1, <2>2, DequeuerMoves DEF Known, Accepted
<1> QED
  BY <1>1, <1>2

\* A statement that moves no item.
LEMMA QuietKeepsPlaces ==
    ASSUME PlaceInv, UNCHANGED <<circularQueueElements, arg, accepted, delivered>>,
           \A x : Known(x) => Known(x)',
           \A e \in Enqueuers : pc'[e] \in Placing => pc[e] \in Placing,
           \A d \in Dequeuers : pc[d] \in Clearing => pc'[d] \in Clearing /\ front' = front
    PROVE  PlaceInv'
<1>1. \A x : Accepted(x)' = Accepted(x) /\ Delivered(x)' = Delivered(x)
  BY DEF Accepted, Delivered
<1>2. OnItsWayIn' /\ InOneSlot'
  BY <1>1 DEF PlaceInv, OnItsWayIn, InOneSlot
<1>3. InHand' /\ DeliveredOnce'
  BY <1>1 DEF PlaceInv, InHand, DeliveredOnce
<1> QED
  BY <1>2, <1>3 DEF PlaceInv

LEMMA PlaceEnqueue ==
    ASSUME AtMostOneOfEach, RangeInv, PlaceInv, NEW e \in Enqueuers, EnqueueStep(e)
    PROVE  PlaceInv'
<1>0. /\ \A x : Known(x) => Known(x)'
      /\ \A u \in Enqueuers : u = e
      /\ \A d \in Dequeuers : d # e /\ d \in Threads
      /\ e \in Threads
  BY KnownStays, RaceAssumption DEF AtMostOneOfEach, Threads
<1>1. \A d \in Dequeuers : pc'[d] = pc[d] /\ arg'[d] = arg[d]
  BY <1>0, EnqueuerMoves
<1>2. /\ pc \in [Threads -> EnqueuePoints \cup DequeuePoints]
      /\ arg \in [Threads -> Items \cup {null}]
      /\ circularQueueElements \in [Slots -> Items \cup {null}]
      /\ accepted \in Seq(Items)
  BY DEF RangeInv, RaceTypes, Threads
<1>3. CASE ReadRear(e) \/ WriteRear(e) \/ ReadRearAgain(e) \/ ReadSizeToIncrement(e)
           \/ WriteSizeIncremented(e) \/ ReadRearForFront(e)
  <2>1. /\ UNCHANGED <<circularQueueElements, arg, accepted, delivered, front>>
        /\ pc'[e] \in Placing => pc[e] \in Placing
    BY <1>3, <1>0, <1>2
       DEF ReadRear, WriteRear, ReadRearAgain, ReadSizeToIncrement, WriteSizeIncremented,
           ReadRearForFront, Goto, shared, history, Placing
  <2> QED
    BY <1>0, <1>1, <2>1, QuietKeepsPlaces
<1>4. CASE StartEnqueue(e)
  <2>1. PICK item \in Items :
           /\ \A i \in 1 .. Len(accepted) : accepted[i] # item
           /\ arg' = [arg EXCEPT ![e] = item]
           /\ UNCHANGED <<circularQueueElements, accepted, delivered, front>>
    BY <1>4 DEF StartEnqueue, Call, shared
  <2>2. \A x : Accepted(x)' = Accepted(x) /\ Delivered(x)' = Delivered(x)
    BY <2>1 DEF Accepted, Delivered
  <2>3. OnItsWayIn'
    BY <1>0, <1>2, <2>1, <2>2 DEF OnItsWayIn, Accepted
  <2>4. InOneSlot' /\ DeliveredOnce'
    BY <1>0, <2>1, <2>2 DEF PlaceInv, InOneSlot, DeliveredOnce
  <2>5. InHand'
    BY <1>0, <1>1, <2>1, <2>2 DEF PlaceInv, InHand
  <2> QED
    BY <2>3, <2>4, <2>5 DEF PlaceInv
<1>5. CASE TestFull(e)
  <2>1. /\ UNCHANGED <<circularQueueElements, accepted, delivered, front>>
        /\ arg'[e] = arg[e] \/ pc'[e] = "idle"
        /\ pc[e] \in Placing
    BY <1>5, <1>0, <1>2 DEF TestFull, shared, Placing
  <2>2. \A x : Accepted(x)' = Accepted(x) /\ Delivered(x)' = Delivered(x)
    BY <2>1 DEF Accepted, Delivered
  <2>3. OnItsWayIn'
    BY <1>0, <2>1, <2>2 DEF PlaceInv, OnItsWayIn, Placing
  <2>4. InOneSlot' /\ DeliveredOnce'
    BY <1>0, <2>1, <2>2 DEF PlaceInv, InOneSlot, DeliveredOnce
  <2>5. InHand'
    BY <1>0, <1>1, <2>1, <2>2 DEF PlaceInv, InHand
  <2> QED
    BY <2>3, <2>4, <2>5 DEF PlaceInv
<1>6. CASE Store(e)
  <2>1. /\ pc[e] = "store" /\ pc'[e] = "readSizeToIncrement" /\ reg[e] \in Slots
        /\ arg[e] \in Items /\ arg[e] # null
        /\ circularQueueElements' = [circularQueueElements EXCEPT ![reg[e]] = arg[e]]
        /\ UNCHANGED <<arg, accepted, delivered, front>>
    BY <1>6, <1>0, <1>2, RaceAssumption
       DEF Store, Goto, history, RangeInv, EnqueuerKeeps, Items
  <2>2. \A x : Accepted(x)' = Accepted(x) /\ Delivered(x)' = Delivered(x)
    BY <2>1 DEF Accepted, Delivered
  <2>3. ~ Known(arg[e]) /\ Known(arg[e])'
    BY <1>0, <2>1 DEF PlaceInv, OnItsWayIn, Known, Placing, Placed
  <2>4. ~ Delivered(arg[e]) /\ \A i \in Slots : circularQueueElements[i] # arg[e]
    BY <2>1, <2>3 DEF PlaceInv, DeliveredOnce, InOneSlot, Delivered
  <2>5. OnItsWayIn' /\ DeliveredOnce'
    BY <1>0, <2>1, <2>2 DEF PlaceInv, OnItsWayIn, DeliveredOnce, Placing
  <2>6. InOneSlot'
    BY <1>0, <1>2, <2>1, <2>2, <2>3, <2>4 DEF PlaceInv, InOneSlot
  <2>7. InHand'
    <3>1. \A d \in Dequeuers : arg[d] # arg[e]
      BY <2>1, <2>3 DEF PlaceInv, InHand
    <3> QED
      BY <1>0, <1>1, <1>2, <2>1, <2>2, <3>1 DEF PlaceInv, InHand
  <2> QED
    BY <2>5, <2>6, <2>7 DEF PlaceInv
<1>7. CASE TestFront(e) \/ WriteFrontFromRear(e)
  <2>1. /\ UNCHANGED <<circularQueueElements, delivered>>
        /\ pc'[e] \notin Placing
        /\ \A d \in Dequeuers : pc[d] \in Clearing => front' = front
    BY <1>7, <1>0, <1>2
       DEF TestFront, WriteFrontFromRear, Goto, shared, Placing, Clearing, Advancing,
           RangeInv, EnqueuerKeeps, DequeuerKeeps
  <2>2. \A x : Delivered(x)' = Delivered(x)
    BY <2>1 DEF Delivered
  <2>3. OnItsWayIn'
    BY <1>0, <2>1 DEF OnItsWayIn
  <2>4. InOneSlot' /\ DeliveredOnce'
    BY <1>0, <2>1, <2>2 DEF PlaceInv, InOneSlot, DeliveredOnce
  <2>5. InHand'
    BY <1>0, <1>1, <2>1, <2>2 DEF PlaceInv, InHand
  <2> QED
    BY <2>3, <2>4, <2>5 DEF PlaceInv
<1> QED
  BY <1>3, <1>4, <1>5, <1>6, <1>7 DEF EnqueueStep

LEMMA PlaceDequeue ==
    ASSUME AtMostOneOfEach, RangeInv, PlaceInv, NEW d \in Dequeuers, DequeueStep(d)
    PROVE  PlaceInv'
<1>0. /\ \A x : Known(x) => Known(x)'
      /\ \A u \in Dequeuers : u = d
      /\ \A e \in Enqueuers : d # e /\ e \in Threads
      /\ d \in Threads
  BY KnownStays, RaceAssumption DEF AtMostOneOfEach, Threads
<1>1. \A e \in Enqueuers : pc'[e] = pc[e] /\ arg'[e] = arg[e]
  BY <1>0, DequeuerMoves
<1>2. /\ pc \in [Threads -> EnqueuePoints \cup DequeuePoints]
      /\ arg \in [Threads -> Items \cup {null}]
      /\ circularQueueElements \in [Slots -> Items \cup {null}]
      /\ delivered \in Seq(Items \cup {null})
      /\ accepted' = accepted
  BY DequeuerMoves DEF RangeInv, RaceTypes, Threads
<1>3. OnItsWayIn'
  BY <1>0, <1>1, <1>2 DEF PlaceInv, OnItsWayIn, Accepted
<1>4. CASE StartDequeue(d) \/ TestEmpty(d) \/ ReadFront(d) \/ ReadFrontToClear(d)
           \/ ReadFrontToAdvance(d) \/ WriteFront(d) \/ ReadSizeToDecrement(d)
  <2>1. /\ UNCHANGED <<circularQueueElements, arg, accepted, delivered>>
        /\ pc[d] \in Clearing => pc'[d] \in Clearing /\ front' = front
    BY <1>4, <1>0, <1>2
       DEF StartDequeue, TestEmpty, ReadFront, ReadFrontToClear, ReadFrontToAdvance,
           WriteFront, ReadSizeToDecrement, Goto, Call, shared, history, Clearing
  <2> QED
    BY <1>0, <1>1, <2>1, QuietKeepsPlaces
<1>5. CASE ReadElement(d)
  <2>1. /\ UNCHANGED <<circularQueueElements, delivered, front>>
        /\ arg[d] = null
        /\ \/ arg'[d] = null
           \/ pc'[d] \in Clearing /\ front \in Slots /\ arg'[d] = circularQueueElements[front]
    BY <1>5, <1>0, <1>2, RaceAssumption
       DEF ReadElement, shared, Clearing, Looking, RangeInv, DequeuerKeeps, Slots
  <2>2. \A x : Delivered(x)' = Delivered(x)
    BY <2>1 DEF Delivered
  <2>3. InOneSlot' /\ DeliveredOnce'
    BY <1>0, <2>1, <2>2 DEF PlaceInv, InOneSlot, DeliveredOnce
  <2>4. InHand'
    BY <1>0, <2>1, <2>2 DEF PlaceInv, InHand, InOneSlot
  <2> QED
    BY <1>3, <2>3, <2>4 DEF PlaceInv
<1>6. CASE Clear(d)
  <2>1. /\ pc[d] = "clear" /\ reg[d] = front /\ front \in Slots
        /\ circularQueueElements' = [circularQueueElements EXCEPT ![front] = null]
        /\ UNCHANGED <<arg, delivered, front>>
    BY <1>6 DEF Clear, Goto, history, RangeInv, RaceTypes, DequeuerKeeps, Clearing
  <2>2. \A x : Delivered(x)' = Delivered(x)
    BY <2>1 DEF Delivered
  <2>3. InOneSlot' /\ DeliveredOnce'
    BY <1>0, <1>2, <2>1, <2>2 DEF PlaceInv, InOneSlot, DeliveredOnce
  <2>4. InHand'
    BY <1>0, <1>2, <2>1, <2>2 DEF PlaceInv, InHand
  <2> QED
    BY <1>3, <2>3, <2>4 DEF PlaceInv
<1>7. CASE WriteSizeDecremented(d)
  <2>1. /\ pc[d] \notin Clearing
        /\ delivered' = Append(delivered, arg[d]) /\ arg[d] \in Items \cup {null}
        /\ arg' = [arg EXCEPT ![d] = null]
        /\ UNCHANGED circularQueueElements
    BY <1>7, <1>2, <1>0 DEF WriteSizeDecremented, Goto, Clearing
  <2>2. /\ Len(delivered') = Len(delivered) + 1
        /\ delivered'[Len(delivered) + 1] = arg[d]
        /\ \A i \in 1 .. Len(delivered) : delivered'[i] = delivered[i]
        /\ Len(delivered) \in Nat
    BY <1>2, <2>1
  <2>3. \A x : Delivered(x)' => Delivered(x) \/ x = arg[d]
    BY <2>2 DEF Delivered
  <2>4. InOneSlot'
    BY <1>0, <2>1, <2>3 DEF PlaceInv, InOneSlot, InHand
  <2>5. DeliveredOnce'
    BY <1>0, <2>1, <2>2 DEF PlaceInv, DeliveredOnce, InHand, Delivered
  <2>6. InHand'
    BY <1>0, <1>2, <2>1 DEF InHand
  <2> QED
    BY <1>3, <2>4, <2>5, <2>6 DEF PlaceInv
<1> QED
  BY <1>4, <1>5, <1>6, <1>7 DEF DequeueStep

------------------------------------------------------------------------------
(***************************************************************************)
(* The theorems about two racing threads.                                  *)
(***************************************************************************)
LEMMA RaceInvariant == AtMostOneOfEach => (Spec => [](RangeInv /\ PlaceInv))
<1> SUFFICES ASSUME AtMostOneOfEach PROVE Spec => [](RangeInv /\ PlaceInv)
  OBVIOUS
<1>1. Init => RangeInv /\ PlaceInv
  BY RangeInit, PlaceInit
<1>2. RangeInv /\ PlaceInv /\ [Next]_vars => (RangeInv /\ PlaceInv)'
  <2> SUFFICES ASSUME RangeInv, PlaceInv, [Next]_vars PROVE RangeInv' /\ PlaceInv'
    OBVIOUS
  <2>1. CASE \E e \in Enqueuers : EnqueueStep(e)
    BY <2>1, RangeEnqueue, PlaceEnqueue
  <2>2. CASE \E d \in Dequeuers : DequeueStep(d)
    BY <2>2, RangeDequeue, PlaceDequeue
  <2>3. CASE UNCHANGED vars
    <3>1. RangeInv'
      BY <2>3 DEF vars, shared, history, RangeInv, RaceTypes, EnqueuerKeeps, DequeuerKeeps
    <3>2. PlaceInv'
      <4>1. \A x : Known(x) => Known(x)'
        BY <2>3 DEF vars, shared, history, Known, Accepted
      <4> QED
        BY <2>3, <4>1, QuietKeepsPlaces DEF vars, shared, history
    <3> QED
      BY <3>1, <3>2
  <2> QED
    BY <2>1, <2>2, <2>3 DEF Next
<1> QED
  BY <1>1, <1>2, PTL DEF Spec

\* One enqueuer and one dequeuer never push a field out of its range, whatever
\* the length of the ring: their lost updates of currentSize leave it between
\* zero and maxSize, so isFull and isEmpty, which compare with ==, stay right
\* about the bounds.
THEOREM RaceKeepsRanges == AtMostOneOfEach => (Spec => []TypeOK)
<1> SUFFICES ASSUME AtMostOneOfEach PROVE Spec => []TypeOK
  OBVIOUS
<1>1. RangeInv /\ PlaceInv => TypeOK
  BY DEF RangeInv, RaceTypes, TypeOK
<1> QED
  BY <1>1, RaceInvariant, PTL

\* A name that dequeue hands out is never handed out again, whatever the length
\* of the ring and however the two threads interleave: front does not move
\* while a dequeuer reads and clears its slot.
THEOREM RaceNeverDuplicates == AtMostOneOfEach => (Spec => []NoDuplicateDelivery)
<1> SUFFICES ASSUME AtMostOneOfEach PROVE Spec => []NoDuplicateDelivery
  OBVIOUS
<1>1. RangeInv /\ PlaceInv => NoDuplicateDelivery
  BY DEF PlaceInv, DeliveredOnce, NoDuplicateDelivery
<1> QED
  BY <1>1, RaceInvariant, PTL
------------------------------------------------------------------------------
(***************************************************************************)
(* The places of the ring.                                                 *)
(***************************************************************************)
LEMMA PlaceValue ==
    ASSUME NEW f \in Slots, NEW k \in 1 .. MaxSize + 1
    PROVE  /\ Place(f, k) = IF f + k - 1 < MaxSize THEN f + k - 1 ELSE f + k - 1 - MaxSize
           /\ Place(f, k) \in Slots
<1>1. f \in Int /\ f + k - 1 \in 0 .. 2 * MaxSize - 1
  BY RaceAssumption DEF Slots
<1>2. MaxSize \in Nat \ {0}
  BY RaceAssumption
<1>3. (f + k - 1) % MaxSize = IF f + k - 1 < MaxSize THEN f + k - 1 ELSE f + k - 1 - MaxSize
  BY <1>1, <1>2
<1> QED
  BY <1>1, <1>2, <1>3 DEF Place, Slots

LEMMA FollowingValue ==
    ASSUME NEW i \in Slots \cup {-1}
    PROVE  /\ Following(i) = IF i + 1 = MaxSize THEN 0 ELSE i + 1
           /\ Following(i) \in Slots
<1>1. i \in Int /\ i + 1 \in 0 .. MaxSize
  BY RaceAssumption DEF Slots
<1>2. MaxSize \in Nat \ {0}
  BY RaceAssumption
<1>3. (i + 1) % MaxSize = IF i + 1 < MaxSize THEN i + 1 ELSE i + 1 - MaxSize
  BY <1>1, <1>2
<1> QED
  BY <1>1, <1>2, <1>3 DEF Following, Slots

\* The first place is the index counted from, and the last one precedes it.
LEMMA PlaceEnds ==
    ASSUME NEW f \in Slots
    PROVE  Place(f, 1) = f /\ Place(Following(f), MaxSize) = f
<1>1. MaxSize \in Nat \ {0} /\ f \in 0 .. MaxSize - 1
  BY RaceAssumption DEF Slots
<1>2. Place(f, 1) = IF f + 1 - 1 < MaxSize THEN f + 1 - 1 ELSE f + 1 - 1 - MaxSize
  BY <1>1, PlaceValue
<1>3. Following(f) \in Slots /\ Following(f) = IF f + 1 = MaxSize THEN 0 ELSE f + 1
  BY FollowingValue
<1>4. Place(Following(f), MaxSize)
        = IF Following(f) + MaxSize - 1 < MaxSize THEN Following(f) + MaxSize - 1
          ELSE Following(f) + MaxSize - 1 - MaxSize
  BY <1>1, <1>3, PlaceValue
<1> QED
  BY <1>1, <1>2, <1>3, <1>4

\* The next place is the following index, from whichever end it is counted.
LEMMA PlaceStep ==
    ASSUME NEW f \in Slots, NEW k \in 1 .. MaxSize
    PROVE  /\ Following(Place(f, k)) = Place(f, k + 1)
           /\ Place(Following(f), k) = Place(f, k + 1)
<1>1. MaxSize \in Nat \ {0} /\ f \in 0 .. MaxSize - 1 /\ k \in 1 .. MaxSize + 1
      /\ k + 1 \in 1 .. MaxSize + 1
  BY RaceAssumption DEF Slots
<1>2. Place(f, k) \in Slots
      /\ Place(f, k) = IF f + k - 1 < MaxSize THEN f + k - 1 ELSE f + k - 1 - MaxSize
  BY <1>1, PlaceValue
<1>3. Place(f, k + 1) = IF f + (k + 1) - 1 < MaxSize THEN f + (k + 1) - 1
                        ELSE f + (k + 1) - 1 - MaxSize
  BY <1>1, PlaceValue
<1>4. Following(Place(f, k)) = IF Place(f, k) + 1 = MaxSize THEN 0 ELSE Place(f, k) + 1
  BY <1>2, FollowingValue
<1>5. Following(f) \in Slots /\ Following(f) = IF f + 1 = MaxSize THEN 0 ELSE f + 1
  BY FollowingValue
<1>6. Place(Following(f), k)
        = IF Following(f) + k - 1 < MaxSize THEN Following(f) + k - 1
          ELSE Following(f) + k - 1 - MaxSize
  BY <1>1, <1>5, PlaceValue
<1>7. Following(Place(f, k)) = Place(f, k + 1)
  BY <1>1, <1>2, <1>3, <1>4
<1>8. Place(Following(f), k) = Place(f, k + 1)
  BY <1>1, <1>3, <1>5, <1>6
<1> QED
  BY <1>7, <1>8

\* One turn of the ring comes to every slot once.
LEMMA TurnInjective ==
    ASSUME NEW n \in Nat, NEW f \in 0 .. n - 1, NEW j \in 1 .. n, NEW k \in 1 .. n,
           (IF f + j - 1 < n THEN f + j - 1 ELSE f + j - 1 - n)
             = (IF f + k - 1 < n THEN f + k - 1 ELSE f + k - 1 - n)
    PROVE  j = k
OBVIOUS

LEMMA PlaceInjective ==
    ASSUME NEW f \in Slots, NEW j \in 1 .. MaxSize, NEW k \in 1 .. MaxSize,
           Place(f, j) = Place(f, k)
    PROVE  j = k
<1>1. /\ f \in 0 .. MaxSize - 1 /\ MaxSize \in Nat
      /\ j \in 1 .. MaxSize + 1 /\ k \in 1 .. MaxSize + 1
  BY RaceAssumption DEF Slots
<1>2. Place(f, j) = IF f + j - 1 < MaxSize THEN f + j - 1 ELSE f + j - 1 - MaxSize
  BY <1>1, PlaceValue
<1>3. Place(f, k) = IF f + k - 1 < MaxSize THEN f + k - 1 ELSE f + k - 1 - MaxSize
  BY <1>1, PlaceValue
<1>4. (IF f + j - 1 < MaxSize THEN f + j - 1 ELSE f + j - 1 - MaxSize)
        = (IF f + k - 1 < MaxSize THEN f + k - 1 ELSE f + k - 1 - MaxSize)
  BY <1>2, <1>3, Zenon
<1> QED
  BY <1>1, <1>4, TurnInjective

LEMMA PlaceCovers ==
    ASSUME NEW f \in Slots, NEW i \in Slots
    PROVE  \E k \in 1 .. MaxSize : Place(f, k) = i
<1> DEFINE k == IF i < f THEN i - f + 1 + MaxSize ELSE i - f + 1
<1>1. MaxSize \in Nat \ {0} /\ f \in 0 .. MaxSize - 1 /\ i \in 0 .. MaxSize - 1
  BY RaceAssumption DEF Slots
<1>2. k \in 1 .. MaxSize /\ k \in 1 .. MaxSize + 1
  BY <1>1
<1>3. Place(f, k) = IF f + k - 1 < MaxSize THEN f + k - 1 ELSE f + k - 1 - MaxSize
  BY <1>2, PlaceValue
<1>4. Place(f, k) = i
  BY <1>1, <1>2, <1>3
<1> QED
  BY <1>2, <1>4
------------------------------------------------------------------------------
(***************************************************************************)
(* What the ring holds.                                                    *)
(***************************************************************************)
\* An item put behind the last one.
LEMMA HoldsFilled ==
    ASSUME NEW cells \in [Slots -> Items \cup {null}], NEW f \in Slots,
           NEW items \in Seq(Items), NEW gone \in 0 .. Len(items), NEW item \in Items,
           Len(items) - gone < MaxSize, Holds(cells, f, items, gone)
    PROVE  Holds([cells EXCEPT ![Place(f, Len(items) - gone + 1)] = item],
                 f, Append(items, item), gone)
<1> DEFINE last == Len(items) - gone + 1
           filled == [cells EXCEPT ![Place(f, last)] = item]
           grown == Append(items, item)
<1>1. last \in 1 .. MaxSize /\ Len(items) \in Nat /\ MaxSize \in Nat
  BY RaceAssumption
<1>2. Len(grown) = Len(items) + 1 /\ grown[Len(items) + 1] = item
      /\ \A i \in 1 .. Len(items) : grown[i] = items[i]
  OBVIOUS
<1> SUFFICES ASSUME NEW k \in 1 .. MaxSize
             PROVE  filled[Place(f, k)]
                      = IF gone + k <= Len(grown) THEN grown[gone + k] ELSE null
  BY DEF Holds
<1>3. Place(f, k) \in Slots /\ Place(f, last) \in Slots
  BY <1>1, PlaceValue
<1>4. CASE k = last
  <2>1. filled[Place(f, k)] = item
    BY <1>3, <1>4
  <2>2. gone + k = Len(items) + 1
    BY <1>1, <1>4
  <2> QED
    BY <1>1, <1>2, <2>1, <2>2
<1>5. CASE k # last
  <2>1. filled[Place(f, k)] = cells[Place(f, k)]
    BY <1>1, <1>3, <1>5, PlaceInjective
  <2>2. cells[Place(f, k)] = IF gone + k <= Len(items) THEN items[gone + k] ELSE null
    BY DEF Holds
  <2>3. gone + k # Len(items) + 1 /\ gone + k \in Nat /\ gone + k >= 1
    BY <1>1, <1>5
  <2> HIDE DEF filled, grown
  <2> QED
    BY <1>1, <1>2, <2>1, <2>2, <2>3
<1> QED
  BY <1>4, <1>5

\* The first item, and what is left when it is taken out.
LEMMA HoldsFirst ==
    ASSUME NEW cells, NEW f \in Slots, NEW items \in Seq(Items),
           NEW gone \in 0 .. Len(items) - 1, Holds(cells, f, items, gone)
    PROVE  cells[f] = items[gone + 1]
<1>1. 1 \in 1 .. MaxSize /\ gone + 1 <= Len(items)
  BY RaceAssumption
<1>2. cells[Place(f, 1)] = IF gone + 1 <= Len(items) THEN items[gone + 1] ELSE null
  BY <1>1 DEF Holds
<1> QED
  BY <1>1, <1>2, PlaceEnds

LEMMA HoldsEmptied ==
    ASSUME NEW cells \in [Slots -> Items \cup {null}], NEW f \in Slots,
           NEW items \in Seq(Items), NEW gone \in 0 .. Len(items) - 1,
           Len(items) - gone <= MaxSize, Holds(cells, f, items, gone)
    PROVE  Holds([cells EXCEPT ![f] = null], Following(f), items, gone + 1)
<1> DEFINE emptied == [cells EXCEPT ![f] = null]
<1>1. Len(items) \in Nat /\ MaxSize \in Nat \ {0} /\ gone \in Nat /\ gone + 1 <= Len(items)
  BY RaceAssumption
<1>2. Place(f, 1) = f /\ Place(Following(f), MaxSize) = f
  BY PlaceEnds
<1>3. ASSUME NEW k \in 1 .. MaxSize
      PROVE  emptied[Place(Following(f), k)]
               = IF gone + 1 + k <= Len(items) THEN items[gone + 1 + k] ELSE null
  <2>1. CASE k = MaxSize
    <3>1. emptied[Place(Following(f), k)] = null
      BY <1>2, <2>1
    <3>2. ~ (gone + 1 + k <= Len(items))
      BY <1>1, <2>1
    <3> QED
      BY <3>1, <3>2
  <2>2. CASE k # MaxSize
    <3>1. k + 1 \in 1 .. MaxSize /\ 1 \in 1 .. MaxSize /\ k + 1 # 1
          /\ gone + (k + 1) = gone + 1 + k
      BY <1>1, <2>2
    <3>2. Place(Following(f), k) = Place(f, k + 1)
      BY PlaceStep
    <3>3. Place(f, k + 1) # f
      BY <1>2, <3>1, PlaceInjective
    <3>4. cells[Place(f, k + 1)]
            = IF gone + (k + 1) <= Len(items) THEN items[gone + (k + 1)] ELSE null
      BY <3>1 DEF Holds
    <3> QED
      BY <3>1, <3>2, <3>3, <3>4
  <2> QED
    BY <2>1, <2>2
<1> QED
  BY <1>1, <1>3 DEF Holds

\* As many slots are taken as there are items left.
LEMMA HoldsCounted ==
    ASSUME NEW cells \in [Slots -> Items \cup {null}], NEW f \in Slots,
           NEW items \in Seq(Items), NEW gone \in 0 .. Len(items),
           Len(items) - gone <= MaxSize, Holds(cells, f, items, gone)
    PROVE  Cardinality({i \in Slots : cells[i] # null}) = Len(items) - gone
<1> DEFINE n == Len(items) - gone
           taken == {i \in Slots : cells[i] # null}
           place == [k \in 1 .. n |-> Place(f, k)]
<1>1. n \in Nat /\ n <= MaxSize /\ MaxSize \in Nat /\ gone \in Nat /\ Len(items) \in Nat
  BY RaceAssumption
<1>2. \A k \in 1 .. MaxSize : Place(f, k) \in Slots
  BY <1>1, PlaceValue
<1>3. \A k \in 1 .. MaxSize : cells[Place(f, k)] # null <=> k <= n
  <2> SUFFICES ASSUME NEW k \in 1 .. MaxSize PROVE cells[Place(f, k)] # null <=> k <= n
    OBVIOUS
  <2>1. cells[Place(f, k)] = IF gone + k <= Len(items) THEN items[gone + k] ELSE null
    BY DEF Holds
  <2>2. gone + k <= Len(items) <=> k <= n
    BY <1>1
  <2>3. gone + k <= Len(items) => items[gone + k] \in Items
    BY <1>1
  <2>4. null \notin Items
    BY RaceAssumption DEF Items
  <2> QED
    BY <2>1, <2>2, <2>3, <2>4
<1>4. place \in [1 .. n -> taken]
  BY <1>1, <1>2, <1>3
<1>5. \A j, k \in 1 .. n : place[j] = place[k] => j = k
  BY <1>1, PlaceInjective
<1>6. \A i \in taken : \E k \in 1 .. n : place[k] = i
  <2> SUFFICES ASSUME NEW i \in taken PROVE \E k \in 1 .. n : place[k] = i
    OBVIOUS
  <2>1. PICK k \in 1 .. MaxSize : Place(f, k) = i
    BY PlaceCovers
  <2>2. k \in 1 .. n
    BY <1>1, <1>3, <2>1
  <2> QED
    BY <2>1, <2>2
<1> HIDE DEF place, taken
<1>7. place \in Bijection(1 .. n, taken)
  BY <1>4, <1>5, <1>6 DEF Bijection, Injection, Surjection, IsInjective
<1>8. IsFiniteSet(1 .. n) /\ Cardinality(1 .. n) = n
  <2> HIDE DEF n
  <2>1. n \in Int /\ 1 \in Int
    BY <1>1
  <2>2. IsFiniteSet(1 .. n) /\ Cardinality(1 .. n) = IF 1 > n THEN 0 ELSE n - 1 + 1
    BY <2>1, FS_Interval
  <2> QED
    BY <1>1, <2>1, <2>2
<1>9. Cardinality(taken) = n
  BY <1>7, <1>8, FS_Bijection DEF ExistsBijection
<1> QED
  BY <1>9 DEF taken
------------------------------------------------------------------------------
(***************************************************************************)
(* Calls that do not overlap.                                              *)
(***************************************************************************)
LEMMA SequentialInit == Init => SequentialInv
<1> SUFFICES ASSUME Init PROVE Sequential
  BY DEF SequentialInv, Init
<1>1. MaxSize \in Nat \ {0} /\ 0 \in Slots /\ -1 \in Slots \cup {-1}
  BY RaceAssumption DEF Slots
<1>2. Waiting = 0 /\ Len(accepted) = 0 /\ Len(delivered) = 0 /\ Base = 0
      /\ accepted \in Seq(Items) /\ delivered \in Seq(Items)
  BY DEF Init, Waiting, Base
<1>3. SequentialTypes
  BY <1>2 DEF Init, SequentialTypes, EnqueuePoints
<1>4. Holds(circularQueueElements, 0, accepted, 0)
  <2> SUFFICES ASSUME NEW k \in 1 .. MaxSize
               PROVE  circularQueueElements[Place(0, k)] = null /\ ~ (0 + k <= 0)
    BY <1>2 DEF Holds
  <2>1. k \in 1 .. MaxSize + 1
    BY <1>1
  <2>2. Place(0, k) \in Slots
    BY <1>1, <2>1, PlaceValue
  <2> QED
    BY <1>1, <2>2 DEF Init
<1>5. Following(-1) = Place(0, 0 + 1)
  BY <1>1 DEF Following, Place
<1>6. Settled
  BY <1>1, <1>2, <1>4, <1>5 DEF Init, Settled, Ring
<1>7. \A t \in Threads : ~ Busy(t)
  BY DEF Init, Busy
<1> QED
  BY <1>2, <1>3, <1>6, <1>7 DEF Sequential, Threads

\* While calls do not overlap, the other threads are between two calls.
Alone(t) ==
    /\ Sequential
    /\ \A u \in Threads \ {t} : pc[u] = "idle" /\ pc'[u] = "idle"
    /\ Busy(t) \/ Settled

\* Enough for a step of thread t: its fields, what it has delivered, its phase.
LEMMA AloneStep ==
    ASSUME NEW t \in Threads, Alone(t), SequentialTypes',
           \A i \in 1 .. Len(delivered') : delivered'[i] = accepted'[i],
           \/ pc'[t] = "idle" /\ Settled'
           \/ pc'[t] # "idle" /\ t \in Enqueuers /\ EnqueuePhase(t)'
           \/ pc'[t] # "idle" /\ t \in Dequeuers /\ DequeuePhase(t)'
    PROVE  Sequential'
<1>1. \A u \in Threads : Busy(u)' => u = t
  BY DEF Alone, Busy
<1>2. Quiescent' => Settled'
  BY DEF Quiescent, Busy
<1>3. \A e \in Enqueuers : Busy(e)' => EnqueuePhase(e)'
  BY <1>1, RaceAssumption DEF Threads, Busy
<1>4. \A d \in Dequeuers : Busy(d)' => DequeuePhase(d)'
  BY <1>1, RaceAssumption DEF Threads, Busy
<1> QED
  BY <1>1, <1>2, <1>3, <1>4 DEF Sequential

\* A phase of a call that moves only the position of its thread and the value
\* it has read, and no part of the queue.
Moves(t, to) == /\ pc' = [pc EXCEPT ![t] = to]
                /\ UNCHANGED <<arg, accepted, delivered, thrown>>

LEMMA TypesAfterMove ==
    ASSUME NEW t \in Threads, Sequential,
           NEW to \in EnqueuePoints \cup DequeuePoints, Moves(t, to),
           circularQueueElements' \in [Slots -> Items \cup {null}],
           front' \in Slots \cup {-1}, rear' \in Slots \cup {-1},
           reg' \in [Threads -> Int]
    PROVE  /\ SequentialTypes'
           /\ \A i \in 1 .. Len(delivered') : delivered'[i] = accepted'[i]
           /\ pc'[t] = to
BY DEF Sequential, SequentialTypes, Moves

LEMMA SequentialEnqueue ==
    ASSUME NEW e \in Enqueuers, Alone(e), EnqueueStep(e)
    PROVE  Sequential'
<1>0. /\ e \in Threads
      /\ Busy(e) => EnqueuePhase(e)
      /\ pc \in [Threads -> EnqueuePoints \cup DequeuePoints]
      /\ reg \in [Threads -> Int]
      /\ arg \in [Threads -> Items \cup {null}]
      /\ circularQueueElements \in [Slots -> Items \cup {null}]
      /\ front \in Slots \cup {-1} /\ rear \in Slots \cup {-1}
      /\ front \in Int /\ rear \in Int
      /\ accepted \in Seq(Items) /\ delivered \in Seq(Items)
      /\ Len(accepted) \in Nat /\ Len(delivered) \in Nat
      /\ MaxSize \in Nat \ {0}
      /\ Base \in Slots
  BY RaceAssumption DEF Alone, Sequential, SequentialTypes, Threads, Slots, Base
<1> USE DEF EnqueuePoints, Placing, Placed
<1>1. CASE StartEnqueue(e)
  <2>1. PICK item \in Items :
           /\ arg' = [arg EXCEPT ![e] = item] /\ pc[e] = "idle"
           /\ pc' = [pc EXCEPT ![e] = "testFull"]
           /\ UNCHANGED <<circularQueueElements, currentSize, front, rear, reg, accepted,
                          delivered, thrown>>
    BY <1>1 DEF StartEnqueue, Call, Goto, shared
  <2>2. Settled'
    BY <2>1 DEF Alone, Busy, Settled, Ring, Base, Waiting
  <2>3. SequentialTypes' /\ \A i \in 1 .. Len(delivered') : delivered'[i] = accepted'[i]
    BY <1>0, <2>1 DEF Alone, Sequential, SequentialTypes
  <2>4. EnqueuePhase(e)' /\ pc'[e] # "idle"
    BY <1>0, <2>1, <2>2 DEF EnqueuePhase
  <2> QED
    BY <1>0, <2>3, <2>4, AloneStep
<1>2. CASE TestFull(e)
  <2>1. Settled /\ UNCHANGED <<circularQueueElements, currentSize, front, rear, reg, accepted,
                               delivered>>
    BY <1>0, <1>2 DEF TestFull, shared, Busy, EnqueuePhase, Reads
  <2>2. Settled'
    BY <2>1 DEF Settled, Ring, Base, Waiting
  <2>3. CASE currentSize = MaxSize
    <3>1. /\ pc' = [pc EXCEPT ![e] = "idle"] /\ arg' = [arg EXCEPT ![e] = null]
          /\ thrown' = thrown \cup {"QueueFullException"}
      BY <1>2, <2>3 DEF TestFull
    <3>2. SequentialTypes' /\ \A i \in 1 .. Len(delivered') : delivered'[i] = accepted'[i]
      BY <1>0, <2>1, <3>1 DEF Alone, Sequential, SequentialTypes
    <3> QED
      BY <1>0, <2>2, <3>1, <3>2, AloneStep
  <2>4. CASE currentSize # MaxSize
    <3>1. Moves(e, "readRear")
      BY <1>2, <2>1, <2>4 DEF TestFull, Moves
    <3>2. SequentialTypes' /\ (\A i \in 1 .. Len(delivered') : delivered'[i] = accepted'[i])
          /\ pc'[e] = "readRear"
      BY <1>0, <2>1, <3>1, TypesAfterMove DEF Alone
    <3>3. Waiting' < MaxSize
      <4>1. Waiting \in 0 .. MaxSize /\ currentSize = Waiting
        BY <2>1 DEF Settled, Ring
      <4>2. Waiting' = Waiting
        BY <2>1 DEF Waiting
      <4> QED
        BY <1>0, <2>4, <4>1, <4>2
    <3>4. EnqueuePhase(e)'
      BY <1>0, <1>2, <2>2, <3>1, <3>2, <3>3 DEF TestFull, Moves, Busy, EnqueuePhase, Reads
    <3> QED
      BY <1>0, <3>2, <3>4, AloneStep
  <2> QED
    BY <2>3, <2>4
<1>3. CASE ReadRear(e)
  <2>1. /\ Moves(e, "writeRear") /\ reg' = [reg EXCEPT ![e] = rear]
        /\ pc[e] = "readRear"
        /\ UNCHANGED <<circularQueueElements, currentSize, front, rear>>
    BY <1>3 DEF ReadRear, Goto, Load, shared, history, Moves
  <2>2. SequentialTypes' /\ (\A i \in 1 .. Len(delivered') : delivered'[i] = accepted'[i])
        /\ pc'[e] = "writeRear"
    BY <1>0, <2>1, TypesAfterMove DEF Alone
  <2>3. EnqueuePhase(e)'
    BY <1>0, <2>1, <2>2 DEF Moves, Busy, EnqueuePhase, Reads, Settled, Ring, Base, Waiting
  <2> QED
    BY <1>0, <2>2, <2>3, AloneStep
<1>4. CASE WriteRear(e)
  <2>1. /\ Moves(e, "readRearAgain") /\ pc[e] = "writeRear"
        /\ rear' = Following(reg[e])
        /\ UNCHANGED <<circularQueueElements, currentSize, front, reg>>
    BY <1>4 DEF WriteRear, Goto, history, Moves, Following
  <2>2. /\ arg[e] \in Items /\ Settled /\ Waiting < MaxSize /\ reg[e] = rear
    BY <1>0, <2>1 DEF Busy, EnqueuePhase, Reads
  <2>3. rear' \in Slots
    BY <1>0, <2>1, <2>2, FollowingValue
  <2>4. SequentialTypes' /\ (\A i \in 1 .. Len(delivered') : delivered'[i] = accepted'[i])
        /\ pc'[e] = "readRearAgain"
    BY <1>0, <2>1, <2>3, TypesAfterMove DEF Alone
  <2>5. EnqueuePhase(e)'
    BY <1>0, <2>1, <2>2, <2>4 DEF Moves, EnqueuePhase, Reads, Settled, Ring, Base, Waiting
  <2> QED
    BY <1>0, <2>4, <2>5, AloneStep
<1>5. CASE ReadRearAgain(e)
  <2>1. /\ Moves(e, "store") /\ reg' = [reg EXCEPT ![e] = rear]
        /\ pc[e] = "readRearAgain"
        /\ UNCHANGED <<circularQueueElements, currentSize, front, rear>>
    BY <1>5 DEF ReadRearAgain, Goto, Load, shared, history, Moves
  <2>2. SequentialTypes' /\ (\A i \in 1 .. Len(delivered') : delivered'[i] = accepted'[i])
        /\ pc'[e] = "store"
    BY <1>0, <2>1, TypesAfterMove DEF Alone
  <2>3. EnqueuePhase(e)'
    BY <1>0, <2>1, <2>2 DEF Moves, Busy, EnqueuePhase, Reads, Ring, Base, Waiting
  <2> QED
    BY <1>0, <2>2, <2>3, AloneStep
<1>6. CASE Store(e)
  <2>1. /\ Moves(e, "readSizeToIncrement") /\ pc[e] = "store"
        /\ circularQueueElements' = [circularQueueElements EXCEPT ![reg[e]] = arg[e]]
        /\ UNCHANGED <<currentSize, front, rear, reg>>
    BY <1>6 DEF Store, Goto, history, Moves
  <2>2. /\ arg[e] \in Items /\ reg[e] = rear /\ Ring /\ Waiting < MaxSize
        /\ currentSize = Waiting /\ rear = Place(Base, Waiting + 1)
    BY <1>0, <2>1 DEF Busy, EnqueuePhase, Reads
  <2>3. /\ Waiting \in 0 .. MaxSize - 1 /\ Len(delivered) \in 0 .. Len(accepted)
        /\ Len(accepted) - Len(delivered) < MaxSize
        /\ Len(accepted) - Len(delivered) + 1 = Waiting + 1
        /\ Holds(circularQueueElements, Base, accepted, Len(delivered))
        /\ front = -1 <=> accepted = <<>>
    BY <1>0, <2>2 DEF Ring, Waiting
  <2>4. Holds([circularQueueElements EXCEPT ![Place(Base, Waiting + 1)] = arg[e]],
              Base, Append(accepted, arg[e]), Len(delivered))
    BY <1>0, <2>2, <2>3, HoldsFilled
  <2>5. Holds(circularQueueElements', Base, Append(accepted, arg[e]), Len(delivered))
    BY <2>1, <2>2, <2>4
  <2>6. SequentialTypes' /\ (\A i \in 1 .. Len(delivered') : delivered'[i] = accepted'[i])
        /\ pc'[e] = "readSizeToIncrement"
    BY <1>0, <2>1, <2>2, TypesAfterMove DEF Alone
  <2>7. Base' = Base /\ Waiting' = Waiting /\ arg' = arg /\ accepted' = accepted
        /\ delivered' = delivered
    BY <2>1 DEF Moves, Base, Waiting
  <2>8. EnqueuePhase(e)'
    BY <2>1, <2>2, <2>3, <2>5, <2>6, <2>7 DEF EnqueuePhase, Reads
  <2> QED
    BY <1>0, <2>6, <2>8, AloneStep
<1>7. CASE ReadSizeToIncrement(e)
  <2>1. /\ Moves(e, "writeSizeIncremented") /\ reg' = [reg EXCEPT ![e] = currentSize]
        /\ pc[e] = "readSizeToIncrement"
        /\ UNCHANGED <<circularQueueElements, currentSize, front, rear>>
    BY <1>7 DEF ReadSizeToIncrement, Goto, Load, shared, history, Moves
  <2>2. currentSize = Waiting /\ Waiting \in Int
    BY <1>0, <2>1 DEF Busy, EnqueuePhase, Reads, Waiting
  <2>3. SequentialTypes' /\ (\A i \in 1 .. Len(delivered') : delivered'[i] = accepted'[i])
        /\ pc'[e] = "writeSizeIncremented"
    BY <1>0, <2>1, <2>2, TypesAfterMove DEF Alone
  <2>4. EnqueuePhase(e)'
    BY <1>0, <2>1, <2>3 DEF Moves, Busy, EnqueuePhase, Reads, Base, Waiting
  <2> QED
    BY <1>0, <2>3, <2>4, AloneStep
<1>8. CASE WriteSizeIncremented(e)
  <2>1. /\ Moves(e, "testFront") /\ pc[e] = "writeSizeIncremented"
        /\ currentSize' = reg[e] + 1
        /\ UNCHANGED <<circularQueueElements, front, rear, reg>>
    BY <1>8 DEF WriteSizeIncremented, Goto, history, Moves
  <2>2. SequentialTypes' /\ (\A i \in 1 .. Len(delivered') : delivered'[i] = accepted'[i])
        /\ pc'[e] = "testFront"
    BY <1>0, <2>1, TypesAfterMove DEF Alone
  <2>3. EnqueuePhase(e)'
    BY <1>0, <2>1, <2>2 DEF Moves, Busy, EnqueuePhase, Reads, Base, Waiting
  <2> QED
    BY <1>0, <2>2, <2>3, AloneStep
<1>9. CASE TestFront(e) /\ front = -1
  <2>1. /\ Moves(e, "readRearForFront") /\ pc[e] = "testFront"
        /\ UNCHANGED <<circularQueueElements, currentSize, front, rear, reg>>
    BY <1>9 DEF TestFront, shared, Moves
  <2>2. SequentialTypes' /\ (\A i \in 1 .. Len(delivered') : delivered'[i] = accepted'[i])
        /\ pc'[e] = "readRearForFront"
    BY <1>0, <2>1, TypesAfterMove DEF Alone
  <2>3. EnqueuePhase(e)'
    BY <1>0, <1>9, <2>1, <2>2 DEF Moves, Busy, EnqueuePhase, Reads, Base, Waiting
  <2> QED
    BY <1>0, <2>2, <2>3, AloneStep
<1>10. CASE ReadRearForFront(e)
  <2>1. /\ Moves(e, "writeFrontFromRear") /\ reg' = [reg EXCEPT ![e] = rear]
        /\ pc[e] = "readRearForFront"
        /\ UNCHANGED <<circularQueueElements, currentSize, front, rear>>
    BY <1>10 DEF ReadRearForFront, Goto, Load, shared, history, Moves
  <2>2. SequentialTypes' /\ (\A i \in 1 .. Len(delivered') : delivered'[i] = accepted'[i])
        /\ pc'[e] = "writeFrontFromRear"
    BY <1>0, <2>1, TypesAfterMove DEF Alone
  <2>3. EnqueuePhase(e)'
    BY <1>0, <2>1, <2>2 DEF Moves, Busy, EnqueuePhase, Reads, Base, Waiting
  <2> QED
    BY <1>0, <2>2, <2>3, AloneStep
<1>11. CASE (TestFront(e) /\ front # -1) \/ WriteFrontFromRear(e)
  <2>1. /\ pc' = [pc EXCEPT ![e] = "idle"] /\ arg' = [arg EXCEPT ![e] = null]
        /\ accepted' = Append(accepted, arg[e])
        /\ UNCHANGED <<circularQueueElements, currentSize, rear, reg, delivered, thrown>>
        /\ \/ pc[e] = "testFront" /\ front # -1 /\ front' = front
           \/ pc[e] = "writeFrontFromRear" /\ front' = reg[e]
    BY <1>11 DEF TestFront, WriteFrontFromRear, Goto, EndEnqueue, shared
  <2>2. /\ arg[e] \in Items /\ Waiting \in 0 .. MaxSize - 1
        /\ front = -1 <=> accepted = <<>>
        /\ rear = Place(Base, Waiting + 1)
        /\ Holds(circularQueueElements, Base, Append(accepted, arg[e]), Len(delivered))
        /\ currentSize = Waiting + 1
        /\ pc[e] = "writeFrontFromRear" => front = -1 /\ reg[e] = rear
    BY <1>0, <2>1 DEF Busy, EnqueuePhase, Reads
  <2>3. front' \in Slots /\ front' # -1 /\ front' = Base
    <3>1. CASE front # -1
      BY <1>0, <2>1, <2>2, <3>1 DEF Base, Slots
    <3>2. CASE front = -1
      <4>1. front' = Place(0, Waiting + 1) /\ Base = 0 /\ Waiting = 0
        BY <1>0, <2>1, <2>2, <3>2 DEF Base, Waiting
      <4>2. 0 \in Slots /\ Place(0, 1) = 0
        BY <1>0, PlaceEnds DEF Slots
      <4> QED
        BY <4>1, <4>2
    <3> QED
      BY <3>1, <3>2
  <2>4. /\ accepted' \in Seq(Items) /\ Len(accepted') = Len(accepted) + 1
        /\ accepted' # <<>> /\ Waiting' = Waiting + 1
        /\ \A i \in 1 .. Len(accepted) : accepted'[i] = accepted[i]
    BY <1>0, <2>1, <2>2 DEF Waiting
  <2>5. SequentialTypes'
    BY <1>0, <2>1, <2>3, <2>4 DEF Alone, Sequential, SequentialTypes
  <2>6. \A i \in 1 .. Len(delivered') : delivered'[i] = accepted'[i]
    BY <1>0, <2>1, <2>2, <2>4 DEF Alone, Sequential, Waiting
  <2>7. Following(rear) = Place(Base, Waiting + 1 + 1)
    BY <1>0, <2>2, PlaceStep
  <2>8. Base' = Base
    BY <2>3 DEF Base
  <2>9. Ring'
    BY <1>0, <2>1, <2>2, <2>3, <2>4, <2>8 DEF Ring
  <2>10. Settled' /\ pc'[e] = "idle"
    BY <1>0, <2>1, <2>2, <2>4, <2>7, <2>8, <2>9 DEF Settled
  <2> QED
    BY <1>0, <2>5, <2>6, <2>10, AloneStep
<1> QED
  BY <1>1, <1>2, <1>3, <1>4, <1>5, <1>6, <1>7, <1>8, <1>9, <1>10, <1>11 DEF EnqueueStep

LEMMA SequentialDequeue ==
    ASSUME NEW d \in Dequeuers, Alone(d), DequeueStep(d)
    PROVE  Sequential'
<1>0. /\ d \in Threads
      /\ Busy(d) => DequeuePhase(d)
      /\ pc \in [Threads -> EnqueuePoints \cup DequeuePoints]
      /\ reg \in [Threads -> Int]
      /\ arg \in [Threads -> Items \cup {null}]
      /\ circularQueueElements \in [Slots -> Items \cup {null}]
      /\ front \in Slots \cup {-1} /\ rear \in Slots \cup {-1}
      /\ front \in Int /\ rear \in Int
      /\ accepted \in Seq(Items) /\ delivered \in Seq(Items)
      /\ Len(accepted) \in Nat /\ Len(delivered) \in Nat
      /\ MaxSize \in Nat \ {0}
      /\ Base \in Slots
  BY RaceAssumption DEF Alone, Sequential, SequentialTypes, Threads, Slots, Base
<1> USE DEF DequeuePoints, Looking, Clearing, Advancing, Leaving
<1>1. CASE StartDequeue(d)
  <2>1. /\ Moves(d, "testEmpty") /\ pc[d] = "idle"
        /\ UNCHANGED <<circularQueueElements, currentSize, front, rear, reg>>
    BY <1>1 DEF StartDequeue, Call, Goto, shared, Moves
  <2>2. Settled'
    BY <2>1 DEF Moves, Alone, Busy, Settled, Ring, Base, Waiting
  <2>3. SequentialTypes' /\ (\A i \in 1 .. Len(delivered') : delivered'[i] = accepted'[i])
        /\ pc'[d] = "testEmpty"
    BY <1>0, <2>1, TypesAfterMove DEF Alone
  <2> QED
    BY <1>0, <2>2, <2>3, AloneStep DEF DequeuePhase
<1>2. CASE TestEmpty(d)
  <2>1. /\ Settled /\ pc[d] = "testEmpty"
        /\ UNCHANGED <<circularQueueElements, currentSize, front, rear, reg, arg, accepted,
                       delivered>>
    BY <1>0, <1>2 DEF TestEmpty, shared, Busy, DequeuePhase, Reads
  <2>2. Settled'
    BY <2>1 DEF Settled, Ring, Base, Waiting
  <2>3. CASE currentSize = 0
    <3>1. /\ pc' = [pc EXCEPT ![d] = "idle"]
          /\ thrown' = thrown \cup {"QueueEmptyException"}
      BY <1>2, <2>3 DEF TestEmpty
    <3>2. SequentialTypes' /\ \A i \in 1 .. Len(delivered') : delivered'[i] = accepted'[i]
      BY <1>0, <2>1, <3>1 DEF Alone, Sequential, SequentialTypes, EnqueuePoints
    <3> QED
      BY <1>0, <2>2, <3>1, <3>2, AloneStep
  <2>4. CASE currentSize # 0
    <3>1. Moves(d, "readFront")
      BY <1>2, <2>1, <2>4 DEF TestEmpty, Moves
    <3>2. SequentialTypes' /\ (\A i \in 1 .. Len(delivered') : delivered'[i] = accepted'[i])
          /\ pc'[d] = "readFront"
      BY <1>0, <2>1, <3>1, TypesAfterMove DEF Alone
    <3>3. Waiting' > 0
      BY <1>0, <2>1, <2>4 DEF Settled, Ring, Waiting
    <3> QED
      BY <1>0, <2>2, <3>2, <3>3, AloneStep DEF DequeuePhase, Reads
  <2> QED
    BY <2>3, <2>4
<1>3. CASE ReadFront(d)
  <2>1. /\ Moves(d, "readElement") /\ reg' = [reg EXCEPT ![d] = front]
        /\ pc[d] = "readFront"
        /\ UNCHANGED <<circularQueueElements, currentSize, front, rear>>
    BY <1>3 DEF ReadFront, Goto, Load, shared, history, Moves
  <2>2. SequentialTypes' /\ (\A i \in 1 .. Len(delivered') : delivered'[i] = accepted'[i])
        /\ pc'[d] = "readElement"
    BY <1>0, <2>1, TypesAfterMove DEF Alone
  <2>3. DequeuePhase(d)'
    BY <1>0, <2>1, <2>2 DEF Moves, Busy, DequeuePhase, Reads, Settled, Ring, Base, Waiting
  <2> QED
    BY <1>0, <2>2, <2>3, AloneStep
<1>4. CASE ReadElement(d)
  <2>1. /\ pc[d] = "readElement"
        /\ UNCHANGED <<circularQueueElements, currentSize, front, rear, reg, accepted,
                       delivered>>
    BY <1>4 DEF ReadElement, shared
  <2>2. Settled /\ Waiting > 0 /\ reg[d] = front
    BY <1>0, <2>1 DEF Busy, DequeuePhase, Reads
  <2>3. /\ front \in Slots /\ Base = front
        /\ Len(delivered) \in 0 .. Len(accepted) - 1
        /\ Len(accepted) - Len(delivered) <= MaxSize
        /\ Holds(circularQueueElements, front, accepted, Len(delivered))
    BY <1>0, <2>2 DEF Settled, Ring, Waiting, Base
  <2>4. circularQueueElements[front] = accepted[Len(delivered) + 1]
    BY <1>0, <2>3, HoldsFirst
  <2>5. /\ pc' = [pc EXCEPT ![d] = "readFrontToClear"]
        /\ arg' = [arg EXCEPT ![d] = circularQueueElements[front]]
        /\ thrown' = thrown
    BY <1>4, <2>2, <2>3 DEF ReadElement
  <2>6. circularQueueElements[front] \in Items \cup {null}
    BY <1>0, <2>3
  <2>7. SequentialTypes' /\ \A i \in 1 .. Len(delivered') : delivered'[i] = accepted'[i]
    BY <1>0, <2>1, <2>5, <2>6 DEF Alone, Sequential, SequentialTypes
  <2>8. Settled' /\ Waiting' = Waiting
    BY <2>1, <2>2 DEF Settled, Ring, Base, Waiting
  <2>9. DequeuePhase(d)' /\ pc'[d] # "idle"
    BY <1>0, <2>1, <2>2, <2>4, <2>5, <2>8 DEF DequeuePhase, Reads
  <2> QED
    BY <1>0, <2>7, <2>9, AloneStep
<1>5. CASE ReadFrontToClear(d)
  <2>1. /\ Moves(d, "clear") /\ reg' = [reg EXCEPT ![d] = front]
        /\ pc[d] = "readFrontToClear"
        /\ UNCHANGED <<circularQueueElements, currentSize, front, rear>>
    BY <1>5 DEF ReadFrontToClear, Goto, Load, shared, history, Moves
  <2>2. SequentialTypes' /\ (\A i \in 1 .. Len(delivered') : delivered'[i] = accepted'[i])
        /\ pc'[d] = "clear"
    BY <1>0, <2>1, TypesAfterMove DEF Alone
  <2>3. DequeuePhase(d)'
    BY <1>0, <2>1, <2>2 DEF Moves, Busy, DequeuePhase, Reads, Settled, Ring, Base, Waiting
  <2> QED
    BY <1>0, <2>2, <2>3, AloneStep
<1>6. CASE Clear(d)
  <2>1. /\ Moves(d, "readFrontToAdvance") /\ pc[d] = "clear"
        /\ circularQueueElements' = [circularQueueElements EXCEPT ![reg[d]] = null]
        /\ UNCHANGED <<currentSize, front, rear, reg>>
    BY <1>6 DEF Clear, Goto, history, Moves
  <2>2. /\ Settled /\ Waiting > 0 /\ reg[d] = front
        /\ arg[d] = accepted[Len(delivered) + 1]
    BY <1>0, <2>1 DEF Busy, DequeuePhase, Reads
  <2>3. /\ front \in Slots /\ front # -1 /\ Base = front
        /\ Len(delivered) \in 0 .. Len(accepted) - 1
        /\ Len(accepted) - Len(delivered) <= MaxSize
        /\ Holds(circularQueueElements, front, accepted, Len(delivered))
        /\ Waiting \in 1 .. MaxSize /\ currentSize = Waiting
        /\ Following(rear) = Place(front, Waiting + 1)
    BY <1>0, <2>2 DEF Settled, Ring, Waiting, Base
  <2>4. Holds(circularQueueElements', Following(front), accepted, Len(delivered) + 1)
    BY <1>0, <2>1, <2>2, <2>3, HoldsEmptied
  <2>5. SequentialTypes' /\ (\A i \in 1 .. Len(delivered') : delivered'[i] = accepted'[i])
        /\ pc'[d] = "readFrontToAdvance"
    BY <1>0, <2>1, <2>2, TypesAfterMove DEF Alone
  <2>6. Waiting' = Waiting /\ arg' = arg /\ accepted' = accepted /\ delivered' = delivered
    BY <2>1 DEF Moves, Waiting
  <2>7. DequeuePhase(d)'
    BY <2>1, <2>2, <2>3, <2>4, <2>5, <2>6 DEF DequeuePhase, Reads
  <2> QED
    BY <1>0, <2>5, <2>7, AloneStep
<1>7. CASE ReadFrontToAdvance(d)
  <2>1. /\ Moves(d, "writeFront") /\ reg' = [reg EXCEPT ![d] = front]
        /\ pc[d] = "readFrontToAdvance"
        /\ UNCHANGED <<circularQueueElements, currentSize, front, rear>>
    BY <1>7 DEF ReadFrontToAdvance, Goto, Load, shared, history, Moves
  <2>2. SequentialTypes' /\ (\A i \in 1 .. Len(delivered') : delivered'[i] = accepted'[i])
        /\ pc'[d] = "writeFront"
    BY <1>0, <2>1, TypesAfterMove DEF Alone
  <2>3. DequeuePhase(d)'
    BY <1>0, <2>1, <2>2 DEF Moves, Busy, DequeuePhase, Reads, Waiting
  <2> QED
    BY <1>0, <2>2, <2>3, AloneStep
<1>8. CASE WriteFront(d)
  <2>1. /\ Moves(d, "readSizeToDecrement") /\ pc[d] = "writeFront"
        /\ front' = Following(reg[d])
        /\ UNCHANGED <<circularQueueElements, currentSize, rear, reg>>
    BY <1>8 DEF WriteFront, Goto, history, Moves, Following
  <2>2. /\ Waiting \in 1 .. MaxSize /\ currentSize = Waiting /\ front # -1 /\ reg[d] = front
        /\ arg[d] = accepted[Len(delivered) + 1]
        /\ Following(rear) = Place(front, Waiting + 1)
        /\ Holds(circularQueueElements, Following(front), accepted, Len(delivered) + 1)
    BY <1>0, <2>1 DEF Busy, DequeuePhase, Reads
  <2>3. front \in Slots /\ front' = Following(front) /\ front' \in Slots /\ front' # -1
    BY <1>0, <2>1, <2>2, FollowingValue DEF Slots
  <2>4. Following(rear) = Place(front', Waiting)
    BY <1>0, <2>2, <2>3, PlaceStep
  <2>5. SequentialTypes' /\ (\A i \in 1 .. Len(delivered') : delivered'[i] = accepted'[i])
        /\ pc'[d] = "readSizeToDecrement"
    BY <1>0, <2>1, <2>3, TypesAfterMove DEF Alone
  <2>6. Waiting' = Waiting /\ arg' = arg /\ accepted' = accepted /\ delivered' = delivered
    BY <2>1 DEF Moves, Waiting
  <2>7. DequeuePhase(d)'
    BY <2>1, <2>2, <2>3, <2>4, <2>5, <2>6 DEF DequeuePhase, Reads
  <2> QED
    BY <1>0, <2>5, <2>7, AloneStep
<1>9. CASE ReadSizeToDecrement(d)
  <2>1. /\ Moves(d, "writeSizeDecremented") /\ reg' = [reg EXCEPT ![d] = currentSize]
        /\ pc[d] = "readSizeToDecrement"
        /\ UNCHANGED <<circularQueueElements, currentSize, front, rear>>
    BY <1>9 DEF ReadSizeToDecrement, Goto, Load, shared, history, Moves
  <2>2. currentSize \in Int
    BY <1>0, <2>1 DEF Busy, DequeuePhase, Reads, Waiting
  <2>3. SequentialTypes' /\ (\A i \in 1 .. Len(delivered') : delivered'[i] = accepted'[i])
        /\ pc'[d] = "writeSizeDecremented"
    BY <1>0, <2>1, <2>2, TypesAfterMove DEF Alone
  <2>4. DequeuePhase(d)'
    BY <1>0, <2>1, <2>3 DEF Moves, Busy, DequeuePhase, Reads, Waiting
  <2> QED
    BY <1>0, <2>3, <2>4, AloneStep
<1>10. CASE WriteSizeDecremented(d)
  <2>1. /\ pc[d] = "writeSizeDecremented" /\ pc' = [pc EXCEPT ![d] = "idle"]
        /\ currentSize' = reg[d] - 1
        /\ delivered' = Append(delivered, arg[d])
        /\ arg' = [arg EXCEPT ![d] = null]
        /\ UNCHANGED <<circularQueueElements, front, rear, reg, accepted, thrown>>
    BY <1>10 DEF WriteSizeDecremented, Goto
  <2>2. /\ Waiting \in 1 .. MaxSize /\ reg[d] = Waiting /\ front # -1
        /\ arg[d] = accepted[Len(delivered) + 1]
        /\ Following(rear) = Place(front, Waiting)
        /\ Holds(circularQueueElements, front, accepted, Len(delivered) + 1)
    BY <1>0, <2>1 DEF Busy, DequeuePhase, Reads
  <2>3. Len(delivered) + 1 \in 1 .. Len(accepted) /\ arg[d] \in Items /\ accepted # <<>>
    BY <1>0, <2>2 DEF Waiting
  <2>4. /\ delivered' \in Seq(Items) /\ Len(delivered') = Len(delivered) + 1
        /\ \A i \in 1 .. Len(delivered) : delivered'[i] = delivered[i]
        /\ delivered'[Len(delivered) + 1] = arg[d]
    BY <1>0, <2>1, <2>3
  <2>5. Waiting' = Waiting - 1 /\ Base' = front
    BY <1>0, <2>1, <2>2, <2>4 DEF Waiting, Base
  <2>6. SequentialTypes'
    BY <1>0, <2>1, <2>4 DEF Alone, Sequential, SequentialTypes, EnqueuePoints
  <2>7. \A i \in 1 .. Len(delivered') : delivered'[i] = accepted'[i]
    BY <1>0, <2>1, <2>2, <2>4 DEF Alone, Sequential
  <2>8. Ring'
    BY <1>0, <2>1, <2>2, <2>3, <2>4, <2>5 DEF Ring
  <2>9. Settled' /\ pc'[d] = "idle"
    BY <1>0, <2>1, <2>2, <2>5, <2>8 DEF Settled
  <2> QED
    BY <1>0, <2>6, <2>7, <2>9, AloneStep
<1> QED
  BY <1>1, <1>2, <1>3, <1>4, <1>5, <1>6, <1>7, <1>8, <1>9, <1>10 DEF DequeueStep

\* Two calls that are in progress at the same time are noted.
LEMMA CallAlone ==
    ASSUME SequentialInv, NEW t \in Threads, ~ overlapped',
           \/ t \in Enqueuers /\ EnqueueStep(t)
           \/ t \in Dequeuers /\ DequeueStep(t)
    PROVE  Alone(t)
<1> DEFINE starts == /\ pc[t] = "idle"
                     /\ overlapped' = (overlapped \/ \E u \in Threads \ {t} : Busy(u))
<1>1. CASE t \in Enqueuers /\ EnqueueStep(t)
  <2>1. starts \/ (Busy(t) /\ overlapped' = overlapped)
    BY <1>1 DEF EnqueueStep, StartEnqueue, TestFull, ReadRear, WriteRear, ReadRearAgain,
       Store,
       ReadSizeToIncrement, WriteSizeIncremented, TestFront, ReadRearForFront,
       WriteFrontFromRear, Call, Goto, Busy, history
  <2>2. Sequential
    BY <2>1 DEF SequentialInv
  <2>3. pc \in [Threads -> EnqueuePoints \cup DequeuePoints]
    BY <2>2 DEF Sequential, SequentialTypes
  <2>4. \E to : pc' = [pc EXCEPT ![t] = to]
    BY <1>1 DEF EnqueueStep, StartEnqueue, TestFull, ReadRear, WriteRear, ReadRearAgain,
       Store,
       ReadSizeToIncrement, WriteSizeIncremented, TestFront, ReadRearForFront,
       WriteFrontFromRear, Call, Goto
  <2>5. \A u \in Threads \ {t} : pc'[u] = pc[u]
    BY <2>3, <2>4
  <2> QED
    BY <2>1, <2>2, <2>5 DEF Sequential, Alone, Busy, Quiescent
<1>2. CASE t \in Dequeuers /\ DequeueStep(t)
  <2>1. starts \/ (Busy(t) /\ overlapped' = overlapped)
    BY <1>2 DEF DequeueStep, StartDequeue, TestEmpty, ReadFront, ReadElement,
       ReadFrontToClear,
       Clear, ReadFrontToAdvance, WriteFront, ReadSizeToDecrement, WriteSizeDecremented,
       Call, Goto, Busy, history
  <2>2. Sequential
    BY <2>1 DEF SequentialInv
  <2>3. pc \in [Threads -> EnqueuePoints \cup DequeuePoints]
    BY <2>2 DEF Sequential, SequentialTypes
  <2>4. \E to : pc' = [pc EXCEPT ![t] = to]
    BY <1>2 DEF DequeueStep, StartDequeue, TestEmpty, ReadFront, ReadElement,
       ReadFrontToClear,
       Clear, ReadFrontToAdvance, WriteFront, ReadSizeToDecrement, WriteSizeDecremented,
       Call, Goto
  <2>5. \A u \in Threads \ {t} : pc'[u] = pc[u]
    BY <2>3, <2>4
  <2> QED
    BY <2>1, <2>2, <2>5 DEF Sequential, Alone, Busy, Quiescent
<1> QED
  BY <1>1, <1>2

LEMMA OverlapIsBoolean ==
    ASSUME overlapped \in BOOLEAN, [Next]_vars
    PROVE  overlapped' \in BOOLEAN
BY DEF Next, vars, history, EnqueueStep, StartEnqueue, TestFull, ReadRear, WriteRear,
   ReadRearAgain, Store, ReadSizeToIncrement, WriteSizeIncremented, TestFront,
   ReadRearForFront, WriteFrontFromRear, DequeueStep, StartDequeue, TestEmpty, ReadFront,
   ReadElement, ReadFrontToClear, Clear, ReadFrontToAdvance, WriteFront,
   ReadSizeToDecrement, WriteSizeDecremented, Call

LEMMA SequentialNext ==
    ASSUME SequentialInv, [Next]_vars
    PROVE  SequentialInv'
<1>1. overlapped' \in BOOLEAN
  BY OverlapIsBoolean DEF SequentialInv
<1> SUFFICES ASSUME ~ overlapped' PROVE Sequential'
  BY <1>1 DEF SequentialInv
<1>2. CASE \E e \in Enqueuers : EnqueueStep(e)
  <2>1. PICK e \in Enqueuers : EnqueueStep(e)
    BY <1>2
  <2>2. Alone(e)
    BY <2>1, CallAlone DEF Threads
  <2> QED
    BY <2>1, <2>2, SequentialEnqueue
<1>3. CASE \E d \in Dequeuers : DequeueStep(d)
  <2>1. PICK d \in Dequeuers : DequeueStep(d)
    BY <1>3
  <2>2. Alone(d)
    BY <2>1, CallAlone DEF Threads
  <2> QED
    BY <2>1, <2>2, SequentialDequeue
<1>4. CASE UNCHANGED vars
  <2>1. /\ UNCHANGED <<circularQueueElements, currentSize, front, rear, pc, reg, arg,
                       accepted, delivered, thrown, overlapped>>
        /\ Sequential
    BY <1>4 DEF vars, shared, history, SequentialInv
  <2>2. SequentialTypes' /\ (Quiescent' => Settled')
    BY <2>1 DEF Sequential, SequentialTypes, Quiescent, Busy, Settled, Ring, Base, Waiting
  <2>3. \A e \in Enqueuers : Busy(e)' => EnqueuePhase(e)'
    BY <2>1 DEF Sequential, Busy, EnqueuePhase, Reads, Settled, Ring, Base, Waiting
  <2>4. \A d \in Dequeuers : Busy(d)' => DequeuePhase(d)'
    BY <2>1 DEF Sequential, Busy, DequeuePhase, Reads, Settled, Ring, Base, Waiting
  <2> QED
    BY <2>1, <2>2, <2>3, <2>4 DEF Sequential, Busy
<1> QED
  BY <1>2, <1>3, <1>4 DEF Next

\* However many threads use the queue, calls that never overlapped leave it
\* exact: what was delivered is what was accepted first, in order, the size
\* counts the slots taken, and nothing but the declared exceptions was thrown.
THEOREM ExactUnlessOverlapping == Spec => []ExactWithoutOverlap
<1>1. Init => SequentialInv
  BY SequentialInit
<1>2. SequentialInv /\ [Next]_vars => SequentialInv'
  BY SequentialNext
<1>3. SequentialInv => ExactWithoutOverlap
  <2> SUFFICES ASSUME Sequential, Quiescent
               PROVE  /\ currentSize = Cardinality(Stored)
                      /\ currentSize = Len(accepted) - Len(delivered)
                      /\ delivered = SubSeq(accepted, 1, Len(delivered))
                      /\ thrown \subseteq {"QueueFullException", "QueueEmptyException"}
    BY DEF SequentialInv, ExactWithoutOverlap
  <2>1. /\ Settled
        /\ accepted \in Seq(Items) /\ delivered \in Seq(Items)
        /\ Len(accepted) \in Nat /\ Len(delivered) \in Nat
        /\ circularQueueElements \in [Slots -> Items \cup {null}]
        /\ Base \in Slots
        /\ \A i \in 1 .. Len(delivered) : delivered[i] = accepted[i]
        /\ thrown \subseteq {"QueueFullException", "QueueEmptyException"}
    BY RaceAssumption DEF Sequential, SequentialTypes, Base, Slots
  <2>2. /\ Len(delivered) \in 0 .. Len(accepted)
        /\ Len(accepted) - Len(delivered) <= MaxSize
        /\ Holds(circularQueueElements, Base, accepted, Len(delivered))
        /\ currentSize = Len(accepted) - Len(delivered)
    BY <2>1, RaceAssumption DEF Settled, Ring, Waiting
  <2>3. Cardinality(Stored) = Len(accepted) - Len(delivered)
    BY <2>1, <2>2, HoldsCounted DEF Stored
  <2>4. delivered = SubSeq(accepted, 1, Len(delivered))
    BY <2>1, <2>2
  <2> QED
    BY <2>1, <2>2, <2>3, <2>4
<1> QED
  BY <1>1, <1>2, <1>3, PTL DEF Spec

==============================================================================
