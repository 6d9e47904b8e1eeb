------------------------- MODULE CircularQueueProofs -------------------------
(***************************************************************************)
(* Proofs, for every maxSize and every set of elements, of what            *)
(* CircularQueue.tla states: the fields agree, vacated slots are null and  *)
(* the ring implements BoundedFifo.                                        *)
(***************************************************************************)
EXTENDS CircularQueue, SequenceTheorems, TLAPS

\* The inductive invariant: the three parts are proved together because the
\* effect of a call on the window of occupied slots needs all of them.
RingInv == TypeOK /\ RingConsistent /\ VacatedSlotsAreNull

------------------------------------------------------------------------------
\* The index after i is again an index, and its predecessor is i.
LEMMA FollowingRange ==
    ASSUME MaxSize # 0, NEW i \in Slots \cup {-1}
    PROVE  /\ Following(i) \in Slots
           /\ Following(i) = IF i + 1 = MaxSize THEN 0 ELSE i + 1
<1>1. i \in Int /\ i + 1 \in 0 .. 2 * MaxSize - 1
  BY MaxSizeAssumption DEF Slots
<1>2. MaxSize \in Nat \ {0}
  BY MaxSizeAssumption
<1>3. (i + 1) % MaxSize = IF i + 1 < MaxSize THEN i + 1 ELSE i + 1 - MaxSize
  BY <1>1, <1>2
<1>4. QED
  BY <1>1, <1>2, <1>3 DEF Following, Slots

\* The slot of the k-th element of a window that starts at f, without the modulo.
LEMMA WindowValue ==
    ASSUME MaxSize # 0, NEW f \in Slots, NEW k \in 1 .. MaxSize + 1
    PROVE  /\ (f + k - 1) % MaxSize = IF f + k - 1 < MaxSize THEN f + k - 1
                                                             ELSE f + k - 1 - MaxSize
           /\ (f + k - 1) % MaxSize \in Slots
<1>1. f \in Int /\ f + k - 1 \in 0 .. 2 * MaxSize - 1
  BY MaxSizeAssumption DEF Slots
<1>2. MaxSize \in Nat \ {0}
  BY MaxSizeAssumption
<1>3. (f + k - 1) % MaxSize = IF f + k - 1 < MaxSize THEN f + k - 1
                                                     ELSE f + k - 1 - MaxSize
  BY <1>1, <1>2
<1>4. QED
  BY <1>1, <1>2, <1>3 DEF Slots

\* The first place of the window is f itself.
LEMMA WindowFirst ==
    ASSUME MaxSize # 0, NEW f \in Slots
    PROVE  (f + (0 + 1) - 1) % MaxSize = f
  BY MaxSizeAssumption DEF Slots

\* Moving one place back in the window is moving to the following slot, ...
LEMMA WindowStep ==
    ASSUME MaxSize # 0, NEW f \in Slots, NEW k \in 1 .. MaxSize
    PROVE  /\ Following((f + k - 1) % MaxSize) = (f + k) % MaxSize
           /\ (Following(f) + k - 1) % MaxSize = (f + k) % MaxSize
<1> DEFINE s == (f + k - 1) % MaxSize
<1>1. /\ MaxSize \in Nat \ {0} /\ f \in 0 .. MaxSize - 1
      /\ k \in 1 .. MaxSize + 1 /\ k + 1 \in 1 .. MaxSize + 1
  BY MaxSizeAssumption DEF Slots
<1>2. s \in Slots /\ s = IF f + k - 1 < MaxSize THEN f + k - 1 ELSE f + k - 1 - MaxSize
  BY <1>1, WindowValue
<1>3. (f + (k + 1) - 1) % MaxSize = IF f + k < MaxSize THEN f + k ELSE f + k - MaxSize
  BY <1>1, WindowValue
<1>4. (f + k) % MaxSize = IF f + k < MaxSize THEN f + k ELSE f + k - MaxSize
  BY <1>1, <1>3
<1>5. Following(s) = IF s + 1 = MaxSize THEN 0 ELSE s + 1
  BY <1>2, FollowingRange
<1>6. Following(f) \in Slots /\ Following(f) = IF f + 1 = MaxSize THEN 0 ELSE f + 1
  BY FollowingRange
<1>7. (Following(f) + k - 1) % MaxSize
        = IF Following(f) + k - 1 < MaxSize THEN Following(f) + k - 1
                                            ELSE Following(f) + k - 1 - MaxSize
  BY <1>1, <1>6, WindowValue
<1>8. Following(s) = (f + k) % MaxSize
  BY <1>1, <1>2, <1>4, <1>5
<1>9. (Following(f) + k - 1) % MaxSize = (f + k) % MaxSize
  BY <1>1, <1>4, <1>6, <1>7
<1>10. QED
  BY <1>8, <1>9

\* ... and the places of one turn of the ring are distinct slots that exhaust it.
LEMMA WindowInjective ==
    ASSUME MaxSize # 0, NEW f \in Slots, NEW j \in 1 .. MaxSize, NEW k \in 1 .. MaxSize,
           (f + j - 1) % MaxSize = (f + k - 1) % MaxSize
    PROVE  j = k
<1>1. f \in 0 .. MaxSize - 1 /\ MaxSize \in Nat /\ j \in Int /\ k \in Int
  BY MaxSizeAssumption DEF Slots
<1>2. (f + j - 1) % MaxSize = IF f + j - 1 < MaxSize THEN f + j - 1 ELSE f + j - 1 - MaxSize
  BY <1>1, WindowValue
<1>3. (f + k - 1) % MaxSize = IF f + k - 1 < MaxSize THEN f + k - 1 ELSE f + k - 1 - MaxSize
  BY <1>1, WindowValue
<1>4. QED
  BY <1>1, <1>2, <1>3
------------------------------------------------------------------------------
\* The state the constructor leaves (CircularQueue.java, 33-37) satisfies the invariant.
LEMMA InitRingInv == Init => RingInv
<1> SUFFICES ASSUME Init PROVE RingInv
  OBVIOUS
<1>1. TypeOK
  <2>1. circularQueueElements \in [Slots -> Elements \cup {null}]
    BY DEF Init
  <2>2. currentSize \in 0 .. MaxSize /\ front \in Slots \cup {-1} /\ rear \in Slots \cup {-1}
    BY MaxSizeAssumption DEF Init
  <2>3. draining \in BOOLEAN
    BY DEF Init
  <2>4. returned \in [call : {"new", "enqueued", "full", "dequeued", "empty"},
                     value : Elements \cup {null}]
    BY DEF Init, Outcome
  <2>5. QED
    BY <2>1, <2>2, <2>3, <2>4 DEF TypeOK
<1>2. RingConsistent
  BY DEF Init, RingConsistent
<1>3. VacatedSlotsAreNull
  BY DEF Init, VacatedSlotsAreNull
<1>4. QED
  BY <1>1, <1>2, <1>3 DEF RingInv

\* An operation that leaves the four fields alone keeps the invariant.
LEMMA RefusalKeepsRingInv ==
    ASSUME RingInv, UNCHANGED <<circularQueueElements, currentSize, front, rear>>,
           draining' \in BOOLEAN,
           returned' = returned \/ returned' \in {Outcome("full", null), Outcome("empty", null)}
    PROVE  RingInv'
  BY DEF RingInv, TypeOK, RingConsistent, VacatedSlotsAreNull, SlotOf, Following, Outcome, Slots

\* enqueue moves rear to the slot just behind the window and initialises front.
LEMMA EnqueueWritesBehindWindow ==
    ASSUME RingInv, NEW item \in Elements, enqueue(item)
    PROVE  /\ MaxSize \in Nat \ {0} /\ currentSize + 1 \in 1 .. MaxSize
           /\ rear' \in Slots /\ rear' # -1
           /\ front' \in Slots /\ front' # -1
           /\ rear' = (front' + (currentSize + 1) - 1) % MaxSize
<1>1. MaxSize \in Nat \ {0} /\ currentSize + 1 \in 1 .. MaxSize
  BY MaxSizeAssumption DEF RingInv, TypeOK, enqueue, isFull
<1>2. rear \in Slots \cup {-1} /\ rear' = Following(rear) /\ rear' \in Slots /\ rear' # -1
  BY <1>1, FollowingRange, MaxSizeAssumption DEF RingInv, TypeOK, enqueue, Slots
<1>3. front' \in Slots /\ front' # -1
  BY <1>2, MaxSizeAssumption DEF RingInv, TypeOK, enqueue, Slots
<1>4. rear' = (front' + (currentSize + 1) - 1) % MaxSize
  <2>1. CASE front = -1
    <3>1. front' = rear'
      BY <2>1 DEF enqueue
    <3>2. currentSize = 0
      BY <2>1 DEF RingInv, RingConsistent
    <3>3. QED
      BY <1>1, <1>3, <3>1, <3>2, WindowFirst
  <2>2. CASE front # -1
    <3>1. front' = front /\ Following(rear) = SlotOf(currentSize + 1)
      BY <2>2 DEF RingInv, RingConsistent, enqueue
    <3>2. QED
      BY <1>2, <3>1 DEF SlotOf
  <2>3. QED
    BY <2>1, <2>2
<1>5. QED
  BY <1>1, <1>2, <1>3, <1>4

\* enqueue (70-81) keeps the four fields in agreement.
LEMMA EnqueueKeepsRingInv ==
    ASSUME RingInv, NEW item \in Elements, enqueue(item)
    PROVE  RingInv'
<1>1. MaxSize \in Nat \ {0} /\ currentSize + 1 \in 1 .. MaxSize
  BY EnqueueWritesBehindWindow
<1>2. rear' \in Slots /\ rear' # -1
  BY EnqueueWritesBehindWindow
<1>3. front' \in Slots /\ front' # -1
  BY EnqueueWritesBehindWindow
<1>4. TypeOK'
  BY <1>1, <1>2, <1>3, MaxSizeAssumption DEF RingInv, TypeOK, enqueue, Outcome
<1>5. rear' = (front' + (currentSize + 1) - 1) % MaxSize
  BY EnqueueWritesBehindWindow
<1>6. RingConsistent'
  <2>1. Following(rear') = (front' + (currentSize + 1)) % MaxSize
    BY <1>1, <1>3, <1>5, WindowStep
  <2>2. front' + (currentSize' + 1) - 1 = front' + (currentSize + 1)
    BY <1>1, <1>3 DEF Slots, enqueue, RingInv, TypeOK
  <2>3. QED
    BY <1>2, <1>3, <2>1, <2>2 DEF RingConsistent, Following, SlotOf
<1>7. VacatedSlotsAreNull'
  <2> SUFFICES ASSUME NEW i \in Slots, \A k \in 1 .. currentSize' : SlotOf(k)' # i
               PROVE  circularQueueElements'[i] = null
    BY DEF VacatedSlotsAreNull
  <2>1. currentSize' = currentSize + 1 /\ currentSize \in Nat
    BY <1>1 DEF enqueue, RingInv, TypeOK
  <2>2. currentSize + 1 \in 1 .. currentSize'
    BY <2>1
  <2>3. i # rear'
    BY <1>5, <2>2 DEF SlotOf
  <2>4. circularQueueElements'[i] = circularQueueElements[i]
    BY <2>3 DEF enqueue, RingInv, TypeOK
  <2>5. \A k \in 1 .. currentSize : SlotOf(k) # i
    <3>1. CASE front = -1
      BY <3>1 DEF RingInv, RingConsistent
    <3>2. CASE front # -1
      <4>1. front' = front
        BY <3>2 DEF enqueue
      <4>2. QED
        BY <2>1, <4>1 DEF SlotOf
    <3>3. QED
      BY <3>1, <3>2
  <2>6. QED
    BY <2>4, <2>5 DEF RingInv, VacatedSlotsAreNull
<1>8. QED
  BY <1>4, <1>6, <1>7 DEF RingInv

\* What dequeue and forEach do to the front slot (83-98) keeps them in agreement.
LEMMA TakeFrontKeepsRingInv ==
    ASSUME RingInv, TakeFront, draining' \in BOOLEAN
    PROVE  RingInv'
<1>1. /\ MaxSize \in Nat \ {0}
      /\ currentSize \in 1 .. MaxSize
      /\ currentSize' = currentSize - 1
  BY MaxSizeAssumption DEF RingInv, TypeOK, TakeFront, isEmpty
<1>2. front \in Slots /\ rear \in Slots /\ rear' = rear
  BY <1>1 DEF RingInv, TypeOK, RingConsistent, TakeFront
<1>3. front' = Following(front) /\ front' \in Slots /\ front' # -1
  BY <1>1, <1>2, FollowingRange, MaxSizeAssumption DEF TakeFront, Slots
<1>4. TypeOK'
  BY <1>1, <1>2, <1>3 DEF RingInv, TypeOK, TakeFront, Outcome
<1>5. \A k \in 1 .. MaxSize : SlotOf(k)' = SlotOf(k + 1)
  <2> SUFFICES ASSUME NEW k \in 1 .. MaxSize PROVE SlotOf(k)' = SlotOf(k + 1)
    OBVIOUS
  <2>1. (Following(front) + k - 1) % MaxSize = (front + k) % MaxSize
    BY <1>1, <1>2, WindowStep
  <2>2. (front + (k + 1) - 1) = front + k
    BY <1>2, MaxSizeAssumption DEF Slots
  <2>3. QED
    BY <1>3, <2>1, <2>2 DEF SlotOf
<1>6. RingConsistent'
  <2>1. Following(rear) = SlotOf(currentSize + 1)
    BY <1>1, <1>2 DEF RingInv, RingConsistent, Slots
  <2>2. (Following(front) + currentSize - 1) % MaxSize = (front + currentSize) % MaxSize
    BY <1>1, <1>2, WindowStep
  <2>3. /\ front + (currentSize + 1) - 1 = front + currentSize
        /\ front' + (currentSize' + 1) - 1 = front' + currentSize - 1
    BY <1>1, <1>2, <1>3 DEF Slots
  <2>4. SlotOf(currentSize + 1)' = Following(rear)
    BY <1>3, <2>1, <2>2, <2>3 DEF SlotOf
  <2>5. Following(rear)' = Following(rear)
    BY <1>2 DEF Following
  <2>6. QED
    BY <1>2, <1>3, <2>4, <2>5 DEF RingConsistent, Slots
<1>7. VacatedSlotsAreNull'
  <2> SUFFICES ASSUME NEW i \in Slots, \A k \in 1 .. currentSize' : SlotOf(k)' # i
               PROVE  circularQueueElements'[i] = null
    BY DEF VacatedSlotsAreNull
  <2>1. CASE i = front
    BY <2>1 DEF TakeFront, RingInv, TypeOK
  <2>2. CASE i # front
    <3>1. circularQueueElements'[i] = circularQueueElements[i]
      BY <2>2 DEF TakeFront, RingInv, TypeOK
    <3>2. SlotOf(1) = front
      BY <1>1, <1>2, WindowValue, MaxSizeAssumption DEF SlotOf, Slots
    <3>3. \A k \in 1 .. currentSize : SlotOf(k) # i
      <4> SUFFICES ASSUME NEW k \in 1 .. currentSize PROVE SlotOf(k) # i
        OBVIOUS
      <4>1. CASE k = 1
        BY <2>2, <3>2, <4>1
      <4>2. CASE k # 1
        <5>1. k - 1 \in 1 .. currentSize' /\ k - 1 \in 1 .. MaxSize
          BY <1>1, <4>2
        <5>2. SlotOf(k - 1)' = SlotOf((k - 1) + 1)
          BY <1>5, <5>1
        <5>3. (k - 1) + 1 = k
          BY <1>1
        <5>4. QED
          BY <5>1, <5>2, <5>3
      <4>3. QED
        BY <4>1, <4>2
    <3>4. QED
      BY <3>1, <3>3 DEF RingInv, VacatedSlotsAreNull
  <2>3. QED
    BY <2>1, <2>2
<1>8. QED
  BY <1>4, <1>6, <1>7 DEF RingInv

\* One step per call of the Java class.
LEMMA NextKeepsRingInv == RingInv /\ [Next]_vars => RingInv'
<1> SUFFICES ASSUME RingInv, [Next]_vars PROVE RingInv'
  OBVIOUS
<1>1. ASSUME NEW item \in Elements, enqueue(item) PROVE RingInv'
  BY <1>1, EnqueueKeepsRingInv
<1>2. CASE enqueueFull
  BY <1>2, RefusalKeepsRingInv DEF enqueueFull, RingInv, TypeOK
<1>3. CASE dequeue
  BY <1>3, TakeFrontKeepsRingInv DEF dequeue, RingInv, TypeOK
<1>4. CASE dequeueEmpty
  BY <1>4, RefusalKeepsRingInv DEF dequeueEmpty, RingInv, TypeOK
<1>5. CASE forEach
  BY <1>5, RefusalKeepsRingInv DEF forEach
<1>6. CASE forEachTurn
  BY <1>6, TakeFrontKeepsRingInv DEF forEachTurn, RingInv, TypeOK
<1>7. CASE forEachReturns
  BY <1>7, RefusalKeepsRingInv DEF forEachReturns
<1>8. CASE UNCHANGED vars
  BY <1>8, RefusalKeepsRingInv DEF vars, RingInv, TypeOK
<1>9. QED
  BY <1>1, <1>2, <1>3, <1>4, <1>5, <1>6, <1>7, <1>8 DEF Next

\* The invariant holds in every state of the ring buffer, for every maxSize.
THEOREM RingInvariance == Spec => []RingInv
<1>1. Init => RingInv
  BY InitRingInv
<1>2. RingInv /\ [Next]_vars => RingInv'
  BY NextKeepsRingInv
<1>3. QED
  BY <1>1, <1>2, PTL DEF Spec

\* currentSize, front and rear never disagree (CircularQueue.java, 57-98).
THEOREM RingConsistency == Spec => [](TypeOK /\ RingConsistent)
<1>1. RingInv => TypeOK /\ RingConsistent
  BY DEF RingInv
<1>2. QED
  BY <1>1, RingInvariance, PTL

\* The indexes stay inside the array and the size inside 0..maxSize after any
\* calls, for every maxSize, also for a queue of length zero.
THEOREM RingTypes == Spec => []TypeOK
<1>1. RingInv => TypeOK
  BY DEF RingInv
<1>2. QED
  BY <1>1, RingInvariance, PTL

\* A consumed slot keeps no reference to the file name it held (line 93).
THEOREM NoStaleReference == Spec => []VacatedSlotsAreNull
<1>1. RingInv => VacatedSlotsAreNull
  BY DEF RingInv
<1>2. QED
  BY <1>1, RingInvariance, PTL
------------------------------------------------------------------------------
Content == Elements \cup {null}

\* The abstraction function yields a sequence of currentSize elements.
LEMMA ContentsIsSequence ==
    ASSUME RingInv
    PROVE  /\ Contents \in Seq(Content)
           /\ Len(Contents) = currentSize
           /\ currentSize \in 0 .. MaxSize
           /\ \A k \in 1 .. currentSize : Contents[k] = circularQueueElements[SlotOf(k)]
<1>1. currentSize \in 0 .. MaxSize /\ currentSize \in Nat
  BY MaxSizeAssumption DEF RingInv, TypeOK
<1>2. \A k \in 1 .. currentSize : SlotOf(k) \in Slots
  <2> SUFFICES ASSUME NEW k \in 1 .. currentSize PROVE SlotOf(k) \in Slots
    OBVIOUS
  <2>1. MaxSize # 0 /\ k \in 1 .. MaxSize + 1 /\ front \in Slots
    BY <1>1, MaxSizeAssumption DEF RingInv, TypeOK, RingConsistent
  <2>2. QED
    BY <2>1, WindowValue DEF SlotOf
<1>3. Contents \in [1 .. currentSize -> Content]
  BY <1>2 DEF Contents, Content, RingInv, TypeOK
<1>4. QED
  BY <1>1, <1>3 DEF Contents

\* enqueue writes behind the window, so nothing already queued changes.
LEMMA EnqueueAppends ==
    ASSUME RingInv, RingInv', NEW item \in Elements, enqueue(item)
    PROVE  Contents' = Append(Contents, item)
<1>1. /\ MaxSize \in Nat \ {0}
      /\ currentSize \in Nat
      /\ currentSize + 1 \in 1 .. MaxSize
      /\ currentSize' = currentSize + 1
      /\ front' \in Slots
  BY MaxSizeAssumption DEF RingInv, TypeOK, RingConsistent, enqueue, isFull
<1>2. /\ Contents \in Seq(Content) /\ Len(Contents) = currentSize
      /\ \A k \in 1 .. currentSize : Contents[k] = circularQueueElements[SlotOf(k)]
  BY ContentsIsSequence
<1>3. Contents' \in Seq(Content) /\ Len(Contents') = currentSize'
      /\ \A k \in 1 .. currentSize' : Contents'[k] = circularQueueElements'[SlotOf(k)']
  <2>1. (RingInv => /\ Contents \in Seq(Content)
                    /\ Len(Contents) = currentSize
                    /\ \A k \in 1 .. currentSize :
                          Contents[k] = circularQueueElements[SlotOf(k)])'
    BY ContentsIsSequence, PTL
  <2>2. QED
    BY <2>1
<1>4. rear' = (front' + (currentSize + 1) - 1) % MaxSize
  BY EnqueueWritesBehindWindow
<1>5. \A k \in 1 .. currentSize :
          circularQueueElements'[(front' + k - 1) % MaxSize] = circularQueueElements[SlotOf(k)]
  <2> SUFFICES ASSUME NEW k \in 1 .. currentSize
               PROVE  circularQueueElements'[(front' + k - 1) % MaxSize]
                        = circularQueueElements[SlotOf(k)]
    OBVIOUS
  <2>1. front' = front /\ k \in 1 .. MaxSize /\ k # currentSize + 1
    BY <1>1 DEF RingInv, RingConsistent, enqueue
  <2>2. (front' + k - 1) % MaxSize # rear'
    BY <1>1, <1>4, <2>1, WindowInjective
  <2>3. QED
    BY <2>1, <2>2 DEF enqueue, RingInv, TypeOK, SlotOf
<1>6. circularQueueElements'[(front' + (currentSize + 1) - 1) % MaxSize] = item
  <2>1. rear' \in Slots
    BY EnqueueWritesBehindWindow
  <2>2. QED
    BY <1>4, <2>1 DEF enqueue, RingInv, TypeOK
<1>7. Append(Contents, item) \in Seq(Content) /\ Len(Append(Contents, item)) = currentSize'
  BY <1>1, <1>2 DEF Content
<1>8. ASSUME NEW k \in 1 .. currentSize' PROVE Contents'[k] = Append(Contents, item)[k]
  <2>1. Contents'[k] = circularQueueElements'[(front' + k - 1) % MaxSize]
    BY <1>3 DEF SlotOf
  <2>2. CASE k = currentSize + 1
    <3>1. Append(Contents, item)[k] = item
      BY <1>1, <1>2, <2>2
    <3>2. QED
      BY <1>6, <2>1, <2>2, <3>1
  <2>3. CASE k # currentSize + 1
    <3>1. k \in 1 .. currentSize
      BY <1>1, <2>3
    <3>2. Append(Contents, item)[k] = Contents[k]
      BY <1>2, <3>1
    <3>3. QED
      BY <1>2, <1>5, <2>1, <3>1, <3>2
  <2>4. QED
    BY <2>2, <2>3
<1>9. QED
  BY <1>3, <1>7, <1>8, SeqEqual

\* dequeue moves the window one place, so it removes exactly the oldest element.
LEMMA TakeFrontIsTail ==
    ASSUME RingInv, RingInv', TakeFront
    PROVE  /\ Contents # <<>>
           /\ Contents' = Tail(Contents)
           /\ circularQueueElements[front] = Head(Contents)
<1>1. /\ MaxSize \in Nat \ {0}
      /\ currentSize \in 1 .. MaxSize
      /\ currentSize' = currentSize - 1
      /\ front \in Slots
      /\ front' = Following(front)
  BY MaxSizeAssumption DEF RingInv, TypeOK, RingConsistent, TakeFront, isEmpty
<1>2. /\ Contents \in Seq(Content) /\ Len(Contents) = currentSize
      /\ \A k \in 1 .. currentSize : Contents[k] = circularQueueElements[SlotOf(k)]
  BY ContentsIsSequence
<1>3. Contents' \in Seq(Content) /\ Len(Contents') = currentSize'
      /\ \A k \in 1 .. currentSize' : Contents'[k] = circularQueueElements'[SlotOf(k)']
  <2>1. (RingInv => /\ Contents \in Seq(Content)
                    /\ Len(Contents) = currentSize
                    /\ \A k \in 1 .. currentSize :
                          Contents[k] = circularQueueElements[SlotOf(k)])'
    BY ContentsIsSequence, PTL
  <2>2. QED
    BY <2>1
<1>4. Contents # <<>>
  BY <1>1, <1>2
<1>5. circularQueueElements[front] = Head(Contents)
  <2>1. (front + 1 - 1) % MaxSize = front
    BY <1>1, WindowFirst
  <2>2. QED
    BY <1>1, <1>2, <1>4, <2>1 DEF SlotOf
<1>6. ASSUME NEW k \in 1 .. currentSize' PROVE Contents'[k] = Tail(Contents)[k]
  <2>1. k \in 1 .. MaxSize /\ k + 1 \in 1 .. currentSize /\ k + 1 \in 1 .. MaxSize /\ k # 0
    BY <1>1
  <2>2. (front' + k - 1) % MaxSize = (front + (k + 1) - 1) % MaxSize
    <3>1. (Following(front) + k - 1) % MaxSize = (front + k) % MaxSize
      BY <1>1, <2>1, WindowStep
    <3>2. front + (k + 1) - 1 = front + k
      BY <1>1 DEF Slots
    <3>3. QED
      BY <1>1, <3>1, <3>2
  <2>3. (front + (k + 1) - 1) % MaxSize # front
    <3>1. (front + (0 + 1) - 1) % MaxSize = front
      BY <1>1, WindowFirst
    <3>2. 0 + 1 \in 1 .. MaxSize /\ k + 1 # 0 + 1
      BY <1>1
    <3>3. QED
      BY <1>1, <2>1, <3>1, <3>2, WindowInjective
  <2>4. (front + (k + 1) - 1) % MaxSize \in Slots
    BY <1>1, <2>1, WindowValue
  <2>5. Contents'[k] = circularQueueElements[SlotOf(k + 1)]
    BY <1>3, <2>2, <2>3, <2>4 DEF SlotOf, TakeFront, RingInv, TypeOK
  <2>6. Tail(Contents)[k] = Contents[k + 1]
    BY <1>1, <1>2, <1>4
  <2>7. QED
    BY <1>2, <2>1, <2>5, <2>6
<1>7. Tail(Contents) \in Seq(Content) /\ Len(Tail(Contents)) = currentSize'
  BY <1>1, <1>2, <1>4, HeadTailProperties
<1>8. Contents' = Tail(Contents)
  BY <1>3, <1>6, <1>7, SeqEqual
<1>9. QED
  BY <1>4, <1>5, <1>8
------------------------------------------------------------------------------
\* A new ring buffer is an empty bounded queue.
LEMMA RefinementInit == Init => Fifo!Init
<1> SUFFICES ASSUME Init PROVE Fifo!Init
  OBVIOUS
<1>1. currentSize = 0
  BY DEF Init
<1>2. Contents = <<>>
  BY <1>1 DEF Contents
<1>3. returned = Fifo!Outcome("new", null)
  BY DEF Init, Outcome, Fifo!Outcome
<1>4. QED
  BY <1>2, <1>3 DEF Fifo!Init

\* A step that leaves the ring alone leaves the abstract queue alone.
LEMMA SameRingSameContents ==
    UNCHANGED <<circularQueueElements, currentSize, front, rear>> => Contents' = Contents
  BY DEF Contents, SlotOf

\* Every step of the ring buffer is a step of the bounded queue or changes
\* nothing its callers can see.
LEMMA RefinementStep ==
    RingInv /\ RingInv' /\ [Next]_vars => [Fifo!Next]_(Fifo!vars)
<1> SUFFICES ASSUME RingInv, RingInv', [Next]_vars PROVE [Fifo!Next]_(Fifo!vars)
  OBVIOUS
<1>1. Len(Contents) = currentSize /\ Contents \in Seq(Content)
  BY ContentsIsSequence
<1>2. ASSUME NEW item \in Elements, enqueue(item) PROVE Fifo!Enqueue(item)
  <2>1. currentSize < MaxSize
    BY <1>2, MaxSizeAssumption DEF enqueue, isFull, RingInv, TypeOK
  <2>2. QED
    BY <1>1, <1>2, <2>1, EnqueueAppends DEF enqueue, Fifo!Enqueue, Fifo!Outcome, Outcome
<1>3. CASE enqueueFull
  BY <1>1, <1>3, SameRingSameContents
  DEF enqueueFull, isFull, Fifo!RefuseFull, Fifo!Next, Fifo!Outcome, Outcome
<1>4. ASSUME TakeFront PROVE Fifo!Dequeue
  BY <1>4, TakeFrontIsTail DEF TakeFront, Fifo!Dequeue, Fifo!Outcome, Outcome
<1>5. CASE dequeueEmpty
  <2>1. Contents = <<>>
    BY <1>1, <1>5 DEF dequeueEmpty, isEmpty
  <2>2. QED
    BY <1>5, <2>1, SameRingSameContents
    DEF dequeueEmpty, Fifo!RefuseEmpty, Fifo!Next, Fifo!Outcome, Outcome
<1>6. CASE forEach \/ forEachReturns \/ UNCHANGED vars
  BY <1>6, SameRingSameContents DEF forEach, forEachReturns, vars, Fifo!vars
<1>7. QED
  BY <1>2, <1>3, <1>4, <1>5, <1>6 DEF Next, dequeue, forEachTurn, Fifo!Next

\* The ring buffer implements the bounded queue, whatever its size.
THEOREM RingImplementsFifo == Spec => ImplementsFifo
<1>1. Init => Fifo!Init
  BY RefinementInit
<1>2. RingInv /\ RingInv' /\ [Next]_vars => [Fifo!Next]_(Fifo!vars)
  BY RefinementStep
<1>3. Spec => []RingInv
  BY RingInvariance
<1>4. QED
  BY <1>1, <1>2, <1>3, PTL DEF Spec, ImplementsFifo, Fifo!Spec
==============================================================================
