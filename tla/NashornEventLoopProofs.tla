----------------------- MODULE NashornEventLoopProofs -----------------------
(***************************************************************************)
(* The event loop of nashorn-polyfill.js, for any number of threads on     *)
(* either side, any lines and any length of the array.                     *)
(***************************************************************************)
EXTENDS NashornEventLoop, FiniteSetTheorems, TLAPS

ClosedUnderOps == \A i \in 0 .. Capacity - 1 : Successor(i) \in 0 .. Capacity - 1

LEMMA SuccessorType == ClosedUnderOps
BY CapacityAssumption, SMT DEF ClosedUnderOps, Successor

\* What a call is told is the line of one of its own callbacks.
LEMMA AnswersAreLines ==
    ASSUME TypeOK, NEW t \in Threads
    PROVE  Answers(t) \subseteq Lines
<1>1. \A job \in jobs : job.line \in Lines
  BY DEF TypeOK
<1> QED
  BY <1>1 DEF Answers

LEMMA AnswersMatch ==
    ASSUME NEW t \in Threads
    PROVE  Answers(t) # {} <=> \E job \in jobs : job.thread = t /\ ~ job.late
BY Zenon DEF Answers

-----------------------------------------------------------------------------
(***************************************************************************)
(* Types.                                                                  *)
(***************************************************************************)
LEMMA TypeInit == Init => TypeOK
<1> SUFFICES ASSUME Init PROVE TypeOK
  OBVIOUS
<1>1. 0 \in 0 .. Capacity - 1 /\ 0 \in Nat
  BY CapacityAssumption
<1>2. active \in SUBSET Threads
  BY DEF Init
<1>3. first \in [Threads -> 0 .. Capacity - 1]
  BY <1>1 DEF Init
<1> QED
  BY <1>1, <1>2, <1>3 DEF Init, TypeOK, ResetEventLoop

LEMMA ParseType ==
    ASSUME TypeOK, NEW t \in Threads, Parse(t)
    PROVE  TypeOK'
<1> USE DEF Parse, Goto
<1>1. PICK l \in Lines :
         /\ line' = [line EXCEPT ![t] = l]
         /\ jobs' = {IF job.thread = t THEN Late(job) ELSE job : job \in jobs}
                     \cup {Job(t, l)}
  OBVIOUS
<1>2. \A job \in [thread : Threads, line : Lines, late : BOOLEAN] :
         Late(job) \in [thread : Threads, line : Lines, late : BOOLEAN]
  BY DEF Late
<1>3. Job(t, l) \in [thread : Threads, line : Lines, late : BOOLEAN]
  BY DEF Job
<1>4. jobs' \in SUBSET [thread : Threads, line : Lines, late : BOOLEAN]
  BY <1>1, <1>2, <1>3 DEF TypeOK
<1>5. scheduled' \in Nat
  BY SMT DEF TypeOK, SetImmediate
<1> QED
  BY <1>1, <1>4, <1>5 DEF TypeOK, eventLoop

LEMMA ProcessType ==
    ASSUME TypeOK, NEW t \in Threads, Process(t)
    PROVE  TypeOK'
<1> USE DEF TypeOK, eventLoop, timers, Goto
<1>1. CASE WaitForMessages(t)
  BY <1>1 DEF WaitForMessages, Return
<1>2. CASE RemoveFirst(t)
  BY <1>2 DEF RemoveFirst
<1>3. CASE RemovedFirst(t)
  <2>1. head' \in 0 .. Capacity - 1 /\ 0 \in 0 .. Capacity - 1
    BY <1>3, SuccessorType, CapacityAssumption DEF RemovedFirst, ClosedUnderOps
  <2> QED
    BY <1>3, <2>1 DEF RemovedFirst
<1>4. CASE Remaining(t)
  BY <1>4 DEF Remaining
<1>5. CASE Apply(t)
  <2>1. \A u \in Threads : result'[u] \in Lines \cup {NoLine}
    BY <1>5, AnswersAreLines DEF Apply
  <2>2. result' \in [Threads -> Lines \cup {NoLine}]
    BY <1>5, <2>1 DEF Apply
  <2>3. scheduled' \in Nat
    BY <1>5 DEF Apply, SetImmediate
  <2> QED
    BY <1>5, <2>2, <2>3 DEF Apply
<1> QED
  BY <1>1, <1>2, <1>3, <1>4, <1>5 DEF Process, ProcessNextMessages

LEMMA RunType ==
    ASSUME TypeOK, NEW p \in Pool, Run(p)
    PROVE  TypeOK'
<1> USE DEF TypeOK, callers
<1>1. CASE AddLast(p)
  BY <1>1 DEF AddLast
<1>2. CASE AddedLast(p)
  <2>1. tail' \in 0 .. Capacity - 1
    BY <1>2, SuccessorType DEF AddedLast, ClosedUnderOps
  <2> QED
    BY <1>2, <2>1 DEF AddedLast
<1> QED
  BY <1>1, <1>2 DEF Run

\* The variables of parse and of the event loop keep their types: the indices
\* of the ArrayDeque stay within its array, whatever the threads do.
THEOREM TypeCorrectness == Spec => []TypeOK
<1>1. TypeOK /\ [Next]_vars => TypeOK'
  <2> SUFFICES ASSUME TypeOK, [Next]_vars PROVE TypeOK'
    OBVIOUS
  <2>1. CASE UNCHANGED vars
    BY <2>1 DEF TypeOK, vars, callers, timers, eventLoop
  <2> QED
    BY <2>1, ParseType, ProcessType, RunType DEF Next
<1> QED
  BY TypeInit, <1>1, PTL DEF Spec

-----------------------------------------------------------------------------
(***************************************************************************)
(* Answers go to the call they belong to.                                  *)
(***************************************************************************)
\* A callback that is not late has the line its thread is parsing.
OwnCallbacks == \A job \in jobs : ~ job.late => job.line = line[job.thread]

OwnInv == TypeOK /\ OwnCallbacks /\ AnswerIsOwn

LEMMA OwnParse ==
    ASSUME OwnInv, NEW t \in Threads, Parse(t)
    PROVE  OwnCallbacks' /\ AnswerIsOwn'
<1>1. PICK l \in Lines :
         /\ line' = [line EXCEPT ![t] = l]
         /\ jobs' = {IF job.thread = t THEN Late(job) ELSE job : job \in jobs}
                     \cup {Job(t, l)}
  BY DEF Parse
<1>2. result' = [result EXCEPT ![t] = NoLine]
  BY DEF Parse
<1>3. line'[t] = l /\ \A u \in Threads : u # t => line'[u] = line[u]
  BY <1>1 DEF OwnInv, TypeOK
<1>4. ASSUME NEW job \in jobs', ~ job.late PROVE job.line = line'[job.thread]
  <2>1. CASE job = Job(t, l)
    BY <2>1, <1>3 DEF Job
  <2>2. CASE job # Job(t, l)
    <3>1. PICK old \in jobs : job = IF old.thread = t THEN Late(old) ELSE old
      BY <1>1, <2>2
    <3>2. old \in [thread : Threads, line : Lines, late : BOOLEAN]
      BY DEF OwnInv, TypeOK
    <3>3. Late(old).late
      BY <3>2 DEF Late
    <3>4. old.thread # t /\ job = old
      BY <3>1, <3>3, <1>4
    <3> QED
      BY <3>2, <3>4, <1>3, <1>4 DEF OwnInv, OwnCallbacks
  <2> QED
    BY <2>1, <2>2
<1>5. OwnCallbacks'
  BY <1>4 DEF OwnCallbacks
<1>6. AnswerIsOwn'
  BY <1>2, <1>3 DEF OwnInv, AnswerIsOwn, TypeOK
<1> QED
  BY <1>5, <1>6

LEMMA OwnProcess ==
    ASSUME OwnInv, NEW t \in Threads, Process(t)
    PROVE  OwnCallbacks' /\ AnswerIsOwn'
<1> USE DEF OwnInv, OwnCallbacks, AnswerIsOwn
<1>1. CASE WaitForMessages(t)
  BY <1>1 DEF WaitForMessages
<1>2. CASE RemoveFirst(t)
  BY <1>2 DEF RemoveFirst
<1>3. CASE RemovedFirst(t)
  BY <1>3 DEF RemovedFirst
<1>4. CASE Remaining(t)
  BY <1>4 DEF Remaining
<1>5. CASE Apply(t)
  <2>1. line' = line /\ jobs' = {}
    BY <1>5 DEF Apply
  <2>2. \A u \in Threads : Answers(u) \subseteq {line[u]}
    BY DEF Answers
  <2>3. \A u \in Threads : result'[u] = result[u] \/ result'[u] \in Answers(u)
    BY <1>5 DEF Apply
  <2> QED
    BY <2>1, <2>2, <2>3
<1> QED
  BY <1>1, <1>2, <1>3, <1>4, <1>5 DEF Process, ProcessNextMessages

\* A late answer never becomes that of a later line, for any number of
\* threads: a call is told the line it was made with, or nothing.
THEOREM AnswersAreOwn == Spec => []AnswerIsOwn
<1>1. Init => OwnInv
  BY TypeInit DEF Init, OwnInv, OwnCallbacks, AnswerIsOwn
<1>2. OwnInv /\ [Next]_vars => OwnInv'
  <2> SUFFICES ASSUME OwnInv, [Next]_vars PROVE OwnCallbacks' /\ AnswerIsOwn' /\ TypeOK'
    BY DEF OwnInv
  <2>1. TypeOK'
    BY ParseType, ProcessType, RunType
       DEF OwnInv, Next, TypeOK, vars, callers, timers, eventLoop
  <2>2. CASE UNCHANGED vars
    BY <2>1, <2>2 DEF OwnInv, OwnCallbacks, AnswerIsOwn, vars, callers
  <2>3. CASE \E p \in Pool : Run(p)
    BY <2>1, <2>3 DEF Run, AddLast, AddedLast, OwnInv, OwnCallbacks, AnswerIsOwn, callers
  <2> QED
    BY <2>1, <2>2, <2>3, OwnParse, OwnProcess DEF Next
<1>3. OwnInv => AnswerIsOwn
  BY DEF OwnInv
<1> QED
  BY <1>1, <1>2, <1>3, PTL DEF Spec

-----------------------------------------------------------------------------
(***************************************************************************)
(* Callbacks that wait have a flush that will run them.                    *)
(***************************************************************************)
OneAdds == \A p, q \in adding : p = q

Flushing == \E t \in Threads : pc[t] \in {"removing", "size", "apply"}

\* A thread that removes a message which is in the array but not yet counted
\* makes the deque look full, and then empty when tail moves on: by then it
\* has the flush in its hands.
UncountedIsTaken ==
    adding # {} /\ Successor(tail) = head /\ jobs # {} => scheduled > 0 \/ Flushing

FlushInv ==
    TypeOK /\ (~ overlap => OneAdds /\ UncountedIsTaken /\ (jobs # {} => FlushPending))

LEMMA RoomToAdd ==
    ASSUME TypeOK, Size < Capacity - 1
    PROVE  Successor(tail) # head
BY CapacityAssumption, SMT DEF TypeOK, Size, Successor

LEMMA FlushParse ==
    ASSUME FlushInv, NEW t \in Threads, Parse(t)
    PROVE  FlushInv'
<1>1. TypeOK'
  BY ParseType DEF FlushInv
<1>2. overlap' = overlap /\ adding' = adding /\ head' = head /\ tail' = tail
  BY DEF Parse, eventLoop
<1>3. Flushing => Flushing'
  BY DEF Parse, Goto, Flushing, FlushInv, TypeOK
<1>4. CASE jobs = {}
  <2>1. scheduled' > 0
    BY <1>4, SMT DEF Parse, SetImmediate, FlushInv, TypeOK
  <2> QED
    BY <1>1, <1>2, <2>1 DEF FlushInv, OneAdds, UncountedIsTaken, FlushPending
<1>5. CASE jobs # {}
  <2>1. scheduled' = scheduled
    BY <1>5 DEF Parse
  <2> QED
    BY <1>1, <1>2, <1>3, <1>5, <2>1
       DEF FlushInv, OneAdds, UncountedIsTaken, FlushPending, Flushing
<1> QED
  BY <1>4, <1>5

LEMMA FlushProcess ==
    ASSUME FlushInv, NEW t \in Threads, Process(t)
    PROVE  FlushInv'
<1>1. TypeOK'
  BY ProcessType DEF FlushInv
<1>2. adding' = adding /\ tail' = tail /\ (~ overlap' => ~ overlap)
  <2>1. adding' = adding /\ tail' = tail
    BY DEF Process, WaitForMessages, ProcessNextMessages, RemoveFirst, RemovedFirst,
           Remaining, Apply, timers, eventLoop
  <2>2. CASE RemoveFirst(t)
    BY <2>1, <2>2, Zenon DEF RemoveFirst
  <2>3. CASE ~ RemoveFirst(t)
    <3>1. overlap' = overlap
      BY <2>3 DEF Process, WaitForMessages, ProcessNextMessages, RemovedFirst, Remaining, Apply
    <3> QED
      BY <2>1, <3>1
  <2> QED
    BY <2>2, <2>3
<1>3. CASE RemovedFirst(t) \/ Remaining(t)
  <2>1. pc'[t] \in {"size", "apply"}
    BY <1>3 DEF RemovedFirst, Remaining, Goto, FlushInv, TypeOK
  <2>2. Flushing'
    BY <2>1 DEF Flushing
  <2> QED
    BY <1>1, <1>2, <2>2 DEF FlushInv, OneAdds, UncountedIsTaken, FlushPending, Flushing
<1>4. CASE Apply(t)
  <2>1. jobs' = {}
    BY <1>4 DEF Apply
  <2> QED
    BY <1>1, <1>2, <2>1 DEF FlushInv, OneAdds, UncountedIsTaken
<1>5. CASE WaitForMessages(t) \/ RemoveFirst(t)
  <2>1. scheduled' = scheduled /\ head' = head /\ jobs' = jobs
    BY <1>5 DEF WaitForMessages, RemoveFirst, timers, eventLoop
  <2>2. pc[t] \in {"wait", "remove"} /\ \A u \in Threads : u # t => pc'[u] = pc[u]
    BY <1>5 DEF WaitForMessages, Return, RemoveFirst, Goto, FlushInv, TypeOK
  <2>3. Flushing => Flushing'
    BY <2>2 DEF Flushing
  <2> QED
    BY <1>1, <1>2, <2>1, <2>3 DEF FlushInv, OneAdds, UncountedIsTaken, FlushPending, Flushing
<1> QED
  BY <1>3, <1>4, <1>5 DEF Process, ProcessNextMessages

LEMMA FlushRun ==
    ASSUME FlushInv, NEW p \in Pool, Run(p)
    PROVE  FlushInv'
<1>1. TypeOK'
  BY RunType DEF FlushInv
<1>2. pc' = pc /\ jobs' = jobs /\ head' = head /\ (~ overlap' => ~ overlap)
  <2>1. pc' = pc /\ jobs' = jobs /\ head' = head
    BY DEF Run, AddLast, AddedLast, callers
  <2>2. ~ overlap' => ~ overlap
    BY Zenon DEF Run, AddLast, AddedLast
  <2> QED
    BY <2>1, <2>2
<1>3. CASE AddLast(p)
  <2>1. ~ overlap' => adding = {}
    BY <1>3 DEF AddLast, FlushInv, TypeOK
  <2>2. ~ overlap' => Size < Capacity - 1
    <3> SUFFICES ASSUME ~ overlap' PROVE Size < Capacity - 1
      OBVIOUS
    <3>1. Cardinality(adding) = 0
      BY <2>1, FS_EmptySet
    <3>2. Size + Cardinality(adding) < Capacity - 1
      BY <1>3 DEF AddLast
    <3>3. Size \in Int
      BY CapacityAssumption, SMT DEF Size, FlushInv, TypeOK
    <3> HIDE DEF Size
    <3> QED
      BY <3>1, <3>2, <3>3
  <2>3. ~ overlap' => ~ (Successor(tail) = head)
    BY <2>2, RoomToAdd DEF FlushInv
  <2>4. adding' = adding \cup {p} /\ tail' = tail
    BY <1>3 DEF AddLast
  <2>5. Successor(tail)' = Successor(tail)
    BY <2>4 DEF Successor
  <2> QED
    BY <1>1, <1>2, <2>1, <2>3, <2>4, <2>5
       DEF FlushInv, OneAdds, UncountedIsTaken, FlushPending
<1>4. CASE AddedLast(p)
  <2>1. scheduled' = scheduled /\ tail' = Successor(tail) /\ p \in adding
        /\ adding' = adding \ {p}
    BY <1>4 DEF AddedLast
  <2>2. ~ overlap' => adding' = {}
    BY <1>2, <2>1 DEF FlushInv, OneAdds
  <2>3. Flushing' = Flushing
    BY <1>2 DEF Flushing
  <2>4. ~ overlap' /\ jobs' # {} => FlushPending'
    BY <1>2, <2>1, <2>3 DEF FlushInv, UncountedIsTaken, FlushPending, Flushing
  <2> QED
    BY <1>1, <2>2, <2>4 DEF FlushInv, OneAdds, UncountedIsTaken
<1> QED
  BY <1>3, <1>4 DEF Run

\* Wherever the threads are between size, removeFirst, the message and their
\* return, and wherever the pool is within addLast, a callback that waits has a
\* flush on its way - for every number of threads and every length of the array.
THEOREM NoneIsStranded == Spec => []NoCallbackIsStranded
<1>1. Init => FlushInv
  BY TypeInit DEF Init, FlushInv, OneAdds, UncountedIsTaken
<1>2. FlushInv /\ [Next]_vars => FlushInv'
  <2> SUFFICES ASSUME FlushInv, [Next]_vars PROVE FlushInv'
    OBVIOUS
  <2>1. CASE UNCHANGED vars
    BY <2>1 DEF FlushInv, TypeOK, OneAdds, UncountedIsTaken, FlushPending, Flushing,
                Successor, vars, callers, timers, eventLoop
  <2> QED
    BY <2>1, FlushParse, FlushProcess, FlushRun DEF Next
<1>3. FlushInv => NoCallbackIsStranded
  BY DEF FlushInv, NoCallbackIsStranded
<1> QED
  BY <1>1, <1>2, <1>3, PTL DEF Spec

-----------------------------------------------------------------------------
(***************************************************************************)
(* A sole caller.                                                          *)
(***************************************************************************)
\* The indices from head up to tail, round the end of the array.
InWindow(i) == IF head <= tail THEN head <= i /\ i < tail ELSE head <= i \/ i < tail

WindowIsFilled == \A i \in 0 .. Capacity - 1 : InWindow(i) => i \in elements

RoomWhileAdding == adding # {} => tail \in elements /\ Successor(tail) # head

Waiting(t) == \E job \in jobs : job.thread = t /\ ~ job.late

\* Where a sole caller is, there is something to remove, and its own callback
\* either waits or has set the result.
Progresses(t) ==
    /\ outcome[t] # "thrown"
    /\ pc[t] \in {"remove", "removing"} => head # tail
    /\ pc[t] = "apply" /\ remaining[t] => head # tail
    /\ pc[t] = "removing" => first[t] = head
    /\ pc[t] # "idle" => result[t] # NoLine \/ Waiting(t)
    /\ pc[t] = "wait" /\ found[t] => result[t] # NoLine
    /\ pc[t] = "idle" /\ found[t] => outcome[t] = "answered"

Sole == \A t, u \in active : t = u

OthersAreIdle == \A t \in Threads : t \notin active => pc[t] = "idle"

AloneInv ==
    /\ TypeOK /\ OthersAreIdle
    /\ ~ overlap /\ Sole =>
           OneAdds /\ WindowIsFilled /\ RoomWhileAdding /\ \A t \in Threads : Progresses(t)

LEMMA HeadIsFilled ==
    ASSUME TypeOK, WindowIsFilled, head # tail
    PROVE  head \in elements
<1>1. InWindow(head)
  BY SMT DEF TypeOK, InWindow
<1> QED
  BY <1>1 DEF TypeOK, WindowIsFilled

LEMMA SizeIsZero == ASSUME TypeOK PROVE Size # 0 <=> head # tail
BY CapacityAssumption, SMT DEF TypeOK, Size

LEMMA SuccessorInjective ==
    ASSUME NEW i \in 0 .. Capacity - 1, NEW j \in 0 .. Capacity - 1, i # j
    PROVE  Successor(i) # Successor(j)
BY CapacityAssumption, SMT DEF Successor

LEMMA WindowAdd ==
    ASSUME TypeOK, tail' = Successor(tail), head' = head,
           NEW i \in 0 .. Capacity - 1, InWindow(i)'
    PROVE  InWindow(i) \/ i = tail
BY CapacityAssumption, SMT DEF TypeOK, InWindow, Successor

LEMMA WindowRemove ==
    ASSUME TypeOK, head # tail, head' = Successor(head), tail' = tail,
           NEW i \in 0 .. Capacity - 1, InWindow(i)'
    PROVE  InWindow(i) /\ i # head
BY CapacityAssumption, SMT DEF TypeOK, InWindow, Successor

\* The rest of the invariant of a step of a sole caller or of the pool.
AloneGoal == OneAdds /\ WindowIsFilled /\ RoomWhileAdding /\ \A t \in Threads : Progresses(t)

\* What a step of another thread would be, were there one.
LEMMA OthersProgress ==
    ASSUME AloneInv, NEW t \in active, Sole, OthersAreIdle, NEW u \in Threads, u # t,
           Progresses(u), pc'[u] = pc[u], outcome'[u] = outcome[u], found'[u] = found[u]
    PROVE  Progresses(u)'
<1>1. u \notin active
  BY DEF Sole
<1>2. pc'[u] = "idle"
  BY <1>1 DEF OthersAreIdle
<1> QED
  BY <1>2 DEF Progresses

LEMMA AloneParse ==
    ASSUME AloneInv, NEW t \in Threads, Parse(t), ~ overlap, Sole
    PROVE  AloneGoal'
<1> USE DEF Parse, Goto
<1>1. PICK l \in Lines :
         jobs' = {IF job.thread = t THEN Late(job) ELSE job : job \in jobs} \cup {Job(t, l)}
  OBVIOUS
<1>2. Job(t, l) \in jobs' /\ Job(t, l).thread = t /\ ~ Job(t, l).late
  BY <1>1 DEF Job
<1>3. Waiting(t)'
  BY <1>2 DEF Waiting
<1>4. /\ pc'[t] = "wait" /\ found'[t] = FALSE /\ outcome'[t] = "none"
      /\ \A u \in Threads : u # t =>
             pc'[u] = pc[u] /\ outcome'[u] = outcome[u] /\ found'[u] = found[u]
  BY DEF AloneInv, TypeOK
<1>5. Progresses(t)'
  BY <1>3, <1>4 DEF Progresses
<1>6. \A u \in Threads : Progresses(u)'
  BY <1>4, <1>5, OthersProgress DEF AloneInv
<1> QED
  BY <1>6 DEF AloneGoal, AloneInv, OneAdds, WindowIsFilled, RoomWhileAdding, InWindow,
              Successor, eventLoop

LEMMA AloneProcess ==
    ASSUME AloneInv, NEW t \in Threads, Process(t), ~ overlap, Sole
    PROVE  AloneGoal'
<1> USE DEF Goto
<1>1. pc[t] # "idle"
  BY DEF Process, WaitForMessages, ProcessNextMessages, RemoveFirst, RemovedFirst,
         Remaining, Apply
<1>2. t \in active
  BY <1>1 DEF AloneInv, OthersAreIdle
<1>3. \A u \in Threads : Progresses(u)
  BY DEF AloneInv
<1>4. adding' = adding /\ tail' = tail
  BY DEF Process, WaitForMessages, ProcessNextMessages, RemoveFirst, RemovedFirst,
         Remaining, Apply, timers, eventLoop
<1>5. \A u \in Threads : u # t =>
         pc'[u] = pc[u] /\ outcome'[u] = outcome[u] /\ found'[u] = found[u]
  BY DEF Process, WaitForMessages, Return, ProcessNextMessages, RemoveFirst, RemovedFirst,
         Remaining, Apply, AloneInv, TypeOK
<1>6. ASSUME Progresses(t)' PROVE \A u \in Threads : Progresses(u)'
  BY <1>2, <1>3, <1>5, <1>6, OthersProgress DEF AloneInv
<1>7. ASSUME elements' = elements, head' = head
      PROVE  OneAdds' /\ WindowIsFilled' /\ RoomWhileAdding'
  BY <1>4, <1>7 DEF AloneInv, OneAdds, WindowIsFilled, RoomWhileAdding, InWindow, Successor
<1>8. CASE WaitForMessages(t)
  <2>1. result' = result /\ jobs' = jobs /\ head' = head /\ elements' = elements
    BY <1>8 DEF WaitForMessages, eventLoop
  <2>2. Waiting(t)' = Waiting(t)
    BY <2>1 DEF Waiting
  <2>3. CASE Size # 0
    <3>1. pc'[t] = "remove" /\ outcome' = outcome
      BY <1>8, <2>3 DEF WaitForMessages, AloneInv, TypeOK
    <3>2. head # tail
      BY <2>3, SizeIsZero DEF AloneInv
    <3>3. Progresses(t)'
      BY <1>1, <1>3, <1>4, <2>1, <2>2, <3>1, <3>2 DEF Progresses
    <3> QED
      BY <1>6, <1>7, <2>1, <3>3 DEF AloneGoal
  <2>4. CASE ~ (Size # 0)
    <3>1. pc'[t] = "idle" /\ found' = found
          /\ outcome'[t] = IF result[t] = NoLine THEN "undefined" ELSE "answered"
      BY <1>8, <2>4 DEF WaitForMessages, Return, AloneInv, TypeOK
    <3>2. pc[t] = "wait"
      BY <1>8 DEF WaitForMessages
    <3>3. Progresses(t)'
      BY <1>3, <2>1, <2>2, <3>1, <3>2 DEF Progresses
    <3> QED
      BY <1>6, <1>7, <2>1, <3>3 DEF AloneGoal
  <2> QED
    BY <2>3, <2>4
<1>9. CASE RemoveFirst(t)
  <2>1. pc[t] = "remove" /\ head # tail
    BY <1>3, <1>9 DEF RemoveFirst, Progresses
  <2>2. head \in elements
    BY <2>1, HeadIsFilled DEF AloneInv
  <2>3. pc'[t] = "removing" /\ first'[t] = head /\ outcome' = outcome
        /\ result' = result /\ found' = found /\ jobs' = jobs
        /\ head' = head /\ elements' = elements
    BY <1>9, <2>2 DEF RemoveFirst, AloneInv, TypeOK, eventLoop
  <2>4. Waiting(t)' = Waiting(t)
    BY <2>3 DEF Waiting
  <2>5. Progresses(t)'
    BY <1>3, <1>4, <2>1, <2>3, <2>4 DEF Progresses
  <2> QED
    BY <1>6, <1>7, <2>3, <2>5 DEF AloneGoal
<1>10. CASE RemovedFirst(t)
  <2>1. head # tail /\ first[t] = head /\ pc[t] = "removing"
    BY <1>3, <1>10 DEF RemovedFirst, Progresses
  <2>2. /\ elements' = elements \ {head} /\ head' = Successor(head)
        /\ pc'[t] = "size" /\ outcome' = outcome /\ result' = result
        /\ found' = found /\ jobs' = jobs
    BY <1>10, <2>1 DEF RemovedFirst, AloneInv, TypeOK
  <2>3. Progresses(t)'
    BY <1>3, <2>1, <2>2 DEF Progresses, Waiting
  <2>4. WindowIsFilled'
    BY <1>4, <2>1, <2>2, WindowRemove DEF AloneInv, WindowIsFilled
  <2>5. RoomWhileAdding'
    <3>1. Successor(tail) # Successor(head)
      BY <2>1, SuccessorInjective DEF AloneInv, TypeOK
    <3>2. Successor(tail)' = Successor(tail)
      BY <1>4 DEF Successor
    <3> QED
      BY <1>4, <2>1, <2>2, <3>1, <3>2 DEF AloneInv, RoomWhileAdding
  <2> QED
    BY <1>4, <1>6, <2>3, <2>4, <2>5 DEF AloneGoal, AloneInv, OneAdds
<1>11. CASE Remaining(t)
  <2>1. /\ elements' = elements /\ head' = head /\ jobs' = jobs /\ pc[t] = "size"
        /\ pc'[t] = "apply" /\ outcome' = outcome /\ result' = result /\ found' = found
        /\ remaining'[t] = (Size # 0)
    BY <1>11 DEF Remaining, AloneInv, TypeOK, eventLoop
  <2>2. remaining'[t] => head # tail
    BY <2>1, SizeIsZero DEF AloneInv
  <2>3. Progresses(t)'
    BY <1>3, <1>4, <2>1, <2>2 DEF Progresses, Waiting
  <2> QED
    BY <1>6, <1>7, <2>1, <2>3 DEF AloneGoal
<1>12. CASE Apply(t)
  <2>1. /\ elements' = elements /\ head' = head /\ pc[t] = "apply"
        /\ pc'[t] = (IF remaining[t] THEN "remove" ELSE "wait")
        /\ outcome' = outcome /\ found' = found
    BY <1>12 DEF Apply, AloneInv, TypeOK, eventLoop
  <2>2. result'[t] # NoLine
    <3>1. result'[t] = IF Answers(t) = {} THEN result[t] ELSE CHOOSE l \in Answers(t) : TRUE
      BY <1>12 DEF Apply
    <3>2. CASE Answers(t) = {}
      BY <1>3, <2>1, <3>1, <3>2, AnswersMatch DEF Progresses, Waiting
    <3>3. CASE Answers(t) # {}
      <4>1. result'[t] \in Answers(t)
        BY <3>1, <3>3
      <4> QED
        BY <4>1, AnswersAreLines, LinesAssumption DEF AloneInv
    <3> QED
      BY <3>2, <3>3
  <2>3. Progresses(t)'
    BY <1>3, <1>4, <2>1, <2>2 DEF Progresses
  <2> QED
    BY <1>6, <1>7, <2>1, <2>3 DEF AloneGoal
<1> QED
  BY <1>8, <1>9, <1>10, <1>11, <1>12 DEF Process, ProcessNextMessages

LEMMA AloneRun ==
    ASSUME AloneInv, NEW p \in Pool, Run(p), ~ overlap', ~ overlap, Sole
    PROVE  AloneGoal'
<1>1. \A t \in Threads : Progresses(t)
  BY DEF AloneInv
<1>2. callers' = callers /\ jobs' = jobs /\ head' = head
  BY DEF Run, AddLast, AddedLast
<1>3. CASE AddLast(p)
  <2>1. tail' = tail /\ elements' = elements \cup {tail} /\ adding' = adding \cup {p}
    BY <1>3 DEF AddLast
  <2>2. adding = {}
    BY <1>3 DEF AddLast
  <2>3. Successor(tail) # head
    <3>1. Cardinality(adding) = 0
      BY <2>2, FS_EmptySet
    <3>2. Size + Cardinality(adding) < Capacity - 1
      BY <1>3 DEF AddLast
    <3>3. Size \in Int
      BY CapacityAssumption, SMT DEF Size, AloneInv, TypeOK
    <3>4. Size < Capacity - 1
      BY <3>1, <3>2, <3>3
    <3> QED
      BY <3>4, RoomToAdd DEF AloneInv
  <2>4. \A t \in Threads : Progresses(t)'
    BY <1>1, <1>2, <2>1 DEF callers, Progresses, Waiting
  <2>5. WindowIsFilled'
    BY <1>2, <2>1 DEF AloneInv, WindowIsFilled, InWindow
  <2> QED
    BY <1>2, <2>1, <2>2, <2>3, <2>4, <2>5 DEF AloneGoal, OneAdds, RoomWhileAdding, Successor
<1>4. CASE AddedLast(p)
  <2>1. tail' = Successor(tail) /\ elements' = elements /\ adding' = adding \ {p}
        /\ p \in adding
    BY <1>4 DEF AddedLast
  <2>2. adding' = {}
    BY <2>1 DEF AloneInv, OneAdds
  <2>3. tail' # head /\ tail \in elements
    BY <2>1 DEF AloneInv, RoomWhileAdding
  <2>4. \A t \in Threads : Progresses(t)'
    BY <1>1, <1>2, <2>3 DEF callers, Progresses, Waiting
  <2>5. WindowIsFilled'
    BY <1>2, <2>1, <2>3, WindowAdd DEF AloneInv, WindowIsFilled
  <2> QED
    BY <2>2, <2>4, <2>5 DEF AloneGoal, OneAdds, RoomWhileAdding
<1> QED
  BY <1>3, <1>4 DEF Run

LEMMA AloneStep == AloneInv /\ [Next]_vars => AloneInv'
<1> SUFFICES ASSUME AloneInv, [Next]_vars PROVE AloneInv'
  OBVIOUS
<1>1. TypeOK'
  BY ParseType, ProcessType, RunType
     DEF AloneInv, Next, TypeOK, vars, callers, timers, eventLoop
<1>2. active' = active
  BY DEF Next, Parse, Process, WaitForMessages, ProcessNextMessages, RemoveFirst,
         RemovedFirst, Remaining, Apply, Run, AddLast, AddedLast, vars
<1>3. CASE UNCHANGED vars
  BY <1>1, <1>3 DEF AloneInv, OthersAreIdle, Sole, OneAdds, WindowIsFilled, InWindow,
     RoomWhileAdding, Successor, Progresses, Waiting, vars, callers, timers, eventLoop
<1>4. ASSUME NEW t \in Threads, Parse(t) \/ Process(t) PROVE AloneInv'
  <2>1. t \in active
    BY <1>4 DEF AloneInv, OthersAreIdle, Parse, Process, WaitForMessages,
       ProcessNextMessages, RemoveFirst, RemovedFirst, Remaining, Apply
  <2>2. \A u \in Threads : u # t => pc'[u] = pc[u]
    BY <1>4 DEF AloneInv, TypeOK, Goto, Parse, Process, WaitForMessages, Return,
       ProcessNextMessages, RemoveFirst, RemovedFirst, Remaining, Apply
  <2>3. OthersAreIdle'
    BY <1>2, <2>1, <2>2 DEF AloneInv, OthersAreIdle
  <2>4. ~ overlap' => ~ overlap
    BY <1>4, Zenon DEF Parse, Process, WaitForMessages, ProcessNextMessages, RemoveFirst,
       RemovedFirst, Remaining, Apply
  <2>5. Sole' = Sole
    BY <1>2 DEF Sole
  <2> QED
    BY <1>1, <1>4, <2>3, <2>4, <2>5, AloneParse, AloneProcess DEF AloneGoal, AloneInv
<1>5. ASSUME NEW p \in Pool, Run(p) PROVE AloneInv'
  <2>1. ~ overlap' => ~ overlap
    BY <1>5, Zenon DEF Run, AddLast, AddedLast
  <2>2. OthersAreIdle' /\ (Sole' = Sole)
    BY <1>2, <1>5 DEF AloneInv, OthersAreIdle, Sole, Run, AddLast, AddedLast, callers
  <2> QED
    BY <1>1, <1>5, <2>1, <2>2, AloneRun DEF AloneGoal, AloneInv
<1> QED
  BY <1>3, <1>4, <1>5 DEF Next

\* One caller, however many threads append and however long the array: no call
\* ends in an exception, and one that finds a message is answered, so long as
\* the pool does not append two at once.
THEOREM SoleCallerIsServed == Spec => []AloneIsServed
<1>1. Init => AloneInv
  <2> SUFFICES ASSUME Init PROVE AloneInv
    OBVIOUS
  <2>1. TypeOK
    BY TypeInit
  <2>2. OthersAreIdle /\ OneAdds /\ RoomWhileAdding
    BY DEF Init, OthersAreIdle, OneAdds, RoomWhileAdding
  <2>3. WindowIsFilled
    BY SMT DEF Init, ResetEventLoop, WindowIsFilled, InWindow
  <2>4. \A t \in Threads : Progresses(t)
    BY DEF Init, Progresses
  <2> QED
    BY <2>1, <2>2, <2>3, <2>4 DEF AloneInv
<1>2. AloneInv => AloneIsServed
  BY DEF AloneInv, AloneIsServed, Sole, Progresses
<1> QED
  BY <1>1, <1>2, AloneStep, PTL DEF Spec
=============================================================================
