-------------------------- MODULE NashornEventLoop --------------------------
(***************************************************************************)
(* How parser.js gets the answer of a hook out of its promise: the event   *)
(* loop of nashorn-polyfill.js.                                            *)
(*                                                                         *)
(* A promise keeps its callback in a list of jobs; a job put into an empty *)
(* list has setImmediate schedule a flush of the list.  A thread of the    *)
(* pool then appends the flush to eventLoop, an ArrayDeque, and parse,     *)
(* which does not wait for it, runs what it finds there before it returns. *)
(* One engine serves the threads of all sessions.                          *)
(*                                                                         *)
(* The list of jobs is that of core-js, which is external: adding to it    *)
(* and flushing it are one step each.  The steps of ArrayDeque are apart,  *)
(* for its threads use no lock: a Phaser they register with lets all pass. *)
(***************************************************************************)
EXTENDS Integers, FiniteSets

CONSTANTS
    Threads,       \* threads that may call the parser
    Pool,          \* threads of the ScheduledExecutorService
    Lines,         \* the lines that are parsed
    NoLine,        \* undefined
    Capacity,      \* length of the array of eventLoop
    MaxScheduled   \* bound on the timers that wait when a line is parsed

ASSUME ThreadsAssumption == Threads # {} /\ Pool # {}
ASSUME LinesAssumption == NoLine \notin Lines
ASSUME CapacityAssumption == Capacity \in Nat /\ Capacity > 1 /\ MaxScheduled \in Nat

VARIABLES
    active,        \* the threads that do call the parser
    pc,            \* what each of them does
    line,          \* the line of its call
    result,        \* the variable `result` of its call
    outcome,       \* how its call ended
    found,         \* did its call find an event?
    first,         \* local h of its pollFirst
    remaining,     \* local of its processNextMessages
    jobs,          \* callbacks in the list of the promises
    scheduled,     \* timers that no thread of the pool has taken up
    adding,        \* threads of the pool within addLast
    elements,      \* array of eventLoop: the indices where there is an event
    head, tail,    \* of eventLoop
    overlap        \* history: have two threads added, or removed, at a time?

callers == <<pc, line, result, outcome, found, first, remaining>>
timers == <<scheduled, adding>>
eventLoop == <<elements, head, tail>>
vars == <<active, callers, jobs, timers, eventLoop, overlap>>

\* A callback sets the `result` of the call that made it, which may be over.
Job(t, l) == [thread |-> t, line |-> l, late |-> FALSE]
Late(job) == [job EXCEPT !.late = TRUE]

Successor(i) == IF i = Capacity - 1 THEN 0 ELSE i + 1
Size == IF tail >= head THEN tail - head ELSE tail - head + Capacity

Goto(t, label) == pc' = [pc EXCEPT ![t] = label]

-----------------------------------------------------------------------------
ResetEventLoop == elements = {} /\ head = 0 /\ tail = 0

Init ==
    /\ active \in (SUBSET Threads) \ {{}}
    /\ pc = [t \in Threads |-> "idle"]
    /\ line = [t \in Threads |-> NoLine]
    /\ result = [t \in Threads |-> NoLine]
    /\ outcome = [t \in Threads |-> "none"]
    /\ found = [t \in Threads |-> FALSE]
    /\ first = [t \in Threads |-> 0]
    /\ remaining = [t \in Threads |-> FALSE]
    /\ jobs = {}
    /\ scheduled = 0
    /\ adding = {}
    /\ ResetEventLoop
    /\ overlap = FALSE

\* setTimeout with no delay: any thread of the pool may take it up at once.
SetImmediate == scheduled' = scheduled + 1

\* The hook has returned a promise; its callback is put into the list.
Parse(t) ==
    /\ pc[t] = "idle" /\ t \in active
    /\ scheduled < MaxScheduled
    /\ result' = [result EXCEPT ![t] = NoLine]
    /\ outcome' = [outcome EXCEPT ![t] = "none"]
    /\ found' = [found EXCEPT ![t] = FALSE]
    /\ \E l \in Lines :
           /\ line' = [line EXCEPT ![t] = l]
           /\ jobs' = {IF job.thread = t THEN Late(job) ELSE job : job \in jobs}
                       \cup {Job(t, l)}
    /\ IF jobs = {} THEN SetImmediate ELSE UNCHANGED scheduled
    /\ Goto(t, "wait")
    /\ UNCHANGED <<active, first, remaining, adding, eventLoop, overlap>>

Return(t) ==
    /\ Goto(t, "idle")
    /\ outcome' = [outcome EXCEPT ![t] = IF result[t] = NoLine THEN "undefined"
                                         ELSE "answered"]

\* Mutant of WaitForMessages: it does not ask whether there are messages.
WaitForMessagesUnasked(t) ==
    /\ pc[t] = "wait"
    /\ found' = [found EXCEPT ![t] = TRUE] /\ Goto(t, "remove")
    /\ UNCHANGED <<active, line, result, outcome, first, remaining, jobs, timers,
                   eventLoop, overlap>>

\* process returns to parse, and parse to its caller, as soon as there is no
\* message.
WaitForMessages(t) ==
    /\ pc[t] = "wait"
    /\ IF Size # 0
       THEN found' = [found EXCEPT ![t] = TRUE] /\ Goto(t, "remove") /\ UNCHANGED outcome
       ELSE Return(t) /\ UNCHANGED found
    /\ UNCHANGED <<active, line, result, first, remaining, jobs, timers, eventLoop, overlap>>

\* removeFirst reads the array at head; where there is nothing, it throws, and
\* so do process and parse.
RemoveFirst(t) ==
    /\ pc[t] = "remove"
    /\ overlap' = (overlap \/ \E u \in Threads : pc[u] = "removing")
    /\ IF head \in elements
       THEN Goto(t, "removing") /\ first' = [first EXCEPT ![t] = head] /\ UNCHANGED outcome
       ELSE Goto(t, "idle") /\ outcome' = [outcome EXCEPT ![t] = "thrown"] /\ UNCHANGED first
    /\ UNCHANGED <<active, line, result, found, remaining, jobs, timers, eventLoop>>

\* Then it clears the place it has read and moves head past it.
RemovedFirst(t) ==
    /\ pc[t] = "removing"
    /\ elements' = elements \ {first[t]}
    /\ head' = Successor(first[t])
    /\ first' = [first EXCEPT ![t] = 0]
    /\ Goto(t, "size")
    /\ UNCHANGED <<active, line, result, outcome, found, remaining, jobs, timers, tail,
                   overlap>>

\* Mutant of Remaining: the last message is not applied.
RemainingFirst(t) ==
    /\ pc[t] = "size"
    /\ remaining' = [remaining EXCEPT ![t] = Size # 0]
    /\ Goto(t, IF Size # 0 THEN "apply" ELSE "wait")
    /\ UNCHANGED <<active, line, result, outcome, found, first, jobs, timers, eventLoop,
                   overlap>>

Remaining(t) ==
    /\ pc[t] = "size"
    /\ remaining' = [remaining EXCEPT ![t] = Size # 0]
    /\ Goto(t, "apply")
    /\ UNCHANGED <<active, line, result, outcome, found, first, jobs, timers, eventLoop,
                   overlap>>

\* Mutant of Answers: one `result` for all the calls of a thread.
AnswersLate(t) == {job.line : job \in {j \in jobs : j.thread = t}}

\* What the callbacks of the present call of t set its `result` to.
Answers(t) == {job.line : job \in {j \in jobs : j.thread = t /\ ~ j.late}}

\* The message is always the flush of the list.  A flush that found jobs
\* schedules another, because the promise of the flush itself is then settled.
Apply(t) ==
    /\ pc[t] = "apply"
    /\ result' = [u \in Threads |-> IF Answers(u) = {} THEN result[u]
                                     ELSE CHOOSE l \in Answers(u) : TRUE]
    /\ jobs' = {}
    /\ IF jobs # {} THEN SetImmediate ELSE UNCHANGED scheduled
    /\ remaining' = [remaining EXCEPT ![t] = FALSE]
    /\ Goto(t, IF remaining[t] THEN "remove" ELSE "wait")
    /\ UNCHANGED <<active, line, outcome, found, first, adding, eventLoop, overlap>>

ProcessNextMessages(t) == RemoveFirst(t) \/ RemovedFirst(t) \/ Remaining(t) \/ Apply(t)

Process(t) == WaitForMessages(t) \/ ProcessNextMessages(t)

-----------------------------------------------------------------------------
\* Mutant of AddLast: the timer is scheduled at a fixed rate, and runs again.
AddLastAgain(p) ==
    /\ p \notin adding
    /\ Size + Cardinality(adding) < Capacity - 1
    /\ scheduled' = scheduled - 1
    /\ overlap' = (overlap \/ adding # {})
    /\ elements' = elements \cup {tail}
    /\ adding' = adding \cup {p}
    /\ UNCHANGED <<active, callers, jobs, head, tail>>

\* The Runnable of a timer calls addLast, which writes to the array at tail.
\* An array that is full is doubled; Capacity bounds what is added.
AddLast(p) ==
    /\ scheduled > 0 /\ p \notin adding
    /\ Size + Cardinality(adding) < Capacity - 1
    /\ scheduled' = scheduled - 1
    /\ overlap' = (overlap \/ adding # {})
    /\ elements' = elements \cup {tail}
    /\ adding' = adding \cup {p}
    /\ UNCHANGED <<active, callers, jobs, head, tail>>

\* Then it moves tail, which it reads again.
AddedLast(p) ==
    /\ p \in adding
    /\ tail' = Successor(tail)
    /\ adding' = adding \ {p}
    /\ UNCHANGED <<active, callers, jobs, scheduled, elements, head, overlap>>

Run(p) == AddLast(p) \/ AddedLast(p)

Next ==
    \/ \E t \in Threads : Parse(t) \/ Process(t)
    \/ \E p \in Pool : Run(p)

Spec == Init /\ [][Next]_vars

\* Threads are not stopped for ever, and lines keep coming.
Fairness ==
    /\ \A t \in Threads : WF_vars(Parse(t)) /\ WF_vars(Process(t))
    /\ \A p \in Pool : WF_vars(Run(p))

FairSpec == Spec /\ Fairness

-----------------------------------------------------------------------------
TypeOK ==
    /\ active \in SUBSET Threads
    /\ pc \in [Threads -> {"idle", "wait", "remove", "removing", "size", "apply"}]
    /\ line \in [Threads -> Lines \cup {NoLine}]
    /\ result \in [Threads -> Lines \cup {NoLine}]
    /\ outcome \in [Threads -> {"none", "undefined", "answered", "thrown"}]
    /\ found \in [Threads -> BOOLEAN] /\ remaining \in [Threads -> BOOLEAN]
    /\ first \in [Threads -> 0 .. Capacity - 1]
    /\ jobs \in SUBSET [thread : Threads, line : Lines, late : BOOLEAN]
    /\ scheduled \in Nat /\ adding \in SUBSET Pool
    /\ elements \in SUBSET (0 .. Capacity - 1)
    /\ head \in 0 .. Capacity - 1 /\ tail \in 0 .. Capacity - 1
    /\ overlap \in BOOLEAN

\* parse returns the delta of its own line or undefined: an answer that comes
\* after its call has returned never becomes that of a later line.
AnswerIsOwn == \A t \in Threads : result[t] \in {NoLine, line[t]}

\* A flush that can still run the callbacks: none is left behind for good, in
\* whatever order the threads check, remove and add, as long as no two of them
\* are within addLast, or within removeFirst, at the same time.
FlushPending ==
    \/ scheduled > 0
    \/ adding # {}
    \/ head # tail
    \/ \E t \in Threads : pc[t] \in {"removing", "size", "apply"}

NoCallbackIsStranded == ~ overlap /\ jobs # {} => FlushPending

\* With a single caller no call ends in an exception, and a call that finds
\* any message in eventLoop - a late flush of an earlier call included - is
\* answered, again unless two threads of the pool were within addLast at once.
AloneIsServed ==
    ~ overlap /\ (\A t, u \in active : t = u) =>
        \A t \in Threads :
            /\ outcome[t] # "thrown"
            /\ pc[t] = "idle" /\ found[t] => outcome[t] = "answered"

\* As long as lines keep coming, callbacks do not wait for ever; those that
\* came too late for their call are run by another.
CallbacksAreRun == <>overlap \/ []<>(jobs = {})
==============================================================================
