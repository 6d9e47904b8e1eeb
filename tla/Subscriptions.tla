---------------------------- MODULE Subscriptions -----------------------------
(***************************************************************************)
(* Periodic subscriptions of the Signal K server and the four threads that *)
(* work on them without a common lock:                                     *)
(*                                                                         *)
(*   interceptor  SubscribeMsgInterceptor: one message of a client after   *)
(*                the other, calling add/removeSubscription of             *)
(*                SubscriptionManagerService                               *)
(*   timer        the one Timer thread that runs each Subscription's task  *)
(*   consumer     ArtemisTcpNettyHandler.process: writes replies to the    *)
(*                channel, and kills a client it cannot write to           *)
(*   channel      closed when the client goes; then channelInactive        *)
(*                                                                         *)
(* A subscription object is a number; two objects are equal (equals, line  *)
(* 185) when session and topic are.  The handler uses the session both as  *)
(* correlation (getSessionId) and as reply queue (getDestination).         *)
(***************************************************************************)
EXTENDS Naturals, Sequences, FiniteSets

CONSTANTS
    Sessions,
    Topics,       \* what can be subscribed: a path and a period
    BadPeriod,    \* the topics whose period Timer.schedule rejects (<= 0)
    SlowClients,  \* sessions whose channel may become unwritable while open
    BrokerFails,  \* the broker may reject a message (ActiveMQException)
    MaxObjects,   \* bound: Subscription objects ever added
    MaxList,      \* bound: subscriptions in one message
    MaxHeartbeats,\* bound: a client stops unsubscribing at this many heartbeats
    null

ASSUME SubscriptionsAssumption ==
    /\ BadPeriod \subseteq Topics
    /\ SlowClients \subseteq Sessions
    /\ BrokerFails \in BOOLEAN
    /\ {MaxObjects, MaxList, MaxHeartbeats} \subseteq Nat
    /\ null \notin Sessions \cup Topics \cup Nat
    /\ null \notin [session : Sessions, topic : Topics]

VARIABLES
    \* SubscriptionManagerService
    subscriptions, \* the objects in the ConcurrentLinkedQueue
    heartbeats,    \* how often each session is in the heartbeat queue
    queues,        \* sessions whose temporary reply queue exists
    \* Subscription objects
    made,          \* objects constructed by subscribe messages so far
    of,            \* object -> its session and topic
    active,        \* object -> field active
    task,          \* object -> its TimerTask: "virgin", "scheduled", "cancelled"
    \* the threads
    inbox,         \* client -> the message not yet intercepted, or null
    step,          \* interceptor -> next statement for the client's message
    todo,          \* interceptor -> topics of the message still to be handled
    found,         \* interceptor -> snapshot taken by getSubscriptions
    running,       \* timer -> the object whose task runs, or null
    replies,       \* session -> a reply waits in its queue
    open,          \* sessions whose channel is not closed
    connected,     \* sessions whose channelInactive has not run
    consumers,     \* sessions whose consumer is open
    consumerList,  \* keys of the handler's map
    killing,       \* session -> next statement of "cant send, kill it"
    doomed,        \* session -> snapshot taken by removeByTempQ
    late           \* history: object -> messages sent while inactive

registry == <<subscriptions, heartbeats>>
objects == <<made, of, active, task>>
interceptor == <<inbox, step, todo, found>>
handler == <<open, connected, consumers, consumerList, killing, doomed>>
vars == <<registry, queues, objects, interceptor, running, replies, handler, late>>

Objects == 1 .. MaxObjects
Made == 1 .. made
Pair(s, t) == [session |-> s, topic |-> t]
Messages == [kind : {"subscribe", "unsubscribe"},
             topics : UNION {[1 .. n -> Topics] : n \in 1 .. MaxList}]

\* Every client has connected (channelActive, lines 99-130).
Init ==
    /\ subscriptions = {} /\ heartbeats = [s \in Sessions |-> 0]
    /\ queues = Sessions
    /\ made = 0
    /\ of = [o \in Objects |-> null]
    /\ active = [o \in Objects |-> TRUE]
    /\ task = [o \in Objects |-> "virgin"]
    /\ inbox = [s \in Sessions |-> null]
    /\ step = [s \in Sessions |-> "idle"]
    /\ todo = [s \in Sessions |-> <<>>]
    /\ found = [s \in Sessions |-> {}]
    /\ running = null
    /\ replies = [s \in Sessions |-> FALSE]
    /\ open = Sessions /\ connected = Sessions
    /\ consumers = Sessions /\ consumerList = Sessions
    /\ killing = [s \in Sessions |-> "no"]
    /\ doomed = [s \in Sessions |-> {}]
    /\ late = [o \in Objects |-> 0]

Goto(s, from, to) == step[s] = from /\ step' = [step EXCEPT ![s] = to]
OfSession(s) == {o \in subscriptions : of[o].session = s}
Equal(s, t) == {o \in subscriptions : of[o] = Pair(s, t)}
------------------------------------------------------------------------------
(* The client and its message. *)

ClientSends(s, m) ==
    /\ s \in open /\ inbox[s] = null
    /\ m.kind = "unsubscribe" => heartbeats[s] < MaxHeartbeats
    /\ inbox' = [inbox EXCEPT ![s] = m]
    /\ UNCHANGED <<registry, queues, objects, step, todo, found, running, replies, handler, late>>

\* intercept: one message is handled to its end before the client's next one.
Intercept(s) ==
    /\ inbox[s] # null
    /\ Goto(s, "idle", inbox[s].kind)
    /\ todo' = [todo EXCEPT ![s] = inbox[s].topics]
    /\ inbox' = [inbox EXCEPT ![s] = null]
    /\ UNCHANGED <<registry, queues, objects, found, running, replies, handler, late>>

\* The next element of the list, or the end of the message.
Advance(s, kind) ==
    /\ todo' = [todo EXCEPT ![s] = Tail(todo[s])]
    /\ found' = [found EXCEPT ![s] = {}]
    /\ step' = [step EXCEPT ![s] = IF Len(todo[s]) = 1 THEN "idle" ELSE kind]

\* An exception leaves the loop over the list; intercept logs it.
Abandon(s) == /\ todo' = [todo EXCEPT ![s] = <<>>]
              /\ found' = [found EXCEPT ![s] = {}]
              /\ step' = [step EXCEPT ![s] = "idle"]
------------------------------------------------------------------------------
(* parseSubscribe and addSubscription *)

\* new Subscription(...): the constructor also creates the reply queue.  An equal
\* subscription is found before anything is added.
SubscribeFindsEqual(s) ==
    /\ step[s] = "subscribe" /\ Equal(s, Head(todo[s])) # {}
    /\ queues' = queues \cup {s}
    /\ Advance(s, "subscribe")
    /\ UNCHANGED <<registry, objects, inbox, running, replies, handler, late>>

SubscribeUnchecked(s) ==                           \* a slip: contains is not asked
    /\ Goto(s, "subscribe", "add")
    /\ made < MaxObjects
    /\ made' = made + 1
    /\ of' = [of EXCEPT ![made'] = Pair(s, Head(todo[s]))]
    /\ found' = [found EXCEPT ![s] = {made'}]
    /\ queues' = queues \cup {s}
    /\ UNCHANGED <<registry, active, task, inbox, todo, running, replies, handler, late>>

SubscribeFindsNone(s) ==
    /\ Goto(s, "subscribe", "add") /\ Equal(s, Head(todo[s])) = {}
    /\ made < MaxObjects
    /\ made' = made + 1
    /\ of' = [of EXCEPT ![made'] = Pair(s, Head(todo[s]))]
    /\ found' = [found EXCEPT ![s] = {made'}]
    /\ queues' = queues \cup {s}
    /\ UNCHANGED <<registry, active, task, inbox, todo, running, replies, handler, late>>

\* hasExistingRoute that follows compares two path strings with != (line 263) and
\* is always false.
Add(s) ==
    /\ Goto(s, "add", "activate")
    /\ subscriptions' = subscriptions \cup found[s]
    /\ UNCHANGED <<heartbeats, queues, objects, inbox, todo, found, running, replies, handler, late>>

\* setActive(true) writes the field, and then schedules the task.
Activate(s) ==
    /\ Goto(s, "activate", "schedule")
    /\ active' = [o \in Objects |-> active[o] \/ o \in found[s]]
    /\ UNCHANGED <<registry, queues, made, of, task, inbox, todo, found,
                   running, replies, handler, late>>

Schedule(s) ==
    /\ step[s] = "schedule" /\ Head(todo[s]) \notin BadPeriod
    /\ task' = [o \in Objects |-> IF o \in found[s] THEN "scheduled" ELSE task[o]]
    /\ heartbeats' = [heartbeats EXCEPT ![s] = IF @ > 0 THEN @ - 1 ELSE 0]
    /\ Advance(s, "subscribe")
    /\ UNCHANGED <<subscriptions, queues, made, of, active, inbox,
                   running, replies, handler, late>>

ScheduleFails(s) ==                                \* IllegalArgumentException
    /\ step[s] = "schedule" /\ Head(todo[s]) \in BadPeriod
    /\ Abandon(s)
    /\ UNCHANGED <<registry, queues, objects, inbox, running, replies, handler, late>>
------------------------------------------------------------------------------
(* parseUnSubscribe and removeSubscription *)

UnsubscribeFinds(s) ==
    /\ Goto(s, "unsubscribe", IF Equal(s, Head(todo[s])) = {} THEN "heartbeat" ELSE "remove")
    /\ found' = [found EXCEPT ![s] = Equal(s, Head(todo[s]))]
    /\ queues' = queues \cup {s}                   \* by the constructor again
    /\ UNCHANGED <<registry, objects, inbox, todo, running, replies, handler, late>>

Remove(s) ==
    /\ Goto(s, "remove", "deactivate")
    /\ subscriptions' = subscriptions \ found[s]
    /\ UNCHANGED <<heartbeats, queues, objects, inbox, todo, found, running, replies, handler, late>>

DeactivateOnlyTheCopy(s) ==                        \* a slip: s.setActive(false) forgotten
    /\ Goto(s, "deactivate", "heartbeat")
    /\ UNCHANGED <<registry, queues, objects, inbox, todo, found,
                   running, replies, handler, late>>

Deactivate(s) ==
    /\ Goto(s, "deactivate", "heartbeat")
    /\ active' = [o \in Objects |-> active[o] /\ o \notin found[s]]
    /\ UNCHANGED <<registry, queues, made, of, task, inbox, todo, found,
                   running, replies, handler, late>>

AddHeartbeat(s) ==
    /\ step[s] = "heartbeat"
    /\ heartbeats' = [heartbeats EXCEPT ![s] = IF OfSession(s) = {} THEN @ + 1 ELSE @]
    /\ Advance(s, "unsubscribe")
    /\ UNCHANGED <<subscriptions, queues, objects, inbox, running, replies, handler, late>>
------------------------------------------------------------------------------
(* The TimerTask of object o, Subscription lines 121-166 *)

\* Slips, for mutation runs: `active` is not tested; cancel() is forgotten.
TaskStartsUntested(o) ==
    /\ running = null /\ task[o] = "scheduled"
    /\ running' = o
    /\ UNCHANGED <<registry, queues, objects, interceptor, replies, handler, late>>
TaskStartsNoCancel(o) ==
    /\ running = null /\ task[o] = "scheduled" /\ active[o]
    /\ running' = o
    /\ UNCHANGED <<registry, queues, objects, interceptor, replies, handler, late>>

TaskStarts(o) ==
    /\ running = null /\ task[o] = "scheduled"
    /\ IF active[o]
       THEN running' = o /\ UNCHANGED task
       ELSE task' = [task EXCEPT ![o] = "cancelled"] /\ UNCHANGED running
    /\ UNCHANGED <<registry, queues, made, of, active, interceptor, replies, handler, late>>

\* A message to a queue that does not exist any more is dropped by the broker.
TaskSends(o) ==
    /\ running = o
    /\ running' = null
    /\ replies' = [replies EXCEPT ![of[o].session] = @ \/ of[o].session \in queues]
    /\ late' = [late EXCEPT ![o] = IF active[o] THEN 0 ELSE @ + 1]
    /\ UNCHANGED <<registry, queues, objects, interceptor, handler>>

TaskSendFailsKillingTimer(o) ==                    \* a slip: the exception leaves run()
    /\ BrokerFails
    /\ running = o
    /\ running' = null
    /\ task' = [p \in Objects |-> IF task[p] = "scheduled" THEN "cancelled" ELSE task[p]]
    /\ UNCHANGED <<registry, queues, made, of, active, interceptor, replies, handler, late>>

TaskSendFails(o) ==                                \* ActiveMQException
    /\ BrokerFails
    /\ running = o
    /\ running' = null
    /\ active' = [active EXCEPT ![o] = FALSE]
    /\ UNCHANGED <<registry, queues, made, of, task, interceptor, replies, handler, late>>
------------------------------------------------------------------------------
(* ArtemisTcpNettyHandler *)

Takes(s) == s \in consumers /\ replies[s] /\ killing[s] = "no"

\* isWritable: never of a closed channel, which stays in contextList.
MayBeWritable(s) == s \in open
MayBeUnwritable(s) == s \in SlowClients \/ s \notin open

Process(s) ==
    /\ Takes(s) /\ MayBeWritable(s)
    /\ replies' = [replies EXCEPT ![s] = FALSE]
    /\ UNCHANGED <<registry, queues, objects, interceptor, running, handler, late>>

KillWithoutClosing(s) ==                           \* a slip: the consumer stays open
    /\ Takes(s) /\ MayBeUnwritable(s)
    /\ replies' = [replies EXCEPT ![s] = FALSE]
    /\ killing' = [killing EXCEPT ![s] = "snapshot"]
    /\ UNCHANGED <<registry, queues, objects, interceptor, running,
                   open, connected, consumers, consumerList, doomed, late>>

\* "cant send, kill it": the consumer is closed first.
Kill(s) ==
    /\ Takes(s) /\ MayBeUnwritable(s)
    /\ replies' = [replies EXCEPT ![s] = FALSE]
    /\ consumers' = consumers \ {s}
    /\ killing' = [killing EXCEPT ![s] = "snapshot"]
    /\ UNCHANGED <<registry, queues, objects, interceptor, running,
                   open, connected, consumerList, doomed, late>>

KillStep(s, from, to) == killing[s] = from /\ killing' = [killing EXCEPT ![s] = to]

KillSnapshot(s) ==
    /\ KillStep(s, "snapshot", "deactivate")
    /\ doomed' = [doomed EXCEPT ![s] = OfSession(s)]
    /\ UNCHANGED <<registry, queues, objects, interceptor, running, replies,
                   open, connected, consumers, consumerList, late>>

KillCancels(s) ==                                  \* a slip: setActive(false) cancels the task
    /\ KillStep(s, "deactivate", "remove")
    /\ active' = [o \in Objects |-> active[o] /\ o \notin doomed[s]]
    /\ task' = [o \in Objects |-> IF o \in doomed[s] THEN "cancelled" ELSE task[o]]
    /\ UNCHANGED <<registry, queues, made, of, interceptor, running, replies,
                   open, connected, consumers, consumerList, doomed, late>>

KillDeactivate(s) ==
    /\ KillStep(s, "deactivate", "remove")
    /\ active' = [o \in Objects |-> active[o] /\ o \notin doomed[s]]
    /\ UNCHANGED <<registry, queues, made, of, task, interceptor, running, replies,
                   open, connected, consumers, consumerList, doomed, late>>

\* removeAll removes by equals: also an object added since the snapshot.
KillRemoveAll(s) ==
    /\ KillStep(s, "remove", "no")
    /\ subscriptions' = {o \in subscriptions : \A d \in doomed[s] : of[d] # of[o]}
    /\ doomed' = [doomed EXCEPT ![s] = {}]
    /\ consumerList' = consumerList \ {s}
    /\ UNCHANGED <<heartbeats, queues, objects, interceptor, running, replies,
                   open, connected, consumers, late>>

\* The client goes: the channel closes, channelInactive is called later.
ChannelCloses(s) ==
    /\ s \in open
    /\ open' = open \ {s}
    /\ UNCHANGED <<registry, queues, objects, interceptor, running, replies,
                   connected, consumers, consumerList, killing, doomed, late>>

\* A client killed before is not in consumerList any more: the
\* NullPointerException skips the deletion of its queue.
ChannelInactive(s) ==
    /\ s \in connected \ open
    /\ connected' = connected \ {s}
    /\ IF s \in consumerList
       THEN /\ consumers' = consumers \ {s}
            /\ queues' = queues \ {s}
            /\ replies' = [replies EXCEPT ![s] = FALSE]
       ELSE UNCHANGED <<consumers, queues, replies>>
    /\ UNCHANGED <<registry, objects, interceptor, running,
                   open, consumerList, killing, doomed, late>>
------------------------------------------------------------------------------
Interceptor(s) ==
    \/ Intercept(s)
    \/ SubscribeFindsEqual(s) \/ SubscribeFindsNone(s)
    \/ Add(s) \/ Activate(s) \/ Schedule(s) \/ ScheduleFails(s)
    \/ UnsubscribeFinds(s) \/ Remove(s) \/ Deactivate(s) \/ AddHeartbeat(s)

Task(o) == TaskStarts(o) \/ TaskSends(o) \/ TaskSendFails(o)

Killing(s) == KillSnapshot(s) \/ KillDeactivate(s) \/ KillRemoveAll(s)
Consumer(s) == Process(s) \/ Kill(s) \/ Killing(s)

Next ==
    \/ \E s \in Sessions : \/ \E m \in Messages : ClientSends(s, m)
                           \/ Interceptor(s)
                           \/ Consumer(s)
                           \/ ChannelCloses(s) \/ ChannelInactive(s)
    \/ \E o \in Objects : Task(o)

Spec == Init /\ [][Next]_vars

\* The Timer starts due tasks in the order of their next run, so that no task
\* waits for ever.  The other threads run on; clients owe nothing.
TimerFairness ==
    /\ \A o \in Objects : SF_vars(TaskStarts(o))
    /\ WF_vars(\E o \in Objects : TaskSends(o) \/ TaskSendFails(o))
Fairness ==
    /\ \A s \in Sessions : WF_vars(Interceptor(s)) /\ WF_vars(Consumer(s))
    /\ TimerFairness

TimerSpec == Spec /\ TimerFairness
FairSpec == Spec /\ Fairness
------------------------------------------------------------------------------
Live(o) == active[o] /\ task[o] = "scheduled"

\* The shared collections and the threads' local state stay in range; an object
\* reaches the timer and the list only after it was constructed.
TypeOK ==
    /\ made \in 0 .. MaxObjects
    /\ subscriptions \subseteq Made
    /\ heartbeats \in [Sessions -> Nat]
    /\ queues \subseteq Sessions
    /\ of \in [Objects -> {null} \cup [session : Sessions, topic : Topics]]
    /\ \A o \in Objects : of[o] = null <=> o \notin Made
    /\ active \in [Objects -> BOOLEAN]
    /\ task \in [Objects -> {"virgin", "scheduled", "cancelled"}]
    /\ inbox \in [Sessions -> Messages \cup {null}]
    /\ \A s \in Sessions : step[s] = "idle" <=> todo[s] = <<>>
    /\ \A s \in Sessions : found[s] \subseteq Made /\ doomed[s] \subseteq Made
    /\ running \in Made \cup {null}
    /\ replies \in [Sessions -> BOOLEAN]
    /\ consumers \subseteq consumerList /\ consumerList \subseteq Sessions
    /\ open \subseteq connected /\ connected \subseteq Sessions
    /\ late \in [Objects -> Nat]

\* addSubscription checks and then adds without a lock (lines 82-85), yet no
\* client ever has two equal subscriptions: only the thread of its own messages
\* adds for it, and removal by the other threads cannot break the check.
NoEqualSubscriptions ==
    \A o, p \in subscriptions : of[o] = of[p] => o = p

\* A subscription that was stopped sends at most the one message whose task had
\* already passed the test of `active` (line 131): removal does not wait for the
\* timer thread, but the timer cannot start it again.
AtMostOneLateMessage == \A o \in Objects : ~ active[o] => late[o] <= 1

\* Once an unsubscribe has been worked off nothing is left that would send for
\* its topic, neither in the list nor, unknown to it, in the timer: whatever broker
\* failures, rejected periods and re-subscriptions came before.  Only a kill of the
\* client can break this: between Add and Activate it stops an object that is
\* then scheduled all the same.
UnsubscribeStops ==
    \A s \in Sessions :
        step[s] = "heartbeat" /\ s \in consumerList /\ killing[s] = "no" =>
            \A o \in Made : of[o] = Pair(s, Head(todo[s])) => o \notin subscriptions /\ ~ Live(o)

\* Two threads never schedule or restart the same TimerTask, which the Timer
\* would answer with IllegalStateException: a task goes from virgin to scheduled
\* to cancelled (setActive, line 247).
TasksNeverRestart ==
    [][\A o \in Objects : \/ task'[o] = task[o]
                          \/ task[o] = "virgin" /\ task'[o] = "scheduled"
                          \/ task[o] = "scheduled" /\ task'[o] = "cancelled"]_vars

\* A stopped subscription's task leaves the Timer, whoever stopped it.
StoppedTasksEnd ==
    \A o \in Objects : (task[o] = "scheduled" /\ ~ active[o]) ~> task[o] = "cancelled"

\* A subscription in force is served again and again, whatever the other
\* sessions do, although one thread runs all tasks.
LiveAreServed == \A o \in Objects : Live(o) ~> (running = o \/ ~ active[o])

\* "unsubscribe all" (ArtemisTcpNettyHandler line 150): when a client has gone
\* its subscriptions end.
InactiveUnsubscribesAll ==
    \A s \in Sessions : \A o \in Objects :
        (s \notin connected /\ Live(o) /\ of[o].session = s) ~> ~ active[o]
==============================================================================
