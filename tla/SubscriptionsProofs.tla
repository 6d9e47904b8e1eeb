------------------------ MODULE SubscriptionsProofs -------------------------
(***************************************************************************)
(* The subscriptions of the server, for any number of clients, topics and  *)
(* objects: what the threads may do to each other's subscriptions without  *)
(* a common lock.                                                          *)
(***************************************************************************)
EXTENDS Subscriptions, SequenceTheorems, TLAPS

Steps == {"idle", "subscribe", "add", "activate", "schedule",
          "unsubscribe", "remove", "deactivate", "heartbeat"}

Types ==
    /\ TypeOK
    /\ step \in [Sessions -> Steps]
    /\ todo \in [Sessions -> Seq(Topics)]
    /\ found \in [Sessions -> SUBSET Objects]
    /\ doomed \in [Sessions -> SUBSET Objects]
    /\ killing \in [Sessions -> {"no", "snapshot", "deactivate", "remove"}]
    /\ \A o \in Objects : task[o] # "virgin" => o \in Made
    /\ \A s \in consumers : killing[s] = "no"

\* Every action leaves most of the state alone; what each of them may change is
\* what a part of Types is about.
ThreadTypes ==
    /\ step \in [Sessions -> Steps]
    /\ todo \in [Sessions -> Seq(Topics)]
    /\ \A s \in Sessions : step[s] = "idle" <=> todo[s] = <<>>
    /\ inbox \in [Sessions -> Messages \cup {null}]
    /\ found \in [Sessions -> SUBSET Objects]
    /\ doomed \in [Sessions -> SUBSET Objects]
    /\ \A s \in Sessions : found[s] \subseteq Made /\ doomed[s] \subseteq Made
    /\ killing \in [Sessions -> {"no", "snapshot", "deactivate", "remove"}]

ObjectTypes ==
    /\ made \in 0 .. MaxObjects
    /\ subscriptions \subseteq Made
    /\ of \in [Objects -> {null} \cup [session : Sessions, topic : Topics]]
    /\ \A o \in Objects : of[o] = null <=> o \notin Made
    /\ active \in [Objects -> BOOLEAN]
    /\ task \in [Objects -> {"virgin", "scheduled", "cancelled"}]
    /\ \A o \in Objects : task[o] # "virgin" => o \in Made
    /\ running \in Made \cup {null}
    /\ late \in [Objects -> Nat]

HandlerTypes ==
    /\ heartbeats \in [Sessions -> Nat]
    /\ queues \subseteq Sessions
    /\ replies \in [Sessions -> BOOLEAN]
    /\ consumers \subseteq consumerList /\ consumerList \subseteq Sessions
    /\ open \subseteq connected /\ connected \subseteq Sessions
    /\ killing \in [Sessions -> {"no", "snapshot", "deactivate", "remove"}]
    /\ \A s \in consumers : killing[s] = "no"

LEMMA TypesAreParts == Types <=> ThreadTypes /\ ObjectTypes /\ HandlerTypes
BY DEF Types, TypeOK, ThreadTypes, ObjectTypes, HandlerTypes

LEMMA MadeAreObjects == ASSUME ObjectTypes PROVE Made \subseteq Objects
BY SubscriptionsAssumption DEF ObjectTypes, Made, Objects

LEMMA MessageTopics ==
    ASSUME NEW m \in Messages
    PROVE  m.kind \in {"subscribe", "unsubscribe"} /\ m.topics \in Seq(Topics) /\ m.topics # <<>>
<1>1. PICK n \in 1 .. MaxList : m.topics \in [1 .. n -> Topics]
  BY DEF Messages
<1>2. n \in Nat /\ n > 0
  BY <1>1, SubscriptionsAssumption
<1>3. m.topics \in Seq(Topics) /\ Len(m.topics) = n
  BY <1>1, <1>2
<1> QED
  BY <1>2, <1>3 DEF Messages

\* What Advance and Abandon do to the thread of a session.
LEMMA AdvanceTypes ==
    ASSUME ThreadTypes, ObjectTypes, NEW s \in Sessions, step[s] # "idle",
           NEW kind \in {"subscribe", "unsubscribe"}, Advance(s, kind) \/ Abandon(s),
           UNCHANGED <<made, inbox, doomed, killing>>
    PROVE  ThreadTypes'
<1>1. todo[s] \in Seq(Topics) /\ todo[s] # <<>>
  BY DEF ThreadTypes
<1>2. Tail(todo[s]) \in Seq(Topics) /\ (Tail(todo[s]) = <<>> <=> Len(todo[s]) = 1)
  <2>1. /\ Len(todo[s]) \in Nat \ {0} /\ Tail(todo[s]) \in Seq(Topics)
        /\ Len(Tail(todo[s])) = Len(todo[s]) - 1
    BY <1>1, HeadTailProperties, EmptySeq
  <2>2. Tail(todo[s]) = <<>> <=> Len(Tail(todo[s])) = 0
    BY <2>1, EmptySeq
  <2> QED
    BY <2>1, <2>2
<1>3. CASE Advance(s, kind)
  <2>1. /\ step' \in [Sessions -> Steps] /\ todo' \in [Sessions -> Seq(Topics)]
        /\ found' \in [Sessions -> SUBSET Objects]
    BY <1>2, <1>3 DEF Advance, ThreadTypes, Steps
  <2>2. \A u \in Sessions : step'[u] = "idle" <=> todo'[u] = <<>>
    BY <1>2, <1>3 DEF Advance, ThreadTypes
  <2>3. \A u \in Sessions : found'[u] \subseteq Made' /\ doomed'[u] \subseteq Made'
    BY <1>3 DEF Advance, ThreadTypes, Made
  <2> QED
    BY <2>1, <2>2, <2>3 DEF ThreadTypes
<1>4. CASE Abandon(s)
  <2>1. /\ step' \in [Sessions -> Steps] /\ todo' \in [Sessions -> Seq(Topics)]
        /\ found' \in [Sessions -> SUBSET Objects]
    BY <1>4 DEF Abandon, ThreadTypes, Steps
  <2>2. \A u \in Sessions : step'[u] = "idle" <=> todo'[u] = <<>>
    BY <1>4 DEF Abandon, ThreadTypes
  <2>3. \A u \in Sessions : found'[u] \subseteq Made' /\ doomed'[u] \subseteq Made'
    BY <1>4 DEF Abandon, ThreadTypes, Made
  <2> QED
    BY <2>1, <2>2, <2>3 DEF ThreadTypes
<1> QED
  BY <1>3, <1>4

\* What Goto does while a message is being worked off.
LEMMA GotoTypes ==
    ASSUME ThreadTypes, NEW s \in Sessions, NEW from \in Steps \ {"idle"},
           NEW to \in Steps \ {"idle"}, Goto(s, from, to), todo' = todo, inbox' = inbox,
           doomed' = doomed, killing' = killing, Made \subseteq Made',
           found' \in [Sessions -> SUBSET Objects],
           \A u \in Sessions : found'[u] \subseteq Made'
    PROVE  ThreadTypes'
<1>1. step' \in [Sessions -> Steps]
  BY DEF Goto, ThreadTypes
<1>2. \A u \in Sessions : step'[u] = "idle" <=> todo'[u] = <<>>
  BY DEF Goto, ThreadTypes
<1> QED
  BY <1>1, <1>2 DEF ThreadTypes

LEMMA MessageTypes ==
    ASSUME Types, NEW s \in Sessions, Intercept(s) \/ \E m \in Messages : ClientSends(s, m)
    PROVE  Types'
<1> USE DEF registry, objects, handler
<1>1. ThreadTypes /\ ObjectTypes /\ HandlerTypes
  BY TypesAreParts
<1>2. ObjectTypes'
  BY <1>1 DEF ClientSends, Intercept, ObjectTypes, Made
<1>3. HandlerTypes'
  BY <1>1 DEF ClientSends, Intercept, HandlerTypes
<1>4. CASE \E m \in Messages : ClientSends(s, m)
  <2>1. ThreadTypes'
    BY <1>1, <1>4 DEF ClientSends, ThreadTypes, Made
  <2> QED
    BY <1>2, <1>3, <2>1, TypesAreParts DEF Types, TypeOK, ThreadTypes, ObjectTypes, HandlerTypes
<1>5. CASE Intercept(s)
  <2>1. inbox[s] \in Messages
    BY <1>1, <1>5 DEF Intercept, ThreadTypes
  <2>2. /\ inbox[s].kind \in Steps \ {"idle"}
        /\ inbox[s].topics \in Seq(Topics) /\ inbox[s].topics # <<>>
    BY <2>1, MessageTopics DEF Steps
  <2>3. /\ step' = [step EXCEPT ![s] = inbox[s].kind]
        /\ todo' = [todo EXCEPT ![s] = inbox[s].topics]
        /\ inbox' = [inbox EXCEPT ![s] = null]
        /\ found' = found /\ doomed' = doomed /\ killing' = killing /\ made' = made
    BY <1>5 DEF Intercept, Goto
  <2>4. /\ step' \in [Sessions -> Steps] /\ todo' \in [Sessions -> Seq(Topics)]
        /\ inbox' \in [Sessions -> Messages \cup {null}]
    BY <1>1, <2>2, <2>3 DEF ThreadTypes
  <2>5. \A u \in Sessions : step'[u] = "idle" <=> todo'[u] = <<>>
    BY <1>1, <2>2, <2>3 DEF ThreadTypes
  <2>6. ThreadTypes'
    BY <1>1, <2>3, <2>4, <2>5 DEF ThreadTypes, Made
  <2> QED
    BY <1>2, <1>3, <2>6 DEF Types, TypeOK, ThreadTypes, ObjectTypes, HandlerTypes
<1> QED
  BY <1>4, <1>5

LEMMA NextTopic ==
    ASSUME ThreadTypes, NEW s \in Sessions, step[s] # "idle"
    PROVE  Head(todo[s]) \in Topics
BY HeadTailProperties DEF ThreadTypes

LEMMA SubscribeTypes ==
    ASSUME Types, NEW s \in Sessions,
           \/ SubscribeFindsEqual(s) \/ SubscribeFindsNone(s)
           \/ Add(s) \/ Activate(s) \/ Schedule(s) \/ ScheduleFails(s)
    PROVE  Types'
<1> USE DEF registry, objects, handler
<1>1. ThreadTypes /\ ObjectTypes /\ HandlerTypes
  BY TypesAreParts
<1>2. HandlerTypes'
  BY <1>1 DEF SubscribeFindsEqual, SubscribeFindsNone, Add, Activate, Schedule,
     ScheduleFails, HandlerTypes
<1>3. ASSUME ThreadTypes', ObjectTypes' PROVE Types'
  BY <1>2, <1>3 DEF Types, TypeOK, ThreadTypes, ObjectTypes, HandlerTypes
<1>4. CASE SubscribeFindsEqual(s)
  <2>1. ObjectTypes'
    BY <1>1, <1>4 DEF SubscribeFindsEqual, ObjectTypes, Made
  <2>2. ThreadTypes'
    BY <1>1, <1>4, AdvanceTypes DEF SubscribeFindsEqual
  <2> QED
    BY <1>3, <2>1, <2>2
<1>5. CASE SubscribeFindsNone(s)
  <2> DEFINE o == made + 1
             pair == Pair(s, Head(todo[s]))
  <2>1. o \in Objects /\ made' = o /\ Made' = Made \cup {o} /\ o \notin Made
    BY <1>1, <1>5, SubscriptionsAssumption DEF SubscribeFindsNone, ObjectTypes, Objects, Made
  <2>2. pair \in [session : Sessions, topic : Topics] /\ pair # null
    BY <1>1, <1>5, NextTopic, SubscriptionsAssumption DEF SubscribeFindsNone, Goto, Pair
  <2>3. of' = [of EXCEPT ![o] = pair] /\ found' = [found EXCEPT ![s] = {o}]
    BY <1>5, <2>1 DEF SubscribeFindsNone
  <2>4. subscriptions' = subscriptions /\ active' = active /\ task' = task
        /\ running' = running /\ late' = late
    BY <1>5 DEF SubscribeFindsNone
  <2>5. made' \in 0 .. MaxObjects
    BY <2>1, SubscriptionsAssumption DEF Objects
  <2> HIDE DEF o, pair
  <2>6. \A p \in Objects : of'[p] = null <=> p \notin Made'
    BY <1>1, <2>1, <2>2, <2>3 DEF ObjectTypes
  <2>7. ObjectTypes'
    BY <1>1, <2>1, <2>2, <2>3, <2>4, <2>5, <2>6 DEF ObjectTypes
  <2>8. found' \in [Sessions -> SUBSET Objects]
        /\ \A u \in Sessions : found'[u] \subseteq Made'
    BY <1>1, <2>1, <2>3 DEF ThreadTypes
  <2>9. ThreadTypes'
    BY <1>1, <1>5, <2>1, <2>8, GotoTypes DEF SubscribeFindsNone, Steps
  <2> QED
    BY <1>3, <2>7, <2>9
<1>6. CASE Add(s)
  <2>1. ObjectTypes'
    BY <1>1, <1>6 DEF Add, ObjectTypes, ThreadTypes, Made
  <2>2. ThreadTypes'
    BY <1>1, <1>6, GotoTypes DEF Add, ThreadTypes, Steps, Made
  <2> QED
    BY <1>3, <2>1, <2>2
<1>7. CASE Activate(s)
  <2>1. active' \in [Objects -> BOOLEAN]
    BY <1>7, Zenon DEF Activate
  <2>2. ObjectTypes'
    BY <1>1, <1>7, <2>1 DEF Activate, ObjectTypes, Made
  <2>3. ThreadTypes'
    BY <1>1, <1>7, GotoTypes DEF Activate, ThreadTypes, Steps, Made
  <2> QED
    BY <1>3, <2>2, <2>3
<1>8. CASE Schedule(s)
  <2>1. task' \in [Objects -> {"virgin", "scheduled", "cancelled"}]
        /\ \A o \in Objects : task'[o] # "virgin" => o \in Made
    BY <1>1, <1>8 DEF Schedule, ObjectTypes, ThreadTypes
  <2>2. ObjectTypes'
    BY <1>1, <1>8, <2>1 DEF Schedule, ObjectTypes, Made
  <2>3. ThreadTypes'
    BY <1>1, <1>8, AdvanceTypes DEF Schedule
  <2> QED
    BY <1>3, <2>2, <2>3
<1>9. CASE ScheduleFails(s)
  <2>1. ObjectTypes'
    BY <1>1, <1>9 DEF ScheduleFails, ObjectTypes, Made
  <2>2. ThreadTypes'
    BY <1>1, <1>9, AdvanceTypes DEF ScheduleFails
  <2> QED
    BY <1>3, <2>1, <2>2
<1> QED
  BY <1>4, <1>5, <1>6, <1>7, <1>8, <1>9

LEMMA UnsubscribeTypes ==
    ASSUME Types, NEW s \in Sessions,
           UnsubscribeFinds(s) \/ Remove(s) \/ Deactivate(s) \/ AddHeartbeat(s)
    PROVE  Types'
<1> USE DEF registry, objects, handler
<1>1. ThreadTypes /\ ObjectTypes /\ HandlerTypes
  BY TypesAreParts
<1>2. HandlerTypes'
  BY <1>1 DEF UnsubscribeFinds, Remove, Deactivate, AddHeartbeat, HandlerTypes
<1>3. ASSUME ThreadTypes', ObjectTypes' PROVE Types'
  BY <1>2, <1>3 DEF Types, TypeOK, ThreadTypes, ObjectTypes, HandlerTypes
<1>4. CASE UnsubscribeFinds(s)
  <2>1. ObjectTypes'
    BY <1>1, <1>4 DEF UnsubscribeFinds, ObjectTypes, Made
  <2>2. Equal(s, Head(todo[s])) \subseteq Made /\ Made \subseteq Objects
    BY <1>1, MadeAreObjects DEF Equal, ObjectTypes
  <2>3. found' \in [Sessions -> SUBSET Objects] /\ \A u \in Sessions : found'[u] \subseteq Made
    BY <1>1, <1>4, <2>2 DEF UnsubscribeFinds, ThreadTypes
  <2>4. ThreadTypes'
    BY <1>1, <1>4, <2>3, GotoTypes DEF UnsubscribeFinds, Steps, Made
  <2> QED
    BY <1>3, <2>1, <2>4
<1>5. CASE Remove(s)
  <2>1. ObjectTypes'
    BY <1>1, <1>5 DEF Remove, ObjectTypes, Made
  <2>2. ThreadTypes'
    BY <1>1, <1>5, GotoTypes DEF Remove, ThreadTypes, Steps, Made
  <2> QED
    BY <1>3, <2>1, <2>2
<1>6. CASE Deactivate(s)
  <2>1. active' \in [Objects -> BOOLEAN]
    BY <1>6, Zenon DEF Deactivate
  <2>2. ObjectTypes'
    BY <1>1, <1>6, <2>1 DEF Deactivate, ObjectTypes, Made
  <2>3. ThreadTypes'
    BY <1>1, <1>6, GotoTypes DEF Deactivate, ThreadTypes, Steps, Made
  <2> QED
    BY <1>3, <2>2, <2>3
<1>7. CASE AddHeartbeat(s)
  <2>1. ObjectTypes'
    BY <1>1, <1>7 DEF AddHeartbeat, ObjectTypes, Made
  <2>2. ThreadTypes'
    BY <1>1, <1>7, AdvanceTypes DEF AddHeartbeat
  <2> QED
    BY <1>3, <2>1, <2>2
<1> QED
  BY <1>4, <1>5, <1>6, <1>7

LEMMA TaskTypes ==
    ASSUME Types, NEW o \in Objects, Task(o)
    PROVE  Types'
<1> USE DEF registry, objects, handler, interceptor
<1>1. ThreadTypes /\ ObjectTypes /\ HandlerTypes
  BY TypesAreParts
<1>2. ThreadTypes'
  BY <1>1 DEF Task, TaskStarts, TaskSends, TaskSendFails, ThreadTypes, Made
<1>3. HandlerTypes'
  <2>1. replies' \in [Sessions -> BOOLEAN]
    <3>1. CASE TaskSends(o)
      BY <1>1, <3>1, Zenon DEF TaskSends, HandlerTypes
    <3>2. CASE replies' = replies
      BY <1>1, <3>2 DEF HandlerTypes
    <3> QED
      BY <3>1, <3>2 DEF Task, TaskStarts, TaskSendFails
  <2> QED
    BY <1>1, <2>1 DEF Task, TaskStarts, TaskSends, TaskSendFails, HandlerTypes
<1>4. ObjectTypes'
  <2>1. CASE TaskStarts(o)
    BY <1>1, <2>1 DEF TaskStarts, ObjectTypes, Made
  <2>2. CASE TaskSends(o)
    BY <1>1, <2>2 DEF TaskSends, ObjectTypes, Made
  <2>3. CASE TaskSendFails(o)
    BY <1>1, <2>3 DEF TaskSendFails, ObjectTypes, Made
  <2> QED
    BY <2>1, <2>2, <2>3 DEF Task
<1> QED
  BY <1>2, <1>3, <1>4 DEF Types, TypeOK, ThreadTypes, ObjectTypes, HandlerTypes

LEMMA HandlerStepTypes ==
    ASSUME Types, NEW s \in Sessions, Consumer(s) \/ ChannelCloses(s) \/ ChannelInactive(s)
    PROVE  Types'
<1> USE DEF registry, objects, handler, interceptor
<1>1. ThreadTypes /\ ObjectTypes /\ HandlerTypes
  BY TypesAreParts
<1>2. HandlerTypes'
  <2>1. CASE Killing(s)
    BY <1>1, <2>1 DEF Killing, KillStep, KillSnapshot, KillDeactivate, KillRemoveAll, HandlerTypes
  <2>2. CASE Process(s) \/ Kill(s) \/ ChannelCloses(s) \/ ChannelInactive(s)
    <3>1. replies' = [replies EXCEPT ![s] = FALSE] \/ replies' = replies
      BY <2>2 DEF Process, Kill, ChannelCloses, ChannelInactive
    <3>2. replies' \in [Sessions -> BOOLEAN]
      BY <1>1, <3>1, Zenon DEF HandlerTypes
    <3> QED
      BY <1>1, <2>2, <3>2 DEF Process, Kill, ChannelCloses, ChannelInactive, HandlerTypes
  <2> QED
    BY <2>1, <2>2 DEF Consumer
<1>3. ObjectTypes'
  <2>1. active' \in [Objects -> BOOLEAN]
    <3>1. CASE KillDeactivate(s)
      BY <3>1, Zenon DEF KillDeactivate
    <3>2. CASE active' = active
      BY <1>1, <3>2 DEF ObjectTypes
    <3> QED
      BY <3>1, <3>2 DEF Consumer, Process, Kill, Killing, KillSnapshot, KillRemoveAll,
         ChannelCloses, ChannelInactive
  <2> QED
    BY <1>1, <2>1 DEF Consumer, Process, Kill, Killing, KillSnapshot, KillDeactivate,
       KillRemoveAll, ChannelCloses, ChannelInactive, ObjectTypes, Made
<1>4. ThreadTypes'
  <2>1. OfSession(s) \subseteq Made /\ Made \subseteq Objects
    BY <1>1, MadeAreObjects DEF OfSession, ObjectTypes
  <2>2. CASE KillSnapshot(s)
    BY <1>1, <2>1, <2>2 DEF KillSnapshot, KillStep, ThreadTypes, Made
  <2>3. CASE KillDeactivate(s)
    BY <1>1, <2>3 DEF KillDeactivate, KillStep, ThreadTypes, Made
  <2>4. CASE KillRemoveAll(s)
    BY <1>1, <2>4 DEF KillRemoveAll, KillStep, ThreadTypes, Made
  <2>5. CASE Kill(s)
    BY <1>1, <2>5 DEF Kill, ThreadTypes, Made
  <2>6. CASE Process(s) \/ ChannelCloses(s) \/ ChannelInactive(s)
    BY <1>1, <2>6 DEF Process, ChannelCloses, ChannelInactive, ThreadTypes, Made
  <2> QED
    BY <2>2, <2>3, <2>4, <2>5, <2>6 DEF Consumer, Killing
<1> QED
  BY <1>2, <1>3, <1>4 DEF Types, TypeOK, ThreadTypes, ObjectTypes, HandlerTypes

LEMMA TypesStep == Types /\ [Next]_vars => Types'
<1> SUFFICES ASSUME Types, [Next]_vars PROVE Types'
  OBVIOUS
<1>1. CASE UNCHANGED vars
  BY <1>1 DEF Types, TypeOK, Made, vars, registry, objects, interceptor, handler
<1> QED
  BY <1>1, MessageTypes, SubscribeTypes, UnsubscribeTypes, TaskTypes, HandlerStepTypes
     DEF Next, Interceptor

LEMMA TypesInit == Init => Types
<1> SUFFICES ASSUME Init PROVE Types
  OBVIOUS
<1>1. made \in 0 .. MaxObjects /\ Made = {} /\ null \in {null}
  BY SubscriptionsAssumption DEF Init, Made
<1>2. /\ step \in [Sessions -> Steps] /\ todo \in [Sessions -> Seq(Topics)]
      /\ heartbeats \in [Sessions -> Nat] /\ late \in [Objects -> Nat]
  BY EmptySeq DEF Init, Steps
<1> QED
  BY <1>1, <1>2 DEF Init, Types, TypeOK

\* The collections and the threads' local state stay in range, for any number
\* of clients and objects.
THEOREM SubscriptionTypes == Spec => []TypeOK
<1>1. Types => TypeOK
  BY DEF Types
<1> QED
  BY <1>1, TypesInit, TypesStep, PTL DEF Spec
------------------------------------------------------------------------------
(* What the threads rely on.  Thread(s) is about the messages of session s, of  *)
(* which there is only ever one in work; Listed(s) holds until the consumer     *)
(* kills the session; Sends(o) is about the timer.                              *)

Current(s) == Pair(s, Head(todo[s]))
Untouched(s) == s \in consumerList /\ killing[s] = "no"

\* The object being added is new to every other thread, and what the thread has
\* read of the list is still true of the subscriptions of its own session.
Thread(s) ==
    /\ step[s] \in {"add", "activate", "schedule"} =>
          \E o \in Made : found[s] = {o} /\ of[o] = Current(s) /\ task[o] = "virgin"
    /\ step[s] \in {"remove", "deactivate"} => \A o \in found[s] : of[o] = Current(s)
    /\ step[s] \in {"add", "deactivate", "heartbeat"} => Equal(s, Head(todo[s])) = {}
    /\ step[s] = "remove" => Equal(s, Head(todo[s])) \subseteq found[s]
    /\ \A o \in doomed[s] : of[o].session = s

\* Only an unsubscribe in work knows of a live task that is not in the list.
Listed(s) ==
    Untouched(s) =>
        /\ step[s] \in {"activate", "schedule"} => found[s] \subseteq subscriptions
        /\ \A o \in Made : of[o].session = s /\ Live(o) /\ o \notin subscriptions =>
              step[s] = "deactivate" /\ o \in found[s]

\* A task starts only while its object is active, so one that runs for an
\* inactive object has not sent for it before.
Sends(o) ==
    /\ late[o] \in {0, 1}
    /\ active[o] \/ running = o \/ task[o] = "virgin" => late[o] = 0
    /\ task[o] = "virgin" => running # o

IInv ==
    /\ Types
    /\ \A s \in Sessions : Thread(s) /\ Listed(s)
    /\ \A o \in Objects : Sends(o)
    /\ NoEqualSubscriptions

\* What a step of somebody else leaves to the thread of session u.
Frame(u) ==
    /\ step'[u] = step[u] /\ todo'[u] = todo[u] /\ found'[u] = found[u]
    /\ \A o \in doomed'[u] : of'[o].session = u
    /\ \A o \in Made : o \in Made' /\ of'[o] = of[o]
    /\ \A o \in Made' : of'[o].session = u =>
          /\ o \in Made
          /\ o \in subscriptions' => o \in subscriptions
          /\ task[o] = "virgin" => task'[o] = "virgin"
          /\ Live(o)' => Live(o)
          /\ Untouched(u)' /\ o \in subscriptions => o \in subscriptions'
    /\ Untouched(u)' => Untouched(u)

LEMMA FrameKeeps ==
    ASSUME Types, Types', NEW u \in Sessions, Thread(u), Listed(u), Frame(u)
    PROVE  Thread(u)' /\ Listed(u)'
<1>1. subscriptions \subseteq Made /\ subscriptions' \subseteq Made' /\ found[u] \subseteq Made
  BY DEF Types, TypeOK
<1>2. Current(u)' = Current(u) /\ Current(u).session = u
  BY DEF Frame, Current, Pair
<1>3. Equal(u, Head(todo[u]))' \subseteq Equal(u, Head(todo[u]))
  BY <1>1, <1>2 DEF Equal, Frame, Current
<1>4. Thread(u)'
  <2>1. ASSUME step'[u] \in {"add", "activate", "schedule"}
        PROVE  \E o \in Made' : found'[u] = {o} /\ of'[o] = Current(u)' /\ task'[o] = "virgin"
    BY <1>2, <2>1 DEF Thread, Frame
  <2>2. ASSUME step'[u] \in {"remove", "deactivate"}
        PROVE  \A o \in found'[u] : of'[o] = Current(u)'
    BY <1>1, <1>2, <2>2 DEF Thread, Frame
  <2>3. ASSUME step'[u] \in {"add", "deactivate", "heartbeat"}
        PROVE  Equal(u, Head(todo[u]))' = {}
    BY <1>3, <2>3 DEF Thread, Frame
  <2>4. ASSUME step'[u] = "remove" PROVE Equal(u, Head(todo[u]))' \subseteq found'[u]
    BY <1>3, <2>4 DEF Thread, Frame
  <2>5. \A o \in doomed'[u] : of'[o].session = u
    BY DEF Frame
  <2> QED
    BY <2>1, <2>2, <2>3, <2>4, <2>5 DEF Thread
<1>5. Listed(u)'
  <2> SUFFICES ASSUME Untouched(u)' PROVE
           /\ step'[u] \in {"activate", "schedule"} => found'[u] \subseteq subscriptions'
           /\ \A o \in Made' : of'[o].session = u /\ Live(o)' /\ o \notin subscriptions' =>
                 step'[u] = "deactivate" /\ o \in found'[u]
    BY DEF Listed
  <2>1. Untouched(u)
    BY DEF Frame
  <2>2. ASSUME step'[u] \in {"activate", "schedule"} PROVE found'[u] \subseteq subscriptions'
    <3>1. PICK o \in Made : found[u] = {o} /\ of[o] = Current(u)
      BY <2>2 DEF Thread, Frame
    <3>2. o \in subscriptions
      BY <2>1, <2>2, <3>1 DEF Listed, Frame
    <3> QED
      BY <1>2, <3>1, <3>2 DEF Frame
  <2>3. ASSUME NEW o \in Made', of'[o].session = u, Live(o)', o \notin subscriptions'
        PROVE  step'[u] = "deactivate" /\ o \in found'[u]
    <3>1. o \in Made /\ of[o].session = u /\ Live(o) /\ o \notin subscriptions
      BY <2>3 DEF Frame
    <3> QED
      BY <2>1, <3>1 DEF Listed, Frame
  <2> QED
    BY <2>2, <2>3
<1> QED
  BY <1>4, <1>5

\* What the thread of session s does leaves the other sessions alone: the objects
\* it adds, removes, starts and stops are its own.
LEMMA OthersFrame ==
    ASSUME IInv, Types', NEW s \in Sessions, NEW u \in Sessions, u # s, Interceptor(s)
    PROVE  Frame(u)
<1> USE DEF registry, objects, handler
<1>1. /\ subscriptions \subseteq Made /\ Made \subseteq Objects
      /\ found[s] \subseteq Made /\ doomed[u] \subseteq Made
      /\ step \in [Sessions -> Steps] /\ todo \in [Sessions -> Seq(Topics)]
      /\ found \in [Sessions -> SUBSET Objects]
      /\ \A o \in doomed[u] : of[o].session = u
  BY TypesAreParts, MadeAreObjects DEF IInv, Types, TypeOK, Thread
<1>2. doomed' = doomed /\ killing' = killing /\ consumerList' = consumerList
  BY DEF Interceptor, Intercept, SubscribeFindsEqual, SubscribeFindsNone, Add, Activate,
     Schedule, ScheduleFails, UnsubscribeFinds, Remove, Deactivate, AddHeartbeat
<1>3. Untouched(u)' => Untouched(u)
  BY <1>2 DEF Untouched
<1>4. step'[u] = step[u] /\ todo'[u] = todo[u] /\ found'[u] = found[u]
  BY <1>1 DEF Interceptor, Goto, Advance, Abandon, Intercept, SubscribeFindsEqual,
     SubscribeFindsNone, Add, Activate, Schedule, ScheduleFails, UnsubscribeFinds, Remove,
     Deactivate, AddHeartbeat
<1>5. CASE SubscribeFindsNone(s)
  <2> DEFINE p == made + 1
             pair == Pair(s, Head(todo[s]))
  <2>1. p \in Objects /\ Made' = Made \cup {p} /\ p \notin Made
    <3>1. made \in 0 .. MaxObjects
      BY DEF IInv, Types, TypeOK
    <3> QED
      BY <1>5, <3>1, SubscriptionsAssumption DEF SubscribeFindsNone, Objects, Made
  <2>2. pair.session = s
    BY DEF Pair
  <2>3. /\ of' = [of EXCEPT ![p] = pair] /\ of \in [Objects -> {null} \cup [session : Sessions, topic : Topics]]
        /\ subscriptions' = subscriptions /\ active' = active /\ task' = task
    BY <1>5, <2>1 DEF SubscribeFindsNone, IInv, Types, TypeOK
  <2> HIDE DEF p, pair
  <2>4. of'[p].session # u /\ \A o \in Made : o \in Made' /\ of'[o] = of[o]
    BY <1>1, <2>1, <2>2, <2>3
  <2>5. \A o \in doomed'[u] : of'[o].session = u
    BY <1>1, <1>2, <2>4
  <2> QED
    BY <1>3, <1>4, <2>1, <2>3, <2>4, <2>5 DEF Frame, Live
<1>6. ASSUME made' = made, of' = of,
             \A o \in Made : of[o].session = u => /\ o \in subscriptions' <=> o \in subscriptions
                                                  /\ active'[o] = active[o] /\ task'[o] = task[o]
      PROVE  Frame(u)
  BY <1>1, <1>2, <1>3, <1>4, <1>6 DEF Frame, Live, Made
<1>7. CASE Add(s) \/ Activate(s) \/ Schedule(s)
  <2>1. PICK p \in Made : found[s] = {p} /\ of[p] = Current(s)
    BY <1>7 DEF Add, Activate, Schedule, Goto, IInv, Thread
  <2>2. of[p].session = s
    BY <2>1 DEF Current, Pair
  <2>3. CASE Add(s)
    BY <1>1, <1>6, <2>1, <2>2, <2>3 DEF Add
  <2>4. CASE Activate(s)
    <3>1. \A o \in Made : of[o].session = u => active'[o] = active[o]
      <4>1. TAKE o \in Made
      <4>2. HAVE of[o].session = u
      <4>3. o \notin found[s] /\ active[o] \in BOOLEAN /\ o \in Objects
        BY <1>1, <2>1, <2>2, <4>2 DEF IInv, Types, TypeOK
      <4> QED
        BY <2>4, <4>3, Zenon DEF Activate
    <3> QED
      BY <1>6, <2>4, <3>1 DEF Activate
  <2>5. CASE Schedule(s)
    <3>1. \A o \in Made : of[o].session = u => task'[o] = task[o]
      BY <1>1, <2>1, <2>2, <2>5 DEF Schedule
    <3> QED
      BY <1>6, <2>5, <3>1 DEF Schedule
  <2> QED
    BY <1>7, <2>3, <2>4, <2>5
<1>8. CASE Remove(s) \/ Deactivate(s)
  <2>1. \A o \in found[s] : of[o].session = s
    <3>1. \A o \in found[s] : of[o] = Current(s)
      BY <1>8 DEF Remove, Deactivate, Goto, IInv, Thread
    <3> QED
      BY <3>1 DEF Current, Pair
  <2>2. CASE Remove(s)
    BY <1>1, <1>6, <2>1, <2>2 DEF Remove
  <2>3. CASE Deactivate(s)
    <3>1. \A o \in Made : of[o].session = u => active'[o] = active[o]
      <4>1. TAKE o \in Made
      <4>2. HAVE of[o].session = u
      <4>3. o \notin found[s] /\ active[o] \in BOOLEAN /\ o \in Objects
        BY <1>1, <2>1, <4>2 DEF IInv, Types, TypeOK
      <4> QED
        BY <2>3, <4>3, Zenon DEF Deactivate
    <3> QED
      BY <1>6, <2>3, <3>1 DEF Deactivate
  <2> QED
    BY <1>8, <2>2, <2>3
<1>9. CASE UNCHANGED <<subscriptions, objects>>
  BY <1>6, <1>9
<1> QED
  BY <1>5, <1>7, <1>8, <1>9 DEF Interceptor, Intercept, SubscribeFindsEqual, ScheduleFails,
     UnsubscribeFinds, AddHeartbeat

\* The steps of the client, the channel and the timer change nothing a thread
\* relies on, and those of the consumer nothing of a session it has not killed.
LEMMA OutsideFrame ==
    ASSUME IInv, Types', NEW u \in Sessions,
           \/ \E s \in Sessions : \/ \E m \in Messages : ClientSends(s, m)
                                  \/ Consumer(s) \/ ChannelCloses(s) \/ ChannelInactive(s)
           \/ \E o \in Objects : Task(o)
    PROVE  Frame(u)
<1> USE DEF registry, objects, handler, interceptor
<1>1. /\ subscriptions \subseteq Made /\ Made \subseteq Objects
      /\ killing \in [Sessions -> {"no", "snapshot", "deactivate", "remove"}]
      /\ doomed \in [Sessions -> SUBSET Objects]
      /\ \A s \in Sessions : doomed[s] \subseteq Made /\ \A o \in doomed[s] : of[o].session = s
      /\ active \in [Objects -> BOOLEAN]
      /\ task \in [Objects -> {"virgin", "scheduled", "cancelled"}]
  BY TypesAreParts, MadeAreObjects DEF IInv, Types, TypeOK, Thread
<1>2. step' = step /\ todo' = todo /\ found' = found /\ made' = made /\ of' = of
  BY DEF ClientSends, Consumer, Process, Kill, Killing, KillSnapshot, KillDeactivate,
     KillRemoveAll, ChannelCloses, ChannelInactive, Task, TaskStarts, TaskSends, TaskSendFails
<1>3. ASSUME \A o \in doomed'[u] : of[o].session = u, Untouched(u)' => Untouched(u),
             \A o \in Made : of[o].session = u =>
                 /\ o \in subscriptions' => o \in subscriptions
                 /\ task[o] = "virgin" => task'[o] = "virgin"
                 /\ Live(o)' => Live(o)
                 /\ Untouched(u)' /\ o \in subscriptions => o \in subscriptions'
      PROVE  Frame(u)
  BY <1>2, <1>3 DEF Frame, Made
<1>4. CASE \E o \in Objects : Task(o)
  <2>1. PICK o \in Objects : Task(o)
    BY <1>4
  <2>2. subscriptions' = subscriptions /\ doomed' = doomed /\ killing' = killing
        /\ consumerList' = consumerList
    BY <2>1 DEF Task, TaskStarts, TaskSends, TaskSendFails
  <2>3. \A p \in Made : /\ task[p] = "virgin" => task'[p] = "virgin"
                        /\ Live(p)' => Live(p)
    BY <1>1, <2>1 DEF Task, TaskStarts, TaskSends, TaskSendFails, Live
  <2> QED
    BY <1>1, <1>3, <2>2, <2>3 DEF Untouched
<1>5. CASE \E s \in Sessions : KillSnapshot(s)
  <2>1. PICK s \in Sessions : KillSnapshot(s)
    BY <1>5
  <2>2. \A o \in doomed'[u] : of[o].session = u
    BY <1>1, <2>1 DEF KillSnapshot, OfSession
  <2>3. Untouched(u)' => Untouched(u)
    BY <1>1, <2>1 DEF KillSnapshot, KillStep, Untouched
  <2> QED
    BY <1>3, <2>1, <2>2, <2>3 DEF KillSnapshot, Live
<1>6. CASE \E s \in Sessions : KillDeactivate(s)
  <2>1. PICK s \in Sessions : KillDeactivate(s)
    BY <1>6
  <2>2. Untouched(u)' => Untouched(u)
    BY <1>1, <2>1 DEF KillDeactivate, KillStep, Untouched
  <2>3. \A o \in Made : Live(o)' => Live(o)
    <3>1. \A o \in Objects : active'[o] => active[o]
      BY <2>1, Zenon DEF KillDeactivate
    <3> QED
      BY <1>1, <2>1, <3>1 DEF KillDeactivate, Live
  <2> QED
    BY <1>1, <1>3, <2>1, <2>2, <2>3 DEF KillDeactivate
<1>7. CASE \E s \in Sessions : KillRemoveAll(s)
  <2>1. PICK s \in Sessions : KillRemoveAll(s)
    BY <1>7
  <2>2. \A o \in doomed'[u] : of[o].session = u
    BY <1>1, <2>1 DEF KillRemoveAll
  <2>3. Untouched(u)' => u # s /\ Untouched(u)
    BY <1>1, <2>1 DEF KillRemoveAll, KillStep, Untouched
  <2>4. ASSUME NEW o \in Made, of[o].session = u, Untouched(u)', o \in subscriptions
        PROVE  o \in subscriptions'
    <3>1. \A d \in doomed[s] : of[d] # of[o]
      BY <1>1, <2>3, <2>4
    <3> QED
      BY <2>1, <2>4, <3>1 DEF KillRemoveAll
  <2>5. \A o \in subscriptions' : o \in subscriptions
    BY <2>1 DEF KillRemoveAll
  <2>6. task' = task /\ active' = active
    BY <2>1 DEF KillRemoveAll
  <2> QED
    BY <1>3, <2>2, <2>3, <2>4, <2>5, <2>6 DEF Live
<1>8. CASE \E s \in Sessions : \/ \E m \in Messages : ClientSends(s, m)
                               \/ Process(s) \/ Kill(s) \/ ChannelCloses(s) \/ ChannelInactive(s)
  <2>1. subscriptions' = subscriptions /\ task' = task /\ active' = active /\ doomed' = doomed
    BY <1>8 DEF ClientSends, Process, Kill, ChannelCloses, ChannelInactive
  <2>2. Untouched(u)' => Untouched(u)
    BY <1>1, <1>8 DEF ClientSends, Process, Kill, ChannelCloses, ChannelInactive, Untouched
  <2> QED
    BY <1>1, <1>3, <2>1, <2>2 DEF Live
<1> QED
  BY <1>4, <1>5, <1>6, <1>7, <1>8 DEF Consumer, Killing

\* Between two topics of a message a thread relies on nothing it has read.
LEMMA BetweenTopics ==
    ASSUME IInv, NEW s \in Sessions,
           step'[s] \in {"idle", "subscribe", "unsubscribe"}, step[s] # "deactivate",
           of' = of, made' = made, doomed' = doomed, killing' = killing,
           consumerList' = consumerList, subscriptions' = subscriptions,
           \A o \in Made : Live(o)' => Live(o) \/ (o \in found[s] /\ step[s] = "schedule")
    PROVE  Thread(s)' /\ Listed(s)'
<1>1. Thread(s)'
  BY DEF IInv, Thread
<1>2. Listed(s)'
  BY DEF IInv, Listed, Untouched, Made
<1> QED
  BY <1>1, <1>2

LEMMA OwnSubscribe ==
    ASSUME IInv, NEW s \in Sessions,
           \/ SubscribeFindsEqual(s) \/ SubscribeFindsNone(s)
           \/ Add(s) \/ Activate(s) \/ Schedule(s) \/ ScheduleFails(s)
    PROVE  Thread(s)' /\ Listed(s)'
<1> USE DEF registry, objects, handler
<1>1. /\ subscriptions \subseteq Made /\ Made \subseteq Objects
      /\ found[s] \subseteq Made /\ doomed[s] \subseteq Made
      /\ step \in [Sessions -> Steps] /\ found \in [Sessions -> SUBSET Objects]
      /\ of \in [Objects -> {null} \cup [session : Sessions, topic : Topics]]
      /\ active \in [Objects -> BOOLEAN]
      /\ task \in [Objects -> {"virgin", "scheduled", "cancelled"}]
      /\ \A o \in Objects : task[o] # "virgin" => o \in Made
  BY TypesAreParts, MadeAreObjects DEF IInv, Types, TypeOK
<1>2. Thread(s) /\ Listed(s)
  BY DEF IInv
<1>3. CASE SubscribeFindsEqual(s) \/ ScheduleFails(s)
  <2>1. step'[s] \in {"idle", "subscribe", "unsubscribe"} /\ step[s] # "deactivate"
    BY <1>1, <1>3 DEF SubscribeFindsEqual, ScheduleFails, Advance, Abandon
  <2>2. \A o \in Made : Live(o)' => Live(o)
    BY <1>3 DEF SubscribeFindsEqual, ScheduleFails, Live
  <2>3. /\ of' = of /\ made' = made /\ doomed' = doomed /\ killing' = killing
        /\ consumerList' = consumerList /\ subscriptions' = subscriptions
    BY <1>3 DEF SubscribeFindsEqual, ScheduleFails
  <2> QED
    BY <2>1, <2>2, <2>3, BetweenTopics
<1>4. CASE Schedule(s)
  <2>1. step'[s] \in {"idle", "subscribe", "unsubscribe"} /\ step[s] = "schedule"
    BY <1>1, <1>4 DEF Schedule, Advance
  <2>2. \A o \in Made : Live(o)' => Live(o) \/ o \in found[s]
    BY <1>1, <1>4 DEF Schedule, Live
  <2> QED
    BY <1>4, <2>1, <2>2, BetweenTopics DEF Schedule
<1>5. CASE SubscribeFindsNone(s)
  <2> DEFINE p == made + 1
             pair == Pair(s, Head(todo[s]))
  <2>1. p \in Objects /\ Made' = Made \cup {p} /\ p \notin Made
    <3>1. made \in 0 .. MaxObjects
      BY DEF IInv, Types, TypeOK
    <3> QED
      BY <1>5, <3>1, SubscriptionsAssumption DEF SubscribeFindsNone, Objects, Made
  <2>2. /\ of' = [of EXCEPT ![p] = pair] /\ found' = [found EXCEPT ![s] = {p}]
        /\ subscriptions' = subscriptions /\ active' = active /\ task' = task
        /\ todo' = todo /\ doomed' = doomed /\ killing' = killing /\ consumerList' = consumerList
        /\ step'[s] = "add" /\ step[s] = "subscribe"
    BY <1>1, <1>5, <2>1 DEF SubscribeFindsNone, Goto
  <2>3. Current(s)' = pair /\ (\A o \in subscriptions : of[o] # pair)
    BY <1>5, <2>2 DEF SubscribeFindsNone, Equal, Current, Pair
  <2> HIDE DEF p, pair
  <2>4. of'[p] = pair /\ task'[p] = "virgin" /\ \A o \in Made : of'[o] = of[o]
    BY <1>1, <2>1, <2>2
  <2>5. Thread(s)'
    <3>1. \E o \in Made' : found'[s] = {o} /\ of'[o] = Current(s)' /\ task'[o] = "virgin"
      BY <1>1, <2>1, <2>2, <2>3, <2>4
    <3>2. Equal(s, Head(todo[s]))' = {}
      BY <1>1, <2>2, <2>3, <2>4 DEF Equal, Current
    <3>3. \A o \in doomed'[s] : of'[o].session = s
      BY <1>1, <1>2, <2>2, <2>4 DEF Thread
    <3> QED
      BY <2>2, <3>1, <3>2, <3>3 DEF Thread
  <2>6. Listed(s)'
    BY <1>2, <2>1, <2>2, <2>4 DEF Listed, Untouched, Live
  <2> QED
    BY <2>5, <2>6
<1>6. CASE Add(s) \/ Activate(s)
  <2>1. PICK p \in Made : found[s] = {p} /\ of[p] = Current(s) /\ task[p] = "virgin"
    BY <1>2, <1>6 DEF Add, Activate, Goto, Thread
  <2>2. /\ made' = made /\ of' = of /\ found' = found /\ todo' = todo /\ task' = task
        /\ doomed' = doomed /\ killing' = killing /\ consumerList' = consumerList
        /\ step'[s] \in {"activate", "schedule"} /\ step[s] # "deactivate"
        /\ subscriptions \subseteq subscriptions'
    BY <1>1, <1>6 DEF Add, Activate, Goto
  <2>3. Thread(s)'
    BY <1>2, <2>1, <2>2 DEF Thread, Current, Made
  <2>4. Untouched(s)' => found'[s] \subseteq subscriptions'
    BY <1>1, <1>2, <1>6, <2>2 DEF Add, Activate, Goto, Listed, Untouched
  <2>5. \A o \in Made : Live(o)' => Live(o)
    <3>1. \A o \in Made : o # p => active'[o] = active[o]
      <4>1. CASE Add(s)
        BY <4>1 DEF Add
      <4>2. CASE Activate(s)
        <5>1. TAKE o \in Made
        <5>2. HAVE o # p
        <5>3. o \notin found[s] /\ active[o] \in BOOLEAN /\ o \in Objects
          BY <1>1, <2>1, <5>2
        <5> QED
          BY <4>2, <5>3, Zenon DEF Activate
      <4> QED
        BY <1>6, <4>1, <4>2
    <3> QED
      BY <2>1, <2>2, <3>1 DEF Live
  <2>6. Listed(s)'
    BY <1>2, <2>2, <2>4, <2>5 DEF Listed, Untouched, Made
  <2> QED
    BY <2>3, <2>6
<1> QED
  BY <1>3, <1>4, <1>5, <1>6

LEMMA OwnUnsubscribe ==
    ASSUME IInv, NEW s \in Sessions,
           \/ Intercept(s)
           \/ UnsubscribeFinds(s) \/ Remove(s) \/ Deactivate(s) \/ AddHeartbeat(s)
    PROVE  Thread(s)' /\ Listed(s)'
<1> USE DEF registry, objects, handler
<1>1. /\ subscriptions \subseteq Made /\ Made \subseteq Objects
      /\ found[s] \subseteq Made
      /\ step \in [Sessions -> Steps] /\ found \in [Sessions -> SUBSET Objects]
      /\ active \in [Objects -> BOOLEAN]
      /\ inbox \in [Sessions -> Messages \cup {null}]
  BY TypesAreParts, MadeAreObjects DEF IInv, Types, TypeOK
<1>2. Thread(s) /\ Listed(s)
  BY DEF IInv
<1>3. CASE Intercept(s)
  <2>1. inbox[s].kind \in {"subscribe", "unsubscribe"}
    BY <1>1, <1>3, MessageTopics DEF Intercept
  <2>2. step'[s] \in {"idle", "subscribe", "unsubscribe"} /\ step[s] # "deactivate"
    BY <1>1, <1>3, <2>1 DEF Intercept, Goto
  <2>3. \A o \in Made : Live(o)' => Live(o)
    BY <1>3 DEF Intercept, Live
  <2>4. /\ of' = of /\ made' = made /\ doomed' = doomed /\ killing' = killing
        /\ consumerList' = consumerList /\ subscriptions' = subscriptions
    BY <1>3 DEF Intercept
  <2> QED
    BY <2>2, <2>3, <2>4, BetweenTopics
<1>4. CASE AddHeartbeat(s)
  <2>1. step'[s] \in {"idle", "subscribe", "unsubscribe"} /\ step[s] # "deactivate"
    BY <1>1, <1>4 DEF AddHeartbeat, Advance
  <2>2. \A o \in Made : Live(o)' => Live(o)
    BY <1>4 DEF AddHeartbeat, Live
  <2>3. /\ of' = of /\ made' = made /\ doomed' = doomed /\ killing' = killing
        /\ consumerList' = consumerList /\ subscriptions' = subscriptions
    BY <1>4 DEF AddHeartbeat
  <2> QED
    BY <2>1, <2>2, <2>3, BetweenTopics
<1>5. CASE UnsubscribeFinds(s)
  <2>1. /\ made' = made /\ of' = of /\ todo' = todo /\ task' = task /\ active' = active
        /\ doomed' = doomed /\ killing' = killing /\ consumerList' = consumerList
        /\ subscriptions' = subscriptions
        /\ step'[s] = (IF Equal(s, Head(todo[s])) = {} THEN "heartbeat" ELSE "remove")
        /\ step[s] = "unsubscribe" /\ found'[s] = Equal(s, Head(todo[s]))
    BY <1>1, <1>5 DEF UnsubscribeFinds, Goto
  <2>2. Equal(s, Head(todo[s]))' = Equal(s, Head(todo[s])) /\ Current(s)' = Current(s)
    BY <2>1 DEF Equal, Current
  <2>3. \A o \in found'[s] : of'[o] = Current(s)'
    BY <2>1, <2>2 DEF Equal, Current
  <2>4. Thread(s)'
    BY <1>2, <2>1, <2>2, <2>3 DEF Thread
  <2>5. Listed(s)'
    BY <1>2, <2>1 DEF Listed, Untouched, Live, Made
  <2> QED
    BY <2>4, <2>5
<1>6. CASE Remove(s)
  <2>1. /\ made' = made /\ of' = of /\ todo' = todo /\ task' = task /\ active' = active
        /\ doomed' = doomed /\ killing' = killing /\ consumerList' = consumerList
        /\ subscriptions' = subscriptions \ found[s] /\ found' = found
        /\ step'[s] = "deactivate" /\ step[s] = "remove"
    BY <1>1, <1>6 DEF Remove, Goto
  <2>2. Equal(s, Head(todo[s]))' = {} /\ Current(s)' = Current(s)
    BY <1>2, <2>1 DEF Equal, Current, Thread
  <2>3. Thread(s)'
    BY <1>2, <2>1, <2>2 DEF Thread
  <2>4. Listed(s)'
    BY <1>2, <2>1 DEF Listed, Untouched, Live, Made
  <2> QED
    BY <2>3, <2>4
<1>7. CASE Deactivate(s)
  <2>1. /\ made' = made /\ of' = of /\ todo' = todo /\ task' = task
        /\ doomed' = doomed /\ killing' = killing /\ consumerList' = consumerList
        /\ subscriptions' = subscriptions /\ found' = found
        /\ step'[s] = "heartbeat" /\ step[s] = "deactivate"
    BY <1>1, <1>7 DEF Deactivate, Goto
  <2>2. \A o \in Objects : active'[o] => active[o] /\ o \notin found[s]
    BY <1>7, Zenon DEF Deactivate
  <2>3. Thread(s)'
    BY <1>2, <2>1 DEF Thread, Equal
  <2>4. Listed(s)'
    BY <1>1, <1>2, <2>1, <2>2 DEF Listed, Untouched, Live, Made
  <2> QED
    BY <2>3, <2>4
<1> QED
  BY <1>3, <1>4, <1>5, <1>6, <1>7

LEMMA SendsStep ==
    ASSUME IInv, Next PROVE \A p \in Objects : Sends(p)'
<1> USE DEF registry, objects, handler, interceptor
<1>1. /\ Made \subseteq Objects /\ null \notin Objects
      /\ active \in [Objects -> BOOLEAN] /\ late \in [Objects -> Nat]
      /\ task \in [Objects -> {"virgin", "scheduled", "cancelled"}]
      /\ \A p \in Objects : Sends(p)
  BY TypesAreParts, MadeAreObjects, SubscriptionsAssumption DEF IInv, Types, TypeOK, Objects
<1>2. ASSUME running' = running, late' = late,
             \A p \in Objects : /\ active'[p] => active[p] \/ task[p] = "virgin"
                                /\ task'[p] = "virgin" => task[p] = "virgin"
      PROVE  \A p \in Objects : Sends(p)'
  BY <1>1, <1>2 DEF Sends
<1>3. CASE \E o \in Objects : TaskStarts(o)
  <2>1. PICK o \in Objects : TaskStarts(o)
    BY <1>3
  <2>2. active' = active /\ late' = late /\ task[o] = "scheduled"
    BY <2>1 DEF TaskStarts
  <2>3. CASE active[o]
    BY <1>1, <2>1, <2>2, <2>3 DEF TaskStarts, Sends
  <2>4. CASE ~ active[o]
    BY <1>1, <1>2, <2>1, <2>2, <2>4 DEF TaskStarts
  <2> QED
    BY <2>3, <2>4
<1>4. CASE \E o \in Objects : TaskSends(o)
  <2>1. PICK o \in Objects : TaskSends(o)
    BY <1>4
  <2>2. /\ active' = active /\ task' = task /\ running = o /\ running' = null
        /\ late' = [late EXCEPT ![o] = IF active[o] THEN 0 ELSE @ + 1]
    BY <2>1 DEF TaskSends
  <2>3. late[o] = 0 /\ task[o] # "virgin"
    BY <1>1, <2>2 DEF Sends
  <2>4. late'[o] = (IF active[o] THEN 0 ELSE 1) /\ \A p \in Objects : p # o => late'[p] = late[p]
    BY <1>1, <2>2, <2>3
  <2> QED
    BY <1>1, <2>2, <2>3, <2>4 DEF Sends
<1>5. CASE \E o \in Objects : TaskSendFails(o)
  <2>1. PICK o \in Objects : TaskSendFails(o)
    BY <1>5
  <2>2. /\ task' = task /\ running' = null /\ late' = late
        /\ active' = [active EXCEPT ![o] = FALSE]
    BY <2>1 DEF TaskSendFails
  <2>3. \A p \in Objects : active'[p] => active[p]
    BY <1>1, <2>2, Zenon
  <2> QED
    BY <1>1, <2>2, <2>3 DEF Sends
<1>6. CASE \E s \in Sessions : Activate(s)
  <2>1. PICK s \in Sessions : Activate(s)
    BY <1>6
  <2>2. \A p \in found[s] : task[p] = "virgin"
    BY <2>1 DEF Activate, Goto, IInv, Thread
  <2>3. \A p \in Objects : active'[p] => active[p] \/ p \in found[s]
    BY <2>1, Zenon DEF Activate
  <2> QED
    BY <1>2, <2>1, <2>2, <2>3 DEF Activate
<1>7. CASE \E s \in Sessions : Schedule(s)
  <2>1. PICK s \in Sessions : Schedule(s)
    BY <1>7
  <2>2. \A p \in Objects : task'[p] = "virgin" => task[p] = "virgin"
    BY <2>1 DEF Schedule
  <2> QED
    BY <1>2, <2>1, <2>2 DEF Schedule
<1>8. CASE \E s \in Sessions : Deactivate(s) \/ KillDeactivate(s)
  <2>1. PICK s \in Sessions : Deactivate(s) \/ KillDeactivate(s)
    BY <1>8
  <2>2. \A p \in Objects : active'[p] => active[p]
    BY <2>1, Zenon DEF Deactivate, KillDeactivate
  <2> QED
    BY <1>2, <2>1, <2>2 DEF Deactivate, KillDeactivate
<1>9. CASE active' = active /\ task' = task /\ running' = running /\ late' = late
  BY <1>2, <1>9
<1> QED
  BY <1>3, <1>4, <1>5, <1>6, <1>7, <1>8, <1>9 DEF Next, ClientSends, Interceptor, Intercept,
     SubscribeFindsEqual, SubscribeFindsNone, Add, ScheduleFails, UnsubscribeFinds, Remove,
     AddHeartbeat, Task, Consumer, Process, Kill, Killing, KillSnapshot, KillRemoveAll,
     ChannelCloses, ChannelInactive

LEMMA NoEqualStep ==
    ASSUME IInv, Next PROVE NoEqualSubscriptions'
<1> USE DEF registry, objects, handler, interceptor
<1>1. subscriptions \subseteq Made /\ Made \subseteq Objects /\ NoEqualSubscriptions
  BY TypesAreParts, MadeAreObjects DEF IInv, Types, TypeOK
<1>2. CASE \E s \in Sessions : Add(s)
  <2>1. PICK s \in Sessions : Add(s)
    BY <1>2
  <2>2. step[s] = "add" /\ Thread(s)
    BY <2>1 DEF Add, Goto, IInv
  <2>3. PICK n \in Made : found[s] = {n} /\ of[n] = Current(s)
    BY <2>2 DEF Thread
  <2>4. \A o \in subscriptions : of[o] # of[n]
    BY <2>2, <2>3 DEF Thread, Equal, Current
  <2>5. subscriptions' = subscriptions \cup {n} /\ of' = of
    BY <2>1, <2>3 DEF Add
  <2> QED
    BY <1>1, <2>4, <2>5 DEF NoEqualSubscriptions
<1>3. CASE \E s \in Sessions : SubscribeFindsNone(s)
  <2>1. made \in 0 .. MaxObjects
    BY DEF IInv, Types, TypeOK
  <2>2. \A o \in Made : of'[o] = of[o]
    <3>1. PICK s \in Sessions : SubscribeFindsNone(s)
      BY <1>3
    <3>2. \A o \in Made : o # made'
      BY <2>1, <3>1, SubscriptionsAssumption DEF SubscribeFindsNone, Made
    <3>3. of' = [of EXCEPT ![made'] = Pair(s, Head(todo[s]))]
      BY <3>1 DEF SubscribeFindsNone
    <3>4. of \in [Objects -> {null} \cup [session : Sessions, topic : Topics]]
      BY DEF IInv, Types, TypeOK
    <3> QED
      BY <1>1, <3>2, <3>3, <3>4
  <2> QED
    BY <1>1, <1>3, <2>2 DEF SubscribeFindsNone, NoEqualSubscriptions
<1>4. CASE subscriptions' \subseteq subscriptions /\ of' = of
  BY <1>1, <1>4 DEF NoEqualSubscriptions
<1> QED
  BY <1>2, <1>3, <1>4 DEF Next, ClientSends, Interceptor, Intercept,
     SubscribeFindsEqual, Activate, Schedule, ScheduleFails, UnsubscribeFinds, Remove, Deactivate,
     AddHeartbeat, Task, TaskStarts, TaskSends, TaskSendFails,
     Consumer, Process, Kill, Killing, KillSnapshot, KillDeactivate, KillRemoveAll,
     ChannelCloses, ChannelInactive

LEMMA IInvStep == IInv /\ [Next]_vars => IInv'
<1> SUFFICES ASSUME IInv, [Next]_vars PROVE IInv'
  OBVIOUS
<1>1. Types'
  BY TypesStep DEF IInv
<1>2. CASE UNCHANGED vars
  BY <1>1, <1>2 DEF IInv, Thread, Listed, Sends, NoEqualSubscriptions, Untouched, Current,
     Equal, Live, Made, vars, registry, objects, interceptor, handler
<1>3. CASE Next
  <2>1. ASSUME NEW u \in Sessions PROVE Thread(u)' /\ Listed(u)'
    <3>1. CASE Interceptor(u)
      BY <3>1, OwnSubscribe, OwnUnsubscribe DEF Interceptor, IInv
    <3>2. CASE Frame(u)
      BY <1>1, <3>2, FrameKeeps DEF IInv
    <3> QED
      BY <1>1, <1>3, <3>1, <3>2, OthersFrame, OutsideFrame DEF Next
  <2> QED
    BY <1>1, <1>3, <2>1, SendsStep, NoEqualStep DEF IInv
<1> QED
  BY <1>2, <1>3 DEF Next

LEMMA IInvInit == Init => IInv
<1> SUFFICES ASSUME Init PROVE IInv
  OBVIOUS
<1>1. Types
  BY TypesInit
<1>2. Made = {} /\ null \notin Objects
  BY SubscriptionsAssumption DEF Init, Made, Objects
<1>3. \A s \in Sessions : Thread(s) /\ Listed(s)
  BY <1>2 DEF Init, Thread, Listed, Equal
<1>4. \A o \in Objects : Sends(o)
  BY <1>2 DEF Init, Sends
<1> QED
  BY <1>1, <1>3, <1>4 DEF Init, IInv, NoEqualSubscriptions

LEMMA IInvHolds == Spec => []IInv
BY IInvInit, IInvStep, PTL DEF Spec

\* Checking and adding without a lock never gives a client two equal
\* subscriptions, however many clients there are.
THEOREM NeverTwoEqual == Spec => []NoEqualSubscriptions
<1>1. IInv => NoEqualSubscriptions
  BY DEF IInv
<1> QED
  BY <1>1, IInvHolds, PTL

\* A stopped subscription sends at most one message more.
THEOREM OneLateMessage == Spec => []AtMostOneLateMessage
<1>1. IInv => AtMostOneLateMessage
  BY DEF IInv, Sends, AtMostOneLateMessage
<1> QED
  BY <1>1, IInvHolds, PTL

\* An unsubscribe leaves nothing behind that would send for its topic, unless a
\* kill of the client interfered.
THEOREM UnsubscribeLeavesNothing == Spec => []UnsubscribeStops
<1>1. IInv => UnsubscribeStops
  <2> SUFFICES ASSUME IInv, NEW s \in Sessions,
                      step[s] = "heartbeat" /\ s \in consumerList /\ killing[s] = "no",
                      NEW o \in Made, of[o] = Pair(s, Head(todo[s]))
               PROVE  o \notin subscriptions /\ ~ Live(o)
    BY DEF UnsubscribeStops
  <2>1. Thread(s) /\ Listed(s) /\ Untouched(s) /\ of[o].session = s
    BY DEF IInv, Untouched, Pair
  <2>2. o \notin subscriptions
    BY <2>1 DEF Thread, Equal
  <2> QED
    BY <2>1, <2>2 DEF Listed
<1> QED
  BY <1>1, IInvHolds, PTL

\* No TimerTask is scheduled twice or after its cancellation.
THEOREM TasksAreScheduledOnce == Spec => TasksNeverRestart
<1>1. ASSUME IInv, [Next]_vars
      PROVE  [\A o \in Objects : \/ task'[o] = task[o]
                                 \/ task[o] = "virgin" /\ task'[o] = "scheduled"
                                 \/ task[o] = "scheduled" /\ task'[o] = "cancelled"]_vars
  <2> USE DEF registry, objects, handler, interceptor
  <2>1. task \in [Objects -> {"virgin", "scheduled", "cancelled"}]
    BY <1>1 DEF IInv, Types, TypeOK
  <2>2. CASE \E s \in Sessions : Schedule(s)
    <3>1. PICK s \in Sessions : Schedule(s)
      BY <2>2
    <3>2. \A o \in found[s] : task[o] = "virgin"
      BY <1>1, <3>1 DEF Schedule, IInv, Thread
    <3> QED
      BY <2>1, <3>1, <3>2 DEF Schedule
  <2>3. CASE \E o \in Objects : TaskStarts(o)
    BY <2>1, <2>3 DEF TaskStarts
  <2>4. CASE task' = task
    BY <2>4
  <2> QED
    BY <1>1, <2>2, <2>3, <2>4 DEF Next, ClientSends, Interceptor, Intercept,
       SubscribeFindsEqual, SubscribeFindsNone, Add, Activate, ScheduleFails, UnsubscribeFinds,
       Remove, Deactivate, AddHeartbeat, Task, TaskSends, TaskSendFails,
       Consumer, Process, Kill, Killing, KillSnapshot, KillDeactivate, KillRemoveAll,
       ChannelCloses, ChannelInactive, vars
<1> QED
  BY <1>1, IInvHolds, PTL DEF Spec, TasksNeverRestart
=============================================================================
