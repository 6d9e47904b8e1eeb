# Verification of the Signal K cloud synchronisation server

This directory holds TLA+ models of the Java program under `src/`, the TLC
configurations that check them, and theorems about them proved with TLAPS.  The
program is two things in one process: a *Signal K server* (it receives boat data
over sockets, serial ports, websockets and REST, keeps it in a time-series store
and sends it to subscribers), and a *cloud synchroniser* that extracts data files
from that store and ships them over whichever link the boat has at the moment.
The server is Java; the NMEA 0183 lines of the boat's instruments are parsed by
JavaScript that it runs in its own script engine (Nashorn).

Run everything from this directory:

    tlc -workers 2 -config CloudSynchService.cfg MCCloudSynchService.tla
    tlapm CloudSynchServiceProofs.tla

`PROJECT.json` lists every run with its module and configuration, the source lines
each definition translates, the mutations each property is known to detect, the
disagreements found, and the hazards of the code.

Abbreviations: `B/` is `src/src/main/java/signalk/org/cloud_data_synch/`, `A/` is
`src/src/main/java/nz/co/fortytwo/signalk/artemis/`, `N/` is
`src/src/main/resources/signalk-parser-nmea0183/`, `J/` is `src/src/main/resources/jsext/`.

## 1. Inventory

### Cloud synchronisation

| Part | State it keeps | Operations | Hard behaviour | What makes it correct |
|---|---|---|---|---|
| Data-file queue, `B/utils/CircularQueue.java` | array, `currentSize`, `front`, `rear` | `enqueue`, `dequeue`, `forEach`, `isFull`, `isEmpty` | static, shared by two threads, unsynchronised | the three indexes agree; a bounded FIFO; nothing is delivered twice |
| Synchronisation tasks, `B/service/CloudSynchService.java` | `producerCronTable`, `readFrequency`, `pingms`, the queue, two `stop` flags | pinger, scheduled extract, producer, each on its own scheduler thread | fields without locks, time, exceptions that stop a task for ever, send failures | files leave in order, once, not faster than configured; the link keeps being watched; the queue drains |
| Extraction, same class, 113-153 and 619-665 | `lastExtractDt`, `./fromtime.ser` | `extractData`, `serializeFromTime`, `deSerializeFromTime` | crash between queueing and saving, file truncated in place | the saved time never covers data that reached no file |
| Transport configuration, `B/utils/ConfigUtils.java` | map priority -> transport | `load`, look-ups by reflection | gaps, unreadable numbers | what the loop of the producer relies on |
| Ping, `B/utils/HttpUtils.java` | - | `ping` | error code -99 in place of a time | a result is a response time |
| Transports, `B/service/producers/*` | session | scp with acknowledgements; the others are stubs | partial I/O | an acknowledged file was written |
| File watcher, `B/utils/FileWatcher.java` | watch service | directory lister, watcher | polls and listings race arriving files; the bounded queue fills | every arriving file is queued |
| Server, `B/server/CloudSynchServer.java` | embedded broker, Netty servers | `startMe`, `stop` | order of start-up | the tasks of the configured role run |

### Signal K server

| Part | State it keeps | Operations | Hard behaviour | What makes it correct |
|---|---|---|---|---|
| NMEA parser, `N/parser.js`, `N/lib-es5/*`, `A/intercept/GarbageInterceptor.java`, `A/intercept/NMEAMsgInterceptor.java` | loaded hooks, `session` | `loadHook`, `parse`, tag block, source, two interceptors | exceptions, rejected and unsettled promises, dates taken from the clock | what is published was measured; a failure changes nothing; values go to the right source |
| Sentence hooks, `N/hooks-es5/*.js` (21 kinds) | - | one function per kind | empty, blank, missing and unreadable fields; units, signs, hemispheres | as above; damage to one field does not alter or lose the others |
| AIS and distress hooks, `VDM.js`, `VDO.js`, `DSC.js` | the parts of a message, in a session that does not exist | one function per kind | several parts, several vessels | as above |
| JavaScript event loop, `J/nashorn-polyfill.js`, `A/intercept/JsBaseInterceptor.java` | `eventLoop`, an unsynchronised `ArrayDeque`; jobs of the promises | `setTimeout`, `process` | one engine for all sessions, a pool of threads that appends | a line gets its own answer; no answer waits for ever |
| Subscriptions, `A/subscription/*`, `A/intercept/SubscribeMsgInterceptor.java` | queue of subscriptions, queue of heartbeats, one `Timer` | add, remove, removeByTempQ, the timer's task | four threads without a common lock; failed sends; Timer exceptions | no duplicate, no orphan; unsubscribing stops the sending |
| TCP handler, `B/server/ArtemisTcpNettyHandler.java` | consumer and channel of each client | channelActive, channelInactive, process, kill | channel callbacks race the broker's consumer threads | a client that has gone leaves nothing behind |
| UDP handler, `B/server/ArtemisUdpNettyHandler.java` | sender addresses, sessions | channelRead0, process | a list is changed while it is iterated | as above |
| Websocket and REST, `B/service/BaseApiService.java` and subclasses | session, consumer, close listener per request | initSession, setConsumer, onClose, closeSession | atmosphere callbacks race replies | a session is closed once, after its last reply |
| Interceptors, `A/intercept/*` | - | one `intercept` per message kind | order of the chain, rejected messages | a message reaches the store once, converted |
| Time-series store, `B/service/InfluxDbService.java` | primary-source map, one mutable query builder | save, load, dump, isPrimary | check-then-act from many threads | one primary source per path |
| Conversions, `B/service/SignalkMapConvertor.java`, `B/utils/Util.java` | - | full <-> delta <-> map | paths, sources, nested objects | round trips keep every value |
| Serial ports, `A/serial/*` | map of readers, a queue each | port scan, reader, writer | hot unplug, bounded queue | a port has one reader at a time |
| Security, `B/utils/SecurityUtils.java`, `A/atmosphere/intercept/*` | cached configuration | load, save, check of a request | file and cache differ | the configuration in force is the one saved |
| Administration services, logs, charts, apps, zip | files | request by request | - | - |
| Json and minifier | - | vendored | - | - |

### How the parts interact

`CloudSynchServer.startMe` starts, for a producer, the pinger, the producer and the
scheduled extract; for a consumer, the directory lister.  They meet in
`CloudSynchService`'s static queue and its unlocked fields.  On the other side a
client's message enters through Netty or the websocket, passes the interceptors on
the broker's session thread, is stored or changes the subscriptions.  A line of an
instrument is first given a content type by `GarbageInterceptor` and then replaced by
the delta that `parser.js` makes of it in `NMEAMsgInterceptor`: the hook of its kind
returns a promise, whose callback a thread of the script engine's pool puts on the event
loop, which `parse` empties before it returns.  Each
subscription's `TimerTask` loads data and sends it to the client's temporary reply
queue, whose consumer, on yet another thread, writes it to the channel.

## 2. Modules

| Module | Models | Role |
|---|---|---|
| `BoundedFifo` | what the data-file queue promises | abstract specification |
| `CircularQueue` | the ring buffer, call by call | implements `BoundedFifo` |
| `CircularQueueProofs` | | proofs about the ring buffer |
| `CircularQueueRace` | the same code, one step per access of a shared field, two threads | what really runs |
| `CircularQueueRaceProofs` | | proofs about the two threads that share it |
| `DeliveryPipe` | what the synchronisation promises about a file | abstract specification |
| `CloudSynchService` | pinger, extractor, producer, time | implements `DeliveryPipe` |
| `MCCloudSynchService` | configurations and pings for the runs | TLC values |
| `CloudSynchServiceProofs` | | proofs about the tasks |
| `JsValue` | fields and numbers as the hooks tell them apart; the utilities they call | operators |
| `NmeaHooks` | 21 sentence hooks | operators |
| `NmeaVessels` | AIS and DSC hooks | operators |
| `NmeaParser` | loading the hooks, tag blocks, source, two interceptors, the clock | uses the four above |
| `NmeaSentences` | what the fields of each kind of sentence mean | assumption on the lines |
| `MCNmeaParser` | instruments: what they measure and the lines they write | TLC values |
| `NmeaProofs` | | proofs about the parser, and which deltas the hooks make |
| `NmeaDeliveryProofs` | | proofs about what becomes of an instrument's line, value by value |
| `NashornEventLoop` | promises, timers and the event loop under several threads | the part of `parse` that waits |
| `NashornEventLoopProofs` | | proofs about the event loop |
| `Subscriptions` | interceptor, timer, consumer and channel threads | |
| `SubscriptionsProofs` | | proofs about the subscriptions |
| `PrimarySource` | saving, the primary flag, loading the map of primary sources | |
| `MCPrimarySource` | symmetry for its run | TLC values |
| `PrimarySourceProofs` | | proofs about the primary source |

### CircularQueue and CircularQueueRace

The variables are the Java fields.  In `CircularQueue` an action is a call:
`enqueue`/`enqueueFull` and `dequeue`/`dequeueEmpty` are the two outcomes of each
method (the second one throws), `forEach` is split into its turns because its
callback may call the queue again or throw.  `returned` is what the caller sees.
`ImplementsFifo` maps the ring to the sequence `Contents` and says the results seen
by callers are those of a bounded FIFO.

`CircularQueueRace` replays the same statements as the bytecode performs them:
`currentSize++` is a read and a write, `circularQueueElements[++rear % ...]` reads
`rear` again, and so on.  `pc`, `reg` and `arg` are a thread's position, the value
it last read and its local variable.  Memory is sequentially consistent; the Java
memory model allows more, so what is violated here is violated in the program, and
what holds here holds for interleavings only.

### CloudSynchService

One variable per shared field (`producerCronTable`, `readFrequency`, `pingms`,
`inProcess`, `dataFilesQueue`), one program counter per task (`pinger`, `producer`),
the two `stop` flags, the loop variable of `produce`, and the file in `sendData`
(`current`).  An access to a field that another thread writes is a step: the pinger
reads `readFrequency` twice (`PingIntervalTested`, `PingRescheduled`), the producer
writes it for every transport it looks at (`FrequencyRead`) and reads `pingms`
later (`SpeedCompared`).  `FileTaken`, `QueueEmpty` and `SendReturns` are the end of
`produce`; `ProducerGivesUp` is the exception that sets `stop`.

Time is relative: an entry of `producerCronTable` is the number of ticks until it is
due, so there is no clock to bound.  The queue is the atomic FIFO here; that the ring
buffer *is* one when calls do not overlap is proved in `CircularQueueProofs`, and
what happens when they do is the subject of `CircularQueueRace`.  `owed` is a history
variable: the ticks that the transport of the last file still asks for.

`transports` is the configuration of priorities, speeds and frequencies, one of
`Configurations`; it is chosen when the program starts and never changes.

Nothing in the program as started fills the queue, as the call of `extractData` is
commented out (`CloudSynchService.java:361`).  `FileQueued` lets a file arrive all the
same, as `extractData` or any user of `getDataFilesQueue` would make it; otherwise nothing
about the producer could be said.  A ping whose timeout cannot be parsed ends the pinger
(`PingThrew`): `service` leaves it out, as `NeverStops` would be false, `service_live` has it.

Three things that do go wrong follow from this model.  The interval of the next ping is tested on one
value of `readFrequency` and computed from another, so that the cap `MAX_PING_INTERVAL` need not be
applied; `MomentsAreWithinReach` says how far this goes: no task is ever scheduled further ahead than the
longest frequency of a transport or the defaults.  A failed ping leaves -99, faster than any
transport; this has no run of its own.  The third is the run `service_shipped`: a priority missing from the
configuration stops the producer.  That a run which chooses a transport postpones the ping is accepted by
`LinkWatched`, which shows that nothing else keeps the pinger from its turn.

### The NMEA parser: JsValue, NmeaHooks, NmeaVessels, NmeaParser

A hook is an operator on the fields of a sentence (`parts`), its tags and the server's clock.
Its outcome is one of those its caller can meet: a promise of a delta, of null, or of an object
without a delta; a rejected promise; plain null in place of a promise; an exception.  A field is a
string of which only its kind is kept (absent, empty, blank, a number, letters); numbers are
integers, counted in one unit per dimension (`JsValue`), so that speeds read in knots, km/h and m/s
can be compared, and a conversion is a multiplication.  `float`, `coordinate`, `timestamp` and the
other utilities belong to a library, which is there only minified, in `N/dist/bundle.js`; they are modelled from how the hooks use
them, with their exceptions (`CoordinateThrows`, `TimestampThrows`).  `DEBUG` says whether
`debug` is declared: in the code it is not, so a catch block that calls it throws (`Catch`).

In `NmeaParser`, `mappings` is the object the hooks are loaded into, `wire` a line that an instrument
wrote and when, `message` what became of it.  `LoadHook` is one turn of the loop of the
constructor, `Send` the two interceptors, `ParseDirectly` the parser without a broker, `Tick` the
clock.  The promise of a hook is settled before `parse` returns here; when it is not, the interceptor
gets `undefined` and leaves the message alone, which is the subject of `NashornEventLoop`.  ggencoder, which
decodes AIS, is in the same minified bundle and not modelled: a line carries the record it returns.

`MCNmeaParser` says what an instrument measured (`facts`: a path, a value, and which fields it can be
read from) and writes it down as the comments at the head of the hooks describe the sentence, then
damages it: one field, or two where fields back each other up, made empty, blank or unreadable, or the
end cut off.  The properties compare what is published with the facts, not with the hooks.

What is known of the lines is `InstrumentAssumption`, an assumption about the constant `Lines`, that is about the
instruments and not about the code: the talker has a name; a numeral stands for an integer; an undamaged
line has all its fields, numerals where its kind has numbers and the status it should have (`Complete`), or says
that it is void (`SaysItIsVoid`); and the time it gives, in its fields or in its tag block, is that of its writing
(`TellsTheTime`).  `NmeaSentences` adds `SentenceAssumption`, the table of the sentences as the comments at the head of the
hooks give it: for each kind, what is measured (`Only`), and for each value the fields that tell it and what they
contain when they are undamaged (`Told`): a number and its unit, a letter in the place of a sign, a hemisphere, a
speed written twice in two units, the record of an AIS message (`Reports`).  It does not mention the hooks.  Of damage it
says that it can be seen: a damaged field is `Unreadable`, neither a numeral nor one of the letters that mean
something (empty, blank or garbage).  Damage that turns a number into another one is what the checksum of a line is for, and
no parser could tell it.  TLC evaluates both assumptions over all the lines of `MCNmeaParser`, damaged ones included.

Behaviour the properties name as exceptions, because the code has it: the promise of `APB.js` is never
settled with a delta; `DSC.js` calls the undeclared `debug` on every path; `ZDA.js` fails in the first second
of a minute; AIS messages of several parts are never put together, as `session` is the number 0; a line with
a tag block, and an AIS line, never reach the parser through the broker; `RMC.js` and `RMB.js` ignore the
status that says the data is void; `GGA.js` and `GLL.js` take the date from the clock.

### NashornEventLoop

`jobs` are the callbacks waiting in the promises' list of jobs, which core-js keeps: adding one and
flushing the list are one step each.  A callback sets the variable `result` of the call that made it; `late`
marks those of calls that have returned.  `scheduled` counts the timers no thread of the pool has taken
up, `adding` the threads inside `addLast`.  `elements`, `head` and `tail` are the fields of
the `ArrayDeque`; `addLast` and `removeFirst` are two steps each, `size` is one (`Size`), since nothing
locks them: the phaser the threads register with lets everybody pass.  `pc` is the place of a
calling thread: `wait` (`waitForMessages`), `remove`, `removing`, `size`, `apply`
(`processNextMessages`).  A flush that finds jobs schedules another, because the promise of the flush itself is
settled by it (`Apply`).  `overlap` is a history variable: have two threads been within `addLast`, or
within `removeFirst`, at the same time?  Where they have, an event may be overwritten or removed twice, a
place within the window may be empty, and from then on every `removeFirst` throws; this can happen to a sole
caller too, as two threads of the pool may append at once.  The properties are about everything short of that.

Simplifications: memory is sequentially consistent; an array that is full is not doubled (`Capacity`
bounds what is added); `clearTimeout`, `setInterval`, `reset` and delays other than none are called
by nothing in the server; the entry of a timer in `timerMap`, which is read only by `clearTimeout`, is left out.

### Subscriptions

A Subscription object is a number with fields `of` (session and topic), `active` and
`task`, the state of its `TimerTask`.  `subscriptions` and `heartbeats` are the two
queues of `SubscriptionManagerService`.  Per client, `inbox`, `step`, `todo` and
`found` are the message waiting, the next statement of the interceptor, the rest of
the message's list, and its local result of the search.  The statements of
`addSubscription` and `removeSubscription` are separate steps (`SubscribeFindsNone`,
`Add`, `Activate`, `Schedule`; `UnsubscribeFinds`, `Remove`, `Deactivate`,
`AddHeartbeat`), since the timer's (`TaskStarts`, `TaskSends`, `TaskSendFails`) and the
handler's (`Kill`, `KillSnapshot`, `KillDeactivate`, `KillRemoveAll`,
`ChannelInactive`) run in between.  `late` is a history variable.

A channel closes (`ChannelCloses`, which takes it out of `open`) some time before the handler is told
(`ChannelInactive`).  In between a message for it finds the channel not writable, and the client is killed
like a slow one (`MayBeUnwritable`); a client in `SlowClients` may be found so while its channel is open.

Simplifications: the session serves as correlation and as reply queue, as it does for
the TCP handler; `hasExistingRoute` compares two path strings by reference and is
always false, so a started subscription is always scheduled; what `loadData` returns
does not matter; an `Error` that would end the Timer thread is left out.

### PrimarySource

`primaryMap` and `allowWrite` are the static fields of `InfluxDbService`.  `saver[t]` is one
entry of the message that a session thread is saving: path, source, the fields left, the
answer of `isPrimary` for the present field (`told`) and for all fields so far (`tags`).
`LookupNone`, `LookupSame` and `LookupOther` are the three outcomes of the `get` in
`isPrimary`, `Grant` is `setPrimary`; between `LookupNone` and `Grant` any other thread may run.
`loader[l]` is a thread in `setUpTDb`: `SetUpFindsNothing`, `Clear`, `Query`, `Fill`,
`LoadDone` are its statements;
a query may also throw (`QueryFails`, the service is not set up) or answer without rows
(`QueryAnswersNothing`, which `loadPrimary` takes for an empty store).  This happens at the start and, because `TDBServiceFactory`
stores a service under `className-dbName` (line 90) and looks it up under
`dbType-dbName` (line 50), again with every new `Subscription`.

A point goes into a batch (`buffered`) and later into the store (`stored`), or the batch
fails and its points are only logged.  `Restart` keeps the store and nothing else.  Rows come
back in an order the query does not ask for, so `Fill` takes any.  `granted` is a history
variable, the sources told primary since the start; `overlapped` becomes true when a thread
enters one of the two get-then-put sections while another is inside one, and `missed` when an answer
without rows hides points that are stored.  `SolePrimary` and `ValueOfOneKind` hold while neither has
happened, and each of the two is enough to break them; `SecondaryHasPrimary` holds in any case.

Simplifications: memory is sequentially consistent; only the points that `loadPrimary`
selects are kept; `sources` and `config` points, which have no primary flag, are left out.

## 3. Runs

| Run | Question | Result |
|---|---|---|
| `ring` | Do the ring's indexes agree, are slots cleared, is it a FIFO? | holds |
| `ring_race` | One filling and one emptying thread, every interleaving: ranges, no duplicate, exact if calls do not overlap? | holds |
| `service` | Usable configurations, all pings: no task stops or is put off too long, spacing, order, once? | holds |
| `service_live` | For all four kinds of configuration: is the link watched, does the queue drain once a transport stays suitable, does the pinger outlive a stopped producer, and do the files outlive a stopped pinger? | holds |
| `service_shipped` | With the shipped configuration, does the producer stop only if nothing suits? | violated: there is no priority 3 |
| `subscriptions` | No duplicates, one late message at most, no task restarted, nothing sent after an unsubscribe of a client that is not killed? | holds |
| `subscriptions_live` | Do stopped tasks end, are live ones served, whether or not clients leave, are killed or stay? | holds |
| `subscriptions_inactive` | "unsubscribe all" when the channel closes? | violated: nothing is removed |
| `primary_source` | One primary source per path and one kind per value while no sections overlap and every load gets its rows; always a primary source behind a secondary one? | holds |
| `nmea` | Lines of all kinds, whole, void and damaged, around midnight: is what is published true, is nothing else lost, are dates, depths and sources right, does a failure leave the message alone? | holds, with the exceptions named above |
| `nmea_documented` | Is every field the hooks' comments describe published? | violated: GGA reads the geoidal separation from the field of its unit |
| `event_loop` | Several callers and pool threads: own answers only, no callback stranded, a sole caller served, callbacks run? | holds |

Three things that go wrong in the race of the ring buffer and in the subscriptions are hazards without a run
of their own: the first dequeue may read slot -1 (`CircularQueue.java:77`); a kill between `Add` and `Activate`
leaves a task that runs unlisted (`UnsubscribeStops` excepts it); after a failed send a subscription is found
by the next subscribe and stays inactive.

The mutations in `PROJECT.json` show for each property of a passing run a plausible slip in
the code that it would find.

**Bounds.**  Ring buffer: three slots and three elements let it wrap, fill and drain
in every phase; sizes are settled by proof.  Race: two slots and four items: every
item can meet a slot used before, and the array is full with two more to come.
Service: one tick is a minute; the transports of `DenseTransports` are one of each link class
and their frequencies lie below, between and above `DEFAULT_READ_FREQUNCY` and
`MAX_PING_INTERVAL`, so that both branches of the cap occur; one ping result falls
between each two speeds; two files suffice for order and spacing, as no action looks
further than the head of the queue.  The four kinds of configuration (`AllKinds`) are dense
priorities, a gap, a frequency that is no number, and a single fast transport that slow pings
rule out; the first and the last stop no task (`Sound`).
`ShippedTransports` has the priorities and speeds
of `conf/cloudsynch-conf.json`.  Subscriptions: one client, as sessions share only the
Timer thread (the session is a key of everything else) and `LiveAreServed` has two
objects compete for it; two objects and lists of two let a message be abandoned after
its first element, or the same topic occur twice in one list.  Primary source: one path
that `loadPrimary` reloads and one that it does not, two sources and two saving threads to
compete for them, one thread setting up a service object, two fields per value so that a value
can be split.  Nothing is counted there, so restarts, batches and set-ups are unbounded.
NMEA parser: both hemispheres, both sides of the bow, both signs of offset and variation, every unit and
status; the clock starts two ticks before midnight of a day in the second month, and three ticks
(`MaxTicks`) let a line be written before and parsed after it.  A day has 24 ticks and a minute four,
enough for a first second in a minute and for others.  One line is on its way at a time: the interceptors keep
nothing from one to the next.  `LIMIT` (seconds or milliseconds) lies above every clock of the run.
Event loop: two callers and two pool threads are the fewest that can overlap on each side, and a subset
of the callers may be the active ones, so that the sole caller occurs; an array of four places wraps
with up to three events in it; two lines tell one's own answer from another's; `MaxScheduled` of one lets a late flush
and a new one exist together.  The theorems of section 4 settle all other sizes.

**Fairness.**  Each task of `CloudSynchService` has a single-thread scheduler of its own,
hence weak fairness of `Pinger`, `DataExtractDue` and `Producer`, and time passes (weak
fairness of `Tick`).  Weak fairness of a task that is inside `ping` or `sendData` assumes
that the call returns, an assumption about the network.  Arrival of files and the
choice of a ping result are not fair.  In `Subscriptions` the Timer keeps its tasks
ordered by their next run, so a task that is due again and again is started (strong fairness of
`TaskStarts`), and a run that has started ends.  This is `TimerFairness`, all that `subscriptions_live` assumes
(`TimerSpec`); `subscriptions_inactive` adds that the interceptor's and the consumer's threads run on (`FairSpec`), lest a
left-over be a thread that has merely stopped.  Clients owe nothing.  In `NashornEventLoop` the threads run on and lines keep coming
(weak fairness of `Parse`, `Process` and `Run`); without further lines a late answer may wait for ever, as nothing
else looks at the event loop.  Runs with `CHECK_DEADLOCK FALSE` are those of `Subscriptions`, where all
clients may have left and nothing is left to do, and `event_loop`, where after an overlap the deque keeps
events that nobody can remove and `Capacity` and `MaxScheduled` end the behaviour.

## 4. Proofs

`CircularQueueProofs`, for every `MaxSize` and every set of elements: `RingInv` is the
inductive invariant.  It adds to `TypeOK` and `RingConsistent` that the occupied slots are
exactly the `currentSize` slots from `front` on and hold elements, and all others hold
`null`; without the second half a dequeue could return `null`, without the first an
enqueue could overwrite.  Arithmetic modulo `MaxSize` is confined to four lemmas about
windows of the ring (`WindowValue`, `WindowFirst`, `WindowStep`, `WindowInjective`).  From it
follow `RingConsistency`, `NoStaleReference` and, with the abstraction function `Contents`,
`RingImplementsFifo`: enqueue appends (`EnqueueAppends`), dequeue takes the head
(`TakeFrontIsTail`).  `RingTypes` is `TypeOK`.

`CircularQueueRaceProofs`, for every `MaxSize`, any number of items and every interleaving of the statements.
The first two theorems assume `AtMostOneOfEach`: one thread that enqueues and one that dequeues, which is how
`CloudSynchService` shares the queue (its own theorem is about that use only; two enqueuers do break it).  `RangeInv` adds
to `TypeOK` what each thread relies on between two statements: an enqueuer has room although `currentSize++` may
write back a size that is too great or too small (`EnqueuerKeeps`), and a dequeuer finds `front`, which it reads
three times, where it was (`DequeuerKeeps`); `RaceKeepsRanges` follows.  `PlaceInv` says that an item is in one place
at a time, on its way in, in one slot, in the dequeuer's hands or delivered, and gives
`RaceNeverDuplicates`.  `ExactUnlessOverlapping` is for any number of threads: `SequentialInv` describes the ring
between two calls (`Settled`) and at each statement of the one call that runs (`EnqueuePhase`,
`DequeuePhase`), until two calls overlap.  The items are assumed to be other than `null`, which no caller enqueues.

`CloudSynchServiceProofs`, for all transports, frequencies, ping results, files and queue
lengths that satisfy `ServiceAssumption`: `NobodyIsPutOff` rests on `ReachInv`, by which
a pinger about to use the cap has seen a frequency at least as long; the transport it belonged to may be gone by then.  `ServiceInv` consists of `TypeOK`; `OwnFrequency`
(from the choice of a transport on, `readFrequency` is that transport's own: only the
producer writes it); `InFlight` (a file is in flight exactly while `sendData` runs); and
`Covered` (what the last transport still asks for is covered by `nextProductionTime`).
`Spacing` needs the last one, as `nextProductionTime` is all that keeps the producer back;
`ServiceImplementsPipe` needs `InFlight`, as `Take` must find nothing in flight; `NoTaskStops`
holds under `SoundConfigurations` (priorities 1..n and readable numbers in every configuration
the program may be started with), an assumption of the theorem, not of the module, because the
shipped configuration breaks it; `SameConfiguration` says that no step changes `transports`.

`PrimarySourceProofs`, for all paths, sources, threads and numbers of fields: `PrimaryInv` has two
halves.  `Always` holds whatever overlaps: an answer "primary" is remembered in `granted`, and every
entry of the map and every row being loaded goes back to such an answer or to a stored point;
`NoPathWithoutPrimary` follows.  `WhileApart` holds until two sections overlap or a load misses the stored points: at most one thread is
in a section (`OneInSection`) and what it saw still holds (`Standing`, `StillEmpty`); all sources granted
a path are the one in the map; and the map agrees with the primary points, stored or buffered, while
the program runs (`PointsAreMapped`), or will when the rows not yet put are in (`LoadIsComplete`).  The
last two are needed together: a load while the program runs is harmless exactly because an empty map
then means that there is no point to load.  `OnePrimarySource` and `ValuesOfOneKind` follow.  Without the
condition TLC refutes both in a few steps: two first savers make two primary sources of one path, and the
value of the one that put first is split.

`SubscriptionsProofs`, for all clients, topics, list lengths and numbers of objects: `IInv` adds to the
types what each thread relies on although the others run.  `Thread(s)`: the object that a message is adding is
known to no other thread and its task is new, and no equal one is in the list; what an unsubscribe found is all
there is for its topic.  `Listed(s)`: as long as the consumer does not kill the session, a live task that is not in the
list is one that an unsubscribe in work is about to stop.  `Sends(o)`: a task that runs for an inactive object
has not sent for it before.  Each action of a thread is shown to preserve its own session's part
(`OwnSubscribe`, `OwnUnsubscribe`) and to leave to the others what they rely on (`OthersFrame`,
`OutsideFrame`, with `Frame` as the contract and `FrameKeeps`).  `NeverTwoEqual`, `OneLateMessage`,
`UnsubscribeLeavesNothing` and `TasksAreScheduledOnce` follow; the types are `SubscriptionTypes`, which needs one
fact of its own: a consumer that is still open belongs to no session being killed.

`NashornEventLoopProofs`, for any number of threads, lines and any `Capacity` above one:
`AnswersAreOwn` rests on `OwnCallbacks` (a callback that is not late belongs to the line its thread is parsing).
`NoneIsStranded` rests on `FlushInv`: while nothing has overlapped, one thread appends at most, and a deque that looks
full because an event is written but not counted has its flush in the hands of a thread (`UncountedIsTaken`);
without that clause the step that moves `tail` on to `head` would lose the flush.  `SoleCallerIsServed` rests on
`AloneInv`: the places from `head` to `tail` are filled (`WindowIsFilled`), an event being appended has its
place and room behind it, and wherever the caller is, its callback waits or has set the result (`Progresses`).

`NmeaProofs`, for every line, supported list of the 24 ids and clock: `HooksAreKnown` (only ids of
hooks are loaded) makes `Hook` total, each hook comes to one of the named outcomes, and so
`InterceptOutcome` describes every message; `Consistency` and `TypeCorrectness` follow.  The others are about numbers: `WindAngle` and `WindHooksAgree`
(the two wind hooks give one direction), `DatedByTheServer` (exact unless the line crossed midnight, then one
day), `SounderAddsUp` (the depths of `DPT.js` for every depth and offset).  Then, hook by hook, what the delivery
proofs need.  `HookHarmless`: the timestamp of a delta is that of the tag or of the line's fields, and no hook but those
of DBT and DPT publishes a depth; `HookAddsUp` adds these two.  `CompleteHasDelta`: a complete line has a delta
unless the loss is a known one (`KnownLoss`); `VoidHasNoDelta`: a void one has none, but for three hooks.
`DeltaTime` compares the timestamp with the time of writing.  `ShipList` says what an AIS delta has, as a set.

`NmeaDeliveryProofs`, for every instrument that satisfies `InstrumentAssumption` and `SentenceAssumption`, every
clock and every visible damage to any number of fields: `LineInv` says that the line on the wire is one an instrument wrote,
now or earlier, and that neither the loaded hooks nor the clock have changed since a message was made, so that what `Delivery`
says of the step that reads the line still holds of the message.  `DepthsAlwaysAddUp`, `Dating`, `OnlyKnown`, `VoidHeldBack`,
`Attribution`, `Truth` and `NothingElseLost` follow together, as the seven conjuncts of `Delivered`.  The date needs a
bound that the model-checker's clock cannot reach: a line that takes more than a day is dated more than one day late,
and so `DatedToTheDay` speaks of the lines that take less.

`Truth` and `NothingElseLost` (`PublishedIsTrue` and `NothingElseIsLost` of every line) go from one
value to a list of them to a hook.  `Correct(entry, path, value)`: if the fields that tell the path are intact, the value
is the one that was measured.  The lemmas named `...Row` show it of each way a hook reads fields (`CountedRow`: a number in a unit;
`FixedRow`: a position with its hemispheres; `TwiceRow`: a speed of which one copy may be lost).  `RightAll` goes on
to a list: when all its pairs are correct, and every path that was measured is among them, the list `Says` what its
sentence tells.  Each hook then `Agrees` with its kind of sentence (`Headings`, `Sounder`, `WindOrUnknown`,
`OtherVessels`, and so on; `HookSays` puts them together).  Where a letter chooses what is published (MWV, RPM, KEP, DPT, DSC), it
matters that damage is visible: a letter that cannot be read publishes nothing, or what the letter alone decides.

GGA is the exception (`Fix`).  `RemoveUnusable`, its loop that splices values out of its list, is a recursive function on the
turns of the loop.  That it keeps nothing but values of the list (`RemoveUnusableKeeps`) is enough for `Truth`.  With one value
to remove at most, all the others stay (`OneRemoved`, `UsableStays`), which is the condition of `NothingElseIsLost`;
with two or more, the second index is that of the full list and takes out a wrong value, as `ToRemove` says.
Both are proved by induction on the turns, as the absence of a smallest counterexample (`Smallest`, from the
well-foundedness of the naturals).

Only model-checked: the liveness properties, which need fairness and ENABLED.

## 5. Not modelled, and why

* Transports other than scp, and the consumers: empty stubs.
* Charts, apps, git, swagger, logs, static files, zip: one request, one file operation.
* `N/lib-es5/loadSubhooks.js` (called by nothing), `N/webpack.config.js`, `N/dist/bundle.js`: how the modelled
  files are packed; the libraries in the bundle are known by their use.
* Hashing and tokens, mDNS, Netty and broker set-up: library calls.
* `mjson` and the minifier: vendored.  `InfluxDbServiceAA`: a former copy.

## 6. Plan

Done: 1. the data-file queue, 2. the synchronisation tasks, 3. subscriptions, with proofs, and the primary
source of the store, 4. the NMEA parser with all its hooks, and the event loop it waits on, and for all of these
the theorems of section 4.  What could follow:

5. `DataExtract`: `extractData` and the saved time, with crash and restart at every step;
   the saved time is never later than what was queued.  Then `CloudSynch`, the composition with
   `CloudSynchService`, where a restart also empties the queue.
6. `DirectoryLister`: listing an arriving directory into the bounded queue.
7. `ApiSession`: session, consumer and close listener of a websocket or REST request; abstract
   specification: opened, used, closed once.  `UdpHandler`: `socketList` changed while iterated.
8. `QueryBuilder`: the shared builder of `InfluxDbService`; abstract specification: a query per call.
9. `ScpTransfer`: the acknowledgement protocol as a two-party model, with early end of the stream.
10. `SerialPorts`, `MapConvertor`, `InterceptorChain`, `SecurityConf`; extension of `Subscriptions` by the
    unsynchronised `getInstance` and `finalize`.

Runs stay few: a new component brings one passing run, and a disagreement found replaces a lesser one.
