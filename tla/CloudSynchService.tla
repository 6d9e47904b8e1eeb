------------------------- MODULE CloudSynchService --------------------------
(***************************************************************************)
(* service/CloudSynchService.java: the three scheduled tasks of the cloud  *)
(* synchronisation and the fields they share without a lock.               *)
(*                                                                         *)
(*   pinger    startPinger: measures the response time of the cloud host   *)
(*             into pingms                                                 *)
(*   extractor startSchDataExtract, and whoever fills dataFilesQueue       *)
(*   producer  startProducer/produce: picks the first transport that is    *)
(*             fast enough for pingms and sends the oldest data file       *)
(*                                                                         *)
(* Each access to a field another thread writes is a step.  Time: an entry *)
(* of producerCronTable is the number of ticks until that moment, so       *)
(* `new Date().getTime() >= next` reads `= 0`; Tick lets one tick pass.  A *)
(* scheduled run that finds its moment not come does nothing and is left   *)
(* out; how late a run starts is left open.                                *)
(***************************************************************************)
EXTENDS Integers, Sequences, FiniteSets

CONSTANTS
    Configurations, \* each a map: priority -> [speed, frequency]
    Unparsable,   \* a frequency or ping timeout that Long.parseLong rejects
    PingResults,  \* what HttpUtils.ping can return; Unparsable: it throws
    DEFAULT_READ_FREQUNCY, MAX_PING_INTERVAL,      \* in ticks
    Files,        \* names of data files, each enqueued at most once
    Capacity,     \* length of dataFilesQueue (1000 in the code)
    null

PING_ERROR == -99                                  \* HttpUtils line 48

Moments == {"nextPing", "nextDataExtract", "nextProductionTime"}
ASSUME ServiceAssumption ==
    /\ \A c \in Configurations :
           /\ DOMAIN c \subseteq Int /\ IsFiniteSet(DOMAIN c)
           /\ \A p \in DOMAIN c : /\ c[p].speed \in Int
                                  /\ c[p].frequency \in Nat \cup {Unparsable}
    /\ PingResults \subseteq Int \cup {Unparsable}
    /\ Unparsable \notin Int
    /\ DEFAULT_READ_FREQUNCY \in Nat
    /\ MAX_PING_INTERVAL \in Nat
    /\ Capacity \in Nat
    /\ null \notin Files

VARIABLES
    transports,        \* ConfigUtils.getTransports(), loaded once at the start
    producerCronTable, \* ticks until each of the three moments
    readFrequency,     \* written by the producer, read by all three
    pingms,            \* last response time
    inProcess,
    dataFilesQueue,    \* the ring buffer, as the bounded FIFO it implements
    pinger,            \* where the pinger's run is
    pingerStop,        \* `stop` of the pinger's Runnable
    producer,          \* where the producer's run is
    priority,          \* loop variable of produce
    producerStop,      \* `stop` of the producer's Runnable
    current,           \* the file being sent
    sent, failed,      \* files sent, files whose sendData returned GLOBAL_ERROR
    owed               \* history: ticks the last used transport's frequency still asks for

pingerVars == <<pinger, pingerStop, pingms>>
producerVars == <<producer, priority, producerStop, inProcess, readFrequency>>
fileVars == <<dataFilesQueue, current, sent, failed>>
vars == <<transports, producerCronTable, pingerVars, producerVars, fileVars, owed>>

Priorities == DOMAIN transports
Frequencies == {transports[p].frequency : p \in Priorities} \ {Unparsable}
TransportCount == Cardinality(Priorities)           \* transports.size()

Init ==
    /\ transports \in Configurations
    /\ producerCronTable = [m \in Moments |-> 0]   \* all set to currTime
    /\ readFrequency = DEFAULT_READ_FREQUNCY
    /\ pingms = 10
    /\ inProcess = FALSE
    /\ dataFilesQueue = <<>>
    /\ pinger = "idle" /\ pingerStop = FALSE
    /\ producer = "idle" /\ priority = 1 /\ producerStop = FALSE
    /\ current = null /\ sent = <<>> /\ failed = <<>>
    /\ owed = 0

Due(moment) == producerCronTable[moment] = 0
Schedule(moment, delay) ==
    producerCronTable' = [producerCronTable EXCEPT ![moment] = delay]
Capped(frequency) ==
    IF frequency > MAX_PING_INTERVAL THEN MAX_PING_INTERVAL ELSE frequency

Sooner(n) == IF n > 0 THEN n - 1 ELSE 0

Tick == /\ owed > 0 \/ \E m \in Moments : ~ Due(m)
        /\ producerCronTable' = [m \in Moments |-> Sooner(producerCronTable[m])]
        /\ owed' = Sooner(owed)
        /\ UNCHANGED <<transports, pingerVars, producerVars, fileVars>>
------------------------------------------------------------------------------
(* The pinger's run, lines 270-298. *)

PingStarts ==
    /\ pinger = "idle" /\ Due("nextPing") /\ ~ pingerStop
    /\ pinger' = "pinging"
    /\ UNCHANGED <<producerCronTable, pingerStop, pingms, producerVars, fileVars, owed>>

PingReturns(result) ==
    /\ pinger = "pinging"
    /\ pinger' = "rescheduling"
    /\ IF result = Unparsable                      \* NumberFormatException
       THEN pingerStop' = TRUE /\ UNCHANGED pingms
       ELSE pingms' = result /\ UNCHANGED pingerStop
    /\ UNCHANGED <<producerCronTable, producerVars, fileVars, owed>>

\* readFrequency is read for the test and read again for the new moment, and
\* the producer may write it in between.
PingIntervalTested ==
    /\ pinger = "rescheduling"
    /\ pinger' = IF readFrequency > MAX_PING_INTERVAL THEN "capping" ELSE "copying"
    /\ UNCHANGED <<producerCronTable, pingerStop, pingms, producerVars, fileVars, owed>>

PingPutOff ==                                      \* a slip: counted from the old moment
    /\ pinger \in {"capping", "copying"}
    /\ pinger' = "idle"
    /\ Schedule("nextPing", producerCronTable["nextPing"]
                  + IF pinger = "capping" THEN MAX_PING_INTERVAL ELSE readFrequency)
    /\ UNCHANGED <<pingerStop, pingms, producerVars, fileVars, owed>>

PingRescheduled ==
    /\ pinger \in {"capping", "copying"}
    /\ pinger' = "idle"
    /\ Schedule("nextPing", IF pinger = "capping" THEN MAX_PING_INTERVAL ELSE readFrequency)
    /\ UNCHANGED <<pingerStop, pingms, producerVars, fileVars, owed>>
------------------------------------------------------------------------------
(* The extractor.  startSchDataExtract's run only moves its own moment: the *)
(* call of extractData is commented out (line 361).  A file comes from      *)
(* extractData (line 150), run by startDataExtract's thread, or from any    *)
(* other user of getDataFilesQueue.                                         *)

DataExtractDue ==
    /\ Due("nextDataExtract")
    /\ Schedule("nextDataExtract", readFrequency)
    /\ UNCHANGED <<pingerVars, producerVars, fileVars, owed>>

FileQueued(f) ==
    /\ Len(dataFilesQueue) < Capacity
    /\ \A s \in {dataFilesQueue, sent, failed} : \A i \in DOMAIN s : s[i] # f
    /\ f # current
    /\ dataFilesQueue' = Append(dataFilesQueue, f)
    /\ UNCHANGED <<producerCronTable, pingerVars, producerVars, current, sent, failed, owed>>
------------------------------------------------------------------------------
(* The producer's run and produce(), lines 471-484 and 490-552. *)

ProduceStartsAtZero ==                             \* a slip, for a mutation run
    /\ producer = "idle" /\ Due("nextProductionTime") /\ ~ producerStop
    /\ inProcess' = (inProcess \/ dataFilesQueue # <<>>)
    /\ producer' = "considering"
    /\ priority' = 0
    /\ UNCHANGED <<producerStop, readFrequency, producerCronTable, pingerVars, fileVars, owed>>

ProduceStarts ==
    /\ producer = "idle" /\ Due("nextProductionTime") /\ ~ producerStop
    /\ inProcess' = (inProcess \/ dataFilesQueue # <<>>)
    /\ producer' = "considering"
    /\ priority' = 1
    /\ UNCHANGED <<producerStop, readFrequency, producerCronTable, pingerVars, fileVars, owed>>

\* Slips, for mutation runs: leaving the loop stops the task; it postpones the ping.
NoTransportLeftStops ==
    /\ producer = "considering" /\ priority > TransportCount
    /\ producer' = "idle"
    /\ producerStop' = TRUE
    /\ UNCHANGED <<priority, inProcess, readFrequency,
                   producerCronTable, pingerVars, fileVars, owed>>
NoTransportLeftPostponesPing ==
    /\ producer = "considering" /\ priority > TransportCount
    /\ producer' = "idle"
    /\ Schedule("nextPing", Capped(readFrequency))
    /\ UNCHANGED <<priority, producerStop, inProcess, readFrequency, pingerVars, fileVars, owed>>

\* The loop ends without a suitable transport: nextProductionTime stays, and
\* the next scheduled run tries again.
NoTransportLeft ==
    /\ producer = "considering" /\ priority > TransportCount
    /\ producer' = "idle"
    /\ UNCHANGED <<priority, producerStop, inProcess, readFrequency,
                   producerCronTable, pingerVars, fileVars, owed>>

Readable(p) == p \in Priorities /\ transports[p].frequency # Unparsable

ProducerGivesUpForAll ==                           \* a slip: one `stop` for all tasks
    /\ producer = "considering" /\ priority <= TransportCount
    /\ ~ Readable(priority)
    /\ producer' = "idle"
    /\ producerStop' = TRUE /\ pingerStop' = TRUE
    /\ UNCHANGED <<priority, inProcess, readFrequency,
                   producerCronTable, pinger, pingms, fileVars, owed>>

\* No transport has this priority (NullPointerException) or its frequency is
\* not a number (NumberFormatException): run() catches it and stops for good.
ProducerGivesUp ==
    /\ producer = "considering" /\ priority <= TransportCount
    /\ ~ Readable(priority)
    /\ producer' = "idle"
    /\ producerStop' = TRUE
    /\ UNCHANGED <<priority, inProcess, readFrequency,
                   producerCronTable, pingerVars, fileVars, owed>>

FrequencyRead ==
    /\ producer = "considering" /\ priority <= TransportCount
    /\ Readable(priority)
    /\ readFrequency' = transports[priority].frequency
    /\ producer' = "comparing"
    /\ UNCHANGED <<priority, producerStop, inProcess,
                   producerCronTable, pingerVars, fileVars, owed>>

SpeedCompared ==
    /\ producer = "comparing"
    /\ IF pingms <= transports[priority].speed
       THEN producer' = "choosing" /\ UNCHANGED priority
       ELSE producer' = "considering" /\ priority' = priority + 1
    /\ UNCHANGED <<producerStop, inProcess, readFrequency,
                   producerCronTable, pingerVars, fileVars, owed>>

FilePeeked ==                                      \* a slip: the file stays queued
    /\ producer = "choosing" /\ dataFilesQueue # <<>>
    /\ Schedule("nextPing", Capped(readFrequency))
    /\ current' = Head(dataFilesQueue)
    /\ producer' = "sending"
    /\ UNCHANGED <<priority, producerStop, inProcess, readFrequency,
                   dataFilesQueue, sent, failed, pingerVars, owed>>

\* The chosen transport's frequency postpones the next ping, and the oldest
\* file leaves the queue; from here on the file is only in a local variable.
FileTaken ==
    /\ producer = "choosing" /\ dataFilesQueue # <<>>
    /\ Schedule("nextPing", Capped(readFrequency))
    /\ current' = Head(dataFilesQueue)
    /\ dataFilesQueue' = Tail(dataFilesQueue)
    /\ producer' = "sending"
    /\ UNCHANGED <<priority, producerStop, inProcess, readFrequency, sent, failed, pingerVars, owed>>

\* Slips, for mutation runs: dequeue returns null; the exception reaches run().
QueueEmptyReturnsNull ==
    /\ producer = "choosing" /\ dataFilesQueue = <<>>
    /\ Schedule("nextPing", Capped(readFrequency))
    /\ producer' = "sending"
    /\ UNCHANGED <<priority, producerStop, inProcess, readFrequency, fileVars, pingerVars, owed>>
QueueEmptyStops ==
    /\ producer = "choosing" /\ dataFilesQueue = <<>>
    /\ Schedule("nextPing", Capped(readFrequency))
    /\ producerStop' = TRUE
    /\ producer' = "idle"
    /\ UNCHANGED <<priority, inProcess, readFrequency, fileVars, pingerVars, owed>>

QueueEmpty ==                                      \* QueueEmptyException
    /\ producer = "choosing" /\ dataFilesQueue = <<>>
    /\ producerCronTable' = [producerCronTable EXCEPT !["nextPing"] = Capped(readFrequency),
                                                      !["nextProductionTime"] = readFrequency]
    /\ inProcess' = FALSE
    /\ producer' = "idle"
    /\ UNCHANGED <<priority, producerStop, readFrequency, fileVars, pingerVars, owed>>

SendReturnsUnspaced ==                             \* a slip, for a mutation run
    /\ producer = "sending"
    /\ \/ sent' = Append(sent, current) /\ UNCHANGED failed
       \/ failed' = Append(failed, current) /\ UNCHANGED sent
    /\ current' = null
    /\ owed' = transports[priority].frequency
    /\ producer' = "idle"
    /\ UNCHANGED <<priority, producerStop, inProcess, readFrequency, dataFilesQueue,
                   producerCronTable, pingerVars>>

\* sendData returned; an exception inside it became GLOBAL_ERROR, which is
\* logged as a number of bytes and nothing else.
SendReturns ==
    /\ producer = "sending"
    /\ \/ sent' = Append(sent, current) /\ UNCHANGED failed
       \/ failed' = Append(failed, current) /\ UNCHANGED sent
    /\ current' = null
    /\ Schedule("nextProductionTime", readFrequency)
    /\ owed' = transports[priority].frequency
    /\ producer' = "idle"
    /\ UNCHANGED <<priority, producerStop, inProcess, readFrequency, dataFilesQueue, pingerVars>>
------------------------------------------------------------------------------
Pinger ==
    /\ \/ PingStarts
       \/ \E result \in PingResults : PingReturns(result)
       \/ PingIntervalTested
       \/ PingRescheduled
    /\ UNCHANGED transports

Extractor ==
    /\ DataExtractDue \/ \E f \in Files : FileQueued(f)
    /\ UNCHANGED transports

Producer ==
    /\ \/ ProduceStarts
       \/ NoTransportLeft
       \/ ProducerGivesUp
       \/ FrequencyRead
       \/ SpeedCompared
       \/ FileTaken
       \/ QueueEmpty
       \/ SendReturns
    /\ UNCHANGED transports

Next == Tick \/ Pinger \/ Extractor \/ Producer

Spec == Init /\ [][Next]_vars

\* Every task has a scheduler thread of its own and time passes.  That a ping
\* or a send returns is an assumption about the network and the transport; no
\* fairness is assumed of the arrival of files.
Fairness ==
    /\ WF_vars(Tick) /\ WF_vars(Pinger) /\ WF_vars(Producer)
    /\ WF_vars(DataExtractDue /\ UNCHANGED transports)

FairSpec == Spec /\ Fairness
------------------------------------------------------------------------------
\* The fields stay in their ranges and the files held are files: the loop
\* variable of produce never runs further than one past the last transport
\* (lines 499-545).
TypeOK ==
    /\ transports \in Configurations
    /\ producerCronTable \in [Moments -> Nat]
    /\ readFrequency \in Frequencies \cup {DEFAULT_READ_FREQUNCY}
    /\ pingms \in (PingResults \ {Unparsable}) \cup {10}
    /\ inProcess \in BOOLEAN
    /\ dataFilesQueue \in Seq(Files) /\ Len(dataFilesQueue) <= Capacity
    /\ pinger \in {"idle", "pinging", "rescheduling", "capping", "copying"}
    /\ pingerStop \in BOOLEAN
    /\ producer \in {"idle", "considering", "comparing", "choosing", "sending"}
    /\ priority \in 1 .. TransportCount + 1
    /\ producerStop \in BOOLEAN
    /\ current \in Files \cup {null}
    /\ sent \in Seq(Files) /\ failed \in Seq(Files)
    /\ owed \in Nat

Reachable(delay) == \E f \in Frequencies \cup {DEFAULT_READ_FREQUNCY} : delay <= f

\* However the tasks' readings of readFrequency mix with the producer's writing
\* it for every transport it looks at, and though two tasks write nextPing, no
\* task is put off for longer than the longest frequency there is (lines 290-293,
\* 362, 527-548).  MAX_PING_INTERVAL is no bound: the pinger may find the
\* frequency below it and then read a longer one.
MomentsAreWithinReach == \A m \in Moments : Reachable(producerCronTable[m])

\* With priorities 1..n and readable frequencies, no interleaving of a ping
\* result with the loop of produce lets an exception through to run(): neither
\* task sets `stop`, which nothing ever resets (lines 480-483).
NeverStops == ~ producerStop /\ ~ pingerStop

\* Two files never leave within the frequency of the transport the first one
\* used ("frequency" in the configuration), although readFrequency, from which
\* nextProductionTime is computed, was overwritten by every transport looked at.
SendsAreSpaced == [][current = null /\ current' # null => owed = 0]_vars

Pipe == INSTANCE DeliveryPipe
        WITH backlog <- dataFilesQueue, inFlight <- current,
             delivered <- sent, lost <- failed

\* A file goes through the pipe of DeliveryPipe: in order, one at a time, handed
\* to one transport once, ending sent or lost (lines 532-533).
ImplementsDeliveryPipe == Pipe!Spec

\* Every file that reached the queue is handed to a transport, though pings change
\* the choice of transport at any time and empty runs postpone the next one, once
\* the pings suit some transport for good, also when the pinger has stopped on its
\* last result: a run that finds none leaves nextProductionTime in the past (lines
\* 541-542).  Said of configurations whose priorities have no gap and whose
\* frequencies are numbers.
QueueDrainsOnceSuitable ==
    (\A p \in 1 .. TransportCount : Readable(p))
        /\ <>[](\E p \in Priorities : pingms <= transports[p].speed) =>
            \A f \in Files :
                (\E i \in DOMAIN dataFilesQueue : dataFilesQueue[i] = f) ~> current = f

PingThrew == pinger = "rescheduling" /\ pingerStop

\* The producer stopping for good (line 482) leaves the pinger alone: each
\* Runnable has its own `stop`, and nothing waits for the other task.  Only a
\* ping that throws (line 287) ends the pinging.
PingingOutlivesProducer ==
    []~PingThrew => (producerStop ~> pinger = "pinging")

\* The two tasks that reschedule the ping never postpone it together for ever:
\* while no ping has thrown, again and again the host is pinged or a transport is
\* chosen on the last ping.
LinkWatched == []<>(pinger = "pinging" \/ producer = "choosing" \/ pingerStop)

\* "Check suitable transport here" (line 521): the producer does not give up
\* while a configured transport would suit the last ping.
GivesUpOnlyWithoutTransport ==
    [][producerStop' /\ ~ producerStop =>
           \A p \in Priorities : pingms > transports[p].speed]_vars
==============================================================================
