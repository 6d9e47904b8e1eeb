----------------------- MODULE CloudSynchServiceProofs ------------------------
(***************************************************************************)
(* Theorems about CloudSynchService, for any transports, frequencies, ping *)
(* results, files and queue length.                                        *)
(***************************************************************************)
EXTENDS CloudSynchService, FiniteSetTheorems, TLAPS

\* Past the configuration checks of the loop, priority names a usable transport
\* and readFrequency is that transport's own frequency.
OwnFrequency ==
    producer \in {"comparing", "choosing", "sending"} =>
        /\ priority <= TransportCount
        /\ Readable(priority)
        /\ readFrequency = transports[priority].frequency

\* A file is in flight exactly while sendData runs.
InFlight == producer = "sending" <=> current # null

\* What the last transport's frequency still asks for is covered by
\* nextProductionTime, and used up before the producer runs.
Covered ==
    /\ owed <= producerCronTable["nextProductionTime"]
    /\ producer # "idle" => owed = 0

\* The inductive invariant.
ServiceInv == TypeOK /\ OwnFrequency /\ InFlight /\ Covered

\* The number of configured transports, the bound of the producer's loop (499), is a
\* natural number.
LEMMA CountIsNat == transports \in Configurations => TransportCount \in Nat
  BY FS_CardinalityType, ServiceAssumption DEF TransportCount, Priorities

\* The frequencies the configuration gives that can be parsed are positive numbers.
LEMMA FrequencyFacts ==
  ASSUME transports \in Configurations
  PROVE
    /\ Frequencies \cup {DEFAULT_READ_FREQUNCY} \subseteq Nat
    /\ \A p : Readable(p) => transports[p].frequency \in Frequencies
  BY ServiceAssumption DEF Frequencies, Readable, Priorities

\* The configuration is loaded once: what is computed from it never changes.
LEMMA SameConfiguration ==
  ASSUME UNCHANGED transports
  PROVE /\ TransportCount' = TransportCount
        /\ Frequencies' = Frequencies
        /\ \A p : Readable(p)' <=> Readable(p)
  BY DEF TransportCount, Frequencies, Priorities, Readable

\* The invariant holds when the three tasks have been started and none has run.
LEMMA InitEstablishes == Init => ServiceInv
<1> SUFFICES ASSUME Init PROVE ServiceInv
  OBVIOUS
<1>1. TypeOK
  <2>1. producerCronTable \in [Moments -> Nat]
    BY DEF Init
  <2>2. 1 \in 1 .. TransportCount + 1
    BY CountIsNat DEF Init
  <2>3. <<>> \in Seq(Files) /\ Len(<<>>) <= Capacity
    BY ServiceAssumption
  <2>4. QED
    BY <2>1, <2>2, <2>3 DEF Init, TypeOK
<1>2. OwnFrequency /\ InFlight
  BY DEF Init, OwnFrequency, InFlight
<1>3. Covered
  BY DEF Init, Covered, Moments
<1>4. QED
  BY <1>1, <1>2, <1>3 DEF ServiceInv

\* The passing of a second changes no shared field.
LEMMA TickPreserves == ServiceInv /\ Tick => ServiceInv'
<1> SUFFICES ASSUME ServiceInv, Tick PROVE ServiceInv'
  OBVIOUS
<1> USE DEF ServiceInv, Tick, pingerVars, producerVars, fileVars
<1>a. UNCHANGED transports
  BY DEF Tick
<1>b. /\ TransportCount' = TransportCount /\ TransportCount \in Nat
      /\ Frequencies' = Frequencies
      /\ \A p : Readable(p)' <=> Readable(p)
  BY <1>a, SameConfiguration, CountIsNat DEF TypeOK
<1> USE <1>a, <1>b
<1>1. \A n \in Nat : Sooner(n) \in Nat
  BY DEF Sooner
<1>2. TypeOK'
  BY <1>1 DEF TypeOK, Moments
<1>3. (OwnFrequency /\ InFlight)'
  BY DEF OwnFrequency, InFlight
<1>4. Covered'
  BY DEF Covered, TypeOK, Sooner, Moments
<1>5. QED
  BY <1>2, <1>3, <1>4

\* Each step of the pinger (277-327) keeps the invariant.
LEMMA PingerPreserves == ServiceInv /\ Pinger => ServiceInv'
<1> SUFFICES ASSUME ServiceInv, Pinger PROVE ServiceInv'
  OBVIOUS
<1> USE DEF ServiceInv, producerVars, fileVars
<1>a. UNCHANGED transports
  BY DEF Pinger
<1>b. /\ TransportCount' = TransportCount /\ TransportCount \in Nat
      /\ Frequencies' = Frequencies
      /\ \A p : Readable(p)' <=> Readable(p)
  BY <1>a, SameConfiguration, CountIsNat DEF TypeOK
<1> USE <1>a, <1>b
<1>1. UNCHANGED <<producerVars, fileVars, owed>>
  BY DEF Pinger, PingStarts, PingReturns, PingIntervalTested, PingRescheduled
<1>2. /\ producerCronTable' \in [Moments -> Nat]
      /\ producerCronTable'["nextProductionTime"] = producerCronTable["nextProductionTime"]
  BY FrequencyFacts, ServiceAssumption
  DEF Pinger, PingStarts, PingReturns, PingIntervalTested, PingRescheduled, Schedule,
      TypeOK, Moments
<1>3. /\ pinger' \in {"idle", "pinging", "rescheduling", "capping", "copying"}
      /\ pingerStop' \in BOOLEAN
      /\ pingms' \in (PingResults \ {Unparsable}) \cup {10}
  BY DEF Pinger, PingStarts, PingReturns, PingIntervalTested, PingRescheduled, TypeOK
<1>4. TypeOK'
  BY <1>1, <1>2, <1>3 DEF TypeOK
<1>5. (OwnFrequency /\ InFlight)'
  BY <1>1 DEF OwnFrequency, InFlight
<1>6. Covered'
  BY <1>1, <1>2 DEF Covered
<1>7. QED
  BY <1>4, <1>5, <1>6

\* The scheduled extract (344-373) keeps the invariant.
LEMMA ExtractorPreserves == ServiceInv /\ Extractor => ServiceInv'
<1> SUFFICES ASSUME ServiceInv, Extractor PROVE ServiceInv'
  OBVIOUS
<1> USE DEF ServiceInv, pingerVars, producerVars, fileVars
<1>a. UNCHANGED transports
  BY DEF Extractor
<1>b. /\ TransportCount' = TransportCount /\ TransportCount \in Nat
      /\ Frequencies' = Frequencies
      /\ \A p : Readable(p)' <=> Readable(p)
  BY <1>a, SameConfiguration, CountIsNat DEF TypeOK
<1> USE <1>a, <1>b
<1>1. CASE DataExtractDue
  <2>1. /\ producerCronTable' \in [Moments -> Nat]
        /\ producerCronTable'["nextProductionTime"] = producerCronTable["nextProductionTime"]
    BY <1>1, FrequencyFacts DEF DataExtractDue, Schedule, TypeOK, Moments
  <2>2. TypeOK'
    BY <1>1, <2>1 DEF DataExtractDue, TypeOK
  <2>3. (OwnFrequency /\ InFlight /\ Covered)'
    BY <1>1, <2>1 DEF DataExtractDue, OwnFrequency, InFlight, Covered
  <2>4. QED
    BY <2>2, <2>3
<1>2. ASSUME NEW f \in Files, FileQueued(f) PROVE ServiceInv'
  <2>1. dataFilesQueue' \in Seq(Files) /\ Len(dataFilesQueue') <= Capacity
    BY <1>2, ServiceAssumption DEF FileQueued, TypeOK
  <2>2. TypeOK'
    BY <1>2, <2>1 DEF FileQueued, TypeOK
  <2>3. (OwnFrequency /\ InFlight /\ Covered)'
    BY <1>2 DEF FileQueued, OwnFrequency, InFlight, Covered
  <2>4. QED
    BY <2>2, <2>3
<1>3. QED
  BY <1>1, <1>2 DEF Extractor

\* Each step of the producer, from its test of the time to the send (457-556),
\* keeps the invariant: it is the only task that uses the frequency it has chosen.
LEMMA ProducerPreserves == ServiceInv /\ Producer => ServiceInv'
<1> SUFFICES ASSUME ServiceInv, Producer PROVE ServiceInv'
  OBVIOUS
<1> USE DEF ServiceInv, pingerVars, producerVars, fileVars
<1>a. UNCHANGED transports
  BY DEF Producer
<1>b. /\ TransportCount' = TransportCount /\ TransportCount \in Nat
      /\ Frequencies' = Frequencies
      /\ \A p : Readable(p)' <=> Readable(p)
  BY <1>a, SameConfiguration, CountIsNat DEF TypeOK
<1> USE <1>a, <1>b
<1>1. CASE ProduceStarts
  <2>1. TypeOK'
    BY <1>1 DEF ProduceStarts, TypeOK
  <2>2. (OwnFrequency /\ InFlight)'
    BY <1>1 DEF ProduceStarts, OwnFrequency, InFlight
  <2>3. Covered'
    BY <1>1 DEF ProduceStarts, Covered, TypeOK, Due, Moments
  <2>4. QED
    BY <2>1, <2>2, <2>3
<1>2. CASE NoTransportLeft
  <2>1. TypeOK'
    BY <1>2 DEF NoTransportLeft, TypeOK
  <2>2. (OwnFrequency /\ InFlight /\ Covered)'
    BY <1>2 DEF NoTransportLeft, OwnFrequency, InFlight, Covered
  <2>3. QED
    BY <2>1, <2>2
<1>3. CASE ProducerGivesUp
  <2>1. TypeOK'
    BY <1>3 DEF ProducerGivesUp, TypeOK
  <2>2. (OwnFrequency /\ InFlight /\ Covered)'
    BY <1>3 DEF ProducerGivesUp, OwnFrequency, InFlight, Covered
  <2>3. QED
    BY <2>1, <2>2
<1>4. CASE FrequencyRead
  <2>1. TypeOK'
    BY <1>4, FrequencyFacts DEF FrequencyRead, TypeOK
  <2>2. (OwnFrequency /\ InFlight /\ Covered)'
    BY <1>4 DEF FrequencyRead, OwnFrequency, InFlight, Covered
  <2>3. QED
    BY <2>1, <2>2
<1>5. CASE SpeedCompared
  <2>1. priority \in 1 .. TransportCount
    BY <1>5 DEF SpeedCompared, OwnFrequency, TypeOK
  <2>2. TypeOK'
    BY <1>5, <2>1 DEF SpeedCompared, TypeOK
  <2>3. (OwnFrequency /\ InFlight /\ Covered)'
    BY <1>5 DEF SpeedCompared, OwnFrequency, InFlight, Covered
  <2>4. QED
    BY <2>2, <2>3
<1>6. CASE FileTaken
  <2>1. readFrequency \in Nat
    BY FrequencyFacts DEF TypeOK
  <2>2. /\ producerCronTable' \in [Moments -> Nat]
        /\ producerCronTable'["nextProductionTime"] = producerCronTable["nextProductionTime"]
    BY <1>6, <2>1, ServiceAssumption DEF FileTaken, Schedule, Capped, TypeOK, Moments
  <2>3. /\ current' \in Files
        /\ dataFilesQueue' \in Seq(Files) /\ Len(dataFilesQueue') <= Capacity
    BY <1>6, ServiceAssumption DEF FileTaken, TypeOK
  <2>4. TypeOK'
    BY <1>6, <2>2, <2>3 DEF FileTaken, TypeOK
  <2>5. (OwnFrequency /\ InFlight /\ Covered)'
    BY <1>6, <2>2, <2>3, ServiceAssumption
    DEF FileTaken, OwnFrequency, InFlight, Covered
  <2>6. QED
    BY <2>4, <2>5
<1>7. CASE QueueEmpty
  <2>1. readFrequency \in Nat
    BY FrequencyFacts DEF TypeOK
  <2>2. /\ producerCronTable' \in [Moments -> Nat]
        /\ producerCronTable'["nextProductionTime"] = readFrequency
    BY <1>7, <2>1, ServiceAssumption DEF QueueEmpty, Capped, TypeOK, Moments
  <2>3. TypeOK'
    BY <1>7, <2>2 DEF QueueEmpty, TypeOK
  <2>4. (OwnFrequency /\ InFlight)'
    BY <1>7 DEF QueueEmpty, OwnFrequency, InFlight
  <2>5. Covered'
    BY <1>7, <2>1, <2>2 DEF QueueEmpty, Covered
  <2>6. QED
    BY <2>3, <2>4, <2>5
<1>8. CASE SendReturns
  <2>1. readFrequency \in Nat /\ transports[priority].frequency = readFrequency
    BY <1>8, FrequencyFacts DEF SendReturns, TypeOK, OwnFrequency
  <2>2. /\ producerCronTable' \in [Moments -> Nat]
        /\ producerCronTable'["nextProductionTime"] = readFrequency
    BY <1>8, <2>1 DEF SendReturns, Schedule, TypeOK, Moments
  <2>3. current \in Files
    BY <1>8 DEF SendReturns, InFlight, TypeOK
  <2>4. sent' \in Seq(Files) /\ failed' \in Seq(Files)
    <3>1. sent \in Seq(Files) /\ failed \in Seq(Files)
      BY DEF TypeOK
    <3>2. CASE sent' = Append(sent, current) /\ UNCHANGED failed
      BY <2>3, <3>1, <3>2
    <3>3. CASE failed' = Append(failed, current) /\ UNCHANGED sent
      BY <2>3, <3>1, <3>3
    <3>4. QED
      BY <1>8, <3>2, <3>3 DEF SendReturns
  <2>5. TypeOK'
    BY <1>8, <2>1, <2>2, <2>4 DEF SendReturns, TypeOK
  <2>6. (OwnFrequency /\ InFlight)'
    BY <1>8 DEF SendReturns, OwnFrequency, InFlight
  <2>7. Covered'
    BY <1>8, <2>1, <2>2 DEF SendReturns, Covered
  <2>8. QED
    BY <2>5, <2>6, <2>7
<1>9. QED
  BY <1>1, <1>2, <1>3, <1>4, <1>5, <1>6, <1>7, <1>8 DEF Producer
------------------------------------------------------------------------------
\* The invariant holds of every behaviour: it is preserved by each task and by
\* the passing of time.
THEOREM ServiceInvariance == Spec => []ServiceInv
<1>1. ServiceInv /\ [Next]_vars => ServiceInv'
  <2> SUFFICES ASSUME ServiceInv, [Next]_vars PROVE ServiceInv'
    OBVIOUS
  <2>1. CASE UNCHANGED vars
    BY <2>1, SameConfiguration
    DEF vars, pingerVars, producerVars, fileVars, ServiceInv, TypeOK,
        OwnFrequency, InFlight, Covered
  <2>2. CASE Next
    BY <2>2, TickPreserves, PingerPreserves, ExtractorPreserves, ProducerPreserves DEF Next
  <2>3. QED
    BY <2>1, <2>2
<1>2. QED
  BY InitEstablishes, <1>1, PTL DEF Spec

\* The pinger reads readFrequency twice; what it remembers of the first reading is
\* that some frequency is longer than MAX_PING_INTERVAL (lines 290-291).
ReachInv ==
    /\ MomentsAreWithinReach
    /\ pinger = "capping" => Reachable(MAX_PING_INTERVAL)

\* A frequency that was read reaches as far as itself, capped or not.
LEMMA FrequencyReaches ==
  ASSUME TypeOK
  PROVE  /\ Reachable(readFrequency) /\ Reachable(Capped(readFrequency))
         /\ readFrequency > MAX_PING_INTERVAL => Reachable(MAX_PING_INTERVAL)
<1>1. readFrequency \in Frequencies \cup {DEFAULT_READ_FREQUNCY} /\ readFrequency \in Nat
  BY FrequencyFacts DEF TypeOK
<1>2. QED
  BY <1>1, ServiceAssumption DEF Reachable, Capped

\* Whatever the three tasks read of the frequency while the producer changes it, none
\* is put off for longer than the longest frequency (lines 290-293, 362, 527-548).
THEOREM NobodyIsPutOff == Spec => []MomentsAreWithinReach
<1>1. Init => ReachInv
  <2>1. ASSUME Init PROVE Reachable(0)
    BY ServiceAssumption DEF Reachable
  <2>2. QED
    BY <2>1 DEF Init, ReachInv, MomentsAreWithinReach
<1>2. ServiceInv /\ ReachInv /\ [Next]_vars => ReachInv'
  <2> SUFFICES ASSUME ServiceInv, ReachInv, [Next]_vars PROVE ReachInv'
    OBVIOUS
  <2> USE DEF pingerVars, producerVars, fileVars
  <2>1. TypeOK /\ producerCronTable \in [Moments -> Nat]
    BY DEF ServiceInv, TypeOK
  <2>2. \A n : Reachable(n)' <=> Reachable(n)
    <3>1. UNCHANGED transports
      BY DEF Next, Tick, Pinger, Extractor, Producer, vars
    <3>2. QED
      BY <3>1, SameConfiguration DEF Reachable
  <2>3. ASSUME NEW m \in Moments, NEW delay, Schedule(m, delay), Reachable(delay)
        PROVE  MomentsAreWithinReach'
    BY <2>1, <2>2, <2>3 DEF Schedule, ReachInv, MomentsAreWithinReach
  <2>4. CASE Tick
    <3>1. \A m \in Moments : Reachable(producerCronTable'[m])
      BY <2>1, <2>4, FrequencyFacts
      DEF Tick, Sooner, ReachInv, MomentsAreWithinReach, Reachable, TypeOK
    <3>2. QED
      BY <2>2, <2>4, <3>1 DEF Tick, ReachInv, MomentsAreWithinReach
  <2>5. CASE Pinger
    <3>1. CASE PingIntervalTested
      BY <2>1, <2>2, <3>1, FrequencyReaches
      DEF PingIntervalTested, ReachInv, MomentsAreWithinReach
    <3>2. CASE PingRescheduled
      <4>1. PICK delay \in {MAX_PING_INTERVAL, readFrequency} :
              /\ Schedule("nextPing", delay)
              /\ Reachable(delay)
        BY <2>1, <3>2, FrequencyReaches DEF PingRescheduled, ReachInv
      <4>2. QED
        BY <2>3, <3>2, <4>1 DEF PingRescheduled, ReachInv, Moments
    <3>3. CASE PingStarts \/ \E result \in PingResults : PingReturns(result)
      BY <2>2, <3>3 DEF PingStarts, PingReturns, ReachInv, MomentsAreWithinReach
    <3>4. QED
      BY <2>5, <3>1, <3>2, <3>3 DEF Pinger
  <2>6. CASE Extractor
    <3>1. CASE DataExtractDue
      BY <2>1, <2>2, <2>3, <3>1, FrequencyReaches DEF DataExtractDue, ReachInv, Moments
    <3>2. CASE \E f \in Files : FileQueued(f)
      BY <2>2, <3>2 DEF FileQueued, ReachInv, MomentsAreWithinReach
    <3>3. QED
      BY <2>6, <3>1, <3>2 DEF Extractor
  <2>7. CASE Producer
    <3>1. pinger' = pinger
      BY <2>7 DEF Producer, ProduceStarts, NoTransportLeft, ProducerGivesUp, FrequencyRead,
                  SpeedCompared, FileTaken, QueueEmpty, SendReturns
    <3>2. CASE FileTaken
      BY <2>1, <2>2, <2>3, <3>1, <3>2, FrequencyReaches DEF FileTaken, ReachInv, Moments
    <3>3. CASE QueueEmpty
      BY <2>1, <2>2, <3>1, <3>3, FrequencyReaches
      DEF QueueEmpty, ReachInv, MomentsAreWithinReach
    <3>4. CASE SendReturns
      BY <2>1, <2>2, <2>3, <3>1, <3>4, FrequencyReaches DEF SendReturns, ReachInv, Moments
    <3>5. CASE ProduceStarts \/ NoTransportLeft \/ ProducerGivesUp \/ FrequencyRead
                 \/ SpeedCompared
      BY <2>2, <3>1, <3>5
      DEF ProduceStarts, NoTransportLeft, ProducerGivesUp, FrequencyRead, SpeedCompared,
          ReachInv, MomentsAreWithinReach
    <3>6. QED
      BY <2>7, <3>2, <3>3, <3>4, <3>5 DEF Producer
  <2>8. CASE UNCHANGED vars
    BY <2>2, <2>8 DEF vars, ReachInv, MomentsAreWithinReach
  <2>9. QED
    BY <2>4, <2>5, <2>6, <2>7, <2>8 DEF Next
<1>3. QED
  BY <1>1, <1>2, ServiceInvariance, PTL DEF Spec, ReachInv

\* Type correctness for all parameters (the fields of CloudSynchService and the
\* local state of its three tasks).
THEOREM TypeCorrectness == Spec => []TypeOK
<1>1. ServiceInv => TypeOK
  BY DEF ServiceInv
<1>2. QED
  BY <1>1, ServiceInvariance, PTL

\* Files never leave faster than the frequency of the transport last used,
\* whichever transports are looked at in between (lines 502-536).
THEOREM Spacing == Spec => SendsAreSpaced
<1>1. ServiceInv /\ [Next]_vars => [current = null /\ current' # null => owed = 0]_vars
  <2> SUFFICES ASSUME ServiceInv, Next, current = null, current' # null PROVE owed = 0
    OBVIOUS
  <2>1. FileTaken
    BY DEF Next, Tick, Pinger, PingStarts, PingReturns, PingIntervalTested, PingRescheduled,
           Extractor, DataExtractDue, FileQueued, Producer, ProduceStarts, NoTransportLeft,
           ProducerGivesUp, FrequencyRead, SpeedCompared, QueueEmpty, SendReturns,
           pingerVars, producerVars, fileVars
  <2>2. QED
    BY <2>1 DEF FileTaken, ServiceInv, Covered
<1>2. QED
  BY ServiceInvariance, <1>1, PTL DEF Spec, SendsAreSpaced

\* The three tasks implement the file pipe: no file is duplicated, reordered or
\* dropped other than by a send that reports an error (lines 532-533).
THEOREM ServiceImplementsPipe == Spec => ImplementsDeliveryPipe
<1> USE DEF pingerVars, producerVars, fileVars
<1>1. Init => Pipe!Init
  BY DEF Init, Pipe!Init
<1>2. ServiceInv /\ [Next]_vars => [Pipe!Next]_Pipe!vars
  <2> SUFFICES ASSUME ServiceInv, [Next]_vars PROVE [Pipe!Next]_Pipe!vars
    OBVIOUS
  <2>1. ASSUME NEW f \in Files, FileQueued(f) PROVE Pipe!Accept(f)
    BY <2>1 DEF FileQueued, Pipe!Accept, Pipe!Known, Pipe!Elems
  <2>2. CASE FileTaken
    BY <2>2 DEF FileTaken, Pipe!Next, Pipe!Take, ServiceInv, InFlight
  <2>3. CASE SendReturns
    BY <2>3 DEF SendReturns, Pipe!Next, Pipe!Deliver, Pipe!Lose, ServiceInv, InFlight
  <2>4. CASE Tick \/ Pinger \/ DataExtractDue
    BY <2>4 DEF Tick, Pinger, PingStarts, PingReturns, PingIntervalTested, PingRescheduled,
                DataExtractDue, Pipe!vars
  <2>5. CASE ProduceStarts \/ NoTransportLeft \/ ProducerGivesUp \/ FrequencyRead
                 \/ SpeedCompared \/ QueueEmpty
    BY <2>5 DEF ProduceStarts, NoTransportLeft, ProducerGivesUp, FrequencyRead,
                SpeedCompared, QueueEmpty, Pipe!vars
  <2>6. CASE UNCHANGED vars
    BY <2>6 DEF vars, Pipe!vars
  <2>7. QED
    BY <2>1, <2>2, <2>3, <2>4, <2>5, <2>6 DEF Next, Extractor, Producer, Pipe!Next
<1>3. QED
  BY <1>1, <1>2, ServiceInvariance, PTL DEF Spec, ImplementsDeliveryPipe, Pipe!Spec

\* In every configuration transports have priorities without gaps and every number parses.
SoundConfigurations ==
    /\ \A c \in Configurations :
           /\ DOMAIN c = 1 .. Cardinality(DOMAIN c)
           /\ \A p \in DOMAIN c : c[p].frequency # Unparsable
    /\ Unparsable \notin PingResults

\* With a sound configuration neither task ever stops: an exception can only
\* come from the configuration, not from an interleaving (lines 480-483).
THEOREM NoTaskStops == ASSUME SoundConfigurations PROVE Spec => []NeverStops
<1> USE DEF pingerVars, producerVars, fileVars
<1>1. Init => NeverStops
  BY DEF Init, NeverStops
<1>2. ServiceInv /\ NeverStops /\ [Next]_vars => NeverStops'
  <2> SUFFICES ASSUME ServiceInv, NeverStops, [Next]_vars PROVE NeverStops'
    OBVIOUS
  <2>1. ~ ProducerGivesUp
    <3>1. transports \in Configurations /\ priority \in 1 .. TransportCount + 1
      BY DEF ServiceInv, TypeOK
    <3>2. /\ Priorities = 1 .. TransportCount
          /\ \A p \in Priorities : transports[p].frequency # Unparsable
      BY <3>1 DEF SoundConfigurations, Priorities, TransportCount
    <3>3. priority <= TransportCount => priority \in Priorities
      BY <3>1, <3>2, CountIsNat
    <3>4. QED
      BY <3>2, <3>3 DEF ProducerGivesUp, Readable
  <2>2. CASE Pinger
    BY <2>2 DEF Pinger, PingStarts, PingReturns, PingIntervalTested, PingRescheduled,
                SoundConfigurations, NeverStops
  <2>3. CASE Tick \/ Extractor
    BY <2>3 DEF Tick, Extractor, DataExtractDue, FileQueued, NeverStops
  <2>4. CASE Producer
    BY <2>1, <2>4 DEF Producer, ProduceStarts, NoTransportLeft, FrequencyRead, SpeedCompared,
                      FileTaken, QueueEmpty, SendReturns, NeverStops
  <2>5. CASE UNCHANGED vars
    BY <2>5 DEF vars, NeverStops
  <2>6. QED
    BY <2>2, <2>3, <2>4, <2>5 DEF Next
<1>3. QED
  BY <1>1, <1>2, ServiceInvariance, PTL DEF Spec
=============================================================================
