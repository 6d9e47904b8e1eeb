----------------------------- MODULE NmeaProofs -----------------------------
(***************************************************************************)
(* The NMEA parser and its hooks: the parser always comes to one of its    *)
(* outcomes, and a message is what its content type says; the arithmetic   *)
(* of the hooks is right for every number; which depths a delta has, when  *)
(* it is dated, and which lines have one.                                  *)
(***************************************************************************)
EXTENDS NmeaParser, FiniteSetTheorems, SequenceTheorems,
        WellFoundedInduction, TLAPS

-----------------------------------------------------------------------------
(***************************************************************************)
(* The outcomes of the hooks.                                              *)
(***************************************************************************)
OutcomeTypes == {"delta", "null", "nodelta", "rejected", "thrown", "notpromise"}

LEMMA OutcomeType == ASSUME NEW type PROVE Outcome(type).type = type
BY DEF Outcome

LEMMA DeltaType ==
    ASSUME NEW values, NEW timestamp
    PROVE  Delta(values, timestamp).type = "delta"
BY DEF Delta, Outcome

LEMMA OtherTypes ==
    /\ Null.type = "null" /\ Rejected.type = "rejected" /\ Thrown.type = "thrown"
    /\ Catch.type \in {"rejected", "thrown"}
BY OutcomeType DEF Null, Rejected, Thrown, Catch

LEMMA PositionHooks ==
    ASSUME NEW parts, NEW tags, NEW clock
    PROVE  /\ GGA(parts, clock).type \in OutcomeTypes
           /\ GLL(parts, clock).type \in OutcomeTypes
           /\ RMC(parts, clock).type \in OutcomeTypes
           /\ RMB(parts, tags).type \in OutcomeTypes
           /\ ZDA(parts, tags).type \in OutcomeTypes
<1> USE DeltaType, OtherTypes DEF OutcomeTypes
<1>1. GGA(parts, clock).type \in OutcomeTypes
  BY Zenon DEF GGA
<1>2. GLL(parts, clock).type \in OutcomeTypes
  BY Zenon DEF GLL
<1>3. RMC(parts, clock).type \in OutcomeTypes
  BY Zenon DEF RMC
<1>4. RMB(parts, tags).type \in OutcomeTypes
  BY Zenon DEF RMB
<1>5. ZDA(parts, tags).type \in OutcomeTypes
  BY Zenon DEF ZDA
<1> QED
  BY <1>1, <1>2, <1>3, <1>4, <1>5

LEMMA AngleHooks ==
    ASSUME NEW parts, NEW tags
    PROVE  /\ HDG(parts, tags).type \in OutcomeTypes
           /\ HDM(parts, tags).type \in OutcomeTypes
           /\ HDT(parts, tags).type \in OutcomeTypes
           /\ ROT(parts, tags).type \in OutcomeTypes
           /\ MWV(parts, tags).type \in OutcomeTypes
           /\ VWR(parts, tags).type \in OutcomeTypes
<1> USE DeltaType, OtherTypes DEF OutcomeTypes
<1>1. HDG(parts, tags).type \in OutcomeTypes
  BY Zenon DEF HDG
<1>2. HDM(parts, tags).type \in OutcomeTypes
  BY Zenon DEF HDM
<1>3. HDT(parts, tags).type \in OutcomeTypes
  BY Zenon DEF HDT
<1>4. ROT(parts, tags).type \in OutcomeTypes
  BY Zenon DEF ROT
<1>5. MWV(parts, tags).type \in OutcomeTypes
  BY Zenon DEF MWV
<1>6. VWR(parts, tags).type \in OutcomeTypes
  BY Zenon DEF VWR
<1> QED
  BY <1>1, <1>2, <1>3, <1>4, <1>5, <1>6

LEMMA SpeedHooks ==
    ASSUME NEW parts, NEW tags
    PROVE  /\ APB(parts).type \in OutcomeTypes
           /\ VTG(parts, tags).type \in OutcomeTypes
           /\ KEP(parts, tags).type \in OutcomeTypes
           /\ VHW(parts, tags).type \in OutcomeTypes
           /\ VPW(parts, tags).type \in OutcomeTypes
           /\ VDR(parts, tags).type \in OutcomeTypes
<1> USE DeltaType, OtherTypes, OutcomeType DEF OutcomeTypes
<1>1. APB(parts).type \in OutcomeTypes
  BY Zenon DEF APB
<1>2. VTG(parts, tags).type \in OutcomeTypes
  BY Zenon DEF VTG
<1>3. KEP(parts, tags).type \in OutcomeTypes
  <2> DEFINE angle == Float(Part(parts, 1))
             course == IF Positive(angle) THEN Transform(angle, DEG) ELSE Number(0)
             first == IF Part(parts, 1) = Empty /\ Part(parts, 3) = Empty THEN Null
                      ELSE Delta(<<Pair("performance.targetSpeed",
                                        SpeedOf(Part(parts, 1), Part(parts, 2),
                                                Part(parts, 3), Part(parts, 4)))>>,
                                 tags.timestamp)
             second == Delta(<<Pair("performance.tackMagnetic", course)>>, tags.timestamp)
             third == Delta(<<Pair("performance.targetAngle", course)>>, tags.timestamp)
  <2>1. /\ first.type \in OutcomeTypes /\ second.type \in OutcomeTypes
        /\ third.type \in OutcomeTypes /\ Outcome("nodelta").type \in OutcomeTypes
    BY Zenon
  <2>2. KEP(parts, tags) \in {first, Null, second, third, Outcome("nodelta")}
    <3> HIDE DEF second, third
    <3> QED
      BY DEF KEP, second, third
  <2> HIDE DEF first, second, third
  <2> QED
    BY <2>1, <2>2, OtherTypes
<1>4. VHW(parts, tags).type \in OutcomeTypes
  BY DEF VHW
<1>5. VPW(parts, tags).type \in OutcomeTypes
  BY Zenon DEF VPW
<1>6. VDR(parts, tags).type \in OutcomeTypes
  BY Zenon DEF VDR
<1> QED
  BY <1>1, <1>2, <1>3, <1>4, <1>5, <1>6

LEMMA OtherHooks ==
    ASSUME NEW parts, NEW tags, NEW data
    PROVE  /\ DBT(parts, tags).type \in OutcomeTypes
           /\ DPT(parts, tags).type \in OutcomeTypes
           /\ MTW(parts, tags).type \in OutcomeTypes
           /\ RPM(parts, tags).type \in OutcomeTypes
           /\ DSC(parts, tags).type \in OutcomeTypes
           /\ VDM(data, tags).type \in OutcomeTypes
           /\ VDO(data, tags).type \in OutcomeTypes
<1> USE DeltaType, OtherTypes DEF OutcomeTypes
<1>1. DBT(parts, tags).type \in OutcomeTypes
  BY Zenon DEF DBT
<1>2. DPT(parts, tags).type \in OutcomeTypes
  BY Zenon DEF DPT
<1>3. MTW(parts, tags).type \in OutcomeTypes
  BY Zenon DEF MTW
<1>4. RPM(parts, tags).type \in OutcomeTypes
  BY Zenon DEF RPM
<1>5. DSC(parts, tags).type \in OutcomeTypes
  <2>1. PICK values, context :
           \/ DSC(parts, tags) \in {Null, Catch}
           \/ DSC(parts, tags)
                = [Delta(values, tags.timestamp) EXCEPT !.context = context]
    BY Zenon DEF DSC
  <2> DEFINE delta == [Delta(values, tags.timestamp) EXCEPT !.context = context]
  <2>2. delta.type = "delta"
    BY DEF Delta, Outcome
  <2>3. DSC(parts, tags) \in {Null, Catch, delta}
    BY <2>1
  <2> HIDE DEF delta
  <2> QED
    BY <2>2, <2>3, OtherTypes
<1>6. VDM(data, tags).type \in OutcomeTypes
  <2> DEFINE values == VDMValues(data)
             context == [prefix |-> ContextPrefix(data), mmsi |-> data.mmsi]
             delta == [Delta(values, tags.timestamp) EXCEPT !.context = context]
  <2>1. delta.type = "delta"
    BY DEF Delta, Outcome
  <2>2. VDM(data, tags) \in {Null, Rejected, delta}
    BY Zenon DEF VDM
  <2> HIDE DEF delta
  <2> QED
    BY <2>1, <2>2, OtherTypes
<1>7. VDO(data, tags).type \in OutcomeTypes
  BY <1>6 DEF VDO
<1> QED
  BY <1>1, <1>2, <1>3, <1>4, <1>5, <1>6, <1>7

\* Whatever the fields of a line are, its hook comes to one of the outcomes.
LEMMA HookOutcome ==
    ASSUME NEW line, NEW tags, line.id \in HookIds
    PROVE  Hook(line, tags).type \in OutcomeTypes
<1>1. CASE line.id \in {"GGA", "GLL", "RMC", "RMB", "ZDA"}
  BY <1>1, PositionHooks DEF Hook
<1>2. CASE line.id \in {"HDG", "HDM", "HDT", "ROT", "MWV", "VWR"}
  BY <1>2, AngleHooks DEF Hook
<1>3. CASE line.id \in {"APB", "VTG", "KEP", "VHW", "VPW", "VDR"}
  BY <1>3, SpeedHooks DEF Hook
<1>4. CASE line.id \in {"DBT", "DPT", "MTW", "RPM", "DSC", "VDM", "VDO"}
  BY <1>4, OtherHooks DEF Hook
<1> QED
  BY <1>1, <1>2, <1>3, <1>4 DEF HookIds

ParseTypes == {"delta", "null", "nodelta", "error", "thrown"}

DeltaOf(line) ==
    LET tags == GetTags(line, now)
        outcome == Hook(line, tags)
    IN  [type |-> "delta", values |-> outcome.values,
         timestamp |-> outcome.timestamp, context |-> outcome.context,
         source |-> TransformSource(tags.source, line.id, line.talker)]

LEMMA ParseOutcome ==
    ASSUME mappings \subseteq HookIds, NEW line
    PROVE  /\ Parse(line).type \in ParseTypes
           /\ Parse(line).type = "delta" => Parse(line) = DeltaOf(line)
<1> DEFINE outcome == Hook(line, GetTags(line, now))
           delta == DeltaOf(line)
<1>1. delta.type = "delta"
  BY DEF DeltaOf
<1>2. CASE line.id \notin mappings
  <2>1. Parse(line) = [type |-> "error"]
    BY <1>2 DEF Parse
  <2> QED
    BY <2>1 DEF ParseTypes
<1>3. CASE line.id \in mappings
  <2>1. outcome.type \in OutcomeTypes
    BY <1>3, HookOutcome
  <2>2. \/ Parse(line) = delta
        \/ Parse(line) = [type |-> outcome.type] /\ outcome.type \in {"null", "nodelta"}
        \/ Parse(line) = [type |-> "error"]
        \/ Parse(line) = [type |-> "thrown"]
    BY <1>3, <2>1 DEF Parse, DeltaOf, OutcomeTypes
  <2> HIDE DEF outcome, delta
  <2> QED
    BY <1>1, <2>2 DEF ParseTypes, delta
<1> QED
  BY <1>2, <1>3

-----------------------------------------------------------------------------
(***************************************************************************)
(* What a message is.                                                      *)
(***************************************************************************)
HooksAreKnown ==
    /\ mappings \subseteq {Supported[i] : i \in 1 .. Len(Supported)}
    /\ IsFiniteSet(mappings) /\ Cardinality(mappings) <= Len(Supported)

LEMMA KnownHooks == HooksAreKnown => mappings \subseteq HookIds
<1>1. \A i \in 1 .. Len(Supported) : Supported[i] \in HookIds
  BY SupportedAssumption
<1> QED
  BY <1>1 DEF HooksAreKnown

LEMMA HooksInit == Init => HooksAreKnown
<1> SUFFICES ASSUME Init PROVE HooksAreKnown
  OBVIOUS
<1>1. Len(Supported) \in Nat
  BY SupportedAssumption
<1> QED
  BY <1>1, FS_EmptySet DEF Init, HooksAreKnown

LEMMA HooksStep == HooksAreKnown /\ [Next]_vars => HooksAreKnown'
<1> SUFFICES ASSUME HooksAreKnown, [Next]_vars PROVE HooksAreKnown'
  OBVIOUS
<1>1. CASE LoadHook
  <2> DEFINE i == Cardinality(mappings) + 1
  <2>1. Len(Supported) \in Nat /\ Cardinality(mappings) \in Nat
    BY SupportedAssumption, FS_CardinalityType DEF HooksAreKnown
  <2>2. i \in 1 .. Len(Supported)
    BY <1>1, <2>1 DEF LoadHook, Loaded, HooksAreKnown
  <2>3. mappings' = mappings \cup {Supported[i]}
    BY <1>1 DEF LoadHook
  <2>4. IsFiniteSet(mappings') /\ Cardinality(mappings') <= i
    <3>1. /\ IsFiniteSet(mappings \cup {Supported[i]})
          /\ \/ Cardinality(mappings \cup {Supported[i]}) = Cardinality(mappings)
             \/ Cardinality(mappings \cup {Supported[i]}) = Cardinality(mappings) + 1
      BY FS_AddElement DEF HooksAreKnown
    <3> QED
      BY <2>1, <2>3, <3>1
  <2>5. Cardinality(mappings') \in Nat
    BY <2>4, FS_CardinalityType
  <2> QED
    BY <2>1, <2>2, <2>3, <2>4, <2>5 DEF HooksAreKnown
<1>2. CASE mappings' = mappings
  BY <1>2 DEF HooksAreKnown
<1> QED
  BY <1>1, <1>2 DEF Next, Write, Send, ParseDirectly, Forward, Tick, vars

\* The two ways a message leaves the interceptors.
LEMMA InterceptOutcome ==
    ASSUME HooksAreKnown, NEW written
    PROVE  LET message0 == Intercept(written)
               line == written.line
           IN  /\ message0.written = written
               /\ \/ /\ message0.contentType = "JSON_DELTA"
                     /\ message0.accepted /\ ~ message0.exception
                     /\ message0.body.type = "delta"
                     /\ message0.body.context = "vessels.self"
                     /\ message0.body.source = DeltaOf(line).source
                  \/ /\ message0.contentType \in {"none", "0183", "AIS"}
                     /\ message0.body = line
<1> DEFINE line == written.line
           result == Parse(line)
           message0 == Intercept(written)
<1>1. /\ message0.written = written
      /\ message0.contentType = Converted(line).contentType
      /\ message0.body = Converted(line).body
      /\ message0.accepted = (ContentType(line) # "none")
      /\ message0.exception = (ContentType(line) = "0183" /\ result.type = "thrown")
  BY DEF Intercept
<1>2. ContentType(line) \in {"none", "0183", "AIS"}
  BY DEF ContentType
<1>3. CASE ContentType(line) = "0183" /\ result.type = "delta"
  <2> DEFINE body == [DeltaOf(line) EXCEPT !.context = "vessels.self"]
  <2>1. result = DeltaOf(line)
    BY <1>3, ParseOutcome, KnownHooks
  <2>2. Converted(line) = [contentType |-> "JSON_DELTA", body |-> body]
    BY <1>3, <2>1 DEF Converted
  <2>3. Converted(line).contentType = "JSON_DELTA" /\ Converted(line).body = body
    BY <2>2
  <2>4. body.type = "delta" /\ body.context = "vessels.self"
        /\ body.source = DeltaOf(line).source
    BY DEF DeltaOf
  <2> HIDE DEF message0, result, body
  <2>5. message0.accepted /\ ~ message0.exception
    BY <1>1, <1>3
  <2> QED
    BY <1>1, <2>3, <2>4, <2>5 DEF message0
<1>4. CASE ~ (ContentType(line) = "0183" /\ result.type = "delta")
  <2>1. Converted(line) = [contentType |-> ContentType(line), body |-> line]
    BY <1>4 DEF Converted
  <2>2. Converted(line).contentType = ContentType(line) /\ Converted(line).body = line
    BY <2>1
  <2> HIDE DEF message0, result
  <2> QED
    BY <1>1, <1>2, <2>2 DEF message0
<1> QED
  BY <1>3, <1>4

\* A message that calls itself a delta is one, of the server's own vessel, and
\* one that does not is the line it was - for every line an instrument may
\* write, and wherever its hook throws.
THEOREM Consistency == Spec => []MessageIsConsistent
<1> DEFINE Inv == HooksAreKnown /\ MessageIsConsistent
<1>1. Init => Inv
  BY HooksInit DEF Init, MessageIsConsistent, NoMessage
<1>2. Inv /\ [Next]_vars => Inv'
  <2> SUFFICES ASSUME Inv, [Next]_vars PROVE MessageIsConsistent'
    BY HooksStep
  <2>1. CASE Send
    <3>1. message' = Intercept(wire)
      BY <2>1 DEF Send
    <3>2. /\ message'.written = wire
          /\ \/ /\ message'.contentType = "JSON_DELTA"
                /\ message'.accepted /\ ~ message'.exception
                /\ message'.body.type = "delta"
                /\ message'.body.context = "vessels.self"
             \/ /\ message'.contentType \in {"none", "0183", "AIS"}
                /\ message'.body = wire.line
      BY <3>1, InterceptOutcome
    <3> QED
      BY <3>2 DEF MessageIsConsistent
  <2>2. CASE ParseDirectly
    <3>1. message'.contentType = "direct"
      BY <2>2 DEF ParseDirectly
    <3> QED
      BY <3>1 DEF MessageIsConsistent
  <2>3. CASE Forward
    <3>1. message'.written = NoLine
      BY <2>3 DEF Forward, NoMessage
    <3> QED
      BY <3>1 DEF MessageIsConsistent
  <2>4. CASE message' = message
    BY <2>4 DEF MessageIsConsistent
  <2> QED
    BY <2>1, <2>2, <2>3, <2>4 DEF Next, LoadHook, Write, Tick, vars
<1>3. Inv => MessageIsConsistent
  OBVIOUS
<1> HIDE DEF Inv
<1> QED
  BY <1>1, <1>2, <1>3, PTL DEF Spec

\* The state keeps its types whatever the instruments write: a hook that fails,
\* in any way, leaves a message with one of the known content types.
THEOREM TypeCorrectness == Spec => []TypeOK
<1> DEFINE Inv == HooksAreKnown /\ TypeOK
<1>1. Init => Inv
  <2> SUFFICES ASSUME Init PROVE TypeOK
    BY HooksInit
  <2>1. now \in Start .. Start + MaxTicks
    BY ClockAssumption DEF Init
  <2>2. wire.at = -1 /\ message.written.at = -1 /\ message.contentType = "none"
        /\ message.accepted = TRUE /\ message.exception = FALSE
    BY DEF Init, NoLine, NoMessage
  <2> QED
    BY <2>1, <2>2, HooksInit DEF TypeOK, HooksAreKnown
<1>2. Inv /\ [Next]_vars => Inv'
  <2> SUFFICES ASSUME Inv, [Next]_vars PROVE TypeOK'
    BY HooksStep
  <2>1. mappings' \subseteq {Supported[i] : i \in 1 .. Len(Supported)}
    BY HooksStep DEF HooksAreKnown
  <2>2. CASE Send
    <3>1. message' = Intercept(wire) /\ wire'.at = -1 /\ now' = now
      BY <2>2 DEF Send, NoLine
    <3>2. message'.written = wire
          /\ message'.contentType \in {"none", "0183", "AIS", "JSON_DELTA"}
      BY <3>1, InterceptOutcome
    <3>3. message'.accepted \in BOOLEAN /\ message'.exception \in BOOLEAN
      BY <3>1, Zenon DEF Intercept
    <3> QED
      BY <2>1, <3>1, <3>2, <3>3 DEF TypeOK
  <2>3. CASE ParseDirectly
    <3>1. wire'.at = -1 /\ now' = now
      BY <2>3 DEF ParseDirectly, NoLine
    <3>2. message'.written = wire /\ message'.contentType = "direct"
          /\ message'.accepted \in BOOLEAN
      BY <2>3 DEF ParseDirectly
    <3>3. message'.exception \in BOOLEAN
      BY <2>3, Zenon DEF ParseDirectly
    <3> QED
      BY <2>1, <3>1, <3>2, <3>3 DEF TypeOK
  <2>4. CASE Forward
    <3>1. message'.written.at = -1 /\ message'.contentType = "none"
          /\ message'.accepted = TRUE /\ message'.exception = FALSE
          /\ wire' = wire /\ now' = now
      BY <2>4 DEF Forward, NoMessage, NoLine
    <3> QED
      BY <2>1, <3>1 DEF TypeOK
  <2>5. CASE Write
    <3>1. wire'.at = now /\ now' = now /\ message' = message
      BY <2>5 DEF Write
    <3> QED
      BY <2>1, <3>1, ClockAssumption DEF TypeOK
  <2>6. CASE Tick
    <3>1. now' = now + 1 /\ now < Start + MaxTicks /\ wire' = wire /\ message' = message
      BY <2>6 DEF Tick
    <3>2. now' \in Start .. Start + MaxTicks /\ now < now'
      BY <3>1, ClockAssumption DEF TypeOK
    <3> QED
      BY <2>1, <3>1, <3>2, ClockAssumption DEF TypeOK
  <2>7. CASE LoadHook \/ UNCHANGED vars
    <3>1. wire' = wire /\ message' = message /\ now' = now
      BY <2>7 DEF LoadHook, vars
    <3> QED
      BY <2>1, <3>1 DEF TypeOK
  <2> QED
    BY <2>2, <2>3, <2>4, <2>5, <2>6, <2>7 DEF Next
<1>3. Inv => TypeOK
  OBVIOUS
<1> HIDE DEF Inv
<1> QED
  BY <1>1, <1>2, <1>3, PTL DEF Spec

-----------------------------------------------------------------------------
(***************************************************************************)
(* Who a value comes from.                                                 *)
(***************************************************************************)
NamedBy(source, line) ==
    /\ source.sentence = line.id
    /\ line.block.s = Undefined => source.talker = line.talker
    /\ line.block.s # Undefined /\ ~ line.block.last => source.talker = line.block.s.s

LEMMA DeltaIsNamed ==
    ASSUME NEW line, WellNamed(line)
    PROVE  NamedBy(DeltaOf(line).source, line)
<1> DEFINE half == IF line.block.s = Undefined THEN <<"", "">>
                   ELSE <<IF line.block.last THEN line.block.s.s \o "*00"
                          ELSE line.block.s.s, line.id>>
<1>1. GetTags(line, now).source = half
  BY DEF GetTags
<1>2. DeltaOf(line).source = TransformSource(half, line.id, line.talker)
  BY <1>1 DEF DeltaOf
<1>3. /\ TransformSource(half, line.id, line.talker).sentence
           = IF half[2] # "" THEN half[2] ELSE line.id
      /\ TransformSource(half, line.id, line.talker).talker
           = IF half[1] # "" THEN half[1]
             ELSE IF line.talker = "nmea0183" THEN "SK" ELSE line.talker
  BY DEF TransformSource
<1>4. CASE line.block.s = Undefined
  BY <1>2, <1>3, <1>4 DEF WellNamed, NamedBy
<1>5. CASE line.block.s # Undefined
  <2>1. half[2] = line.id /\ (~ line.block.last => half[1] = line.block.s.s)
    BY <1>5
  <2> HIDE DEF half
  <2> QED
    BY <1>2, <1>3, <1>5, <2>1 DEF WellNamed, NamedBy
<1> QED
  BY <1>4, <1>5

-----------------------------------------------------------------------------
(***************************************************************************)
(* The arithmetic of the hooks.                                            *)
(***************************************************************************)
\* MWV.js takes any angle of the wind, counted round the ship, to the same
\* direction counted from the bow to either side.
THEOREM WindAngle ==
    ASSUME NEW n \in Nat
    PROVE  /\ ConvertToWindAngle(n) \in -180 .. 180
           /\ ConvertToWindAngle(n) = n % 360 \/ ConvertToWindAngle(n) = (n % 360) - 360
<1>1. n % 360 \in 0 .. 359
  OBVIOUS
<1>2. ~ (n < 0)
  OBVIOUS
<1> QED
  BY <1>1, <1>2 DEF ConvertToWindAngle

\* A wind that VWR.js would report with a letter for its side is the same wind
\* for MWV.js.
THEOREM WindHooksAgree ==
    ASSUME NEW angle \in -179 .. 180
    PROVE  ConvertToWindAngle(angle % 360) = angle
<1>1. angle % 360 = IF angle < 0 THEN angle + 360 ELSE angle
  OBVIOUS
<1>2. (angle % 360) % 360 = angle % 360 /\ angle % 360 \in 0 .. 359
  OBVIOUS
<1> QED
  BY <1>1, <1>2 DEF ConvertToWindAngle

\* The day a time of day is given is that of the server's clock: a fix is dated
\* exactly when the line did not cross midnight, and a day late when it did.
THEOREM DatedByTheServer ==
    ASSUME NEW sent \in Nat, NEW clock \in Nat, sent <= clock, clock < sent + DAY
    PROVE  Timestamp(Num(sent % DAY), Today(clock), clock)
             = Number(IF Today(clock) = Today(sent) THEN sent ELSE sent + DAY)
<1> DEFINE today == clock - (clock % DAY)
           day == sent - (sent % DAY)
<1>1. DAY = 24
  BY DEF DAY, MINUTE
<1>2. Today(clock) = Num(today) /\ Today(clock).n = today
      /\ Today(sent) = Num(day) /\ Today(sent).n = day
  BY DEF Today, Num
<1>3. today = day \/ today = day + 24
  BY <1>1
<1>4. Num(sent % DAY).n = sent % DAY /\ Num(sent % DAY).s = "digits"
  BY DEF Num
<1>5. Truthy(Num(sent % DAY)) /\ Truthy(Today(clock))
  <2>1. \A i : Num(i).s = "digits"
    BY DEF Num
  <2>2. Undefined.s = "undefined" /\ Empty.s = "" /\ NaN.s = "NaN" /\ Number(0).s = "number"
    BY DEF Undefined, Empty, NaN, Number, Str
  <2> QED
    BY <1>2, <2>1, <2>2 DEF Truthy
<1>6. Timestamp(Num(sent % DAY), Today(clock), clock) = Number(today + (sent % DAY))
  BY <1>2, <1>4, <1>5 DEF Timestamp
<1>7. today \in Int /\ day \in Int /\ sent % DAY \in Int /\ day + (sent % DAY) = sent
  BY <1>1
<1>8. Today(clock) = Today(sent) <=> today = day
  BY <1>2
<1> HIDE DEF today, day
<1>9. CASE today = day
  BY <1>6, <1>7, <1>8, <1>9
<1>10. CASE today = day + 24
  <2>1. today # day /\ today + (sent % DAY) = sent + DAY
    BY <1>1, <1>7, <1>10
  <2> QED
    BY <1>6, <1>8, <2>1
<1> QED
  BY <1>3, <1>9, <1>10

LEMMA WhenRange ==
    ASSUME NEW S, NEW pair \in S, NEW condition
    PROVE  /\ When(condition, pair) \in Seq(S)
           /\ Range(When(condition, pair)) = IF condition THEN {pair} ELSE {}
<1>1. <<pair>> \in Seq(S) /\ <<>> \in Seq(S)
  OBVIOUS
<1>2. Range(<<pair>>) = {pair} /\ Range(<<>>) = {}
  BY DEF Range
<1> QED
  BY <1>1, <1>2 DEF When

LEMMA GrownRange ==
    ASSUME NEW S, NEW s \in Seq(S), NEW pair \in S, NEW condition
    PROVE  /\ s \o When(condition, pair) \in Seq(S)
           /\ Range(s \o When(condition, pair))
                = Range(s) \cup (IF condition THEN {pair} ELSE {})
<1>1. /\ When(condition, pair) \in Seq(S)
      /\ Range(When(condition, pair)) = IF condition THEN {pair} ELSE {}
  BY WhenRange
<1> HIDE DEF When
<1>2. s \o When(condition, pair) \in Seq(S)
  BY <1>1, ConcatProperties
<1>3. Range(s \o When(condition, pair)) = Range(s) \cup Range(When(condition, pair))
  BY <1>1, RangeConcatenation
<1> QED
  BY <1>1, <1>2, <1>3

LEMMA TransformTwice ==
    ASSUME NEW n \in Int
    PROVE  Transform(Transform(Number(n), -1), -1) = Number(n)
<1>1. \A i : Number(i) # NaN /\ Number(i).n = i
  BY DEF Number, NaN, Str
<1>2. Transform(Number(n), -1) = Number(-1 * n)
  BY <1>1 DEF Transform
<1>3. Transform(Number(-1 * n), -1) = Number(-1 * (-1 * n))
  BY <1>1 DEF Transform
<1>4. -1 * (-1 * n) = n
  OBVIOUS
<1> QED
  BY <1>2, <1>3, <1>4

\* The depths of a sounder, below the surface, the transducer and the keel, add
\* up whatever the offset is and whatever became of its two fields.
THEOREM SounderAddsUp ==
    ASSUME NEW parts, NEW tags, DPT(parts, tags).type = "delta",
           Float(Part(parts, 1)) = NaN
             \/ \E n \in Int : Float(Part(parts, 1)) = Number(n)
    PROVE  AddUp(Range(DPT(parts, tags).values))
<1> DEFINE depth == Float(Part(parts, 0))
           offset == Float(Part(parts, 1))
           below == Pair("environment.depth.belowTransducer", depth)
           surface == Pair("environment.depth.surfaceToTransducer", offset)
           belowSurface == Pair("environment.depth.belowSurface", Plus(depth, offset))
           keel == Pair("environment.depth.transducerToKeel", Transform(offset, -1))
           belowKeel == Pair("environment.depth.belowKeel", Plus(depth, offset))
           values == <<below>> \o When(Positive(offset), surface)
                     \o When(Positive(offset), belowSurface)
                     \o When(Negative(offset), keel)
                     \o When(Negative(offset), belowKeel)
<1>1. DPT(parts, tags).values = values
  <2>1. DPT(parts, tags) \in {Null, Delta(values, tags.timestamp)}
    BY Zenon DEF DPT
  <2>2. Null.type = "null"
    BY OtherTypes
  <2>3. Delta(values, tags.timestamp).values = values
    BY DEF Delta, Outcome
  <2> HIDE DEF values
  <2> QED
    BY <2>1, <2>2, <2>3
<1>2. \A path, value : Pair(path, value).path = path /\ Pair(path, value).value = value
  BY DEF Pair
<1>3. Range(values) = {below} \cup (IF Positive(offset) THEN {surface, belowSurface} ELSE {})
                              \cup (IF Negative(offset) THEN {keel, belowKeel} ELSE {})
  <2> DEFINE S == {below, surface, belowSurface, keel, belowKeel}
             one == <<below>>
             two == one \o When(Positive(offset), surface)
             three == two \o When(Positive(offset), belowSurface)
             four == three \o When(Negative(offset), keel)
  <2>1. below \in S /\ surface \in S /\ belowSurface \in S /\ keel \in S /\ belowKeel \in S
    OBVIOUS
  <2> HIDE DEF S, offset, below, surface, belowSurface, keel, belowKeel
  <2>2. one \in Seq(S) /\ Range(one) = {below}
    BY <2>1 DEF Range
  <2> HIDE DEF one
  <2>3. two \in Seq(S)
        /\ Range(two) = Range(one) \cup (IF Positive(offset) THEN {surface} ELSE {})
    BY <2>1, <2>2, GrownRange
  <2> HIDE DEF two
  <2>4. three \in Seq(S)
        /\ Range(three) = Range(two) \cup (IF Positive(offset) THEN {belowSurface} ELSE {})
    BY <2>1, <2>3, GrownRange
  <2> HIDE DEF three
  <2>5. four \in Seq(S)
        /\ Range(four) = Range(three) \cup (IF Negative(offset) THEN {keel} ELSE {})
    BY <2>1, <2>4, GrownRange
  <2>6. values = four \o When(Negative(offset), belowKeel)
    BY DEF one, two, three
  <2> HIDE DEF four, values
  <2>7. Range(values) = Range(four) \cup (IF Negative(offset) THEN {belowKeel} ELSE {})
    BY <2>1, <2>5, <2>6, GrownRange
  <2> QED
    BY <2>2, <2>3, <2>4, <2>5, <2>7
<1> HIDE DEF depth, offset, values
<1>4. CASE Positive(offset)
  <2>1. ~ Negative(offset)
    <3>1. offset # NaN /\ offset.n > 0
      BY <1>4 DEF Positive
    <3>2. PICK n \in Int : offset = Number(n)
      BY <3>1 DEF offset
    <3>3. offset.n = n
      BY <3>2 DEF Number
    <3> QED
      BY <3>1, <3>3 DEF Negative
  <2>2. Range(values) = {below, surface, belowSurface}
    BY <1>3, <1>4, <2>1, Zenon
  <2> QED
    BY <1>1, <1>2, <2>2 DEF AddUp
<1>5. CASE Negative(offset)
  <2>1. PICK n \in Int : offset = Number(n)
    BY <1>5 DEF Negative, offset
  <2>2. ~ Positive(offset)
    <3>1. offset.n = n
      BY <2>1 DEF Number
    <3> QED
      BY <1>5, <3>1 DEF Positive, Negative
  <2>3. Transform(Transform(offset, -1), -1) = offset
    BY <2>1, TransformTwice
  <2>4. Range(values) = {below, keel, belowKeel}
    BY <1>3, <1>5, <2>2, Zenon
  <2> QED
    BY <1>1, <1>2, <2>3, <2>4 DEF AddUp
<1>6. CASE ~ Positive(offset) /\ ~ Negative(offset)
  <2>1. Range(values) = {below}
    BY <1>3, <1>6, Zenon
  <2> QED
    BY <1>1, <1>2, <2>1 DEF AddUp
<1> QED
  BY <1>4, <1>5, <1>6

-----------------------------------------------------------------------------
(***************************************************************************)
(* GGA goes through the indices of the values it has to take out.          *)
(***************************************************************************)
\* Induction: a set of numbers has a smallest one.
LEMMA Smallest ==
    ASSUME NEW T \in SUBSET Nat, T # {}
    PROVE  \E x \in T : \A y \in T : x <= y
<1> DEFINE R == OpToRel(<, Nat)
<1>1. IsWellFoundedOn(R, Nat)
  BY NatLessThanWellFounded, Zenon
<1>2. \A x, y \in Nat : <<y, x>> \in R <=> y < x
  BY DEF OpToRel
<1> HIDE DEF R
<1>3. PICK x \in T : \A y \in T : ~ (<<y, x>> \in R)
  BY <1>1, WFMin
<1>4. \A y \in T : x <= y
  <2> TAKE y \in T
  <2>1. x \in Nat /\ y \in Nat /\ ~ (<<y, x>> \in R)
    BY <1>3
  <2>2. ~ (y < x)
    BY <2>1, <1>2
  <2> QED
    BY <2>1, <2>2
<1> QED
  BY <1>4

\* splice(i, 1) puts nothing into the list.
LEMMA SpliceKeeps ==
    ASSUME NEW S, NEW values \in Seq(S), NEW i \in Nat
    PROVE  Splice(values, i) \in Seq(S)
<1>1. CASE i < Len(values)
  <2>1. Len(values) \in Nat /\ i \in 0 .. Len(values) - 1
    BY <1>1
  <2> DEFINE head == SubSeq(values, 1, (i + 1) - 1)
             tail == SubSeq(values, (i + 1) + 1, Len(values))
  <2>2. head \in Seq(S) /\ tail \in Seq(S)
    BY <2>1
  <2>3. Splice(values, i) = head \o tail
    BY <1>1 DEF Splice, RemoveAt
  <2> HIDE DEF head, tail
  <2> QED
    BY <2>2, <2>3, ConcatProperties
<1>2. CASE ~ (i < Len(values))
  BY <1>2 DEF Splice
<1> QED
  BY <1>1, <1>2

\* The values of a list.
Carried(values) == {values[i] : i \in 1 .. Len(values)}

\* RemoveUnusable takes one turn for each index of the list.
LEMMA RemovalInTurns ==
    ASSUME NEW S, NEW values \in Seq(S)
    PROVE  \E left :
             /\ left[0] = values
             /\ RemoveUnusable(values) = left[Len(values)]
             /\ \A k \in 1 .. Len(values) :
                    left[k] = IF k - 1 \in ToRemove(values) THEN Splice(left[k - 1], k - 1)
                              ELSE left[k - 1]
<1> DEFINE n == Len(values)
           Turn(list, k) == IF k - 1 \in ToRemove(values) THEN Splice(list, k - 1) ELSE list
           Goes(f, m) == f = [k \in 0 .. m |-> IF k = 0 THEN values ELSE Turn(f[k - 1], k)]
           left == CHOOSE f : Goes(f, n)
<1>1. n \in Nat
  OBVIOUS
<1>2. RemoveUnusable(values) = left[n]
  BY DEF RemoveUnusable
<1> HIDE DEF Turn, n
<1>3. \A m \in Nat : \E f : Goes(f, m)
  <2> DEFINE T == {m \in Nat : ~ \E f : Goes(f, m)}
  <2> SUFFICES ASSUME T # {} PROVE FALSE
    OBVIOUS
  <2>1. T \in SUBSET Nat
    OBVIOUS
  <2>2. PICK m \in T : \A y \in T : m <= y
    <3> HIDE DEF T
    <3> QED
      BY <2>1, Smallest
  <2>3. m \in Nat /\ ~ \E f : Goes(f, m)
    OBVIOUS
  <2>4. CASE m = 0
    <3>1. Goes([k \in 0 .. 0 |-> values], 0)
      OBVIOUS
    <3> QED
      BY <2>3, <2>4, <3>1
  <2>5. CASE m # 0
    <3>1. m - 1 \in Nat /\ m - 1 \notin T
      BY <2>2, <2>3, <2>5
    <3>2. PICK g : Goes(g, m - 1)
      BY <3>1
    <3> DEFINE h == [k \in 0 .. m |-> IF k = m THEN Turn(g[m - 1], m) ELSE g[k]]
               again == [k \in 0 .. m |-> IF k = 0 THEN values ELSE Turn(h[k - 1], k)]
    <3>3. \A k \in 0 .. m : h[k] = again[k]
      <4> TAKE k \in 0 .. m
      <4>1. CASE k = m
        <5>1. h[m] = Turn(g[m - 1], m) /\ h[m - 1] = g[m - 1]
          BY <2>3, <2>5
        <5> QED
          BY <4>1, <5>1, <2>3, <2>5
      <4>2. CASE k = 0
        <5>1. h[0] = g[0]
          BY <2>3, <2>5
        <5>2. g[0] = values
          BY <2>3, <2>5, <3>2
        <5> QED
          BY <4>2, <5>1, <5>2, <2>3
      <4>3. CASE k \in 1 .. m - 1
        <5>1. k \in 0 .. m - 1 /\ k - 1 \in 0 .. m - 1 /\ k # 0 /\ k # m /\ k - 1 # m
          BY <4>3, <2>3
        <5>2. h[k] = g[k] /\ h[k - 1] = g[k - 1]
          BY <5>1, <2>3
        <5>3. g[k] = Turn(g[k - 1], k)
          BY <5>1, <3>2
        <5> QED
          BY <5>1, <5>2, <5>3
      <4> QED
        BY <4>1, <4>2, <4>3, <2>3
    <3>4. h = again
      <4> HIDE DEF h
      <4>1. h = [k \in 0 .. m |-> h[k]]
        BY DEF h
      <4> QED
        BY <3>3, <4>1
    <3>5. Goes(h, m)
      <4> HIDE DEF h
      <4> QED
        BY <3>4
    <3> QED
      BY <2>3, <3>5
  <2> QED
    BY <2>4, <2>5
<1>4. Goes(left, n)
  BY <1>1, <1>3
<1> HIDE DEF left
<1>5. left[0] = values /\ \A k \in 1 .. n : left[k] = Turn(left[k - 1], k)
  <2>1. \A k \in 0 .. n : left[k] = IF k = 0 THEN values ELSE Turn(left[k - 1], k)
    BY <1>4
  <2> QED
    BY <1>1, <2>1
<1> QED
  BY <1>2, <1>5 DEF Turn, n

\* What is left of a list of values is made of them.
LEMMA RemoveUnusableKeeps ==
    ASSUME NEW S, NEW values \in Seq(S)
    PROVE  RemoveUnusable(values) \in Seq(S)
<1> DEFINE n == Len(values)
<1>1. PICK left :
         /\ left[0] = values
         /\ RemoveUnusable(values) = left[n]
         /\ \A k \in 1 .. n :
                left[k] = IF k - 1 \in ToRemove(values) THEN Splice(left[k - 1], k - 1)
                          ELSE left[k - 1]
  BY RemovalInTurns
<1>2. n \in Nat
  OBVIOUS
<1> HIDE DEF n
<1>3. \A k \in 0 .. n : left[k] \in Seq(S)
  <2> DEFINE T == {k \in 0 .. n : left[k] \notin Seq(S)}
  <2> SUFFICES ASSUME T # {} PROVE FALSE
    OBVIOUS
  <2>1. T \in SUBSET Nat
    BY <1>2
  <2>2. PICK k \in T : \A y \in T : k <= y
    <3> HIDE DEF T
    <3> QED
      BY <2>1, Smallest
  <2>3. k \in 0 .. n /\ left[k] \notin Seq(S) /\ k # 0
    BY <1>1
  <2>4. k - 1 \in 0 .. n /\ k - 1 \notin T /\ k - 1 \in Nat /\ k \in 1 .. n
    BY <1>2, <2>2, <2>3
  <2>5. left[k - 1] \in Seq(S)
    BY <2>4
  <2> QED
    BY <1>1, <2>3, <2>4, <2>5, SpliceKeeps
<1> QED
  BY <1>1, <1>2, <1>3

\* What stands where in two lists put together.
LEMMA Together ==
    ASSUME NEW S, NEW first \in Seq(S), NEW second \in Seq(S)
    PROVE  /\ Len(first \o second) = Len(first) + Len(second)
           /\ \A m \in 1 .. Len(first) + Len(second) :
                  (first \o second)[m] = IF m <= Len(first) THEN first[m]
                                        ELSE second[m - Len(first)]
OBVIOUS

\* As long as there is one value to remove at most, the others stay.
LEMMA OneRemoved ==
    ASSUME NEW S, NEW values \in Seq(S), NEW i \in Nat, ToRemove(values) \subseteq {i},
           NEW j \in 1 .. Len(values), j - 1 \notin ToRemove(values)
    PROVE  values[j] \in Carried(RemoveUnusable(values))
<1> DEFINE n == Len(values)
           less == RemoveAt(values, i + 1)
           Due(k) == i \in ToRemove(values) /\ k > i
<1>1. PICK left :
         /\ left[0] = values
         /\ RemoveUnusable(values) = left[n]
         /\ \A k \in 1 .. n :
                left[k] = IF k - 1 \in ToRemove(values) THEN Splice(left[k - 1], k - 1)
                          ELSE left[k - 1]
  BY RemovalInTurns
<1>2. n \in Nat /\ (i \in ToRemove(values) => i < n)
  BY DEF ToRemove
<1>3. i < n => Splice(values, i) = less
  BY DEF Splice
<1> HIDE DEF n, less
<1>4. \A k \in 0 .. n : left[k] = IF Due(k) THEN less ELSE values
  <2> DEFINE T == {k \in 0 .. n : left[k] # IF Due(k) THEN less ELSE values}
  <2> SUFFICES ASSUME T # {} PROVE FALSE
    OBVIOUS
  <2>1. T \in SUBSET Nat
    BY <1>2
  <2>2. PICK k \in T : \A y \in T : k <= y
    <3> HIDE DEF T
    <3> QED
      BY <2>1, Smallest
  <2>3. k \in 0 .. n /\ k # 0 /\ left[k] # IF Due(k) THEN less ELSE values
    BY <1>1
  <2>4. k - 1 \in 0 .. n /\ k - 1 \notin T /\ k \in 1 .. n
    BY <1>2, <2>2, <2>3
  <2>5. left[k - 1] = IF Due(k - 1) THEN less ELSE values
    BY <2>4
  <2>6. left[k] = IF k - 1 \in ToRemove(values) THEN Splice(left[k - 1], k - 1)
                  ELSE left[k - 1]
    BY <1>1, <2>4
  <2>7. CASE k - 1 \in ToRemove(values)
    <3>1. k - 1 = i /\ ~ Due(k - 1) /\ Due(k)
      BY <2>4, <2>7
    <3> QED
      BY <1>2, <1>3, <2>3, <2>5, <2>6, <2>7, <3>1
  <2>8. CASE k - 1 \notin ToRemove(values)
    <3>1. Due(k) <=> Due(k - 1)
      BY <2>4, <2>8
    <3> QED
      BY <2>3, <2>5, <2>6, <2>8, <3>1
  <2> QED
    BY <2>7, <2>8
<1>5. \/ RemoveUnusable(values) = values
      \/ (i \in ToRemove(values) /\ RemoveUnusable(values) = less)
  BY <1>1, <1>2, <1>4
<1>6. CASE RemoveUnusable(values) = values
  BY <1>6 DEF Carried
<1>7. CASE i \in ToRemove(values) /\ RemoveUnusable(values) = less
  <2>1. i < n /\ j # i + 1 /\ j \in 1 .. n
    BY <1>2, <1>7 DEF n
  <2> DEFINE head == SubSeq(values, 1, (i + 1) - 1)
             tail == SubSeq(values, (i + 1) + 1, n)
  <2>2. less = head \o tail
    BY DEF less, RemoveAt, n
  <2>3. /\ head \in Seq(S) /\ Len(head) = i /\ \A m \in 1 .. i : head[m] = values[m]
        /\ tail \in Seq(S) /\ Len(tail) = n - (i + 1)
        /\ \A m \in 1 .. n - (i + 1) : tail[m] = values[m + (i + 1)]
    BY <1>2, <2>1 DEF n
  <2> HIDE DEF head, tail
  <2>4. Len(less) = n - 1 /\ \A m \in 1 .. n - 1 :
           less[m] = IF m <= i THEN head[m] ELSE tail[m - i]
    <3>1. /\ Len(head \o tail) = Len(head) + Len(tail)
          /\ \A k \in 1 .. Len(head) + Len(tail) :
                 (head \o tail)[k] = IF k <= Len(head) THEN head[k] ELSE tail[k - Len(head)]
      <4>1. head \in Seq(S) /\ tail \in Seq(S)
        BY <2>3
      <4> QED
        BY <4>1, Together
    <3>2. Len(head) = i /\ Len(tail) = n - (i + 1)
      BY <2>3
    <3>3. i + (n - (i + 1)) = n - 1
      BY <1>2
    <3> QED
      BY <2>2, <3>1, <3>2, <3>3
  <2> DEFINE m == IF j <= i THEN j ELSE j - 1
  <2>5. m \in 1 .. Len(less) /\ less[m] = values[j]
    <3>1. CASE j <= i
      BY <1>2, <2>1, <2>3, <2>4, <3>1
    <3>2. CASE ~ (j <= i)
      <4>1. m = j - 1 /\ m \in 1 .. n - 1 /\ ~ (m <= i) /\ m - i \in 1 .. n - (i + 1)
            /\ (m - i) + (i + 1) = j
        BY <1>2, <2>1, <3>2
      <4>2. less[m] = tail[m - i] /\ tail[m - i] = values[(m - i) + (i + 1)]
        BY <2>3, <2>4, <4>1
      <4> QED
        BY <2>4, <4>1, <4>2
    <3> QED
      BY <3>1, <3>2
  <2> HIDE DEF m
  <2> QED
    BY <1>7, <2>5 DEF Carried
<1> QED
  BY <1>5, <1>6, <1>7

\* With one to remove at most, all the values that can be published stay.
LEMMA UsableStays ==
    ASSUME NEW S, NEW values \in Seq(S), Cardinality(ToRemove(values)) <= 1,
           NEW j \in 1 .. Len(values), values[j].value \notin {Undefined, NaN}
    PROVE  values[j] \in Carried(RemoveUnusable(values))
<1> DEFINE n == Len(values)
           due == ToRemove(values)
<1>1. n \in Nat /\ n - 1 \in Int /\ due \in SUBSET (0 .. n - 1)
  BY DEF ToRemove
<1>2. IsFiniteSet(due)
  <2>1. IsFiniteSet(0 .. n - 1)
    BY <1>1, FS_Interval
  <2> HIDE DEF due
  <2> QED
    BY <1>1, <2>1, FS_Subset
<1>3. j - 1 \notin due
  <2>1. (j - 1) + 1 = j
    BY <1>1
  <2> QED
    BY <2>1 DEF ToRemove
<1>4. \E i \in Nat : due \subseteq {i}
  <2> HIDE DEF due, n
  <2>1. Cardinality(due) \in Nat /\ Cardinality(due) <= 1
    BY <1>2, FS_CardinalityType DEF due
  <2>2. CASE Cardinality(due) = 0
    BY <1>2, <2>2, FS_EmptySet
  <2>3. CASE Cardinality(due) = 1
    <3>1. PICK x : due = {x}
      BY <1>2, <2>3, FS_Singleton
    <3>2. x \in Nat
      BY <1>1, <3>1
    <3> QED
      BY <3>1, <3>2
  <2> QED
    BY <2>1, <2>2, <2>3
<1>5. PICK i \in Nat : due \subseteq {i}
  BY <1>4
<1> HIDE DEF n
<1> QED
  BY <1>3, <1>5, OneRemoved

-----------------------------------------------------------------------------
(***************************************************************************)
(* When a delta is dated, and which hooks publish a depth.                 *)
(***************************************************************************)
Depth == "environment.depth.belowTransducer"

\* A list of values with no depth among them.
Depthless(values) ==
    \E S : values \in Seq(S) /\ \A pair \in S : pair.path # Depth

LEMMA PairParts ==
    ASSUME NEW path, NEW value
    PROVE  Pair(path, value).path = path /\ Pair(path, value).value = value
BY DEF Pair

LEMMA DeltaParts ==
    ASSUME NEW values, NEW timestamp
    PROVE  /\ Delta(values, timestamp).type = "delta"
           /\ Delta(values, timestamp).values = values
           /\ Delta(values, timestamp).timestamp = timestamp
BY DEF Delta, Outcome

LEMMA DepthlessNone == Depthless(<<>>)
<1> DEFINE none == {}
<1>1. <<>> \in Seq(none) /\ \A p \in none : p.path # Depth
  OBVIOUS
<1> HIDE DEF none
<1> QED
  BY <1>1 DEF Depthless

LEMMA DepthlessMore ==
    ASSUME NEW values, Depthless(values), NEW pair, pair.path # Depth, NEW condition
    PROVE  Depthless(values \o When(condition, pair))
<1>1. PICK S : values \in Seq(S) /\ \A p \in S : p.path # Depth
  BY DEF Depthless
<1> DEFINE all == S \cup {pair}
<1>2. values \in Seq(all) /\ pair \in all /\ \A p \in all : p.path # Depth
  BY <1>1
<1> HIDE DEF all
<1>3. values \o When(condition, pair) \in Seq(all)
  BY <1>2, GrownRange
<1> QED
  BY <1>2, <1>3 DEF Depthless

\* A list with a value in it keeps one.
LEMMA KeptMore ==
    ASSUME NEW values, Depthless(values), values # <<>>, NEW pair, NEW condition
    PROVE  values \o When(condition, pair) # <<>>
<1>1. PICK S : values \in Seq(S)
  BY DEF Depthless
<1>2. When(condition, pair) \in Seq({pair})
  BY WhenRange
<1>3. Len(values) \in Nat /\ Len(values) > 0
  BY <1>1
<1>4. Len(values \o When(condition, pair)) = Len(values) + Len(When(condition, pair))
  BY <1>1, <1>2
<1>5. Len(When(condition, pair)) \in Nat /\ Len(<<>>) = 0
  BY <1>2
<1> QED
  BY <1>3, <1>4, <1>5

LEMMA DepthlessOne ==
    ASSUME NEW pair, pair.path # Depth
    PROVE  Depthless(<<pair>>)
<1> DEFINE one == {pair}
<1>1. <<pair>> \in Seq(one) /\ \A p \in one : p.path # Depth
  OBVIOUS
<1> HIDE DEF one
<1> QED
  BY <1>1 DEF Depthless

LEMMA DepthlessWhen ==
    ASSUME NEW pair, pair.path # Depth, NEW condition
    PROVE  Depthless(When(condition, pair))
BY DepthlessOne, DepthlessNone DEF When

\* What the hook of a sentence other than DBT and DPT comes to.
Harmless(outcome, timestamp) ==
    outcome.type = "delta" => outcome.timestamp = timestamp /\ Depthless(outcome.values)

LEMMA HarmlessDelta ==
    ASSUME NEW values, NEW timestamp, Depthless(values)
    PROVE  Harmless(Delta(values, timestamp), timestamp)
BY DeltaParts DEF Harmless

LEMMA HarmlessOthers ==
    ASSUME NEW timestamp
    PROVE  /\ Harmless(Null, timestamp) /\ Harmless(Rejected, timestamp)
           /\ Harmless(Thrown, timestamp) /\ Harmless(Catch, timestamp)
           /\ Harmless(Outcome("nodelta"), timestamp)
           /\ Harmless(Outcome("notpromise"), timestamp)
BY OtherTypes, OutcomeType DEF Harmless

LEMMA HarmlessSingle ==
    ASSUME NEW path, NEW value, NEW timestamp, path # Depth
    PROVE  Harmless(Delta(<<Pair(path, value)>>, timestamp), timestamp)
<1>1. Depthless(<<Pair(path, value)>>)
  BY PairParts, DepthlessOne
<1> QED
  BY <1>1, HarmlessDelta

LEMMA SingleValues ==
    ASSUME NEW parts, NEW tags
    PROVE  /\ Harmless(HDM(parts, tags), tags.timestamp)
           /\ Harmless(HDT(parts, tags), tags.timestamp)
           /\ Harmless(ROT(parts, tags), tags.timestamp)
           /\ Harmless(RPM(parts, tags), tags.timestamp)
           /\ Harmless(MTW(parts, tags), tags.timestamp)
           /\ Harmless(VDR(parts, tags), tags.timestamp)
           /\ Harmless(VPW(parts, tags), tags.timestamp)
           /\ Harmless(ZDA(parts, tags), tags.timestamp)
           /\ Harmless(APB(parts), tags.timestamp)
           /\ Harmless(KEP(parts, tags), tags.timestamp)
<1> USE HarmlessSingle, HarmlessOthers DEF Depth
<1>1. Harmless(HDM(parts, tags), tags.timestamp)
  BY DEF HDM
<1>2. Harmless(HDT(parts, tags), tags.timestamp)
  BY DEF HDT
<1>3. Harmless(ROT(parts, tags), tags.timestamp)
  BY DEF ROT
<1>4. Harmless(RPM(parts, tags), tags.timestamp)
  <2> DEFINE value == [s |-> "revolutions", number |-> Part(parts, 1),
                       rate |-> Transform(Float(Part(parts, 2)), PER_MINUTE)]
             shaft == Delta(<<Pair("propulsion.shaft", value)>>, tags.timestamp)
             engine == Delta(<<Pair("propulsion.engine", value)>>, tags.timestamp)
  <2>1. Harmless(shaft, tags.timestamp) /\ Harmless(engine, tags.timestamp)
    <3> HIDE DEF value
    <3> QED
      OBVIOUS
  <2>2. RPM(parts, tags) \in {Rejected, shaft, engine}
    BY Zenon DEF RPM
  <2> HIDE DEF shaft, engine
  <2> QED
    BY <2>1, <2>2
<1>5. Harmless(MTW(parts, tags), tags.timestamp)
  BY DEF MTW
<1>6. Harmless(VDR(parts, tags), tags.timestamp)
  BY DEF VDR
<1>7. Harmless(VPW(parts, tags), tags.timestamp)
  BY DEF VPW
<1>8. Harmless(ZDA(parts, tags), tags.timestamp)
  BY DEF ZDA
<1>9. Harmless(APB(parts), tags.timestamp)
  BY Zenon DEF APB
<1>10. Harmless(KEP(parts, tags), tags.timestamp)
  BY DEF KEP
<1> QED
  BY <1>1, <1>2, <1>3, <1>4, <1>5, <1>6, <1>7, <1>8, <1>9, <1>10

LEMMA ContextAside ==
    ASSUME NEW values, NEW timestamp, NEW context, Depthless(values)
    PROVE  Harmless([Delta(values, timestamp) EXCEPT !.context = context], timestamp)
<1> DEFINE delta == [Delta(values, timestamp) EXCEPT !.context = context]
<1>1. delta.values = values /\ delta.timestamp = timestamp
  BY DEF Delta, Outcome
<1>2. Harmless(delta, timestamp)
  <2> HIDE DEF delta
  <2> QED
    BY <1>1 DEF Harmless
<1> QED
  BY <1>2

LEMMA HarmlessTwo ==
    ASSUME NEW timestamp,
           NEW p1, NEW v1, p1 # Depth,
           NEW p2, NEW v2, p2 # Depth
    PROVE  Harmless(Delta(<<Pair(p1, v1), Pair(p2, v2)>>, timestamp), timestamp)
<1> DEFINE S == {Pair(p1, v1), Pair(p2, v2)}
           values == <<Pair(p1, v1), Pair(p2, v2)>>
<1>1. values \in Seq(S)
  <2> HIDE DEF S
  <2>1. Pair(p1, v1) \in S /\ Pair(p2, v2) \in S
    BY DEF S
  <2> QED
    BY <2>1
<1>2. \A pair \in S : pair.path # Depth
  BY PairParts
<1>3. Depthless(values)
  <2> HIDE DEF S, values
  <2> QED
    BY <1>1, <1>2 DEF Depthless
<1> QED
  BY <1>3, HarmlessDelta

LEMMA HarmlessThree ==
    ASSUME NEW timestamp,
           NEW p1, NEW v1, p1 # Depth,
           NEW p2, NEW v2, p2 # Depth,
           NEW p3, NEW v3, p3 # Depth
    PROVE  Harmless(Delta(<<Pair(p1, v1), Pair(p2, v2), Pair(p3, v3)>>, timestamp), timestamp)
<1> DEFINE S == {Pair(p1, v1), Pair(p2, v2), Pair(p3, v3)}
           values == <<Pair(p1, v1), Pair(p2, v2), Pair(p3, v3)>>
<1>1. values \in Seq(S)
  <2> HIDE DEF S
  <2>1. Pair(p1, v1) \in S /\ Pair(p2, v2) \in S /\ Pair(p3, v3) \in S
    BY DEF S
  <2> QED
    BY <2>1
<1>2. \A pair \in S : pair.path # Depth
  BY PairParts
<1>3. Depthless(values)
  <2> HIDE DEF S, values
  <2> QED
    BY <1>1, <1>2 DEF Depthless
<1> QED
  BY <1>3, HarmlessDelta

LEMMA HarmlessFive ==
    ASSUME NEW timestamp,
           NEW p1, NEW v1, p1 # Depth,
           NEW p2, NEW v2, p2 # Depth,
           NEW p3, NEW v3, p3 # Depth,
           NEW p4, NEW v4, p4 # Depth,
           NEW p5, NEW v5, p5 # Depth
    PROVE  Harmless(Delta(<<Pair(p1, v1), Pair(p2, v2), Pair(p3, v3), Pair(p4, v4),
                            Pair(p5, v5)>>, timestamp), timestamp)
<1> DEFINE S == {Pair(p1, v1), Pair(p2, v2), Pair(p3, v3), Pair(p4, v4),
                 Pair(p5, v5)}
           values == <<Pair(p1, v1), Pair(p2, v2), Pair(p3, v3), Pair(p4, v4),
                       Pair(p5, v5)>>
<1>1. values \in Seq(S)
  <2> HIDE DEF S
  <2>1. /\ Pair(p1, v1) \in S /\ Pair(p2, v2) \in S /\ Pair(p3, v3) \in S
          /\ Pair(p4, v4) \in S /\ Pair(p5, v5) \in S
    BY DEF S
  <2> QED
    BY <2>1
<1>2. \A pair \in S : pair.path # Depth
  BY PairParts
<1>3. Depthless(values)
  <2> HIDE DEF S, values
  <2> QED
    BY <1>1, <1>2 DEF Depthless
<1> QED
  BY <1>3, HarmlessDelta

LEMMA HarmlessSix ==
    ASSUME NEW timestamp,
           NEW p1, NEW v1, p1 # Depth,
           NEW p2, NEW v2, p2 # Depth,
           NEW p3, NEW v3, p3 # Depth,
           NEW p4, NEW v4, p4 # Depth,
           NEW p5, NEW v5, p5 # Depth,
           NEW p6, NEW v6, p6 # Depth
    PROVE  Harmless(Delta(<<Pair(p1, v1), Pair(p2, v2), Pair(p3, v3), Pair(p4, v4),
                            Pair(p5, v5), Pair(p6, v6)>>, timestamp), timestamp)
<1> DEFINE S == {Pair(p1, v1), Pair(p2, v2), Pair(p3, v3), Pair(p4, v4),
                 Pair(p5, v5), Pair(p6, v6)}
           values == <<Pair(p1, v1), Pair(p2, v2), Pair(p3, v3), Pair(p4, v4),
                       Pair(p5, v5), Pair(p6, v6)>>
<1>1. values \in Seq(S)
  <2> HIDE DEF S
  <2>1. /\ Pair(p1, v1) \in S /\ Pair(p2, v2) \in S /\ Pair(p3, v3) \in S
          /\ Pair(p4, v4) \in S /\ Pair(p5, v5) \in S /\ Pair(p6, v6) \in S
    BY DEF S
  <2> QED
    BY <2>1
<1>2. \A pair \in S : pair.path # Depth
  BY PairParts
<1>3. Depthless(values)
  <2> HIDE DEF S, values
  <2> QED
    BY <1>1, <1>2 DEF Depthless
<1> QED
  BY <1>3, HarmlessDelta

LEMMA FewValues ==
    ASSUME NEW parts, NEW tags
    PROVE  /\ Harmless(VTG(parts, tags), tags.timestamp)
           /\ Harmless(VWR(parts, tags), tags.timestamp)
           /\ Harmless(MWV(parts, tags), tags.timestamp)
<1> USE HarmlessTwo, HarmlessThree, HarmlessOthers DEF Depth
<1>1. Harmless(VTG(parts, tags), tags.timestamp)
  BY DEF VTG
<1>2. Harmless(VWR(parts, tags), tags.timestamp)
  BY DEF VWR
<1>3. Harmless(MWV(parts, tags), tags.timestamp)
  BY DEF MWV
<1> QED
  BY <1>1, <1>2, <1>3

LEMMA Waypoint ==
    ASSUME NEW parts, NEW tags
    PROVE  Harmless(RMB(parts, tags), tags.timestamp)
<1>1. PICK a, b, c, d, e :
          RMB(parts, tags)
            \in {Null, Thrown,
                 Delta(<<Pair("navigation.courseRhumbline.nextPoint", a),
                         Pair("navigation.courseRhumbline.nextPoint.bearingTrue", b),
                         Pair("navigation.courseRhumbline.nextPoint.velocityMadeGood", c),
                         Pair("navigation.courseRhumbline.nextPoint.distance", d),
                         Pair("navigation.courseRhumbline.crossTrackError", e)>>,
                       tags.timestamp)}
  BY Zenon DEF RMB
<1> QED
  BY <1>1, HarmlessFive, HarmlessOthers DEF Depth

\* Whether there is a course, a heading or a speed does not matter.
LEMMA SomeValues ==
    ASSUME NEW parts, NEW tags
    PROVE  /\ Harmless(HDG(parts, tags), tags.timestamp)
           /\ Harmless(VHW(parts, tags), tags.timestamp)
           /\ Harmless(DSC(parts, tags), tags.timestamp)
<1> USE PairParts DEF Depth
<1>1. Harmless(HDG(parts, tags), tags.timestamp)
  <2> DEFINE c1 == ~ IsEmpty(Part(parts, 0))
             p1 == Pair("navigation.headingMagnetic",
                        Transform(Float(Part(parts, 0)), DEG))
             c2 == ~ IsEmpty(Part(parts, 3)) /\ ~ IsEmpty(Part(parts, 4))
             p2 == Pair("navigation.magneticVariation",
                        Transform(Transform(Float(Part(parts, 3)), DEG),
                                  IF Part(parts, 4) = Str("E") THEN 1 ELSE -1))
             values == When(c1, p1) \o When(c2, p2)
  <2>1. HDG(parts, tags) \in {Null, Delta(values, tags.timestamp)}
    BY Zenon DEF HDG
  <2>2. p1.path # Depth /\ p2.path # Depth
    OBVIOUS
  <2> HIDE DEF p1, p2, c1, c2
  <2>3. Depthless(values)
    BY <2>2, DepthlessWhen, DepthlessMore
  <2> HIDE DEF values
  <2> QED
    BY <2>1, <2>3, HarmlessDelta, HarmlessOthers
<1>2. Harmless(VHW(parts, tags), tags.timestamp)
  <2> DEFINE c1 == Part(parts, 0) # Empty
             p1 == Pair("navigation.headingTrue", Transform(Float(Part(parts, 0)), DEG))
             c2 == Part(parts, 2) # Empty
             p2 == Pair("navigation.headingMagnetic",
                        Transform(Float(Part(parts, 2)), DEG))
             c3 == Part(parts, 4) # Empty
             p3 == Pair("navigation.speedThroughWater",
                        Transform(Float(Part(parts, 4)), KNOTS))
             values == When(c1, p1) \o When(c2, p2) \o When(c3, p3)
  <2>1. VHW(parts, tags) = Delta(values, tags.timestamp)
    BY Zenon DEF VHW
  <2>2. p1.path # Depth /\ p2.path # Depth /\ p3.path # Depth
    OBVIOUS
  <2> HIDE DEF p1, p2, p3, c1, c2, c3
  <2>3. Depthless(values)
    BY <2>2, DepthlessWhen, DepthlessMore
  <2> HIDE DEF values
  <2> QED
    BY <2>1, <2>3, HarmlessDelta
<1>3. Harmless(DSC(parts, tags), tags.timestamp)
  <2> DEFINE p1 == Pair("navigation.position", ParsePosition(Part(parts, 5)))
             c2 == Part(parts, 2) = Num(12)
             p2 == Pair("notifications", Str(DistressNature(Part(parts, 3))))
             values == <<p1>> \o When(c2, p2)
             context == [prefix |-> "vessels.", mmsi |-> Part(parts, 1)]
             delta == [Delta(values, tags.timestamp) EXCEPT !.context = context]
  <2>1. DSC(parts, tags) \in {Null, Catch, delta}
    BY Zenon DEF DSC
  <2>2. p1.path # Depth /\ p2.path # Depth
    OBVIOUS
  <2> HIDE DEF p1, p2, c2, context
  <2>3. Depthless(values)
    BY <2>2, DepthlessOne, DepthlessMore
  <2> HIDE DEF values
  <2>4. Harmless(delta, tags.timestamp)
    BY <2>3, ContextAside
  <2> HIDE DEF delta
  <2> QED
    BY <2>1, <2>4, HarmlessOthers
<1> QED
  BY <1>1, <1>2, <1>3

\* A list of which we know what is in it.
Lists(values, carried) == values \in Seq(carried) /\ Carried(values) = carried

LEMMA ListsNone == Lists(<<>>, {})
<1> DEFINE none == {}
<1>1. <<>> \in Seq(none) /\ Carried(<<>>) = none
  BY DEF Carried
<1> HIDE DEF none
<1>2. Lists(<<>>, none)
  BY <1>1 DEF Lists
<1> QED
  BY <1>2 DEF none

LEMMA ListsOne == ASSUME NEW pair PROVE Lists(<<pair>>, {pair})
<1> DEFINE one == {pair}
<1>1. <<pair>> \in Seq(one) /\ Carried(<<pair>>) = one
  BY DEF Carried
<1> HIDE DEF one
<1>2. Lists(<<pair>>, one)
  BY <1>1 DEF Lists
<1> QED
  BY <1>2 DEF one

LEMMA ListsMore ==
    ASSUME NEW values, NEW carried, Lists(values, carried), NEW pair, NEW condition
    PROVE  Lists(values \o When(condition, pair),
                 carried \cup (IF condition THEN {pair} ELSE {}))
<1> DEFINE more == When(condition, pair)
           extra == IF condition THEN {pair} ELSE {}
           all == carried \cup {pair}
           both == carried \cup extra
           list == values \o more
<1>1. values \in Seq(all) /\ pair \in all
  BY DEF Lists
<1> HIDE DEF all
<1>2. list \in Seq(all) /\ Range(list) = Range(values) \cup extra
  BY <1>1, GrownRange
<1>3. Range(values) = carried
  BY DEF Lists, Carried, Range
<1>4. Carried(list) = Range(list) /\ DOMAIN list = 1 .. Len(list) /\ Len(list) \in Nat
  BY <1>2 DEF Carried, Range
<1> HIDE DEF list, extra
<1>5. \A i \in 1 .. Len(list) : list[i] \in both
  BY <1>2, <1>3, <1>4 DEF Range
<1> HIDE DEF both
<1>6. list \in Seq(both)
  BY <1>2, <1>4, <1>5
<1>7. Carried(list) = both
  BY <1>2, <1>3, <1>4 DEF both
<1>8. Lists(list, both)
  BY <1>6, <1>7 DEF Lists
<1> QED
  BY <1>8 DEF list, both, extra

LEMMA ListsWhen ==
    ASSUME NEW pair, NEW condition
    PROVE  Lists(When(condition, pair), IF condition THEN {pair} ELSE {})
BY ListsNone, ListsOne DEF When

LEMMA ListsFiveMore ==
    ASSUME NEW values, NEW carried, Lists(values, carried),
           NEW c1, NEW p1, NEW c2, NEW p2, NEW c3, NEW p3, NEW c4, NEW p4, NEW c5, NEW p5
    PROVE  Lists(values \o When(c1, p1) \o When(c2, p2) \o When(c3, p3) \o When(c4, p4)
                        \o When(c5, p5),
                 carried \cup (IF c1 THEN {p1} ELSE {}) \cup (IF c2 THEN {p2} ELSE {})
                   \cup (IF c3 THEN {p3} ELSE {}) \cup (IF c4 THEN {p4} ELSE {})
                   \cup (IF c5 THEN {p5} ELSE {}))
BY ListsMore

\* What an AIS report has been made of.
LEMMA ShipList ==
    ASSUME NEW data
    PROVE  /\ Lists(VDMValues(data), Carried(VDMValues(data)))
           /\ \A pair : pair \in Carried(VDMValues(data)) <=>
               \/ Truthy(data.mmsi) /\ pair = Pair("", [s |-> "mmsi", of |-> data.mmsi])
               \/ /\ Truthy(data.shipname)
                  /\ pair = Pair("", [s |-> "name", of |-> data.shipname])
               \/ /\ data.sog # Undefined
                  /\ pair = Pair("navigation.speedOverGround", Transform(data.sog, KNOTS))
               \/ /\ data.cog # Undefined
                  /\ pair = Pair("navigation.courseOverGroundTrue", Transform(data.cog, DEG))
               \/ /\ data.hdg # Undefined
                  /\ pair = Pair("navigation.headingTrue", Transform(data.hdg, DEG))
               \/ /\ Truthy(data.lon) /\ Truthy(data.lat)
                  /\ pair = Pair("navigation.position", Position(data.lat, data.lon))
               \/ Truthy(data.length) /\ pair = Pair("design.length", data.length)
               \/ Truthy(data.width) /\ pair = Pair("design.beam", data.width)
               \/ Truthy(data.draught) /\ pair = Pair("design.draft", data.draught)
               \/ Truthy(data.dimA) /\ pair = Pair("sensors.ais.fromBow", data.dimA)
               \/ /\ Truthy(data.dimD) /\ Truthy(data.width)
                  /\ pair = Pair("sensors.ais.fromCenter",
                                 FromCenter(data.width.n, data.dimD.n))
               \/ /\ Truthy(data.navstatus) /\ data.navstatus.n \in DOMAIN StateMapping
                  /\ pair = Pair("navigation.state", Str(StateMapping[data.navstatus.n]))
               \/ /\ Truthy(data.destination)
                  /\ pair = Pair("navigation.destination.commonName", data.destination)
               \/ /\ Truthy(data.callsign)
                  /\ pair = Pair("", [s |-> "callsign", of |-> data.callsign])
               \/ /\ Truthy(data.aidtype) /\ data.aidtype.n \in AtonTypes
                  /\ pair = Pair("atonType", data.aidtype)
               \/ /\ Truthy(data.cargo) /\ data.cargo.n \in ShipTypes
                  /\ pair = Pair("design.aisShipType", data.cargo)
<1> DEFINE Known(c, p) == IF c THEN {p} ELSE {}
           c1 == Truthy(data.mmsi)
           p1 == Pair("", [s |-> "mmsi", of |-> data.mmsi])
           c2 == Truthy(data.shipname)
           p2 == Pair("", [s |-> "name", of |-> data.shipname])
           c3 == data.sog # Undefined
           p3 == Pair("navigation.speedOverGround", Transform(data.sog, KNOTS))
           c4 == data.cog # Undefined
           p4 == Pair("navigation.courseOverGroundTrue", Transform(data.cog, DEG))
           c5 == data.hdg # Undefined
           p5 == Pair("navigation.headingTrue", Transform(data.hdg, DEG))
           c6 == Truthy(data.lon) /\ Truthy(data.lat)
           p6 == Pair("navigation.position", Position(data.lat, data.lon))
           c7 == Truthy(data.length)
           p7 == Pair("design.length", data.length)
           c8 == Truthy(data.width)
           p8 == Pair("design.beam", data.width)
           c9 == Truthy(data.draught)
           p9 == Pair("design.draft", data.draught)
           c10 == Truthy(data.dimA)
           p10 == Pair("sensors.ais.fromBow", data.dimA)
           c11 == Truthy(data.dimD) /\ Truthy(data.width)
           p11 == Pair("sensors.ais.fromCenter", FromCenter(data.width.n, data.dimD.n))
           c12 == Truthy(data.navstatus) /\ data.navstatus.n \in DOMAIN StateMapping
           p12 == Pair("navigation.state", Str(StateMapping[data.navstatus.n]))
           c13 == Truthy(data.destination)
           p13 == Pair("navigation.destination.commonName", data.destination)
           c14 == Truthy(data.callsign)
           p14 == Pair("", [s |-> "callsign", of |-> data.callsign])
           c15 == Truthy(data.aidtype) /\ data.aidtype.n \in AtonTypes
           p15 == Pair("atonType", data.aidtype)
           c16 == Truthy(data.cargo) /\ data.cargo.n \in ShipTypes
           p16 == Pair("design.aisShipType", data.cargo)
           v1 == When(c1, p1)
           v6 == v1 \o When(c2, p2) \o When(c3, p3) \o When(c4, p4)
                    \o When(c5, p5) \o When(c6, p6)
           v11 == v6 \o When(c7, p7) \o When(c8, p8) \o When(c9, p9)
                     \o When(c10, p10) \o When(c11, p11)
           v16 == v11 \o When(c12, p12) \o When(c13, p13) \o When(c14, p14)
                      \o When(c15, p15) \o When(c16, p16)
           s1 == Known(c1, p1)
           s6 == s1 \cup Known(c2, p2) \cup Known(c3, p3) \cup Known(c4, p4)
                    \cup Known(c5, p5) \cup Known(c6, p6)
           s11 == s6 \cup Known(c7, p7) \cup Known(c8, p8) \cup Known(c9, p9)
                     \cup Known(c10, p10) \cup Known(c11, p11)
           s16 == s11 \cup Known(c12, p12) \cup Known(c13, p13) \cup Known(c14, p14)
                      \cup Known(c15, p15) \cup Known(c16, p16)
<1>1. VDMValues(data) = v16
  BY Zenon DEF VDMValues
<1> HIDE DEF c1, p1, c2, p2, c3, p3, c4, p4, c5, p5, c6, p6, c7, p7, c8, p8,
             c9, p9, c10, p10, c11, p11, c12, p12, c13, p13, c14, p14, c15, p15, c16, p16
<1>2. Lists(v1, s1)
  BY ListsWhen
<1> HIDE DEF v1, s1
<1>3. Lists(v6, s6)
  BY <1>2, ListsFiveMore
<1> HIDE DEF v6, s6
<1>4. Lists(v11, s11)
  BY <1>3, ListsFiveMore
<1> HIDE DEF v11, s11
<1>5. Lists(v16, s16)
  BY <1>4, ListsFiveMore
<1>6. Carried(v16) = s16
  BY <1>5 DEF Lists
<1>7. \A pair : pair \in s16 <=>
         \/ (c1 /\ pair = p1) \/ (c2 /\ pair = p2) \/ (c3 /\ pair = p3) \/ (c4 /\ pair = p4)
         \/ (c5 /\ pair = p5) \/ (c6 /\ pair = p6) \/ (c7 /\ pair = p7) \/ (c8 /\ pair = p8)
         \/ (c9 /\ pair = p9) \/ (c10 /\ pair = p10) \/ (c11 /\ pair = p11) \/ (c12 /\ pair = p12)
         \/ (c13 /\ pair = p13) \/ (c14 /\ pair = p14) \/ (c15 /\ pair = p15) \/ (c16 /\ pair = p16)
  BY DEF s11, s6, s1
<1>8. Lists(VDMValues(data), s16) /\ Carried(VDMValues(data)) = s16
  BY <1>1, <1>5, <1>6
<1> HIDE DEF s16
<1> QED
  BY <1>7, <1>8, Zenon
     DEF c1, p1, c2, p2, c3, p3, c4, p4, c5, p5, c6, p6,
         c7, p7, c8, p8, c9, p9, c10, p10, c11, p11, c12, p12,
         c13, p13, c14, p14, c15, p15, c16, p16

LEMMA ShipValues ==
    ASSUME NEW data
    PROVE  /\ Depthless(VDMValues(data))
           /\ Truthy(data.mmsi) => VDMValues(data) # <<>>
<1> DEFINE values == VDMValues(data)
           paths == {"", "navigation.speedOverGround", "navigation.courseOverGroundTrue",
                     "navigation.headingTrue", "navigation.position", "design.length",
                     "design.beam", "design.draft", "sensors.ais.fromBow",
                     "sensors.ais.fromCenter", "navigation.state",
                     "navigation.destination.commonName", "atonType",
                     "design.aisShipType"}
<1>1. \A pair \in Carried(values) : \E path \in paths : \E value : pair = Pair(path, value)
  <2>1. /\ "" \in paths /\ "navigation.speedOverGround" \in paths
        /\ "navigation.courseOverGroundTrue" \in paths
        /\ "navigation.headingTrue" \in paths /\ "navigation.position" \in paths
        /\ "design.length" \in paths /\ "design.beam" \in paths
        /\ "design.draft" \in paths /\ "sensors.ais.fromBow" \in paths
        /\ "sensors.ais.fromCenter" \in paths /\ "navigation.state" \in paths
        /\ "navigation.destination.commonName" \in paths /\ "atonType" \in paths
        /\ "design.aisShipType" \in paths
    OBVIOUS
  <2> HIDE DEF paths
  <2>2. ASSUME NEW pair \in Carried(values)
        PROVE  \E path \in paths : \E value : pair = Pair(path, value)
    BY <2>1, <2>2, ShipList, Zenon
  <2> QED
    BY <2>2
<1>2. Depth \notin paths
  BY DEF Depth
<1>3. values \in Seq(Carried(values))
  BY ShipList DEF Lists
<1>4. Truthy(data.mmsi) => Carried(values) # {}
  BY ShipList
<1>5. Carried(<<>>) = {}
  BY DEF Carried
<1> HIDE DEF values, paths
<1>6. \A pair \in Carried(values) : pair.path # Depth
  BY <1>1, <1>2, PairParts
<1>7. Depthless(values)
  BY <1>3, <1>6 DEF Depthless
<1> QED
  BY <1>4, <1>5, <1>7 DEF values

LEMMA ShipReports ==
    ASSUME NEW data, NEW tags
    PROVE  /\ Harmless(VDM(data, tags), tags.timestamp)
           /\ Harmless(VDO(data, tags), tags.timestamp)
<1> DEFINE values == VDMValues(data)
           context == [prefix |-> ContextPrefix(data), mmsi |-> data.mmsi]
           delta == [Delta(values, tags.timestamp) EXCEPT !.context = context]
<1>1. VDM(data, tags) \in {Null, Rejected, delta}
  BY Zenon DEF VDM
<1>2. Harmless(delta, tags.timestamp)
  <2> HIDE DEF context
  <2> QED
    BY ShipValues, ContextAside
<1> HIDE DEF delta
<1> QED
  BY <1>1, <1>2, HarmlessOthers DEF VDO

LEMMA PositionReports ==
    ASSUME NEW parts, NEW clock
    PROVE  /\ Harmless(GGA(parts, clock), Timestamp(Part(parts, 0), Today(clock), clock))
           /\ Harmless(GLL(parts, clock), Timestamp(Part(parts, 4), Today(clock), clock))
           /\ Harmless(RMC(parts, clock), Timestamp(Part(parts, 0), Part(parts, 8), clock))
<1>1. Harmless(GGA(parts, clock), Timestamp(Part(parts, 0), Today(clock), clock))
  <2> DEFINE values == GGAValues(parts)
             S == Range(values)
             kept == RemoveUnusable(values)
             time == Timestamp(Part(parts, 0), Today(clock), clock)
  <2>1. GGA(parts, clock) \in {Null, Catch, Delta(kept, time)}
    BY Zenon DEF GGA
  <2>2. values \in Seq(S) /\ \A pair \in S : pair.path # Depth
    <3>1. /\ Len(values) = 8 /\ DOMAIN values = 1 .. 8
          /\ values \in Seq(S)
          /\ \A i \in 1 .. 8 : values[i].path # Depth
      BY PairParts DEF GGAValues, Depth, Range
    <3> QED
      BY <3>1 DEF Range
  <2> HIDE DEF values, S
  <2>3. kept \in Seq(S)
    BY <2>2, RemoveUnusableKeeps
  <2> HIDE DEF kept, time
  <2>4. Depthless(kept)
    BY <2>2, <2>3 DEF Depthless
  <2> QED
    BY <2>1, <2>4, HarmlessDelta, HarmlessOthers DEF time
<1>2. Harmless(GLL(parts, clock), Timestamp(Part(parts, 4), Today(clock), clock))
  <2> DEFINE time == Timestamp(Part(parts, 4), Today(clock), clock)
  <2>1. PICK a : GLL(parts, clock)
                   \in {Null, Catch, Delta(<<Pair("navigation.position", a)>>, time)}
    BY Zenon DEF GLL
  <2> HIDE DEF time
  <2> QED
    BY <2>1, HarmlessSingle, HarmlessOthers DEF Depth, time
<1>3. Harmless(RMC(parts, clock), Timestamp(Part(parts, 0), Part(parts, 8), clock))
  <2> DEFINE time == Timestamp(Part(parts, 0), Part(parts, 8), clock)
  <2>1. PICK a, b, c, d :
           RMC(parts, clock)
             \in {Rejected,
                  Delta(<<Pair("navigation.position", a),
                          Pair("navigation.courseOverGroundTrue", b),
                          Pair("navigation.speedOverGround", c),
                          Pair("navigation.magneticVariation", d),
                          Pair("navigation.magneticVariationAgeOfService", time),
                          Pair("navigation.datetime", time)>>,
                        time)}
    BY Zenon DEF RMC
  <2> HIDE DEF time
  <2> QED
    BY <2>1, HarmlessSix, HarmlessOthers DEF Depth, time
<1> QED
  BY <1>1, <1>2, <1>3

\* The time of the delta of each hook.
TimeOf(line, tags) ==
    CASE line.id = "GGA" -> Timestamp(Part(line.parts, 0), Today(now), now)
      [] line.id = "GLL" -> Timestamp(Part(line.parts, 4), Today(now), now)
      [] line.id = "RMC" -> Timestamp(Part(line.parts, 0), Part(line.parts, 8), now)
      [] OTHER -> tags.timestamp

LEMMA HookHarmless ==
    ASSUME NEW line, NEW tags, line.id \in HookIds \ {"DBT", "DPT"}
    PROVE  Harmless(Hook(line, tags), TimeOf(line, tags))
<1>1. CASE line.id \in {"GGA", "GLL", "RMC"}
  BY <1>1, PositionReports DEF Hook, TimeOf
<1>2. CASE line.id \in {"VTG", "VWR", "MWV", "RMB", "HDG", "VHW", "DSC", "VDM", "VDO"}
  <2>1. TimeOf(line, tags) = tags.timestamp
    BY <1>2 DEF TimeOf
  <2> QED
    BY <1>2, <2>1, FewValues, Waypoint, SomeValues, ShipReports DEF Hook
<1>3. CASE line.id \in {"HDM", "HDT", "ROT", "RPM", "MTW", "VDR", "VPW", "ZDA", "APB", "KEP"}
  <2>1. TimeOf(line, tags) = tags.timestamp
    BY <1>3 DEF TimeOf
  <2> QED
    BY <1>3, <2>1, SingleValues DEF Hook
<1> QED
  BY <1>1, <1>2, <1>3 DEF HookIds

-----------------------------------------------------------------------------
(***************************************************************************)
(* The depths of a delta.                                                  *)
(***************************************************************************)
LEMMA DepthlessAddsUp ==
    ASSUME NEW values, Depthless(values)
    PROVE  AddUp(Carried(values))
<1>1. PICK S : values \in Seq(S) /\ \A pair \in S : pair.path # Depth
  BY DEF Depthless
<1>2. \A pair \in Carried(values) : pair.path # "environment.depth.belowTransducer"
  BY <1>1 DEF Carried, Depth
<1> QED
  BY <1>2, Zenon DEF AddUp

LEMMA EchoAddsUp ==
    ASSUME NEW parts, NEW tags, DBT(parts, tags).type = "delta"
    PROVE  /\ AddUp(Carried(DBT(parts, tags).values))
           /\ DBT(parts, tags).timestamp = tags.timestamp
<1> DEFINE below == Pair("environment.depth.belowTransducer", Float(Part(parts, 2)))
           values == <<below>>
<1>1. DBT(parts, tags) \in {Null, Delta(values, tags.timestamp)}
  BY Zenon DEF DBT
<1>2. /\ DBT(parts, tags).values = values
      /\ DBT(parts, tags).timestamp = tags.timestamp
  <2> HIDE DEF values
  <2> QED
    BY <1>1, DeltaParts, OtherTypes
<1>3. Carried(values) = {below}
  <2> HIDE DEF below
  <2> QED
    BY DEF Carried
<1>4. below.path = "environment.depth.belowTransducer"
  BY PairParts
<1> HIDE DEF below, values
<1>5. AddUp({below})
  BY <1>4 DEF AddUp
<1> QED
  BY <1>2, <1>3, <1>5

LEMMA SounderList ==
    ASSUME NEW parts, NEW tags, DPT(parts, tags).type = "delta"
    PROVE  /\ Carried(DPT(parts, tags).values) = Range(DPT(parts, tags).values)
           /\ DPT(parts, tags).timestamp = tags.timestamp
<1>1. PICK below, surface, belowSurface, keel, belowKeel, c, d :
         DPT(parts, tags)
           \in {Null,
                Delta(<<below>> \o When(c, surface) \o When(c, belowSurface)
                      \o When(d, keel) \o When(d, belowKeel), tags.timestamp)}
  BY Zenon DEF DPT
<1> DEFINE S == {below, surface, belowSurface, keel, belowKeel}
           two == <<below>> \o When(c, surface)
           three == two \o When(c, belowSurface)
           four == three \o When(d, keel)
           values == four \o When(d, belowKeel)
<1>2. below \in S /\ surface \in S /\ belowSurface \in S /\ keel \in S /\ belowKeel \in S
  OBVIOUS
<1>3. /\ DPT(parts, tags).values = values
      /\ DPT(parts, tags).timestamp = tags.timestamp
  <2> HIDE DEF values
  <2>1. DPT(parts, tags) \in {Null, Delta(values, tags.timestamp)}
    BY <1>1 DEF values
  <2> QED
    BY <2>1, DeltaParts, OtherTypes
<1> HIDE DEF S
<1>4. <<below>> \in Seq(S)
  BY <1>2
<1>5. two \in Seq(S)
  BY <1>2, <1>4, GrownRange
<1> HIDE DEF two
<1>6. three \in Seq(S)
  BY <1>2, <1>5, GrownRange
<1> HIDE DEF three
<1>7. four \in Seq(S)
  BY <1>2, <1>6, GrownRange
<1> HIDE DEF four
<1>8. values \in Seq(S)
  BY <1>2, <1>7, GrownRange
<1> HIDE DEF values
<1>9. Carried(values) = Range(values)
  BY <1>8 DEF Carried, Range
<1> QED
  BY <1>3, <1>9

NumbersAreIntegers(line) ==
    \A i \in 0 .. Len(line.parts) :
        LET field == Part(line.parts, i)
        IN  IsNumeral(field) => field.n \in Int

\* Whatever the hook, the depths it publishes add up.
LEMMA HookAddsUp ==
    ASSUME NEW line, NEW tags, line.id \in HookIds, Len(line.parts) \in Nat,
           NumbersAreIntegers(line), Hook(line, tags).type = "delta"
    PROVE  AddUp(Carried(Hook(line, tags).values))
<1>1. CASE line.id \notin {"DBT", "DPT"}
  BY <1>1, HookHarmless, DepthlessAddsUp DEF Harmless
<1>2. CASE line.id = "DBT"
  <2>1. Hook(line, tags) = DBT(line.parts, tags)
    BY <1>2 DEF Hook
  <2> QED
    BY <2>1, EchoAddsUp
<1>3. CASE line.id = "DPT"
  <2>1. Hook(line, tags) = DPT(line.parts, tags)
    BY <1>3 DEF Hook
  <2> DEFINE field == Part(line.parts, 1)
  <2>2. IsNumeral(field) => field.n \in Int
    <3>1. CASE Len(line.parts) = 0
      <4>1. field = Undefined
        BY <3>1 DEF Part
      <4> QED
        BY <4>1 DEF IsNumeral, Undefined, Str
    <3>2. CASE Len(line.parts) # 0
      <4>1. 1 \in 0 .. Len(line.parts)
        BY <3>2
      <4> QED
        BY <4>1 DEF NumbersAreIntegers
    <3> QED
      BY <3>1, <3>2
  <2>3. Float(field) = NaN \/ \E n \in Int : Float(field) = Number(n)
    <3> HIDE DEF field
    <3> QED
      BY <2>2 DEF Float
  <2>4. AddUp(Range(DPT(line.parts, tags).values))
    BY <2>1, <2>3, SounderAddsUp
  <2> QED
    BY <2>1, <2>4, SounderList
<1> QED
  BY <1>1, <1>2, <1>3

-----------------------------------------------------------------------------
(***************************************************************************)
(* The date of a delta.                                                    *)
(***************************************************************************)
LEMMA HookTime ==
    ASSUME NEW line, NEW tags, line.id \in HookIds, Hook(line, tags).type = "delta"
    PROVE  Hook(line, tags).timestamp = TimeOf(line, tags)
<1>1. CASE line.id \notin {"DBT", "DPT"}
  BY <1>1, HookHarmless DEF Harmless
<1>2. CASE line.id = "DBT"
  <2>1. Hook(line, tags) = DBT(line.parts, tags) /\ TimeOf(line, tags) = tags.timestamp
    BY <1>2 DEF Hook, TimeOf
  <2> QED
    BY <2>1, EchoAddsUp
<1>3. CASE line.id = "DPT"
  <2>1. Hook(line, tags) = DPT(line.parts, tags) /\ TimeOf(line, tags) = tags.timestamp
    BY <1>3 DEF Hook, TimeOf
  <2> QED
    BY <2>1, SounderList
<1> QED
  BY <1>1, <1>2, <1>3

LEMMA NumParts ==
    ASSUME NEW i
    PROVE  /\ Num(i).s = "digits" /\ Num(i).n = i /\ IsNumeral(Num(i))
           /\ Truthy(Num(i)) /\ Num(i) # Undefined /\ ~ IsEmpty(Num(i))
<1>1. Num(i).s = "digits" /\ Num(i).n = i
  BY DEF Num
<1>2. /\ Undefined.s = "undefined" /\ Empty.s = "" /\ Blank.s = " "
      /\ NaN.s = "NaN" /\ Number(0).s = "number"
  BY DEF Undefined, Empty, Blank, NaN, Number, Str
<1> QED
  BY <1>1, <1>2 DEF IsNumeral, Truthy, IsEmpty

\* RMC carries the day with the time: the delta has the time of the writing.
LEMMA DatedByTheLine ==
    ASSUME NEW t \in Nat, NEW clock
    PROVE  Timestamp(Num(t % DAY), Today(t), clock) = Number(t)
<1>1. Today(t) = Num(t - (t % DAY))
  BY DEF Today
<1>2. Timestamp(Num(t % DAY), Today(t), clock) = Number((t - (t % DAY)) + (t % DAY))
  BY <1>1, NumParts DEF Timestamp
<1>3. (t - (t % DAY)) + (t % DAY) = t
  BY DEF DAY, MINUTE
<1> QED
  BY <1>2, <1>3

\* Seconds and milliseconds are told apart by their size.
LEMMA DatedByTheTag ==
    ASSUME NEW t \in Nat, NEW c,
           (c = Num(t) /\ t < LIMIT) \/ (c = Num(1000 * t) /\ 1000 * t >= LIMIT)
    PROVE  c # Undefined /\ TagTimestamp(c) = Number(t)
<1>1. CASE c = Num(t) /\ t < LIMIT
  BY <1>1, NumParts DEF TagTimestamp
<1>2. CASE c = Num(1000 * t) /\ 1000 * t >= LIMIT
  <2>1. ~ (1000 * t < LIMIT) /\ (1000 * t) \div 1000 = t
    BY <1>2 DEF LIMIT
  <2>2. IsNumeral(c) /\ c.n = 1000 * t /\ c # Undefined
    BY <1>2, NumParts
  <2> QED
    BY <2>1, <2>2 DEF TagTimestamp
<1> QED
  BY <1>1, <1>2

\* A delta has the time at which its line was written, or that of the next day.
LEMMA DeltaTime ==
    ASSUME NEW entry, NEW t \in Nat, now \in Nat, t <= now, now < t + DAY,
           TellsTheTime(entry, t), NEW fact \in entry.facts, fact.path = "timestamp",
           \E fields \in fact.from : fields \cap entry.damaged = {},
           NEW tags, tags = GetTags(entry.line, now)
    PROVE  \/ TimeOf(entry.line, tags) = fact.value
           \/ /\ entry.line.id \in {"GGA", "GLL"}
              /\ Today(now) # Today(t)
              /\ TimeOf(entry.line, tags) = Plus(fact.value, Number(DAY))
<1> DEFINE line == entry.line
<1>1. /\ fact.value = Number(t)
      /\ line.id \in DOMAIN ClockFields =>
            /\ Part(line.parts, ClockFields[line.id][1]) = Num(t % DAY)
            /\ line.id = "RMC" => Part(line.parts, 8) = Today(t)
      /\ line.id \notin DOMAIN ClockFields =>
            \/ line.block.c = Num(t) /\ t < LIMIT
            \/ line.block.c = Num(1000 * t) /\ 1000 * t >= LIMIT
  BY DEF TellsTheTime
<1>2. /\ DOMAIN ClockFields = {"GGA", "GLL", "RMC"}
      /\ ClockFields["GGA"][1] = 0 /\ ClockFields["GLL"][1] = 4
      /\ ClockFields["RMC"][1] = 0
  BY DEF ClockFields
<1>3. CASE line.id \in {"GGA", "GLL"}
  <2>1. TimeOf(line, tags) = Timestamp(Num(t % DAY), Today(now), now)
    BY <1>1, <1>2, <1>3 DEF TimeOf
  <2>2. TimeOf(line, tags) = Number(IF Today(now) = Today(t) THEN t ELSE t + DAY)
    BY <2>1, DatedByTheServer
  <2>3. Plus(Number(t), Number(DAY)) = Number(t + DAY)
    <3>1. Number(t) # NaN /\ Number(DAY) # NaN /\ Number(t).n = t /\ Number(DAY).n = DAY
      BY DEF Number, NaN, Str
    <3> QED
      BY <3>1 DEF Plus
  <2> QED
    BY <1>1, <1>3, <2>2, <2>3
<1>4. CASE line.id = "RMC"
  <2>1. TimeOf(line, tags) = Timestamp(Num(t % DAY), Today(t), now)
    BY <1>1, <1>2, <1>4 DEF TimeOf
  <2> QED
    BY <1>1, <2>1, DatedByTheLine
<1>5. CASE line.id \notin {"GGA", "GLL", "RMC"}
  <2>1. TimeOf(line, tags) = tags.timestamp
    BY <1>5 DEF TimeOf
  <2> DEFINE c == line.block.c
  <2>2. c # Undefined /\ TagTimestamp(c) = Number(t)
    <3>1. (c = Num(t) /\ t < LIMIT) \/ (c = Num(1000 * t) /\ 1000 * t >= LIMIT)
      <4>1. line.id \notin DOMAIN ClockFields
        BY <1>2, <1>5
      <4> QED
        BY <1>1, <4>1, Zenon
    <3> HIDE DEF c
    <3> QED
      BY <3>1, DatedByTheTag
  <2>3. tags.timestamp = Number(t)
    BY <2>2 DEF GetTags
  <2> QED
    BY <1>1, <2>1, <2>3
<1> QED
  BY <1>3, <1>4, <1>5

-----------------------------------------------------------------------------
(***************************************************************************)
(* Which lines have a delta.                                               *)
(***************************************************************************)
\* A line that says it is void has none, but for the hooks that do not look.
LEMMA VoidHasNoDelta ==
    ASSUME NEW line, NEW tags, line.id \in HookIds, SaysItIsVoid(line),
           Hook(line, tags).type = "delta"
    PROVE  line.id \in {"RMC", "RMB", "RPM"}
<1>1. /\ DOMAIN StatusField = {"GLL", "MWV", "RMB", "RMC", "ROT", "RPM"}
      /\ StatusField["GLL"] = 5 /\ StatusField["MWV"] = 4 /\ StatusField["ROT"] = 1
  BY DEF StatusField
<1>2. Upper(Str("V")) # Str("A")
  BY DEF Upper, Str, Capitals
<1>3. CASE line.id = "GLL"
  <2>1. Part(line.parts, 5) = Str("V")
    BY <1>1, <1>3 DEF SaysItIsVoid
  <2>2. GLL(line.parts, now) = Null
    BY <2>1 DEF GLL, GLLValid
  <2> QED
    BY <1>3, <2>2, OtherTypes DEF Hook
<1>4. CASE line.id = "MWV"
  <2>1. Part(line.parts, 4) = Str("V")
    BY <1>1, <1>4 DEF SaysItIsVoid
  <2>2. MWV(line.parts, tags) = Null
    BY <1>2, <2>1 DEF MWV
  <2> QED
    BY <1>4, <2>2, OtherTypes DEF Hook
<1>5. CASE line.id = "ROT"
  <2>1. Part(line.parts, 1) = Str("V")
    BY <1>1, <1>5 DEF SaysItIsVoid
  <2>2. ROT(line.parts, tags) = Rejected
    BY <1>2, <2>1 DEF ROT
  <2> QED
    BY <1>5, <2>2, OtherTypes DEF Hook
<1>6. CASE line.id \in {"VDM", "VDO"}
  <2>1. ~ line.data.valid
    BY <1>6 DEF SaysItIsVoid
  <2>2. VDM(line.data, tags) \in {Null, Rejected}
    BY <2>1 DEF VDM
  <2>3. Hook(line, tags) = VDM(line.data, tags)
    BY <1>6 DEF Hook, VDO
  <2> QED
    BY <2>2, <2>3, OtherTypes
<1>7. line.id \in {"VDM", "VDO"} \/ line.id \in DOMAIN StatusField
  BY DEF SaysItIsVoid
<1> QED
  BY <1>1, <1>3, <1>4, <1>5, <1>6, <1>7

\* A complete line has at most two empty fields, ...
LEMMA FewEmpties ==
    ASSUME NEW line, line.parts \in Seq(Range(line.parts)), Complete(line),
           line.id \in DOMAIN FieldCount
    PROVE  Empties(line.parts) \in 0 .. 2
<1> DEFINE parts == line.parts
           E == {i \in 1 .. Len(parts) : IsEmpty(parts[i])}
<1>1. \A i \in 1 .. Len(parts) : IsEmpty(parts[i]) => i \in {5, 6}
  BY DEF Complete
<1> DEFINE two == {5} \cup {6}
<1>2. E \in SUBSET two
  BY <1>1
<1>3. IsFiniteSet(two) /\ Cardinality(two) = 2
  <2>1. IsFiniteSet({5}) /\ Cardinality({5}) = 1
    BY FS_Singleton
  <2>2. /\ IsFiniteSet({5} \cup {6})
        /\ Cardinality({5} \cup {6}) = IF 6 \in {5} THEN Cardinality({5})
                                       ELSE Cardinality({5}) + 1
    BY <2>1, FS_AddElement, Zenon
  <2>3. 6 \notin {5}
    OBVIOUS
  <2>4. Cardinality({5} \cup {6}) = 1 + 1
    BY <2>1, <2>2, <2>3, Zenon
  <2>5. 1 + 1 = 2
    OBVIOUS
  <2> QED
    BY <2>2, <2>4, <2>5, Zenon
<1>4. IsFiniteSet(E) /\ Cardinality(E) <= 2
  <2> HIDE DEF E, two
  <2>1. IsFiniteSet(E) /\ Cardinality(E) <= Cardinality(two)
    BY <1>2, <1>3, FS_Subset
  <2> QED
    BY <1>3, <2>1
<1>5. Cardinality(E) \in Nat
  BY <1>4, FS_CardinalityType
<1>6. Empties(parts) = Cardinality(E)
  BY DEF Empties
<1> HIDE DEF E
<1> QED
  BY <1>4, <1>5, <1>6

\* ... and the first fields of it are there.
LEMMA FieldsAreThere ==
    ASSUME NEW line, line.parts \in Seq(Range(line.parts)), Complete(line),
           line.id \in DOMAIN FieldCount, FieldCount[line.id] \in Nat,
           NEW i \in Nat, i < FieldCount[line.id], i < 4 \/ line.id # "ZDA"
    PROVE  /\ Part(line.parts, i) = line.parts[i + 1]
           /\ ~ IsEmpty(Part(line.parts, i))
           /\ Part(line.parts, i) # Undefined
           /\ Part(line.parts, i) # Empty
<1>1. /\ Len(line.parts) \in Nat /\ Len(line.parts) >= FieldCount[line.id]
      /\ \A k \in 1 .. Len(line.parts) :
             IsEmpty(line.parts[k]) => line.id = "ZDA" /\ k \in {5, 6}
  BY DEF Complete
<1>2. i + 1 \in 1 .. Len(line.parts) /\ i \in 0 .. Len(line.parts) - 1
  BY <1>1
<1>3. Part(line.parts, i) = line.parts[i + 1]
  BY <1>2 DEF Part
<1>4. ~ IsEmpty(line.parts[i + 1])
  BY <1>1, <1>2
<1> QED
  BY <1>3, <1>4 DEF IsEmpty

Counts ==
    /\ DOMAIN FieldCount
         = {"DBT", "DPT", "GGA", "GLL", "HDG", "HDM", "HDT", "KEP", "MTW", "MWV", "RMB",
            "RMC", "ROT", "RPM", "VDR", "VHW", "VPW", "VTG", "VWR", "ZDA"}
    /\ \A id \in DOMAIN FieldCount : FieldCount[id] \in Nat /\ FieldCount[id] >= 2
    /\ FieldCount["DBT"] = 6 /\ FieldCount["GGA"] = 14 /\ FieldCount["GLL"] = 6
    /\ FieldCount["RMB"] = 13 /\ FieldCount["RMC"] = 11 /\ FieldCount["RPM"] = 5
    /\ FieldCount["VTG"] = 9 /\ FieldCount["ZDA"] = 6

LEMMA CountsHold == Counts
BY DEF Counts, FieldCount

LEMMA NoThrow ==
    ASSUME NEW time, NEW date, IsNumeral(time), IsNumeral(date)
    PROVE  ~ TimestampThrows(time, date)
BY DEF TimestampThrows

\* The hooks that want no more than a few fields to be there.
LEMMA CompleteSimple ==
    ASSUME NEW line, NEW tags, line.parts \in Seq(Range(line.parts)), Complete(line),
           line.id \in {"DBT", "DPT", "HDG", "HDM", "HDT", "KEP", "MTW", "RPM", "VDR",
                        "VHW", "VPW", "VTG", "VWR"}
    PROVE  Hook(line, tags).type = "delta"
<1> USE DeltaType
<1>0. /\ line.id \in DOMAIN FieldCount /\ FieldCount[line.id] \in Nat
      /\ FieldCount[line.id] >= 2 /\ line.id # "ZDA"
  BY CountsHold DEF Counts
<1>1. /\ ~ IsEmpty(Part(line.parts, 0)) /\ Part(line.parts, 0) # Undefined
      /\ Part(line.parts, 0) # Empty
      /\ ~ IsEmpty(Part(line.parts, 1)) /\ Part(line.parts, 1) # Undefined
      /\ Part(line.parts, 1) # Empty
  <2>1. 0 < FieldCount[line.id] /\ 1 < FieldCount[line.id]
    BY <1>0
  <2> QED
    BY <1>0, <2>1, FieldsAreThere
<1>2. CASE line.id = "DBT"
  <2>1. ~ IsEmpty(Part(line.parts, 2))
    <3>1. 2 < FieldCount[line.id]
      BY <1>2, CountsHold DEF Counts
    <3> QED
      BY <1>0, <3>1, FieldsAreThere
  <2>2. Hook(line, tags) = DBT(line.parts, tags)
    BY <1>2 DEF Hook
  <2> QED
    BY <2>1, <2>2, Zenon DEF DBT
<1>3. CASE line.id = "DPT"
  <2>1. Hook(line, tags) = DPT(line.parts, tags)
    BY <1>3 DEF Hook
  <2> QED
    BY <1>1, <2>1, Zenon DEF DPT
<1>4. CASE line.id \in {"HDM", "HDT"}
  <2>1. HDM(line.parts, tags).type = "delta" /\ HDT(line.parts, tags).type = "delta"
    BY <1>1, Zenon DEF HDM, HDT
  <2> QED
    BY <1>4, <2>1 DEF Hook
<1>5. CASE line.id = "HDG"
  <2> DEFINE p == Pair("navigation.headingMagnetic",
                       Transform(Float(Part(line.parts, 0)), DEG))
             q == When(~ IsEmpty(Part(line.parts, 3)) /\ ~ IsEmpty(Part(line.parts, 4)),
                       Pair("navigation.magneticVariation",
                            Transform(Transform(Float(Part(line.parts, 3)), DEG),
                                      IF Part(line.parts, 4) = Str("E") THEN 1 ELSE -1)))
             values == When(~ IsEmpty(Part(line.parts, 0)), p) \o q
  <2>1. HDG(line.parts, tags)
          = IF values = <<>> THEN Null ELSE Delta(values, tags.timestamp)
    BY Zenon DEF HDG
  <2>2. values # <<>>
    <3>1. When(~ IsEmpty(Part(line.parts, 0)), p) = <<p>>
      BY <1>1, Zenon DEF When
    <3>2. \E S : q \in Seq(S)
      BY WhenRange
    <3> HIDE DEF p, q
    <3>3. Len(<<p>> \o q) = 1 + Len(q) /\ Len(q) \in Nat /\ Len(<<>>) = 0
      BY <3>2
    <3>4. <<p>> \o q # <<>>
      BY <3>3
    <3> QED
      BY <3>1, <3>4
  <2> HIDE DEF values
  <2> QED
    BY <1>5, <2>1, <2>2 DEF Hook
<1>6. CASE line.id = "KEP"
  <2>1. Part(line.parts, 0) \in {Num(1), Num(2), Num(3)}
    BY <1>6 DEF Complete
  <2>2. Num(1) # Num(2) /\ Num(1) # Num(3) /\ Num(2) # Num(3)
    <3>1. Num(1).n = 1 /\ Num(2).n = 2 /\ Num(3).n = 3
      BY NumParts
    <3> QED
      BY <3>1
  <2>3. KEP(line.parts, tags).type = "delta"
    BY <1>1, <2>1, <2>2 DEF KEP
  <2> QED
    BY <1>6, <2>3 DEF Hook
<1>7. CASE line.id \in {"MTW", "VDR", "VHW"}
  <2>1. /\ MTW(line.parts, tags).type = "delta" /\ VDR(line.parts, tags).type = "delta"
        /\ VHW(line.parts, tags).type = "delta"
    BY Zenon DEF MTW, VDR, VHW
  <2> QED
    BY <1>7, <2>1 DEF Hook
<1>8. CASE line.id = "RPM"
  <2>1. RPM(line.parts, tags).type = "delta"
    BY <1>1, Zenon DEF RPM
  <2> QED
    BY <1>8, <2>1 DEF Hook
<1>9. CASE line.id = "VTG"
  <2>1. VTG(line.parts, tags).type = "delta"
    BY <1>1 DEF VTG
  <2> QED
    BY <1>9, <2>1 DEF Hook
<1>10. CASE line.id = "VWR"
  <2>1. ~ (Empties(line.parts) > 3)
    <3>1. Empties(line.parts) \in 0 .. 2
      BY <1>0, FewEmpties
    <3> QED
      BY <3>1
  <2>2. VWR(line.parts, tags).type = "delta"
    BY <2>1, Zenon DEF VWR
  <2> QED
    BY <1>10, <2>2 DEF Hook
<1>11. CASE line.id = "VPW"
  <2>1. Truthy(Part(line.parts, 0))
    <3>1. IsNumeral(Part(line.parts, 0))
      BY <1>11 DEF Complete, NumberFields
    <3>2. /\ Undefined.s = "undefined" /\ Empty.s = "" /\ NaN.s = "NaN"
          /\ Number(0).s = "number"
      BY DEF Undefined, Empty, NaN, Number, Str
    <3> QED
      BY <3>1, <3>2 DEF Truthy, IsNumeral
  <2>2. VPW(line.parts, tags).type = "delta"
    BY <2>1, Zenon DEF VPW
  <2> QED
    BY <1>11, <2>2 DEF Hook
<1> QED
  BY <1>2, <1>3, <1>4, <1>5, <1>6, <1>7, <1>8, <1>9, <1>10, <1>11

LEMMA CoordinateIsThere ==
    ASSUME NEW value, NEW pole, IsNumeral(value)
    PROVE  Coordinate(value, pole) # NaN
<1>1. /\ Empty.s = "" /\ Blank.s = " " /\ NaN.s = "NaN"
      /\ \A i : Number(i).s = "number"
  BY DEF Empty, Blank, NaN, Str, Number
<1>2. Float(value) = Number(value.n)
  <2>1. value \notin {Empty, Blank}
    BY <1>1 DEF IsNumeral
  <2> QED
    BY <2>1 DEF Float
<1>3. \A unit : Transform(Number(value.n), unit) # NaN
  BY <1>1 DEF Transform
<1> QED
  BY <1>2, <1>3, Zenon DEF Coordinate

\* The hooks that give a position.
LEMMA CompletePosition ==
    ASSUME NEW line, NEW tags, line.parts \in Seq(Range(line.parts)), Complete(line),
           line.id \in {"GGA", "GLL", "RMC", "RMB"}
    PROVE  Hook(line, tags).type = "delta"
<1> USE DeltaType
<1> DEFINE parts == line.parts
<1>0. /\ line.id \in DOMAIN FieldCount /\ FieldCount[line.id] \in Nat
      /\ FieldCount[line.id] >= 6 /\ line.id # "ZDA"
  <2>1. /\ line.id \in DOMAIN FieldCount /\ FieldCount[line.id] \in Nat
        /\ FieldCount["GGA"] = 14 /\ FieldCount["GLL"] = 6
        /\ FieldCount["RMB"] = 13 /\ FieldCount["RMC"] = 11
    BY CountsHold DEF Counts
  <2> QED
    BY <2>1
<1>1. \A i \in 0 .. 5 : Part(parts, i) # Undefined /\ ~ IsEmpty(Part(parts, i))
  <2> TAKE i \in 0 .. 5
  <2>1. i \in Nat /\ i < FieldCount[line.id]
    BY <1>0
  <2> QED
    BY <1>0, <2>1, FieldsAreThere
<1>2. IsNumeral(Today(now))
  BY NumParts DEF Today
<1>3. CASE line.id = "GGA"
  <2>1. IsNumeral(Part(parts, 0)) /\ 0 \in 0 .. 5 /\ 1 \in 0 .. 5 /\ 2 \in 0 .. 5
        /\ 3 \in 0 .. 5 /\ 4 \in 0 .. 5
    BY <1>3 DEF Complete, NumberFields
  <2>2. ~ TimestampThrows(Part(parts, 0), Today(now))
    BY <1>2, <2>1, NoThrow
  <2>3. /\ ~ CoordinateThrows(Part(parts, 3), Part(parts, 4))
        /\ ~ CoordinateThrows(Part(parts, 1), Part(parts, 2))
    BY <1>1, <2>1 DEF CoordinateThrows
  <2>4. ~ (Empties(parts) > 3)
    <3>1. Empties(parts) \in 0 .. 2
      BY <1>0, FewEmpties
    <3> QED
      BY <3>1
  <2>5. GGA(parts, now).type = "delta"
    BY <1>1, <2>1, <2>2, <2>3, <2>4, Zenon DEF GGA
  <2> QED
    BY <1>3, <2>5 DEF Hook
<1>4. CASE line.id = "GLL"
  <2>1. IsNumeral(Part(parts, 4)) /\ 0 \in 0 .. 5 /\ 1 \in 0 .. 5 /\ 2 \in 0 .. 5
        /\ 3 \in 0 .. 5 /\ 4 \in 0 .. 5
    BY <1>4 DEF Complete, NumberFields
  <2>2. ~ TimestampThrows(Part(parts, 4), Today(now))
    BY <1>2, <2>1, NoThrow
  <2>3. /\ ~ CoordinateThrows(Part(parts, 2), Part(parts, 3))
        /\ ~ CoordinateThrows(Part(parts, 0), Part(parts, 1))
    BY <1>1, <2>1 DEF CoordinateThrows
  <2>4. Part(parts, 5) = Str("A")
    BY <1>4 DEF Complete, StatusField
  <2>5. Part(parts, 5) \notin {Str("v"), Str("V")}
    <3>1. Str("A").s = "A" /\ Str("v").s = "v" /\ Str("V").s = "V"
      BY DEF Str
    <3> QED
      BY <2>4, <3>1
  <2>6. ~ IsEmpty(Last(parts))
    <3>1. /\ \A i \in 1 .. Len(parts) : ~ IsEmpty(parts[i])
          /\ Len(parts) \in Nat /\ Len(parts) >= 6
      BY <1>4, <1>0 DEF Complete
    <3>2. Len(parts) \in 1 .. Len(parts)
      BY <3>1
    <3> QED
      BY <3>1, <3>2 DEF Last
  <2>7. GLLValid(parts)
    BY <2>5, <2>6 DEF GLLValid
  <2>8. GLL(parts, now).type = "delta"
    BY <1>1, <2>1, <2>2, <2>3, <2>7, Zenon DEF GLL
  <2> QED
    BY <1>4, <2>8 DEF Hook
<1>5. CASE line.id = "RMC"
  <2>1. /\ IsNumeral(Part(parts, 0)) /\ IsNumeral(Part(parts, 8))
        /\ 2 \in 0 .. 5 /\ 3 \in 0 .. 5 /\ 4 \in 0 .. 5 /\ 5 \in 0 .. 5
    BY <1>5 DEF Complete, NumberFields
  <2>2. ~ TimestampThrows(Part(parts, 0), Part(parts, 8))
    BY <2>1, NoThrow
  <2>3. /\ ~ CoordinateThrows(Part(parts, 2), Part(parts, 3))
        /\ ~ CoordinateThrows(Part(parts, 4), Part(parts, 5))
    BY <1>1, <2>1 DEF CoordinateThrows
  <2>4. Part(parts, 10) # Undefined
    <3>1. 10 \in Nat /\ 10 < FieldCount[line.id]
      BY <1>5, CountsHold DEF Counts
    <3> QED
      BY <1>0, <3>1, FieldsAreThere
  <2>5. RMC(parts, now).type = "delta"
    BY <2>2, <2>3, <2>4, Zenon DEF RMC
  <2> QED
    BY <1>5, <2>5 DEF Hook
<1>6. CASE line.id = "RMB"
  <2>1. IsNumeral(Part(parts, 5)) /\ IsNumeral(Part(parts, 7))
    BY <1>6 DEF Complete, NumberFields
  <2>2. \A i \in 5 .. 8 : Part(parts, i) # Undefined
    <3> TAKE i \in 5 .. 8
    <3>1. FieldCount[line.id] = 13
      BY <1>6, CountsHold, Zenon DEF Counts
    <3>2. i \in Nat /\ i < FieldCount[line.id]
      BY <3>1
    <3> QED
      BY <1>0, <3>2, FieldsAreThere
  <2>3. /\ ~ CoordinateThrows(Part(parts, 5), Part(parts, 6))
        /\ ~ CoordinateThrows(Part(parts, 7), Part(parts, 8))
    BY <2>2 DEF CoordinateThrows
  <2>4. NaN \notin {Coordinate(Part(parts, 5), Part(parts, 6)),
                    Coordinate(Part(parts, 7), Part(parts, 8))}
    BY <2>1, CoordinateIsThere
  <2>5. RMB(parts, tags).type = "delta"
    BY <2>3, <2>4, Zenon DEF RMB
  <2> QED
    BY <1>6, <2>5 DEF Hook
<1> QED
  BY <1>3, <1>4, <1>5, <1>6

\* The other ones that look at a status or a number.
LEMMA CompleteStatus ==
    ASSUME NEW line, NEW tags, line.parts \in Seq(Range(line.parts)), Complete(line),
           line.id \in {"MWV", "ROT"}
    PROVE  Hook(line, tags).type = "delta"
<1> USE DeltaType
<1>1. Upper(Str("A")) = Str("A")
  BY DEF Upper, Str, Capitals
<1>2. CASE line.id = "MWV"
  <2>1. Part(line.parts, 4) = Str("A")
    BY <1>2 DEF Complete, StatusField
  <2>2. MWV(line.parts, tags).type = "delta"
    BY <1>1, <2>1, Zenon DEF MWV
  <2> QED
    BY <1>2, <2>2 DEF Hook
<1>3. CASE line.id = "ROT"
  <2>1. Part(line.parts, 1) = Str("A")
    BY <1>3 DEF Complete, StatusField
  <2>2. ROT(line.parts, tags).type = "delta"
    BY <1>1, <2>1, Zenon DEF ROT
  <2> QED
    BY <1>3, <2>2 DEF Hook
<1> QED
  BY <1>2, <1>3

\* The losses that are known.
KnownLoss(line) ==
    \/ line.id \in {"APB", "DSC"}
    \/ line.id = "ZDA" /\ line.parts[1].n % MINUTE = 0
    \/ line.id \in {"VDM", "VDO"} /\ line.data.parts > 1

LEMMA CompleteHasDelta ==
    ASSUME NEW line, NEW tags, line.id \in HookIds,
           line.parts \in Seq(Range(line.parts)), Complete(line), ~ KnownLoss(line)
    PROVE  Hook(line, tags).type = "delta"
<1>1. CASE line.id = "ZDA"
  <2>1. /\ line.id \in DOMAIN FieldCount /\ FieldCount[line.id] \in Nat
        /\ 0 \in Nat /\ 0 < FieldCount[line.id]
    BY <1>1, CountsHold DEF Counts
  <2>2. Part(line.parts, 0) = line.parts[1]
    BY <2>1, FieldsAreThere
  <2>3. Empties(line.parts) \in 0 .. 2
    BY <2>1, FewEmpties
  <2>4. ~ (Empties(line.parts) > 3) /\ Empties(line.parts) # 3
    BY <2>3
  <2>5. \A i \in 0 .. 3 : IsNumeral(Part(line.parts, i))
    BY <1>1 DEF Complete, NumberFields
  <2>6. Part(line.parts, 0).n % MINUTE # 0
    BY <1>1, <2>2 DEF KnownLoss
  <2>7. ZDA(line.parts, tags).type = "delta"
    BY <2>4, <2>5, <2>6, DeltaType, Zenon DEF ZDA
  <2> QED
    BY <1>1, <2>7 DEF Hook
<1>2. CASE line.id \in {"VDM", "VDO"}
  <2>1. ~ (line.data.parts > 1) /\ line.data.valid /\ Truthy(line.data.mmsi)
    BY <1>2 DEF KnownLoss, Complete
  <2>2. VDMValues(line.data) # <<>>
    BY <2>1, ShipValues
  <2> DEFINE context == [prefix |-> ContextPrefix(line.data), mmsi |-> line.data.mmsi]
             values == VDMValues(line.data)
  <2>3. VDM(line.data, tags) = [Delta(values, tags.timestamp) EXCEPT !.context = context]
    BY <2>1, <2>2, Zenon DEF VDM
  <2>4. VDM(line.data, tags).type = "delta"
    <3> HIDE DEF values, context
    <3> QED
      BY <2>3 DEF Delta, Outcome
  <2> QED
    BY <1>2, <2>4 DEF Hook, VDO
<1>3. CASE line.id \in {"GGA", "GLL", "RMC", "RMB"}
  BY <1>3, CompletePosition
<1>4. CASE line.id \in {"MWV", "ROT"}
  BY <1>4, CompleteStatus
<1>5. CASE line.id \in HookIds \ {"APB", "DSC", "ZDA", "VDM", "VDO", "GGA", "GLL", "RMC",
                                  "RMB", "MWV", "ROT"}
  BY <1>5, CompleteSimple DEF HookIds
<1> QED
  BY <1>1, <1>2, <1>3, <1>4, <1>5 DEF KnownLoss
=============================================================================
