----------------------------- MODULE NmeaParser -----------------------------
(***************************************************************************)
(* The way of an NMEA 0183 line through the broker: an instrument writes   *)
(* it, it waits on the wire, and the interceptors of one session look at   *)
(* it in turn - GarbageInterceptor names its content type and              *)
(* NMEAMsgInterceptor has parser.js replace it by a Signal K delta.        *)
(*                                                                         *)
(* A line is [lead, block, id, talker, parts, data]: its first character,  *)
(* the tag block before it, the kind of sentence, the talker, the fields   *)
(* and, for AIS, what the decoder makes of them.  NmeaHooks and            *)
(* NmeaVessels model the hook of each kind; NashornEventLoop models how    *)
(* their promises are settled, which here happens before parse returns.    *)
(***************************************************************************)
EXTENDS NmeaVessels

CONSTANTS
    Supported,     \* the ids the server reads from supported.txt, in order
    Lines(_),      \* the lines an instrument may write at a time
    Start,         \* the clock when the server starts
    MaxTicks       \* bound on the clock

\* The files of hooks-es5, which supported.txt lists.
HookIds == {"APB", "DBT", "DPT", "DSC", "GGA", "GLL", "HDG", "HDM", "HDT", "KEP", "MTW",
            "MWV", "RMB", "RMC", "ROT", "RPM", "VDM", "VDO", "VDR", "VHW", "VPW", "VTG",
            "VWR", "ZDA"}

ASSUME ClockAssumption == Start \in Nat /\ MaxTicks \in Nat
ASSUME SupportedAssumption == Supported \in Seq(HookIds)

VARIABLES
    mappings,      \* ids of the hooks parser.js has loaded
    now,           \* the clock of the server
    wire,          \* the line an instrument has written and when, or NoLine
    message        \* what became of the line that was sent, or NoMessage

vars == <<mappings, now, wire, message>>

NoLine == [at |-> -1]
NoBlock == [c |-> Undefined, s |-> Undefined, last |-> FALSE]
NoMessage == [written |-> NoLine, contentType |-> "none", body |-> Undefined,
              accepted |-> TRUE, exception |-> FALSE]

-----------------------------------------------------------------------------
(***************************************************************************)
(* getTagBlock.js and transformSource.js.                                  *)
(***************************************************************************)
\* A number of seconds has at most twelve digits; LIMIT is the first number
\* with more, and a tick is a second.
LIMIT == 10000

\* Mutant of TagTimestamp: always taken for milliseconds.
TagTimestampInMilliseconds(c) ==
    IF IsNumeral(c) THEN Number(c.n \div 1000) ELSE Str("null")

\* moment makes null of a number that is NaN.
TagTimestamp(c) ==
    CASE ~ IsNumeral(c) -> Str("null")
      [] IsNumeral(c) /\ c.n < LIMIT -> Number(c.n)
      [] OTHER -> Number(c.n \div 1000)

\* The source that is last in its block keeps the checksum that follows it.
GetTags(line, clock) ==
    [timestamp |-> IF line.block.c = Undefined THEN Number(clock)
                   ELSE TagTimestamp(line.block.c),
     source |-> IF line.block.s = Undefined THEN <<"", "">>
                ELSE <<IF line.block.last THEN line.block.s.s \o "*00"
                       ELSE line.block.s.s, line.id>>]

\* Mutant of TransformSource: the halves are swapped.
TransformSourceSwapped(source, id, talker) ==
    [sentence |-> IF source[1] # "" THEN source[1] ELSE id,
     talker |-> IF source[2] # "" THEN source[2] ELSE talker]

\* The two halves of the tag's source, or the sentence and talker themselves.
TransformSource(source, id, talker) ==
    [sentence |-> IF source[2] # "" THEN source[2] ELSE id,
     talker |-> IF source[1] # "" THEN source[1]
                ELSE IF talker = "nmea0183" THEN "SK" ELSE talker]

-----------------------------------------------------------------------------
(***************************************************************************)
(* parser.js.                                                              *)
(***************************************************************************)
Hook(line, tags) ==
    CASE line.id = "APB" -> APB(line.parts)
      [] line.id = "DBT" -> DBT(line.parts, tags)
      [] line.id = "DPT" -> DPT(line.parts, tags)
      [] line.id = "DSC" -> DSC(line.parts, tags)
      [] line.id = "GGA" -> GGA(line.parts, now)
      [] line.id = "GLL" -> GLL(line.parts, now)
      [] line.id = "HDG" -> HDG(line.parts, tags)
      [] line.id = "HDM" -> HDM(line.parts, tags)
      [] line.id = "HDT" -> HDT(line.parts, tags)
      [] line.id = "KEP" -> KEP(line.parts, tags)
      [] line.id = "MTW" -> MTW(line.parts, tags)
      [] line.id = "MWV" -> MWV(line.parts, tags)
      [] line.id = "RMB" -> RMB(line.parts, tags)
      [] line.id = "RMC" -> RMC(line.parts, now)
      [] line.id = "ROT" -> ROT(line.parts, tags)
      [] line.id = "RPM" -> RPM(line.parts, tags)
      [] line.id = "VDM" -> VDM(line.data, tags)
      [] line.id = "VDO" -> VDO(line.data, tags)
      [] line.id = "VDR" -> VDR(line.parts, tags)
      [] line.id = "VHW" -> VHW(line.parts, tags)
      [] line.id = "VPW" -> VPW(line.parts, tags)
      [] line.id = "VTG" -> VTG(line.parts, tags)
      [] line.id = "VWR" -> VWR(line.parts, tags)
      [] line.id = "ZDA" -> ZDA(line.parts, tags)

\* The string parse returns: "delta" stands for the JSON of the delta, "error"
\* for a text that begins with Error; "thrown" is an exception.  A plain null
\* has no `then`.
Parse(line) ==
    LET tags == GetTags(line, now)
        outcome == Hook(line, tags)
    IN  IF line.id \notin mappings THEN [type |-> "error"]
        ELSE CASE outcome.type = "delta" ->
                    [type |-> "delta", values |-> outcome.values,
                     timestamp |-> outcome.timestamp, context |-> outcome.context,
                     source |-> TransformSource(tags.source, line.id, line.talker)]
               [] outcome.type \in {"null", "nodelta"} -> [type |-> outcome.type]
               [] outcome.type = "rejected" -> [type |-> "error"]
               [] outcome.type \in {"thrown", "notpromise"} -> [type |-> "thrown"]

-----------------------------------------------------------------------------
(***************************************************************************)
(* GarbageInterceptor and NMEAMsgInterceptor.                              *)
(***************************************************************************)
\* A line with a tag block begins with a backslash.
ContentType(line) ==
    CASE line.block = NoBlock /\ line.lead = "$" -> "0183"
      [] line.block = NoBlock /\ line.lead = "!"
         /\ line.talker = "AI" /\ line.id = "VDM" -> "AIS"
      [] OTHER -> "none"

\* Mutant of Converted: the content type is set before the result is looked at.
ConvertedTooEarly(line) ==
    LET result == Parse(line)
    IN  IF ContentType(line) # "0183" THEN [contentType |-> ContentType(line), body |-> line]
        ELSE [contentType |-> "JSON_DELTA",
              body |-> IF result.type = "delta"
                       THEN [result EXCEPT !.context = "vessels.self"] ELSE line]

\* Mutant of Converted: a content type that no route knows.
ConvertedToJson(line) ==
    [contentType |-> IF ContentType(line) = "0183" THEN "JSON" ELSE ContentType(line),
     body |-> line]

\* The context of the delta is overwritten by the server's own vessel.
Converted(line) ==
    LET result == Parse(line)
        unchanged == [contentType |-> ContentType(line), body |-> line]
    IN  IF ContentType(line) # "0183" THEN unchanged
        ELSE IF result.type # "delta" THEN unchanged
        ELSE [contentType |-> "JSON_DELTA",
              body |-> [result EXCEPT !.context = "vessels.self"]]

Intercept(written) ==
    LET line == written.line
        converted == Converted(line)
    IN  [written |-> written,
         contentType |-> converted.contentType,
         body |-> converted.body,
         accepted |-> ContentType(line) # "none",
         exception |-> ContentType(line) = "0183" /\ Parse(line).type = "thrown"]

-----------------------------------------------------------------------------
(***************************************************************************)
(* What an instrument writes, as far as the properties depend on it.  A    *)
(* damaged field may be anything.                                          *)
(***************************************************************************)
\* The talker has a name of its own, and a tag that names the source names it.
WellNamed(line) ==
    line.talker # "nmea0183" /\ (line.block.s # Undefined => line.block.s.s # "")

\* Where the comment of a hook has the status of the sentence.
StatusField == [GLL |-> 5, MWV |-> 4, RMB |-> 0, RMC |-> 1, ROT |-> 1, RPM |-> 4]

SaysItIsVoid(line) ==
    IF line.id \in {"VDM", "VDO"} THEN ~ line.data.valid
    ELSE /\ line.id \in DOMAIN StatusField
         /\ Part(line.parts, StatusField[line.id]) = Str("V")

\* How many fields a sentence has at least, and which of them have to be
\* numbers: the time, the coordinates and the speed of VPW.
FieldCount == [DBT |-> 6, DPT |-> 2, GGA |-> 14, GLL |-> 6, HDG |-> 5, HDM |-> 2,
               HDT |-> 2, KEP |-> 2, MTW |-> 2, MWV |-> 5, RMB |-> 13, RMC |-> 11,
               ROT |-> 2, RPM |-> 5, VDR |-> 6, VHW |-> 8, VPW |-> 4, VTG |-> 9,
               VWR |-> 8, ZDA |-> 6]
NumberFields == [GGA |-> {0, 1, 3}, GLL |-> {0, 2, 4}, RMB |-> {5, 7},
                 RMC |-> {0, 2, 4, 8}, VPW |-> {0, 2}, ZDA |-> 0 .. 3]

\* Only the time zone of ZDA is left empty; an AIS message names its ship.
Complete(line) ==
    /\ line.id \in DOMAIN FieldCount =>
           /\ Len(line.parts) >= FieldCount[line.id]
           /\ \A i \in 1 .. Len(line.parts) :
                  IsEmpty(line.parts[i]) => line.id = "ZDA" /\ i \in {5, 6}
    /\ line.id \in DOMAIN NumberFields =>
           \A i \in NumberFields[line.id] : IsNumeral(Part(line.parts, i))
    /\ line.id \in DOMAIN StatusField =>
           Part(line.parts, StatusField[line.id]) = Str("A")
    /\ line.id = "KEP" => Part(line.parts, 0) \in {Num(1), Num(2), Num(3)}
    /\ line.id \in {"VDM", "VDO"} => line.data.valid /\ Truthy(line.data.mmsi)

\* The fields of a time of day, and of the day where there is one.
ClockFields == [GGA |-> <<0>>, GLL |-> <<4>>, RMC |-> <<0, 8>>]

\* A line that gives the time gives that of its writing, be it in its fields
\* or, in seconds or milliseconds, in its tag block.
TellsTheTime(entry, t) ==
    LET line == entry.line
    IN  \A fact \in entry.facts : fact.path = "timestamp" =>
            /\ fact.value = Number(t)
            /\ (\E fields \in fact.from : fields \cap entry.damaged = {}) =>
                   IF line.id \in DOMAIN ClockFields
                   THEN /\ Part(line.parts, ClockFields[line.id][1]) = Num(t % DAY)
                        /\ line.id = "RMC" => Part(line.parts, 8) = Today(t)
                   ELSE \/ line.block.c = Num(t) /\ t < LIMIT
                        \/ line.block.c = Num(1000 * t) /\ 1000 * t >= LIMIT

ASSUME InstrumentAssumption ==
    \A t \in Start .. Start + MaxTicks : \A entry \in Lines(t) :
        /\ WellNamed(entry.line)
        /\ entry.line.parts \in Seq(Range(entry.line.parts))
        /\ \A i \in 0 .. Len(entry.line.parts) :
               LET field == Part(entry.line.parts, i)
               IN  IsNumeral(field) => field.n \in Int
        /\ entry.damaged = {} =>
               IF entry.void THEN SaysItIsVoid(entry.line) ELSE Complete(entry.line)
        /\ TellsTheTime(entry, t)

-----------------------------------------------------------------------------
Init ==
    /\ mappings = {}
    /\ now = Start
    /\ wire = NoLine
    /\ message = NoMessage

Loaded == Cardinality(mappings) = Len(Supported)

\* The constructor of NMEAMsgInterceptor loads the hooks one by one.
LoadHook ==
    /\ ~ Loaded
    /\ mappings' = mappings \cup {Supported[Cardinality(mappings) + 1]}
    /\ UNCHANGED <<now, wire, message>>

\* An instrument writes a line.
Write ==
    /\ Loaded
    /\ wire = NoLine /\ message = NoMessage
    /\ \E entry \in Lines(now) :
           wire' = [at |-> now, line |-> entry.line, facts |-> entry.facts,
                    void |-> entry.void, damaged |-> entry.damaged]
    /\ UNCHANGED <<mappings, now, message>>

\* A session sends the line to the broker.
Send ==
    /\ wire # NoLine
    /\ message' = Intercept(wire)
    /\ wire' = NoLine
    /\ UNCHANGED <<mappings, now>>

\* The parser is called without the broker, as NMEAParserTest does.
ParseDirectly ==
    /\ wire # NoLine
    /\ message' = [written |-> wire, contentType |-> "direct", body |-> Parse(wire.line),
                   accepted |-> TRUE, exception |-> Parse(wire.line).type = "thrown"]
    /\ wire' = NoLine
    /\ UNCHANGED <<mappings, now>>

\* What becomes of the message is the business of the routes.
Forward ==
    /\ message # NoMessage
    /\ message' = NoMessage
    /\ UNCHANGED <<mappings, now, wire>>

Tick ==
    /\ Loaded /\ message = NoMessage
    /\ now < Start + MaxTicks
    /\ now' = now + 1
    /\ UNCHANGED <<mappings, wire, message>>

Next == LoadHook \/ Write \/ Send \/ ParseDirectly \/ Forward \/ Tick

Spec == Init /\ [][Next]_vars

-----------------------------------------------------------------------------
(***************************************************************************)
(* A fact is what the instrument measured: a path, the value it has, and   *)
(* from which fields it can be read - a set of alternatives, each a set of *)
(* fields.  It is undisturbed as long as one of them is undamaged.         *)
(***************************************************************************)
Undisturbed(fact) == \E fields \in fact.from : fields \cap message.written.damaged = {}

HasDelta ==
    \/ message.contentType = "JSON_DELTA"
    \/ message.contentType = "direct" /\ message.body.type = "delta"

Published ==
    IF HasDelta THEN {message.body.values[i] : i \in 1 .. Len(message.body.values)} ELSE {}

FactsOf(path) == {fact \in message.written.facts : fact.path = path}

TypeOK ==
    /\ mappings \subseteq {Supported[i] : i \in 1 .. Len(Supported)}
    /\ now \in Start .. Start + MaxTicks
    /\ wire.at \in {-1} \cup (Start .. now)
    /\ message.written.at \in {-1} \cup (Start .. now)
    /\ message.contentType \in {"none", "0183", "AIS", "JSON_DELTA", "direct"}
    /\ message.accepted \in BOOLEAN /\ message.exception \in BOOLEAN

\* Each published value is one the instrument measured, unless a field it is
\* read from was damaged: two hooks never disagree on a sign, a hemisphere, a
\* unit or an angle, a speed given twice survives the loss of one of the two,
\* and damage to one field never alters a value read from others.  The
\* geoidal separation, which GGA reads from the field of its unit, is never a
\* number, and is published as null when RemoveUnusable leaves it.
PublishedIsTrue ==
    \A pair \in Published :
        (\A fact \in FactsOf(pair.path) : Undisturbed(fact)) =>
            \/ \E fact \in FactsOf(pair.path) : fact.value = pair.value
            \/ pair = Pair("navigation.gnss.geoidalSeparation", NaN)

\* When a delta comes of a sentence, every value that is told by undamaged
\* fields is in it.  GGA keeps its other values as long as it has only one
\* that cannot be published; it always has one, the geoidal separation, which
\* it reads from the field of its unit.
NothingElseIsLost ==
    LET line == message.written.line
    IN  HasDelta
            /\ (line.id = "GGA" => Cardinality(ToRemove(GGAValues(line.parts))) <= 1) =>
        \A fact \in message.written.facts :
            Undisturbed(fact) /\ fact.value # Undefined
                /\ fact.path \notin {"timestamp", "navigation.gnss.geoidalSeparation"} =>
            Pair(fact.path, fact.value) \in Published

\* "10. Geoidal separation" (GGA.js) and the other fields that the comments of
\* the hooks describe: an undamaged line is published with all its values.
EveryFactIsPublished ==
    HasDelta /\ message.written.damaged = {} =>
        \A fact \in message.written.facts :
            fact.value # Undefined /\ fact.path # "timestamp" =>
                Pair(fact.path, fact.value) \in Published

\* A time of day becomes the time it was measured at.  Only GGA and GLL, which
\* take the date from the server's clock, may be a day late, and only when the
\* line crossed midnight on its way, as long as that takes less than a day.
DatedToTheDay ==
    HasDelta /\ now < message.written.at + DAY =>
        \A fact \in FactsOf("timestamp") :
            Undisturbed(fact) =>
                \/ message.body.timestamp = fact.value
                \/ /\ message.written.line.id \in {"GGA", "GLL"}
                   /\ Today(now) # Today(message.written.at)
                   /\ message.body.timestamp = Plus(fact.value, Number(DAY))

AddUp(pairs) ==
    LET depths(path) == {pair.value : pair \in {p \in pairs : p.path = path}}
    IN  \A below \in depths("environment.depth.belowTransducer") :
            /\ depths("environment.depth.belowSurface")
                 = {Plus(below, offset) :
                       offset \in depths("environment.depth.surfaceToTransducer")}
            /\ depths("environment.depth.belowKeel")
                 = {Plus(below, Transform(offset, -1)) :
                       offset \in depths("environment.depth.transducerToKeel")}

\* Depths that are published together add up, whatever was damaged.
DepthsAddUp == AddUp(Published)

\* A source is named by the sentence and the talker, or by the tag in the
\* place of the talker.
SourceIsNamed ==
    HasDelta =>
        LET line == message.written.line
        IN  /\ message.body.source.sentence = line.id
            /\ line.block.s = Undefined => message.body.source.talker = line.talker
            /\ line.block.s # Undefined /\ ~ line.block.last =>
                   message.body.source.talker = line.block.s.s

\* What follows reads a message by its content type: a line is called a delta
\* when it has become one, and a failure leaves it the line it was.
MessageIsConsistent ==
    message.written # NoLine /\ message.contentType # "direct" =>
        \/ message.contentType = "JSON_DELTA" /\ message.accepted /\ ~ message.exception
           /\ message.body.type = "delta" /\ message.body.context = "vessels.self"
        \/ message.contentType # "JSON_DELTA" /\ message.body = message.written.line

\* A well-formed line is lost only for one of the known reasons: the hook of
\* APB never resolves, that of DSC never gets past its debug line, ZDA fails in
\* the first second of a minute, an AIS message of several parts has no
\* session to be put together in, and the broker passes neither AIS nor lines
\* with a tag block to the parser.
OnlyKnownLosses ==
    LET line == message.written.line
    IN  message.written # NoLine /\ message.written.damaged = {}
            /\ ~ message.written.void /\ ~ HasDelta =>
        \/ line.id \notin mappings
        \/ message.contentType \in {"AIS", "none"}
        \/ line.id \in {"APB", "DSC"}
        \/ line.id = "ZDA" /\ line.parts[1].n % MINUTE = 0
        \/ line.id \in {"VDM", "VDO"} /\ line.data.parts > 1

\* A line that says of itself that it is void is held back, except for RMC,
\* RMB and RPM, whose hooks do not look.
VoidIsHeldBack ==
    HasDelta /\ message.written.void /\ message.written.damaged = {} =>
        message.written.line.id \in {"RMC", "RMB", "RPM"}
==============================================================================
