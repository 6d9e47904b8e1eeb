---------------------------- MODULE MCNmeaParser ----------------------------
(***************************************************************************)
(* Instruments for NmeaParser: lines of every supported kind, encoded from *)
(* measured values as the comments at the head of the hooks describe the   *)
(* fields, and the same lines with a field lost, blank or unreadable or    *)
(* with the end cut off.                                                   *)
(***************************************************************************)
EXTENDS NmeaSentences

MCSupported == <<"APB", "DBT", "DPT", "DSC", "GGA", "GLL", "HDG", "HDM", "HDT",
                 "KEP", "MTW", "MWV", "RMB", "RMC", "ROT", "RPM", "VDM", "VDO",
                 "VDR", "VHW", "VPW", "VTG", "VWR", "ZDA">>

Abs(i) == IF i < 0 THEN -i ELSE i
Letter(condition, yes, no) == Str(IF condition THEN yes ELSE no)
Fact(path, value, from) == [path |-> path, value |-> value, from |-> {from}]
Speed(n, unit) == Number(n * unit)

NoData == [parts |-> 0]
Line(id, parts) == [lead |-> "$", block |-> NoBlock, id |-> id, talker |-> "II",
                    parts |-> parts, data |-> NoData]
Entry(line, facts) == [line |-> line, facts |-> facts, void |-> FALSE, damaged |-> {}]
Voidable(line, facts, void) == [Entry(line, facts) EXCEPT !.void = void]

Latitudes == {-2, 1}
Longitudes == {-3, 4}
Fix(lat, lon) == Position(Number(lat), Number(lon))
FixFields(lat, lon) ==
    <<Num(Abs(lat)), Letter(lat < 0, "S", "N"), Num(Abs(lon)), Letter(lon < 0, "W", "E")>>
TimeOf(t) == Num(t % DAY)

GGALines(t) ==
    {Entry(Line("GGA", <<TimeOf(t)>> \o FixFields(lat, lon)
                       \o <<Num(quality), Num(7), Num(2), Num(10), Str("M"), Num(45),
                            Str("M"), Num(30), Num(120)>>),
           {Fact("timestamp", Number(t), {0}),
            Fact("navigation.position", Fix(lat, lon), 1 .. 4),
            Fact("navigation.gnss.methodQuality", Str(Quality[quality + 1]), {5}),
            Fact("navigation.gnss.satellites", Number(7), {6}),
            Fact("navigation.gnss.horizontalDilution", Number(2), {7}),
            Fact("navigation.gnss.antennaAltitude", Number(10), {8}),
            Fact("navigation.gnss.geoidalSeparation", Number(45), {10, 11}),
            Fact("navigation.gnss.differentialAge", Number(30), {12}),
            Fact("navigation.gnss.differentialReference", Number(120), {13})}) :
        lat \in {-2}, lon \in Longitudes, quality \in {1}}

GLLLines(t) ==
    {Voidable(Line("GLL", FixFields(lat, lon)
                          \o <<TimeOf(t), Letter(void, "V", "A"), Str("A")>>),
              {Fact("timestamp", Number(t), {4}),
               Fact("navigation.position", Fix(lat, lon), 0 .. 3)}, void) :
        lat \in Latitudes, lon \in {4}, void \in BOOLEAN}

RMCLines(t) ==
    {Voidable(Line("RMC", <<TimeOf(t), Letter(void, "V", "A")>> \o FixFields(lat, lon)
                          \o <<Num(5), Num(84), Today(t), Num(Abs(east)),
                               Letter(east < 0, "W", "E")>>),
              {Fact("timestamp", Number(t), {0, 8}),
               Fact("navigation.position", Fix(lat, lon), 2 .. 5),
               Fact("navigation.speedOverGround", Speed(5, KNOTS), {6}),
               Fact("navigation.courseOverGroundTrue", Number(84), {7}),
               Fact("navigation.magneticVariation", Number(east), {9, 10}),
               Fact("navigation.magneticVariationAgeOfService", Number(t), {0, 8}),
               Fact("navigation.datetime", Number(t), {0, 8})}, void) :
        lat \in {1}, lon \in Longitudes, east \in {-6, 6}, void \in BOOLEAN}

RMBLines ==
    {Voidable(Line("RMB", <<Letter(void, "V", "A"), Num(1), Letter(xte > 0, "R", "L"),
                            Num(3), Num(4)>> \o FixFields(lat, lon)
                          \o <<Num(8), Num(52), Num(5), Str("V")>>),
              {Fact("navigation.courseRhumbline.nextPoint", Fix(lat, lon), 5 .. 8),
               Fact("navigation.courseRhumbline.nextPoint.bearingTrue", Number(52), {10}),
               Fact("navigation.courseRhumbline.nextPoint.velocityMadeGood",
                    Speed(5, KNOTS), {11}),
               Fact("navigation.courseRhumbline.nextPoint.distance", Number(8 * NM), {9}),
               Fact("navigation.courseRhumbline.crossTrackError", Number(xte * NM), {1, 2})},
              void) :
        lat \in Latitudes, lon \in {-3}, xte \in {-1, 1}, void \in BOOLEAN}

ZDALines(t) ==
    {Entry(Line("ZDA", <<TimeOf(t), Today(t), Num(11), Num(2018), Empty, Empty>>),
           {Fact("navigation.datetime", Number(t), 0 .. 3)})}

\* 250 knots are 463 kilometres per hour, and 900 knots 463 metres per second.
TwoSpeeds == {<<0, 0>>, <<250, 463>>}

SpeedFact(path, knots, kilometres, speeds) ==
    [path |-> path, value |-> Speed(speeds[1], KNOTS), from |-> {knots, kilometres}]

VTGLines ==
    {Entry(Line("VTG", <<Num(344), Str("T"), Num(350), Str("M"), Num(speeds[1]), Str("N"),
                         Num(speeds[2]), Str("K"), Str("A")>>),
           {Fact("navigation.courseOverGroundTrue", Number(344), {0}),
            Fact("navigation.courseOverGroundMagnetic", Number(350), {2}),
            SpeedFact("navigation.speedOverGround", {4, 5}, {6, 7}, speeds)}) :
        speeds \in TwoSpeeds}

KEPLines ==
    {Entry(Line("KEP", <<Num(1), Num(speeds[1]), Str("N"), Num(speeds[2]), Str("K")>>),
           {SpeedFact("performance.targetSpeed", {0, 1, 2}, {0, 3, 4}, speeds)}) :
        speeds \in TwoSpeeds}
    \cup {Entry(Line("KEP", <<Num(2), Num(344)>>),
                {Fact("performance.tackMagnetic", Number(344), {0, 1})}),
          Entry(Line("KEP", <<Num(3), Num(152), Num(55), Num(67)>>),
                {Fact("performance.targetAngle", Number(152), {0, 1})})}

DPTLines ==
    {Entry(Line("DPT", <<Num(5), Num(offset)>>),
           {Fact("environment.depth.belowTransducer", Number(5), {0})}
           \cup (IF offset > 0
                 THEN {Fact("environment.depth.surfaceToTransducer", Number(offset), {1}),
                       Fact("environment.depth.belowSurface", Number(5 + offset), {0, 1})}
                 ELSE {})
           \cup (IF offset < 0
                 THEN {Fact("environment.depth.transducerToKeel", Number(-offset), {1}),
                       Fact("environment.depth.belowKeel", Number(5 + offset), {0, 1})}
                 ELSE {})) :
        offset \in {-2, 0, 3}}

\* Bearings of the wind off the bow, to starboard when positive.
WindAngles == {-160, 0, 90, 180}
Units == [K |-> KPH, N |-> KNOTS, M |-> MS]

\* With an unreadable reference the hook takes the apparent wind for the true.
MWVLines ==
    {LET kind == IF apparent THEN "Apparent" ELSE "True"
     IN  Voidable(Line("MWV", <<Num(angle % 360), Letter(apparent, "R", "T"), Num(7),
                                Str(unit), Letter(void, "V", "A")>>),
                  {Fact(IF apparent THEN "environment.wind.speedApparent"
                        ELSE "environment.wind.speedTrue", Speed(7, Units[unit]), 1 .. 3),
                   Fact(IF apparent THEN "environment.wind.angleApparent"
                        ELSE "environment.wind.angleTrueWater", Number(angle), {0, 1})}
                  \cup (IF apparent
                        THEN {Fact("environment.wind.speedTrue", Undefined, {1}),
                              Fact("environment.wind.angleTrueWater", Undefined, {1})}
                        ELSE {}),
                  void) :
        angle \in WindAngles, apparent \in BOOLEAN, unit \in DOMAIN Units, void \in BOOLEAN}

VWRLines ==
    {Entry(Line("VWR", <<Num(Abs(angle)), Letter(angle < 0, "L", "R"), Num(7), Str("N"),
                         Num(3), Str("M"), Num(13), Str("K")>>),
           {Fact("environment.wind.angleApparent", Number(angle), {0, 1}),
            Fact("environment.wind.speedApparent", Speed(7, KNOTS), {2})}) :
        angle \in WindAngles}

HeadingLines ==
    {Entry(Line("HDG", <<Num(98), Num(1), Str("E"), Num(Abs(east)),
                         Letter(east < 0, "W", "E")>>),
           {Fact("navigation.headingMagnetic", Number(98), {0}),
            Fact("navigation.magneticVariation", Number(east), {3, 4})}) : east \in {-6, 6}}
    \cup {Entry(Line("HDM", <<Num(98), Str("M")>>),
                {Fact("navigation.headingMagnetic", Number(98), {0})}),
          Entry(Line("HDT", <<Num(104), Str("T")>>),
                {Fact("navigation.headingTrue", Number(104), {0})}),
          Entry(Line("VHW", <<Num(104), Str("T"), Num(98), Str("M"), Num(6), Str("N"),
                              Num(11), Str("K")>>),
                {Fact("navigation.headingTrue", Number(104), {0}),
                 Fact("navigation.headingMagnetic", Number(98), {2}),
                 Fact("navigation.speedThroughWater", Speed(6, KNOTS), {4})})}

\* With an unreadable source the hook takes a shaft for an engine.
OtherLines ==
    {Voidable(Line("RPM", <<Letter(shaft, "S", "E"), Num(2), Num(2418), Num(10),
                            Letter(void, "V", "A")>>),
              {Fact(IF shaft THEN "propulsion.shaft" ELSE "propulsion.engine",
                    [s |-> "revolutions", number |-> Num(2), rate |-> Number(2418)],
                    0 .. 2)}
              \cup (IF shaft THEN {Fact("propulsion.engine", Undefined, {0})} ELSE {}),
              void) :
        shaft \in BOOLEAN, void \in BOOLEAN}
    \cup {Voidable(Line("ROT", <<Num(-12), Letter(void, "V", "A")>>),
                   {Fact("navigation.rateOfTurn", Number(-12), {0})}, void) :
             void \in BOOLEAN}
    \cup {Entry(Line("DBT", <<Num(17), Str("f"), Num(5), Str("M"), Num(2), Str("F")>>),
                {Fact("environment.depth.belowTransducer", Number(5), {2})}),
          Entry(Line("MTW", <<Num(15), Str("C")>>),
                {Fact("environment.water.temperature", Number(15 + CELSIUS), {0})}),
          Entry(Line("VDR", <<Num(40), Str("T"), Num(34), Str("M"), Num(2), Str("N")>>),
                {Fact("environment.current",
                      [s |-> "current", setTrue |-> Number(40), setMagnetic |-> Number(34),
                       drift |-> Speed(2, KNOTS)], {0, 2, 4})}),
          Entry(Line("VPW", <<Num(-900), Str("N"), Num(-463), Str("M")>>),
                {Fact("performance.velocityMadeGood", Speed(-463, MS), {2})}),
          Entry(Line("APB", <<Str("A"), Str("A"), Num(1), Str("R"), Str("N"), Str("V"),
                              Str("V"), Num(11), Str("M"), Str("DEST"), Num(11), Str("M"),
                              Num(11), Str("M")>>), {}),
          Entry(Line("DSC", <<Num(12), Num(338), Num(12), Num(6), Num(0),
                              DscField(1, 42, 83), Num(2019), Empty, Empty, Str("S"),
                              Str("E")>>),
                {Fact("navigation.position", Fix(42, -83), {5}),
                 Fact("notifications", Str("adrift"), {3})}),
          Entry(Line("XDR", <<Str("P"), Num(1)>>), {})}

-----------------------------------------------------------------------------
(***************************************************************************)
(* AIS: a position report, a report of another aid to navigation and a     *)
(* voyage report, which takes two parts.                                   *)
(***************************************************************************)
Unknown == [parts |-> 1, valid |-> TRUE, aistype |-> Number(1), mmsi |-> Number(244),
            shipname |-> Undefined, sog |-> Undefined, cog |-> Undefined,
            hdg |-> Undefined, lat |-> Undefined, lon |-> Undefined,
            length |-> Undefined, width |-> Undefined, draught |-> Undefined,
            dimA |-> Undefined, dimD |-> Undefined, navstatus |-> Undefined,
            destination |-> Undefined, callsign |-> Undefined, aidtype |-> Undefined,
            cargo |-> Undefined]

AisLine(id, data) ==
    [lead |-> "!", block |-> NoBlock, id |-> id, talker |-> "AI", parts |-> <<>>,
     data |-> data]
AisEntry(data, facts, id) ==
    Entry(AisLine(id, data),
          facts \cup {Fact("", [s |-> "mmsi", of |-> Number(244)], {})})

\* dimC and dimD: metres from the transmitter to port and to starboard.
AisLines ==
    {AisEntry([Unknown EXCEPT !.sog = Number(speed), !.cog = Number(0), !.hdg = Number(7),
                              !.lat = Number(lat), !.lon = Number(lon),
                              !.navstatus = Number(5)],
              {Fact("navigation.speedOverGround", Speed(speed, KNOTS), {}),
               Fact("navigation.courseOverGroundTrue", Number(0), {}),
               Fact("navigation.headingTrue", Number(7), {}),
               Fact("navigation.position", Fix(lat, lon), {}),
               Fact("navigation.state", Str("moored"), {})}, id) :
        speed \in {0, 12}, lat \in Latitudes, lon \in Longitudes, id \in {"VDM", "VDO"}}
    \cup {AisEntry([Unknown EXCEPT !.aistype = Number(19), !.width = Number(dimC + dimD),
                                   !.dimD = Number(dimD), !.cargo = Number(70)],
                   {Fact("design.beam", Number(dimC + dimD), {}),
                    Fact("sensors.ais.fromCenter", [s |-> "halves", n |-> dimC - dimD], {}),
                    Fact("design.aisShipType", Number(70), {})}, "VDM") :
             dimC \in 0 .. 3, dimD \in 1 .. 3}
    \cup {AisEntry([Unknown EXCEPT !.aistype = Number(21), !.aidtype = Number(3)],
                   {Fact("atonType", Number(3), {})}, "VDM"),
          AisEntry([Unknown EXCEPT !.parts = 2], {}, "VDM"),
          [AisEntry([Unknown EXCEPT !.valid = FALSE], {}, "VDM") EXCEPT !.void = TRUE]}

\* A line with a tag block; seconds and milliseconds both occur.
TaggedLines(t) ==
    {[Entry([Line("HDT", <<Num(104), Str("T")>>) EXCEPT !.block = block],
            {Fact("navigation.headingTrue", Number(104), {0})}
            \cup (IF IsNumeral(block.c) THEN {Fact("timestamp", Number(t), {})} ELSE {}))
      EXCEPT !.line.talker = talker] :
        block \in [c : {Undefined, Num(t), Num(1000 * t), Str("?")},
                   s : {Undefined, Str("mast")}, last : BOOLEAN],
        talker \in {"II"}}

-----------------------------------------------------------------------------
Damage(entry, fields, form) ==
    [entry EXCEPT !.damaged = fields,
                  !.line.parts = [i \in DOMAIN @ |-> IF i - 1 \in fields THEN form ELSE @[i]]]

CutOff(entry, length) ==
    [entry EXCEPT !.damaged = length .. Len(entry.line.parts) - 1,
                  !.line.parts = SubSeq(@, 1, length)]

Indices(entry) == 0 .. Len(entry.line.parts) - 1

\* One damaged field, or two where several fields back each other up.
Damages(entry) ==
    {{i} : i \in Indices(entry)}
    \cup (IF entry.line.id \in {"GGA", "VTG", "KEP", "DPT", "HDG"}
          THEN {{i, j} : i, j \in Indices(entry)} ELSE {})

Damaged(entries) ==
    entries
    \cup UNION {{Damage(entry, fields, form) : fields \in Damages(entry),
                                               form \in {Empty, Blank, Str("?")}}
                : entry \in entries}
    \cup UNION {{CutOff(entry, length) : length \in 0 .. Len(entry.line.parts) - 1}
                : entry \in entries}

MCLines(t) ==
    Damaged(GGALines(t) \cup GLLLines(t) \cup RMCLines(t) \cup ZDALines(t)
            \cup RMBLines \cup VTGLines \cup KEPLines \cup DPTLines \cup MWVLines
            \cup VWRLines \cup HeadingLines \cup OtherLines)
    \cup AisLines \cup TaggedLines(t)

\* A minute before midnight, a month and some days after the epoch.
MCStart == 40 * DAY - 2
==============================================================================
