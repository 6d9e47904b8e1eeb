--------------------------- MODULE NmeaSentences ---------------------------
(***************************************************************************)
(* How an instrument writes what it has measured: what the fields of each  *)
(* kind of sentence mean, as the comments at the head of the hooks list    *)
(* them.  Nothing here says what a hook does with the fields; NmeaParser's *)
(* properties PublishedIsTrue and NothingElseIsLost compare the two.       *)
(*                                                                         *)
(* An entry has the facts that were measured.  Each is told by some fields *)
(* of the line, or by either of two groups of them; it is intact as long   *)
(* as such a group is undamaged.                                           *)
(***************************************************************************)
EXTENDS NmeaParser

FactsAt(entry, path) == {fact \in entry.facts : fact.path = path}

Intact(entry, fact) == \E fields \in fact.from : fields \cap entry.damaged = {}

\* The entry has facts with this path, told by these groups of fields; what
\* these say when they are undamaged.
Told(entry, path, groups, readable, value) ==
    /\ FactsAt(entry, path) # {}
    /\ \A fact \in FactsAt(entry, path) :
           /\ fact.from = groups
           /\ Intact(entry, fact) => readable /\ fact.value = value

\* Nothing but these was measured, and the time.
Only(entry, paths) == \A fact \in entry.facts : fact.path \in paths \cup {"timestamp"}

Field(entry, i) == Part(entry.line.parts, i)

\* A field that has this value by itself, whatever was measured.
Marked(entry, i, field) == i \in entry.damaged \/ Field(entry, i) = field

\* Letters that have a meaning in one field or other.
Letters == {"A", "E", "K", "L", "M", "N", "R", "S", "T", "V", "W",
            "a", "e", "k", "l", "m", "n", "r", "s", "t", "v", "w"}

\* Damage can be seen: it never makes a number or such a letter.
Unreadable(field) ==
    field = Str(field.s) /\ field.s \notin Letters \cup {"digits", "dsc", "number"}

-----------------------------------------------------------------------------
(***************************************************************************)
(* Numbers, signs and positions.                                           *)
(***************************************************************************)
Counted(entry, path, i, unit) ==
    Told(entry, path, {{i}}, IsNumeral(Field(entry, i)), Number(unit * Field(entry, i).n))

Amount(entry, path, i, unit) ==
    Told(entry, path, {{i}}, IsNumeral(Field(entry, i)) /\ Field(entry, i).n >= 0,
         Number(unit * Field(entry, i).n))

\* A number and, in the next field, one of two letters in the place of a sign.
HasSign(entry, i, plus, minus) ==
    IsNumeral(Field(entry, i)) /\ Field(entry, i + 1) \in {Str(plus), Str(minus)}

Signed(entry, i, minus) ==
    IF Field(entry, i + 1) = Str(minus) THEN - Field(entry, i).n ELSE Field(entry, i).n

SignedCount(entry, path, i, plus, minus, unit) ==
    Told(entry, path, {{i, i + 1}}, HasSign(entry, i, plus, minus),
         Number(unit * Signed(entry, i, minus)))

\* The latitude in two fields and the longitude in the next two.
Fixed(entry, path, i) ==
    Told(entry, path, {i .. i + 3},
         HasSign(entry, i, "N", "S") /\ HasSign(entry, i + 2, "E", "W"),
         Position(Number(Signed(entry, i, "S")), Number(Signed(entry, i + 2, "W"))))

\* One speed in knots and, two fields on, in kilometres per hour.
TwiceTold(entry, path, i, fields) ==
    /\ FactsAt(entry, path) # {}
    /\ \A fact \in FactsAt(entry, path) :
           LET Says(k, unit) == k \notin entry.damaged =>
                   /\ IsNumeral(Field(entry, k)) /\ Field(entry, k).n >= 0
                   /\ fact.value = Number(unit * Field(entry, k).n)
           IN  /\ fact.from = {fields \cup {i, i + 1}, fields \cup {i + 2, i + 3}}
               /\ Says(i, KNOTS) /\ Says(i + 2, KPH)
    /\ Marked(entry, i + 1, Str("N")) /\ Marked(entry, i + 3, Str("K"))

\* The angle off the bow, to starboard when positive, of a bearing from it.
OffBow(bearing) == IF bearing > 180 THEN bearing - 360 ELSE bearing

UnitOf(letter) ==
    CASE letter = Str("K") -> KPH [] letter = Str("N") -> KNOTS [] letter = Str("M") -> MS

-----------------------------------------------------------------------------
(***************************************************************************)
(* The sentences, written at tick t.                                       *)
(***************************************************************************)
Positions(entry, t) ==
    LET id == entry.line.id
        Dated(path) ==
            Told(entry, path, {{0, 8}},
                 Field(entry, 0) = Num(t % DAY) /\ Field(entry, 8) = Today(t), Number(t))
        quality == Field(entry, 5)
    IN  /\ id = "GGA" =>
               /\ Only(entry, {"navigation.position", "navigation.gnss.methodQuality",
                               "navigation.gnss.satellites",
                               "navigation.gnss.horizontalDilution",
                               "navigation.gnss.antennaAltitude",
                               "navigation.gnss.geoidalSeparation",
                               "navigation.gnss.differentialAge",
                               "navigation.gnss.differentialReference"})
               /\ Fixed(entry, "navigation.position", 1)
               /\ Told(entry, "navigation.gnss.methodQuality", {{5}},
                       IsNumeral(quality) /\ quality.n \in 0 .. 9,
                       Str(Quality[quality.n + 1]))
               /\ Counted(entry, "navigation.gnss.satellites", 6, 1)
               /\ Counted(entry, "navigation.gnss.horizontalDilution", 7, 1)
               /\ Counted(entry, "navigation.gnss.antennaAltitude", 8, 1)
               /\ Told(entry, "navigation.gnss.geoidalSeparation", {{10, 11}},
                       Field(entry, 11) = Str("M"), Number(Field(entry, 10).n))
               /\ Counted(entry, "navigation.gnss.differentialAge", 12, 1)
               /\ Counted(entry, "navigation.gnss.differentialReference", 13, 1)
        /\ id = "GLL" =>
               /\ Only(entry, {"navigation.position"})
               /\ Fixed(entry, "navigation.position", 0)
        /\ id = "RMC" =>
               /\ Only(entry, {"navigation.position", "navigation.speedOverGround",
                               "navigation.courseOverGroundTrue",
                               "navigation.magneticVariation",
                               "navigation.magneticVariationAgeOfService",
                               "navigation.datetime"})
               /\ Fixed(entry, "navigation.position", 2)
               /\ Amount(entry, "navigation.speedOverGround", 6, KNOTS)
               /\ Counted(entry, "navigation.courseOverGroundTrue", 7, DEG)
               /\ SignedCount(entry, "navigation.magneticVariation", 9, "E", "W", DEG)
               /\ Dated("navigation.magneticVariationAgeOfService")
               /\ Dated("navigation.datetime")
        /\ id = "ZDA" =>
               /\ Only(entry, {"navigation.datetime"})
               /\ Told(entry, "navigation.datetime", {0 .. 3},
                       Field(entry, 0) = Num(t % DAY) /\ Field(entry, 1) = Today(t),
                       Number(t))
        /\ id = "RMB" =>
               /\ Only(entry, {"navigation.courseRhumbline.nextPoint",
                               "navigation.courseRhumbline.nextPoint.bearingTrue",
                               "navigation.courseRhumbline.nextPoint.velocityMadeGood",
                               "navigation.courseRhumbline.nextPoint.distance",
                               "navigation.courseRhumbline.crossTrackError"})
               /\ Fixed(entry, "navigation.courseRhumbline.nextPoint", 5)
               /\ Counted(entry, "navigation.courseRhumbline.nextPoint.bearingTrue", 10, DEG)
               /\ Amount(entry, "navigation.courseRhumbline.nextPoint.velocityMadeGood",
                         11, KNOTS)
               /\ Counted(entry, "navigation.courseRhumbline.nextPoint.distance", 9, NM)
               /\ SignedCount(entry, "navigation.courseRhumbline.crossTrackError", 1,
                              "R", "L", NM)

Courses(entry) ==
    LET id == entry.line.id
    IN  /\ id = "VTG" =>
               /\ Only(entry, {"navigation.courseOverGroundTrue",
                               "navigation.courseOverGroundMagnetic",
                               "navigation.speedOverGround"})
               /\ Counted(entry, "navigation.courseOverGroundTrue", 0, DEG)
               /\ Counted(entry, "navigation.courseOverGroundMagnetic", 2, DEG)
               /\ TwiceTold(entry, "navigation.speedOverGround", 4, {})
        /\ id = "KEP" =>
               \/ /\ Marked(entry, 0, Num(1))
                  /\ Only(entry, {"performance.targetSpeed"})
                  /\ TwiceTold(entry, "performance.targetSpeed", 1, {0})
               \/ \E kind \in {2, 3} :
                      LET path == IF kind = 2 THEN "performance.tackMagnetic"
                                  ELSE "performance.targetAngle"
                      IN  /\ Marked(entry, 0, Num(kind))
                          /\ Only(entry, {path})
                          /\ Told(entry, path, {{0, 1}},
                                  IsNumeral(Field(entry, 1)) /\ Field(entry, 1).n >= 0,
                                  Number(DEG * Field(entry, 1).n))
        /\ id = "VHW" =>
               /\ Only(entry, {"navigation.headingTrue", "navigation.headingMagnetic",
                               "navigation.speedThroughWater"})
               /\ Counted(entry, "navigation.headingTrue", 0, DEG)
               /\ Counted(entry, "navigation.headingMagnetic", 2, DEG)
               /\ Counted(entry, "navigation.speedThroughWater", 4, KNOTS)
        /\ id = "VPW" =>
               /\ Only(entry, {"performance.velocityMadeGood"})
               /\ Counted(entry, "performance.velocityMadeGood", 2, MS)
        /\ id = "HDG" =>
               /\ Only(entry, {"navigation.headingMagnetic", "navigation.magneticVariation"})
               /\ Counted(entry, "navigation.headingMagnetic", 0, DEG)
               /\ SignedCount(entry, "navigation.magneticVariation", 3, "E", "W", DEG)
        /\ id = "HDM" =>
               /\ Only(entry, {"navigation.headingMagnetic"})
               /\ Counted(entry, "navigation.headingMagnetic", 0, DEG)
        /\ id = "HDT" =>
               /\ Only(entry, {"navigation.headingTrue"})
               /\ Counted(entry, "navigation.headingTrue", 0, DEG)
        /\ id = "ROT" =>
               /\ Only(entry, {"navigation.rateOfTurn"})
               /\ Counted(entry, "navigation.rateOfTurn", 0, PER_MINUTE)

Depths(entry) ==
    LET id == entry.line.id
        depth == Field(entry, 0)
        offset == Field(entry, 1)
        below == "environment.depth.belowTransducer"
        Reads(condition) == 1 \in entry.damaged \/ (IsNumeral(offset) /\ condition)
        From(path, place) ==
            /\ Only(entry, {below, path, place})
            /\ Told(entry, path, {{1}}, TRUE, Number(IF offset.n < 0 THEN - offset.n
                                                     ELSE offset.n))
            /\ Told(entry, place, {{0, 1}}, IsNumeral(depth), Number(depth.n + offset.n))
    IN  /\ id = "DBT" => Only(entry, {below}) /\ Counted(entry, below, 2, 1)
        /\ id = "DPT" =>
               /\ Counted(entry, below, 0, 1)
               /\ \/ /\ Reads(offset.n > 0)
                     /\ From("environment.depth.surfaceToTransducer",
                             "environment.depth.belowSurface")
                  \/ /\ Reads(offset.n < 0)
                     /\ From("environment.depth.transducerToKeel",
                             "environment.depth.belowKeel")
                  \/ Reads(offset.n = 0) /\ Only(entry, {below})

\* Where a letter tells two quantities apart, the other one was not measured.
Winds(entry) ==
    LET id == entry.line.id
        bearing == Field(entry, 0)
        Wind(letter, speed, angle) ==
            /\ Marked(entry, 1, Str(letter))
            /\ Told(entry, speed, {1 .. 3},
                    IsNumeral(Field(entry, 2))
                        /\ Field(entry, 3) \in {Str("K"), Str("N"), Str("M")},
                    Number(UnitOf(Field(entry, 3)) * Field(entry, 2).n))
            /\ Told(entry, angle, {{0, 1}}, IsNumeral(bearing) /\ bearing.n \in 0 .. 359,
                    Number(DEG * OffBow(bearing.n)))
    IN  /\ id = "VWR" =>
               /\ Only(entry, {"environment.wind.angleApparent",
                               "environment.wind.speedApparent"})
               /\ SignedCount(entry, "environment.wind.angleApparent", 0, "R", "L", DEG)
               /\ Counted(entry, "environment.wind.speedApparent", 2, KNOTS)
        /\ id = "MWV" =>
               \/ /\ Only(entry, {"environment.wind.speedApparent",
                                  "environment.wind.angleApparent",
                                  "environment.wind.speedTrue",
                                  "environment.wind.angleTrueWater"})
                  /\ Wind("R", "environment.wind.speedApparent",
                          "environment.wind.angleApparent")
                  /\ Told(entry, "environment.wind.speedTrue", {{1}}, TRUE, Undefined)
                  /\ Told(entry, "environment.wind.angleTrueWater", {{1}}, TRUE, Undefined)
               \/ /\ Only(entry, {"environment.wind.speedTrue",
                                  "environment.wind.angleTrueWater"})
                  /\ Wind("T", "environment.wind.speedTrue",
                          "environment.wind.angleTrueWater")

Engines(entry) ==
    LET id == entry.line.id
        Revolves(letter, path) ==
            /\ Marked(entry, 0, Str(letter))
            /\ Told(entry, path, {0 .. 2}, IsNumeral(Field(entry, 2)),
                    [s |-> "revolutions", number |-> Field(entry, 1),
                     rate |-> Number(PER_MINUTE * Field(entry, 2).n)])
    IN  /\ id = "RPM" =>
               \/ /\ Only(entry, {"propulsion.shaft", "propulsion.engine"})
                  /\ Revolves("S", "propulsion.shaft")
                  /\ Told(entry, "propulsion.engine", {{0}}, TRUE, Undefined)
               \/ Only(entry, {"propulsion.engine"}) /\ Revolves("E", "propulsion.engine")
        /\ id = "MTW" =>
               /\ Only(entry, {"environment.water.temperature"})
               /\ Told(entry, "environment.water.temperature", {{0}},
                       IsNumeral(Field(entry, 0)), Number(Field(entry, 0).n + CELSIUS))
        /\ id = "VDR" =>
               /\ Only(entry, {"environment.current"})
               /\ Told(entry, "environment.current", {{0, 2, 4}},
                       \A i \in {0, 2, 4} : IsNumeral(Field(entry, i)),
                       [s |-> "current", setTrue |-> Number(DEG * Field(entry, 0).n),
                        setMagnetic |-> Number(DEG * Field(entry, 2).n),
                        drift |-> Number(KNOTS * Field(entry, 4).n)])

-----------------------------------------------------------------------------
(***************************************************************************)
(* Calls and reports of other vessels.                                     *)
(***************************************************************************)
\* Quadrants: 0 is NE, 1 is NW, 2 is SE and 3 is SW.
Calls(entry) ==
    LET called == Field(entry, 5)
        nature == Field(entry, 3)
    IN  entry.line.id = "DSC" =>
            /\ Told(entry, "navigation.position", {{5}},
                    called.s = "dsc" /\ called.quadrant \in 0 .. 3,
                    Position(Number(IF called.quadrant \in {0, 1} THEN called.latitude
                                    ELSE - called.latitude),
                             Number(IF called.quadrant \in {0, 2} THEN called.longitude
                                    ELSE - called.longitude)))
            /\ \/ /\ Marked(entry, 2, Num(12))
                  /\ Only(entry, {"navigation.position", "notifications"})
                  /\ Told(entry, "notifications", {{3}},
                          IsNumeral(nature) /\ nature.n \in 0 .. 10,
                          Str(DistressNatures[nature.n + 1]))
               \/ /\ 2 \notin entry.damaged => Field(entry, 2) # Num(12)
                  /\ Only(entry, {"navigation.position"})

\* What an AIS message reports.  A zero that is not a speed, a course or a
\* heading is not among the facts: VDM.js takes it for a field that is not there.
Reports(data) ==
    LET Report(known, path, value) == [known |-> known, path |-> path, value |-> value]
    IN  {Report(Truthy(data.mmsi), "", [s |-> "mmsi", of |-> data.mmsi]),
         Report(Truthy(data.shipname), "", [s |-> "name", of |-> data.shipname]),
         Report(Truthy(data.callsign), "", [s |-> "callsign", of |-> data.callsign]),
         Report(data.sog # Undefined, "navigation.speedOverGround",
                Number(KNOTS * data.sog.n)),
         Report(data.cog # Undefined, "navigation.courseOverGroundTrue",
                Number(DEG * data.cog.n)),
         Report(data.hdg # Undefined, "navigation.headingTrue", Number(DEG * data.hdg.n)),
         Report(Truthy(data.lat) /\ Truthy(data.lon), "navigation.position",
                Position(data.lat, data.lon)),
         Report(Truthy(data.length), "design.length", data.length),
         Report(Truthy(data.width), "design.beam", data.width),
         Report(Truthy(data.draught), "design.draft", data.draught),
         Report(Truthy(data.dimA), "sensors.ais.fromBow", data.dimA),
         Report(Truthy(data.width) /\ Truthy(data.dimD), "sensors.ais.fromCenter",
                [s |-> "halves", n |-> (data.width.n - data.dimD.n) - data.dimD.n]),
         Report(Truthy(data.navstatus) /\ data.navstatus.n \in DOMAIN StateMapping,
                "navigation.state", Str(StateMapping[data.navstatus.n])),
         Report(Truthy(data.destination), "navigation.destination.commonName",
                data.destination),
         Report(Truthy(data.aidtype) /\ data.aidtype.n \in AtonTypes, "atonType",
                data.aidtype),
         Report(Truthy(data.cargo) /\ data.cargo.n \in ShipTypes, "design.aisShipType",
                data.cargo)}

Ships(entry) ==
    LET data == entry.line.data
        reports == {report \in Reports(data) : report.known}
    IN  entry.line.id \in {"VDM", "VDO"} =>
            /\ NaN \notin {data.sog, data.cog, data.hdg}
            /\ data.width.n \in Int /\ data.dimD.n \in Int
            /\ {[path |-> fact.path, value |-> fact.value] : fact \in entry.facts}
                 = {[path |-> report.path, value |-> report.value] : report \in reports}

-----------------------------------------------------------------------------
Sentence(entry, t) ==
    /\ \A i \in entry.damaged : Unreadable(Field(entry, i))
    /\ Positions(entry, t)
    /\ Courses(entry)
    /\ Depths(entry)
    /\ Winds(entry)
    /\ Engines(entry)
    /\ Calls(entry)
    /\ Ships(entry)

ASSUME SentenceAssumption ==
    \A t \in Start .. Start + MaxTicks : \A entry \in Lines(t) : Sentence(entry, t)

==============================================================================
