----------------------------- MODULE NmeaHooks -----------------------------
(***************************************************************************)
(* The sentence hooks of signalk-parser-nmea0183 (hooks-es5/): each turns  *)
(* the fields of one kind of sentence into the values of a Signal K delta. *)
(*                                                                         *)
(* A hook is an operator on the fields (parts), the tags of the sentence   *)
(* and the server's clock; its outcome is what its caller meets: a promise *)
(* of a delta, of null or of an object without a delta, a rejected         *)
(* promise, plain null in the place of a promise, or an exception.         *)
(***************************************************************************)
EXTENDS JsValue, FiniteSets, SequencesExt

CONSTANT DEBUG    \* Is `debug` declared?  Its declarations are commented out.

ASSUME DebugAssumption == DEBUG \in BOOLEAN

Pair(path, value) == [path |-> path, value |-> value]
When(condition, pair) == IF condition THEN <<pair>> ELSE <<>>

Outcome(type) ==
    [type |-> type, values |-> <<>>, timestamp |-> Undefined, context |-> Undefined]

Delta(values, timestamp) ==
    [Outcome("delta") EXCEPT !.values = values, !.timestamp = timestamp]

Null == Outcome("null")
Rejected == Outcome("rejected")
Thrown == Outcome("thrown")

\* A catch block that calls debug before it rejects: without a declaration
\* the call is itself an exception, and nothing catches it.
Catch == IF DEBUG THEN Rejected ELSE Thrown

Empties(parts) == Cardinality({i \in 1 .. Len(parts) : IsEmpty(parts[i])})

-----------------------------------------------------------------------------
(***************************************************************************)
(* Position and time.                                                      *)
(***************************************************************************)
Quality == <<"no GPS", "GNSS Fix", "DGNSS fix", "Precise GNSS",
             "RTK fixed integer", "RTK float", "Estimated (DR) mode",
             "Manual input", "Simulator mode", "Error">>

QualityOf(x) ==
    IF x # NaN /\ x.n \in 0 .. 9 THEN Str(Quality[x.n + 1]) ELSE Undefined

GGAValues(parts) ==
    <<Pair("navigation.position",
           Position(Coordinate(Part(parts, 1), Part(parts, 2)),
                    Coordinate(Part(parts, 3), Part(parts, 4)))),
      Pair("navigation.gnss.methodQuality", QualityOf(Float(Part(parts, 5)))),
      Pair("navigation.gnss.satellites", Float(Part(parts, 6))),
      Pair("navigation.gnss.antennaAltitude", Float(Part(parts, 8))),
      Pair("navigation.gnss.horizontalDilution", Float(Part(parts, 7))),
      Pair("navigation.gnss.geoidalSeparation", Float(Part(parts, 11))),
      Pair("navigation.gnss.differentialAge", Float(Part(parts, 12))),
      Pair("navigation.gnss.differentialReference", Float(Part(parts, 13)))>>

\* Mutant of ToRemove: counted from one.
ToRemoveFromOne(values) ==
    {i \in 1 .. Len(values) : values[i].value \in {Undefined, NaN}}

\* Zero-based indices of the values that cannot be published.
ToRemove(values) ==
    {i \in 0 .. Len(values) - 1 : values[i + 1].value \in {Undefined, NaN}}

Splice(values, i) == IF i < Len(values) THEN RemoveAt(values, i + 1) ELSE values

\* The indices are taken in ascending order, and each is that of the full
\* list, also after earlier ones have gone.
RemoveUnusable(values) ==
    LET left[k \in 0 .. Len(values)] ==
            IF k = 0 THEN values
            ELSE IF k - 1 \in ToRemove(values) THEN Splice(left[k - 1], k - 1)
            ELSE left[k - 1]
    IN  left[Len(values)]

GGA(parts, now) ==
    IF Empties(parts) > 3 THEN Null
    ELSE IF \/ Part(parts, 0) = Undefined
            \/ TimestampThrows(Part(parts, 0), Today(now))
            \/ CoordinateThrows(Part(parts, 3), Part(parts, 4))
            \/ CoordinateThrows(Part(parts, 1), Part(parts, 2))
         THEN Catch
    ELSE Delta(RemoveUnusable(GGAValues(parts)),
               Timestamp(Part(parts, 0), Today(now), now))

\* Mutant of GLLValid: the verdict on the status is overwritten too.
GLLLastFieldCounts(parts) == parts # <<>> => ~ IsEmpty(Last(parts))

\* Every field overwrites the verdict of the one before it.
GLLValid(parts) ==
    /\ parts # <<>> => ~ IsEmpty(Last(parts))
    /\ Part(parts, 5) \notin {Str("v"), Str("V")}

GLL(parts, now) ==
    IF ~ GLLValid(parts) THEN Null
    ELSE IF \/ Part(parts, 4) = Undefined
            \/ TimestampThrows(Part(parts, 4), Today(now))
            \/ CoordinateThrows(Part(parts, 2), Part(parts, 3))
            \/ CoordinateThrows(Part(parts, 0), Part(parts, 1))
         THEN Catch
    ELSE Delta(<<Pair("navigation.position",
                      Position(Coordinate(Part(parts, 0), Part(parts, 1)),
                               Coordinate(Part(parts, 2), Part(parts, 3))))>>,
               Timestamp(Part(parts, 4), Today(now), now))

\* The status in parts[1] is not looked at.
RMC(parts, now) ==
    LET time == Timestamp(Part(parts, 0), Part(parts, 8), now)
        speed == Float(Part(parts, 6))
    IN  IF \/ TimestampThrows(Part(parts, 0), Part(parts, 8))
           \/ CoordinateThrows(Part(parts, 2), Part(parts, 3))
           \/ CoordinateThrows(Part(parts, 4), Part(parts, 5))
           \/ Part(parts, 10) = Undefined
        THEN Rejected
        ELSE Delta(<<Pair("navigation.position",
                          Position(Coordinate(Part(parts, 2), Part(parts, 3)),
                                   Coordinate(Part(parts, 4), Part(parts, 5)))),
                     Pair("navigation.courseOverGroundTrue",
                          Transform(OrZero(Float(Part(parts, 7))), DEG)),
                     Pair("navigation.speedOverGround",
                          Transform(IF Positive(speed) THEN speed ELSE Number(0), KNOTS)),
                     Pair("navigation.magneticVariation",
                          Transform(Variation(Part(parts, 9), Part(parts, 10)), DEG)),
                     Pair("navigation.magneticVariationAgeOfService", time),
                     Pair("navigation.datetime", time)>>,
                   time)

\* Outside of the try block: a missing coordinate field is an exception.  The
\* status in parts[0] is not looked at.
RMB(parts, tags) ==
    LET latitude == Coordinate(Part(parts, 5), Part(parts, 6))
        longitude == Coordinate(Part(parts, 7), Part(parts, 8))
        vmg == Float(Part(parts, 11))
        xte == OrZero(Float(Part(parts, 1)))
    IN  IF \/ CoordinateThrows(Part(parts, 5), Part(parts, 6))
           \/ CoordinateThrows(Part(parts, 7), Part(parts, 8))
        THEN Thrown
        ELSE IF NaN \in {latitude, longitude} THEN Null
        ELSE Delta(<<Pair("navigation.courseRhumbline.nextPoint", Position(latitude, longitude)),
                     Pair("navigation.courseRhumbline.nextPoint.bearingTrue",
                          Transform(OrZero(Float(Part(parts, 10))), DEG)),
                     Pair("navigation.courseRhumbline.nextPoint.velocityMadeGood",
                          Transform(IF Positive(vmg) THEN vmg ELSE Number(0), KNOTS)),
                     Pair("navigation.courseRhumbline.nextPoint.distance",
                          Transform(OrZero(Float(Part(parts, 9))), NM)),
                     Pair("navigation.courseRhumbline.crossTrackError",
                          Transform(IF Part(parts, 2) = Str("R") THEN xte
                                    ELSE Transform(xte, -1), NM))>>,
                   tags.timestamp)

\* The day, month and year are one date, held by parts[1].  The milliseconds
\* are the seconds with their fraction modulo the seconds: no number when
\* those are zero, and then toISOString throws.
ZDA(parts, tags) ==
    IF Empties(parts) > 3 THEN Null
    ELSE IF \/ \E i \in 0 .. 3 : ~ IsNumeral(Part(parts, i))
            \/ Empties(parts) = 3
            \/ Part(parts, 0).n % MINUTE = 0
         THEN Catch
    ELSE Delta(<<Pair("navigation.datetime",
                      Number(Part(parts, 0).n + Part(parts, 1).n))>>,
               tags.timestamp)

-----------------------------------------------------------------------------
(***************************************************************************)
(* Courses and speeds.                                                     *)
(***************************************************************************)
\* A speed given twice: that in kilometres, unless there is one in knots.
SpeedOf(knots, n, kilometres, k) ==
    IF Positive(Float(knots)) /\ Upper(n) = Str("N") THEN Transform(Float(knots), KNOTS)
    ELSE IF Positive(Float(kilometres)) /\ Upper(k) = Str("K")
         THEN Transform(Float(kilometres), KPH)
         ELSE Number(0)

VTG(parts, tags) ==
    IF \A i \in {0, 2, 4, 6} : Part(parts, i) = Empty THEN Null
    ELSE Delta(<<Pair("navigation.courseOverGroundMagnetic",
                      Transform(Float(Part(parts, 2)), DEG)),
                 Pair("navigation.courseOverGroundTrue",
                      Transform(Float(Part(parts, 0)), DEG)),
                 Pair("navigation.speedOverGround",
                      SpeedOf(Part(parts, 4), Part(parts, 5),
                              Part(parts, 6), Part(parts, 7)))>>,
               tags.timestamp)

\* PNKEP,01 to PNKEP,03; any other resolves to an object without a delta.
KEP(parts, tags) ==
    LET angle == Float(Part(parts, 1))
        course == IF Positive(angle) THEN Transform(angle, DEG) ELSE Number(0)
    IN  CASE Part(parts, 0) = Num(1) ->
               IF Part(parts, 1) = Empty /\ Part(parts, 3) = Empty THEN Null
               ELSE Delta(<<Pair("performance.targetSpeed",
                                 SpeedOf(Part(parts, 1), Part(parts, 2),
                                         Part(parts, 3), Part(parts, 4)))>>,
                          tags.timestamp)
          [] Part(parts, 0) \in {Num(2), Num(3)} /\ Part(parts, 1) = Empty -> Null
          [] Part(parts, 0) = Num(2) /\ Part(parts, 1) # Empty ->
               Delta(<<Pair("performance.tackMagnetic", course)>>, tags.timestamp)
          [] Part(parts, 0) = Num(3) /\ Part(parts, 1) # Empty ->
               Delta(<<Pair("performance.targetAngle", course)>>, tags.timestamp)
          [] OTHER -> Outcome("nodelta")

\* A field that is missing is not the empty string.
VHW(parts, tags) ==
    Delta(When(Part(parts, 0) # Empty,
               Pair("navigation.headingTrue", Transform(Float(Part(parts, 0)), DEG)))
          \o When(Part(parts, 2) # Empty,
                  Pair("navigation.headingMagnetic",
                       Transform(Float(Part(parts, 2)), DEG)))
          \o When(Part(parts, 4) # Empty,
                  Pair("navigation.speedThroughWater",
                       Transform(Float(Part(parts, 4)), KNOTS))),
          tags.timestamp)

\* The early return is not a promise.
VPW(parts, tags) ==
    LET speed == IF Truthy(Part(parts, 2)) THEN Transform(Float(Part(parts, 2)), MS)
                 ELSE Transform(Float(Part(parts, 0)), KNOTS)
    IN  IF ~ Truthy(Part(parts, 0)) /\ ~ Truthy(Part(parts, 2))
        THEN Outcome("notpromise")
        ELSE Delta(<<Pair("performance.velocityMadeGood", speed)>>, tags.timestamp)

\* Every way out is a rejected promise or an exception.
APB(parts) ==
    IF \/ Str("V") \in {Upper(Part(parts, 0)), Upper(Part(parts, 1))}
       \/ \A i \in {0, 1, 3, 4} : Part(parts, i) # Undefined
    THEN Rejected
    ELSE Catch

-----------------------------------------------------------------------------
(***************************************************************************)
(* Headings, rates and other single values.                                *)
(***************************************************************************)
HDG(parts, tags) ==
    LET values ==
            When(~ IsEmpty(Part(parts, 0)),
                 Pair("navigation.headingMagnetic",
                      Transform(Float(Part(parts, 0)), DEG)))
            \o When(~ IsEmpty(Part(parts, 3)) /\ ~ IsEmpty(Part(parts, 4)),
                    Pair("navigation.magneticVariation",
                         Transform(Transform(Float(Part(parts, 3)), DEG),
                                   IF Part(parts, 4) = Str("E") THEN 1 ELSE -1)))
    IN  IF values = <<>> THEN Null ELSE Delta(values, tags.timestamp)

HDM(parts, tags) ==
    IF IsEmpty(Part(parts, 0)) THEN Null
    ELSE Delta(<<Pair("navigation.headingMagnetic",
                      Transform(Float(Part(parts, 0)), DEG))>>, tags.timestamp)

HDT(parts, tags) ==
    IF IsEmpty(Part(parts, 0)) THEN Null
    ELSE Delta(<<Pair("navigation.headingTrue",
                      Transform(Float(Part(parts, 0)), DEG))>>, tags.timestamp)

ROT(parts, tags) ==
    IF Upper(Part(parts, 1)) # Str("A") THEN Rejected
    ELSE Delta(<<Pair("navigation.rateOfTurn",
                      Transform(Transform(Float(Part(parts, 0)), DEG), PER_MINUTE))>>,
               tags.timestamp)

\* The path is propulsion.shaft_<number>.revolutions, or engine_<number>; here
\* the number goes with the value.  The status in parts[4] is not looked at.
RPM(parts, tags) ==
    IF Part(parts, 0) = Undefined THEN Rejected
    ELSE Delta(<<Pair(IF Upper(Part(parts, 0)) = Str("S") THEN "propulsion.shaft"
                      ELSE "propulsion.engine",
                      [s |-> "revolutions", number |-> Part(parts, 1),
                       rate |-> Transform(Float(Part(parts, 2)), PER_MINUTE)])>>,
               tags.timestamp)

MTW(parts, tags) ==
    Delta(<<Pair("environment.water.temperature",
                 Plus(Float(Part(parts, 0)), Number(CELSIUS)))>>, tags.timestamp)

VDR(parts, tags) ==
    Delta(<<Pair("environment.current",
                 [s |-> "current",
                  setTrue |-> Transform(Float(Part(parts, 0)), DEG),
                  setMagnetic |-> Transform(Float(Part(parts, 2)), DEG),
                  drift |-> Transform(Float(Part(parts, 4)), KNOTS)])>>,
          tags.timestamp)

-----------------------------------------------------------------------------
(***************************************************************************)
(* Depth and wind.                                                         *)
(***************************************************************************)
\* Mutant of DBT: looks for the fathoms one field too far.
DBTTooFar(parts, tags) ==
    IF IsEmpty(Part(parts, 6)) THEN Null
    ELSE Delta(<<Pair("environment.depth.belowTransducer", Float(Part(parts, 2)))>>,
               tags.timestamp)

DBT(parts, tags) ==
    IF IsEmpty(Part(parts, 2)) THEN Null
    ELSE Delta(<<Pair("environment.depth.belowTransducer", Float(Part(parts, 2)))>>,
               tags.timestamp)

\* Mutant of DPT: the offset of the keel keeps its sign.
DPTSigned(parts, tags) ==
    LET depth == Float(Part(parts, 0))
        offset == Float(Part(parts, 1))
    IN  IF IsEmpty(Part(parts, 0)) \/ Part(parts, 1) = Undefined THEN Null
        ELSE Delta(<<Pair("environment.depth.belowTransducer", depth)>>
                   \o When(Negative(offset),
                           Pair("environment.depth.transducerToKeel", offset))
                   \o When(Negative(offset),
                           Pair("environment.depth.belowKeel", Plus(depth, offset))),
                   tags.timestamp)

DPT(parts, tags) ==
    LET depth == Float(Part(parts, 0))
        offset == Float(Part(parts, 1))
    IN  IF IsEmpty(Part(parts, 0)) \/ Part(parts, 1) = Undefined THEN Null
        ELSE Delta(<<Pair("environment.depth.belowTransducer", depth)>>
                   \o When(Positive(offset),
                           Pair("environment.depth.surfaceToTransducer", offset))
                   \o When(Positive(offset),
                           Pair("environment.depth.belowSurface", Plus(depth, offset)))
                   \o When(Negative(offset),
                           Pair("environment.depth.transducerToKeel",
                                Transform(offset, -1)))
                   \o When(Negative(offset),
                           Pair("environment.depth.belowKeel", Plus(depth, offset))),
                   tags.timestamp)

VWR(parts, tags) ==
    LET rightPositive == CASE Upper(Part(parts, 1)) = Str("R") -> 1
                           [] Upper(Part(parts, 1)) = Str("L") -> -1
                           [] OTHER -> 0
    IN  IF Empties(parts) > 3 THEN Null
        ELSE Delta(<<Pair("environment.wind.angleApparent",
                          Transform(Transform(Float(Part(parts, 0)), rightPositive), DEG)),
                     Pair("environment.wind.speedApparent",
                          Transform(Float(Part(parts, 2)), KNOTS))>>,
                   tags.timestamp)

\* Mutant of ConvertToWindAngle: winds from port are not folded.
WindAngleUnfolded(n) == n % 360

\* The remainder of JavaScript has the sign of the dividend.
ConvertToWindAngle(n) ==
    LET numAngle == IF n < 0 THEN - ((- n) % 360) ELSE n % 360
    IN  IF numAngle > 180 THEN numAngle - 360 ELSE numAngle

MWV(parts, tags) ==
    LET angle == Float(Part(parts, 0))
        wsu == CASE Upper(Part(parts, 3)) = Str("K") -> KPH
                 [] Upper(Part(parts, 3)) = Str("N") -> KNOTS
                 [] OTHER -> MS
        apparent == Upper(Part(parts, 1)) = Str("R")
    IN  IF Upper(Part(parts, 4)) # Str("A") THEN Null
        ELSE Delta(<<Pair(IF apparent THEN "environment.wind.speedApparent"
                          ELSE "environment.wind.speedTrue",
                          Transform(Float(Part(parts, 2)), wsu)),
                     Pair(IF apparent THEN "environment.wind.angleApparent"
                          ELSE "environment.wind.angleTrueWater",
                          IF angle = NaN THEN NaN
                          ELSE Transform(Number(ConvertToWindAngle(angle.n)), DEG))>>,
                   tags.timestamp)
==============================================================================
