---------------------------- MODULE NmeaVessels ----------------------------
(***************************************************************************)
(* The hooks of signalk-parser-nmea0183 about other vessels: distress      *)
(* calls (DSC) and AIS messages (VDM and VDO).                             *)
(*                                                                         *)
(* The position of a DSC sentence is one field of digits: a quadrant, then *)
(* degrees and minutes.  An AIS sentence is decoded by ggencoder, which is *)
(* minified in dist/bundle.js and not modelled: the hook sees the record   *)
(* it returns, a field that the message does not have being undefined.     *)
(***************************************************************************)
EXTENDS NmeaHooks

DscField(quadrant, latitude, longitude) ==
    [s |-> "dsc", quadrant |-> quadrant, latitude |-> latitude, longitude |-> longitude]

\* Quadrants: 0 is NE, 1 is NW, 2 is SE and 3 is SW.
ParsePosition(line) ==
    IF line.s # "dsc" THEN Position(NaN, NaN)
    ELSE Position(Number(IF line.quadrant \in {2, 3} THEN - line.latitude
                         ELSE line.latitude),
                  Number(IF line.quadrant \in {1, 3} THEN - line.longitude
                         ELSE line.longitude))

DistressNatures == <<"fire", "flooding", "collision", "grounding", "listing",
                     "sinking", "adrift", "undesignated", "abandon", "piracy", "mob">>

DistressNature(field) ==
    CASE IsNumeral(field) /\ field.n \in 0 .. 10 -> DistressNatures[field.n + 1]
      [] field = Num(12) -> "epirb"
      [] OTHER -> "unassigned"

\* The hook calls debug before it looks at the category; for a call it does
\* not handle it reads `line`, which is not declared either.
DSC(parts, tags) ==
    LET distress == Part(parts, 2) = Num(12)
        handled == distress \/ (Part(parts, 2) = Num(0) /\ Part(parts, 3) = Num(21))
    IN  IF Empties(parts) > 3 THEN Null
        ELSE IF ~ DEBUG \/ ~ handled \/ Part(parts, 5) = Undefined THEN Catch
        ELSE [Delta(<<Pair("navigation.position", ParsePosition(Part(parts, 5)))>>
                    \o When(distress,
                            Pair("notifications", Str(DistressNature(Part(parts, 3))))),
                    tags.timestamp)
              EXCEPT !.context = [prefix |-> "vessels.", mmsi |-> Part(parts, 1)]]

-----------------------------------------------------------------------------
StateMapping ==
    [i \in 0 .. 10 |->
        <<"motoring", "anchored", "not under command", "restricted manouverability",
          "constrained by draft", "moored", "aground", "fishing", "sailing",
          "hazardous material high speed", "hazardous material wing in ground">>[i + 1]]
    @@ (14 :> "ais-sart")

MsgTypeToPrefix ==
    [i \in {1, 2, 3, 5, 18, 19, 24} |-> "vessels."] @@ (9 :> "aircraft.") @@ (21 :> "atons.")

\* The numbers that the enumerations of the Signal K schema name.
AtonTypes == 0 .. 31
ShipTypes == 20 .. 99

\* What the transmitter's place is to the right of the middle of the ship, in
\* half metres.
FromCenter(width, dimD) ==
    [s |-> "halves",
     n |-> IF 2 * dimD > width THEN -(2 * dimD - width) ELSE width - 2 * dimD]

\* A value that is zero counts as absent, except a speed, course or heading.
VDMValues(data) ==
    When(Truthy(data.mmsi), Pair("", [s |-> "mmsi", of |-> data.mmsi]))
    \o When(Truthy(data.shipname), Pair("", [s |-> "name", of |-> data.shipname]))
    \o When(data.sog # Undefined,
            Pair("navigation.speedOverGround", Transform(data.sog, KNOTS)))
    \o When(data.cog # Undefined,
            Pair("navigation.courseOverGroundTrue", Transform(data.cog, DEG)))
    \o When(data.hdg # Undefined,
            Pair("navigation.headingTrue", Transform(data.hdg, DEG)))
    \o When(Truthy(data.lon) /\ Truthy(data.lat),
            Pair("navigation.position", Position(data.lat, data.lon)))
    \o When(Truthy(data.length), Pair("design.length", data.length))
    \o When(Truthy(data.width), Pair("design.beam", data.width))
    \o When(Truthy(data.draught), Pair("design.draft", data.draught))
    \o When(Truthy(data.dimA), Pair("sensors.ais.fromBow", data.dimA))
    \o When(Truthy(data.dimD) /\ Truthy(data.width),
            Pair("sensors.ais.fromCenter", FromCenter(data.width.n, data.dimD.n)))
    \o When(Truthy(data.navstatus) /\ data.navstatus.n \in DOMAIN StateMapping,
            Pair("navigation.state", Str(StateMapping[data.navstatus.n])))
    \o When(Truthy(data.destination),
            Pair("navigation.destination.commonName", data.destination))
    \o When(Truthy(data.callsign), Pair("", [s |-> "callsign", of |-> data.callsign]))
    \o When(Truthy(data.aidtype) /\ data.aidtype.n \in AtonTypes,
            Pair("atonType", data.aidtype))
    \o When(Truthy(data.cargo) /\ data.cargo.n \in ShipTypes,
            Pair("design.aisShipType", data.cargo))

ContextPrefix(data) ==
    IF Truthy(data.aidtype) THEN "atons."
    ELSE IF data.aistype.n \in DOMAIN MsgTypeToPrefix THEN MsgTypeToPrefix[data.aistype.n]
    ELSE "vessels."

\* The session the parser passes is the number 0: the decoder cannot keep the
\* first part of a message in it, and throws.
VDM(data, tags) ==
    IF data.parts > 1 THEN Rejected
    ELSE IF ~ data.valid \/ VDMValues(data) = <<>> THEN Null
    ELSE [Delta(VDMValues(data), tags.timestamp)
          EXCEPT !.context = [prefix |-> ContextPrefix(data), mmsi |-> data.mmsi]]

\* A message of the own vessel is taken for one of another.
VDO(data, tags) == VDM(data, tags)
==============================================================================
