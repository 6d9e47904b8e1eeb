------------------------------ MODULE JsValue -------------------------------
(***************************************************************************)
(* The values that the sentence hooks of signalk-parser-nmea0183 read and  *)
(* build, and the functions of @signalk/nmea0183-utilities they call.      *)
(*                                                                         *)
(* A field of a sentence is a JavaScript string; the hooks tell apart only *)
(* whether it is there, empty, blank, a number or some letters.  A number  *)
(* is an integer, or NaN.  Converting it multiplies by the unit it was     *)
(* read in, so that values read in different units can be compared:        *)
(* speeds are counted in metres per hour, lengths in metres, angles in     *)
(* degrees, rates per minute and temperatures in kelvin.                   *)
(*                                                                         *)
(* The utilities are a library, minified in dist/bundle.js; they are       *)
(* modelled from what the hooks make of them.                              *)
(***************************************************************************)
EXTENDS Integers, Sequences

Str(letters) == [s |-> letters, n |-> 0]
Num(i) == [s |-> "digits", n |-> i]
Undefined == Str("undefined")             \* parts[i] beyond the last field
Empty == Str("")
Blank == Str(" ")

Number(i) == [s |-> "number", n |-> i]
NaN == Str("NaN")

IsNumeral(field) == field.s = "digits"
IsEmpty(field) == field \in {Undefined, Empty, Blank}

\* parts[i], counted from zero.
Part(parts, i) == IF i \in 0 .. Len(parts) - 1 THEN parts[i + 1] ELSE Undefined

\* What `if (x)` takes for false; a field of one blank, or "0", is true.
Truthy(x) == x \notin {Undefined, Empty, NaN, Number(0)}

Capitals == [a |-> "A", e |-> "E", k |-> "K", l |-> "L", n |-> "N",
             r |-> "R", s |-> "S", v |-> "V", w |-> "W"]

\* toUpperCase of a field that is there.
Upper(field) ==
    IF field.s \in DOMAIN Capitals THEN Str(Capitals[field.s]) ELSE field

\* utils.float and utils.int: an empty or blank field is zero, not NaN.
Float(field) ==
    CASE field \in {Empty, Blank} -> Number(0)
      [] IsNumeral(field) -> Number(field.n)
      [] OTHER -> NaN

\* The units utils.transform converts from.
KNOTS == 1852
KPH == 1000
MS == 3600
NM == 1852
DEG == 1
PER_MINUTE == 1
PER_SECOND == 60
CELSIUS == 273

Transform(x, unit) == IF x = NaN THEN NaN ELSE Number(unit * x.n)
Plus(x, y) == IF NaN \in {x, y} THEN NaN ELSE Number(x.n + y.n)

OrZero(x) == IF x = NaN THEN Number(0) ELSE x
Positive(x) == x # NaN /\ x.n > 0
Negative(x) == x # NaN /\ x.n < 0

\* utils.coordinate throws unless both fields are there; an empty value gives
\* parseFloat(".undefined").
CoordinateThrows(value, pole) == Undefined \in {value, pole}

Coordinate(value, pole) ==
    IF ~ IsNumeral(value) THEN NaN
    ELSE Transform(Float(value), IF Upper(pole).s \in {"S", "W"} THEN -1 ELSE 1)

Position(latitude, longitude) ==
    [s |-> "position", latitude |-> latitude, longitude |-> longitude]

\* utils.magneticVariaton throws unless there is a pole to put in capitals.
Variation(value, pole) ==
    Transform(Float(value), IF Upper(pole).s \in {"S", "W"} THEN -1 ELSE 1)

-----------------------------------------------------------------------------
(***************************************************************************)
(* Time is counted in ticks, MINUTE of them to a minute and DAY to a day.  *)
(* A time field holds the tick of the day, a date field the tick at which  *)
(* its day begins; `now` is the server's clock.                            *)
(***************************************************************************)
MINUTE == 4
DAY == 6 * MINUTE
MONTH == 30 * DAY

Today(now) == Num(now - (now % DAY))

\* utils.timestamp throws when a field is text; a blank one counts as zeros.
TimestampThrows(time, date) ==
    \E field \in {time, date} : ~ IsNumeral(field) /\ ~ IsEmpty(field)

\* Without a time, or without a date, the server's clock is used; getUTCMonth
\* already counts from zero, and one is subtracted all the same.
Timestamp(time, date, now) ==
    LET tick == IF Truthy(time) THEN time.n ELSE now % DAY
        day == IF Truthy(date) THEN date.n ELSE Today(now).n - MONTH
    IN  Number(day + tick)
==============================================================================
