------------------------- MODULE NmeaDeliveryProofs -------------------------
(***************************************************************************)
(* What becomes of a line, for every line an instrument may write: what is *)
(* published of it is what was measured, is dated, attributed and adds up; *)
(* a void line is held back, and a complete one, or a value of it, is lost *)
(* for the known reasons only.                                             *)
(***************************************************************************)
EXTENDS NmeaProofs, NmeaSentences

-----------------------------------------------------------------------------
(***************************************************************************)
(* What a delta says of its sentence, and the fields it says it from.      *)
(***************************************************************************)
Geoidal == "navigation.gnss.geoidalSeparation"

\* PublishedIsTrue, of the values that are carried for an entry.
TrueTo(entry, carried) ==
    \A pair \in carried :
        (\A fact \in FactsAt(entry, pair.path) : Intact(entry, fact)) =>
            \/ \E fact \in FactsAt(entry, pair.path) : fact.value = pair.value
            \/ pair = Pair(Geoidal, NaN)

\* NothingElseIsLost, of the same.
Keeps(entry, carried) ==
    \A fact \in entry.facts :
        Intact(entry, fact) /\ fact.value # Undefined
            /\ fact.path \notin {"timestamp", Geoidal} =>
        Pair(fact.path, fact.value) \in carried

Says(entry, carried) == TrueTo(entry, carried) /\ Keeps(entry, carried)

\* A value that is the one that was measured, as far as its fields are intact.
Correct(entry, path, value) ==
    /\ FactsAt(entry, path) # {}
    /\ \A fact \in FactsAt(entry, path) : Intact(entry, fact) => fact.value = value

\* What was measured and is intact has one of these paths.
Covered(entry, paths) ==
    \A fact \in entry.facts :
        Intact(entry, fact) /\ fact.value # Undefined
            /\ fact.path \notin {"timestamp", Geoidal} =>
        fact.path \in paths

\* A pair that may be published for an entry.
Right(entry, pair) ==
    /\ pair = Pair(pair.path, pair.value)
    /\ pair = Pair(Geoidal, NaN) \/ Correct(entry, pair.path, pair.value)

LEMMA RightPair ==
    ASSUME NEW entry, NEW path, NEW value, Correct(entry, path, value)
    PROVE  Right(entry, Pair(path, value)) /\ Pair(path, value).path = path
BY PairParts DEF Right

LEMMA RightOnes ==
    ASSUME NEW entry, NEW carried, \A pair \in carried : Right(entry, pair)
    PROVE  TrueTo(entry, carried)
BY DEF Right, Correct, TrueTo

LEMMA RightAll ==
    ASSUME NEW entry, NEW carried, \A pair \in carried : Right(entry, pair),
           NEW paths, Covered(entry, paths),
           \A path \in paths : path # Geoidal => \E pair \in carried : pair.path = path
    PROVE  Says(entry, carried)
<1>1. Keeps(entry, carried)
  <2> SUFFICES ASSUME NEW fact \in entry.facts, Intact(entry, fact), fact.value # Undefined,
                      fact.path \notin {"timestamp", Geoidal}
               PROVE  Pair(fact.path, fact.value) \in carried
    BY DEF Keeps
  <2>1. PICK pair \in carried : pair.path = fact.path
    BY DEF Covered
  <2>2. pair = Pair(pair.path, pair.value) /\ pair # Pair(Geoidal, NaN)
    BY <2>1, PairParts DEF Right
  <2>3. fact \in FactsAt(entry, pair.path)
    BY <2>1 DEF FactsAt
  <2>4. fact.value = pair.value
    BY <2>2, <2>3 DEF Right, Correct
  <2> QED
    BY <2>1, <2>2, <2>4
<1> QED
  BY <1>1, RightOnes DEF Says

\* Nothing else was measured than what these values tell.
LEMMA SaysOne ==
    ASSUME NEW entry, NEW p1, NEW v1, Correct(entry, p1, v1), Covered(entry, {p1})
    PROVE  Says(entry, Carried(<<Pair(p1, v1)>>))
<1> DEFINE a == Pair(p1, v1)
<1>1. Right(entry, a) /\ a.path = p1
  BY RightPair
<1> HIDE DEF a
<1>2. Carried(<<a>>) = {a}
  BY DEF Carried
<1>3. Says(entry, {a})
  BY <1>1, RightAll
<1> QED
  BY <1>2, <1>3 DEF a

LEMMA SaysTwo ==
    ASSUME NEW entry, NEW p1, NEW v1, Correct(entry, p1, v1),
           NEW p2, NEW v2, Correct(entry, p2, v2), Covered(entry, {p1, p2})
    PROVE  Says(entry, Carried(<<Pair(p1, v1), Pair(p2, v2)>>))
<1> DEFINE a == Pair(p1, v1)
           b == Pair(p2, v2)
<1>1. Right(entry, a) /\ a.path = p1 /\ Right(entry, b) /\ b.path = p2
  BY RightPair
<1> HIDE DEF a, b
<1>2. Carried(<<a, b>>) = {a, b}
  BY DEF Carried
<1>3. Says(entry, {a, b})
  BY <1>1, RightAll
<1> QED
  BY <1>2, <1>3 DEF a, b

LEMMA SaysThree ==
    ASSUME NEW entry, NEW p1, NEW v1, Correct(entry, p1, v1),
           NEW p2, NEW v2, Correct(entry, p2, v2),
           NEW p3, NEW v3, Correct(entry, p3, v3), Covered(entry, {p1, p2, p3})
    PROVE  Says(entry, Carried(<<Pair(p1, v1), Pair(p2, v2), Pair(p3, v3)>>))
<1> DEFINE a == Pair(p1, v1)
           b == Pair(p2, v2)
           c == Pair(p3, v3)
<1>1. /\ Right(entry, a) /\ a.path = p1 /\ Right(entry, b) /\ b.path = p2
      /\ Right(entry, c) /\ c.path = p3
  BY RightPair
<1> HIDE DEF a, b, c
<1>2. Carried(<<a, b, c>>) = {a, b, c}
  BY DEF Carried
<1>3. Says(entry, {a, b, c})
  BY <1>1, RightAll
<1> QED
  BY <1>2, <1>3 DEF a, b, c

\* What is left of the outcome of a hook once we know that it is a delta.
LEMMA TheDelta ==
    ASSUME NEW values, NEW timestamp, NEW outcome, outcome.type = "delta",
           outcome \in {Null, Rejected, Thrown, Catch, Outcome("nodelta"),
                        Outcome("notpromise"), Delta(values, timestamp)}
    PROVE  outcome.values = values
BY OtherTypes, OutcomeType, DeltaParts

-----------------------------------------------------------------------------
(***************************************************************************)
(* How the hooks read a field, and how an instrument writes it.            *)
(***************************************************************************)
LEMMA NumberParts ==
    ASSUME NEW i
    PROVE  Number(i).s = "number" /\ Number(i).n = i /\ Number(i) # NaN
                                  /\ Number(i) # Undefined
BY DEF Number, NaN, Undefined, Str

LEMMA StrParts ==
    ASSUME NEW letters
    PROVE  Str(letters).s = letters /\ Str(letters).n = 0
BY DEF Str

\* Numbers and the letters that mean something are not empty.
LEMMA NotEmpty ==
    ASSUME NEW field, IsNumeral(field) \/ field.s \in Letters \cup {"dsc"}
    PROVE  ~ IsEmpty(field) /\ field # Empty /\ field # Undefined
<1>1. Undefined.s = "undefined" /\ Empty.s = "" /\ Blank.s = " "
  BY DEF Undefined, Empty, Blank, Str
<1>2. /\ "digits" \notin {"undefined", "", " "}
      /\ Letters \cap {"undefined", "", " "} = {}
  BY DEF Letters
<1> QED
  BY <1>1, <1>2 DEF IsNumeral, IsEmpty

LEMMA TransformNumber ==
    ASSUME NEW n, NEW unit
    PROVE  Transform(Number(n), unit) = Number(unit * n)
BY NumberParts DEF Transform

LEMMA ReadNumeral ==
    ASSUME NEW field, IsNumeral(field)
    PROVE  Float(field) = Number(field.n) /\ OrZero(Float(field)) = Number(field.n)
<1>1. Empty.s = "" /\ Blank.s = " "
  BY DEF Empty, Blank, Str
<1>2. field \notin {Empty, Blank}
  BY <1>1 DEF IsNumeral
<1>3. Float(field) = Number(field.n)
  BY <1>2, Zenon DEF Float
<1> QED
  BY <1>3, NumberParts DEF OrZero

\* A field that is damaged is no number but, when it is empty, zero.
LEMMA ReadUnreadable ==
    ASSUME NEW field, Unreadable(field)
    PROVE  /\ ~ IsNumeral(field) /\ field.s \notin Letters /\ field.s # "dsc"
           /\ Float(field) \in {Number(0), NaN}
           /\ ~ Positive(Float(field)) /\ ~ Negative(Float(field))
           /\ \A i : field # Num(i)
           /\ \A letter \in Letters : field # Str(letter)
<1>1. field.s \notin Letters /\ field.s # "digits" /\ field.s # "dsc"
  BY DEF Unreadable
<1>2. Float(field) \in {Number(0), NaN}
  BY <1>1 DEF Float, IsNumeral
<1>3. ~ Positive(Float(field)) /\ ~ Negative(Float(field))
  BY <1>2, NumberParts DEF Positive, Negative
<1>4. \A i : field # Num(i)
  BY <1>1, NumParts
<1>5. \A letter \in Letters : field # Str(letter)
  BY <1>1, StrParts
<1> QED
  BY <1>1, <1>2, <1>3, <1>4, <1>5 DEF IsNumeral

\* Only two fields become a capital.
LEMMA Capital ==
    ASSUME NEW field, field = Str(field.s)
    PROVE  /\ Upper(field) = Str("N") <=> field \in {Str("n"), Str("N")}
           /\ Upper(field) = Str("K") <=> field \in {Str("k"), Str("K")}
           /\ Upper(field) = Str("S") <=> field \in {Str("s"), Str("S")}
           /\ Upper(field) = Str("R") <=> field \in {Str("r"), Str("R")}
           /\ Upper(field) = Str("L") <=> field \in {Str("l"), Str("L")}
<1>1. DOMAIN Capitals = {"a", "e", "k", "l", "n", "r", "s", "v", "w"}
  BY DEF Capitals
<1>2. /\ Capitals["a"] = "A" /\ Capitals["e"] = "E" /\ Capitals["k"] = "K"
      /\ Capitals["l"] = "L" /\ Capitals["n"] = "N" /\ Capitals["r"] = "R"
      /\ Capitals["s"] = "S" /\ Capitals["v"] = "V" /\ Capitals["w"] = "W"
  BY DEF Capitals
<1>3. \A a, b : Str(a) = Str(b) <=> a = b
  BY StrParts
<1> QED
  BY <1>1, <1>2, <1>3 DEF Upper

\* The numbers of a line are whole.
Whole(entry) ==
    \A i \in Nat : IsNumeral(Field(entry, i)) => Field(entry, i).n \in Int

LEMMA ToldRow ==
    ASSUME NEW entry, NEW path, NEW groups, NEW readable, NEW value,
           Told(entry, path, groups, readable, value),
           NEW v, readable => v = value
    PROVE  Correct(entry, path, v)
BY Zenon DEF Told, Correct

LEMMA CountedRow ==
    ASSUME NEW entry, NEW path, NEW i, NEW unit, Counted(entry, path, i, unit)
    PROVE  /\ Correct(entry, path, Transform(Float(Field(entry, i)), unit))
           /\ Correct(entry, path, Transform(OrZero(Float(Field(entry, i))), unit))
<1> DEFINE field == Field(entry, i)
<1>1. IsNumeral(field) =>
        /\ Transform(Float(field), unit) = Number(unit * field.n)
        /\ Transform(OrZero(Float(field)), unit) = Number(unit * field.n)
  BY ReadNumeral, TransformNumber
<1>2. Told(entry, path, {{i}}, IsNumeral(field), Number(unit * field.n))
  BY DEF Counted
<1> HIDE DEF field
<1> QED
  BY <1>1, <1>2, ToldRow DEF field

LEMMA PlainRow ==
    ASSUME NEW entry, Whole(entry), NEW path, NEW i \in Nat, Counted(entry, path, i, 1)
    PROVE  Correct(entry, path, Float(Field(entry, i)))
<1> DEFINE field == Field(entry, i)
<1>1. IsNumeral(field) => Float(field) = Number(field.n) /\ 1 * field.n = field.n
  BY ReadNumeral DEF Whole
<1>2. Told(entry, path, {{i}}, IsNumeral(field), Number(1 * field.n))
  BY DEF Counted
<1> HIDE DEF field
<1> QED
  BY <1>1, <1>2, ToldRow DEF field

\* A speed that is not positive is published as zero.
LEMMA AmountRow ==
    ASSUME NEW entry, Whole(entry), NEW path, NEW i \in Nat, NEW unit \in Int,
           Amount(entry, path, i, unit)
    PROVE  LET speed == Float(Field(entry, i))
           IN  Correct(entry, path,
                       Transform(IF Positive(speed) THEN speed ELSE Number(0), unit))
<1> DEFINE field == Field(entry, i)
           speed == Float(field)
           v == Transform(IF Positive(speed) THEN speed ELSE Number(0), unit)
<1>1. IsNumeral(field) /\ field.n >= 0 => v = Number(unit * field.n)
  <2> SUFFICES ASSUME IsNumeral(field), field.n >= 0 PROVE v = Number(unit * field.n)
    OBVIOUS
  <2>1. speed = Number(field.n) /\ speed.n = field.n /\ speed # NaN /\ field.n \in Int
    BY ReadNumeral, NumberParts DEF Whole
  <2>2. Positive(speed) <=> field.n > 0
    BY <2>1 DEF Positive
  <2>3. field.n > 0 \/ field.n = 0
    BY <2>1
  <2> HIDE DEF field, speed
  <2>4. CASE field.n > 0
    BY <2>1, <2>2, <2>4, TransformNumber
  <2>5. CASE field.n = 0
    BY <2>1, <2>2, <2>5, TransformNumber
  <2> QED
    BY <2>3, <2>4, <2>5
<1>2. Told(entry, path, {{i}}, IsNumeral(field) /\ field.n >= 0, Number(unit * field.n))
  BY DEF Amount
<1> HIDE DEF field, v
<1>3. Correct(entry, path, v)
  BY <1>1, <1>2, ToldRow
<1> QED
  BY <1>3 DEF field, v

\* South and west are negative.
LEMMA Hemisphere ==
    ASSUME NEW field, IsNumeral(field), field.n \in Int, NEW pole,
           NEW plus, NEW minus, <<plus, minus>> \in {<<"N", "S">>, <<"E", "W">>},
           pole \in {Str(plus), Str(minus)}
    PROVE  LET signed == IF pole = Str(minus) THEN - field.n ELSE field.n
           IN  /\ Coordinate(field, pole) = Number(signed)
               /\ Variation(field, pole) = Number(signed)
<1>1. /\ Upper(Str("N")) = Str("N") /\ Upper(Str("S")) = Str("S")
      /\ Upper(Str("E")) = Str("E") /\ Upper(Str("W")) = Str("W")
  BY StrParts DEF Upper, Capitals
<1>2. \A a, b : Str(a) = Str(b) <=> a = b
  BY StrParts
<1>3. /\ plus \in {"N", "E"} /\ minus \in {"S", "W"}
  OBVIOUS
<1>4. Upper(pole).s \in {"S", "W"} <=> pole = Str(minus)
  BY <1>1, <1>2, <1>3, StrParts
<1> DEFINE sign == IF Upper(pole).s \in {"S", "W"} THEN -1 ELSE 1
<1>5. /\ Coordinate(field, pole) = Transform(Float(field), sign)
      /\ Variation(field, pole) = Transform(Float(field), sign)
  BY DEF Coordinate, Variation
<1>6. Transform(Float(field), sign) = Number(sign * field.n)
  <2> HIDE DEF sign
  <2> QED
    BY ReadNumeral, TransformNumber
<1>7. sign * field.n = IF pole = Str(minus) THEN - field.n ELSE field.n
  BY <1>4
<1> HIDE DEF sign
<1> QED
  BY <1>5, <1>6, <1>7

LEMMA FixedRow ==
    ASSUME NEW entry, Whole(entry), NEW path, NEW i \in Nat, Fixed(entry, path, i)
    PROVE  Correct(entry, path,
                   Position(Coordinate(Field(entry, i), Field(entry, i + 1)),
                            Coordinate(Field(entry, i + 2), Field(entry, i + 3))))
<1> DEFINE readable == HasSign(entry, i, "N", "S") /\ HasSign(entry, i + 2, "E", "W")
           value == Position(Number(Signed(entry, i, "S")),
                             Number(Signed(entry, i + 2, "W")))
           latitude == Coordinate(Field(entry, i), Field(entry, i + 1))
           longitude == Coordinate(Field(entry, i + 2), Field(entry, i + 3))
<1>1. HasSign(entry, i, "N", "S") => latitude = Number(Signed(entry, i, "S"))
  BY Hemisphere DEF HasSign, Signed, Whole
<1>2. HasSign(entry, i + 2, "E", "W") => longitude = Number(Signed(entry, i + 2, "W"))
  <2>1. i + 2 \in Nat /\ (i + 2) + 1 = i + 3
    OBVIOUS
  <2> QED
    BY <2>1, Hemisphere DEF HasSign, Signed, Whole
<1>3. Told(entry, path, {i .. i + 3}, readable, value)
  BY DEF Fixed
<1>4. readable => Position(latitude, longitude) = value
  BY <1>1, <1>2
<1> HIDE DEF readable, value, latitude, longitude
<1>5. Correct(entry, path, Position(latitude, longitude))
  BY <1>3, <1>4, ToldRow
<1> QED
  BY <1>5 DEF latitude, longitude

LEMMA OnlyCovered ==
    ASSUME NEW entry, NEW paths, Only(entry, paths)
    PROVE  Covered(entry, paths)
BY DEF Only, Covered

-----------------------------------------------------------------------------
(***************************************************************************)
(* Each hook says what its sentence tells.                                 *)
(***************************************************************************)
Agrees(entry, outcome) ==
    outcome.type = "delta" => Says(entry, Carried(outcome.values))

LEMMA AgreesDelta ==
    ASSUME NEW entry, NEW values, Says(entry, Carried(values)), NEW timestamp, NEW outcome,
           outcome \in {Null, Rejected, Thrown, Catch, Outcome("nodelta"),
                        Outcome("notpromise"), Delta(values, timestamp)}
    PROVE  Agrees(entry, outcome)
BY TheDelta DEF Agrees

LEMMA AgreesOne ==
    ASSUME NEW entry, NEW p1, NEW v1, Correct(entry, p1, v1), Only(entry, {p1}),
           NEW timestamp, NEW outcome,
           outcome \in {Null, Rejected, Thrown, Catch, Outcome("nodelta"),
                        Outcome("notpromise"), Delta(<<Pair(p1, v1)>>, timestamp)}
    PROVE  Agrees(entry, outcome)
<1> DEFINE values == <<Pair(p1, v1)>>
<1>1. Says(entry, Carried(values))
  BY OnlyCovered, SaysOne
<1> HIDE DEF values
<1> QED
  BY <1>1, AgreesDelta DEF values

\* Headings, the rate of turn, the temperature of the water and the current.
LEMMA Headings ==
    ASSUME NEW entry, Courses(entry), NEW tags
    PROVE  /\ entry.line.id = "HDM" => Agrees(entry, HDM(entry.line.parts, tags))
           /\ entry.line.id = "HDT" => Agrees(entry, HDT(entry.line.parts, tags))
<1> DEFINE heading == Transform(Float(Field(entry, 0)), DEG)
<1>1. ASSUME entry.line.id = "HDM"
      PROVE  Agrees(entry, HDM(entry.line.parts, tags))
  <2> DEFINE path == "navigation.headingMagnetic"
  <2>1. HDM(entry.line.parts, tags)
          \in {Null, Delta(<<Pair(path, heading)>>, tags.timestamp)}
    BY Zenon DEF HDM, Field
  <2>2. Only(entry, {path}) /\ Counted(entry, path, 0, DEG)
    BY <1>1 DEF Courses
  <2>3. Correct(entry, path, heading)
    BY <2>2, CountedRow
  <2> HIDE DEF heading, path
  <2> QED
    BY <2>1, <2>2, <2>3, AgreesOne
<1>2. ASSUME entry.line.id = "HDT"
      PROVE  Agrees(entry, HDT(entry.line.parts, tags))
  <2> DEFINE path == "navigation.headingTrue"
  <2>1. HDT(entry.line.parts, tags)
          \in {Null, Delta(<<Pair(path, heading)>>, tags.timestamp)}
    BY Zenon DEF HDT, Field
  <2>2. Only(entry, {path}) /\ Counted(entry, path, 0, DEG)
    BY <1>2 DEF Courses
  <2>3. Correct(entry, path, heading)
    BY <2>2, CountedRow
  <2> HIDE DEF heading, path
  <2> QED
    BY <2>1, <2>2, <2>3, AgreesOne
<1> QED
  BY <1>1, <1>2

LEMMA RateOfTurn ==
    ASSUME NEW entry, Whole(entry), Courses(entry), entry.line.id = "ROT", NEW tags
    PROVE  Agrees(entry, ROT(entry.line.parts, tags))
<1> DEFINE field == Field(entry, 0)
           path == "navigation.rateOfTurn"
           rate == Transform(Transform(Float(field), DEG), PER_MINUTE)
<1>1. ROT(entry.line.parts, tags)
        \in {Rejected, Delta(<<Pair(path, rate)>>, tags.timestamp)}
  BY Zenon DEF ROT, Field
<1>2. /\ Only(entry, {path})
      /\ Told(entry, path, {{0}}, IsNumeral(field), Number(PER_MINUTE * field.n))
  BY DEF Courses, Counted
<1>3. IsNumeral(field) => rate = Number(PER_MINUTE * field.n)
  <2> SUFFICES ASSUME IsNumeral(field) PROVE rate = Number(PER_MINUTE * field.n)
    OBVIOUS
  <2>1. Float(field) = Number(field.n) /\ field.n \in Int
    BY ReadNumeral DEF Whole
  <2>2. rate = Number(PER_MINUTE * (DEG * field.n))
    BY <2>1, TransformNumber
  <2>3. PER_MINUTE * (DEG * field.n) = PER_MINUTE * field.n
    BY <2>1 DEF PER_MINUTE, DEG
  <2> QED
    BY <2>2, <2>3
<1> HIDE DEF field, path, rate
<1>4. Correct(entry, path, rate)
  BY <1>2, <1>3, ToldRow
<1> QED
  BY <1>1, <1>2, <1>4, AgreesOne

LEMMA WaterTemperature ==
    ASSUME NEW entry, Engines(entry), entry.line.id = "MTW", NEW tags
    PROVE  Agrees(entry, MTW(entry.line.parts, tags))
<1> DEFINE field == Field(entry, 0)
           path == "environment.water.temperature"
           kelvin == Plus(Float(field), Number(CELSIUS))
<1>1. MTW(entry.line.parts, tags) = Delta(<<Pair(path, kelvin)>>, tags.timestamp)
  BY Zenon DEF MTW, Field
<1>2. /\ Only(entry, {path})
      /\ Told(entry, path, {{0}}, IsNumeral(field), Number(field.n + CELSIUS))
  BY DEF Engines
<1>3. IsNumeral(field) => kelvin = Number(field.n + CELSIUS)
  <2> HIDE DEF field
  <2> QED
    BY ReadNumeral, NumberParts DEF Plus
<1> HIDE DEF field, path, kelvin
<1>4. Correct(entry, path, kelvin)
  BY <1>2, <1>3, ToldRow
<1> QED
  BY <1>1, <1>2, <1>4, AgreesOne

LEMMA Current ==
    ASSUME NEW entry, Engines(entry), entry.line.id = "VDR", NEW tags
    PROVE  Agrees(entry, VDR(entry.line.parts, tags))
<1> DEFINE f(i) == Field(entry, i)
           path == "environment.current"
           current == [s |-> "current", setTrue |-> Transform(Float(f(0)), DEG),
                       setMagnetic |-> Transform(Float(f(2)), DEG),
                       drift |-> Transform(Float(f(4)), KNOTS)]
           told == [s |-> "current", setTrue |-> Number(DEG * f(0).n),
                    setMagnetic |-> Number(DEG * f(2).n),
                    drift |-> Number(KNOTS * f(4).n)]
           readable == \A i \in {0, 2, 4} : IsNumeral(f(i))
<1>1. VDR(entry.line.parts, tags) = Delta(<<Pair(path, current)>>, tags.timestamp)
  BY Zenon DEF VDR, Field
<1>2. Only(entry, {path}) /\ Told(entry, path, {{0, 2, 4}}, readable, told)
  BY DEF Engines
<1>3. readable => current = told
  <2> HIDE DEF f
  <2>1. \A i, unit : IsNumeral(f(i)) => Transform(Float(f(i)), unit) = Number(unit * f(i).n)
    BY ReadNumeral, TransformNumber
  <2> QED
    BY <2>1
<1> HIDE DEF path, current, told, readable
<1>4. Correct(entry, path, current)
  BY <1>2, <1>3, ToldRow
<1> QED
  BY <1>1, <1>2, <1>4, AgreesOne

LEMMA Echo ==
    ASSUME NEW entry, Whole(entry), Depths(entry), entry.line.id = "DBT", NEW tags
    PROVE  Agrees(entry, DBT(entry.line.parts, tags))
<1> DEFINE path == "environment.depth.belowTransducer"
           depth == Float(Field(entry, 2))
<1>1. DBT(entry.line.parts, tags) \in {Null, Delta(<<Pair(path, depth)>>, tags.timestamp)}
  BY Zenon DEF DBT, Field
<1>2. Only(entry, {path}) /\ Counted(entry, path, 2, 1)
  BY DEF Depths
<1>3. Correct(entry, path, depth)
  BY <1>2, PlainRow
<1> HIDE DEF path, depth
<1> QED
  BY <1>1, <1>2, <1>3, AgreesOne

\* The knots count only where there are no metres per second.
LEMMA MadeGood ==
    ASSUME NEW entry, Courses(entry), entry.line.id = "VPW", NEW tags
    PROVE  Agrees(entry, VPW(entry.line.parts, tags))
<1> DEFINE path == "performance.velocityMadeGood"
           field == Field(entry, 2)
           speed == IF Truthy(field) THEN Transform(Float(field), MS)
                    ELSE Transform(Float(Field(entry, 0)), KNOTS)
<1>1. VPW(entry.line.parts, tags)
        \in {Outcome("notpromise"), Delta(<<Pair(path, speed)>>, tags.timestamp)}
  BY Zenon DEF VPW, Field
<1>2. /\ Only(entry, {path})
      /\ Told(entry, path, {{2}}, IsNumeral(field), Number(MS * field.n))
  BY DEF Courses, Counted
<1>3. IsNumeral(field) => speed = Number(MS * field.n)
  <2>1. IsNumeral(field) => Truthy(field)
    <3>1. /\ Undefined.s = "undefined" /\ Empty.s = "" /\ NaN.s = "NaN"
          /\ Number(0).s = "number"
      BY DEF Undefined, Empty, NaN, Number, Str
    <3> QED
      BY <3>1 DEF IsNumeral, Truthy
  <2> HIDE DEF field
  <2> QED
    BY <2>1, ReadNumeral, TransformNumber
<1> HIDE DEF path, field, speed
<1>4. Correct(entry, path, speed)
  BY <1>2, <1>3, ToldRow
<1> QED
  BY <1>1, <1>2, <1>4, AgreesOne

LEMMA AgreesTwo ==
    ASSUME NEW entry, NEW p1, NEW v1, Correct(entry, p1, v1),
           NEW p2, NEW v2, Correct(entry, p2, v2), Covered(entry, {p1, p2}),
           NEW timestamp, NEW outcome,
           outcome \in {Null, Rejected, Thrown, Catch,
                        Delta(<<Pair(p1, v1), Pair(p2, v2)>>, timestamp)}
    PROVE  Agrees(entry, outcome)
<1> DEFINE values == <<Pair(p1, v1), Pair(p2, v2)>>
<1>1. Says(entry, Carried(values))
  BY SaysTwo
<1> HIDE DEF values
<1> QED
  BY <1>1, AgreesDelta DEF values

LEMMA SideOfTheWind ==
    ASSUME NEW entry, Whole(entry), Winds(entry), entry.line.id = "VWR", NEW tags
    PROVE  Agrees(entry, VWR(entry.line.parts, tags))
<1> DEFINE p1 == "environment.wind.angleApparent"
           p2 == "environment.wind.speedApparent"
           side == Upper(Field(entry, 1))
           rightPositive == CASE side = Str("R") -> 1 [] side = Str("L") -> -1 [] OTHER -> 0
           field == Field(entry, 0)
           angle == Transform(Transform(Float(field), rightPositive), DEG)
           speed == Transform(Float(Field(entry, 2)), KNOTS)
           told == Number(DEG * Signed(entry, 0, "L"))
<1>1. VWR(entry.line.parts, tags)
        \in {Null, Delta(<<Pair(p1, angle), Pair(p2, speed)>>, tags.timestamp)}
  BY Zenon DEF VWR, Field
<1>2. /\ Only(entry, {p1, p2})
      /\ Told(entry, p1, {{0, 1}}, HasSign(entry, 0, "R", "L"), told)
      /\ Counted(entry, p2, 2, KNOTS)
  BY DEF Winds, SignedCount
<1>3. HasSign(entry, 0, "R", "L") => angle = told
  <2> SUFFICES ASSUME HasSign(entry, 0, "R", "L") PROVE angle = told
    OBVIOUS
  <2>1. IsNumeral(field) /\ field.n \in Int
    BY DEF HasSign, Whole
  <2>2. Field(entry, 1) \in {Str("R"), Str("L")} /\ Str("R") # Str("L")
    BY StrParts DEF HasSign
  <2>3. side = Field(entry, 1)
    BY <2>2, Capital, StrParts
  <2>4. rightPositive = IF Field(entry, 1) = Str("L") THEN -1 ELSE 1
    BY <2>2, <2>3
  <2>5. angle = Number(DEG * (rightPositive * field.n))
    <3> HIDE DEF rightPositive, field
    <3> QED
      BY <2>1, ReadNumeral, TransformNumber
  <2>6. rightPositive * field.n = Signed(entry, 0, "L")
    <3>1. Signed(entry, 0, "L") = IF Field(entry, 1) = Str("L") THEN - field.n ELSE field.n
      BY DEF Signed
    <3> HIDE DEF rightPositive, field
    <3> QED
      BY <2>1, <2>4, <3>1
  <2> QED
    BY <2>5, <2>6
<1>4. Correct(entry, p2, speed)
  BY <1>2, CountedRow
<1> HIDE DEF p1, p2, angle, speed, told
<1>5. Correct(entry, p1, angle)
  BY <1>2, <1>3, ToldRow
<1> QED
  BY <1>1, <1>2, <1>4, <1>5, AgreesTwo, OnlyCovered

\* The reference of the wind is a letter: where it is damaged, the speed and
\* the angle are published as those of the true wind, and both are lost.
LEMMA WindOrUnknown ==
    ASSUME NEW entry, Whole(entry), Winds(entry), entry.line.id = "MWV", NEW tags,
           \A i \in entry.damaged : Unreadable(Field(entry, i))
    PROVE  Agrees(entry, MWV(entry.line.parts, tags))
<1> DEFINE f(i) == Field(entry, i)
           speedApparent == "environment.wind.speedApparent"
           angleApparent == "environment.wind.angleApparent"
           speedTrue == "environment.wind.speedTrue"
           angleTrue == "environment.wind.angleTrueWater"
           bearing == Float(f(0))
           wsu == CASE Upper(f(3)) = Str("K") -> KPH [] Upper(f(3)) = Str("N") -> KNOTS
                    [] OTHER -> MS
           speed == Transform(Float(f(2)), wsu)
           angle == IF bearing = NaN THEN NaN
                    ELSE Transform(Number(ConvertToWindAngle(bearing.n)), DEG)
           apparent == Upper(f(1)) = Str("R")
           units == IsNumeral(f(2)) /\ f(3) \in {Str("K"), Str("N"), Str("M")}
           round == IsNumeral(f(0)) /\ f(0).n \in 0 .. 359
<1> DEFINE hears == Delta(<<Pair(speedApparent, speed), Pair(angleApparent, angle)>>,
                          tags.timestamp)
           knows == Delta(<<Pair(speedTrue, speed), Pair(angleTrue, angle)>>, tags.timestamp)
<1>1. MWV(entry.line.parts, tags) \in {Null, IF apparent THEN hears ELSE knows}
  <2>1. MWV(entry.line.parts, tags)
          \in {Null,
               Delta(<<Pair(IF apparent THEN speedApparent ELSE speedTrue, speed),
                       Pair(IF apparent THEN angleApparent ELSE angleTrue, angle)>>,
                     tags.timestamp)}
    BY Zenon DEF MWV, Field
  <2> HIDE DEF apparent, speedApparent, speedTrue, angleApparent, angleTrue, speed, angle
  <2> QED
    BY <2>1
<1>2. units => speed = Number(UnitOf(f(3)) * f(2).n)
  <2> SUFFICES ASSUME units PROVE speed = Number(UnitOf(f(3)) * f(2).n)
    OBVIOUS
  <2>1. wsu = UnitOf(f(3))
    <3>1. \A a, b : Str(a) = Str(b) <=> a = b
      BY StrParts
    <3>2. /\ Upper(Str("K")) = Str("K") /\ Upper(Str("N")) = Str("N")
          /\ Upper(Str("M")) \notin {Str("K"), Str("N")}
      BY StrParts, Capital
    <3> QED
      BY <3>1, <3>2 DEF UnitOf
  <2> HIDE DEF wsu, f
  <2> QED
    BY <2>1, ReadNumeral, TransformNumber
<1>3. round => angle = Number(DEG * OffBow(f(0).n))
  <2> SUFFICES ASSUME round PROVE angle = Number(DEG * OffBow(f(0).n))
    OBVIOUS
  <2>1. bearing = Number(f(0).n) /\ bearing.n = f(0).n /\ bearing # NaN
    BY ReadNumeral, NumberParts
  <2>2. ConvertToWindAngle(f(0).n) = OffBow(f(0).n)
    <3> HIDE DEF f
    <3>1. f(0).n % 360 = f(0).n /\ ~ (f(0).n < 0)
      OBVIOUS
    <3> QED
      BY <3>1 DEF ConvertToWindAngle, OffBow
  <2> HIDE DEF bearing, f
  <2> QED
    BY <2>1, <2>2, TransformNumber
<1> DEFINE Wind(letter, p1, p2) ==
             /\ 1 \in entry.damaged \/ f(1) = Str(letter)
             /\ Told(entry, p1, {1 .. 3}, units, Number(UnitOf(f(3)) * f(2).n))
             /\ Told(entry, p2, {{0, 1}}, round, Number(DEG * OffBow(f(0).n)))
<1>4. \/ /\ Only(entry, {speedApparent, angleApparent, speedTrue, angleTrue})
         /\ Wind("R", speedApparent, angleApparent)
         /\ Told(entry, speedTrue, {{1}}, TRUE, Undefined)
         /\ Told(entry, angleTrue, {{1}}, TRUE, Undefined)
      \/ Only(entry, {speedTrue, angleTrue}) /\ Wind("T", speedTrue, angleTrue)
  BY DEF Winds, Marked
<1>5. /\ f(1) = Str("R") => apparent
      /\ f(1) = Str("T") => ~ apparent
      /\ 1 \in entry.damaged => ~ apparent
  <2>1. Upper(Str("R")) = Str("R") /\ Upper(Str("T")) # Str("R")
    BY StrParts, Capital
  <2>2. Unreadable(f(1)) => ~ apparent
    BY ReadUnreadable, StrParts, Capital DEF Unreadable, Letters
  <2> QED
    BY <2>1, <2>2
<1>6. /\ \A fact \in entry.facts : 1 \in entry.damaged
            /\ fact.from \in {{1 .. 3}, {{0, 1}}, {{1}}} => ~ Intact(entry, fact)
  BY DEF Intact
<1> HIDE DEF f, speedApparent, angleApparent, speedTrue, angleTrue, speed, angle, units,
             round
<1>7. ASSUME NEW p1, NEW p2, NEW letter, Wind(letter, p1, p2)
      PROVE  Correct(entry, p1, speed) /\ Correct(entry, p2, angle)
  BY <1>2, <1>3, <1>7, ToldRow
<1>8. CASE apparent
  <2>1. 1 \notin entry.damaged /\ f(1) # Str("T")
    BY <1>5, <1>8
  <2>2. /\ Only(entry, {speedApparent, angleApparent, speedTrue, angleTrue})
        /\ Wind("R", speedApparent, angleApparent)
        /\ Told(entry, speedTrue, {{1}}, TRUE, Undefined)
        /\ Told(entry, angleTrue, {{1}}, TRUE, Undefined)
    BY <1>4, <2>1
  <2>3. Correct(entry, speedApparent, speed) /\ Correct(entry, angleApparent, angle)
    BY <1>7, <2>2
  <2>4. Covered(entry, {speedApparent, angleApparent})
    BY <2>2 DEF Only, Covered, Told, FactsAt
  <2> HIDE DEF apparent, hears, knows
  <2>5. MWV(entry.line.parts, tags) \in {Null, hears}
    BY <1>1, <1>8
  <2> QED
    BY <2>3, <2>4, <2>5, AgreesTwo DEF hears
<1>9. CASE ~ apparent
  <2>1. f(1) # Str("R")
    BY <1>5, <1>9
  <2>2. /\ Correct(entry, speedTrue, speed) /\ Correct(entry, angleTrue, angle)
        /\ Covered(entry, {speedTrue, angleTrue})
    <3>1. CASE /\ Only(entry, {speedApparent, angleApparent, speedTrue, angleTrue})
               /\ Wind("R", speedApparent, angleApparent)
               /\ Told(entry, speedTrue, {{1}}, TRUE, Undefined)
               /\ Told(entry, angleTrue, {{1}}, TRUE, Undefined)
      <4>1. 1 \in entry.damaged
        BY <2>1, <3>1
      <4>2. \A path \in {speedApparent, angleApparent, speedTrue, angleTrue} :
               \A fact \in FactsAt(entry, path) : ~ Intact(entry, fact)
        BY <1>6, <3>1, <4>1 DEF Told, FactsAt
      <4>3. Correct(entry, speedTrue, speed) /\ Correct(entry, angleTrue, angle)
        BY <3>1, <4>2 DEF Correct, Told
      <4>4. Covered(entry, {speedTrue, angleTrue})
        BY <3>1, <4>2 DEF Only, Covered, FactsAt
      <4> QED
        BY <4>3, <4>4
    <3>2. CASE Only(entry, {speedTrue, angleTrue}) /\ Wind("T", speedTrue, angleTrue)
      BY <1>7, <3>2, OnlyCovered
    <3> QED
      BY <1>4, <3>1, <3>2
  <2> HIDE DEF apparent, hears, knows
  <2>3. MWV(entry.line.parts, tags) \in {Null, knows}
    BY <1>1, <1>9
  <2> QED
    BY <2>2, <2>3, AgreesTwo DEF knows
<1> QED
  BY <1>8, <1>9

\* A shaft whose letter is damaged is taken for an engine.
LEMMA Revolutions ==
    ASSUME NEW entry, Engines(entry), entry.line.id = "RPM", NEW tags,
           \A i \in entry.damaged : Unreadable(Field(entry, i))
    PROVE  Agrees(entry, RPM(entry.line.parts, tags))
<1> DEFINE f(i) == Field(entry, i)
           shaft == "propulsion.shaft"
           engine == "propulsion.engine"
           value == [s |-> "revolutions", number |-> f(1),
                     rate |-> Transform(Float(f(2)), PER_MINUTE)]
           told == [s |-> "revolutions", number |-> f(1),
                    rate |-> Number(PER_MINUTE * f(2).n)]
           isShaft == Upper(f(0)) = Str("S")
           ofShaft == Delta(<<Pair(shaft, value)>>, tags.timestamp)
           ofEngine == Delta(<<Pair(engine, value)>>, tags.timestamp)
<1>1. RPM(entry.line.parts, tags) \in {Rejected, IF isShaft THEN ofShaft ELSE ofEngine}
  <2>1. RPM(entry.line.parts, tags)
          \in {Rejected,
               Delta(<<Pair(IF isShaft THEN shaft ELSE engine, value)>>, tags.timestamp)}
    BY Zenon DEF RPM, Field
  <2> HIDE DEF isShaft, shaft, engine, value
  <2> QED
    BY <2>1
<1> DEFINE Revolves(letter, path) ==
             /\ 0 \in entry.damaged \/ f(0) = Str(letter)
             /\ Told(entry, path, {0 .. 2}, IsNumeral(f(2)), told)
<1>2. \/ /\ Only(entry, {shaft, engine}) /\ Revolves("S", shaft)
         /\ Told(entry, engine, {{0}}, TRUE, Undefined)
      \/ Only(entry, {engine}) /\ Revolves("E", engine)
  BY DEF Engines, Marked
<1>3. IsNumeral(f(2)) => value = told
  <2> HIDE DEF f
  <2> QED
    BY ReadNumeral, TransformNumber
<1>4. /\ f(0) = Str("S") => isShaft
      /\ f(0) = Str("E") => ~ isShaft
      /\ 0 \in entry.damaged => ~ isShaft
  <2>1. Upper(Str("S")) = Str("S") /\ Upper(Str("E")) # Str("S")
    BY StrParts, Capital
  <2>2. Unreadable(f(0)) => ~ isShaft
    BY ReadUnreadable, StrParts, Capital DEF Unreadable, Letters
  <2> QED
    BY <2>1, <2>2
<1>5. \A fact \in entry.facts : 0 \in entry.damaged
          /\ fact.from \in {{0 .. 2}, {{0}}} => ~ Intact(entry, fact)
  BY DEF Intact
<1> HIDE DEF f, shaft, engine, value, told
<1>6. ASSUME NEW path, NEW letter, Revolves(letter, path)
      PROVE  Correct(entry, path, value)
  BY <1>3, <1>6, ToldRow
<1>7. CASE isShaft
  <2>1. /\ Only(entry, {shaft, engine}) /\ Revolves("S", shaft)
        /\ Told(entry, engine, {{0}}, TRUE, Undefined)
    BY <1>2, <1>4, <1>7
  <2>2. Correct(entry, shaft, value)
    BY <1>6, <2>1
  <2>3. Covered(entry, {shaft})
    BY <2>1 DEF Only, Covered, Told, FactsAt
  <2> DEFINE values == <<Pair(shaft, value)>>
  <2>4. Says(entry, Carried(values))
    BY <2>2, <2>3, SaysOne
  <2> HIDE DEF isShaft, values
  <2>5. RPM(entry.line.parts, tags) \in {Rejected, Delta(values, tags.timestamp)}
    BY <1>1, <1>7 DEF values
  <2> QED
    BY <2>4, <2>5, AgreesDelta
<1>8. CASE ~ isShaft
  <2>1. Correct(entry, engine, value) /\ Covered(entry, {engine})
    <3>1. CASE /\ Only(entry, {shaft, engine}) /\ Revolves("S", shaft)
               /\ Told(entry, engine, {{0}}, TRUE, Undefined)
      <4>1. 0 \in entry.damaged
        BY <1>4, <1>8, <3>1
      <4>2. \A path \in {shaft, engine} :
               \A fact \in FactsAt(entry, path) : ~ Intact(entry, fact)
        BY <1>5, <3>1, <4>1 DEF Told, FactsAt
      <4>3. Correct(entry, engine, value)
        BY <3>1, <4>2 DEF Correct, Told
      <4>4. Covered(entry, {engine})
        BY <3>1, <4>2 DEF Only, Covered, FactsAt
      <4> QED
        BY <4>3, <4>4
    <3>2. CASE Only(entry, {engine}) /\ Revolves("E", engine)
      BY <1>6, <3>2, OnlyCovered
    <3> QED
      BY <1>2, <3>1, <3>2
  <2> DEFINE values == <<Pair(engine, value)>>
  <2>2. Says(entry, Carried(values))
    BY <2>1, SaysOne
  <2> HIDE DEF isShaft, values
  <2>3. RPM(entry.line.parts, tags) \in {Rejected, Delta(values, tags.timestamp)}
    BY <1>1, <1>8 DEF values
  <2> QED
    BY <2>2, <2>3, AgreesDelta
<1> QED
  BY <1>7, <1>8

\* A speed given twice survives the loss of either.
LEMMA TwiceRow ==
    ASSUME NEW entry, Whole(entry), NEW path, NEW i \in Nat, NEW others,
           TwiceTold(entry, path, i, others),
           \A k \in entry.damaged : Unreadable(Field(entry, k))
    PROVE  Correct(entry, path,
                   SpeedOf(Field(entry, i), Field(entry, i + 1),
                           Field(entry, i + 2), Field(entry, i + 3)))
<1> DEFINE f(k) == Field(entry, k)
           speed == SpeedOf(f(i), f(i + 1), f(i + 2), f(i + 3))
           knots == Positive(Float(f(i))) /\ Upper(f(i + 1)) = Str("N")
           kilometres == Positive(Float(f(i + 2))) /\ Upper(f(i + 3)) = Str("K")
<1>1. speed = IF knots THEN Transform(Float(f(i)), KNOTS)
              ELSE IF kilometres THEN Transform(Float(f(i + 2)), KPH) ELSE Number(0)
  BY DEF SpeedOf
<1>2. /\ FactsAt(entry, path) # {}
      /\ i + 1 \in entry.damaged \/ f(i + 1) = Str("N")
      /\ i + 3 \in entry.damaged \/ f(i + 3) = Str("K")
  BY DEF TwiceTold, Marked
<1>3. \A k \in entry.damaged : ~ Positive(Float(f(k)))
  BY ReadUnreadable
<1> SUFFICES ASSUME NEW fact \in FactsAt(entry, path), Intact(entry, fact)
             PROVE  fact.value = speed
  BY <1>2 DEF Correct
<1>4. /\ fact.from = {others \cup {i, i + 1}, others \cup {i + 2, i + 3}}
      /\ i \notin entry.damaged =>
             /\ IsNumeral(f(i)) /\ f(i).n >= 0 /\ fact.value = Number(KNOTS * f(i).n)
      /\ i + 2 \notin entry.damaged =>
             /\ IsNumeral(f(i + 2)) /\ f(i + 2).n >= 0
             /\ fact.value = Number(KPH * f(i + 2).n)
  BY DEF TwiceTold
<1>5. \/ {i, i + 1} \cap entry.damaged = {}
      \/ {i + 2, i + 3} \cap entry.damaged = {}
  BY <1>4 DEF Intact
<1>6. i \notin entry.damaged =>
        /\ Float(f(i)) = Number(f(i).n) /\ f(i).n \in Nat
        /\ Positive(Float(f(i))) <=> f(i).n > 0
        /\ fact.value = Transform(Float(f(i)), KNOTS)
  <2> SUFFICES ASSUME i \notin entry.damaged
               PROVE  /\ Float(f(i)) = Number(f(i).n) /\ f(i).n \in Nat
                      /\ Positive(Float(f(i))) <=> f(i).n > 0
                      /\ fact.value = Transform(Float(f(i)), KNOTS)
    OBVIOUS
  <2>1. Float(f(i)) = Number(f(i).n) /\ f(i).n \in Nat
    BY <1>4, ReadNumeral DEF Whole
  <2> HIDE DEF f
  <2> QED
    BY <1>4, <2>1, NumberParts, TransformNumber DEF Positive
<1>7. i + 2 \notin entry.damaged =>
        /\ Float(f(i + 2)) = Number(f(i + 2).n) /\ f(i + 2).n \in Nat
        /\ Positive(Float(f(i + 2))) <=> f(i + 2).n > 0
        /\ fact.value = Transform(Float(f(i + 2)), KPH)
  <2> SUFFICES ASSUME i + 2 \notin entry.damaged
               PROVE  /\ Float(f(i + 2)) = Number(f(i + 2).n) /\ f(i + 2).n \in Nat
                      /\ Positive(Float(f(i + 2))) <=> f(i + 2).n > 0
                      /\ fact.value = Transform(Float(f(i + 2)), KPH)
    OBVIOUS
  <2>1. Float(f(i + 2)) = Number(f(i + 2).n) /\ f(i + 2).n \in Nat
    BY <1>4, ReadNumeral DEF Whole
  <2> HIDE DEF f
  <2> QED
    BY <1>4, <2>1, NumberParts, TransformNumber DEF Positive
<1>8. Upper(Str("N")) = Str("N") /\ Upper(Str("K")) = Str("K")
  BY Capital, StrParts
<1> HIDE DEF f, speed
<1>9. CASE knots
  <2>1. i \notin entry.damaged
    BY <1>3, <1>9
  <2> QED
    BY <1>1, <1>6, <1>9, <2>1
<1>10. CASE ~ knots /\ kilometres
  <2>1. i + 2 \notin entry.damaged
    BY <1>3, <1>10
  <2> QED
    BY <1>1, <1>7, <1>10, <2>1
<1>11. CASE ~ knots /\ ~ kilometres
  <2>1. speed = Number(0)
    BY <1>1, <1>11
  <2>2. CASE {i, i + 1} \cap entry.damaged = {}
    <3>1. f(i).n = 0 /\ i \notin entry.damaged
      BY <1>2, <1>6, <1>8, <1>11, <2>2
    <3> QED
      BY <1>4, <2>1, <3>1 DEF KNOTS
  <2>3. CASE {i + 2, i + 3} \cap entry.damaged = {}
    <3>1. f(i + 2).n = 0 /\ i + 2 \notin entry.damaged
      BY <1>2, <1>7, <1>8, <1>11, <2>3
    <3> QED
      BY <1>4, <2>1, <3>1 DEF KPH
  <2> QED
    BY <1>5, <2>2, <2>3
<1> QED
  BY <1>9, <1>10, <1>11

LEMMA CourseAndSpeed ==
    ASSUME NEW entry, Whole(entry), Courses(entry), entry.line.id = "VTG", NEW tags,
           \A k \in entry.damaged : Unreadable(Field(entry, k))
    PROVE  Agrees(entry, VTG(entry.line.parts, tags))
<1> DEFINE p1 == "navigation.courseOverGroundMagnetic"
           p2 == "navigation.courseOverGroundTrue"
           p3 == "navigation.speedOverGround"
           v1 == Transform(Float(Field(entry, 2)), DEG)
           v2 == Transform(Float(Field(entry, 0)), DEG)
           v3 == SpeedOf(Field(entry, 4), Field(entry, 5), Field(entry, 6), Field(entry, 7))
           values == <<Pair(p1, v1), Pair(p2, v2), Pair(p3, v3)>>
<1>1. VTG(entry.line.parts, tags) \in {Null, Delta(values, tags.timestamp)}
  BY Zenon DEF VTG, Field
<1>2. /\ Only(entry, {p2, p1, p3}) /\ Counted(entry, p2, 0, DEG)
      /\ Counted(entry, p1, 2, DEG) /\ TwiceTold(entry, p3, 4, {})
  BY DEF Courses
<1>3. Correct(entry, p1, v1) /\ Correct(entry, p2, v2)
  BY <1>2, CountedRow
<1>4. Correct(entry, p3, v3)
  <2>1. 4 + 1 = 5 /\ 4 + 2 = 6 /\ 4 + 3 = 7 /\ 4 \in Nat
    OBVIOUS
  <2>2. Correct(entry, p3, SpeedOf(Field(entry, 4), Field(entry, 4 + 1),
                                   Field(entry, 4 + 2), Field(entry, 4 + 3)))
    BY <1>2, <2>1, TwiceRow, Zenon
  <2> QED
    BY <2>1, <2>2
<1>5. Covered(entry, {p1, p2, p3})
  BY <1>2 DEF Only, Covered
<1> HIDE DEF p1, p2, p3, v1, v2, v3
<1>6. Says(entry, Carried(values))
  BY <1>3, <1>4, <1>5, SaysThree
<1> HIDE DEF values
<1> QED
  BY <1>1, <1>6, AgreesDelta

\* The first field tells the three sentences of KEP apart; one that is damaged
\* is none of them.
LEMMA Performance ==
    ASSUME NEW entry, Whole(entry), Courses(entry), entry.line.id = "KEP", NEW tags,
           \A k \in entry.damaged : Unreadable(Field(entry, k))
    PROVE  Agrees(entry, KEP(entry.line.parts, tags))
<1> DEFINE f(i) == Field(entry, i)
           angle == Float(f(1))
           course == IF Positive(angle) THEN Transform(angle, DEG) ELSE Number(0)
           speed == SpeedOf(f(1), f(2), f(3), f(4))
           target == "performance.targetSpeed"
           tack == "performance.tackMagnetic"
           best == "performance.targetAngle"
           d1 == Delta(<<Pair(target, speed)>>, tags.timestamp)
           d2 == Delta(<<Pair(tack, course)>>, tags.timestamp)
           d3 == Delta(<<Pair(best, course)>>, tags.timestamp)
           outcome == KEP(entry.line.parts, tags)
           nodelta == Outcome("nodelta")
<1>1. /\ f(0) = Num(1) => outcome \in {Null, d1}
      /\ f(0) = Num(2) => outcome \in {Null, d2}
      /\ f(0) = Num(3) => outcome \in {Null, d3}
      /\ f(0) \notin {Num(1), Num(2), Num(3)} => outcome = nodelta
  <2>1. Num(1) # Num(2) /\ Num(1) # Num(3) /\ Num(2) # Num(3)
    BY DEF Num
  <2> DEFINE one == f(0) = Num(1)
             two == f(0) = Num(2)
             three == f(0) = Num(3)
             noSpeed == f(1) = Empty /\ f(3) = Empty
             noAngle == f(1) = Empty
  <2>2. outcome = CASE one -> IF noSpeed THEN Null ELSE d1
                    [] f(0) \in {Num(2), Num(3)} /\ noAngle -> Null
                    [] two /\ ~ noAngle -> d2
                    [] three /\ ~ noAngle -> d3
                    [] OTHER -> nodelta
    BY Zenon DEF KEP, Field
  <2>3. f(0) \in {Num(2), Num(3)} <=> two \/ three
    OBVIOUS
  <2>4. /\ one => ~ two /\ ~ three
        /\ two => ~ three
    BY <2>1
  <2> HIDE DEF f, outcome, d1, d2, d3, nodelta, noSpeed, noAngle
  <2>5. one => outcome \in {Null, d1}
    BY <2>2, <2>3, <2>4
  <2>6. two => outcome \in {Null, d2}
    BY <2>2, <2>3, <2>4
  <2>7. three => outcome \in {Null, d3}
    BY <2>2, <2>3, <2>4
  <2>8. ~ one /\ ~ two /\ ~ three => outcome = nodelta
    BY <2>2, <2>3
  <2> QED
    BY <2>5, <2>6, <2>7, <2>8
<1> DEFINE Angled(kind, path) ==
             /\ 0 \in entry.damaged \/ f(0) = Num(kind)
             /\ Only(entry, {path})
             /\ Told(entry, path, {{0, 1}}, IsNumeral(f(1)) /\ f(1).n >= 0,
                     Number(DEG * f(1).n))
<1>2. \/ /\ 0 \in entry.damaged \/ f(0) = Num(1)
         /\ Only(entry, {target}) /\ TwiceTold(entry, target, 1, {0})
      \/ Angled(2, tack) \/ Angled(3, best)
  BY DEF Courses, Marked
<1>3. 0 \in entry.damaged => f(0) \notin {Num(1), Num(2), Num(3)}
  BY ReadUnreadable
<1>4. IsNumeral(f(1)) /\ f(1).n >= 0 => course = Number(DEG * f(1).n)
  <2> SUFFICES ASSUME IsNumeral(f(1)), f(1).n >= 0 PROVE course = Number(DEG * f(1).n)
    OBVIOUS
  <2>1. angle = Number(f(1).n) /\ f(1).n \in Int
    BY ReadNumeral DEF Whole
  <2>2. (Positive(angle) <=> f(1).n > 0) /\ (f(1).n > 0 \/ f(1).n = 0)
    BY <2>1, NumberParts DEF Positive
  <2> HIDE DEF f, angle
  <2> QED
    BY <2>1, <2>2, TransformNumber DEF DEG
<1>5. ASSUME NEW kind, NEW path, Angled(kind, path)
      PROVE  Correct(entry, path, course)
  <2> HIDE DEF course, f
  <2> QED
    BY <1>4, <1>5, ToldRow
<1>6. TwiceTold(entry, target, 1, {0}) => Correct(entry, target, speed)
  <2>1. 1 + 1 = 2 /\ 1 + 2 = 3 /\ 1 + 3 = 4 /\ 1 \in Nat
    OBVIOUS
  <2>2. TwiceTold(entry, target, 1, {0}) =>
          Correct(entry, target, SpeedOf(f(1), f(1 + 1), f(1 + 2), f(1 + 3)))
    BY <2>1, TwiceRow, Zenon
  <2> QED
    BY <2>1, <2>2
<1>7. Num(1) # Num(2) /\ Num(1) # Num(3) /\ Num(2) # Num(3)
  BY DEF Num
<1> HIDE DEF f, course, speed, outcome, target, tack, best
<1>8. CASE f(0) = Num(1)
  BY <1>1, <1>2, <1>3, <1>6, <1>7, <1>8, AgreesOne DEF outcome
<1>9. CASE f(0) = Num(2)
  <2>1. Angled(2, tack)
    BY <1>2, <1>3, <1>7, <1>9
  <2>2. Correct(entry, tack, course) /\ Only(entry, {tack})
    BY <1>5, <2>1
  <2> QED
    BY <1>1, <1>9, <2>2, AgreesOne DEF outcome
<1>10. CASE f(0) = Num(3)
  <2>1. Angled(3, best)
    BY <1>2, <1>3, <1>7, <1>10
  <2>2. Correct(entry, best, course) /\ Only(entry, {best})
    BY <1>5, <2>1
  <2> QED
    BY <1>1, <1>10, <2>2, AgreesOne DEF outcome
<1>11. CASE f(0) \notin {Num(1), Num(2), Num(3)}
  <2>1. outcome.type = "nodelta"
    BY <1>1, <1>11, OutcomeType
  <2> QED
    BY <2>1 DEF Agrees, outcome
<1> QED
  BY <1>8, <1>9, <1>10, <1>11

\* Fields that are empty are left out, and tell nothing.
LEMMA HeadingAndVariation ==
    ASSUME NEW entry, Whole(entry), Courses(entry), entry.line.id = "HDG", NEW tags
    PROVE  Agrees(entry, HDG(entry.line.parts, tags))
<1> DEFINE f(i) == Field(entry, i)
           path1 == "navigation.headingMagnetic"
           path2 == "navigation.magneticVariation"
           v1 == Transform(Float(f(0)), DEG)
           v2 == Transform(Transform(Float(f(3)), DEG), IF f(4) = Str("E") THEN 1 ELSE -1)
           c1 == ~ IsEmpty(f(0))
           c2 == ~ IsEmpty(f(3)) /\ ~ IsEmpty(f(4))
           p1 == Pair(path1, v1)
           p2 == Pair(path2, v2)
           values == When(c1, p1) \o When(c2, p2)
           carried == (IF c1 THEN {p1} ELSE {}) \cup (IF c2 THEN {p2} ELSE {})
           told == Number(DEG * Signed(entry, 3, "W"))
           signed == HasSign(entry, 3, "E", "W")
<1>1. HDG(entry.line.parts, tags) \in {Null, Delta(values, tags.timestamp)}
  BY Zenon DEF HDG, Field
<1>2. /\ Only(entry, {path1, path2})
      /\ Told(entry, path1, {{0}}, IsNumeral(f(0)), Number(DEG * f(0).n))
      /\ Told(entry, path2, {{3, 4}}, signed, told)
      /\ Counted(entry, path1, 0, DEG)
  BY DEF Courses, Counted, SignedCount
<1>3. Carried(values) = carried
  <2> DEFINE first == When(c1, p1)
             one == IF c1 THEN {p1} ELSE {}
  <2> HIDE DEF c1, c2, p1, p2
  <2>1. Lists(first, one)
    BY ListsWhen
  <2> HIDE DEF first, one
  <2>2. Lists(first \o When(c2, p2), one \cup (IF c2 THEN {p2} ELSE {}))
    BY <2>1, ListsMore
  <2> QED
    BY <2>2 DEF Lists, first, one
<1>4. \A field : IsNumeral(field) => ~ IsEmpty(field)
  BY NotEmpty
<1>5. signed => v2 = told /\ c2
  <2> SUFFICES ASSUME signed PROVE v2 = told /\ c2
    OBVIOUS
  <2>1. /\ IsNumeral(f(3)) /\ f(3).n \in Int /\ f(4) \in {Str("E"), Str("W")}
        /\ Signed(entry, 3, "W") = IF f(4) = Str("W") THEN - f(3).n ELSE f(3).n
    BY DEF HasSign, Whole, Signed
  <2>2. Str("E") # Str("W") /\ ~ IsEmpty(Str("E")) /\ ~ IsEmpty(Str("W"))
    BY StrParts, NotEmpty DEF Letters
  <2> DEFINE sign == IF f(4) = Str("E") THEN 1 ELSE -1
  <2>3. v2 = Number(sign * (DEG * f(3).n))
    <3> HIDE DEF f
    <3> QED
      BY <2>1, ReadNumeral, TransformNumber
  <2>4. sign * (DEG * f(3).n) = DEG * Signed(entry, 3, "W")
    BY <2>1, <2>2 DEF DEG
  <2> QED
    BY <1>4, <2>1, <2>2, <2>3, <2>4
<1>6. Correct(entry, path1, v1)
  BY <1>2, CountedRow
<1> HIDE DEF path1, path2, v1, v2, told, signed
<1>7. Correct(entry, path2, v2)
  BY <1>2, <1>5, ToldRow
<1>8. /\ Right(entry, p1) /\ p1.path = path1
      /\ Right(entry, p2) /\ p2.path = path2
  BY <1>6, <1>7, RightPair
<1>9. Covered(entry, (IF c1 THEN {path1} ELSE {}) \cup (IF c2 THEN {path2} ELSE {}))
  BY <1>2, <1>4, <1>5 DEF Covered, Only, Told, FactsAt
<1> HIDE DEF c1, c2, p1, p2
<1>10. Says(entry, carried)
  BY <1>8, <1>9, RightAll
<1> HIDE DEF values
<1> QED
  BY <1>1, <1>3, <1>10, AgreesDelta

LEMMA HeadingsAndSpeed ==
    ASSUME NEW entry, Courses(entry), entry.line.id = "VHW", NEW tags
    PROVE  Agrees(entry, VHW(entry.line.parts, tags))
<1> DEFINE f(i) == Field(entry, i)
           path1 == "navigation.headingTrue"
           path2 == "navigation.headingMagnetic"
           path3 == "navigation.speedThroughWater"
           p1 == Pair(path1, Transform(Float(f(0)), DEG))
           p2 == Pair(path2, Transform(Float(f(2)), DEG))
           p3 == Pair(path3, Transform(Float(f(4)), KNOTS))
           c1 == f(0) # Empty
           c2 == f(2) # Empty
           c3 == f(4) # Empty
           one == IF c1 THEN {p1} ELSE {}
           two == one \cup (IF c2 THEN {p2} ELSE {})
           carried == two \cup (IF c3 THEN {p3} ELSE {})
           values == When(c1, p1) \o When(c2, p2) \o When(c3, p3)
<1>1. VHW(entry.line.parts, tags) = Delta(values, tags.timestamp)
  BY Zenon DEF VHW, Field
<1>2. /\ Only(entry, {path1, path2, path3})
      /\ Counted(entry, path1, 0, DEG) /\ Counted(entry, path2, 2, DEG)
      /\ Counted(entry, path3, 4, KNOTS)
  BY DEF Courses
<1>3. Carried(values) = carried
  <2> DEFINE first == When(c1, p1)
             second == first \o When(c2, p2)
  <2> HIDE DEF c1, c2, c3, p1, p2, p3
  <2>1. Lists(first, one)
    BY ListsWhen
  <2> HIDE DEF first, one
  <2>2. Lists(second, two)
    BY <2>1, ListsMore
  <2> HIDE DEF second, two
  <2>3. Lists(second \o When(c3, p3), carried)
    BY <2>2, ListsMore
  <2> QED
    BY <2>3 DEF Lists, first, second
<1>4. /\ Right(entry, p1) /\ p1.path = path1
      /\ Right(entry, p2) /\ p2.path = path2
      /\ Right(entry, p3) /\ p3.path = path3
  BY <1>2, CountedRow, RightPair
<1>5. /\ \A fact \in FactsAt(entry, path1) : Intact(entry, fact) => c1
      /\ \A fact \in FactsAt(entry, path2) : Intact(entry, fact) => c2
      /\ \A fact \in FactsAt(entry, path3) : Intact(entry, fact) => c3
  <2>1. ASSUME NEW path, NEW i, NEW unit, Counted(entry, path, i, unit),
               NEW fact \in FactsAt(entry, path), Intact(entry, fact)
        PROVE  f(i) # Empty
    <3>1. IsNumeral(f(i))
      BY <2>1 DEF Counted, Told
    <3> QED
      BY <3>1, NotEmpty
  <2> QED
    BY <1>2, <2>1
<1> HIDE DEF path1, path2, path3, p1, p2, p3, c1, c2, c3
<1>6. Covered(entry, (IF c1 THEN {path1} ELSE {}) \cup (IF c2 THEN {path2} ELSE {})
                       \cup (IF c3 THEN {path3} ELSE {}))
  BY <1>2, <1>5 DEF Covered, Only, FactsAt
<1>7. Says(entry, carried)
  BY <1>4, <1>6, RightAll
<1> HIDE DEF values
<1> QED
  BY <1>1, <1>3, <1>7, AgreesDelta

\* The offset says where the depth is measured from by its sign, and is
\* published with the depth from there.
LEMMA Sounder ==
    ASSUME NEW entry, Whole(entry), Depths(entry), entry.line.id = "DPT", NEW tags,
           \A k \in entry.damaged : Unreadable(Field(entry, k))
    PROVE  Agrees(entry, DPT(entry.line.parts, tags))
<1> DEFINE depth == Float(Field(entry, 0))
           offset == Float(Field(entry, 1))
           n == Field(entry, 1).n
           path1 == "environment.depth.belowTransducer"
           path2 == "environment.depth.surfaceToTransducer"
           path3 == "environment.depth.belowSurface"
           path4 == "environment.depth.transducerToKeel"
           path5 == "environment.depth.belowKeel"
           p1 == Pair(path1, depth)
           p2 == Pair(path2, offset)
           p3 == Pair(path3, Plus(depth, offset))
           p4 == Pair(path4, Transform(offset, -1))
           p5 == Pair(path5, Plus(depth, offset))
           up == Positive(offset)
           down == Negative(offset)
           two == {p1} \cup (IF up THEN {p2} ELSE {})
           three == two \cup (IF up THEN {p3} ELSE {})
           four == three \cup (IF down THEN {p4} ELSE {})
           carried == four \cup (IF down THEN {p5} ELSE {})
           values == <<p1>> \o When(up, p2) \o When(up, p3) \o When(down, p4)
                     \o When(down, p5)
<1>1. DPT(entry.line.parts, tags) \in {Null, Delta(values, tags.timestamp)}
  BY Zenon DEF DPT, Field
<1>2. Carried(values) = carried
  <2> DEFINE list1 == <<p1>>
             list2 == list1 \o When(up, p2)
             list3 == list2 \o When(up, p3)
             list4 == list3 \o When(down, p4)
             one == {p1}
  <2> HIDE DEF up, down, p1, p2, p3, p4, p5
  <2>1. Lists(list1, one)
    BY ListsOne
  <2> HIDE DEF list1, one
  <2>2. Lists(list2, two)
    BY <2>1, ListsMore DEF one
  <2> HIDE DEF list2, two
  <2>3. Lists(list3, three)
    BY <2>2, ListsMore
  <2> HIDE DEF list3, three
  <2>4. Lists(list4, four)
    BY <2>3, ListsMore
  <2> HIDE DEF list4, four
  <2>5. Lists(list4 \o When(down, p5), carried)
    BY <2>4, ListsMore
  <2> QED
    BY <2>5 DEF Lists, list1, list2, list3, list4
<1> DEFINE size == Number(IF n < 0 THEN - n ELSE n)
           sum == Number(Field(entry, 0).n + n)
           Reads(condition) ==
               1 \in entry.damaged \/ (IsNumeral(Field(entry, 1)) /\ condition)
           From(path, place) ==
               /\ Only(entry, {path1, path, place})
               /\ Told(entry, path, {{1}}, TRUE, size)
               /\ Told(entry, place, {{0, 1}}, IsNumeral(Field(entry, 0)), sum)
<1>3. /\ Counted(entry, path1, 0, 1)
      /\ \/ Reads(n > 0) /\ From(path2, path3)
         \/ Reads(n < 0) /\ From(path4, path5)
         \/ Reads(n = 0) /\ Only(entry, {path1})
  BY DEF Depths
<1>4. Correct(entry, path1, depth)
  BY <1>3, PlainRow
<1>5. ASSUME IsNumeral(Field(entry, 1))
      PROVE  /\ up <=> n > 0
             /\ down <=> n < 0
             /\ n > 0 => offset = size
             /\ n < 0 => Transform(offset, -1) = size
             /\ IsNumeral(Field(entry, 0)) => Plus(depth, offset) = sum
  <2>1. offset = Number(n) /\ n \in Int /\ offset # NaN /\ offset.n = n
    BY <1>5, ReadNumeral, NumberParts DEF Whole
  <2>2. IsNumeral(Field(entry, 0)) => depth = Number(Field(entry, 0).n)
    BY ReadNumeral
  <2> HIDE DEF n, depth, offset
  <2>3. IsNumeral(Field(entry, 0)) => Plus(depth, offset) = sum
    BY <2>1, <2>2, NumberParts DEF Plus
  <2>4. Transform(offset, -1) = Number(-1 * n) /\ -1 * n = - n
    BY <2>1, TransformNumber
  <2> QED
    BY <2>1, <2>3, <2>4 DEF Positive, Negative
<1>6. 1 \in entry.damaged => ~ up /\ ~ down
  BY ReadUnreadable
<1>7. \A fact \in entry.facts : 1 \in entry.damaged
          /\ fact.from \in {{{0, 1}}, {{1}}} => ~ Intact(entry, fact)
  BY DEF Intact
<1>8. ASSUME 1 \in entry.damaged, NEW path, NEW place, From(path, place)
      PROVE  Covered(entry, {path1})
  BY <1>7, <1>8 DEF Covered, Only, Told, FactsAt
<1>9. Right(entry, p1) /\ p1.path = path1
  BY <1>4, RightPair
<1>10. CASE ~ up /\ ~ down
  <2>1. Covered(entry, {path1})
    <3>1. CASE 1 \in entry.damaged
      BY <1>3, <1>8, <3>1, OnlyCovered
    <3>2. CASE 1 \notin entry.damaged
      <4>1. IsNumeral(Field(entry, 1))
        BY <1>3, <3>2
      <4>2. Only(entry, {path1})
        <5> HIDE DEF up, down, n
        <5> QED
          BY <1>3, <1>5, <1>10, <3>2, <4>1
      <4> QED
        BY <4>2, OnlyCovered
    <3> QED
      BY <3>1, <3>2
  <2> HIDE DEF up, down, p1, p2, p3, p4, p5, path1
  <2>2. carried = {p1}
    BY <1>10
  <2> HIDE DEF carried
  <2>3. Says(entry, carried)
    BY <1>9, <2>1, <2>2, RightAll
  <2> HIDE DEF values
  <2> QED
    BY <1>1, <1>2, <2>3, AgreesDelta
<1>11. CASE up
  <2>1. 1 \notin entry.damaged /\ IsNumeral(Field(entry, 1)) /\ n \in Int
    BY <1>3, <1>6, <1>11 DEF Whole
  <2>2. n > 0 /\ ~ (n < 0) /\ n # 0 /\ ~ down
    <3> HIDE DEF up, down, n
    <3> QED
      BY <1>5, <1>11, <2>1
  <2>3. From(path2, path3)
    BY <1>3, <2>1, <2>2
  <2>4. Correct(entry, path2, offset) /\ Correct(entry, path3, Plus(depth, offset))
    <3> HIDE DEF size, sum, n, depth, offset
    <3> QED
      BY <1>5, <2>1, <2>2, <2>3, ToldRow
  <2>5. Covered(entry, {path1, path2, path3})
    BY <2>3, OnlyCovered
  <2>6. /\ Right(entry, p2) /\ p2.path = path2
        /\ Right(entry, p3) /\ p3.path = path3
    BY <2>4, RightPair
  <2> HIDE DEF up, down, p1, p2, p3, p4, p5, path1, path2, path3, path4, path5
  <2>7. carried = {p1, p2, p3}
    BY <1>11, <2>2
  <2> HIDE DEF carried
  <2>8. Says(entry, carried)
    BY <1>9, <2>5, <2>6, <2>7, RightAll
  <2> HIDE DEF values
  <2> QED
    BY <1>1, <1>2, <2>8, AgreesDelta
<1>12. CASE down
  <2>1. 1 \notin entry.damaged /\ IsNumeral(Field(entry, 1)) /\ n \in Int
    BY <1>3, <1>6, <1>12 DEF Whole
  <2>2. n < 0 /\ ~ (n > 0) /\ n # 0 /\ ~ up
    <3> HIDE DEF down, up, n
    <3> QED
      BY <1>5, <1>12, <2>1
  <2>3. From(path4, path5)
    BY <1>3, <2>1, <2>2
  <2>4. /\ Correct(entry, path4, Transform(offset, -1))
        /\ Correct(entry, path5, Plus(depth, offset))
    <3> HIDE DEF size, sum, n, depth, offset
    <3> QED
      BY <1>5, <2>1, <2>2, <2>3, ToldRow
  <2>5. Covered(entry, {path1, path4, path5})
    BY <2>3, OnlyCovered
  <2>6. /\ Right(entry, p4) /\ p4.path = path4
        /\ Right(entry, p5) /\ p5.path = path5
    BY <2>4, RightPair
  <2> HIDE DEF down, up, p1, p2, p3, p4, p5, path1, path2, path3, path4, path5
  <2>7. carried = {p1, p4, p5}
    BY <1>12, <2>2
  <2> HIDE DEF carried
  <2>8. Says(entry, carried)
    BY <1>9, <2>5, <2>6, <2>7, RightAll
  <2> HIDE DEF values
  <2> QED
    BY <1>1, <1>2, <2>8, AgreesDelta
<1> QED
  BY <1>10, <1>11, <1>12

LEMMA Waypoints ==
    ASSUME NEW entry, NEW t, Whole(entry), Positions(entry, t), entry.line.id = "GLL",
           NEW clock
    PROVE  Agrees(entry, GLL(entry.line.parts, clock))
<1> DEFINE f(i) == Field(entry, i)
           path == "navigation.position"
           position == Position(Coordinate(f(0), f(1)), Coordinate(f(2), f(3)))
           time == Timestamp(f(4), Today(clock), clock)
<1>1. GLL(entry.line.parts, clock) \in {Null, Catch, Delta(<<Pair(path, position)>>, time)}
  BY Zenon DEF GLL, Field
<1>2. Only(entry, {path}) /\ Fixed(entry, path, 0)
  BY DEF Positions
<1>3. Correct(entry, path, position)
  <2>1. 0 + 1 = 1 /\ 0 + 2 = 2 /\ 0 + 3 = 3 /\ 0 \in Nat
    OBVIOUS
  <2>2. Correct(entry, path, Position(Coordinate(f(0), f(0 + 1)),
                                      Coordinate(f(0 + 2), f(0 + 3))))
    BY <1>2, <2>1, FixedRow, Zenon
  <2> QED
    BY <2>1, <2>2
<1> HIDE DEF path, position, time
<1> QED
  BY <1>1, <1>2, <1>3, AgreesOne

\* The date and the time are one number when both fields are there.
LEMMA DatedRow ==
    ASSUME NEW entry, NEW t \in Nat, NEW path, NEW clock,
           Told(entry, path, {{0, 8}},
                Field(entry, 0) = Num(t % DAY) /\ Field(entry, 8) = Today(t), Number(t))
    PROVE  Correct(entry, path, Timestamp(Field(entry, 0), Field(entry, 8), clock))
<1> DEFINE readable == Field(entry, 0) = Num(t % DAY) /\ Field(entry, 8) = Today(t)
           time == Timestamp(Field(entry, 0), Field(entry, 8), clock)
<1>1. readable => time = Number(t)
  BY DatedByTheLine
<1> HIDE DEF readable, time
<1>2. Told(entry, path, {{0, 8}}, readable, Number(t))
  BY DEF readable
<1>3. Correct(entry, path, time)
  BY <1>1, <1>2, ToldRow
<1> QED
  BY <1>3 DEF time

LEMMA Minimum ==
    ASSUME NEW entry, NEW t \in Nat, Whole(entry), Positions(entry, t),
           entry.line.id = "RMC", NEW clock
    PROVE  Agrees(entry, RMC(entry.line.parts, clock))
<1> DEFINE f(i) == Field(entry, i)
           path1 == "navigation.position"
           path2 == "navigation.courseOverGroundTrue"
           path3 == "navigation.speedOverGround"
           path4 == "navigation.magneticVariation"
           path5 == "navigation.magneticVariationAgeOfService"
           path6 == "navigation.datetime"
           speed == Float(f(6))
           v1 == Position(Coordinate(f(2), f(3)), Coordinate(f(4), f(5)))
           v2 == Transform(OrZero(Float(f(7))), DEG)
           v3 == Transform(IF Positive(speed) THEN speed ELSE Number(0), KNOTS)
           v4 == Transform(Variation(f(9), f(10)), DEG)
           v5 == Timestamp(f(0), f(8), clock)
           values == <<Pair(path1, v1), Pair(path2, v2), Pair(path3, v3), Pair(path4, v4),
                       Pair(path5, v5), Pair(path6, v5)>>
<1>1. RMC(entry.line.parts, clock) \in {Rejected, Delta(values, v5)}
  BY Zenon DEF RMC, Field
<1>2. /\ Only(entry, {path1, path3, path2, path4, path5, path6})
      /\ Fixed(entry, path1, 2)
      /\ Amount(entry, path3, 6, KNOTS)
      /\ Counted(entry, path2, 7, DEG)
      /\ SignedCount(entry, path4, 9, "E", "W", DEG)
      /\ Told(entry, path5, {{0, 8}}, f(0) = Num(t % DAY) /\ f(8) = Today(t), Number(t))
      /\ Told(entry, path6, {{0, 8}}, f(0) = Num(t % DAY) /\ f(8) = Today(t), Number(t))
  BY DEF Positions
<1>3. Correct(entry, path1, v1)
  <2>1. 2 + 1 = 3 /\ 2 + 2 = 4 /\ 2 + 3 = 5 /\ 2 \in Nat
    OBVIOUS
  <2>2. Correct(entry, path1, Position(Coordinate(f(2), f(2 + 1)),
                                       Coordinate(f(2 + 2), f(2 + 3))))
    BY <1>2, <2>1, FixedRow, Zenon
  <2> QED
    BY <2>1, <2>2
<1>4. Correct(entry, path2, v2)
  BY <1>2, CountedRow
<1>5. Correct(entry, path3, v3)
  <2>1. KNOTS \in Int /\ 6 \in Nat
    BY DEF KNOTS
  <2> QED
    BY <1>2, <2>1, AmountRow, Zenon
<1>6. Correct(entry, path4, v4)
  <2> DEFINE readable == HasSign(entry, 9, "E", "W")
             told == Number(DEG * Signed(entry, 9, "W"))
  <2>1. readable => v4 = told
    <3> SUFFICES ASSUME readable PROVE v4 = told
      OBVIOUS
    <3>1. /\ IsNumeral(f(9)) /\ f(9).n \in Int /\ f(10) \in {Str("E"), Str("W")}
          /\ Signed(entry, 9, "W") = IF f(10) = Str("W") THEN - f(9).n ELSE f(9).n
      BY DEF HasSign, Whole, Signed
    <3>2. Variation(f(9), f(10)) = Number(Signed(entry, 9, "W"))
      BY <3>1, Hemisphere
    <3> HIDE DEF f
    <3> QED
      BY <3>2, TransformNumber
  <2>2. Told(entry, path4, {{9, 10}}, readable, told)
    BY <1>2 DEF SignedCount
  <2> HIDE DEF readable, told, v4, path4
  <2> QED
    BY <2>1, <2>2, ToldRow
<1>7. Correct(entry, path5, v5) /\ Correct(entry, path6, v5)
  BY <1>2, DatedRow
<1> HIDE DEF path1, path2, path3, path4, path5, path6, v1, v2, v3, v4, v5
<1>8. Says(entry, Carried(values))
  <2>1. Covered(entry, {path1, path3, path2, path4, path5, path6})
    BY <1>2, OnlyCovered
  <2> DEFINE a == Pair(path1, v1)
             b == Pair(path2, v2)
             c == Pair(path3, v3)
             d == Pair(path4, v4)
             e == Pair(path5, v5)
             g == Pair(path6, v5)
  <2>2. /\ Right(entry, a) /\ a.path = path1 /\ Right(entry, b) /\ b.path = path2
        /\ Right(entry, c) /\ c.path = path3 /\ Right(entry, d) /\ d.path = path4
        /\ Right(entry, e) /\ e.path = path5 /\ Right(entry, g) /\ g.path = path6
    BY <1>3, <1>4, <1>5, <1>6, <1>7, RightPair
  <2> HIDE DEF a, b, c, d, e, g
  <2>3. Carried(<<a, b, c, d, e, g>>) = {a, b, c, d, e, g}
    BY DEF Carried
  <2>4. Says(entry, {a, b, c, d, e, g})
    BY <2>1, <2>2, RightAll
  <2> QED
    BY <2>3, <2>4 DEF a, b, c, d, e, g
<1> HIDE DEF values
<1> QED
  BY <1>1, <1>8, AgreesDelta

LEMMA Destination ==
    ASSUME NEW entry, NEW t, Whole(entry), Positions(entry, t), entry.line.id = "RMB",
           NEW tags
    PROVE  Agrees(entry, RMB(entry.line.parts, tags))
<1> DEFINE f(i) == Field(entry, i)
           path1 == "navigation.courseRhumbline.nextPoint"
           path2 == "navigation.courseRhumbline.nextPoint.bearingTrue"
           path3 == "navigation.courseRhumbline.nextPoint.velocityMadeGood"
           path4 == "navigation.courseRhumbline.nextPoint.distance"
           path5 == "navigation.courseRhumbline.crossTrackError"
           latitude == Coordinate(f(5), f(6))
           longitude == Coordinate(f(7), f(8))
           vmg == Float(f(11))
           xte == OrZero(Float(f(1)))
           v1 == Position(latitude, longitude)
           v2 == Transform(OrZero(Float(f(10))), DEG)
           v3 == Transform(IF Positive(vmg) THEN vmg ELSE Number(0), KNOTS)
           v4 == Transform(OrZero(Float(f(9))), NM)
           v5 == Transform(IF f(2) = Str("R") THEN xte ELSE Transform(xte, -1), NM)
           values == <<Pair(path1, v1), Pair(path2, v2), Pair(path3, v3), Pair(path4, v4),
                       Pair(path5, v5)>>
<1>1. RMB(entry.line.parts, tags) \in {Null, Thrown, Delta(values, tags.timestamp)}
  BY Zenon DEF RMB, Field
<1>2. /\ Only(entry, {path1, path2, path3, path4, path5})
      /\ Fixed(entry, path1, 5)
      /\ Counted(entry, path2, 10, DEG)
      /\ Amount(entry, path3, 11, KNOTS)
      /\ Counted(entry, path4, 9, NM)
      /\ SignedCount(entry, path5, 1, "R", "L", NM)
  BY DEF Positions
<1>3. Correct(entry, path1, v1)
  <2>1. 5 + 1 = 6 /\ 5 + 2 = 7 /\ 5 + 3 = 8 /\ 5 \in Nat
    OBVIOUS
  <2>2. Correct(entry, path1, Position(Coordinate(f(5), f(5 + 1)),
                                       Coordinate(f(5 + 2), f(5 + 3))))
    BY <1>2, <2>1, FixedRow, Zenon
  <2> QED
    BY <2>1, <2>2
<1>4. Correct(entry, path2, v2) /\ Correct(entry, path4, v4)
  BY <1>2, CountedRow
<1>5. Correct(entry, path3, v3)
  <2>1. KNOTS \in Int /\ 11 \in Nat
    BY DEF KNOTS
  <2> QED
    BY <1>2, <2>1, AmountRow, Zenon
<1>6. Correct(entry, path5, v5)
  <2> DEFINE readable == HasSign(entry, 1, "R", "L")
             told == Number(NM * Signed(entry, 1, "L"))
  <2>1. readable => v5 = told
    <3> SUFFICES ASSUME readable PROVE v5 = told
      OBVIOUS
    <3>1. /\ IsNumeral(f(1)) /\ f(1).n \in Int /\ f(2) \in {Str("R"), Str("L")}
          /\ Signed(entry, 1, "L") = IF f(2) = Str("L") THEN - f(1).n ELSE f(1).n
      BY DEF HasSign, Whole, Signed
    <3>2. xte = Number(f(1).n) /\ Str("R") # Str("L")
      BY <3>1, ReadNumeral, StrParts
    <3>3. Transform(xte, -1) = Number(- f(1).n)
      <4>1. -1 * f(1).n = - f(1).n
        BY <3>1
      <4> HIDE DEF f, xte
      <4>2. Transform(xte, -1) = Number(-1 * f(1).n)
        BY <3>1, <3>2, TransformNumber
      <4> QED
        BY <4>1, <4>2
    <3> HIDE DEF f, xte
    <3> QED
      BY <3>1, <3>2, <3>3, TransformNumber
  <2>2. Told(entry, path5, {{1, 2}}, readable, told)
    BY <1>2 DEF SignedCount
  <2> HIDE DEF readable, told, v5, path5
  <2> QED
    BY <2>1, <2>2, ToldRow
<1> HIDE DEF path1, path2, path3, path4, path5, v1, v2, v3, v4, v5
<1>7. Says(entry, Carried(values))
  <2>1. Covered(entry, {path1, path2, path3, path4, path5})
    BY <1>2, OnlyCovered
  <2> DEFINE a == Pair(path1, v1)
             b == Pair(path2, v2)
             c == Pair(path3, v3)
             d == Pair(path4, v4)
             e == Pair(path5, v5)
  <2>2. /\ Right(entry, a) /\ a.path = path1 /\ Right(entry, b) /\ b.path = path2
        /\ Right(entry, c) /\ c.path = path3 /\ Right(entry, d) /\ d.path = path4
        /\ Right(entry, e) /\ e.path = path5
    BY <1>3, <1>4, <1>5, <1>6, RightPair
  <2> HIDE DEF a, b, c, d, e
  <2>3. Carried(<<a, b, c, d, e>>) = {a, b, c, d, e}
    BY DEF Carried
  <2>4. Says(entry, {a, b, c, d, e})
    BY <2>1, <2>2, RightAll
  <2> QED
    BY <2>3, <2>4 DEF a, b, c, d, e
<1> HIDE DEF values
<1> QED
  BY <1>1, <1>7, AgreesDelta

LEMMA DateAndTime ==
    ASSUME NEW entry, NEW t \in Nat, Positions(entry, t), entry.line.id = "ZDA", NEW tags
    PROVE  Agrees(entry, ZDA(entry.line.parts, tags))
<1> DEFINE f(i) == Field(entry, i)
           path == "navigation.datetime"
           readable == f(0) = Num(t % DAY) /\ f(1) = Today(t)
           v == Number(f(0).n + f(1).n)
<1>1. ZDA(entry.line.parts, tags)
        \in {Null, Catch, Delta(<<Pair(path, v)>>, tags.timestamp)}
  BY Zenon DEF ZDA, Field
<1>2. Only(entry, {path}) /\ Told(entry, path, {0 .. 3}, readable, Number(t))
  BY DEF Positions
<1>3. readable => v = Number(t)
  <2> SUFFICES ASSUME readable PROVE v = Number(t)
    OBVIOUS
  <2>1. f(0).n = t % DAY /\ f(1).n = t - (t % DAY)
    BY NumParts DEF Today
  <2>2. (t % DAY) + (t - (t % DAY)) = t
    BY DEF DAY, MINUTE
  <2> QED
    BY <2>1, <2>2
<1> HIDE DEF path, v, readable
<1>4. Correct(entry, path, v)
  BY <1>2, <1>3, ToldRow
<1> QED
  BY <1>1, <1>2, <1>4, AgreesOne

\* A context beside the values changes nothing about them.
LEMMA AgreesAside ==
    ASSUME NEW entry, NEW values, Says(entry, Carried(values)), NEW timestamp, NEW context,
           NEW outcome,
           outcome \in {Null, Rejected, Catch,
                        [Delta(values, timestamp) EXCEPT !.context = context]}
    PROVE  Agrees(entry, outcome)
<1> DEFINE delta == [Delta(values, timestamp) EXCEPT !.context = context]
<1>1. delta.values = values
  BY DEF Delta, Outcome
<1>2. Agrees(entry, delta)
  <2> HIDE DEF delta
  <2> QED
    BY <1>1 DEF Agrees
<1>3. Agrees(entry, Null) /\ Agrees(entry, Rejected) /\ Agrees(entry, Catch)
  BY OtherTypes DEF Agrees
<1> HIDE DEF delta
<1> QED
  BY <1>2, <1>3 DEF delta

\* The category of a call is a number; where it is damaged, there is no delta.
LEMMA Distress ==
    ASSUME NEW entry, Calls(entry), entry.line.id = "DSC", NEW tags,
           \A k \in entry.damaged : Unreadable(Field(entry, k))
    PROVE  Agrees(entry, DSC(entry.line.parts, tags))
<1> DEFINE f(i) == Field(entry, i)
           path1 == "navigation.position"
           path2 == "notifications"
           called == f(5)
           v1 == ParsePosition(called)
           v2 == Str(DistressNature(f(3)))
           p1 == Pair(path1, v1)
           p2 == Pair(path2, v2)
           distress == f(2) = Num(12)
           handled == distress \/ (f(2) = Num(0) /\ f(3) = Num(21))
           context == [prefix |-> "vessels.", mmsi |-> f(1)]
           values == <<p1>> \o When(distress, p2)
           delta == [Delta(values, tags.timestamp) EXCEPT !.context = context]
           outcome == DSC(entry.line.parts, tags)
<1>1. outcome \in {Null, Catch} \/ (handled /\ outcome = delta)
  <2> DEFINE many == Empties(entry.line.parts) > 3
             stops == ~ DEBUG \/ ~ handled \/ called = Undefined
  <2>1. outcome = IF many THEN Null ELSE IF stops THEN Catch ELSE delta
    BY Zenon DEF DSC, Field
  <2>2. ~ stops => handled
    OBVIOUS
  <2> HIDE DEF outcome, many, stops, delta, handled
  <2> QED
    BY <2>1, <2>2
<1> DEFINE readable1 == called.s = "dsc" /\ called.quadrant \in 0 .. 3
           told1 == Position(Number(IF called.quadrant \in {0, 1} THEN called.latitude
                                    ELSE - called.latitude),
                             Number(IF called.quadrant \in {0, 2} THEN called.longitude
                                    ELSE - called.longitude))
           readable2 == IsNumeral(f(3)) /\ f(3).n \in 0 .. 10
           told2 == Str(DistressNatures[f(3).n + 1])
<1>2. /\ Told(entry, path1, {{5}}, readable1, told1)
      /\ \/ /\ 2 \in entry.damaged \/ f(2) = Num(12)
            /\ Only(entry, {path1, path2})
            /\ Told(entry, path2, {{3}}, readable2, told2)
         \/ /\ 2 \notin entry.damaged => f(2) # Num(12)
            /\ Only(entry, {path1})
  BY DEF Calls, Marked
<1>3. readable1 => v1 = told1
  <2> HIDE DEF called
  <2>1. called.s = "dsc" => v1 = Position(Number(IF called.quadrant \in {2, 3}
                                                 THEN - called.latitude ELSE called.latitude),
                                          Number(IF called.quadrant \in {1, 3}
                                                 THEN - called.longitude ELSE called.longitude))
    BY DEF ParsePosition
  <2> QED
    BY <2>1
<1>4. readable2 => v2 = told2
  <2>1. readable2 => DistressNature(f(3)) = DistressNatures[f(3).n + 1]
    <3> HIDE DEF f
    <3>1. readable2 => f(3) # Num(12)
      BY NumParts
    <3> QED
      BY <3>1 DEF DistressNature
  <2> QED
    BY <2>1
<1>5. \A k \in entry.damaged : \A i : f(k) # Num(i)
  BY ReadUnreadable
<1>6. Num(12) # Num(0)
  BY DEF Num
<1> HIDE DEF f, path1, path2, v1, v2, readable1, told1, readable2, told2, context
<1>7. Correct(entry, path1, v1)
  BY <1>2, <1>3, ToldRow
<1>8. CASE outcome \in {Null, Catch}
  BY <1>8, OtherTypes DEF Agrees
<1>9. CASE handled /\ outcome = delta
  <2>1. 2 \notin entry.damaged
    BY <1>5, <1>9
  <2>2. Right(entry, p1) /\ p1.path = path1
    BY <1>7, RightPair
  <2>3. /\ distress => Right(entry, p2) /\ p2.path = path2
        /\ Covered(entry, IF distress THEN {path1, path2} ELSE {path1})
    <3>1. CASE distress
      <4>1. Only(entry, {path1, path2}) /\ Told(entry, path2, {{3}}, readable2, told2)
        BY <1>2, <2>1, <3>1
      <4>2. Correct(entry, path2, v2)
        BY <1>4, <4>1, ToldRow
      <4> QED
        BY <3>1, <4>1, <4>2, OnlyCovered, RightPair
    <3>2. CASE ~ distress
      <4>1. Only(entry, {path1})
        BY <1>2, <1>6, <1>9, <2>1, <3>2
      <4> QED
        BY <3>2, <4>1, OnlyCovered
    <3> QED
      BY <3>1, <3>2
  <2> DEFINE one == {p1}
             list == <<p1>>
             carried == one \cup (IF distress THEN {p2} ELSE {})
  <2> HIDE DEF p1, p2, distress
  <2>4. Lists(list, one)
    BY ListsOne
  <2>5. Says(entry, carried)
    BY <2>2, <2>3, RightAll
  <2> HIDE DEF one, list
  <2>6. Lists(list \o When(distress, p2), carried)
    BY <2>4, ListsMore
  <2>7. Says(entry, Carried(values))
    BY <2>5, <2>6 DEF Lists, list
  <2> HIDE DEF values
  <2> QED
    BY <1>9, <2>7, AgreesAside DEF outcome
<1> QED
  BY <1>1, <1>8, <1>9

\* The reports of a message, one by one.
LEMMA ShipReported ==
    ASSUME NEW data
    PROVE  \A x :
             x \in {[path |-> report.path, value |-> report.value] :
                       report \in {report \in Reports(data) : report.known}} <=>
               \/ /\ Truthy(data.mmsi)
                  /\ x = Pair("", [s |-> "mmsi", of |-> data.mmsi])
               \/ /\ Truthy(data.shipname)
                  /\ x = Pair("", [s |-> "name", of |-> data.shipname])
               \/ /\ Truthy(data.callsign)
                  /\ x = Pair("", [s |-> "callsign", of |-> data.callsign])
               \/ /\ data.sog # Undefined
                  /\ x = Pair("navigation.speedOverGround", Number(KNOTS * data.sog.n))
               \/ /\ data.cog # Undefined
                  /\ x = Pair("navigation.courseOverGroundTrue", Number(DEG * data.cog.n))
               \/ /\ data.hdg # Undefined
                  /\ x = Pair("navigation.headingTrue", Number(DEG * data.hdg.n))
               \/ /\ Truthy(data.lat) /\ Truthy(data.lon)
                  /\ x = Pair("navigation.position", Position(data.lat, data.lon))
               \/ /\ Truthy(data.length)
                  /\ x = Pair("design.length", data.length)
               \/ /\ Truthy(data.width)
                  /\ x = Pair("design.beam", data.width)
               \/ /\ Truthy(data.draught)
                  /\ x = Pair("design.draft", data.draught)
               \/ /\ Truthy(data.dimA)
                  /\ x = Pair("sensors.ais.fromBow", data.dimA)
               \/ /\ Truthy(data.width) /\ Truthy(data.dimD)
                  /\ x = Pair("sensors.ais.fromCenter",
                              [s |-> "halves",
                               n |-> (data.width.n - data.dimD.n) - data.dimD.n])
               \/ /\ Truthy(data.navstatus) /\ data.navstatus.n \in DOMAIN StateMapping
                  /\ x = Pair("navigation.state", Str(StateMapping[data.navstatus.n]))
               \/ /\ Truthy(data.destination)
                  /\ x = Pair("navigation.destination.commonName", data.destination)
               \/ /\ Truthy(data.aidtype) /\ data.aidtype.n \in AtonTypes
                  /\ x = Pair("atonType", data.aidtype)
               \/ /\ Truthy(data.cargo) /\ data.cargo.n \in ShipTypes
                  /\ x = Pair("design.aisShipType", data.cargo)
<1> DEFINE Report(known, path, value) == [known |-> known, path |-> path, value |-> value]
           r1 == Report(Truthy(data.mmsi), "", [s |-> "mmsi", of |-> data.mmsi])
           r2 == Report(Truthy(data.shipname), "", [s |-> "name", of |-> data.shipname])
           r3 == Report(Truthy(data.callsign), "", [s |-> "callsign", of |-> data.callsign])
           r4 == Report(data.sog # Undefined,
                         "navigation.speedOverGround",
                         Number(KNOTS * data.sog.n))
           r5 == Report(data.cog # Undefined,
                         "navigation.courseOverGroundTrue",
                         Number(DEG * data.cog.n))
           r6 == Report(data.hdg # Undefined,
                         "navigation.headingTrue",
                         Number(DEG * data.hdg.n))
           r7 == Report(Truthy(data.lat) /\ Truthy(data.lon),
                         "navigation.position",
                         Position(data.lat, data.lon))
           r8 == Report(Truthy(data.length), "design.length", data.length)
           r9 == Report(Truthy(data.width), "design.beam", data.width)
           r10 == Report(Truthy(data.draught), "design.draft", data.draught)
           r11 == Report(Truthy(data.dimA), "sensors.ais.fromBow", data.dimA)
           r12 == Report(Truthy(data.width) /\ Truthy(data.dimD),
                         "sensors.ais.fromCenter",
                         [s |-> "halves", n |-> (data.width.n - data.dimD.n) - data.dimD.n])
           r13 == Report(Truthy(data.navstatus) /\ data.navstatus.n \in DOMAIN StateMapping,
                         "navigation.state",
                         Str(StateMapping[data.navstatus.n]))
           r14 == Report(Truthy(data.destination),
                         "navigation.destination.commonName",
                         data.destination)
           r15 == Report(Truthy(data.aidtype) /\ data.aidtype.n \in AtonTypes,
                         "atonType",
                         data.aidtype)
           r16 == Report(Truthy(data.cargo) /\ data.cargo.n \in ShipTypes,
                         "design.aisShipType",
                         data.cargo)
           said == {[path |-> report.path, value |-> report.value] :
                       report \in {report \in Reports(data) : report.known}}
<1>1. Reports(data)
        = {r1, r2, r3, r4, r5, r6, r7, r8, r9, r10, r11, r12, r13, r14, r15, r16}
  BY Zenon DEF Reports
<1>2. ASSUME NEW known, NEW path, NEW value
      PROVE  /\ Report(known, path, value).known <=> known
             /\ [path |-> Report(known, path, value).path,
                 value |-> Report(known, path, value).value] = Pair(path, value)
  BY DEF Pair
<1>3. \A x : x \in said <=> \E report \in Reports(data) :
                   report.known /\ x = [path |-> report.path, value |-> report.value]
  BY Zenon
<1> DEFINE Means(x, report) ==
             report.known /\ x = [path |-> report.path, value |-> report.value]
<1> HIDE DEF said, r1, r2, r3, r4, r5, r6, r7, r8, r9, r10, r11, r12, r13, r14, r15, r16
<1>4. \A x : x \in said <=>
         \/ Means(x, r1) \/ Means(x, r2) \/ Means(x, r3) \/ Means(x, r4)
         \/ Means(x, r5) \/ Means(x, r6) \/ Means(x, r7) \/ Means(x, r8)
         \/ Means(x, r9) \/ Means(x, r10) \/ Means(x, r11) \/ Means(x, r12)
         \/ Means(x, r13) \/ Means(x, r14) \/ Means(x, r15) \/ Means(x, r16)
  <2> TAKE x
  <2>1. x \in said <=> \E report \in Reports(data) : Means(x, report)
    BY <1>3
  <2> HIDE DEF Means
  <2> QED
    BY <1>1, <2>1
<1> TAKE x
<1>5. Means(x, r1) <=>
        /\ Truthy(data.mmsi)
        /\ x = Pair("", [s |-> "mmsi", of |-> data.mmsi])
  BY DEF r1, Pair
<1>6. Means(x, r2) <=>
        /\ Truthy(data.shipname)
        /\ x = Pair("", [s |-> "name", of |-> data.shipname])
  BY DEF r2, Pair
<1>7. Means(x, r3) <=>
        /\ Truthy(data.callsign)
        /\ x = Pair("", [s |-> "callsign", of |-> data.callsign])
  BY DEF r3, Pair
<1>8. Means(x, r4) <=>
        /\ data.sog # Undefined
        /\ x = Pair("navigation.speedOverGround", Number(KNOTS * data.sog.n))
  BY DEF r4, Pair
<1>9. Means(x, r5) <=>
        /\ data.cog # Undefined
        /\ x = Pair("navigation.courseOverGroundTrue", Number(DEG * data.cog.n))
  BY DEF r5, Pair
<1>10. Means(x, r6) <=>
        /\ data.hdg # Undefined
        /\ x = Pair("navigation.headingTrue", Number(DEG * data.hdg.n))
  BY DEF r6, Pair
<1>11. Means(x, r7) <=>
        /\ Truthy(data.lat) /\ Truthy(data.lon)
        /\ x = Pair("navigation.position", Position(data.lat, data.lon))
  BY DEF r7, Pair
<1>12. Means(x, r8) <=>
        /\ Truthy(data.length)
        /\ x = Pair("design.length", data.length)
  BY DEF r8, Pair
<1>13. Means(x, r9) <=>
        /\ Truthy(data.width)
        /\ x = Pair("design.beam", data.width)
  BY DEF r9, Pair
<1>14. Means(x, r10) <=>
        /\ Truthy(data.draught)
        /\ x = Pair("design.draft", data.draught)
  BY DEF r10, Pair
<1>15. Means(x, r11) <=>
        /\ Truthy(data.dimA)
        /\ x = Pair("sensors.ais.fromBow", data.dimA)
  BY DEF r11, Pair
<1>16. Means(x, r12) <=>
        /\ Truthy(data.width) /\ Truthy(data.dimD)
        /\ x = Pair("sensors.ais.fromCenter",
                    [s |-> "halves",
                     n |-> (data.width.n - data.dimD.n) - data.dimD.n])
  BY DEF r12, Pair
<1>17. Means(x, r13) <=>
        /\ Truthy(data.navstatus) /\ data.navstatus.n \in DOMAIN StateMapping
        /\ x = Pair("navigation.state", Str(StateMapping[data.navstatus.n]))
  BY DEF r13, Pair
<1>18. Means(x, r14) <=>
        /\ Truthy(data.destination)
        /\ x = Pair("navigation.destination.commonName", data.destination)
  BY DEF r14, Pair
<1>19. Means(x, r15) <=>
        /\ Truthy(data.aidtype) /\ data.aidtype.n \in AtonTypes
        /\ x = Pair("atonType", data.aidtype)
  BY DEF r15, Pair
<1>20. Means(x, r16) <=>
        /\ Truthy(data.cargo) /\ data.cargo.n \in ShipTypes
        /\ x = Pair("design.aisShipType", data.cargo)
  BY DEF r16, Pair
<1> HIDE DEF Means
<1> QED
  BY <1>4, <1>5, <1>6, <1>7, <1>8, <1>9, <1>10, <1>11, <1>12, <1>13, <1>14, <1>15,
     <1>16, <1>17, <1>18, <1>19, <1>20, Zenon DEF said

\* An AIS message is put together from what it reports and nothing else.
LEMMA OtherVessels ==
    ASSUME NEW entry, Ships(entry), entry.line.id \in {"VDM", "VDO"}, NEW tags
    PROVE  /\ Agrees(entry, VDM(entry.line.data, tags))
           /\ Agrees(entry, VDO(entry.line.data, tags))
<1> DEFINE data == entry.line.data
           values == VDMValues(data)
           reports == {report \in Reports(data) : report.known}
           context == [prefix |-> ContextPrefix(data), mmsi |-> data.mmsi]
           delta == [Delta(values, tags.timestamp) EXCEPT !.context = context]
<1>1. VDM(data, tags) \in {Null, Rejected, delta}
  BY Zenon DEF VDM
<1>2. /\ NaN \notin {data.sog, data.cog, data.hdg}
      /\ data.width.n \in Int /\ data.dimD.n \in Int
      /\ {[path |-> fact.path, value |-> fact.value] : fact \in entry.facts}
           = {[path |-> report.path, value |-> report.value] : report \in reports}
  BY DEF Ships
<1>3. Carried(values)
        = {[path |-> report.path, value |-> report.value] : report \in reports}
  <2> DEFINE said == {[path |-> report.path, value |-> report.value] : report \in reports}
  <2>1. /\ Transform(data.sog, KNOTS) = Number(KNOTS * data.sog.n)
        /\ Transform(data.cog, DEG) = Number(DEG * data.cog.n)
        /\ Transform(data.hdg, DEG) = Number(DEG * data.hdg.n)
    BY <1>2 DEF Transform
  <2>2. FromCenter(data.width.n, data.dimD.n)
          = [s |-> "halves", n |-> (data.width.n - data.dimD.n) - data.dimD.n]
    BY <1>2 DEF FromCenter
  <2>3. ASSUME NEW pair PROVE pair \in Carried(values) <=> pair \in said
    <3> HIDE DEF data
    <3> QED
      BY <2>1, <2>2, ShipList, ShipReported, Zenon
  <2> HIDE DEF values, said
  <2>4. Carried(values) = said
    BY <2>3
  <2> QED
    BY <2>4 DEF said
<1>4. Carried(values) = {Pair(fact.path, fact.value) : fact \in entry.facts}
  BY <1>2, <1>3 DEF Pair
<1> HIDE DEF values
<1>5. Says(entry, Carried(values))
  BY <1>4, PairParts DEF Says, TrueTo, Keeps, FactsAt
<1> HIDE DEF data, context
<1>6. Agrees(entry, VDM(data, tags))
  BY <1>1, <1>5, AgreesAside
<1> QED
  BY <1>6 DEF VDO, data

-----------------------------------------------------------------------------
(***************************************************************************)
(* GGA: true to its line, and with all its values as long as there is one  *)
(* to remove at most.                                                      *)
(***************************************************************************)
LEMMA QualityRow ==
    ASSUME NEW quality, IsNumeral(quality), quality.n \in 0 .. 9
    PROVE  QualityOf(Float(quality)) = Str(Quality[quality.n + 1])
BY ReadNumeral, NumberParts DEF QualityOf

LEMMA QualityIsNamed == \A k \in 0 .. 9 : Str(Quality[k + 1]) # NaN
<1>1. /\ Quality[1] # "NaN" /\ Quality[2] # "NaN" /\ Quality[3] # "NaN"
      /\ Quality[4] # "NaN" /\ Quality[5] # "NaN" /\ Quality[6] # "NaN"
      /\ Quality[7] # "NaN" /\ Quality[8] # "NaN" /\ Quality[9] # "NaN"
      /\ Quality[10] # "NaN"
  BY DEF Quality
<1>2. ASSUME NEW k \in 0 .. 9 PROVE Quality[k + 1] # "NaN"
  <2>1. \/ k + 1 = 1 \/ k + 1 = 2 \/ k + 1 = 3 \/ k + 1 = 4 \/ k + 1 = 5
        \/ k + 1 = 6 \/ k + 1 = 7 \/ k + 1 = 8 \/ k + 1 = 9 \/ k + 1 = 10
    OBVIOUS
  <2> QED
    BY <1>1, <2>1, Zenon
<1> QED
  BY <1>2, StrParts DEF NaN

\* GGA's separation is the unit of the separation, which is no number.
LEMMA SeparationRow ==
    ASSUME NEW entry,
           Told(entry, Geoidal, {{10, 11}}, Field(entry, 11) = Str("M"),
                Number(Field(entry, 10).n))
    PROVE  Right(entry, Pair(Geoidal, Float(Field(entry, 11))))
<1> DEFINE unit == Field(entry, 11)
           value == Float(unit)
<1>1. CASE unit = Str("M")
  <2>1. unit.s = "M" /\ Empty.s = "" /\ Blank.s = " "
    BY <1>1 DEF Str, Empty, Blank
  <2>2. value = NaN
    BY <2>1, Zenon DEF Float, IsNumeral
  <2> QED
    BY <2>2, PairParts DEF Right
<1>2. CASE unit # Str("M")
  <2>1. Correct(entry, Geoidal, value)
    BY <1>2 DEF Told, Correct
  <2> QED
    BY <2>1, RightPair
<1> QED
  BY <1>1, <1>2

Fixes == <<"navigation.position", "navigation.gnss.methodQuality",
           "navigation.gnss.satellites", "navigation.gnss.antennaAltitude",
           "navigation.gnss.horizontalDilution", Geoidal,
           "navigation.gnss.differentialAge", "navigation.gnss.differentialReference">>

\* What the values of GGA are, one by one.
LEMMA FixValues ==
    ASSUME NEW entry, NEW t, Whole(entry), Positions(entry, t), entry.line.id = "GGA"
    PROVE  LET values == GGAValues(entry.line.parts)
           IN  /\ Len(values) = 8 /\ values \in Seq(Range(values))
               /\ \A j \in 1 .. 8 : values[j].path = Fixes[j] /\ Right(entry, values[j])
<1> DEFINE f(i) == Field(entry, i)
           v1 == Position(Coordinate(f(1), f(2)), Coordinate(f(3), f(4)))
           v2 == QualityOf(Float(f(5)))
           pairs == <<Pair(Fixes[1], v1), Pair(Fixes[2], v2), Pair(Fixes[3], Float(f(6))),
                      Pair(Fixes[4], Float(f(8))), Pair(Fixes[5], Float(f(7))),
                      Pair(Fixes[6], Float(f(11))), Pair(Fixes[7], Float(f(12))),
                      Pair(Fixes[8], Float(f(13)))>>
<1>1. GGAValues(entry.line.parts) = pairs
  BY DEF GGAValues, Field, Fixes, Geoidal
<1>2. Right(entry, Pair(Fixes[1], v1))
  <2>1. Fixed(entry, Fixes[1], 1)
    BY DEF Positions, Fixes
  <2>2. 1 + 1 = 2 /\ 1 + 2 = 3 /\ 1 + 3 = 4 /\ 1 \in Nat
    OBVIOUS
  <2>3. Correct(entry, Fixes[1], Position(Coordinate(f(1), f(1 + 1)),
                                          Coordinate(f(1 + 2), f(1 + 3))))
    BY <2>1, <2>2, FixedRow, Zenon
  <2>4. Correct(entry, Fixes[1], v1)
    BY <2>2, <2>3
  <2> HIDE DEF v1
  <2> QED
    BY <2>4, RightPair
<1>3. Right(entry, Pair(Fixes[2], v2))
  <2> DEFINE readable == IsNumeral(f(5)) /\ f(5).n \in 0 .. 9
             told == Str(Quality[f(5).n + 1])
  <2>1. Told(entry, Fixes[2], {{5}}, readable, told)
    BY DEF Positions, Fixes
  <2>2. readable => v2 = told
    BY QualityRow
  <2> HIDE DEF readable, told, v2
  <2>3. Correct(entry, Fixes[2], v2)
    BY <2>1, <2>2, ToldRow
  <2> QED
    BY <2>3, RightPair
<1>4. /\ Counted(entry, Fixes[3], 6, 1) /\ Counted(entry, Fixes[4], 8, 1)
      /\ Counted(entry, Fixes[5], 7, 1) /\ Counted(entry, Fixes[7], 12, 1)
      /\ Counted(entry, Fixes[8], 13, 1)
  BY DEF Positions, Fixes
<1>5. /\ Correct(entry, Fixes[3], Float(f(6))) /\ Correct(entry, Fixes[4], Float(f(8)))
      /\ Correct(entry, Fixes[5], Float(f(7))) /\ Correct(entry, Fixes[7], Float(f(12)))
      /\ Correct(entry, Fixes[8], Float(f(13)))
  BY <1>4, PlainRow
<1>6. Right(entry, Pair(Fixes[6], Float(f(11))))
  BY SeparationRow DEF Positions, Fixes, Geoidal
<1>7. \A j \in 1 .. 8 : Right(entry, pairs[j]) /\ pairs[j].path = Fixes[j]
  <2> HIDE DEF v1, v2, f
  <2>1. /\ Right(entry, pairs[1]) /\ Right(entry, pairs[2]) /\ Right(entry, pairs[3])
        /\ Right(entry, pairs[4]) /\ Right(entry, pairs[5]) /\ Right(entry, pairs[6])
        /\ Right(entry, pairs[7]) /\ Right(entry, pairs[8])
    BY <1>2, <1>3, <1>5, <1>6, RightPair DEF f
  <2>2. /\ pairs[1].path = Fixes[1] /\ pairs[2].path = Fixes[2] /\ pairs[3].path = Fixes[3]
        /\ pairs[4].path = Fixes[4] /\ pairs[5].path = Fixes[5] /\ pairs[6].path = Fixes[6]
        /\ pairs[7].path = Fixes[7] /\ pairs[8].path = Fixes[8]
    BY PairParts
  <2> HIDE DEF pairs
  <2> TAKE j \in 1 .. 8
  <2>3. j = 1 \/ j = 2 \/ j = 3 \/ j = 4 \/ j = 5 \/ j = 6 \/ j = 7 \/ j = 8
    OBVIOUS
  <2> QED
    BY <2>1, <2>2, <2>3, Zenon
<1>8. Len(pairs) = 8 /\ pairs \in Seq(Range(pairs))
  <2>1. Len(pairs) = 8 /\ DOMAIN pairs = 1 .. 8
    OBVIOUS
  <2>2. \A j \in 1 .. 8 : pairs[j] \in Range(pairs)
    <3> HIDE DEF pairs
    <3> QED
      BY <2>1 DEF Range
  <2>3. pairs = [j \in 1 .. 8 |-> pairs[j]]
    OBVIOUS
  <2> HIDE DEF pairs
  <2> QED
    BY <2>1, <2>2, <2>3
<1> HIDE DEF pairs
<1> QED
  BY <1>1, <1>7, <1>8

\* None of the values that are measured with a fix is NaN.
LEMMA MeasuredFix ==
    ASSUME NEW entry, NEW t, Positions(entry, t), entry.line.id = "GGA",
           NEW j \in 1 .. 8, Fixes[j] # Geoidal,
           NEW fact \in FactsAt(entry, Fixes[j]), Intact(entry, fact)
    PROVE  fact.value # NaN
<1>1. NaN.s = "NaN"
  BY DEF NaN, Str
<1>2. CASE j = 1
  <2>1. Fixed(entry, Fixes[j], 1)
    BY <1>2 DEF Positions, Fixes
  <2>2. fact.value.s = "position"
    BY <2>1 DEF Fixed, Told, Position
  <2> QED
    BY <1>1, <2>2
<1>3. CASE j = 2
  <2> DEFINE quality == Field(entry, 5)
  <2>1. Told(entry, Fixes[j], {{5}}, IsNumeral(quality) /\ quality.n \in 0 .. 9,
             Str(Quality[quality.n + 1]))
    BY <1>3 DEF Positions, Fixes
  <2> HIDE DEF quality
  <2>2. quality.n \in 0 .. 9 /\ fact.value = Str(Quality[quality.n + 1])
    BY <2>1 DEF Told
  <2> QED
    BY <2>2, QualityIsNamed
<1>4. CASE j \in {3, 4, 5, 7, 8}
  <2>1. \E i \in {6, 7, 8, 12, 13} : Counted(entry, Fixes[j], i, 1)
    BY <1>4 DEF Positions, Fixes
  <2>2. PICK i : Counted(entry, Fixes[j], i, 1)
    BY <2>1
  <2>3. fact.value = Number(1 * Field(entry, i).n)
    BY <2>2 DEF Counted, Told
  <2> QED
    BY <2>3, NumberParts
<1>5. j # 6
  BY DEF Fixes
<1> QED
  BY <1>2, <1>3, <1>4, <1>5

\* What GGA says of its sentence; a GGA line has a separation in any case.
LEMMA Fix ==
    ASSUME NEW entry, NEW t, Whole(entry), Positions(entry, t), entry.line.id = "GGA",
           NEW clock, GGA(entry.line.parts, clock).type = "delta"
    PROVE  LET carried == Carried(GGA(entry.line.parts, clock).values)
           IN  /\ TrueTo(entry, carried)
               /\ Cardinality(ToRemove(GGAValues(entry.line.parts))) <= 1 =>
                      Keeps(entry, carried)
<1> DEFINE values == GGAValues(entry.line.parts)
           left == RemoveUnusable(values)
           time == Timestamp(Field(entry, 0), Today(clock), clock)
           outcome == GGA(entry.line.parts, clock)
<1>1. outcome.values = left
  <2>1. outcome \in {Null, Catch, Delta(left, time)}
    BY Zenon DEF GGA, Field
  <2> HIDE DEF outcome, left, time
  <2> QED
    BY <2>1, TheDelta DEF outcome
<1>2. /\ Len(values) = 8 /\ values \in Seq(Range(values))
      /\ \A j \in 1 .. 8 : values[j].path = Fixes[j] /\ Right(entry, values[j])
  BY FixValues
<1> HIDE DEF values, outcome
<1>3. TrueTo(entry, Carried(left))
  <2>1. left \in Seq(Range(values))
    BY <1>2, RemoveUnusableKeeps
  <2>2. \A pair \in Range(values) : Right(entry, pair)
    BY <1>2 DEF Range
  <2>3. \A pair \in Carried(left) : pair \in Range(values)
    <3> HIDE DEF left
    <3> QED
      BY <2>1 DEF Carried
  <2> HIDE DEF left
  <2> QED
    BY <2>2, <2>3, RightOnes
<1>4. ASSUME Cardinality(ToRemove(values)) <= 1
      PROVE  Keeps(entry, Carried(left))
  <2> SUFFICES ASSUME NEW fact \in entry.facts, Intact(entry, fact), fact.value # Undefined,
                      fact.path \notin {"timestamp", Geoidal}
               PROVE  Pair(fact.path, fact.value) \in Carried(left)
    BY DEF Keeps
  <2>1. PICK j \in 1 .. 8 : fact.path = Fixes[j]
    <3>1. /\ Fixes[1] = "navigation.position"
          /\ Fixes[2] = "navigation.gnss.methodQuality"
          /\ Fixes[3] = "navigation.gnss.satellites"
          /\ Fixes[4] = "navigation.gnss.antennaAltitude"
          /\ Fixes[5] = "navigation.gnss.horizontalDilution"
          /\ Fixes[7] = "navigation.gnss.differentialAge"
          /\ Fixes[8] = "navigation.gnss.differentialReference"
      BY DEF Fixes
    <3>2. fact.path
            \in {Fixes[1], Fixes[2], Fixes[3], Fixes[4], Fixes[5], Fixes[7], Fixes[8]}
      BY <3>1 DEF Positions, Only, Geoidal
    <3>3. {1, 2, 3, 4, 5, 7, 8} \subseteq 1 .. 8
      OBVIOUS
    <3> QED
      BY <3>2, <3>3, Zenon
  <2>2. fact.value # NaN
    <3>1. fact \in FactsAt(entry, fact.path)
      BY DEF FactsAt
    <3> QED
      BY <2>1, <3>1, MeasuredFix
  <2>3. values[j] = Pair(fact.path, fact.value)
    <3>1. Right(entry, values[j]) /\ values[j].path = fact.path
      BY <1>2, <2>1
    <3>2. values[j] = Pair(fact.path, values[j].value) /\ values[j] # Pair(Geoidal, NaN)
      BY <3>1, PairParts DEF Right
    <3>3. values[j].value = fact.value
      BY <3>1, <3>2 DEF Right, Correct, FactsAt
    <3> QED
      BY <3>2, <3>3
  <2>4. values[j].value \notin {Undefined, NaN}
    BY <2>2, <2>3, PairParts
  <2>5. values[j] \in Carried(RemoveUnusable(values))
    BY <1>2, <1>4, <2>4, UsableStays
  <2> QED
    BY <2>3, <2>5
<1> HIDE DEF left
<1> QED
  BY <1>1, <1>3, <1>4 DEF values, outcome

-----------------------------------------------------------------------------
(***************************************************************************)
(* All the hooks.                                                          *)
(***************************************************************************)
LEMMA WholeNumbers ==
    ASSUME NEW entry, NumbersAreIntegers(entry.line), Len(entry.line.parts) \in Nat
    PROVE  Whole(entry)
<1> DEFINE n == Len(entry.line.parts)
<1> SUFFICES ASSUME NEW i \in Nat, IsNumeral(Field(entry, i))
             PROVE  Field(entry, i).n \in Int
  BY DEF Whole
<1>1. CASE i \in 0 .. n
  BY <1>1 DEF NumbersAreIntegers, Field
<1>2. CASE i \notin 0 .. n
  <2>1. i \notin 0 .. n - 1
    BY <1>2
  <2>2. Field(entry, i) = Undefined
    BY <2>1 DEF Field, Part
  <2> QED
    BY <2>2 DEF Undefined, Str, IsNumeral
<1> QED
  BY <1>1, <1>2

LEMMA HookSays ==
    ASSUME NEW entry, NEW t \in Nat, Whole(entry), Sentence(entry, t), NEW tags,
           entry.line.id \in HookIds \ {"GGA"}
    PROVE  Agrees(entry, Hook(entry.line, tags))
<1> DEFINE line == entry.line
<1>1. /\ Positions(entry, t) /\ Courses(entry) /\ Depths(entry) /\ Winds(entry)
      /\ Engines(entry) /\ Calls(entry) /\ Ships(entry)
      /\ \A k \in entry.damaged : Unreadable(Field(entry, k))
  BY DEF Sentence
<1>2. CASE line.id \in {"GLL", "RMB", "RMC", "ZDA"}
  BY <1>1, <1>2, Waypoints, Destination, Minimum, DateAndTime DEF Hook
<1>3. CASE line.id \in {"HDG", "HDM", "HDT", "ROT", "VPW", "VHW"}
  BY <1>1, <1>3, HeadingAndVariation, Headings, RateOfTurn, MadeGood, HeadingsAndSpeed
     DEF Hook
<1>4. CASE line.id \in {"KEP", "VTG"}
  BY <1>1, <1>4, Performance, CourseAndSpeed DEF Hook
<1>5. CASE line.id \in {"DBT", "DPT", "MWV", "VWR"}
  BY <1>1, <1>5, Echo, Sounder, WindOrUnknown, SideOfTheWind DEF Hook
<1>6. CASE line.id \in {"RPM", "MTW", "VDR"}
  BY <1>1, <1>6, Revolutions, WaterTemperature, Current DEF Hook
<1>7. CASE line.id \in {"DSC", "VDM", "VDO"}
  BY <1>1, <1>7, Distress, OtherVessels DEF Hook
<1>8. CASE line.id = "APB"
  <2>1. Hook(line, tags) = APB(line.parts)
    BY <1>8 DEF Hook
  <2>2. APB(line.parts) \in {Rejected, Catch}
    BY Zenon DEF APB
  <2>3. APB(line.parts).type # "delta"
    BY <2>2, OtherTypes
  <2> QED
    BY <2>1, <2>3 DEF Agrees
<1> QED
  BY <1>2, <1>3, <1>4, <1>5, <1>6, <1>7, <1>8 DEF HookIds

\* GGA's condition is that of NothingElseIsLost.
LEMMA HookIsTrue ==
    ASSUME NEW entry, NEW t \in Nat, Whole(entry), Sentence(entry, t), NEW tags,
           entry.line.id \in HookIds, Hook(entry.line, tags).type = "delta"
    PROVE  LET line == entry.line
               carried == Carried(Hook(line, tags).values)
           IN  /\ TrueTo(entry, carried)
               /\ (line.id = "GGA" => Cardinality(ToRemove(GGAValues(line.parts))) <= 1) =>
                      Keeps(entry, carried)
<1>1. CASE entry.line.id = "GGA"
  <2>1. Hook(entry.line, tags) = GGA(entry.line.parts, now)
    BY <1>1 DEF Hook
  <2>2. Positions(entry, t)
    BY DEF Sentence
  <2> QED
    BY <1>1, <2>1, <2>2, Fix
<1>2. CASE entry.line.id # "GGA"
  BY <1>2, HookSays DEF Agrees, Says
<1> QED
  BY <1>1, <1>2

-----------------------------------------------------------------------------
(***************************************************************************)
(* The way of a line, from the instrument to the message.                  *)
(***************************************************************************)
Wrote(written) ==
    /\ written.at \in Start .. now
    /\ \E entry \in Lines(written.at) :
           written = [at |-> written.at, line |-> entry.line, facts |-> entry.facts,
                      void |-> entry.void, damaged |-> entry.damaged]

\* No hook is loaded any more once lines are read: what `mappings` has, and
\* what the clock shows, is the same as when the message was made.
LineInv ==
    /\ HooksAreKnown
    /\ now \in Start .. Start + MaxTicks
    /\ wire # NoLine => Loaded /\ Wrote(wire)
    /\ message # NoMessage => Loaded

LEMMA LineInit == Init => LineInv
<1> SUFFICES ASSUME Init PROVE LineInv
  OBVIOUS
<1>1. now \in Start .. Start + MaxTicks
  BY ClockAssumption DEF Init
<1> QED
  BY <1>1, HooksInit DEF Init, LineInv

LEMMA LineStep == LineInv /\ [Next]_vars => LineInv'
<1> SUFFICES ASSUME LineInv, [Next]_vars
             PROVE  /\ now' \in Start .. Start + MaxTicks
                    /\ wire' # NoLine => Loaded' /\ Wrote(wire)'
                    /\ message' # NoMessage => Loaded'
  BY HooksStep DEF LineInv
<1> USE DEF LineInv
<1>1. CASE LoadHook
  BY <1>1 DEF LoadHook
<1>2. mappings' = mappings => (Loaded' <=> Loaded)
  BY DEF Loaded
<1>3. CASE Write
  <2>1. PICK entry \in Lines(now) :
           wire' = [at |-> now, line |-> entry.line, facts |-> entry.facts,
                    void |-> entry.void, damaged |-> entry.damaged]
    BY <1>3 DEF Write
  <2>2. wire'.at = now /\ now' = now /\ now \in Start .. now /\ Loaded'
    BY <1>2, <1>3, <2>1, ClockAssumption DEF Write
  <2>3. Wrote(wire)'
    BY <2>1, <2>2 DEF Wrote
  <2> QED
    BY <1>3, <2>2, <2>3 DEF Write
<1>4. CASE Send \/ ParseDirectly
  BY <1>2, <1>4 DEF Send, ParseDirectly
<1>5. CASE Forward
  BY <1>2, <1>5 DEF Forward, Wrote
<1>6. CASE Tick
  <2>1. /\ now' = now + 1 /\ now < Start + MaxTicks /\ now \in Int
        /\ wire' = wire /\ message' = message /\ Loaded'
    BY <1>2, <1>6, ClockAssumption DEF Tick
  <2>2. now' \in Start .. Start + MaxTicks /\ Start .. now \subseteq Start .. now'
    BY <2>1, ClockAssumption
  <2>3. Wrote(wire) => Wrote(wire)'
    BY <2>1, <2>2 DEF Wrote
  <2> QED
    BY <2>1, <2>2, <2>3
<1>7. CASE UNCHANGED vars
  BY <1>2, <1>7 DEF vars, Wrote
<1> QED
  BY <1>1, <1>3, <1>4, <1>5, <1>6, <1>7 DEF Next

\* A message is made by a reading, is forwarded, or stays what it is.
LEMMA MessageStep ==
    ASSUME LineInv, [Next]_vars
    PROVE  \/ Send \/ ParseDirectly
           \/ message' = NoMessage
           \/ message' = message /\ mappings' = mappings /\ now' = now
BY DEF LineInv, Next, LoadHook, Write, Forward, Tick, vars

\* parse returns a delta exactly when there is a hook and it has one.
LEMMA ParseDelta ==
    ASSUME HooksAreKnown, NEW line
    PROVE  Parse(line).type = "delta"
             <=> line.id \in mappings /\ Hook(line, GetTags(line, now)).type = "delta"
<1> DEFINE outcome == Hook(line, GetTags(line, now))
<1>1. CASE line.id \notin mappings
  <2>1. Parse(line) = [type |-> "error"]
    BY <1>1 DEF Parse
  <2> QED
    BY <1>1, <2>1
<1>2. CASE line.id \in mappings
  <2>1. outcome.type \in OutcomeTypes
    BY <1>2, HookOutcome, KnownHooks
  <2>2. outcome.type = "delta" => Parse(line).type = "delta"
    BY <1>2 DEF Parse
  <2>3. outcome.type # "delta" => Parse(line).type # "delta"
    <3>1. outcome.type # "delta" =>
            \/ Parse(line) = [type |-> outcome.type]
            \/ Parse(line) = [type |-> "error"]
            \/ Parse(line) = [type |-> "thrown"]
      BY <1>2, <2>1 DEF Parse, OutcomeTypes
    <3> HIDE DEF outcome
    <3> QED
      BY <3>1
  <2> QED
    BY <1>2, <2>2, <2>3
<1> QED
  BY <1>1, <1>2

\* What a reading makes of the line on the wire.
LEMMA Delivery ==
    ASSUME LineInv, Send \/ ParseDirectly
    PROVE  LET line == wire.line
               outcome == Hook(line, GetTags(line, now))
           IN  /\ wire # NoLine /\ message'.written = wire
               /\ mappings' = mappings /\ now' = now
               /\ HasDelta' =>
                      /\ line.id \in HookIds
                      /\ outcome.type = "delta"
                      /\ message'.body.values = outcome.values
                      /\ message'.body.timestamp = outcome.timestamp
                      /\ message'.body.source = DeltaOf(line).source
               /\ ~ HasDelta' =>
                      \/ line.id \notin mappings
                      \/ message'.contentType \in {"AIS", "none"}
                      \/ outcome.type # "delta"
<1> DEFINE line == wire.line
           outcome == Hook(line, GetTags(line, now))
<1>0. HooksAreKnown /\ mappings \subseteq HookIds
  BY KnownHooks DEF LineInv
<1>1. Parse(line).type = "delta" <=> line.id \in mappings /\ outcome.type = "delta"
  BY <1>0, ParseDelta
<1>2. Parse(line).type = "delta" => Parse(line) = DeltaOf(line)
  BY <1>0, ParseOutcome
<1>3. /\ DeltaOf(line).values = outcome.values
      /\ DeltaOf(line).timestamp = outcome.timestamp
  BY DEF DeltaOf
<1>4. CASE ParseDirectly
  <2>1. /\ wire # NoLine /\ message'.written = wire /\ message'.contentType = "direct"
        /\ message'.body = Parse(line) /\ mappings' = mappings /\ now' = now
    BY <1>4 DEF ParseDirectly
  <2>2. HasDelta' <=> Parse(line).type = "delta"
    BY <2>1 DEF HasDelta
  <2> HIDE DEF outcome
  <2> QED
    BY <1>0, <1>1, <1>2, <1>3, <2>1, <2>2 DEF outcome
<1>5. CASE Send
  <2>1. /\ wire # NoLine /\ message' = Intercept(wire)
        /\ mappings' = mappings /\ now' = now
    BY <1>5 DEF Send
  <2>2. /\ message'.written = wire
        /\ message'.contentType = Converted(line).contentType
        /\ message'.body = Converted(line).body
    BY <2>1 DEF Intercept
  <2>3. CASE ContentType(line) = "0183" /\ Parse(line).type = "delta"
    <3> DEFINE body == [DeltaOf(line) EXCEPT !.context = "vessels.self"]
    <3>1. Converted(line) = [contentType |-> "JSON_DELTA", body |-> body]
      BY <1>2, <2>3 DEF Converted
    <3>2. /\ body.values = DeltaOf(line).values
          /\ body.timestamp = DeltaOf(line).timestamp
          /\ body.source = DeltaOf(line).source
      BY DEF DeltaOf
    <3>3. HasDelta' /\ message'.body = body
      BY <2>2, <3>1 DEF HasDelta
    <3> HIDE DEF outcome, body
    <3> QED
      BY <1>0, <1>1, <1>3, <2>1, <2>2, <2>3, <3>2, <3>3 DEF outcome
  <2>4. CASE ~ (ContentType(line) = "0183" /\ Parse(line).type = "delta")
    <3>1. Converted(line) = [contentType |-> ContentType(line), body |-> line]
      BY <2>4 DEF Converted
    <3>2. ContentType(line) \in {"0183", "AIS", "none"}
      BY DEF ContentType
    <3>3. message'.contentType = ContentType(line)
      BY <2>2, <3>1
    <3>4. ~ HasDelta'
      BY <3>2, <3>3 DEF HasDelta
    <3> HIDE DEF outcome
    <3> QED
      BY <1>1, <2>1, <2>2, <2>4, <3>2, <3>3, <3>4 DEF outcome
  <2> QED
    BY <2>3, <2>4
<1> QED
  BY <1>4, <1>5

-----------------------------------------------------------------------------
(***************************************************************************)
(* The properties of what is delivered.                                    *)
(***************************************************************************)
Delivered ==
    /\ DepthsAddUp
    /\ DatedToTheDay
    /\ OnlyKnownLosses
    /\ VoidIsHeldBack
    /\ SourceIsNamed
    /\ PublishedIsTrue
    /\ NothingElseIsLost

LEMMA NothingDelivered ==
    ASSUME message = NoMessage
    PROVE  Delivered
<1>1. ~ HasDelta /\ message.written = NoLine
  BY DEF HasDelta, NoMessage
<1>2. AddUp({})
  BY DEF AddUp
<1>3. DepthsAddUp
  BY <1>1, <1>2 DEF DepthsAddUp, Published
<1>4. PublishedIsTrue
  BY <1>1 DEF PublishedIsTrue, Published
<1> QED
  BY <1>1, <1>3, <1>4 DEF Delivered, DatedToTheDay, OnlyKnownLosses, VoidIsHeldBack,
                          SourceIsNamed, NothingElseIsLost

\* What is read from a line that an instrument wrote has them all.
LEMMA ReadingDelivers ==
    ASSUME LineInv, Send \/ ParseDirectly
    PROVE  Delivered'
<1> DEFINE line == wire.line
           tags == GetTags(line, now)
           outcome == Hook(line, tags)
           t == wire.at
<1>1. /\ wire # NoLine /\ message'.written = wire /\ mappings' = mappings /\ now' = now
      /\ HasDelta' =>
             /\ line.id \in HookIds /\ outcome.type = "delta"
             /\ message'.body.values = outcome.values
             /\ message'.body.timestamp = outcome.timestamp
             /\ message'.body.source = DeltaOf(line).source
      /\ ~ HasDelta' =>
             \/ line.id \notin mappings
             \/ message'.contentType \in {"AIS", "none"}
             \/ outcome.type # "delta"
  BY Delivery
<1>2. t \in Nat /\ t \in Start .. Start + MaxTicks /\ t <= now /\ now \in Nat
  BY <1>1, ClockAssumption DEF LineInv, Wrote
<1>3. PICK entry \in Lines(t) :
         wire = [at |-> t, line |-> entry.line, facts |-> entry.facts,
                 void |-> entry.void, damaged |-> entry.damaged]
  BY <1>1 DEF LineInv, Wrote
<1>4. /\ line = entry.line /\ wire.facts = entry.facts
      /\ wire.void = entry.void /\ wire.damaged = entry.damaged
  BY <1>3
<1>5. /\ WellNamed(line)
      /\ line.parts \in Seq(Range(line.parts))
      /\ NumbersAreIntegers(line)
      /\ wire.damaged = {} /\ wire.void => SaysItIsVoid(line)
      /\ wire.damaged = {} /\ ~ wire.void => Complete(line)
      /\ TellsTheTime(entry, t)
      /\ Sentence(entry, t)
  <2> HIDE DEF line, t
  <2> QED
    BY <1>2, <1>4, InstrumentAssumption, SentenceAssumption DEF NumbersAreIntegers
<1> HIDE DEF outcome, tags, line, t
<1>6. DepthsAddUp'
  <2>1. CASE HasDelta'
    <3>1. Len(line.parts) \in Nat
      BY <1>5
    <3>2. AddUp(Carried(outcome.values))
      BY <1>1, <1>5, <2>1, <3>1, HookAddsUp DEF outcome
    <3>3. Published' = Carried(outcome.values)
      BY <1>1, <2>1 DEF Published, Carried
    <3> QED
      BY <3>2, <3>3 DEF DepthsAddUp, AddUp
  <2>2. CASE ~ HasDelta'
    <3>1. Published' = {}
      BY <2>2 DEF Published
    <3> QED
      BY <3>1 DEF DepthsAddUp, AddUp
  <2> QED
    BY <2>1, <2>2
<1>7. DatedToTheDay'
  <2> SUFFICES ASSUME HasDelta', now < t + DAY,
                      NEW fact \in entry.facts, fact.path = "timestamp",
                      \E fields \in fact.from : fields \cap entry.damaged = {}
               PROVE  \/ outcome.timestamp = fact.value
                      \/ /\ line.id \in {"GGA", "GLL"}
                         /\ Today(now) # Today(t)
                         /\ outcome.timestamp = Plus(fact.value, Number(DAY))
    BY <1>1, <1>4 DEF DatedToTheDay, FactsOf, Undisturbed, line, t
  <2>1. outcome.timestamp = TimeOf(line, tags)
    BY <1>1, HookTime DEF outcome
  <2>2. \/ TimeOf(line, tags) = fact.value
        \/ /\ line.id \in {"GGA", "GLL"}
           /\ Today(now) # Today(t)
           /\ TimeOf(line, tags) = Plus(fact.value, Number(DAY))
    BY <1>2, <1>4, <1>5, DeltaTime DEF tags
  <2> QED
    BY <2>1, <2>2
<1>8. OnlyKnownLosses'
  <2> SUFFICES ASSUME wire.damaged = {}, ~ wire.void, ~ HasDelta',
                      line.id \in mappings, message'.contentType \notin {"AIS", "none"}
               PROVE  KnownLoss(line)
    BY <1>1 DEF OnlyKnownLosses, KnownLoss, line
  <2>1. line.id \in HookIds
    BY KnownHooks DEF LineInv
  <2> QED
    BY <1>1, <1>5, <2>1, CompleteHasDelta DEF outcome
<1>9. VoidIsHeldBack'
  <2> SUFFICES ASSUME HasDelta', wire.void, wire.damaged = {}
               PROVE  line.id \in {"RMC", "RMB", "RPM"}
    BY <1>1 DEF VoidIsHeldBack, line
  <2> QED
    BY <1>1, <1>5, VoidHasNoDelta DEF outcome
<1>10. SourceIsNamed'
  <2>1. NamedBy(DeltaOf(line).source, line)
    BY <1>5, DeltaIsNamed
  <2> QED
    BY <1>1, <2>1 DEF SourceIsNamed, NamedBy, line
<1>11. PublishedIsTrue' /\ NothingElseIsLost'
  <2>1. CASE HasDelta'
    <3> DEFINE carried == Carried(outcome.values)
    <3>1. Published' = carried
      BY <1>1, <2>1 DEF Published, Carried
    <3>2. /\ \A path : FactsOf(path)' = FactsAt(entry, path)
          /\ \A fact : Undisturbed(fact)' <=> Intact(entry, fact)
      BY <1>1, <1>4 DEF FactsOf, FactsAt, Undisturbed, Intact
    <3>3. Whole(entry)
      BY <1>4, <1>5, WholeNumbers
    <3>4. /\ TrueTo(entry, carried)
          /\ (line.id = "GGA" => Cardinality(ToRemove(GGAValues(line.parts))) <= 1) =>
                 Keeps(entry, carried)
      BY <1>1, <1>2, <1>4, <1>5, <2>1, <3>3, HookIsTrue DEF outcome
    <3> HIDE DEF carried
    <3>5. PublishedIsTrue'
      BY <3>1, <3>2, <3>4 DEF PublishedIsTrue, TrueTo, Geoidal
    <3>6. message'.written.line = line /\ message'.written.facts = entry.facts
      BY <1>1, <1>4 DEF line
    <3>7. NothingElseIsLost'
      BY <3>1, <3>2, <3>4, <3>6 DEF NothingElseIsLost, Keeps, Geoidal
    <3> QED
      BY <3>5, <3>7
  <2>2. CASE ~ HasDelta'
    BY <2>2 DEF PublishedIsTrue, NothingElseIsLost, Published
  <2> QED
    BY <2>1, <2>2
<1> QED
  BY <1>6, <1>7, <1>8, <1>9, <1>10, <1>11 DEF Delivered

LEMMA Deliveries == Spec => []Delivered
<1> DEFINE Inv == LineInv /\ Delivered
<1>1. Init => Inv
  BY LineInit, NothingDelivered DEF Init
<1>2. Inv /\ [Next]_vars => Inv'
  <2> SUFFICES ASSUME Inv, [Next]_vars PROVE Delivered'
    BY LineStep
  <2>1. CASE Send \/ ParseDirectly
    BY <2>1, ReadingDelivers
  <2>2. message = NoMessage => Delivered
    BY NothingDelivered
  <2>3. CASE message' = NoMessage
    <3>1. ~ HasDelta' /\ message'.written = NoLine
      BY <2>3 DEF HasDelta, NoMessage
    <3>2. DepthsAddUp'
      <4>1. Published' = {}
        BY <3>1 DEF Published
      <4> QED
        BY <4>1 DEF DepthsAddUp, AddUp
    <3>3. PublishedIsTrue'
      BY <3>1 DEF PublishedIsTrue, Published
    <3> QED
      BY <3>1, <3>2, <3>3 DEF Delivered, DatedToTheDay, OnlyKnownLosses, VoidIsHeldBack,
                              SourceIsNamed, NothingElseIsLost
  <2>4. CASE message' = message /\ mappings' = mappings /\ now' = now
    <3>1. /\ HasDelta' <=> HasDelta
          /\ Published' = Published
          /\ \A path : FactsOf(path)' = FactsOf(path)
          /\ \A fact : Undisturbed(fact)' <=> Undisturbed(fact)
      BY <2>4 DEF HasDelta, Published, FactsOf, Undisturbed
    <3>2. PublishedIsTrue'
      BY <3>1 DEF Delivered, PublishedIsTrue
    <3>3. NothingElseIsLost'
      BY <2>4, <3>1 DEF Delivered, NothingElseIsLost
    <3> QED
      BY <2>4, <3>1, <3>2, <3>3 DEF Delivered, DepthsAddUp, DatedToTheDay, OnlyKnownLosses,
                                    VoidIsHeldBack, SourceIsNamed
  <2> QED
    BY <2>1, <2>3, <2>4, MessageStep
<1> HIDE DEF Inv
<1>3. Inv => Delivered
  BY DEF Inv
<1> QED
  BY <1>1, <1>2, <1>3, PTL DEF Spec

\* DBT and DPT: the depth below the surface is that below the transducer and
\* its offset, and that below the keel is less by the keel's, in every delta
\* and whatever was damaged.
THEOREM DepthsAlwaysAddUp == Spec => []DepthsAddUp
<1>1. Delivered => DepthsAddUp
  BY DEF Delivered
<1> QED
  BY <1>1, Deliveries, PTL

\* utils.timestamp and getTagBlock: a delta has the time at which its line was
\* written; that of GGA or GLL, which have the server's date, is a day late
\* when midnight has passed on the way.
THEOREM Dating == Spec => []DatedToTheDay
<1>1. Delivered => DatedToTheDay
  BY DEF Delivered
<1> QED
  BY <1>1, Deliveries, PTL

\* parser.js and all the hooks: a complete, undamaged line with a hook becomes
\* a delta, but for the losses that are known.
THEOREM OnlyKnown == Spec => []OnlyKnownLosses
<1>1. Delivered => OnlyKnownLosses
  BY DEF Delivered
<1> QED
  BY <1>1, Deliveries, PTL

\* The hooks other than RMC, RMB and RPM publish nothing of a line that says
\* of itself that it is void.
THEOREM VoidHeldBack == Spec => []VoidIsHeldBack
<1>1. Delivered => VoidIsHeldBack
  BY DEF Delivered
<1> QED
  BY <1>1, Deliveries, PTL

\* transformSource.js: no value is published under the name of another
\* instrument.
THEOREM Attribution == Spec => []SourceIsNamed
<1>1. Delivered => SourceIsNamed
  BY DEF Delivered
<1> QED
  BY <1>1, Deliveries, PTL

\* All the hooks: every published value is one that was measured, unless a field
\* it is told by was damaged; the geoidal separation may be NaN instead.
THEOREM Truth == Spec => []PublishedIsTrue
<1>1. Delivered => PublishedIsTrue
  BY DEF Delivered
<1> QED
  BY <1>1, Deliveries, PTL

\* All the hooks: a delta has every value that is told by undamaged fields, but
\* for that of a GGA line that has two values to remove or more.
THEOREM NothingElseLost == Spec => []NothingElseIsLost
<1>1. Delivered => NothingElseIsLost
  BY DEF Delivered
<1> QED
  BY <1>1, Deliveries, PTL
==============================================================================
