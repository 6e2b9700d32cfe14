------------------------------ MODULE NmeaShip ------------------------------
(***************************************************************************)
(* The instruments of a ship, for NmeaParser: what the ship's state is (a  *)
(* reading), and the sentences its instruments make of it, by the formats  *)
(* in the comments of the hooks.  A sentence carries the reading it was    *)
(* made from, and the time it was taken at; the parser knows neither.      *)
(* What the server should make of the sentences of such a ship.            *)
(***************************************************************************)
EXTENDS NmeaParser, SeatalkFormat

-----------------------------------------------------------------------------
(* Readings: position in ticks of arc (north and east positive), headings   *)
(* and courses in degrees, wind angle (starboard positive), variation (east *)
(* positive) and rudder in degrees, speeds in knots; the depth below the    *)
(* transducer and its distances to the surface and to the keel in metres.   *)
(* Speeds are bounded by the bytes of the datagrams 11 and 52.              *)

ReadingSet ==
    [lat : Int, lon : Int, heading : 0..359, speed : 0..6553, wind : -179..180,
     windSpeed : 0..127, variation : Int, rudder : -128..127, depth : Nat,
     surface : Nat \ {0}, keel : Nat \ {0}]

NoReading == [lat |-> 0]

Abs(n) == IF n < 0 THEN -n ELSE n
Pole(n, positive, negative) == Text(IF n < 0 THEN negative ELSE positive)
NS(r) == Pole(r.lat, "N", "S")
EW(r) == Pole(r.lon, "E", "W")

Sentence(id, r, parts) ==
    [lead |-> "$", id |-> id, talker |-> "II", parts |-> parts, reading |-> r,
     taken |-> 0, complete |-> TRUE]

\* Fixes of the time t
Fix(id, r, t, parts) == [Sentence(id, r, parts) EXCEPT !.taken = t]

Rmc(r, t, status, date) ==
    Fix("RMC", r, t,
        <<Num(t % DayTicks), Text(status), Num(Abs(r.lat)), NS(r),
          Num(Abs(r.lon)), EW(r), Num(r.speed), Num(r.heading), date,
          Num(Abs(r.variation)), Pole(r.variation, "E", "W")>>)

Gga(r, t) ==
    Fix("GGA", r, t,
        <<Num(t % DayTicks), Num(Abs(r.lat)), NS(r), Num(Abs(r.lon)), EW(r),
          Num(1), Num(7), Num(2), Num(50), Text("M"), Num(48), Text("M"),
          Empty, Empty>>)

Gll(r, t, status) ==
    Fix("GLL", r, t,
        <<Num(Abs(r.lat)), NS(r), Num(Abs(r.lon)), EW(r), Num(t % DayTicks),
          Text(status), Text("D")>>)

Day(t) == Num(t \div DayTicks)

\* A fix is marked valid ("A") or void ("V"); an RMC may lack the date
Fixes(r, t) ==
    {Gga(r, t), Gll(r, t, "A"), Gll(r, t, "V")}
    \cup {Rmc(r, t, status, date) : status \in {"A", "V"}, date \in {Day(t), Empty}}

Speeds(r) ==
    {Sentence("VTG", r, <<Num(r.heading), Text("T"), Num(r.heading), Text("M"),
         Num(r.speed), Text("N"), Num((r.speed * 463) \div 250), Text("K")>>),
     Sentence("VHW", r, <<Num(r.heading), Text("T"), Num(r.heading), Text("M"),
         Num(r.speed), Text("N"), Num(r.speed), Text("K")>>)}

\* A receiver that gives only kilometres per hour, at a whole number of them
KphOnly(r) ==
    Sentence("VTG", r, <<Num(r.heading), Text("T"), Num(r.heading), Text("M"),
        Empty, Empty, Num((r.speed * 463) \div 250), Text("K")>>)

Headings(r) ==
    {Sentence("HDG", r, <<Num(r.heading), Empty, Empty, Num(Abs(r.variation)),
         Pole(r.variation, "E", "W")>>),
     Sentence("HDT", r, <<Num(r.heading), Text("T")>>),
     Sentence("HDM", r, <<Num(r.heading), Text("M")>>)}

Winds(r) ==
    {Sentence("MWV", r, <<Num(r.wind % 360), Text("R"), Num(r.windSpeed),
         Text("N"), Text("A")>>),
     Sentence("VWR", r, <<Num(Abs(r.wind)), Pole(r.wind, "R", "L"),
         Num(r.windSpeed), Text("N"), Empty, Empty, Empty, Empty>>)}

Depths(r) ==
    {Sentence("DBT", r, <<Num(9), Text("f"), Num(r.depth), Text("M"), Num(1),
         Text("F")>>),
     Sentence("DPT", r, <<Num(r.depth), Num(r.surface)>>),
     Sentence("DPT", r, <<Num(r.depth), Num(-r.keel)>>)}

\* Two bytes of a number, as datagrams 10 and 52 hold them
HighByte(n) == Num(n \div 256)
LowByte(n)  == Num(n % 256)

Datagrams(r) ==
    {Sentence("ALK", r, <<Num(16), Num(1), HighByte((2 * r.wind) % 720),
         LowByte((2 * r.wind) % 720)>>),
     Sentence("ALK", r, <<Num(17), Num(1), Num(r.windSpeed), Num(0)>>),
     Sentence("ALK", r, <<Num(82), Num(1), LowByte(10 * r.speed),
         HighByte(10 * r.speed)>>)}

\* An even heading: quarters of the circle, and half the degrees of the rest
RudderDatagrams(r) ==
    {Sentence("ALK", r, <<Num(156), Num(16 * (r.heading \div 90) + 1),
         Num((r.heading % 90) \div 2), Num(r.rudder % 256)>>),
     Sentence("ALK", r, <<Num(132), Num(16 * (r.heading \div 90) + 6),
         Num((r.heading % 90) \div 2), Num(0), Num(2), Num(0),
         Num(r.rudder % 256), Num(0), Num(8)>>)}

Instruments(r, t) ==
    UNION {Fixes(r, t), Speeds(r), Headings(r), Winds(r), Depths(r), Datagrams(r),
           IF r.speed % 250 = 0 THEN {KphOnly(r)} ELSE {},
           IF r.heading % 2 = 0 THEN RudderDatagrams(r) ELSE {}}

-----------------------------------------------------------------------------
(* Sentences that are not a complete reading: one field left empty, or the  *)
(* fields behind one cut off.                                               *)

Cut(m, parts) == [m EXCEPT !.parts = parts, !.complete = FALSE]

Gaps(m) ==
    {Cut(m, [m.parts EXCEPT ![i] = Empty]) : i \in DOMAIN m.parts}
    \cup {Cut(m, SubSeq(m.parts, 1, k)) : k \in 0..(Len(m.parts) - 1)}

-----------------------------------------------------------------------------
(* What is taken for granted of the sentences that can arrive              *)

\* A field is a number, a text, or the position of a DSC call
Field ==
    [n : Int] \cup [s : STRING] \cup [quadrant : 0..3, lat : Nat, lon : Nat]

\* A receiver's time of day is one, and its date is not ahead of the server's
TimeField(id) == CASE id = "GLL" -> 4 [] OTHER -> 0

Timely(m, now) ==
    m.id \in {"RMC", "GGA", "GLL"} =>
        LET time == At(m.parts, TimeField(m.id))
            date == At(m.parts, 8)
        IN  /\ IsNumeric(time) => time.n \in 0..(DayTicks - 1)
            /\ m.id = "RMC" /\ IsNumeric(date) => date.n =< now \div DayTicks

\* A complete sentence that tells a reading
Measured(m) == m.complete /\ m.reading # NoReading

IsDatagram(m) == m.lead = "$" /\ m.id = "ALK" /\ m.complete

\* The bytes of a datagram behind its type
Bytes(m) == [i \in 1..(Len(m.parts) - 1) |-> m.parts[i + 1].n]

\* Complete and incomplete sentences of a ship, and complete datagrams
OfShip(m, now) ==
    /\ m.taken \in Int /\ m.taken =< now
    /\ Measured(m) \/ ~m.complete => m.reading \in ReadingSet
    /\ Measured(m) => m \in Instruments(m.reading, m.taken)
    /\ ~m.complete => \E whole \in Instruments(m.reading, m.taken) : m \in Gaps(whole)
    /\ IsDatagram(m) =>
           /\ m.parts # <<>> /\ \A i \in DOMAIN m.parts : IsNumeric(m.parts[i])
           /\ WellFormed(m.parts[1].n, Bytes(m))

ASSUME SentencesAssumption ==
    \A now \in MaxDelay..MaxClock, delay \in 0..MaxDelay :
        \A m \in Sentences(now, delay) :
            /\ m.lead \in {"$", "!", "\\"} /\ m.complete \in BOOLEAN
            /\ m.parts \in Seq(Field)
            /\ Timely(m, now)
            /\ OfShip(m, now)

-----------------------------------------------------------------------------
(* What is sent for a sentence *)

Point == "navigation.position"
Rudder == "steering.rudderAngle"

Measures == {"amount", "over", "from", "to"}
IsMeasure(v) == DOMAIN v = Measures

\* One number or none
IsNumber(x) == x \subseteq Int /\ \A a, b \in x : a = b

\* What the parser returns is a delta, a warning, null or an exception; the
\* handler sends what is known of the source and values of the own vessel, with
\* a time, whatever ship a hook named; and no point is older than the first
\* month before the server's start.
NmeaTypeOK ==
    /\ clock \in MaxDelay..MaxClock
    /\ message # NoMessage =>
           parse(message, clock).kind \in {"delta", "warn", "null", "throw"}
    /\ \A i \in DOMAIN sent :
           /\ sent[i].context = (IF i = 0 THEN "sources" ELSE Own)
           /\ sent[i].stamp \in Int
           /\ sent[i].value # Undefined
           /\ IsMeasure(sent[i].value) => IsNumber(sent[i].value.amount)
    /\ \A path \in Watched :
           latest[path].stamp \in Int /\ latest[path].stamp >= NoPoint.stamp

\* The size of a unit, of those of one quantity
Size(unit) ==
    CASE unit = "knots" -> 1852 [] unit = "kph" -> 1000 [] unit = "ms" -> 3600
      [] unit = "m" -> 10000 [] unit = "feet" -> 3048
      [] OTHER -> 1

\* The same value, in whatever units
Same(v, w) ==
    IF IsMeasure(v)
    THEN /\ v.to = w.to
         /\ {a * Size(v.from) * w.over : a \in v.amount}
             = {a * Size(w.from) * v.over : a \in w.amount}
    ELSE v = w

\* What a reading says, in the server's vocabulary
Degrees(n) == Quantity(n, 1, "deg", "rad")
InKnots(n) == Quantity(n, 1, "knots", "ms")
Metres(n)  == Quantity(n, 1, "m", "m")

Said(r) ==
    { Means(Point, Position({r.lat}, {r.lon})),
      Means("navigation.speedOverGround", InKnots(r.speed)),
      Means("navigation.speedThroughWater", InKnots(r.speed)),
      Means("navigation.courseOverGroundTrue", Degrees(r.heading)),
      Means("navigation.courseOverGroundMagnetic", Degrees(r.heading)),
      Means("navigation.headingTrue", Degrees(r.heading)),
      Means("navigation.headingMagnetic", Degrees(r.heading)),
      Means("navigation.magneticVariation", Degrees(r.variation)),
      Means("environment.wind.angleApparent", Degrees(r.wind)),
      Means("environment.wind.speedApparent", InKnots(r.windSpeed)),
      Means("environment.depth.belowTransducer", Metres(r.depth)),
      Means("environment.depth.belowSurface", Metres(r.depth + r.surface)),
      Means("environment.depth.belowKeel", Metres(r.depth - r.keel)),
      Means("environment.depth.surfaceToTransducer", Metres(r.surface)),
      Means("environment.depth.transducerToKeel", Metres(r.keel)),
      Means(Rudder, Degrees(r.rudder)) }

\* A value of a path is what the reading says of the path, if anything
Agrees(path, value, r) ==
    \A said \in Said(r) : said.path = path => Same(value, said.value)

\* All instruments of a ship tell the server the same: each sentence and each
\* datagram is made from one reading in its own format, sign convention and
\* unit (hemisphere letters, left or right, 0..359 or -180..180, half degrees,
\* knots or km/h, offset to the surface or to the keel), and every value the
\* hooks make of it is the reading's.
InstrumentsAgree ==
    message # NoMessage /\ Measured(message) =>
        \A i \in DOMAIN sent : Agrees(sent[i].path, sent[i].value, message.reading)

\* Paths that are guarded by the hooks.  A course and speed over ground, a
\* variation and a wind are not: RMC, VTG, MWV, VWR and the datagram 11 make
\* zeros of empty fields.
Guarded == {"navigation.headingTrue", "navigation.headingMagnetic",
    "navigation.speedThroughWater", "environment.depth.belowTransducer",
    "environment.depth.belowSurface", "environment.depth.belowKeel", Rudder}

\* The field of the latitude in a fix; behind it are its letter, the longitude
\* and the letter of that
LatitudeField(id) == CASE id = "RMC" -> 2 [] id = "GGA" -> 1 [] OTHER -> 0

\* A coordinate is that of the reading or no number; without its letter it is
\* taken to be north or east.
Coordinate(x, n, letter) ==
    x \in {NaN, {n}} \/ (letter = Empty /\ x = {Abs(n)})

\* No position, heading, depth, speed through water or rudder angle is made up:
\* a sentence with an empty field, or cut off in the middle of the line, sends
\* for such a path nothing, no number, or what the whole sentence would; but a
\* position without the letter of the hemisphere may be on the wrong one.
NothingInvented ==
    message # NoMessage /\ ~message.complete =>
        \A i \in DOMAIN sent :
            /\ sent[i].path \in Guarded =>
                   \/ sent[i].value.amount = NaN
                   \/ Agrees(sent[i].path, sent[i].value, message.reading)
            /\ sent[i].path = Point =>
                   LET first == LatitudeField(message.id)
                       letter(k) == At(message.parts, first + k)
                   IN  /\ Coordinate(sent[i].value.lat, message.reading.lat, letter(1))
                       /\ Coordinate(sent[i].value.lon, message.reading.lon, letter(3))

\* A compass heading may be one degree off
MeansDocumented(value, meant) ==
    IF meant.path = "navigation.headingMagnetic"
    THEN \E d \in {-1, 0, 1} :
             value = [meant.value EXCEPT !.amount = {a + d : a \in meant.value.amount}]
    ELSE value = meant.value

\* What is documented is sent, and only a value that is zero may be missing
DecodesTo(documented) ==
    \A meant \in documented :
        /\ \A i \in DOMAIN sent :
               sent[i].path = meant.path => MeansDocumented(sent[i].value, meant)
        /\ (\A i \in DOMAIN sent : sent[i].path # meant.path) =>
               "amount" \in DOMAIN meant.value /\ meant.value.amount = {0}

\* A complete datagram is decoded to what the comment at the head of its decoder
\* says its bytes mean: byte order, nibbles, flag and sign bits, scale, the
\* quarter of a heading.  Left out are the speed of datagram 20 (the decoder adds
\* the two bytes), the variation of 99 (XX & 0x80 != 0 tests the lowest bit, so
\* that 00 decodes to -128 degrees where the comment says 0) and the highest bit
\* of a depth, which the decoder of 00 cuts off.
DecodesAsDocumented ==
    message # NoMessage /\ IsDatagram(message) =>
        LET type == message.parts[1].n
            b    == Bytes(message)
        IN  type \notin {32, 153} /\ (type = 0 => b[4] < 128) =>
                DecodesTo(Documented(type, b))

-----------------------------------------------------------------------------
(* What is stored *)

IsFix(m) == m.id \in {"RMC", "GGA", "GLL"} /\ Measured(m)
Dateless(m) == m.id = "RMC" /\ m.parts[9] = Empty
Void(m) == m.id = "GLL" /\ m.parts[6] = Text("V")

\* A position fix that arrives is what the server shows from then on, unless it
\* shows a later one already.  Three exceptions: a GLL that is marked void (a
\* void RMC is shown); what it shows is stamped ahead of its clock (a GGA or GLL
\* of before midnight that arrived after it is dated to the new day); and an RMC
\* without a date, which is dated a month back.
FixIsShown ==
    [][ clock' = clock /\ IsFix(message') =>
            \/ latest'[Point].value = Position({message'.reading.lat},
                                               {message'.reading.lon})
            \/ latest[Point].stamp > message'.taken
            \/ latest[Point].stamp > clock
            \/ Dateless(message')
            \/ Void(message') ]_vars

\* A position that is dated ahead of the clock hides all others for less than a
\* day, however long the sentence took over midnight.
FrozenLessThanADay == latest[Point].stamp < clock + DayTicks

RudderSentence(m) ==
    m.id = "ALK" /\ Measured(m) /\ m.parts[1] \in {Num(132), Num(156)}

\* A datagram with the rudder angle leaves that angle as the one shown, to both
\* sides and whatever datagram came before; but a rudder amidships is not sent,
\* and leaves the angle of before.
RudderFollows ==
    [][ clock' = clock /\ RudderSentence(message') =>
            latest'[Rudder].value =
                IF message'.reading.rudder = 0 THEN latest[Rudder].value
                ELSE Degrees(message'.reading.rudder) ]_vars
=============================================================================
