------------------------------ MODULE Seatalk -------------------------------
(***************************************************************************)
(* The hook ALK and the decoders of Seatalk 1 datagrams it calls           *)
(* (hooks-es5/ALK.js, hooks-es5/seatalk/).  The fields of a $STALK         *)
(* sentence are bytes: parts[0] is the type of the datagram.               *)
(***************************************************************************)
EXTENDS NmeaValues

Byte(parts, i) == LET f == At(parts, i) IN IF IsNumeric(f) THEN {f.n} ELSE NaN

\* JavaScript's x & (2^n - 1) and (x >> n): NaN counts as 0 in a bit operation
Int32(x)    == ZeroIfNaN(x)
Low(x, n)   == {v % 2^n : v \in Int32(x)}
High(x, n)  == {v \div 2^n : v \in Int32(x)}
Bit(x, n)   == \A v \in Int32(x) : (v \div 2^n) % 2 = 1

HighNibble(x) == High(x, 4)
LowNibble(x)  == Low(x, 4)

\* parts[i].charAt(0) and charAt(1) of a byte written with two digits
Digit0(x) == {v \div 16 : v \in x}
Digit1(x) == {v % 16 : v \in x}

\* parseInt(parts[i], 16) + 256 * parseInt(parts[i + 1], 16)
Word(parts, i) == Plus(Byte(parts, i), Times(Byte(parts, i + 1), 256))

Miles(x, over) == Measure(x, over, "nm", "m")

-----------------------------------------------------------------------------
Depth(p, stamp) ==
    IF At(p, 2) = Undefined THEN Throw
    ELSE Delta(stamp, <<PV("environment.depth.belowTransducer",
             Measure(Plus(Byte(p, 3), Times(Low(Byte(p, 4), 7), 256)),
                     10, "feet", "m"))>>)

WindAngle(p, stamp) ==
    LET half == Plus(Times(Byte(p, 2), 256), Byte(p, 3))
        wrap == {IF a > 360 THEN a - 720 ELSE a : a \in half}
    IN  Delta(stamp, <<PV("environment.wind.angleApparent",
                        Measure(wrap, 2, "deg", "rad"))>>)

WindSpeed(p, stamp) ==
    Delta(stamp, <<PV("environment.wind.speedApparent",
        Measure(Plus(Times(Low(Byte(p, 2), 7), 10), Byte(p, 3)),
                10, "knots", "ms"))>>)

SpeedThroughWater(p, stamp) ==
    Delta(stamp, <<PV("navigation.speedThroughWater",
        Measure(Plus(Low(Byte(p, 2), 7), Byte(p, 3)), 10, "knots", "ms"))>>)

TripMileage(p, stamp) ==
    Delta(stamp, <<PV("navigation.trip",
        Miles(Plus(Word(p, 2), Times(LowNibble(Byte(p, 4)), 65536)), 100))>>)

TotalMileage(p, stamp) ==
    Delta(stamp, <<PV("navigation.log", Miles(Word(p, 2), 10))>>)

TotalAndTrip(p, stamp) ==
    LET Z == HighNibble(Byte(p, 1))
        W == LowNibble(Byte(p, 6))
    IN  Delta(stamp, <<
            PV("navigation.trip",
               Miles(Plus(Word(p, 4), Times(W, 65536)), 100)),
            PV("navigation.log", Miles(Plus(Word(p, 2), Times(Z, 4096)), 10))>>)

SpeedAndAverage(p, stamp) ==
    LET D == HighNibble(Byte(p, 6)) IN
    Delta(stamp,
        When(Bit(D, 2), PV("navigation.speedThroughWater",
                           Measure(Word(p, 2), 100, "knots", "ms")))
     \o When(~Bit(D, 3), PV("navigation.averageSpeedThroughWater",
                            Measure(Word(p, 4), 100, "knots", "ms"))))

WaterTemperature(p, stamp) ==
    Delta(stamp, <<PV("environment.water.temperature",
        Measure(Plus(Word(p, 2), {-100}), 10, "c", "k"))>>)

\* degrees and hundredths of a minute; the amount is in hundredths of a minute
Angle(p, negative(_)) ==
    LET YYYY == Word(p, 3)
        size == Plus(Times(Byte(p, 2), 6000), Low(YYYY, 15))
    IN  Measure(IF negative(Bit(YYYY, 15)) THEN Times(size, -1) ELSE size,
                6000, "deg", "deg")

Latitude(p, stamp) ==
    Delta(stamp, <<PV("navigation.position.latitude",
                    Angle(p, LAMBDA msb : msb))>>)

\* Faulty variant: the sign bit is read as that of a latitude.
LongitudeAsLatitude(p, stamp) ==
    Delta(stamp, <<PV("navigation.position.longitude",
                    Angle(p, LAMBDA msb : msb))>>)

Longitude(p, stamp) ==
    Delta(stamp, <<PV("navigation.position.longitude",
                    Angle(p, LAMBDA msb : ~msb))>>)

SpeedOverGround(p, stamp) ==
    Delta(stamp, <<PV("navigation.speedOverGround",
                    Measure(Word(p, 2), 10, "knots", "ms"))>>)

\* in eighths of a degree
MagneticCourse(p, stamp) ==
    LET U == HighNibble(Byte(p, 1))
        course == Plus(Times(Low(U, 2), 720),
                       Plus(Times(Low(Byte(p, 2), 6), 16),
                            Times(High(U, 2), 4)))
    IN  Delta(stamp, <<PV("navigation.courseOverGroundMagnetic",
                        Measure(course, 8, "deg", "rad"))>>)

\* Both decode a date and then throw on purpose
Time(p, stamp) == Throw
Date(p, stamp) == Throw

Satellites(p, stamp) ==
    LET S  == HighNibble(Byte(p, 1))
        DD == IF S = {1} THEN {148} ELSE Byte(p, 2)
    IN  Delta(stamp, <<
            PV("navigation.gnss.satellites", Measure(S, 1, "1", "1")),
            PV("navigation.gnss.horizontalDilution", Measure(DD, 1, "1", "1"))>>)

-----------------------------------------------------------------------------
(* Heading and rudder, in the datagrams 84 and 9C *)

\* U & 0xC == 0xC is U & true: the lowest bit of U decides between 2 and 1
HeadingBits(U) ==
    IF High(U, 2) = {0} THEN {0} ELSE IF Bit(U, 0) THEN {2} ELSE {1}

CompassHeading(U, VW) ==
    Plus(Plus(Times(Low(U, 2), 90), Times(Low(VW, 6), 2)), HeadingBits(U))

\* Faulty variant: the sign bit is cut off.
SignCut(RR) == Low(RR, 7)

Signed(RR) == {IF r > 127 THEN r - 256 ELSE r : r \in RR}

\* if (x) pathValues.push(...): a zero is not pushed
IfNotZero(path, x, over) ==
    When(x \notin {NaN, {0}}, PV(path, Measure(x, over, "deg", "rad")))

\* A later assignment of mode overrides an earlier one
AutopilotMode(Z) ==
    IF Bit(Z, 3) THEN "route" ELSE IF Bit(Z, 2) THEN "wind"
    ELSE IF Bit(Z, 1) THEN "auto" ELSE "standby"

Autopilot(p, stamp) ==
    IF Len(p) # 9 \/ \E i \in 1..8 : Byte(p, i) = NaN THEN Null
    ELSE LET U == Digit0(Byte(p, 1))
             V == Digit0(Byte(p, 2))
             \* in half degrees
             course == Plus(Times(High(V, 2), 180), Byte(p, 3))
         IN  Delta(stamp,
                 IfNotZero("navigation.headingMagnetic",
                           CompassHeading(U, Byte(p, 2)), 1)
              \o IfNotZero("steering.autopilot.target.headingMagnetic",
                           course, 2)
              \o IfNotZero("steering.rudderAngle", Signed(Byte(p, 6)), 1)
              \o <<PV("steering.autopilot.state",
                      Text(AutopilotMode(Digit1(Byte(p, 4)))))>>)

HeadingAndRudder(p, stamp) ==
    IF At(p, 1) = Undefined THEN Throw
    ELSE IF \E i \in 1..3 : Byte(p, i) = NaN THEN Null
    ELSE Delta(stamp,
             IfNotZero("navigation.headingMagnetic",
                       CompassHeading(Digit0(Byte(p, 1)), Byte(p, 2)), 1)
          \o IfNotZero("steering.rudderAngle", Signed(Byte(p, 3)), 1))

\* XX & 0x80 != 0 is XX & true: the lowest bit of XX decides the sign
Variation(p, stamp) ==
    LET XX == Byte(p, 2)
        value == {128 - v : v \in Low(XX, 7)}
    IN  Delta(stamp, <<PV("navigation.magneticVariation",
                        Deg(IF Bit(XX, 0) THEN value ELSE Times(value, -1)))>>)

-----------------------------------------------------------------------------
\* hooks-es5/seatalk/index.js
SeatalkTypes == {0, 16, 17, 32, 33, 34, 37, 38, 39, 80, 81, 82, 83, 84, 86, 87,
                 132, 153, 156}

Decode(type, p, stamp) ==
    CASE type = 0   -> Depth(p, stamp)
      [] type = 16  -> WindAngle(p, stamp)
      [] type = 17  -> WindSpeed(p, stamp)
      [] type = 32  -> SpeedThroughWater(p, stamp)
      [] type = 33  -> TripMileage(p, stamp)
      [] type = 34  -> TotalMileage(p, stamp)
      [] type = 37  -> TotalAndTrip(p, stamp)
      [] type = 38  -> SpeedAndAverage(p, stamp)
      [] type = 39  -> WaterTemperature(p, stamp)
      [] type = 80  -> Latitude(p, stamp)
      [] type = 81  -> Longitude(p, stamp)
      [] type = 82  -> SpeedOverGround(p, stamp)
      [] type = 83  -> MagneticCourse(p, stamp)
      [] type = 84  -> Time(p, stamp)
      [] type = 86  -> Date(p, stamp)
      [] type = 87  -> Satellites(p, stamp)
      [] type = 132 -> Autopilot(p, stamp)
      [] type = 153 -> Variation(p, stamp)
      [] type = 156 -> HeadingAndRudder(p, stamp)

\* parts[0] names the decoder; a datagram without one is not decoded
ALK(p, stamp) ==
    LET first == At(p, 0) IN
    IF first = Undefined THEN Throw
    ELSE IF IsNumeric(first) /\ first.n \in SeatalkTypes
         THEN Decode(first.n, p, stamp)
         ELSE Null
=============================================================================
