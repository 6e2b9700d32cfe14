--------------------------- MODULE SeatalkFormat ----------------------------
(***************************************************************************)
(* What the comments at the head of hooks-es5/seatalk/*.js say a datagram  *)
(* means: the measured values of a complete datagram, by path.  This is    *)
(* the reference the decoders of Seatalk are compared with; it is written  *)
(* over the bytes as numbers and shares nothing with them but the units.   *)
(***************************************************************************)
EXTENDS Integers, Sequences

\* A value is a number of parts (per unit "over") of the unit "from"
Quantity(amount, over, from, to) ==
    [amount |-> {amount}, over |-> over, from |-> from, to |-> to]

\* What is said of a path
Means(path, value) == [path |-> path, value |-> value]

IsSet(x, bit) == (x \div 2^bit) % 2 = 1
Nibble1(x) == x \div 16
Nibble0(x) == x % 16

\* bits set in the two higher bits of U
HigherBits(U) ==
    (IF IsSet(U, 2) THEN 1 ELSE 0) + (IF IsSet(U, 3) THEN 1 ELSE 0)

DocumentedHeading(U, VW) == (U % 4) * 90 + (VW % 64) * 2 + HigherBits(U)
DocumentedRudder(RR) == IF IsSet(RR, 7) THEN RR - 256 ELSE RR

\* "Track" over "Vane" over "Auto" over "Standby"
DocumentedMode(Z) ==
    CASE IsSet(Z, 3) -> "route" [] IsSet(Z, 2) /\ ~IsSet(Z, 3) -> "wind"
      [] IsSet(Z, 1) /\ ~IsSet(Z, 2) /\ ~IsSet(Z, 3) -> "auto"
      [] OTHER -> "standby"

\* b[1], b[2], ... are the bytes behind the datagram's type
Documented(type, b) ==
    LET word(i) == b[i] + 256 * b[i + 1]
        heading == DocumentedHeading(Nibble1(b[1]), b[2])
        degrees(n, over) == Quantity(n, over, "deg", "rad")
        minutes == b[2] * 6000 + (word(3) % 32768)
    IN
    CASE type = 0 -> {Means("environment.depth.belowTransducer",
                           Quantity(word(3), 10, "feet", "m"))}
      [] type = 16 -> LET half == 256 * b[2] + b[3] IN
                      {Means("environment.wind.angleApparent",
                           degrees(IF half > 360 THEN half - 720 ELSE half, 2))}
      [] type = 17 -> {Means("environment.wind.speedApparent",
                           Quantity(10 * (b[2] % 128) + (b[3] % 16), 10,
                                    "knots", "ms"))}
      [] type = 32 -> {Means("navigation.speedThroughWater",
                           Quantity(word(2), 10, "knots", "ms"))}
      [] type = 33 -> {Means("navigation.trip",
                           Quantity(word(2) + 65536 * Nibble0(b[4]), 100,
                                    "nm", "m"))}
      [] type = 34 -> {Means("navigation.log", Quantity(word(2), 10, "nm", "m"))}
      [] type = 37 ->
           {Means("navigation.log",
                Quantity(word(2) + 4096 * Nibble1(b[1]), 10, "nm", "m")),
            Means("navigation.trip",
                Quantity(word(4) + 65536 * Nibble0(b[6]), 100, "nm", "m"))}
      [] type = 38 ->
           (IF IsSet(b[6], 6)
            THEN {Means("navigation.speedThroughWater",
                      Quantity(word(2), 100, "knots", "ms"))} ELSE {})
           \cup
           (IF ~IsSet(b[6], 7)
            THEN {Means("navigation.averageSpeedThroughWater",
                      Quantity(word(4), 100, "knots", "ms"))} ELSE {})
      [] type = 39 -> {Means("environment.water.temperature",
                           Quantity(word(2) - 100, 10, "c", "k"))}
      [] type = 80 -> {Means("navigation.position.latitude",
                           Quantity(IF IsSet(b[4], 7) THEN -minutes ELSE minutes,
                                    6000, "deg", "deg"))}
      [] type = 81 -> {Means("navigation.position.longitude",
                           Quantity(IF IsSet(b[4], 7) THEN minutes ELSE -minutes,
                                    6000, "deg", "deg"))}
      [] type = 82 -> {Means("navigation.speedOverGround",
                           Quantity(word(2), 10, "knots", "ms"))}
      [] type = 83 -> LET U == Nibble1(b[1]) IN
                      {Means("navigation.courseOverGroundMagnetic",
                           degrees(720 * (U % 4) + 16 * (b[2] % 64)
                                   + 4 * (U \div 4), 8))}
      [] type = 132 ->
           {Means("navigation.headingMagnetic", degrees(heading, 1)),
            Means("steering.autopilot.target.headingMagnetic",
                degrees(180 * (b[2] \div 64) + b[3], 2)),
            Means("steering.rudderAngle", degrees(DocumentedRudder(b[6]), 1)),
            Means("steering.autopilot.state",
                [s |-> DocumentedMode(Nibble0(b[4]))])}
      [] type = 156 ->
           {Means("navigation.headingMagnetic", degrees(heading, 1)),
            Means("steering.rudderAngle", degrees(DocumentedRudder(b[3]), 1))}
      [] OTHER -> {}

\* The bytes behind the type, whose number and layout the comment gives
DatagramLength ==
    [type \in {0, 16, 17, 32, 33, 34, 37, 38, 39, 80, 81, 82, 83, 84, 86, 87,
               132, 153, 156} |->
        CASE type = 132 -> 8
          [] type \in {37, 38} -> 6
          [] type \in {0, 33, 34, 80, 81} -> 4
          [] type \in {83, 87, 153} -> 2
          [] OTHER -> 3]

WellFormed(type, b) ==
    /\ b \in Seq(0..255)
    /\ type \in DOMAIN DatagramLength => Len(b) = DatagramLength[type]
    /\ type = 17 => b[3] < 16    \* 11 01 XX 0Y
=============================================================================
