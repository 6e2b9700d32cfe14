-------------------------- MODULE NmeaReadingProofs --------------------------
(***************************************************************************)
(* What is sent for a sentence is what the sentence says: the reading of   *)
(* the instrument that made it, nothing of its own where a field is        *)
(* missing, and of a datagram what the comments of its decoder say.  For   *)
(* every reading and every datagram, where the runs have samples.          *)
(***************************************************************************)
EXTENDS NmeaProofs

-----------------------------------------------------------------------------
(* What a reading says of a path *)

LEMMA SameSelf == ASSUME NEW v PROVE Same(v, v)
BY DEF Same

(* A reading says one thing of a path. *)
LEMMA SaidOnce ==
  ASSUME NEW r, NEW v
  PROVE  /\ Same(v, Place(r)) => Agrees(Point, v, r)
         /\ Same(v, InKnots(r.speed)) => Agrees("navigation.speedOverGround", v, r)
         /\ Same(v, InKnots(r.speed)) => Agrees("navigation.speedThroughWater", v, r)
         /\ Same(v, Degrees(r.heading)) => Agrees("navigation.courseOverGroundTrue", v, r)
         /\ Same(v, Degrees(r.heading)) => Agrees("navigation.courseOverGroundMagnetic", v, r)
         /\ Same(v, Degrees(r.heading)) => Agrees("navigation.headingTrue", v, r)
         /\ Same(v, Degrees(r.heading)) => Agrees("navigation.headingMagnetic", v, r)
         /\ Same(v, Degrees(r.variation)) => Agrees("navigation.magneticVariation", v, r)
<1> DEFINE S == Said(r)
<1>1. \A said \in S : /\ said.path = Point => said.value = Place(r)
                      /\ said.path = "navigation.speedOverGround" => said.value = InKnots(r.speed)
                      /\ said.path = "navigation.speedThroughWater" => said.value = InKnots(r.speed)
  BY DEF Said, Means, Point, Rudder, Place
<1>2. \A said \in S :
         /\ said.path = "navigation.courseOverGroundTrue" => said.value = Degrees(r.heading)
         /\ said.path = "navigation.courseOverGroundMagnetic" => said.value = Degrees(r.heading)
         /\ said.path = "navigation.headingTrue" => said.value = Degrees(r.heading)
         /\ said.path = "navigation.headingMagnetic" => said.value = Degrees(r.heading)
         /\ said.path = "navigation.magneticVariation" => said.value = Degrees(r.variation)
  BY DEF Said, Means, Point, Rudder
<1> HIDE DEF S
<1> QED
  BY <1>1, <1>2 DEF Agrees, S

LEMMA SaidOnceMore ==
  ASSUME NEW r, NEW v
  PROVE  /\ Same(v, Degrees(r.wind)) => Agrees("environment.wind.angleApparent", v, r)
         /\ Same(v, InKnots(r.windSpeed)) => Agrees("environment.wind.speedApparent", v, r)
         /\ Same(v, Metres(r.depth)) => Agrees("environment.depth.belowTransducer", v, r)
         /\ Same(v, Metres(r.depth + r.surface)) => Agrees("environment.depth.belowSurface", v, r)
         /\ Same(v, Metres(r.depth - r.keel)) => Agrees("environment.depth.belowKeel", v, r)
         /\ Same(v, Metres(r.surface)) => Agrees("environment.depth.surfaceToTransducer", v, r)
         /\ Same(v, Metres(r.keel)) => Agrees("environment.depth.transducerToKeel", v, r)
         /\ Same(v, Degrees(r.rudder)) => Agrees(Rudder, v, r)
<1> DEFINE S == Said(r)
<1>1. \A said \in S :
         /\ said.path = "environment.wind.angleApparent" => said.value = Degrees(r.wind)
         /\ said.path = "environment.wind.speedApparent" => said.value = InKnots(r.windSpeed)
         /\ said.path = "environment.depth.belowTransducer" => said.value = Metres(r.depth)
         /\ said.path = Rudder => said.value = Degrees(r.rudder)
  BY DEF Said, Means, Point, Rudder
<1>2. \A said \in S :
         /\ said.path = "environment.depth.belowSurface"
               => said.value = Metres(r.depth + r.surface)
         /\ said.path = "environment.depth.belowKeel" => said.value = Metres(r.depth - r.keel)
         /\ said.path = "environment.depth.surfaceToTransducer"
               => said.value = Metres(r.surface)
         /\ said.path = "environment.depth.transducerToKeel" => said.value = Metres(r.keel)
  BY DEF Said, Means, Point, Rudder
<1> HIDE DEF S
<1> QED
  BY <1>1, <1>2 DEF Agrees, S

(* Of other paths it says nothing. *)
LEMMA NothingSaid ==
  ASSUME NEW r, NEW v
  PROVE  \A path \in {"NMEA0183", "navigation.magneticVariationAgeOfService",
                      "navigation.datetime", "navigation.gnss.methodQuality",
                      "navigation.gnss.satellites", "navigation.gnss.antennaAltitude",
                      "navigation.gnss.horizontalDilution",
                      "navigation.gnss.geoidalSeparation",
                      "navigation.gnss.differentialAge",
                      "navigation.gnss.differentialReference",
                      "steering.autopilot.state"} : Agrees(path, v, r)
<1> DEFINE Others == {"NMEA0183", "navigation.magneticVariationAgeOfService",
                      "navigation.datetime", "navigation.gnss.methodQuality",
                      "navigation.gnss.satellites", "navigation.gnss.antennaAltitude",
                      "navigation.gnss.horizontalDilution",
                      "navigation.gnss.geoidalSeparation",
                      "navigation.gnss.differentialAge",
                      "navigation.gnss.differentialReference",
                      "steering.autopilot.state"}
<1>1. \A said \in Said(r) : said.path \notin Others
  BY DEF Said, Means, Point, Rudder
<1> HIDE DEF Others
<1>2. \A path \in Others : Agrees(path, v, r)
  BY <1>1 DEF Agrees
<1> QED
  BY <1>2 DEF Others

(* All that a hook tells is what the reading says. *)
AllAgree(result, r) ==
    result.kind = "delta" =>
        \A i \in DOMAIN result.values :
            Agrees(result.values[i].path, result.values[i].value, r)

LEMMA ToldAgree ==
  ASSUME NEW result, NEW stamp, NEW told, NEW r, Tells(result, stamp, told),
         \A pv \in told : Agrees(pv.path, pv.value, r)
  PROVE  AllAgree(result, r)
BY DEF Tells, Told, AllAgree

LEMMA NothingAgrees == ASSUME NEW r PROVE AllAgree(Null, r) /\ AllAgree(Throw, r)
BY DEF AllAgree, Null, Throw

(* The values in the units of the hooks *)
LEMMA InUnits ==
  ASSUME NEW n
  PROVE  /\ Deg({n}) = Degrees(n) /\ Knots({n}) = InKnots(n)
         /\ Measure({n}, 1, "m", "m") = Metres(n)
BY DEF Deg, Degrees, Knots, InKnots, Measure, Metres, Quantity

LEMMA NumberThere ==
  ASSUME NEW n
  PROVE  float(Num(n)) = {n} /\ ~isEmpty(Num(n)) /\ Num(n) # Empty /\ Num(n) # Undefined
BY DEF float, Num, IsNumeric, isEmpty, Empty, Undefined, Text

(* The fallbacks leave a number that is not negative as it is. *)
LEMMA Fallbacks ==
  ASSUME NEW n \in Nat
  PROVE  ZeroUnlessPositive({n}) = {n} /\ ZeroIfNaN({n}) = {n}
         /\ (Positive({n}) <=> n > 0)
BY DEF ZeroUnlessPositive, Positive, ZeroIfNaN, NaN

(* Letters that give a sign *)
LEMMA SignOf ==
  ASSUME NEW n \in Int
  PROVE  /\ magneticVariaton(Num(Abs(n)), Pole(n, "E", "W")) = {n}
         /\ Times(float(Num(Abs(n))), IF Pole(n, "E", "W") = Text("E") THEN 1 ELSE -1) = {n}
         /\ Times(float(Num(Abs(n))),
                  IF Upper(Pole(n, "R", "L"), "R") THEN 1
                  ELSE IF Upper(Pole(n, "R", "L"), "L") THEN -1 ELSE 0) = {n}
<1> DEFINE k == Abs(n)
           sign == IF n < 0 THEN -1 ELSE 1
<1>1. k \in Int /\ k * sign = n
  BY DEF Abs
<1>2. float(Num(k)) = {k}
  BY NumberThere
<1> HIDE DEF k
<1>3. Times({k}, sign) = {k * sign}
  BY DEF Times
<1>4. /\ (IF Pole(n, "E", "W") \in {Text("S"), Text("W")} THEN -1 ELSE 1) = sign
      /\ (IF Pole(n, "E", "W") = Text("E") THEN 1 ELSE -1) = sign
  BY DEF Pole, Text
<1>5. (IF Upper(Pole(n, "R", "L"), "R") THEN 1
       ELSE IF Upper(Pole(n, "R", "L"), "L") THEN -1 ELSE 0) = sign
  BY DEF Pole, Text, Upper
<1> HIDE DEF sign
<1>6. Times(float(Num(k)), sign) = {n}
  BY <1>1, <1>2, <1>3
<1> QED
  BY <1>4, <1>5, <1>6 DEF magneticVariaton, k

-----------------------------------------------------------------------------
(* Each instrument agrees *)

LEMMA ReadingNumbers ==
  ASSUME NEW r \in ReadingSet
  PROVE  /\ r.lat \in Int /\ r.lon \in Int /\ r.variation \in Int
         /\ r.heading \in 0 .. 359 /\ r.heading \in Nat
         /\ r.speed \in Nat
         /\ r.wind \in -179 .. 180 /\ r.wind \in Int
         /\ r.windSpeed \in 0 .. 127 /\ r.windSpeed \in Nat
         /\ r.rudder \in -128 .. 127 /\ r.rudder \in Int
         /\ r.depth \in Nat /\ r.surface \in Nat /\ r.surface > 0
         /\ r.keel \in Nat /\ r.keel > 0
<1>1. r.lat \in Int /\ r.lon \in Int /\ r.variation \in Int
  BY DEF ReadingSet
<1>2. r.heading \in 0 .. 359 /\ r.heading \in Nat
  <2>1. r.heading \in 0 .. 359
    BY DEF ReadingSet
  <2> QED
    BY <2>1
<1>3. r.speed \in Nat
  <2> DEFINE top == 6553
             speeds == 0 .. top
  <2>1. top \in Nat /\ \A n \in speeds : n \in Nat
    OBVIOUS
  <2> HIDE DEF top
  <2>2. ReadingSet =
            [lat : Int, lon : Int, heading : 0 .. 359, speed : speeds, wind : -179 .. 180,
             windSpeed : 0 .. 127, variation : Int, rudder : -128 .. 127, depth : Nat,
             surface : Nat \ {0}, keel : Nat \ {0}]
    BY DEF ReadingSet, top
  <2> HIDE DEF speeds
  <2>3. r.speed \in speeds
    BY <2>2
  <2> QED
    BY <2>1, <2>3
<1>4. r.windSpeed \in 0 .. 127 /\ r.windSpeed \in Nat
  <2>1. r.windSpeed \in 0 .. 127
    BY DEF ReadingSet
  <2> QED
    BY <2>1
<1>5. r.wind \in -179 .. 180 /\ r.wind \in Int
  <2>1. r.wind \in -179 .. 180
    BY DEF ReadingSet
  <2> QED
    BY <2>1
<1>6. r.rudder \in -128 .. 127 /\ r.rudder \in Int
  <2>1. r.rudder \in -128 .. 127
    BY DEF ReadingSet
  <2> QED
    BY <2>1
<1>7. r.depth \in Nat /\ r.surface \in Nat /\ r.surface > 0 /\ r.keel \in Nat /\ r.keel > 0
  <2>1. r.depth \in Nat /\ r.surface \in Nat \ {0} /\ r.keel \in Nat \ {0}
    BY DEF ReadingSet
  <2> QED
    BY <2>1
<1> QED
  BY <1>1, <1>2, <1>3, <1>4, <1>5, <1>6, <1>7

LEMMA FixesAgree ==
  ASSUME NEW r \in ReadingSet, NEW t \in Int, NEW m \in Fixes(r, t), NEW now
  PROVE  AllAgree(RunHook(m, now, now), r)
<1> DEFINE p == m.parts
<1>1. CASE m.id = "RMC"
  <2>1. PICK status \in {"A", "V"}, date \in {Day(t), Empty} : m = Rmc(r, t, status, date)
    BY <1>1 DEF Fixes, Gga, Gll, Fix, Sentence
  <2>2. /\ At(p, 2) = Num(Abs(r.lat)) /\ At(p, 3) = Pole(r.lat, "N", "S")
        /\ At(p, 4) = Num(Abs(r.lon)) /\ At(p, 5) = Pole(r.lon, "E", "W")
        /\ At(p, 6) = Num(r.speed) /\ At(p, 7) = Num(r.heading)
        /\ At(p, 9) = Num(Abs(r.variation)) /\ At(p, 10) = Pole(r.variation, "E", "W")
    BY <2>1 DEF Rmc, Fix, Sentence, At, NS, EW
  <2>3. PositionAt(p, 2) = Place(r)
    BY <2>2, PlaceRead
  <2>4. r.speed \in Nat /\ r.heading \in Nat /\ r.variation \in Int
    BY ReadingNumbers
  <2>5. /\ Deg(ZeroIfNaN(float(At(p, 7)))) = Degrees(r.heading)
        /\ Knots(ZeroUnlessPositive(float(At(p, 6)))) = InKnots(r.speed)
        /\ Deg(magneticVariaton(At(p, 9), At(p, 10))) = Degrees(r.variation)
    <3>1. ZeroIfNaN(float(At(p, 7))) = {r.heading}
      BY <2>2, <2>4, NumberThere, Fallbacks
    <3>2. ZeroUnlessPositive(float(At(p, 6))) = {r.speed}
      BY <2>2, <2>4, NumberThere, Fallbacks
    <3>3. magneticVariaton(At(p, 9), At(p, 10)) = {r.variation}
      BY <2>2, <2>4, SignOf
    <3> QED
      BY <3>1, <3>2, <3>3, InUnits
  <2> DEFINE stamp == timestamp(At(p, 0), At(p, 8), now)
             values == <<
                 PV("navigation.position", PositionAt(p, 2)),
                 PV("navigation.courseOverGroundTrue", Deg(ZeroIfNaN(float(At(p, 7))))),
                 PV("navigation.speedOverGround", Knots(ZeroUnlessPositive(float(At(p, 6))))),
                 PV("navigation.magneticVariation",
                    Deg(magneticVariaton(At(p, 9), At(p, 10)))),
                 PV("navigation.magneticVariationAgeOfService", Measure(stamp, 1, "s", "s")),
                 PV("navigation.datetime", Measure(stamp, 1, "s", "s"))>>
  <2>6. RMC(p, now) = Throw \/ RMC(p, now).values = values
    BY DEF RMC, DeltaOf
  <2>7. \A i \in DOMAIN values : Agrees(values[i].path, values[i].value, r)
    BY <2>3, <2>5, SaidOnce, NothingSaid, SameSelf DEF PV, Point
  <2> HIDE DEF values
  <2>8. AllAgree(RMC(p, now), r)
    BY <2>6, <2>7, NothingAgrees DEF AllAgree
  <2> QED
    BY <1>1, <2>8, Dispatch
<1>2. CASE m.id = "GLL"
  <2>1. PICK status \in {"A", "V"} : m = Gll(r, t, status)
    BY <1>2 DEF Fixes, Gga, Rmc, Fix, Sentence
  <2>2. /\ At(p, 0) = Num(Abs(r.lat)) /\ At(p, 1) = Pole(r.lat, "N", "S")
        /\ At(p, 2) = Num(Abs(r.lon)) /\ At(p, 3) = Pole(r.lon, "E", "W")
    BY <2>1 DEF Gll, Fix, Sentence, At, NS, EW
  <2>3. PositionAt(p, 0) = Place(r)
    BY <2>2, PlaceRead
  <2>4. \/ GLL(p, now) \in {Null, Throw}
        \/ GLL(p, now).values = <<PV("navigation.position", PositionAt(p, 0))>>
    BY DEF GLL, DeltaOf
  <2>5. AllAgree(GLL(p, now), r)
    <3> DEFINE values == <<PV("navigation.position", PositionAt(p, 0))>>
    <3>1. \A i \in DOMAIN values : Agrees(values[i].path, values[i].value, r)
      BY <2>3, SaidOnce, SameSelf DEF PV, Point
    <3> HIDE DEF values
    <3> QED
      BY <2>4, <3>1, NothingAgrees DEF AllAgree, values
  <2> QED
    BY <1>2, <2>5, Dispatch
<1>3. CASE m.id = "GGA"
  <2>1. m = Gga(r, t)
    BY <1>3 DEF Fixes, Gll, Rmc, Fix, Sentence
  <2>2. /\ At(p, 1) = Num(Abs(r.lat)) /\ At(p, 2) = Pole(r.lat, "N", "S")
        /\ At(p, 3) = Num(Abs(r.lon)) /\ At(p, 4) = Pole(r.lon, "E", "W")
    BY <2>1 DEF Gga, Fix, Sentence, At, NS, EW
  <2>3. PositionAt(p, 1) = Place(r)
    BY <2>2, PlaceRead
  <2> DEFINE all == <<
                 PV("navigation.position", PositionAt(p, 1)),
                 PV("navigation.gnss.methodQuality", Quality(float(At(p, 5)))),
                 GnssNumber("navigation.gnss.satellites", At(p, 6)),
                 GnssNumber("navigation.gnss.antennaAltitude", At(p, 8)),
                 GnssNumber("navigation.gnss.horizontalDilution", At(p, 7)),
                 GnssNumber("navigation.gnss.geoidalSeparation", At(p, 11)),
                 GnssNumber("navigation.gnss.differentialAge", At(p, 12)),
                 GnssNumber("navigation.gnss.differentialReference", At(p, 13))>>
  <2>4. GGA(p, now) \in {Null, Throw} \/ GGA(p, now).values = RemoveInvalid(all)
    BY DEF GGA, DeltaOf
  <2>5. \A i \in DOMAIN all : Agrees(all[i].path, all[i].value, r)
    BY <2>3, SaidOnce, NothingSaid, SameSelf DEF PV, GnssNumber, Point
  <2> HIDE DEF all
  <2>6. \A i \in DOMAIN RemoveInvalid(all) : i \in DOMAIN all /\ RemoveInvalid(all)[i] = all[i]
    BY DEF RemoveInvalid
  <2>7. AllAgree(GGA(p, now), r)
    BY <2>4, <2>5, <2>6, NothingAgrees DEF AllAgree
  <2> QED
    BY <1>3, <2>7, Dispatch
<1> QED
  BY <1>1, <1>2, <1>3, InstrumentIds DEF FixHooks

LEMMA TellsThree ==
  ASSUME NEW stamp, NEW c, NEW a, NEW d, NEW b, NEW e, NEW f
  PROVE  Tells(Delta(stamp, When(c, a) \o When(d, b) \o When(e, f)), stamp,
               (IF c THEN {a} ELSE {}) \cup (IF d THEN {b} ELSE {})
               \cup (IF e THEN {f} ELSE {}))
<1> DEFINE S == {a, b, f}
           u == When(c, a) \o When(d, b)
           v == When(e, f)
<1>1. When(c, a) \in Seq(S) /\ When(d, b) \in Seq(S) /\ v \in Seq(S)
  BY WhenSeq
<1> HIDE DEF S
<1>2. u \in Seq(S) /\ Told(u) = (IF c THEN {a} ELSE {}) \cup (IF d THEN {b} ELSE {})
  BY <1>1, ToldConcat, ToldTwo
<1>3. Told(v) = IF e THEN {f} ELSE {}
  BY ToldWhen
<1> HIDE DEF u, v
<1>4. u \o v \in Seq(S) /\ Told(u \o v) = Told(u) \cup Told(v)
  BY <1>1, <1>2, ToldConcat
<1>5. Tells(Delta(stamp, u \o v), stamp, Told(u) \cup Told(v))
  BY <1>4, TellsSeq
<1> QED
  BY <1>2, <1>3, <1>5 DEF u, v

(* Knots, or kilometres per hour of a whole number of them *)
LEMMA SpeedGiven ==
  ASSUME NEW s \in Nat, NEW kph
  PROVE  /\ float(kph) = {(s * 463) \div 250} =>
               Same(SpeedOf(Num(s), Text("N"), kph, Text("K")), InKnots(s))
         /\ s % 250 = 0 => Same(SpeedOf(Empty, Empty, Num((s * 463) \div 250), Text("K")),
                                InKnots(s))
<1> DEFINE k == (s * 463) \div 250
<1>1. k \in Nat /\ (s = 0 => k = 0)
      /\ (s % 250 = 0 => k * 1000 = s * 1852 /\ (s > 0 => k > 0))
  OBVIOUS
<1>2. Same(Measure({0}, 1, "ms", "ms"), InKnots(0))
  BY DEF Same, IsMeasure, Measure, Measures, InKnots, Quantity, Size
<1> HIDE DEF k
<1>3. ASSUME float(kph) = {k}
      PROVE  Same(SpeedOf(Num(s), Text("N"), kph, Text("K")), InKnots(s))
  <2>1. CASE s > 0
    <3>1. SpeedOf(Num(s), Text("N"), kph, Text("K")) = InKnots(s)
      BY <2>1, NumberThere, Fallbacks, InUnits DEF SpeedOf, Upper
    <3> QED
      BY <3>1, SameSelf
  <2>2. CASE s = 0
    <3>1. ~Positive({0})
      BY Fallbacks
    <3>2. float(Num(s)) = {0} /\ float(kph) = {0}
      BY <1>1, <1>3, <2>2, NumberThere
    <3>3. SpeedOf(Num(s), Text("N"), kph, Text("K")) = Measure({0}, 1, "ms", "ms")
      BY <3>1, <3>2 DEF SpeedOf
    <3> QED
      BY <1>2, <2>2, <3>3
  <2> QED
    BY <2>1, <2>2
<1>4. ASSUME s % 250 = 0
      PROVE  Same(SpeedOf(Empty, Empty, Num(k), Text("K")), InKnots(s))
  <2>1. float(Empty) = {0} /\ ~Positive({0}) /\ float(Num(k)) = {k}
    <3>1. float(Empty) = {0}
      BY DEF float, Empty, Text, IsNumeric
    <3>2. ~Positive({0})
      BY DEF Positive
    <3> QED
      BY <3>1, <3>2, NumberThere
  <2>2. CASE s > 0
    <3>1. Positive({k})
      <4>1. k > 0
        BY <1>1, <1>4, <2>2
      <4> QED
        BY <4>1 DEF Positive
    <3>2. SpeedOf(Empty, Empty, Num(k), Text("K")) = Measure({k}, 1, "kph", "ms")
      BY <2>1, <3>1 DEF SpeedOf, Upper
    <3>3. Same(Measure({k}, 1, "kph", "ms"), InKnots(s))
      <4>1. k * 1000 * 1 = s * 1852 * 1
        BY <1>1, <1>4
      <4>2. {a * Size("kph") * 1 : a \in {k}} = {a * Size("knots") * 1 : a \in {s}}
        BY <1>1, <4>1 DEF Size
      <4> QED
        BY <4>2 DEF Same, IsMeasure, Measure, Measures, InKnots, Quantity
    <3> QED
      BY <3>2, <3>3
  <2>3. CASE s = 0
    <3>1. SpeedOf(Empty, Empty, Num(k), Text("K")) = Measure({0}, 1, "ms", "ms")
      BY <1>1, <2>1, <2>3 DEF SpeedOf
    <3> QED
      BY <1>2, <2>3, <3>1
  <2> QED
    BY <2>2, <2>3
<1> QED
  BY <1>3, <1>4 DEF k

LEMMA SpeedsAgree ==
  ASSUME NEW r \in ReadingSet, NEW stamp, NEW now, NEW m,
         m \in Speeds(r) \/ (m = KphOnly(r) /\ r.speed % 250 = 0)
  PROVE  AllAgree(RunHook(m, stamp, now), r)
<1> DEFINE p == m.parts
<1>1. r.speed \in Nat /\ r.heading \in Nat
  BY ReadingNumbers
<1>2. CASE m.id = "VTG"
  <2>1. /\ At(p, 0) = Num(r.heading) /\ At(p, 2) = Num(r.heading)
        /\ \/ /\ At(p, 4) = Num(r.speed) /\ At(p, 5) = Text("N")
           \/ /\ At(p, 4) = Empty /\ At(p, 5) = Empty /\ r.speed % 250 = 0
        /\ At(p, 6) = Num((r.speed * 463) \div 250) /\ At(p, 7) = Text("K")
    <3>1. CASE m = KphOnly(r) /\ r.speed % 250 = 0
      BY <3>1 DEF KphOnly, Sentence, At
    <3>2. CASE m \in Speeds(r)
      <4>1. m = Sentence("VTG", r, <<Num(r.heading), Text("T"), Num(r.heading), Text("M"),
                  Num(r.speed), Text("N"), Num((r.speed * 463) \div 250), Text("K")>>)
        BY <1>2, <3>2 DEF Speeds, Sentence
      <4> QED
        BY <4>1 DEF Sentence, At
    <3> QED
      BY <3>1, <3>2
  <2>2. Same(SpeedOf(At(p, 4), At(p, 5), At(p, 6), At(p, 7)), InKnots(r.speed))
    BY <1>1, <2>1, SpeedGiven, NumberThere
  <2>3. Deg(float(At(p, 0))) = Degrees(r.heading) /\ Deg(float(At(p, 2))) = Degrees(r.heading)
    BY <2>1, NumberThere, InUnits
  <2> DEFINE values == <<
                 PV("navigation.courseOverGroundMagnetic", Deg(float(At(p, 2)))),
                 PV("navigation.courseOverGroundTrue", Deg(float(At(p, 0)))),
                 PV("navigation.speedOverGround",
                    SpeedOf(At(p, 4), At(p, 5), At(p, 6), At(p, 7)))>>
  <2>4. VTG(p, stamp) = Null \/ VTG(p, stamp).values = values
    BY DEF VTG, Delta, DeltaOf
  <2>5. \A i \in DOMAIN values : Agrees(values[i].path, values[i].value, r)
    BY <2>2, <2>3, SaidOnce, SameSelf DEF PV
  <2> HIDE DEF values
  <2>6. AllAgree(VTG(p, stamp), r)
    BY <2>4, <2>5, NothingAgrees DEF AllAgree
  <2> QED
    BY <1>2, <2>6, Dispatch
<1>3. CASE m.id = "VHW"
  <2>1. At(p, 0) = Num(r.heading) /\ At(p, 2) = Num(r.heading) /\ At(p, 4) = Num(r.speed)
    <3>1. m = Sentence("VHW", r, <<Num(r.heading), Text("T"), Num(r.heading), Text("M"),
                 Num(r.speed), Text("N"), Num(r.speed), Text("K")>>)
      BY <1>3 DEF Speeds, KphOnly, Sentence
    <3> QED
      BY <3>1 DEF Sentence, At
  <2>2. /\ Deg(float(At(p, 0))) = Degrees(r.heading)
        /\ Deg(float(At(p, 2))) = Degrees(r.heading)
        /\ Knots(float(At(p, 4))) = InKnots(r.speed)
    BY <2>1, NumberThere, InUnits
  <2> DEFINE told ==
        (IF At(p, 0) # Empty THEN {PV("navigation.headingTrue", Deg(float(At(p, 0))))} ELSE {})
        \cup (IF At(p, 2) # Empty
              THEN {PV("navigation.headingMagnetic", Deg(float(At(p, 2))))} ELSE {})
        \cup (IF At(p, 4) # Empty
              THEN {PV("navigation.speedThroughWater", Knots(float(At(p, 4))))} ELSE {})
  <2>3. Tells(VHW(p, stamp), stamp, told)
    <3> DEFINE c == At(p, 0) # Empty
               d == At(p, 2) # Empty
               e == At(p, 4) # Empty
               a == PV("navigation.headingTrue", Deg(float(At(p, 0))))
               b == PV("navigation.headingMagnetic", Deg(float(At(p, 2))))
               f == PV("navigation.speedThroughWater", Knots(float(At(p, 4))))
    <3>1. VHW(p, stamp) = Delta(stamp, When(c, a) \o When(d, b) \o When(e, f))
      BY DEF VHW
    <3>2. told = (IF c THEN {a} ELSE {}) \cup (IF d THEN {b} ELSE {})
                 \cup (IF e THEN {f} ELSE {})
      OBVIOUS
    <3> HIDE DEF a, b, c, d, e, f, told
    <3> QED
      BY <3>1, <3>2, TellsThree
  <2>4. \A pv \in told : Agrees(pv.path, pv.value, r)
    BY <2>2, SaidOnce, SameSelf DEF PV
  <2> HIDE DEF told
  <2>5. AllAgree(VHW(p, stamp), r)
    BY <2>3, <2>4, ToldAgree
  <2> QED
    BY <1>3, <2>5, Dispatch
<1> QED
  BY <1>2, <1>3, InstrumentIds

LEMMA HeadingsAgree ==
  ASSUME NEW r \in ReadingSet, NEW stamp, NEW now, NEW m \in Headings(r)
  PROVE  AllAgree(RunHook(m, stamp, now), r)
<1> DEFINE p == m.parts
<1>1. r.heading \in Nat /\ r.variation \in Int
  BY ReadingNumbers
<1>2. At(p, 0) = Num(r.heading) /\ Deg(float(At(p, 0))) = Degrees(r.heading)
      /\ ~isEmpty(At(p, 0))
  BY NumberThere, InUnits DEF Headings, Sentence, At
<1>3. CASE m.id = "HDG"
  <2>1. At(p, 3) = Num(Abs(r.variation)) /\ At(p, 4) = Pole(r.variation, "E", "W")
    BY <1>3 DEF Headings, Sentence, At
  <2> DEFINE variation == Deg(Times(float(At(p, 3)), IF At(p, 4) = Text("E") THEN 1 ELSE -1))
             values == When(~isEmpty(At(p, 0)),
                            PV("navigation.headingMagnetic", Deg(float(At(p, 0)))))
                       \o When(~(isEmpty(At(p, 3)) \/ isEmpty(At(p, 4))),
                               PV("navigation.magneticVariation", variation))
             told == (IF ~isEmpty(At(p, 0))
                      THEN {PV("navigation.headingMagnetic", Deg(float(At(p, 0))))} ELSE {})
                     \cup (IF ~(isEmpty(At(p, 3)) \/ isEmpty(At(p, 4)))
                           THEN {PV("navigation.magneticVariation", variation)} ELSE {})
  <2>2. variation = Degrees(r.variation)
    BY <1>1, <2>1, SignOf, InUnits
  <2>3. HDG(p, stamp) = Null \/ HDG(p, stamp) = Delta(stamp, values)
    BY DEF HDG
  <2>4. Tells(Delta(stamp, values), stamp, told)
    BY TellsTwo
  <2>5. \A pv \in told : Agrees(pv.path, pv.value, r)
    BY <1>2, <2>2, SaidOnce, SameSelf DEF PV
  <2> HIDE DEF told, values
  <2>6. AllAgree(HDG(p, stamp), r)
    BY <2>3, <2>4, <2>5, ToldAgree, NothingAgrees
  <2> QED
    BY <1>3, <2>6, Dispatch
<1>4. CASE m.id = "HDT"
  <2>1. HDT(p, stamp).values = <<PV("navigation.headingTrue", Degrees(r.heading))>>
    BY <1>2 DEF HDT, OneNumber, Delta, DeltaOf
  <2>2. AllAgree(HDT(p, stamp), r)
    BY <2>1, SaidOnce, SameSelf DEF AllAgree, PV
  <2> QED
    BY <1>4, <2>2, Dispatch
<1>5. CASE m.id = "HDM"
  <2>1. HDM(p, stamp).values = <<PV("navigation.headingMagnetic", Degrees(r.heading))>>
    BY <1>2 DEF HDM, OneNumber, Delta, DeltaOf
  <2>2. AllAgree(HDM(p, stamp), r)
    BY <2>1, SaidOnce, SameSelf DEF AllAgree, PV
  <2> QED
    BY <1>5, <2>2, Dispatch
<1> QED
  BY <1>3, <1>4, <1>5, InstrumentIds

(* An angle of 0..359 is brought back to -179..180. *)
LEMMA WrappedAngle ==
  ASSUME NEW w \in -179 .. 180
  PROVE  WindAngle360({w % 360}) = {w}
<1> DEFINE k == w % 360
           rest(v) == IF v >= 0 THEN v % 360 ELSE -((-v) % 360)
<1>1. k \in Int /\ k >= 0 /\ k % 360 = k /\ (IF k > 180 THEN k - 360 ELSE k) = w
  OBVIOUS
<1> HIDE DEF k
<1>2. rest(k) = k
  BY <1>1
<1>3. WindAngle360({k}) = {IF rest(k) > 180 THEN rest(k) - 360 ELSE rest(k)}
  BY DEF WindAngle360
<1> HIDE DEF rest
<1>4. WindAngle360({k}) = {w}
  BY <1>1, <1>2, <1>3
<1> QED
  BY <1>4 DEF k

LEMMA WindsAgree ==
  ASSUME NEW r \in ReadingSet, NEW stamp, NEW now, NEW m \in Winds(r)
  PROVE  AllAgree(RunHook(m, stamp, now), r)
<1> DEFINE p == m.parts
<1>1. r.wind \in -179 .. 180 /\ r.wind \in Int /\ r.windSpeed \in Nat
  BY ReadingNumbers
<1>2. CASE m.id = "MWV"
  <2>1. m = Sentence("MWV", r, <<Num(r.wind % 360), Text("R"), Num(r.windSpeed),
                                 Text("N"), Text("A")>>)
    BY <1>2 DEF Winds, Sentence
  <2>2. /\ At(p, 0) = Num(r.wind % 360) /\ Upper(At(p, 1), "R")
        /\ At(p, 2) = Num(r.windSpeed) /\ Upper(At(p, 3), "N") /\ ~Upper(At(p, 3), "K")
        /\ Upper(At(p, 4), "A")
    <3>1. /\ At(p, 0) = Num(r.wind % 360) /\ At(p, 1) = Text("R")
          /\ At(p, 2) = Num(r.windSpeed) /\ At(p, 3) = Text("N") /\ At(p, 4) = Text("A")
      BY <2>1 DEF Sentence, At
    <3>2. Text("N") # Text("K")
      BY DEF Text
    <3> QED
      BY <3>1, <3>2 DEF Upper
  <2>3. WindAngle360(float(At(p, 0))) = {r.wind}
    <3> DEFINE w == r.wind
    <3>1. float(At(p, 0)) = {w % 360} /\ w \in -179 .. 180
      BY <1>1, <2>2, NumberThere
    <3> HIDE DEF w
    <3>2. WindAngle360({w % 360}) = {w}
      BY <3>1, WrappedAngle
    <3> QED
      BY <3>1, <3>2 DEF w
  <2>4. float(At(p, 2)) = {r.windSpeed}
    BY <2>2, NumberThere
  <2> DEFINE values == <<PV("environment.wind.speedApparent", InKnots(r.windSpeed)),
                         PV("environment.wind.angleApparent", Degrees(r.wind))>>
  <2>5. Measure({r.windSpeed}, 1, "knots", "ms") = InKnots(r.windSpeed)
        /\ Deg({r.wind}) = Degrees(r.wind)
    BY InUnits DEF Knots
  <2>6. MWV(p, stamp).values = values
    BY <2>2, <2>3, <2>4, <2>5 DEF MWV, Delta, DeltaOf
  <2>7. \A i \in DOMAIN values : Agrees(values[i].path, values[i].value, r)
    BY SaidOnceMore, SameSelf DEF PV
  <2> HIDE DEF values
  <2>8. AllAgree(MWV(p, stamp), r)
    BY <2>6, <2>7 DEF AllAgree
  <2> QED
    BY <1>2, <2>8, Dispatch
<1>3. CASE m.id = "VWR"
  <2>1. m = Sentence("VWR", r, <<Num(Abs(r.wind)), Pole(r.wind, "R", "L"),
                Num(r.windSpeed), Text("N"), Empty, Empty, Empty, Empty>>)
    BY <1>3 DEF Winds, Sentence
  <2>2. /\ At(p, 0) = Num(Abs(r.wind)) /\ At(p, 1) = Pole(r.wind, "R", "L")
        /\ At(p, 2) = Num(r.windSpeed)
    BY <2>1 DEF Sentence, At
  <2> DEFINE sign == IF Upper(At(p, 1), "R") THEN 1 ELSE IF Upper(At(p, 1), "L") THEN -1 ELSE 0
             values == <<PV("environment.wind.angleApparent",
                            Deg(Times(float(At(p, 0)), sign))),
                         PV("environment.wind.speedApparent", Knots(float(At(p, 2))))>>
  <2>3. Times(float(At(p, 0)), sign) = {r.wind} /\ float(At(p, 2)) = {r.windSpeed}
    BY <1>1, <2>2, SignOf, NumberThere
  <2>4. VWR(p, stamp) = Null \/ VWR(p, stamp).values = values
    BY DEF VWR, Delta, DeltaOf
  <2> HIDE DEF sign
  <2>5. \A i \in DOMAIN values : Agrees(values[i].path, values[i].value, r)
    <3>1. /\ Deg(Times(float(At(p, 0)), sign)) = Degrees(r.wind)
          /\ Knots(float(At(p, 2))) = InKnots(r.windSpeed)
      BY <2>3, InUnits
    <3> QED
      BY <3>1, SaidOnceMore, SameSelf DEF PV
  <2> HIDE DEF values
  <2>6. AllAgree(VWR(p, stamp), r)
    BY <2>4, <2>5, NothingAgrees DEF AllAgree
  <2> QED
    BY <1>3, <2>6, Dispatch
<1> QED
  BY <1>2, <1>3, InstrumentIds

LEMMA TellsOneAndTwo ==
  ASSUME NEW stamp, NEW a, NEW b, NEW c
  PROVE  Tells(Delta(stamp, <<a>> \o <<b, c>>), stamp, {a, b, c})
<1> DEFINE S == {a, b, c}
           s == <<a>>
           t == <<b, c>>
<1>1. s \in Seq(S) /\ t \in Seq(S)
  OBVIOUS
<1>2. Told(s) = {a} /\ Told(t) = {b, c}
  BY ToldTuples
<1> HIDE DEF S, s, t
<1>3. s \o t \in Seq(S) /\ Told(s \o t) = Told(s) \cup Told(t)
  BY <1>1, ToldConcat
<1>4. Told(s \o t) = {a, b, c}
  BY <1>2, <1>3
<1>5. Tells(Delta(stamp, s \o t), stamp, {a, b, c})
  BY <1>3, <1>4, TellsSeq
<1> QED
  BY <1>5 DEF s, t

LEMMA DepthsAgree ==
  ASSUME NEW r \in ReadingSet, NEW stamp, NEW now, NEW m \in Depths(r)
  PROVE  AllAgree(RunHook(m, stamp, now), r)
<1> DEFINE p == m.parts
           M(x) == Measure(x, 1, "m", "m")
           depth  == float(At(p, 0))
           offset == float(At(p, 1))
<1>1. /\ r.depth \in Nat /\ r.surface \in Nat /\ r.surface > 0
      /\ r.keel \in Nat /\ r.keel > 0
  BY ReadingNumbers
<1>2. CASE m.id = "DBT"
  <2>1. m = Sentence("DBT", r, <<Num(9), Text("f"), Num(r.depth), Text("M"), Num(1), Text("F")>>)
    BY <1>2 DEF Depths, Sentence
  <2>2. At(p, 2) = Num(r.depth)
    BY <2>1 DEF Sentence, At
  <2>3. ~isEmpty(At(p, 2)) /\ Measure(float(At(p, 2)), 1, "m", "m") = Metres(r.depth)
    BY <2>2, NumberThere, InUnits
  <2> DEFINE values == <<PV("environment.depth.belowTransducer", Metres(r.depth))>>
  <2>4. DBT(p, stamp).values = values
    BY <2>3 DEF DBT, OneNumber, Delta, DeltaOf
  <2>5. \A i \in DOMAIN values : Agrees(values[i].path, values[i].value, r)
    BY SaidOnceMore, SameSelf DEF PV
  <2> HIDE DEF values
  <2>6. AllAgree(DBT(p, stamp), r)
    BY <2>4, <2>5 DEF AllAgree
  <2> QED
    BY <1>2, <2>6, Dispatch
<1>3. CASE m = Sentence("DPT", r, <<Num(r.depth), Num(r.surface)>>)
  <2>1. At(p, 0) = Num(r.depth) /\ At(p, 1) = Num(r.surface)
    BY <1>3 DEF Sentence, At
  <2>2. /\ depth = {r.depth} /\ offset = {r.surface} /\ ~isEmpty(At(p, 0))
        /\ At(p, 1) # Undefined
    BY <2>1, NumberThere
  <2>3. Positive(offset)
    BY <1>1, <2>2 DEF Positive
  <2>4. Plus(depth, offset) = {r.depth + r.surface}
    BY <2>2 DEF Plus
  <2> HIDE DEF depth, offset
  <2> DEFINE a == PV("environment.depth.belowTransducer", M(depth))
             b == PV("environment.depth.surfaceToTransducer", M(offset))
             c == PV("environment.depth.belowSurface", M(Plus(depth, offset)))
  <2>5. DPT(p, stamp) = Delta(stamp, <<a>> \o <<b, c>>)
    BY <2>2, <2>3 DEF DPT, depth, offset
  <2>6. \A pv \in {a, b, c} : Agrees(pv.path, pv.value, r)
    <3>1. /\ M(depth) = Metres(r.depth) /\ M(offset) = Metres(r.surface)
          /\ M(Plus(depth, offset)) = Metres(r.depth + r.surface)
      BY <2>2, <2>4, InUnits
    <3>2. Agrees(a.path, a.value, r) /\ Agrees(b.path, b.value, r) /\ Agrees(c.path, c.value, r)
      BY <3>1, SaidOnceMore, SameSelf DEF PV
    <3> HIDE DEF a, b, c
    <3> QED
      BY <3>2
  <2> HIDE DEF a, b, c
  <2>7. AllAgree(DPT(p, stamp), r)
    <3>1. Tells(DPT(p, stamp), stamp, {a, b, c})
      BY <2>5, TellsOneAndTwo
    <3> QED
      BY <2>6, <3>1, ToldAgree
  <2>8. m.id = "DPT"
    BY <1>3 DEF Sentence
  <2> QED
    BY <2>7, <2>8, Dispatch
<1>4. CASE m = Sentence("DPT", r, <<Num(r.depth), Num(-r.keel)>>)
  <2> DEFINE back == Times(offset, -1)
  <2>1. At(p, 0) = Num(r.depth) /\ At(p, 1) = Num(-r.keel)
    BY <1>4 DEF Sentence, At
  <2>2. /\ depth = {r.depth} /\ offset = {-r.keel} /\ ~isEmpty(At(p, 0))
        /\ At(p, 1) # Undefined
    BY <2>1, NumberThere
  <2>3. ~Positive(offset)
    BY <1>1, <2>2 DEF Positive
  <2>4. Plus(depth, offset) = {r.depth - r.keel}
    <3>1. Plus(depth, offset) = {r.depth + (-r.keel)}
      BY <2>2 DEF Plus
    <3>2. r.depth + (-r.keel) = r.depth - r.keel
      BY <1>1
    <3> QED
      BY <3>1, <3>2
  <2>5. back = {r.keel}
    <3>1. back = {(-r.keel) * (-1)}
      BY <2>2 DEF Times
    <3>2. (-r.keel) * (-1) = r.keel
      BY <1>1
    <3> QED
      BY <3>1, <3>2
  <2>6. Positive(back)
    BY <1>1, <2>5 DEF Positive
  <2> HIDE DEF depth, offset
  <2> DEFINE a == PV("environment.depth.belowTransducer", M(depth))
             b == PV("environment.depth.transducerToKeel", M(back))
             c == PV("environment.depth.belowKeel", M(Plus(depth, offset)))
  <2>7. DPT(p, stamp) = Delta(stamp, <<a>> \o <<b, c>>)
    BY <2>2, <2>3, <2>6 DEF DPT, depth, offset
  <2> HIDE DEF back
  <2>8. \A pv \in {a, b, c} : Agrees(pv.path, pv.value, r)
    <3>1. /\ M(depth) = Metres(r.depth) /\ M(back) = Metres(r.keel)
          /\ M(Plus(depth, offset)) = Metres(r.depth - r.keel)
      BY <2>2, <2>4, <2>5, InUnits
    <3>2. Agrees(a.path, a.value, r) /\ Agrees(b.path, b.value, r) /\ Agrees(c.path, c.value, r)
      BY <3>1, SaidOnceMore, SameSelf DEF PV
    <3> HIDE DEF a, b, c
    <3> QED
      BY <3>2
  <2> HIDE DEF a, b, c
  <2>9. AllAgree(DPT(p, stamp), r)
    <3>1. Tells(DPT(p, stamp), stamp, {a, b, c})
      BY <2>7, TellsOneAndTwo
    <3> QED
      BY <2>8, <3>1, ToldAgree
  <2>10. m.id = "DPT"
    BY <1>4 DEF Sentence
  <2> QED
    BY <2>9, <2>10, Dispatch
<1>5. \/ m.id = "DBT"
      \/ m = Sentence("DPT", r, <<Num(r.depth), Num(r.surface)>>)
      \/ m = Sentence("DPT", r, <<Num(r.depth), Num(-r.keel)>>)
  BY DEF Depths, Sentence
<1> QED
  BY <1>2, <1>3, <1>4, <1>5

(* Two bytes of a number *)
LEMMA WordThere ==
  ASSUME NEW n \in Nat, NEW p, NEW i \in Nat,
         At(p, i) = LowByte(n), At(p, i + 1) = HighByte(n)
  PROVE  Word(p, i) = {n}
<1> DEFINE l == n % 256
           h == n \div 256
           H == Byte(p, i + 1)
           L == Byte(p, i)
<1>1. l \in Int /\ h \in Int /\ l + h * 256 = n
  OBVIOUS
<1>2. L = {l} /\ H = {h}
  BY ByteThere DEF LowByte, HighByte
<1> HIDE DEF l, h, H, L
<1>3. Times(H, 256) = {h * 256}
  BY <1>2 DEF Times
<1> DEFINE k == h * 256
<1> HIDE DEF k
<1>4. Times(H, 256) = {k}
  BY <1>3 DEF k
<1>5. Plus(L, Times(H, 256)) = {l + k}
  BY <1>2, <1>4 DEF Plus
<1> QED
  BY <1>1, <1>5 DEF Word, H, L, k

LEMMA DatagramsAgree ==
  ASSUME NEW r \in ReadingSet, NEW stamp, NEW now, NEW m \in Datagrams(r)
  PROVE  AllAgree(RunHook(m, stamp, now), r)
<1> DEFINE p == m.parts
<1>1. r.wind \in -179 .. 180 /\ r.windSpeed \in 0 .. 127 /\ r.speed \in Nat
  BY ReadingNumbers
<1>2. RunHook(m, stamp, now) = ALK(p, stamp)
  BY InstrumentIds, Dispatch
<1>3. CASE m = Sentence("ALK", r, <<Num(16), Num(1), HighByte((2 * r.wind) % 720),
                                    LowByte((2 * r.wind) % 720)>>)
  <2> DEFINE n == (2 * r.wind) % 720
             H == Byte(p, 2)
             L == Byte(p, 3)
             half == Plus(Times(H, 256), L)
             wrap == {IF a > 360 THEN a - 720 ELSE a : a \in half}
  <2>1. At(p, 0) = Num(16) /\ At(p, 2) = HighByte(n) /\ At(p, 3) = LowByte(n)
    BY <1>3 DEF Sentence, At
  <2>2. ALK(p, stamp) = WindAngle(p, stamp)
    BY <2>1 DEF ALK, Decode, SeatalkTypes, Num, IsNumeric, Undefined, Text
  <2>3. n \in Nat /\ (IF n > 360 THEN n - 720 ELSE n) = 2 * r.wind
    BY <1>1
  <2> HIDE DEF n
  <2>4. half = {n}
    <3> DEFINE l == n % 256
               h == n \div 256
               k == h * 256
    <3>1. l \in Int /\ k \in Int /\ k + l = n
      BY <2>3
    <3>2. H = {h} /\ L = {l}
      BY <2>1, ByteThere DEF LowByte, HighByte
    <3> HIDE DEF l, h, H, L
    <3>3. Times(H, 256) = {k}
      BY <3>2 DEF Times
    <3> HIDE DEF k
    <3>4. Plus(Times(H, 256), L) = {k + l}
      BY <3>2, <3>3 DEF Plus
    <3> QED
      BY <3>1, <3>4
  <2>5. wrap = {2 * r.wind}
    BY <2>3, <2>4
  <2>6. WindAngle(p, stamp).values
          = <<PV("environment.wind.angleApparent", Measure(wrap, 2, "deg", "rad"))>>
    BY DEF WindAngle, Delta, DeltaOf
  <2> HIDE DEF wrap
  <2>7. Same(Measure(wrap, 2, "deg", "rad"), Degrees(r.wind))
    <3>1. {a * Size("deg") * 1 : a \in {2 * r.wind}} = {a * Size("deg") * 2 : a \in {r.wind}}
      BY <1>1 DEF Size
    <3> QED
      BY <2>5, <3>1 DEF Same, IsMeasure, Measure, Measures, Degrees, Quantity
  <2>8. AllAgree(WindAngle(p, stamp), r)
    BY <2>6, <2>7, SaidOnceMore DEF AllAgree, PV
  <2> QED
    BY <1>2, <2>2, <2>8
<1>4. CASE m = Sentence("ALK", r, <<Num(17), Num(1), Num(r.windSpeed), Num(0)>>)
  <2> DEFINE w == r.windSpeed
             B == Byte(p, 2)
             C == Byte(p, 3)
             sum == Plus(Times(Low(B, 7), 10), C)
  <2>1. At(p, 0) = Num(17) /\ At(p, 2) = Num(w) /\ At(p, 3) = Num(0)
    BY <1>4 DEF Sentence, At
  <2>2. ALK(p, stamp) = WindSpeed(p, stamp)
    BY <2>1 DEF ALK, Decode, SeatalkTypes, Num, IsNumeric, Undefined, Text
  <2>3. w \in Nat /\ w % 128 = w
    BY <1>1
  <2>4. B = {w} /\ C = {0}
    BY <2>1, ByteThere
  <2>5. WindSpeed(p, stamp).values
          = <<PV("environment.wind.speedApparent", Measure(sum, 10, "knots", "ms"))>>
    BY DEF WindSpeed, Delta, DeltaOf
  <2> HIDE DEF w, B, C
  <2>6. sum = {w * 10}
    <3> DEFINE K == Low(B, 7)
               T == Times(K, 10)
               k == w * 10
    <3>1. Int32(B) = {w}
      BY <2>4 DEF Int32, ZeroIfNaN, NaN
    <3>2. 2^7 = 128
      OBVIOUS
    <3>3. K = {w}
      BY <2>3, <3>1, <3>2 DEF Low
    <3> HIDE DEF K
    <3>4. T = {k} /\ k \in Int
      BY <2>3, <3>3 DEF Times
    <3> HIDE DEF T, k
    <3>5. Plus(T, C) = {k + 0}
      BY <2>4, <3>4 DEF Plus
    <3>6. k + 0 = k
      BY <3>4
    <3> QED
      BY <3>5, <3>6 DEF T, K, k
  <2> HIDE DEF sum
  <2>7. Same(Measure(sum, 10, "knots", "ms"), InKnots(w))
    <3>1. {a * Size("knots") * 1 : a \in {w * 10}} = {a * Size("knots") * 10 : a \in {w}}
      BY <2>3 DEF Size
    <3> QED
      BY <2>6, <3>1 DEF Same, IsMeasure, Measure, Measures, InKnots, Quantity
  <2>8. AllAgree(WindSpeed(p, stamp), r)
    BY <2>5, <2>7, SaidOnceMore DEF AllAgree, PV, w
  <2> QED
    BY <1>2, <2>2, <2>8
<1>5. CASE m = Sentence("ALK", r, <<Num(82), Num(1), LowByte(10 * r.speed),
                                    HighByte(10 * r.speed)>>)
  <2> DEFINE s == r.speed
             n == 10 * s
  <2>1. At(p, 0) = Num(82) /\ At(p, 2) = LowByte(n) /\ At(p, 2 + 1) = HighByte(n)
    BY <1>5 DEF Sentence, At
  <2>2. ALK(p, stamp) = SpeedOverGround(p, stamp)
    BY <2>1 DEF ALK, Decode, SeatalkTypes, Num, IsNumeric, Undefined, Text
  <2>3. n \in Nat /\ s \in Nat
    BY <1>1
  <2> HIDE DEF s
  <2>4. Word(p, 2) = {n}
    <3> HIDE DEF n
    <3> QED
      BY <2>1, <2>3, WordThere
  <2>5. SpeedOverGround(p, stamp).values
          = <<PV("navigation.speedOverGround", Measure({n}, 10, "knots", "ms"))>>
    BY <2>4 DEF SpeedOverGround, Delta, DeltaOf
  <2>6. Same(Measure({n}, 10, "knots", "ms"), InKnots(s))
    <3>1. {a * Size("knots") * 1 : a \in {n}} = {a * Size("knots") * 10 : a \in {s}}
      BY <2>3 DEF Size
    <3> QED
      BY <3>1 DEF Same, IsMeasure, Measure, Measures, InKnots, Quantity
  <2> HIDE DEF n
  <2>7. AllAgree(SpeedOverGround(p, stamp), r)
    BY <2>5, <2>6, SaidOnce DEF AllAgree, PV, s
  <2> QED
    BY <1>2, <2>2, <2>7
<1> QED
  BY <1>3, <1>4, <1>5 DEF Datagrams

LEMMA RuddersAgree ==
  ASSUME NEW r \in ReadingSet, NEW t, NEW m \in Instruments(r, t), m.id = "ALK",
         m.parts[1] \in {Num(132), Num(156)}, NEW stamp, NEW now
  PROVE  AllAgree(RunHook(m, stamp, now), r)
<1>1. PICK told : /\ Tells(RunHook(m, stamp, now), stamp, told)
                  /\ told \in {HeadingRudder(r), HeadingRudder(r) \cup
                               {PV("steering.autopilot.state", Text("auto"))}}
  BY RudderTells
<1> DEFINE mode == PV("steering.autopilot.state", Text("auto"))
<1>2. \A pv \in HeadingRudder(r) \cup {mode} : Agrees(pv.path, pv.value, r)
  <2>1. Agrees(mode.path, mode.value, r)
    BY NothingSaid DEF PV
  <2>2. Deg({r.heading}) = Degrees(r.heading) /\ Deg({r.rudder}) = Degrees(r.rudder)
    BY InUnits
  <2>3. \A pv \in HeadingRudder(r) : \/ pv = PV("navigation.headingMagnetic", Degrees(r.heading))
                                     \/ pv = PV(Rudder, Degrees(r.rudder))
    BY <2>2 DEF HeadingRudder, UnlessZero, Deg, Rudder
  <2>4. \A pv \in HeadingRudder(r) : Agrees(pv.path, pv.value, r)
    BY <2>3, SaidOnce, SaidOnceMore, SameSelf DEF PV
  <2> QED
    BY <2>1, <2>4
<1>3. \A pv \in told : Agrees(pv.path, pv.value, r)
  BY <1>1, <1>2
<1> QED
  BY <1>1, <1>3, ToldAgree

(* All that is sent for a sentence of an instrument is what its reading says. *)
LEMMA InstrumentAgrees ==
  ASSUME NEW r \in ReadingSet, NEW t \in Int, NEW m \in Instruments(r, t), NEW now
  PROVE  AllAgree(RunHook(m, now, now), r)
<1>1. CASE m \in Fixes(r, t)
  BY <1>1, FixesAgree
<1>2. CASE m \in Speeds(r) \/ (m = KphOnly(r) /\ r.speed % 250 = 0)
  BY <1>2, SpeedsAgree
<1>3. CASE m \in Headings(r) \/ m \in Winds(r) \/ m \in Depths(r) \/ m \in Datagrams(r)
  BY <1>3, HeadingsAgree, WindsAgree, DepthsAgree, DatagramsAgree
<1>4. CASE m \in RudderDatagrams(r)
  <2>1. m.id = "ALK" /\ m.parts[1] \in {Num(132), Num(156)}
    <3>1. \A d \in RudderDatagrams(r) :
             d.id = "ALK" /\ d.parts[1] \in {Num(132), Num(156)}
      BY InstrumentIds
    <3> QED
      BY <1>4, <3>1
  <2> QED
    BY <2>1, RuddersAgree
<1> QED
  BY <1>1, <1>2, <1>3, <1>4, InstrumentCases

LEMMA SentAgree ==
  ASSUME NEW m, NEW now, NEW r, AllAgree(RunHook(m, now, now), r)
  PROVE  \A i \in DOMAIN Answer(m, now) :
            Agrees(Answer(m, now)[i].path, Answer(m, now)[i].value, r)
<1> DEFINE result == RunHook(m, now, now)
           kvs == Answer(m, now)
<1>1. IF m.lead = "$" /\ m.id \in Supported /\ result.kind = "delta"
      THEN /\ DOMAIN kvs = {0} \cup Sendable(result.values)
           /\ kvs[0].path = "NMEA0183"
           /\ \A j \in Sendable(result.values) \ {0} :
                 kvs[j].path = result.values[j].path /\ kvs[j].value = result.values[j].value
      ELSE kvs = <<>>
  BY Answers
<1>2. \A i \in Sendable(result.values) : i \in DOMAIN result.values
  BY DEF Sendable
<1> HIDE DEF kvs, result
<1>3. CASE kvs = <<>>
  BY <1>3 DEF kvs
<1>4. CASE kvs # <<>>
  <2>1. \A i \in DOMAIN kvs \ {0} : Agrees(kvs[i].path, kvs[i].value, r)
    BY <1>1, <1>2, <1>4 DEF AllAgree, result
  <2>2. Agrees(kvs[0].path, kvs[0].value, r)
    BY <1>1, <1>4, NothingSaid
  <2> QED
    BY <2>1, <2>2 DEF kvs
<1> QED
  BY <1>3, <1>4

(* All instruments of a ship tell the server the same. *)
THEOREM AllInstrumentsAgree == Spec => []InstrumentsAgree
<1>1. Inv => InstrumentsAgree
  <2> SUFFICES ASSUME Inv, message # NoMessage, Measured(message)
               PROVE  \A i \in DOMAIN sent :
                          Agrees(sent[i].path, sent[i].value, message.reading)
    BY DEF InstrumentsAgree
  <2>1. PICK now \in MaxDelay .. MaxClock, delay \in 0 .. MaxDelay :
           message \in Sentences(now, delay) /\ sent = Answer(message, now)
    BY HandledSentence
  <2>2. /\ message.reading \in ReadingSet /\ message.taken \in Int
        /\ message \in Instruments(message.reading, message.taken)
    BY <2>1, ShipSentence
  <2>3. AllAgree(RunHook(message, now, now), message.reading)
    BY <2>2, InstrumentAgrees
  <2> QED
    BY <2>1, <2>3, SentAgree
<1> QED
  BY <1>1, Invariance, PTL

-----------------------------------------------------------------------------
(* Sentences with a gap *)

IsLine(w) == Len(w) \in Nat /\ DOMAIN w = 1 .. Len(w)

(* A record with the fields of a sentence, of a reading *)
IsLineOf(m, r) ==
    /\ {"lead", "id", "parts", "reading", "complete"} \subseteq DOMAIN m
    /\ IsLine(m.parts) /\ m.reading = r

LEMMA InstrumentLines ==
  ASSUME NEW r, NEW t, NEW m \in Instruments(r, t)
  PROVE  IsLineOf(m, r)
<1>1. CASE m \in Fixes(r, t)
  BY <1>1 DEF Fixes, Rmc, Gga, Gll, Fix, Sentence, IsLine, IsLineOf
<1>2. CASE m \in Speeds(r) \/ m = KphOnly(r)
  BY <1>2 DEF Speeds, KphOnly, Sentence, IsLine, IsLineOf
<1>3. CASE m \in Headings(r)
  BY <1>3 DEF Headings, Sentence, IsLine, IsLineOf
<1>4. CASE m \in Winds(r)
  BY <1>4 DEF Winds, Sentence, IsLine, IsLineOf
<1>5. CASE m \in Depths(r)
  BY <1>5 DEF Depths, Sentence, IsLine, IsLineOf
<1>6. CASE m \in Datagrams(r)
  BY <1>6 DEF Datagrams, Sentence, IsLine, IsLineOf
<1>7. CASE m \in RudderDatagrams(r)
  BY <1>7 DEF RudderDatagrams, Sentence, IsLine, IsLineOf
<1> QED
  BY <1>1, <1>2, <1>3, <1>4, <1>5, <1>6, <1>7, InstrumentCases

(* A field of a sentence with a gap is that of the whole, empty, or beyond the last. *)
GapOf(p, w) == \A k \in Nat : At(p, k) \in {At(w, k), Empty, Undefined}

(* And one is not that of the whole. *)
LEMMA GapFields ==
  ASSUME NEW r, NEW whole, IsLineOf(whole, r), NEW m \in Gaps(whole)
  PROVE  /\ m.id = whole.id /\ m.lead = whole.lead /\ m.reading = r
         /\ GapOf(m.parts, whole.parts)
         /\ \E k \in 0 .. Len(whole.parts) - 1 : isEmpty(At(m.parts, k))
<1> DEFINE w == whole.parts
<1>1. IsLine(w) /\ whole.reading = r
      /\ \A p : /\ Cut(whole, p).parts = p /\ Cut(whole, p).id = whole.id
                /\ Cut(whole, p).lead = whole.lead /\ Cut(whole, p).reading = whole.reading
  BY DEF IsLineOf, Cut
<1> HIDE DEF w
<1>2. ASSUME NEW i \in DOMAIN w, m = Cut(whole, [w EXCEPT ![i] = Empty])
      PROVE  /\ GapOf(m.parts, w)
             /\ \E k \in 0 .. Len(w) - 1 : isEmpty(At(m.parts, k))
  <2> DEFINE p == [w EXCEPT ![i] = Empty]
  <2>1. m.parts = p
    BY <1>1, <1>2
  <2>2. DOMAIN p = 1 .. Len(w) /\ Len(w) \in Nat /\ i \in 1 .. Len(w)
    BY <1>1 DEF IsLine
  <2>3. Len(p) = Len(w)
    BY <2>2
  <2>4. \A k \in Nat : k < Len(w) => p[k + 1] \in {w[k + 1], Empty}
    BY <1>1 DEF IsLine
  <2>5. p[i] = Empty /\ i - 1 \in 0 .. Len(w) - 1 /\ i - 1 < Len(p) /\ (i - 1) + 1 = i
    BY <2>2, <2>3
  <2> HIDE DEF p
  <2>6. GapOf(p, w)
    BY <2>3, <2>4 DEF At, GapOf
  <2>7. At(p, i - 1) = Empty
    BY <2>5 DEF At
  <2> QED
    BY <2>1, <2>5, <2>6, <2>7 DEF isEmpty
<1>3. ASSUME NEW n \in 0 .. Len(w) - 1, m = Cut(whole, SubSeq(w, 1, n))
      PROVE  /\ GapOf(m.parts, w)
             /\ \E k \in 0 .. Len(w) - 1 : isEmpty(At(m.parts, k))
  <2> DEFINE p == SubSeq(w, 1, n)
  <2>1. m.parts = p
    BY <1>1, <1>3
  <2>2. n \in Nat /\ n < Len(w) /\ Len(w) \in Nat
    BY <1>1 DEF IsLine
  <2>3. Len(p) = n /\ \A k \in Nat : k < n => p[k + 1] = w[k + 1]
    BY <1>1, <2>2 DEF IsLine
  <2> HIDE DEF p
  <2>4. GapOf(p, w)
    BY <2>2, <2>3 DEF At, GapOf
  <2>5. At(p, n) = Undefined
    BY <2>2, <2>3 DEF At
  <2> QED
    BY <2>1, <2>4, <2>5 DEF isEmpty
<1>4. \/ \E i \in DOMAIN w : m = Cut(whole, [w EXCEPT ![i] = Empty])
      \/ \E n \in 0 .. Len(w) - 1 : m = Cut(whole, SubSeq(w, 1, n))
  BY DEF Gaps, w
<1>5. m.id = whole.id /\ m.lead = whole.lead /\ m.reading = r
  BY <1>1, <1>4
<1> QED
  BY <1>2, <1>3, <1>4, <1>5 DEF w

-----------------------------------------------------------------------------
(* What a sentence with a gap may tell *)

(* A value that is guarded is the reading's or no number; a position's coordinates
   are the reading's, but for the letters that lack in m. *)
Careful(pv, m, r) ==
    LET letter(k) == At(m.parts, LatitudeField(m.id) + k)
    IN  /\ pv.path \in Guarded => pv.value.amount = NaN \/ Agrees(pv.path, pv.value, r)
        /\ pv.path = Point => /\ Coordinate(pv.value.lat, r.lat, letter(1))
                              /\ Coordinate(pv.value.lon, r.lon, letter(3))

AllCareful(result, m, r) ==
    result.kind = "delta" =>
        \A i \in DOMAIN result.values : Careful(result.values[i], m, r)

LEMMA ToldCareful ==
  ASSUME NEW result, NEW stamp, NEW told, NEW m, NEW r, Tells(result, stamp, told),
         \A pv \in told : Careful(pv, m, r)
  PROVE  AllCareful(result, m, r)
BY DEF Tells, Told, AllCareful

LEMMA NothingCareful ==
  ASSUME NEW m, NEW r PROVE AllCareful(Null, m, r) /\ AllCareful(Throw, m, r)
BY DEF AllCareful, Null, Throw

(* Paths that are not guarded, and guarded ones with the reading's value or none *)
LEMMA CarefulOthers ==
  ASSUME NEW m, NEW r, NEW v
  PROVE  \A path \in {"NMEA0183", "navigation.courseOverGroundTrue",
                      "navigation.courseOverGroundMagnetic", "navigation.speedOverGround",
                      "navigation.magneticVariation", "navigation.magneticVariationAgeOfService",
                      "navigation.datetime", "navigation.gnss.methodQuality",
                      "navigation.gnss.satellites", "navigation.gnss.antennaAltitude",
                      "navigation.gnss.horizontalDilution",
                      "navigation.gnss.geoidalSeparation",
                      "navigation.gnss.differentialAge",
                      "navigation.gnss.differentialReference",
                      "environment.wind.speedApparent", "environment.wind.angleApparent",
                      "environment.wind.speedTrue", "environment.wind.angleTrueWater",
                      "environment.depth.surfaceToTransducer",
                      "environment.depth.transducerToKeel"} :
            Careful(PV(path, v), m, r)
BY DEF Careful, PV, Guarded, Point, Rudder

LEMMA CarefulGuarded ==
  ASSUME NEW path, path # Point, NEW v, NEW m, NEW r, v.amount = NaN \/ Agrees(path, v, r)
  PROVE  Careful(PV(path, v), m, r)
BY DEF Careful, PV

(* The number of a field that may be missing *)
LEMMA GapNumber ==
  ASSUME NEW n, NEW f \in {Num(n), Empty, Undefined}
  PROVE  /\ isEmpty(f) \/ (f = Num(n) /\ float(f) = {n})
         /\ f # Empty => float(f) \in {NaN, {n}}
<1>1. float(Num(n)) = {n}
  BY NumberThere
<1>2. float(Undefined) = NaN /\ Undefined # Empty
  BY DEF float, Undefined, Empty, Text, IsNumeric
<1> QED
  BY <1>1, <1>2 DEF isEmpty

LEMMA GapCoordinate ==
  ASSUME NEW n \in Int, NEW s, NEW z,
         (s = "N" /\ z = "S") \/ (s = "E" /\ z = "W"),
         NEW f \in {Num(Abs(n)), Empty, Undefined},
         NEW letter \in {Pole(n, s, z), Empty, Undefined}, letter # Undefined
  PROVE  Coordinate(coordinate(f, letter), n, letter)
<1>1. CASE ~IsNumeric(f)
  BY <1>1 DEF coordinate, Coordinate
<1>2. CASE IsNumeric(f)
  <2>1. f = Num(Abs(n))
    <3>1. ~IsNumeric(Empty) /\ ~IsNumeric(Undefined)
      BY DEF IsNumeric, Empty, Undefined, Text
    <3> QED
      BY <1>2, <3>1
  <2>2. CASE letter = Pole(n, s, z)
    BY <2>1, <2>2, CoordinateOf DEF Coordinate
  <2>3. CASE letter = Empty
    <3>1. letter \notin {Text("S"), Text("W")}
      BY <2>3 DEF Empty, Text
    <3>2. coordinate(f, letter) = {Abs(n)}
      BY <1>2, <2>1, <3>1 DEF coordinate, Num
    <3> QED
      BY <2>3, <3>2 DEF Coordinate
  <2> QED
    BY <2>2, <2>3
<1> QED
  BY <1>1, <1>2

(* A position with a gap. *)
LEMMA GapPosition ==
  ASSUME NEW r \in ReadingSet, NEW m, NEW w, GapOf(m.parts, w), NEW i \in Nat,
         i = LatitudeField(m.id), HasPosition(m.parts, i),
         At(w, i) = Num(Abs(r.lat)), At(w, i + 1) = Pole(r.lat, "N", "S"),
         At(w, i + 2) = Num(Abs(r.lon)), At(w, i + 3) = Pole(r.lon, "E", "W")
  PROVE  Careful(PV("navigation.position", PositionAt(m.parts, i)), m, r)
<1> DEFINE p == m.parts
<1>1. /\ At(p, i) \in {Num(Abs(r.lat)), Empty, Undefined}
      /\ At(p, i + 1) \in {Pole(r.lat, "N", "S"), Empty, Undefined}
      /\ At(p, i + 2) \in {Num(Abs(r.lon)), Empty, Undefined}
      /\ At(p, i + 3) \in {Pole(r.lon, "E", "W"), Empty, Undefined}
  BY DEF GapOf
<1>2. At(p, i + 1) # Undefined /\ At(p, i + 3) # Undefined
  <2>1. i + 1 \in i .. i + 3 /\ i + 3 \in i .. i + 3
    OBVIOUS
  <2> QED
    BY <2>1 DEF HasPosition
<1>3. r.lat \in Int /\ r.lon \in Int
  BY ReadingNumbers
<1> HIDE DEF p
<1>4. /\ Coordinate(coordinate(At(p, i), At(p, i + 1)), r.lat, At(p, i + 1))
      /\ Coordinate(coordinate(At(p, i + 2), At(p, i + 3)), r.lon, At(p, i + 3))
  BY <1>1, <1>2, <1>3, GapCoordinate
<1>5. "navigation.position" \notin Guarded
  BY DEF Guarded, Rudder
<1> QED
  BY <1>4, <1>5 DEF Careful, PV, PositionAt, Position, Point, p

(* Which fix it is *)
LEMMA FixOfName ==
  ASSUME NEW r, NEW t, NEW m \in Fixes(r, t)
  PROVE  /\ m.id = "RMC" => \E status \in {"A", "V"}, date \in {Day(t), Empty} :
                                 m = Rmc(r, t, status, date)
         /\ m.id = "GLL" => \E status \in {"A", "V"} : m = Gll(r, t, status)
         /\ m.id = "GGA" => m = Gga(r, t)
<1>1. CASE m.id = "RMC"
  BY <1>1 DEF Fixes, Gga, Gll, Fix, Sentence
<1>2. CASE m.id = "GLL"
  BY <1>2 DEF Fixes, Gga, Rmc, Fix, Sentence
<1>3. CASE m.id = "GGA"
  BY <1>3 DEF Fixes, Gll, Rmc, Fix, Sentence
<1> QED
  BY <1>1, <1>2, <1>3

LEMMA FixesCareful ==
  ASSUME NEW r \in ReadingSet, NEW t \in Int, NEW whole \in Fixes(r, t),
         NEW m, m.id = whole.id, m.parts \in Seq(Field),
         GapOf(m.parts, whole.parts), NEW now
  PROVE  AllCareful(RunHook(m, now, now), m, r)
<1> DEFINE p == m.parts
           w == whole.parts
<1>1. CASE whole.id = "RMC"
  <2>1. PICK status \in {"A", "V"}, date \in {Day(t), Empty} : whole = Rmc(r, t, status, date)
    BY <1>1, FixOfName
  <2>2. /\ At(w, 2) = Num(Abs(r.lat)) /\ At(w, 2 + 1) = Pole(r.lat, "N", "S")
        /\ At(w, 2 + 2) = Num(Abs(r.lon)) /\ At(w, 2 + 3) = Pole(r.lon, "E", "W")
    BY <2>1 DEF Rmc, Fix, Sentence, At, NS, EW
  <2>3. HasPosition(p, 2) => Careful(PV("navigation.position", PositionAt(p, 2)), m, r)
    <3>1. LatitudeField(m.id) = 2
      BY <1>1 DEF LatitudeField
    <3> QED
      BY <2>2, <3>1, GapPosition
  <2> DEFINE stamp == timestamp(At(p, 0), At(p, 8), now)
             values == <<
                 PV("navigation.position", PositionAt(p, 2)),
                 PV("navigation.courseOverGroundTrue", Deg(ZeroIfNaN(float(At(p, 7))))),
                 PV("navigation.speedOverGround", Knots(ZeroUnlessPositive(float(At(p, 6))))),
                 PV("navigation.magneticVariation",
                    Deg(magneticVariaton(At(p, 9), At(p, 10)))),
                 PV("navigation.magneticVariationAgeOfService", Measure(stamp, 1, "s", "s")),
                 PV("navigation.datetime", Measure(stamp, 1, "s", "s"))>>
  <2>4. RMC(p, now) = Throw \/ (HasPosition(p, 2) /\ RMC(p, now).values = values)
    BY DEF RMC, DeltaOf
  <2>5. HasPosition(p, 2) => \A i \in DOMAIN values : Careful(values[i], m, r)
    BY <2>3, CarefulOthers
  <2> HIDE DEF values
  <2>6. AllCareful(RMC(p, now), m, r)
    BY <2>4, <2>5, NothingCareful DEF AllCareful
  <2> QED
    BY <1>1, <2>6, Dispatch
<1>2. CASE whole.id = "GLL"
  <2>1. PICK status \in {"A", "V"} : whole = Gll(r, t, status)
    BY <1>2, FixOfName
  <2>2. /\ At(w, 0) = Num(Abs(r.lat)) /\ At(w, 0 + 1) = Pole(r.lat, "N", "S")
        /\ At(w, 0 + 2) = Num(Abs(r.lon)) /\ At(w, 0 + 3) = Pole(r.lon, "E", "W")
    BY <2>1 DEF Gll, Fix, Sentence, At, NS, EW
  <2>3. HasPosition(p, 0) => Careful(PV("navigation.position", PositionAt(p, 0)), m, r)
    <3> DEFINE i == 0
    <3>1. i = LatitudeField(m.id) /\ i \in Nat
      BY <1>2 DEF LatitudeField
    <3>2. /\ At(w, i) = Num(Abs(r.lat)) /\ At(w, i + 1) = Pole(r.lat, "N", "S")
          /\ At(w, i + 2) = Num(Abs(r.lon)) /\ At(w, i + 3) = Pole(r.lon, "E", "W")
      BY <2>2
    <3> HIDE DEF i
    <3>3. HasPosition(p, i) => Careful(PV("navigation.position", PositionAt(p, i)), m, r)
      BY <3>1, <3>2, GapPosition
    <3> QED
      BY <3>3 DEF i
  <2> DEFINE values == <<PV("navigation.position", PositionAt(p, 0))>>
  <2>4. \/ GLL(p, now) \in {Null, Throw}
        \/ HasPosition(p, 0) /\ GLL(p, now).values = values
    BY DEF GLL, DeltaOf
  <2>5. HasPosition(p, 0) => \A i \in DOMAIN values : Careful(values[i], m, r)
    BY <2>3
  <2> HIDE DEF values
  <2>6. AllCareful(GLL(p, now), m, r)
    BY <2>4, <2>5, NothingCareful DEF AllCareful
  <2> QED
    BY <1>2, <2>6, Dispatch
<1>3. CASE whole.id = "GGA"
  <2>1. whole = Gga(r, t)
    BY <1>3, FixOfName
  <2>2. /\ At(w, 1) = Num(Abs(r.lat)) /\ At(w, 1 + 1) = Pole(r.lat, "N", "S")
        /\ At(w, 1 + 2) = Num(Abs(r.lon)) /\ At(w, 1 + 3) = Pole(r.lon, "E", "W")
    BY <2>1 DEF Gga, Fix, Sentence, At, NS, EW
  <2>3. HasPosition(p, 1) => Careful(PV("navigation.position", PositionAt(p, 1)), m, r)
    <3>1. LatitudeField(m.id) = 1
      BY <1>3 DEF LatitudeField
    <3> QED
      BY <2>2, <3>1, GapPosition
  <2> DEFINE all == <<
                 PV("navigation.position", PositionAt(p, 1)),
                 PV("navigation.gnss.methodQuality", Quality(float(At(p, 5)))),
                 GnssNumber("navigation.gnss.satellites", At(p, 6)),
                 GnssNumber("navigation.gnss.antennaAltitude", At(p, 8)),
                 GnssNumber("navigation.gnss.horizontalDilution", At(p, 7)),
                 GnssNumber("navigation.gnss.geoidalSeparation", At(p, 11)),
                 GnssNumber("navigation.gnss.differentialAge", At(p, 12)),
                 GnssNumber("navigation.gnss.differentialReference", At(p, 13))>>
  <2>4. \/ GGA(p, now) \in {Null, Throw}
        \/ HasPosition(p, 1) /\ GGA(p, now).values = RemoveInvalid(all)
    <3>1. EmptyFields(p) > 3 \/ EmptyFields(p) =< 3
      BY EmptyFieldsType
    <3> QED
      BY <3>1 DEF GGA, DeltaOf
  <2>5. HasPosition(p, 1) => \A i \in DOMAIN all : Careful(all[i], m, r)
    BY <2>3, CarefulOthers DEF GnssNumber
  <2> HIDE DEF all
  <2>6. \A i \in DOMAIN RemoveInvalid(all) : i \in DOMAIN all /\ RemoveInvalid(all)[i] = all[i]
    BY DEF RemoveInvalid
  <2>7. AllCareful(GGA(p, now), m, r)
    BY <2>4, <2>5, <2>6, NothingCareful DEF AllCareful
  <2> QED
    BY <1>3, <2>7, Dispatch
<1> QED
  BY <1>1, <1>2, <1>3, InstrumentIds DEF FixHooks

LEMMA SpeedsCareful ==
  ASSUME NEW r \in ReadingSet, NEW whole, whole \in Speeds(r) \/ whole = KphOnly(r),
         NEW m, m.id = whole.id, GapOf(m.parts, whole.parts), NEW stamp, NEW now
  PROVE  AllCareful(RunHook(m, stamp, now), m, r)
<1> DEFINE p == m.parts
<1>1. CASE whole.id = "VTG"
  <2> DEFINE values == <<
                 PV("navigation.courseOverGroundMagnetic", Deg(float(At(p, 2)))),
                 PV("navigation.courseOverGroundTrue", Deg(float(At(p, 0)))),
                 PV("navigation.speedOverGround",
                    SpeedOf(At(p, 4), At(p, 5), At(p, 6), At(p, 7)))>>
  <2>1. VTG(p, stamp) = Null \/ VTG(p, stamp).values = values
    BY DEF VTG, Delta, DeltaOf
  <2>2. \A i \in DOMAIN values : Careful(values[i], m, r)
    BY CarefulOthers
  <2> HIDE DEF values
  <2>3. AllCareful(VTG(p, stamp), m, r)
    BY <2>1, <2>2, NothingCareful DEF AllCareful
  <2> QED
    BY <1>1, <2>3, Dispatch
<1>2. CASE whole.id = "VHW"
  <2> DEFINE c == At(p, 0) # Empty
             d == At(p, 2) # Empty
             e == At(p, 4) # Empty
             a == PV("navigation.headingTrue", Deg(float(At(p, 0))))
             b == PV("navigation.headingMagnetic", Deg(float(At(p, 2))))
             f == PV("navigation.speedThroughWater", Knots(float(At(p, 4))))
             told == (IF c THEN {a} ELSE {}) \cup (IF d THEN {b} ELSE {})
                     \cup (IF e THEN {f} ELSE {})
  <2>1. /\ At(p, 0) \in {Num(r.heading), Empty, Undefined}
        /\ At(p, 2) \in {Num(r.heading), Empty, Undefined}
        /\ At(p, 4) \in {Num(r.speed), Empty, Undefined}
    <3>1. whole = Sentence("VHW", r, <<Num(r.heading), Text("T"), Num(r.heading), Text("M"),
                 Num(r.speed), Text("N"), Num(r.speed), Text("K")>>)
      BY <1>2 DEF Speeds, KphOnly, Sentence
    <3>2. LET w == whole.parts IN
             At(w, 0) = Num(r.heading) /\ At(w, 2) = Num(r.heading) /\ At(w, 4) = Num(r.speed)
      BY <3>1 DEF Sentence, At
    <3> QED
      BY <3>2 DEF GapOf
  <2>2. /\ c => float(At(p, 0)) \in {NaN, {r.heading}}
        /\ d => float(At(p, 2)) \in {NaN, {r.heading}}
        /\ e => float(At(p, 4)) \in {NaN, {r.speed}}
    BY <2>1, GapNumber
  <2>3. /\ Agrees("navigation.headingTrue", Deg({r.heading}), r)
        /\ Agrees("navigation.headingMagnetic", Deg({r.heading}), r)
        /\ Agrees("navigation.speedThroughWater", Knots({r.speed}), r)
    BY InUnits, SaidOnce, SameSelf
  <2>4. Deg(NaN).amount = NaN /\ Knots(NaN).amount = NaN
    BY DEF Deg, Knots, Measure
  <2>5. (c => Careful(a, m, r)) /\ (d => Careful(b, m, r)) /\ (e => Careful(f, m, r))
    <3>1. c => Careful(a, m, r)
      BY <2>2, <2>3, <2>4, CarefulGuarded DEF Point
    <3>2. d => Careful(b, m, r)
      BY <2>2, <2>3, <2>4, CarefulGuarded DEF Point
    <3>3. e => Careful(f, m, r)
      BY <2>2, <2>3, <2>4, CarefulGuarded DEF Point
    <3> QED
      BY <3>1, <3>2, <3>3
  <2>6. VHW(p, stamp) = Delta(stamp, When(c, a) \o When(d, b) \o When(e, f))
    BY DEF VHW
  <2> HIDE DEF a, b, c, d, e, f
  <2>7. Tells(VHW(p, stamp), stamp, told)
    BY <2>6, TellsThree
  <2>8. \A pv \in told : Careful(pv, m, r)
    BY <2>5
  <2> HIDE DEF told
  <2>9. AllCareful(VHW(p, stamp), m, r)
    BY <2>7, <2>8, ToldCareful
  <2> QED
    BY <1>2, <2>9, Dispatch
<1> QED
  BY <1>1, <1>2, InstrumentIds

LEMMA HeadingsCareful ==
  ASSUME NEW r \in ReadingSet, NEW whole \in Headings(r),
         NEW m, m.id = whole.id, GapOf(m.parts, whole.parts), NEW stamp, NEW now
  PROVE  AllCareful(RunHook(m, stamp, now), m, r)
<1> DEFINE p == m.parts
           heading == Deg(float(At(p, 0)))
           magnetic == PV("navigation.headingMagnetic", heading)
<1>1. At(whole.parts, 0) = Num(r.heading)
  <2>1. \A d \in Headings(r) : At(d.parts, 0) = Num(r.heading)
    <3> SUFFICES ASSUME NEW d \in Headings(r) PROVE At(d.parts, 0) = Num(r.heading)
      OBVIOUS
    <3>1. CASE d.id = "HDG"
      BY <3>1 DEF Headings, Sentence, At
    <3>2. CASE d.id = "HDT"
      BY <3>2 DEF Headings, Sentence, At
    <3>3. CASE d.id = "HDM"
      BY <3>3 DEF Headings, Sentence, At
    <3> QED
      BY <3>1, <3>2, <3>3, InstrumentIds
  <2> QED
    BY <2>1
<1>2. At(p, 0) \in {Num(r.heading), Empty, Undefined}
  BY <1>1 DEF GapOf
<1>3. isEmpty(At(p, 0)) \/ heading = Degrees(r.heading)
  BY <1>2, GapNumber, InUnits
<1>4. isEmpty(At(p, 0)) \/ (/\ Careful(PV("navigation.headingTrue", heading), m, r)
                            /\ Careful(magnetic, m, r))
  <2>1. /\ Agrees("navigation.headingTrue", Degrees(r.heading), r)
        /\ Agrees("navigation.headingMagnetic", Degrees(r.heading), r)
    BY SaidOnce, SameSelf
  <2> QED
    BY <1>3, <2>1, CarefulGuarded DEF Point
<1>5. CASE whole.id = "HDG"
  <2> DEFINE c == ~isEmpty(At(p, 0))
             d == ~(isEmpty(At(p, 3)) \/ isEmpty(At(p, 4)))
             b == PV("navigation.magneticVariation",
                     Deg(Times(float(At(p, 3)), IF At(p, 4) = Text("E") THEN 1 ELSE -1)))
             told == (IF c THEN {magnetic} ELSE {}) \cup (IF d THEN {b} ELSE {})
             values == When(c, magnetic) \o When(d, b)
  <2>1. HDG(p, stamp) = Null \/ HDG(p, stamp) = Delta(stamp, values)
    BY DEF HDG
  <2>2. Careful(b, m, r)
    BY CarefulOthers
  <2>3. c => Careful(magnetic, m, r)
    BY <1>4
  <2> HIDE DEF c, d, b, magnetic
  <2>4. Tells(Delta(stamp, values), stamp, told)
    BY TellsTwo
  <2>5. \A pv \in told : Careful(pv, m, r)
    BY <2>2, <2>3
  <2> HIDE DEF told, values
  <2>6. AllCareful(HDG(p, stamp), m, r)
    BY <2>1, <2>4, <2>5, ToldCareful, NothingCareful
  <2> QED
    BY <1>5, <2>6, Dispatch
<1>6. CASE whole.id = "HDT"
  <2>1. \/ HDT(p, stamp) = Null
        \/ /\ ~isEmpty(At(p, 0))
           /\ HDT(p, stamp).values = <<PV("navigation.headingTrue", heading)>>
    BY DEF HDT, OneNumber, Delta, DeltaOf
  <2> HIDE DEF heading
  <2>2. AllCareful(HDT(p, stamp), m, r)
    BY <1>4, <2>1, NothingCareful DEF AllCareful
  <2> QED
    BY <1>6, <2>2, Dispatch
<1>7. CASE whole.id = "HDM"
  <2>1. \/ HDM(p, stamp) = Null
        \/ /\ ~isEmpty(At(p, 0))
           /\ HDM(p, stamp).values = <<magnetic>>
    BY DEF HDM, OneNumber, Delta, DeltaOf
  <2> HIDE DEF magnetic
  <2>2. AllCareful(HDM(p, stamp), m, r)
    BY <1>4, <2>1, NothingCareful DEF AllCareful
  <2> QED
    BY <1>7, <2>2, Dispatch
<1> QED
  BY <1>5, <1>6, <1>7, InstrumentIds

LEMMA WindsCareful ==
  ASSUME NEW r, NEW whole \in Winds(r), NEW m, m.id = whole.id, NEW stamp, NEW now
  PROVE  AllCareful(RunHook(m, stamp, now), m, r)
<1> DEFINE p == m.parts
<1>1. CASE whole.id = "MWV"
  <2> DEFINE apparent == Upper(At(p, 1), "R")
             unit == IF Upper(At(p, 3), "K") THEN "kph"
                     ELSE IF Upper(At(p, 3), "N") THEN "knots" ELSE "ms"
             values == <<
                 PV(IF apparent THEN "environment.wind.speedApparent"
                                ELSE "environment.wind.speedTrue",
                    Measure(float(At(p, 2)), 1, unit, "ms")),
                 PV(IF apparent THEN "environment.wind.angleApparent"
                                ELSE "environment.wind.angleTrueWater",
                    Deg(WindAngle360(float(At(p, 0)))))>>
  <2>1. MWV(p, stamp) = Null \/ MWV(p, stamp).values = values
    BY DEF MWV, Delta, DeltaOf
  <2>2. \A i \in DOMAIN values : Careful(values[i], m, r)
    <3> HIDE DEF apparent
    <3> QED
      BY CarefulOthers
  <2> HIDE DEF values
  <2>3. AllCareful(MWV(p, stamp), m, r)
    BY <2>1, <2>2, NothingCareful DEF AllCareful
  <2> QED
    BY <1>1, <2>3, Dispatch
<1>2. CASE whole.id = "VWR"
  <2> DEFINE sign == IF Upper(At(p, 1), "R") THEN 1 ELSE IF Upper(At(p, 1), "L") THEN -1 ELSE 0
             values == <<PV("environment.wind.angleApparent",
                            Deg(Times(float(At(p, 0)), sign))),
                         PV("environment.wind.speedApparent", Knots(float(At(p, 2))))>>
  <2>1. VWR(p, stamp) = Null \/ VWR(p, stamp).values = values
    BY DEF VWR, Delta, DeltaOf
  <2>2. \A i \in DOMAIN values : Careful(values[i], m, r)
    BY CarefulOthers
  <2> HIDE DEF values
  <2>3. AllCareful(VWR(p, stamp), m, r)
    BY <2>1, <2>2, NothingCareful DEF AllCareful
  <2> QED
    BY <1>2, <2>3, Dispatch
<1> QED
  BY <1>1, <1>2, InstrumentIds

LEMMA DepthsCareful ==
  ASSUME NEW r \in ReadingSet, NEW whole \in Depths(r), NEW m, m.id = whole.id,
         GapOf(m.parts, whole.parts),
         \E k \in 0 .. Len(whole.parts) - 1 : isEmpty(At(m.parts, k)),
         NEW stamp, NEW now
  PROVE  AllCareful(RunHook(m, stamp, now), m, r)
<1> DEFINE p == m.parts
           M(x) == Measure(x, 1, "m", "m")
           below(x) == PV("environment.depth.belowTransducer", M(x))
<1>1. Careful(below({r.depth}), m, r)
  <2>1. Agrees("environment.depth.belowTransducer", M({r.depth}), r)
    BY SaidOnceMore, SameSelf, InUnits
  <2> HIDE DEF M
  <2> QED
    BY <2>1, CarefulGuarded DEF Point
<1>2. CASE whole.id = "DBT"
  <2>1. whole = Sentence("DBT", r, <<Num(9), Text("f"), Num(r.depth), Text("M"), Num(1), Text("F")>>)
    BY <1>2 DEF Depths, Sentence
  <2>2. At(whole.parts, 2) = Num(r.depth)
    BY <2>1 DEF Sentence, At
  <2>3. isEmpty(At(p, 2)) \/ float(At(p, 2)) = {r.depth}
    BY <2>2, GapNumber DEF GapOf
  <2>4. DBT(p, stamp) = Null \/ DBT(p, stamp).values = <<below({r.depth})>>
    BY <2>3 DEF DBT, OneNumber, Delta, DeltaOf
  <2> HIDE DEF below
  <2>5. AllCareful(DBT(p, stamp), m, r)
    <3> DEFINE a == below({r.depth})
    <3>1. DBT(p, stamp) = Null \/ DBT(p, stamp).values = <<a>>
      BY <2>4 DEF below
    <3>2. Careful(a, m, r)
      BY <1>1
    <3> HIDE DEF a, p
    <3>3. CASE DBT(p, stamp) = Null
      BY <3>3, NothingCareful
    <3>4. CASE DBT(p, stamp).values = <<a>>
      BY <3>2, <3>4 DEF AllCareful
    <3> QED
      BY <3>1, <3>3, <3>4
  <2> QED
    BY <1>2, <2>5, Dispatch
<1>3. CASE whole.id = "DPT"
  <2>1. PICK x : whole = Sentence("DPT", r, <<Num(r.depth), Num(x)>>)
    BY <1>3 DEF Depths, Sentence
  <2>2. At(whole.parts, 0) = Num(r.depth) /\ Len(whole.parts) = 2
    BY <2>1 DEF Sentence, At
  <2>3. isEmpty(At(p, 0)) \/ isEmpty(At(p, 1))
    <3>1. \A k \in 0 .. 2 - 1 : k = 0 \/ k = 1
      OBVIOUS
    <3> QED
      BY <2>2, <3>1
  <2>4. isEmpty(At(p, 0)) \/ float(At(p, 0)) = {r.depth}
    BY <2>2, GapNumber DEF GapOf
  <2>5. CASE isEmpty(At(p, 0)) \/ At(p, 1) = Undefined
    <3>1. DPT(p, stamp) = Null
      BY <2>5 DEF DPT
    <3> QED
      BY <1>3, <3>1, NothingCareful, Dispatch
  <2>6. CASE ~isEmpty(At(p, 0)) /\ At(p, 1) = Empty /\ At(p, 1) # Undefined
    <3>1. float(At(p, 1)) = {0}
      BY <2>6 DEF float, Empty, Text, IsNumeric
    <3>2. ~Positive(float(At(p, 1)))
      BY <3>1 DEF Positive
    <3>3. Times({0}, -1) = {0}
      BY DEF Times
    <3>4. ~Positive(Times(float(At(p, 1)), -1))
      <4>1. Times(float(At(p, 1)), -1) = {0}
        BY <3>1, <3>3
      <4>2. ~Positive({0})
        BY DEF Positive
      <4> QED
        BY <4>1, <4>2
    <3> DEFINE a == below({r.depth})
    <3>5. DPT(p, stamp).values = <<a>> \o <<>>
      BY <2>4, <2>6, <3>2, <3>4 DEF DPT, Delta, DeltaOf
    <3> HIDE DEF a
    <3>6. <<a>> \o <<>> = <<a>>
      OBVIOUS
    <3>7. AllCareful(DPT(p, stamp), m, r)
      BY <1>1, <3>5, <3>6 DEF AllCareful, a
    <3> QED
      BY <1>3, <3>7, Dispatch
  <2> QED
    BY <2>3, <2>5, <2>6 DEF isEmpty
<1> QED
  BY <1>2, <1>3, InstrumentIds

LEMMA DatagramsCareful ==
  ASSUME NEW r, NEW whole \in Datagrams(r), NEW m, m.id = whole.id,
         GapOf(m.parts, whole.parts), NEW stamp, NEW now
  PROVE  AllCareful(RunHook(m, stamp, now), m, r)
<1> DEFINE p == m.parts
<1>1. At(whole.parts, 0) \in {Num(16), Num(17), Num(82)}
  <2>1. \A d \in Datagrams(r) : At(d.parts, 0) \in {Num(16), Num(17), Num(82)}
    <3> SUFFICES ASSUME NEW d \in Datagrams(r)
                 PROVE  At(d.parts, 0) \in {Num(16), Num(17), Num(82)}
      OBVIOUS
    <3>1. Len(d.parts) = 4
      BY DEF Datagrams, Sentence
    <3>2. d.parts[1] \in {Num(16), Num(17), Num(82)}
      BY InstrumentIds
    <3> QED
      BY <3>1, <3>2 DEF At
  <2> QED
    BY <2>1
<1>2. At(p, 0) \in {Num(16), Num(17), Num(82), Empty, Undefined}
  BY <1>1 DEF GapOf
<1>3. RunHook(m, stamp, now) = ALK(p, stamp)
  BY InstrumentIds, Dispatch
<1>4. CASE At(p, 0) = Undefined
  BY <1>3, <1>4, NothingCareful DEF ALK
<1>5. CASE At(p, 0) = Empty
  <2>1. ~IsNumeric(Empty) /\ Empty # Undefined
    BY DEF IsNumeric, Empty, Undefined, Text
  <2>2. ALK(p, stamp) = Null
    BY <1>5, <2>1 DEF ALK
  <2> QED
    BY <1>3, <2>2, NothingCareful
<1>6. CASE At(p, 0) = Num(16)
  <2>1. ALK(p, stamp) = WindAngle(p, stamp)
    BY <1>6 DEF ALK, Decode, SeatalkTypes, Num, IsNumeric, Undefined, Text
  <2>2. AllCareful(WindAngle(p, stamp), m, r)
    BY CarefulOthers DEF WindAngle, Delta, DeltaOf, AllCareful
  <2> QED
    BY <1>3, <2>1, <2>2
<1>7. CASE At(p, 0) = Num(17)
  <2>1. ALK(p, stamp) = WindSpeed(p, stamp)
    BY <1>7 DEF ALK, Decode, SeatalkTypes, Num, IsNumeric, Undefined, Text
  <2>2. AllCareful(WindSpeed(p, stamp), m, r)
    BY CarefulOthers DEF WindSpeed, Delta, DeltaOf, AllCareful
  <2> QED
    BY <1>3, <2>1, <2>2
<1>8. CASE At(p, 0) = Num(82)
  <2>1. ALK(p, stamp) = SpeedOverGround(p, stamp)
    BY <1>8 DEF ALK, Decode, SeatalkTypes, Num, IsNumeric, Undefined, Text
  <2>2. AllCareful(SpeedOverGround(p, stamp), m, r)
    BY CarefulOthers DEF SpeedOverGround, Delta, DeltaOf, AllCareful
  <2> QED
    BY <1>3, <2>1, <2>2
<1> QED
  BY <1>2, <1>4, <1>5, <1>6, <1>7, <1>8

(* Of heading and rudder nothing is told when a byte lacks. *)
LEMMA RuddersCareful ==
  ASSUME NEW r, NEW whole \in RudderDatagrams(r), NEW m, m.id = whole.id,
         GapOf(m.parts, whole.parts),
         \E k \in 0 .. Len(whole.parts) - 1 : isEmpty(At(m.parts, k)),
         NEW stamp, NEW now
  PROVE  AllCareful(RunHook(m, stamp, now), m, r)
<1> DEFINE p == m.parts
<1>1. RunHook(m, stamp, now) = ALK(p, stamp)
  BY InstrumentIds, Dispatch
<1>2. \/ At(whole.parts, 0) = Num(156) /\ Len(whole.parts) = 4
      \/ At(whole.parts, 0) = Num(132) /\ Len(whole.parts) = 9
  BY DEF RudderDatagrams, Sentence, At
<1>3. At(p, 0) \in {At(whole.parts, 0), Empty, Undefined}
  BY DEF GapOf
<1>4. ~IsNumeric(Empty) /\ ~IsNumeric(Undefined)
  BY DEF IsNumeric, Empty, Undefined, Text
<1>5. \A k : isEmpty(At(p, k)) => Byte(p, k) = NaN
  BY <1>4 DEF isEmpty, Byte
<1>6. CASE isEmpty(At(p, 0))
  <2>1. ALK(p, stamp) \in {Null, Throw}
    BY <1>4, <1>6 DEF ALK, isEmpty
  <2> QED
    BY <1>1, <2>1, NothingCareful
<1>7. CASE ~isEmpty(At(p, 0)) /\ At(whole.parts, 0) = Num(156) /\ Len(whole.parts) = 4
  <2>1. At(p, 0) = Num(156)
    BY <1>3, <1>7 DEF isEmpty
  <2>2. ALK(p, stamp) = HeadingAndRudder(p, stamp)
    BY <2>1, Decoders
  <2>3. \E k \in 1 .. 3 : Byte(p, k) = NaN
    <3>1. \A k \in 0 .. 4 - 1 : k = 0 \/ k \in 1 .. 3
      OBVIOUS
    <3> QED
      BY <1>5, <1>7, <3>1
  <2>4. HeadingAndRudder(p, stamp) \in {Null, Throw}
    BY <2>3 DEF HeadingAndRudder
  <2> QED
    BY <1>1, <2>2, <2>4, NothingCareful
<1>8. CASE ~isEmpty(At(p, 0)) /\ At(whole.parts, 0) = Num(132) /\ Len(whole.parts) = 9
  <2>1. At(p, 0) = Num(132)
    BY <1>3, <1>8 DEF isEmpty
  <2>2. ALK(p, stamp) = Autopilot(p, stamp)
    BY <2>1, Decoders
  <2>3. \E k \in 1 .. 8 : Byte(p, k) = NaN
    <3>1. \A k \in 0 .. 9 - 1 : k = 0 \/ k \in 1 .. 8
      OBVIOUS
    <3> QED
      BY <1>5, <1>8, <3>1
  <2>4. Autopilot(p, stamp) = Null
    BY <2>3 DEF Autopilot
  <2> QED
    BY <1>1, <2>2, <2>4, NothingCareful
<1> QED
  BY <1>2, <1>6, <1>7, <1>8

(* All that is sent for a sentence with a gap is the reading's, or no number. *)
LEMMA InstrumentCareful ==
  ASSUME NEW r \in ReadingSet, NEW t \in Int, NEW whole \in Instruments(r, t),
         NEW m \in Gaps(whole), m.parts \in Seq(Field), NEW now
  PROVE  AllCareful(RunHook(m, now, now), m, r)
<1>1. /\ m.id = whole.id /\ GapOf(m.parts, whole.parts)
      /\ \E k \in 0 .. Len(whole.parts) - 1 : isEmpty(At(m.parts, k))
  BY InstrumentLines, GapFields
<1>2. CASE whole \in Fixes(r, t)
  BY <1>1, <1>2, FixesCareful
<1>3. CASE whole \in Speeds(r) \/ whole = KphOnly(r)
  BY <1>1, <1>3, SpeedsCareful
<1>4. CASE whole \in Headings(r)
  BY <1>1, <1>4, HeadingsCareful
<1>5. CASE whole \in Winds(r)
  BY <1>1, <1>5, WindsCareful
<1>6. CASE whole \in Depths(r)
  BY <1>1, <1>6, DepthsCareful
<1>7. CASE whole \in Datagrams(r)
  BY <1>1, <1>7, DatagramsCareful
<1>8. CASE whole \in RudderDatagrams(r)
  BY <1>1, <1>8, RuddersCareful
<1> QED
  BY <1>2, <1>3, <1>4, <1>5, <1>6, <1>7, <1>8, InstrumentCases

LEMMA SentCareful ==
  ASSUME NEW m, NEW now, NEW r, AllCareful(RunHook(m, now, now), m, r)
  PROVE  \A i \in DOMAIN Answer(m, now) :
            Careful(PV(Answer(m, now)[i].path, Answer(m, now)[i].value), m, r)
<1> DEFINE result == RunHook(m, now, now)
           kvs == Answer(m, now)
<1>1. IF m.lead = "$" /\ m.id \in Supported /\ result.kind = "delta"
      THEN /\ DOMAIN kvs = {0} \cup Sendable(result.values)
           /\ kvs[0].path = "NMEA0183"
           /\ \A j \in Sendable(result.values) \ {0} :
                 kvs[j].path = result.values[j].path /\ kvs[j].value = result.values[j].value
      ELSE kvs = <<>>
  BY Answers
<1>2. \A i \in Sendable(result.values) : i \in DOMAIN result.values
  BY DEF Sendable
<1> HIDE DEF kvs, result
<1>3. CASE kvs = <<>>
  BY <1>3 DEF kvs
<1>4. CASE kvs # <<>>
  <2>1. \A i \in DOMAIN kvs \ {0} : Careful(PV(kvs[i].path, kvs[i].value), m, r)
    <3>1. \A i \in DOMAIN kvs \ {0} : /\ Careful(result.values[i], m, r)
                                      /\ kvs[i].path = result.values[i].path
                                      /\ kvs[i].value = result.values[i].value
      BY <1>1, <1>2, <1>4 DEF AllCareful, result
    <3> QED
      BY <3>1 DEF Careful, PV
  <2>2. Careful(PV(kvs[0].path, kvs[0].value), m, r)
    BY <1>1, <1>4, CarefulOthers
  <2> QED
    BY <2>1, <2>2 DEF kvs
<1> QED
  BY <1>3, <1>4

(* No position, heading, depth, speed through water or rudder angle is made up of a gap. *)
THEOREM NothingIsInvented == Spec => []NothingInvented
<1>1. Inv => NothingInvented
  <2> SUFFICES ASSUME Inv, message # NoMessage, ~message.complete
               PROVE  \A i \in DOMAIN sent :
                         Careful(PV(sent[i].path, sent[i].value), message, message.reading)
    BY DEF NothingInvented, Careful, PV
  <2>1. PICK now \in MaxDelay .. MaxClock, delay \in 0 .. MaxDelay :
           message \in Sentences(now, delay) /\ sent = Answer(message, now)
    BY HandledSentence
  <2>2. /\ message.reading \in ReadingSet /\ message.taken \in Int
        /\ message.parts \in Seq(Field)
    BY <2>1, Arrives DEF OfShip
  <2>3. PICK whole \in Instruments(message.reading, message.taken) : message \in Gaps(whole)
    BY <2>1, Arrives DEF OfShip
  <2>4. AllCareful(RunHook(message, now, now), message, message.reading)
    BY <2>2, <2>3, InstrumentCareful
  <2> QED
    BY <2>1, <2>4, SentCareful
<1> QED
  BY <1>1, Invariance, PTL

-----------------------------------------------------------------------------
(* Complete datagrams *)

(* What is told of a path is what is documented for it; if nothing is, that is zero. *)
Conforms(told, documented) ==
    \A meant \in documented :
        /\ meant.path # "NMEA0183"
        /\ \A pv \in told : pv.path = meant.path => MeansDocumented(pv.value, meant)
        /\ \/ "amount" \in DOMAIN meant.value /\ meant.value.amount = {0}
           \/ \E pv \in told : pv.path = meant.path /\ pv.value # Undefined

LEMMA ConformsDecodes ==
  ASSUME NEW m, NEW now, NEW stamp, NEW told, NEW documented,
         m.lead = "$", m.id \in Supported, Tells(RunHook(m, now, now), stamp, told),
         Conforms(told, documented), sent = Answer(m, now)
  PROVE  DecodesTo(documented)
<1> SUFFICES ASSUME NEW meant \in documented
             PROVE  /\ \A i \in DOMAIN sent :
                          sent[i].path = meant.path => MeansDocumented(sent[i].value, meant)
                    /\ (\A i \in DOMAIN sent : sent[i].path # meant.path) =>
                          "amount" \in DOMAIN meant.value /\ meant.value.amount = {0}
  BY DEF DecodesTo
<1>1. /\ 0 \in DOMAIN sent /\ sent[0].path = "NMEA0183"
      /\ \A i \in DOMAIN sent \ {0} :
            \E pv \in told : sent[i].path = pv.path /\ sent[i].value = pv.value
      /\ \A pv \in told : pv.value # Undefined =>
            \E i \in DOMAIN sent \ {0} : sent[i].path = pv.path /\ sent[i].value = pv.value
  BY SentTold
<1>2. /\ meant.path # "NMEA0183"
      /\ \A pv \in told : pv.path = meant.path => MeansDocumented(pv.value, meant)
      /\ \/ "amount" \in DOMAIN meant.value /\ meant.value.amount = {0}
         \/ \E pv \in told : pv.path = meant.path /\ pv.value # Undefined
  BY DEF Conforms
<1>3. ASSUME NEW i \in DOMAIN sent, sent[i].path = meant.path
      PROVE  MeansDocumented(sent[i].value, meant)
  BY <1>1, <1>2, <1>3
<1> QED
  BY <1>1, <1>2, <1>3

(* One value that is the one documented. *)
LEMMA ConformsOne ==
  ASSUME NEW path, path \notin {"NMEA0183", "navigation.headingMagnetic"},
         NEW x, NEW n, x = {n}, NEW over, NEW from, NEW to
  PROVE  Conforms({PV(path, Measure(x, over, from, to))},
                  {Means(path, Quantity(n, over, from, to))})
<1>1. Measure(x, over, from, to) = Quantity(n, over, from, to)
  BY DEF Measure, Quantity
<1>2. Quantity(n, over, from, to) # Undefined
  BY DEF Quantity, Undefined, Text
<1> QED
  BY <1>1, <1>2 DEF Conforms, PV, Means, MeansDocumented

LEMMA ConformsTwo ==
  ASSUME NEW a, NEW b, NEW A, NEW B, Conforms({a}, {A}), Conforms({b}, {B}),
         a.path # B.path, b.path # A.path
  PROVE  Conforms({a, b}, {A, B})
BY DEF Conforms

(* The fields of a complete datagram are its bytes. *)
HasBytes(p, b, n) ==
    \A i \in 1 .. n : /\ At(p, i) = Num(b[i]) /\ Byte(p, i) = {b[i]}
                      /\ b[i] \in Nat /\ b[i] < 256

LEMMA BytesRead ==
  ASSUME NEW m, m.parts \in Seq(Field), m.parts # <<>>,
         \A i \in DOMAIN m.parts : IsNumeric(m.parts[i]),
         NEW p, p = m.parts, NEW b, b = Bytes(m), NEW type, type = p[1].n,
         WellFormed(type, b)
  PROVE  /\ At(p, 0) = Num(type) /\ type \in Int
         /\ Len(p) = Len(b) + 1
         /\ HasBytes(p, b, Len(b))
<1> DEFINE top == 255
           S == 0 .. top
<1>9. top \in Nat /\ top < 256
  OBVIOUS
<1> HIDE DEF top
<1>1. p \in Seq(Field) /\ Len(p) \in Nat /\ DOMAIN p = 1 .. Len(p) /\ Len(p) > 0
  BY EmptySeq
<1>2. b = [i \in 1 .. Len(p) - 1 |-> p[i + 1].n] /\ b \in Seq(S)
  BY DEF Bytes, WellFormed, top
<1>3. Len(b) = Len(p) - 1 /\ \A i \in 1 .. Len(b) : b[i] = p[i + 1].n /\ b[i] \in S
  <2>1. DOMAIN b = 1 .. Len(p) - 1 /\ Len(p) - 1 \in Nat
    BY <1>1, <1>2
  <2>2. Len(b) = Len(p) - 1
    BY <1>2, <2>1
  <2>3. \A i \in DOMAIN b : b[i] \in S
    <3> HIDE DEF S
    <3> QED
      BY <1>2
  <2>4. \A i \in 1 .. Len(b) : i \in DOMAIN b
    BY <2>1, <2>2
  <2>5. \A i \in DOMAIN b : b[i] = p[i + 1].n
    BY <1>2
  <2> QED
    BY <2>2, <2>3, <2>4, <2>5
<1>4. \A i \in DOMAIN p : p[i].n \in Int /\ p[i] = Num(p[i].n)
  <2> SUFFICES ASSUME NEW i \in DOMAIN p PROVE p[i].n \in Int /\ p[i] = Num(p[i].n)
    OBVIOUS
  <2>1. p[i] \in Read /\ IsNumeric(p[i])
    BY <1>1 DEF Read
  <2> QED
    BY <2>1, NumericField
<1>5. At(p, 0) = p[1] /\ 1 \in DOMAIN p
  BY <1>1 DEF At
<1>6. ASSUME NEW i \in 1 .. Len(b)
      PROVE  At(p, i) = Num(b[i]) /\ b[i] \in Nat /\ b[i] < 256
  <2>1. i + 1 \in DOMAIN p /\ At(p, i) = p[i + 1]
    BY <1>1, <1>3 DEF At
  <2>2. b[i] \in Nat /\ b[i] < 256
    <3>1. b[i] \in S
      BY <1>3
    <3> QED
      BY <1>9, <3>1
  <2> QED
    BY <1>3, <1>4, <2>1, <2>2
<1>7. \A i \in 1 .. Len(b) : Byte(p, i) = {b[i]}
  BY <1>6, ByteThere
<1>8. Len(p) = Len(b) + 1
  BY <1>1, <1>3
<1> QED
  BY <1>4, <1>5, <1>6, <1>7, <1>8 DEF HasBytes

-----------------------------------------------------------------------------
(* Arithmetic on numbers that are there *)
LEMMA SumOf ==
  ASSUME NEW a, NEW b, NEW x, NEW y, x = {a}, y = {b} PROVE Plus(x, y) = {a + b}
BY DEF Plus

LEMMA ProductOf ==
  ASSUME NEW a, NEW x, x = {a}, NEW k PROVE Times(x, k) = {a * k}
BY DEF Times

LEMMA BitsOf ==
  ASSUME NEW n \in Nat, NEW x, x = {n}
  PROVE  /\ Low(x, 2) = {n % 4} /\ Low(x, 4) = {n % 16} /\ Low(x, 6) = {n % 64}
         /\ Low(x, 7) = {n % 128} /\ Low(x, 15) = {n % 32768}
         /\ High(x, 2) = {n \div 4} /\ High(x, 4) = {n \div 16}
         /\ (Bit(x, 2) <=> (n \div 4) % 2 = 1)
         /\ (Bit(x, 3) <=> (n \div 8) % 2 = 1)
         /\ (Bit(x, 15) <=> (n \div 32768) % 2 = 1)
<1>1. Int32(x) = {n}
  BY DEF Int32, ZeroIfNaN, NaN
<1>2. \A k : Low(x, k) = {n % 2^k} /\ High(x, k) = {n \div 2^k}
             /\ (Bit(x, k) <=> (n \div 2^k) % 2 = 1)
  BY <1>1 DEF Low, High, Bit
<1>3. 2^2 = 4 /\ 2^3 = 8 /\ 2^4 = 16 /\ 2^6 = 64 /\ 2^7 = 128
  OBVIOUS
<1>4. 2^15 = 32768
  OBVIOUS
<1>5. /\ Low(x, 2) = {n % 2^2} /\ Low(x, 4) = {n % 2^4} /\ Low(x, 6) = {n % 2^6}
      /\ Low(x, 7) = {n % 2^7} /\ Low(x, 15) = {n % 2^15}
  BY <1>2
<1>6. High(x, 2) = {n \div 2^2} /\ High(x, 4) = {n \div 2^4}
  BY <1>2
<1>7. /\ Bit(x, 2) <=> (n \div 2^2) % 2 = 1
      /\ Bit(x, 3) <=> (n \div 2^3) % 2 = 1
      /\ Bit(x, 15) <=> (n \div 2^15) % 2 = 1
  BY <1>2
<1>8. /\ Low(x, 2) = {n % 4} /\ Low(x, 4) = {n % 16} /\ Low(x, 6) = {n % 64}
      /\ Low(x, 7) = {n % 128} /\ High(x, 2) = {n \div 4} /\ High(x, 4) = {n \div 16}
  BY <1>3, <1>5, <1>6
<1>9. /\ Bit(x, 2) <=> (n \div 4) % 2 = 1
      /\ Bit(x, 3) <=> (n \div 8) % 2 = 1
  BY <1>3, <1>7
<1>10. Low(x, 15) = {n % 32768} /\ (Bit(x, 15) <=> (n \div 32768) % 2 = 1)
  BY <1>4, <1>5, <1>7
<1> QED
  BY ONLY <1>8, <1>9, <1>10

LEMMA WordOf ==
  ASSUME NEW p, NEW i, NEW l \in Nat, NEW h \in Nat,
         Byte(p, i) = {l}, Byte(p, i + 1) = {h}
  PROVE  Word(p, i) = {l + 256 * h} /\ l + 256 * h \in Nat
<1> DEFINE k == h * 256
           H == Byte(p, i + 1)
           L == Byte(p, i)
<1>1. k = 256 * h /\ k \in Nat /\ H = {h} /\ L = {l}
  OBVIOUS
<1> HIDE DEF H, L
<1>2. Times(H, 256) = {k}
  BY <1>1 DEF Times
<1> HIDE DEF k
<1>3. Plus(L, Times(H, 256)) = {l + k}
  BY <1>1, <1>2 DEF Plus
<1>4. Word(p, i) = {l + k}
  BY <1>3 DEF Word, H, L
<1> QED
  BY <1>1, <1>4

LEMMA WordsOf ==
  ASSUME NEW p, NEW b, NEW n \in Nat, HasBytes(p, b, n)
  PROVE  /\ n >= 3 => Word(p, 2) = {b[2] + 256 * b[3]} /\ b[2] + 256 * b[3] \in Nat
         /\ n >= 4 => Word(p, 3) = {b[3] + 256 * b[4]} /\ b[3] + 256 * b[4] \in Nat
         /\ n >= 5 => Word(p, 4) = {b[4] + 256 * b[5]} /\ b[4] + 256 * b[5] \in Nat
<1>1. ASSUME NEW i \in 1 .. n - 1
      PROVE  Word(p, i) = {b[i] + 256 * b[i + 1]} /\ b[i] + 256 * b[i + 1] \in Nat
  <2>1. i \in 1 .. n /\ i + 1 \in 1 .. n /\ i \in Nat
    OBVIOUS
  <2>2. /\ Byte(p, i) = {b[i]} /\ Byte(p, i + 1) = {b[i + 1]}
        /\ b[i] \in Nat /\ b[i + 1] \in Nat
    BY <2>1 DEF HasBytes
  <2> DEFINE l == b[i]
             h == b[i + 1]
  <2>3. l \in Nat /\ h \in Nat /\ Byte(p, i) = {l} /\ Byte(p, i + 1) = {h}
    BY <2>2
  <2> HIDE DEF l, h
  <2>4. Word(p, i) = {l + 256 * h} /\ l + 256 * h \in Nat
    BY <2>3, WordOf
  <2> QED
    BY <2>4 DEF l, h
<1>2. n >= 3 => 2 \in 1 .. n - 1
  OBVIOUS
<1>3. n >= 4 => 3 \in 1 .. n - 1
  OBVIOUS
<1>4. n >= 5 => 4 \in 1 .. n - 1
  OBVIOUS
<1> QED
  BY <1>1, <1>2, <1>3, <1>4

(* A decoder conforms to the comment at its head. *)
DecodesLike(result, stamp, documented) ==
    \E told : Tells(result, stamp, told) /\ Conforms(told, documented)

LEMMA OneValueDecodes ==
  ASSUME NEW path, path \notin {"NMEA0183", "navigation.headingMagnetic"},
         NEW x, NEW n, x = {n}, NEW over, NEW from, NEW to, NEW stamp
  PROVE  DecodesLike(Delta(stamp, <<PV(path, Measure(x, over, from, to))>>), stamp,
                     {Means(path, Quantity(n, over, from, to))})
BY ConformsOne, TellsTuple DEF DecodesLike

LEMMA DepthDecodes ==
  ASSUME NEW p, NEW b, NEW stamp, HasBytes(p, b, 4), b[4] < 128
  PROVE  DecodesLike(Depth(p, stamp), stamp, Documented(0, b))
<1>1. /\ At(p, 2) = Num(b[2]) /\ Byte(p, 3) = {b[3]} /\ Byte(p, 4) = {b[4]}
      /\ b[3] \in Nat /\ b[4] \in Nat
  BY DEF HasBytes
<1>2. At(p, 2) # Undefined
  BY <1>1, NumberThere
<1> DEFINE h == b[4] * 256
           n == b[3] + 256 * b[4]
           x == Plus(Byte(p, 3), Times(Low(Byte(p, 4), 7), 256))
<1>3. x = {n}
  <2>1. Low(Byte(p, 4), 7) = {b[4]}
    <3>1. Low(Byte(p, 4), 7) = {b[4] % 128}
      BY <1>1, BitsOf
    <3> QED
      BY <1>1, <3>1
  <2>2. Times(Low(Byte(p, 4), 7), 256) = {h}
    BY <2>1, ProductOf
  <2>3. h = 256 * b[4]
    BY <1>1
  <2> HIDE DEF h
  <2>4. x = {b[3] + h}
    BY <1>1, <2>2, SumOf
  <2> QED
    BY <2>3, <2>4
<1>4. Depth(p, stamp) = Delta(stamp, <<PV("environment.depth.belowTransducer",
                                          Measure(x, 10, "feet", "m"))>>)
  BY <1>2 DEF Depth
<1>5. Documented(0, b) = {Means("environment.depth.belowTransducer",
                                Quantity(n, 10, "feet", "m"))}
  BY DEF Documented
<1> HIDE DEF x, n
<1> QED
  BY <1>3, <1>4, <1>5, OneValueDecodes

LEMMA WindAngleDecodes ==
  ASSUME NEW p, NEW b, NEW stamp, HasBytes(p, b, 3)
  PROVE  DecodesLike(WindAngle(p, stamp), stamp, Documented(16, b))
<1>1. /\ Byte(p, 2) = {b[2]} /\ Byte(p, 3) = {b[3]} /\ b[2] \in Nat /\ b[3] \in Nat
  BY DEF HasBytes
<1> DEFINE h == b[2] * 256
           k == 256 * b[2] + b[3]
           n == IF k > 360 THEN k - 720 ELSE k
           half == Plus(Times(Byte(p, 2), 256), Byte(p, 3))
           x == {IF a > 360 THEN a - 720 ELSE a : a \in half}
<1>2. half = {k}
  <2>1. Times(Byte(p, 2), 256) = {h}
    BY <1>1, ProductOf
  <2>2. h = 256 * b[2]
    BY <1>1
  <2> HIDE DEF h
  <2>3. half = {h + b[3]}
    BY <1>1, <2>1, SumOf
  <2> QED
    BY <2>2, <2>3
<1> HIDE DEF k, half
<1>3. x = {n}
  BY <1>2
<1>4. WindAngle(p, stamp) = Delta(stamp, <<PV("environment.wind.angleApparent",
                                              Measure(x, 2, "deg", "rad"))>>)
  BY DEF WindAngle, half
<1>5. Documented(16, b) = {Means("environment.wind.angleApparent",
                                 Quantity(n, 2, "deg", "rad"))}
  BY DEF Documented, k
<1> HIDE DEF x, n
<1> QED
  BY <1>3, <1>4, <1>5, OneValueDecodes

LEMMA WindSpeedDecodes ==
  ASSUME NEW p, NEW b, NEW stamp, HasBytes(p, b, 3), b[3] < 16
  PROVE  DecodesLike(WindSpeed(p, stamp), stamp, Documented(17, b))
<1>1. /\ Byte(p, 2) = {b[2]} /\ Byte(p, 3) = {b[3]} /\ b[2] \in Nat /\ b[3] \in Nat
  BY DEF HasBytes
<1> DEFINE w == b[2] % 128
           k == w * 10
           c == b[3]
           n == 10 * w + (c % 16)
           T == Times(Low(Byte(p, 2), 7), 10)
           x == Plus(T, Byte(p, 3))
<1>2. x = {n}
  <2>1. Low(Byte(p, 2), 7) = {w} /\ w \in Nat
    BY <1>1, BitsOf
  <2> HIDE DEF w
  <2>2. T = {k}
    BY <2>1 DEF Times
  <2>3. k + c = n
    <3>1. k = 10 * w
      BY <2>1
    <3>2. c % 16 = c
      BY <1>1
    <3> QED
      BY <3>1, <3>2
  <2> HIDE DEF k, T, n
  <2>4. x = {k + c}
    BY <1>1, <2>2 DEF Plus
  <2> QED
    BY <2>3, <2>4
<1>3. WindSpeed(p, stamp) = Delta(stamp, <<PV("environment.wind.speedApparent",
                                              Measure(x, 10, "knots", "ms"))>>)
  BY DEF WindSpeed
<1>4. Documented(17, b) = {Means("environment.wind.speedApparent",
                                 Quantity(n, 10, "knots", "ms"))}
  BY DEF Documented
<1> HIDE DEF x, n
<1> QED
  BY <1>2, <1>3, <1>4, OneValueDecodes

(* A word, and digits of another byte in front of it *)
LEMMA DistanceOf ==
  ASSUME NEW w \in Nat, NEW d \in Nat, NEW W, W = {w}, NEW D, D = {d}, NEW k \in Nat
  PROVE  Plus(W, Times(D, k)) = {w + k * d}
<1> DEFINE e == d * k
           T == Times(D, k)
<1>1. T = {e}
  BY DEF Times
<1>2. e = k * d
  OBVIOUS
<1> HIDE DEF e, T
<1>3. Plus(W, T) = {w + e}
  BY <1>1 DEF Plus
<1> QED
  BY <1>2, <1>3 DEF T

LEMMA MileageDecodes ==
  ASSUME NEW p, NEW b, NEW stamp
  PROVE  /\ HasBytes(p, b, 4) =>
               DecodesLike(TripMileage(p, stamp), stamp, Documented(33, b))
         /\ HasBytes(p, b, 3) =>
               DecodesLike(TotalMileage(p, stamp), stamp, Documented(34, b))
<1>1. ASSUME HasBytes(p, b, 4)
      PROVE  DecodesLike(TripMileage(p, stamp), stamp, Documented(33, b))
  <2> DEFINE w == b[2] + 256 * b[3]
             d == b[4] % 16
             k == 65536
             n == w + k * d
             x == Plus(Word(p, 2), Times(LowNibble(Byte(p, 4)), k))
  <2>1. Word(p, 2) = {w} /\ w \in Nat /\ k \in Nat
    BY <1>1, WordsOf
  <2>2. LowNibble(Byte(p, 4)) = {d} /\ d \in Nat
    <3>1. Byte(p, 4) = {b[4]} /\ b[4] \in Nat
      BY <1>1 DEF HasBytes
    <3> QED
      BY <3>1, BitsOf DEF LowNibble
  <2>3. x = {n}
    <3> HIDE DEF w, d, k
    <3> QED
      BY <2>1, <2>2, DistanceOf
  <2>4. TripMileage(p, stamp) = Delta(stamp, <<PV("navigation.trip", Measure(x, 100, "nm", "m"))>>)
    BY DEF TripMileage, Miles
  <2>5. Documented(33, b) = {Means("navigation.trip", Quantity(n, 100, "nm", "m"))}
    BY DEF Documented, Nibble0
  <2> HIDE DEF x, n
  <2> QED
    BY <2>3, <2>4, <2>5, OneValueDecodes
<1>2. ASSUME HasBytes(p, b, 3)
      PROVE  DecodesLike(TotalMileage(p, stamp), stamp, Documented(34, b))
  <2> DEFINE n == b[2] + 256 * b[3]
  <2>1. Word(p, 2) = {n}
    BY <1>2, WordsOf
  <2>2. TotalMileage(p, stamp)
          = Delta(stamp, <<PV("navigation.log", Measure(Word(p, 2), 10, "nm", "m"))>>)
    BY DEF TotalMileage, Miles
  <2>3. Documented(34, b) = {Means("navigation.log", Quantity(n, 10, "nm", "m"))}
    BY DEF Documented
  <2> HIDE DEF n
  <2> QED
    BY <2>1, <2>2, <2>3, OneValueDecodes
<1> QED
  BY <1>1, <1>2

LEMMA TotalAndTripDecodes ==
  ASSUME NEW p, NEW b, NEW stamp, HasBytes(p, b, 6)
  PROVE  DecodesLike(TotalAndTrip(p, stamp), stamp, Documented(37, b))
<1> DEFINE w == b[2] + 256 * b[3]
           d == b[1] \div 16
           v == b[4] + 256 * b[5]
           e == b[6] % 16
           k == 65536
           l == 4096
           n == w + l * d
           o == v + k * e
           x == Plus(Word(p, 2), Times(HighNibble(Byte(p, 1)), l))
           y == Plus(Word(p, 4), Times(LowNibble(Byte(p, 6)), k))
<1>1. /\ Word(p, 2) = {w} /\ w \in Nat /\ Word(p, 4) = {v} /\ v \in Nat
      /\ k \in Nat /\ l \in Nat
  BY WordsOf
<1>2. HighNibble(Byte(p, 1)) = {d} /\ d \in Nat /\ LowNibble(Byte(p, 6)) = {e} /\ e \in Nat
  <2>1. Byte(p, 1) = {b[1]} /\ b[1] \in Nat /\ Byte(p, 6) = {b[6]} /\ b[6] \in Nat
    BY DEF HasBytes
  <2> QED
    BY <2>1, BitsOf DEF LowNibble, HighNibble
<1>3. x = {n} /\ y = {o}
  <2> HIDE DEF w, d, v, e, k, l
  <2> QED
    BY <1>1, <1>2, DistanceOf
<1>4. TotalAndTrip(p, stamp)
        = Delta(stamp, <<PV("navigation.trip", Measure(y, 100, "nm", "m")),
                         PV("navigation.log", Measure(x, 10, "nm", "m"))>>)
  BY DEF TotalAndTrip, Miles
<1>5. Documented(37, b) = {Means("navigation.log", Quantity(n, 10, "nm", "m")),
                           Means("navigation.trip", Quantity(o, 100, "nm", "m"))}
  BY DEF Documented, Nibble0, Nibble1
<1> HIDE DEF x, y, n, o
<1> DEFINE u == PV("navigation.trip", Measure(y, 100, "nm", "m"))
           t == PV("navigation.log", Measure(x, 10, "nm", "m"))
           U == Means("navigation.trip", Quantity(o, 100, "nm", "m"))
           T == Means("navigation.log", Quantity(n, 10, "nm", "m"))
<1>6. Conforms({u}, {U}) /\ Conforms({t}, {T})
  BY <1>3, ConformsOne
<1>7. u.path # T.path /\ t.path # U.path
  BY DEF PV, Means
<1>8. TotalAndTrip(p, stamp) = Delta(stamp, <<u, t>>) /\ Documented(37, b) = {T, U}
  BY <1>4, <1>5
<1> HIDE DEF u, t, U, T
<1>9. Conforms({u, t}, {U, T})
  BY <1>6, <1>7, ConformsTwo
<1>10. {U, T} = {T, U} /\ Tells(Delta(stamp, <<u, t>>), stamp, {u, t})
  BY TellsTuple
<1> QED
  BY <1>8, <1>9, <1>10 DEF DecodesLike

LEMMA ConformsWhen ==
  ASSUME NEW a, NEW b, NEW A, NEW B, Conforms({a}, {A}), Conforms({b}, {B}),
         a.path # B.path, b.path # A.path, NEW c \in BOOLEAN, NEW d \in BOOLEAN
  PROVE  Conforms((IF c THEN {a} ELSE {}) \cup (IF d THEN {b} ELSE {}),
                  (IF c THEN {A} ELSE {}) \cup (IF d THEN {B} ELSE {}))
BY DEF Conforms

LEMMA SpeedAndAverageDecodes ==
  ASSUME NEW p, NEW b, NEW stamp, HasBytes(p, b, 6)
  PROVE  DecodesLike(SpeedAndAverage(p, stamp), stamp, Documented(38, b))
<1> DEFINE w == b[2] + 256 * b[3]
           v == b[4] + 256 * b[5]
           D == HighNibble(Byte(p, 6))
           c == Bit(D, 2)
           d == ~Bit(D, 3)
           i == IsSet(b[6], 6)
           j == ~IsSet(b[6], 7)
           u == PV("navigation.speedThroughWater", Measure(Word(p, 2), 100, "knots", "ms"))
           t == PV("navigation.averageSpeedThroughWater",
                   Measure(Word(p, 4), 100, "knots", "ms"))
           U == Means("navigation.speedThroughWater", Quantity(w, 100, "knots", "ms"))
           T == Means("navigation.averageSpeedThroughWater", Quantity(v, 100, "knots", "ms"))
<1>1. Word(p, 2) = {w} /\ Word(p, 4) = {v}
  BY WordsOf
<1>2. (c <=> i) /\ (d <=> j)
  <2> DEFINE n == b[6]
             h == n \div 16
  <2>1. Byte(p, 6) = {n} /\ n \in Nat
    BY DEF HasBytes
  <2> HIDE DEF n
  <2>2. D = {h} /\ h \in Nat
    BY <2>1, BitsOf DEF HighNibble
  <2>3. h \div 4 = n \div 64 /\ h \div 8 = n \div 128
    BY <2>1
  <2> HIDE DEF h, D
  <2>4. (Bit(D, 2) <=> (h \div 4) % 2 = 1) /\ (Bit(D, 3) <=> (h \div 8) % 2 = 1)
    BY <2>2, BitsOf
  <2>5. 2^6 = 64 /\ 2^7 = 128
    OBVIOUS
  <2>6. (IsSet(n, 6) <=> (n \div 64) % 2 = 1) /\ (IsSet(n, 7) <=> (n \div 128) % 2 = 1)
    BY <2>5 DEF IsSet
  <2> QED
    BY <2>3, <2>4, <2>6 DEF n
<1>3. Conforms({u}, {U}) /\ Conforms({t}, {T})
  <2> HIDE DEF w, v
  <2> QED
    BY <1>1, ConformsOne
<1>4. u.path # T.path /\ t.path # U.path
  BY DEF PV, Means
<1>5. SpeedAndAverage(p, stamp) = Delta(stamp, When(c, u) \o When(d, t))
  BY DEF SpeedAndAverage
<1>6. Documented(38, b) = (IF i THEN {U} ELSE {}) \cup (IF j THEN {T} ELSE {})
  BY DEF Documented
<1>7. c \in BOOLEAN /\ d \in BOOLEAN
  BY DEF Bit
<1> HIDE DEF c, d, i, j, u, t, U, T
<1>8. Documented(38, b) = (IF c THEN {U} ELSE {}) \cup (IF d THEN {T} ELSE {})
  BY <1>2, <1>6
<1>9. Tells(SpeedAndAverage(p, stamp), stamp,
            (IF c THEN {u} ELSE {}) \cup (IF d THEN {t} ELSE {}))
  BY <1>5, TellsTwo
<1>10. Conforms((IF c THEN {u} ELSE {}) \cup (IF d THEN {t} ELSE {}),
                (IF c THEN {U} ELSE {}) \cup (IF d THEN {T} ELSE {}))
  BY <1>3, <1>4, <1>7, ConformsWhen
<1> QED
  BY <1>8, <1>9, <1>10 DEF DecodesLike

LEMMA WordDecodes ==
  ASSUME NEW p, NEW b, NEW stamp, HasBytes(p, b, 3)
  PROVE  /\ DecodesLike(WaterTemperature(p, stamp), stamp, Documented(39, b))
         /\ DecodesLike(SpeedOverGround(p, stamp), stamp, Documented(82, b))
<1> DEFINE w == b[2] + 256 * b[3]
           n == w - 100
           W == Word(p, 2)
           x == Plus(W, {-100})
<1>1. W = {w} /\ w \in Nat
  BY WordsOf
<1>2. DecodesLike(SpeedOverGround(p, stamp), stamp, Documented(82, b))
  <2>1. SpeedOverGround(p, stamp)
          = Delta(stamp, <<PV("navigation.speedOverGround", Measure(W, 10, "knots", "ms"))>>)
    BY DEF SpeedOverGround
  <2>2. Documented(82, b) = {Means("navigation.speedOverGround", Quantity(w, 10, "knots", "ms"))}
    BY DEF Documented
  <2> HIDE DEF w, W
  <2> QED
    BY <1>1, <2>1, <2>2, OneValueDecodes
<1>3. DecodesLike(WaterTemperature(p, stamp), stamp, Documented(39, b))
  <2>1. WaterTemperature(p, stamp)
          = Delta(stamp, <<PV("environment.water.temperature", Measure(x, 10, "c", "k"))>>)
    BY DEF WaterTemperature
  <2>2. Documented(39, b) = {Means("environment.water.temperature", Quantity(n, 10, "c", "k"))}
    BY DEF Documented
  <2>3. x = {n}
    <3> HIDE DEF w, W
    <3>1. x = {w + (-100)}
      BY <1>1 DEF Plus
    <3>2. w + (-100) = n
      BY <1>1
    <3> QED
      BY <3>1, <3>2
  <2> HIDE DEF x, n
  <2> QED
    BY <2>1, <2>2, <2>3, OneValueDecodes
<1> QED
  BY <1>2, <1>3

(* Bit 15 of a word is bit 7 of its second byte. *)
LEMMA WordSign ==
  ASSUME NEW l \in Nat, l < 256, NEW h \in Nat
  PROVE  (l + 256 * h) \div 32768 = h \div 128
<1> DEFINE q == h \div 128
           r == h % 128
           s == 256 * r + l
<1>1. q \in Nat /\ r \in Nat /\ r < 128 /\ h = 128 * q + r
  OBVIOUS
<1> HIDE DEF q, r
<1>2. l + 256 * h = 32768 * q + s /\ s \in Nat /\ s < 32768
  BY <1>1
<1> HIDE DEF s
<1>3. (32768 * q + s) \div 32768 = q
  BY <1>1, <1>2
<1> QED
  BY <1>2, <1>3 DEF q

LEMMA AngleOf ==
  ASSUME NEW p, NEW b, HasBytes(p, b, 4)
  PROVE  LET minutes == b[2] * 6000 + ((b[3] + 256 * b[4]) % 32768)
             size == Plus(Times(Byte(p, 2), 6000), Low(Word(p, 3), 15))
         IN  /\ size = {minutes} /\ Times(size, -1) = {-minutes}
             /\ (Bit(Word(p, 3), 15) <=> IsSet(b[4], 7))
<1> DEFINE w == b[3] + 256 * b[4]
           l == w % 32768
           k == b[2] * 6000
           L == Low(Word(p, 3), 15)
           T == Times(Byte(p, 2), 6000)
           size == Plus(T, L)
<1>1. /\ Word(p, 3) = {w} /\ w \in Nat /\ Byte(p, 2) = {b[2]} /\ b[2] \in Nat
      /\ b[3] \in Nat /\ b[3] < 256 /\ b[4] \in Nat
  <2>1. /\ Byte(p, 2) = {b[2]} /\ b[2] \in Nat
        /\ b[3] \in Nat /\ b[3] < 256 /\ b[4] \in Nat
    BY DEF HasBytes
  <2>2. Word(p, 3) = {w} /\ w \in Nat
    BY WordsOf
  <2> QED
    BY <2>1, <2>2
<1>2. Bit(Word(p, 3), 15) <=> IsSet(b[4], 7)
  <2>1. w \div 32768 = b[4] \div 128
    BY <1>1, WordSign
  <2>2. 2^7 = 128
    OBVIOUS
  <2>3. IsSet(b[4], 7) <=> (b[4] \div 128) % 2 = 1
    BY <2>2 DEF IsSet
  <2> HIDE DEF w
  <2>4. Bit(Word(p, 3), 15) <=> (w \div 32768) % 2 = 1
    BY <1>1, BitsOf
  <2> QED
    BY <2>1, <2>3, <2>4
<1>3. L = {l} /\ l \in Nat
  <2> HIDE DEF w
  <2>1. l \in Nat
    BY <1>1
  <2> QED
    BY <1>1, <2>1, BitsOf
<1>4. T = {k} /\ k \in Nat
  BY <1>1 DEF Times
<1> HIDE DEF w, l, k, L, T
<1> DEFINE n == k + l
<1>5. size = {n} /\ n \in Nat
  BY <1>3, <1>4 DEF Plus
<1> HIDE DEF size, n
<1>6. Times(size, -1) = {-n}
  <2>1. Times(size, -1) = {n * (-1)}
    BY <1>5 DEF Times
  <2>2. n * (-1) = -n
    BY <1>5
  <2> QED
    BY <2>1, <2>2
<1> QED
  BY <1>2, <1>5, <1>6 DEF size, n, T, L, k, l, w

LEMMA AngleDecodes ==
  ASSUME NEW p, NEW b, NEW stamp, HasBytes(p, b, 4)
  PROVE  /\ DecodesLike(Latitude(p, stamp), stamp, Documented(80, b))
         /\ DecodesLike(Longitude(p, stamp), stamp, Documented(81, b))
<1> DEFINE minutes == b[2] * 6000 + ((b[3] + 256 * b[4]) % 32768)
           size == Plus(Times(Byte(p, 2), 6000), Low(Word(p, 3), 15))
           i == IsSet(b[4], 7)
           south == IF i THEN -minutes ELSE minutes
           west  == IF i THEN minutes ELSE -minutes
           x == IF Bit(Word(p, 3), 15) THEN Times(size, -1) ELSE size
           y == IF ~Bit(Word(p, 3), 15) THEN Times(size, -1) ELSE size
<1>1. /\ size = {minutes} /\ Times(size, -1) = {-minutes}
      /\ (Bit(Word(p, 3), 15) <=> i)
  BY AngleOf
<1>2. /\ Latitude(p, stamp) = Delta(stamp, <<PV("navigation.position.latitude",
                                                Measure(x, 6000, "deg", "deg"))>>)
      /\ Longitude(p, stamp) = Delta(stamp, <<PV("navigation.position.longitude",
                                                 Measure(y, 6000, "deg", "deg"))>>)
  BY DEF Latitude, Longitude, Angle
<1>3. Documented(80, b) = {Means("navigation.position.latitude",
                                 Quantity(south, 6000, "deg", "deg"))}
  BY DEF Documented
<1>4. Documented(81, b) = {Means("navigation.position.longitude",
                                 Quantity(west, 6000, "deg", "deg"))}
  BY DEF Documented
<1> HIDE DEF size, minutes, i
<1>5. x = {south} /\ y = {west}
  BY <1>1
<1> HIDE DEF x, y, south, west
<1> QED
  BY <1>2, <1>3, <1>4, <1>5, OneValueDecodes

LEMMA MagneticCourseDecodes ==
  ASSUME NEW p, NEW b, NEW stamp, HasBytes(p, b, 2)
  PROVE  DecodesLike(MagneticCourse(p, stamp), stamp, Documented(83, b))
<1> DEFINE u == b[1] \div 16
           c == b[2]
           U == HighNibble(Byte(p, 1))
           A == Times(Low(U, 2), 720)
           B == Times(Low(Byte(p, 2), 6), 16)
           C == Times(High(U, 2), 4)
           x == Plus(A, Plus(B, C))
           n == 720 * (u % 4) + 16 * (c % 64) + 4 * (u \div 4)
<1>1. u \in Nat /\ U = {u} /\ c \in Nat /\ Byte(p, 2) = {c}
  <2>1. Byte(p, 1) = {b[1]} /\ b[1] \in Nat /\ c \in Nat /\ Byte(p, 2) = {c}
    BY DEF HasBytes
  <2> QED
    BY <2>1, BitsOf DEF HighNibble
<1>2. MagneticCourse(p, stamp) = Delta(stamp, <<PV("navigation.courseOverGroundMagnetic",
                                                   Measure(x, 8, "deg", "rad"))>>)
  BY DEF MagneticCourse
<1>3. Documented(83, b) = {Means("navigation.courseOverGroundMagnetic",
                                 Quantity(n, 8, "deg", "rad"))}
  BY DEF Documented, Nibble1
<1> HIDE DEF u, U, c
<1>4. x = {n}
  <2> DEFINE e == (u % 4) * 720
             f == (c % 64) * 16
             g == (u \div 4) * 4
  <2>1. A = {e} /\ B = {f} /\ C = {g}
    <3>1. Low(U, 2) = {u % 4} /\ High(U, 2) = {u \div 4}
      BY <1>1, BitsOf
    <3>2. Low(Byte(p, 2), 6) = {c % 64}
      BY <1>1, BitsOf
    <3> QED
      BY <3>1, <3>2, ProductOf
  <2>2. e + (f + g) = n
    BY <1>1
  <2> HIDE DEF A, B, C, e, f, g
  <2>3. Plus(B, C) = {f + g}
    BY <2>1 DEF Plus
  <2>4. x = {e + (f + g)}
    BY <2>1, <2>3 DEF x, Plus
  <2> QED
    BY <2>2, <2>4
<1> HIDE DEF x, n
<1> QED
  BY <1>2, <1>3, <1>4, OneValueDecodes

(* Values of different paths conform together. *)
LEMMA ConformsApart ==
  ASSUME NEW S, NEW T, NEW D, NEW E, Conforms(S, D), Conforms(T, E),
         \A pv \in S : \A meant \in E : pv.path # meant.path,
         \A pv \in T : \A meant \in D : pv.path # meant.path
  PROVE  Conforms(S \cup T, D \cup E)
BY DEF Conforms

LEMMA ConformsMissing ==
  ASSUME NEW path, path # "NMEA0183", NEW q, "amount" \in DOMAIN q, q.amount = {0}
  PROVE  Conforms({}, {Means(path, q)})
BY DEF Conforms, Means

LEMMA ConformsTold ==
  ASSUME NEW path, path # "NMEA0183", NEW q, NEW v, v # Undefined,
         MeansDocumented(v, Means(path, q))
  PROVE  Conforms({PV(path, v)}, {Means(path, q)})
BY DEF Conforms, PV, Means

(* A zero may be missing. *)
LEMMA ConformsUnlessZero ==
  ASSUME NEW path, path \notin {"NMEA0183", "navigation.headingMagnetic"},
         NEW x, NEW n, x = {n}, NEW over
  PROVE  Conforms(UnlessZero(path, x, over), {Means(path, Quantity(n, over, "deg", "rad"))})
<1> DEFINE q == Quantity(n, over, "deg", "rad")
<1>1. Measure(x, over, "deg", "rad") = q
  BY DEF Measure, Quantity
<1>2. q # Undefined /\ "amount" \in DOMAIN q /\ q.amount = {n}
  BY DEF Quantity, Undefined, Text
<1> HIDE DEF q
<1>3. CASE n = 0
  <2>1. UnlessZero(path, x, over) = {}
    BY <1>3 DEF UnlessZero
  <2> QED
    BY <1>2, <1>3, <2>1, ConformsMissing DEF q
<1>4. CASE n # 0
  <2>1. UnlessZero(path, x, over) = {PV(path, q)}
    BY <1>1, <1>4 DEF UnlessZero, NaN
  <2>2. MeansDocumented(q, Means(path, q))
    BY DEF MeansDocumented, Means
  <2>3. Conforms({PV(path, q)}, {Means(path, q)})
    BY <1>2, <2>2, ConformsTold
  <2> QED
    BY <2>1, <2>3 DEF q
<1> QED
  BY <1>3, <1>4 DEF q

(* A heading may be a degree off, but not where it is missing. *)
LEMMA ConformsHeading ==
  ASSUME NEW x, NEW n \in Int, x = {n}, NEW k \in Int, NEW d \in {-1, 0, 1}, n = k + d,
         n = 0 => k = 0
  PROVE  Conforms(UnlessZero("navigation.headingMagnetic", x, 1),
                  {Means("navigation.headingMagnetic", Quantity(k, 1, "deg", "rad"))})
<1> DEFINE q == Quantity(k, 1, "deg", "rad")
           v == Measure(x, 1, "deg", "rad")
<1>1. v = [q EXCEPT !.amount = {a + d : a \in q.amount}]
  <2> DEFINE S == {a + d : a \in q.amount}
  <2>1. S = x
    BY DEF Quantity
  <2> HIDE DEF S
  <2>2. [q EXCEPT !.amount = S] = v
    BY <2>1 DEF Measure, Quantity
  <2> QED
    BY <2>2 DEF S
<1>2. v # Undefined /\ "amount" \in DOMAIN q /\ q.amount = {k}
  BY DEF Quantity, Measure, Undefined, Text
<1> HIDE DEF q, v
<1>3. CASE n = 0
  <2>1. UnlessZero("navigation.headingMagnetic", x, 1) = {}
    BY <1>3 DEF UnlessZero
  <2>2. Conforms({}, {Means("navigation.headingMagnetic", q)})
    BY <1>2, <1>3, ConformsMissing
  <2> QED
    BY <2>1, <2>2 DEF q
<1>4. CASE n # 0
  <2>1. UnlessZero("navigation.headingMagnetic", x, 1) = {PV("navigation.headingMagnetic", v)}
    BY <1>4 DEF UnlessZero, NaN, v
  <2>2. MeansDocumented(v, Means("navigation.headingMagnetic", q))
    BY <1>1 DEF MeansDocumented, Means
  <2>3. Conforms({PV("navigation.headingMagnetic", v)},
                 {Means("navigation.headingMagnetic", q)})
    BY <1>2, <2>2, ConformsTold
  <2> QED
    BY <2>1, <2>3 DEF q
<1> QED
  BY <1>3, <1>4 DEF q

(* The bits of the heading that the comment adds, and those that the code adds *)
LEMMA HeadingConforms ==
  ASSUME NEW v \in Nat, v < 256, NEW w \in Nat, NEW x, x = {v}, NEW y, y = {w}
  PROVE  Conforms(UnlessZero("navigation.headingMagnetic", CompassHeading(Digit0(x), y), 1),
                  {Means("navigation.headingMagnetic",
                         Quantity(DocumentedHeading(Nibble1(v), w), 1, "deg", "rad"))})
<1> DEFINE u == v \div 16
           bits == IF u \div 4 = 0 THEN 0 ELSE IF u % 2 = 1 THEN 2 ELSE 1
           higher == (IF (u \div 4) % 2 = 1 THEN 1 ELSE 0)
                     + (IF (u \div 8) % 2 = 1 THEN 1 ELSE 0)
           e == (u % 4) * 90
           f == (w % 64) * 2
           n == e + f + bits
           k == e + f + higher
           d == bits - higher
<1>1. CompassHeading(Digit0(x), y) = {n}
  BY CompassHeadingThere
<1>2. DocumentedHeading(Nibble1(v), w) = k
  <2>1. 2^2 = 4 /\ 2^3 = 8
    OBVIOUS
  <2> QED
    BY <2>1 DEF DocumentedHeading, HigherBits, Nibble1, IsSet
<1>3. u \in Nat /\ u < 16
  OBVIOUS
<1>4. e \in Nat /\ f \in Nat
  BY <1>3
<1> HIDE DEF u, e, f
<1>5. d \in {-1, 0, 1} /\ bits \in Nat /\ higher \in Nat /\ (bits = 0 => higher = 0)
  BY <1>3
<1> HIDE DEF bits, higher
<1>6. n \in Int /\ k \in Int /\ n = k + d /\ (n = 0 => k = 0)
  BY <1>4, <1>5
<1> HIDE DEF n, k, d
<1> QED
  BY <1>1, <1>2, <1>5, <1>6, ConformsHeading

LEMMA RudderConforms ==
  ASSUME NEW v \in Nat, v < 256, NEW x, x = {v}
  PROVE  Conforms(UnlessZero("steering.rudderAngle", Signed(x), 1),
                  {Means("steering.rudderAngle",
                         Quantity(DocumentedRudder(v), 1, "deg", "rad"))})
<1> DEFINE n == IF v > 127 THEN v - 256 ELSE v
<1>1. Signed(x) = {n}
  BY DEF Signed
<1>2. DocumentedRudder(v) = n
  <2>1. 2^7 = 128
    OBVIOUS
  <2>2. IsSet(v, 7) <=> v > 127
    BY <2>1 DEF IsSet
  <2> QED
    BY <2>2 DEF DocumentedRudder
<1> HIDE DEF n
<1> QED
  BY <1>1, <1>2, ConformsUnlessZero

LEMMA CourseConforms ==
  ASSUME NEW v \in Nat, NEW w \in Nat, NEW x, x = {v}, NEW y, y = {w},
         NEW n, n = 180 * (v \div 64) + w
  PROVE  Conforms(UnlessZero("steering.autopilot.target.headingMagnetic",
                             Plus(Times(High(Digit0(x), 2), 180), y), 2),
                  {Means("steering.autopilot.target.headingMagnetic",
                         Quantity(n, 2, "deg", "rad"))})
<1> DEFINE u == v \div 16
           U == Digit0(x)
           g == v \div 64
           H == High(U, 2)
           T == Times(H, 180)
           e == g * 180
<1>1. U = {u} /\ u \in Nat /\ u \div 4 = g
  BY DEF Digit0
<1> HIDE DEF u, U
<1>2. H = {g}
  BY <1>1, BitsOf
<1>3. g \in Nat /\ n = 180 * g + w
  OBVIOUS
<1> HIDE DEF g, H
<1>4. T = {e}
  BY <1>2 DEF Times
<1>5. e + w = n
  BY <1>3
<1> HIDE DEF T, e
<1> DEFINE X == Plus(T, y)
<1>6. X = {n}
  BY <1>4, <1>5 DEF Plus
<1> HIDE DEF X
<1>7. Conforms(UnlessZero("steering.autopilot.target.headingMagnetic", X, 2),
               {Means("steering.autopilot.target.headingMagnetic",
                      Quantity(n, 2, "deg", "rad"))})
  BY <1>6, ConformsUnlessZero
<1> QED
  BY <1>7 DEF X, T, H, U

LEMMA StateConforms ==
  ASSUME NEW v \in Nat, NEW x, x = {v}
  PROVE  Conforms({PV("steering.autopilot.state", Text(AutopilotMode(Digit1(x))))},
                  {Means("steering.autopilot.state", [s |-> DocumentedMode(Nibble0(v))])})
<1> DEFINE z == v % 16
           Z == Digit1(x)
           mode == AutopilotMode(Z)
<1>1. Z = {z} /\ z \in Nat /\ Nibble0(v) = z
  BY DEF Digit1, Nibble0
<1> HIDE DEF z, Z
<1>2. Int32(Z) = {z}
  BY <1>1 DEF Int32, ZeroIfNaN, NaN
<1>3. \A k : Bit(Z, k) <=> IsSet(z, k)
  BY <1>2 DEF Bit, IsSet
<1>4. mode = DocumentedMode(z) /\ mode \in {"route", "wind", "auto", "standby"}
  BY <1>3 DEF AutopilotMode, DocumentedMode
<1>5. Text(mode) = [s |-> DocumentedMode(Nibble0(v))] /\ Text(mode) # Undefined
  <2>1. mode # "undefined"
    BY <1>4
  <2>2. \A a, c : Text(a) = Text(c) => a = c
    <3> SUFFICES ASSUME NEW a, NEW c, Text(a) = Text(c) PROVE a = c
      OBVIOUS
    <3>1. Text(a).s = Text(c).s
      OBVIOUS
    <3> QED
      BY <3>1 DEF Text
  <2> QED
    BY <1>1, <1>4, <2>1, <2>2 DEF Text, Undefined
<1> HIDE DEF mode
<1> QED
  BY <1>5 DEF Conforms, PV, Means, MeansDocumented, mode, Z

LEMMA PathOf ==
  ASSUME NEW path, NEW x, NEW over
  PROVE  \A pv \in UnlessZero(path, x, over) : pv.path = path
BY DEF UnlessZero, PV

LEMMA HeadingAndRudderDecodes ==
  ASSUME NEW p, NEW b, NEW stamp, HasBytes(p, b, 3)
  PROVE  DecodesLike(HeadingAndRudder(p, stamp), stamp, Documented(156, b))
<1> DEFINE S == UnlessZero("navigation.headingMagnetic",
                           CompassHeading(Digit0(Byte(p, 1)), Byte(p, 2)), 1)
           T == UnlessZero("steering.rudderAngle", Signed(Byte(p, 3)), 1)
           D == {Means("navigation.headingMagnetic",
                       Quantity(DocumentedHeading(Nibble1(b[1]), b[2]), 1, "deg", "rad"))}
           E == {Means("steering.rudderAngle",
                       Quantity(DocumentedRudder(b[3]), 1, "deg", "rad"))}
<1>1. /\ Byte(p, 1) = {b[1]} /\ Byte(p, 2) = {b[2]} /\ Byte(p, 3) = {b[3]}
      /\ b[1] \in Nat /\ b[1] < 256 /\ b[2] \in Nat /\ b[3] \in Nat /\ b[3] < 256
  BY DEF HasBytes
<1>2. Conforms(S, D) /\ Conforms(T, E)
  BY <1>1, HeadingConforms, RudderConforms
<1>3. Documented(156, b) = D \cup E
  BY DEF Documented
<1>4. Tells(HeadingAndRudder(p, stamp), stamp, S \cup T)
  <2>1. Byte(p, 1) # NaN /\ Byte(p, 2) # NaN /\ Byte(p, 3) # NaN
    BY <1>1 DEF NaN
  <2> QED
    BY <2>1, HeadingAndRudderTells
<1>5. /\ \A pv \in S : pv.path = "navigation.headingMagnetic"
      /\ \A pv \in T : pv.path = "steering.rudderAngle"
  BY PathOf
<1>6. /\ \A meant \in D : meant.path = "navigation.headingMagnetic"
      /\ \A meant \in E : meant.path = "steering.rudderAngle"
  BY DEF Means
<1> HIDE DEF S, T, D, E
<1>7. Conforms(S \cup T, D \cup E)
  BY <1>2, <1>5, <1>6, ConformsApart
<1> QED
  BY <1>3, <1>4, <1>7 DEF DecodesLike

LEMMA AutopilotDecodes ==
  ASSUME NEW p, Len(p) = 9, NEW b, NEW stamp, HasBytes(p, b, 8)
  PROVE  DecodesLike(Autopilot(p, stamp), stamp, Documented(132, b))
<1> DEFINE S == UnlessZero("navigation.headingMagnetic",
                           CompassHeading(Digit0(Byte(p, 1)), Byte(p, 2)), 1)
           T == UnlessZero("steering.autopilot.target.headingMagnetic",
                           Plus(Times(High(Digit0(Byte(p, 2)), 2), 180), Byte(p, 3)), 2)
           U == UnlessZero("steering.rudderAngle", Signed(Byte(p, 6)), 1)
           V == {PV("steering.autopilot.state", Text(AutopilotMode(Digit1(Byte(p, 4)))))}
           D == {Means("navigation.headingMagnetic",
                       Quantity(DocumentedHeading(Nibble1(b[1]), b[2]), 1, "deg", "rad"))}
           E == {Means("steering.autopilot.target.headingMagnetic",
                       Quantity(180 * (b[2] \div 64) + b[3], 2, "deg", "rad"))}
           F == {Means("steering.rudderAngle",
                       Quantity(DocumentedRudder(b[6]), 1, "deg", "rad"))}
           G == {Means("steering.autopilot.state", [s |-> DocumentedMode(Nibble0(b[4]))])}
<1>1. /\ Byte(p, 1) = {b[1]} /\ Byte(p, 2) = {b[2]} /\ Byte(p, 3) = {b[3]}
      /\ Byte(p, 4) = {b[4]} /\ Byte(p, 6) = {b[6]}
      /\ b[1] \in Nat /\ b[1] < 256 /\ b[2] \in Nat /\ b[3] \in Nat /\ b[4] \in Nat
      /\ b[6] \in Nat /\ b[6] < 256
  BY DEF HasBytes
<1>2. Conforms(S, D) /\ Conforms(U, F)
  BY <1>1, HeadingConforms, RudderConforms
<1>3. Conforms(T, E)
  <2> DEFINE v == b[2]
             w == b[3]
             x == Byte(p, 2)
             y == Byte(p, 3)
             n == 180 * (v \div 64) + w
  <2>1. v \in Nat /\ w \in Nat /\ x = {v} /\ y = {w}
    BY <1>1
  <2> HIDE DEF v, w, x, y
  <2>3. n = 180 * (v \div 64) + w
    OBVIOUS
  <2> HIDE DEF n
  <2>2. Conforms(UnlessZero("steering.autopilot.target.headingMagnetic",
                            Plus(Times(High(Digit0(x), 2), 180), y), 2),
                 {Means("steering.autopilot.target.headingMagnetic",
                        Quantity(n, 2, "deg", "rad"))})
    BY <2>1, <2>3, CourseConforms
  <2> QED
    BY <2>2 DEF n, v, w, x, y
<1>4. Conforms(V, G)
  BY <1>1, StateConforms
<1>5. Documented(132, b) = ((D \cup E) \cup F) \cup G
  BY DEF Documented
<1>6. Tells(Autopilot(p, stamp), stamp, ((S \cup T) \cup U) \cup V)
  <2>1. \A i \in 1 .. 8 : Byte(p, i) # NaN
    BY DEF HasBytes, NaN
  <2> QED
    BY <2>1, AutopilotTells
<1>7. /\ \A pv \in S : pv.path = "navigation.headingMagnetic"
      /\ \A pv \in T : pv.path = "steering.autopilot.target.headingMagnetic"
      /\ \A pv \in U : pv.path = "steering.rudderAngle"
      /\ \A pv \in V : pv.path = "steering.autopilot.state"
  BY PathOf DEF PV
<1>8. /\ \A meant \in D : meant.path = "navigation.headingMagnetic"
      /\ \A meant \in E : meant.path = "steering.autopilot.target.headingMagnetic"
      /\ \A meant \in F : meant.path = "steering.rudderAngle"
      /\ \A meant \in G : meant.path = "steering.autopilot.state"
  BY DEF Means
<1> HIDE DEF S, T, U, V, D, E, F, G
<1> DEFINE ST  == S \cup T
           DE  == D \cup E
           STU == ST \cup U
           DEF3 == DE \cup F
<1>9. Conforms(ST, DE)
  BY <1>2, <1>3, <1>7, <1>8, ConformsApart
<1>10. Conforms(STU, DEF3)
  <2>1. /\ \A pv \in ST : \A meant \in F : pv.path # meant.path
        /\ \A pv \in U : \A meant \in DE : pv.path # meant.path
    BY <1>7, <1>8
  <2> HIDE DEF ST, DE
  <2> QED
    BY <1>2, <1>9, <2>1, ConformsApart
<1>11. Conforms(STU \cup V, DEF3 \cup G)
  <2>1. /\ \A pv \in STU : \A meant \in G : pv.path # meant.path
        /\ \A pv \in V : \A meant \in DEF3 : pv.path # meant.path
    BY <1>7, <1>8
  <2> HIDE DEF STU, DEF3
  <2> QED
    BY <1>4, <1>10, <2>1, ConformsApart
<1> QED
  BY <1>5, <1>6, <1>11 DEF DecodesLike

(* Each complete datagram, by its type *)
LEMMA DatagramDecodes ==
  ASSUME NEW p, NEW b, NEW stamp, NEW type \in Int, At(p, 0) = Num(type),
         type \in DOMAIN DatagramLength => HasBytes(p, b, DatagramLength[type]),
         type = 132 => Len(p) = 9, type = 17 => b[3] < 16, type = 0 => b[4] < 128,
         type \notin {32, 153}, Documented(type, b) # {}
  PROVE  DecodesLike(ALK(p, stamp), stamp, Documented(type, b))
<1>1. type \in {0, 16, 17, 33, 34, 37, 38, 39, 80, 81, 82, 83, 132, 156}
  BY DEF Documented
<1> DEFINE has(n) == HasBytes(p, b, n)
<1>2. /\ type \in {16, 17, 39, 82, 156} => has(3)
      /\ type \in {0, 33, 34, 80, 81} => has(4)
      /\ type \in {37, 38} => has(6)
      /\ type = 83 => has(2)
      /\ type = 132 => has(8)
  BY DEF DatagramLength
<1>3. type = 34 => has(3)
  BY <1>2 DEF HasBytes
<1> HIDE DEF has
<1>4. type \in {0, 16, 17} => DecodesLike(ALK(p, stamp), stamp, Documented(type, b))
  BY <1>2, Decoders, DepthDecodes, WindAngleDecodes, WindSpeedDecodes DEF has
<1>5. type \in {33, 34, 37} => DecodesLike(ALK(p, stamp), stamp, Documented(type, b))
  BY <1>2, <1>3, Decoders, MileageDecodes, TotalAndTripDecodes DEF has
<1>6. type \in {38, 39, 82} => DecodesLike(ALK(p, stamp), stamp, Documented(type, b))
  BY <1>2, Decoders, SpeedAndAverageDecodes, WordDecodes DEF has
<1>7. type \in {80, 81, 83} => DecodesLike(ALK(p, stamp), stamp, Documented(type, b))
  BY <1>2, Decoders, AngleDecodes, MagneticCourseDecodes DEF has
<1>8. type \in {132, 156} => DecodesLike(ALK(p, stamp), stamp, Documented(type, b))
  BY <1>2, Decoders, AutopilotDecodes, HeadingAndRudderDecodes DEF has
<1> QED
  BY <1>1, <1>4, <1>5, <1>6, <1>7, <1>8

(* A complete datagram is decoded to what the comments of the decoders say. *)
THEOREM DatagramsAreDocumented == Spec => []DecodesAsDocumented
<1>1. Inv => DecodesAsDocumented
  <2> DEFINE m    == message
             p    == m.parts
             type == p[1].n
             b    == Bytes(m)
  <2> SUFFICES ASSUME Inv, m # NoMessage, IsDatagram(m), type \notin {32, 153},
                      type = 0 => b[4] < 128
               PROVE  DecodesTo(Documented(type, b))
    BY DEF DecodesAsDocumented
  <2>1. PICK now \in MaxDelay .. MaxClock, delay \in 0 .. MaxDelay :
           m \in Sentences(now, delay) /\ sent = Answer(m, now)
    BY HandledSentence
  <2>2. /\ p \in Seq(Field) /\ p # <<>>
        /\ \A i \in DOMAIN p : IsNumeric(p[i])
        /\ WellFormed(type, b)
    BY <2>1, Arrives DEF OfShip
  <2>3. CASE Documented(type, b) = {}
    BY <2>3 DEF DecodesTo
  <2>4. CASE Documented(type, b) # {}
    <3>1. b \in Seq(0 .. 255) /\ (type = 17 => b[3] < 16)
          /\ (type \in DOMAIN DatagramLength => Len(b) = DatagramLength[type])
      BY <2>2 DEF WellFormed
    <3>2. /\ At(p, 0) = Num(type) /\ type \in Int
          /\ Len(p) = Len(b) + 1
          /\ HasBytes(p, b, Len(b))
      BY <2>2, BytesRead
    <3>3. m.lead = "$" /\ m.id = "ALK" /\ m.id \in Supported
      BY DEF IsDatagram, Supported
    <3>4. RunHook(m, now, now) = ALK(p, now)
      BY <3>3, Dispatch
    <3>7. type \notin {32, 153} /\ (type = 0 => b[4] < 128)
      OBVIOUS
    <3> HIDE DEF type, b, p, m
    <3>5. type = 132 => Len(p) = 9
      <4>1. 132 \in DOMAIN DatagramLength /\ DatagramLength[132] = 8
        BY DEF DatagramLength
      <4> QED
        BY <3>1, <3>2, <4>1
    <3>6. DecodesLike(ALK(p, now), now, Documented(type, b))
      <4>1. type \in DOMAIN DatagramLength => HasBytes(p, b, DatagramLength[type])
        BY <3>1, <3>2
      <4> QED
        BY ONLY <3>7, <2>4, <3>1, <3>2, <3>5, <4>1, DatagramDecodes
    <3> QED
      BY <2>1, <3>3, <3>4, <3>6, ConformsDecodes DEF DecodesLike
  <2> QED
    BY <2>3, <2>4
<1> QED
  BY <1>1, Invariance, PTL
=============================================================================
