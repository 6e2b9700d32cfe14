----------------------------- MODULE NmeaHooks ------------------------------
(***************************************************************************)
(* The hooks of the NMEA 0183 sentences (hooks-es5/*.js), one operator per *)
(* sentence, from its fields p and a time to a delta, null or an exception.*)
(* The hooks of position fixes (RMC, GLL, GGA) take the clock now, and     *)
(* date their delta by it and by the sentence; all others take stamp, the  *)
(* timestamp of the parser's tags, for their delta.                        *)
(***************************************************************************)
EXTENDS NmeaValues

Upper(f, letter) == f = Text(letter)

-----------------------------------------------------------------------------
(* Position fixes *)

\* The position read from the fields i (latitude), i+1, i+2 (longitude), i+3;
\* a coordinate that is not there at all is a TypeError
HasPosition(p, i) == \A j \in i..(i + 3) : At(p, j) # Undefined

PositionAt(p, i) ==
    Position(coordinate(At(p, i), At(p, i + 1)),
             coordinate(At(p, i + 2), At(p, i + 3)))

\* The status p[1] is not looked at
RMC(p, now) ==
    LET stamp == timestamp(At(p, 0), At(p, 8), now)
        speed == ZeroUnlessPositive(float(At(p, 6)))
        track == ZeroIfNaN(float(At(p, 7)))
    IN  IF stamp = NaN \/ ~HasPosition(p, 2) \/ At(p, 10) = Undefined
        THEN Throw
        ELSE DeltaOf(Own, CHOOSE t \in stamp : TRUE, <<
                 PV("navigation.position", PositionAt(p, 2)),
                 PV("navigation.courseOverGroundTrue", Deg(track)),
                 PV("navigation.speedOverGround", Knots(speed)),
                 PV("navigation.magneticVariation",
                    Deg(magneticVariaton(At(p, 9), At(p, 10)))),
                 PV("navigation.magneticVariationAgeOfService",
                    Measure(stamp, 1, "s", "s")),
                 PV("navigation.datetime", Measure(stamp, 1, "s", "s"))>>)

\* v is overwritten for every field: only the last one decides
GLL(p, now) ==
    LET valid == p # <<>> => /\ ~isEmpty(Last(p))
                             /\ At(p, 5) # Text("V")
        stamp == StampOf(At(p, 4), Today(now), now)
    IN  CASE ~valid -> Null
          [] valid /\ (At(p, 4) = Undefined \/ stamp = NaN \/ ~HasPosition(p, 0))
               -> Throw
          [] OTHER -> DeltaOf(Own, CHOOSE t \in stamp : TRUE,
                         <<PV("navigation.position", PositionAt(p, 0))>>)

MethodQuality == <<"no GPS", "GNSS Fix", "DGNSS fix", "Precise GNSS",
    "RTK fixed integer", "RTK float", "Estimated (DR) mode", "Manual input",
    "Simulator mode", "Error">>

Quality(x) ==
    IF \E v \in x : v \in 0..9
    THEN Text(MethodQuality[1 + CHOOSE v \in x : TRUE]) ELSE Undefined

\* undefined or NaN; a position is an object and is not looked into
InvalidValue(v) ==
    v = Undefined \/ ("amount" \in DOMAIN v /\ v.amount = NaN)

\* toRemove.forEach(splice): the indices are those of the whole list, and each
\* removal has moved the values behind it one place to the front, so that the
\* k-th one takes out the value k - 1 places behind the one it is meant for.  A
\* value that stays keeps its place here.
RemoveInvalid(values) ==
    LET toRemove == {i \in DOMAIN values : InvalidValue(values[i].value)}
        Moved(i) == Cardinality({j \in toRemove : j < i})
        removed  == {i + Moved(i) : i \in toRemove}
    IN  [i \in DOMAIN values \ removed |-> values[i]]

GnssNumber(path, f) == PV(path, Measure(float(f), 1, "1", "1"))

GGA(p, now) ==
    LET stamp == StampOf(At(p, 0), Today(now), now)
    IN  CASE EmptyFields(p) > 3 -> Null
          [] EmptyFields(p) =< 3 /\
             (At(p, 0) = Undefined \/ stamp = NaN \/ ~HasPosition(p, 1)) -> Throw
          [] OTHER -> DeltaOf(Own, CHOOSE t \in stamp : TRUE, RemoveInvalid(<<
                 PV("navigation.position", PositionAt(p, 1)),
                 PV("navigation.gnss.methodQuality", Quality(float(At(p, 5)))),
                 GnssNumber("navigation.gnss.satellites", At(p, 6)),
                 GnssNumber("navigation.gnss.antennaAltitude", At(p, 8)),
                 GnssNumber("navigation.gnss.horizontalDilution", At(p, 7)),
                 GnssNumber("navigation.gnss.geoidalSeparation", At(p, 11)),
                 GnssNumber("navigation.gnss.differentialAge", At(p, 12)),
                 GnssNumber("navigation.gnss.differentialReference", At(p, 13))>>))

\* The milliseconds are taken modulo the seconds: at second 0 that is NaN, and
\* toISOString throws; without a date the removal loop meets an empty delta
ZDA(p, stamp) ==
    LET dated == /\ \A i \in 0..3 : IsNumeric(At(p, i))
                 /\ EmptyFields(p) < 3
    IN  CASE EmptyFields(p) > 3 -> Null
          [] EmptyFields(p) =< 3 /\ ~dated -> Throw
          [] dated /\ At(p, 0).n % MinuteTicks = 0 -> Throw
          [] OTHER -> Delta(stamp, <<PV("navigation.datetime",
                 Measure({At(p, 1).n * DayTicks + At(p, 0).n}, 1, "s", "s"))>>)

-----------------------------------------------------------------------------
(* The route to the next waypoint *)

RMB(p, stamp) ==
    LET next   == PositionAt(p, 5)
        offset == ZeroIfNaN(float(At(p, 1)))
        Point  == "navigation.courseRhumbline.nextPoint"
    IN  CASE ~HasPosition(p, 5) -> Throw
          [] HasPosition(p, 5) /\ NaN \in {next.lat, next.lon} -> Null
          [] OTHER -> Delta(stamp, <<
                 PV(Point, next),
                 PV(Point \o ".bearingTrue", Deg(ZeroIfNaN(float(At(p, 10))))),
                 PV(Point \o ".velocityMadeGood",
                    Knots(ZeroUnlessPositive(float(At(p, 11))))),
                 PV(Point \o ".distance",
                    Measure(ZeroIfNaN(float(At(p, 9))), 1, "nm", "m")),
                 PV("navigation.courseRhumbline.crossTrackError",
                    Measure(IF At(p, 2) = Text("R") THEN offset
                            ELSE Times(offset, -1), 1, "nm", "m"))>>)

\* Every path of the hook ends in an exception
APB(p, stamp) == Throw

-----------------------------------------------------------------------------
(* Course, speed and heading *)

\* The knots override the kilometres per hour
SpeedOf(knots, N, kph, K) ==
    IF Positive(float(knots)) /\ Upper(N, "N") THEN Knots(float(knots))
    ELSE IF Positive(float(kph)) /\ Upper(K, "K")
         THEN Measure(float(kph), 1, "kph", "ms")
         ELSE Measure({0}, 1, "ms", "ms")

VTG(p, stamp) ==
    IF \A i \in {0, 2, 4, 6} : At(p, i) = Empty THEN Null
    ELSE Delta(stamp, <<
             PV("navigation.courseOverGroundMagnetic", Deg(float(At(p, 2)))),
             PV("navigation.courseOverGroundTrue", Deg(float(At(p, 0)))),
             PV("navigation.speedOverGround",
                SpeedOf(At(p, 4), At(p, 5), At(p, 6), At(p, 7)))>>)

VHW(p, stamp) ==
    Delta(stamp,
        When(At(p, 0) # Empty,
             PV("navigation.headingTrue", Deg(float(At(p, 0)))))
     \o When(At(p, 2) # Empty,
             PV("navigation.headingMagnetic", Deg(float(At(p, 2)))))
     \o When(At(p, 4) # Empty,
             PV("navigation.speedThroughWater", Knots(float(At(p, 4))))))

HDG(p, stamp) ==
    LET values ==
            When(~isEmpty(At(p, 0)),
                 PV("navigation.headingMagnetic", Deg(float(At(p, 0)))))
         \o When(~(isEmpty(At(p, 3)) \/ isEmpty(At(p, 4))),
                 PV("navigation.magneticVariation",
                    Deg(Times(float(At(p, 3)),
                              IF At(p, 4) = Text("E") THEN 1 ELSE -1))))
    IN  IF values = <<>> THEN Null ELSE Delta(stamp, values)

\* A hook of one number that is not to be empty
OneNumber(f, stamp, path, value(_)) ==
    IF isEmpty(f) THEN Null ELSE Delta(stamp, <<PV(path, value(float(f)))>>)

HDT(p, stamp) == OneNumber(At(p, 0), stamp, "navigation.headingTrue", Deg)
HDM(p, stamp) == OneNumber(At(p, 0), stamp, "navigation.headingMagnetic", Deg)

ROT(p, stamp) ==
    IF ~Upper(At(p, 1), "A") THEN Null
    ELSE Delta(stamp, <<PV("navigation.rateOfTurn",
                         Measure(float(At(p, 0)), 60, "deg", "rad"))>>)

-----------------------------------------------------------------------------
(* Wind *)

\* Faulty variant: the angle is not brought to -180..180.
WindAngleUnwrapped(x) == {v % 360 : v \in x}

\* % keeps the sign of the dividend
WindAngle360(x) ==
    LET rest(v) == IF v >= 0 THEN v % 360 ELSE -((-v) % 360)
    IN  {IF rest(v) > 180 THEN rest(v) - 360 ELSE rest(v) : v \in x}

MWV(p, stamp) ==
    LET apparent == Upper(At(p, 1), "R")
        unit == IF Upper(At(p, 3), "K") THEN "kph"
                ELSE IF Upper(At(p, 3), "N") THEN "knots" ELSE "ms"
    IN  IF ~Upper(At(p, 4), "A") THEN Null
        ELSE Delta(stamp, <<
                 PV(IF apparent THEN "environment.wind.speedApparent"
                                ELSE "environment.wind.speedTrue",
                    Measure(float(At(p, 2)), 1, unit, "ms")),
                 PV(IF apparent THEN "environment.wind.angleApparent"
                                ELSE "environment.wind.angleTrueWater",
                    Deg(WindAngle360(float(At(p, 0)))))>>)

\* Neither left nor right is straight ahead
VWR(p, stamp) ==
    LET rightPositive == IF Upper(At(p, 1), "R") THEN 1
                         ELSE IF Upper(At(p, 1), "L") THEN -1 ELSE 0
    IN  IF EmptyFields(p) > 4 THEN Null
        ELSE Delta(stamp, <<
                 PV("environment.wind.angleApparent",
                    Deg(Times(float(At(p, 0)), rightPositive))),
                 PV("environment.wind.speedApparent",
                    Knots(float(At(p, 2))))>>)

VPW(p, stamp) ==
    LET vmg(value) == Delta(stamp, <<PV("performance.velocityMadeGood", value)>>)
    IN  IF ~isEmpty(At(p, 2)) THEN vmg(Measure(float(At(p, 2)), 1, "ms", "ms"))
        ELSE IF ~isEmpty(At(p, 0)) THEN vmg(Knots(float(At(p, 0))))
        ELSE Null

-----------------------------------------------------------------------------
(* Depth, water and engine *)

\* Faulty variant: an empty depth is sent.
DBTUnguarded(p, stamp) ==
    Delta(stamp, <<PV("environment.depth.belowTransducer",
                    Measure(float(At(p, 2)), 1, "m", "m"))>>)

DBT(p, stamp) ==
    OneNumber(At(p, 2), stamp, "environment.depth.belowTransducer",
              LAMBDA x : Measure(x, 1, "m", "m"))

DPT(p, stamp) ==
    LET Metres(x) == Measure(x, 1, "m", "m")
        depth  == float(At(p, 0))
        offset == float(At(p, 1))
    IN  IF isEmpty(At(p, 0)) \/ At(p, 1) = Undefined THEN Null
        ELSE Delta(stamp,
          <<PV("environment.depth.belowTransducer", Metres(depth))>>
          \o (IF Positive(offset)
              THEN <<PV("environment.depth.surfaceToTransducer", Metres(offset)),
                     PV("environment.depth.belowSurface",
                        Metres(Plus(depth, offset)))>>
              ELSE IF Positive(Times(offset, -1))
              THEN <<PV("environment.depth.transducerToKeel",
                        Metres(Times(offset, -1))),
                     PV("environment.depth.belowKeel",
                        Metres(Plus(depth, offset)))>>
              ELSE <<>>))

MTW(p, stamp) ==
    Delta(stamp, <<PV("environment.water.temperature",
                    Measure(float(At(p, 0)), 1, "c", "k"))>>)

VDR(p, stamp) ==
    Delta(stamp, <<PV("environment.current",
        [setTrue |-> Deg(float(At(p, 0))), setMagnetic |-> Deg(float(At(p, 2))),
         drift |-> Knots(float(At(p, 4)))])>>)

RPM(p, stamp) ==
    IF At(p, 0) = Undefined THEN Throw
    ELSE Delta(stamp, <<PV("propulsion."
             \o (IF Upper(At(p, 0), "S") THEN "shaft" ELSE "engine")
             \o "_" \o At(p, 1).s \o ".revolutions",
             Measure(float(At(p, 2)), 60, "1", "Hz"))>>)

\* NKE: the sentence number is p[0]; any other leaves delta undefined
KEP(p, stamp) ==
    LET course == Deg(ZeroUnlessPositive(float(At(p, 1)))) IN
    CASE At(p, 0) = Text("01") /\ ~(At(p, 1) = Empty /\ At(p, 3) = Empty) ->
           Delta(stamp, <<PV("performance.targetSpeed",
                           SpeedOf(At(p, 1), At(p, 2), At(p, 3), At(p, 4)))>>)
      [] At(p, 0) = Text("02") /\ At(p, 1) # Empty ->
           Delta(stamp, <<PV("performance.tackMagnetic", course)>>)
      [] At(p, 0) = Text("03") /\ At(p, 1) # Empty ->
           Delta(stamp, <<PV("performance.targetAngle", course)>>)
      [] OTHER -> Null

-----------------------------------------------------------------------------
(* Other ships *)

\* The sender, of the field mmsi + "0"
Vessel(mmsi) == "vessels." \o mmsi

\* One field holds the quadrant, the latitude and the longitude
IsQuadrantField(f) == DOMAIN f = {"quadrant", "lat", "lon"}

parsePosition(f) ==
    IF ~IsQuadrantField(f) THEN Position(NaN, NaN)
    ELSE Position({IF f.quadrant \in {2, 3} THEN -f.lat ELSE f.lat},
                  {IF f.quadrant \in {1, 3} THEN -f.lon ELSE f.lon})

NatureOfDistress ==
    ("00" :> "fire" @@ "01" :> "flooding" @@ "02" :> "collision"
  @@ "03" :> "grounding" @@ "04" :> "listing" @@ "05" :> "sinking"
  @@ "06" :> "adrift" @@ "07" :> "undesignated" @@ "08" :> "abandon"
  @@ "09" :> "piracy" @@ "10" :> "mob" @@ "12" :> "epirb")

\* A category that is not handled is reported with a variable nobody declared
DSC(p, stamp) ==
    LET routine  == At(p, 2) = Text("00") /\ At(p, 3) = Text("21")
        distress == At(p, 2) = Text("12")
        nature   == IF At(p, 3).s \in DOMAIN NatureOfDistress
                    THEN NatureOfDistress[At(p, 3).s] ELSE "unassigned"
    IN  CASE EmptyFields(p) > 3 -> Null
          [] EmptyFields(p) =< 3 /\ (~(routine \/ distress)
                                     \/ At(p, 5) = Undefined) -> Throw
          [] OTHER -> DeltaOf(Vessel(At(p, 1).s), stamp,
                 <<PV("navigation.position", parsePosition(At(p, 5)))>>
              \o When(distress, PV("notifications." \o nature, Text(nature))))
=============================================================================
