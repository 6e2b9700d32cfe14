----------------------------- MODULE NmeaProofs ------------------------------
(***************************************************************************)
(* The results of all hooks and datagrams have their types, and what the   *)
(* server shows follows the fixes and rudder angles that arrive: for every *)
(* set of sentences of a ship.  What a sentence says is in                 *)
(* NmeaReadingProofs.                                                      *)
(***************************************************************************)
EXTENDS NmeaShip, FiniteSetTheorems, SequenceTheorems,
        WellFoundedInduction, TLAPS

LEMMA LessIsWellFounded ==
  IsWellFoundedOn({pair \in Nat \X Nat : pair[1] < pair[2]}, Nat)
BY NatLessThanWellFounded DEF OpToRel

(* A set of places that is not empty has a last one. *)
LEMMA LastPlace ==
  ASSUME NEW n \in Nat, NEW S \in SUBSET (0 .. n), S # {}
  PROVE  \E i \in S : \A j \in S : j =< i
<1> DEFINE Behind == {n - i : i \in S}
           Less   == {pair \in Nat \X Nat : pair[1] < pair[2]}
<1>1. \A i \in S : i \in Nat /\ i =< n /\ n - i \in Nat
  OBVIOUS
<1>2. Behind \subseteq Nat /\ Behind # {}
  <2>1. \A x \in Behind : x \in Nat
    BY <1>1
  <2>2. PICK i \in 0 .. n : i \in S
    OBVIOUS
  <2>3. n - i \in Behind
    BY <2>2
  <2> QED
    BY <2>1, <2>3
<1>3. PICK b \in Behind : \A c \in Behind : <<c, b>> \notin Less
  <2>1. IsWellFoundedOn(Less, Nat)
    BY LessIsWellFounded
  <2> HIDE DEF Behind, Less
  <2> QED
    BY <1>2, <2>1, WFMin
<1>4. ASSUME NEW c \in Behind PROVE b =< c
  <2>1. b \in Nat /\ c \in Nat
    BY <1>2
  <2>2. c < b => <<c, b>> \in Less
    BY <2>1
  <2> QED
    BY <1>3, <2>1, <2>2
<1>5. PICK i \in S : b = n - i
  OBVIOUS
<1>6. ASSUME NEW j \in S PROVE j =< i
  <2>1. n - j \in Behind
    OBVIOUS
  <2>2. n - i =< n - j
    BY <1>4, <1>5, <2>1
  <2> QED
    BY <1>1, <2>2
<1> QED
  BY <1>6

(* Each sentence is handed to the hook of its name. *)
LEMMA Dispatch ==
  ASSUME NEW m, NEW stamp, NEW now
  PROVE  /\ m.id = "ALK" => RunHook(m, stamp, now) = ALK(m.parts, stamp)
         /\ m.id = "APB" => RunHook(m, stamp, now) = APB(m.parts, stamp)
         /\ m.id = "DBT" => RunHook(m, stamp, now) = DBT(m.parts, stamp)
         /\ m.id = "DPT" => RunHook(m, stamp, now) = DPT(m.parts, stamp)
         /\ m.id = "DSC" => RunHook(m, stamp, now) = DSC(m.parts, stamp)
         /\ m.id = "GGA" => RunHook(m, stamp, now) = GGA(m.parts, now)
         /\ m.id = "GLL" => RunHook(m, stamp, now) = GLL(m.parts, now)
         /\ m.id = "HDG" => RunHook(m, stamp, now) = HDG(m.parts, stamp)
         /\ m.id = "HDM" => RunHook(m, stamp, now) = HDM(m.parts, stamp)
         /\ m.id = "HDT" => RunHook(m, stamp, now) = HDT(m.parts, stamp)
         /\ m.id = "KEP" => RunHook(m, stamp, now) = KEP(m.parts, stamp)
         /\ m.id = "MTW" => RunHook(m, stamp, now) = MTW(m.parts, stamp)
         /\ m.id = "MWV" => RunHook(m, stamp, now) = MWV(m.parts, stamp)
         /\ m.id = "RMB" => RunHook(m, stamp, now) = RMB(m.parts, stamp)
         /\ m.id = "RMC" => RunHook(m, stamp, now) = RMC(m.parts, now)
         /\ m.id = "ROT" => RunHook(m, stamp, now) = ROT(m.parts, stamp)
         /\ m.id = "RPM" => RunHook(m, stamp, now) = RPM(m.parts, stamp)
         /\ m.id \in {"VDM", "VDO"} => RunHook(m, stamp, now) = VDM(m, stamp)
         /\ m.id = "VDR" => RunHook(m, stamp, now) = VDR(m.parts, stamp)
         /\ m.id = "VHW" => RunHook(m, stamp, now) = VHW(m.parts, stamp)
         /\ m.id = "VPW" => RunHook(m, stamp, now) = VPW(m.parts, stamp)
         /\ m.id = "VTG" => RunHook(m, stamp, now) = VTG(m.parts, stamp)
         /\ m.id = "VWR" => RunHook(m, stamp, now) = VWR(m.parts, stamp)
         /\ m.id = "ZDA" => RunHook(m, stamp, now) = ZDA(m.parts, stamp)
  BY DEF RunHook

(* What is sent for a sentence: nothing, or the source and the values of the
   delta that its hook makes of it, as values of the own vessel. *)
LEMMA Answers ==
  ASSUME NEW m, NEW now
  PROVE  LET result == RunHook(m, now, now)
             kvs    == Answer(m, now)
         IN  IF m.lead = "$" /\ m.id \in Supported /\ result.kind = "delta"
             THEN /\ DOMAIN kvs = {0} \cup Sendable(result.values)
                  /\ /\ kvs[0].context = "sources" /\ kvs[0].path = "NMEA0183"
                     /\ kvs[0].stamp = now /\ DOMAIN kvs[0].value = {"sentence", "talker"}
                  /\ \A i \in Sendable(result.values) \ {0} :
                        /\ kvs[i].context = Own
                        /\ kvs[i].path = result.values[i].path
                        /\ kvs[i].value = result.values[i].value
                        /\ kvs[i].stamp = IF Demo THEN now ELSE result.stamp
             ELSE kvs = <<>>
<1> DEFINE result == RunHook(m, now, now)
           tags   == getTagBlock(m)
           parsed == transformSource(result, m, tags.s)
<1>1. CASE m.lead = "$" /\ m.id \in Supported /\ result.kind = "delta"
  <2>1. parse(m, now) = parsed
    BY <1>1 DEF parse, getTagBlock
  <2>2. /\ parsed.kind = "delta" /\ parsed.context = result.context
        /\ parsed.stamp = result.stamp /\ parsed.values = result.values
        /\ DOMAIN parsed.source = {"sentence", "talker"}
    BY <1>1 DEF transformSource
  <2>3. Answer(m, now)
          = parseUpdate(parsed, Own, IF Demo THEN now ELSE parsed.stamp, now)
    BY <1>1, <2>1, <2>2 DEF Answer, KvMessages
  <2> HIDE DEF parsed, tags
  <2> QED
    BY <1>1, <2>2, <2>3 DEF parseUpdate, convertSource
<1>2. CASE ~(m.lead = "$" /\ m.id \in Supported /\ result.kind = "delta")
  <2>1. CASE m.lead = "$" /\ m.id \in Supported
    <3>1. parse(m, now) = result
      BY <1>2, <2>1 DEF parse, getTagBlock, transformSource
    <3> QED
      BY <1>2, <2>1, <3>1 DEF Answer
  <2>2. CASE m.lead # "$"
    BY <2>2 DEF Answer
  <2>3. CASE m.lead = "$" /\ m.id \notin Supported
    BY <2>3 DEF Answer, parse
  <2> QED
    BY <2>1, <2>2, <2>3
<1> QED
  BY <1>1, <1>2

-----------------------------------------------------------------------------
(* Fields and numbers *)

(* What a hook reads: a field, or what is beyond the last one. *)
Read == Field \cup {Undefined}

LEMMA FieldType ==
  ASSUME NEW p \in Seq(Field), NEW i \in Nat
  PROVE  At(p, i) \in Read
BY DEF At, Read

LEMMA NumericField ==
  ASSUME NEW f \in Read, IsNumeric(f)
  PROVE  f.n \in Int /\ f = Num(f.n)
BY DEF Read, Field, IsNumeric, Num, Undefined, Text

LEMMA FloatType == ASSUME NEW f \in Read PROVE IsNumber(float(f))
<1>1. IsNumeric(f) => f.n \in Int
  BY NumericField
<1> QED
  BY <1>1 DEF float, NaN, IsNumber

(* A number is NaN or the set of one integer. *)
LEMMA SingleNumber == ASSUME NEW n \in Int PROVE IsNumber({n})
BY DEF IsNumber

LEMMA NotANumber == IsNumber({})
BY DEF IsNumber

LEMMA NumberCases ==
  ASSUME NEW x, IsNumber(x)
  PROVE  x = {} \/ \E v \in Int : x = {v}
BY DEF IsNumber

(* What is calculated from one number is one number, and NaN from NaN. *)
LEMMA TimesType ==
  ASSUME NEW x, NEW k \in Int, IsNumber(x) PROVE IsNumber(Times(x, k))
<1>1. x = {} => Times(x, k) = {}
  BY DEF Times
<1>2. \A v \in Int : x = {v} => Times(x, k) = {v * k} /\ v * k \in Int
  BY DEF Times
<1> QED
  BY <1>1, <1>2, NumberCases, SingleNumber, NotANumber

LEMMA PlusType ==
  ASSUME NEW x, NEW y, IsNumber(x), IsNumber(y) PROVE IsNumber(Plus(x, y))
<1>1. x = {} \/ y = {} => Plus(x, y) = {}
  BY DEF Plus
<1>2. \A v, w \in Int : x = {v} /\ y = {w} => Plus(x, y) = {v + w} /\ v + w \in Int
  BY DEF Plus
<1> QED
  BY <1>1, <1>2, NumberCases, SingleNumber, NotANumber

LEMMA FallbackType ==
  ASSUME NEW x, IsNumber(x)
  PROVE  IsNumber(ZeroIfNaN(x)) /\ IsNumber(ZeroUnlessPositive(x))
BY DEF IsNumber, ZeroIfNaN, ZeroUnlessPositive

LEMMA WindAngleType ==
  ASSUME NEW x, IsNumber(x) PROVE IsNumber(WindAngle360(x))
<1> DEFINE rest(v) == IF v >= 0 THEN v % 360 ELSE -((-v) % 360)
<1>1. \A v \in x : v \in Int /\ rest(v) \in Int
  BY DEF IsNumber
<1> HIDE DEF rest
<1>2. \A v \in x : (IF rest(v) > 180 THEN rest(v) - 360 ELSE rest(v)) \in Int
  BY <1>1
<1>3. WindAngle360(x) = {IF rest(v) > 180 THEN rest(v) - 360 ELSE rest(v) : v \in x}
  BY DEF WindAngle360, rest
<1> QED
  BY <1>2, <1>3 DEF IsNumber

LEMMA CoordinateType ==
  ASSUME NEW f \in Read, NEW pole PROVE IsNumber(coordinate(f, pole))
<1>1. IsNumeric(f) => f.n \in Int /\ -f.n \in Int
  BY NumericField
<1> QED
  BY <1>1 DEF coordinate, NaN, IsNumber

(* A value with a unit has one amount or none. *)
GoodValue(v) == IsMeasure(v) => IsNumber(v.amount)

LEMMA GoodMeasure ==
  ASSUME NEW x, NEW over, NEW from, NEW to, IsNumber(x)
  PROVE  GoodValue(Measure(x, over, from, to))
BY DEF GoodValue, Measure

LEMMA GoodOthers ==
  /\ \A lat, lon : GoodValue(Position(lat, lon))
  /\ \A s : GoodValue(Text(s))
  /\ \A a, b, c : GoodValue([setTrue |-> a, setMagnetic |-> b, drift |-> c])
BY DEF GoodValue, IsMeasure, Measures, Position, Text

(* A hook returns null, throws, or makes a delta of the times T. *)
Sound(result, T) ==
    /\ result.kind \in {"delta", "null", "throw"}
    /\ result.kind = "delta" =>
          /\ result.stamp \in T
          /\ \E n \in Nat : DOMAIN result.values \subseteq 1 .. n
          /\ \A i \in DOMAIN result.values : GoodValue(result.values[i].value)

LEMMA SoundNothing == ASSUME NEW T PROVE Sound(Null, T) /\ Sound(Throw, T)
BY DEF Sound, Null, Throw

LEMMA SoundDelta ==
  ASSUME NEW T, NEW context, NEW stamp \in T, NEW S, NEW values \in Seq(S),
         \A pv \in S : GoodValue(pv.value)
  PROVE  Sound(DeltaOf(context, stamp, values), T)
<1>1. DOMAIN values = 1 .. Len(values) /\ Len(values) \in Nat
  OBVIOUS
<1>2. \A i \in DOMAIN values : values[i] \in S
  OBVIOUS
<1> QED
  BY <1>1, <1>2 DEF Sound, DeltaOf

LEMMA WhenSeq ==
  ASSUME NEW condition, NEW pv, NEW S, condition => pv \in S
  PROVE  When(condition, pv) \in Seq(S)
BY DEF When

LEMMA SoundOne ==
  ASSUME NEW T, NEW stamp \in T, NEW path, NEW value, GoodValue(value)
  PROVE  Sound(Delta(stamp, <<PV(path, value)>>), T)
<1> DEFINE S == {PV(path, value)}
<1>1. <<PV(path, value)>> \in Seq(S)
  OBVIOUS
<1>2. \A pv \in S : GoodValue(pv.value)
  BY DEF PV
<1> HIDE DEF S
<1> QED
  BY <1>1, <1>2, SoundDelta DEF Delta

LEMMA SoundTwo ==
  ASSUME NEW T, NEW stamp \in T, NEW path1, NEW path2, NEW value1, NEW value2,
         GoodValue(value1), GoodValue(value2)
  PROVE  Sound(Delta(stamp, <<PV(path1, value1), PV(path2, value2)>>), T)
<1> DEFINE S == {PV(path1, value1), PV(path2, value2)}
<1>1. <<PV(path1, value1), PV(path2, value2)>> \in Seq(S)
  OBVIOUS
<1>2. \A pv \in S : GoodValue(pv.value)
  BY DEF PV
<1> HIDE DEF S
<1> QED
  BY <1>1, <1>2, SoundDelta DEF Delta

LEMMA FieldNumber ==
  ASSUME NEW p \in Seq(Field), NEW i \in Nat
  PROVE  IsNumber(float(At(p, i)))
BY FieldType, FloatType

-----------------------------------------------------------------------------
(* The hooks of one or two values *)

LEMMA OneNumberSound ==
  ASSUME NEW p \in Seq(Field), NEW T, NEW stamp \in T
  PROVE  /\ Sound(HDT(p, stamp), T)
         /\ Sound(HDM(p, stamp), T)
         /\ Sound(DBT(p, stamp), T)
         /\ Sound(MTW(p, stamp), T)
         /\ Sound(ROT(p, stamp), T)
<1>1. \A over, from, to : \A i \in Nat : GoodValue(Measure(float(At(p, i)), over, from, to))
  BY FieldNumber, GoodMeasure
<1>2. Sound(HDT(p, stamp), T) /\ Sound(HDM(p, stamp), T)
  BY <1>1, SoundOne, SoundNothing DEF HDT, HDM, OneNumber, Deg
<1>3. Sound(DBT(p, stamp), T) /\ Sound(MTW(p, stamp), T) /\ Sound(ROT(p, stamp), T)
  BY <1>1, SoundOne, SoundNothing DEF DBT, MTW, ROT, OneNumber
<1> QED
  BY <1>2, <1>3

LEMMA RPMSound ==
  ASSUME NEW p \in Seq(Field), NEW T, NEW stamp \in T
  PROVE  Sound(RPM(p, stamp), T)
<1>1. GoodValue(Measure(float(At(p, 2)), 60, "1", "Hz"))
  BY FieldNumber, GoodMeasure
<1> QED
  BY <1>1, SoundOne, SoundNothing DEF RPM

LEMMA SpeedOfType ==
  ASSUME NEW p \in Seq(Field), NEW i \in Nat, NEW N, NEW j \in Nat, NEW K
  PROVE  GoodValue(SpeedOf(At(p, i), N, At(p, j), K))
<1>1. GoodValue(Knots(float(At(p, i)))) /\ GoodValue(Measure(float(At(p, j)), 1, "kph", "ms"))
  BY FieldNumber, GoodMeasure DEF Knots
<1>2. GoodValue(Measure({0}, 1, "ms", "ms"))
  BY SingleNumber, GoodMeasure
<1> QED
  BY <1>1, <1>2 DEF SpeedOf

LEMMA KEPSound ==
  ASSUME NEW p \in Seq(Field), NEW T, NEW stamp \in T
  PROVE  Sound(KEP(p, stamp), T)
<1> DEFINE course == Deg(ZeroUnlessPositive(float(At(p, 1))))
<1>1. GoodValue(course)
  BY FieldNumber, FallbackType, GoodMeasure DEF Deg
<1>2. GoodValue(SpeedOf(At(p, 1), At(p, 2), At(p, 3), At(p, 4)))
  BY SpeedOfType
<1> HIDE DEF course
<1>3. \A path : /\ Sound(Delta(stamp, <<PV(path, course)>>), T)
                /\ Sound(Delta(stamp, <<PV(path, SpeedOf(At(p, 1), At(p, 2), At(p, 3),
                                                          At(p, 4)))>>), T)
  BY <1>1, <1>2, SoundOne
<1> QED
  BY <1>3, SoundNothing DEF KEP, course

LEMMA VPWSound ==
  ASSUME NEW p \in Seq(Field), NEW T, NEW stamp \in T
  PROVE  Sound(VPW(p, stamp), T)
<1>1. /\ GoodValue(Measure(float(At(p, 2)), 1, "ms", "ms"))
      /\ GoodValue(Knots(float(At(p, 0))))
  BY FieldNumber, GoodMeasure DEF Knots
<1> QED
  BY <1>1, SoundOne, SoundNothing DEF VPW

LEMMA VDRSound ==
  ASSUME NEW p \in Seq(Field), NEW T, NEW stamp \in T
  PROVE  Sound(VDR(p, stamp), T)
BY GoodOthers, SoundOne DEF VDR

LEMMA WindSound ==
  ASSUME NEW p \in Seq(Field), NEW T, NEW stamp \in T
  PROVE  Sound(MWV(p, stamp), T) /\ Sound(VWR(p, stamp), T)
<1>1. \A over, from, to : \A i \in Nat : GoodValue(Measure(float(At(p, i)), over, from, to))
  BY FieldNumber, GoodMeasure
<1>2. Sound(MWV(p, stamp), T)
  <2>1. GoodValue(Deg(WindAngle360(float(At(p, 0)))))
    BY FieldNumber, WindAngleType, GoodMeasure DEF Deg
  <2> QED
    BY <1>1, <2>1, SoundTwo, SoundNothing DEF MWV
<1>3. Sound(VWR(p, stamp), T)
  <2>1. \A k \in Int : GoodValue(Deg(Times(float(At(p, 0)), k)))
    BY FieldNumber, TimesType, GoodMeasure DEF Deg
  <2> DEFINE rightPositive == IF Upper(At(p, 1), "R") THEN 1
                              ELSE IF Upper(At(p, 1), "L") THEN -1 ELSE 0
  <2>2. rightPositive \in Int
    OBVIOUS
  <2>3. GoodValue(Deg(Times(float(At(p, 0)), rightPositive)))
    BY <2>1, <2>2
  <2>4. GoodValue(Knots(float(At(p, 2))))
    BY <1>1 DEF Knots
  <2> HIDE DEF rightPositive
  <2> QED
    BY <2>3, <2>4, SoundTwo, SoundNothing DEF VWR, rightPositive
<1> QED
  BY <1>2, <1>3

LEMMA EmptyFieldsType == ASSUME NEW p \in Seq(Field) PROVE EmptyFields(p) \in Nat
<1> DEFINE empty == {i \in DOMAIN p : isEmpty(p[i])}
<1>1. DOMAIN p = 1 .. Len(p) /\ Len(p) \in Nat
  OBVIOUS
<1>2. IsFiniteSet(1 .. Len(p)) /\ empty \subseteq 1 .. Len(p)
  BY <1>1, FS_Interval
<1> HIDE DEF empty
<1>3. Cardinality(empty) \in Nat
  BY <1>2, FS_Subset, FS_CardinalityType
<1> QED
  BY <1>3 DEF EmptyFields, empty

LEMMA ZDASound ==
  ASSUME NEW p \in Seq(Field), NEW T, NEW stamp \in T
  PROVE  Sound(ZDA(p, stamp), T)
<1> DEFINE dated == (\A i \in 0..3 : IsNumeric(At(p, i))) /\ EmptyFields(p) < 3
           time  == {At(p, 1).n * DayTicks + At(p, 0).n}
<1>1. CASE ZDA(p, stamp) \in {Null, Throw}
  BY <1>1, SoundNothing
<1>2. CASE dated
  <2>1. DayTicks \in Int /\ At(p, 1).n \in Int /\ At(p, 0).n \in Int
    BY <1>2, FieldType, NumericField, TicksAssumption
  <2>2. GoodValue(Measure(time, 1, "s", "s"))
    BY <2>1, SingleNumber, GoodMeasure
  <2> QED
    BY <2>2, SoundOne, SoundNothing DEF ZDA
<1> QED
  BY <1>1, <1>2, EmptyFieldsType DEF ZDA

-----------------------------------------------------------------------------
(* The hooks of several values *)

LEMMA VTGSound ==
  ASSUME NEW p \in Seq(Field), NEW T, NEW stamp \in T
  PROVE  Sound(VTG(p, stamp), T)
<1> DEFINE a == PV("navigation.courseOverGroundMagnetic", Deg(float(At(p, 2))))
           b == PV("navigation.courseOverGroundTrue", Deg(float(At(p, 0))))
           c == PV("navigation.speedOverGround",
                   SpeedOf(At(p, 4), At(p, 5), At(p, 6), At(p, 7)))
           S == {a, b, c}
<1>1. GoodValue(a.value) /\ GoodValue(b.value) /\ GoodValue(c.value)
  BY FieldNumber, GoodMeasure, SpeedOfType DEF PV, Deg
<1>2. VTG(p, stamp) = Null \/ VTG(p, stamp) = Delta(stamp, <<a, b, c>>)
  BY DEF VTG
<1> HIDE DEF a, b, c
<1>3. <<a, b, c>> \in Seq(S)
  OBVIOUS
<1>4. \A pv \in S : GoodValue(pv.value)
  BY <1>1
<1> HIDE DEF S
<1> QED
  BY <1>2, <1>3, <1>4, SoundDelta, SoundNothing DEF Delta

LEMMA VHWSound ==
  ASSUME NEW p \in Seq(Field), NEW T, NEW stamp \in T
  PROVE  Sound(VHW(p, stamp), T)
<1> DEFINE a == PV("navigation.headingTrue", Deg(float(At(p, 0))))
           b == PV("navigation.headingMagnetic", Deg(float(At(p, 2))))
           c == PV("navigation.speedThroughWater", Knots(float(At(p, 4))))
           S == {a, b, c}
           values == When(At(p, 0) # Empty, a) \o When(At(p, 2) # Empty, b)
                     \o When(At(p, 4) # Empty, c)
<1>1. GoodValue(a.value) /\ GoodValue(b.value) /\ GoodValue(c.value)
  BY FieldNumber, GoodMeasure DEF PV, Deg, Knots
<1>2. VHW(p, stamp) = Delta(stamp, values)
  BY DEF VHW
<1> HIDE DEF a, b, c
<1>3. values \in Seq(S)
  BY WhenSeq, ConcatProperties
<1>4. \A pv \in S : GoodValue(pv.value)
  BY <1>1
<1> HIDE DEF S, values
<1> QED
  BY <1>2, <1>3, <1>4, SoundDelta DEF Delta

LEMMA HDGSound ==
  ASSUME NEW p \in Seq(Field), NEW T, NEW stamp \in T
  PROVE  Sound(HDG(p, stamp), T)
<1> DEFINE a == PV("navigation.headingMagnetic", Deg(float(At(p, 0))))
           b == PV("navigation.magneticVariation",
                   Deg(Times(float(At(p, 3)), IF At(p, 4) = Text("E") THEN 1 ELSE -1)))
           S == {a, b}
           values == When(~isEmpty(At(p, 0)), a)
                     \o When(~(isEmpty(At(p, 3)) \/ isEmpty(At(p, 4))), b)
<1>1. GoodValue(a.value) /\ GoodValue(b.value)
  BY FieldNumber, TimesType, GoodMeasure DEF PV, Deg
<1>2. HDG(p, stamp) = Null \/ HDG(p, stamp) = Delta(stamp, values)
  BY DEF HDG
<1> HIDE DEF a, b
<1>3. values \in Seq(S)
  BY WhenSeq, ConcatProperties
<1>4. \A pv \in S : GoodValue(pv.value)
  BY <1>1
<1> HIDE DEF S, values
<1> QED
  BY <1>2, <1>3, <1>4, SoundDelta, SoundNothing DEF Delta

LEMMA DPTSound ==
  ASSUME NEW p \in Seq(Field), NEW T, NEW stamp \in T
  PROVE  Sound(DPT(p, stamp), T)
<1> DEFINE Metre(x) == Measure(x, 1, "m", "m")
           depth  == float(At(p, 0))
           offset == float(At(p, 1))
           a == PV("environment.depth.belowTransducer", Metre(depth))
           b == PV("environment.depth.surfaceToTransducer", Metre(offset))
           c == PV("environment.depth.belowSurface", Metre(Plus(depth, offset)))
           d == PV("environment.depth.transducerToKeel", Metre(Times(offset, -1)))
           e == PV("environment.depth.belowKeel", Metre(Plus(depth, offset)))
           S == {a, b, c, d, e}
           values == <<a>> \o (IF Positive(offset) THEN <<b, c>>
                               ELSE IF Positive(Times(offset, -1)) THEN <<d, e>>
                               ELSE <<>>)
<1>1. IsNumber(depth) /\ IsNumber(offset)
  BY FieldNumber
<1>2. IsNumber(Plus(depth, offset)) /\ IsNumber(Times(offset, -1))
  BY <1>1, PlusType, TimesType
<1>3. \A pv \in S : GoodValue(pv.value)
  BY <1>1, <1>2, GoodMeasure DEF PV
<1>4. DPT(p, stamp) = Null \/ DPT(p, stamp) = Delta(stamp, values)
  BY DEF DPT
<1> HIDE DEF a, b, c, d, e, offset
<1>5. values \in Seq(S)
  <2>1. <<a>> \in Seq(S) /\ <<b, c>> \in Seq(S) /\ <<d, e>> \in Seq(S) /\ <<>> \in Seq(S)
    OBVIOUS
  <2> HIDE DEF S
  <2> QED
    BY <2>1, ConcatProperties
<1> HIDE DEF S, values
<1> QED
  BY <1>3, <1>4, <1>5, SoundDelta, SoundNothing DEF Delta

LEMMA RMBSound ==
  ASSUME NEW p \in Seq(Field), NEW T, NEW stamp \in T
  PROVE  Sound(RMB(p, stamp), T)
<1> DEFINE offset == ZeroIfNaN(float(At(p, 1)))
           path   == "navigation.courseRhumbline.nextPoint"
           a == PV(path, PositionAt(p, 5))
           b == PV(path \o ".bearingTrue", Deg(ZeroIfNaN(float(At(p, 10)))))
           c == PV(path \o ".velocityMadeGood",
                   Knots(ZeroUnlessPositive(float(At(p, 11)))))
           d == PV(path \o ".distance",
                   Measure(ZeroIfNaN(float(At(p, 9))), 1, "nm", "m"))
           e == PV("navigation.courseRhumbline.crossTrackError",
                   Measure(IF At(p, 2) = Text("R") THEN offset
                           ELSE Times(offset, -1), 1, "nm", "m"))
           S == {a, b, c, d, e}
<1>1. \A i \in Nat : /\ IsNumber(ZeroIfNaN(float(At(p, i))))
                     /\ IsNumber(ZeroUnlessPositive(float(At(p, i))))
  BY FieldNumber, FallbackType
<1>2. IsNumber(offset) /\ IsNumber(Times(offset, -1))
  BY <1>1, TimesType
<1> HIDE DEF offset
<1>3. GoodValue(a.value) /\ GoodValue(b.value) /\ GoodValue(c.value)
  BY <1>1, GoodMeasure, GoodOthers DEF PV, PositionAt, Deg, Knots
<1>4. GoodValue(d.value) /\ GoodValue(e.value)
  BY <1>1, <1>2, GoodMeasure DEF PV
<1>5. RMB(p, stamp) \in {Null, Throw, Delta(stamp, <<a, b, c, d, e>>)}
  BY DEF RMB, offset
<1> HIDE DEF a, b, c, d, e
<1>6. <<a, b, c, d, e>> \in Seq(S)
  OBVIOUS
<1>7. \A pv \in S : GoodValue(pv.value)
  BY <1>3, <1>4
<1> HIDE DEF S
<1> QED
  BY <1>5, <1>6, <1>7, SoundDelta, SoundNothing DEF Delta

LEMMA DSCSound ==
  ASSUME NEW p \in Seq(Field), NEW T, NEW stamp \in T
  PROVE  Sound(DSC(p, stamp), T)
<1> DEFINE distress == At(p, 2) = Text("12")
           nature   == IF At(p, 3).s \in DOMAIN NatureOfDistress
                       THEN NatureOfDistress[At(p, 3).s] ELSE "unassigned"
           a == PV("navigation.position", parsePosition(At(p, 5)))
           b == PV("notifications." \o nature, Text(nature))
           S == {a, b}
           values == <<a>> \o When(distress, b)
<1>1. DSC(p, stamp) \in {Null, Throw, DeltaOf(Vessel(At(p, 1).s), stamp, values)}
  BY EmptyFieldsType DEF DSC
<1>2. GoodValue(a.value) /\ GoodValue(b.value)
  BY GoodOthers DEF PV, parsePosition
<1> HIDE DEF a, b, nature
<1>3. values \in Seq(S)
  <2>1. <<a>> \in Seq(S) /\ When(distress, b) \in Seq(S)
    BY WhenSeq
  <2> QED
    BY <2>1, ConcatProperties
<1>4. \A pv \in S : GoodValue(pv.value)
  BY <1>2
<1> HIDE DEF S, values
<1> QED
  BY <1>1, <1>3, <1>4, SoundDelta, SoundNothing

(* An AIS message is never sent on, but its hook returns as the others do. *)
LEMMA VDMKind ==
  ASSUME NEW m, NEW stamp PROVE VDM(m, stamp).kind \in {"delta", "null", "throw"}
BY DEF VDM, Null, Throw, DeltaOf

-----------------------------------------------------------------------------
(* Seatalk datagrams *)

LEMMA ByteType ==
  ASSUME NEW p \in Seq(Field), NEW i \in Nat PROVE IsNumber(Byte(p, i))
<1>1. IsNumeric(At(p, i)) => At(p, i).n \in Int
  BY FieldType, NumericField
<1> QED
  BY <1>1, SingleNumber, NotANumber DEF Byte, NaN

LEMMA BitsType ==
  ASSUME NEW x, IsNumber(x)
  PROVE  /\ IsNumber(Low(x, 2)) /\ IsNumber(Low(x, 4)) /\ IsNumber(Low(x, 6))
         /\ IsNumber(Low(x, 7)) /\ IsNumber(Low(x, 15))
         /\ IsNumber(High(x, 2)) /\ IsNumber(High(x, 4))
<1>1. PICK v \in Int : Int32(x) = {v}
  BY NumberCases DEF Int32, ZeroIfNaN, NaN
<1>2. /\ Low(x, 2) = {v % 4} /\ Low(x, 4) = {v % 16} /\ Low(x, 6) = {v % 64}
      /\ Low(x, 7) = {v % 128} /\ Low(x, 15) = {v % 32768}
  BY <1>1 DEF Low
<1>3. High(x, 2) = {v \div 4} /\ High(x, 4) = {v \div 16}
  BY <1>1 DEF High
<1>4. /\ v % 4 \in Int /\ v % 16 \in Int /\ v % 64 \in Int /\ v % 128 \in Int
      /\ v % 32768 \in Int /\ v \div 4 \in Int /\ v \div 16 \in Int
  OBVIOUS
<1> QED
  BY <1>2, <1>3, <1>4, SingleNumber

LEMMA DigitsType ==
  ASSUME NEW x, IsNumber(x)
  PROVE  /\ IsNumber(Digit0(x)) /\ IsNumber(Digit1(x)) /\ IsNumber(Signed(x))
<1>1. CASE x = {}
  <2>1. Digit0(x) = {} /\ Digit1(x) = {} /\ Signed(x) = {}
    BY <1>1 DEF Digit0, Digit1, Signed
  <2> QED
    BY <2>1, NotANumber
<1>2. ASSUME NEW v \in Int, x = {v}
      PROVE  /\ IsNumber(Digit0(x)) /\ IsNumber(Digit1(x)) /\ IsNumber(Signed(x))
  <2>1. /\ Digit0(x) = {v \div 16} /\ Digit1(x) = {v % 16}
        /\ Signed(x) = {IF v > 127 THEN v - 256 ELSE v}
    BY <1>2 DEF Digit0, Digit1, Signed
  <2>2. /\ v \div 16 \in Int /\ v % 16 \in Int
        /\ (IF v > 127 THEN v - 256 ELSE v) \in Int
    OBVIOUS
  <2> QED
    BY <2>1, <2>2, SingleNumber
<1> QED
  BY <1>1, <1>2, NumberCases

LEMMA WordType ==
  ASSUME NEW p \in Seq(Field), NEW i \in Nat PROVE IsNumber(Word(p, i))
<1>1. IsNumber(Byte(p, i)) /\ IsNumber(Byte(p, i + 1))
  BY ByteType
<1>2. IsNumber(Times(Byte(p, i + 1), 256))
  BY <1>1, TimesType
<1> QED
  BY <1>1, <1>2, PlusType DEF Word

LEMMA SumType ==
  ASSUME NEW x, NEW y, NEW k \in Int, IsNumber(x), IsNumber(y)
  PROVE  IsNumber(Plus(x, Times(y, k))) /\ IsNumber(Plus(Times(y, k), x))
BY TimesType, PlusType

LEMMA OneValueDatagramsSound ==
  ASSUME NEW p \in Seq(Field), NEW T, NEW stamp \in T
  PROVE  /\ Sound(Depth(p, stamp), T)
         /\ Sound(WindAngle(p, stamp), T)
         /\ Sound(WindSpeed(p, stamp), T)
         /\ Sound(SpeedThroughWater(p, stamp), T)
         /\ Sound(TripMileage(p, stamp), T)
         /\ Sound(TotalMileage(p, stamp), T)
         /\ Sound(WaterTemperature(p, stamp), T)
         /\ Sound(SpeedOverGround(p, stamp), T)
         /\ Sound(Variation(p, stamp), T)
<1>1. \A path, x, over, from, to : IsNumber(x) =>
        Sound(Delta(stamp, <<PV(path, Measure(x, over, from, to))>>), T)
  BY SoundOne, GoodMeasure
<1>2. /\ IsNumber(Byte(p, 2)) /\ IsNumber(Byte(p, 3)) /\ IsNumber(Byte(p, 4))
      /\ IsNumber(Word(p, 2))
  BY ByteType, WordType
<1>3. /\ IsNumber(Low(Byte(p, 2), 7)) /\ IsNumber(Low(Byte(p, 4), 7))
      /\ IsNumber(LowNibble(Byte(p, 4)))
  BY <1>2, BitsType DEF LowNibble
<1>4. Sound(Depth(p, stamp), T)
  BY <1>1, <1>2, <1>3, SumType, SoundNothing DEF Depth
<1>5. Sound(WindAngle(p, stamp), T)
  <2> DEFINE half == Plus(Times(Byte(p, 2), 256), Byte(p, 3))
             wrap == {IF a > 360 THEN a - 720 ELSE a : a \in half}
  <2>1. IsNumber(half)
    BY <1>2, SumType
  <2> HIDE DEF half
  <2>2. half = {} => wrap = {}
    OBVIOUS
  <2>3. \A v \in Int : half = {v} => wrap = {IF v > 360 THEN v - 720 ELSE v}
                                     /\ (IF v > 360 THEN v - 720 ELSE v) \in Int
    OBVIOUS
  <2>4. IsNumber(wrap)
    BY <2>1, <2>2, <2>3, NumberCases, SingleNumber, NotANumber
  <2> QED
    BY <1>1, <2>4 DEF WindAngle, half
<1>6. Sound(WindSpeed(p, stamp), T)
  BY <1>1, <1>2, <1>3, SumType DEF WindSpeed
<1>7. Sound(SpeedThroughWater(p, stamp), T)
  BY <1>1, <1>2, <1>3, PlusType DEF SpeedThroughWater
<1>8. Sound(TripMileage(p, stamp), T) /\ Sound(TotalMileage(p, stamp), T)
  BY <1>1, <1>2, <1>3, SumType DEF TripMileage, TotalMileage, Miles
<1>9. Sound(WaterTemperature(p, stamp), T) /\ Sound(SpeedOverGround(p, stamp), T)
  <2>1. IsNumber({-100})
    BY SingleNumber
  <2> QED
    BY <1>1, <1>2, <2>1, PlusType DEF WaterTemperature, SpeedOverGround
<1>10. Sound(Variation(p, stamp), T)
  <2> DEFINE low   == Low(Byte(p, 2), 7)
             value == {128 - v : v \in low}
  <2>1. Variation(p, stamp) = Delta(stamp, <<PV("navigation.magneticVariation",
                  Deg(IF Bit(Byte(p, 2), 0) THEN value ELSE Times(value, -1)))>>)
    BY DEF Variation
  <2> HIDE DEF low
  <2>2. /\ low = {} => value = {}
        /\ \A v \in Int : low = {v} => value = {128 - v} /\ 128 - v \in Int
    <3>1. low = {} => value = {}
      OBVIOUS
    <3>2. ASSUME NEW v \in Int, low = {v} PROVE value = {128 - v} /\ 128 - v \in Int
      BY <3>2
    <3> QED
      BY <3>1, <3>2
  <2>3. IsNumber(value)
    <3>1. low = {} \/ \E v \in Int : low = {v}
      BY <1>3, NumberCases DEF low
    <3> HIDE DEF value
    <3> QED
      BY <2>2, <3>1, SingleNumber, NotANumber
  <2>4. IsNumber(Times(value, -1))
    BY <2>3, TimesType
  <2> HIDE DEF value
  <2>5. IsNumber(IF Bit(Byte(p, 2), 0) THEN value ELSE Times(value, -1))
    BY <2>3, <2>4
  <2> QED
    BY <1>1, <2>1, <2>5 DEF Deg
<1> QED
  BY <1>4, <1>5, <1>6, <1>7, <1>8, <1>9, <1>10

LEMMA AngleType ==
  ASSUME NEW p \in Seq(Field)
  PROVE  /\ IsNumber(Plus(Times(Byte(p, 2), 6000), Low(Word(p, 3), 15)))
         /\ IsNumber(Times(Plus(Times(Byte(p, 2), 6000), Low(Word(p, 3), 15)), -1))
<1>1. IsNumber(Byte(p, 2)) /\ IsNumber(Low(Word(p, 3), 15))
  BY ByteType, WordType, BitsType
<1> QED
  BY <1>1, SumType, TimesType

LEMMA HeadingType ==
  ASSUME NEW x, NEW y, IsNumber(x), IsNumber(y)
  PROVE  IsNumber(CompassHeading(Digit0(x), y))
<1> DEFINE U == Digit0(x)
<1>1. IsNumber(U)
  BY DigitsType
<1> HIDE DEF U
<1>2. IsNumber(Low(U, 2)) /\ IsNumber(Low(y, 6))
  BY <1>1, BitsType
<1>3. IsNumber(Times(Low(U, 2), 90)) /\ IsNumber(Times(Low(y, 6), 2))
  BY <1>2, TimesType
<1>4. IsNumber(HeadingBits(U))
  BY SingleNumber DEF HeadingBits
<1> QED
  BY <1>3, <1>4, PlusType DEF CompassHeading, U

LEMMA OtherDatagramsSound ==
  ASSUME NEW p \in Seq(Field), NEW T, NEW stamp \in T
  PROVE  /\ Sound(Latitude(p, stamp), T)
         /\ Sound(Longitude(p, stamp), T)
         /\ Sound(MagneticCourse(p, stamp), T)
         /\ Sound(Satellites(p, stamp), T)
         /\ Sound(TotalAndTrip(p, stamp), T)
         /\ Sound(SpeedAndAverage(p, stamp), T)
         /\ Sound(Time(p, stamp), T)
         /\ Sound(Date(p, stamp), T)
<1>1. Sound(Latitude(p, stamp), T) /\ Sound(Longitude(p, stamp), T)
  <2> DEFINE size == Plus(Times(Byte(p, 2), 6000), Low(Word(p, 3), 15))
             angle(sign) == Measure(IF sign THEN Times(size, -1) ELSE size, 6000, "deg", "deg")
             msb == Bit(Word(p, 3), 15)
  <2>1. /\ Latitude(p, stamp)
             = Delta(stamp, <<PV("navigation.position.latitude", angle(msb))>>)
        /\ Longitude(p, stamp)
             = Delta(stamp, <<PV("navigation.position.longitude", angle(~msb))>>)
    BY DEF Latitude, Longitude, Angle
  <2>2. IsNumber(size) /\ IsNumber(Times(size, -1))
    BY AngleType
  <2> HIDE DEF size, msb
  <2>3. GoodValue(angle(msb)) /\ GoodValue(angle(~msb))
    BY <2>2, GoodMeasure
  <2> HIDE DEF angle
  <2> QED
    BY <2>1, <2>3, SoundOne
<1>2. Sound(MagneticCourse(p, stamp), T)
  <2> DEFINE U == HighNibble(Byte(p, 1))
             course == Plus(Times(Low(U, 2), 720),
                            Plus(Times(Low(Byte(p, 2), 6), 16), Times(High(U, 2), 4)))
  <2>1. IsNumber(U) /\ IsNumber(Low(Byte(p, 2), 6))
    BY ByteType, BitsType DEF HighNibble
  <2> HIDE DEF U
  <2>2. /\ IsNumber(Times(Low(U, 2), 720)) /\ IsNumber(Times(High(U, 2), 4))
        /\ IsNumber(Times(Low(Byte(p, 2), 6), 16))
    BY <2>1, BitsType, TimesType
  <2>3. IsNumber(course)
    BY <2>2, PlusType
  <2>4. GoodValue(Measure(course, 8, "deg", "rad"))
    BY <2>3, GoodMeasure
  <2> QED
    BY <2>4, SoundOne DEF MagneticCourse, U
<1>3. Sound(Satellites(p, stamp), T)
  <2> DEFINE S  == HighNibble(Byte(p, 1))
             DD == IF S = {1} THEN {148} ELSE Byte(p, 2)
  <2>1. IsNumber(S) /\ IsNumber(DD)
    BY ByteType, BitsType, SingleNumber DEF HighNibble
  <2>2. GoodValue(Measure(S, 1, "1", "1")) /\ GoodValue(Measure(DD, 1, "1", "1"))
    BY <2>1, GoodMeasure
  <2> QED
    BY <2>2, SoundTwo DEF Satellites
<1>4. Sound(TotalAndTrip(p, stamp), T)
  <2>1. IsNumber(HighNibble(Byte(p, 1))) /\ IsNumber(LowNibble(Byte(p, 6)))
    BY ByteType, BitsType DEF HighNibble, LowNibble
  <2>2. /\ IsNumber(Plus(Word(p, 4), Times(LowNibble(Byte(p, 6)), 65536)))
        /\ IsNumber(Plus(Word(p, 2), Times(HighNibble(Byte(p, 1)), 4096)))
    BY <2>1, WordType, SumType
  <2>3. /\ GoodValue(Miles(Plus(Word(p, 4), Times(LowNibble(Byte(p, 6)), 65536)), 100))
        /\ GoodValue(Miles(Plus(Word(p, 2), Times(HighNibble(Byte(p, 1)), 4096)), 10))
    BY <2>2, GoodMeasure DEF Miles
  <2> QED
    BY <2>3, SoundTwo DEF TotalAndTrip
<1>5. Sound(SpeedAndAverage(p, stamp), T)
  <2> DEFINE a == PV("navigation.speedThroughWater", Measure(Word(p, 2), 100, "knots", "ms"))
             b == PV("navigation.averageSpeedThroughWater",
                     Measure(Word(p, 4), 100, "knots", "ms"))
             D == HighNibble(Byte(p, 6))
             S == {a, b}
             values == When(Bit(D, 2), a) \o When(~Bit(D, 3), b)
  <2>1. GoodValue(a.value) /\ GoodValue(b.value)
    BY WordType, GoodMeasure DEF PV
  <2>2. SpeedAndAverage(p, stamp) = Delta(stamp, values)
    BY DEF SpeedAndAverage
  <2> HIDE DEF a, b
  <2>3. values \in Seq(S)
    BY WhenSeq, ConcatProperties
  <2>4. \A pv \in S : GoodValue(pv.value)
    BY <2>1
  <2> HIDE DEF S, values
  <2> QED
    BY <2>2, <2>3, <2>4, SoundDelta DEF Delta
<1>6. Sound(Time(p, stamp), T) /\ Sound(Date(p, stamp), T)
  BY SoundNothing DEF Time, Date
<1> QED
  BY <1>1, <1>2, <1>3, <1>4, <1>5, <1>6

LEMMA IfNotZeroSeq ==
  ASSUME NEW S, NEW path, NEW x, NEW over, PV(path, Measure(x, over, "deg", "rad")) \in S
  PROVE  IfNotZero(path, x, over) \in Seq(S)
BY WhenSeq DEF IfNotZero

LEMMA AutopilotSound ==
  ASSUME NEW p \in Seq(Field), NEW T, NEW stamp \in T
  PROVE  Sound(Autopilot(p, stamp), T)
<1> DEFINE heading == CompassHeading(Digit0(Byte(p, 1)), Byte(p, 2))
           course == Plus(Times(High(Digit0(Byte(p, 2)), 2), 180), Byte(p, 3))
           rudder == Signed(Byte(p, 6))
           value(x, over) == Measure(x, over, "deg", "rad")
           mode == Text(AutopilotMode(Digit1(Byte(p, 4))))
           S == {PV("navigation.headingMagnetic", value(heading, 1)),
                 PV("steering.autopilot.target.headingMagnetic", value(course, 2)),
                 PV("steering.rudderAngle", value(rudder, 1)),
                 PV("steering.autopilot.state", mode)}
           values ==
              IfNotZero("navigation.headingMagnetic", heading, 1)
              \o IfNotZero("steering.autopilot.target.headingMagnetic", course, 2)
              \o IfNotZero("steering.rudderAngle", rudder, 1)
              \o <<PV("steering.autopilot.state", mode)>>
<1>1. IsNumber(heading) /\ IsNumber(course) /\ IsNumber(rudder)
  <2>1. IsNumber(High(Digit0(Byte(p, 2)), 2))
    BY ByteType, DigitsType, BitsType
  <2> QED
    BY <2>1, ByteType, HeadingType, SumType, DigitsType
<1>2. Autopilot(p, stamp) \in {Null, Delta(stamp, values)}
  BY DEF Autopilot
<1> HIDE DEF heading, course, rudder, mode
<1>3. \A pv \in S : GoodValue(pv.value)
  <2>1. GoodValue(mode)
    BY GoodOthers DEF mode
  <2> QED
    BY <1>1, <2>1, GoodMeasure DEF PV
<1>4. values \in Seq(S)
  <2>1. /\ IfNotZero("navigation.headingMagnetic", heading, 1) \in Seq(S)
        /\ IfNotZero("steering.autopilot.target.headingMagnetic", course, 2) \in Seq(S)
        /\ IfNotZero("steering.rudderAngle", rudder, 1) \in Seq(S)
    BY IfNotZeroSeq
  <2>2. <<PV("steering.autopilot.state", mode)>> \in Seq(S)
    OBVIOUS
  <2> HIDE DEF S
  <2> QED
    BY <2>1, <2>2, ConcatProperties
<1> HIDE DEF S, values
<1> QED
  BY <1>2, <1>3, <1>4, SoundDelta, SoundNothing DEF Delta

LEMMA HeadingAndRudderSound ==
  ASSUME NEW p \in Seq(Field), NEW T, NEW stamp \in T
  PROVE  Sound(HeadingAndRudder(p, stamp), T)
<1> DEFINE heading == CompassHeading(Digit0(Byte(p, 1)), Byte(p, 2))
           rudder == Signed(Byte(p, 3))
           value(x) == Measure(x, 1, "deg", "rad")
           S == {PV("navigation.headingMagnetic", value(heading)),
                 PV("steering.rudderAngle", value(rudder))}
           values == IfNotZero("navigation.headingMagnetic", heading, 1)
                     \o IfNotZero("steering.rudderAngle", rudder, 1)
<1>1. IsNumber(heading) /\ IsNumber(rudder)
  BY ByteType, HeadingType, DigitsType
<1>2. HeadingAndRudder(p, stamp) \in {Null, Throw, Delta(stamp, values)}
  BY DEF HeadingAndRudder
<1> HIDE DEF heading, rudder
<1>3. \A pv \in S : GoodValue(pv.value)
  BY <1>1, GoodMeasure DEF PV
<1>4. values \in Seq(S)
  <2>1. /\ IfNotZero("navigation.headingMagnetic", heading, 1) \in Seq(S)
        /\ IfNotZero("steering.rudderAngle", rudder, 1) \in Seq(S)
    BY IfNotZeroSeq
  <2> HIDE DEF S
  <2> QED
    BY <2>1, ConcatProperties
<1> HIDE DEF S, values
<1> QED
  BY <1>2, <1>3, <1>4, SoundDelta, SoundNothing DEF Delta

(* A datagram is handed to the decoder of its type, the first of the fields. *)
LEMMA Decoders ==
  ASSUME NEW p, NEW stamp, NEW type \in Int, At(p, 0) = Num(type)
  PROVE  /\ type \notin SeatalkTypes => ALK(p, stamp) = Null
         /\ type = 0 => ALK(p, stamp) = Depth(p, stamp)
         /\ type = 16 => ALK(p, stamp) = WindAngle(p, stamp)
         /\ type = 17 => ALK(p, stamp) = WindSpeed(p, stamp)
         /\ type = 32 => ALK(p, stamp) = SpeedThroughWater(p, stamp)
         /\ type = 33 => ALK(p, stamp) = TripMileage(p, stamp)
         /\ type = 34 => ALK(p, stamp) = TotalMileage(p, stamp)
         /\ type = 37 => ALK(p, stamp) = TotalAndTrip(p, stamp)
         /\ type = 38 => ALK(p, stamp) = SpeedAndAverage(p, stamp)
         /\ type = 39 => ALK(p, stamp) = WaterTemperature(p, stamp)
         /\ type = 80 => ALK(p, stamp) = Latitude(p, stamp)
         /\ type = 81 => ALK(p, stamp) = Longitude(p, stamp)
         /\ type = 82 => ALK(p, stamp) = SpeedOverGround(p, stamp)
         /\ type = 83 => ALK(p, stamp) = MagneticCourse(p, stamp)
         /\ type = 84 => ALK(p, stamp) = Time(p, stamp)
         /\ type = 86 => ALK(p, stamp) = Date(p, stamp)
         /\ type = 87 => ALK(p, stamp) = Satellites(p, stamp)
         /\ type = 132 => ALK(p, stamp) = Autopilot(p, stamp)
         /\ type = 153 => ALK(p, stamp) = Variation(p, stamp)
         /\ type = 156 => ALK(p, stamp) = HeadingAndRudder(p, stamp)
<1>1. IsNumeric(At(p, 0)) /\ At(p, 0).n = type /\ At(p, 0) # Undefined
  BY DEF IsNumeric, Num, Undefined, Text
<1>2. ALK(p, stamp) = IF type \in SeatalkTypes THEN Decode(type, p, stamp) ELSE Null
  BY <1>1 DEF ALK
<1> QED
  BY <1>2 DEF Decode, SeatalkTypes

LEMMA ALKSound ==
  ASSUME NEW p \in Seq(Field), NEW T, NEW stamp \in T
  PROVE  Sound(ALK(p, stamp), T)
<1>1. CASE ~IsNumeric(At(p, 0))
  <2>1. ALK(p, stamp) \in {Null, Throw}
    BY <1>1 DEF ALK, SeatalkTypes
  <2> QED
    BY <2>1, SoundNothing
<1>2. CASE IsNumeric(At(p, 0))
  <2>1. PICK type \in Int : At(p, 0) = Num(type)
    BY <1>2, FieldType, NumericField
  <2>2. CASE type \in {0, 16, 17, 32, 33, 34, 39, 82, 153}
    BY <2>1, <2>2, Decoders, OneValueDatagramsSound
  <2>3. CASE type \in {37, 38, 80, 81, 83, 84, 86, 87}
    BY <2>1, <2>3, Decoders, OtherDatagramsSound
  <2>4. CASE type \in {132, 156}
    BY <2>1, <2>4, Decoders, AutopilotSound, HeadingAndRudderSound
  <2>5. CASE type \notin SeatalkTypes
    BY <2>1, <2>5, Decoders, SoundNothing
  <2> QED
    BY <2>2, <2>3, <2>4, <2>5 DEF SeatalkTypes
<1> QED
  BY <1>1, <1>2

-----------------------------------------------------------------------------
(* Position fixes, and the time they are dated to *)

(* The times of which a position can be at the time now: none of tomorrow's. *)
BeforeTomorrow(now) == {t \in Int : t < now + DayTicks}

LEMMA Days ==
  ASSUME NEW now \in Int
  PROVE  /\ DayTicks \in Nat \ {0} /\ MonthTicks \in Nat \ {0}
         /\ now \div DayTicks \in Int /\ now % DayTicks \in 0 .. DayTicks - 1
         /\ DayTicks * (now \div DayTicks) =< now
         /\ now < DayTicks * (now \div DayTicks) + DayTicks
BY TicksAssumption

(* A time of day on a day that is not ahead of the clock's. *)
LEMMA StampBeforeTomorrow ==
  ASSUME NEW now \in Int, NEW f \in Read, NEW day \in Int,
         IsNumeric(f) => f.n \in 0 .. DayTicks - 1,
         day =< DayTicks * (now \div DayTicks),
         StampOf(f, {day}, now) # NaN
  PROVE  /\ (CHOOSE t \in StampOf(f, {day}, now) : TRUE) \in BeforeTomorrow(now)
         /\ IsNumber(StampOf(f, {day}, now))
<1> DEFINE time == IF isEmpty(f) THEN {now % DayTicks} ELSE float(f)
<1>1. time = {} \/ \E h \in 0 .. DayTicks - 1 : time = {h}
  BY Days DEF float, isEmpty, NaN
<1>2. StampOf(f, {day}, now) = Plus(time, {day})
  BY DEF StampOf
<1> HIDE DEF time
<1>3. time = {} => Plus(time, {day}) = {}
  BY DEF Plus
<1>4. PICK h \in 0 .. DayTicks - 1 : time = {h}
  BY <1>1, <1>2, <1>3 DEF NaN
<1>5. Plus(time, {day}) = {h + day}
  BY <1>4 DEF Plus
<1>6. h + day \in BeforeTomorrow(now) /\ h + day \in Int
  BY Days DEF BeforeTomorrow
<1> QED
  BY <1>2, <1>5, <1>6, SingleNumber

LEMMA TodayFirst ==
  ASSUME NEW now \in Int
  PROVE  /\ Today(now) = {DayTicks * (now \div DayTicks)}
         /\ DayTicks * (now \div DayTicks) \in Int
<1>1. DayTicks \in Int /\ now \div DayTicks \in Int
  BY Days
<1> QED
  BY <1>1 DEF Today

LEMMA Scaled ==
  ASSUME NEW a \in Int, NEW b \in Int, NEW k \in Nat, a =< b
  PROVE  a * k \in Int /\ a * k =< k * b
OBVIOUS

(* The date of an RMC: that of the sentence, or one of last month. *)
LEMMA DateFirst ==
  ASSUME NEW now \in Int, NEW date \in Read,
         IsNumeric(date) => date.n =< now \div DayTicks
  PROVE  LET days == IF isEmpty(date) THEN Plus(Today(now), {-MonthTicks})
                     ELSE Times(float(date), DayTicks)
         IN  \/ days = {}
             \/ \E day \in Int : days = {day} /\ day =< DayTicks * (now \div DayTicks)
<1> DEFINE days == IF isEmpty(date) THEN Plus(Today(now), {-MonthTicks})
                   ELSE Times(float(date), DayTicks)
           today == DayTicks * (now \div DayTicks)
<1>1. today \in Int /\ MonthTicks \in Nat
  BY Days
<1>2. CASE isEmpty(date)
  <2>1. days = Plus({today}, {-MonthTicks})
    BY <1>2 DEF Today
  <2>2. Plus({today}, {-MonthTicks}) = {today + (-MonthTicks)}
    BY DEF Plus
  <2>3. today + (-MonthTicks) \in Int /\ today + (-MonthTicks) =< today
    BY <1>1
  <2> HIDE DEF today, days
  <2> QED
    BY <2>1, <2>2, <2>3 DEF today, days
<1>3. CASE ~isEmpty(date) /\ IsNumeric(date)
  <2>1. date.n \in Int /\ float(date) = {date.n}
    BY <1>3, NumericField DEF float
  <2>2. days = {date.n * DayTicks}
    BY <1>3, <2>1 DEF Times
  <2>3. date.n * DayTicks \in Int /\ date.n * DayTicks =< DayTicks * (now \div DayTicks)
    <3>1. /\ date.n \in Int /\ now \div DayTicks \in Int /\ DayTicks \in Nat
          /\ date.n =< now \div DayTicks
      BY <1>3, <2>1, Days
    <3> QED
      BY ONLY <3>1, Scaled
  <2> HIDE DEF days
  <2> QED
    BY <2>2, <2>3 DEF days
<1>4. CASE ~isEmpty(date) /\ ~IsNumeric(date)
  <2>1. days = {}
    BY <1>4 DEF Times, float, NaN, isEmpty
  <2> HIDE DEF days
  <2> QED
    BY <2>1 DEF days
<1> QED
  BY <1>2, <1>3, <1>4

LEMMA PlusNaN ==
  ASSUME NEW x PROVE Plus(x, {}) = {}
BY DEF Plus

LEMMA RMCSound ==
  ASSUME NEW now \in Int, NEW p \in Seq(Field),
         IsNumeric(At(p, 0)) => At(p, 0).n \in 0 .. DayTicks - 1,
         IsNumeric(At(p, 8)) => At(p, 8).n =< now \div DayTicks
  PROVE  Sound(RMC(p, now), BeforeTomorrow(now))
<1> DEFINE stamp == timestamp(At(p, 0), At(p, 8), now)
           days  == IF isEmpty(At(p, 8)) THEN Plus(Today(now), {-MonthTicks})
                    ELSE Times(float(At(p, 8)), DayTicks)
           a == PV("navigation.position", PositionAt(p, 2))
           b == PV("navigation.courseOverGroundTrue", Deg(ZeroIfNaN(float(At(p, 7)))))
           c == PV("navigation.speedOverGround", Knots(ZeroUnlessPositive(float(At(p, 6)))))
           d == PV("navigation.magneticVariation",
                   Deg(magneticVariaton(At(p, 9), At(p, 10))))
           e == PV("navigation.magneticVariationAgeOfService", Measure(stamp, 1, "s", "s"))
           f == PV("navigation.datetime", Measure(stamp, 1, "s", "s"))
           S == {a, b, c, d, e, f}
           time == CHOOSE t \in stamp : TRUE
<1>1. stamp # NaN => time \in BeforeTomorrow(now) /\ IsNumber(stamp)
  <2>1. At(p, 0) \in Read /\ At(p, 8) \in Read
    BY FieldType
  <2>2. stamp = StampOf(At(p, 0), days, now)
    BY DEF timestamp
  <2>3. \/ days = {}
        \/ \E day \in Int : days = {day} /\ day =< DayTicks * (now \div DayTicks)
    BY <2>1, DateFirst
  <2> HIDE DEF days
  <2>4. days = {} => stamp = NaN
    BY <2>2, PlusNaN DEF StampOf, NaN
  <2> HIDE DEF stamp
  <2> QED
    BY <2>1, <2>2, <2>3, <2>4, StampBeforeTomorrow
<1>2. RMC(p, now) \in {Throw, DeltaOf(Own, time, <<a, b, c, d, e, f>>)}
  BY DEF RMC
<1>3. RMC(p, now) # Throw => stamp # NaN
  BY DEF RMC
<1>4. IsNumber(magneticVariaton(At(p, 9), At(p, 10)))
  BY FieldNumber, TimesType DEF magneticVariaton
<1>5. /\ IsNumber(ZeroIfNaN(float(At(p, 7))))
      /\ IsNumber(ZeroUnlessPositive(float(At(p, 6))))
  BY FieldNumber, FallbackType
<1>6. GoodValue(a.value) /\ GoodValue(b.value) /\ GoodValue(c.value) /\ GoodValue(d.value)
  BY <1>4, <1>5, GoodMeasure, GoodOthers DEF PV, PositionAt, Deg, Knots
<1>7. stamp # NaN => GoodValue(e.value) /\ GoodValue(f.value)
  BY <1>1, GoodMeasure DEF PV
<1> HIDE DEF a, b, c, d, e, f, time, stamp
<1>8. <<a, b, c, d, e, f>> \in Seq(S)
  OBVIOUS
<1>9. stamp # NaN => \A pv \in S : GoodValue(pv.value)
  BY <1>6, <1>7
<1> HIDE DEF S
<1> QED
  BY <1>1, <1>2, <1>3, <1>8, <1>9, SoundDelta, SoundNothing

LEMMA GLLSound ==
  ASSUME NEW now \in Int, NEW p \in Seq(Field),
         IsNumeric(At(p, 4)) => At(p, 4).n \in 0 .. DayTicks - 1
  PROVE  Sound(GLL(p, now), BeforeTomorrow(now))
<1> DEFINE stamp == StampOf(At(p, 4), Today(now), now)
           time  == CHOOSE t \in stamp : TRUE
<1>1. stamp # NaN => time \in BeforeTomorrow(now)
  <2> DEFINE day == DayTicks * (now \div DayTicks)
  <2>1. At(p, 4) \in Read /\ Today(now) = {day} /\ day \in Int
    BY FieldType, TodayFirst
  <2> HIDE DEF day
  <2>2. day =< DayTicks * (now \div DayTicks)
    BY <2>1 DEF day
  <2> QED
    BY <2>1, <2>2, StampBeforeTomorrow
<1>2. \/ GLL(p, now) \in {Null, Throw}
      \/ /\ stamp # NaN
         /\ GLL(p, now) = DeltaOf(Own, time, <<PV("navigation.position", PositionAt(p, 0))>>)
  BY DEF GLL
<1> DEFINE S == {PV("navigation.position", PositionAt(p, 0))}
<1>3. <<PV("navigation.position", PositionAt(p, 0))>> \in Seq(S)
  OBVIOUS
<1>4. \A pv \in S : GoodValue(pv.value)
  BY GoodOthers DEF PV, PositionAt
<1> HIDE DEF S, time, stamp
<1> QED
  BY <1>1, <1>2, <1>3, <1>4, SoundDelta, SoundNothing

LEMMA QualityGood == ASSUME NEW x PROVE GoodValue(Quality(x))
BY GoodOthers DEF Quality, Undefined

(* Values that are not sent leave the others in their places. *)
LEMMA RemovalSound ==
  ASSUME NEW T, NEW context, NEW stamp \in T, NEW S, NEW values \in Seq(S),
         \A pv \in S : GoodValue(pv.value)
  PROVE  Sound(DeltaOf(context, stamp, RemoveInvalid(values)), T)
<1>1. DOMAIN values = 1 .. Len(values) /\ Len(values) \in Nat
  OBVIOUS
<1>2. \A i \in DOMAIN values : values[i] \in S
  OBVIOUS
<1>3. DOMAIN RemoveInvalid(values) \subseteq DOMAIN values
  BY DEF RemoveInvalid
<1>4. \A i \in DOMAIN RemoveInvalid(values) : RemoveInvalid(values)[i] = values[i]
  BY DEF RemoveInvalid
<1> QED
  BY <1>1, <1>2, <1>3, <1>4 DEF Sound, DeltaOf

LEMMA GGASound ==
  ASSUME NEW now \in Int, NEW p \in Seq(Field),
         IsNumeric(At(p, 0)) => At(p, 0).n \in 0 .. DayTicks - 1
  PROVE  Sound(GGA(p, now), BeforeTomorrow(now))
<1> DEFINE stamp == StampOf(At(p, 0), Today(now), now)
           time  == CHOOSE t \in stamp : TRUE
           a == PV("navigation.position", PositionAt(p, 1))
           b == PV("navigation.gnss.methodQuality", Quality(float(At(p, 5))))
           c == GnssNumber("navigation.gnss.satellites", At(p, 6))
           d == GnssNumber("navigation.gnss.antennaAltitude", At(p, 8))
           e == GnssNumber("navigation.gnss.horizontalDilution", At(p, 7))
           f == GnssNumber("navigation.gnss.geoidalSeparation", At(p, 11))
           g == GnssNumber("navigation.gnss.differentialAge", At(p, 12))
           h == GnssNumber("navigation.gnss.differentialReference", At(p, 13))
           S == {a, b, c, d, e, f, g, h}
           values == <<a, b, c, d, e, f, g, h>>
<1>1. stamp # NaN => time \in BeforeTomorrow(now)
  <2> DEFINE day == DayTicks * (now \div DayTicks)
  <2>1. At(p, 0) \in Read /\ Today(now) = {day} /\ day \in Int
    BY FieldType, TodayFirst
  <2> HIDE DEF day
  <2>2. day =< DayTicks * (now \div DayTicks)
    BY <2>1 DEF day
  <2> QED
    BY <2>1, <2>2, StampBeforeTomorrow
<1>2. \/ GGA(p, now) \in {Null, Throw}
      \/ /\ stamp # NaN
         /\ GGA(p, now) = DeltaOf(Own, time, RemoveInvalid(values))
  BY EmptyFieldsType DEF GGA
<1>3. \A path : \A i \in Nat : GoodValue(GnssNumber(path, At(p, i)).value)
  BY FieldNumber, GoodMeasure DEF GnssNumber, PV
<1>4. GoodValue(a.value) /\ GoodValue(b.value)
  BY QualityGood, GoodOthers DEF PV, PositionAt
<1>5. /\ GoodValue(c.value) /\ GoodValue(d.value) /\ GoodValue(e.value)
      /\ GoodValue(f.value) /\ GoodValue(g.value) /\ GoodValue(h.value)
  BY <1>3
<1> HIDE DEF a, b, c, d, e, f, g, h, time, stamp
<1>6. values \in Seq(S)
  OBVIOUS
<1>7. \A pv \in S : GoodValue(pv.value)
  BY <1>4, <1>5
<1> HIDE DEF S, values
<1> QED
  BY <1>1, <1>2, <1>6, <1>7, RemovalSound, SoundNothing

-----------------------------------------------------------------------------
(* All hooks *)

FixHooks == {"RMC", "GGA", "GLL"}

(* A fix is dated before tomorrow; the other hooks take the time they are given. *)
LEMMA HookSound ==
  ASSUME NEW now \in Int, NEW stamp, NEW m, m.parts \in Seq(Field), Timely(m, now),
         m.id \in Supported \ {"VDM", "VDO"}
  PROVE  Sound(RunHook(m, stamp, now),
               IF m.id \in FixHooks THEN BeforeTomorrow(now) ELSE {stamp})
<1> DEFINE p == m.parts
           T == IF m.id \in FixHooks THEN BeforeTomorrow(now) ELSE {stamp}
<1> SUFFICES Sound(RunHook(m, stamp, now), T)
  OBVIOUS
<1>1. CASE m.id \in FixHooks
  <2>1. T = BeforeTomorrow(now)
    BY <1>1
  <2> HIDE DEF T
  <2>2. CASE m.id = "RMC"
    <3>1. /\ IsNumeric(At(p, 0)) => At(p, 0).n \in 0 .. DayTicks - 1
          /\ IsNumeric(At(p, 8)) => At(p, 8).n =< now \div DayTicks
      BY <2>2 DEF Timely, TimeField
    <3> QED
      BY <2>1, <2>2, <3>1, RMCSound, Dispatch
  <2>3. CASE m.id = "GGA"
    <3>1. IsNumeric(At(p, 0)) => At(p, 0).n \in 0 .. DayTicks - 1
      BY <2>3 DEF Timely, TimeField
    <3> QED
      BY <2>1, <2>3, <3>1, GGASound, Dispatch
  <2>4. CASE m.id = "GLL"
    <3>1. IsNumeric(At(p, 4)) => At(p, 4).n \in 0 .. DayTicks - 1
      BY <2>4 DEF Timely, TimeField
    <3> QED
      BY <2>1, <2>4, <3>1, GLLSound, Dispatch
  <2> QED
    BY <1>1, <2>2, <2>3, <2>4 DEF FixHooks
<1>2. CASE m.id \notin FixHooks
  <2>1. T = {stamp} /\ stamp \in T
    BY <1>2
  <2> HIDE DEF T
  <2>2. CASE m.id \in {"HDT", "HDM", "DBT", "MTW", "ROT"}
    BY <2>1, <2>2, OneNumberSound, Dispatch
  <2>3. CASE m.id \in {"MWV", "VWR", "RPM", "KEP", "VPW", "VDR"}
    BY <2>1, <2>3, WindSound, RPMSound, KEPSound, VPWSound, VDRSound, Dispatch
  <2>4. CASE m.id \in {"ZDA", "VTG", "VHW", "HDG", "DPT"}
    BY <2>1, <2>4, ZDASound, VTGSound, VHWSound, HDGSound, DPTSound, Dispatch
  <2>5. CASE m.id \in {"RMB", "DSC", "ALK"}
    BY <2>1, <2>5, RMBSound, DSCSound, ALKSound, Dispatch
  <2>6. CASE m.id = "APB"
    BY <2>6, SoundNothing, Dispatch DEF APB
  <2>7. m.id \in {"HDT", "HDM", "DBT", "MTW", "ROT", "MWV", "VWR", "RPM", "KEP", "VPW",
                  "VDR", "ZDA", "VTG", "VHW", "HDG", "DPT", "RMB", "DSC", "ALK", "APB"}
    BY <1>2 DEF Supported, FixHooks
  <2> QED
    BY <2>2, <2>3, <2>4, <2>5, <2>6, <2>7
<1> QED
  BY <1>1, <1>2

LEMMA ClockType == ASSUME NEW now \in MaxDelay .. MaxClock PROVE now \in Nat
BY ParserAssumption

(* What is known of a sentence that arrives. *)
LEMMA Arrives ==
  ASSUME NEW now \in MaxDelay .. MaxClock, NEW delay \in 0 .. MaxDelay,
         NEW m \in Sentences(now, delay)
  PROVE  /\ m.lead \in {"$", "!", "\\"} /\ m.complete \in BOOLEAN
         /\ m.parts \in Seq(Field) /\ Timely(m, now) /\ OfShip(m, now)
BY SentencesAssumption

(* A date that is not ahead of the clock is not ahead of a later clock. *)
LEMMA StillTimely ==
  ASSUME NEW now \in Int, NEW later \in Int, now =< later,
         NEW m, m.parts \in Seq(Field), Timely(m, now)
  PROVE  Timely(m, later)
<1>1. now \div DayTicks \in Int /\ later \div DayTicks \in Int
  BY Days
<1>2. now \div DayTicks =< later \div DayTicks
  BY TicksAssumption
<1>3. IsNumeric(At(m.parts, 8)) => At(m.parts, 8).n \in Int
  BY FieldType, NumericField
<1> QED
  BY <1>1, <1>2, <1>3 DEF Timely

(* The parser's results, for sentences with and without a tag block. *)
LEMMA ParserKinds ==
  ASSUME NEW now \in Int, NEW m, m.parts \in Seq(Field), Timely(m, now)
  PROVE  parse(m, now).kind \in {"delta", "warn", "null", "throw"}
<1> DEFINE tags   == getTagBlock(m)
           stamp  == IF tags.c = Undefined THEN now ELSE tags.c.n
           result == RunHook(m, stamp, now)
<1>1. CASE m.id \notin Supported
  BY <1>1 DEF parse
<1>2. CASE m.id \in Supported
  <2>1. m.id \in {"VDM", "VDO"} => result = VDM(m, stamp)
    BY Dispatch
  <2>2. m.id \notin {"VDM", "VDO"} =>
          Sound(result, IF m.id \in FixHooks THEN BeforeTomorrow(now) ELSE {stamp})
    <3> HIDE DEF stamp
    <3>1. m.id \notin {"VDM", "VDO"} => m.id \in Supported \ {"VDM", "VDO"}
      BY <1>2
    <3> QED
      BY <3>1, HookSound
  <2>3. result.kind \in {"delta", "null", "throw"}
    BY <2>1, <2>2, VDMKind DEF Sound
  <2>4. parse(m, now) = transformSource(result, m, tags.s)
    BY <1>2 DEF parse
  <2> HIDE DEF result, tags
  <2>5. transformSource(result, m, tags.s).kind = result.kind
    BY DEF transformSource
  <2> QED
    BY <2>3, <2>4, <2>5
<1> QED
  BY <1>1, <1>2

(* What is sent for a sentence: the source, and values of the own vessel with one
   time for all, which is that of the clock, or for a fix one before tomorrow. *)
LEMMA AnswerSound ==
  ASSUME NEW now \in MaxDelay .. MaxClock, NEW delay \in 0 .. MaxDelay,
         NEW m \in Sentences(now, delay)
  PROVE  LET kvs == Answer(m, now)
             stamp == IF Demo THEN now ELSE RunHook(m, now, now).stamp
         IN  \/ kvs = <<>>
             \/ /\ stamp \in BeforeTomorrow(now)
                /\ m.id \notin FixHooks => stamp = now
                /\ \E n \in Nat : DOMAIN kvs \subseteq 0 .. n
                /\ \A i \in DOMAIN kvs :
                      /\ kvs[i].context = (IF i = 0 THEN "sources" ELSE Own)
                      /\ kvs[i].stamp = IF i = 0 THEN now ELSE stamp
                      /\ kvs[i].value # Undefined
                      /\ GoodValue(kvs[i].value)
<1> DEFINE result == RunHook(m, now, now)
           kvs == Answer(m, now)
           stamp == IF Demo THEN now ELSE result.stamp
           values == result.values
<1>1. now \in Nat /\ now \in BeforeTomorrow(now)
  BY ClockType, Days DEF BeforeTomorrow
<1>2. CASE ~(m.lead = "$" /\ m.id \in Supported /\ result.kind = "delta")
  BY <1>2, Answers
<1>3. CASE m.lead = "$" /\ m.id \in Supported /\ result.kind = "delta"
  <2>1. m.id \notin {"VDM", "VDO"}
    <3>1. m.id \in {"VDM", "VDO"} => result = Null
      BY <1>3, Dispatch DEF VDM
    <3> QED
      BY <1>3, <3>1 DEF Null
  <2>2. Sound(result, IF m.id \in FixHooks THEN BeforeTomorrow(now) ELSE {now})
    <3>1. /\ now \in Int /\ m.parts \in Seq(Field) /\ Timely(m, now)
          /\ m.id \in Supported \ {"VDM", "VDO"}
      BY <1>1, <1>3, <2>1, Arrives
    <3> QED
      BY <3>1, HookSound
  <2>3. stamp \in BeforeTomorrow(now) /\ (m.id \notin FixHooks => stamp = now)
    BY <1>1, <1>3, <2>2 DEF Sound
  <2>4. PICK n \in Nat : DOMAIN values \subseteq 1 .. n
    BY <1>3, <2>2 DEF Sound
  <2>5. \A i \in DOMAIN values : GoodValue(values[i].value)
    BY <1>3, <2>2 DEF Sound
  <2>6. /\ DOMAIN kvs = {0} \cup Sendable(values)
        /\ kvs[0].context = "sources" /\ kvs[0].stamp = now
        /\ DOMAIN kvs[0].value = {"sentence", "talker"}
        /\ \A i \in Sendable(values) \ {0} :
              /\ kvs[i].context = Own /\ kvs[i].value = values[i].value
              /\ kvs[i].stamp = stamp
    BY <1>3, Answers
  <2> HIDE DEF kvs, values, stamp
  <2>7. DOMAIN kvs \subseteq 0 .. n
    BY <2>4, <2>6 DEF Sendable
  <2>8. kvs[0].value # Undefined /\ GoodValue(kvs[0].value)
    BY <2>6 DEF Undefined, Text, GoodValue, IsMeasure, Measures
  <2>9. \A i \in DOMAIN kvs : /\ kvs[i].context = (IF i = 0 THEN "sources" ELSE Own)
                              /\ kvs[i].stamp = IF i = 0 THEN now ELSE stamp
                              /\ kvs[i].value # Undefined
                              /\ GoodValue(kvs[i].value)
    BY <2>5, <2>6, <2>8 DEF Sendable
  <2> QED
    BY <2>3, <2>7, <2>9 DEF kvs, stamp
<1> QED
  BY <1>2, <1>3

-----------------------------------------------------------------------------
(* What is stored: of values with one time, the last of a path replaces what is
   shown of it, unless that is of a later time. *)
LEMMA StoredCases ==
  ASSUME NEW points, NEW kvs, NEW n \in Nat, NEW stamp \in Int, NEW path \in Watched,
         points[path].stamp \in Int,
         DOMAIN kvs \subseteq 0 .. n,
         \A i \in DOMAIN kvs : /\ kvs[i].context = (IF i = 0 THEN "sources" ELSE Own)
                               /\ i # 0 => kvs[i].stamp = stamp
  PROVE  LET told == {i \in DOMAIN kvs \ {0} : kvs[i].path = path}
         IN  IF told = {} \/ stamp < points[path].stamp
             THEN Stored(points, kvs)[path] = points[path]
             ELSE \E i \in told : /\ \A j \in told : j =< i
                                  /\ Stored(points, kvs)[path]
                                       = [stamp |-> stamp, value |-> kvs[i].value]
<1> DEFINE told  == {i \in DOMAIN kvs \ {0} : kvs[i].path = path}
           newer == {i \in DOMAIN kvs : /\ kvs[i].context = Own /\ kvs[i].path = path
                                        /\ kvs[i].stamp >= points[path].stamp}
           Later(i, j) == \/ kvs[i].stamp > kvs[j].stamp
                          \/ kvs[i].stamp = kvs[j].stamp /\ i >= j
           last == CHOOSE i \in newer : \A j \in newer : Later(i, j)
<1>1. Stored(points, kvs)[path]
        = IF newer = {} THEN points[path]
          ELSE [stamp |-> kvs[last].stamp, value |-> kvs[last].value]
  BY DEF Stored
<1>2. newer = IF stamp < points[path].stamp THEN {} ELSE told
  BY DEF Own
<1>3. CASE told = {} \/ stamp < points[path].stamp
  BY <1>1, <1>2, <1>3
<1>4. CASE ~(told = {} \/ stamp < points[path].stamp)
  <2>1. newer = told /\ told # {} /\ told \in SUBSET (0 .. n)
    BY <1>2, <1>4
  <2>2. \A i \in told : kvs[i].stamp = stamp /\ i \in Int
    OBVIOUS
  <2>3. PICK top \in told : \A j \in told : j =< top
    BY <2>1, LastPlace
  <2>4. \A i, j \in told : Later(i, j) <=> i >= j
    BY <2>2
  <2>5. \A j \in newer : Later(top, j)
    BY <2>1, <2>2, <2>3, <2>4
  <2>6. last \in newer /\ \A j \in newer : Later(last, j)
    BY <2>1, <2>5
  <2> HIDE DEF told, newer, Later, last
  <2>7. last = top
    BY <2>1, <2>2, <2>3, <2>4, <2>6
  <2>8. Stored(points, kvs)[path] = [stamp |-> stamp, value |-> kvs[top].value]
    BY <1>1, <2>1, <2>2, <2>7
  <2> QED
    BY <1>4, <2>3, <2>8 DEF told
<1> QED
  BY <1>3, <1>4

-----------------------------------------------------------------------------
(* The invariant of the parser and its handler: what was sent last is the answer
   to a sentence that arrived, and every point shown is of a time that the server
   started with, or before the clock's tomorrow. *)

Handled ==
    \/ message = NoMessage /\ sent = <<>>
    \/ \E now \in MaxDelay .. clock, delay \in 0 .. MaxDelay :
           /\ message \in Sentences(now, delay)
           /\ sent = Answer(message, now)

ShownTimes ==
    \A path \in Watched : /\ latest[path].stamp \in BeforeTomorrow(clock)
                          /\ latest[path].stamp >= NoPoint.stamp

Inv ==
    /\ clock \in MaxDelay .. MaxClock
    /\ Handled
    /\ ShownTimes

LEMMA InvInit == Init => Inv
<1> SUFFICES ASSUME Init PROVE Inv
  OBVIOUS
<1>1. clock \in MaxDelay .. MaxClock /\ clock \in Nat
  BY ParserAssumption DEF Init
<1>2. Handled
  BY DEF Init, Handled
<1>3. NoPoint.stamp \in Int /\ NoPoint.stamp < clock + DayTicks
  BY <1>1, TicksAssumption DEF NoPoint
<1>4. ShownTimes
  BY <1>3 DEF Init, ShownTimes, BeforeTomorrow
<1> QED
  BY <1>1, <1>2, <1>4 DEF Inv

LEMMA InvTick == Inv /\ Tick => Inv'
<1> SUFFICES ASSUME Inv, Tick PROVE Inv'
  OBVIOUS
<1>1. clock \in Nat /\ clock' = clock + 1 /\ clock' \in MaxDelay .. MaxClock
  BY ParserAssumption DEF Inv, Tick
<1>2. Handled'
  <2>1. \A now \in MaxDelay .. clock : now \in MaxDelay .. clock'
    BY <1>1, ParserAssumption
  <2> QED
    BY <2>1 DEF Inv, Tick, Handled
<1>3. ShownTimes'
  BY <1>1, TicksAssumption DEF Inv, Tick, ShownTimes, BeforeTomorrow
<1> QED
  BY <1>1, <1>2, <1>3 DEF Inv

LEMMA InvConsume ==
  ASSUME Inv, NEW delay \in 0 .. MaxDelay, NEW m \in Sentences(clock, delay), Consume(m)
  PROVE  Inv'
<1>1. clock \in MaxDelay .. MaxClock /\ clock \in Int /\ clock' = clock
  BY ClockType DEF Inv, Consume
<1>2. Handled'
  <2>1. clock \in MaxDelay .. clock
    BY <1>1, ParserAssumption
  <2> QED
    BY <1>1, <2>1 DEF Handled, Consume
<1>3. ShownTimes'
  <2> SUFFICES ASSUME NEW path \in Watched
               PROVE  /\ latest'[path].stamp \in BeforeTomorrow(clock)
                      /\ latest'[path].stamp >= NoPoint.stamp
    BY <1>1 DEF ShownTimes
  <2>1. /\ latest[path].stamp \in BeforeTomorrow(clock)
        /\ latest[path].stamp >= NoPoint.stamp
        /\ latest[path].stamp \in Int
    BY DEF Inv, ShownTimes, BeforeTomorrow
  <2>2. NoPoint.stamp \in Int
    BY TicksAssumption DEF NoPoint
  <2> DEFINE kvs   == Answer(m, clock)
             stamp == IF Demo THEN clock ELSE RunHook(m, clock, clock).stamp
  <2>3. latest' = Stored(latest, kvs)
    BY DEF Consume
  <2>4. CASE kvs = <<>>
    <3>1. DOMAIN kvs = {}
      BY <2>4
    <3>2. latest'[path] = latest[path]
      BY <2>3, <3>1 DEF Stored
    <3> QED
      BY <2>1, <3>2
  <2>5. CASE kvs # <<>>
    <3>1. /\ stamp \in BeforeTomorrow(clock)
          /\ \E n \in Nat : DOMAIN kvs \subseteq 0 .. n
          /\ \A i \in DOMAIN kvs : /\ kvs[i].context = (IF i = 0 THEN "sources" ELSE Own)
                                   /\ i # 0 => kvs[i].stamp = stamp
      BY <1>1, <2>5, AnswerSound
    <3> HIDE DEF kvs, stamp
    <3>2. stamp \in Int
      BY <3>1 DEF BeforeTomorrow
    <3>3. \/ latest'[path] = latest[path]
          \/ ~(stamp < latest[path].stamp) /\ latest'[path].stamp = stamp
      <4> DEFINE told == {i \in DOMAIN kvs \ {0} : kvs[i].path = path}
      <4>1. PICK n \in Nat : DOMAIN kvs \subseteq 0 .. n
        BY <3>1
      <4>2. IF told = {} \/ stamp < latest[path].stamp
            THEN Stored(latest, kvs)[path] = latest[path]
            ELSE \E i \in told : /\ \A j \in told : j =< i
                                 /\ Stored(latest, kvs)[path]
                                      = [stamp |-> stamp, value |-> kvs[i].value]
        BY <2>1, <3>1, <3>2, <4>1, StoredCases
      <4> HIDE DEF told
      <4>3. CASE told = {} \/ stamp < latest[path].stamp
        BY <2>3, <4>2, <4>3
      <4>4. CASE ~(told = {} \/ stamp < latest[path].stamp)
        <5>1. PICK i \in told : Stored(latest, kvs)[path]
                                  = [stamp |-> stamp, value |-> kvs[i].value]
          BY <4>2, <4>4
        <5>2. latest'[path].stamp = stamp
          BY <2>3, <5>1
        <5> QED
          BY <4>4, <5>2
      <4> QED
        BY <4>3, <4>4
    <3> QED
      BY <2>1, <2>2, <3>1, <3>2, <3>3
  <2> QED
    BY <2>4, <2>5
<1> QED
  BY <1>1, <1>2, <1>3 DEF Inv

LEMMA InvNext == Inv /\ [Next]_vars => Inv'
<1> SUFFICES ASSUME Inv, [Next]_vars PROVE Inv'
  OBVIOUS
<1>1. CASE Tick
  BY <1>1, InvTick
<1>2. ASSUME NEW delay \in 0 .. MaxDelay, NEW m \in Sentences(clock, delay), Consume(m)
      PROVE  Inv'
  BY <1>2, InvConsume
<1>3. CASE UNCHANGED vars
  BY <1>3 DEF vars, Inv, Handled, ShownTimes
<1> QED
  BY <1>1, <1>2, <1>3 DEF Next

THEOREM Invariance == Spec => []Inv
<1> QED
  BY InvInit, InvNext, PTL DEF Spec

(* What was sent is the answer to a sentence, of a time the clock has passed. *)
LEMMA HandledSentence ==
  ASSUME Inv, message # NoMessage
  PROVE  \E now \in MaxDelay .. MaxClock, delay \in 0 .. MaxDelay :
            /\ now =< clock /\ message \in Sentences(now, delay)
            /\ sent = Answer(message, now)
<1>1. PICK now \in MaxDelay .. clock, delay \in 0 .. MaxDelay :
         message \in Sentences(now, delay) /\ sent = Answer(message, now)
  BY DEF Inv, Handled
<1>2. now \in MaxDelay .. MaxClock /\ now =< clock
  BY ParserAssumption DEF Inv
<1> QED
  BY <1>1, <1>2

(* Type correctness: the parser returns one of its four results, the handler
   sends values of the own vessel only. *)
THEOREM TypeCorrect == Spec => []NmeaTypeOK
<1>1. Inv => NmeaTypeOK
  <2> SUFFICES ASSUME Inv PROVE NmeaTypeOK
    OBVIOUS
  <2>1. CASE message = NoMessage
    <3>1. sent = <<>>
      <4>1. ASSUME NEW now \in MaxDelay .. clock, NEW delay \in 0 .. MaxDelay,
                   message \in Sentences(now, delay)
            PROVE  FALSE
        <5>1. now \in MaxDelay .. MaxClock
          BY ParserAssumption DEF Inv
        <5>2. message.lead \in {"$", "!", "\\"}
          BY <4>1, <5>1, Arrives
        <5> QED
          BY <2>1, <5>2 DEF NoMessage
      <4> QED
        BY <4>1 DEF Inv, Handled
    <3> QED
      BY <2>1, <3>1 DEF NmeaTypeOK, Inv, ShownTimes, BeforeTomorrow
  <2>2. CASE message # NoMessage
    <3>1. PICK now \in MaxDelay .. MaxClock, delay \in 0 .. MaxDelay :
             now =< clock /\ message \in Sentences(now, delay) /\ sent = Answer(message, now)
      BY <2>2, HandledSentence
    <3>2. /\ message.parts \in Seq(Field) /\ Timely(message, now)
          /\ now \in Int /\ clock \in Int
      BY <3>1, Arrives, ClockType DEF Inv
    <3>3. parse(message, clock).kind \in {"delta", "warn", "null", "throw"}
      BY <3>1, <3>2, StillTimely, ParserKinds
    <3>4. \A i \in DOMAIN sent :
             /\ sent[i].context = (IF i = 0 THEN "sources" ELSE Own)
             /\ sent[i].stamp \in Int
             /\ sent[i].value # Undefined
             /\ GoodValue(sent[i].value)
      BY <3>1, <3>2, AnswerSound DEF BeforeTomorrow
    <3> QED
      BY <3>3, <3>4 DEF NmeaTypeOK, Inv, ShownTimes, BeforeTomorrow, GoodValue
  <2> QED
    BY <2>1, <2>2
<1> QED
  BY <1>1, Invariance, PTL

(* A position that is dated ahead of the clock hides all others for less than a
   day, if positions are kept at all. *)
THEOREM FrozenForADay ==
  ASSUME Point \in Watched PROVE Spec => []FrozenLessThanADay
<1>1. Inv => FrozenLessThanADay
  BY DEF Inv, ShownTimes, BeforeTomorrow, FrozenLessThanADay
<1> QED
  BY <1>1, Invariance, PTL

-----------------------------------------------------------------------------
(* What a hook tells: the values of its delta, whatever their places. *)
Told(values) == {values[i] : i \in DOMAIN values}

LEMMA ToldConcat ==
  ASSUME NEW S, NEW s \in Seq(S), NEW t \in Seq(S)
  PROVE  s \o t \in Seq(S) /\ Told(s \o t) = Told(s) \cup Told(t)
<1>1. /\ s \o t \in Seq(S) /\ Len(s \o t) = Len(s) + Len(t)
      /\ \A i \in 1 .. Len(s) + Len(t) :
            (s \o t)[i] = IF i =< Len(s) THEN s[i] ELSE t[i - Len(s)]
  BY ConcatProperties
<1>2. /\ DOMAIN s = 1 .. Len(s) /\ DOMAIN t = 1 .. Len(t)
      /\ DOMAIN (s \o t) = 1 .. Len(s) + Len(t) /\ Len(s) \in Nat /\ Len(t) \in Nat
  BY <1>1
<1> DEFINE u == s \o t
<1> HIDE DEF u
<1>3. ASSUME NEW i \in DOMAIN u PROVE u[i] \in Told(s) \cup Told(t)
  <2>1. i \in 1 .. Len(s) + Len(t) /\ u[i] = IF i =< Len(s) THEN s[i] ELSE t[i - Len(s)]
    BY <1>1, <1>2 DEF u
  <2>2. CASE i =< Len(s)
    <3>1. i \in DOMAIN s /\ u[i] = s[i]
      BY <1>2, <2>1, <2>2
    <3> QED
      BY <3>1 DEF Told
  <2>3. CASE ~(i =< Len(s))
    <3>1. i - Len(s) \in DOMAIN t /\ u[i] = t[i - Len(s)]
      BY <1>2, <2>1, <2>3
    <3> QED
      BY <3>1 DEF Told
  <2> QED
    BY <2>2, <2>3
<1>4. ASSUME NEW i \in DOMAIN s PROVE s[i] \in Told(u)
  <2>1. i \in DOMAIN u /\ u[i] = s[i]
    BY <1>1, <1>2 DEF u
  <2> QED
    BY <2>1 DEF Told
<1>5. ASSUME NEW i \in DOMAIN t PROVE t[i] \in Told(u)
  <2>1. i + Len(s) \in DOMAIN u /\ u[i + Len(s)] = t[i]
    BY <1>1, <1>2 DEF u
  <2> QED
    BY <2>1 DEF Told
<1>6. Told(u) = Told(s) \cup Told(t)
  BY <1>3, <1>4, <1>5 DEF Told
<1> QED
  BY <1>1, <1>6 DEF u

LEMMA ToldWhen ==
  ASSUME NEW condition, NEW pv
  PROVE  Told(When(condition, pv)) = IF condition THEN {pv} ELSE {}
<1>1. Told(<<pv>>) = {pv} /\ Told(<< >>) = {}
  BY DEF Told
<1> QED
  BY <1>1 DEF When

LEMMA ToldTuples ==
  ASSUME NEW a, NEW b, NEW c
  PROVE  /\ Told(<< >>) = {}
         /\ Told(<<a>>) = {a}
         /\ Told(<<a, b>>) = {a, b}
         /\ Told(<<a, b, c>>) = {a, b, c}
<1>1. Told(<< >>) = {} /\ Told(<<a>>) = {a}
  BY DEF Told
<1>2. Told(<<a, b>>) = {a, b}
  BY DEF Told
<1>3. Told(<<a, b, c>>) = {a, b, c}
  BY DEF Told
<1> QED
  BY <1>1, <1>2, <1>3

(* Two values under conditions. *)
LEMMA ToldTwo ==
  ASSUME NEW c, NEW a, NEW d, NEW b
  PROVE  Told(When(c, a) \o When(d, b))
           = (IF c THEN {a} ELSE {}) \cup (IF d THEN {b} ELSE {})
<1> DEFINE S == {a, b}
<1>1. When(c, a) \in Seq(S) /\ When(d, b) \in Seq(S)
  BY WhenSeq
<1> HIDE DEF S
<1> QED
  BY <1>1, ToldConcat, ToldWhen

(* What is told is sent, unless it is undefined; and nothing but it and the source. *)
LEMMA SentIsTold ==
  ASSUME NEW m, NEW now, NEW context, NEW stamp, NEW values, NEW n \in Nat,
         m.lead = "$", m.id \in Supported,
         RunHook(m, now, now) = DeltaOf(context, stamp, values),
         DOMAIN values \subseteq 1 .. n
  PROVE  LET kvs == Answer(m, now)
         IN  /\ \A i \in DOMAIN kvs : IF i = 0 THEN kvs[i].path = "NMEA0183"
                                      ELSE \E pv \in Told(values) : /\ kvs[i].path = pv.path
                                                                 /\ kvs[i].value = pv.value
             /\ 0 \in DOMAIN kvs
             /\ \A pv \in Told(values) : pv.value # Undefined =>
                   \E i \in DOMAIN kvs \ {0} : /\ kvs[i].path = pv.path
                                               /\ kvs[i].value = pv.value
<1> DEFINE kvs == Answer(m, now)
           result == RunHook(m, now, now)
<1>1. result.kind = "delta" /\ result.values = values
  BY DEF DeltaOf
<1>2. /\ DOMAIN kvs = {0} \cup Sendable(values) /\ kvs[0].path = "NMEA0183"
      /\ \A i \in Sendable(values) \ {0} : /\ kvs[i].path = values[i].path
                                           /\ kvs[i].value = values[i].value
  BY <1>1, Answers
<1>3. Sendable(values) \ {0} = Sendable(values) /\ Sendable(values) \subseteq DOMAIN values
  BY DEF Sendable
<1> HIDE DEF kvs
<1>4. ASSUME NEW i \in DOMAIN kvs, i # 0
      PROVE  \E j \in DOMAIN values : /\ kvs[i].path = values[j].path
                                     /\ kvs[i].value = values[j].value
  BY <1>2, <1>3, <1>4
<1>5. ASSUME NEW j \in DOMAIN values, values[j].value # Undefined
      PROVE  \E i \in DOMAIN kvs \ {0} : /\ kvs[i].path = values[j].path
                                         /\ kvs[i].value = values[j].value
  <2>1. j \in Sendable(values) /\ j # 0
    BY <1>5 DEF Sendable
  <2> QED
    BY <1>2, <2>1
<1> QED
  BY <1>2, <1>4, <1>5 DEF Told, kvs

(* A hook makes a delta of one time and of values in some order. *)
Tells(result, stamp, told) ==
    /\ result = Delta(stamp, result.values)
    /\ \E n \in Nat : DOMAIN result.values \subseteq 1 .. n
    /\ Told(result.values) = told

LEMMA TellsSeq ==
  ASSUME NEW S, NEW values \in Seq(S), NEW stamp, NEW told, Told(values) = told
  PROVE  Tells(Delta(stamp, values), stamp, told)
<1>1. DOMAIN values = 1 .. Len(values) /\ Len(values) \in Nat
  OBVIOUS
<1> QED
  BY <1>1 DEF Tells, Delta, DeltaOf

LEMMA TellsTuple ==
  ASSUME NEW stamp, NEW a, NEW b, NEW c
  PROVE  /\ Tells(Delta(stamp, <<a>>), stamp, {a})
         /\ Tells(Delta(stamp, <<a, b>>), stamp, {a, b})
         /\ Tells(Delta(stamp, <<a, b, c>>), stamp, {a, b, c})
<1> DEFINE S == {a, b, c}
<1>1. <<a>> \in Seq(S) /\ <<a, b>> \in Seq(S) /\ <<a, b, c>> \in Seq(S)
  OBVIOUS
<1>2. Told(<<a>>) = {a} /\ Told(<<a, b>>) = {a, b} /\ Told(<<a, b, c>>) = {a, b, c}
  BY ToldTuples
<1> HIDE DEF S
<1> QED
  BY <1>1, <1>2, TellsSeq

LEMMA TellsTwo ==
  ASSUME NEW stamp, NEW c, NEW a, NEW d, NEW b
  PROVE  Tells(Delta(stamp, When(c, a) \o When(d, b)), stamp,
               (IF c THEN {a} ELSE {}) \cup (IF d THEN {b} ELSE {}))
<1> DEFINE S == {a, b}
<1>1. When(c, a) \in Seq(S) /\ When(d, b) \in Seq(S)
  BY WhenSeq
<1> HIDE DEF S
<1>2. When(c, a) \o When(d, b) \in Seq(S)
  BY <1>1, ToldConcat
<1>3. Told(When(c, a) \o When(d, b))
        = (IF c THEN {a} ELSE {}) \cup (IF d THEN {b} ELSE {})
  BY ToldTwo
<1> QED
  BY <1>2, <1>3, TellsSeq

(* What is told is sent, unless it is undefined; and nothing but it and the source. *)
LEMMA SentTold ==
  ASSUME NEW m, NEW now, NEW stamp, NEW told,
         m.lead = "$", m.id \in Supported,
         Tells(RunHook(m, now, now), stamp, told)
  PROVE  LET kvs == Answer(m, now)
         IN  /\ 0 \in DOMAIN kvs /\ kvs[0].path = "NMEA0183"
             /\ \A i \in DOMAIN kvs \ {0} :
                   \E pv \in told : kvs[i].path = pv.path /\ kvs[i].value = pv.value
             /\ \A pv \in told : pv.value # Undefined =>
                   \E i \in DOMAIN kvs \ {0} :
                      kvs[i].path = pv.path /\ kvs[i].value = pv.value
<1> DEFINE values == RunHook(m, now, now).values
           kvs    == Answer(m, now)
<1>1. /\ RunHook(m, now, now) = DeltaOf(Own, stamp, values)
      /\ Told(values) = told
  BY DEF Tells, Delta
<1>2. PICK n \in Nat : DOMAIN values \subseteq 1 .. n
  BY DEF Tells
<1> HIDE DEF values
<1>3. /\ \A i \in DOMAIN kvs : IF i = 0 THEN kvs[i].path = "NMEA0183"
                                ELSE \E pv \in Told(values) : /\ kvs[i].path = pv.path
                                                              /\ kvs[i].value = pv.value
      /\ 0 \in DOMAIN kvs
      /\ \A pv \in Told(values) : pv.value # Undefined =>
             \E i \in DOMAIN kvs \ {0} : /\ kvs[i].path = pv.path
                                         /\ kvs[i].value = pv.value
  BY <1>1, <1>2, SentIsTold
<1> HIDE DEF kvs
<1> QED
  BY <1>1, <1>3 DEF kvs

-----------------------------------------------------------------------------
(* The sentences of a ship *)

LEMMA ShipSentence ==
  ASSUME NEW now \in MaxDelay .. MaxClock, NEW delay \in 0 .. MaxDelay,
         NEW m \in Sentences(now, delay), Measured(m)
  PROVE  /\ m.reading \in ReadingSet /\ m.taken \in Int /\ m.taken =< now
         /\ m \in Instruments(m.reading, m.taken)
BY Arrives DEF OfShip

LEMMA InstrumentIds ==
  ASSUME NEW r, NEW t
  PROVE  /\ \A m \in Fixes(r, t) : m.id \in FixHooks /\ m.lead = "$"
         /\ \A m \in Speeds(r) \cup {KphOnly(r)} : m.id \in {"VTG", "VHW"} /\ m.lead = "$"
         /\ \A m \in Headings(r) : m.id \in {"HDG", "HDT", "HDM"} /\ m.lead = "$"
         /\ \A m \in Winds(r) : m.id \in {"MWV", "VWR"} /\ m.lead = "$"
         /\ \A m \in Depths(r) : m.id \in {"DBT", "DPT"} /\ m.lead = "$"
         /\ \A m \in Datagrams(r) : /\ m.id = "ALK" /\ m.lead = "$"
                                    /\ m.parts[1] \in {Num(16), Num(17), Num(82)}
         /\ \A m \in RudderDatagrams(r) : /\ m.id = "ALK" /\ m.lead = "$"
                                          /\ m.parts[1] \in {Num(132), Num(156)}
<1>1. \A m \in Fixes(r, t) : m.id \in FixHooks /\ m.lead = "$"
  BY DEF Fixes, Rmc, Gga, Gll, Fix, Sentence, FixHooks
<1>2. \A m \in Speeds(r) \cup {KphOnly(r)} : m.id \in {"VTG", "VHW"} /\ m.lead = "$"
  BY DEF Speeds, KphOnly, Sentence
<1>3. \A m \in Headings(r) : m.id \in {"HDG", "HDT", "HDM"} /\ m.lead = "$"
  BY DEF Headings, Sentence
<1>4. \A m \in Winds(r) : m.id \in {"MWV", "VWR"} /\ m.lead = "$"
  BY DEF Winds, Sentence
<1>5. \A m \in Depths(r) : m.id \in {"DBT", "DPT"} /\ m.lead = "$"
  BY DEF Depths, Sentence
<1>6. \A m \in Datagrams(r) : /\ m.id = "ALK" /\ m.lead = "$"
                              /\ m.parts[1] \in {Num(16), Num(17), Num(82)}
  BY DEF Datagrams, Sentence
<1>7. \A m \in RudderDatagrams(r) : /\ m.id = "ALK" /\ m.lead = "$"
                                    /\ m.parts[1] \in {Num(132), Num(156)}
  BY DEF RudderDatagrams, Sentence
<1> QED
  BY <1>1, <1>2, <1>3, <1>4, <1>5, <1>6, <1>7

LEMMA InstrumentCases ==
  ASSUME NEW r, NEW t, NEW m \in Instruments(r, t)
  PROVE  \/ m \in Fixes(r, t)
         \/ m \in Speeds(r)
         \/ m = KphOnly(r) /\ r.speed % 250 = 0
         \/ m \in Headings(r)
         \/ m \in Winds(r)
         \/ m \in Depths(r)
         \/ m \in Datagrams(r)
         \/ m \in RudderDatagrams(r) /\ r.heading % 2 = 0
BY DEF Instruments

LEMMA RudderSentences ==
  ASSUME NEW r, NEW t, NEW m \in Instruments(r, t), m.id = "ALK",
         m.parts[1] \in {Num(132), Num(156)}
  PROVE  m \in RudderDatagrams(r) /\ r.heading % 2 = 0
<1>1. Num(132) \notin {Num(16), Num(17), Num(82)} /\ Num(156) \notin {Num(16), Num(17), Num(82)}
  BY DEF Num
<1> QED
  BY <1>1, InstrumentCases, InstrumentIds DEF FixHooks

-----------------------------------------------------------------------------
(* The datagrams of heading and rudder *)

(* A zero is not told. *)
UnlessZero(path, x, over) ==
    IF x \in {NaN, {0}} THEN {} ELSE {PV(path, Measure(x, over, "deg", "rad"))}

LEMMA ToldIfNotZero ==
  ASSUME NEW path, NEW x, NEW over
  PROVE  Told(IfNotZero(path, x, over)) = UnlessZero(path, x, over)
BY ToldWhen DEF IfNotZero, UnlessZero

LEMMA HeadingAndRudderTells ==
  ASSUME NEW p, NEW stamp, Byte(p, 1) # NaN, Byte(p, 2) # NaN, Byte(p, 3) # NaN
  PROVE  Tells(HeadingAndRudder(p, stamp), stamp,
               UnlessZero("navigation.headingMagnetic",
                          CompassHeading(Digit0(Byte(p, 1)), Byte(p, 2)), 1)
               \cup UnlessZero("steering.rudderAngle", Signed(Byte(p, 3)), 1))
<1> DEFINE heading == CompassHeading(Digit0(Byte(p, 1)), Byte(p, 2))
           rudder == Signed(Byte(p, 3))
           s == IfNotZero("navigation.headingMagnetic", heading, 1)
           t == IfNotZero("steering.rudderAngle", rudder, 1)
           S == {PV("navigation.headingMagnetic", Measure(heading, 1, "deg", "rad")),
                 PV("steering.rudderAngle", Measure(rudder, 1, "deg", "rad"))}
<1>1. At(p, 1) # Undefined
  BY DEF Byte, IsNumeric, Undefined, Text
<1>2. HeadingAndRudder(p, stamp) = Delta(stamp, s \o t)
  BY <1>1 DEF HeadingAndRudder
<1> HIDE DEF heading, rudder
<1>3. s \in Seq(S) /\ t \in Seq(S)
  BY IfNotZeroSeq
<1> DEFINE st == s \o t
<1> HIDE DEF S, s, t
<1>4. st \in Seq(S) /\ Told(st) = Told(s) \cup Told(t)
  BY <1>3, ToldConcat
<1> HIDE DEF st
<1>5. /\ Told(s) = UnlessZero("navigation.headingMagnetic", heading, 1)
      /\ Told(t) = UnlessZero("steering.rudderAngle", rudder, 1)
  BY ToldIfNotZero DEF s, t
<1>6. HeadingAndRudder(p, stamp) = Delta(stamp, st)
  BY <1>2 DEF st
<1>7. Tells(Delta(stamp, st), stamp, Told(st))
  BY <1>4, TellsSeq
<1> QED
  BY <1>4, <1>5, <1>6, <1>7 DEF heading, rudder

LEMMA AutopilotTells ==
  ASSUME NEW p, NEW stamp, Len(p) = 9, \A i \in 1 .. 8 : Byte(p, i) # NaN
  PROVE  Tells(Autopilot(p, stamp), stamp,
               UnlessZero("navigation.headingMagnetic",
                          CompassHeading(Digit0(Byte(p, 1)), Byte(p, 2)), 1)
               \cup UnlessZero("steering.autopilot.target.headingMagnetic",
                          Plus(Times(High(Digit0(Byte(p, 2)), 2), 180), Byte(p, 3)), 2)
               \cup UnlessZero("steering.rudderAngle", Signed(Byte(p, 6)), 1)
               \cup {PV("steering.autopilot.state",
                        Text(AutopilotMode(Digit1(Byte(p, 4)))))})
<1> DEFINE heading == CompassHeading(Digit0(Byte(p, 1)), Byte(p, 2))
           course == Plus(Times(High(Digit0(Byte(p, 2)), 2), 180), Byte(p, 3))
           rudder == Signed(Byte(p, 6))
           mode == PV("steering.autopilot.state", Text(AutopilotMode(Digit1(Byte(p, 4)))))
           s == IfNotZero("navigation.headingMagnetic", heading, 1)
           t == IfNotZero("steering.autopilot.target.headingMagnetic", course, 2)
           u == IfNotZero("steering.rudderAngle", rudder, 1)
           v == <<mode>>
           S == {PV("navigation.headingMagnetic", Measure(heading, 1, "deg", "rad")),
                 PV("steering.autopilot.target.headingMagnetic",
                    Measure(course, 2, "deg", "rad")),
                 PV("steering.rudderAngle", Measure(rudder, 1, "deg", "rad")), mode}
<1>1. Autopilot(p, stamp) = Delta(stamp, s \o t \o u \o v)
  BY DEF Autopilot
<1> HIDE DEF heading, course, rudder, mode
<1>2. s \in Seq(S) /\ t \in Seq(S) /\ u \in Seq(S) /\ v \in Seq(S)
  BY IfNotZeroSeq
<1> HIDE DEF S
<1> DEFINE st   == s \o t
           stu  == st \o u
           stuv == stu \o v
<1> HIDE DEF s, t, u, v
<1>3. st \in Seq(S) /\ Told(st) = Told(s) \cup Told(t)
  BY <1>2, ToldConcat
<1> HIDE DEF st
<1>4. stu \in Seq(S) /\ Told(stu) = Told(st) \cup Told(u)
  BY <1>2, <1>3, ToldConcat
<1> HIDE DEF stu
<1>5. stuv \in Seq(S) /\ Told(stuv) = Told(stu) \cup Told(v)
  BY <1>2, <1>4, ToldConcat
<1> HIDE DEF stuv
<1>6. Told(v) = {mode}
  BY ToldTuples DEF v
<1>7. /\ Told(s) = UnlessZero("navigation.headingMagnetic", heading, 1)
      /\ Told(t) = UnlessZero("steering.autopilot.target.headingMagnetic", course, 2)
      /\ Told(u) = UnlessZero("steering.rudderAngle", rudder, 1)
  BY ToldIfNotZero DEF s, t, u
<1>8. Autopilot(p, stamp) = Delta(stamp, stuv)
  BY <1>1 DEF stuv, stu, st
<1>9. Told(stuv) = UnlessZero("navigation.headingMagnetic", heading, 1)
          \cup UnlessZero("steering.autopilot.target.headingMagnetic", course, 2)
          \cup UnlessZero("steering.rudderAngle", rudder, 1) \cup {mode}
  BY <1>3, <1>4, <1>5, <1>6, <1>7
<1>10. Tells(Delta(stamp, stuv), stamp, Told(stuv))
  BY <1>5, TellsSeq
<1> QED
  BY <1>8, <1>9, <1>10 DEF heading, course, rudder, mode

(* Numbers that are there. *)
LEMMA ByteThere ==
  ASSUME NEW p, NEW i, NEW n, At(p, i) = Num(n)
  PROVE  Byte(p, i) = {n} /\ Byte(p, i) # NaN
BY DEF Byte, IsNumeric, Num, NaN

(* The heading of bytes that are there. *)
LEMMA CompassHeadingThere ==
  ASSUME NEW x, NEW y, NEW v \in Nat, NEW w \in Nat, x = {v}, y = {w}
  PROVE  CompassHeading(Digit0(x), y)
           = {((v \div 16) % 4) * 90 + (w % 64) * 2
              + (IF (v \div 16) \div 4 = 0 THEN 0
                 ELSE IF (v \div 16) % 2 = 1 THEN 2 ELSE 1)}
<1> DEFINE u    == v \div 16
           U    == Digit0(x)
           bits == IF u \div 4 = 0 THEN 0 ELSE IF u % 2 = 1 THEN 2 ELSE 1
           A == Times(Low(U, 2), 90)
           B == Times(Low(y, 6), 2)
           C == HeadingBits(U)
<1>1. u \in Nat /\ U = {u}
  BY DEF Digit0
<1> HIDE DEF u, U
<1>2. Int32(U) = {u} /\ Int32(y) = {w}
  BY <1>1 DEF Int32, ZeroIfNaN, NaN
<1>3. Low(U, 2) = {u % 4} /\ Low(y, 6) = {w % 64} /\ High(U, 2) = {u \div 4}
  <2>1. 2^2 = 4 /\ 2^6 = 64
    OBVIOUS
  <2>2. Low(U, 2) = {u % 2^2} /\ High(U, 2) = {u \div 2^2}
    BY <1>2 DEF Low, High
  <2>3. Low(y, 6) = {w % 2^6}
    BY <1>2 DEF Low
  <2> QED
    BY <2>1, <2>2, <2>3
<1>4. A = {(u % 4) * 90} /\ B = {(w % 64) * 2}
  <2> DEFINE L == Low(U, 2)
             K == Low(y, 6)
             l == u % 4
             k == w % 64
  <2>1. L = {l} /\ K = {k}
    BY <1>3
  <2> HIDE DEF L, K, l, k
  <2>2. Times(L, 90) = {l * 90} /\ Times(K, 2) = {k * 2}
    BY <2>1 DEF Times
  <2> QED
    BY <2>2 DEF L, K, l, k
<1>5. Bit(U, 0) <=> u % 2 = 1
  <2>1. u \div 2^0 = u
    BY <1>1
  <2> QED
    BY <1>1, <1>2, <2>1 DEF Bit
<1>6. C = {bits}
  BY <1>1, <1>3, <1>5 DEF HeadingBits
<1>7. /\ (u % 4) * 90 \in Int /\ (w % 64) * 2 \in Int /\ bits \in Int
      /\ (u % 4) * 90 + (w % 64) * 2 \in Int
  BY <1>1
<1> HIDE DEF A, B, C, bits
<1>8. Plus(A, B) = {(u % 4) * 90 + (w % 64) * 2}
  BY <1>4 DEF Plus
<1>9. Plus(Plus(A, B), C) = {(u % 4) * 90 + (w % 64) * 2 + bits}
  BY <1>6, <1>8 DEF Plus
<1> QED
  BY <1>9 DEF CompassHeading, A, B, C, U, u, bits

(* The heading and the rudder of a reading, in the bytes of both datagrams. *)
LEMMA HeadingBytes ==
  ASSUME NEW h \in 0 .. 359, h % 2 = 0, NEW v \in Nat, NEW w \in Nat,
         v \div 16 = h \div 90, w = (h % 90) \div 2
  PROVE  CompassHeading(Digit0({v}), {w}) = {h}
<1> DEFINE bits == IF (v \div 16) \div 4 = 0 THEN 0
                   ELSE IF (v \div 16) % 2 = 1 THEN 2 ELSE 1
<1>1. h \div 90 < 4 /\ w % 64 = w
  OBVIOUS
<1>2. (v \div 16) \div 4 = 0 /\ (v \div 16) % 4 = h \div 90
  BY <1>1
<1>3. (h \div 90) * 90 + w * 2 = h
  OBVIOUS
<1>4. CompassHeading(Digit0({v}), {w}) = {((v \div 16) % 4) * 90 + (w % 64) * 2 + bits}
  BY <1>1, CompassHeadingThere
<1>5. bits = 0
  BY <1>2
<1> HIDE DEF bits
<1>6. ((v \div 16) % 4) * 90 + (w % 64) * 2 + bits = h
  BY <1>1, <1>2, <1>3, <1>5
<1> QED
  BY <1>4, <1>6

LEMMA RudderByte ==
  ASSUME NEW n \in -128 .. 127, NEW x, x = {n % 256}
  PROVE  Signed(x) = {n}
<1>1. (IF n % 256 > 127 THEN (n % 256) - 256 ELSE n % 256) = n
  OBVIOUS
<1> DEFINE k == n % 256
<1>2. Signed(x) = {IF k > 127 THEN k - 256 ELSE k}
  <2>1. k \in Int
    OBVIOUS
  <2> HIDE DEF k
  <2>2. x = {k}
    BY DEF k
  <2> QED
    BY <2>1, <2>2 DEF Signed
<1> QED
  BY <1>1, <1>2

HeadingRudder(r) == UnlessZero("navigation.headingMagnetic", {r.heading}, 1)
                    \cup UnlessZero("steering.rudderAngle", {r.rudder}, 1)

LEMMA HeadingAndRudderOf ==
  ASSUME NEW r \in ReadingSet, r.heading % 2 = 0, NEW p, NEW stamp,
         At(p, 1) = Num(16 * (r.heading \div 90) + 1),
         At(p, 2) = Num((r.heading % 90) \div 2),
         At(p, 3) = Num(r.rudder % 256)
  PROVE  Tells(HeadingAndRudder(p, stamp), stamp, HeadingRudder(r))
<1>1. /\ Byte(p, 1) = {16 * (r.heading \div 90) + 1} /\ Byte(p, 1) # NaN
      /\ Byte(p, 2) = {(r.heading % 90) \div 2} /\ Byte(p, 2) # NaN
      /\ Byte(p, 3) = {r.rudder % 256} /\ Byte(p, 3) # NaN
  BY ByteThere
<1>2. CompassHeading(Digit0(Byte(p, 1)), Byte(p, 2)) = {r.heading}
      /\ Signed(Byte(p, 3)) = {r.rudder}
  <2> DEFINE h == r.heading
             n == r.rudder
             v == 16 * (h \div 90) + 1
             w == (h % 90) \div 2
  <2>1. h \in 0 .. 359 /\ n \in -128 .. 127 /\ h % 2 = 0
    BY DEF ReadingSet
  <2>2. Byte(p, 1) = {v} /\ Byte(p, 2) = {w} /\ Byte(p, 3) = {n % 256}
    BY <1>1
  <2> HIDE DEF h, n
  <2>5. /\ v \in Nat /\ v \div 16 = h \div 90
        /\ w \in Nat /\ w = (h % 90) \div 2
    BY <2>1
  <2> HIDE DEF v, w
  <2>6. CompassHeading(Digit0({v}), {w}) = {h}
    BY <2>1, <2>5, HeadingBytes
  <2>3. CompassHeading(Digit0(Byte(p, 1)), Byte(p, 2)) = {h}
    BY <2>2, <2>6
  <2>4. Signed(Byte(p, 3)) = {n}
    BY <2>1, <2>2, RudderByte
  <2> QED
    BY <2>3, <2>4 DEF h, n
<1> QED
  BY <1>1, <1>2, HeadingAndRudderTells DEF HeadingRudder

LEMMA AutopilotOf ==
  ASSUME NEW r \in ReadingSet, r.heading % 2 = 0, NEW p, NEW stamp, Len(p) = 9,
         At(p, 1) = Num(16 * (r.heading \div 90) + 6),
         At(p, 2) = Num((r.heading % 90) \div 2),
         At(p, 3) = Num(0), At(p, 4) = Num(2), At(p, 5) = Num(0),
         At(p, 6) = Num(r.rudder % 256), At(p, 7) = Num(0), At(p, 8) = Num(8)
  PROVE  Tells(Autopilot(p, stamp), stamp,
               HeadingRudder(r) \cup {PV("steering.autopilot.state", Text("auto"))})
<1>1. /\ Byte(p, 1) = {16 * (r.heading \div 90) + 6} /\ Byte(p, 1) # NaN
      /\ Byte(p, 2) = {(r.heading % 90) \div 2} /\ Byte(p, 2) # NaN
      /\ Byte(p, 3) = {0} /\ Byte(p, 3) # NaN
      /\ Byte(p, 4) = {2} /\ Byte(p, 4) # NaN
      /\ Byte(p, 5) # NaN /\ Byte(p, 6) # NaN /\ Byte(p, 7) # NaN /\ Byte(p, 8) # NaN
      /\ Byte(p, 6) = {r.rudder % 256}
  BY ByteThere
<1>2. \A i \in 1 .. 8 : Byte(p, i) # NaN
  <2>1. \A i \in 1 .. 8 : i \in {1, 2, 3, 4, 5, 6, 7, 8}
    OBVIOUS
  <2> QED
    BY <1>1, <2>1
<1>3. CompassHeading(Digit0(Byte(p, 1)), Byte(p, 2)) = {r.heading}
      /\ Signed(Byte(p, 6)) = {r.rudder}
  <2> DEFINE h == r.heading
             n == r.rudder
             v == 16 * (h \div 90) + 6
             w == (h % 90) \div 2
  <2>1. h \in 0 .. 359 /\ n \in -128 .. 127 /\ h % 2 = 0
    BY DEF ReadingSet
  <2>2. Byte(p, 1) = {v} /\ Byte(p, 2) = {w} /\ Byte(p, 6) = {n % 256}
    BY <1>1
  <2> HIDE DEF h, n
  <2>5. /\ v \in Nat /\ v \div 16 = h \div 90
        /\ w \in Nat /\ w = (h % 90) \div 2
    BY <2>1
  <2> HIDE DEF v, w
  <2>6. CompassHeading(Digit0({v}), {w}) = {h}
    BY <2>1, <2>5, HeadingBytes
  <2>3. CompassHeading(Digit0(Byte(p, 1)), Byte(p, 2)) = {h}
    BY <2>2, <2>6
  <2>4. Signed(Byte(p, 6)) = {n}
    BY <2>1, <2>2, RudderByte
  <2> QED
    BY <2>3, <2>4 DEF h, n
<1>4. Plus(Times(High(Digit0(Byte(p, 2)), 2), 180), Byte(p, 3)) = {0}
  <2> DEFINE w == (r.heading % 90) \div 2
             V == Digit0(Byte(p, 2))
             A == Times(High(V, 2), 180)
  <2>1. w \in Nat /\ w < 64 /\ Byte(p, 2) = {w}
    <3>1. r.heading \in 0 .. 359
      BY DEF ReadingSet
    <3>2. w \in Nat /\ w < 64
      BY <3>1
    <3> QED
      BY <1>1, <3>2
  <2> HIDE DEF w
  <2>2. w \div 16 \in Nat /\ (w \div 16) \div 4 = 0
    BY <2>1
  <2>3. V = {w \div 16}
    BY <2>1 DEF Digit0
  <2>4. Int32(V) = {w \div 16}
    BY <2>3 DEF Int32, ZeroIfNaN, NaN
  <2> HIDE DEF V
  <2>5. High(V, 2) = {0}
    BY <2>2, <2>4 DEF High
  <2>6. A = {0}
    BY <2>5 DEF Times
  <2> HIDE DEF A
  <2>7. Plus(A, Byte(p, 3)) = {0}
    BY <1>1, <2>6 DEF Plus
  <2> QED
    BY <2>7 DEF A, V
<1>5. AutopilotMode(Digit1(Byte(p, 4))) = "auto"
  <2> DEFINE Z == Digit1(Byte(p, 4))
  <2>1. Z = {2}
    BY <1>1 DEF Digit1
  <2>2. Int32(Z) = {2}
    BY <2>1 DEF Int32, ZeroIfNaN, NaN
  <2> HIDE DEF Z
  <2>3. ~Bit(Z, 3) /\ ~Bit(Z, 2) /\ Bit(Z, 1)
    BY <2>2 DEF Bit
  <2> QED
    BY <2>3 DEF AutopilotMode, Z
<1>6. UnlessZero("steering.autopilot.target.headingMagnetic", {0}, 2) = {}
  BY DEF UnlessZero
<1>7. Tells(Autopilot(p, stamp), stamp,
            UnlessZero("navigation.headingMagnetic", {r.heading}, 1)
            \cup {} \cup UnlessZero("steering.rudderAngle", {r.rudder}, 1)
            \cup {PV("steering.autopilot.state", Text("auto"))})
  BY <1>2, <1>3, <1>4, <1>5, <1>6, AutopilotTells
<1> QED
  BY <1>7 DEF HeadingRudder

(* What the server shows after a sentence. *)
LEMMA Shown ==
  ASSUME clock \in MaxDelay .. MaxClock, NEW delay \in 0 .. MaxDelay,
         NEW m \in Sentences(clock, delay), Consume(m),
         NEW path \in Watched, latest[path].stamp \in Int
  PROVE  LET kvs   == Answer(m, clock)
             stamp == IF Demo THEN clock ELSE RunHook(m, clock, clock).stamp
             told  == {i \in DOMAIN kvs \ {0} : kvs[i].path = path}
         IN  \/ /\ latest'[path] = latest[path]
                /\ told = {} \/ stamp < latest[path].stamp
             \/ /\ stamp >= latest[path].stamp
                /\ stamp \in BeforeTomorrow(clock)
                /\ m.id \notin FixHooks => stamp = clock
                /\ \E i \in told : /\ \A j \in told : j =< i
                                   /\ latest'[path] = [stamp |-> stamp, value |-> kvs[i].value]
<1> DEFINE kvs   == Answer(m, clock)
           stamp == IF Demo THEN clock ELSE RunHook(m, clock, clock).stamp
           told  == {i \in DOMAIN kvs \ {0} : kvs[i].path = path}
<1>1. latest' = Stored(latest, kvs)
  BY DEF Consume
<1>2. CASE kvs = <<>>
  <2>1. DOMAIN kvs = {}
    BY <1>2
  <2>2. latest'[path] = latest[path] /\ told = {}
    BY <1>1, <2>1 DEF Stored
  <2> QED
    BY <2>2
<1>3. CASE kvs # <<>>
  <2>1. /\ stamp \in BeforeTomorrow(clock)
        /\ m.id \notin FixHooks => stamp = clock
        /\ \E n \in Nat : DOMAIN kvs \subseteq 0 .. n
        /\ \A i \in DOMAIN kvs : /\ kvs[i].context = (IF i = 0 THEN "sources" ELSE Own)
                                 /\ i # 0 => kvs[i].stamp = stamp
    BY <1>3, AnswerSound
  <2> HIDE DEF kvs, stamp
  <2>2. PICK n \in Nat : DOMAIN kvs \subseteq 0 .. n
    BY <2>1
  <2>3. stamp \in Int
    BY <2>1 DEF BeforeTomorrow
  <2>4. IF told = {} \/ stamp < latest[path].stamp
        THEN Stored(latest, kvs)[path] = latest[path]
        ELSE \E i \in told : /\ \A j \in told : j =< i
                             /\ Stored(latest, kvs)[path]
                                  = [stamp |-> stamp, value |-> kvs[i].value]
    BY <2>1, <2>2, <2>3, StoredCases
  <2> HIDE DEF told
  <2>5. CASE told = {} \/ stamp < latest[path].stamp
    BY <1>1, <2>4, <2>5 DEF told, kvs, stamp
  <2>6. CASE ~(told = {} \/ stamp < latest[path].stamp)
    <3>1. stamp >= latest[path].stamp
      BY <2>3, <2>6
    <3>2. \E i \in told : /\ \A j \in told : j =< i
                          /\ latest'[path] = [stamp |-> stamp, value |-> kvs[i].value]
      BY <1>1, <2>4, <2>6
    <3> QED
      BY <2>1, <3>1, <3>2 DEF told, kvs, stamp
  <2> QED
    BY <2>5, <2>6
<1> QED
  BY <1>2, <1>3

-----------------------------------------------------------------------------
(* The rudder *)

(* No fix tells a rudder angle. *)
LEMMA FixPaths ==
  ASSUME NEW m, NEW now, NEW stamp, m.id \in FixHooks,
         RunHook(m, stamp, now).kind = "delta",
         NEW i \in DOMAIN RunHook(m, stamp, now).values
  PROVE  RunHook(m, stamp, now).values[i].path # Rudder
<1>1. CASE m.id = "RMC"
  <2>1. RMC(m.parts, now).kind = "delta" /\ i \in DOMAIN RMC(m.parts, now).values
    BY <1>1, Dispatch
  <2>2. RMC(m.parts, now).values[i].path # Rudder
    BY <2>1 DEF RMC, DeltaOf, PV, Rudder, Throw
  <2> QED
    BY <1>1, <2>2, Dispatch
<1>2. CASE m.id = "GLL"
  <2>1. GLL(m.parts, now).kind = "delta" /\ i \in DOMAIN GLL(m.parts, now).values
    BY <1>2, Dispatch
  <2>2. GLL(m.parts, now).values[i].path # Rudder
    BY <2>1 DEF GLL, DeltaOf, PV, Rudder, Throw, Null
  <2> QED
    BY <1>2, <2>2, Dispatch
<1>3. CASE m.id = "GGA"
  <2>1. GGA(m.parts, now).kind = "delta" /\ i \in DOMAIN GGA(m.parts, now).values
    BY <1>3, Dispatch
  <2>2. GGA(m.parts, now).values[i].path # Rudder
    <3> DEFINE p == m.parts
               values == <<
                 PV("navigation.position", PositionAt(p, 1)),
                 PV("navigation.gnss.methodQuality", Quality(float(At(p, 5)))),
                 GnssNumber("navigation.gnss.satellites", At(p, 6)),
                 GnssNumber("navigation.gnss.antennaAltitude", At(p, 8)),
                 GnssNumber("navigation.gnss.horizontalDilution", At(p, 7)),
                 GnssNumber("navigation.gnss.geoidalSeparation", At(p, 11)),
                 GnssNumber("navigation.gnss.differentialAge", At(p, 12)),
                 GnssNumber("navigation.gnss.differentialReference", At(p, 13))>>
    <3>1. \A j \in DOMAIN values : values[j].path # Rudder
      BY DEF PV, GnssNumber, Rudder
    <3>2. GGA(p, now).values = RemoveInvalid(values)
      BY <2>1 DEF GGA, DeltaOf, Null, Throw
    <3> HIDE DEF values
    <3>3. \A j \in DOMAIN RemoveInvalid(values) :
             j \in DOMAIN values /\ RemoveInvalid(values)[j] = values[j]
      BY DEF RemoveInvalid
    <3> QED
      BY <2>1, <3>1, <3>2, <3>3
  <2> QED
    BY <1>3, <2>2, Dispatch
<1> QED
  BY <1>1, <1>2, <1>3 DEF FixHooks

(* A rudder angle is never dated ahead of the clock. *)
RudderTimely == Rudder \in Watched => latest[Rudder].stamp =< clock

LEMMA RudderTimelyInit == Init => RudderTimely
BY TicksAssumption, ParserAssumption DEF Init, RudderTimely, NoPoint

LEMMA RudderTimelyConsume ==
  ASSUME Inv, RudderTimely, NEW delay \in 0 .. MaxDelay, NEW m \in Sentences(clock, delay),
         Consume(m)
  PROVE  RudderTimely'
<1> SUFFICES ASSUME Rudder \in Watched PROVE latest'[Rudder].stamp =< clock
  BY DEF RudderTimely, Consume
<1> DEFINE kvs   == Answer(m, clock)
           result == RunHook(m, clock, clock)
           stamp == IF Demo THEN clock ELSE result.stamp
           told  == {i \in DOMAIN kvs \ {0} : kvs[i].path = Rudder}
<1>1. /\ clock \in MaxDelay .. MaxClock /\ clock \in Int /\ latest[Rudder].stamp \in Int
      /\ latest[Rudder].stamp =< clock
  BY ClockType DEF Inv, ShownTimes, BeforeTomorrow, RudderTimely
<1>2. \/ latest'[Rudder] = latest[Rudder]
      \/ /\ m.id \notin FixHooks => stamp = clock
         /\ \E i \in told : latest'[Rudder] = [stamp |-> stamp, value |-> kvs[i].value]
  BY <1>1, Shown
<1>3. CASE latest'[Rudder] = latest[Rudder]
  BY <1>1, <1>3
<1>4. ASSUME NEW i \in told, m.id \notin FixHooks => stamp = clock,
             latest'[Rudder] = [stamp |-> stamp, value |-> kvs[i].value]
      PROVE  latest'[Rudder].stamp =< clock
  <2>1. i \in DOMAIN kvs /\ i # 0 /\ kvs[i].path = Rudder
    OBVIOUS
  <2>2. /\ m.lead = "$" /\ m.id \in Supported /\ result.kind = "delta"
        /\ i \in Sendable(result.values) /\ kvs[i].path = result.values[i].path
    <3>1. IF m.lead = "$" /\ m.id \in Supported /\ result.kind = "delta"
          THEN /\ DOMAIN kvs = {0} \cup Sendable(result.values)
               /\ \A j \in Sendable(result.values) \ {0} :
                     kvs[j].path = result.values[j].path
          ELSE kvs = <<>>
      BY Answers
    <3> HIDE DEF kvs, result
    <3>2. kvs # <<>>
      BY <2>1
    <3> QED
      BY <2>1, <3>1, <3>2
  <2>3. i \in DOMAIN result.values
    BY <2>2 DEF Sendable
  <2>4. m.id \notin FixHooks
    BY <2>1, <2>2, <2>3, FixPaths
  <2>5. stamp = clock
    BY <1>4, <2>4
  <2> HIDE DEF stamp, kvs, told
  <2> QED
    BY <1>1, <1>4, <2>5
<1> QED
  BY <1>2, <1>3, <1>4

LEMMA RudderTimelyNext == Inv /\ RudderTimely /\ [Next]_vars => RudderTimely'
<1> SUFFICES ASSUME Inv, RudderTimely, [Next]_vars PROVE RudderTimely'
  OBVIOUS
<1>1. CASE Tick
  <2>1. clock \in Int /\ \A path \in Watched : latest[path].stamp \in Int
    BY ParserAssumption DEF Inv, ShownTimes, BeforeTomorrow
  <2> QED
    BY <1>1, <2>1 DEF Tick, RudderTimely
<1>2. ASSUME NEW delay \in 0 .. MaxDelay, NEW m \in Sentences(clock, delay), Consume(m)
      PROVE  RudderTimely'
  BY <1>2, RudderTimelyConsume
<1>3. CASE UNCHANGED vars
  BY <1>3 DEF vars, RudderTimely
<1> QED
  BY <1>1, <1>2, <1>3 DEF Next

(* What a datagram with the rudder tells: the heading, the angle and the mode. *)
LEMMA RudderTells ==
  ASSUME NEW r \in ReadingSet, NEW t, NEW m \in Instruments(r, t), m.id = "ALK",
         m.parts[1] \in {Num(132), Num(156)}, NEW stamp, NEW now
  PROVE  /\ m.lead = "$" /\ r.heading % 2 = 0
         /\ \E told : /\ Tells(RunHook(m, stamp, now), stamp, told)
                      /\ told \in {HeadingRudder(r),
                                   HeadingRudder(r) \cup
                                   {PV("steering.autopilot.state", Text("auto"))}}
<1> DEFINE p == m.parts
<1>1. m \in RudderDatagrams(r) /\ r.heading % 2 = 0
  BY RudderSentences
<1>2. RunHook(m, stamp, now) = ALK(p, stamp) /\ m.lead = "$"
  <2>1. \A d \in RudderDatagrams(r) : d.lead = "$"
    BY InstrumentIds
  <2>2. RunHook(m, stamp, now) = ALK(m.parts, stamp)
    BY Dispatch
  <2> QED
    BY <1>1, <2>1, <2>2
<1>3. CASE m = Sentence("ALK", r, <<Num(156), Num(16 * (r.heading \div 90) + 1),
                 Num((r.heading % 90) \div 2), Num(r.rudder % 256)>>)
  <2>1. /\ At(p, 0) = Num(156) /\ At(p, 1) = Num(16 * (r.heading \div 90) + 1)
        /\ At(p, 2) = Num((r.heading % 90) \div 2)
        /\ At(p, 3) = Num(r.rudder % 256)
    BY <1>3 DEF At, Sentence
  <2>2. ALK(p, stamp) = HeadingAndRudder(p, stamp)
    BY <2>1 DEF ALK, Decode, SeatalkTypes, Num, IsNumeric, Undefined, Text
  <2> HIDE DEF p
  <2>3. Tells(HeadingAndRudder(p, stamp), stamp, HeadingRudder(r))
    BY <1>1, <2>1, HeadingAndRudderOf
  <2> QED
    BY <1>1, <1>2, <2>2, <2>3
<1>4. CASE m = Sentence("ALK", r, <<Num(132), Num(16 * (r.heading \div 90) + 6),
                 Num((r.heading % 90) \div 2), Num(0), Num(2), Num(0),
                 Num(r.rudder % 256), Num(0), Num(8)>>)
  <2>1. /\ At(p, 0) = Num(132) /\ At(p, 1) = Num(16 * (r.heading \div 90) + 6)
        /\ At(p, 2) = Num((r.heading % 90) \div 2)
        /\ At(p, 3) = Num(0) /\ At(p, 4) = Num(2) /\ At(p, 5) = Num(0)
        /\ At(p, 6) = Num(r.rudder % 256) /\ At(p, 7) = Num(0) /\ At(p, 8) = Num(8)
        /\ Len(p) = 9
    BY <1>4 DEF At, Sentence
  <2>2. ALK(p, stamp) = Autopilot(p, stamp)
    BY <2>1 DEF ALK, Decode, SeatalkTypes, Num, IsNumeric, Undefined, Text
  <2> HIDE DEF p
  <2>3. Tells(Autopilot(p, stamp), stamp,
              HeadingRudder(r) \cup {PV("steering.autopilot.state", Text("auto"))})
    BY <1>1, <2>1, AutopilotOf
  <2> QED
    BY <1>1, <1>2, <2>2, <2>3
<1> QED
  BY <1>1, <1>3, <1>4 DEF RudderDatagrams

(* The values of the rudder's path, in what is sent for such a datagram. *)
LEMMA RudderSent ==
  ASSUME NEW r \in ReadingSet, NEW t, NEW m \in Instruments(r, t), m.id = "ALK",
         m.parts[1] \in {Num(132), Num(156)}, NEW now
  PROVE  LET kvs  == Answer(m, now)
             told == {i \in DOMAIN kvs \ {0} : kvs[i].path = Rudder}
         IN  IF r.rudder = 0 THEN told = {}
             ELSE told # {} /\ \A i \in told : kvs[i].value = Degrees(r.rudder)
<1> DEFINE kvs  == Answer(m, now)
           told == {i \in DOMAIN kvs \ {0} : kvs[i].path = Rudder}
<1>1. PICK said : /\ Tells(RunHook(m, now, now), now, said)
                  /\ said \in {HeadingRudder(r), HeadingRudder(r) \cup
                               {PV("steering.autopilot.state", Text("auto"))}}
  BY RudderTells
<1>2. m.lead = "$" /\ m.id \in Supported
  BY RudderTells DEF Supported
<1>3. /\ \A i \in DOMAIN kvs \ {0} :
            \E pv \in said : kvs[i].path = pv.path /\ kvs[i].value = pv.value
      /\ \A pv \in said : pv.value # Undefined =>
            \E i \in DOMAIN kvs \ {0} : kvs[i].path = pv.path /\ kvs[i].value = pv.value
  BY <1>1, <1>2, SentTold
<1> DEFINE angle == Measure({r.rudder}, 1, "deg", "rad")
<1>4. \A pv \in said : pv.path = Rudder => r.rudder # 0 /\ pv.value = angle
  BY <1>1 DEF HeadingRudder, UnlessZero, PV, Rudder
<1>5. r.rudder # 0 => PV(Rudder, angle) \in said
  <2>1. r.rudder # 0 => {r.rudder} \notin {NaN, {0}}
    BY DEF NaN
  <2> QED
    BY <1>1, <2>1 DEF HeadingRudder, UnlessZero, Rudder
<1>6. angle # Undefined /\ angle = Degrees(r.rudder)
  BY DEF Measure, Undefined, Text, Degrees, Quantity
<1> HIDE DEF angle, kvs
<1>7. CASE r.rudder = 0
  <2>1. told = {}
    BY <1>3, <1>4, <1>7
  <2> QED
    BY <1>7, <2>1 DEF kvs
<1>8. CASE r.rudder # 0
  <2>1. PV(Rudder, angle) \in said /\ PV(Rudder, angle).path = Rudder
        /\ PV(Rudder, angle).value = angle
    BY <1>5, <1>8 DEF PV
  <2>2. told # {}
    BY <1>3, <1>6, <2>1
  <2>3. \A i \in told : kvs[i].value = Degrees(r.rudder)
    BY <1>3, <1>4, <1>6
  <2> QED
    BY <1>8, <2>2, <2>3 DEF kvs
<1> QED
  BY <1>7, <1>8

(* A datagram with the rudder angle leaves that angle as the one shown, to both
   sides and whatever came before, if rudder angles are kept at all; a rudder
   amidships leaves the angle of before. *)
THEOREM RudderIsFollowed == ASSUME Rudder \in Watched PROVE Spec => RudderFollows
<1> DEFINE A == clock' = clock /\ RudderSentence(message') =>
                    latest'[Rudder].value =
                        IF message'.reading.rudder = 0 THEN latest[Rudder].value
                        ELSE Degrees(message'.reading.rudder)
<1>1. Inv /\ RudderTimely /\ [Next]_vars => [A]_vars
  <2> SUFFICES ASSUME Inv, RudderTimely, Next PROVE A
    OBVIOUS
  <2>1. CASE Tick
    <3>1. clock' # clock
      BY <2>1, ParserAssumption DEF Tick, Inv
    <3> QED
      BY <3>1
  <2>2. ASSUME NEW delay \in 0 .. MaxDelay, NEW m \in Sentences(clock, delay), Consume(m)
        PROVE  A
    <3> SUFFICES ASSUME RudderSentence(m)
                 PROVE  latest'[Rudder].value =
                            IF m.reading.rudder = 0 THEN latest[Rudder].value
                            ELSE Degrees(m.reading.rudder)
      BY <2>2 DEF Consume
    <3> DEFINE kvs   == Answer(m, clock)
               stamp == IF Demo THEN clock ELSE RunHook(m, clock, clock).stamp
               told  == {i \in DOMAIN kvs \ {0} : kvs[i].path = Rudder}
    <3>1. /\ clock \in MaxDelay .. MaxClock /\ clock \in Int
          /\ latest[Rudder].stamp \in Int /\ latest[Rudder].stamp =< clock
      BY ClockType DEF Inv, ShownTimes, BeforeTomorrow, RudderTimely
    <3>2. m.reading \in ReadingSet /\ m \in Instruments(m.reading, m.taken)
      BY <3>1, ShipSentence DEF RudderSentence
    <3>3. IF m.reading.rudder = 0 THEN told = {}
          ELSE told # {} /\ \A i \in told : kvs[i].value = Degrees(m.reading.rudder)
      BY <3>2, RudderSent DEF RudderSentence
    <3>4. \/ /\ latest'[Rudder] = latest[Rudder]
             /\ told = {} \/ stamp < latest[Rudder].stamp
          \/ /\ stamp >= latest[Rudder].stamp
             /\ m.id \notin FixHooks => stamp = clock
             /\ \E i \in told : latest'[Rudder] = [stamp |-> stamp, value |-> kvs[i].value]
      BY <2>2, <3>1, Shown
    <3>5. stamp = clock
      <4>1. m.id = "ALK" /\ m.id \notin FixHooks
        BY DEF RudderSentence, FixHooks
      <4>2. RunHook(m, clock, clock).stamp = clock
        <5>1. PICK said : Tells(RunHook(m, clock, clock), clock, said)
          BY <3>2, RudderTells DEF RudderSentence
        <5> QED
          BY <5>1 DEF Tells, Delta, DeltaOf
      <4> QED
        BY <4>2
    <3> HIDE DEF kvs, stamp
    <3>6. CASE m.reading.rudder = 0
      BY <3>3, <3>4, <3>6
    <3>7. CASE m.reading.rudder # 0
      <4>1. told # {} /\ ~(stamp < latest[Rudder].stamp)
        BY <3>1, <3>3, <3>5, <3>7
      <4>2. PICK i \in told : latest'[Rudder] = [stamp |-> stamp, value |-> kvs[i].value]
        BY <3>4, <4>1
      <4>3. kvs[i].value = Degrees(m.reading.rudder)
        BY <3>3, <3>7
      <4> HIDE DEF told
      <4> QED
        BY <3>7, <4>2, <4>3
    <3> QED
      BY <3>6, <3>7
  <2> QED
    BY <2>1, <2>2 DEF Next
<1> QED
  BY <1>1, Invariance, RudderTimelyInit, RudderTimelyNext, PTL DEF Spec, RudderFollows

-----------------------------------------------------------------------------
(* Fixes *)

(* A hemisphere letter gives a coordinate its sign back. *)
LEMMA CoordinateOf ==
  ASSUME NEW n \in Int
  PROVE  /\ coordinate(Num(Abs(n)), Pole(n, "N", "S")) = {n}
         /\ coordinate(Num(Abs(n)), Pole(n, "E", "W")) = {n}
<1>1. IsNumeric(Num(Abs(n))) /\ Num(Abs(n)).n = Abs(n)
  BY DEF IsNumeric, Num
<1>2. Pole(n, "N", "S") \in {Text("S"), Text("W")} <=> n < 0
  BY DEF Pole, Text
<1>3. Pole(n, "E", "W") \in {Text("S"), Text("W")} <=> n < 0
  BY DEF Pole, Text
<1>4. (IF n < 0 THEN -Abs(n) ELSE Abs(n)) = n
  BY DEF Abs
<1> QED
  BY <1>1, <1>2, <1>3, <1>4 DEF coordinate

(* What a fix should show. *)
Place(r) == Position({r.lat}, {r.lon})

(* The one value of the position's path. *)
OnePoint(values, pos) ==
    /\ \E n \in Nat : DOMAIN values \subseteq 1 .. n
    /\ 1 \in DOMAIN values /\ values[1] = PV(Point, pos)
    /\ \A i \in DOMAIN values : values[i].path = Point => i = 1

(* The time of day and the day make the time. *)
LEMMA TimeOfDay ==
  ASSUME NEW t \in Int, NEW now \in Int, t =< now
  PROVE  /\ (t % DayTicks) + (t \div DayTicks) * DayTicks = t
         /\ (t % DayTicks) + DayTicks * (now \div DayTicks) \in Int
         /\ (t % DayTicks) + DayTicks * (now \div DayTicks) >= t
<1>1. /\ DayTicks \in Nat \ {0} /\ t % DayTicks \in Int /\ t \div DayTicks \in Int
      /\ now \div DayTicks \in Int
  BY Days
<1>2. (t % DayTicks) + DayTicks * (t \div DayTicks) = t
  BY <1>1
<1>3. /\ DayTicks * (t \div DayTicks) = (t \div DayTicks) * DayTicks
      /\ DayTicks * (t \div DayTicks) \in Int
      /\ DayTicks * (now \div DayTicks) \in Int
  BY <1>1
<1>4. DayTicks * (t \div DayTicks) =< DayTicks * (now \div DayTicks)
  <2>1. t \div DayTicks =< now \div DayTicks
    BY TicksAssumption
  <2>2. (t \div DayTicks) * DayTicks =< DayTicks * (now \div DayTicks)
    BY ONLY <1>1, <2>1, Scaled
  <2> QED
    BY <1>3, <2>2
<1> QED
  BY <1>1, <1>2, <1>3, <1>4

LEMMA StampToday ==
  ASSUME NEW t \in Int, NEW now \in Int, t =< now
  PROVE  LET stamp == StampOf(Num(t % DayTicks), Today(now), now)
         IN  stamp # NaN /\ (CHOOSE x \in stamp : TRUE) >= t
                         /\ (CHOOSE x \in stamp : TRUE) \in Int
<1> DEFINE h == t % DayTicks
           day == DayTicks * (now \div DayTicks)
<1>1. h \in Int /\ day \in Int /\ Today(now) = {day} /\ h + day \in Int /\ h + day >= t
  <2>1. h \in Int /\ day \in Int /\ Today(now) = {day}
    BY Days, TodayFirst
  <2>2. h + day \in Int /\ h + day >= t
    BY TimeOfDay
  <2> QED
    BY <2>1, <2>2
<1> HIDE DEF h, day
<1>2. ~isEmpty(Num(h)) /\ float(Num(h)) = {h}
  BY DEF isEmpty, float, Num, Empty, Undefined, Text, IsNumeric
<1>3. StampOf(Num(h), {day}, now) = Plus({h}, {day})
  BY <1>2 DEF StampOf
<1>4. Plus({h}, {day}) = {h + day}
  BY DEF Plus
<1> DEFINE k == h + day
<1>5. StampOf(Num(h), Today(now), now) = {k} /\ k \in Int /\ k >= t
  BY <1>1, <1>3, <1>4
<1> HIDE DEF k
<1>6. (CHOOSE x \in {k} : TRUE) = k
  OBVIOUS
<1> QED
  BY <1>5, <1>6 DEF h, NaN

LEMMA StampDated ==
  ASSUME NEW t \in Int, NEW now
  PROVE  timestamp(Num(t % DayTicks), Day(t), now) = {t}
<1> DEFINE h == t % DayTicks
           d == t \div DayTicks
           days == d * DayTicks
<1>1. h \in Int /\ d \in Int /\ h + days = t
  BY Days, TimeOfDay
<1> HIDE DEF h, d
<1>2. ~isEmpty(Num(h)) /\ float(Num(h)) = {h} /\ ~isEmpty(Num(d)) /\ float(Num(d)) = {d}
  BY DEF isEmpty, float, Num, Empty, Undefined, Text, IsNumeric
<1>3. Times(float(Num(d)), DayTicks) = {days}
  BY <1>2 DEF Times
<1> HIDE DEF days
<1>4. Plus({h}, {days}) = {h + days}
  BY DEF Plus
<1>5. timestamp(Num(h), Num(d), now) = {h + days}
  BY <1>2, <1>3, <1>4 DEF timestamp, StampOf
<1> QED
  BY <1>1, <1>5 DEF h, d, Day

(* The hooks of fixes, given the sentence of a reading *)

LEMMA StampUndated ==
  ASSUME NEW t, NEW now
  PROVE  timestamp(Num(t), Empty, now) # NaN
<1> DEFINE day == DayTicks * (now \div DayTicks)
           early == day + (-MonthTicks)
<1>1. ~isEmpty(Num(t)) /\ float(Num(t)) = {t} /\ isEmpty(Empty)
  BY DEF isEmpty, float, Num, Empty, Undefined, Text, IsNumeric
<1>2. Plus(Today(now), {-MonthTicks}) = {early}
  BY DEF Plus, Today
<1> HIDE DEF early
<1>3. Plus({t}, {early}) = {t + early}
  BY DEF Plus
<1>4. timestamp(Num(t), Empty, now) = {t + early}
  BY <1>1, <1>2, <1>3 DEF timestamp, StampOf
<1> QED
  BY <1>4 DEF NaN

(* The position of a reading, in four fields behind one another. *)
LEMMA PlaceRead ==
  ASSUME NEW r \in ReadingSet, NEW p, NEW i \in Nat,
         At(p, i) = Num(Abs(r.lat)), At(p, i + 1) = Pole(r.lat, "N", "S"),
         At(p, i + 2) = Num(Abs(r.lon)), At(p, i + 3) = Pole(r.lon, "E", "W")
  PROVE  PositionAt(p, i) = Place(r) /\ HasPosition(p, i)
<1>1. r.lat \in Int /\ r.lon \in Int
  BY DEF ReadingSet
<1>2. PositionAt(p, i) = Place(r)
  BY <1>1, CoordinateOf DEF PositionAt, Place
<1>3. \A n, north, south : Num(n) # Undefined
  BY DEF Num, Undefined, Text
<1>4. \A n : Pole(n, "N", "S") # Undefined /\ Pole(n, "E", "W") # Undefined
  BY DEF Pole, Undefined, Text
<1>5. \A j \in i .. i + 3 : j \in {i, i + 1, i + 2, i + 3}
  OBVIOUS
<1>6. HasPosition(p, i)
  BY <1>3, <1>4, <1>5 DEF HasPosition
<1> QED
  BY <1>2, <1>6

LEMMA RmcTells ==
  ASSUME NEW r \in ReadingSet, NEW t \in Int, NEW status, NEW date, NEW now,
         date \in {Day(t), Empty}
  PROVE  LET m == Rmc(r, t, status, date)
             result == RunHook(m, now, now)
         IN  /\ m.lead = "$" /\ m.id \in Supported
             /\ result = DeltaOf(Own, result.stamp, result.values)
             /\ OnePoint(result.values, Place(r))
             /\ date # Empty => result.stamp = t
<1> DEFINE m == Rmc(r, t, status, date)
           p == m.parts
           stamp == timestamp(At(p, 0), At(p, 8), now)
<1>1. /\ At(p, 0) = Num(t % DayTicks) /\ At(p, 8) = date
      /\ At(p, 2) = Num(Abs(r.lat)) /\ At(p, 3) = Pole(r.lat, "N", "S")
      /\ At(p, 4) = Num(Abs(r.lon)) /\ At(p, 5) = Pole(r.lon, "E", "W")
      /\ At(p, 10) = Pole(r.variation, "E", "W") /\ m.id = "RMC" /\ m.lead = "$"
  BY DEF Rmc, Fix, Sentence, At, NS, EW
<1>2. PositionAt(p, 2) = Place(r) /\ HasPosition(p, 2) /\ At(p, 10) # Undefined
  <2>1. Pole(r.variation, "E", "W") # Undefined
    BY DEF Pole, Undefined, Text
  <2> QED
    BY <1>1, <2>1, PlaceRead
<1>3. /\ date = Empty => stamp # NaN
      /\ date # Empty => stamp = {t}
  <2>1. CASE date = Day(t)
    <3>1. stamp = {t}
      BY <1>1, <2>1, StampDated
    <3>2. date # Empty
      BY <2>1 DEF Day, Num, Empty, Text
    <3> QED
      BY <3>1, <3>2
  <2>2. CASE date = Empty
    BY <1>1, <2>2, StampUndated
  <2> QED
    BY <2>1, <2>2
<1> DEFINE time == CHOOSE x \in stamp : TRUE
           values == <<
               PV("navigation.position", PositionAt(p, 2)),
               PV("navigation.courseOverGroundTrue", Deg(ZeroIfNaN(float(At(p, 7))))),
               PV("navigation.speedOverGround", Knots(ZeroUnlessPositive(float(At(p, 6))))),
               PV("navigation.magneticVariation",
                  Deg(magneticVariaton(At(p, 9), At(p, 10)))),
               PV("navigation.magneticVariationAgeOfService", Measure(stamp, 1, "s", "s")),
               PV("navigation.datetime", Measure(stamp, 1, "s", "s"))>>
<1>4. stamp # NaN
  BY <1>3 DEF NaN
<1>5. RMC(p, now) = DeltaOf(Own, time, values)
  BY <1>2, <1>4 DEF RMC
<1>6. OnePoint(values, Place(r))
  <2>1. DOMAIN values = 1 .. 6 /\ values[1] = PV(Point, Place(r))
    BY <1>2 DEF Point
  <2>2. \A i \in DOMAIN values : values[i].path = Point => i = 1
    BY DEF PV, Point
  <2> QED
    BY <2>1, <2>2 DEF OnePoint
<1>7. date # Empty => time = t
  BY <1>3
<1>8. RunHook(m, now, now) = RMC(p, now) /\ m.id \in Supported
  BY <1>1, Dispatch DEF Supported
<1> HIDE DEF values, time, m
<1> QED
  BY <1>1, <1>5, <1>6, <1>7, <1>8 DEF DeltaOf, m

LEMMA GllTells ==
  ASSUME NEW r \in ReadingSet, NEW t \in Int, NEW now \in Int, t =< now
  PROVE  LET m == Gll(r, t, "A")
             result == RunHook(m, now, now)
         IN  /\ m.lead = "$" /\ m.id \in Supported
             /\ result = DeltaOf(Own, result.stamp, result.values)
             /\ OnePoint(result.values, Place(r))
             /\ result.stamp >= t
<1> DEFINE m == Gll(r, t, "A")
           p == m.parts
           stamp == StampOf(At(p, 4), Today(now), now)
<1>1. /\ At(p, 4) = Num(t % DayTicks) /\ At(p, 5) = Text("A")
      /\ At(p, 0) = Num(Abs(r.lat)) /\ At(p, 1) = Pole(r.lat, "N", "S")
      /\ At(p, 2) = Num(Abs(r.lon)) /\ At(p, 3) = Pole(r.lon, "E", "W")
      /\ Last(p) = Text("D") /\ m.id = "GLL" /\ m.lead = "$"
  BY DEF Gll, Fix, Sentence, At, NS, EW, Last
<1>2. PositionAt(p, 0) = Place(r) /\ HasPosition(p, 0)
  BY <1>1, PlaceRead
<1>3. stamp # NaN /\ (CHOOSE x \in stamp : TRUE) >= t
  BY <1>1, StampToday
<1> DEFINE time == CHOOSE x \in stamp : TRUE
           values == <<PV("navigation.position", PositionAt(p, 0))>>
<1>4. /\ ~isEmpty(Last(p)) /\ At(p, 5) # Text("V") /\ At(p, 4) # Undefined
  <2>1. ~isEmpty(Text("D")) /\ Text("A") # Text("V")
    BY DEF isEmpty, Empty, Undefined, Text
  <2>2. \A n : Num(n) # Undefined
    BY DEF Num, Undefined, Text
  <2> QED
    BY <1>1, <2>1, <2>2
<1>5. GLL(p, now) = DeltaOf(Own, time, values)
  BY <1>2, <1>3, <1>4 DEF GLL
<1>6. OnePoint(values, Place(r))
  <2>1. DOMAIN values = 1 .. 1 /\ values[1] = PV(Point, Place(r))
    BY <1>2 DEF Point
  <2> QED
    BY <2>1 DEF OnePoint
<1>7. time >= t
  BY <1>3
<1>8. RunHook(m, now, now) = GLL(p, now) /\ m.id \in Supported
  BY <1>1, Dispatch DEF Supported
<1> HIDE DEF values, time, m
<1> QED
  BY <1>1, <1>5, <1>6, <1>7, <1>8 DEF DeltaOf, m

(* What is removed from the values of a GGA never is the first, if that is a position. *)
LEMMA FirstStays ==
  ASSUME NEW values, NEW n \in Nat, DOMAIN values = 1 .. n, n > 0,
         ~InvalidValue(values[1].value)
  PROVE  1 \in DOMAIN RemoveInvalid(values)
<1> DEFINE toRemove == {i \in DOMAIN values : InvalidValue(values[i].value)}
           Moved(i) == Cardinality({j \in toRemove : j < i})
           removed  == {i + Moved(i) : i \in toRemove}
<1>1. \A i \in toRemove : i \in Nat /\ i > 1
  OBVIOUS
<1>2. IsFiniteSet(1 .. n)
  BY FS_Interval
<1>3. \A i : Moved(i) \in Nat
  <2> SUFFICES ASSUME NEW i PROVE Moved(i) \in Nat
    OBVIOUS
  <2> DEFINE before == {j \in toRemove : j < i}
  <2>1. before \subseteq 1 .. n
    OBVIOUS
  <2> HIDE DEF before
  <2>2. IsFiniteSet(before)
    BY <1>2, <2>1, FS_Subset
  <2>3. Cardinality(before) \in Nat
    BY <2>2, FS_CardinalityType
  <2> QED
    BY <2>3 DEF before
<1> HIDE DEF toRemove, Moved
<1>4. 1 \notin removed
  BY <1>1, <1>3
<1>5. DOMAIN RemoveInvalid(values) = DOMAIN values \ removed
  BY DEF RemoveInvalid, toRemove, Moved
<1> HIDE DEF removed
<1> QED
  BY <1>4, <1>5

(* A whole GGA has two empty fields. *)
LEMMA GgaEmptyFields ==
  ASSUME NEW r \in ReadingSet, NEW t
  PROVE  EmptyFields(Gga(r, t).parts) =< 3 /\ ~(EmptyFields(Gga(r, t).parts) > 3)
<1> DEFINE p == Gga(r, t).parts
<1>1. /\ DOMAIN p = 1 .. 14
      /\ p[1] = Num(t % DayTicks) /\ p[2] = Num(Abs(r.lat)) /\ p[4] = Num(Abs(r.lon))
      /\ p[3] = Pole(r.lat, "N", "S") /\ p[5] = Pole(r.lon, "E", "W")
      /\ p[6] = Num(1) /\ p[7] = Num(7) /\ p[8] = Num(2) /\ p[9] = Num(50)
      /\ p[10] = Text("M") /\ p[11] = Num(48) /\ p[12] = Text("M")
  BY DEF Gga, Fix, Sentence, NS, EW
<1> HIDE DEF p
<1>2. \A n : ~isEmpty(Num(n))
  BY DEF isEmpty, Empty, Undefined, Num, Text
<1>3. \A n : ~isEmpty(Pole(n, "N", "S")) /\ ~isEmpty(Pole(n, "E", "W"))
  BY DEF isEmpty, Empty, Undefined, Pole, Text
<1>4. ~isEmpty(Text("M"))
  BY DEF isEmpty, Empty, Undefined, Text
<1>5. {i \in DOMAIN p : isEmpty(p[i])} \subseteq 13 .. 14
  <2>1. \A i \in 1 .. 12 : i \in {1, 2, 3, 4, 5, 6, 7, 8, 9, 10, 11, 12}
    OBVIOUS
  <2>2. \A i \in 1 .. 12 : ~isEmpty(p[i])
    BY <1>1, <1>2, <1>3, <1>4, <2>1
  <2> QED
    BY <1>1, <2>2
<1> DEFINE E == {i \in DOMAIN p : isEmpty(p[i])}
           T == 13 .. 14
<1>6. IsFiniteSet(T) /\ Cardinality(T) = 2
  <2>1. 13 \in Int /\ 14 \in Int /\ ~(13 > 14) /\ (14 - 13) + 1 = 2
    OBVIOUS
  <2>2. IsFiniteSet(13 .. 14)
        /\ Cardinality(13 .. 14) = IF 13 > 14 THEN 0 ELSE (14 - 13) + 1
    BY ONLY FS_Interval, <2>1, Zenon
  <2> QED
    BY <2>1, <2>2
<1>7. Cardinality(E) =< 2 /\ Cardinality(E) \in Nat
  <2>1. E \subseteq T
    BY <1>5
  <2> HIDE DEF E, T
  <2>2. IsFiniteSet(E) /\ Cardinality(E) =< Cardinality(T)
    BY <1>6, <2>1, FS_Subset
  <2> QED
    BY <1>6, <2>2, FS_CardinalityType
<1> HIDE DEF E
<1> QED
  BY <1>7 DEF EmptyFields, E, p

LEMMA GgaTells ==
  ASSUME NEW r \in ReadingSet, NEW t \in Int, NEW now \in Int, t =< now
  PROVE  LET m == Gga(r, t)
             result == RunHook(m, now, now)
         IN  /\ m.lead = "$" /\ m.id \in Supported
             /\ result = DeltaOf(Own, result.stamp, result.values)
             /\ OnePoint(result.values, Place(r))
             /\ result.stamp >= t
<1> DEFINE m == Gga(r, t)
           p == m.parts
           stamp == StampOf(At(p, 0), Today(now), now)
<1>1. /\ At(p, 0) = Num(t % DayTicks)
      /\ At(p, 1) = Num(Abs(r.lat)) /\ At(p, 2) = Pole(r.lat, "N", "S")
      /\ At(p, 3) = Num(Abs(r.lon)) /\ At(p, 4) = Pole(r.lon, "E", "W")
      /\ m.id = "GGA" /\ m.lead = "$"
  BY DEF Gga, Fix, Sentence, At, NS, EW
<1>2. PositionAt(p, 1) = Place(r) /\ HasPosition(p, 1)
  BY <1>1, PlaceRead
<1>3. stamp # NaN /\ (CHOOSE x \in stamp : TRUE) >= t
  BY <1>1, StampToday
<1> DEFINE time == CHOOSE x \in stamp : TRUE
           all == <<
               PV("navigation.position", PositionAt(p, 1)),
               PV("navigation.gnss.methodQuality", Quality(float(At(p, 5)))),
               GnssNumber("navigation.gnss.satellites", At(p, 6)),
               GnssNumber("navigation.gnss.antennaAltitude", At(p, 8)),
               GnssNumber("navigation.gnss.horizontalDilution", At(p, 7)),
               GnssNumber("navigation.gnss.geoidalSeparation", At(p, 11)),
               GnssNumber("navigation.gnss.differentialAge", At(p, 12)),
               GnssNumber("navigation.gnss.differentialReference", At(p, 13))>>
           values == RemoveInvalid(all)
<1>4. At(p, 0) # Undefined /\ ~(EmptyFields(p) > 3) /\ EmptyFields(p) =< 3
  <2>1. \A n : Num(n) # Undefined
    BY DEF Num, Undefined, Text
  <2> QED
    BY <1>1, <2>1, GgaEmptyFields
<1>5. GGA(p, now) = DeltaOf(Own, time, values)
  BY <1>2, <1>3, <1>4 DEF GGA
<1>6. OnePoint(values, Place(r))
  <2>1. DOMAIN all = 1 .. 8 /\ all[1] = PV(Point, Place(r))
    BY <1>2 DEF Point
  <2>2. \A i \in DOMAIN all : all[i].path = Point => i = 1
    BY DEF PV, GnssNumber, Point
  <2>3. ~InvalidValue(all[1].value)
    BY <2>1 DEF InvalidValue, PV, Place, Position, Undefined, Text
  <2> HIDE DEF all
  <2>4. 1 \in DOMAIN values
    <3>1. 8 \in Nat /\ 8 > 0
      OBVIOUS
    <3>2. 1 \in DOMAIN RemoveInvalid(all)
      BY <2>1, <2>3, <3>1, FirstStays
    <3> QED
      BY <3>2
  <2>5. DOMAIN values \subseteq DOMAIN all /\ \A i \in DOMAIN values : values[i] = all[i]
    BY DEF RemoveInvalid
  <2> HIDE DEF values
  <2> QED
    BY <2>1, <2>2, <2>4, <2>5 DEF OnePoint
<1>7. time >= t
  BY <1>3
<1>8. RunHook(m, now, now) = GGA(p, now) /\ m.id \in Supported
  BY <1>1, Dispatch DEF Supported
<1> HIDE DEF values, time, m
<1> QED
  BY <1>1, <1>5, <1>6, <1>7, <1>8 DEF DeltaOf, m

(* What is sent of such a delta. *)
LEMMA PointSent ==
  ASSUME NEW m, NEW now, NEW r, m.lead = "$", m.id \in Supported,
         RunHook(m, now, now) = DeltaOf(Own, RunHook(m, now, now).stamp,
                                        RunHook(m, now, now).values),
         OnePoint(RunHook(m, now, now).values, Place(r))
  PROVE  LET kvs == Answer(m, now)
         IN  /\ {i \in DOMAIN kvs \ {0} : kvs[i].path = Point} = {1}
             /\ kvs[1].value = Place(r)
<1> DEFINE result == RunHook(m, now, now)
           values == result.values
           kvs    == Answer(m, now)
<1>1. result.kind = "delta"
  BY DEF DeltaOf
<1>2. /\ DOMAIN kvs = {0} \cup Sendable(values)
      /\ \A i \in Sendable(values) \ {0} : /\ kvs[i].path = values[i].path
                                           /\ kvs[i].value = values[i].value
  BY <1>1, Answers
<1>3. PICK n \in Nat : DOMAIN values \subseteq 1 .. n
  BY DEF OnePoint
<1>4. /\ 1 \in DOMAIN values /\ values[1].path = Point /\ values[1].value = Place(r)
      /\ \A i \in DOMAIN values : values[i].path = Point => i = 1
  BY DEF OnePoint, PV
<1> HIDE DEF kvs, values
<1>5. Place(r) # Undefined
  BY DEF Place, Position, Undefined, Text
<1>6. 1 \in Sendable(values) /\ Sendable(values) \subseteq DOMAIN values
  BY <1>4, <1>5 DEF Sendable
<1>7. kvs[1].path = Point /\ kvs[1].value = Place(r) /\ 1 \in DOMAIN kvs \ {0}
  BY <1>2, <1>4, <1>6
<1>8. \A i \in DOMAIN kvs \ {0} : kvs[i].path = Point => i = 1
  BY <1>2, <1>4, <1>6
<1> QED
  BY <1>7, <1>8 DEF kvs

(* The fixes: a sentence that is neither void nor without a date. *)
LEMMA FixSentences ==
  ASSUME NEW r \in ReadingSet, NEW t \in Int, NEW m \in Instruments(r, t),
         m.id \in FixHooks, ~Dateless(m), ~Void(m)
  PROVE  \/ m = Gga(r, t)
         \/ m = Gll(r, t, "A")
         \/ \E status \in {"A", "V"} : m = Rmc(r, t, status, Day(t))
<1>1. m \in Fixes(r, t)
  <2>1. FixHooks \cap {"VTG", "VHW", "HDG", "HDT", "HDM", "MWV", "VWR", "DBT", "DPT",
                       "ALK"} = {}
    BY DEF FixHooks
  <2>2. KphOnly(r).id = "VTG"
    BY DEF KphOnly, Sentence
  <2> QED
    BY <2>1, <2>2, InstrumentCases, InstrumentIds
<1>2. Void(Gll(r, t, "V"))
  BY DEF Void, Gll, Fix, Sentence
<1>3. \A status : Dateless(Rmc(r, t, status, Empty))
  BY DEF Dateless, Rmc, Fix, Sentence
<1>4. \/ m \in {Gga(r, t), Gll(r, t, "A"), Gll(r, t, "V")}
      \/ \E status \in {"A", "V"}, date \in {Day(t), Empty} : m = Rmc(r, t, status, date)
  BY <1>1 DEF Fixes
<1> QED
  BY <1>2, <1>3, <1>4

LEMMA FixTells ==
  ASSUME NEW r \in ReadingSet, NEW t \in Int, NEW m \in Instruments(r, t),
         m.id \in FixHooks, ~Dateless(m), ~Void(m), NEW now \in Int, t =< now
  PROVE  LET result == RunHook(m, now, now)
         IN  /\ m.lead = "$" /\ m.id \in Supported
             /\ result = DeltaOf(Own, result.stamp, result.values)
             /\ OnePoint(result.values, Place(r))
             /\ result.stamp >= t
<1>1. CASE m = Gga(r, t)
  BY <1>1, GgaTells
<1>2. CASE m = Gll(r, t, "A")
  BY <1>2, GllTells
<1>3. ASSUME NEW status \in {"A", "V"}, m = Rmc(r, t, status, Day(t))
      PROVE  LET result == RunHook(m, now, now)
             IN  /\ m.lead = "$" /\ m.id \in Supported
                 /\ result = DeltaOf(Own, result.stamp, result.values)
                 /\ OnePoint(result.values, Place(r))
                 /\ result.stamp >= t
  <2>1. Day(t) # Empty
    BY DEF Day, Num, Empty, Text
  <2> QED
    BY <1>3, <2>1, RmcTells
<1> QED
  BY <1>1, <1>2, <1>3, FixSentences

(* A position fix that arrives is what the server shows from then on, but for a void
   GLL and an RMC without a date, unless a later position is shown, or one ahead of
   the clock. *)
THEOREM FixIsFollowed == ASSUME Point \in Watched PROVE Spec => FixIsShown
<1> DEFINE A == clock' = clock /\ IsFix(message') =>
            \/ latest'[Point].value = Position({message'.reading.lat},
                                               {message'.reading.lon})
            \/ latest[Point].stamp > message'.taken
            \/ latest[Point].stamp > clock
            \/ Dateless(message')
            \/ Void(message')
<1>1. Inv /\ [Next]_vars => [A]_vars
  <2> SUFFICES ASSUME Inv, Next PROVE A
    OBVIOUS
  <2>1. CASE Tick
    <3>1. clock' # clock
      BY <2>1, ParserAssumption DEF Tick, Inv
    <3> QED
      BY <3>1
  <2>2. ASSUME NEW delay \in 0 .. MaxDelay, NEW m \in Sentences(clock, delay), Consume(m)
        PROVE  A
    <3> SUFFICES ASSUME IsFix(m), ~Dateless(m), ~Void(m),
                        ~(latest[Point].stamp > m.taken), ~(latest[Point].stamp > clock)
                 PROVE  latest'[Point].value = Place(m.reading)
      BY <2>2 DEF Consume, Place
    <3> DEFINE kvs   == Answer(m, clock)
               stamp == IF Demo THEN clock ELSE RunHook(m, clock, clock).stamp
               told  == {i \in DOMAIN kvs \ {0} : kvs[i].path = Point}
    <3>1. /\ clock \in MaxDelay .. MaxClock /\ clock \in Int
          /\ latest[Point].stamp \in Int
      BY ClockType DEF Inv, ShownTimes, BeforeTomorrow
    <3>2. /\ m.reading \in ReadingSet /\ m \in Instruments(m.reading, m.taken)
          /\ m.taken \in Int /\ m.taken =< clock /\ m.id \in FixHooks
      BY <3>1, ShipSentence DEF IsFix, FixHooks
    <3>3. LET result == RunHook(m, clock, clock)
          IN  /\ m.lead = "$" /\ m.id \in Supported
              /\ result = DeltaOf(Own, result.stamp, result.values)
              /\ OnePoint(result.values, Place(m.reading))
              /\ result.stamp >= m.taken
      BY <3>1, <3>2, FixTells
    <3>4. told = {1} /\ kvs[1].value = Place(m.reading)
      BY <3>3, PointSent
    <3>5. \/ /\ latest'[Point] = latest[Point]
             /\ told = {} \/ stamp < latest[Point].stamp
          \/ \E i \in told : latest'[Point] = [stamp |-> stamp, value |-> kvs[i].value]
      BY <2>2, <3>1, Shown
    <3>6. ~(stamp < latest[Point].stamp)
      <4>1. stamp = clock \/ stamp >= m.taken
        BY <3>3
      <4>2. stamp \in Int
        <5>1. CASE Demo
          BY <3>1, <5>1
        <5>2. CASE ~Demo
          <6> DEFINE result == RunHook(m, clock, clock)
          <6>1. /\ m.parts \in Seq(Field) /\ Timely(m, clock)
                /\ m.id \in Supported \ {"VDM", "VDO"}
            BY <3>1, <3>2, <3>3, Arrives DEF FixHooks
          <6>2. Sound(result, BeforeTomorrow(clock))
            BY <3>1, <3>2, <6>1, HookSound
          <6>3. result.kind = "delta"
            BY <3>3 DEF DeltaOf
          <6> HIDE DEF result
          <6>4. result.stamp \in Int
            BY <6>2, <6>3 DEF Sound, BeforeTomorrow
          <6> QED
            BY <5>2, <6>4 DEF result
        <5> QED
          BY <5>1, <5>2
      <4> HIDE DEF stamp
      <4> QED
        BY <3>1, <3>2, <4>1, <4>2
    <3> HIDE DEF kvs, stamp, told
    <3>7. latest'[Point] = [stamp |-> stamp, value |-> kvs[1].value]
      BY <3>4, <3>5, <3>6
    <3> QED
      BY <3>4, <3>7
  <2> QED
    BY <2>1, <2>2 DEF Next
<1> QED
  BY <1>1, Invariance, PTL DEF Spec, FixIsShown
=============================================================================
