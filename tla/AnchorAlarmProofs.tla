-------------------------- MODULE AnchorAlarmProofs --------------------------
(***************************************************************************)
(* The anchor alarm for all lists of zones, all positions and settings,    *)
(* and queues of any length: its types, that it implements the alarm       *)
(* handler, that zones which do not overlap notify once, that what is      *)
(* notified is true, and that a distance is of one move.                   *)
(***************************************************************************)
EXTENDS AnchorAlarm, FiniteSetTheorems, SequenceTheorems, TLAPS

LEMMA LastElement ==
  ASSUME NEW S, NEW s \in Seq(S), s # << >> PROVE Len(s) \in 1 .. Len(s) /\ s[Len(s)] \in S
BY EmptySeq, LenProperties, ElementOfSeq

LEMMA LastOfTail ==
  ASSUME NEW S, NEW s \in Seq(S), s # << >>, Len(s) # 1
  PROVE  Tail(s) # << >> /\ Tail(s)[Len(Tail(s))] = s[Len(s)]
<1>1. Len(s) \in Nat /\ Len(s) > 1
  <2>1. Len(s) \in Nat /\ Len(s) # 0
    BY EmptySeq, LenProperties
  <2>2. \A n \in Nat : n # 0 /\ n # 1 => n > 1
    OBVIOUS
  <2> QED
    BY <2>1, <2>2, Zenon
<1>2. Len(Tail(s)) = Len(s) - 1 /\ \A i \in 1 .. Len(s) - 1 : Tail(s)[i] = s[i + 1]
  BY HeadTailProperties
<1>3. Len(s) - 1 \in 1 .. Len(s) - 1 /\ (Len(s) - 1) + 1 = Len(s) /\ Len(s) - 1 # 0
  BY <1>1
<1> QED
  BY <1>2, <1>3

LEMMA RestoredFields == Restored \subseteq Fields
BY DEF Restored, Fields

LEMMA SettingType == Setting \subseteq Field
<1> SUFFICES ASSUME NEW s \in Setting PROVE s \in Field
  OBVIOUS
<1>1. \A x \in AnchorLatitudes \cup AnchorLongitudes \cup MaxRadii : {x} \in Value
  BY AnchorAssumption DEF Value
<1>2. Cleared \subseteq Fields /\ {} \in Value
  BY AnchorAssumption DEF Fields, Value
<1>3. s = [field |-> s.field, val |-> s.val] /\ s.field \in Fields /\ s.val \in Value
  BY <1>1, <1>2 DEF Setting, Fields
<1> QED
  BY <1>3 DEF Field

LEMMA ValueSets == ASSUME NEW w \in [Fields -> Value] PROVE w \in [Fields -> SUBSET Int]
BY DEF Value

LEMMA OneValue == ASSUME NEW v \in Value PROVE \A x, y \in v : x = y
BY DEF Value

LEMMA RadiusType ==
  ASSUME NEW w \in [Fields -> Value] PROVE Radius(w) \subseteq Int
<1>1. w \in [Fields -> SUBSET Int]
  BY ValueSets
<1> QED
  BY <1>1 DEF Radius, Distance, haversineMeters, Fields

LEMMA DatabaseType == Databases \subseteq Database
<1> SUFFICES ASSUME NEW db \in Databases PROVE db \in Database
  OBVIOUS
<1>1. /\ db = [settings |-> db.settings, zones |-> db.zones]
      /\ db.settings \in {[f \in Fields |-> {}]} \cup EarlierSettings
      /\ db.zones \in ZoneLists \cup {NoZones}
  BY AnchorAssumption DEF Databases
<1>2. ASSUME NEW s \in {[f \in Fields |-> {}]} \cup EarlierSettings
      PROVE  s \in [Fields -> Value]
  <2>1. CASE s = [f \in Fields |-> {}]
    BY <2>1 DEF Value
  <2>2. CASE s \in EarlierSettings
    <3>1. PICK lat \in AnchorLatitudes, lon \in AnchorLongitudes, r \in MaxRadii :
            s = [f \in Fields |->
              CASE f = "anchorLat" -> {lat} [] f = "anchorLon" -> {lon}
                [] f = "maxRadius" -> {r} [] OTHER -> {}]
      BY <2>2 DEF EarlierSettings
    <3> QED
      BY <3>1, AnchorAssumption DEF Value
  <2> QED
    BY <2>1, <2>2
<1> QED
  BY <1>1, <1>2 DEF Database

LEMMA LoadedType == ASSUME NEW db \in Database PROVE loaded(db.settings) \in [Fields -> Value]
BY RestoredFields DEF Database, loaded, Value

LEMMA WithType ==
  ASSUME NEW db \in Database, NEW row \in Row PROVE With(db, row) \in Database
BY DEF Database, Row, With

LEMMA TypeInit == Init => AnchorTypeOK
<1> SUFFICES ASSUME Init PROVE AnchorTypeOK
  OBVIOUS
<1>1. stored \in Database /\ batched \in Database
  BY DatabaseType DEF Init
<1>2. watch \in [Fields -> Value] /\ laid \in [Fields -> Value]
      /\ zonesLaid \in ZoneLists \cup {NoZones}
  BY <1>1, LoadedType DEF Init, Database
<1>3. alarmMap \in [AlarmKeys -> ZoneLists \cup {NoZones}]
  BY DEF Init, AlarmInit
<1>4. reports = << >> /\ watchQ = << >> /\ alarmQ = << >> /\ dbQ = << >> /\ halfway = FALSE
      /\ allowWrite \in BOOLEAN /\ lost = {}
  BY DEF Init
<1>5. /\ reports \in Seq([lat : Latitudes, lon : Longitudes])
      /\ watchQ \in Seq(Field)
      /\ alarmQ \in Seq(AlarmMessage)
      /\ dbQ \in Seq(Row)
  BY <1>4
<1> QED
  BY <1>1, <1>2, <1>3, <1>4, <1>5 DEF AnchorTypeOK

LEMMA PublishType ==
  ASSUME AnchorTypeOK, NEW field \in Fields, NEW val \in Value, Publish(field, val)
  PROVE  laid' \in [Fields -> Value] /\ watchQ' \in Seq(Field) /\ lost' \subseteq Restored
<1>1. [field |-> field, val |-> val] \in Field
  BY DEF Field
<1> QED
  BY <1>1 DEF AnchorTypeOK, Publish

LEMMA RowType ==
  ASSUME AnchorTypeOK, NEW row \in Row, SendRow(row)
  PROVE  /\ dbQ' \in Seq(Row)
         /\ UNCHANGED <<allowWrite, batched, stored>>
BY DEF AnchorTypeOK, SendRow

LEMMA TypeNext == ASSUME AnchorTypeOK, [Next]_vars PROVE AnchorTypeOK'
<1> USE DEF AnchorTypeOK, alarmVars, world, dbVars
<1>1. ASSUME NEW lat \in Latitudes, NEW lon \in Longitudes, ReportLatitude(lat, lon)
      PROVE  AnchorTypeOK'
  <2>1. "currentLat" \in Fields /\ {lat} \in Value
    BY AnchorAssumption DEF Fields, Value
  <2>2. laid' \in [Fields -> Value] /\ watchQ' \in Seq(Field) /\ lost' \subseteq Restored
    BY <1>1, <2>1, PublishType DEF ReportLatitude
  <2>3. reports' \in Seq([lat : Latitudes, lon : Longitudes]) /\ reports' # << >>
    <3>1. [lat |-> lat, lon |-> lon] \in [lat : Latitudes, lon : Longitudes]
      OBVIOUS
    <3>2. reports' = Append(reports, [lat |-> lat, lon |-> lon])
      BY <1>1 DEF ReportLatitude
    <3> HIDE DEF AnchorTypeOK
    <3>3. reports \in Seq([lat : Latitudes, lon : Longitudes])
      BY DEF AnchorTypeOK
    <3> QED
      BY <3>1, <3>2, <3>3, AppendProperties
  <2> QED
    BY <1>1, <2>2, <2>3 DEF ReportLatitude
<1>2. CASE ReportLongitude
  <2>0. reports # << >> /\ reports \in Seq([lat : Latitudes, lon : Longitudes])
    BY <1>2 DEF ReportLongitude
  <2>1. reports[Len(reports)] \in [lat : Latitudes, lon : Longitudes]
    BY <2>0, LastElement
  <2>2. "currentLon" \in Fields /\ {reports[Len(reports)].lon} \in Value
    BY <2>1, AnchorAssumption DEF Fields, Value
  <2>3. laid' \in [Fields -> Value] /\ watchQ' \in Seq(Field) /\ lost' \subseteq Restored
    BY <1>2, <2>2, PublishType DEF ReportLongitude
  <2> QED
    BY <1>2, <2>3 DEF ReportLongitude
<1>3. ASSUME NEW s \in Setting, PutSetting(s) PROVE AnchorTypeOK'
  <2>1. s.field \in Fields /\ s.val \in Value
    BY SettingType DEF Field
  <2>2. laid' \in [Fields -> Value] /\ watchQ' \in Seq(Field) /\ lost' \subseteq Restored
    BY <1>3, <2>1, PublishType DEF PutSetting
  <2>3. [kind |-> "setting", field |-> s.field, val |-> s.val] \in Row
    BY <2>1 DEF Row
  <2>4. dbQ' \in Seq(Row) /\ UNCHANGED <<allowWrite, batched, stored>>
    BY <1>3, <2>3, RowType DEF PutSetting
  <2> QED
    BY <1>3, <2>2, <2>4 DEF PutSetting
<1>4. ASSUME NEW zones \in ZoneLists, PutZones(zones) PROVE AnchorTypeOK'
  <2>1. [kind |-> "zones", zones |-> zones] \in AlarmMessage
    BY DEF AlarmMessage
  <2>2. [kind |-> "zones", zones |-> zones] \in Row
    BY DEF Row
  <2>3. dbQ' \in Seq(Row) /\ UNCHANGED <<allowWrite, batched, stored>>
    BY <1>4, <2>2, RowType DEF PutZones
  <2> QED
    BY <1>4, <2>1, <2>3 DEF PutZones
<1>5. CASE WatchConsume
  <2>0. Head(watchQ) \in Field /\ watchQ' \in Seq(Field)
    BY <1>5 DEF WatchConsume
  <2>1. watch' \in [Fields -> Value]
    BY <1>5, <2>0 DEF WatchConsume, consume, Field
  <2>2. alarmQ' \in Seq(AlarmMessage)
    <3>1. CASE alarmQ' = alarmQ
      BY <3>1
    <3>2. ASSUME NEW d \in Radius(watch'),
                 alarmQ' = Append(alarmQ, [kind |-> "value", val |-> d])
          PROVE  alarmQ' \in Seq(AlarmMessage)
      <4>1. d \in Int
        BY <2>1, <3>2, RadiusType
      <4>2. [kind |-> "value", val |-> d] \in AlarmMessage
        BY <4>1 DEF AlarmMessage
      <4> QED
        BY <3>2, <4>2
    <3> QED
      BY <1>5, <3>1, <3>2 DEF WatchConsume
  <2> QED
    BY <1>5, <2>0, <2>1, <2>2 DEF WatchConsume
<1>6. CASE AlarmConsume
  <2>1. Head(alarmQ) \in AlarmMessage /\ alarmQ' \in Seq(AlarmMessage)
    BY <1>6 DEF AlarmConsume
  <2>2. Head(alarmQ).kind = "zones" => Head(alarmQ).zones \in ZoneLists
    BY <2>1 DEF AlarmMessage
  <2>3. alarmMap' \in [AlarmKeys -> ZoneLists \cup {NoZones}]
    BY <1>6, <2>2 DEF AlarmConsume, parseZones, consumeValue
  <2> QED
    BY <1>6, <2>1, <2>3 DEF AlarmConsume
<1>7. CASE DbConsume
  <2>1. Head(dbQ) \in Row /\ dbQ' \in Seq(Row)
    BY <1>7 DEF DbConsume
  <2>2. batched' \in Database
    BY <1>7, <2>1, WithType DEF DbConsume
  <2> QED
    BY <1>7, <2>1, <2>2 DEF DbConsume
<1>8. CASE OpenGate
  BY <1>8 DEF OpenGate
<1>9. CASE Flush
  BY <1>9 DEF Flush
<1>10. CASE FlushFails
  BY <1>10 DEF FlushFails
<1>11. CASE Restart
  <2>1. watch' \in [Fields -> Value]
    BY <1>11, LoadedType DEF Restart, initFromDb
  <2>2. /\ alarmMap' \in [AlarmKeys -> ZoneLists \cup {NoZones}]
        /\ lost' \subseteq Restored
        /\ watchQ' \in Seq(Field) /\ alarmQ' \in Seq(AlarmMessage) /\ dbQ' \in Seq(Row)
    BY <1>11 DEF Restart, loadAlarms
  <2> QED
    BY <1>11, <2>1, <2>2 DEF Restart
<1>12. CASE UNCHANGED vars
  BY <1>12 DEF vars
<1> QED
  BY <1>1, <1>2, <1>3, <1>4, <1>5, <1>6, <1>7, <1>8, <1>9, <1>10, <1>11, <1>12 DEF Next

(***************************************************************************)
(* The type invariant: AlarmHandler only finds zones and whole numbers in  *)
(* its queue, AnchorWatchHandler only numbers for its five fields.         *)
(***************************************************************************)
THEOREM AnchorAlarmTypes == Spec => []AnchorTypeOK
<1> QED
  BY TypeInit, TypeNext, PTL DEF Spec

-----------------------------------------------------------------------------
(***************************************************************************)
(* The anchor alarm implements the alarm handler: with its two queues,     *)
(* every step of it is one that AlarmHandler may take, or none.            *)
(***************************************************************************)
THEOREM AnchorAlarmImplementsAlarmHandler == Spec => AlarmSpec
<1>1. Init => AlarmInit
  BY DEF Init
<1>2. ASSUME AnchorTypeOK, [Next]_vars PROVE [AlarmNext]_alarmVars
  <2>1. CASE AlarmConsume
    <3>1. Head(alarmQ) \in AlarmMessage
      BY <1>2, <2>1 DEF AlarmConsume, AnchorTypeOK
    <3> QED
      BY <2>1, <3>1, AnchorAssumption DEF AlarmConsume, AlarmNext, AlarmMessage
  <2>2. CASE Restart
    BY <2>2 DEF Restart, AlarmNext
  <2>3. CASE UNCHANGED alarmVars
    BY <2>3
  <2> QED
    BY <1>2, <2>1, <2>2, <2>3
       DEF Next, vars, ReportLatitude, ReportLongitude, PutSetting, PutZones, WatchConsume,
           DbConsume, OpenGate, Flush, FlushFails
<1> QED
  BY <1>1, <1>2, AnchorAlarmTypes, PTL DEF Spec, AlarmSpec

-----------------------------------------------------------------------------
(* A value lies in at most one of the zones that do not overlap. *)
LEMMA OneMatch ==
  ASSUME NEW zones \in Seq(Zone), WellZoned(zones), NEW val \in Int,
         NEW i \in Matching(zones, val), NEW j \in Matching(zones, val)
  PROVE  i = j
<1>1. SUFFICES ASSUME i # j PROVE FALSE
  OBVIOUS
<1>2. /\ i \in DOMAIN zones /\ j \in DOMAIN zones
      /\ InZone(zones[i], val) /\ InZone(zones[j], val)
      /\ zones[i] \in Zone /\ zones[j] \in Zone
  BY DEF Matching
<1>3. Disjoint(zones[i], zones[j])
  BY <1>1, <1>2 DEF WellZoned
<1> QED
  BY <1>2, <1>3 DEF Disjoint, InZone, Zone

LEMMA DepthOne ==
  ASSUME NEW zones \in Seq(Zone), WellZoned(zones), NEW val \in Int,
         NEW i \in Matching(zones, val)
  PROVE  Depth(zones, val, i) = 1
<1>1. i \in Nat
  BY DEF Matching
<1>2. Matching(zones, val) = {i}
  BY OneMatch
<1>3. {j \in {i} : j <= i} = {i}
  BY <1>1
<1> QED
  BY <1>2, <1>3, FS_Singleton DEF Depth

AllWellZoned == \A zones \in ZoneLists : WellZoned(zones)

LEMMA NoZonesWell == NoZones \in Seq(Zone) /\ WellZoned(NoZones)
BY DEF NoZones, WellZoned

(***************************************************************************)
(* Zones that do not overlap, their borders included, never send a         *)
(* notification to a key with ".notifications" twice.                      *)
(***************************************************************************)
THEOREM AlarmHandlerNotifiesOnce == AlarmSpec => []OneNoticePerValue
<1> DEFINE AlarmInv ==
      /\ alarmMap \in [AlarmKeys -> ZoneLists \cup {NoZones}]
      /\ OneNoticePerValue
<1>1. AlarmInit => AlarmInv
  BY DEF AlarmInit, OneNoticePerValue
<1>2. ASSUME AlarmInv, [AlarmNext]_alarmVars PROVE AlarmInv'
  <2>1. ASSUME NEW k \in AlarmKeys, NEW zones \in ZoneLists, parseZones(k, zones)
        PROVE  AlarmInv'
    BY <1>2, <2>1 DEF parseZones, OneNoticePerValue
  <2>2. ASSUME NEW k \in AlarmKeys, NEW val \in Int, consumeValue(k, val)
        PROVE  AlarmInv'
    <3>1. SUFFICES ASSUME AllWellZoned, NEW n \in notices' PROVE n.depth = 1
      BY <1>2, <2>2 DEF consumeValue, OneNoticePerValue, AllWellZoned
    <3>2. alarmMap[k] \in Seq(Zone) /\ WellZoned(alarmMap[k])
      BY <1>2, <3>1, ZonesAssumption, NoZonesWell DEF AllWellZoned
    <3>3. CASE n \in notices
      BY <1>2, <3>1, <3>3 DEF OneNoticePerValue, AllWellZoned
    <3>4. CASE n \in Sent(k, alarmMap[k], val)
      BY <3>2, <3>4, DepthOne DEF Sent, Notice
    <3> QED
      BY <2>2, <3>1, <3>3, <3>4 DEF consumeValue, check
  <2>3. CASE loadAlarms
    BY <1>2, <2>3 DEF loadAlarms, OneNoticePerValue
  <2>4. CASE UNCHANGED alarmVars
    BY <1>2, <2>4 DEF alarmVars, OneNoticePerValue
  <2> QED
    BY <1>2, <2>1, <2>2, <2>3, <2>4 DEF AlarmNext
<1> QED
  BY <1>1, <1>2, PTL DEF AlarmSpec

(* The same of the anchor alarm, which implements the handler. *)
THEOREM AnchorAlarmNotifiesOnce == Spec => []OneNoticePerValue
<1> QED
  BY AnchorAlarmImplementsAlarmHandler, AlarmHandlerNotifiesOnce, PTL

-----------------------------------------------------------------------------
(***************************************************************************)
(* What is notified is true.  JudgedNoticeIsTrue speaks of empty queues;   *)
(* the invariant behind it says what the messages still in them will do:   *)
(* the last one for a field carries what was published last, and the last  *)
(* one for the alarm handler the distance of the fields as they are.  A    *)
(* field without a message is as published last, not known or lost.        *)
(***************************************************************************)
Pending(f) == {i \in DOMAIN watchQ : watchQ[i].field = f}

FieldsFollow ==
    \A f \in Fields :
        /\ \A i \in Pending(f) :
              (\A j \in Pending(f) : j <= i) => laid[f] = watchQ[i].val
        /\ Pending(f) = {} => watch[f] \in {{}, laid[f]} \/ f \in lost

LastMessage == alarmQ[Len(alarmQ)]

AlarmFollows ==
    Armed(watch) /\ ~unjudged =>
        /\ alarmQ = << >> =>
              \A d \in Distance(watch) : NoticeIsTrue(alarmMap[RadiusKey], d)
        /\ alarmQ # << >> =>
              \E d \in Distance(watch) : LastMessage = [kind |-> "value", val |-> d]

FollowInv == AnchorTypeOK /\ FieldsFollow /\ AlarmFollows

LEMMA Square == \A x \in Int : x * x >= 0
<1>1. \A x \in Nat : x * x >= 0
  OBVIOUS
<1>2. \A x \in Nat : (-x) * (-x) = x * x
  OBVIOUS
<1> QED
  BY <1>1, <1>2

LEMMA DistanceNat ==
  ASSUME NEW w \in [Fields -> SUBSET Int], NEW d \in Distance(w)
  PROVE  d \in Int /\ d >= 0
<1>1. PICK lat \in w["currentLat"], lon \in w["currentLon"],
           aLat \in w["anchorLat"], aLon \in w["anchorLon"] :
         d = haversineMeters(lat, lon, aLat, aLon)
  BY DEF Distance
<1>2. lat - aLat \in Int /\ lon - aLon \in Int
  BY DEF Fields
<1>3. /\ (lat - aLat) * (lat - aLat) >= 0 /\ (lat - aLat) * (lat - aLat) \in Int
      /\ (lon - aLon) * (lon - aLon) >= 0 /\ (lon - aLon) * (lon - aLon) \in Int
  BY <1>2, Square
<1> QED
  BY <1>1, <1>3 DEF haversineMeters

LEMMA OneDistance ==
  ASSUME NEW w, \A f \in Fields : \A x, y \in w[f] : x = y
  PROVE  \A d, e \in Distance(w) : d = e
<1>1. "currentLat" \in Fields /\ "currentLon" \in Fields /\ "anchorLat" \in Fields
        /\ "anchorLon" \in Fields
  BY DEF Fields
<1> QED
  BY <1>1 DEF Distance

(* One value of AlarmHandler leaves the notification of its zone. *)
LEMMA CheckIsTrue ==
  ASSUME NEW zones \in Seq(Zone), WellZoned(zones), NEW d \in Int, d >= 0,
         check(RadiusKey, zones, d)
  PROVE  NoticeIsTrue(zones, d)'
<1> SUFFICES ASSUME NEW i \in DOMAIN zones, Told(zones[i], d)
             PROVE  {n \in notices' : n.key = RadiusKey /\ n.depth = 1} =
                      {[key |-> RadiusKey, depth |-> 1, state |-> zones[i].state]}
  BY DEF NoticeIsTrue
<1> DEFINE new == [key |-> RadiusKey, depth |-> 1, state |-> zones[i].state]
<1>1. zones[i] \in Zone
  OBVIOUS
<1>2. InZone(zones[i], d)
  BY <1>1 DEF Told, Contains, InZone, MIN_VALUE, Zone
<1>3. i \in Matching(zones, d)
  BY <1>2 DEF Matching
<1>4. Matching(zones, d) = {i}
  BY <1>3, OneMatch
<1>5. Depth(zones, d, i) = 1
  BY <1>3, DepthOne
<1>6. Sent(RadiusKey, zones, d) = {new}
  <2>1. {j \in Matching(zones, d) : zones[j].state \in Notified} = {i}
    BY <1>4 DEF Told
  <2>2. Notice(RadiusKey, zones, d, i) = new
    BY <1>5 DEF Notice
  <2> QED
    BY <2>1, <2>2 DEF Sent
<1>7. notices' = (notices \ Replaced({new})) \cup {new}
  BY <1>6 DEF check
<1>8. Replaced({new}) = {n \in notices : n.key = RadiusKey /\ n.depth = 1}
  BY DEF Replaced
<1>9. \A n \in notices' : n.key = RadiusKey /\ n.depth = 1 => n = new
  BY <1>7, <1>8
<1>10. new \in notices' /\ new.key = RadiusKey /\ new.depth = 1
  BY <1>7
<1> HIDE DEF new
<1>11. {n \in notices' : n.key = RadiusKey /\ n.depth = 1} = {new}
  BY <1>9, <1>10
<1> QED
  BY <1>11 DEF new

LEMMA FollowInit == Init => FollowInv
<1> SUFFICES ASSUME Init PROVE FollowInv
  OBVIOUS
<1>1. AnchorTypeOK
  BY TypeInit
<1>2. watch = loaded(laid) /\ watchQ = << >>
  BY DEF Init
<1>3. FieldsFollow
  BY <1>2 DEF FieldsFollow, Pending, loaded
<1>4. ~Armed(watch)
  BY <1>2 DEF Armed, loaded, Restored, Fields
<1> QED
  BY <1>1, <1>3, <1>4 DEF FollowInv, AlarmFollows

LEMMA PublishFollows ==
  ASSUME FollowInv, NEW g \in Fields, NEW val \in Value, Publish(g, val), UNCHANGED watch
  PROVE  FieldsFollow'
<1> SUFFICES ASSUME NEW f \in Fields
             PROVE  /\ \A i \in Pending(f)' :
                          (\A j \in Pending(f)' : j <= i) => laid'[f] = watchQ'[i].val
                    /\ Pending(f)' = {} => watch[f] \in {{}, laid'[f]} \/ f \in lost'
  BY DEF FieldsFollow, FollowInv
<1>1. /\ watchQ \in Seq(Field) /\ laid \in [Fields -> Value]
      /\ [field |-> g, val |-> val] \in Field
  BY DEF FollowInv, AnchorTypeOK, Field
<1>2. /\ Len(watchQ') = Len(watchQ) + 1
      /\ \A i \in 1 .. Len(watchQ) : watchQ'[i] = watchQ[i]
      /\ watchQ'[Len(watchQ) + 1] = [field |-> g, val |-> val]
      /\ Len(watchQ) \in Nat
      /\ DOMAIN watchQ = 1 .. Len(watchQ) /\ DOMAIN watchQ' = 1 .. Len(watchQ) + 1
  BY <1>1 DEF Publish
<1>3. CASE f = g
  <2>1. Len(watchQ) + 1 \in Pending(f)'
    BY <1>2, <1>3 DEF Pending
  <2>2. laid'[f] = val
    BY <1>1, <1>3 DEF Publish
  <2>3. ASSUME NEW i \in Pending(f)', \A j \in Pending(f)' : j <= i
        PROVE  i = Len(watchQ) + 1
    BY <1>2, <2>1, <2>3 DEF Pending
  <2> QED
    BY <1>2, <2>1, <2>2, <2>3
<1>4. CASE f # g
  <2>1. Pending(f)' = Pending(f)
    BY <1>2, <1>4 DEF Pending
  <2>2. laid'[f] = laid[f] /\ (f \in lost => f \in lost')
    BY <1>1, <1>4 DEF Publish
  <2>3. \A i \in Pending(f) : watchQ'[i] = watchQ[i]
    BY <1>2 DEF Pending
  <2> QED
    BY <2>1, <2>2, <2>3 DEF FieldsFollow, FollowInv
<1> QED
  BY <1>3, <1>4

LEMMA ConsumeFollows == ASSUME FollowInv, WatchConsume PROVE FieldsFollow'
<1> DEFINE head == Head(watchQ)
<1>1. /\ watchQ \in Seq(Field) /\ watchQ # << >> /\ watch \in [Fields -> Value]
      /\ head \in Field
  BY DEF FollowInv, AnchorTypeOK, WatchConsume
<1>2. /\ Len(watchQ) \in Nat /\ Len(watchQ) >= 1
      /\ DOMAIN watchQ = 1 .. Len(watchQ) /\ DOMAIN watchQ' = 1 .. Len(watchQ) - 1
      /\ \A i \in 1 .. Len(watchQ) - 1 : watchQ'[i] = watchQ[i + 1]
      /\ head = watchQ[1]
  BY <1>1 DEF WatchConsume
<1>3. watch' = [watch EXCEPT ![head.field] = head.val] /\ laid' = laid /\ lost' = lost
  BY DEF WatchConsume, consume, world
<1> HIDE DEF head
<1> SUFFICES ASSUME NEW f \in Fields
             PROVE  /\ \A i \in Pending(f)' :
                          (\A j \in Pending(f)' : j <= i) => laid'[f] = watchQ'[i].val
                    /\ Pending(f)' = {} => watch'[f] \in {{}, laid'[f]} \/ f \in lost'
  BY DEF FieldsFollow
<1>5. \A i \in Nat : i \in Pending(f)' <=> i >= 1 /\ i + 1 \in Pending(f)
  BY <1>2 DEF Pending
<1>6. Pending(f) \subseteq Nat /\ Pending(f)' \subseteq Nat
  BY <1>2 DEF Pending
<1>7. ASSUME NEW i \in Pending(f)', \A j \in Pending(f)' : j <= i
      PROVE  laid'[f] = watchQ'[i].val
  <2>1. i \in Nat /\ i + 1 \in Pending(f) /\ watchQ'[i] = watchQ[i + 1]
    BY <1>2, <1>5, <1>6 DEF Pending
  <2>2. ASSUME NEW j \in Pending(f) PROVE j <= i + 1
    <3>1. j \in Nat /\ j >= 1
      BY <1>2 DEF Pending
    <3>2. CASE j = 1
      BY <2>1, <3>2
    <3>3. CASE j > 1
      <4>1. j - 1 \in Nat /\ j - 1 >= 1 /\ (j - 1) + 1 = j
        BY <3>1, <3>3
      <4>2. j - 1 \in Pending(f)'
        BY <1>5, <4>1
      <4> QED
        BY <1>7, <2>1, <3>1, <4>2
    <3> QED
      BY <3>1, <3>2, <3>3
  <2> QED
    BY <1>3, <2>1, <2>2 DEF FieldsFollow, FollowInv
<1>8. ASSUME Pending(f)' = {} PROVE watch'[f] \in {{}, laid'[f]} \/ f \in lost'
  <2>1. \A j \in Pending(f) : j = 1
    <3> SUFFICES ASSUME NEW j \in Pending(f), j # 1 PROVE FALSE
      OBVIOUS
    <3>1. j \in Nat /\ j > 1
      BY <1>2 DEF Pending
    <3>2. j - 1 \in Nat /\ j - 1 >= 1 /\ (j - 1) + 1 = j
      BY <3>1
    <3> QED
      BY <1>5, <1>8, <3>2
  <2>2. CASE 1 \in Pending(f)
    <3>1. laid[f] = head.val /\ head.field = f
      BY <1>2, <2>1, <2>2 DEF FieldsFollow, FollowInv, Pending
    <3> QED
      BY <1>1, <1>3, <3>1
  <2>3. CASE 1 \notin Pending(f)
    <3>1. Pending(f) = {} /\ head.field # f
      BY <1>2, <2>1, <2>3 DEF Pending
    <3>2. watch'[f] = watch[f]
      BY <1>1, <1>3, <3>1
    <3> QED
      BY <1>3, <3>1, <3>2 DEF FieldsFollow, FollowInv
  <2> QED
    BY <2>2, <2>3
<1> QED
  BY <1>7, <1>8

(* A restart leaves a field as published last, unknown, or lost. *)
LEMMA RestartFollows == ASSUME FollowInv, Restart PROVE FieldsFollow' /\ AlarmFollows'
<1>1. /\ watch' = loaded(stored.settings) /\ laid' = laid /\ watchQ' = << >>
      /\ lost' = {f \in Restored : stored.settings[f] # laid[f]}
  BY DEF Restart, initFromDb
<1>2. ASSUME NEW f \in Fields PROVE watch'[f] \in {{}, laid'[f]} \/ f \in lost'
  <2>1. CASE f \in Restored
    BY <1>1, <2>1 DEF loaded
  <2>2. CASE f \notin Restored
    BY <1>1, <2>2 DEF loaded
  <2> QED
    BY <2>1, <2>2
<1>3. FieldsFollow'
  BY <1>1, <1>2 DEF FieldsFollow, Pending
<1>4. ~Armed(watch')
  BY <1>1 DEF Armed, loaded, Restored, Fields
<1> QED
  BY <1>3, <1>4 DEF AlarmFollows

(* A message of the environment disturbs neither the distance nor what is told of it. *)
LEMMA AlarmUndisturbed ==
  ASSUME FollowInv, UNCHANGED <<alarmMap, notices, watch, alarmQ, unjudged>>
  PROVE  AlarmFollows'
BY DEF FollowInv, AlarmFollows, LastMessage, NoticeIsTrue

LEMMA WatchTells == ASSUME FollowInv, WatchConsume PROVE AlarmFollows'
<1> SUFFICES ASSUME Armed(watch')
             PROVE  /\ alarmQ' # << >>
                    /\ \E d \in Distance(watch') :
                          alarmQ'[Len(alarmQ')] = [kind |-> "value", val |-> d]
  BY DEF AlarmFollows, LastMessage
<1>1. PICK d \in Radius(watch') : alarmQ' = Append(alarmQ, [kind |-> "value", val |-> d])
  BY DEF WatchConsume
<1>2. d \in Distance(watch')
  BY <1>1 DEF Radius
<1>3. alarmQ \in Seq(AlarmMessage)
  BY DEF FollowInv, AnchorTypeOK
<1>4. alarmQ' # << >> /\ alarmQ'[Len(alarmQ')] = [kind |-> "value", val |-> d]
  BY <1>1, <1>3
<1> QED
  BY <1>2, <1>4

LEMMA AlarmTells ==
  ASSUME AllWellZoned, FollowInv, AlarmConsume PROVE AlarmFollows'
<1> SUFFICES ASSUME Armed(watch), ~unjudged, watch' = watch
             PROVE  /\ alarmQ' = << >> =>
                          \A d \in Distance(watch) : NoticeIsTrue(alarmMap[RadiusKey], d)'
                    /\ alarmQ' # << >> =>
                          \E d \in Distance(watch) :
                              alarmQ'[Len(alarmQ')] = [kind |-> "value", val |-> d]
  BY DEF AlarmFollows, LastMessage, AlarmConsume, NoticeIsTrue
<1>1. /\ alarmQ \in Seq(AlarmMessage) /\ alarmQ # << >> /\ alarmQ' = Tail(alarmQ)
      /\ alarmMap \in [AlarmKeys -> ZoneLists \cup {NoZones}]
      /\ watch \in [Fields -> Value]
  BY DEF FollowInv, AnchorTypeOK, AlarmConsume
<1>0. watch \in [Fields -> SUBSET Int] /\ \A f \in Fields : \A x, y \in watch[f] : x = y
  BY <1>1, ValueSets, OneValue
<1>2. PICK d \in Distance(watch) : alarmQ[Len(alarmQ)] = [kind |-> "value", val |-> d]
  BY <1>1 DEF FollowInv, AlarmFollows, LastMessage
<1>3. CASE Len(alarmQ) = 1
  <2>1. Head(alarmQ) = [kind |-> "value", val |-> d] /\ alarmQ' = << >>
    BY <1>1, <1>2, <1>3
  <2>2. consumeValue(RadiusKey, d)
    BY <2>1 DEF AlarmConsume
  <2>3. alarmMap[RadiusKey] \in Seq(Zone) /\ WellZoned(alarmMap[RadiusKey])
    BY <1>1, AnchorAssumption, ZonesAssumption, NoZonesWell DEF AllWellZoned
  <2>4. d \in Int /\ d >= 0
    BY <1>0, DistanceNat
  <2>5. NoticeIsTrue(alarmMap[RadiusKey], d)'
    <3> DEFINE zones == alarmMap[RadiusKey]
    <3>1. zones \in Seq(Zone) /\ WellZoned(zones) /\ check(RadiusKey, zones, d)
      BY <2>2, <2>3 DEF consumeValue
    <3>2. zones' = zones
      BY <2>2 DEF consumeValue
    <3> HIDE DEF zones
    <3>3. PICK z \in Seq(Zone) : z = zones
      BY <3>1
    <3>4. NoticeIsTrue(z, d)'
      BY <2>4, <3>1, <3>3, CheckIsTrue
    <3>5. \A i \in DOMAIN z : Told(z[i], d) =>
              {n \in notices' : n.key = RadiusKey /\ n.depth = 1} =
                {[key |-> RadiusKey, depth |-> 1, state |-> z[i].state]}
      BY <3>4 DEF NoticeIsTrue
    <3>6. alarmMap'[RadiusKey] = z
      BY <3>2, <3>3 DEF zones
    <3> QED
      BY <3>5, <3>6 DEF NoticeIsTrue
  <2>6. \A e \in Distance(watch) : e = d
    BY <1>0, OneDistance
  <2> QED
    BY <2>1, <2>5, <2>6
<1>4. CASE Len(alarmQ) # 1
  <2>1. alarmQ' # << >> /\ alarmQ'[Len(alarmQ')] = alarmQ[Len(alarmQ)]
    BY <1>1, <1>4, LastOfTail
  <2> QED
    BY <1>2, <2>1
<1> QED
  BY <1>3, <1>4

LEMMA FollowNext == ASSUME AllWellZoned, FollowInv, [Next]_vars PROVE FollowInv'
<1>0. AnchorTypeOK'
  BY TypeNext DEF FollowInv
<1> SUFFICES FieldsFollow' /\ AlarmFollows'
  BY <1>0 DEF FollowInv
<1>1. ASSUME NEW lat \in Latitudes, NEW lon \in Longitudes, ReportLatitude(lat, lon)
      PROVE  FieldsFollow' /\ AlarmFollows'
  <2>1. "currentLat" \in Fields /\ {lat} \in Value
    BY AnchorAssumption DEF Fields, Value
  <2> QED
    BY <1>1, <2>1, PublishFollows, AlarmUndisturbed DEF ReportLatitude, alarmVars
<1>2. CASE ReportLongitude
  <2>1. reports # << >> /\ reports \in Seq([lat : Latitudes, lon : Longitudes])
    BY <1>2 DEF ReportLongitude, FollowInv, AnchorTypeOK
  <2>2. reports[Len(reports)] \in [lat : Latitudes, lon : Longitudes]
    BY <2>1, LastElement
  <2>3. "currentLon" \in Fields /\ {reports[Len(reports)].lon} \in Value
    BY <2>2, AnchorAssumption DEF Fields, Value
  <2> QED
    BY <1>2, <2>3, PublishFollows, AlarmUndisturbed DEF ReportLongitude, alarmVars
<1>3. ASSUME NEW s \in Setting, PutSetting(s) PROVE FieldsFollow' /\ AlarmFollows'
  <2>1. s.field \in Fields /\ s.val \in Value
    BY SettingType DEF Field
  <2> QED
    BY <1>3, <2>1, PublishFollows, AlarmUndisturbed DEF PutSetting, alarmVars
<1>4. ASSUME NEW zones \in ZoneLists, PutZones(zones) PROVE FieldsFollow' /\ AlarmFollows'
  BY <1>4 DEF PutZones, FieldsFollow, Pending, AlarmFollows, FollowInv
<1>5. CASE WatchConsume
  BY <1>5, ConsumeFollows, WatchTells
<1>6. CASE AlarmConsume
  <2>1. FieldsFollow'
    BY <1>6 DEF AlarmConsume, FieldsFollow, Pending, FollowInv, world
  <2> QED
    BY <1>6, <2>1, AlarmTells
<1>7. CASE Restart
  BY <1>7, RestartFollows
<1>8. ASSUME UNCHANGED <<alarmVars, watch, world, watchQ, alarmQ, unjudged>>
      PROVE  FieldsFollow' /\ AlarmFollows'
  <2>1. FieldsFollow'
    BY <1>8 DEF FieldsFollow, Pending, FollowInv, world
  <2> QED
    BY <1>8, <2>1, AlarmUndisturbed DEF alarmVars
<1>9. CASE DbConsume \/ OpenGate \/ Flush \/ FlushFails \/ UNCHANGED vars
  BY <1>8, <1>9 DEF DbConsume, OpenGate, Flush, FlushFails, vars
<1> QED
  BY <1>1, <1>2, <1>3, <1>4, <1>5, <1>6, <1>7, <1>9 DEF Next

LEMMA FollowsIsTrue == ASSUME FollowInv PROVE JudgedNoticeIsTrue
<1> SUFFICES ASSUME Judged, lost = {}, NEW d \in Distance(laid)
             PROVE  NoticeIsTrue(alarmMap[RadiusKey], d)
  BY DEF JudgedNoticeIsTrue
<1>1. \A f \in Fields : watch[f] = laid[f]
  BY DEF Judged, Quiet, Armed, FollowInv, FieldsFollow, Pending
<1>2. Distance(laid) = Distance(watch)
  BY <1>1 DEF Distance, Fields
<1> QED
  BY <1>2 DEF Judged, Quiet, FollowInv, AlarmFollows

(***************************************************************************)
(* When all zones that clients set are free of overlaps, the notification  *)
(* a client sees when nothing is on its way is that of the zone the boat   *)
(* is in: for every order of reports, settings and restarts, of the steps  *)
(* of the three handlers' threads, and of rows that the gate drops and     *)
(* batches that are sent, fail or are lost in a crash, as long as no       *)
(* restored setting is another than the one put last.                      *)
(***************************************************************************)
THEOREM AnchorAlarmIsTrue == ASSUME AllWellZoned PROVE Spec => []JudgedNoticeIsTrue
<1>1. FollowInv /\ [Next]_vars => FollowInv'
  BY FollowNext
<1> QED
  BY FollowInit, <1>1, FollowsIsTrue, PTL DEF Spec
-----------------------------------------------------------------------------
(***************************************************************************)
(* The queue of AnchorWatchHandler numbers the reports: latest[i] is the   *)
(* report of the last latitude, lonOf[i] that of the last longitude, of    *)
(* the messages up to the i-th, the ones that the watch has taken first.   *)
(***************************************************************************)
InStep(lats, lons, i) ==
    /\ lats[i] =< Len(reports)
    /\ lats[i] \in {lons[i], lons[i] + 1}

Counts(lats, lons, i) ==
    LET m == watchQ[i]
    IN  /\ lats[i] = lats[i - 1] + (IF m.field = "currentLat" THEN 1 ELSE 0)
        /\ lons[i] = lons[i - 1] + (IF m.field = "currentLon" THEN 1 ELSE 0)
        /\ m.field = "currentLat" => m.val = {reports[lats[i]].lat}
        /\ m.field = "currentLon" => m.val = {reports[lons[i]].lon}

Numbers(lats, lons) ==
    /\ \A i \in 0..Len(watchQ) : InStep(lats, lons, i)
    /\ \A i \in 1..Len(watchQ) : Counts(lats, lons, i)
    /\ lats[Len(watchQ)] = Len(reports)
    /\ lats[Len(watchQ)] = lons[Len(watchQ)] + (IF halfway THEN 1 ELSE 0)
    /\ watch["currentLat"] # {} =>
          lats[0] > 0 /\ watch["currentLat"] = {reports[lats[0]].lat}
    /\ watch["currentLon"] # {} =>
          lons[0] > 0 /\ watch["currentLon"] = {reports[lons[0]].lon}

MoveInv == \E lats, lons \in [Nat -> Nat] : Numbers(lats, lons)

LEMMA MoveInit == Init => MoveInv
<1> SUFFICES ASSUME Init PROVE MoveInv
  OBVIOUS
<1> DEFINE none == [i \in Nat |-> 0]
<1>1. Len(watchQ) = 0 /\ Len(reports) = 0 /\ ~halfway
  BY DEF Init
<1>2. watch["currentLat"] = {} /\ watch["currentLon"] = {}
  BY DEF Init, loaded, Restored, Fields
<1>3. Numbers(none, none)
  BY <1>1, <1>2 DEF Numbers, InStep
<1> QED
  BY <1>3 DEF MoveInv

LEMMA Extended ==
  ASSUME NEW f \in [Nat -> Nat], NEW n \in Nat, NEW x \in Nat
  PROVE  LET g == [f EXCEPT ![n + 1] = x]
         IN  g \in [Nat -> Nat] /\ g[n + 1] = x /\ \A i \in 0 .. n : g[i] = f[i]
<1>1. [f EXCEPT ![n + 1] = x] \in [Nat -> Nat] /\ [f EXCEPT ![n + 1] = x][n + 1] = x
  OBVIOUS
<1>2. ASSUME NEW i \in 0 .. n PROVE [f EXCEPT ![n + 1] = x][i] = f[i]
  <2>1. i \in Nat /\ i # n + 1
    OBVIOUS
  <2> QED
    BY <2>1
<1> QED
  BY <1>1, <1>2

\* What is published is the next latitude, the next longitude or a setting.
PublishesNext(lats, lons, field, val, x, y) ==
    /\ Publish(field, val)
    /\ UNCHANGED watch
    /\ Len(reports) =< Len(reports')
    /\ \A i \in 1 .. Len(reports) : reports'[i] = reports[i]
    /\ x = Len(reports')
    /\ x = y + (IF halfway' THEN 1 ELSE 0)
    /\ x = lats[Len(watchQ)] + (IF field = "currentLat" THEN 1 ELSE 0)
    /\ y = lons[Len(watchQ)] + (IF field = "currentLon" THEN 1 ELSE 0)
    /\ field = "currentLat" => val = {reports'[x].lat}
    /\ field = "currentLon" => val = {reports'[y].lon}

\* What InStep says of a pair of numbers, when k reports are known.
LEMMA StepBounds ==
  ASSUME NEW k \in Nat, NEW a \in Nat, NEW b \in Nat, a =< k, a \in {b, b + 1}
  PROVE  /\ a > 0 => a \in 1 .. k
         /\ b > 0 => b \in 1 .. k
OBVIOUS

LEMMA PublishNumbers ==
  ASSUME NEW lats \in [Nat -> Nat], NEW lons \in [Nat -> Nat],
         NEW field, NEW val, NEW x \in Nat, NEW y \in Nat
  PROVE  /\ AnchorTypeOK /\ AnchorTypeOK' /\ Numbers(lats, lons)
         /\ PublishesNext(lats, lons, field, val, x, y)
         => MoveInv'
<1>0. SUFFICES ASSUME AnchorTypeOK, AnchorTypeOK', Numbers(lats, lons),
                      PublishesNext(lats, lons, field, val, x, y)
               PROVE  MoveInv'
  OBVIOUS
<1>1. PICK n \in Nat : n = Len(watchQ)
  BY <1>0 DEF AnchorTypeOK
<1> DEFINE lats2 == [lats EXCEPT ![n + 1] = x]
           lons2 == [lons EXCEPT ![n + 1] = y]
<1>2. lats2 \in [Nat -> Nat] /\ lats2[n + 1] = x /\ \A i \in 0 .. n : lats2[i] = lats[i]
  BY Extended
<1>3. lons2 \in [Nat -> Nat] /\ lons2[n + 1] = y /\ \A i \in 0 .. n : lons2[i] = lons[i]
  BY Extended
<1> HIDE DEF lats2, lons2
<1>4. PICK k \in Nat : k = Len(reports)
  BY <1>0 DEF AnchorTypeOK
<1>5. x = Len(reports') /\ k =< x /\ \A i \in 1 .. k : reports'[i] = reports[i]
  BY <1>0, <1>4 DEF PublishesNext
<1>6. /\ Len(watchQ') = n + 1
      /\ watchQ'[n + 1] = [field |-> field, val |-> val]
      /\ \A i \in 1 .. n : watchQ'[i] = watchQ[i]
  BY <1>0, <1>1 DEF PublishesNext, Publish, AnchorTypeOK
<1>7. ASSUME NEW i \in 0 .. n
      PROVE  /\ lats[i] \in Nat /\ lons[i] \in Nat
             /\ lats[i] =< k
             /\ lats[i] \in {lons[i], lons[i] + 1}
  <2>1. i \in Nat
    OBVIOUS
  <2>2. InStep(lats, lons, i)
    BY <1>0, <1>1 DEF Numbers
  <2> QED
    BY <1>4, <2>1, <2>2 DEF InStep
<1>8. ASSUME NEW i \in 0 .. n
      PROVE  /\ lats[i] > 0 => reports'[lats[i]] = reports[lats[i]]
             /\ lons[i] > 0 => reports'[lons[i]] = reports[lons[i]]
  <2>1. PICK a \in Nat, b \in Nat : a = lats[i] /\ b = lons[i]
    BY <1>7
  <2>2. a =< k /\ a \in {b, b + 1}
    BY <1>7, <2>1
  <2> QED
    BY <1>5, <2>1, <2>2, StepBounds
<1>9. \A i \in 0 .. n + 1 : InStep(lats2, lons2, i)'
  <2>1. ASSUME NEW i \in 0 .. n PROVE lats2[i] =< x /\ lats2[i] \in {lons2[i], lons2[i] + 1}
    <3>1. lats[i] \in Nat /\ lons[i] \in Nat /\ lats[i] =< k /\ lats[i] \in {lons[i], lons[i] + 1}
      BY <1>7
    <3>2. lats2[i] = lats[i] /\ lons2[i] = lons[i]
      BY <1>2, <1>3
    <3>3. k =< x
      BY <1>5
    <3> QED
      BY <3>1, <3>2, <3>3
  <2>2. x \in {y, y + 1}
    <3>1. x = y + (IF halfway' THEN 1 ELSE 0)
      BY <1>0 DEF PublishesNext
    <3> QED
      BY <3>1
  <2>3. lats2[n + 1] =< x /\ lats2[n + 1] \in {lons2[n + 1], lons2[n + 1] + 1}
    BY <1>2, <1>3, <2>2
  <2>4. \A i \in 0 .. n + 1 : i \in 0 .. n \/ i = n + 1
    OBVIOUS
  <2>5. ASSUME NEW i \in 0 .. n + 1 PROVE lats2[i] =< x /\ lats2[i] \in {lons2[i], lons2[i] + 1}
    BY <2>1, <2>3, <2>4
  <2>6. x = Len(reports')
    BY <1>5
  <2> QED
    BY <2>5, <2>6 DEF InStep
<1>10. \A i \in 1 .. n + 1 : Counts(lats2, lons2, i)'
  <2>1. ASSUME NEW i \in 1 .. n PROVE Counts(lats2, lons2, i)'
    <3>1. i \in 0 .. n /\ i - 1 \in 0 .. n
      OBVIOUS
    <3>2. Counts(lats, lons, i) /\ watchQ'[i] = watchQ[i]
      BY <1>0, <1>1, <1>6 DEF Numbers
    <3>3. /\ lats2[i] = lats[i] /\ lons2[i] = lons[i]
          /\ lats2[i - 1] = lats[i - 1] /\ lons2[i - 1] = lons[i - 1]
      BY <1>2, <1>3, <3>1
    <3>4. /\ lats[i] \in Nat /\ lons[i] \in Nat
          /\ lats[i - 1] \in Nat /\ lons[i - 1] \in Nat
      BY <1>7, <3>1
    <3>5. /\ lats[i] > 0 => reports'[lats[i]] = reports[lats[i]]
          /\ lons[i] > 0 => reports'[lons[i]] = reports[lons[i]]
      BY <1>8, <3>1
    <3> QED
      BY <3>2, <3>3, <3>4, <3>5 DEF Counts
  <2>2. Counts(lats2, lons2, n + 1)'
    <3>1. lats2[(n + 1) - 1] = lats[n] /\ lons2[(n + 1) - 1] = lons[n]
      BY <1>2, <1>3
    <3>2. /\ x = lats[n] + (IF field = "currentLat" THEN 1 ELSE 0)
          /\ y = lons[n] + (IF field = "currentLon" THEN 1 ELSE 0)
          /\ field = "currentLat" => val = {reports'[x].lat}
          /\ field = "currentLon" => val = {reports'[y].lon}
      BY <1>0, <1>1 DEF PublishesNext
    <3>3. lats2[n + 1] = x /\ lons2[n + 1] = y
      BY <1>2, <1>3
    <3>4. watchQ'[n + 1].field = field /\ watchQ'[n + 1].val = val
      BY <1>6
    <3> QED
      BY <3>1, <3>2, <3>3, <3>4 DEF Counts
  <2>3. \A i \in 1 .. n + 1 : i \in 1 .. n \/ i = n + 1
    OBVIOUS
  <2> QED
    BY <2>1, <2>2, <2>3
<1>11. /\ watch'["currentLat"] # {} =>
             lats2[0] > 0 /\ watch'["currentLat"] = {reports'[lats2[0]].lat}
       /\ watch'["currentLon"] # {} =>
             lons2[0] > 0 /\ watch'["currentLon"] = {reports'[lons2[0]].lon}
  <2>1. watch' = watch
    BY <1>0 DEF PublishesNext
  <2>2. 0 \in 0 .. n /\ lats2[0] = lats[0] /\ lons2[0] = lons[0]
    BY <1>2, <1>3
  <2>3. /\ lats[0] > 0 => reports'[lats[0]] = reports[lats[0]]
        /\ lons[0] > 0 => reports'[lons[0]] = reports[lons[0]]
    BY <1>8, <2>2
  <2> QED
    BY <1>0, <2>1, <2>2, <2>3 DEF Numbers
<1>12. lats2[n + 1] = Len(reports') /\ lats2[n + 1] = lons2[n + 1] + (IF halfway' THEN 1 ELSE 0)
  <2>1. x = y + (IF halfway' THEN 1 ELSE 0)
    BY <1>0 DEF PublishesNext
  <2> QED
    BY <1>2, <1>3, <1>5, <2>1
<1>13. Numbers(lats2, lons2)'
  <2>1. Len(watchQ') = n + 1
    BY <1>6
  <2> QED
    BY <1>9, <1>10, <1>11, <1>12, <2>1 DEF Numbers
<1> QED
  BY <1>2, <1>3, <1>13 DEF MoveInv

LEMMA ReportNumbers ==
  ASSUME AnchorTypeOK, AnchorTypeOK', MoveInv,
         \/ \E lat \in Latitudes, lon \in Longitudes : ReportLatitude(lat, lon)
         \/ ReportLongitude
         \/ \E s \in Setting : PutSetting(s)
  PROVE  MoveInv'
<1>1. PICK lats \in [Nat -> Nat], lons \in [Nat -> Nat] : Numbers(lats, lons)
  BY DEF MoveInv
<1>2. PICK n \in Nat : n = Len(watchQ)
  BY DEF AnchorTypeOK
<1>3. PICK k \in Nat : k = Len(reports)
  BY DEF AnchorTypeOK
<1>4. lats[n] = k /\ lons[n] \in Nat /\ k = lons[n] + (IF halfway THEN 1 ELSE 0)
  BY <1>1, <1>2, <1>3 DEF Numbers
<1>5. ASSUME NEW lat \in Latitudes, NEW lon \in Longitudes, ReportLatitude(lat, lon)
      PROVE  MoveInv'
  <2>1. /\ Len(reports') = k + 1
        /\ \A i \in 1 .. k : reports'[i] = reports[i]
        /\ reports'[k + 1].lat = lat
    BY <1>3, <1>5 DEF ReportLatitude, AnchorTypeOK
  <2>2. k = lons[n] /\ halfway'
    BY <1>4, <1>5 DEF ReportLatitude
  <2>3. Publish("currentLat", {lat}) /\ UNCHANGED watch
    BY <1>5 DEF ReportLatitude
  <2>4. PublishesNext(lats, lons, "currentLat", {lat}, k + 1, k)
    <3>1. k =< k + 1 /\ k + 1 = lats[n] + 1 /\ k = lons[n] + 0 /\ k + 1 = k + 1
      BY <1>4, <2>2
    <3> QED
      BY <1>2, <1>3, <2>1, <2>2, <2>3, <3>1 DEF PublishesNext
  <2> QED
    BY <1>1, <2>4, PublishNumbers
<1>6. ASSUME ReportLongitude PROVE MoveInv'
  <2>1. reports' = reports /\ halfway /\ ~halfway' /\ UNCHANGED watch
    BY <1>6 DEF ReportLongitude
  <2>2. Publish("currentLon", {reports[k].lon})
    BY <1>3, <1>6 DEF ReportLongitude
  <2>3. k = lons[n] + 1
    BY <1>4, <2>1
  <2>4. PublishesNext(lats, lons, "currentLon", {reports[k].lon}, k, k)
    <3>1. k =< k /\ k = lats[n] + 0 /\ k = lons[n] + 1 /\ k = k + 0
      BY <1>4, <2>3
    <3> QED
      BY <1>2, <1>3, <2>1, <2>2, <3>1 DEF PublishesNext
  <2> QED
    BY <1>1, <2>4, PublishNumbers
<1>7. ASSUME NEW s \in Setting, PutSetting(s) PROVE MoveInv'
  <2>1. s.field # "currentLat" /\ s.field # "currentLon"
    BY AnchorAssumption DEF Setting
  <2>2. /\ reports' = reports /\ halfway' = halfway /\ UNCHANGED watch
        /\ Publish(s.field, s.val)
    BY <1>7 DEF PutSetting
  <2>3. PublishesNext(lats, lons, s.field, s.val, k, lons[n])
    <3>1. k =< k /\ k = lats[n] + 0 /\ lons[n] = lons[n] + 0
      BY <1>4
    <3>2. k = lons[n] + (IF halfway' THEN 1 ELSE 0)
      BY <1>4, <2>2
    <3> QED
      BY <1>2, <1>3, <2>1, <2>2, <3>1, <3>2 DEF PublishesNext
  <2> QED
    BY <1>1, <1>4, <2>3, PublishNumbers
<1> QED
  BY <1>5, <1>6, <1>7

\* The watch takes the first message: all numbers move up by one.
LEMMA ConsumeNumbers ==
  ASSUME NEW lats \in [Nat -> Nat], NEW lons \in [Nat -> Nat]
  PROVE  AnchorTypeOK /\ AnchorTypeOK' /\ Numbers(lats, lons) /\ WatchConsume => MoveInv'
<1>0. SUFFICES ASSUME AnchorTypeOK, AnchorTypeOK', Numbers(lats, lons), WatchConsume
               PROVE  MoveInv'
  OBVIOUS
<1>1. PICK n \in Nat : n = Len(watchQ)
  BY <1>0 DEF AnchorTypeOK
<1>2. /\ n > 0 /\ Len(watchQ') = n - 1
      /\ \A i \in 1 .. n - 1 : watchQ'[i] = watchQ[i + 1]
      /\ Head(watchQ) = watchQ[1] /\ watchQ[1] \in Field
  BY <1>0, <1>1 DEF WatchConsume, AnchorTypeOK
<1>3. /\ reports' = reports /\ halfway' = halfway
      /\ watch' = [watch EXCEPT ![watchQ[1].field] = watchQ[1].val]
  BY <1>0, <1>2 DEF WatchConsume, consume, world
<1> DEFINE lats2 == [i \in Nat |-> lats[i + 1]]
           lons2 == [i \in Nat |-> lons[i + 1]]
<1>4. /\ lats2 \in [Nat -> Nat] /\ \A i \in Nat : lats2[i] = lats[i + 1]
      /\ lons2 \in [Nat -> Nat] /\ \A i \in Nat : lons2[i] = lons[i + 1]
  OBVIOUS
<1> HIDE DEF lats2, lons2
<1>5. \A i \in 0 .. n - 1 : InStep(lats2, lons2, i)'
  <2>1. ASSUME NEW i \in 0 .. n - 1 PROVE InStep(lats2, lons2, i)'
    <3>1. i \in Nat /\ i + 1 \in 0 .. n
      OBVIOUS
    <3>2. InStep(lats, lons, i + 1)
      BY <1>0, <1>1, <3>1 DEF Numbers
    <3> QED
      BY <1>3, <1>4, <3>1, <3>2 DEF InStep
  <2> QED
    BY <2>1
<1>6. \A i \in 1 .. n - 1 : Counts(lats2, lons2, i)'
  <2>1. ASSUME NEW i \in 1 .. n - 1 PROVE Counts(lats2, lons2, i)'
    <3>1. i \in Nat /\ i - 1 \in Nat /\ i + 1 \in 1 .. n /\ (i + 1) - 1 = i /\ (i - 1) + 1 = i
      OBVIOUS
    <3>2. Counts(lats, lons, i + 1) /\ watchQ'[i] = watchQ[i + 1]
      BY <1>0, <1>1, <1>2, <3>1 DEF Numbers
    <3>3. /\ lats2[i] = lats[i + 1] /\ lats2[i - 1] = lats[i]
          /\ lons2[i] = lons[i + 1] /\ lons2[i - 1] = lons[i]
      BY <1>4, <3>1
    <3> QED
      BY <1>3, <3>1, <3>2, <3>3 DEF Counts
  <2> QED
    BY <2>1
<1>7. /\ lats2[n - 1] = Len(reports')
      /\ lats2[n - 1] = lons2[n - 1] + (IF halfway' THEN 1 ELSE 0)
  <2>1. n - 1 \in Nat /\ (n - 1) + 1 = n
    BY <1>2
  <2>2. lats2[n - 1] = lats[n] /\ lons2[n - 1] = lons[n]
    BY <1>4, <2>1
  <2> QED
    BY <1>0, <1>1, <1>3, <2>2 DEF Numbers
<1>8. lats2[0] = lats[1] /\ lons2[0] = lons[1]
  BY <1>4
<1>9. Counts(lats, lons, 1) /\ lats[0] \in Nat /\ lons[0] \in Nat
  BY <1>0, <1>1, <1>2 DEF Numbers
<1>10. watchQ[1].field \in Fields /\ watch \in [Fields -> Value]
  BY <1>0, <1>2 DEF AnchorTypeOK, Field
<1>11. watch'["currentLat"] # {} =>
          lats2[0] > 0 /\ watch'["currentLat"] = {reports'[lats2[0]].lat}
  <2>1. CASE watchQ[1].field = "currentLat"
    BY <1>3, <1>8, <1>9, <1>10, <2>1 DEF Counts
  <2>2. CASE watchQ[1].field # "currentLat"
    <3>1. watch'["currentLat"] = watch["currentLat"] /\ lats[1] = lats[0]
      BY <1>3, <1>9, <1>10, <2>2 DEF Counts, Fields
    <3> QED
      BY <1>0, <1>3, <1>8, <3>1 DEF Numbers
  <2> QED
    BY <2>1, <2>2
<1>12. watch'["currentLon"] # {} =>
          lons2[0] > 0 /\ watch'["currentLon"] = {reports'[lons2[0]].lon}
  <2>1. CASE watchQ[1].field = "currentLon"
    BY <1>3, <1>8, <1>9, <1>10, <2>1 DEF Counts
  <2>2. CASE watchQ[1].field # "currentLon"
    <3>1. watch'["currentLon"] = watch["currentLon"] /\ lons[1] = lons[0]
      BY <1>3, <1>9, <1>10, <2>2 DEF Counts, Fields
    <3> QED
      BY <1>0, <1>3, <1>8, <3>1 DEF Numbers
  <2> QED
    BY <2>1, <2>2
<1>13. Numbers(lats2, lons2)'
  <2>1. Len(watchQ') = n - 1
    BY <1>2
  <2> QED
    BY <1>5, <1>6, <1>7, <1>11, <1>12, <2>1 DEF Numbers
<1> QED
  BY <1>4, <1>13 DEF MoveInv

\* After a restart nothing is waiting, and the watch knows no position.
LEMMA RestartNumbers == ASSUME AnchorTypeOK, MoveInv, Restart PROVE MoveInv'
<1>1. PICK lats \in [Nat -> Nat], lons \in [Nat -> Nat] : Numbers(lats, lons)
  BY DEF MoveInv
<1>2. PICK n \in Nat : n = Len(watchQ)
  BY DEF AnchorTypeOK
<1>3. PICK x \in Nat, y \in Nat :
        x = Len(reports) /\ x = y + (IF halfway THEN 1 ELSE 0)
  BY <1>1, <1>2 DEF Numbers
<1> DEFINE lats2 == [i \in Nat |-> x]
           lons2 == [i \in Nat |-> y]
<1>4. Len(watchQ') = 0 /\ reports' = reports /\ halfway' = halfway
  BY DEF Restart
<1>5. watch'["currentLat"] = {} /\ watch'["currentLon"] = {}
  BY DEF Restart, initFromDb, loaded, Restored, Fields
<1>6. x =< x /\ x \in {y, y + 1}
  BY <1>3
<1>7. Numbers(lats2, lons2)'
  <2>1. lats2[0] = x /\ lons2[0] = y
    OBVIOUS
  <2> HIDE DEF lats2, lons2
  <2>2. InStep(lats2, lons2, 0)'
    BY <1>3, <1>4, <1>6, <2>1 DEF InStep
  <2>3. \A i \in 0 .. 0 : i = 0
    OBVIOUS
  <2>4. \A i \in 1 .. 0 : FALSE
    OBVIOUS
  <2>5. lats2[0] = Len(reports') /\ lats2[0] = lons2[0] + (IF halfway' THEN 1 ELSE 0)
    BY <1>3, <1>4, <2>1
  <2> QED
    BY <1>4, <1>5, <2>2, <2>3, <2>4, <2>5 DEF Numbers
<1> QED
  BY <1>7 DEF MoveInv

LEMMA MoveNext == AnchorTypeOK /\ AnchorTypeOK' /\ MoveInv /\ [Next]_vars => MoveInv'
<1> SUFFICES ASSUME AnchorTypeOK, AnchorTypeOK', MoveInv, [Next]_vars PROVE MoveInv'
  OBVIOUS
<1>1. ASSUME UNCHANGED <<reports, halfway, watch, watchQ>> PROVE MoveInv'
  <2>1. PICK lats \in [Nat -> Nat], lons \in [Nat -> Nat] : Numbers(lats, lons)
    BY DEF MoveInv
  <2>2. \A i : InStep(lats, lons, i)' <=> InStep(lats, lons, i)
    BY <1>1 DEF InStep
  <2>3. \A i : Counts(lats, lons, i)' <=> Counts(lats, lons, i)
    BY <1>1 DEF Counts
  <2>4. Numbers(lats, lons)'
    BY <1>1, <2>1, <2>2, <2>3 DEF Numbers
  <2> QED
    BY <2>4 DEF MoveInv
<1>2. ASSUME NEW zones \in ZoneLists, PutZones(zones) PROVE MoveInv'
  BY <1>1, <1>2 DEF PutZones
<1>3. ASSUME WatchConsume PROVE MoveInv'
  BY <1>3, ConsumeNumbers DEF MoveInv
<1>4. ASSUME AlarmConsume PROVE MoveInv'
  BY <1>1, <1>4 DEF AlarmConsume, world
<1>5. CASE DbConsume \/ OpenGate \/ Flush \/ FlushFails \/ UNCHANGED vars
  BY <1>1, <1>5 DEF DbConsume, OpenGate, Flush, FlushFails, vars, world
<1> QED
  BY <1>2, <1>3, <1>4, <1>5, ReportNumbers, RestartNumbers DEF Next

(***************************************************************************)
(* The latitude and the longitude of a distance are of one report or of    *)
(* two that follow each other, for any number of reports, settings and     *)
(* restarts and any length of the queues.                                  *)
(***************************************************************************)
THEOREM AnchorAlarmMoves == Spec => []RadiusOfOneMove
<1>1. AnchorTypeOK /\ MoveInv => RadiusOfOneMove
  <2> SUFFICES ASSUME AnchorTypeOK, MoveInv, Armed(watch)
               PROVE  \E i, j \in DOMAIN reports :
                          /\ i - j \in {-1, 0, 1}
                          /\ watch["currentLat"] = {reports[i].lat}
                          /\ watch["currentLon"] = {reports[j].lon}
    BY DEF RadiusOfOneMove
  <2>1. PICK lats \in [Nat -> Nat], lons \in [Nat -> Nat] : Numbers(lats, lons)
    BY DEF MoveInv
  <2>2. PICK k \in Nat, n \in Nat : k = Len(reports) /\ n = Len(watchQ)
    BY DEF AnchorTypeOK
  <2>3. watch["currentLat"] # {} /\ watch["currentLon"] # {}
    BY DEF Armed, Fields
  <2>4. PICK a \in Nat, b \in Nat : a = lats[0] /\ b = lons[0]
    OBVIOUS
  <2>5. /\ a > 0 /\ watch["currentLat"] = {reports[a].lat}
        /\ b > 0 /\ watch["currentLon"] = {reports[b].lon}
    BY <2>1, <2>3, <2>4 DEF Numbers
  <2>6. a =< k /\ a \in {b, b + 1}
    <3>1. 0 \in 0 .. Len(watchQ)
      BY <2>2
    <3>2. InStep(lats, lons, 0)
      BY <2>1, <3>1 DEF Numbers
    <3> QED
      BY <2>2, <2>4, <3>2 DEF InStep
  <2>7. a \in 1 .. k /\ b \in 1 .. k /\ a - b \in {-1, 0, 1}
    BY <2>5, <2>6, StepBounds
  <2>8. DOMAIN reports = 1 .. k
    BY <2>2 DEF AnchorTypeOK
  <2> QED
    BY <2>5, <2>7, <2>8
<1>2. AnchorTypeOK /\ AnchorTypeOK' /\ MoveInv /\ [Next]_vars => MoveInv'
  BY MoveNext
<1> QED
  BY <1>1, <1>2, MoveInit, AnchorAlarmTypes, PTL DEF Spec
=============================================================================
