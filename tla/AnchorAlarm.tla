----------------------------- MODULE AnchorAlarm -----------------------------
(***************************************************************************)
(* The anchor alarm: the boat's positions and the anchor's settings go     *)
(* through AnchorWatchHandler, whose distances, with the zones a client    *)
(* has set for them, go through AlarmHandler.  Each handler has a          *)
(* temporary queue of its own on the broker's INTERNAL_KV address and a    *)
(* thread that empties it in order.  A message that a handler's filter or  *)
(* map would skip is not put in its queue.                                 *)
(*                                                                         *)
(* InfluxDbHandler has such a queue too and saves what passes the gate of   *)
(* InfluxDbService in a batch, which the client of InfluxDB sends later or *)
(* loses.  A restart finds the three queues empty, the batch lost, and     *)
(* loads what InfluxDB has.                                                *)
(*                                                                         *)
(* Outside the handlers: one GPS that reports a latitude and then the      *)
(* longitude, in messages of their own, as the Seatalk sentences 50 and 51 *)
(* do; clients that put the settings and the zones, one at a time and all  *)
(* in the name of one source.  Rows of the boat's positions, which nobody  *)
(* here reads back, are left out of the database.                          *)
(***************************************************************************)
EXTENDS AlarmHandler, AnchorWatch

CONSTANTS
    RadiusKey,      \* navigation.anchor.currentRadius.values.internal
    Latitudes, Longitudes,              \* of the boat
    AnchorLatitudes, AnchorLongitudes,
    MaxRadii,       \* settings of maxRadius
    Cleared,        \* settings that clients also put as null
    EarlierZones,   \* lists of zones that an earlier run may have stored
    MaxInputs,      \* bound on the positions reported and the settings and zones put
    MaxRestarts,    \* bound on the restarts
    MaxQueue,       \* bound on the messages waiting in watchQ and in alarmQ
    MaxRows         \* bound on the rows waiting in dbQ

VARIABLES
    reports,        \* the positions that the GPS has measured
    halfway,        \* the longitude of the last report is not sent yet
    laid,           \* the fields as published last
    zonesLaid,      \* the zones as published last
    lost,           \* fields that came back from InfluxDB other than published last
    watchQ,         \* the queue of AnchorWatchHandler
    alarmQ,         \* the queue of AlarmHandler
    unjudged,       \* zones were published after the last distance was sent
    dbQ,            \* the queue of InfluxDbHandler
    allowWrite,     \* the gate of InfluxDbService
    batched,        \* what InfluxDB has once the batch is sent
    stored,         \* what InfluxDB has
    puts, restarts  \* counters for the bounds

world == <<reports, halfway, laid, zonesLaid, lost, puts, restarts>>
dbVars == <<dbQ, allowWrite, batched, stored>>
vars == <<alarmVars, watch, world, watchQ, alarmQ, unjudged, dbVars>>

ASSUME AnchorAssumption ==
    /\ RadiusKey \in AlarmKeys
    /\ Latitudes \cup Longitudes \cup MaxRadii \subseteq Int
    /\ AnchorLatitudes \cup AnchorLongitudes \subseteq Int
    /\ Cleared \subseteq {"anchorLat", "anchorLon", "maxRadius"}
    /\ EarlierZones \subseteq ZoneLists

Setting ==
    [field : {"anchorLat"}, val : {{x} : x \in AnchorLatitudes}]
        \cup [field : {"anchorLon"}, val : {{x} : x \in AnchorLongitudes}]
        \cup [field : {"maxRadius"}, val : {{x} : x \in MaxRadii}]
        \cup [field : Cleared, val : {{}}]

\* The settings of an anchor that an earlier run of the server has left.
EarlierSettings ==
    {[f \in Fields |->
        CASE f = "anchorLat" -> {lat} [] f = "anchorLon" -> {lon}
          [] f = "maxRadius" -> {r} [] OTHER -> {}] :
        lat \in AnchorLatitudes, lon \in AnchorLongitudes, r \in MaxRadii}

Databases ==
    [settings : {[f \in Fields |-> {}]} \cup EarlierSettings,
     zones    : {NoZones} \cup EarlierZones]

MoreInputs == Len(reports) + puts < MaxInputs

Publish(field, val) ==
    /\ Len(watchQ) < MaxQueue
    /\ watchQ' = Append(watchQ, [field |-> field, val |-> val])
    /\ laid' = [laid EXCEPT ![field] = val]
    /\ lost' = lost \ {field}

SendRow(row) ==
    /\ Len(dbQ) < MaxRows
    /\ dbQ' = Append(dbQ, row)
    /\ UNCHANGED <<allowWrite, batched, stored>>

ReportLatitude(lat, lon) ==
    /\ ~halfway
    /\ MoreInputs
    /\ halfway' = TRUE
    /\ reports' = Append(reports, [lat |-> lat, lon |-> lon])
    /\ Publish("currentLat", {lat})
    /\ UNCHANGED <<alarmVars, watch, zonesLaid, alarmQ, unjudged, dbVars, puts, restarts>>

ReportLongitude ==
    /\ halfway
    /\ halfway' = FALSE
    /\ Publish("currentLon", {reports[Len(reports)].lon})
    /\ UNCHANGED <<alarmVars, watch, reports, zonesLaid, alarmQ, unjudged, dbVars,
                   puts, restarts>>

PutSetting(s) ==
    /\ MoreInputs
    /\ puts' = puts + 1
    /\ Publish(s.field, s.val)
    /\ SendRow([kind |-> "setting", field |-> s.field, val |-> s.val])
    /\ UNCHANGED <<alarmVars, watch, reports, halfway, zonesLaid, alarmQ, unjudged, restarts>>

PutZones(zones) ==
    /\ MoreInputs
    /\ Len(alarmQ) < MaxQueue
    /\ puts' = puts + 1
    /\ zonesLaid' = zones
    /\ alarmQ' = Append(alarmQ, [kind |-> "zones", zones |-> zones])
    /\ unjudged' = TRUE
    /\ SendRow([kind |-> "zones", zones |-> zones])
    /\ UNCHANGED <<alarmVars, watch, reports, halfway, laid, lost, watchQ, restarts>>

\* Faulty variant: the distance is sent before the fields are set.
ChecksFirst ==
    /\ watchQ # << >>
    /\ Len(alarmQ) < MaxQueue
    /\ watchQ' = Tail(watchQ)
    /\ consume(Head(watchQ).field, Head(watchQ).val)
    /\ \/ /\ ~Armed(watch)
          /\ UNCHANGED <<alarmQ, unjudged>>
       \/ \E d \in Radius(watch) :
            /\ alarmQ' = Append(alarmQ, [kind |-> "value", val |-> d])
            /\ unjudged' = FALSE
    /\ UNCHANGED <<alarmVars, world, dbVars>>

\* AnchorWatchHandler.consume, with the distance it sends to the bus.
WatchConsume ==
    /\ watchQ # << >>
    /\ Len(alarmQ) < MaxQueue
    /\ watchQ' = Tail(watchQ)
    /\ consume(Head(watchQ).field, Head(watchQ).val)
    /\ \/ /\ ~Armed(watch')
          /\ UNCHANGED <<alarmQ, unjudged>>
       \/ \E d \in Radius(watch') :
            /\ alarmQ' = Append(alarmQ, [kind |-> "value", val |-> d])
            /\ unjudged' = FALSE
    /\ UNCHANGED <<alarmVars, world, dbVars>>

\* AlarmHandler.consume.
AlarmConsume ==
    /\ alarmQ # << >>
    /\ alarmQ' = Tail(alarmQ)
    /\ \/ /\ Head(alarmQ).kind = "zones"
          /\ parseZones(RadiusKey, Head(alarmQ).zones)
       \/ /\ Head(alarmQ).kind = "value"
          /\ consumeValue(RadiusKey, Head(alarmQ).val)
    /\ UNCHANGED <<watch, world, watchQ, unjudged, dbVars>>

With(db, row) ==
    IF row.kind = "zones"
    THEN [db EXCEPT !.zones = row.zones]
    ELSE [db EXCEPT !.settings[row.field] = row.val]

\* InfluxDbHandler.consume: a row that finds the gate closed is dropped.
DbConsume ==
    /\ dbQ # << >>
    /\ dbQ' = Tail(dbQ)
    /\ batched' = IF allowWrite THEN With(batched, Head(dbQ)) ELSE batched
    /\ UNCHANGED <<alarmVars, watch, world, watchQ, alarmQ, unjudged, allowWrite, stored>>

\* The gate is opened when the clock is right, or config.server.clock.src "system".
OpenGate ==
    /\ ~allowWrite
    /\ allowWrite' = TRUE
    /\ UNCHANGED <<alarmVars, watch, world, watchQ, alarmQ, unjudged, dbQ, batched, stored>>

Flush ==
    /\ stored # batched
    /\ stored' = batched
    /\ UNCHANGED <<alarmVars, watch, world, watchQ, alarmQ, unjudged, dbQ, allowWrite, batched>>

\* InfluxDB is away: the batch is dropped.
FlushFails ==
    /\ stored # batched
    /\ batched' = stored
    /\ UNCHANGED <<alarmVars, watch, world, watchQ, alarmQ, unjudged, dbQ, allowWrite, stored>>

\* A crash may come before any of the rows in dbQ and in the batch has reached InfluxDB.
Restart ==
    /\ restarts < MaxRestarts
    /\ restarts' = restarts + 1
    /\ watchQ' = << >>
    /\ alarmQ' = << >>
    /\ dbQ' = << >>
    /\ batched' = stored
    /\ allowWrite' \in BOOLEAN
    /\ loadAlarms
    /\ initFromDb(stored.settings)
    /\ lost' = {f \in Restored : stored.settings[f] # laid[f]}
    /\ UNCHANGED <<reports, halfway, laid, zonesLaid, stored, unjudged, puts>>

\* The server starts on a database with settings of an earlier run, or none.
Init ==
    /\ AlarmInit
    /\ stored \in Databases
    /\ batched = stored
    /\ allowWrite \in BOOLEAN
    /\ dbQ = << >>
    /\ watch = loaded(stored.settings)
    /\ laid = stored.settings
    /\ zonesLaid = stored.zones
    /\ lost = {}
    /\ reports = << >>
    /\ halfway = FALSE
    /\ watchQ = << >>
    /\ alarmQ = << >>
    /\ unjudged = FALSE
    /\ puts = 0
    /\ restarts = 0

Next ==
    \/ \E lat \in Latitudes, lon \in Longitudes : ReportLatitude(lat, lon)
    \/ ReportLongitude
    \/ \E s \in Setting : PutSetting(s)
    \/ \E zones \in ZoneLists : PutZones(zones)
    \/ WatchConsume
    \/ AlarmConsume
    \/ DbConsume
    \/ OpenGate
    \/ Flush
    \/ FlushFails
    \/ Restart

Spec == Init /\ [][Next]_vars

Field == [field : Fields, val : Value]

Row == [kind : {"setting"}, field : Fields, val : Value]
        \cup [kind : {"zones"}, zones : ZoneLists]

Database == [settings : [Fields -> Value], zones : ZoneLists \cup {NoZones}]

AlarmMessage == [kind : {"zones"}, zones : ZoneLists] \cup [kind : {"value"}, val : Int]

\* The type invariant: every queue holds messages its handler understands.
AnchorTypeOK ==
    /\ alarmMap \in [AlarmKeys -> ZoneLists \cup {NoZones}]
    /\ watch \in [Fields -> Value]
    /\ laid \in [Fields -> Value]
    /\ zonesLaid \in ZoneLists \cup {NoZones}
    /\ lost \subseteq Restored
    /\ reports \in Seq([lat : Latitudes, lon : Longitudes])
    /\ watchQ \in Seq(Field)
    /\ alarmQ \in Seq(AlarmMessage)
    /\ dbQ \in Seq(Row)
    /\ batched \in Database
    /\ stored \in Database
    /\ allowWrite \in BOOLEAN
    /\ halfway \in BOOLEAN
    /\ halfway => reports # << >>

-----------------------------------------------------------------------------

(***************************************************************************)
(* A distance is sent for every latitude and every longitude, so it may be *)
(* that of a place where the boat never was; but its latitude and its      *)
(* longitude are of the same report or of two that follow each other, also *)
(* after a restart (AnchorWatchHandler.java:106-127).                      *)
(***************************************************************************)
RadiusOfOneMove ==
    Armed(watch) =>
        \E i, j \in DOMAIN reports :
            /\ i - j \in {-1, 0, 1}
            /\ watch["currentLat"] = {reports[i].lat}
            /\ watch["currentLon"] = {reports[j].lon}

Quiet == watchQ = << >> /\ alarmQ = << >> /\ ~halfway

\* What the bounds of a zone say, a missing one being no bound.
Contains(z, val) ==
    /\ \A l \in z.lower : val >= l
    /\ \A u \in z.upper : val < u

\* The boat on the anchor in a zone without lower notifies nothing.
Told(z, val) ==
    /\ Contains(z, val)
    /\ z.state \in Notified
    /\ ~(val = 0 /\ z.lower = {})

\* The notification is that of the zone in which the distance d lies.
NoticeIsTrue(zones, d) ==
    \A i \in DOMAIN zones :
        Told(zones[i], d) =>
            {n \in notices : n.key = RadiusKey /\ n.depth = 1} =
                {[key |-> RadiusKey, depth |-> 1, state |-> zones[i].state]}

Judged == Quiet /\ Armed(watch) /\ ~unjudged

(***************************************************************************)
(* When nothing is on its way, the watch is on and the boat's distance has *)
(* been sent since the zones were set, the notification stored is that of  *)
(* the zone the handler knows for the boat's real distance from the anchor *)
(* as it was laid last: no order of reports and settings leaves one of an  *)
(* earlier place, and a restart does so only where InfluxDB had not been   *)
(* given the setting, in time or at all, and nobody has put it again       *)
(* (AnchorWatchHandler.java:93-127, AlarmHandler.java:103-193,             *)
(* InfluxDbService.java:98).                                               *)
(***************************************************************************)
JudgedNoticeIsTrue ==
    Judged /\ lost = {} =>
        \A d \in Distance(laid) : NoticeIsTrue(alarmMap[RadiusKey], d)

(***************************************************************************)
(* The same for the zones as a client has set them, if InfluxDB has them,  *)
(* whether the server has been restarted since or not: "load all keys with *)
(* alarms" says the constructor (AlarmHandler.java:73).                    *)
(***************************************************************************)
AlarmsAreLoaded ==
    Judged /\ lost = {} /\ stored.zones = zonesLaid =>
        \A d \in Distance(laid) : NoticeIsTrue(zonesLaid, d)
=============================================================================
