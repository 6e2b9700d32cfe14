# A TLA+ model of the Signal K Artemis server

Artemis is a Signal K server for boats. It takes navigation and sensor data from serial
ports, TCP, UDP, websockets and REST, passes it through an embedded ActiveMQ Artemis
broker, keeps it in InfluxDB and gives it to clients on request or as subscriptions.

This directory holds TLA+ modules of the parts of the server whose correctness depends
on the order in which threads, messages, failures and restarts meet, the TLC
configurations that check them, and TLAPS proofs of what matters most in them.
`PROJECT.json` maps every definition to the lines it models and lists the hazards of the
code with the properties that watch over them.

In what follows `.../` is `src/src/main/java/nz/co/fortytwo/signalk/artemis/`.

## 1. The system

    serial, TCP, UDP, websocket, REST
        | MessageSupport (a broker session and producer per thread)
        v
    incoming.raw --> interceptors: Garbage, Session, DeltaContext, SysTime,
        |            FullSource, DeltaSource, SecurityWrite
        v exclusive diverts by AMQ_content_type
    handlers: Get, Auth, Subscribe, N2K, NMEA, Full, Delta     (one consumer thread each)
        |                      |
        |                      `--> SubscriptionManagerService <-- sweeps of the transports
        v  SignalkKvConvertor            | java.util.Timer
    internal.kv (multicast)              v
        |--> InfluxDbHandler --> InfluxDbService --> InfluxDB
        |--> AlarmHandler, AnchorWatchHandler, TrueWindHandler --> internal.kv / incoming.raw
        v
    outgoing.reply.<session>  (temporary queue of a client) --> transport --> client

| Component | State | Operations | Meets the others through |
|---|---|---|---|
| Subscription manager (`.../subscription`) | the list, each Subscription's `active` and TimerTask | add, remove, removeByTempQ, stopAll, the tasks | subscribe messages, sweeps, the reply queues |
| TCP server (`.../server/ArtemisTcpNettyHandler`) | contextList, consumerList | channelActive, channelRead0, channelInactive, process | broker, removeByTempQ |
| UDP server (`.../server/ArtemisUdpNettyHandler`) | socketList, consumerList, channelList | channelRead0, process | broker, removeByTempQ |
| Time-series storage (`.../tdb`) | write gate, primaryMap, batch, InfluxDB | setWrite, save, isPrimary, flush, loadPrimary, loadData | the KV bus, Config, the clock |
| Clock (`SysTimeInterceptor`, `TimeUpdater`, `ControlService`) | the system clock | intercept, run, setTime | the gate |
| Configuration (`Config`) | the map of settings | load, save, setters | storage |
| REST and websockets (`.../service`) | temporary queue, consumer, suspended resource | get, put, post, close listeners, connection watcher | broker, removeByTempQ |
| Handlers (`.../handler`) | one consumer and session each | consume | broker, storage |
| NMEA 0183 parser (`src/src/main/resources/signalk-parser-nmea0183`, `NMEAMsgHandler`) | none | parse, a hook for each sentence, a decoder for each Seatalk datagram, consume | raw sentences, internal.kv |
| Watches (`AlarmHandler`, `AnchorWatchHandler`, `TrueWindHandler`, `DeclinationUpdater`) | zones, anchor, latest wind | consume, check, execute, run | KV bus, storage |
| Interceptors and broker.xml | - | rewrite, refuse, divert | every message |
| Security (`SecurityUtils`, `AuthHandler`, interceptors) | cached configuration, tokens | authenticate, renew, trim, inject | every message and reply |
| Serial ports (`.../serial`) | readers, line buffer | sweep, events, stop | broker |
| Life cycle (`ArtemisServer`) | all of the above | init, stop | all of the above |

What makes it hard:

* **No locks.** The list of subscriptions and `primaryMap` are concurrent collections, the
  connection maps (HashBiMap) not even that, and what is done with them takes several
  steps: a test and an add, a snapshot and a removal, three maps that are filled and emptied one by one.
* **Threads that a reader of one class does not see.** Each session of the broker
  delivers on a thread of its own; TCP replies and disconnections are on different
  threads; all subscriptions share one `Timer` thread.
* **Things that go away half way.** A reply queue is removed while a task sends to it; a
  client comes back while it is being forgotten; one entry of an array throws.
* **A batch that may be lost together with the map that refers to it**, and a clock that
  is wrong after a restart.
* **Values that come in parts and in many notations.** Seatalk's 50 and 51 make a position
  two messages on the bus (RMC, GGA and GLL one, which the anchor watch's filter never passes); the same heading comes as text, as a quarter and half degrees, with or without a date.

What makes each component correct:

* Manager: no subscription is fed that is not listed; equal subscriptions are never fed
  twice; unsubscribe stops the stream, subscribe starts one; dead tasks leave the Timer.
* Transports: a registered client is reachable, an unreachable one is neither registered
  nor consumed; a slow client is cut off; a client that is gone leaves nothing behind.
* Storage: one primary source for each value, across lost batches and restarts; nothing
  is stored while the clock is not known to be right.
* Requests: every request is answered exactly once, and its queue is deleted.
* Routing: every class of message has exactly one consumer.
* Watches: each notification is about the current zone; nothing stale is combined.
* Security: a token lives for its validity and no longer. Life cycle: nothing starts
  after stop.
* NMEA: what is sent is what the sentence says, in the units of the server; a gap in a
  sentence is no value; a newer fix replaces an older one.

## 2. The modules

| Module | Models | Role |
|---|---|---|
| `Subscriptions` | `SubscriptionManagerService`, `Subscription`, `SubscribeMsgHandler` | the component |
| `SubscriptionContract` | - | abstract specification of what the manager promises |
| `SubscriptionRefinement` | - | the refinement mapping |
| `MCSubscriptions` | - | constants for TLC |
| `SubscriptionsProofs` | - | theorems |
| `ReplyQueues` | broker queue, requests and subscription of a client | shared by the next two |
| `TcpConnections`, `MCTcpConnections`, `TcpConnectionsProofs` | `ArtemisTcpNettyHandler` | component, constants, theorems |
| `UdpClients`, `MCUdpClients`, `UdpClientsProofs` | `ArtemisUdpNettyHandler` | component, constants, theorems |
| `Storage`, `MCStorage`, `StorageProofs` | `InfluxDbService`, `SysTimeInterceptor`, the writers that call them | component, constants, theorems |
| `SerialPorts`, `MCSerialPorts`, `SerialPortsProofs` | `SerialPortManager`, `SerialPortReader`, `stopSerial` at shutdown | component, constants, theorems |
| `NmeaValues` | fields and results of hooks, the library `nmea0183-utilities` | used by the next three |
| `NmeaHooks` | the hooks of `hooks-es5` | pure operators |
| `Seatalk`, `SeatalkFormat` | the decoders of `hooks-es5/seatalk`; the formats in the comments at their heads | pure operators, and the reference they are checked against |
| `NmeaParser` | `parser.js`, `VDM.js`, `NMEAMsgHandler` | component |
| `NmeaShip`, `MCNmea` | the formats in the comments of the hooks | a ship's instruments, the properties; samples for TLC |
| `NmeaProofs`, `NmeaReadingProofs` | - | theorems on types and on what is shown; on what is sent |
| `AlarmHandler` | `AlarmHandler` | the component alone, as a specification any user of it implements |
| `AnchorWatch` | `AnchorWatchHandler` | its state and operations |
| `AnchorAlarm`, `MCAnchorAlarm`, `AnchorAlarmProofs` | the two handlers with bus, GPS, clients, InfluxDbHandler, batch and database, restarts | composition, constants, theorems |

The operators under a comment "Faulty variant" are what a definition below them would be
after a plausible mistake. No specification uses them: `PROJECT.json` pairs each with a
property that TLC finds violated when it takes the place of the definition.

### Subscriptions

State: `desc` is what the constructor sets (session, path, period, playback rate; Nobody
for an object not constructed yet), `active` the field of that name, `task` the state of
the TimerTask, `subscriptions` the manager's list, `running` the object whose task the
Timer thread is in. `pc`, `client`, `toSubscribe`, `toUnsubscribe`, `cur`, `targets`,
`victims` are the consumer thread's position and locals; `sweep`, `doomed`, `pending`
those of a thread in `removeByTempQ` or `stopAll`. `late` counts the messages of a
subscription after its deactivation; it is a history variable.

Actions: `Receive` takes a message, `ParseSubscribe` and `ParseNone` construct the object
of the next entry, `ParseFails` is an entry that throws; `CheckContains`, `Add`,
`Activate`, `Schedule` are `addSubscription`, `StartRemove`, `Unlink`, `StopVictim`,
`RemoveReturns` are `removeSubscription`; `TimerFires`, `TimerSends`, `TimerSendFails`,
`TimerSkips` are the task; `SweepStart`, `SweepDeactivates`, `SweepRemoves` are the
sweeps. Each method is cut at the points where another thread can change what it read.

What was decided:

* `ConcurrentLinkedQueue` is a set. No two elements are ever equal (`NoDuplicates`), so
  multiplicity and order show only in the order of sweeping, which is left open.
* A `for` over the list is weakly consistent; it is one snapshot here. What differs is
  an element added during the iteration, which one snapshot puts after it.
* `active` is not volatile; it is read and written in sequential order here. A build in
  which the Timer thread never sees a write is not modelled.
* `Equal` is `equals`: session, period and path, not the playback rate.
* `Schedule` throws, as `Timer.schedule` does, on a period below 1 (a playback divides it
  by its rate, -1 by default) or a task seen before.
* An Error, which would end the Timer thread, is not modelled, nor what a task loads.
* `Serial` is a switch. FALSE is the code. TRUE adds one assumption to `Receive` and
  `SweepStart`: a sweep never overlaps a message or another sweep. The properties
  that need it say how far one lock around both would take this code.

### SubscriptionContract

A client's key (session, path, period) is *wanted* or not and *feeding* or not. A stream
begins only for a wanted key, may break off, and when it is not wanted stops in the end
(weak fairness). `SubscriptionRefinement` maps wanted to the keys in the list and feeding
to the keys of active, scheduled objects.

### ReplyQueues, TcpConnections and UdpClients

`queue`, `backlog` and `open` are the broker's temporary queue of a client, the messages
in it and its consumers; `inbox` is what the client sent and the consumer of subscribe
messages has not taken yet; `listed` and `fed` are one subscription. `Handle` is
`SubscribeMsgHandler` in one step, `Feed` and `FeedFails` the Timer task, `Sweep`
`removeByTempQ`. These steps are atomic here because module `Subscriptions` has
them in detail. A send to a queue that does not exist is dropped or throws (`FeedFails`).

`TcpConnections`: `channel` is the life of a connection, with `channelInactive` cut at
the wait of `close()` for a running message handler (`ChannelInactive`, `ClosesConsumer`)
and at the null pointer when the consumer is already forgotten; `delivery` and `killed` are
the position of `process`, whose kill branch is `KillCloses`, `KillSweeps`, `KillForgets`.

`UdpClients`: `socket`, `consumer`, `context` are the three maps, `reading` the position
of `channelRead0` and `delivery` that of `process`. Every access to a map is an action.
HashBiMap is not thread-safe: its operations are taken to be atomic, so a corrupted map is
not among the behaviours. The guard on a closed rxSession and `finalize` are left out.

### Storage

`allowWrite` is the gate, `clockSrc` the setting `config.server.clock.src` (in InfluxDB:
`storedClock`, in the batch: `pendingClock`), `primaryMap` the static map, `pc` and `row`
the threads in `saveData` (InfluxDbHandler's delivery thread, and the scheduler's, which
saves the declination without the bus), `batch` and `db` the rows not sent and stored.
`dropped` is a history variable: the paths of primary rows that InfluxDB did not take.
A flush is stored or lost as a whole: each `InfluxDbService` has a batch of its own in the
code, and one batch may be sent in several requests. `clearDbFuture` and
`clearDbVessels`, which delete rows of the future, are not modelled: `NoOrphans` takes it
that no row is deleted.

A row is its key, source and primary tag: times and values are left out, and with them how
often a series is written. A key has the form the code gives it: `"values"` for
`<path>.values.<source>`, `"plain"` for an object the server saves under the path itself;
`isPrimary` makes two entries of them, `loadPrimary` one. `LoadedMaps` keeps, of
several primary sources, any one (the order of InfluxDB's answer decides). A failed flush
loses the batch (`FlushFails`; the client's handler is not told). `Restart` includes a
crash at any point. Only `Config`'s static initializer reloads the map: later constructors
find it filled with `vessels.<uuid>.uuid`. Where setting the clock runs `date`, which may
fail, that is the step that does not happen.

### SerialPorts

`port`, `run`, `handle`, `consumer` and `session` are the fields of each reader, `listed` the
manager's list; `sweep`, `cur`, `unchecked`, `gone`, `todo` are the position and locals of
`run`, `down` and `toStop` those of `stopSerial`; `reading` says that the event thread of a
port is in `serialEvent`, and `at`, `on` where each thread is in `stopReader`, and of whom.
`failed` is a history variable, reset by `SweepStart`: a port that was not opened, or whose
reader stopped itself, since the last sweep began.

`stopReader` is four steps (`TestPort`, `ClosePort`, `ForgetPort`, `StopSession`), as up to
three threads are in it at once; `isRunning` is two (`Check`, `IsOpen`), since it reads
`serialPort` twice, and the exception between them ends the sweep. The list is a
`CopyOnWriteArrayList`, so a loop over it is a snapshot. The fields are not volatile; they
are read and written in sequential order here. `removeDataListener` and `closePort` are one
step: events are ignored once `running` is false, which every caller sees to before.
Sessions belong to threads: only the scheduler's thread can close the one the
constructor made (`StopSession`). A port's event thread makes a session of its own
when it first sends (`SerialPortReader.java:232-238`); that one is not modelled, and stays
open when the sweep or the shutdown stops the reader: `RemovedIsReleased` is about the
session of the thread that made the reader. A reader object that nothing refers to is used again for
a new one (`Garbage`), which keeps the number of objects finite.

The port library is external: it opens a port or not, `isOpen` is what was opened and not
closed yet, and a port whose device is gone is closed when the library fails to read it
(`Notice`). The text of a line, its buffer, and `process`, whose queue nobody reads, are
left out, and so is a change of the setting `config.server.serial.ports`.

### NmeaValues, NmeaHooks, Seatalk and NmeaParser

A hook is an operator from the fields of a sentence to a delta, a warning, null or an
exception; what the hooks share of one idea (a position, a value under a condition, the
test for an empty field) is in `NmeaValues`. A field is a number, a text or empty, so that
Javascript's `float("")`, `undefined` behind the last field and a zero that tests as false
each have their effect. A computed number is a set with one member, and the empty set is
`NaN`, which arithmetic hands on. A measured value keeps its amount, the unit it was in
and the one it is converted to: the factor is not calculated, but a wrong unit, sign or
scale shows. A time is a tick; `DayTicks`, `MinuteTicks` and `MonthTicks` set the calendar.

`Seatalk` decodes bytes with division and remainder where the code masks and shifts.
`SeatalkFormat` is written from the comments at the head of each decoder only.

`NmeaParser` has one step a sentence (`Consume`), since one thread handles them: tag
block, hook, source, conversion to key-value messages, with the context that the handler sets to the
own vessel. Its state is the clock, the sentence and messages last handled, and of the
database the newest point of the series in `Watched` (`Stored`). The checksum is cut off and not
looked at, as in the code. AIS decoding (`ggencoder`) and `nmea0183-utilities` are external.

`NmeaShip` has what the parser does not know: a *reading* (position, heading, speeds, wind,
depths, variation, rudder) and the sentences and datagrams that the instruments of a ship make
of it (`Instruments`), by the formats in the comments of the hooks; `Gaps` are those
with a field left empty or the end cut off. A sentence carries the reading it was made from
and the time it was taken at, which only the properties look at.
`SentencesAssumption` says which sentences arrive: the fields are numbers, texts or a
position; a time of day is one, a date is not ahead of the server's; a complete sentence
that tells a reading is one of its `Instruments`, an incomplete one a gap of one; a complete
datagram has the bytes its type has. Sentences without a reading may hold anything else.
TLC evaluates the assumption on all samples; the theorems hold for every set that satisfies it.

### AlarmHandler, AnchorWatch and AnchorAlarm

`alarmMap` is the static map of zones, `notices` the notifications as stored last. A bound
of a zone is a set, empty where the zone has none; a missing `lower` is
`Double.MIN_VALUE`, the smallest *positive* double, as in the code. A notification is its
key, its state and how often `.notifications` was put before the key: the loop over the
zones rewrites the key each time a zone matches. Messages and methods are left out.

`watch` is the five fields of the anchor watch, each a set, empty for null; a null value
that is sent empties its field again. Distances are
squared and on a plane; the haversine orders nearby points the same way.

`AnchorAlarm` puts them on the bus: each handler has a queue (`watchQ`, `alarmQ`) and a
thread (`WatchConsume`, `AlarmConsume`); a GPS sends a latitude and then the longitude
(`ReportLatitude`, `ReportLongitude`), clients put settings and zones (`PutSetting`,
`PutZones`). What is put goes to InfluxDbHandler as well, whose queue is `dbQ`: `DbConsume`
drops the row while the gate (`allowWrite`, as in `Storage`) is closed and else adds it to
the batch. `stored` is what InfluxDB has and `batched` what it has once the batch is sent;
`Flush` and `FlushFails` make one of them the other. `Restart` empties the three queues,
loses the batch and runs both constructors on `stored`, so a crash may come before a row,
in the middle, or after the flush. What these restore is what the code restores:
`maxRadius` and the anchor's latitude (its longitude is looked for under the boat's key)
and keys without zones. Rows of the boat's position are never read back and left out.

What clients have published last is kept apart from the database, in `laid` and
`zonesLaid`; these and `lost`, the fields that a restart has brought back other than
published last and nobody has put since, are history variables, used by the properties only.

Left out: the expiry of messages after 5 s (with it a longitude may be missing, and
`RadiusOfOneMove` would not hold); a second GPS, whose latitudes and longitudes would mix
without bound; clients that put the same setting in the name of different sources, of
which a restart reads the primary's; two puts whose timestamps disagree with their order.

## 3. Runs

| Run | Specification | Shows | Distinct states |
|---|---|---|---|
| `subs_overlap` | fair, `Serial = FALSE` | what holds with no lock at all: no duplicates, one late message at most, no task scheduled twice, dead tasks leave the Timer, messages are consumed | 149,931 |
| `subs_serial` | fair, `Serial = TRUE` | without overlap: no zombie, one feed a key, unsubscribe stops, subscribe starts (or the period or a send failed), the contract is kept | 50,791 |
| `subs_zombie` | `Serial = FALSE` | **violated**: with overlap `NoZombie` fails | |
| `tcp_server` | fair | no consumer is left, the list of consumers is true, a slow client is cut off, a client that never subscribed is cleaned up | 3,967 |
| `udp_server` | fair | registration and forgetting of clients race, and still a registered client is reachable, welcomed first and has one consumer | 90,118 |
| `storage_restart` | | one primary, one role for a source, no value without a primary row, a closed gate stores nothing | 71,144 |
| `storage_clock` | | **violated**: with `clock.src = gps` nothing is stored before the clock is right | |
| `serial_sweep` | fair | sweep, event thread and shutdown stop the same reader: a device is opened once, a removed reader holds neither port, consumer nor its maker's session, a plugged-in device is read in the end | 62,272 |
| `nmea_sentences` | | every supported sentence and datagram, whole, with each field empty and cut off behind each field: all instruments of a ship say the same, nothing is made up, a datagram means what its format says | 1,441 |
| `nmea_stored` | | late fixes, with and without a date, around midnight: a new fix is what the server shows, but for the errors of its time that the properties name; a rudder angle is shown unless it is zero | 44,398 |
| `anchor_alarm` | | a boat moves while the anchor is laid, zones are set, rows are dropped, batches lost and the server restarts: a distance is of one move, the notification that remains is that of the boat's real distance, unless a restart brought back another setting than the one put last | 6,233,686 |
| `alarm_restart` | | **violated**: zones that InfluxDB has are loaded | |

Bounds, and why they are enough:

* Subscriptions: three objects, one client, one path, one period, one thread that sweeps.
  A race needs the object listed, one in flight and one constructed by the unsubscribe; the
  sweeper may also sweep `Everyone`. Two clients never meet in an `Equal` test. A message
  has one entry of each array in `subs_overlap` and two in `subs_serial`, where the loss of
  the rest of an array matters. When the objects are used up, no message is taken; messages
  without an entry still are, so no run stops.
* TCP: one connection: all state is per session but the delivery thread, and it blocks for
  one client at a time. Backlog and inbox of 2, every kind of request. The connection ends
  and the run with it, so deadlock is not checked.
* UDP: two clients, because both threads may be busy with different ones; backlog and
  inbox of 1, since only empty or not matters; the only request is to subscribe, the
  one that makes replies.
* Storage: one vessel path with two sensors (symmetric), and the server saving the same
  path plainly; both threads; a batch of up to two rows, so that a primary and a secondary,
  or the plain and the sensor's row, are lost or stored together. Values not below
  `vessels` are not in the runs, since `OnePrimary` does not hold of them; the theorems cover
  their types and rows.
* Serial ports: one port and two readers: the old one, still being stopped by one or more
  threads, and the new one that the sweep connects in its place. Ports meet only where
  an exception ends the sweep for all of them; `Inv` and with it the safety properties are
  proved for any number. A server that is stopped stops, so deadlock is not checked.
* NMEA: hooks keep nothing, so `nmea_sentences` handles each sentence on its own with the
  clock stopped: five signs and sizes of every quantity (both hemispheres, both
  sides, a zero), and for datagrams the bytes at which a mask, a sign or a carry changes.
  `nmea_stored` has two days of four ticks, months of two days, and sentences that take up
  to two ticks, so that they are taken before midnight and handled after it; a month is
  longer than the run, so a fix without a date is put back behind all others.
* Anchor: two latitudes, two longitudes and two places of the anchor give the squared distances 0, 9, 16 and 25;
  the lists of zones have a border on one of them, a zone that notifies nothing and a zone
  without lower bound. The reports, settings and zones are four together (`MaxInputs`): three
  reports after the longitude is put, or the latitude put before a crash and the longitude,
  the zones and a report after it, which is how the watch is armed at an earlier place. Queues
  of two messages let each watch be behind; `dbQ` holds one row, and the batch any number.
  When the bounds are reached the run ends, so deadlock is not checked.

Fairness and what justifies it:

* The consumer thread, a task that runs, a sweep that has begun, an event loop and the
  delivery thread go on (WF): they are threads that nothing blocks but what is modelled.
* `TimerFires(s)` is strongly fair: it is disabled whenever another task runs, but the
  Timer serves the task that is due first and each task comes due again a period after
  it ran, so it cannot pass over one for ever.
* `Process(c)` is strongly fair: it is disabled while the delivery thread is busy with another
  client or when a message expires, and the broker's delivery is round-robin.
* Clients, networks, sweeps to come, failures, expiry and congestion are unfair: they
  need never happen. Storage, NMEA and the anchor alarm have safety properties only.
* Serial ports: the scheduler calls `run` at a fixed rate and its thread goes on, and so do
  threads in `stopReader` and `serialEvent` (WF). The library's thread polls its port, so it
  notices a lost device (`Notice`, WF). Plugging, unplugging, failures and shutdown are unfair.

### Findings

1. `subs_zombie`: a sweep between `add` and `setActive(true)` of `addSubscription` takes
   the object out of the list; it is then activated and scheduled, and nobody can stop it.
2. `storage_clock`: `TimeUpdater`'s tick, the server's own wrong time, opens the gate; a
   GPS's time, under `.values.<source>`, never matches the interceptor's key.
3. `alarm_restart`: "load all keys with alarms" loads the keys and none of the zones, since
   `parseMeta` passes the value's key, in which there is no `.meta.`, to
   `parseMetaByKey`; no alarm is raised until a client sends the zones again.

The models have other behaviours that a reader should know of, and the properties are
stated around them:

* A failed send deactivates a subscription and leaves it listed; an equal subscribe
  then finds it and does nothing (`SubscribeGivesStreamOrFailed`).
* `channelInactive` of the TCP server has a comment "unsubscribe all" and removes no
  subscription; `QuietClientIsCleanedUp` is about clients without one.
* A UDP client that comes back can be killed by a reply that was in its queue before,
  as its consumer opens before `channelList` has its channel.
* `loadPrimary` reads the primary keys of vessels only; after a restart a resource, aircraft,
  sar or aton may get a second primary source beside the stored one.
* `stopSerial` does not see the reader that a sweep still under way adds after it.
* An empty wind, speed or course over ground, or variation becomes a zero; a void (V) RMC sets
  the position, a void GLL does not; a position without the letter of its hemisphere is taken to
  be north or east; a rudder amidships is not sent; a compass heading of
  datagram 84 or 9C may be one degree off; `0x99.js` tests the lowest bit of the byte for its
  sign (`XX & 0x80 != 0`), `0x20.js` adds the two bytes of its speed, `0x00.js` cuts off the
  highest bit of a depth.
* A fix without a date of before midnight that is handled after it is dated a day ahead and
  hides the others until then; an RMC without a date is dated a month back and hidden by any other.
* After a restart the anchor watch is off until the anchor's longitude is put again. Where
  the crash lost the row of the anchor's new latitude, the old one is back, and putting the
  longitude arms the watch at a place where the anchor is not (`lost`). A
  notification stays when the value leaves all zones or enters an `alert` or `emergency`
  zone; a value of 0 is in no zone without a lower bound; of zones that overlap, all but
  the first notify under `notifications.notifications`.

## 4. Proofs

All are for every value of the constants that satisfies the named assumptions
(`SubsAssumption`, `QueuesAssumption`, `NobodyAssumption`, `StorageAssumption`,
`SerialAssumption`, `ZonesAssumption`, `AnchorAssumption`, `TicksAssumption`,
`ParserAssumption`, `SentencesAssumption`): any number
of clients, objects, threads, paths, sensors, readings and bytes, not only those of the runs.
Every safety property that a passing run checks is proved. The two lemmas on `ReplyQueues` that
the TCP and the UDP server need are stated and proved in the proofs of each.

* `SubscriptionsProofs`: `TypeOK`, `NoDuplicates`, `ScheduledAtMostOnce`,
  `AtMostOneLateMessage`, with or without `Serial`. The strengthenings: between the test
  and the add nothing equal appears in the list, as the consumer alone adds (`ListInv`);
  what is being added was never scheduled (`TaskInv`); a late message is the last, since
  its task is not running any more (`LateInv`).
* There too, with ASSUME `Serial`: `NoZombie`, `OneFeedPerKey`,
  `UnsubscribeStopsStream`, `SubscribeGivesStreamOrFailed`. `NoZombie` is not inductive: one
  has to know that the snapshot of a sweep is still part of the list and what it has
  passed is inactive (`SweepInv`), and that what the consumer adds is listed until it is
  scheduled and what it removes has exactly one equal in the list (`ConsumerInv`). `SerialInv` is their conjunction.
  `SubscribeGivesStreamOrFailed` needs `StartedInv`: what is listed and active was scheduled,
  cannot be, or is just about to be, and no cancelled task's subscription is active.
  `ManagerKeepsContract`: the manager implements the safety part of the contract. Each step
  maps to one step of it or to none; `OneFeedPerKey` is why a deactivated subscription ends
  its key's stream.
* `TcpConnectionsProofs`: `TcpTypeOK`, `EntryIsOpenConsumer`, `GoneIsNotConsumed`, by an
  invariant that relates `consumer`, `open` and the kill branch for each phase of `channel`.
* `UdpClientsProofs`: `UdpTypeOK`, `RegisteredIsReachable`, `WelcomeComesFirst`,
  `OneConsumer`, by `RegistrationInv`: for each position of the two threads, which of the
  maps have the client. It is needed because each property holds only when both threads
  are elsewhere.
* `StorageProofs`: `StorageTypeOK`, `OnePrimary`, `ClosedGateStoresNothing`, `NoOrphans`,
  `SingleRole`. `RowInv`:
  only the server writes plain rows, and only the handler's thread the others.
  `PrimaryInv`: a value with primary rows has an entry in `primaryMap`, their source or, since
  a restart may take the entry from a row of the server itself, `Own`, which is no sensor;
  and what the handler's thread has read of the map is still true when it acts on it.
  `SingleRole` and `NoOrphans` need three more parts. `PlainInv`: a plain row is a
  primary one. `CoverInv`: whatever exists of a value (an entry of the map, a row in
  flight, in the batch or stored) implies a sensor's primary row in the batch or stored,
  unless it was dropped, the server stored a plain one, or it is just being written, which
  only the thread that writes the others does. `SplitInv`: without those exceptions, no
  other row shares the source of a primary one.
* `SerialPortsProofs`: `SerialTypeOK`, `OneOpenPerPort`, `RemovedIsReleased`. `OpenInv`: only
  a listed reader is open, or the one about to be listed, the list has one reader for
  a port, and what is noted for removal is closed or just being closed by the sweep.
  `ConnectInv`: the reader that is connected is known to no other thread. `ReleaseInv`: a
  reader that somebody else stops is listed or was stopped before.
* `AnchorAlarmProofs`: `AnchorTypeOK`; the composition implements `AlarmSpec`, the handler on
  its own (`AnchorAlarmImplementsAlarmHandler`); `OneNoticePerValue`, proved of that
  handler and carried over by the refinement; and, for lists whose zones do not overlap,
  `JudgedNoticeIsTrue`. The property speaks of quiet states only, so the invariant
  (`FollowInv`) says what the messages under way will lead to: the last message in `watchQ`
  for a field carries what was published last, and without one the field itself is as published last,
  unknown or `lost` (`FieldsFollow`); the last message in `alarmQ` is the distance of the fields as they are,
  and without one that distance has its notification (`AlarmFollows`).
  `RadiusOfOneMove`: for each place in `watchQ` there are the numbers of the last
  report of a latitude and of a longitude (`Numbers`), equal or one apart at every place,
  and the fields of the watch are those of the place before the first (`MoveInv`).

* `NmeaProofs`. `Inv` says that what was sent last is the answer to a sentence that arrived
  before (`Handled`), and that every point shown has a time before the clock's tomorrow
  (`ShownTimes`). All else about one sentence follows from `Handled`.
  `NmeaTypeOK`: each of the 25 hooks and 19 decoders is *sound* (`Sound`: it returns a delta of
  numbers with a time, or one of the other three results), and the handler keeps that
  (`AnswerSound`). `FrozenLessThanADay` is `ShownTimes`; it needs that the stamp of a
  fix, with its own date, the day's or the month before's, is before tomorrow
  (`StampBeforeTomorrow`), for any length of a day and a month.
  The two action properties: `Tells` says of a hook which values its delta has, whatever
  their order, and `Shown` what the newest point of a path is after them.
  `FixIsFollowed`: each of the three hooks tells the position of the fix (`CoordinateOf`: the
  letter gives the coordinate its sign back) with a stamp that is not before the fix was
  taken. `RudderIsFollowed` needs more than `Inv`: that no rudder angle is stamped after the
  clock (`RudderTimely`), which of a position is not true.
* `NmeaReadingProofs`. `InstrumentsAgree`: for each sentence of `Instruments`, what its hook tells
  is part of what the reading says (`Said`, one value a path: `SaidOnce`); the work is
  arithmetic: an angle of 0..359 is brought back to -179..180, two bytes to the speed they
  were made of, half degrees and quarters to a heading, whole kilometres per hour to knots.
  `NothingInvented`: a sentence with a gap has in each place the field of the whole, the empty
  text, or nothing as the place is behind the cut (`GapOf`); for each hook, each guarded value is
  then that of the whole sentence, no number, or not told (`Careful`).
  `DecodesAsDocumented`: each decoder tells, for any bytes (`HasBytes`), what `Documented`
  says, or leaves out a zero (`Conforms`). `HeadingConforms` shows that the heading of the
  datagrams 84 and 9C is at most a degree off, and that one that is not sent, as the code makes it
  a zero, is a zero in the comment too. The exceptions (the speed of 20, the variation of
  99, the highest bit of a depth) are those of the property, where the code and the
  comment differ.

Only model-checked: everything under fairness (`DeadTaskIsCancelled`,
`MessageIsConsumed`, `SlowClientIsCut`, `QuietClientIsCleanedUp`, `UnwritableIsCut`,
`PluggedIsAttached`, the liveness of `KeepsContract`), since liveness is out of the
prover's reach. The three violated runs are counterexamples, and stay with TLC.

## 5. Not modelled

"components" in `PROJECT.json` has every part with its reason. In short:

* REST and websockets: they hang on the suspended resources of Atmosphere, whose threads
  and timeouts are not in this repository. The broker's side is that of `ReplyQueues`.
* Routing, interceptors and permissions: each decides about one message by itself, from a
  table of filters that the broker evaluates or from a configuration that does not change.
* Tokens and passwords: hashing and JWT are libraries. A token is renewed at each check, since
  `SecurityUtils.java:141` compares the wrong way round: one line, wrong for every input.
* The wind triangle, the magnetic field, and the convertors between rows and trees of Json:
  calculations without state, on real numbers or texts.
* Of the NMEA parser: VLW, PBVE and PNKEP (not in `supported.txt`, never loaded),
  `lib-es5/index.js` and `CompatParser.js` (a stream interface the server does not use), the
  Nashorn polyfill, the packaged copy in `dist`, and the N2K parser, which is third-party.
* Script engines: two handler threads share three contexts, so their pool has no limit to reach.
* Netty's start, charts, apps, git and menu services, swagger, logging and static files: I/O.

## 6. Plan

Done, each with its runs and theorems: the subscription manager with its contract and
refinement, the transports, storage, serial ports, the NMEA parser, the alarm handler and the
anchor watch.

What would add most next:

1. More to prove of what is modelled: that `NmeaParser` sends nothing for a sentence it does not
   support, whatever its fields; the steps that the fairness arguments rest on, as
   action properties (a kill of a slow client only goes forward; what a task that is
   cancelled never does again).
2. The server's life cycle: `stop` against messages that are consumed late (hazard at
   `ArtemisServer.java:460`).
3. Path matching and `SignalkMapConvertor` as functions, checked against a reference.
