-------------------------------- MODULE Storage --------------------------------
(***************************************************************************)
(* InfluxDbService, the writers that call it, and the clock gate in front  *)
(* of it. Of every value that several sources report one source is the     *)
(* primary: the static primaryMap says which, the rows carry it as a tag,  *)
(* and a restart reads it back from the rows. Writes are batched, so a     *)
(* crash loses the last of them together with the map.                     *)
(***************************************************************************)
EXTENDS Naturals, FiniteSets

CONSTANTS
    VesselPaths,   \* paths below vessels
    OtherPaths,    \* paths below resources, aircraft, sar and aton
    PlainPaths,    \* those the server itself saves too, without ".values."
    Sources,       \* sensors
    Own,           \* the source reference of the server's own values
    Threads,       \* those that save: InfluxDbHandler's delivery thread and the scheduler
    Handler,       \* the former
    Settings,      \* values of config.server.clock.src that full messages bring
    MaxBatch,      \* bound: different rows between two flushes
    None

Paths == VesselPaths \cup OtherPaths
AllSources == Sources \cup {Own}
ClockSources == {"system", "gps"}

\* "<path>.values.<source>", the key every update of a client is given, or "<path>"
\* with an object, the key of DeclinationUpdater and TimeUpdater.
Keys == (Paths \X {"values"}) \cup (PlainPaths \X {"plain"})
Reports == {[key |-> k, source |-> s] : k \in Paths \X {"values"}, s \in Sources}
            \cup {[key |-> k, source |-> Own] : k \in PlainPaths \X {"plain"}}
Rows == [key : Keys, source : AllSources, primary : BOOLEAN]

ASSUME StorageAssumption ==
    /\ VesselPaths \cap OtherPaths = {}
    /\ PlainPaths \subseteq Paths
    /\ Own \notin Sources
    /\ None \notin AllSources \cup Rows
    /\ Handler \in Threads
    /\ Settings \subseteq ClockSources
    /\ MaxBatch \in Nat \ {0}

VARIABLES
    allowWrite,    \* the gate
    clockSrc,      \* config.server.clock.src in Config.map
    clockRight,    \* does the system clock show the right time?
    primaryMap,    \* by key, cut at ".values." (a plain object's key ends in ".value")
    pc,            \* where each thread is in saveData
    row,           \* and the row it is about to write
    batch,         \* rows not sent yet
    db,            \* rows InfluxDB has
    pendingClock,  \* the setting that is in the batch
    storedClock,   \* and in InfluxDB
    dropped        \* paths of primary rows InfluxDB did not take

gateVars == <<allowWrite, clockRight>>
configVars == <<clockSrc, pendingClock, storedClock>>
saverVars == <<pc, row>>
vars == <<gateVars, configVars, primaryMap, saverVars, batch, db, dropped>>

Path(r) == r.key[1]
IsPlain(r) == r.key[2] = "plain"

PrimaryRows(rows, p) == {r \in rows : r.primary /\ Path(r) = p}

\* Faulty variant: the tag of the rows is ignored.
LoadsAnyRow(rows) ==
    {map \in [Keys -> AllSources \cup {None}] :
        \A k \in Keys :
            IF k[2] = "values" /\ k[1] \in VesselPaths /\ \E r \in rows : Path(r) = k[1]
            THEN map[k] \in {r.source : r \in {q \in rows : Path(q) = k[1]}}
            ELSE map[k] = None}

\* loadPrimary: only vessels, and both forms of a key become the one without a suffix;
\* of several sources the one InfluxDB returns last stays.
LoadedMaps(rows) ==
    {map \in [Keys -> AllSources \cup {None}] :
        \A k \in Keys :
            IF k[2] = "values" /\ k[1] \in VesselPaths /\ PrimaryRows(rows, k[1]) # {}
            THEN map[k] \in {r.source : r \in PrimaryRows(rows, k[1])}
            ELSE map[k] = None}

\* Config's static initializer: the map, then the gate.
Boot(setting, rows) ==
    /\ clockSrc' = setting
    /\ allowWrite' = (setting = "system")
    /\ primaryMap' \in LoadedMaps(rows)

Init ==
    /\ clockSrc \in ClockSources
    /\ storedClock = clockSrc
    /\ pendingClock = None
    /\ allowWrite = (clockSrc = "system")
    /\ clockRight \in BOOLEAN
    /\ primaryMap = [k \in Keys |-> None]
    /\ pc = [t \in Threads |-> "idle"]
    /\ row = [t \in Threads |-> None]
    /\ batch = {}
    /\ db = {}
    /\ dropped = {}

-----------------------------------------------------------------------------
(* saveData: the gate, isPrimary and the write, in the thread of the caller *)

\* Faulty variant: nothing waits for the clock.
NoGate == TRUE

GateOpen == allowWrite \/ clockSrc = "system"

\* Faulty variant: a key that has no primary yet is not answered with true.
NewKeyIsNotPrimary(report) == primaryMap[report.key] = report.source

\* isPrimary's answer, and whether it has to set the map first.
IsPrimary(report) == primaryMap[report.key] \in {None, report.source}

StartSave(t, report) ==
    /\ pc[t] = "idle"
    /\ IsPlain(report) \/ t = Handler
    /\ GateOpen
    /\ allowWrite' = (allowWrite \/ clockSrc = "system")
    /\ pc' = [pc EXCEPT ![t] = IF primaryMap[report.key] = None THEN "setPrimary" ELSE "write"]
    /\ row' = [row EXCEPT ![t] = [key |-> report.key, source |-> report.source,
                                  primary |-> IsPrimary(report)]]
    /\ UNCHANGED <<clockRight, configVars, primaryMap, batch, db, dropped>>

\* Faulty variant: the answer is not remembered.
ForgetsPrimary(t) ==
    /\ pc[t] = "setPrimary"
    /\ pc' = [pc EXCEPT ![t] = "write"]
    /\ UNCHANGED <<gateVars, configVars, primaryMap, row, batch, db, dropped>>

SetPrimary(t) ==
    /\ pc[t] = "setPrimary"
    /\ primaryMap' = [primaryMap EXCEPT ![row[t].key] = row[t].source]
    /\ pc' = [pc EXCEPT ![t] = "write"]
    /\ UNCHANGED <<gateVars, configVars, row, batch, db, dropped>>

\* Faulty variant: the thread is done with a row it still refers to.
LeavesRow(t) ==
    /\ pc[t] = "write"
    /\ batch' = batch \cup {row[t]}
    /\ pc' = [pc EXCEPT ![t] = "idle"]
    /\ UNCHANGED <<gateVars, configVars, primaryMap, row, db, dropped>>

Write(t) ==
    /\ pc[t] = "write"
    /\ Cardinality(batch) < MaxBatch
    /\ batch' = batch \cup {row[t]}
    /\ pc' = [pc EXCEPT ![t] = "idle"]
    /\ row' = [row EXCEPT ![t] = None]
    /\ UNCHANGED <<gateVars, configVars, primaryMap, db, dropped>>

\* config.server.clock.src: the gate is in front of this setting as well.
SaveSetting(setting) ==
    /\ pc[Handler] = "idle"
    /\ GateOpen
    /\ allowWrite' = (allowWrite \/ clockSrc = "system")
    /\ pendingClock' = setting
    /\ clockSrc' = setting
    /\ UNCHANGED <<clockRight, storedClock, primaryMap, saverVars, batch, db, dropped>>

-----------------------------------------------------------------------------
(* The batch of the InfluxDB client *)

Flush ==
    /\ batch # {} \/ pendingClock # None
    /\ db' = db \cup batch
    /\ batch' = {}
    /\ storedClock' = IF pendingClock = None THEN storedClock ELSE pendingClock
    /\ pendingClock' = None
    /\ UNCHANGED <<gateVars, clockSrc, primaryMap, saverVars, dropped>>

\* InfluxDB is away: the client reports the failure to nobody and goes on.
FlushFails ==
    /\ batch # {} \/ pendingClock # None
    /\ batch' = {}
    /\ pendingClock' = None
    /\ dropped' = dropped \cup {Path(r) : r \in {q \in batch : q.primary}}
    /\ UNCHANGED <<gateVars, clockSrc, storedClock, primaryMap, saverVars, db>>

\* A restart, of the device too: without a battery its clock is wrong again.
Restart ==
    /\ Boot(storedClock, db)
    /\ clockRight' \in {clockRight, FALSE}
    /\ pendingClock' = None
    /\ pc' = [t \in Threads |-> "idle"]
    /\ row' = [t \in Threads |-> None]
    /\ batch' = {}
    /\ UNCHANGED <<storedClock, db, dropped>>

-----------------------------------------------------------------------------
(* The clock *)

\* SysTimeInterceptor compares the key with "vessels.<self>.navigation.datetime".
IsTimeKey(form) == form = "plain"

\* A time passes SysTimeInterceptor: TimeUpdater's, every second, is what the system
\* clock shows and has the key itself; that of a GPS, the right one, reaches the bus
\* from SignalkKvConvertor, as ".values.<source>".
Intercept(form) ==
    /\ ~allowWrite
    /\ IsTimeKey(form)
    /\ allowWrite' = TRUE
    /\ clockRight' = (clockRight \/ form = "values")
    /\ UNCHANGED <<configVars, primaryMap, saverVars, batch, db, dropped>>

\* ControlService's setTime.
SetTime ==
    /\ allowWrite' = TRUE
    /\ clockRight' = TRUE
    /\ UNCHANGED <<configVars, primaryMap, saverVars, batch, db, dropped>>

Next ==
    \/ \E t \in Threads :
          \/ \E report \in Reports : StartSave(t, report)
          \/ SetPrimary(t)
          \/ Write(t)
    \/ \E setting \in Settings : SaveSetting(setting)
    \/ Flush \/ FlushFails \/ Restart
    \/ \E form \in {"plain", "values"} : Intercept(form)
    \/ SetTime

Spec == Init /\ [][Next]_vars

-----------------------------------------------------------------------------
(* Properties *)

\* The variables have their types.
StorageTypeOK ==
    /\ allowWrite \in BOOLEAN
    /\ clockRight \in BOOLEAN
    /\ clockSrc \in ClockSources
    /\ storedClock \in ClockSources
    /\ pendingClock \in ClockSources \cup {None}
    /\ primaryMap \in [Keys -> AllSources \cup {None}]
    /\ pc \in [Threads -> {"idle", "setPrimary", "write"}]
    /\ row \in [Threads -> Rows \cup {None}]
    /\ \A t \in Threads : pc[t] = "idle" <=> row[t] = None
    /\ batch \subseteq Rows
    /\ db \subseteq Rows
    /\ dropped \subseteq Paths

Reported(rows, p) == {r \in PrimaryRows(rows, p) : ~IsPlain(r)}
InFlight == {row[t] : t \in {u \in Threads : pc[u] # "idle"}}

\* TDBService.isPrimary, "true if the key is the primary(default source) key for this
\* value": the sensors that report a vessel's value never have two primaries among
\* them, in InfluxDB, in the batch or on the way there, across restarts and with
\* batches that are lost.
OnePrimary ==
    \A p \in VesselPaths : \A r, q \in Reported(db \cup batch \cup InFlight, p) :
        r.source = q.source

\* Reads take a source that has rows of both kinds for two: the newest row of each is
\* returned, and the stale one may be shown as the value. That happens to a vessel's
\* value only after InfluxDB refused a primary row, or where the server itself saves
\* the value without ".values." as well.
SingleRole ==
    \A r, q \in db :
        /\ r.key = q.key /\ r.source = q.source /\ r.primary # q.primary
        /\ Path(r) \in VesselPaths
        => Path(r) \in dropped \/ \E o \in db : IsPlain(o) /\ Path(o) = Path(r)

\* A value without a primary row has no value where loadData puts the default one:
\* what InfluxDB has of a path includes a primary row, unless it refused it.
NoOrphans ==
    \A r \in db : PrimaryRows(db, Path(r)) # {} \/ Path(r) \in dropped

\* Until the gate opens nothing is on its way to InfluxDB, nor becomes a primary.
ClosedGateStoresNothing ==
    ~allowWrite =>
        /\ batch = {} /\ pendingClock = None
        /\ \A t \in Threads : pc[t] = "idle"
        /\ primaryMap \in LoadedMaps(db)

\* TDBService.setWrite, "Enable writing after the system time has been correctly set":
\* where the time comes from a GPS, nothing is stored before the clock is right.
ClockBeforeWrite == clockSrc = "gps" /\ allowWrite => clockRight
=============================================================================
