----------------------------- MODULE StorageProofs -----------------------------
(***************************************************************************)
(* One primary among the sensors of a vessel's value, one kind of rows for *)
(* each sensor and no value without a primary row, for every set of paths, *)
(* sensors and threads, across restarts and lost batches.                  *)
(***************************************************************************)
EXTENDS Storage, TLAPS

ValueKey(p) == <<p, "values">>

\* Only the server writes plain rows, only InfluxDbHandler the others.
RowInv ==
    /\ \A r \in db \cup batch \cup InFlight : IsPlain(r) <=> r.source = Own
    /\ \A t \in Threads : pc[t] # "idle" /\ ~IsPlain(row[t]) => t = Handler

Stored(p) == Reported(db \cup batch, p)

(* What primaryMap and the rows of a vessel's value know of each other. A plain row
   may put Own in the map at a restart; no sensor becomes primary after that. *)
PrimaryInv ==
    \A p \in VesselPaths :
        /\ \A r, q \in Stored(p) : r.source = q.source
        /\ Stored(p) # {} => primaryMap[ValueKey(p)] # None
        /\ \A r \in Stored(p) : primaryMap[ValueKey(p)] \in {r.source, Own}
        /\ pc[Handler] = "setPrimary" /\ row[Handler].key = ValueKey(p)
              => primaryMap[ValueKey(p)] = None
        /\ pc[Handler] = "write" /\ row[Handler].key = ValueKey(p) /\ row[Handler].primary
              => primaryMap[ValueKey(p)] = row[Handler].source

Inv == StorageTypeOK /\ RowInv /\ PrimaryInv

-----------------------------------------------------------------------------
LEMMA KeysOf ==
  /\ \A p \in VesselPaths : ValueKey(p) \in Keys /\ ~IsPlain([key |-> ValueKey(p)])
  /\ \A report \in Reports : /\ report.key \in Keys
                             /\ report.source \in AllSources
                             /\ IsPlain(report) <=> report.source = Own
BY StorageAssumption DEF Keys, ValueKey, Reports, Paths, AllSources, IsPlain

LEMMA InvInit == Init => Inv
<1> SUFFICES ASSUME Init PROVE Inv
  OBVIOUS
<1>1. StorageTypeOK
  BY StorageAssumption DEF Init, StorageTypeOK, ClockSources
<1>2. InFlight = {} /\ \A p \in VesselPaths : Stored(p) = {}
  BY DEF Init, InFlight, Stored, Reported, PrimaryRows
<1>3. RowInv
  BY <1>2 DEF Init, RowInv
<1>4. PrimaryInv
  BY <1>2, StorageAssumption DEF Init, PrimaryInv
<1> QED
  BY <1>1, <1>3, <1>4 DEF Inv

LEMMA TypeNext == StorageTypeOK /\ [Next]_vars => StorageTypeOK'
<1> SUFFICES ASSUME StorageTypeOK, [Next]_vars PROVE StorageTypeOK'
  OBVIOUS
<1> USE StorageAssumption
    DEF StorageTypeOK, vars, gateVars, configVars, saverVars, ClockSources
<1>1. ASSUME NEW t \in Threads, NEW report \in Reports, StartSave(t, report)
      PROVE  StorageTypeOK'
  <2> DEFINE r == [key |-> report.key, source |-> report.source,
                   primary |-> IsPrimary(report)]
  <2>1. r \in Rows /\ r # None
    <3>1. report.key \in Keys /\ report.source \in AllSources
      BY KeysOf
    <3>2. IsPrimary(report) \in BOOLEAN
      BY DEF IsPrimary
    <3> HIDE DEF IsPrimary
    <3>3. r \in Rows
      BY <3>1, <3>2, Zenon DEF Rows
    <3> QED
      BY <3>3
  <2>2. /\ pc' = [pc EXCEPT ![t] = IF primaryMap[report.key] = None
                                   THEN "setPrimary" ELSE "write"]
        /\ row' = [row EXCEPT ![t] = r]
    BY <1>1 DEF StartSave
  <2> QED
    BY <1>1, <2>1, <2>2 DEF StartSave
<1>2. ASSUME NEW t \in Threads, SetPrimary(t) PROVE StorageTypeOK'
  <2>1. row[t] \in Rows
    BY <1>2 DEF SetPrimary
  <2> QED
    BY <1>2, <2>1 DEF SetPrimary, Rows
<1>3. ASSUME NEW t \in Threads, Write(t) PROVE StorageTypeOK'
  BY <1>3 DEF Write
<1>4. ASSUME NEW setting \in Settings, SaveSetting(setting) PROVE StorageTypeOK'
  BY <1>4 DEF SaveSetting
<1>5. CASE Flush
  BY <1>5 DEF Flush
<1>6. CASE FlushFails
  <2>1. {Path(r) : r \in {q \in batch : q.primary}} \subseteq Paths
    BY StorageAssumption DEF Rows, Keys, Path, Paths
  <2> QED
    BY <1>6, <2>1 DEF FlushFails
<1>7. CASE Restart
  BY <1>7 DEF Restart, Boot, LoadedMaps
<1>8. ASSUME NEW form \in {"plain", "values"}, Intercept(form) PROVE StorageTypeOK'
  BY <1>8 DEF Intercept
<1>9. CASE SetTime
  BY <1>9 DEF SetTime
<1>10. CASE UNCHANGED vars
  BY <1>10
<1> QED
  BY <1>1, <1>2, <1>3, <1>4, <1>5, <1>6, <1>7, <1>8, <1>9, <1>10 DEF Next

LEMMA RowNext == StorageTypeOK /\ RowInv /\ [Next]_vars => RowInv'
<1> SUFFICES ASSUME StorageTypeOK, RowInv, [Next]_vars PROVE RowInv'
  OBVIOUS
<1> USE StorageAssumption
    DEF StorageTypeOK, RowInv, InFlight, vars, saverVars
<1>1. ASSUME NEW t \in Threads, NEW report \in Reports, StartSave(t, report)
      PROVE  RowInv'
  <2>1. /\ row'[t].key = report.key
        /\ row'[t].source = report.source
        /\ \A u \in Threads \ {t} : row'[u] = row[u] /\ pc'[u] = pc[u]
        /\ UNCHANGED <<batch, db>>
        /\ pc[t] = "idle"
    BY <1>1 DEF StartSave
  <2>2. IsPlain(row'[t]) <=> row'[t].source = Own
    BY <2>1, KeysOf DEF IsPlain
  <2>3. ~IsPlain(row'[t]) => t = Handler
    BY <1>1, <2>1 DEF StartSave, IsPlain
  <2> QED
    BY <2>1, <2>2, <2>3
<1>2. ASSUME NEW t \in Threads, SetPrimary(t) PROVE RowInv'
  BY <1>2 DEF SetPrimary
<1>3. ASSUME NEW t \in Threads, Write(t) PROVE RowInv'
  BY <1>3 DEF Write
<1>4. ASSUME NEW setting \in Settings, SaveSetting(setting) PROVE RowInv'
  BY <1>4 DEF SaveSetting
<1>5. CASE Flush
  BY <1>5 DEF Flush
<1>6. CASE FlushFails
  BY <1>6 DEF FlushFails
<1>7. CASE Restart
  BY <1>7 DEF Restart
<1>8. ASSUME NEW form \in {"plain", "values"}, Intercept(form) PROVE RowInv'
  BY <1>8 DEF Intercept
<1>9. CASE SetTime
  BY <1>9 DEF SetTime
<1>10. CASE UNCHANGED vars
  BY <1>10
<1> QED
  BY <1>1, <1>2, <1>3, <1>4, <1>5, <1>6, <1>7, <1>8, <1>9, <1>10 DEF Next

\* Steps that leave the rows alone, or only move or drop some of them.
LEMMA PrimaryKept ==
  ASSUME PrimaryInv, UNCHANGED <<primaryMap, saverVars>>,
         db' \cup batch' \subseteq db \cup batch
  PROVE  PrimaryInv'
<1>1. \A p \in VesselPaths : Stored(p)' \subseteq Stored(p)
  BY DEF Stored, Reported, PrimaryRows
<1> QED
  BY <1>1 DEF PrimaryInv, saverVars

LEMMA PrimaryNext == Inv /\ [Next]_vars => PrimaryInv'
<1> SUFFICES ASSUME Inv, [Next]_vars PROVE PrimaryInv'
  OBVIOUS
<1>1. ASSUME NEW t \in Threads, NEW report \in Reports, StartSave(t, report)
      PROVE  PrimaryInv'
  <2>1. /\ row'[t].key = report.key
        /\ row'[t].source = report.source
        /\ row'[t].primary <=> IsPrimary(report)
        /\ pc'[t] = IF primaryMap[report.key] = None THEN "setPrimary" ELSE "write"
        /\ \A u \in Threads \ {t} : row'[u] = row[u] /\ pc'[u] = pc[u]
        /\ UNCHANGED <<batch, db, primaryMap>>
    BY <1>1 DEF StartSave, Inv, StorageTypeOK
  <2>2. \A p \in VesselPaths : Stored(p)' = Stored(p)
    BY <2>1 DEF Stored, Reported, PrimaryRows
  <2>3. ASSUME NEW p \in VesselPaths, t = Handler, report.key = ValueKey(p)
        PROVE  /\ pc'[t] = "setPrimary" => primaryMap[ValueKey(p)] = None
               /\ pc'[t] = "write" /\ row'[t].primary
                     => primaryMap[ValueKey(p)] = report.source
    BY <2>1, <2>3 DEF IsPrimary
  <2> QED
    BY <2>1, <2>2, <2>3, StorageAssumption DEF PrimaryInv, Inv
<1>2. ASSUME NEW t \in Threads, SetPrimary(t) PROVE PrimaryInv'
  <2> DEFINE k == row[t].key
  <2>1. /\ row[t] \in Rows /\ k \in Keys
        /\ primaryMap' = [primaryMap EXCEPT ![k] = row[t].source]
        /\ pc[t] = "setPrimary" /\ pc'[t] = "write"
        /\ \A u \in Threads \ {t} : pc'[u] = pc[u]
        /\ UNCHANGED <<batch, db, row>>
    BY <1>2 DEF SetPrimary, Inv, StorageTypeOK, Rows
  <2>2. \A p \in VesselPaths : Stored(p)' = Stored(p)
    BY <2>1 DEF Stored, Reported, PrimaryRows
  <2>3. ASSUME NEW p \in VesselPaths, k # ValueKey(p)
        PROVE  primaryMap'[ValueKey(p)] = primaryMap[ValueKey(p)]
    BY <2>1, <2>3, KeysOf DEF Inv, StorageTypeOK
  <2>4. ASSUME NEW p \in VesselPaths, k = ValueKey(p)
        PROVE  /\ t = Handler
               /\ Stored(p) = {}
               /\ primaryMap'[ValueKey(p)] = row[t].source
    <3>1. t = Handler
      BY <2>1, <2>4 DEF Inv, RowInv, IsPlain, ValueKey
    <3>2. primaryMap[ValueKey(p)] = None
      BY <2>1, <2>4, <3>1 DEF Inv, PrimaryInv
    <3> QED
      BY <2>1, <2>4, <3>1, <3>2, KeysOf DEF Inv, PrimaryInv, StorageTypeOK
  <2> QED
    BY <2>1, <2>2, <2>3, <2>4, StorageAssumption DEF PrimaryInv, Inv
<1>3. ASSUME NEW t \in Threads, Write(t) PROVE PrimaryInv'
  <2>1. /\ row[t] \in Rows
        /\ pc[t] = "write" /\ pc'[t] = "idle"
        /\ \A u \in Threads \ {t} : pc'[u] = pc[u] /\ row'[u] = row[u]
        /\ batch' = batch \cup {row[t]}
        /\ UNCHANGED <<db, primaryMap>>
    BY <1>3 DEF Write, Inv, StorageTypeOK
  <2>2. ASSUME NEW p \in VesselPaths, ~(row[t].primary /\ row[t].key = ValueKey(p))
        PROVE  Stored(p)' = Stored(p)
    <3>1. row[t] \notin Reported({row[t]}, p)
      BY <2>1, <2>2 DEF Reported, PrimaryRows, Path, IsPlain, ValueKey, Rows, Keys
    <3> QED
      BY <2>1, <3>1 DEF Stored, Reported, PrimaryRows
  <2>3. ASSUME NEW p \in VesselPaths, row[t].primary, row[t].key = ValueKey(p)
        PROVE  /\ Stored(p)' = Stored(p) \cup {row[t]}
               /\ primaryMap[ValueKey(p)] = row[t].source
               /\ row[t].source \notin {None, Own}
    <3>1. ~IsPlain(row[t]) /\ Path(row[t]) = p
      BY <2>3 DEF IsPlain, Path, ValueKey
    <3>2. t = Handler /\ row[t].source # Own
      BY <2>1, <3>1 DEF Inv, RowInv, InFlight
    <3> QED
      BY <2>1, <2>3, <3>1, <3>2, StorageAssumption
         DEF Inv, PrimaryInv, Stored, Reported, PrimaryRows, Rows
  <2> QED
    BY <2>1, <2>2, <2>3, StorageAssumption DEF PrimaryInv, Inv
<1>4. ASSUME NEW setting \in Settings, SaveSetting(setting) PROVE PrimaryInv'
  BY <1>4, PrimaryKept DEF SaveSetting, Inv
<1>5. CASE Flush
  BY <1>5, PrimaryKept DEF Flush, Inv
<1>6. CASE FlushFails
  BY <1>6, PrimaryKept DEF FlushFails, Inv
<1>7. CASE Restart
  <2>1. /\ primaryMap' \in LoadedMaps(db)
        /\ db' = db /\ batch' = {}
        /\ \A t \in Threads : pc'[t] = "idle"
    BY <1>7 DEF Restart, Boot
  <2>2. ASSUME NEW p \in VesselPaths
        PROVE  /\ Stored(p)' \subseteq Stored(p)
               /\ Stored(p)' # {} => primaryMap'[ValueKey(p)] # None
               /\ \A r \in Stored(p)' : primaryMap'[ValueKey(p)] \in {r.source, Own}
    <3>1. Stored(p)' = Reported(db, p) /\ Stored(p)' \subseteq Stored(p)
      BY <2>1 DEF Stored, Reported, PrimaryRows
    <3>2. IF PrimaryRows(db, p) # {}
          THEN primaryMap'[ValueKey(p)] \in {r.source : r \in PrimaryRows(db, p)}
          ELSE primaryMap'[ValueKey(p)] = None
      BY <2>1, KeysOf DEF LoadedMaps, ValueKey
    <3>3. ASSUME NEW r \in PrimaryRows(db, p), r.source # Own PROVE r \in Stored(p)'
      BY <3>1, <3>3 DEF Inv, RowInv, Reported, PrimaryRows
    <3>4. \A r \in Stored(p)' : r \in PrimaryRows(db, p) /\ r \in Rows
      BY <3>1 DEF Reported, PrimaryRows, Inv, StorageTypeOK
    <3>5. \A r \in PrimaryRows(db, p) : r.source # None
      BY StorageAssumption DEF Inv, StorageTypeOK, PrimaryRows, Rows
    <3> QED
      BY <3>1, <3>2, <3>3, <3>4, <3>5 DEF Inv, PrimaryInv
  <2> QED
    BY <2>1, <2>2, StorageAssumption DEF PrimaryInv, Inv
<1>8. ASSUME NEW form \in {"plain", "values"}, Intercept(form) PROVE PrimaryInv'
  BY <1>8, PrimaryKept DEF Intercept, Inv
<1>9. CASE SetTime
  BY <1>9, PrimaryKept DEF SetTime, Inv
<1>10. CASE UNCHANGED vars
  BY <1>10, PrimaryKept DEF vars, Inv
<1> QED
  BY <1>1, <1>2, <1>3, <1>4, <1>5, <1>6, <1>7, <1>8, <1>9, <1>10 DEF Next

LEMMA InvCorrect == Spec => []Inv
<1>1. Inv /\ [Next]_vars => Inv'
  BY TypeNext, RowNext, PrimaryNext DEF Inv
<1> QED
  BY InvInit, <1>1, PTL DEF Spec

(* The types hold: a thread has a row in hand exactly while it saves. *)
THEOREM StorageTypeCorrect == Spec => []StorageTypeOK
BY InvCorrect, PTL DEF Inv

(* The sensors of a vessel's value never have two primaries among them. *)
THEOREM OnePrimaryCorrect == Spec => []OnePrimary
<1>1. ASSUME Inv, NEW p \in VesselPaths,
             NEW r \in Reported(db \cup batch \cup InFlight, p)
      PROVE  \/ r \in Stored(p)
             \/ r = row[Handler] /\ pc[Handler] # "idle" /\ r.key = ValueKey(p) /\ r.primary
  <2>1. r.primary /\ Path(r) = p /\ ~IsPlain(r)
    BY DEF Reported, PrimaryRows
  <2>2. CASE r \in db \cup batch
    BY <2>1, <2>2 DEF Stored, Reported, PrimaryRows
  <2>3. CASE r \in InFlight
    <3>1. r = row[Handler] /\ pc[Handler] # "idle"
      BY <1>1, <2>1, <2>3 DEF Inv, RowInv, InFlight
    <3>2. r \in Rows
      BY <1>1, <3>1, StorageAssumption DEF Inv, StorageTypeOK
    <3>3. r.key = ValueKey(p)
      BY <2>1, <3>2 DEF Rows, Keys, IsPlain, Path, ValueKey
    <3> QED
      BY <2>1, <3>1, <3>3
  <2> QED
    BY <2>2, <2>3 DEF Reported, PrimaryRows
<1>2. ASSUME Inv, NEW p \in VesselPaths, NEW r \in Stored(p), pc[Handler] # "idle",
             row[Handler].key = ValueKey(p), row[Handler].primary
      PROVE  r.source = row[Handler].source
  <2>1. pc[Handler] = "write"
    BY <1>2, StorageAssumption DEF Inv, StorageTypeOK, PrimaryInv
  <2>2. row[Handler].source # Own
    BY <1>2, StorageAssumption DEF Inv, RowInv, InFlight, IsPlain, ValueKey
  <2> QED
    BY <1>2, <2>1, <2>2 DEF Inv, PrimaryInv
<1>3. Inv => OnePrimary
  BY <1>1, <1>2 DEF OnePrimary, Inv, PrimaryInv
<1> QED
  BY <1>3, InvCorrect, PTL

(* While the gate is closed the map is what InfluxDB gave at the start. *)
THEOREM ClosedGateStoresNothingCorrect == Spec => []ClosedGateStoresNothing
<1>1. Init => ClosedGateStoresNothing
  <2> SUFFICES ASSUME Init PROVE primaryMap \in LoadedMaps({})
    BY DEF Init, ClosedGateStoresNothing
  <2> QED
    BY DEF Init, LoadedMaps, PrimaryRows
<1>2. ASSUME Inv, ClosedGateStoresNothing, [Next]_vars PROVE ClosedGateStoresNothing'
  <2> USE DEF ClosedGateStoresNothing, GateOpen, gateVars, configVars, saverVars
  <2>1. ASSUME NEW t \in Threads, NEW report \in Reports, StartSave(t, report)
        PROVE  allowWrite'
    BY <2>1 DEF StartSave
  <2>2. ASSUME NEW t \in Threads, SetPrimary(t) \/ Write(t) PROVE allowWrite'
    BY <1>2, <2>2 DEF SetPrimary, Write
  <2>3. ASSUME NEW setting \in Settings, SaveSetting(setting) PROVE allowWrite'
    BY <2>3 DEF SaveSetting
  <2>4. CASE Flush \/ FlushFails
    BY <1>2, <2>4 DEF Flush, FlushFails
  <2>5. CASE Restart
    BY <2>5 DEF Restart, Boot
  <2>6. ASSUME NEW form \in {"plain", "values"}, Intercept(form) PROVE allowWrite'
    BY <2>6 DEF Intercept
  <2>7. CASE SetTime
    BY <2>7 DEF SetTime
  <2>8. CASE UNCHANGED vars
    BY <1>2, <2>8 DEF vars
  <2> QED
    BY <1>2, <2>1, <2>2, <2>3, <2>4, <2>5, <2>6, <2>7, <2>8 DEF Next
<1> QED
  BY <1>1, <1>2, InvCorrect, PTL DEF Spec
-----------------------------------------------------------------------------
(* The roles of a source.  Plain rows are primary, as only Own saves them. *)

PlainStored(p) == \E r \in db : IsPlain(r) /\ Path(r) = p

\* The two cases that NoOrphans and SingleRole except.
Excused(p) == p \in dropped \/ PlainStored(p)

Covered(rows, p) == Reported(rows, p) # {} \/ Excused(p)

OfSensors(rows, p) == {r \in rows : ~IsPlain(r) /\ Path(r) = p}

PlainInv ==
    /\ \A r \in db \cup batch \cup InFlight : IsPlain(r) => r.primary
    /\ \A k \in Keys : k[2] = "plain" => primaryMap[k] \in {None, Own}
    /\ \A t \in Threads : pc[t] = "setPrimary" => row[t].primary

\* A source becomes the primary of a value before any other row of it is written,
\* by the one thread that writes both.
CoverInv ==
    \A p \in Paths :
        /\ primaryMap[ValueKey(p)] # None =>
              \/ Covered(db \cup batch, p)
              \/ /\ pc[Handler] = "write"
                 /\ row[Handler].key = ValueKey(p)
                 /\ row[Handler].primary
        /\ OfSensors(batch, p) # {} => Covered(db \cup batch, p)
        /\ OfSensors(db, p) # {} => Covered(db, p)
        /\ pc[Handler] = "write" /\ row[Handler].key = ValueKey(p) /\ ~row[Handler].primary
              => Covered(db \cup batch, p)

\* Unless excused, no source has rows of both kinds, and Own is not taken for a sensor.
SplitInv ==
    \A p \in VesselPaths :
        /\ primaryMap[ValueKey(p)] = Own => PlainStored(p)
        /\ \A q \in OfSensors(db \cup batch \cup InFlight, p), r \in Stored(p) :
              q.primary \/ r.source # q.source \/ Excused(p)

RoleInv == PlainInv /\ CoverInv /\ SplitInv

LEMMA RoleInit == Init => RoleInv
<1> SUFFICES ASSUME Init PROVE RoleInv
  OBVIOUS
<1>1. /\ InFlight = {}
      /\ \A p : Stored(p) = {} /\ OfSensors(db \cup batch \cup InFlight, p) = {}
      /\ \A p : OfSensors(db, p) = {} /\ OfSensors(batch, p) = {}
  BY DEF Init, InFlight, Stored, Reported, PrimaryRows, OfSensors
<1>2. \A p \in Paths : primaryMap[ValueKey(p)] = None
  BY DEF Init, ValueKey, Keys
<1>3. PlainInv
  BY <1>1 DEF Init, PlainInv
<1>4. CoverInv
  BY <1>1, <1>2, StorageAssumption DEF Init, CoverInv
<1>5. SplitInv
  BY <1>1, <1>2, StorageAssumption DEF SplitInv, AllSources, Paths
<1> QED
  BY <1>3, <1>4, <1>5 DEF RoleInv

LEMMA PlainNext == Inv /\ PlainInv /\ [Next]_vars => PlainInv'
<1> SUFFICES ASSUME Inv, PlainInv, [Next]_vars PROVE PlainInv'
  OBVIOUS
<1> USE StorageAssumption DEF Inv, StorageTypeOK, PlainInv, InFlight, vars, saverVars
<1>1. ASSUME NEW t \in Threads, NEW report \in Reports, StartSave(t, report)
      PROVE  PlainInv'
  <2>1. /\ row'[t].key = report.key
        /\ row'[t].source = report.source
        /\ row'[t].primary <=> primaryMap[report.key] \in {None, report.source}
        /\ pc'[t] = IF primaryMap[report.key] = None THEN "setPrimary" ELSE "write"
        /\ \A u \in Threads \ {t} : row'[u] = row[u] /\ pc'[u] = pc[u]
        /\ UNCHANGED <<batch, db, primaryMap>>
    BY <1>1 DEF StartSave, IsPrimary
  <2>2. IsPlain(row'[t]) => row'[t].primary
    BY <2>1, KeysOf DEF IsPlain
  <2> QED
    BY <2>1, <2>2
<1>2. ASSUME NEW t \in Threads, SetPrimary(t) PROVE PlainInv'
  <2>1. /\ row[t] \in InFlight /\ row[t] \in Rows
        /\ primaryMap' = [primaryMap EXCEPT ![row[t].key] = row[t].source]
        /\ pc' = [pc EXCEPT ![t] = "write"]
        /\ UNCHANGED <<batch, db, row>>
    BY <1>2 DEF SetPrimary
  <2>2. row[t].key[2] = "plain" => row[t].source = Own
    BY <2>1 DEF RowInv, IsPlain
  <2>3. \A k \in Keys : k[2] = "plain" => primaryMap'[k] \in {None, Own}
    BY <2>1, <2>2
  <2>4. InFlight' = InFlight
    BY <1>2, <2>1 DEF SetPrimary
  <2> QED
    BY <2>1, <2>3, <2>4
<1>3. ASSUME NEW t \in Threads, Write(t) PROVE PlainInv'
  BY <1>3 DEF Write
<1>4. ASSUME NEW setting \in Settings, SaveSetting(setting) PROVE PlainInv'
  BY <1>4 DEF SaveSetting
<1>5. CASE Flush
  BY <1>5 DEF Flush
<1>6. CASE FlushFails
  BY <1>6 DEF FlushFails
<1>7. CASE Restart
  <2>1. \A k \in Keys : k[2] = "plain" => primaryMap'[k] = None
    BY <1>7 DEF Restart, Boot, LoadedMaps
  <2> QED
    BY <1>7, <2>1 DEF Restart
<1>8. ASSUME NEW form \in {"plain", "values"}, Intercept(form) PROVE PlainInv'
  BY <1>8 DEF Intercept
<1>9. CASE SetTime
  BY <1>9 DEF SetTime
<1>10. CASE UNCHANGED vars
  BY <1>10
<1> QED
  BY <1>1, <1>2, <1>3, <1>4, <1>5, <1>6, <1>7, <1>8, <1>9, <1>10 DEF Next

(* Steps that write nothing, flush, or lose rows keep the roles apart: what is lost
   leaves its path in dropped, or was lost together with the map. *)
LEMMA FlushRoles ==
  ASSUME Inv, CoverInv, SplitInv,
         \/ /\ UNCHANGED <<batch, db, dropped>>
         \/ Flush
         \/ FlushFails,
         UNCHANGED <<primaryMap, saverVars>>
  PROVE  CoverInv' /\ SplitInv'
<1>1. \A p : PlainStored(p) => PlainStored(p)'
  BY DEF PlainStored, Flush, FlushFails
<1>2. dropped \subseteq dropped'
  BY DEF Flush, FlushFails
<1>3. \A p : Excused(p) => Excused(p)'
  BY <1>1, <1>2 DEF Excused
<1>4. /\ db \subseteq db' /\ db' \cup batch' \subseteq db \cup batch
      /\ batch' \subseteq batch
  BY DEF Flush, FlushFails
<1>5. \A p : Covered(db \cup batch, p) => Covered(db \cup batch, p)'
  <2> SUFFICES ASSUME NEW p, NEW r \in Reported(db \cup batch, p)
               PROVE  Covered(db \cup batch, p)'
    BY <1>3 DEF Covered
  <2>1. r.primary /\ Path(r) = p /\ ~IsPlain(r)
    BY DEF Reported, PrimaryRows
  <2>2. r \in db' \cup batch' \/ Path(r) \in dropped'
    BY <2>1 DEF Flush, FlushFails, Reported, PrimaryRows
  <2> QED
    BY <2>1, <2>2 DEF Covered, Excused, Reported, PrimaryRows
<1>6. \A p \in Paths : OfSensors(db', p) # {} => Covered(db, p)'
  <2> SUFFICES ASSUME NEW p \in Paths, OfSensors(db', p) # {} PROVE Covered(db, p)'
    OBVIOUS
  <2>1. CASE db' = db
    BY <2>1, <1>3 DEF CoverInv, Covered
  <2>2. CASE Flush
    <3>1. db' = db \cup batch /\ Covered(db \cup batch, p)
      <4>1. db' = db \cup batch
        BY <2>2 DEF Flush
      <4>2. OfSensors(db, p) # {} \/ OfSensors(batch, p) # {}
        BY <4>1 DEF OfSensors
      <4>3. Covered(db, p) => Covered(db \cup batch, p)
        BY DEF Covered, Reported, PrimaryRows
      <4> QED
        BY <4>1, <4>2, <4>3 DEF CoverInv
    <3> QED
      BY <3>1, <1>3 DEF Covered
  <2> QED
    BY <2>1, <2>2 DEF FlushFails
<1>7. CoverInv'
  <2>1. \A p : OfSensors(batch', p) # {} => OfSensors(batch, p) # {}
    BY <1>4 DEF OfSensors
  <2> QED
    BY <1>5, <1>6, <2>1 DEF CoverInv, saverVars
<1>8. SplitInv'
  <2>1. \A p : Stored(p)' \subseteq Stored(p)
    BY <1>4 DEF Stored, Reported, PrimaryRows
  <2>2. \A p : OfSensors((db \cup batch \cup InFlight)', p)
                 \subseteq OfSensors(db \cup batch \cup InFlight, p)
    BY <1>4 DEF OfSensors, InFlight, saverVars
  <2> QED
    BY <1>1, <1>3, <2>1, <2>2 DEF SplitInv
<1> QED
  BY <1>7, <1>8

LEMMA StartRoles ==
  ASSUME Inv, RoleInv, NEW t \in Threads, NEW report \in Reports, StartSave(t, report)
  PROVE  CoverInv' /\ SplitInv'
<1>1. /\ row'[t].key = report.key
      /\ row'[t].source = report.source
      /\ row'[t].primary <=> primaryMap[report.key] \in {None, report.source}
      /\ pc[t] = "idle"
      /\ pc'[t] = IF primaryMap[report.key] = None THEN "setPrimary" ELSE "write"
      /\ \A u \in Threads \ {t} : row'[u] = row[u] /\ pc'[u] = pc[u]
      /\ IsPlain(report) \/ t = Handler
      /\ UNCHANGED <<batch, db, dropped, primaryMap>>
  BY DEF StartSave, IsPrimary, Inv, StorageTypeOK
<1>2. /\ \A p : Covered(db \cup batch, p)' <=> Covered(db \cup batch, p)
      /\ \A p : Covered(db, p)' <=> Covered(db, p)
      /\ \A p : Stored(p)' = Stored(p) /\ (PlainStored(p)' <=> PlainStored(p))
      /\ \A p : Excused(p)' <=> Excused(p)
  BY <1>1 DEF Covered, Stored, Excused, PlainStored
<1>3. InFlight' \subseteq InFlight \cup {row'[t]}
  BY <1>1 DEF InFlight
<1>4. CoverInv'
  <2> SUFFICES ASSUME NEW p \in Paths
               PROVE  /\ primaryMap[ValueKey(p)] # None =>
                            \/ Covered(db \cup batch, p)
                            \/ /\ pc'[Handler] = "write"
                               /\ row'[Handler].key = ValueKey(p)
                               /\ row'[Handler].primary
                      /\ pc'[Handler] = "write" /\ row'[Handler].key = ValueKey(p)
                             /\ ~row'[Handler].primary
                            => Covered(db \cup batch, p)
    BY <1>1, <1>2 DEF CoverInv, RoleInv
  <2>1. CASE t # Handler
    BY <1>1, <2>1, StorageAssumption DEF CoverInv, RoleInv
  <2>2. CASE t = Handler
    <3>1. primaryMap[ValueKey(p)] # None => Covered(db \cup batch, p)
      BY <1>1, <2>2 DEF CoverInv, RoleInv
    <3> QED
      BY <1>1, <2>2, <3>1
  <2> QED
    BY <2>1, <2>2
<1>5. SplitInv'
  <2> SUFFICES ASSUME NEW p \in VesselPaths, NEW r \in Stored(p),
                      row'[t] \in OfSensors({row'[t]}, p), ~row'[t].primary,
                      r.source = row'[t].source
               PROVE  Excused(p)
    BY <1>1, <1>2, <1>3 DEF SplitInv, RoleInv, OfSensors
  <2>1. t = Handler /\ report.key = ValueKey(p)
    BY <1>1 DEF OfSensors, IsPlain, Path, Reports, ValueKey
  <2>2. primaryMap[ValueKey(p)] \in {r.source, Own}
    BY DEF Inv, PrimaryInv
  <2>3. primaryMap[ValueKey(p)] = Own
    BY <1>1, <2>1, <2>2
  <2> QED
    BY <2>3 DEF SplitInv, RoleInv, Excused
<1> QED
  BY <1>4, <1>5

LEMMA SetPrimaryRoles ==
  ASSUME Inv, RoleInv, NEW t \in Threads, SetPrimary(t)
  PROVE  CoverInv' /\ SplitInv'
<1> DEFINE k == row[t].key
<1>1. /\ row[t] \in Rows /\ k \in Keys
      /\ row[t].primary
      /\ primaryMap' = [primaryMap EXCEPT ![k] = row[t].source]
      /\ pc[t] = "setPrimary" /\ pc'[t] = "write"
      /\ \A u \in Threads \ {t} : pc'[u] = pc[u]
      /\ UNCHANGED <<batch, db, row, dropped>>
  BY DEF SetPrimary, Inv, StorageTypeOK, Rows, RoleInv, PlainInv
<1>2. /\ \A p : Covered(db \cup batch, p)' <=> Covered(db \cup batch, p)
      /\ \A p : Covered(db, p)' <=> Covered(db, p)
      /\ \A p : Stored(p)' = Stored(p) /\ (PlainStored(p)' <=> PlainStored(p))
      /\ \A p : Excused(p)' <=> Excused(p)
      /\ InFlight' = InFlight
  BY <1>1 DEF Covered, Stored, Excused, PlainStored, InFlight
<1>3. ASSUME NEW p \in Paths, k = ValueKey(p)
      PROVE  t = Handler /\ row[t].source # Own
  <2>1. ~IsPlain(row[t]) /\ row[t] \in InFlight
    BY <1>1, <1>3 DEF IsPlain, ValueKey, InFlight
  <2> QED
    BY <1>1, <2>1 DEF Inv, RowInv
<1>4. ASSUME NEW p \in Paths, k # ValueKey(p)
      PROVE  primaryMap'[ValueKey(p)] = primaryMap[ValueKey(p)]
  BY <1>1, <1>4 DEF Inv, StorageTypeOK, Keys, ValueKey
<1>5. CoverInv'
  <2> SUFFICES ASSUME NEW p \in Paths
               PROVE  /\ primaryMap'[ValueKey(p)] # None =>
                            \/ Covered(db \cup batch, p)
                            \/ /\ pc'[Handler] = "write"
                               /\ row[Handler].key = ValueKey(p)
                               /\ row[Handler].primary
                      /\ pc'[Handler] = "write" /\ row[Handler].key = ValueKey(p)
                             /\ ~row[Handler].primary
                            => Covered(db \cup batch, p)
    BY <1>1, <1>2 DEF CoverInv, RoleInv
  <2>1. CASE k = ValueKey(p)
    BY <1>1, <1>3, <2>1
  <2>2. CASE k # ValueKey(p)
    BY <1>1, <1>4, <2>2, StorageAssumption DEF CoverInv, RoleInv
  <2> QED
    BY <2>1, <2>2
<1>6. SplitInv'
  <2>1. ASSUME NEW p \in VesselPaths, primaryMap'[ValueKey(p)] = Own
        PROVE  primaryMap[ValueKey(p)] = Own
    <3>1. p \in Paths
      BY DEF Paths
    <3>2. CASE k = ValueKey(p)
      <4>1. primaryMap'[ValueKey(p)] = row[t].source
        BY <1>1, <3>2 DEF Inv, StorageTypeOK
      <4> QED
        BY <1>3, <2>1, <3>1, <3>2, <4>1
    <3> QED
      BY <1>4, <2>1, <3>1, <3>2
  <2> QED
    BY <1>1, <1>2, <2>1 DEF SplitInv, RoleInv
<1> QED
  BY <1>5, <1>6

LEMMA WriteRoles ==
  ASSUME Inv, RoleInv, NEW t \in Threads, Write(t)
  PROVE  CoverInv' /\ SplitInv'
<1>1. /\ row[t] \in Rows /\ row[t] \in InFlight
      /\ pc[t] = "write" /\ pc'[t] = "idle"
      /\ \A u \in Threads \ {t} : pc'[u] = pc[u] /\ row'[u] = row[u]
      /\ batch' = batch \cup {row[t]}
      /\ UNCHANGED <<db, primaryMap, dropped>>
  BY DEF Write, Inv, StorageTypeOK, InFlight
<1>2. /\ \A p : PlainStored(p)' <=> PlainStored(p)
      /\ \A p : Excused(p)' <=> Excused(p)
      /\ \A p : Covered(db, p)' <=> Covered(db, p)
  BY <1>1 DEF PlainStored, Excused, Covered
<1>3. \A p : Covered(db \cup batch, p) => Covered(db \cup batch, p)'
  BY <1>1, <1>2 DEF Covered, Reported, PrimaryRows
<1>4. ASSUME NEW p \in Paths, row[t] \in OfSensors({row[t]}, p)
      PROVE  t = Handler /\ row[t].key = ValueKey(p)
  <2>1. row[t].key = ValueKey(p)
    BY <1>1, <1>4 DEF OfSensors, Rows, Keys, IsPlain, Path, ValueKey
  <2>2. ~IsPlain(row[t])
    BY <1>4 DEF OfSensors
  <2> QED
    BY <1>1, <2>1, <2>2 DEF Inv, RowInv
<1>5. ASSUME NEW p \in Paths, row[t].key = ValueKey(p), row[t].primary
      PROVE  Covered(db \cup batch, p)'
  BY <1>1, <1>5 DEF Covered, Reported, PrimaryRows, IsPlain, Path, ValueKey
<1>6. CoverInv'
  <2> SUFFICES ASSUME NEW p \in Paths
               PROVE  /\ primaryMap[ValueKey(p)] # None =>
                            \/ Covered(db \cup batch, p)'
                            \/ /\ pc'[Handler] = "write"
                               /\ row'[Handler].key = ValueKey(p)
                               /\ row'[Handler].primary
                      /\ OfSensors(batch', p) # {} => Covered(db \cup batch, p)'
                      /\ pc'[Handler] = "write" /\ row'[Handler].key = ValueKey(p)
                             /\ ~row'[Handler].primary
                            => Covered(db \cup batch, p)'
    BY <1>1, <1>2 DEF CoverInv, RoleInv
  <2>1. OfSensors(batch', p) # {} => Covered(db \cup batch, p)'
    <3>1. CASE row[t] \in OfSensors({row[t]}, p)
      BY <1>1, <1>3, <1>4, <1>5, <3>1 DEF CoverInv, RoleInv
    <3>2. CASE row[t] \notin OfSensors({row[t]}, p)
      <4>1. OfSensors(batch', p) = OfSensors(batch, p)
        BY <1>1, <3>2 DEF OfSensors
      <4> QED
        BY <1>3, <4>1 DEF CoverInv, RoleInv
    <3> QED
      BY <3>1, <3>2
  <2> QED
    BY <1>1, <1>3, <1>5, <2>1, StorageAssumption DEF CoverInv, RoleInv
<1>7. SplitInv'
  <2> SUFFICES ASSUME NEW p \in VesselPaths,
                      NEW q \in OfSensors((db \cup batch \cup InFlight)', p),
                      NEW r \in Stored(p)', ~q.primary, r.source = q.source
               PROVE  Excused(p)
    BY <1>1, <1>2 DEF SplitInv, RoleInv
  <2>1. q \in OfSensors(db \cup batch \cup InFlight, p)
    BY <1>1 DEF OfSensors, InFlight
  <2>2. \/ r \in Stored(p)
        \/ r = row[t] /\ r.key = ValueKey(p) /\ r.primary
    BY <1>1, <1>4 DEF Stored, Reported, PrimaryRows, OfSensors, Paths
  <2>3. CASE r \in Stored(p)
    BY <2>1, <2>3 DEF SplitInv, RoleInv
  <2>4. CASE r = row[t] /\ r.key = ValueKey(p) /\ r.primary
    <3>1. t = Handler /\ r.source # Own
      BY <1>1, <2>4 DEF Inv, RowInv, IsPlain, ValueKey
    <3>2. primaryMap[ValueKey(p)] = r.source
      BY <1>1, <2>4, <3>1 DEF Inv, PrimaryInv
    <3>3. q \in db \cup batch
      <4>1. ASSUME q \in InFlight PROVE q = row[Handler]
        BY <2>1, <4>1 DEF Inv, RowInv, InFlight, OfSensors
      <4> QED
        BY <2>1, <2>4, <3>1, <4>1 DEF OfSensors
    <3>4. Covered(db \cup batch, p)
      <4>1. OfSensors(db, p) # {} \/ OfSensors(batch, p) # {}
        BY <2>1, <3>3 DEF OfSensors
      <4>2. Covered(db, p) => Covered(db \cup batch, p)
        BY DEF Covered, Reported, PrimaryRows
      <4> QED
        BY <4>1, <4>2 DEF CoverInv, RoleInv, Paths
    <3>5. ASSUME NEW o \in Stored(p) PROVE Excused(p)
      <4>1. o.source = r.source
        BY <3>1, <3>2 DEF Inv, PrimaryInv
      <4> QED
        BY <2>1, <4>1 DEF SplitInv, RoleInv
    <3> QED
      BY <3>4, <3>5 DEF Covered, Stored
  <2> QED
    BY <2>2, <2>3, <2>4
<1> QED
  BY <1>6, <1>7

LEMMA RestartRoles ==
  ASSUME Inv, RoleInv, Restart
  PROVE  CoverInv' /\ SplitInv'
<1>1. /\ primaryMap' \in LoadedMaps(db)
      /\ db' = db /\ batch' = {} /\ dropped' = dropped
      /\ \A t \in Threads : pc'[t] = "idle"
  BY DEF Restart, Boot
<1>2. /\ InFlight' = {}
      /\ \A p : Covered(db \cup batch, p)' <=> Covered(db, p)
      /\ \A p : Covered(db, p)' <=> Covered(db, p)
      /\ \A p : PlainStored(p)' <=> PlainStored(p)
      /\ \A p : Excused(p)' <=> Excused(p)
      /\ \A p : Stored(p)' \subseteq Stored(p)
  BY <1>1 DEF InFlight, Covered, Excused, PlainStored, Stored, Reported, PrimaryRows
<1>3. ASSUME NEW p \in Paths
      PROVE  /\ primaryMap'[ValueKey(p)] # None => PrimaryRows(db, p) # {}
             /\ primaryMap'[ValueKey(p)] = Own
                  => \E r \in PrimaryRows(db, p) : r.source = Own
  <2>1. ValueKey(p) \in Keys
    BY DEF Keys, ValueKey
  <2>2. Own # None
    BY StorageAssumption DEF AllSources
  <2> QED
    BY <1>1, <2>1, <2>2 DEF LoadedMaps, ValueKey
<1>4. ASSUME NEW p \in Paths, NEW r \in PrimaryRows(db, p)
      PROVE  /\ Covered(db, p)
             /\ r.source = Own => PlainStored(p)
  BY <1>4 DEF Covered, Excused, PlainStored, Reported, PrimaryRows, Inv, RowInv
<1>5. CoverInv'
  <2>1. \A p : OfSensors(batch', p) = {} /\ OfSensors(db', p) = OfSensors(db, p)
    BY <1>1 DEF OfSensors
  <2> QED
    BY <1>1, <1>2, <1>3, <1>4, <2>1, StorageAssumption DEF CoverInv, RoleInv
<1>6. SplitInv'
  <2>1. \A p : OfSensors((db \cup batch \cup InFlight)', p)
                 \subseteq OfSensors(db \cup batch \cup InFlight, p)
    BY <1>1, <1>2 DEF OfSensors
  <2>2. \A p \in VesselPaths : primaryMap'[ValueKey(p)] = Own => PlainStored(p)
    BY <1>3, <1>4 DEF Paths
  <2> QED
    BY <1>2, <2>1, <2>2 DEF SplitInv, RoleInv
<1> QED
  BY <1>5, <1>6

LEMMA RoleNext == Inv /\ RoleInv /\ [Next]_vars => RoleInv'
<1> SUFFICES ASSUME Inv, RoleInv, [Next]_vars PROVE CoverInv' /\ SplitInv'
  BY PlainNext DEF RoleInv
<1>1. ASSUME NEW t \in Threads, NEW report \in Reports, StartSave(t, report)
      PROVE  CoverInv' /\ SplitInv'
  BY <1>1, StartRoles
<1>2. ASSUME NEW t \in Threads, SetPrimary(t) PROVE CoverInv' /\ SplitInv'
  BY <1>2, SetPrimaryRoles
<1>3. ASSUME NEW t \in Threads, Write(t) PROVE CoverInv' /\ SplitInv'
  BY <1>3, WriteRoles
<1>4. ASSUME NEW setting \in Settings, SaveSetting(setting) PROVE CoverInv' /\ SplitInv'
  BY <1>4, FlushRoles DEF SaveSetting, RoleInv
<1>5. CASE Flush
  BY <1>5, FlushRoles DEF Flush, RoleInv
<1>6. CASE FlushFails
  BY <1>6, FlushRoles DEF FlushFails, RoleInv
<1>7. CASE Restart
  BY <1>7, RestartRoles
<1>8. ASSUME NEW form \in {"plain", "values"}, Intercept(form) PROVE CoverInv' /\ SplitInv'
  BY <1>8, FlushRoles DEF Intercept, RoleInv
<1>9. CASE SetTime
  BY <1>9, FlushRoles DEF SetTime, RoleInv
<1>10. CASE UNCHANGED vars
  BY <1>10, FlushRoles DEF vars, RoleInv
<1> QED
  BY <1>1, <1>2, <1>3, <1>4, <1>5, <1>6, <1>7, <1>8, <1>9, <1>10 DEF Next

LEMMA RoleCorrect == Spec => []RoleInv
<1>1. Inv /\ RoleInv /\ [Next]_vars => RoleInv'
  BY RoleNext
<1> QED
  BY RoleInit, <1>1, InvCorrect, PTL DEF Spec

(* What InfluxDB has of a path includes a primary row, unless it refused it: no crash,
   lost batch or restart leaves a value where loadData finds no default one. *)
THEOREM NoOrphansCorrect == Spec => []NoOrphans
<1>1. ASSUME Inv, RoleInv, NEW r \in db
      PROVE  PrimaryRows(db, Path(r)) # {} \/ Path(r) \in dropped
  <2>1. CASE IsPlain(r)
    BY <1>1, <2>1 DEF RoleInv, PlainInv, PrimaryRows
  <2>2. CASE ~IsPlain(r)
    <3>1. r \in Rows
      BY <1>1 DEF Inv, StorageTypeOK
    <3>2. Path(r) \in Paths
      BY <3>1, StorageAssumption DEF Rows, Keys, Path, Paths
    <3>3. Covered(db, Path(r))
      BY <1>1, <2>2, <3>2 DEF RoleInv, CoverInv, OfSensors
    <3>4. ASSUME NEW o \in db, IsPlain(o), Path(o) = Path(r)
          PROVE  o \in PrimaryRows(db, Path(r))
      BY <1>1, <3>4 DEF RoleInv, PlainInv, PrimaryRows
    <3> QED
      BY <3>3, <3>4 DEF Covered, Excused, PlainStored, Reported
  <2> QED
    BY <2>1, <2>2
<1>2. Inv /\ RoleInv => NoOrphans
  BY <1>1 DEF NoOrphans
<1> QED
  BY <1>2, InvCorrect, RoleCorrect, PTL

(* A source has rows of one kind only, outside the two cases the property names. *)
THEOREM SingleRoleCorrect == Spec => []SingleRole
<1>1. ASSUME Inv, RoleInv, NEW r \in db, NEW q \in db, r.key = q.key,
             r.source = q.source, r.primary # q.primary, Path(r) \in VesselPaths
      PROVE  Excused(Path(r))
  <2> DEFINE p == Path(r)
  <2>1. Path(q) = p /\ (IsPlain(q) <=> IsPlain(r))
    BY <1>1 DEF Path, IsPlain
  <2>2. r.primary \in BOOLEAN /\ q.primary \in BOOLEAN
    BY <1>1 DEF Inv, StorageTypeOK, Rows
  <2>3. (r.primary /\ ~q.primary) \/ (q.primary /\ ~r.primary)
    BY <1>1, <2>2
  <2>4. ~IsPlain(r)
    BY <1>1, <2>1, <2>3 DEF RoleInv, PlainInv
  <2>5. CASE r.primary /\ ~q.primary
    <3>1. r \in Stored(p) /\ q \in OfSensors(db \cup batch \cup InFlight, p)
      BY <2>1, <2>4, <2>5 DEF Stored, Reported, PrimaryRows, OfSensors
    <3> QED
      BY <1>1, <2>5, <3>1 DEF RoleInv, SplitInv
  <2>6. CASE q.primary /\ ~r.primary
    <3>1. q \in Stored(p) /\ r \in OfSensors(db \cup batch \cup InFlight, p)
      BY <2>1, <2>4, <2>6 DEF Stored, Reported, PrimaryRows, OfSensors
    <3> QED
      BY <1>1, <2>6, <3>1 DEF RoleInv, SplitInv
  <2> QED
    BY <2>3, <2>5, <2>6
<1>2. Inv /\ RoleInv => SingleRole
  BY <1>1 DEF SingleRole, Excused, PlainStored
<1> QED
  BY <1>2, InvCorrect, RoleCorrect, PTL
=============================================================================
