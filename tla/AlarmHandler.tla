---------------------------- MODULE AlarmHandler ----------------------------
(***************************************************************************)
(* handler/AlarmHandler.java: the zones of each value that has any, kept   *)
(* in a static map, and the notifications sent for the values that arrive. *)
(* One thread of the broker delivers to the handler, so a message is one   *)
(* step.                                                                   *)
(*                                                                         *)
(* Of the metadata of a value only "zones" is kept: an entry of alarmMap   *)
(* without zones behaves as no entry, and both are the empty list.  A      *)
(* bound of a zone is a set, empty when the zone does not have it.  A      *)
(* notification replaces the one stored before under the same key; its     *)
(* depth says how often ".notifications" stands in that key.               *)
(***************************************************************************)
EXTENDS Integers, FiniteSets, Sequences

CONSTANTS
    AlarmKeys,  \* keys of values that may have zones
    ZoneLists   \* lists of zones that clients send for a key

VARIABLES
    alarmMap,   \* the zones of each key
    notices     \* the notifications stored last, one for a key and a depth

alarmVars == <<alarmMap, notices>>

State == {"normal", "warn", "alarm", "alert", "emergency"}
Notified == {"normal", "warn", "alarm"}

Zone == [lower : SUBSET Int, upper : SUBSET Int, state : State]

ASSUME ZonesAssumption == ZoneLists \subseteq Seq(Zone)

NoZones == << >>

\* Double.MIN_VALUE is the smallest positive double, not the lowest one.
MIN_VALUE == 1

\* Faulty variant of InZone: the upper bound is in the zone.
UpperInZone(z, val) ==
    /\ \A l \in z.lower : val >= l
    /\ z.lower = {} => val >= MIN_VALUE
    /\ \A u \in z.upper : val <= u

\* Faulty variant of InZone: the lower bound is not in the zone.
LowerNotInZone(z, val) ==
    /\ \A l \in z.lower : val > l
    /\ z.lower = {} => val >= MIN_VALUE
    /\ \A u \in z.upper : val < u

InZone(z, val) ==
    /\ \A l \in z.lower : val >= l
    /\ z.lower = {} => val >= MIN_VALUE
    /\ \A u \in z.upper : val < u

Matching(zones, val) == {i \in DOMAIN zones : InZone(zones[i], val)}

\* The key is rewritten for every zone that matches, whether it notifies or not.
Depth(zones, val, i) == Cardinality({j \in Matching(zones, val) : j <= i})

Notice(key, zones, val, i) ==
    [key   |-> key,
     depth |-> Depth(zones, val, i),
     state |-> zones[i].state]

Sent(key, zones, val) ==
    {Notice(key, zones, val, i) :
        i \in {j \in Matching(zones, val) : zones[j].state \in Notified}}

\* Every notification of one value has a depth of its own.
Replaced(new) ==
    {n \in notices : \E s \in new : s.key = n.key /\ s.depth = n.depth}

check(key, zones, val) ==
    LET new == Sent(key, zones, val)
    IN  notices' = (notices \ Replaced(new)) \cup new

parseZones(key, zones) ==
    /\ alarmMap' = [alarmMap EXCEPT ![key] = zones]
    /\ UNCHANGED notices

consumeValue(key, val) ==
    /\ check(key, alarmMap[key], val)
    /\ UNCHANGED alarmMap

(***************************************************************************)
(* The constructor.  parseMeta gives parseMetaByKey the key of the value,  *)
(* which has no ".meta." in it, so the name of the attribute is empty, and *)
(* setJson with an empty path sets nothing.                                *)
(***************************************************************************)
loadAlarms ==
    /\ alarmMap' = [k \in AlarmKeys |-> NoZones]
    /\ UNCHANGED notices

AlarmInit ==
    /\ alarmMap = [k \in AlarmKeys |-> NoZones]
    /\ notices = {}

AlarmNext ==
    \/ \E k \in AlarmKeys, zones \in ZoneLists : parseZones(k, zones)
    \/ \E k \in AlarmKeys, val \in Int : consumeValue(k, val)
    \/ loadAlarms

AlarmSpec == AlarmInit /\ [][AlarmNext]_alarmVars

-----------------------------------------------------------------------------

\* One of the two zones ends where the other begins, or before.
Disjoint(y, z) ==
    \/ \E u \in y.upper, l \in z.lower : u <= l
    \/ \E u \in z.upper, l \in y.lower : u <= l

WellZoned(zones) ==
    \A i, j \in DOMAIN zones : i # j => Disjoint(zones[i], zones[j])

(***************************************************************************)
(* When no list has zones that overlap, a value on the border of two zones *)
(* included, every notification goes to ".notifications" and the path of   *)
(* its value, where clients look for it, and never to a key with           *)
(* ".notifications" twice (AlarmHandler.java:151-166).                     *)
(***************************************************************************)
OneNoticePerValue ==
    (\A zones \in ZoneLists : WellZoned(zones)) =>
        \A n \in notices : n.depth = 1
=============================================================================
