----------------------------- MODULE AnchorWatch -----------------------------
(***************************************************************************)
(* handler/AnchorWatchHandler.java: five numbers, each from a key of its   *)
(* own, and the distance between the boat and the anchor, sent when all    *)
(* five are known and the watch is on.  A field, and a value that is sent  *)
(* for it, is a set: empty where the code has null, and else one number.   *)
(* Distances are squared and on a plane: the code's haversine orders       *)
(* nearby points the same way.                                             *)
(***************************************************************************)
EXTENDS Integers

Fields == {"maxRadius", "currentLon", "currentLat", "anchorLon", "anchorLat"}

Value == {{}} \cup {{x} : x \in Int}

VARIABLE
    watch       \* the handler's fields

haversineMeters(lat, lon, aLat, aLon) ==
    (lat - aLat) * (lat - aLat) + (lon - aLon) * (lon - aLon)

Distance(w) ==
    {haversineMeters(lat, lon, aLat, aLon) :
        lat \in w["currentLat"], lon \in w["currentLon"],
        aLat \in w["anchorLat"], aLon \in w["anchorLon"]}

Armed(w) ==
    /\ \E r \in w["maxRadius"] : r > 0
    /\ \A f \in Fields : w[f] # {}

\* The distances sent by a step that leaves the handler with the fields w.
Radius(w) == IF Armed(w) THEN Distance(w) ELSE {}

\* Faulty variant of consume: the key is tested for "position.latitude" only.
ConsumeAnyLatitude(field, val) ==
    watch' = [watch EXCEPT
                ![field] = val,
                !["currentLat"] = IF field \in {"anchorLat", "currentLat"} THEN val ELSE @]

\* A null value switches the watch off, until the field is sent again.
consume(field, val) == watch' = [watch EXCEPT ![field] = val]

(***************************************************************************)
(* The constructor, db being what is stored under each key.  The key that  *)
(* is tested for the anchor's longitude is that of the boat's, which a     *)
(* query for "navigation.anchor" never returns, so it is not restored.     *)
(***************************************************************************)
Restored == {"maxRadius", "anchorLat"}

loaded(db) == [f \in Fields |-> IF f \in Restored THEN db[f] ELSE {}]

initFromDb(db) == watch' = loaded(db)
=============================================================================
