----------------------------- MODULE NmeaParser -----------------------------
(***************************************************************************)
(* The way of an NMEA 0183 sentence: the parser (parser.js with            *)
(* getTagBlock.js and transformSource.js), which runs the hook of the      *)
(* sentence, and the handler (NMEAMsgHandler.consume), which sends the     *)
(* values of the delta into the server.  One consumer thread handles the   *)
(* sentences one at a time, so a sentence is one action.                   *)
(*                                                                         *)
(* The time series database is outside: of what it stores, the model keeps *)
(* the answer to its "order by time desc limit 1" for the series in        *)
(* Watched.  Every sentence is one source, "NMEA0183", to the server: the  *)
(* talkers of all devices of one kind of connection share their series.    *)
(***************************************************************************)
EXTENDS NmeaHooks, Seatalk

CONSTANTS
    Sentences(_, _),  \* the sentences that can arrive, by clock and by delay
    Watched,          \* the paths of the own vessel whose series are kept
    MaxDelay,         \* how long a sentence may take to the handler, in ticks
    Demo,             \* the configuration value "demo"
    MaxClock          \* bound of the model: the clock stops there; it starts at
                      \* MaxDelay, so that no sentence is older than time 0

ASSUME ParserAssumption ==
    /\ MaxClock \in Nat
    /\ MaxDelay \in 0..MaxClock
    /\ Demo \in BOOLEAN

VARIABLES
    clock,     \* the time of the server
    message,   \* the sentence handled last
    sent,      \* the key-value messages sent for it
    latest     \* the last point by time of each series in Watched

vars == <<clock, message, sent, latest>>

NoMessage == [lead |-> "none"]
NoPoint   == [stamp |-> -(MonthTicks + 1), value |-> Undefined]

-----------------------------------------------------------------------------
(* AIS.  The decoder is the library ggencoder: it refuses what is not      *)
(* !AIVDM or !AIVDO, and throws on a part of a longer message when it is   *)
(* given no session.  ais holds the fields it decoded.                     *)

StateMapping ==
    << "anchored", "not under command", "restricted manouverability",
       "constrained by draft", "moored", "aground", "fishing", "sailing",
       "hazardous material high speed",
       "hazardous material wing in ground">>

NavigationState(f) ==
    CASE f.n \in 1..10 -> Text(StateMapping[f.n])
      [] f.n = 14      -> Text("ais-sart")
      [] OTHER         -> Undefined

MsgTypeToPrefix(type) ==
    CASE type = Num(9)  -> "aircraft."
      [] type = Num(21) -> "atons."
      [] OTHER          -> "vessels."

\* The enumerations of signalk-schema
AtonTypes == 0..31
ShipTypes == 20..99

\* The path values of the fields that were decoded
AisValues(m) ==
    LET d(name) == IF name \in DOMAIN m.ais THEN m.ais[name] ELSE Undefined
        There(name) == d(name) # Undefined
        Has(name) == Truthy(d(name))
        Metres(f, over) == Measure({f}, over, "m", "m")
    IN  When(Has("mmsi"), PV("", [mmsi |-> d("mmsi")]))
        \o When(Has("shipname"), PV("", [name |-> d("shipname")]))
        \o When(There("sog"),
                PV("navigation.speedOverGround", Knots(float(d("sog")))))
        \o When(There("cog"),
                PV("navigation.courseOverGroundTrue", Deg(float(d("cog")))))
        \o When(There("hdg"), PV("navigation.headingTrue", Deg(float(d("hdg")))))
        \o When(Has("lon") /\ Has("lat"),
                PV("navigation.position",
                   Position(float(d("lat")), float(d("lon")))))
        \o When(Has("length"), PV("design.length", Metres(d("length").n, 1)))
        \o When(Has("width"), PV("design.beam", Metres(d("width").n, 1)))
        \o When(Has("draught"), PV("design.draft", Metres(d("draught").n, 1)))
        \o When(Has("dimA"), PV("sensors.ais.fromBow", Metres(d("dimA").n, 1)))
        \o When(Has("dimD") /\ Has("width"),
                PV("sensors.ais.fromCenter",
                   Metres(d("width").n - 2 * d("dimD").n, 2)))
        \o When(Has("navstatus") /\ NavigationState(d("navstatus")) # Undefined,
                PV("navigation.state", NavigationState(d("navstatus"))))
        \o When(Has("destination"),
                PV("navigation.destination.commonName", d("destination")))
        \o When(Has("callsign"), PV("", [callsignVhf |-> d("callsign")]))
        \o When(Has("aidtype") /\ d("aidtype").n \in AtonTypes,
                PV("atonType", d("aidtype")))
        \o When(Has("cargo") /\ d("cargo").n \in ShipTypes,
                PV("design.aisShipType", d("cargo")))

VDM(m, stamp) ==
    LET d(name) == IF name \in DOMAIN m.ais THEN m.ais[name] ELSE Undefined
        prefix  == IF Truthy(d("aidtype")) THEN "atons."
                   ELSE MsgTypeToPrefix(d("aistype"))
    IN  CASE m.lead # "!" -> Null
          [] m.lead = "!" /\ m.multipart -> Throw
          [] m.lead = "!" /\ ~m.multipart /\ AisValues(m) = <<>> -> Null
          [] OTHER -> DeltaOf(prefix \o d("mmsi").s, stamp, AisValues(m))

-----------------------------------------------------------------------------
(* The parser *)

\* hooks-es5/supported.txt; VLW, PBVE and PNKEP are not loaded
Supported == {"ALK", "APB", "DBT", "DPT", "DSC", "GGA", "GLL", "HDG", "HDM",
    "HDT", "KEP", "MTW", "MWV", "RMB", "RMC", "ROT", "RPM", "VDM", "VDO",
    "VDR", "VHW", "VPW", "VTG", "VWR", "ZDA"}

\* The tag block before a sentence: its time (c:) and its source (s:)
getTagBlock(m) == IF m.lead = "\\" THEN m.tag ELSE [c |-> Undefined, s |-> ""]

RunHook(m, stamp, now) ==
    CASE m.id = "ALK" -> ALK(m.parts, stamp)
      [] m.id = "APB" -> APB(m.parts, stamp)
      [] m.id = "DBT" -> DBT(m.parts, stamp)
      [] m.id = "DPT" -> DPT(m.parts, stamp)
      [] m.id = "DSC" -> DSC(m.parts, stamp)
      [] m.id = "GGA" -> GGA(m.parts, now)
      [] m.id = "GLL" -> GLL(m.parts, now)
      [] m.id = "HDG" -> HDG(m.parts, stamp)
      [] m.id = "HDM" -> HDM(m.parts, stamp)
      [] m.id = "HDT" -> HDT(m.parts, stamp)
      [] m.id = "KEP" -> KEP(m.parts, stamp)
      [] m.id = "MTW" -> MTW(m.parts, stamp)
      [] m.id = "MWV" -> MWV(m.parts, stamp)
      [] m.id = "RMB" -> RMB(m.parts, stamp)
      [] m.id = "RMC" -> RMC(m.parts, now)
      [] m.id = "ROT" -> ROT(m.parts, stamp)
      [] m.id = "RPM" -> RPM(m.parts, stamp)
      [] m.id \in {"VDM", "VDO"} -> VDM(m, stamp)
      [] m.id = "VDR" -> VDR(m.parts, stamp)
      [] m.id = "VHW" -> VHW(m.parts, stamp)
      [] m.id = "VPW" -> VPW(m.parts, stamp)
      [] m.id = "VTG" -> VTG(m.parts, stamp)
      [] m.id = "VWR" -> VWR(m.parts, stamp)
      [] m.id = "ZDA" -> ZDA(m.parts, stamp)

\* The hook's delta with the source: that of the tag block, or the talker
transformSource(result, m, tagSource) ==
    IF result.kind # "delta" THEN result
    ELSE [kind |-> "delta", context |-> result.context, stamp |-> result.stamp,
          values |-> result.values,
          source |-> [sentence |-> m.id,
                      talker |-> IF tagSource = "" THEN m.talker ELSE tagSource]]

\* The checksum behind '*' is cut off with it and not looked at
parse(m, now) ==
    LET tags  == getTagBlock(m)
        stamp == IF tags.c = Undefined THEN now ELSE tags.c.n
    IN  IF m.id \notin Supported THEN [kind |-> "warn"]
        ELSE transformSource(RunHook(m, stamp, now), m, tags.s)

-----------------------------------------------------------------------------
(* The handler *)

\* What is known of the one source is overwritten with this sentence and talker
convertSource(result, now) ==
    [context |-> "sources", path |-> "NMEA0183", value |-> result.source,
     stamp |-> now]

\* An undefined value is left out of the JSON text, and parseUpdate sends
\* nothing for it; NaN is null there and is sent
Sendable(values) == {i \in DOMAIN values : values[i].value # Undefined}

\* The key-value messages by their place: the source is sent first, then the
\* values of the delta in their order.  The source is at 0, a value at its place
\* in the delta.
parseUpdate(result, context, stamp, now) ==
    [i \in {0} \cup Sendable(result.values) |->
        IF i = 0 THEN convertSource(result, now)
        ELSE [context |-> context, path |-> result.values[i].path,
              value |-> result.values[i].value, stamp |-> stamp]]

\* Faulty variant: the context the hook found is kept.
KvMessagesOfContext(result, now) ==
    parseUpdate(result, result.context, result.stamp, now)

\* The context is set to the own vessel whatever the hook said
KvMessages(result, now) ==
    parseUpdate(result, Own, IF Demo THEN now ELSE result.stamp, now)

\* An exception of the hook is logged by the handler, as is a warning
Answer(m, now) ==
    LET result == parse(m, now) IN
    IF m.lead = "$" /\ result.kind = "delta" THEN KvMessages(result, now)
    ELSE <<>>

\* The database shows the point with the latest time; a point of the same
\* time replaces the one before
Stored(points, kvs) ==
    [path \in Watched |->
        LET newer == {i \in DOMAIN kvs :
                         /\ kvs[i].context = Own /\ kvs[i].path = path
                         /\ kvs[i].stamp >= points[path].stamp}
            Later(i, j) == \/ kvs[i].stamp > kvs[j].stamp
                           \/ kvs[i].stamp = kvs[j].stamp /\ i >= j
            last == CHOOSE i \in newer : \A j \in newer : Later(i, j)
        IN  IF newer = {} THEN points[path]
            ELSE [stamp |-> kvs[last].stamp, value |-> kvs[last].value]]

Tick ==
    /\ clock < MaxClock
    /\ clock' = clock + 1
    /\ UNCHANGED <<message, sent, latest>>

Consume(m) ==
    /\ message' = m
    /\ sent' = Answer(m, clock)
    /\ latest' = Stored(latest, sent')
    /\ UNCHANGED clock

Init ==
    /\ clock = MaxDelay
    /\ message = NoMessage
    /\ sent = <<>>
    /\ latest = [path \in Watched |-> NoPoint]

Next ==
    \/ Tick
    \/ \E delay \in 0..MaxDelay : \E m \in Sentences(clock, delay) : Consume(m)

Spec == Init /\ [][Next]_vars
=============================================================================
