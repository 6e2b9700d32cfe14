------------------------------- MODULE MCNmea -------------------------------
(***************************************************************************)
(* Samples of the sentences of a ship, for model checking NmeaShip.        *)
(***************************************************************************)
EXTENDS NmeaShip

\* North or south, east or west; the other quantities vary with them
Reading(north, east, rudder) ==
    [lat |-> IF north THEN 12 ELSE -12, lon |-> IF east THEN 34 ELSE -34,
     heading |-> 96,
     speed |-> IF north = east THEN 250 ELSE 0,
     wind |-> IF north THEN 40 ELSE -30, windSpeed |-> 25,
     variation |-> IF east THEN 4 ELSE -3, rudder |-> rudder,
     depth |-> 3, surface |-> 1, keel |-> IF north THEN 1 ELSE 2]

Sample == Reading(TRUE, TRUE, 5)

\* The ends of the ranges
Extreme(heading, speed, wind, rudder) ==
    [Sample EXCEPT !.heading = heading, !.speed = speed, !.wind = wind,
                   !.windSpeed = 127, !.rudder = rudder]

Readings == {Reading(north, east, 5) : north, east \in BOOLEAN}
       \cup {Reading(TRUE, TRUE, rudder) : rudder \in {-2, 0}}
       \cup {Extreme(0, 1, -179, -128), Extreme(358, 6553, 180, 127),
             Extreme(359, 0, 0, 0)}

-----------------------------------------------------------------------------
(* Other sentences *)

Other(id, parts) == Sentence(id, NoReading, parts)

\* The position of another ship, in the field of a DSC call
Call(category, nature) ==
    Other("DSC", <<Text("12"), Text("338"), Text(category), Text(nature),
        Text("26"), [quadrant |-> 3, lat |-> 12, lon |-> 34], Num(1),
        Empty, Empty, Text("S"), Text("E")>>)

AisOf(ais, multipart) ==
    [lead |-> "!", id |-> "VDM", talker |-> "AI", parts |-> <<Num(1), Num(1)>>,
     ais |-> ais, multipart |-> multipart, reading |-> NoReading, taken |-> 0,
     complete |-> TRUE]

Ship == [mmsi |-> Text("235"), aistype |-> Num(5), sog |-> Num(0),
         cog |-> Num(90), hdg |-> Num(91), lat |-> Num(12), lon |-> Num(0),
         shipname |-> Text("name"), callsign |-> Text("call"),
         length |-> Num(30), width |-> Num(8), dimA |-> Num(10),
         dimD |-> Num(3), draught |-> Num(2), navstatus |-> Num(0),
         destination |-> Text("port"), cargo |-> Num(36)]

Buoy == [mmsi |-> Text("992"), aistype |-> Num(21), lat |-> Num(12),
         lon |-> Num(-34), aidtype |-> Num(3)]

Others(t) ==
    { Call("12", "06"), Call("12", "99"), Call("00", "21"), Call("08", "21"),
      AisOf(Ship, FALSE), AisOf(Ship, TRUE), AisOf(Buoy, FALSE),
      [lead |-> "\\", id |-> "DBT", talker |-> "SD", reading |-> NoReading,
       taken |-> 0, complete |-> TRUE,
       parts |-> <<Num(9), Text("f"), Num(3), Text("M")>>,
       tag |-> [c |-> Num(0), s |-> "station"]],
      Other("VLW", <<Num(7), Text("N"), Num(1), Text("N")>>),
      Other("APB", <<Text("A"), Text("A"), Num(1), Text("R"), Text("N")>>),
      Other("ROT", <<Num(-6), Text("A")>>), Other("ROT", <<Num(-6), Text("V")>>),
      Other("RPM", <<Text("E"), Text("1"), Num(1200), Num(10), Text("A")>>),
      Other("RPM", <<Text("S"), Text("0"), Num(0), Num(10), Text("A")>>),
      Other("MTW", <<Num(17), Text("C")>>),
      Other("VPW", <<Num(6), Text("N"), Num(3), Text("M")>>),
      Other("VPW", <<Num(-6), Text("N"), Empty, Text("M")>>),
      Other("VDR", <<Num(10), Text("T"), Num(12), Text("M"), Num(2), Text("N")>>),
      Other("KEP", <<Text("01"), Num(8), Text("N"), Num(15), Text("K")>>),
      Other("KEP", <<Text("02"), Num(344)>>),
      Other("KEP", <<Text("03"), Num(152), Num(55), Num(67)>>),
      Other("RMB", <<Text("A"), Num(66), Text("L"), Text("3"), Text("4"), Num(12),
          Text("N"), Num(34), Text("E"), Num(1), Num(52), Num(5), Text("V")>>),
      Other("MWV", <<Num(330), Text("T"), Num(25), Text("K"), Text("A")>>),
      Other("ZDA", <<Num(t % DayTicks), Day(t), Num(1), Num(20), Num(0), Num(0)>>) }

-----------------------------------------------------------------------------
(* Samples of Seatalk datagrams: the sets of the bytes behind the type *)

Samples(type, bytes) ==
    LET choices == FoldLeft(LAMBDA seqs, S : {Append(s, b) : s \in seqs, b \in S},
                            {<<>>}, bytes)
    IN  {Other("ALK", <<Num(type)>> \o [i \in DOMAIN b |-> Num(b[i])]) :
            b \in choices}

Quarters(low) == {16 * U + low : U \in 0..15}

Seatalk == UNION {
    Samples(0,   <<{2}, {0}, {0, 7, 200}, {0, 1, 127}>>),
    Samples(16,  <<{1}, {0, 1, 2}, {0, 90, 104, 105, 207}>>),
    Samples(17,  <<{1}, {0, 5, 127, 133}, {0, 9}>>),
    Samples(32,  <<{1}, {0, 50, 127}, {0}>>),
    Samples(33,  <<{2}, {0, 200}, {0, 9}, {0, 1, 18}>>),
    Samples(34,  <<{2}, {0, 200}, {0, 9}, {0}>>),
    Samples(37,  <<{4, 20}, {0, 200}, {9}, {0, 200}, {9}, {0, 33}>>),
    Samples(38,  <<{4}, {0, 200}, {9}, {0, 150}, {8}, {0, 64, 128, 192}>>),
    Samples(39,  <<{1}, {0, 150}, {0, 1}>>),
    Samples(80,  <<{2}, {0, 51}, {0, 232}, {0, 3, 128, 131}>>),
    Samples(81,  <<{2}, {0, 51}, {0, 232}, {0, 3, 128, 131}>>),
    Samples(82,  <<{1}, {0, 60}, {0, 1}>>),
    Samples(83,  <<Quarters(0), {0, 3, 44, 63}>>),
    Samples(84,  <<{1}, {0}, {12}>>),
    Samples(86,  <<{1}, {4}, {17}>>),
    Samples(87,  <<{0, 16, 112}, {0, 3}>>),
    Samples(132, <<Quarters(6), {0, 3, 131, 255}, {0}, {0}, {0}, {5}, {0}, {8}>>),
    Samples(132, <<{22}, {3, 195}, {0, 90}, {0, 2, 4, 8, 10, 12}, {0},
                     {0, 5, 127, 128, 251}, {0}, {8}>>),
    Samples(156, <<Quarters(1), {0, 3, 131, 255}, {0, 5, 127, 128, 251}>>),
    Samples(85,  <<{1}, {0}>>) }

-----------------------------------------------------------------------------
(* The values of CONSTANT Sentences *)

Everything ==
    UNION {Instruments(r, 0) : r \in Readings}
    \cup UNION {UNION {Gaps(m) : m \in Instruments(r, 0)} :
                    r \in {Reading(north, ~north, 5) : north \in BOOLEAN}}
    \cup Others(5) \cup Seatalk

AnySentence(now, delay) == Everything

Positions == {Reading(north, TRUE, 5) : north \in BOOLEAN}

\* Fixes, and the heading and rudder datagrams
Underway(now, delay) ==
    LET t == now - delay IN
    UNION {{m \in Fixes(r, t) : m.parts[2] # Text("V")} : r \in Positions}
    \cup UNION {RudderDatagrams(Reading(TRUE, TRUE, rudder)) : rudder \in {5, -2, 0}}
=============================================================================
