----------------------------- MODULE NmeaValues -----------------------------
(***************************************************************************)
(* What the hooks of signalk-parser-nmea0183 read and return: the fields   *)
(* of a sentence, the results of a hook, and the functions of the library  *)
(* nmea0183-utilities that every hook calls.                               *)
(*                                                                         *)
(* A field is a number, a text or the empty text; what JavaScript reads    *)
(* beyond the last field is Undefined.  A number that a hook computes is   *)
(* a set with one member, and the empty set is NaN: arithmetic over such   *)
(* sets hands NaN on as JavaScript does.                                   *)
(***************************************************************************)
EXTENDS Integers, Sequences, SequencesExt, FiniteSets

CONSTANTS
    DayTicks,     \* ticks of the clock in a day
    MinuteTicks,  \* ticks in a minute
    MonthTicks    \* ticks in a month

ASSUME TicksAssumption ==
    /\ {DayTicks, MinuteTicks, MonthTicks} \subseteq Nat \ {0}
    /\ DayTicks % MinuteTicks = 0
    /\ MonthTicks % DayTicks = 0

NaN == {}
Num(n)  == [n |-> n]
Text(s) == [s |-> s]
Empty     == Text("")
Undefined == Text("undefined")

\* parts[i] of a hook
At(parts, i) == IF i < Len(parts) THEN parts[i + 1] ELSE Undefined

IsNumeric(f) == DOMAIN f = {"n"}
isEmpty(f)   == f \in {Empty, Undefined}
Truthy(f)    == f \notin {Empty, Undefined, Num(0)}

\* The number of empty fields, counted by parts.reduce
EmptyFields(parts) == Cardinality({i \in DOMAIN parts : isEmpty(parts[i])})

-----------------------------------------------------------------------------
(* The library nmea0183-utilities *)

\* float() and int(): the empty text is zero, a text that is no number is NaN
float(f) ==
    IF IsNumeric(f) THEN {f.n} ELSE IF f = Empty THEN {0} ELSE NaN

Positive(x) == \E v \in x : v > 0

\* The hooks' fallback for a number that is NaN (and, for a speed, negative)
ZeroIfNaN(x) == IF x = NaN THEN {0} ELSE x
ZeroUnlessPositive(x) == IF Positive(x) THEN x ELSE {0}

Times(x, k)   == {v * k : v \in x}
Plus(x, y)    == {v + w : v \in x, w \in y}

\* A measured value: amount/over in the unit "from", converted to "to".
\* Each of the library's conversions is one-to-one, so that two values with
\* the same units are equal exactly when their quotients are.
Measure(x, over, from, to) ==
    [amount |-> x, over |-> over, from |-> from, to |-> to]

\* coordinate() of a value and its pole; both must be there
coordinate(f, pole) ==
    IF ~IsNumeric(f) THEN NaN
    ELSE {IF pole \in {Text("S"), Text("W")} THEN -f.n ELSE f.n}

Position(lat, lon) == [lat |-> lat, lon |-> lon]

\* magneticVariaton(): west and south are negative
magneticVariaton(f, pole) ==
    Times(float(f), IF pole \in {Text("S"), Text("W")} THEN -1 ELSE 1)

\* timestamp(): without a time it is that of the clock, without a date that of
\* the clock but a month early (getUTCMonth counts from 0 and 1 is taken off);
\* an unreadable one is an invalid Date, whose toISOString throws
StampOf(time, day, now) ==
    Plus(IF isEmpty(time) THEN {now % DayTicks} ELSE float(time), day)

\* Faulty variant: the day is rounded up.
NextDay(now) == {DayTicks * ((now + DayTicks - 1) \div DayTicks)}

Today(now) == {DayTicks * (now \div DayTicks)}

\* Faulty variant: the date of the sentence is not used.
timestampUndated(time, date, now) ==
    StampOf(time, Plus(Today(now), {-MonthTicks}), now)

timestamp(time, date, now) ==
    StampOf(time, IF isEmpty(date)
                  THEN Plus(Today(now), {-MonthTicks})
                  ELSE Times(float(date), DayTicks), now)

-----------------------------------------------------------------------------
(* The results of a hook *)

Null  == [kind |-> "null"]
Throw == [kind |-> "throw"]

Own == "self"    \* the context of a delta that names none

PV(path, value) == [path |-> path, value |-> value]

DeltaOf(context, stamp, values) ==
    [kind |-> "delta", context |-> context, stamp |-> stamp, values |-> values]

\* A delta whose timestamp is tags.timestamp
Delta(stamp, values) == DeltaOf(Own, stamp, values)

\* pathValues.push(...) under a condition
When(condition, pv) == IF condition THEN <<pv>> ELSE <<>>

Deg(x)   == Measure(x, 1, "deg", "rad")
Knots(x) == Measure(x, 1, "knots", "ms")
=============================================================================
