SPECIFICATION Spec
CONSTANTS
    DayTicks = 24
    MinuteTicks = 2
    MonthTicks = 720
    Sentences <- AnySentence
    Watched = {}
    MaxDelay = 0
    Demo = FALSE
    MaxClock = 0
INVARIANT NmeaTypeOK InstrumentsAgree NothingInvented DecodesAsDocumented
