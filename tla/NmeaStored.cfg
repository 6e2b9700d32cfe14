SPECIFICATION Spec
CONSTANTS
    DayTicks = 4
    MinuteTicks = 2
    MonthTicks = 8
    Sentences <- Underway
    Watched = {"navigation.position", "steering.rudderAngle"}
    MaxDelay = 2
    Demo = FALSE
    MaxClock = 7
INVARIANT FrozenLessThanADay
PROPERTY FixIsShown RudderFollows
