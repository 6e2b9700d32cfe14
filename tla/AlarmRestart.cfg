SPECIFICATION Spec
CONSTANTS
    currentRadius = currentRadius
    AlarmKeys = {currentRadius}
    RadiusKey = currentRadius
    ZoneLists <- SampleZones
    EarlierZones <- SampleZones
    Latitudes = {0, 3}
    Longitudes = {0, 4}
    AnchorLatitudes = {0, 3}
    AnchorLongitudes = {0}
    MaxRadii = {1}
    Cleared = {"anchorLat", "maxRadius"}
    MaxInputs = 4
    MaxRestarts = 1
    MaxQueue = 2
    MaxRows = 1
INVARIANTS AlarmsAreLoaded
CHECK_DEADLOCK FALSE
