SPECIFICATION FairSpec
CONSTANTS
    p1 = p1  p2 = p2  r1 = r1  r2 = r2  r3 = r3
    Ports = {p1}
    Readers = {r1, r2}
    Scheduler = Scheduler
    Shutdown = Shutdown
    None = None
INVARIANTS SerialTypeOK OneOpenPerPort RemovedIsReleased
PROPERTIES PluggedIsAttached
CHECK_DEADLOCK FALSE
