SPECIFICATION Spec
CONSTANTS
    p1 = p1  a = a  b = b  kv = kv  sched = sched
    VesselPaths = {p1}
    OtherPaths = {}
    PlainPaths = {p1}
    Sources = {a, b}
    Own = Own
    Threads = {kv, sched}
    Handler = kv
    Settings = {}
    None = None
    MaxBatch = 2
INVARIANT ClockBeforeWrite
