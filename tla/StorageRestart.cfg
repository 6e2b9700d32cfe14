SPECIFICATION Spec
CONSTANTS
    p1 = p1  a = a  b = b  kv = kv  sched = sched
    VesselPaths = {p1}
    OtherPaths = {}
    PlainPaths = {p1}
    Sources = {a, b}
    Own = Own
    Threads = {kv, sched}
    Handler = kv
    Settings = {"system", "gps"}
    None = None
    MaxBatch = 2
INVARIANTS StorageTypeOK OnePrimary SingleRole NoOrphans ClosedGateStoresNothing
SYMMETRY Sensors
