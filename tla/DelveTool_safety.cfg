SPECIFICATION Spec
CONSTANTS
    Ids = {i1, i2}
    Calls = {c1, c2}
    Sweeper = sweeper
    Sessions = {s1, s2}
    Pids = {p1, p2}
    StdinCap = 1
    MaxIdle = 1
    None = None
SYMMETRY SafetySymmetry
INVARIANTS TypeOK NoLostDebugger TableIntact
PROPERTIES DeliveredToBound StraySignalOnlyByReuse ImplementsRegistry
