SPECIFICATION Spec
CONSTANTS
    Calls = {c1, c2}
    Kills = {k1}
    Paths = {p1, p2}
    Pids = {n1, n2}
    Partial = Partial
    None = None
SYMMETRY Symmetry
INVARIANTS TypeOK AloneRunsOwn AloneLeavesAsAsked FileWaitsForShell
PROPERTIES KillGoesWhereAimed
CHECK_DEADLOCK FALSE
