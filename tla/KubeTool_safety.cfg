SPECIFICATION Spec
CONSTANTS
    Callers = {c1, c2}
    Connectors = {k1, k2}
    Cmds = {m1, m2}
    Pids = {n1, n2}
    None = None
    MaxPort = 2
    Wanted = {1}
    MaxOffset = 2
    Foreign = {1}
    Contexts = {ctx1}
    Default = ctx1
    Resources = {"pod", "workload"}
SYMMETRY ToolSymmetry
INVARIANTS TypeOK StoppableWhenSequential PortIsOwnUnlessContested
PROPERTIES SequentialStopStops 
