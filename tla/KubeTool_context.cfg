SPECIFICATION Spec
CONSTANTS
    Callers = {c1}
    Connectors = {k1}
    Cmds = {m1}
    Pids = {n1}
    None = None
    MaxPort = 1
    Wanted = {1}
    MaxOffset = 1
    Foreign = {}
    Contexts = {ctx1, ctx2}
    Default = ctx1
    Resources = {"workload"}
INVARIANT ForwardedWhereVerified
