SPECIFICATION ConnectorFairSpec
CONSTANTS
    Callers = {c1, c2}
    Connectors = {k1, k2}
    Cmds = {m1, m2}
    Pids = {1, 2}
    None = None
INVARIANTS ConnectorTypeOK ForwardIsHeld
PROPERTIES StopStops StrayTermOnlyByReuse ReturnsUnlessDeaf
