SPECIFICATION FairSpec
CONSTANTS
    Ids = {i1}
    Calls = {c1, c2}
    Sweeper = sweeper
    Sessions = {s1}
    Pids = {p1}
    StdinCap = 1
    MaxIdle = 1
    None = None
PROPERTIES CallsReturnUnlessStalled CleanedDebuggerReaped AbandonedSessionsSwept
