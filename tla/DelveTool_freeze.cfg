SPECIFICATION FairSpec
CONSTANTS
    Ids = {i1, i2}
    Calls = {c1}
    Sweeper = sweeper
    Sessions = {s1}
    Pids = {p1}
    StdinCap = 1
    MaxIdle = 1
    None = None
PROPERTY CleanupEnds
