SPECIFICATION FairSpec
CONSTANTS
    Tools = {"delve", "pprof", "sshexec", "sysinfo"}
    MaxTotal = 7
    Pages = {1, 2, 3, 4}
    HostPages = {9}
    MaxInt = 63
    Hosts <- AllHosts
INVARIANTS TypeOK PageIsSlice ReaderReadsAll MemoryAddsUp FiguresAreTrue
PROPERTY ReaderEnds
CHECK_DEADLOCK FALSE
