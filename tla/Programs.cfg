SPECIFICATION Spec
CONSTANTS
    RefThreads = {"t1", "t2", "t3"}
    Objects = {"o1", "o2"}
    EnvThreads = {"t1", "t2"}
    SemProcs = {"p1", "p2", "p3"}
    SemOpeners = {"p3"}
    BIGCOUNT = 10
    InitVal = 1
    MaxSets = 2
    MaxExits = 1
    QueueThreads = {"t1", "t2"}
    QueueJobs = {"j1", "j2", "j3"}
    NQ = 2
    Messages = 2
    CoLines = 2
    NBUF = 2
    CopyBlocks = 4
    NTHR = 2
    TNUM = 2
    LONG_MAX = 3
    SECTONSEC = 3
    Delay = 1
    MaxClock = 8
    MemSize = 3
    Chars = {1, 2}
    DbProcs = {"p1", "p2"}
    Daemons = {"p1", "p2", "p3"}
    NLOOPS = 4
    MaxIn = 2
    MaxOut = 2
INVARIANT InUseKept
INVARIANT CreatorsKept
INVARIANT TurnsAlternate
INVARIANT QueueInOrder
INVARIANT SortMerged
INVARIANT RetryOnTime
INVARIANT CopyWhole
INVARIANT StreamIsFile
INVARIANT TableOnce
INVARIANT CallerRestored
INVARIANT OneDaemon
PROPERTY PipesClosed
PROPERTY ProgramsEnd
CHECK_DEADLOCK FALSE
