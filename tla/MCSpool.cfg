SPECIFICATION Spec
CONSTANTS
    c1 = c1
    c2 = c2
    Clients <- MCClients
    Blocks = 1
    MaxJob = 2
    Digits <- MCDigits
    MaxCrash = 1
    MaxFault = 1
    MaxConf = 0
    NoFile = NoFile
    Empty = Empty
    NoJob = NoJob
INVARIANTS
    TypeOK
    AcceptedKept
    PrintsWhole
    PrintedOnce
PROPERTIES
    FifoQueue
    JobsPrinted
CHECK_DEADLOCK FALSE
