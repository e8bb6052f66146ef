SPECIFICATION Spec
CONSTANTS
    c1 = c1
    c2 = c2
    Clients <- MCClients
    Blocks = 1
    MaxJob = 3
    Digits <- MCDigits
    MaxCrash = 1
    MaxFault = 0
    MaxConf = 0
    NoFile = NoFile
    Empty = Empty
    NoJob = NoJob
INVARIANT
    IdsNotReused
CHECK_DEADLOCK FALSE
