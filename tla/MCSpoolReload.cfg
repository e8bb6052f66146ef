SPECIFICATION Spec
CONSTANTS
    c1 = c1
    c2 = c2
    Clients = {c1}
    Blocks = 1
    MaxJob = 2
    Digits <- MCDigits
    MaxCrash = 1
    MaxFault = 1
    MaxConf = 2
    NoFile = NoFile
    Empty = Empty
    NoJob = NoJob
INVARIANT
    ReloadNotLost
CHECK_DEADLOCK FALSE
