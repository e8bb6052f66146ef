CONSTANTS
    Procs = {p1, p2}
    Files = {a}
    Missing = {m}
    Long = {l}
    NONE = NONE
    NALLOC = 2
    MaxAsk = 2
    MaxUpsets = 1
SPECIFICATION Spec
INVARIANT ConnectionsTracked
INVARIANT AnswerForRequest
INVARIANT UidIsSenders
INVARIANT ServerStays
PROPERTY RequestsEnd
CHECK_DEADLOCK FALSE
