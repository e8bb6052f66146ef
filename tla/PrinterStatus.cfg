CONSTANTS Jobs={j1,j2}
Job=j1
SPECIFICATION Spec
INVARIANT VerdictRead
CHECK_DEADLOCK FALSE
