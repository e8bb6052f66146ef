SPECIFICATION Spec
CONSTANTS
  Procs = {p1, p2}
  Keys = {k1, k2}
  Data = {d1, d2}
  Chains = {c1, c2}
  Hash <- HashApart
  KeyLen <- KeyLen1
  DatLen <- DatLen2
  Requests <- UpdatesAndScans
  PtrMax = 2
  KillAt <- HalfDone
  Blank = Blank
  None = None
  Unset = Unset
  FREE_OFF = FREE_OFF
  k1 = k1
  k2 = k2
  c1 = c1
  c2 = c2
  d1 = d1
  d2 = d2
  p1 = p1
  p2 = p2
INVARIANTS TypeOK NoDangling DataNotShared ListsDisjoint
PROPERTY Linearizable
CHECK_DEADLOCK FALSE
SYMMETRY ProcSymmetry
