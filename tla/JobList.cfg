SPECIFICATION Spec
CONSTANTS
  Pids = {p1, p2, p3, p4}
  Cells = {c1, c2, c3, c4}
  NULL = NULL
  NoPid = NoPid
  MaxNum = 4
SYMMETRY Symmetry
INVARIANT WellLinked
PROPERTY ImplementsTable
