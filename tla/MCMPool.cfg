SPECIFICATION Spec
CONSTANTS
  c1 = c1
  c2 = c2
  CPU <- MCCPU
  Shared = Shared
  NoPool = NoPool
  First = 1
  HeapPages = 5
  Requests <- MCRequests
SYMMETRY Symmetry
INVARIANTS HeapIsPartitioned RollbackStaysLocal
