SPECIFICATION Spec
CONSTANTS
  r1 = r1
  r2 = r2
  a = a
  b = b
  Requests = {r1, r2}
  Bodies = {a, b}
  BadBody = BadBody
  Torn = Torn
  Empty = Empty
  NoDigest = NoDigest
  Free = Free
  ChunkCount = 2
  MaxFaults = 1
SYMMETRY Sym
INVARIANTS
  Receipts
  StoredAsExpected
PROPERTIES
  PromiseKept
CHECK_DEADLOCK FALSE
