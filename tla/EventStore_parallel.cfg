SPECIFICATION Spec
CONSTANTS
  a = a  b = b  c = c  w1 = w1  w2 = w2  r1 = r1
  Keys = {a, b}
  Writers = {w1, w2}
  Readers = {}
  Repairers = {}
  MaxBatch = 1
  MaxCrashes = 1
  MaxDamage = 0
  InitialChain <- EmptyChain
  Truncate = FALSE
  Hole = Hole  Free = Free  Dead = Dead  NoFile = NoFile
SYMMETRY Symmetry
INVARIANTS ParallelAppendsSerialize
