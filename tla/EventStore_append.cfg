SPECIFICATION Spec
CONSTANTS
  a = a  b = b  c = c  w1 = w1  w2 = w2  r1 = r1
  Keys = {a, b}
  Writers = {w1, w2}
  Readers = {r1}
  Repairers = {w1, w2}
  MaxBatch = 2
  MaxCrashes = 1
  MaxDamage = 1
  InitialChain <- EmptyChain
  Truncate = TRUE
  Hole = Hole  Free = Free  Dead = Dead  NoFile = NoFile
SYMMETRY Symmetry
CONSTRAINT Unstolen
INVARIANTS OneInside NoDuplicateKey NoParallelChain AckedIsCommitted AnswersStand
PROPERTIES ImplementsLog
