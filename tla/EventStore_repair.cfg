SPECIFICATION FairSpec
CONSTANTS
  a = a  b = b  c = c  w1 = w1  w2 = w2  r1 = r1
  Keys = {a, b}
  Writers = {w1, w2}
  Readers = {}
  Repairers = {w1}
  MaxBatch = 1
  MaxCrashes = 1
  MaxDamage = 0
  InitialChain <- RepeatedChain
  Truncate = TRUE
  Hole = Hole  Free = Free  Dead = Dead  NoFile = NoFile
INVARIANTS RepairedIsConsistent
PROPERTIES EveryCallEnds
