SPECIFICATION Spec
CONSTANTS
  s1 = s1  s2 = s2  f1 = f1  f2 = f2
  Order <- TwoSources
  Blocks <- SomeBlocks
  DocOrder <- TwoDocs
  Contents <- SomeContents
  SmallEdits <- SomeEdits
  TextLength = 2
  InitialBaseline = TRUE
  MaxChars = 2
  MaxSegments = 2
  MaxSlices = 4
  MaxDelta = 2
  MaxFiles = 1
  MaxDocs = 1
  MaxLines = 4
  MaxRewrites = 1
  MaxEdits = 2
  MaxFaults = 1
  None = None
INVARIANTS QueuedOnce SlicesCoverJobs
PROPERTIES EveryLineIsCaptured
