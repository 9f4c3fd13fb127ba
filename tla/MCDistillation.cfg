SPECIFICATION AllSpec
CONSTANTS
  w1 = w1  w2 = w2  w3 = w3  w4 = w4  s1 = s1  s2 = s2  s3 = s3  s4 = s4
  j1 = j1  j2 = j2  j3 = j3  p1 = p1
  Workers = {w1, w2}
  Slices = {s1, s2}
  Queue <- Pair
  Jobs = {j1}
  JobOf <- MCJobOf
  Documents = {}
  AttemptSeconds = 2
  PilotSeconds = 1
  LaneCap = 0
  PilotLimit = 0
  Limits = {4}
  FirstLimit = 4
  Approvals = {}
  MaxCalls = 1
  MaxDay = 0
  MaxCrashes = 2
  MaxEdits = 1
  CodexAvailable = TRUE
  NoSlice = NoSlice
  MaxTokens = 2
SYMMETRY Symmetry
INVARIANTS LeaseIsExclusive ResultsSurvive
PROPERTIES LeasesDoEnd BudgetHolds
