CONSTANTS
  Processes = {p1, p2}
  Sealers = {s1, s2, s3, s4}
  Clients = {c1, c2, c3}
  Paths = {t1, t2}
  Refs = {a, b}
  Keys = {k1}
  Revisions = {r1, r2}
  None = None
  MaxCalls = 1
  Empty = Empty
  Gone = Gone
  Torn = Torn
  Mixed = Mixed
  Tools = {"absent", "other", "new"}
  Links = TRUE
  OneReclaims = TRUE
  Sources = 2
  Interval = 2
  Types = {"accepted"}
  MaxEdits = 1
  MaxExecutions = 3
  MaxStepFaults = 2
  MaxRewrites = 2
  MaxRuns = 4
  MaxScriptFaults = 1
  MaxSealerDeaths = 2
  MaxSweeperDeaths = 1
  MaxProjectorDeaths = 1
  MaxSuspensions = 0
  MaxTime = 5
  MaxEvents = 2
  n1 = n1  n2 = n2  n3 = n3  ann = ann  bob = bob  Absent = Absent  Broken = Broken
SPECIFICATION AllSpec
SYMMETRY Symmetry
INVARIANTS InstallsAreWhole DecisionsSettle 
PROPERTIES PacksAreTrue SecretIsOne SweepsAreSpaced AloneIsCurrent
CHECK_DEADLOCK FALSE
