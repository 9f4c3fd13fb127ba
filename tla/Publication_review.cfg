CONSTANTS
  r1 = r1
  r2 = r2
  v1 = v1
  v2 = v2
  a1 = a1
  a2 = a2
  Runs = {r1, r2}
  Reviewers = {v1}
  Queue <- OneAttempt
  Observations <- MCObservations
  TwinOf <- MCTwinOf
  Free = 0
  None = None
  Reclaimers = 1
  Undo = {FALSE}
  MaxDay = 1
  MaxRuns = 2
  MaxDecisions = 3
  MaxFaults = 1
SPECIFICATION Spec
SYMMETRY Symmetry
CHECK_DEADLOCK FALSE
INVARIANTS SentAndRecorded OneRunADay
