CONSTANTS
  Observations = {1, 2, 3}
  Digits = {"1", "5", "14"}
  Marks = {".", "-", "!", " ", "  "}
  Stops = {"or"}
  None = None
  MaxSwaps = 1
  Kids = 2
  Ids = {i1, i2}
SPECIFICATION AllSpec
INVARIANTS HostingTellsTheTruth AcceptsOneTurn FindingsCanBeLookedUp AdviceHolds
PROPERTIES HostedCallsEnd
CHECK_DEADLOCK FALSE
