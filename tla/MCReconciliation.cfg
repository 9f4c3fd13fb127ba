SPECIFICATION AllSpec
CONSTANTS
  b1 = b1  b2 = b2  b3 = b3  s1 = s1  s2 = s2  k1 = k1  k2 = k2  w0 = w0  w1 = w1  w2 = w2  r1 = r1
  me = me  other = other  work = work  parent = parent  project = project  rules = rules
  Callers = {w0}
  Readers = {}
  Trusting = {}
  Scopes = {s1, s2}
  Keys = {k1, k2}
  Values = {"x", "y"}
  BatchIds = {b1, b2, b3}
  Content <- SharedClaim
  BatchLimit = 8
  MaxTime = 0
  MaxCrashes = 1
  MaxWithdrawals = 1
  MaxReinstates = 1
  Free = Free  Dead = Dead  Undrafted = Undrafted
SYMMETRY Symmetry
CONSTRAINT Unstolen
INVARIANTS StoreRecovers WithdrawalsHold QueriesHonourWithdrawals AnswersHold
PROPERTIES HistoryStands
