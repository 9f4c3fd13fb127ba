CONSTANTS
  Sealers = {s1, s2, s3}
  None = None
  Empty = Empty
  Links = TRUE
  OneReclaims = FALSE
  MaxDeaths = 1
  MaxSuspensions = 0
SPECIFICATION Spec
PROPERTIES CompleteIsImmutable
CHECK_DEADLOCK FALSE
