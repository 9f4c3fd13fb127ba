SPECIFICATION Spec
CONSTANTS
  h1 = h1  h2 = h2  a = a  b = b  x = x
  Hooks = {h1, h2}
  Sessions = {a, b}
  Progress = {x}
  Kinds <- KindsOfTwo
  Free = Free
  Gone = Gone
  OneReclaims = TRUE
  None = None
  MaxLines = 1
  MaxFaults = 1
INVARIANTS EvidenceArrives OncePerSession
SYMMETRY HookSymmetry
