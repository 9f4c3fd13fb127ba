SPECIFICATION AllSpec
CONSTANTS
  p1 = p1  p2 = p2  p3 = p3  codex = codex  claude = claude  x = x  y = y  s = s  t = t
  agent = agent  one = one  two = two  epic = epic  mr = mr  project = project  stream = stream
  Procs = {p1, p2}
  Restricted = {codex}
  Primary = claude
  Items = {x, y}
  ActorOf <- OneActor
  ProviderOf <- AllCodex
  Free = Free
  Gone = Gone
  None = None
  Reclaimers = 1
  MaxTime = 2
  MaxCalls = 4
  MaxDeaths = 1
INVARIANTS LedgerHolds ReplacesTheLast TicketsSeeTheirNeighbours RoutesHaveEvidence
SYMMETRY ProcSymmetry
CHECK_DEADLOCK FALSE
