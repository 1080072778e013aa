\* Two runs of the command on one copy, one on two, with users and faults.
SPECIFICATION TopperSpec
CONSTANTS
  p1 = p1
  p2 = p2
  l1 = l1
  l2 = l2
  h1 = h1
  h2 = h2
  None = None
  Copy = {p1, p2}
  NameOf <- MCNameOf
  Renamed = {p2}
  Handler = {h1, h2}
  MaxJobs = 4
  Chances <- MCChances
  Lane = {l1, l2}
  Plan <- MCPlan
SYMMETRY Alike
INVARIANTS NothingDropped ReviewsKept
PROPERTIES AnalysedOnce EditsShown
CHECK_DEADLOCK FALSE
