SPECIFICATION Spec
CONSTANTS
  r1 = r1
  x1 = x1 x2 = x2
  None = None
  Changes = {x1, x2}
  Runs = {r1}
  Methods = {"merge", "squash", "rebase"}
  MaxCommits = 5
  MaxRelands = 0
  MaxRewrites = 1
  MaxFaults = 1
INVARIANTS BaselineVouches LandedIsPromoted RevertIsPromoted DriftReported
PROPERTY Converges
CHECK_DEADLOCK FALSE
