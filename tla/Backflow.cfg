SPECIFICATION Spec
CONSTANTS
  r1 = r1 r2 = r2
  MaxHotfixes = 2
  Runs = {r1, r2}
  None = None
  Settings <- AllSettings
INVARIANTS NoHotfixLost
PROPERTIES RunSettlesEdge Converges
CHECK_DEADLOCK FALSE
