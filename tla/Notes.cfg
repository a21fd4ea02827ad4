SPECIFICATION Spec
CONSTANTS
  w1 = w1 w2 = w2 w3 = w3
  Writers = {w1, w2}
  MaxCommits = 2
  MaxAttempts = 2
  MaxFaults = 2
INVARIANTS AckedIsKept CachesOnChain
PROPERTIES RegisterSpec CommitsReturn
CHECK_DEADLOCK FALSE
