SPECIFICATION FairSpec
CONSTANTS
  Hosts = {"github", "azuredevops"}
  Subjects = {"request", "artifact", "branch"}
  r1 = r1
  r2 = r2
  Runs = {r1, r2}
  Builds <- MCBuilds
  MaxHead = 2
  MaxId = 3
  MaxRetry = 1
  MaxMishaps = 1
  MaxEvents <- MCEvents
INVARIANTS CreatesOnce OrphansCostMishaps ConsolidationKeepsOne
PROPERTIES ForeignSpared ComesToOrder
CHECK_DEADLOCK FALSE
