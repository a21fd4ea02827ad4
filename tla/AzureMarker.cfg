SPECIFICATION FairSpec
CONSTANTS
  Hosts = {"azuredevops"}
  Subjects = {"request"}
  r1 = r1
  r2 = r2
  Runs = {r1, r2}
  Builds <- MCBuilds
  MaxHead = 2
  MaxId = 3
  MaxRetry = 1
  MaxMishaps = 1
  MaxEvents <- MCEvents
PROPERTIES TrackNeverLost
CHECK_DEADLOCK FALSE
