SPECIFICATION Spec
CONSTANTS
  Requests = {q1, q2}
  Old = {q1}
  Runs = {r1, r2}
  chat = chat
  Policies <- MCPolicies
  Hosts = {"github", "azuredevops"}
  Second = 2
  PageLimit = 1
  PartitionLimit = 2
  PageBudget = 3
  MaxPending = 3
  MaxTime = 2
  Horizon <- TwoTicks
  MaxFaults = 0
  Recurring = {}
SYMMETRY MCSymmetry
INVARIANTS WatermarkSound
PROPERTIES NoBackfill
CHECK_DEADLOCK FALSE
