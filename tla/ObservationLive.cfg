SPECIFICATION FairSpec
CONSTANTS
  Requests = {q1, q2}
  Old = {q1}
  Runs = {r1}
  chat = chat
  Policies <- OnePolicy
  Hosts = {"github", "azuredevops"}
  Second = 2
  PageLimit = 1
  PartitionLimit = 2
  PageBudget = 4
  MaxPending = 3
  MaxTime = 3
  Horizon <- ThirdOnAzure
  MaxFaults = 1
  Recurring = {r1}
PROPERTIES EventuallyDelivered
CHECK_DEADLOCK FALSE
