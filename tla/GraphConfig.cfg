SPECIFICATION Spec
CONSTANTS
  MaxBranches = 4
  Malformed = {4}
  None = None
  Families <- AllFamilies
INVARIANTS CycleVerdict DefaultsAgree AcceptedGraph
