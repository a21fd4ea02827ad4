SPECIFICATION FairSpec
CONSTANTS
  None = None
  x1 = x1 x2 = x2 dev = dev st = st main = main qa = qa
  Changes = {x1, x2}
  Branches = {dev, st, qa, main}
  Settings <- Graphs
  MaxCommits = 20
INVARIANTS ReturnIsDurable UnnamedIsDropped NoHotfixOverlooked EverythingEverywhere
PROPERTY Settles
