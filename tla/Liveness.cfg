SPECIFICATION Spec
CONSTANTS
  r1 = r1 r2 = r2 r3 = r3 r4 = r4 c1 = c1 c2 = c2 c3 = c3 d1 = d1 d2 = d2 e1 = e1 e2 = e2
  created = created merged = merged g1 = g1 f1 = f1 f2 = f2
  None = None
  EventRank <- Order
  NameRank <- Names
  Runs = {r1, r2}
  Configs = {c1}
  Digests = {g1}
  Destinations = {d1}
  Events = {e1}
  Kinds = {merged}
  KindOf <- AllMerged
  Policy <- OpenPolicy
  Fingerprints = {f1}
  Ancestry <- NoAncestry
  Renderable <- Everything
  ClaimDuration = 3
  SendSpacing = 1
  RetryBase = 1
  RetryCap = 2
  RetryAfterCap = 4
  MaxAttempts = 2
  MaxOverrides = 1
  MaxDeliveries = 4
  DestinationBudget = 10
  RunBudget = 100
  RunRevision <- SameRevision
  Resets = {}
  EventTime <- AtStart
  Skew <- OneAhead
  RetryAfters = {0, 3}
  MaxTime = 3
  MaxFaults = 1
  MaxGaps = 0
PROPERTIES RunsEnd ClaimsSettled
CHECK_DEADLOCK FALSE
