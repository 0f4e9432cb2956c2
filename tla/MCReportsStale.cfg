SPECIFICATION Spec
CONSTANTS
  w1 = w1
  w2 = w2
  r1 = r1
  Workers <- MCWorkers
  Reports <- MCReportIds
  MaxFound = 3
  FreeLimit = 2
INVARIANT StaleMeansDead
