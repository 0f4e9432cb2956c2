SPECIFICATION Spec
CONSTANTS
  b1 = b1
  s1 = s1
  s2 = s2
  q1 = q1
  q2 = q2
  Sessions <- MCSessions
  Buyers <- MCBuyers
  BuyerOf <- MCBuyerOf
  Requests <- MCRequests
  Hours = 1
  MaxNow = 1
  MaxFailures = 1
  MaxPages = 1
INVARIANT PassesStack
CHECK_DEADLOCK FALSE
