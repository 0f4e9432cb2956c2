SPECIFICATION GateFairSpec
CONSTANTS
  ra = ra
  rb = rb
  rc = rc
  a1 = a1
  a2 = a2
  b1 = b1
  b2 = b2
  c1 = c1
  Calls <- MCCalls
  Owners <- MCOwners
  OwnerOf <- MCOwnerOf
  Capacity = 2
INVARIANTS GateTypeOK SlotAccounting RotationExact NoLostWakeup
PROPERTIES RoundRobin OwnerFIFO NoStarvation
