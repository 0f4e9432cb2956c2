SPECIFICATION Spec
CONSTANTS
  ra = ra
  rb = rb
  a1 = a1
  a2 = a2
  b1 = b1
  Calls <- MCCalls
  Owners <- MCOwners
  OwnerOf <- MCOwnerOf
  Capacity = 1
  MayAbandon = FALSE
  MayRestart = TRUE
INVARIANT ProcessWideTotal
