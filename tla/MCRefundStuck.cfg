SPECIFICATION PersistentSpec
CONSTANTS
  NoCode = NoCode
  NoRefund = NoRefund
  ByHand = ByHand
  Desk = {d1}
  Code = {c1, c2}
  Refund = {r1, r2}
  MaxRequests = 1
  MaxMishaps = 0
PROPERTIES
  ProcessingEnds
CHECK_DEADLOCK FALSE
