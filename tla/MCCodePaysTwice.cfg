SPECIFICATION Spec
CONSTANTS
  NoCode = NoCode
  NoRefund = NoRefund
  ByHand = ByHand
  Desk = {d1, d2}
  Code = {c1}
  Refund = {r1, r2}
  MaxRequests = 1
  MaxMishaps = 0
SYMMETRY Interchangeable
INVARIANT CodePaysOnce
CHECK_DEADLOCK FALSE
