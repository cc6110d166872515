SPECIFICATION FairSpec
CONSTANTS
  NoCode = NoCode
  NoRefund = NoRefund
  ByHand = ByHand
  Desk = {d1}
  Code = {c1, c2}
  Refund = {r1, r2}
  MaxRequests = 1
  MaxMishaps = 2
INVARIANTS
  TypeOK
  PaidOnce
  StatusMatchesMoney
PROPERTIES
  RefundSettles
  GuestLearns
CHECK_DEADLOCK FALSE
