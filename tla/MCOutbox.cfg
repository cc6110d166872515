SPECIFICATION FairSpec
CONSTANTS
  NoMessage = NoMessage
  Message = {m1}
  Worker = {w1, w2}
  MaxAttempts = 3
  Backoff <- MCBackoff
  StuckSend = 1
  MaxCrashes = 1
  MaxRetries = 1
INVARIANTS
  TypeOK
  OneDelivery
  StatusIsEarned
PROPERTY MailSettles
CHECK_DEADLOCK FALSE
