SPECIFICATION Spec
CONSTANTS
  Rate <- SmallTariff
  AdvanceBasisPoints = 3000
  FirstRooms <- SmallRooms
  Collected <- SmallCollected
  Parties <- SmallParties
  Contacts = {c0, c1}
  FirstContact = c0
  Amounts = {10, 100}
  HoursLeft <- SmallHours
  QuoteTtl = 1
  MaxTime = 2
  MaxCommands = 3
INVARIANTS
  TypeOK
  BalanceOwed
  AdvanceFirst
  PriceOfRooms
  AmendedOnce
  RefundAsQuoted
  FreshCommandsCount
PROPERTIES
  CancelledIsClosed
CHECK_DEADLOCK FALSE
