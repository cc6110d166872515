SPECIFICATION Spec
CONSTANTS
  Rate <- FlatTariff
  AdvanceBasisPoints = 3000
  Total <- FewRooms
  Parties <- TwoParties
  QuoteTtl = 1
  HoldTtl = 2
  MaxPolls = 2
  MaxTime = 2
  MaxTariff = 3
  MaxRequests = 3
  MaxVisits = 1
  AcModes = {FALSE}
  Contested = {"double-bed"}
INVARIANTS
  TypeOK
  ShownIsCharged
  OneHoldPerQuote
  GuestsSeated
  RoomsSuffice
PROPERTIES
  PayEnds
CHECK_DEADLOCK FALSE
