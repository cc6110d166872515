SPECIFICATION Spec
CONSTANTS
  Rate <- FlatTariff
  AdvanceBasisPoints = 3000
  Total <- FewRooms
  Parties <- TwoParties
  QuoteTtl = 1
  HoldTtl = 2
  MaxPolls = 2
  MaxTime = 0
  MaxTariff = 1
  MaxRequests = 1
  MaxVisits = 1
  AcModes = {FALSE}
  Contested = {}
PROPERTIES
  WindowOpens
CHECK_DEADLOCK FALSE
