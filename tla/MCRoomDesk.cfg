SPECIFICATION DeskSpec
CONSTANTS
  b1 = b1
  b2 = b2
  s1 = s1
  d1 = d1
  d2 = d2
  x1 = x1
  x2 = x2
  x3 = x3
  k1 = k1
  NoRoom = NoRoom
  Booking = {b1, b2}
  BookingRoom = {x1, x2, x3}
  Room = {s1, d1, d2}
  Block = {k1}
  bookingOf <- MCBookingOf
  roomGroupId <- MCGroup
  acMode = {x3}
  supportsAc = {d1}
  checkIn <- MCCheckIn
  checkOut <- MCCheckOut
  blockIn <- MCBlockIn
  blockOut <- MCBlockOut
  HoldTtl = 2
  MaxLag = 1
  MaxTime = 3
INVARIANTS
  DeskTypeOK
  RoomsApart
  RoomsDeliver
  OnlyLateRoomsAreLost
PROPERTIES
  DeskKeepsPromise
CHECK_DEADLOCK FALSE
