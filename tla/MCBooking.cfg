SPECIFICATION FairSpec
CONSTANTS
  b1 = b1
  b2 = b2
  b3 = b3
  s1 = s1
  d1 = d1
  d2 = d2
  x1 = x1
  x2 = x2
  x3 = x3
  x4 = x4
  NoRoom = NoRoom
  Booking = {b1, b2, b3}
  Room = {s1, d1, d2}
  BookingRoom <- MCBookingRooms
  bookingOf <- MCBookingOf
  roomGroupId <- MCGroup
  acMode = {x2}
  supportsAc = {d1}
  checkIn <- MCCheckIn
  checkOut <- MCCheckOut
  HoldTtl = 1
  MaxLag = 1
  MaxTime = 2
INVARIANTS
  TypeOK
  RoomsMatchStatus
  NoDoubleBooking
  MoneyAccounted
  GuestIsTold
PROPERTIES
  HoldsEnd
  MoneyArrives
  Lifecycle
  KeepsPromise
CHECK_DEADLOCK FALSE
