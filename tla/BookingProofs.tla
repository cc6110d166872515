--------------------------- MODULE BookingProofs ---------------------------
(***************************************************************************)
(* Theorems about Booking.tla, for every set of bookings and rooms, every  *)
(* deadline and every lag.  The invariants the runs check are not          *)
(* inductive one by one: a hold is confirmed with the rooms it has, so the *)
(* rooms of a hold must already be suitable and exclusive; and a room is   *)
(* only swept from a booking no settled order belongs to.  IInv is their   *)
(* conjunction with the suitability of every room ever reserved.           *)
(***************************************************************************)
EXTENDS Booking, FiniteSetTheorems, TLAPS

(* Every live row is on a room that satisfies what was asked for.          *)
RoomsFit ==
  \A x \in BookingRoom : resv[x] # NoReservation => Satisfies(resv[x].room, x)

(* Money is only taken for an order, and an order that is open or has      *)
(* expired belongs to a hold that is pending or has.                       *)
OrdersFollowHolds ==
  \A b \in Booking :
    /\ payment[b] # "NONE" => order[b] # "NONE"
    /\ order[b] \in {"PENDING", "EXPIRED"} => status[b] \in {"PENDING_PAYMENT", "EXPIRED"}

IInv ==
  /\ TypeOK
  /\ RoomsMatchStatus
  /\ NoDoubleBooking
  /\ RoomsFit
  /\ OrdersFollowHolds
  /\ MoneyAccounted
  /\ GuestIsTold

-----------------------------------------------------------------------------
(* Two stays that do not overlap in the sense of findOccupiedRoomIds share *)
(* no night.                                                               *)
LEMMA NoOverlapNoSharedNight ==
  ASSUME NEW b \in Booking, NEW c \in Booking, ~Overlap(b, c)
  PROVE  NightsOf(b) \cap NightsOf(c) = {}
BY BookingAssumption DEF Overlap, NightsOf

LEMMA RowFacts ==
  /\ NoReservation \in Reservation
  /\ NoReservation.room = NoRoom /\ NoReservation.state = "NONE"
  /\ \A r \in Room, s \in {"HELD", "CONFIRMED"} :
       /\ Live(r, s) \in Reservation
       /\ Live(r, s).room = r /\ Live(r, s).state = s
       /\ Live(r, s) # NoReservation
  /\ \A w \in Reservation :
       \/ w = NoReservation
       \/ w.room \in Room /\ w.state \in {"HELD", "CONFIRMED"}
BY BookingAssumption DEF Reservation, NoReservation, Live

(* What a transaction that allocates rooms to b does to the rows: b's rows *)
(* are new, those of a swept booking may be gone, no other row changes.    *)
AllocationEffect(b, kind, lapsed) ==
  /\ \A x \in lapsed : /\ bookingOf[x] # b
                       /\ resv[x].state = "HELD"
                       /\ status[bookingOf[x]] = "PENDING_PAYMENT"
                       /\ order[bookingOf[x]] # "PAID"
  /\ resv' \in [BookingRoom -> Reservation]
  /\ \A x \in BookingRoom : bookingOf[x] = b =>
       /\ resv'[x].room \in Room /\ resv'[x].state = kind
       /\ resv'[x] # NoReservation
       /\ Satisfies(resv'[x].room, x)
  /\ \A x \in lapsed : resv'[x] = NoReservation
  /\ \A x \in BookingRoom : bookingOf[x] # b /\ x \notin lapsed => resv'[x] = resv[x]
  /\ \A x, y \in BookingRoom :
       bookingOf[x] = b /\ bookingOf[y] = b /\ resv'[x].room = resv'[y].room => x = y
  /\ \A x, y \in BookingRoom :
       bookingOf[x] = b /\ bookingOf[y] # b /\ resv'[x].room = resv'[y].room
         => ~Overlap(b, bookingOf[y])
  /\ status' = [c \in Booking |->
                  IF c = b THEN IF kind = "HELD" THEN "PENDING_PAYMENT" ELSE "CONFIRMED"
                  ELSE IF c \in Owners(lapsed) THEN "EXPIRED" ELSE status[c]]
  /\ \E late \in SUBSET Unseen(Owners(lapsed)) :
       order' = [c \in Booking |->
                   IF c = b /\ order[b] = "PAID_UNALLOCATED" THEN "PAID"
                   ELSE IF c \in late THEN "PENDING" ELSE OrdersExpired(Owners(lapsed))[c]]

LEMMA AllocationRows ==
  ASSUME TypeOK, NEW b \in Booking, NEW t \in Reading, NEW kind \in {"HELD", "CONFIRMED"},
         AllocateRooms(b, t, kind)
  PROVE  \E lapsed \in SUBSET BookingRoom : AllocationEffect(b, kind, lapsed)
<1> DEFINE R == LockedRooms(b)
           own == RoomsOf(b)
           lapsed == LapsedRows(R, t) \ own
           rows == Released(resv, lapsed \cup own)
<1>1. PICK f \in Assignments(rows, b, R) : resv' = Placed(rows, b, f, kind)
  BY DEF AllocateRooms
<1>2. /\ status' = [c \in Booking |->
                IF c = b THEN IF kind = "HELD" THEN "PENDING_PAYMENT" ELSE "CONFIRMED"
                ELSE IF c \in Owners(lapsed) THEN "EXPIRED" ELSE status[c]]
      /\ \E late \in SUBSET Unseen(Owners(lapsed)) :
           order' = [c \in Booking |->
                       IF c = b /\ order[b] = "PAID_UNALLOCATED" THEN "PAID"
                       ELSE IF c \in late THEN "PENDING" ELSE OrdersExpired(Owners(lapsed))[c]]
  BY DEF AllocateRooms
<1>3. lapsed \in SUBSET BookingRoom
  BY DEF LapsedRows
<1>4. \A x \in lapsed : /\ bookingOf[x] # b
                        /\ resv[x].state = "HELD"
                        /\ status[bookingOf[x]] = "PENDING_PAYMENT"
                        /\ order[bookingOf[x]] # "PAID"
  BY DEF LapsedRows, RoomsOf
<1>5. \A x \in own : /\ f[x] \in Room /\ Satisfies(f[x], x)
                     /\ \A y \in BookingRoom : rows[y].room = f[x] => ~Overlap(b, bookingOf[y])
  BY DEF Assignments, FreeRooms, LockedRooms
<1>6. \A x, y \in own : f[x] = f[y] => x = y
  BY DEF Assignments
<1>7. /\ rows \in [BookingRoom -> Reservation]
      /\ \A x \in BookingRoom : x \in lapsed \cup own => rows[x] = NoReservation
      /\ \A x \in BookingRoom : x \notin lapsed \cup own => rows[x] = resv[x]
  BY RowFacts DEF Released, TypeOK
<1>8. /\ resv' \in [BookingRoom -> Reservation]
      /\ \A x \in BookingRoom : bookingOf[x] = b => resv'[x] = Live(f[x], kind)
      /\ \A x \in BookingRoom : bookingOf[x] # b => resv'[x] = rows[x]
  BY <1>1, <1>5, <1>7, RowFacts DEF Placed, RoomsOf
<1> HIDE DEF lapsed, rows
<1>9. \A x \in BookingRoom : bookingOf[x] = b =>
                /\ resv'[x].room = f[x] /\ resv'[x].state = kind
                /\ resv'[x] # NoReservation
  BY <1>5, <1>8, RowFacts DEF RoomsOf
<1>10. \A x \in BookingRoom : x \in own <=> bookingOf[x] = b
  BY DEF RoomsOf
<1> HIDE DEF own
<1>11. \A x \in BookingRoom : bookingOf[x] = b =>
         /\ resv'[x].room \in Room /\ resv'[x].state = kind
         /\ resv'[x] # NoReservation
         /\ Satisfies(resv'[x].room, x)
  BY <1>5, <1>9, <1>10
<1>12. \A x \in lapsed : resv'[x] = NoReservation
  BY <1>3, <1>4, <1>7, <1>8
<1>13. \A x \in BookingRoom : bookingOf[x] # b /\ x \notin lapsed => resv'[x] = resv[x]
  BY <1>7, <1>8, <1>10
<1>14. \A x, y \in BookingRoom :
         bookingOf[x] = b /\ bookingOf[y] = b /\ resv'[x].room = resv'[y].room => x = y
  BY <1>6, <1>9, <1>10
<1>15. \A x, y \in BookingRoom :
         bookingOf[x] = b /\ bookingOf[y] # b /\ resv'[x].room = resv'[y].room
           => ~Overlap(b, bookingOf[y])
  BY <1>5, <1>8, <1>9, <1>10
<1>16. AllocationEffect(b, kind, lapsed)
  BY <1>2, <1>4, <1>8, <1>11, <1>12, <1>13, <1>14, <1>15 DEF AllocationEffect
<1> QED
  BY <1>3, <1>16

-----------------------------------------------------------------------------
(* The part of the invariant about rows.                                   *)
RowsInv == RoomsMatchStatus /\ NoDoubleBooking /\ RoomsFit

(* Row by row what an allocation does to the bookings.                     *)
LEMMA AllocationBookings ==
  ASSUME TypeOK, NEW b \in Booking, NEW kind \in {"HELD", "CONFIRMED"},
         NEW lapsed \in SUBSET BookingRoom, AllocationEffect(b, kind, lapsed)
  PROVE  /\ status' \in [Booking -> Status] /\ order' \in [Booking -> OrderStatus]
         /\ status'[b] = IF kind = "HELD" THEN "PENDING_PAYMENT" ELSE "CONFIRMED"
         /\ order'[b] = IF order[b] = "PAID_UNALLOCATED" THEN "PAID" ELSE order[b]
         /\ \A c \in Booking \ {b} :
              \/ c \notin Owners(lapsed) /\ status'[c] = status[c] /\ order'[c] = order[c]
              \/ /\ c \in Owners(lapsed)
                 /\ status[c] = "PENDING_PAYMENT" /\ status'[c] = "EXPIRED"
                 /\ order[c] # "PAID"
                 /\ \/ order'[c] = IF order[c] = "PENDING" THEN "EXPIRED" ELSE order[c]
                    \/ order[c] = "NONE" /\ order'[c] = "PENDING"
<1>1. b \notin Owners(lapsed)
  BY DEF AllocationEffect, Owners
<1>2. \A c \in Owners(lapsed) : c \in Booking /\ status[c] = "PENDING_PAYMENT" /\ order[c] # "PAID"
  BY BookingAssumption DEF AllocationEffect, Owners
<1>3. \A c \in Booking :
        status'[c] = IF c = b THEN IF kind = "HELD" THEN "PENDING_PAYMENT" ELSE "CONFIRMED"
                     ELSE IF c \in Owners(lapsed) THEN "EXPIRED" ELSE status[c]
  BY DEF AllocationEffect
<1>4. PICK late \in SUBSET Unseen(Owners(lapsed)) :
        order' = [c \in Booking |->
                    IF c = b /\ order[b] = "PAID_UNALLOCATED" THEN "PAID"
                    ELSE IF c \in late THEN "PENDING" ELSE OrdersExpired(Owners(lapsed))[c]]
  BY DEF AllocationEffect
<1>6. \A c \in late : c \in Owners(lapsed) /\ order[c] = "NONE"
  BY DEF Unseen
<1>5. status' \in [Booking -> Status]
  BY DEF AllocationEffect, TypeOK, Status
<1>7. order' \in [Booking -> OrderStatus]
  BY <1>4 DEF OrdersExpired, TypeOK, OrderStatus
<1>8. \A c \in Booking \ {b} :
        \/ order'[c] = IF c \in Owners(lapsed) /\ order[c] = "PENDING" THEN "EXPIRED" ELSE order[c]
        \/ c \in Owners(lapsed) /\ order[c] = "NONE" /\ order'[c] = "PENDING"
  BY <1>4, <1>6 DEF OrdersExpired
<1>9. order'[b] = IF order[b] = "PAID_UNALLOCATED" THEN "PAID" ELSE order[b]
  BY <1>1, <1>4, <1>6 DEF OrdersExpired
<1> QED
  BY <1>1, <1>2, <1>3, <1>5, <1>7, <1>8, <1>9

(* The rooms it places are free of every row that stays.                   *)
LEMMA AllocationKeepsRoomsApart ==
  ASSUME TypeOK, NoDoubleBooking, NEW b \in Booking, NEW kind \in {"HELD", "CONFIRMED"},
         NEW lapsed \in SUBSET BookingRoom, AllocationEffect(b, kind, lapsed)
  PROVE  NoDoubleBooking'
<1> SUFFICES ASSUME NEW x \in BookingRoom, NEW y \in BookingRoom,
                    x # y, resv'[x].room # NoRoom, resv'[x].room = resv'[y].room
             PROVE  NightsOf(bookingOf[x]) \cap NightsOf(bookingOf[y]) = {}
  BY DEF NoDoubleBooking, NightsOf
<1>0. bookingOf[x] \in Booking /\ bookingOf[y] \in Booking
  BY BookingAssumption
<1>1. CASE bookingOf[x] = b /\ bookingOf[y] = b
  BY <1>1 DEF AllocationEffect
<1>2. CASE bookingOf[x] = b /\ bookingOf[y] # b
  BY <1>0, <1>2, NoOverlapNoSharedNight DEF AllocationEffect
<1>3. CASE bookingOf[x] # b /\ bookingOf[y] = b
  <2>1. NightsOf(bookingOf[y]) \cap NightsOf(bookingOf[x]) = {}
    BY <1>0, <1>3, NoOverlapNoSharedNight DEF AllocationEffect
  <2> QED BY <2>1
<1>4. CASE bookingOf[x] # b /\ bookingOf[y] # b
  <2>1. x \notin lapsed /\ y \notin lapsed
    BY RowFacts DEF AllocationEffect
  <2>2. resv'[x] = resv[x] /\ resv'[y] = resv[y]
    BY <1>4, <2>1 DEF AllocationEffect
  <2> QED BY <2>2 DEF NoDoubleBooking
<1> QED BY <1>1, <1>2, <1>3, <1>4

(* An allocation keeps the rows right, whatever booking it is made for.    *)
LEMMA AllocationKeepsRows ==
  ASSUME TypeOK, RowsInv, NEW b \in Booking, NEW kind \in {"HELD", "CONFIRMED"},
         NEW lapsed \in SUBSET BookingRoom, AllocationEffect(b, kind, lapsed)
  PROVE  RowsInv'
<1>1. RoomsMatchStatus'
  <2> SUFFICES ASSUME NEW x \in BookingRoom
               PROVE  LET s == status'[bookingOf[x]] IN
                        /\ s = "PENDING_PAYMENT" => resv'[x].state = "HELD"
                        /\ s = "CONFIRMED" <=> resv'[x].state = "CONFIRMED"
                        /\ s \in {"NONE", "CANCELLED"} => resv'[x] = NoReservation
    BY DEF RoomsMatchStatus
  <2>0. bookingOf[x] \in Booking
    BY BookingAssumption
  <2>1. CASE bookingOf[x] = b
    BY <2>1, AllocationBookings DEF AllocationEffect
  <2>2. CASE x \in lapsed
    <3>1. bookingOf[x] \in Owners(lapsed) /\ bookingOf[x] # b
      BY <2>2 DEF Owners, AllocationEffect
    <3>2. resv'[x] = NoReservation /\ status'[bookingOf[x]] = "EXPIRED"
      BY <2>0, <2>2, <3>1, AllocationBookings DEF AllocationEffect
    <3> QED BY <3>2, RowFacts
  <2>3. CASE bookingOf[x] # b /\ x \notin lapsed
    <3>1. resv'[x] = resv[x]
      BY <2>3 DEF AllocationEffect
    <3>2. \/ status'[bookingOf[x]] = status[bookingOf[x]]
          \/ status[bookingOf[x]] = "PENDING_PAYMENT" /\ status'[bookingOf[x]] = "EXPIRED"
      BY <2>0, <2>3, AllocationBookings
    <3> QED BY <3>1, <3>2 DEF RowsInv, RoomsMatchStatus
  <2> QED BY <2>1, <2>2, <2>3
<1>2. NoDoubleBooking'
  BY AllocationKeepsRoomsApart DEF RowsInv
<1>3. RoomsFit'
  <2> SUFFICES ASSUME NEW x \in BookingRoom, resv'[x] # NoReservation
               PROVE  Satisfies(resv'[x].room, x)
    BY DEF RoomsFit, Satisfies, NoReservation
  <2> QED BY DEF AllocationEffect, RowsInv, RoomsFit
<1> QED BY <1>1, <1>2, <1>3 DEF RowsInv

-----------------------------------------------------------------------------
(* One lemma per action.                                                   *)
LEMMA CreateHoldInv ==
  ASSUME IInv, NEW b \in Booking, CreateHold(b)
  PROVE  IInv'
<1>1. PICK t \in Reading :
        AllocateRooms(b, t, "HELD") /\ holdExpires' = [holdExpires EXCEPT ![b] = t + HoldTtl]
  BY DEF CreateHold
<1>2. PICK lapsed \in SUBSET BookingRoom : AllocationEffect(b, "HELD", lapsed)
  BY <1>1, AllocationRows DEF IInv
<1>3. status[b] = "NONE" /\ UNCHANGED <<now, payment, recorded, outbox>>
  BY DEF CreateHold
<1>4. /\ status' \in [Booking -> Status] /\ order' \in [Booking -> OrderStatus]
      /\ status'[b] = "PENDING_PAYMENT"
      /\ order'[b] = IF order[b] = "PAID_UNALLOCATED" THEN "PAID" ELSE order[b]
      /\ \A c \in Booking \ {b} :
           \/ status'[c] = status[c] /\ order'[c] = order[c]
           \/ /\ status[c] = "PENDING_PAYMENT" /\ status'[c] = "EXPIRED"
              /\ order[c] # "PAID"
              /\ \/ order'[c] = IF order[c] = "PENDING" THEN "EXPIRED" ELSE order[c]
                 \/ order[c] = "NONE" /\ order'[c] = "PENDING"
  BY <1>2, AllocationBookings DEF IInv
<1>5. TypeOK'
  BY <1>1, <1>2, <1>3, <1>4, BookingAssumption DEF IInv, TypeOK, AllocationEffect, Reading
<1>6. RowsInv'
  BY <1>2, AllocationKeepsRows DEF IInv, RowsInv
<1>7. MoneyAccounted' /\ OrdersFollowHolds'
  BY <1>3, <1>4 DEF IInv, MoneyAccounted, OrdersFollowHolds, TypeOK, OrderStatus
<1>8. GuestIsTold'
  <2> SUFFICES ASSUME NEW c \in Booking
               PROVE  /\ <<"booking_confirmation", c>> \in outbox'
                           <=> status'[c] \in {"CONFIRMED", "CANCELLED"}
                      /\ <<"payment_receipt", c>> \in outbox' <=> order'[c] = "PAID"
                      /\ <<"booking_cancelled", c>> \in outbox' <=> status'[c] = "CANCELLED"
    BY DEF GuestIsTold
  <2>1. CASE c = b
    BY <1>3, <1>4, <2>1 DEF IInv, GuestIsTold, MoneyAccounted
  <2>2. CASE c # b
    BY <1>3, <1>4, <2>2 DEF IInv, GuestIsTold, MoneyAccounted
  <2> QED BY <2>1, <2>2
<1> QED BY <1>5, <1>6, <1>7, <1>8 DEF IInv, RowsInv

LEMMA CreateStaffBookingInv ==
  ASSUME IInv, NEW b \in Booking, CreateStaffBooking(b)
  PROVE  IInv'
<1>1. PICK t \in Reading : AllocateRooms(b, t, "CONFIRMED")
  BY DEF CreateStaffBooking
<1>2. PICK lapsed \in SUBSET BookingRoom : AllocationEffect(b, "CONFIRMED", lapsed)
  BY <1>1, AllocationRows DEF IInv
<1>3. /\ status[b] = "NONE" /\ UNCHANGED <<now, holdExpires, payment, recorded>>
      /\ outbox' = outbox \cup {<<"booking_confirmation", b>>}
  BY DEF CreateStaffBooking, NotifyConfirmed
<1>4. /\ status' \in [Booking -> Status] /\ order' \in [Booking -> OrderStatus]
      /\ status'[b] = "CONFIRMED"
      /\ order'[b] = IF order[b] = "PAID_UNALLOCATED" THEN "PAID" ELSE order[b]
      /\ \A c \in Booking \ {b} :
           \/ status'[c] = status[c] /\ order'[c] = order[c]
           \/ /\ status[c] = "PENDING_PAYMENT" /\ status'[c] = "EXPIRED"
              /\ order[c] # "PAID"
              /\ \/ order'[c] = IF order[c] = "PENDING" THEN "EXPIRED" ELSE order[c]
                 \/ order[c] = "NONE" /\ order'[c] = "PENDING"
  BY <1>2, AllocationBookings DEF IInv
<1>5. TypeOK'
  BY <1>2, <1>3, <1>4 DEF IInv, TypeOK, AllocationEffect, Template
<1>6. RowsInv'
  BY <1>2, AllocationKeepsRows DEF IInv, RowsInv
<1>7. MoneyAccounted' /\ OrdersFollowHolds'
  BY <1>3, <1>4 DEF IInv, MoneyAccounted, OrdersFollowHolds, TypeOK, OrderStatus
<1>8. GuestIsTold'
  <2> SUFFICES ASSUME NEW c \in Booking
               PROVE  /\ <<"booking_confirmation", c>> \in outbox'
                           <=> status'[c] \in {"CONFIRMED", "CANCELLED"}
                      /\ <<"payment_receipt", c>> \in outbox' <=> order'[c] = "PAID"
                      /\ <<"booking_cancelled", c>> \in outbox' <=> status'[c] = "CANCELLED"
    BY DEF GuestIsTold
  <2>1. CASE c = b
    BY <1>3, <1>4, <2>1 DEF IInv, GuestIsTold, MoneyAccounted
  <2>2. CASE c # b
    BY <1>3, <1>4, <2>2 DEF IInv, GuestIsTold, MoneyAccounted
  <2> QED BY <2>1, <2>2
<1> QED BY <1>5, <1>6, <1>7, <1>8 DEF IInv, RowsInv

LEMMA AllocatePaidUnallocatedInv ==
  ASSUME IInv, NEW b \in Booking, AllocatePaidUnallocated(b)
  PROVE  IInv'
<1>1. PICK t \in Reading : AllocateRooms(b, t, "CONFIRMED")
  BY DEF AllocatePaidUnallocated
<1>2. PICK lapsed \in SUBSET BookingRoom : AllocationEffect(b, "CONFIRMED", lapsed)
  BY <1>1, AllocationRows DEF IInv
<1>3. /\ order[b] = "PAID_UNALLOCATED" /\ status[b] \in {"PENDING_PAYMENT", "EXPIRED"}
      /\ UNCHANGED <<now, holdExpires, payment, recorded>>
      /\ outbox' = outbox \cup {<<"booking_confirmation", b>>, <<"payment_receipt", b>>}
  BY DEF AllocatePaidUnallocated, NotifyConfirmed
<1>4. /\ status' \in [Booking -> Status] /\ order' \in [Booking -> OrderStatus]
      /\ status'[b] = "CONFIRMED" /\ order'[b] = "PAID"
      /\ \A c \in Booking \ {b} :
           \/ status'[c] = status[c] /\ order'[c] = order[c]
           \/ /\ status[c] = "PENDING_PAYMENT" /\ status'[c] = "EXPIRED"
              /\ order[c] # "PAID"
              /\ \/ order'[c] = IF order[c] = "PENDING" THEN "EXPIRED" ELSE order[c]
                 \/ order[c] = "NONE" /\ order'[c] = "PENDING"
  BY <1>2, <1>3, AllocationBookings DEF IInv
<1>5. TypeOK'
  BY <1>2, <1>3, <1>4 DEF IInv, TypeOK, AllocationEffect, Template
<1>6. RowsInv'
  BY <1>2, AllocationKeepsRows DEF IInv, RowsInv
<1>7. MoneyAccounted' /\ OrdersFollowHolds'
  BY <1>3, <1>4 DEF IInv, MoneyAccounted, OrdersFollowHolds, TypeOK, OrderStatus
<1>8. GuestIsTold'
  <2> SUFFICES ASSUME NEW c \in Booking
               PROVE  /\ <<"booking_confirmation", c>> \in outbox'
                           <=> status'[c] \in {"CONFIRMED", "CANCELLED"}
                      /\ <<"payment_receipt", c>> \in outbox' <=> order'[c] = "PAID"
                      /\ <<"booking_cancelled", c>> \in outbox' <=> status'[c] = "CANCELLED"
    BY DEF GuestIsTold
  <2>1. CASE c = b
    BY <1>3, <1>4, <2>1 DEF IInv, GuestIsTold, MoneyAccounted
  <2>2. CASE c # b
    BY <1>3, <1>4, <2>2 DEF IInv, GuestIsTold, MoneyAccounted
  <2> QED BY <2>1, <2>2
<1> QED BY <1>5, <1>6, <1>7, <1>8 DEF IInv, RowsInv

LEMMA CreatePaymentOrderInv ==
  ASSUME IInv, NEW b \in Booking, CreatePaymentOrder(b)
  PROVE  IInv'
<1>1. /\ order[b] = "NONE" /\ status[b] = "PENDING_PAYMENT"
      /\ order' = [order EXCEPT ![b] = "PENDING"]
      /\ UNCHANGED <<now, status, holdExpires, resv, payment, recorded, outbox>>
  BY DEF CreatePaymentOrder
<1>2. TypeOK'
  BY <1>1 DEF IInv, TypeOK, OrderStatus
<1>3. RoomsMatchStatus' /\ NoDoubleBooking' /\ RoomsFit'
  BY <1>1 DEF IInv, RoomsMatchStatus, NoDoubleBooking, NightsOf, RoomsFit, Satisfies
<1>4. /\ order'[b] = "PENDING"
      /\ \A c \in Booking : c # b => order'[c] = order[c]
  BY <1>1 DEF IInv, TypeOK
<1>5. MoneyAccounted'
  <2>1. b \notin recorded
    BY <1>1 DEF IInv, MoneyAccounted
  <2> QED BY <1>1, <1>4, <2>1 DEF IInv, MoneyAccounted
<1>6. OrdersFollowHolds'
  BY <1>1, <1>4 DEF IInv, OrdersFollowHolds
<1>7. GuestIsTold'
  <2>1. <<"payment_receipt", b>> \notin outbox
    BY <1>1 DEF IInv, GuestIsTold
  <2> QED BY <1>1, <1>4, <2>1 DEF IInv, GuestIsTold
<1> QED BY <1>2, <1>3, <1>5, <1>6, <1>7 DEF IInv

LEMMA CaptureInv ==
  ASSUME IInv, NEW b \in Booking, Capture(b)
  PROVE  IInv'
<1>1. /\ payment[b] = "NONE" /\ order[b] # "NONE"
      /\ UNCHANGED <<now, status, holdExpires, resv, order, recorded, outbox>>
  BY DEF Capture
<1>. PICK got \in {"EXACT", "MISMATCH"} : payment' = [payment EXCEPT ![b] = got]
  BY DEF Capture
<1>2. TypeOK'
  BY <1>1 DEF IInv, TypeOK, Captured
<1>3. RoomsMatchStatus' /\ NoDoubleBooking' /\ RoomsFit'
  BY <1>1 DEF IInv, RoomsMatchStatus, NoDoubleBooking, NightsOf, RoomsFit, Satisfies
<1>4. \A c \in Booking : c # b => payment'[c] = payment[c]
  BY DEF IInv, TypeOK
<1>5. MoneyAccounted'
  BY <1>1, <1>4 DEF IInv, MoneyAccounted
<1>6. OrdersFollowHolds'
  BY <1>1, <1>4 DEF IInv, OrdersFollowHolds
<1>7. GuestIsTold'
  BY <1>1 DEF IInv, GuestIsTold
<1> QED BY <1>2, <1>3, <1>5, <1>6, <1>7 DEF IInv

LEMMA SettleConfirmedInv ==
  ASSUME IInv, NEW b \in Booking, SettleConfirmed(b)
  PROVE  IInv'
<1>1. /\ payment[b] = "EXACT" /\ b \notin recorded /\ status[b] = "PENDING_PAYMENT"
      /\ order' = [order EXCEPT ![b] = "PAID"] /\ recorded' = recorded \cup {b}
      /\ status' = [status EXCEPT ![b] = "CONFIRMED"]
      /\ outbox' = outbox \cup {<<"booking_confirmation", b>>, <<"payment_receipt", b>>}
      /\ UNCHANGED <<now, holdExpires, payment>>
  BY DEF SettleConfirmed, Undecided, HoldLapsed, NotifyConfirmed
<1>2. resv' = [x \in BookingRoom |->
                 IF bookingOf[x] = b /\ resv[x].state = "HELD"
                   THEN Live(resv[x].room, "CONFIRMED") ELSE resv[x]]
  BY DEF SettleConfirmed
<1>3. \A x \in BookingRoom : resv'[x].room = resv[x].room /\ resv'[x] \in Reservation
  <2> SUFFICES ASSUME NEW x \in BookingRoom
               PROVE  resv'[x].room = resv[x].room /\ resv'[x] \in Reservation
    OBVIOUS
  <2>1. resv[x] \in Reservation
    BY DEF IInv, TypeOK
  <2>2. CASE bookingOf[x] = b /\ resv[x].state = "HELD"
    <3>1. resv'[x] = Live(resv[x].room, "CONFIRMED") BY <1>2, <2>2
    <3>2. resv[x].room \in Room BY <2>1, <2>2, RowFacts
    <3> QED BY <3>1, <3>2, RowFacts
  <2>3. CASE ~(bookingOf[x] = b /\ resv[x].state = "HELD")
    BY <1>2, <2>1, <2>3
  <2> QED BY <2>2, <2>3
<1>4. TypeOK'
  <2>1. resv' \in [BookingRoom -> Reservation]
    BY <1>2, <1>3
  <2> QED BY <1>1, <2>1 DEF IInv, TypeOK, Status, OrderStatus, Template
<1>5. RoomsMatchStatus'
  <2> SUFFICES ASSUME NEW x \in BookingRoom
               PROVE  LET s == status'[bookingOf[x]] IN
                        /\ s = "PENDING_PAYMENT" => resv'[x].state = "HELD"
                        /\ s = "CONFIRMED" <=> resv'[x].state = "CONFIRMED"
                        /\ s \in {"NONE", "CANCELLED"} => resv'[x] = NoReservation
    BY DEF RoomsMatchStatus
  <2>0. bookingOf[x] \in Booking /\ resv[x] \in Reservation
    BY BookingAssumption DEF IInv, TypeOK
  <2>1. CASE bookingOf[x] = b
    <3>1. resv[x].state = "HELD" BY <1>1, <2>1 DEF IInv, RoomsMatchStatus
    <3>2. resv'[x] = Live(resv[x].room, "CONFIRMED") BY <1>2, <2>1, <3>1
    <3>3. resv'[x].state = "CONFIRMED" BY <2>0, <3>1, <3>2, RowFacts
    <3> QED BY <1>1, <2>1, <3>3 DEF IInv, TypeOK
  <2>2. CASE bookingOf[x] # b
    <3>1. resv'[x] = resv[x] BY <1>2, <2>2
    <3>2. status'[bookingOf[x]] = status[bookingOf[x]]
      BY <1>1, <2>0, <2>2 DEF IInv, TypeOK
    <3> QED BY <3>1, <3>2 DEF IInv, RoomsMatchStatus
  <2> QED BY <2>1, <2>2
<1>6. NoDoubleBooking'
  BY <1>3 DEF IInv, NoDoubleBooking, NightsOf
<1>7. RoomsFit'
  <2> SUFFICES ASSUME NEW x \in BookingRoom, resv'[x] # NoReservation
               PROVE  Satisfies(resv'[x].room, x)
    BY DEF RoomsFit, Satisfies, NoReservation
  <2>1. resv[x] # NoReservation
    BY <1>2, RowFacts
  <2> QED BY <1>3, <2>1 DEF IInv, RoomsFit
<1>8. MoneyAccounted' /\ OrdersFollowHolds'
  BY <1>1 DEF IInv, MoneyAccounted, OrdersFollowHolds, TypeOK
<1>9. GuestIsTold'
  BY <1>1 DEF IInv, GuestIsTold, MoneyAccounted, TypeOK
<1> QED BY <1>4, <1>5, <1>6, <1>7, <1>8, <1>9 DEF IInv

LEMMA SettleUnallocatedInv ==
  ASSUME IInv, NEW b \in Booking, SettleUnallocated(b)
  PROVE  IInv'
<1>1. /\ payment[b] = "EXACT" /\ b \notin recorded
      /\ order' = [order EXCEPT ![b] = "PAID_UNALLOCATED"] /\ recorded' = recorded \cup {b}
      /\ outbox' = outbox \cup {<<"staff_payment_exception", b>>}
      /\ UNCHANGED <<now, status, holdExpires, resv, payment>>
  BY DEF SettleUnallocated, Undecided, NotifyPaymentException
<1>2. TypeOK'
  BY <1>1 DEF IInv, TypeOK, OrderStatus, Template
<1>3. RoomsMatchStatus' /\ NoDoubleBooking' /\ RoomsFit'
  BY <1>1 DEF IInv, RoomsMatchStatus, NoDoubleBooking, NightsOf, RoomsFit, Satisfies
<1>4. MoneyAccounted' /\ OrdersFollowHolds' /\ GuestIsTold'
  BY <1>1 DEF IInv, MoneyAccounted, OrdersFollowHolds, GuestIsTold, TypeOK, OrderStatus
<1> QED BY <1>2, <1>3, <1>4 DEF IInv

LEMMA ReleasedFacts ==
  ASSUME TypeOK, NEW S \in SUBSET BookingRoom, resv' = Released(resv, S)
  PROVE  /\ resv' \in [BookingRoom -> Reservation]
         /\ \A x \in S : resv'[x] = NoReservation
         /\ \A x \in BookingRoom : x \notin S => resv'[x] = resv[x]
BY RowFacts DEF Released, TypeOK

(* Releasing rows cannot break what is said of the rows that are left.     *)
LEMMA ReleaseKeepsRoomsApart ==
  ASSUME TypeOK, NoDoubleBooking, RoomsFit,
         NEW S \in SUBSET BookingRoom, resv' = Released(resv, S)
  PROVE  NoDoubleBooking' /\ RoomsFit'
<1>1. NoDoubleBooking'
  <2> SUFFICES ASSUME NEW x \in BookingRoom, NEW y \in BookingRoom,
                      x # y, resv'[x].room # NoRoom, resv'[x].room = resv'[y].room
               PROVE  NightsOf(bookingOf[x]) \cap NightsOf(bookingOf[y]) = {}
    BY DEF NoDoubleBooking, NightsOf
  <2>1. resv'[x] = resv[x] /\ resv'[y] = resv[y]
    BY ReleasedFacts, RowFacts
  <2> QED BY <2>1 DEF NoDoubleBooking
<1>2. RoomsFit'
  <2> SUFFICES ASSUME NEW x \in BookingRoom, resv'[x] # NoReservation
               PROVE  Satisfies(resv'[x].room, x)
    BY DEF RoomsFit, Satisfies, NoReservation
  <2> QED BY ReleasedFacts DEF RoomsFit
<1> QED BY <1>1, <1>2

LEMMA DropInv ==
  ASSUME IInv, NEW B \in SUBSET Booking, Drop(B),
         \A b \in B : status[b] = "PENDING_PAYMENT"
  PROVE  IInv'
<1> DEFINE S == {x \in BookingRoom : bookingOf[x] \in B /\ resv[x].state = "HELD"}
<1>1. /\ resv' = Released(resv, S) /\ S \in SUBSET BookingRoom
      /\ UNCHANGED <<now, holdExpires, payment, recorded, outbox>>
  BY DEF Drop
<1>2. /\ \A b \in B : status'[b] = "EXPIRED"
      /\ \A b \in Booking : b \notin B => status'[b] = status[b]
      /\ status' \in [Booking -> Status]
  BY DEF Drop, IInv, TypeOK, Status
<1>3. /\ \A b \in Booking : \/ order'[b] = order[b]
                            \/ order[b] = "PENDING" /\ order'[b] = "EXPIRED" /\ b \in B
      /\ order' \in [Booking -> OrderStatus]
  BY DEF Drop, OrdersExpired, IInv, TypeOK, OrderStatus
<1>4. /\ resv' \in [BookingRoom -> Reservation]
      /\ \A x \in S : resv'[x] = NoReservation
      /\ \A x \in BookingRoom : x \notin S => resv'[x] = resv[x]
  BY <1>1, ReleasedFacts DEF IInv
<1>5. TypeOK'
  BY <1>1, <1>2, <1>3, <1>4 DEF IInv, TypeOK
<1>6. RoomsMatchStatus'
  <2> SUFFICES ASSUME NEW x \in BookingRoom
               PROVE  LET s == status'[bookingOf[x]] IN
                        /\ s = "PENDING_PAYMENT" => resv'[x].state = "HELD"
                        /\ s = "CONFIRMED" <=> resv'[x].state = "CONFIRMED"
                        /\ s \in {"NONE", "CANCELLED"} => resv'[x] = NoReservation
    BY DEF RoomsMatchStatus
  <2>0. bookingOf[x] \in Booking
    BY BookingAssumption
  <2>1. CASE bookingOf[x] \in B
    <3>1. x \in S
      BY <2>1 DEF IInv, RoomsMatchStatus
    <3> QED BY <1>2, <1>4, <2>1, <3>1, RowFacts
  <2>2. CASE bookingOf[x] \notin B
    BY <1>2, <1>4, <2>0, <2>2 DEF IInv, RoomsMatchStatus
  <2> QED BY <2>1, <2>2
<1>7. NoDoubleBooking' /\ RoomsFit'
  BY <1>1, ReleaseKeepsRoomsApart DEF IInv
<1>8. MoneyAccounted'
  BY <1>1, <1>2, <1>3 DEF IInv, MoneyAccounted
<1>9. OrdersFollowHolds'
  BY <1>1, <1>2, <1>3 DEF IInv, OrdersFollowHolds
<1>10. GuestIsTold'
  BY <1>1, <1>2, <1>3 DEF IInv, GuestIsTold
<1> QED BY <1>5, <1>6, <1>7, <1>8, <1>9, <1>10 DEF IInv

LEMMA CancelManagedBookingInv ==
  ASSUME IInv, NEW b \in Booking, CancelManagedBooking(b)
  PROVE  IInv'
<1> DEFINE S == {x \in RoomsOf(b) : resv[x].state = "CONFIRMED"}
<1>1. /\ status[b] = "CONFIRMED"
      /\ resv' = Released(resv, S) /\ S \in SUBSET BookingRoom
      /\ outbox' = outbox \cup {<<"booking_cancelled", b>>}
      /\ UNCHANGED <<now, holdExpires, order, payment, recorded>>
  BY DEF CancelManagedBooking, NotifyBookingCancelled, RoomsOf
<1>2. /\ status'[b] = "CANCELLED"
      /\ \A c \in Booking : c # b => status'[c] = status[c]
      /\ status' \in [Booking -> Status]
  BY DEF CancelManagedBooking, IInv, TypeOK, Status
<1>3. /\ resv' \in [BookingRoom -> Reservation]
      /\ \A x \in S : resv'[x] = NoReservation
      /\ \A x \in BookingRoom : x \notin S => resv'[x] = resv[x]
  BY <1>1, ReleasedFacts DEF IInv
<1>4. TypeOK'
  BY <1>1, <1>2, <1>3 DEF IInv, TypeOK, Template
<1>5. RoomsMatchStatus'
  <2> SUFFICES ASSUME NEW x \in BookingRoom
               PROVE  LET s == status'[bookingOf[x]] IN
                        /\ s = "PENDING_PAYMENT" => resv'[x].state = "HELD"
                        /\ s = "CONFIRMED" <=> resv'[x].state = "CONFIRMED"
                        /\ s \in {"NONE", "CANCELLED"} => resv'[x] = NoReservation
    BY DEF RoomsMatchStatus
  <2>0. bookingOf[x] \in Booking
    BY BookingAssumption
  <2>1. CASE bookingOf[x] = b
    <3>1. x \in S
      BY <1>1, <2>1 DEF IInv, RoomsMatchStatus, RoomsOf
    <3> QED BY <1>2, <1>3, <2>1, <3>1, RowFacts
  <2>2. CASE bookingOf[x] # b
    <3>1. x \notin S
      BY <2>2 DEF RoomsOf
    <3> QED BY <1>2, <1>3, <2>0, <2>2, <3>1 DEF IInv, RoomsMatchStatus
  <2> QED BY <2>1, <2>2
<1>6. NoDoubleBooking' /\ RoomsFit'
  BY <1>1, ReleaseKeepsRoomsApart DEF IInv
<1>7. MoneyAccounted'
  BY <1>1, <1>2 DEF IInv, MoneyAccounted
<1>8. OrdersFollowHolds'
  BY <1>1, <1>2 DEF IInv, OrdersFollowHolds
<1>9. GuestIsTold'
  <2> SUFFICES ASSUME NEW c \in Booking
               PROVE  /\ <<"booking_confirmation", c>> \in outbox'
                           <=> status'[c] \in {"CONFIRMED", "CANCELLED"}
                      /\ <<"payment_receipt", c>> \in outbox' <=> order'[c] = "PAID"
                      /\ <<"booking_cancelled", c>> \in outbox' <=> status'[c] = "CANCELLED"
    BY DEF GuestIsTold
  <2>1. CASE c = b
    BY <1>1, <1>2, <2>1 DEF IInv, GuestIsTold
  <2>2. CASE c # b
    BY <1>1, <1>2, <2>2 DEF IInv, GuestIsTold
  <2> QED BY <2>1, <2>2
<1> QED BY <1>4, <1>5, <1>6, <1>7, <1>8, <1>9 DEF IInv

LEMMA TickInv ==
  ASSUME IInv, Tick
  PROVE  IInv'
<1>1. /\ now' = now + 1
      /\ UNCHANGED <<status, holdExpires, resv, order, payment, recorded, outbox>>
  BY DEF Tick
<1>2. TypeOK'
  BY <1>1 DEF IInv, TypeOK
<1>3. RoomsMatchStatus' /\ NoDoubleBooking' /\ RoomsFit'
  BY <1>1 DEF IInv, RoomsMatchStatus, NoDoubleBooking, NightsOf, RoomsFit, Satisfies
<1>4. MoneyAccounted' /\ OrdersFollowHolds' /\ GuestIsTold'
  BY <1>1 DEF IInv, MoneyAccounted, OrdersFollowHolds, GuestIsTold
<1> QED BY <1>2, <1>3, <1>4 DEF IInv

-----------------------------------------------------------------------------
LEMMA InitIInv == Init => IInv
<1> SUFFICES ASSUME Init PROVE IInv
  OBVIOUS
<1>1. TypeOK
  BY RowFacts DEF Init, TypeOK, Status, OrderStatus, Captured
<1>2. RoomsMatchStatus
  BY BookingAssumption, RowFacts DEF Init, RoomsMatchStatus
<1>3. NoDoubleBooking /\ RoomsFit
  BY RowFacts DEF Init, NoDoubleBooking, RoomsFit
<1>4. MoneyAccounted /\ OrdersFollowHolds /\ GuestIsTold
  BY DEF Init, MoneyAccounted, OrdersFollowHolds, GuestIsTold
<1> QED BY <1>1, <1>2, <1>3, <1>4 DEF IInv

LEMMA NextIInv == IInv /\ [Next]_vars => IInv'
<1> SUFFICES ASSUME IInv, [Next]_vars PROVE IInv'
  OBVIOUS
<1>1. ASSUME NEW b \in Booking, CreateHold(b) PROVE IInv'
  BY <1>1, CreateHoldInv
<1>2. ASSUME NEW b \in Booking, CreateStaffBooking(b) PROVE IInv'
  BY <1>2, CreateStaffBookingInv
<1>3. ASSUME NEW b \in Booking, CreatePaymentOrder(b) PROVE IInv'
  BY <1>3, CreatePaymentOrderInv
<1>4. ASSUME NEW b \in Booking, Capture(b) PROVE IInv'
  BY <1>4, CaptureInv
<1>5. ASSUME NEW b \in Booking, SettleConfirmed(b) PROVE IInv'
  BY <1>5, SettleConfirmedInv
<1>6. ASSUME NEW b \in Booking, SettleUnallocated(b) PROVE IInv'
  BY <1>6, SettleUnallocatedInv
<1>7. ASSUME NEW b \in Booking, ExpireStaffHold(b) PROVE IInv'
  BY <1>7, DropInv DEF ExpireStaffHold
<1>8. ASSUME NEW b \in Booking, AllocatePaidUnallocated(b) PROVE IInv'
  BY <1>8, AllocatePaidUnallocatedInv
<1>9. ASSUME NEW b \in Booking, CancelManagedBooking(b) PROVE IInv'
  BY <1>9, CancelManagedBookingInv
<1>10. ASSUME ExpireStaleHolds PROVE IInv'
  BY <1>10, DropInv DEF ExpireStaleHolds, Stale
<1>11. ASSUME Tick PROVE IInv'
  BY <1>11, TickInv
<1>12. ASSUME UNCHANGED vars PROVE IInv'
  BY <1>12 DEF vars, IInv, TypeOK, RoomsMatchStatus, NoDoubleBooking, NightsOf, RoomsFit,
               Satisfies, MoneyAccounted, OrdersFollowHolds, GuestIsTold
<1> QED
  BY <1>1, <1>2, <1>3, <1>4, <1>5, <1>6, <1>7, <1>8, <1>9, <1>10, <1>11, <1>12 DEF Next

(* Whatever the transactions of Booking.tla do, in whatever order, the     *)
(* whole invariant holds.                                                  *)
THEOREM Invariance == Spec => []IInv
BY InitIInv, NextIInv, PTL DEF Spec

(* The tables only hold values their columns allow.                        *)
THEOREM TypeCorrect == Spec => []TypeOK
BY Invariance, PTL DEF IInv

(* A booking's rooms and its status never disagree, after any sequence of  *)
(* sweeps, settlements, expiries and cancellations.                        *)
THEOREM RoomsAndStatusAgree == Spec => []RoomsMatchStatus
BY Invariance, PTL DEF IInv

(* Allocation never gives a room to two bookings that share a night.       *)
THEOREM RoomsAreExclusive == Spec => []NoDoubleBooking
BY Invariance, PTL DEF IInv

(* Settlement accounts for every payment it records.                       *)
THEOREM MoneyIsAccountedFor == Spec => []MoneyAccounted
BY Invariance, PTL DEF IInv

(* The notifications queued tell the guest what happened to the booking.   *)
THEOREM GuestIsToldTheTruth == Spec => []GuestIsTold
BY Invariance, PTL DEF IInv

-----------------------------------------------------------------------------
(* What a step may do to a status.                                         *)
StatusStep ==
  \A b \in Booking : status'[b] # status[b] =>
     \/ status[b] = "NONE"
     \/ status[b] = "PENDING_PAYMENT" /\ status'[b] = "EXPIRED" /\ order'[b] # "PAID"
     \/ status[b] = "PENDING_PAYMENT" /\ status'[b] = "CONFIRMED" /\ b \in recorded'
     \/ status[b] = "EXPIRED" /\ status'[b] = "CONFIRMED" /\ b \in recorded
     \/ status[b] = "CONFIRMED" /\ status'[b] = "CANCELLED"

LEMMA AllocationStatusStep ==
  ASSUME TypeOK, NEW b \in Booking, NEW t \in Reading, NEW kind \in {"HELD", "CONFIRMED"},
         AllocateRooms(b, t, kind)
  PROVE  \A c \in Booking \ {b} : status'[c] # status[c] =>
           status[c] = "PENDING_PAYMENT" /\ status'[c] = "EXPIRED" /\ order'[c] # "PAID"
<1>1. PICK lapsed \in SUBSET BookingRoom : AllocationEffect(b, kind, lapsed)
  BY AllocationRows
<1>2. \A c \in Booking \ {b} :
        \/ status'[c] = status[c]
        \/ /\ status[c] = "PENDING_PAYMENT" /\ status'[c] = "EXPIRED"
           /\ order'[c] # "PAID"
  BY <1>1, AllocationBookings
<1> QED BY <1>2

LEMMA DropStatusStep ==
  ASSUME TypeOK, NEW B \in SUBSET Booking, Drop(B),
         \A b \in B : status[b] = "PENDING_PAYMENT" /\ order[b] # "PAID"
  PROVE  StatusStep
BY DEF Drop, OrdersExpired, StatusStep, TypeOK

LEMMA NextStatusStep == TypeOK /\ MoneyAccounted /\ [Next]_vars => StatusStep
<1> SUFFICES ASSUME TypeOK, MoneyAccounted, [Next]_vars PROVE StatusStep
  OBVIOUS
<1>1. ASSUME NEW b \in Booking, CreateHold(b) PROVE StatusStep
  BY <1>1, AllocationStatusStep DEF CreateHold, StatusStep
<1>2. ASSUME NEW b \in Booking, CreateStaffBooking(b) PROVE StatusStep
  BY <1>2, AllocationStatusStep DEF CreateStaffBooking, StatusStep
<1>3. ASSUME NEW b \in Booking, CreatePaymentOrder(b) \/ Capture(b) \/ SettleUnallocated(b)
      PROVE  StatusStep
  BY <1>3 DEF CreatePaymentOrder, Capture, SettleUnallocated, StatusStep
<1>4. ASSUME NEW b \in Booking, SettleConfirmed(b) PROVE StatusStep
  <2>1. status[b] = "PENDING_PAYMENT" /\ b \in recorded'
        /\ status' = [status EXCEPT ![b] = "CONFIRMED"]
    BY <1>4 DEF SettleConfirmed, HoldLapsed
  <2> QED BY <2>1 DEF TypeOK, StatusStep
<1>5. ASSUME NEW b \in Booking, ExpireStaffHold(b) PROVE StatusStep
  BY <1>5, DropStatusStep DEF ExpireStaffHold
<1>6. ASSUME NEW b \in Booking, AllocatePaidUnallocated(b) PROVE StatusStep
  <2>1. PICK t \in Reading : AllocateRooms(b, t, "CONFIRMED")
    BY <1>6 DEF AllocatePaidUnallocated
  <2>2. status'[b] = "CONFIRMED"
    BY <2>1 DEF AllocateRooms
  <2>3. b \in recorded /\ b \in recorded' /\ status[b] \in {"PENDING_PAYMENT", "EXPIRED"}
    BY <1>6 DEF AllocatePaidUnallocated, MoneyAccounted
  <2> QED BY <2>1, <2>2, <2>3, AllocationStatusStep DEF StatusStep
<1>7. ASSUME NEW b \in Booking, CancelManagedBooking(b) PROVE StatusStep
  BY <1>7 DEF CancelManagedBooking, StatusStep, TypeOK
<1>8. ASSUME ExpireStaleHolds PROVE StatusStep
  BY <1>8, DropStatusStep DEF ExpireStaleHolds, Stale
<1>9. ASSUME Tick \/ UNCHANGED vars PROVE StatusStep
  BY <1>9 DEF Tick, vars, StatusStep
<1> QED
  BY <1>1, <1>2, <1>3, <1>4, <1>5, <1>6, <1>7, <1>8, <1>9 DEF Next

(* No sequence of transactions revives a cancelled booking, or confirms    *)
(* one that was held or expired without its money being recorded.          *)
THEOREM StatusesMoveForward == Spec => Lifecycle
<1>1. IInv /\ [Next]_vars => [StatusStep]_vars
  BY NextStatusStep DEF IInv
<1>2. Spec => [][StatusStep]_vars
  BY <1>1, Invariance, PTL DEF Spec
<1> QED BY <1>2 DEF StatusStep, Lifecycle

-----------------------------------------------------------------------------
(* assignRooms gives each intent, in turn, the first room left that fits.  *)
(* Begun are the states of its loop: the booked rooms in P have theirs.    *)
Begun(rows, b, R, P) ==
  {g \in [P -> FreeRooms(rows, b, R)] :
     /\ \A x \in P : Satisfies(g[x], x)
     /\ \A x, y \in P : g[x] = g[y] => x = y}

(* The rooms of a group are alike: all have air conditioning, or none.     *)
GroupsAlike ==
  \A r, s \in Room : roomGroupId[r] = roomGroupId[s] => (r \in supportsAc <=> s \in supportsAc)

(* Where the rooms of each group are alike, as prisma/seed.ts makes them,  *)
(* taking the first room that fits never uses up one that is needed later: *)
(* if the booked rooms can all be placed at all, then however some of them *)
(* were placed, a room that fits is left for each of the others.           *)
THEOREM FirstFitNeverStuck ==
  ASSUME GroupsAlike, NEW rows, NEW b \in Booking, IsFiniteSet(RoomsOf(b)),
         NEW R \in SUBSET Room, Assignments(rows, b, R) # {},
         NEW P \in SUBSET RoomsOf(b), NEW g \in Begun(rows, b, R, P),
         NEW x \in RoomsOf(b) \ P
  PROVE  \E r \in FreeRooms(rows, b, R) : Satisfies(r, x) /\ \A y \in P : g[y] # r
<1> DEFINE Free == FreeRooms(rows, b, R)
           X == {y \in RoomsOf(b) : roomGroupId[y] = roomGroupId[x]}
           Q == P \cap X
<1>1. PICK F \in [RoomsOf(b) -> Free] :
        /\ \A y \in RoomsOf(b) : Satisfies(F[y], y)
        /\ \A y, z \in RoomsOf(b) : F[y] = F[z] => y = z
  BY DEF Assignments
<1>2. Free \subseteq Room
  BY DEF FreeRooms
<1>3. \A y \in X : F[y] \in Free /\ Satisfies(F[y], x)
  <2> SUFFICES ASSUME NEW y \in X PROVE F[y] \in Free /\ Satisfies(F[y], x)
    OBVIOUS
  <2>1. F[y] \in Room /\ F[x] \in Room /\ roomGroupId[F[y]] = roomGroupId[F[x]]
    BY <1>1, <1>2 DEF Satisfies
  <2>2. F[y] \in supportsAc <=> F[x] \in supportsAc
    BY <2>1 DEF GroupsAlike
  <2> QED BY <1>1, <2>2 DEF Satisfies
<1>4. IsFiniteSet(X) /\ IsFiniteSet(Q) /\ Cardinality(Q) < Cardinality(X)
  <2>1. IsFiniteSet(X)
    BY FS_Subset
  <2>2. Q \in SUBSET X /\ Q # X
    OBVIOUS
  <2>3. IsFiniteSet(Q) /\ Cardinality(Q) <= Cardinality(X) /\ Cardinality(X) # Cardinality(Q)
    BY <2>1, <2>2, FS_Subset
  <2>4. Cardinality(X) \in Nat /\ Cardinality(Q) \in Nat
    BY <2>1, <2>3, FS_CardinalityType
  <2> QED BY <2>1, <2>3, <2>4
<1>5. ASSUME \A y \in X : \E q \in P : g[q] = F[y]
      PROVE  FALSE
  <2> DEFINE h == [y \in X |-> CHOOSE q \in P : g[q] = F[y]]
  <2>1. \A y \in X : h[y] \in P /\ g[h[y]] = F[y]
    BY <1>5
  <2>2. \A y \in X : h[y] \in Q
    <3> SUFFICES ASSUME NEW y \in X PROVE h[y] \in X
      BY <2>1
    <3>1. Satisfies(g[h[y]], h[y]) /\ Satisfies(F[y], x) /\ h[y] \in RoomsOf(b)
      BY <1>3, <2>1 DEF Begun
    <3> QED BY <2>1, <3>1 DEF Satisfies
  <2>3. h \in [X -> Q]
    BY <2>2
  <2> HIDE DEF h, X, Q
  <2>4. PICK y \in X, z \in X : y # z /\ h[y] = h[z]
    BY <1>4, <2>3, FS_PigeonHole
  <2>5. F[y] = F[z]
    BY <2>1, <2>4
  <2> QED BY <1>1, <2>4, <2>5 DEF X
<1> QED BY <1>3, <1>5

-----------------------------------------------------------------------------
(* The refinement: the stays a reader of the tables sees.                  *)
LEMMA StayFacts ==
  ASSUME TypeOK
  PROVE  /\ \A b \in Booking : StayLife[b] = IF status[b] = "CONFIRMED" THEN "confirmed"
                                 ELSE IF status[b] = "CANCELLED" THEN "cancelled" ELSE "open"
         /\ \A x \in BookingRoom :
              StayRoom[x] = IF resv[x].state = "CONFIRMED" THEN resv[x].room ELSE NoRoom
         /\ StayLife = [b \in Booking |-> StayLife[b]]
         /\ StayRoom = [x \in BookingRoom |-> StayRoom[x]]
         /\ StayRoom \in [BookingRoom -> Room \cup {NoRoom}]
<1>1. \A x \in BookingRoom : resv[x].state = "CONFIRMED" => resv[x].room \in Room
  BY RowFacts DEF TypeOK
<1>2. StayRoom \in [BookingRoom -> Room \cup {NoRoom}]
  BY <1>1 DEF StayRoom
<1> QED BY <1>2 DEF StayLife, StayRoom

LEMMA StayFactsNext ==
  ASSUME TypeOK'
  PROVE  /\ \A b \in Booking : StayLife'[b] = IF status'[b] = "CONFIRMED" THEN "confirmed"
                                 ELSE IF status'[b] = "CANCELLED" THEN "cancelled" ELSE "open"
         /\ \A x \in BookingRoom :
              StayRoom'[x] = IF resv'[x].state = "CONFIRMED" THEN resv'[x].room ELSE NoRoom
         /\ StayLife' = [b \in Booking |-> StayLife'[b]]
         /\ StayRoom' = [x \in BookingRoom |-> StayRoom'[x]]
         /\ StayRoom' \in [BookingRoom -> Room \cup {NoRoom}]
<1>1. \A x \in BookingRoom : resv'[x].state = "CONFIRMED" => resv'[x].room \in Room
  BY RowFacts DEF TypeOK
<1>2. StayRoom' \in [BookingRoom -> Room \cup {NoRoom}]
  BY <1>1 DEF StayRoom
<1> QED BY <1>2 DEF StayLife, StayRoom

(* What the refinement rests on: whole holds, and confirmed rows of        *)
(* confirmed stays only.                                                   *)
RowsFollowStatus ==
  \A x \in BookingRoom :
    /\ resv[x].state = "HELD" => status[bookingOf[x]] \in {"PENDING_PAYMENT", "EXPIRED"}
    /\ resv[x].state = "CONFIRMED" => status[bookingOf[x]] = "CONFIRMED"
    /\ status[bookingOf[x]] = "PENDING_PAYMENT" => resv[x].state = "HELD"

StayInv == TypeOK /\ NoDoubleBooking /\ RoomsFit /\ RowsFollowStatus

LEMMA StayInvHolds == IInv => StayInv
<1> SUFFICES ASSUME IInv, NEW x \in BookingRoom
             PROVE  /\ resv[x].state = "HELD" => status[bookingOf[x]] \in {"PENDING_PAYMENT", "EXPIRED"}
                    /\ resv[x].state = "CONFIRMED" => status[bookingOf[x]] = "CONFIRMED"
                    /\ status[bookingOf[x]] = "PENDING_PAYMENT" => resv[x].state = "HELD"
  BY DEF IInv, StayInv, RowsFollowStatus
<1>1. status[bookingOf[x]] \in Status
  BY BookingAssumption DEF IInv, TypeOK
<1> QED BY <1>1, RowFacts DEF IInv, RoomsMatchStatus, Status

(* A step that confirms b, with all its rooms, and no other booking is     *)
(* Promise's Confirm(b).                                                   *)
LEMMA ConfirmStep ==
  ASSUME StayInv, StayInv', NEW b \in Booking,
         \A x \in BookingRoom : bookingOf[x] = b => resv'[x].state = "CONFIRMED",
         status[b] \notin {"CONFIRMED", "CANCELLED"}, status'[b] = "CONFIRMED",
         \A c \in Booking \ {b} :
           status'[c] = status[c] \/ (status[c] = "PENDING_PAYMENT" /\ status'[c] = "EXPIRED"),
         \A x \in BookingRoom : bookingOf[x] # b =>
           resv'[x] = resv[x] \/ (resv[x].state # "CONFIRMED" /\ resv'[x].state # "CONFIRMED")
  PROVE  Promise!Confirm(b)
<1>0. TypeOK /\ TypeOK'
  BY DEF StayInv
<1>1. StayLife[b] = "open"
  BY <1>0, StayFacts
<1>2. StayLife' = [StayLife EXCEPT ![b] = "confirmed"]
  <2>1. \A c \in Booking : StayLife'[c] = IF c = b THEN "confirmed" ELSE StayLife[c]
    BY <1>0, StayFacts, StayFactsNext
  <2>2. StayLife = [c \in Booking |-> StayLife[c]] /\ StayLife' = [c \in Booking |-> StayLife'[c]]
    BY <1>0, StayFacts, StayFactsNext
  <2> QED BY <2>1, <2>2
<1>3. ASSUME NEW x \in BookingRoom, bookingOf[x] # b
      PROVE  StayRoom'[x] = StayRoom[x]
  BY <1>0, <1>3, StayFacts, StayFactsNext
<1>4. ASSUME NEW x \in BookingRoom, bookingOf[x] = b
      PROVE  /\ StayRoom'[x] = resv'[x].room /\ resv'[x].room \in Room
             /\ Satisfies(resv'[x].room, x)
  <2>1. resv'[x].state = "CONFIRMED"
    BY <1>4
  <2>2. resv'[x] # NoReservation /\ resv'[x].room \in Room
    BY <1>0, <2>1, RowFacts DEF TypeOK
  <2>3. Satisfies(resv'[x].room, x)
    BY <2>2 DEF StayInv, RoomsFit, Satisfies, NoReservation
  <2> QED BY <1>0, <2>1, <2>2, <2>3, StayFactsNext
<1>5. ASSUME NEW x \in BookingRoom, bookingOf[x] = b,
             NEW y \in BookingRoom, Promise!Compete(x, y)
      PROVE  StayRoom'[x] # StayRoom'[y]
  <2>1. x # y /\ NightsOf(bookingOf[x]) \cap NightsOf(bookingOf[y]) # {}
    BY <1>5, BookingAssumption DEF Promise!Compete
  <2>2. resv'[x].room \in Room /\ StayRoom'[x] = resv'[x].room /\ resv'[x].room # NoRoom
    BY <1>4, <1>5, BookingAssumption
  <2>3. resv'[x].room # resv'[y].room
    BY <2>1, <2>2 DEF StayInv, NoDoubleBooking, NightsOf
  <2> QED BY <1>0, <2>2, <2>3, StayFactsNext
<1>6. StayRoom' \in [BookingRoom -> Room \cup {NoRoom}]
  BY <1>0, StayFactsNext
<1> QED
  BY <1>1, <1>2, <1>3, <1>4, <1>5, <1>6 DEF Promise!Confirm

(* A step that neither confirms nor cancels is invisible.                  *)
LEMMA StutterStep ==
  ASSUME TypeOK, TypeOK',
         \A c \in Booking :
           \/ status'[c] = status[c]
           \/ /\ status[c] \in {"NONE", "PENDING_PAYMENT"}
              /\ status'[c] \in {"PENDING_PAYMENT", "EXPIRED"},
         \A x \in BookingRoom :
           resv'[x] = resv[x] \/ (resv[x].state # "CONFIRMED" /\ resv'[x].state # "CONFIRMED")
  PROVE  UNCHANGED <<StayLife, StayRoom>>
<1>0. TypeOK /\ TypeOK'
  OBVIOUS
<1>1. \A c \in Booking : StayLife'[c] = StayLife[c]
  BY <1>0, StayFacts, StayFactsNext
<1>2. \A x \in BookingRoom : StayRoom'[x] = StayRoom[x]
  BY <1>0, StayFacts, StayFactsNext
<1>3. StayLife = [c \in Booking |-> StayLife[c]] /\ StayLife' = [c \in Booking |-> StayLife'[c]]
  BY <1>0, StayFacts, StayFactsNext
<1>4. StayRoom = [x \in BookingRoom |-> StayRoom[x]] /\ StayRoom' = [x \in BookingRoom |-> StayRoom'[x]]
  BY <1>0, StayFacts, StayFactsNext
<1> QED BY <1>1, <1>2, <1>3, <1>4

(* What an allocation does to the bookings and rows of others.             *)
LEMMA AllocationOthers ==
  ASSUME TypeOK, NEW b \in Booking, NEW t \in Reading, NEW kind \in {"HELD", "CONFIRMED"},
         AllocateRooms(b, t, kind)
  PROVE  /\ status'[b] = IF kind = "HELD" THEN "PENDING_PAYMENT" ELSE "CONFIRMED"
         /\ \A c \in Booking \ {b} :
              status'[c] = status[c] \/ (status[c] = "PENDING_PAYMENT" /\ status'[c] = "EXPIRED")
         /\ \A x \in BookingRoom : bookingOf[x] = b => resv'[x].state = kind
         /\ \A x \in BookingRoom : bookingOf[x] # b =>
              resv'[x] = resv[x] \/ (resv[x].state # "CONFIRMED" /\ resv'[x].state # "CONFIRMED")
<1>0. TypeOK
  OBVIOUS
<1>1. PICK lapsed \in SUBSET BookingRoom : AllocationEffect(b, kind, lapsed)
  BY <1>0, AllocationRows
<1>2. status'[b] = IF kind = "HELD" THEN "PENDING_PAYMENT" ELSE "CONFIRMED"
  BY <1>0, <1>1, AllocationBookings
<1>3. \A c \in Booking \ {b} :
        status'[c] = status[c] \/ (status[c] = "PENDING_PAYMENT" /\ status'[c] = "EXPIRED")
  BY <1>0, <1>1, AllocationBookings
<1>4. \A x \in BookingRoom : bookingOf[x] # b =>
        resv'[x] = resv[x] \/ (resv[x].state # "CONFIRMED" /\ resv'[x].state # "CONFIRMED")
  BY <1>1, RowFacts DEF AllocationEffect
<1> QED BY <1>1, <1>2, <1>3, <1>4 DEF AllocationEffect

LEMMA DropStutter ==
  ASSUME TypeOK, TypeOK', NEW B \in SUBSET Booking, Drop(B),
         \A b \in B : status[b] = "PENDING_PAYMENT"
  PROVE  UNCHANGED <<StayLife, StayRoom>>
<1> DEFINE S == {x \in BookingRoom : bookingOf[x] \in B /\ resv[x].state = "HELD"}
<1>0. TypeOK
  OBVIOUS
<1>1. resv' = Released(resv, S) /\ S \in SUBSET BookingRoom
  BY DEF Drop
<1>2. \A x \in BookingRoom :
        resv'[x] = resv[x] \/ (resv[x].state # "CONFIRMED" /\ resv'[x].state # "CONFIRMED")
  BY <1>0, <1>1, ReleasedFacts, RowFacts
<1>3. \A c \in Booking :
        status'[c] = status[c] \/ (status[c] = "PENDING_PAYMENT" /\ status'[c] = "EXPIRED")
  BY DEF Drop
<1> QED BY <1>2, <1>3, StutterStep

LEMMA CancelStep ==
  ASSUME TypeOK, TypeOK', NEW b \in Booking, CancelManagedBooking(b)
  PROVE  Promise!Cancel(b)
<1> DEFINE S == {x \in RoomsOf(b) : resv[x].state = "CONFIRMED"}
<1>0. TypeOK /\ TypeOK'
  OBVIOUS
<1>1. /\ status[b] = "CONFIRMED" /\ status' = [status EXCEPT ![b] = "CANCELLED"]
      /\ resv' = Released(resv, S) /\ S \in SUBSET BookingRoom
  BY DEF CancelManagedBooking, RoomsOf
<1>2. StayLife[b] = "confirmed"
  BY <1>0, <1>1, StayFacts
<1>3. StayLife' = [StayLife EXCEPT ![b] = "cancelled"]
  <2>1. \A c \in Booking : status'[c] = IF c = b THEN "CANCELLED" ELSE status[c]
    BY <1>0, <1>1 DEF TypeOK
  <2>2. \A c \in Booking : StayLife'[c] = IF c = b THEN "cancelled" ELSE StayLife[c]
    BY <1>0, <2>1, StayFacts, StayFactsNext
  <2>3. StayLife = [c \in Booking |-> StayLife[c]] /\ StayLife' = [c \in Booking |-> StayLife'[c]]
    BY <1>0, StayFacts, StayFactsNext
  <2> QED BY <2>2, <2>3
<1>4. StayRoom' = [x \in BookingRoom |-> IF bookingOf[x] = b THEN NoRoom ELSE StayRoom[x]]
  <2>1. ASSUME NEW x \in BookingRoom
        PROVE  StayRoom'[x] = IF bookingOf[x] = b THEN NoRoom ELSE StayRoom[x]
    <3>1. CASE bookingOf[x] = b
      <4>1. x \in S => resv'[x] = NoReservation
        BY <1>0, <1>1, ReleasedFacts
      <4>2. resv'[x].state # "CONFIRMED"
        BY <1>0, <1>1, <3>1, <4>1, ReleasedFacts, RowFacts DEF RoomsOf
      <4> QED BY <1>0, <3>1, <4>2, StayFactsNext
    <3>2. CASE bookingOf[x] # b
      <4>1. x \notin S
        BY <3>2 DEF RoomsOf
      <4>2. resv'[x] = resv[x]
        BY <1>0, <1>1, <4>1, ReleasedFacts
      <4> QED BY <1>0, <3>2, <4>2, StayFacts, StayFactsNext
    <3> QED BY <3>1, <3>2
  <2>2. StayRoom' = [x \in BookingRoom |-> StayRoom'[x]]
    BY <1>0, StayFactsNext
  <2> QED BY <2>1, <2>2
<1> QED BY <1>2, <1>3, <1>4 DEF Promise!Cancel

LEMMA InitPromise == Init => Promise!Init
<1> SUFFICES ASSUME Init PROVE Promise!Init
  OBVIOUS
<1>1. StayLife = [b \in Booking |-> "open"]
  BY DEF Init, StayLife
<1>2. StayRoom = [x \in BookingRoom |-> NoRoom]
  BY RowFacts DEF Init, StayRoom
<1> QED BY <1>1, <1>2 DEF Promise!Init

LEMMA NextPromise == StayInv /\ StayInv' /\ [Next]_vars => [Promise!Next]_(Promise!stayVars)
<1> SUFFICES ASSUME StayInv, StayInv', [Next]_vars
             PROVE  Promise!Next \/ UNCHANGED <<StayLife, StayRoom>>
  BY DEF Promise!stayVars
<1>0. TypeOK /\ TypeOK'
  BY DEF StayInv
<1>1. ASSUME NEW b \in Booking, CreateHold(b)
      PROVE  UNCHANGED <<StayLife, StayRoom>>
  <2>1. PICK t \in Reading : AllocateRooms(b, t, "HELD")
    BY <1>1 DEF CreateHold
  <2>2. status[b] = "NONE"
    BY <1>1 DEF CreateHold
  <2>3. \A x \in BookingRoom : bookingOf[x] = b =>
          resv[x].state # "CONFIRMED" /\ resv'[x].state # "CONFIRMED"
    BY <1>0, <2>1, <2>2, AllocationOthers, BookingAssumption DEF StayInv, RowsFollowStatus
  <2>4. \A x \in BookingRoom :
          resv'[x] = resv[x] \/ (resv[x].state # "CONFIRMED" /\ resv'[x].state # "CONFIRMED")
    BY <1>0, <2>1, <2>3, AllocationOthers
  <2>5. \A c \in Booking :
           \/ status'[c] = status[c]
           \/ /\ status[c] \in {"NONE", "PENDING_PAYMENT"}
              /\ status'[c] \in {"PENDING_PAYMENT", "EXPIRED"}
    BY <1>0, <2>1, <2>2, AllocationOthers
  <2> QED BY <1>0, <2>4, <2>5, StutterStep
<1>2. ASSUME NEW b \in Booking, CreateStaffBooking(b) \/ AllocatePaidUnallocated(b)
      PROVE  Promise!Confirm(b)
  <2>1. PICK t \in Reading : AllocateRooms(b, t, "CONFIRMED")
    BY <1>2 DEF CreateStaffBooking, AllocatePaidUnallocated
  <2>2. status[b] \notin {"CONFIRMED", "CANCELLED"}
    BY <1>2 DEF CreateStaffBooking, AllocatePaidUnallocated
  <2> QED BY <1>0, <2>1, <2>2, AllocationOthers, ConfirmStep
<1>3. ASSUME NEW b \in Booking, CreatePaymentOrder(b) \/ Capture(b) \/ SettleUnallocated(b)
      PROVE  UNCHANGED <<StayLife, StayRoom>>
  BY <1>3 DEF CreatePaymentOrder, Capture, SettleUnallocated, StayLife, StayRoom
<1>4. ASSUME NEW b \in Booking, SettleConfirmed(b)
      PROVE  Promise!Confirm(b)
  <2>1. status[b] = "PENDING_PAYMENT" /\ status' = [status EXCEPT ![b] = "CONFIRMED"]
    BY <1>4 DEF SettleConfirmed, HoldLapsed
  <2>2. \A x \in BookingRoom : bookingOf[x] # b => resv'[x] = resv[x]
    BY <1>4 DEF SettleConfirmed
  <2>3. status'[b] = "CONFIRMED" /\ \A c \in Booking \ {b} : status'[c] = status[c]
    BY <1>0, <2>1 DEF TypeOK
  <2>4. \A x \in BookingRoom : bookingOf[x] = b => resv[x].state = "HELD"
    BY <2>1 DEF StayInv, RowsFollowStatus
  <2>5. \A x \in BookingRoom : bookingOf[x] = b => resv'[x].state = "CONFIRMED"
    BY <1>4, <2>4 DEF SettleConfirmed, Live
  <2> QED BY <2>1, <2>2, <2>3, <2>5, ConfirmStep
<1>5. ASSUME NEW b \in Booking, ExpireStaffHold(b)
      PROVE  UNCHANGED <<StayLife, StayRoom>>
  BY <1>0, <1>5, DropStutter DEF ExpireStaffHold
<1>6. ASSUME NEW b \in Booking, CancelManagedBooking(b)
      PROVE  Promise!Cancel(b)
  BY <1>0, <1>6, CancelStep
<1>7. ASSUME ExpireStaleHolds PROVE UNCHANGED <<StayLife, StayRoom>>
  BY <1>0, <1>7, DropStutter DEF ExpireStaleHolds, Stale
<1>8. ASSUME Tick \/ UNCHANGED vars PROVE UNCHANGED <<StayLife, StayRoom>>
  BY <1>8 DEF Tick, vars, StayLife, StayRoom
<1> QED
  BY <1>1, <1>2, <1>3, <1>4, <1>5, <1>6, <1>7, <1>8 DEF Next, Promise!Next

(* The transactions implement Stays.tla: each one confirms one stay with a *)
(* full set of suitable rooms nobody else owns, cancels one, or changes    *)
(* nothing a guest or the desk relies on.                                  *)
THEOREM ImplementsStays == Spec => KeepsPromise
BY InitPromise, StayInvHolds, NextPromise, Invariance, PTL DEF Spec, KeepsPromise, Promise!Spec
=============================================================================
