--------------------------- MODULE RoomDeskProofs ---------------------------
(***************************************************************************)
(* Theorems about RoomDesk.tla, for every set of bookings, rooms and       *)
(* blocks: whatever the desk's transactions do between their read and      *)
(* their write, no room is given away twice, every guest has a room of the *)
(* kind that was paid for, and only a stay paid after its deadline can     *)
(* lose a room.                                                            *)
(*                                                                         *)
(* RoomsMatchStatus, on which the proofs about Booking.tla rest, fails     *)
(* here: the sweep of a desk transaction may take the rows of a booking    *)
(* confirmed meanwhile.  What is left of it is that a hold which still     *)
(* waits has all its rows (HoldsWhole), and that what a transaction has    *)
(* read as lapsed stays past its deadline (DeskReads).                     *)
(***************************************************************************)
EXTENDS RoomDesk, BookingProofs

HoldsWhole ==
  \A x \in BookingRoom :
    status[bookingOf[x]] = "PENDING_PAYMENT" =>
      resv[x].state = "HELD" /\ holdExpires[bookingOf[x]] > 0

(* What a desk transaction has read is still true when it writes: the rows *)
(* are past their deadline, and the move stays in the group.               *)
DeskReads ==
  /\ \A x \in desk.lapsed :
       /\ status[bookingOf[x]] # "NONE"
       /\ 0 < holdExpires[bookingOf[x]] /\ holdExpires[bookingOf[x]] <= now
  /\ desk # NoDesk /\ desk.of \in BookingRoom =>
       roomGroupId[desk.to] = roomGroupId[desk.of]

(* An upgraded stay was confirmed and never waits for payment again.       *)
UpgradesFinal ==
  \A x \in upgraded : status[bookingOf[x]] \in {"CONFIRMED", "CANCELLED"}

DeskInv ==
  /\ DeskTypeOK
  /\ RoomsApart /\ RoomsDeliver /\ OnlyLateRoomsAreLost
  /\ HoldsWhole /\ DeskReads /\ UpgradesFinal
  /\ OrdersFollowHolds /\ MoneyAccounted

-----------------------------------------------------------------------------
(* The chart row by row: booked rooms, and blocks.                         *)
LEMMA Chart ==
  /\ \A x \in BookingRoom :
       /\ x \notin Block /\ bookingOf[x] \in Booking
       /\ RoomHeldBy(x) = resv[x].room /\ Nights(x) = NightsOf(bookingOf[x])
       /\ FirstNight(x) = checkIn[bookingOf[x]] /\ LastDay(x) = checkOut[bookingOf[x]]
  /\ \A k \in Block :
       /\ k \notin BookingRoom /\ RoomHeldBy(k) = blocks[k]
       /\ FirstNight(k) = blockIn[k] /\ LastDay(k) = blockOut[k]
BY BookingAssumption, BlockAssumption
   DEF RoomHeldBy, Nights, NightsOf, FirstNight, LastDay

LEMMA DaysAreNumbers ==
  \A z \in Target : FirstNight(z) \in Nat /\ LastDay(z) \in Nat
BY BookingAssumption, BlockAssumption DEF Target, FirstNight, LastDay

LEMMA NoClashNoSharedNight ==
  ASSUME NEW y \in Target, NEW z \in Target, ~Clash(y, z)
  PROVE  Nights(y) \cap Nights(z) = {} /\ ~Clash(z, y)
BY DaysAreNumbers DEF Clash, Nights

BlocksApart(chart, marks) ==
  \A k \in Block : marks[k] # NoRoom =>
    /\ \A x \in BookingRoom : chart[x].room = marks[k] => Nights(x) \cap Nights(k) = {}
    /\ \A l \in Block \ {k} : marks[l] = marks[k] => Nights(l) \cap Nights(k) = {}

LEMMA ApartParts == RoomsApart <=> NoDoubleBooking /\ BlocksApart(resv, blocks)
<1>1. ASSUME RoomsApart PROVE NoDoubleBooking
  BY <1>1, Chart DEF RoomsApart, NoDoubleBooking, Target
<1>2. ASSUME RoomsApart PROVE BlocksApart(resv, blocks)
  BY <1>2, Chart DEF RoomsApart, BlocksApart, Target
<1>3. ASSUME NoDoubleBooking, BlocksApart(resv, blocks) PROVE RoomsApart
  <2> SUFFICES ASSUME NEW y \in Target, NEW z \in Target, y # z,
                      RoomHeldBy(y) # NoRoom, RoomHeldBy(y) = RoomHeldBy(z)
               PROVE  Nights(y) \cap Nights(z) = {}
    BY DEF RoomsApart
  <2>1. CASE y \in BookingRoom /\ z \in BookingRoom
    BY <1>3, <2>1, Chart DEF NoDoubleBooking
  <2>2. CASE y \in BookingRoom /\ z \in Block
    BY <1>3, <2>2, Chart DEF BlocksApart
  <2>3. CASE y \in Block /\ z \in BookingRoom
    <3>1. Nights(z) \cap Nights(y) = {}
      BY <1>3, <2>3, Chart DEF BlocksApart
    <3> QED BY <3>1
  <2>4. CASE y \in Block /\ z \in Block
    BY <1>3, <2>4, Chart DEF BlocksApart
  <2> QED BY <2>1, <2>2, <2>3, <2>4 DEF Target
<1> QED BY <1>1, <1>2, <1>3

LEMMA RowParts ==
  ASSUME DeskTypeOK
  PROVE  /\ resv \in [BookingRoom -> Reservation] /\ blocks \in [Block -> Room \cup {NoRoom}]
         /\ \A x \in BookingRoom :
              /\ resv[x] \in Reservation /\ bookingOf[x] \in Booking
              /\ resv[x] # NoReservation =>
                   resv[x].room \in Room /\ resv[x].state \in {"HELD", "CONFIRMED"}
              /\ resv[x].room # NoRoom <=> resv[x] # NoReservation
         /\ upgraded \subseteq BookingRoom /\ now \in Nat
         /\ desk.lapsed \subseteq BookingRoom
BY BookingAssumption, RowFacts DEF DeskTypeOK, TypeOK, NoDesk

LEMMA Fits == ASSUME RoomsDeliver PROVE RoomsFit
BY DEF RoomsDeliver, RoomsFit, Satisfies, WantsAc

-----------------------------------------------------------------------------
(* Rows that only disappear, or change their state, leave the chart right. *)
LEMMA NoNewRooms ==
  ASSUME DeskInv, UNCHANGED <<blocks, upgraded>>,
         \A x \in BookingRoom :
           \/ resv'[x] = NoReservation
           \/ resv[x] # NoReservation /\ resv'[x].room = resv[x].room
  PROVE  RoomsApart' /\ RoomsDeliver'
<1>1. \A x \in BookingRoom : resv'[x].room = NoRoom \/ resv'[x].room = resv[x].room
  BY RowFacts
<1>2. NoDoubleBooking /\ BlocksApart(resv, blocks)
  BY ApartParts DEF DeskInv
<1>3. NoDoubleBooking'
  BY <1>1, <1>2 DEF NoDoubleBooking, NightsOf
<1>4. BlocksApart(resv, blocks)'
  BY <1>1, <1>2 DEF BlocksApart, Nights, FirstNight, LastDay
<1>5. RoomsApart'
  BY <1>3, <1>4, ApartParts, PTL
<1>6. RoomsDeliver'
  BY DEF DeskInv, RoomsDeliver, WantsAc
<1> QED BY <1>5, <1>6

(* An allocation looks at the blocks too, and never at an upgraded stay.   *)
LEMMA AllocationOnChart ==
  ASSUME DeskInv, NEW b \in Booking, NEW kind \in {"HELD", "CONFIRMED"},
         NEW lapsed \in SUBSET BookingRoom, AllocationEffect(b, kind, lapsed),
         status[b] \notin {"CONFIRMED", "CANCELLED"}, OffBlocks(b), UNCHANGED deskVars
  PROVE  RoomsApart' /\ RoomsDeliver'
<1>1. /\ TypeOK /\ NoDoubleBooking /\ BlocksApart(resv, blocks)
      /\ UNCHANGED <<blocks, upgraded, desk>>
  BY ApartParts DEF DeskInv, DeskTypeOK, deskVars
<1>2. NoDoubleBooking'
  BY <1>1, AllocationKeepsRoomsApart
<1>3. \A x \in BookingRoom : bookingOf[x] # b =>
        resv'[x] = resv[x] \/ resv'[x] = NoReservation
  BY DEF AllocationEffect
<1>4. BlocksApart(resv, blocks)'
  <2> SUFFICES ASSUME NEW k \in Block, blocks[k] # NoRoom, NEW x \in BookingRoom,
                      resv'[x].room = blocks[k]
               PROVE  Nights(x) \cap Nights(k) = {}
    BY <1>1 DEF BlocksApart, Nights, FirstNight, LastDay
  <2>1. CASE bookingOf[x] = b
    <3>1. ~Clash(x, k)
      BY <2>1 DEF OffBlocks, RoomsOf
    <3> QED BY <3>1, NoClashNoSharedNight DEF Target
  <2>2. CASE bookingOf[x] # b
    <3>1. resv[x].room = blocks[k]
      BY <1>3, <2>2, RowFacts
    <3> QED BY <1>1, <3>1 DEF BlocksApart
  <2> QED BY <2>1, <2>2
<1>5. RoomsApart'
  BY <1>2, <1>4, ApartParts, PTL
<1>6. RoomsDeliver'
  <2> SUFFICES ASSUME NEW x \in BookingRoom, resv'[x] # NoReservation
               PROVE  /\ roomGroupId[resv'[x].room] = roomGroupId[x]
                      /\ WantsAc(x) => resv'[x].room \in supportsAc
    BY <1>1 DEF RoomsDeliver, WantsAc
  <2>1. CASE bookingOf[x] = b
    <3>1. x \notin upgraded /\ Satisfies(resv'[x].room, x)
      BY <2>1 DEF DeskInv, UpgradesFinal, AllocationEffect
    <3> QED BY <3>1 DEF Satisfies, WantsAc
  <2>2. CASE bookingOf[x] # b
    BY <1>3, <2>2 DEF DeskInv, RoomsDeliver
  <2> QED BY <2>1, <2>2
<1> QED BY <1>5, <1>6

-----------------------------------------------------------------------------
(* A room found free, for a booking room or for a block.                   *)
LEMMA FreeFor ==
  ASSUME NEW rows, NEW r \in Room, NEW z \in Target, IsRoomFree(rows, r, z)
  PROVE  /\ \A y \in BookingRoom \ {z} :
              rows[y].room = r => Nights(y) \cap Nights(z) = {} /\ Nights(z) \cap Nights(y) = {}
         /\ \A k \in Block \ {z} :
              blocks[k] = r => Nights(k) \cap Nights(z) = {} /\ Nights(z) \cap Nights(k) = {}
<1>1. \A y \in Target : ~Clash(y, z) =>
        Nights(y) \cap Nights(z) = {} /\ Nights(z) \cap Nights(y) = {}
  BY NoClashNoSharedNight
<1> QED BY <1>1 DEF IsRoomFree, Target

(* A booked room moves to a free one, other rows go at most.               *)
LEMMA MoveOnChart ==
  ASSUME DeskInv, NEW x \in BookingRoom, NEW r \in Room, blocks' = blocks,
         \A y \in BookingRoom \ {x} : resv'[y] = resv[y] \/ resv'[y] = NoReservation,
         resv'[x].room = r,
         \A y \in BookingRoom \ {x} : resv'[y].room = r => Nights(y) \cap Nights(x) = {},
         \A k \in Block : blocks[k] = r => Nights(k) \cap Nights(x) = {}
  PROVE  RoomsApart'
<1>1. NoDoubleBooking /\ BlocksApart(resv, blocks)
  BY ApartParts DEF DeskInv
<1>2. NoDoubleBooking'
  <2> SUFFICES ASSUME NEW y \in BookingRoom, NEW z \in BookingRoom, y # z,
                      resv'[y].room # NoRoom, resv'[y].room = resv'[z].room
               PROVE  Nights(y) \cap Nights(z) = {}
    BY Chart DEF NoDoubleBooking, NightsOf
  <2>1. CASE y = x
    <3>1. Nights(z) \cap Nights(y) = {}
      BY <2>1
    <3> QED BY <3>1
  <2>2. CASE z = x
    BY <2>2
  <2>3. CASE y # x /\ z # x
    <3>1. resv'[y] = resv[y] /\ resv'[z] = resv[z]
      BY <2>3, RowFacts
    <3> QED BY <1>1, <3>1, Chart DEF NoDoubleBooking
  <2> QED BY <2>1, <2>2, <2>3
<1>3. BlocksApart(resv, blocks)'
  <2> SUFFICES ASSUME NEW k \in Block, blocks[k] # NoRoom, NEW y \in BookingRoom,
                      resv'[y].room = blocks[k]
               PROVE  Nights(y) \cap Nights(k) = {}
    BY <1>1 DEF BlocksApart, Nights, FirstNight, LastDay
  <2>1. CASE y = x
    <3>1. Nights(k) \cap Nights(x) = {}
      BY <2>1
    <3> QED BY <2>1, <3>1
  <2>2. CASE y # x
    <3>1. resv'[y] = resv[y]
      BY <2>2, RowFacts
    <3> QED BY <1>1, <3>1 DEF BlocksApart
  <2> QED BY <2>1, <2>2
<1> QED BY <1>2, <1>3, ApartParts, PTL

(* A room is taken out of use.                                             *)
LEMMA BlockOnChart ==
  ASSUME DeskInv, NEW k \in Block, NEW r \in Room,
         \A y \in BookingRoom : resv'[y] = resv[y] \/ resv'[y] = NoReservation,
         \A l \in Block : blocks'[l] = IF l = k THEN r ELSE blocks[l],
         \A y \in BookingRoom : resv'[y].room = r => Nights(y) \cap Nights(k) = {},
         \A l \in Block \ {k} : blocks[l] = r =>
           Nights(l) \cap Nights(k) = {} /\ Nights(k) \cap Nights(l) = {}
  PROVE  RoomsApart'
<1>1. NoDoubleBooking /\ BlocksApart(resv, blocks)
  BY ApartParts DEF DeskInv
<1>2. \A y \in BookingRoom : resv'[y].room = NoRoom \/ resv'[y].room = resv[y].room
  BY RowFacts
<1>3. NoDoubleBooking'
  BY <1>1, <1>2 DEF NoDoubleBooking, NightsOf
<1>4. BlocksApart(resv, blocks)'
  <2>1. ASSUME NEW l \in Block, blocks'[l] # NoRoom, NEW y \in BookingRoom,
               resv'[y].room = blocks'[l]
        PROVE  Nights(y) \cap Nights(l) = {}
    BY <1>1, <1>2, <2>1 DEF BlocksApart
  <2>2. ASSUME NEW l \in Block, blocks'[l] # NoRoom, NEW m \in Block \ {l},
               blocks'[m] = blocks'[l]
        PROVE  Nights(m) \cap Nights(l) = {}
    BY <1>1, <2>2 DEF BlocksApart
  <2> QED BY <2>1, <2>2 DEF BlocksApart, Nights, FirstNight, LastDay
<1> QED BY <1>3, <1>4, ApartParts, PTL

-----------------------------------------------------------------------------
(* What a step of a booking does to the rest of the invariant.             *)
DeskRest == OnlyLateRoomsAreLost /\ HoldsWhole /\ DeskReads /\ UpgradesFinal
Account == OrdersFollowHolds /\ MoneyAccounted

LEMMA DeskInvParts == DeskInv <=>
  DeskTypeOK /\ RoomsApart /\ RoomsDeliver /\ DeskRest /\ Account
BY DEF DeskInv, DeskRest, Account

LEMMA DeskTypeKept ==
  ASSUME DeskTypeOK, TypeOK', UNCHANGED deskVars, now' \in {now, now + 1}
  PROVE  DeskTypeOK'
<1>1. now \in Nat /\ UNCHANGED <<blocks, upgraded, desk>>
  BY DEF DeskTypeOK, TypeOK, deskVars
<1>2. desk = NoDesk \/
        desk \in [of : Target, to : Room, lapsed : SUBSET BookingRoom, since : 0..now']
  <2>1. 0..now \subseteq 0..now'
    BY <1>1
  <2> QED BY <2>1 DEF DeskTypeOK
<1> QED BY <1>1, <1>2 DEF DeskTypeOK, Target

LEMMA AllocationType ==
  ASSUME TypeOK, NEW b \in Booking, NEW kind \in {"HELD", "CONFIRMED"},
         NEW lapsed \in SUBSET BookingRoom, AllocationEffect(b, kind, lapsed),
         UNCHANGED <<now, payment, recorded>>, holdExpires' \in [Booking -> Nat],
         outbox' \subseteq Template \X Booking
  PROVE  TypeOK'
<1>1. status' \in [Booking -> Status] /\ order' \in [Booking -> OrderStatus]
  BY AllocationBookings
<1>2. resv' \in [BookingRoom -> Reservation]
  BY DEF AllocationEffect
<1> QED BY <1>1, <1>2 DEF TypeOK

LEMMA AllocationRest ==
  ASSUME DeskInv, NEW b \in Booking, NEW kind \in {"HELD", "CONFIRMED"},
         NEW lapsed \in SUBSET BookingRoom, AllocationEffect(b, kind, lapsed),
         status[b] \notin {"CONFIRMED", "CANCELLED"}, UNCHANGED <<now, upgraded, desk>>,
         \A c \in Booking \ {b} : holdExpires'[c] = holdExpires[c],
         status[b] = "NONE" \/ holdExpires'[b] = holdExpires[b],
         kind = "HELD" => holdExpires'[b] > 0
  PROVE  DeskRest'
<1> USE RowParts DEF DeskInv
<1>1. /\ status'[b] = IF kind = "HELD" THEN "PENDING_PAYMENT" ELSE "CONFIRMED"
      /\ \A c \in Booking \ {b} :
           \/ c \notin Owners(lapsed) /\ status'[c] = status[c]
           \/ c \in Owners(lapsed) /\ status[c] = "PENDING_PAYMENT" /\ status'[c] = "EXPIRED"
  BY AllocationBookings DEF DeskTypeOK
<1>2. \A x \in BookingRoom : bookingOf[x] = b => resv'[x].state = kind
  BY DEF AllocationEffect
<1>3. \A x \in BookingRoom : bookingOf[x] # b =>
        \/ resv'[x] = resv[x] /\ status'[bookingOf[x]] = status[bookingOf[x]]
        \/ status'[bookingOf[x]] = "EXPIRED" /\ status[bookingOf[x]] = "PENDING_PAYMENT"
  BY <1>1 DEF AllocationEffect, Owners
<1>4. OnlyLateRoomsAreLost'
  BY <1>1, <1>2, <1>3 DEF OnlyLateRoomsAreLost
<1>5. HoldsWhole'
  BY <1>1, <1>2, <1>3 DEF HoldsWhole
<1>6. DeskReads'
  BY <1>1, <1>3 DEF DeskReads
<1>7. UpgradesFinal'
  BY <1>1, <1>3 DEF UpgradesFinal
<1> QED BY <1>4, <1>5, <1>6, <1>7 DEF DeskRest

LEMMA AllocationAccount ==
  ASSUME DeskInv, NEW b \in Booking, NEW kind \in {"HELD", "CONFIRMED"},
         NEW lapsed \in SUBSET BookingRoom, AllocationEffect(b, kind, lapsed),
         \/ status[b] = "NONE"
         \/ order[b] = "PAID_UNALLOCATED" /\ kind = "CONFIRMED",
         UNCHANGED <<payment, recorded>>, outbox \subseteq outbox'
  PROVE  Account'
<1>1. /\ status'[b] = IF kind = "HELD" THEN "PENDING_PAYMENT" ELSE "CONFIRMED"
      /\ order'[b] = IF order[b] = "PAID_UNALLOCATED" THEN "PAID" ELSE order[b]
      /\ \A c \in Booking \ {b} :
           \/ status'[c] = status[c] /\ order'[c] = order[c]
           \/ /\ status[c] = "PENDING_PAYMENT" /\ status'[c] = "EXPIRED"
              /\ order[c] # "PAID"
              /\ \/ order'[c] = IF order[c] = "PENDING" THEN "EXPIRED" ELSE order[c]
                 \/ order[c] = "NONE" /\ order'[c] = "PENDING"
  BY AllocationBookings DEF DeskInv, DeskTypeOK
<1>2. \A c \in Booking : order[c] \in OrderStatus
  BY DEF DeskInv, DeskTypeOK, TypeOK
<1>3. Account
  BY DEF DeskInv, Account
<1>4. OrdersFollowHolds'
  BY <1>1, <1>2, <1>3 DEF Account, OrdersFollowHolds, MoneyAccounted, OrderStatus
<1>5. MoneyAccounted'
  BY <1>1, <1>2, <1>3 DEF Account, OrdersFollowHolds, MoneyAccounted, OrderStatus
<1> QED BY <1>4, <1>5 DEF Account

LEMMA CreateHoldDesk ==
  ASSUME DeskInv, NEW b \in Booking, CreateHold(b), OffBlocks(b), UNCHANGED deskVars
  PROVE  DeskInv'
<1>1. PICK t \in Reading :
        AllocateRooms(b, t, "HELD") /\ holdExpires' = [holdExpires EXCEPT ![b] = t + HoldTtl]
  BY DEF CreateHold
<1>2. PICK lapsed \in SUBSET BookingRoom : AllocationEffect(b, "HELD", lapsed)
  BY <1>1, AllocationRows DEF DeskInv, DeskTypeOK
<1>3. /\ status[b] = "NONE" /\ UNCHANGED <<now, payment, recorded, outbox>>
      /\ UNCHANGED <<blocks, upgraded, desk>>
  BY DEF CreateHold, deskVars
<1>4. /\ holdExpires' \in [Booking -> Nat] /\ holdExpires'[b] > 0
      /\ \A c \in Booking \ {b} : holdExpires'[c] = holdExpires[c]
  BY <1>1, BookingAssumption DEF DeskInv, DeskTypeOK, TypeOK, Reading
<1>5. TypeOK'
  <2>1. TypeOK /\ outbox' \subseteq Template \X Booking /\ holdExpires' \in [Booking -> Nat]
    BY <1>3, <1>4 DEF DeskInv, DeskTypeOK, TypeOK
  <2> QED BY <1>2, <1>3, <2>1, AllocationType
<1>6. DeskTypeOK'
  BY <1>3, <1>5, DeskTypeKept DEF DeskInv
<1>7. RoomsApart' /\ RoomsDeliver'
  BY <1>2, <1>3, AllocationOnChart
<1>8. DeskRest'
  BY <1>2, <1>3, <1>4, AllocationRest
<1>9. Account'
  BY <1>2, <1>3, AllocationAccount
<1> QED BY <1>6, <1>7, <1>8, <1>9, DeskInvParts, PTL

LEMMA ConfirmingDesk ==
  ASSUME DeskInv, NEW b \in Booking, OffBlocks(b), UNCHANGED deskVars,
         CreateStaffBooking(b) \/ AllocatePaidUnallocated(b)
  PROVE  DeskInv'
<1>1. PICK t \in Reading : AllocateRooms(b, t, "CONFIRMED")
  BY DEF CreateStaffBooking, AllocatePaidUnallocated
<1>2. PICK lapsed \in SUBSET BookingRoom : AllocationEffect(b, "CONFIRMED", lapsed)
  BY <1>1, AllocationRows DEF DeskInv, DeskTypeOK
<1>3. /\ status[b] \in {"NONE", "PENDING_PAYMENT", "EXPIRED"}
      /\ status[b] = "NONE" \/ order[b] = "PAID_UNALLOCATED"
      /\ UNCHANGED <<now, holdExpires, payment, recorded>>
      /\ UNCHANGED <<blocks, upgraded, desk>>
  BY DEF CreateStaffBooking, AllocatePaidUnallocated, deskVars
<1>4. outbox \subseteq outbox' /\ outbox' \subseteq outbox \cup (Template \X {b})
  BY DEF CreateStaffBooking, AllocatePaidUnallocated, NotifyConfirmed, Template
<1>5. TypeOK'
  <2>1. TypeOK /\ outbox' \subseteq Template \X Booking /\ holdExpires' \in [Booking -> Nat]
    BY <1>3, <1>4 DEF DeskInv, DeskTypeOK, TypeOK
  <2> QED BY <1>2, <1>3, <2>1, AllocationType
<1>6. DeskTypeOK'
  BY <1>3, <1>5, DeskTypeKept DEF DeskInv
<1>7. RoomsApart' /\ RoomsDeliver'
  BY <1>2, <1>3, AllocationOnChart
<1>8. DeskRest'
  BY <1>2, <1>3, AllocationRest
<1>9. Account'
  BY <1>2, <1>3, <1>4, AllocationAccount
<1> QED BY <1>6, <1>7, <1>8, <1>9, DeskInvParts, PTL

-----------------------------------------------------------------------------
(* Steps that leave rows and statuses alone.                               *)
LEMMA QuietDesk ==
  ASSUME DeskInv, UNCHANGED deskVars, UNCHANGED <<status, holdExpires, resv>>,
         now' \in {now, now + 1}, TypeOK', Account'
  PROVE  DeskInv'
<1>1. UNCHANGED <<blocks, upgraded, desk>> /\ now \in Nat
  BY DEF deskVars, DeskInv, DeskTypeOK, TypeOK
<1>2. DeskTypeOK'
  BY DeskTypeKept DEF DeskInv
<1>3. RoomsApart' /\ RoomsDeliver'
  BY <1>1, NoNewRooms
<1>4. \A b \in Booking : holdExpires[b] \in Nat
  BY DEF DeskInv, DeskTypeOK, TypeOK
<1>5. DeskRest'
  <2>1. OnlyLateRoomsAreLost' /\ HoldsWhole' /\ UpgradesFinal'
    BY <1>1, <1>4, BookingAssumption
       DEF DeskInv, OnlyLateRoomsAreLost, HoldsWhole, UpgradesFinal
  <2>2. DeskReads'
    BY <1>1, <1>4, RowParts, BookingAssumption DEF DeskInv, DeskReads
  <2> QED BY <2>1, <2>2 DEF DeskRest
<1> QED BY <1>2, <1>3, <1>5, DeskInvParts, PTL

LEMMA QuietActions ==
  ASSUME DeskInv, UNCHANGED deskVars, NEW b \in Booking,
         CreatePaymentOrder(b) \/ Capture(b) \/ SettleUnallocated(b) \/ Tick
  PROVE  DeskInv'
<1>1. TypeOK /\ OrdersFollowHolds /\ MoneyAccounted
  BY DEF DeskInv, DeskTypeOK
<1>2. CASE CreatePaymentOrder(b)
  <2>1. /\ status[b] = "PENDING_PAYMENT" /\ order[b] = "NONE"
        /\ order' = [order EXCEPT ![b] = "PENDING"]
        /\ UNCHANGED <<now, status, holdExpires, resv, payment, recorded, outbox>>
    BY <1>2 DEF CreatePaymentOrder
  <2>2. TypeOK'
    BY <1>1, <2>1 DEF TypeOK, OrderStatus
  <2>3. OrdersFollowHolds' /\ MoneyAccounted'
    BY <1>1, <2>1 DEF TypeOK, OrdersFollowHolds, MoneyAccounted
  <2> QED BY <2>1, <2>2, <2>3, QuietDesk DEF Account
<1>3. CASE Capture(b)
  <2>1. PICK c \in {"EXACT", "MISMATCH"} : payment' = [payment EXCEPT ![b] = c]
    BY <1>3 DEF Capture
  <2>2. /\ order[b] # "NONE" /\ payment[b] = "NONE"
        /\ UNCHANGED <<now, status, holdExpires, resv, order, recorded, outbox>>
    BY <1>3 DEF Capture
  <2>3. TypeOK'
    BY <1>1, <2>1, <2>2 DEF TypeOK, Captured
  <2>4. OrdersFollowHolds' /\ MoneyAccounted'
    BY <1>1, <2>1, <2>2 DEF TypeOK, OrdersFollowHolds, MoneyAccounted
  <2> QED BY <2>2, <2>3, <2>4, QuietDesk DEF Account
<1>4. CASE SettleUnallocated(b)
  <2>1. /\ payment[b] = "EXACT" /\ order[b] # "PAID_UNALLOCATED" /\ b \notin recorded
        /\ order' = [order EXCEPT ![b] = "PAID_UNALLOCATED"] /\ recorded' = recorded \cup {b}
        /\ outbox' = outbox \cup {<<"staff_payment_exception", b>>}
        /\ UNCHANGED <<now, status, holdExpires, resv, payment>>
    BY <1>4 DEF SettleUnallocated, Undecided, NotifyPaymentException
  <2>2. TypeOK'
    BY <1>1, <2>1 DEF TypeOK, OrderStatus, Template
  <2>3. OrdersFollowHolds' /\ MoneyAccounted'
    BY <1>1, <2>1 DEF TypeOK, OrderStatus, OrdersFollowHolds, MoneyAccounted
  <2> QED BY <2>1, <2>2, <2>3, QuietDesk DEF Account
<1>5. CASE Tick
  <2>1. /\ now' = now + 1
        /\ UNCHANGED <<status, holdExpires, resv, order, payment, recorded, outbox>>
    BY <1>5 DEF Tick
  <2>2. TypeOK' /\ OrdersFollowHolds' /\ MoneyAccounted'
    BY <1>1, <2>1 DEF TypeOK, OrdersFollowHolds, MoneyAccounted
  <2> QED BY <2>1, <2>2, QuietDesk DEF Account
<1> QED BY <1>2, <1>3, <1>4, <1>5

(* A settlement that finds all rows of the hold confirms them all.         *)
LEMMA SettleConfirmedDesk ==
  ASSUME DeskInv, UNCHANGED deskVars, NEW b \in Booking, SettleConfirmed(b)
  PROVE  DeskInv'
<1>1. /\ status[b] = "PENDING_PAYMENT" /\ payment[b] = "EXACT"
      /\ order' = [order EXCEPT ![b] = "PAID"] /\ recorded' = recorded \cup {b}
      /\ status' = [status EXCEPT ![b] = "CONFIRMED"]
      /\ outbox' = outbox \cup {<<"booking_confirmation", b>>, <<"payment_receipt", b>>}
      /\ UNCHANGED <<now, holdExpires, payment>> /\ UNCHANGED <<blocks, upgraded, desk>>
  BY DEF SettleConfirmed, Undecided, HoldLapsed, NotifyConfirmed, deskVars
<1>2. TypeOK /\ OrdersFollowHolds /\ MoneyAccounted
  BY DEF DeskInv, DeskTypeOK
<1>3. \A x \in BookingRoom :
        /\ bookingOf[x] = b => resv'[x] = Live(resv[x].room, "CONFIRMED") /\ resv[x].room \in Room
        /\ bookingOf[x] # b => resv'[x] = resv[x]
  <2>1. \A x \in BookingRoom : bookingOf[x] = b => resv[x].state = "HELD" /\ resv[x].room \in Room
    BY <1>1, RowParts, RowFacts DEF DeskInv, HoldsWhole
  <2> QED BY <2>1 DEF SettleConfirmed
<1>4. \A x \in BookingRoom :
        /\ resv'[x] \in Reservation /\ resv'[x].room = resv[x].room
        /\ resv'[x] = NoReservation <=> resv[x] = NoReservation
        /\ resv'[x].state = IF bookingOf[x] = b THEN "CONFIRMED" ELSE resv[x].state
  <2> TAKE x \in BookingRoom
  <2>1. CASE bookingOf[x] = b
    <3>1. resv[x].room \in Room /\ resv[x] # NoReservation
      BY <1>3, <2>1, RowFacts, BookingAssumption
    <3>2. /\ Live(resv[x].room, "CONFIRMED") \in Reservation
          /\ Live(resv[x].room, "CONFIRMED") # NoReservation
          /\ Live(resv[x].room, "CONFIRMED").room = resv[x].room
          /\ Live(resv[x].room, "CONFIRMED").state = "CONFIRMED"
      BY <3>1, RowFacts
    <3> QED BY <1>3, <2>1, <3>1, <3>2
  <2>2. CASE bookingOf[x] # b
    BY <1>3, <2>2, RowParts DEF DeskInv
  <2> QED BY <2>1, <2>2
<1>5. TypeOK'
  <2>1. resv' = [x \in BookingRoom |-> resv'[x]]
    BY DEF SettleConfirmed
  <2>2. resv' \in [BookingRoom -> Reservation]
    BY <1>4, <2>1
  <2>3. /\ status' \in [Booking -> Status] /\ order' \in [Booking -> OrderStatus]
        /\ recorded' \subseteq Booking /\ outbox' \subseteq Template \X Booking
    BY <1>1, <1>2 DEF TypeOK, Status, OrderStatus, Template
  <2> QED BY <1>1, <1>2, <2>2, <2>3 DEF TypeOK
<1>6. DeskTypeOK'
  BY <1>1, <1>5, DeskTypeKept DEF DeskInv
<1>7. RoomsApart' /\ RoomsDeliver'
  BY <1>1, <1>4, NoNewRooms
<1>8. DeskRest'
  <2>1. \A c \in Booking : status'[c] = IF c = b THEN "CONFIRMED" ELSE status[c]
    BY <1>1, <1>2 DEF TypeOK
  <2>2. OnlyLateRoomsAreLost' /\ HoldsWhole'
    BY <1>1, <1>4, <2>1, RowParts DEF DeskInv, OnlyLateRoomsAreLost, HoldsWhole
  <2>3. DeskReads' /\ UpgradesFinal'
    BY <1>1, <2>1, RowParts DEF DeskInv, DeskReads, UpgradesFinal
  <2> QED BY <2>2, <2>3 DEF DeskRest
<1>9. Account'
  BY <1>1, <1>2 DEF Account, TypeOK, OrdersFollowHolds, MoneyAccounted
<1> QED BY <1>6, <1>7, <1>8, <1>9, DeskInvParts, PTL

LEMMA DropDesk ==
  ASSUME DeskInv, UNCHANGED deskVars, NEW B \in SUBSET Booking, Drop(B),
         \A b \in B : status[b] = "PENDING_PAYMENT" /\ order[b] # "PAID"
  PROVE  DeskInv'
<1> DEFINE S == {x \in BookingRoom : bookingOf[x] \in B /\ resv[x].state = "HELD"}
<1>1. /\ resv' = Released(resv, S) /\ S \in SUBSET BookingRoom /\ order' = OrdersExpired(B)
      /\ status' = [b \in Booking |-> IF b \in B THEN "EXPIRED" ELSE status[b]]
      /\ UNCHANGED <<now, holdExpires, payment, recorded, outbox>>
      /\ UNCHANGED <<blocks, upgraded, desk>>
  BY DEF Drop, deskVars
<1>2. TypeOK /\ OrdersFollowHolds /\ MoneyAccounted
  BY DEF DeskInv, DeskTypeOK
<1>3. /\ resv' \in [BookingRoom -> Reservation]
      /\ \A x \in S : resv'[x] = NoReservation
      /\ \A x \in BookingRoom : x \notin S => resv'[x] = resv[x]
  BY <1>1, <1>2, ReleasedFacts
<1>4. TypeOK'
  BY <1>1, <1>2, <1>3 DEF TypeOK, OrdersExpired, Status, OrderStatus
<1>5. DeskTypeOK'
  BY <1>1, <1>4, DeskTypeKept DEF DeskInv
<1>6. RoomsApart' /\ RoomsDeliver'
  BY <1>1, <1>3, NoNewRooms
<1>7. DeskRest'
  <2>1. /\ \A x \in S : status'[bookingOf[x]] = "EXPIRED"
        /\ \A c \in Booking : status'[c] = IF c \in B THEN "EXPIRED" ELSE status[c]
    BY <1>1, BookingAssumption
  <2>2. OnlyLateRoomsAreLost' /\ HoldsWhole'
    BY <1>1, <1>3, <2>1, RowParts DEF DeskInv, OnlyLateRoomsAreLost, HoldsWhole
  <2>3. DeskReads' /\ UpgradesFinal'
    BY <1>1, <2>1, RowParts DEF DeskInv, DeskReads, UpgradesFinal
  <2> QED BY <2>2, <2>3 DEF DeskRest
<1>8. Account'
  BY <1>1, <1>2
     DEF Account, TypeOK, OrdersExpired, OrderStatus, OrdersFollowHolds, MoneyAccounted
<1> QED BY <1>5, <1>6, <1>7, <1>8, DeskInvParts, PTL

LEMMA CancelDesk ==
  ASSUME DeskInv, UNCHANGED deskVars, NEW b \in Booking, CancelManagedBooking(b)
  PROVE  DeskInv'
<1> DEFINE S == {x \in RoomsOf(b) : resv[x].state = "CONFIRMED"}
<1>1. /\ resv' = Released(resv, S) /\ S \in SUBSET BookingRoom /\ status[b] = "CONFIRMED"
      /\ status' = [status EXCEPT ![b] = "CANCELLED"]
      /\ outbox' = outbox \cup {<<"booking_cancelled", b>>}
      /\ UNCHANGED <<now, holdExpires, order, payment, recorded>>
      /\ UNCHANGED <<blocks, upgraded, desk>>
  BY DEF CancelManagedBooking, NotifyBookingCancelled, RoomsOf, deskVars
<1>2. TypeOK /\ OrdersFollowHolds /\ MoneyAccounted
  BY DEF DeskInv, DeskTypeOK
<1>3. /\ resv' \in [BookingRoom -> Reservation]
      /\ \A x \in S : resv'[x] = NoReservation
      /\ \A x \in BookingRoom : x \notin S => resv'[x] = resv[x]
  BY <1>1, <1>2, ReleasedFacts
<1>4. TypeOK'
  BY <1>1, <1>2, <1>3 DEF TypeOK, Status, Template
<1>5. DeskTypeOK'
  BY <1>1, <1>4, DeskTypeKept DEF DeskInv
<1>6. RoomsApart' /\ RoomsDeliver'
  BY <1>1, <1>3, NoNewRooms
<1>7. DeskRest'
  <2>1. /\ \A x \in S : bookingOf[x] = b
        /\ \A c \in Booking : status'[c] = IF c = b THEN "CANCELLED" ELSE status[c]
    BY <1>1, <1>2 DEF RoomsOf, TypeOK
  <2>2. OnlyLateRoomsAreLost' /\ HoldsWhole'
    BY <1>1, <1>3, <2>1, RowParts DEF DeskInv, OnlyLateRoomsAreLost, HoldsWhole
  <2>3. DeskReads' /\ UpgradesFinal'
    BY <1>1, <2>1, RowParts DEF DeskInv, DeskReads, UpgradesFinal
  <2> QED BY <2>2, <2>3 DEF DeskRest
<1>8. Account'
  BY <1>1, <1>2 DEF Account, TypeOK, OrdersFollowHolds, MoneyAccounted
<1> QED BY <1>5, <1>6, <1>7, <1>8, DeskInvParts, PTL

LEMMA BookingStepDesk == ASSUME DeskInv, BookingStep PROVE DeskInv'
<1>1. UNCHANGED deskVars
  BY DEF BookingStep
<1>2. ASSUME NEW b \in Booking, OffBlocks(b),
             CreateHold(b) \/ CreateStaffBooking(b) \/ AllocatePaidUnallocated(b)
      PROVE  DeskInv'
  BY <1>1, <1>2, CreateHoldDesk, ConfirmingDesk
<1>3. ASSUME NEW b \in Booking,
             \/ CreatePaymentOrder(b) \/ Capture(b) \/ SettleConfirmed(b)
             \/ SettleUnallocated(b) \/ CancelManagedBooking(b)
      PROVE  DeskInv'
  BY <1>1, <1>3, QuietActions, SettleConfirmedDesk, CancelDesk
<1>4. ASSUME NEW b \in Booking, ExpireStaffHold(b)
      PROVE  DeskInv'
  <2>1. {b} \in SUBSET Booking /\ Drop({b}) /\
          \A c \in {b} : status[c] = "PENDING_PAYMENT" /\ order[c] # "PAID"
    BY <1>4 DEF ExpireStaffHold
  <2> QED BY <1>1, <2>1, DropDesk
<1>5. CASE ExpireStaleHolds
  <2>1. PICK t \in Reading : Drop(Stale(t))
    BY <1>5 DEF ExpireStaleHolds
  <2>2. PICK B \in SUBSET Booking :
          Drop(B) /\ \A b \in B : status[b] = "PENDING_PAYMENT" /\ order[b] # "PAID"
    BY <2>1 DEF Stale
  <2> QED BY <1>1, <2>2, DropDesk
<1>6. CASE Tick
  <2>1. TypeOK' /\ OrdersFollowHolds' /\ MoneyAccounted' /\ now' = now + 1
        /\ UNCHANGED <<status, holdExpires, resv>>
    BY <1>6 DEF Tick, DeskInv, DeskTypeOK, TypeOK, OrdersFollowHolds, MoneyAccounted
  <2> QED BY <1>1, <2>1, QuietDesk DEF Account
<1> QED BY <1>2, <1>3, <1>4, <1>5, <1>6 DEF BookingStep

-----------------------------------------------------------------------------
(* Steps of the desk that leave the bookings alone.                        *)
LEMMA DeskSweepParts ==
  ASSUME DeskInv, NEW z \in Target, NEW r \in Room, DeskBegin(z, r)
  PROVE  /\ desk' \in [of : Target, to : Room, lapsed : SUBSET BookingRoom, since : 0..now]
         /\ \A x \in desk'.lapsed :
              /\ status[bookingOf[x]] # "NONE"
              /\ 0 < holdExpires[bookingOf[x]] /\ holdExpires[bookingOf[x]] <= now
<1>1. now \in Nat /\ now \in 0..now
  BY DEF DeskInv, DeskTypeOK, TypeOK
<1>2. DeskSweep(r) \in SUBSET BookingRoom
  BY DEF DeskSweep, LapsedRows
<1>3. desk' = [of |-> z, to |-> r, lapsed |-> DeskSweep(r), since |-> now]
  BY DEF DeskBegin
<1>4. \A x \in DeskSweep(r) :
        /\ status[bookingOf[x]] = "PENDING_PAYMENT" /\ holdExpires[bookingOf[x]] <= now
        /\ holdExpires[bookingOf[x]] > 0
  BY DEF DeskSweep, LapsedRows, DeskInv, HoldsWhole
<1> QED BY <1>1, <1>2, <1>3, <1>4

LEMMA BeginDesk ==
  ASSUME DeskInv, UNCHANGED <<vars, blocks, upgraded>>,
         NEW z \in Target, NEW r \in Room, DeskBegin(z, r),
         z \in BookingRoom => roomGroupId[r] = roomGroupId[z]
  PROVE  DeskInv'
<1>1. UNCHANGED <<now, status, holdExpires, resv, order, payment, recorded, outbox>>
  BY DEF vars
<1>2. DeskTypeOK'
  <2>1. TypeOK'
    BY <1>1 DEF DeskInv, DeskTypeOK, TypeOK
  <2> QED BY <1>1, <2>1, DeskSweepParts DEF DeskInv, DeskTypeOK, Target
<1>3. RoomsApart' /\ RoomsDeliver'
  BY <1>1, NoNewRooms
<1>4. DeskRest'
  <2>1. DeskReads'
    <3>1. desk'.of = z /\ desk'.to = r
      BY DEF DeskBegin
    <3> QED BY <1>1, <3>1, DeskSweepParts DEF DeskReads
  <2> QED
    BY <1>1, <2>1 DEF DeskInv, DeskRest, OnlyLateRoomsAreLost, HoldsWhole, UpgradesFinal
<1>5. Account'
  BY <1>1 DEF DeskInv, Account, OrdersFollowHolds, MoneyAccounted
<1> QED BY <1>2, <1>3, <1>4, <1>5, DeskInvParts, PTL

(* A transaction gives up, or a block is lifted.                           *)
LEMMA FewerBlocks ==
  ASSUME DeskInv, UNCHANGED <<vars, upgraded>>, desk' \in {desk, NoDesk},
         blocks' \in [Block -> Room \cup {NoRoom}],
         \A k \in Block : blocks'[k] \in {blocks[k], NoRoom}
  PROVE  DeskInv'
<1>1. UNCHANGED <<now, status, holdExpires, resv, order, payment, recorded, outbox>>
  BY DEF vars
<1>2. DeskTypeOK'
  BY <1>1 DEF DeskInv, DeskTypeOK, TypeOK, NoDesk, Target
<1>3. RoomsApart' /\ RoomsDeliver'
  <2>1. NoDoubleBooking /\ BlocksApart(resv, blocks)
    BY ApartParts DEF DeskInv
  <2>2. NoDoubleBooking' /\ BlocksApart(resv, blocks)'
    BY <1>1, <2>1 DEF NoDoubleBooking, NightsOf, BlocksApart, Nights, FirstNight, LastDay
  <2>3. RoomsApart'
    BY <2>2, ApartParts, PTL
  <2> QED BY <1>1, <2>3 DEF DeskInv, RoomsDeliver, WantsAc
<1>4. DeskRest'
  <2>1. desk'.lapsed \subseteq desk.lapsed
    BY DEF NoDesk
  <2> QED
    BY <1>1, <2>1
       DEF DeskInv, DeskRest, OnlyLateRoomsAreLost, HoldsWhole, DeskReads, UpgradesFinal
<1>5. Account'
  BY <1>1 DEF DeskInv, Account, OrdersFollowHolds, MoneyAccounted
<1> QED BY <1>2, <1>3, <1>4, <1>5, DeskInvParts, PTL

-----------------------------------------------------------------------------
(* The second step of a move or a block.                                   *)
LEMMA DeskCommitDesk ==
  ASSUME DeskInv, DeskCommit
  PROVE  DeskInv'
<1>1. /\ desk # NoDesk
      /\ desk \in [of : Target, to : Room, lapsed : SUBSET BookingRoom, since : 0..now]
      /\ UNCHANGED <<now, holdExpires, payment, recorded, outbox, upgraded>> /\ desk' = NoDesk
  BY DEF DeskCommit, DeskInv, DeskTypeOK
<1>2. PICK z \in Target, r \in Room, S \in SUBSET BookingRoom :
        z = desk.of /\ r = desk.to /\ S = desk.lapsed
  BY <1>1
<1>3. PICK rows : rows = Released(resv, S)
  OBVIOUS
<1>4. /\ rows \in [BookingRoom -> Reservation]
      /\ \A x \in S : rows[x] = NoReservation
      /\ \A x \in BookingRoom : x \notin S => rows[x] = resv[x]
  BY <1>3, RowFacts, RowParts DEF Released, DeskInv
<1>5. /\ z \in BookingRoom => RoomSupports(r, z)
      /\ IsRoomFree(rows, r, z)
      /\ resv' = IF z \in BookingRoom /\ rows[z] # NoReservation
                   THEN [rows EXCEPT ![z].room = r] ELSE rows
      /\ blocks' = [k \in Block |-> IF k = z THEN r ELSE blocks[k]]
      /\ order' = OrdersExpired(Owners(S)) /\ status' = SweptStatus(S)
  BY <1>2, <1>3 DEF DeskCommit
<1>6. z \in BookingRoom => roomGroupId[r] = roomGroupId[z]
  BY <1>1, <1>2 DEF DeskInv, DeskReads
<1>7. /\ resv' \in [BookingRoom -> Reservation]
      /\ \A x \in BookingRoom : resv'[x].state = rows[x].state
      /\ \A x \in BookingRoom \ {z} : resv'[x] = rows[x]
      /\ z \in BookingRoom => IF rows[z] # NoReservation THEN resv'[z].room = r
                                                        ELSE resv'[z] = rows[z]
  <2>1. CASE z \in BookingRoom /\ rows[z] # NoReservation
    <3>1. rows[z] \in [room : Room, state : {"HELD", "CONFIRMED"}]
      BY <1>4, <2>1 DEF Reservation
    <3>2. /\ [rows[z] EXCEPT !.room = r] \in [room : Room, state : {"HELD", "CONFIRMED"}]
          /\ [rows[z] EXCEPT !.room = r].room = r
          /\ [rows[z] EXCEPT !.room = r].state = rows[z].state
      BY <3>1
    <3>3. resv' = [rows EXCEPT ![z] = [rows[z] EXCEPT !.room = r]]
      BY <1>5, <2>1
    <3> QED BY <1>4, <2>1, <3>2, <3>3 DEF Reservation
  <2>2. CASE ~(z \in BookingRoom /\ rows[z] # NoReservation)
    BY <1>4, <1>5, <2>2
  <2> QED BY <2>1, <2>2
<1>8. \A c \in Booking :
        /\ \/ status'[c] = status[c] /\ ~(c \in Owners(S) /\ status[c] = "PENDING_PAYMENT")
           \/ status[c] = "PENDING_PAYMENT" /\ status'[c] = "EXPIRED"
        /\ order'[c] = IF c \in Owners(S) /\ order[c] = "PENDING" THEN "EXPIRED" ELSE order[c]
  BY <1>5 DEF SweptStatus, OrdersExpired
<1>9. DeskTypeOK'
  <2>1. TypeOK'
    BY <1>1, <1>5, <1>7
       DEF DeskInv, DeskTypeOK, TypeOK, SweptStatus, OrdersExpired, Status, OrderStatus
  <2> QED BY <1>1, <1>5, <2>1 DEF DeskInv, DeskTypeOK
<1>10. RoomsApart'
  <2>1. CASE z \in BookingRoom /\ rows[z] # NoReservation
    <3>1. blocks' = blocks
      BY <1>5, <2>1, BlockAssumption DEF DeskInv, DeskTypeOK
    <3>2. /\ \A y \in BookingRoom \ {z} : resv'[y].room = r => Nights(y) \cap Nights(z) = {}
          /\ \A k \in Block : blocks[k] = r => Nights(k) \cap Nights(z) = {}
      BY <1>5, <1>7, <2>1, FreeFor, BlockAssumption
    <3>3. \A y \in BookingRoom \ {z} : resv'[y] = resv[y] \/ resv'[y] = NoReservation
      BY <1>4, <1>7
    <3> QED BY <1>7, <2>1, <3>1, <3>2, <3>3, MoveOnChart
  <2>2. CASE z \in BookingRoom /\ rows[z] = NoReservation
    <3>1. blocks' = blocks
      BY <1>5, <2>2, BlockAssumption DEF DeskInv, DeskTypeOK
    <3>2. \A y \in BookingRoom :
            \/ resv'[y] = NoReservation
            \/ resv[y] # NoReservation /\ resv'[y].room = resv[y].room
      BY <1>4, <1>7, <2>2
    <3> QED BY <1>1, <3>1, <3>2, NoNewRooms
  <2>3. CASE z \in Block
    <3>1. \A y \in BookingRoom : y # z /\ resv'[y] = rows[y]
      BY <1>7, <2>3, BlockAssumption
    <3>2. \A y \in BookingRoom : resv'[y] = resv[y] \/ resv'[y] = NoReservation
      BY <1>4, <3>1
    <3>3. \A l \in Block : blocks'[l] = IF l = z THEN r ELSE blocks[l]
      BY <1>5
    <3>4. /\ \A y \in BookingRoom : resv'[y].room = r => Nights(y) \cap Nights(z) = {}
          /\ \A l \in Block \ {z} : blocks[l] = r =>
               Nights(l) \cap Nights(z) = {} /\ Nights(z) \cap Nights(l) = {}
      BY <1>5, <3>1, FreeFor
    <3> QED BY <2>3, <3>2, <3>3, <3>4, BlockOnChart
  <2> QED BY <2>1, <2>2, <2>3 DEF Target
<1>11. RoomsDeliver'
  <2> SUFFICES ASSUME NEW x \in BookingRoom, resv'[x] # NoReservation
               PROVE  /\ roomGroupId[resv'[x].room] = roomGroupId[x]
                      /\ WantsAc(x) => resv'[x].room \in supportsAc
    BY <1>1 DEF RoomsDeliver, WantsAc
  <2>1. CASE x = z
    <3>1. resv'[x].room = r
      BY <1>7, <2>1
    <3> QED BY <1>5, <1>6, <2>1, <3>1 DEF RoomSupports
  <2>2. CASE x # z
    <3>1. resv'[x] = resv[x]
      BY <1>4, <1>7, <2>2
    <3> QED BY <3>1 DEF DeskInv, RoomsDeliver
  <2> QED BY <2>1, <2>2
<1>12. DeskRest'
  <2>1. \A x \in S :
          /\ bookingOf[x] \in Owners(S)
          /\ 0 < holdExpires[bookingOf[x]] /\ holdExpires[bookingOf[x]] <= now
    BY <1>2 DEF DeskInv, DeskReads, Owners
  <2>2. OnlyLateRoomsAreLost'
    BY <1>1, <1>4, <1>7, <1>8, <2>1, RowParts DEF DeskInv, OnlyLateRoomsAreLost
  <2>3. HoldsWhole'
    BY <1>1, <1>4, <1>7, <1>8, <2>1, RowParts DEF DeskInv, HoldsWhole
  <2>4. DeskReads'
    BY <1>1 DEF DeskReads, NoDesk
  <2>5. UpgradesFinal'
    BY <1>1, <1>8, RowParts DEF DeskInv, UpgradesFinal
  <2> QED BY <2>2, <2>3, <2>4, <2>5 DEF DeskRest
<1>13. Account'
  <2>1. \A c \in Booking : order[c] \in OrderStatus
    BY DEF DeskInv, DeskTypeOK, TypeOK
  <2> QED
    BY <1>1, <1>8, <2>1
       DEF DeskInv, Account, OrdersFollowHolds, MoneyAccounted, OrderStatus
<1> QED BY <1>9, <1>10, <1>11, <1>12, <1>13, DeskInvParts, PTL

LEMMA ApplyAcUpgradeDesk ==
  ASSUME DeskInv, NEW x \in BookingRoom, ApplyAcUpgrade(x)
  PROVE  DeskInv'
<1>1. /\ status[bookingOf[x]] = "CONFIRMED" /\ resv[x] # NoReservation
      /\ upgraded' = upgraded \cup {x}
      /\ UNCHANGED <<now, status, holdExpires, order, payment, recorded, outbox, blocks, desk>>
  BY DEF ApplyAcUpgrade
<1>2. \/ resv[x].room \in supportsAc /\ resv' = resv
      \/ \E r \in RoomsIn(roomGroupId[x]) \cap supportsAc :
           IsRoomFree(resv, r, x) /\ resv' = [resv EXCEPT ![x].room = r]
  BY DEF ApplyAcUpgrade
<1>3. resv[x] \in [room : Room, state : {"HELD", "CONFIRMED"}]
  BY <1>1, RowParts DEF DeskInv, Reservation
<1>4. PICK r \in Room :
        /\ r \in supportsAc /\ roomGroupId[r] = roomGroupId[x]
        /\ resv' = [resv EXCEPT ![x] = [room |-> r, state |-> resv[x].state]]
        /\ resv' = resv \/ IsRoomFree(resv, r, x)
  <2>1. CASE resv[x].room \in supportsAc /\ resv' = resv
    <3>1. resv = [resv EXCEPT ![x] = [room |-> resv[x].room, state |-> resv[x].state]]
      BY <1>3, RowParts DEF DeskInv
    <3> QED BY <1>1, <1>3, <2>1, <3>1 DEF DeskInv, RoomsDeliver
  <2>2. ASSUME NEW r \in RoomsIn(roomGroupId[x]) \cap supportsAc,
               IsRoomFree(resv, r, x), resv' = [resv EXCEPT ![x].room = r]
        PROVE  /\ r \in Room /\ r \in supportsAc /\ roomGroupId[r] = roomGroupId[x]
               /\ resv' = [resv EXCEPT ![x] = [room |-> r, state |-> resv[x].state]]
    <3>1. [resv[x] EXCEPT !.room = r] = [room |-> r, state |-> resv[x].state]
      BY <1>3
    <3> QED BY <2>2, <3>1 DEF RoomsIn
  <2> QED BY <1>2, <2>1, <2>2
<1>5. /\ resv' \in [BookingRoom -> Reservation]
      /\ resv'[x].room = r /\ \A y \in BookingRoom : resv'[y].state = resv[y].state
      /\ \A y \in BookingRoom \ {x} : resv'[y] = resv[y]
  BY <1>3, <1>4, RowParts DEF DeskInv, Reservation
<1>6. DeskTypeOK'
  <2>1. TypeOK'
    BY <1>1, <1>5 DEF DeskInv, DeskTypeOK, TypeOK
  <2> QED BY <1>1, <2>1 DEF DeskInv, DeskTypeOK, Target
<1>7. RoomsApart'
  <2>1. CASE resv' = resv
    BY <1>1, <2>1, Chart, ApartParts DEF DeskInv, RoomsApart, RoomHeldBy, Nights, FirstNight, LastDay
  <2>2. CASE IsRoomFree(resv, r, x)
    <3>1. /\ \A y \in BookingRoom \ {x} : resv'[y].room = r => Nights(y) \cap Nights(x) = {}
          /\ \A k \in Block : blocks[k] = r => Nights(k) \cap Nights(x) = {}
      BY <1>5, <2>2, FreeFor, BlockAssumption DEF Target
    <3> QED BY <1>1, <1>5, <3>1, MoveOnChart
  <2> QED BY <1>4, <2>1, <2>2
<1>8. RoomsDeliver'
  BY <1>1, <1>4, <1>5 DEF DeskInv, RoomsDeliver, WantsAc
<1>9. DeskRest'
  BY <1>1, <1>5 DEF DeskInv, DeskRest, OnlyLateRoomsAreLost, HoldsWhole, DeskReads, UpgradesFinal
<1>10. Account'
  BY <1>1 DEF DeskInv, Account, OrdersFollowHolds, MoneyAccounted
<1> QED BY <1>6, <1>7, <1>8, <1>9, <1>10, DeskInvParts, PTL

-----------------------------------------------------------------------------
LEMMA DeskInitInv == DeskInit => DeskInv
<1> SUFFICES ASSUME DeskInit PROVE DeskInv
  OBVIOUS
<1>1. /\ IInv /\ upgraded = {} /\ desk = NoDesk /\ blocks = [k \in Block |-> NoRoom]
      /\ \A x \in BookingRoom : resv[x] = NoReservation /\ status[bookingOf[x]] = "NONE"
  BY InitIInv, BookingAssumption DEF DeskInit, Init
<1>2. DeskTypeOK
  BY <1>1 DEF IInv, DeskTypeOK
<1>3. RoomsApart /\ RoomsDeliver
  <2>1. BlocksApart(resv, blocks)
    BY <1>1 DEF BlocksApart
  <2> QED BY <1>1, <2>1, ApartParts DEF IInv, RoomsDeliver
<1>4. DeskRest
  BY <1>1 DEF DeskRest, OnlyLateRoomsAreLost, HoldsWhole, DeskReads, UpgradesFinal, NoDesk
<1> QED BY <1>1, <1>2, <1>3, <1>4, DeskInvParts DEF IInv, Account

LEMMA DeskNextInv == DeskInv /\ [DeskNext]_allVars => DeskInv'
<1> SUFFICES ASSUME DeskInv, [DeskNext]_allVars PROVE DeskInv'
  OBVIOUS
<1>1. ASSUME NEW x \in BookingRoom, NEW r \in Room, MoveBegin(x, r)
      PROVE  DeskInv'
  BY <1>1, BeginDesk DEF MoveBegin, Target
<1>2. ASSUME NEW k \in Block, NEW r \in Room, BlockBegin(k, r)
      PROVE  DeskInv'
  <2>1. k \in Target /\ k \notin BookingRoom
    BY BlockAssumption DEF Target
  <2> QED BY <1>2, <2>1, BeginDesk DEF BlockBegin
<1>3. CASE DeskAbort
  BY <1>3, FewerBlocks DEF DeskAbort, DeskInv, DeskTypeOK
<1>4. ASSUME NEW k \in Block, ReleaseRoomBlock(k)
      PROVE  DeskInv'
  BY <1>4, FewerBlocks DEF ReleaseRoomBlock, DeskInv, DeskTypeOK
<1>5. CASE UNCHANGED allVars
  BY <1>5, FewerBlocks DEF allVars, DeskInv, DeskTypeOK
<1> QED
  BY <1>1, <1>2, <1>3, <1>4, <1>5, BookingStepDesk, DeskCommitDesk, ApplyAcUpgradeDesk
     DEF DeskNext, RoomsPanel, RoomsBoard, ReassignPicker

(* The inductive invariant holds in every state the desk's transactions and*)
(* those of the bookings can reach together.                               *)
THEOREM DeskInvariance == DeskSpec => []DeskInv
BY DeskInitInv, DeskNextInv, PTL DEF DeskSpec

(* The chart and the bookings only hold values their columns allow.        *)
THEOREM DeskTypeCorrect == DeskSpec => []DeskTypeOK
BY DeskInvariance, PTL DEF DeskInv

(* No move, block, upgrade or booking gives a room away twice, although    *)
(* the desk decides on rows it read before other transactions committed.   *)
THEOREM RoomsStayApart == DeskSpec => []RoomsApart
BY DeskInvariance, PTL DEF DeskInv

(* The room of a stay is of the group and the kind that was paid for.      *)
THEOREM RoomsAreAsPaid == DeskSpec => []RoomsDeliver
BY DeskInvariance, PTL DEF DeskInv

(* Only a stay whose deadline had passed can lose a room to the desk.      *)
THEOREM PunctualStaysKeepRooms == DeskSpec => []OnlyLateRoomsAreLost
BY DeskInvariance, PTL DEF DeskInv

(* And the money stays accounted for beside the desk.                      *)
THEOREM DeskKeepsAccounts == DeskSpec => []MoneyAccounted
BY DeskInvariance, PTL DEF DeskInv

-----------------------------------------------------------------------------
(* What the desk's steps do to the statuses of bookings and to the mails.  *)
LEMMA CommitBookings ==
  ASSUME DeskInv, DeskCommit
  PROVE  /\ UNCHANGED <<recorded, outbox>>
         /\ \A c \in Booking :
              /\ \/ status'[c] = status[c]
                 \/ status[c] = "PENDING_PAYMENT" /\ status'[c] = "EXPIRED"
              /\ order'[c] = order[c] \/ (order[c] = "PENDING" /\ order'[c] = "EXPIRED")
<1>1. /\ status' = SweptStatus(desk.lapsed) /\ order' = OrdersExpired(Owners(desk.lapsed))
      /\ UNCHANGED <<recorded, outbox>>
  BY DEF DeskCommit
<1> QED BY <1>1 DEF SweptStatus, OrdersExpired

(* Every other step of the desk leaves both alone.                         *)
DeskQuiet ==
  \/ DeskAbort \/ UNCHANGED allVars
  \/ \E k \in Block : ReleaseRoomBlock(k) \/ \E r \in Room : BlockBegin(k, r)
  \/ \E x \in BookingRoom : ApplyAcUpgrade(x) \/ \E r \in Room : MoveBegin(x, r)

LEMMA DeskSteps ==
  ASSUME [DeskNext]_allVars
  PROVE  Next \/ DeskCommit \/ DeskQuiet
<1>1. BookingStep => Next
  BY DEF BookingStep, Next
<1>2. RoomsPanel \/ RoomsBoard \/ DeskAbort \/ UNCHANGED allVars => DeskQuiet
  BY DEF RoomsPanel, RoomsBoard, ReassignPicker, DeskQuiet
<1> QED BY <1>1, <1>2 DEF DeskNext

LEMMA QuietBookings ==
  ASSUME DeskQuiet
  PROVE  UNCHANGED <<status, order, recorded, outbox>>
<1>1. DeskAbort \/ UNCHANGED allVars => UNCHANGED <<status, order, recorded, outbox>>
  BY DEF DeskAbort, allVars, vars
<1>2. \A k \in Block : ReleaseRoomBlock(k) \/ (\E r \in Room : BlockBegin(k, r))
        => UNCHANGED <<status, order, recorded, outbox>>
  BY DEF ReleaseRoomBlock, BlockBegin, vars
<1>3. \A x \in BookingRoom : ApplyAcUpgrade(x) \/ (\E r \in Room : MoveBegin(x, r))
        => UNCHANGED <<status, order, recorded, outbox>>
  BY DEF ApplyAcUpgrade, MoveBegin, vars
<1> QED BY <1>1, <1>2, <1>3 DEF DeskQuiet

(* The desk's sweep, too, only lets unpaid holds expire.                   *)
THEOREM StatusesMoveForwardBesideDesk == DeskSpec => Lifecycle
<1>1. ASSUME DeskInv, [DeskNext]_allVars PROVE [StatusStep]_vars
  <2>1. CASE Next
    BY <1>1, <2>1, NextStatusStep DEF DeskInv, DeskTypeOK
  <2>2. CASE DeskCommit
    BY <1>1, <2>2, CommitBookings DEF DeskInv, MoneyAccounted, StatusStep
  <2>3. CASE DeskQuiet
    BY <2>3, QuietBookings DEF StatusStep
  <2> QED BY <1>1, <2>1, <2>2, <2>3, DeskSteps
<1>2. DeskSpec => [][StatusStep]_vars
  BY <1>1, DeskInvariance, PTL DEF DeskSpec
<1> QED BY <1>2 DEF StatusStep, Lifecycle

-----------------------------------------------------------------------------
(* The guest's mails beside the desk.                                      *)
Told(b, s, o, mails) ==
  /\ <<"booking_confirmation", b>> \in mails <=> s \in {"CONFIRMED", "CANCELLED"}
  /\ <<"payment_receipt", b>> \in mails <=> o = "PAID"
  /\ <<"booking_cancelled", b>> \in mails <=> s = "CANCELLED"

LEMMA ToldParts == GuestIsTold <=> \A b \in Booking : Told(b, status[b], order[b], outbox)
BY DEF GuestIsTold, Told

(* A step that neither pays an order nor confirms or cancels tells         *)
(* nothing.                                                                *)
Silent(c) ==
  /\ status'[c] = status[c] \/ {status[c], status'[c]} \cap {"CONFIRMED", "CANCELLED"} = {}
  /\ order'[c] = order[c] \/ "PAID" \notin {order[c], order'[c]}

LEMMA SilentTold ==
  ASSUME NEW c \in Booking, Told(c, status[c], order[c], outbox), Silent(c),
         \A t \in Template : <<t, c>> \in outbox' <=> <<t, c>> \in outbox
  PROVE  Told(c, status'[c], order'[c], outbox')
<1>1. \A t \in {"booking_confirmation", "payment_receipt", "booking_cancelled"} :
        <<t, c>> \in outbox' <=> <<t, c>> \in outbox
  BY DEF Template
<1>2. status'[c] \in {"CONFIRMED", "CANCELLED"} <=> status[c] \in {"CONFIRMED", "CANCELLED"}
  BY DEF Silent
<1>3. (status'[c] = "CANCELLED" <=> status[c] = "CANCELLED") /\ (order'[c] = "PAID" <=> order[c] = "PAID")
  BY DEF Silent
<1> QED BY <1>1, <1>2, <1>3 DEF Told

(* All is told if it is told about the booking of the step and all other   *)
(* bookings are silent.                                                    *)
OthersSilent(b) ==
  \A c \in Booking \ {b} :
    Silent(c) /\ \A t \in Template : <<t, c>> \in outbox' <=> <<t, c>> \in outbox

LEMMA OneTold ==
  ASSUME GuestIsTold, NEW b \in Booking, OthersSilent(b), Told(b, status'[b], order'[b], outbox')
  PROVE  GuestIsTold'
<1>1. \A c \in Booking : Told(c, status[c], order[c], outbox)
  BY ToldParts
<1>2. \A c \in Booking : Told(c, status'[c], order'[c], outbox')
  BY <1>1, SilentTold DEF OthersSilent
<1> QED BY <1>2 DEF GuestIsTold, Told

LEMMA AllSilent ==
  ASSUME GuestIsTold, \A c \in Booking : Silent(c),
         \A c \in Booking, t \in Template : <<t, c>> \in outbox' <=> <<t, c>> \in outbox
  PROVE  GuestIsTold'
<1>1. \A c \in Booking : Told(c, status[c], order[c], outbox)
  BY ToldParts
<1>2. \A c \in Booking : Told(c, status'[c], order'[c], outbox')
  BY <1>1, SilentTold
<1> QED BY <1>2 DEF GuestIsTold, Told

LEMMA AllocationSilent ==
  ASSUME TypeOK, NEW b \in Booking, NEW t \in Reading, NEW kind \in {"HELD", "CONFIRMED"},
         AllocateRooms(b, t, kind)
  PROVE  /\ \A c \in Booking \ {b} : Silent(c)
         /\ status'[b] = IF kind = "HELD" THEN "PENDING_PAYMENT" ELSE "CONFIRMED"
         /\ order'[b] = IF order[b] = "PAID_UNALLOCATED" THEN "PAID" ELSE order[b]
<1>1. PICK lapsed \in SUBSET BookingRoom : AllocationEffect(b, kind, lapsed)
  BY AllocationRows
<1>2. /\ status'[b] = IF kind = "HELD" THEN "PENDING_PAYMENT" ELSE "CONFIRMED"
      /\ order'[b] = IF order[b] = "PAID_UNALLOCATED" THEN "PAID" ELSE order[b]
      /\ \A c \in Booking \ {b} :
           \/ status'[c] = status[c] /\ order'[c] = order[c]
           \/ /\ status[c] = "PENDING_PAYMENT" /\ status'[c] = "EXPIRED"
              /\ order[c] # "PAID" /\ order'[c] # "PAID"
  BY <1>1, AllocationBookings
<1> QED BY <1>2 DEF Silent

LEMMA NoOrderBeforeHold ==
  ASSUME TypeOK, OrdersFollowHolds, MoneyAccounted, NEW b \in Booking, status[b] = "NONE"
  PROVE  order[b] = "NONE"
BY DEF TypeOK, OrderStatus, OrdersFollowHolds, MoneyAccounted

LEMMA AllocationTells ==
  ASSUME DeskInv, GuestIsTold, NEW b \in Booking,
         CreateHold(b) \/ CreateStaffBooking(b) \/ AllocatePaidUnallocated(b)
  PROVE  GuestIsTold'
<1>1. TypeOK /\ OrdersFollowHolds /\ MoneyAccounted
  BY DEF DeskInv, DeskTypeOK
<1>2. Told(b, status[b], order[b], outbox)
  BY ToldParts
<1>3. CASE CreateHold(b)
  <2>1. PICK t \in Reading : AllocateRooms(b, t, "HELD")
    BY <1>3 DEF CreateHold
  <2>2. status[b] = "NONE" /\ outbox' = outbox
    BY <1>3 DEF CreateHold
  <2>3. status'[b] = "PENDING_PAYMENT" /\ order'[b] = order[b]
    BY <1>1, <2>1, <2>2, AllocationSilent, NoOrderBeforeHold
  <2>4. \A c \in Booking : Silent(c)
    BY <1>1, <2>1, <2>2, <2>3, AllocationSilent DEF Silent
  <2> QED BY <2>2, <2>4, AllSilent
<1>4. CASE CreateStaffBooking(b)
  <2>1. PICK t \in Reading : AllocateRooms(b, t, "CONFIRMED")
    BY <1>4 DEF CreateStaffBooking
  <2>2. status[b] = "NONE" /\ outbox' = outbox \cup {<<"booking_confirmation", b>>}
    BY <1>4 DEF CreateStaffBooking, NotifyConfirmed
  <2>3. status'[b] = "CONFIRMED" /\ order'[b] = order[b] /\ order[b] = "NONE"
    BY <1>1, <2>1, <2>2, AllocationSilent, NoOrderBeforeHold
  <2>4. OthersSilent(b)
    BY <1>1, <2>1, <2>2, AllocationSilent DEF OthersSilent
  <2>5. Told(b, status'[b], order'[b], outbox')
    BY <1>2, <2>2, <2>3 DEF Told
  <2> QED BY <2>4, <2>5, OneTold
<1>5. CASE AllocatePaidUnallocated(b)
  <2>1. PICK t \in Reading : AllocateRooms(b, t, "CONFIRMED")
    BY <1>5 DEF AllocatePaidUnallocated
  <2>2. /\ status[b] \in {"PENDING_PAYMENT", "EXPIRED"} /\ order[b] = "PAID_UNALLOCATED"
        /\ outbox' = outbox \cup {<<"booking_confirmation", b>>, <<"payment_receipt", b>>}
    BY <1>5 DEF AllocatePaidUnallocated, NotifyConfirmed
  <2>3. status'[b] = "CONFIRMED" /\ order'[b] = "PAID"
    BY <1>1, <2>1, <2>2, AllocationSilent
  <2>4. OthersSilent(b)
    BY <1>1, <2>1, <2>2, AllocationSilent DEF OthersSilent
  <2>5. Told(b, status'[b], order'[b], outbox')
    BY <1>2, <2>2, <2>3 DEF Told
  <2> QED BY <2>4, <2>5, OneTold
<1> QED BY <1>3, <1>4, <1>5

LEMMA PaymentTells ==
  ASSUME DeskInv, GuestIsTold, NEW b \in Booking,
         \/ CreatePaymentOrder(b) \/ Capture(b) \/ SettleConfirmed(b)
         \/ SettleUnallocated(b) \/ CancelManagedBooking(b)
  PROVE  GuestIsTold'
<1>1. TypeOK /\ MoneyAccounted
  BY DEF DeskInv, DeskTypeOK
<1>2. Told(b, status[b], order[b], outbox)
  BY ToldParts
<1>3. CASE CreatePaymentOrder(b) \/ Capture(b)
  <2>1. outbox' = outbox /\ \A c \in Booking : Silent(c)
    BY <1>1, <1>3 DEF CreatePaymentOrder, Capture, Silent, TypeOK
  <2> QED BY <2>1, AllSilent
<1>4. CASE SettleUnallocated(b)
  <2>1. /\ order[b] # "PAID" /\ status' = status
        /\ order' = [order EXCEPT ![b] = "PAID_UNALLOCATED"]
        /\ outbox' = outbox \cup {<<"staff_payment_exception", b>>}
    BY <1>1, <1>4 DEF SettleUnallocated, Undecided, NotifyPaymentException, MoneyAccounted
  <2>2. OthersSilent(b)
    BY <1>1, <2>1 DEF OthersSilent, Silent, TypeOK
  <2>3. order'[b] = "PAID_UNALLOCATED"
    BY <1>1, <2>1 DEF TypeOK
  <2>4. Told(b, status'[b], order'[b], outbox')
    BY <1>2, <2>1, <2>3 DEF Told
  <2> QED BY <2>2, <2>4, OneTold
<1>5. CASE SettleConfirmed(b)
  <2>1. /\ status[b] = "PENDING_PAYMENT"
        /\ order' = [order EXCEPT ![b] = "PAID"] /\ status' = [status EXCEPT ![b] = "CONFIRMED"]
        /\ outbox' = outbox \cup {<<"booking_confirmation", b>>, <<"payment_receipt", b>>}
    BY <1>5 DEF SettleConfirmed, HoldLapsed, NotifyConfirmed
  <2>2. OthersSilent(b)
    BY <1>1, <2>1 DEF OthersSilent, Silent, TypeOK
  <2>3. status'[b] = "CONFIRMED" /\ order'[b] = "PAID"
    BY <1>1, <2>1 DEF TypeOK
  <2>4. Told(b, status'[b], order'[b], outbox')
    BY <1>2, <2>1, <2>3 DEF Told
  <2> QED BY <2>2, <2>4, OneTold
<1>6. CASE CancelManagedBooking(b)
  <2>1. /\ status[b] = "CONFIRMED" /\ status' = [status EXCEPT ![b] = "CANCELLED"]
        /\ outbox' = outbox \cup {<<"booking_cancelled", b>>} /\ order' = order
    BY <1>6 DEF CancelManagedBooking, NotifyBookingCancelled
  <2>2. OthersSilent(b)
    BY <1>1, <2>1 DEF OthersSilent, Silent, TypeOK
  <2>3. status'[b] = "CANCELLED"
    BY <1>1, <2>1 DEF TypeOK
  <2>4. Told(b, status'[b], order'[b], outbox')
    BY <1>2, <2>1, <2>3 DEF Told
  <2> QED BY <2>2, <2>4, OneTold
<1> QED BY <1>3, <1>4, <1>5, <1>6

LEMMA DropTells ==
  ASSUME GuestIsTold, TypeOK, NEW B \in SUBSET Booking, Drop(B),
         \A b \in B : status[b] = "PENDING_PAYMENT" /\ order[b] # "PAID"
  PROVE  GuestIsTold'
<1>1. outbox' = outbox /\ \A c \in Booking : Silent(c)
  BY DEF Drop, OrdersExpired, Silent, TypeOK
<1> QED BY <1>1, AllSilent

LEMMA BookingTells == ASSUME DeskInv, GuestIsTold, Next PROVE GuestIsTold'
<1>1. TypeOK
  BY DEF DeskInv, DeskTypeOK
<1>2. ASSUME NEW b \in Booking, ExpireStaffHold(b) PROVE GuestIsTold'
  BY <1>1, <1>2, DropTells DEF ExpireStaffHold
<1>3. CASE ExpireStaleHolds
  BY <1>1, <1>3, DropTells DEF ExpireStaleHolds, Stale
<1>4. CASE Tick
  BY <1>4 DEF Tick, GuestIsTold
<1> QED BY <1>2, <1>3, <1>4, AllocationTells, PaymentTells DEF Next

LEMMA DeskTells == DeskInv /\ GuestIsTold /\ [DeskNext]_allVars => GuestIsTold'
<1> SUFFICES ASSUME DeskInv, GuestIsTold, [DeskNext]_allVars PROVE GuestIsTold'
  OBVIOUS
<1>1. CASE Next
  BY <1>1, BookingTells
<1>2. CASE DeskCommit
  <2>1. outbox' = outbox /\ \A c \in Booking : Silent(c)
    BY <1>2, CommitBookings DEF Silent
  <2> QED BY <2>1, AllSilent
<1>3. CASE DeskQuiet
  BY <1>3, QuietBookings DEF GuestIsTold
<1> QED BY <1>1, <1>2, <1>3, DeskSteps

(* Mails stay true beside the desk: also of a stay that loses a room.      *)
THEOREM GuestIsToldBesideDesk == DeskSpec => []GuestIsTold
<1>1. DeskInit => GuestIsTold
  BY DEF DeskInit, Init, GuestIsTold
<1> QED BY <1>1, DeskTells, DeskInvariance, PTL DEF DeskSpec


-----------------------------------------------------------------------------
(* The desk and the promise of Stays.tla.  RoomsMatchStatus fails beside   *)
(* the desk only in what a confirmed stay may lose.                        *)
RowKept(x) ==
  LET b == bookingOf[x] IN
  \/ resv'[x].state = "NONE"
  \/ /\ resv'[x].state = resv[x].state
     /\ status'[b] = status[b] \/ (status[b] = "PENDING_PAYMENT" /\ status'[b] = "EXPIRED")
  \/ resv'[x].state = "HELD" /\ status'[b] = "PENDING_PAYMENT"
  \/ resv'[x].state = "CONFIRMED" /\ status'[b] = "CONFIRMED"

LEMMA KeptRowsFollow ==
  ASSUME DeskInv, DeskInv', RowsFollowStatus, \A x \in BookingRoom : RowKept(x)
  PROVE  RowsFollowStatus'
<1> SUFFICES ASSUME NEW x \in BookingRoom
             PROVE  /\ resv'[x].state = "HELD" =>
                         status'[bookingOf[x]] \in {"PENDING_PAYMENT", "EXPIRED"}
                    /\ resv'[x].state = "CONFIRMED" => status'[bookingOf[x]] = "CONFIRMED"
                    /\ status'[bookingOf[x]] = "PENDING_PAYMENT" => resv'[x].state = "HELD"
  BY DEF RowsFollowStatus
<1>1. status[bookingOf[x]] = "PENDING_PAYMENT" => resv[x].state = "HELD"
  BY DEF DeskInv, HoldsWhole
<1>2. status'[bookingOf[x]] = "PENDING_PAYMENT" => resv'[x].state = "HELD"
  BY DEF DeskInv, HoldsWhole
<1> QED BY <1>1, <1>2 DEF RowKept, RowsFollowStatus

LEMMA AllocationRowKept ==
  ASSUME TypeOK, NEW b \in Booking, NEW t \in Reading, NEW kind \in {"HELD", "CONFIRMED"},
         AllocateRooms(b, t, kind)
  PROVE  \A x \in BookingRoom : RowKept(x)
<1>1. PICK lapsed \in SUBSET BookingRoom : AllocationEffect(b, kind, lapsed)
  BY AllocationRows
<1>2. /\ status'[b] = IF kind = "HELD" THEN "PENDING_PAYMENT" ELSE "CONFIRMED"
      /\ \A c \in Booking \ {b} :
           status'[c] = status[c] \/ (status[c] = "PENDING_PAYMENT" /\ status'[c] = "EXPIRED")
  BY <1>1, AllocationBookings
<1> TAKE x \in BookingRoom
<1>3. CASE bookingOf[x] = b
  BY <1>1, <1>2, <1>3 DEF AllocationEffect, RowKept
<1>4. CASE x \in lapsed
  BY <1>1, <1>4, RowFacts DEF AllocationEffect, RowKept
<1>5. CASE bookingOf[x] # b /\ x \notin lapsed
  <2>1. resv'[x] = resv[x] /\ bookingOf[x] \in Booking
    BY <1>1, <1>5, BookingAssumption DEF AllocationEffect
  <2> QED BY <1>2, <1>5, <2>1 DEF RowKept
<1> QED BY <1>3, <1>4, <1>5

LEMMA DropRowKept ==
  ASSUME TypeOK, NEW B \in SUBSET Booking, Drop(B), \A b \in B : status[b] = "PENDING_PAYMENT"
  PROVE  \A x \in BookingRoom : RowKept(x)
<1> DEFINE S == {x \in BookingRoom : bookingOf[x] \in B /\ resv[x].state = "HELD"}
<1>1. /\ \A x \in S : resv'[x].state = "NONE"
      /\ \A x \in BookingRoom : x \notin S => resv'[x] = resv[x]
  <2>1. resv' = Released(resv, S) /\ S \in SUBSET BookingRoom
    BY DEF Drop
  <2> QED BY <2>1, ReleasedFacts, RowFacts
<1>2. \A c \in Booking :
        status'[c] = status[c] \/ (status[c] = "PENDING_PAYMENT" /\ status'[c] = "EXPIRED")
  BY DEF Drop
<1> QED BY <1>1, <1>2, BookingAssumption DEF RowKept

LEMMA NextRowKept ==
  ASSUME DeskInv, RowsFollowStatus, Next
  PROVE  \A x \in BookingRoom : RowKept(x)
<1>0. TypeOK
  BY DEF DeskInv, DeskTypeOK
<1>1. ASSUME NEW b \in Booking,
             CreateHold(b) \/ CreateStaffBooking(b) \/ AllocatePaidUnallocated(b)
      PROVE  \A x \in BookingRoom : RowKept(x)
  BY <1>0, <1>1, AllocationRowKept DEF CreateHold, CreateStaffBooking, AllocatePaidUnallocated
<1>2. ASSUME NEW b \in Booking, CreatePaymentOrder(b) \/ Capture(b) \/ SettleUnallocated(b)
      PROVE  \A x \in BookingRoom : RowKept(x)
  BY <1>2 DEF CreatePaymentOrder, Capture, SettleUnallocated, RowKept
<1>3. ASSUME NEW b \in Booking, SettleConfirmed(b)
      PROVE  \A x \in BookingRoom : RowKept(x)
  <2>1. /\ status[b] = "PENDING_PAYMENT" /\ status' = [status EXCEPT ![b] = "CONFIRMED"]
        /\ resv' = [x \in BookingRoom |->
                      IF bookingOf[x] = b /\ resv[x].state = "HELD"
                        THEN Live(resv[x].room, "CONFIRMED") ELSE resv[x]]
    BY <1>3 DEF SettleConfirmed, HoldLapsed
  <2>2. \A x \in BookingRoom : bookingOf[x] = b => resv[x].state = "HELD"
    BY <2>1 DEF DeskInv, HoldsWhole
  <2>3. \A x \in BookingRoom :
          /\ bookingOf[x] = b => resv'[x].state = "CONFIRMED" /\ status'[bookingOf[x]] = "CONFIRMED"
          /\ bookingOf[x] # b => resv'[x] = resv[x] /\ status'[bookingOf[x]] = status[bookingOf[x]]
    BY <1>0, <2>1, <2>2, BookingAssumption DEF Live, TypeOK
  <2> QED BY <2>3 DEF RowKept
<1>4. ASSUME NEW b \in Booking, CancelManagedBooking(b)
      PROVE  \A x \in BookingRoom : RowKept(x)
  <2> DEFINE S == {x \in RoomsOf(b) : resv[x].state = "CONFIRMED"}
  <2>1. /\ status[b] = "CONFIRMED" /\ status' = [status EXCEPT ![b] = "CANCELLED"]
        /\ resv' = Released(resv, S) /\ S \in SUBSET BookingRoom
    BY <1>4 DEF CancelManagedBooking, RoomsOf
  <2>2. /\ \A x \in S : resv'[x].state = "NONE"
        /\ \A x \in BookingRoom : x \notin S => resv'[x] = resv[x]
    BY <1>0, <2>1, ReleasedFacts, RowFacts
  <2>3. \A x \in BookingRoom : bookingOf[x] = b => resv'[x].state = "NONE"
    <3> SUFFICES ASSUME NEW x \in BookingRoom, bookingOf[x] = b, x \notin S
                 PROVE  resv[x].state = "NONE"
      BY <2>2
    <3>1. resv[x].state \notin {"HELD", "CONFIRMED"}
      BY <2>1 DEF RoomsOf, RowsFollowStatus
    <3> QED BY <1>0, <3>1, RowFacts DEF TypeOK
  <2>4. \A x \in BookingRoom : bookingOf[x] # b =>
          resv'[x] = resv[x] /\ status'[bookingOf[x]] = status[bookingOf[x]]
    BY <1>0, <2>1, <2>2, BookingAssumption DEF RoomsOf, TypeOK
  <2> QED BY <2>3, <2>4 DEF RowKept
<1>5. ASSUME NEW b \in Booking, ExpireStaffHold(b)
      PROVE  \A x \in BookingRoom : RowKept(x)
  BY <1>0, <1>5, DropRowKept DEF ExpireStaffHold
<1>6. CASE ExpireStaleHolds
  BY <1>0, <1>6, DropRowKept DEF ExpireStaleHolds, Stale
<1>7. CASE Tick
  BY <1>7 DEF Tick, RowKept
<1> QED BY <1>1, <1>2, <1>3, <1>4, <1>5, <1>6, <1>7 DEF Next

(* What a desk transaction writes, row by row and booking by booking.      *)
CommitEffect(z, S) ==
  /\ \A x \in S : resv'[x] = NoReservation
  /\ \A x \in BookingRoom \ S :
       resv'[x].state = resv[x].state /\ (x # z => resv'[x] = resv[x])
  /\ \A c \in Booking :
       status'[c] = status[c] \/ (status[c] = "PENDING_PAYMENT" /\ status'[c] = "EXPIRED")

LEMMA CommitRows ==
  ASSUME DeskInv, DeskCommit
  PROVE  \E z \in Target, S \in SUBSET BookingRoom : CommitEffect(z, S)
<1>1. /\ desk \in [of : Target, to : Room, lapsed : SUBSET BookingRoom, since : 0..now]
      /\ resv \in [BookingRoom -> Reservation]
  BY RowParts DEF DeskCommit, DeskInv, DeskTypeOK
<1>2. PICK z \in Target, r \in Room, S \in SUBSET BookingRoom :
        z = desk.of /\ r = desk.to /\ S = desk.lapsed
  BY <1>1
<1>3. PICK rows : rows = Released(resv, S)
  OBVIOUS
<1>4. /\ rows \in [BookingRoom -> Reservation]
      /\ \A x \in S : rows[x] = NoReservation
      /\ \A x \in BookingRoom : x \notin S => rows[x] = resv[x]
  BY <1>1, <1>3, RowFacts DEF Released
<1>5. resv' = IF z \in BookingRoom /\ rows[z] # NoReservation
                THEN [rows EXCEPT ![z] = [rows[z] EXCEPT !.room = r]] ELSE rows
  BY <1>2, <1>3 DEF DeskCommit
<1>6. z \in BookingRoom /\ rows[z] # NoReservation =>
        [rows[z] EXCEPT !.room = r].state = rows[z].state
  BY <1>4 DEF Reservation
<1>7. \A x \in BookingRoom :
        /\ resv'[x].state = rows[x].state
        /\ x # z \/ rows[x] = NoReservation => resv'[x] = rows[x]
  BY <1>4, <1>5, <1>6
<1> QED BY <1>4, <1>7, CommitBookings DEF CommitEffect

LEMMA CommitRowKept ==
  ASSUME DeskInv, DeskCommit
  PROVE  \A x \in BookingRoom : RowKept(x)
<1>1. PICK z \in Target, S \in SUBSET BookingRoom : CommitEffect(z, S)
  BY CommitRows
<1> QED BY <1>1, RowFacts, BookingAssumption DEF CommitEffect, RowKept

(* An upgrade of x changes no row but that of x, and of that the room.     *)
LEMMA UpgradeRows ==
  ASSUME DeskInv, NEW x \in BookingRoom, ApplyAcUpgrade(x)
  PROVE  /\ status' = status /\ status[bookingOf[x]] = "CONFIRMED"
         /\ resv'[x].state = resv[x].state
         /\ \A y \in BookingRoom \ {x} : resv'[y] = resv[y]
<1>1. /\ status' = status /\ status[bookingOf[x]] = "CONFIRMED" /\ resv[x] # NoReservation
      /\ resv' = resv \/ \E r \in Room : resv' = [resv EXCEPT ![x] = [resv[x] EXCEPT !.room = r]]
  BY DEF ApplyAcUpgrade, RoomsIn
<1>2. resv \in [BookingRoom -> Reservation] /\ resv[x] \in [room : Room, state : {"HELD", "CONFIRMED"}]
  BY <1>1, RowParts DEF DeskInv, Reservation
<1>3. \A r \in Room : [resv[x] EXCEPT !.room = r].state = resv[x].state
  BY <1>2
<1> QED BY <1>1, <1>2, <1>3

LEMMA QuietRows ==
  ASSUME DeskInv, DeskQuiet
  PROVE  UNCHANGED <<status, resv>> \/ \E x \in BookingRoom : ApplyAcUpgrade(x)
<1>1. DeskAbort \/ UNCHANGED allVars => UNCHANGED <<status, resv>>
  BY DEF DeskAbort, allVars, vars
<1>2. \A k \in Block : ReleaseRoomBlock(k) \/ (\E r \in Room : BlockBegin(k, r))
        => UNCHANGED <<status, resv>>
  BY DEF ReleaseRoomBlock, BlockBegin, vars
<1>3. \A x \in BookingRoom : (\E r \in Room : MoveBegin(x, r)) => UNCHANGED <<status, resv>>
  BY DEF MoveBegin, vars
<1> QED BY <1>1, <1>2, <1>3 DEF DeskQuiet

LEMMA QuietRowKept ==
  ASSUME DeskInv, DeskQuiet
  PROVE  \A x \in BookingRoom : RowKept(x)
<1>1. CASE UNCHANGED <<status, resv>>
  BY <1>1 DEF RowKept
<1>2. ASSUME NEW y \in BookingRoom, ApplyAcUpgrade(y)
      PROVE  \A x \in BookingRoom : RowKept(x)
  <2>1. status' = status /\ \A x \in BookingRoom : resv'[x].state = resv[x].state
    BY <1>2, UpgradeRows
  <2> QED BY <2>1 DEF RowKept
<1> QED BY <1>1, <1>2, QuietRows

LEMMA RowsFollowNext ==
  DeskInv /\ DeskInv' /\ RowsFollowStatus /\ [DeskNext]_allVars => RowsFollowStatus'
<1> SUFFICES ASSUME DeskInv, DeskInv', RowsFollowStatus, [DeskNext]_allVars
             PROVE  RowsFollowStatus'
  OBVIOUS
<1>1. \A x \in BookingRoom : RowKept(x)
  BY DeskSteps, NextRowKept, CommitRowKept, QuietRowKept
<1> QED BY <1>1, KeptRowsFollow

LEMMA DeskStayInv == DeskInv /\ RowsFollowStatus => StayInv
<1> SUFFICES ASSUME DeskInv, RowsFollowStatus PROVE StayInv
  OBVIOUS
<1>1. TypeOK /\ NoDoubleBooking /\ RoomsFit
  BY ApartParts, Fits DEF DeskInv, DeskTypeOK
<1> QED BY <1>1 DEF StayInv

-----------------------------------------------------------------------------
(* A confirmed row that changes, alone, is Promise's Move.                 *)
LEMMA MoveStep ==
  ASSUME StayInv, StayInv', NEW z \in BookingRoom,
         resv[z].state = "CONFIRMED", resv'[z].state = "CONFIRMED",
         \A c \in Booking :
           status'[c] = status[c] \/ (status[c] = "PENDING_PAYMENT" /\ status'[c] = "EXPIRED"),
         \A x \in BookingRoom \ {z} :
           resv'[x] = resv[x] \/ (resv[x].state # "CONFIRMED" /\ resv'[x].state # "CONFIRMED")
  PROVE  Promise!Move(z)
<1>0. TypeOK /\ TypeOK' /\ bookingOf[z] \in Booking
  BY BookingAssumption DEF StayInv
<1>1. StayLife[bookingOf[z]] = "confirmed"
  BY <1>0, StayFacts DEF StayInv, RowsFollowStatus
<1>2. StayLife' = StayLife
  <2>1. \A c \in Booking : StayLife'[c] = StayLife[c]
    BY <1>0, StayFacts, StayFactsNext
  <2>2. StayLife = [c \in Booking |-> StayLife[c]] /\ StayLife' = [c \in Booking |-> StayLife'[c]]
    BY <1>0, StayFacts, StayFactsNext
  <2> QED BY <2>1, <2>2
<1>3. \A y \in BookingRoom \ {z} : StayRoom'[y] = StayRoom[y]
  BY <1>0, StayFacts, StayFactsNext
<1>4. PICK r \in Room : r = resv'[z].room /\ StayRoom'[z] = r /\ r # NoRoom
  <2>1. resv'[z].room \in Room
    BY <1>0, RowFacts DEF TypeOK
  <2> QED BY <1>0, <2>1, StayFactsNext, BookingAssumption
<1>5. Satisfies(r, z)
  BY <1>4, RowFacts DEF StayInv, RoomsFit, Satisfies
<1>6. ASSUME NEW y \in BookingRoom, Promise!Compete(z, y)
      PROVE  StayRoom[y] # r
  <2>1. z # y /\ NightsOf(bookingOf[z]) \cap NightsOf(bookingOf[y]) # {}
    BY <1>6, BookingAssumption DEF Promise!Compete
  <2>2. resv'[z].room # resv'[y].room
    BY <1>4, <2>1 DEF StayInv, NoDoubleBooking, NightsOf
  <2>3. StayRoom'[y] # r
    BY <1>0, <1>4, <2>2, StayFactsNext
  <2> QED BY <1>3, <2>1, <2>3
<1>7. StayRoom' = [StayRoom EXCEPT ![z] = r]
  <2>1. StayRoom = [x \in BookingRoom |-> StayRoom[x]] /\ StayRoom' = [x \in BookingRoom |-> StayRoom'[x]]
    BY <1>0, StayFacts, StayFactsNext
  <2> QED BY <1>3, <1>4, <2>1
<1> QED BY <1>1, <1>2, <1>4, <1>5, <1>6, <1>7 DEF Promise!Move

LEMMA CommitPromise ==
  ASSUME DeskInv, StayInv, StayInv', DeskCommit, LostRooms' \subseteq LostRooms
  PROVE  (\E x \in BookingRoom : Promise!Move(x)) \/ UNCHANGED <<StayLife, StayRoom>>
<1>1. PICK z \in Target, S \in SUBSET BookingRoom : CommitEffect(z, S)
  BY CommitRows
<1>2. TypeOK /\ TypeOK'
  BY DEF StayInv
<1>3. \A c \in Booking :
        status'[c] = status[c] \/ (status[c] = "PENDING_PAYMENT" /\ status'[c] = "EXPIRED")
  BY <1>1 DEF CommitEffect
<1>4. ASSUME NEW x \in S
      PROVE  resv[x].state # "CONFIRMED" /\ resv'[x].state # "CONFIRMED"
  <2>1. resv'[x].state # "CONFIRMED"
    BY <1>1, <1>4, RowFacts DEF CommitEffect
  <2>2. ASSUME resv[x].state = "CONFIRMED" PROVE FALSE
    <3>1. status[bookingOf[x]] = "CONFIRMED" /\ bookingOf[x] \in Booking
      BY <1>4, <2>2, BookingAssumption DEF StayInv, RowsFollowStatus
    <3>2. status'[bookingOf[x]] = "CONFIRMED"
      BY <1>3, <3>1
    <3>3. x \in LostRooms'
      BY <1>4, <2>1, <3>2 DEF LostRooms
    <3> QED BY <2>2, <3>3 DEF LostRooms
  <2> QED BY <2>1, <2>2
<1>5. \A x \in BookingRoom \ {z} :
        resv'[x] = resv[x] \/ (resv[x].state # "CONFIRMED" /\ resv'[x].state # "CONFIRMED")
  BY <1>1, <1>4 DEF CommitEffect
<1>6. CASE z \in BookingRoom /\ resv[z].state = "CONFIRMED"
  <2>1. resv'[z].state = "CONFIRMED"
    BY <1>1, <1>4, <1>6 DEF CommitEffect
  <2> QED BY <1>3, <1>5, <1>6, <2>1, MoveStep
<1>7. CASE ~(z \in BookingRoom /\ resv[z].state = "CONFIRMED")
  <2>1. \A x \in BookingRoom :
          resv'[x] = resv[x] \/ (resv[x].state # "CONFIRMED" /\ resv'[x].state # "CONFIRMED")
    BY <1>1, <1>4, <1>5, <1>7 DEF CommitEffect
  <2> QED BY <1>2, <1>3, <2>1, StutterStep
<1> QED BY <1>6, <1>7

LEMMA QuietPromise ==
  ASSUME DeskInv, StayInv, StayInv', DeskQuiet
  PROVE  (\E x \in BookingRoom : Promise!Move(x)) \/ UNCHANGED <<StayLife, StayRoom>>
<1>1. CASE UNCHANGED <<status, resv>>
  BY <1>1 DEF StayLife, StayRoom
<1>2. ASSUME NEW x \in BookingRoom, ApplyAcUpgrade(x)
      PROVE  Promise!Move(x) \/ UNCHANGED <<StayLife, StayRoom>>
  <2>1. /\ status' = status /\ resv'[x].state = resv[x].state
        /\ \A y \in BookingRoom \ {x} : resv'[y] = resv[y]
    BY <1>2, UpgradeRows
  <2>2. CASE resv[x].state = "CONFIRMED"
    BY <2>1, <2>2, MoveStep
  <2>3. CASE resv[x].state # "CONFIRMED"
    <3>1. \A y \in BookingRoom :
            resv'[y] = resv[y] \/ (resv[y].state # "CONFIRMED" /\ resv'[y].state # "CONFIRMED")
      BY <2>1, <2>3
    <3> QED BY <2>1, <3>1, StutterStep DEF StayInv
  <2> QED BY <2>2, <2>3
<1> QED BY <1>1, <1>2, QuietRows

LEMMA DeskNextPromise ==
  StayInv /\ StayInv' /\ DeskInv /\ [DeskNext]_allVars =>
    (LostRooms' \subseteq LostRooms => [Promise!Next]_(Promise!stayVars))
<1> SUFFICES ASSUME StayInv, StayInv', DeskInv, [DeskNext]_allVars, LostRooms' \subseteq LostRooms
             PROVE  Promise!Next \/ UNCHANGED <<StayLife, StayRoom>>
  BY DEF Promise!stayVars
<1>1. CASE Next
  BY <1>1, NextPromise DEF Promise!stayVars
<1>2. (\E x \in BookingRoom : Promise!Move(x)) => Promise!Next
  BY DEF Promise!Next
<1>3. CASE DeskCommit
  BY <1>2, <1>3, CommitPromise
<1>4. CASE DeskQuiet
  BY <1>2, <1>4, QuietPromise
<1> QED BY <1>1, <1>3, <1>4, DeskSteps

(* Moves, blocks and upgrades keep the promise of Stays.tla in every step  *)
(* that takes no room from a paid stay: the sweep of a hold that was paid  *)
(* meanwhile is the only way the desk ever breaks it.                      *)
THEOREM DeskImplementsStays == DeskSpec => DeskKeepsPromise
<1>1. DeskInit => RowsFollowStatus
  BY BookingAssumption DEF DeskInit, Init, RowsFollowStatus, NoReservation
<1>2. DeskSpec => []RowsFollowStatus
  BY <1>1, RowsFollowNext, DeskInvariance, PTL DEF DeskSpec
<1>3. DeskSpec => []StayInv
  BY <1>2, DeskInvariance, DeskStayInv, PTL
<1> QED BY <1>3, DeskNextPromise, DeskInvariance, PTL DEF DeskSpec, DeskKeepsPromise
=============================================================================
