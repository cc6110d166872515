------------------------------ MODULE RoomDesk ------------------------------
(***************************************************************************)
(* The desk's room chart beside the bookings: staff move a booked room to  *)
(* another physical room, take a room out of use for some nights, and a    *)
(* guest is upgraded to an air-conditioned room.                           *)
(*                                                                         *)
(* reassignBookingRoom and createRoomBlock run at READ COMMITTED: they     *)
(* lock the rooms of a group, read which holds have lapsed, and then       *)
(* release those rows by id.  A settlement locks the booking and no room,  *)
(* so it can run between the two.  Here such a transaction takes two       *)
(* steps, and every action of Booking.tla may come between them unless it  *)
(* needs a lock the desk holds.                                            *)
(***************************************************************************)
EXTENDS Booking

CONSTANTS
  Block,         \* room blocks that may be made; a released one may be remade
  blockIn,       \* first night of each block
  blockOut       \* the day its last night ends

ASSUME BlockAssumption ==
  /\ Block \cap BookingRoom = {}
  /\ blockIn \in [Block -> Nat] /\ blockOut \in [Block -> Nat]
  /\ \A k \in Block : blockIn[k] < blockOut[k]

VARIABLES
  blocks,        \* the room an active RoomBlock has a CONFIRMED row on
  upgraded,      \* booking rooms whose acMode was changed to AC
  desk           \* the desk transaction in progress: one at a time

deskVars == <<blocks, upgraded, desk>>
allVars == <<vars, blocks, upgraded, desk>>

Target == BookingRoom \cup Block
NoDesk == [of |-> NoRoom, to |-> NoRoom, lapsed |-> {}, since |-> 0]

DeskTypeOK ==
  /\ TypeOK
  /\ blocks \in [Block -> Room \cup {NoRoom}]
  /\ upgraded \subseteq BookingRoom
  /\ \/ desk = NoDesk
     \/ desk \in [of : Target, to : Room, lapsed : SUBSET BookingRoom, since : 0..now]

DeskInit ==
  /\ Init
  /\ blocks = [k \in Block |-> NoRoom]
  /\ upgraded = {}
  /\ desk = NoDesk

-----------------------------------------------------------------------------
RoomsIn(g) == {r \in Room : roomGroupId[r] = g}
FirstNight(z) == IF z \in Block THEN blockIn[z] ELSE checkIn[bookingOf[z]]
LastDay(z) == IF z \in Block THEN blockOut[z] ELSE checkOut[bookingOf[z]]

(* The half-open overlap of isRoomFree, between booked rooms and blocks.   *)
Clash(y, z) == FirstNight(y) < LastDay(z) /\ LastDay(y) > FirstNight(z)

(* BookingRoom.acMode as it is now.                                        *)
WantsAc(x) == x \in acMode \cup upgraded

(* Mutant: the acMode the room was booked with.                            *)
RoomSupports_AsBooked(r, x) == x \in acMode => r \in supportsAc

(* assertRoomSupportsAc, for the rooms that ask for it.                    *)
RoomSupports(r, x) == WantsAc(x) => r \in supportsAc

(* Mutant: the blocks are on another page.                                 *)
IsRoomFree_BookingsOnly(rows, r, z) ==
  \A y \in BookingRoom \ {z} : rows[y].room = r => ~Clash(y, z)

(* isRoomFree: no other live row on the room overlaps, of a booking or of  *)
(* a block; the row being moved is not in its own way.                     *)
IsRoomFree(rows, r, z) ==
  /\ \A y \in BookingRoom \ {z} : rows[y].room = r => ~Clash(y, z)
  /\ \A k \in Block \ {z} : blocks[k] = r => ~Clash(k, z)

-----------------------------------------------------------------------------
(* Locks.  The desk holds every room of the group it works in and, for a   *)
(* move, the booking.                                                      *)
HoldsRooms(b) ==
  desk # NoDesk /\ \E x \in RoomsOf(b) : roomGroupId[x] = roomGroupId[desk.to]
HoldsBooking(b) == desk # NoDesk /\ desk.of \in RoomsOf(b)

(* Whoever writes a booking or its orders has locked it, and a transaction *)
(* is rolled back when it is too old.                                      *)
LocksRespected ==
  /\ \A b \in Booking : HoldsBooking(b) => status'[b] = status[b] /\ order'[b] = order[b]
  /\ desk # NoDesk => now' - desk.since <= MaxLag

(* findOccupiedRoomIds counts the rows of blocks too.                      *)
OffBlocks(b) ==
  \A x \in RoomsOf(b), k \in Block : resv'[x].room = blocks[k] => ~Clash(x, k)

BookingStep ==
  /\ \/ \E b \in Booking :
          /\ ~HoldsRooms(b)
          /\ CreateHold(b) \/ CreateStaffBooking(b) \/ AllocatePaidUnallocated(b)
          /\ OffBlocks(b)
     \/ \E b \in Booking :
          \/ CreatePaymentOrder(b) \/ Capture(b) \/ SettleConfirmed(b)
          \/ SettleUnallocated(b) \/ ExpireStaffHold(b) \/ CancelManagedBooking(b)
     \/ ExpireStaleHolds
     \/ Tick
  /\ LocksRespected
  /\ UNCHANGED deskVars

-----------------------------------------------------------------------------
(* Mutant: every hold of the group is swept, whatever its deadline.        *)
DeskSweep_AllHolds(r) ==
  {x \in BookingRoom : resv[x].state = "HELD" /\ roomGroupId[resv[x].room] = roomGroupId[r]}

(* What releaseLapsedHolds reads once the rooms of r's group are locked.   *)
DeskSweep(r) == LapsedRows(RoomsIn(roomGroupId[r]), now)

DeskBegin(z, r) ==
  desk' = [of |-> z, to |-> r, lapsed |-> DeskSweep(r), since |-> now]

(* reassignBookingRoom up to the sweep: the booking is confirmed or held,  *)
(* the booked room has a live row, the target is in the same group.        *)
MoveBegin(x, r) ==
  /\ desk = NoDesk
  /\ status[bookingOf[x]] \in {"CONFIRMED", "PENDING_PAYMENT"}
  /\ resv[x] # NoReservation
  /\ roomGroupId[r] = roomGroupId[x]
  /\ DeskBegin(x, r)
  /\ UNCHANGED <<vars, blocks, upgraded>>

(* createRoomBlock up to the sweep.                                        *)
BlockBegin(k, r) ==
  /\ desk = NoDesk
  /\ blocks[k] = NoRoom
  /\ DeskBegin(k, r)
  /\ UNCHANGED <<vars, blocks, upgraded>>

(* Mutant: the bookings of the swept rows expire whatever became of them.  *)
SweptStatus_Unguarded(S) ==
  [b \in Booking |-> IF b \in Owners(S) THEN "EXPIRED" ELSE status[b]]

SweptStatus(S) ==
  [b \in Booking |->
     IF b \in Owners(S) /\ status[b] = "PENDING_PAYMENT" THEN "EXPIRED" ELSE status[b]]

(* The rest of both transactions: the rows that were read are released,    *)
(* held or not; orders and bookings expire only if still open; the room is *)
(* looked at and written.  A row the transaction swept itself is moved on  *)
(* paper only: it stays released.                                          *)
DeskCommit ==
  LET z == desk.of
      r == desk.to
      rows == Released(resv, desk.lapsed)
  IN  /\ desk # NoDesk
      /\ z \in BookingRoom => RoomSupports(r, z)
      /\ IsRoomFree(rows, r, z)
      /\ resv' = IF z \in BookingRoom /\ rows[z] # NoReservation
                   THEN [rows EXCEPT ![z].room = r] ELSE rows
      /\ blocks' = [k \in Block |-> IF k = z THEN r ELSE blocks[k]]
      /\ order' = OrdersExpired(Owners(desk.lapsed))
      /\ status' = SweptStatus(desk.lapsed)
      /\ desk' = NoDesk
      /\ UNCHANGED <<now, holdExpires, payment, recorded, outbox, upgraded>>

(* The room is not free, is not air-conditioned, or the database gives up: *)
(* an exception rolls everything back.                                     *)
DeskAbort ==
  /\ desk # NoDesk
  /\ desk' = NoDesk
  /\ UNCHANGED <<vars, blocks, upgraded>>

(* releaseRoomBlock takes no lock.                                         *)
ReleaseRoomBlock(k) ==
  /\ blocks[k] # NoRoom
  /\ blocks' = [blocks EXCEPT ![k] = NoRoom]
  /\ UNCHANGED <<vars, upgraded, desk>>

(* applyAcUpgrade: a room that supports air conditioning stays; otherwise  *)
(* the group is locked, without a sweep, and a free room that does is      *)
(* taken.  No such room, no upgrade.                                       *)
ApplyAcUpgrade(x) ==
  /\ status[bookingOf[x]] = "CONFIRMED" /\ ~WantsAc(x)
  /\ resv[x] # NoReservation
  /\ ~HoldsBooking(bookingOf[x])
  /\ \/ resv[x].room \in supportsAc /\ UNCHANGED resv
     \/ /\ resv[x].room \notin supportsAc
        /\ desk # NoDesk => roomGroupId[desk.to] # roomGroupId[x]
        /\ \E r \in RoomsIn(roomGroupId[x]) \cap supportsAc :
             /\ IsRoomFree(resv, r, x)
             /\ resv' = [resv EXCEPT ![x].room = r]
  /\ upgraded' = upgraded \cup {x}
  /\ UNCHANGED <<now, status, holdExpires, order, payment, recorded, outbox, blocks, desk>>

(* What staff can begin on a stay's page and on the room chart.  Both show *)
(* rooms as they were when the page was loaded, so that a room offered as  *)
(* free may be taken by now, and a block on show may be gone.              *)
ReassignPicker(x) == \E r \in Room : MoveBegin(x, r)
RoomsPanel == \E x \in BookingRoom : ApplyAcUpgrade(x) \/ ReassignPicker(x)
RoomsBoard ==
  \E k \in Block : ReleaseRoomBlock(k) \/ \E r \in Room : BlockBegin(k, r)

DeskNext ==
  \/ BookingStep
  \/ RoomsPanel \/ RoomsBoard
  \/ DeskCommit \/ DeskAbort

DeskSpec == DeskInit /\ [][DeskNext]_allVars

-----------------------------------------------------------------------------
(* No room is given to two booked rooms, or to a booked room and a block,  *)
(* on one night, whatever the desk moves or takes out of use meanwhile     *)
(* (RoomReservation_no_overlap, which counts the rows of both).            *)
RoomHeldBy(z) == IF z \in Block THEN blocks[z] ELSE resv[z].room
Nights(z) == FirstNight(z)..(LastDay(z) - 1)

RoomsApart ==
  \A y, z \in Target :
    /\ y # z
    /\ RoomHeldBy(y) # NoRoom
    /\ RoomHeldBy(y) = RoomHeldBy(z)
    => Nights(y) \cap Nights(z) = {}

(* A guest stays in the group that was booked and, having paid for air     *)
(* conditioning at booking or later, in a room that has it, through any    *)
(* sequence of upgrades and moves (manage-booking-service.ts:327-329).     *)
RoomsDeliver ==
  \A x \in BookingRoom :
    resv[x] # NoReservation =>
      /\ roomGroupId[resv[x].room] = roomGroupId[x]
      /\ WantsAc(x) => resv[x].room \in supportsAc

(* What a desk transaction can take from a confirmed stay is at most the   *)
(* room of a hold whose deadline had passed: never that of a stay the desk *)
(* booked, nor of one whose deadline is still to come.                     *)
OnlyLateRoomsAreLost ==
  \A x \in BookingRoom :
    LET b == bookingOf[x] IN
    status[b] = "CONFIRMED" /\ resv[x].state # "CONFIRMED"
      => 0 < holdExpires[b] /\ holdExpires[b] <= now

(* The desk, too, keeps the promise of Stays.tla: any step that takes no   *)
(* room away from a paid stay is one of its steps or none.  What a move or *)
(* an upgrade changes is a Move, no sweep ends a stay that was confirmed,  *)
(* and a stay that has lost a room keeps the others and is cancelled as    *)
(* any other (reassignBookingRoom, applyAcUpgrade, createRoomBlock).       *)
LostRooms ==
  {x \in BookingRoom : status[bookingOf[x]] = "CONFIRMED" /\ resv[x].state # "CONFIRMED"}

DeskKeepsPromise ==
  [][LostRooms' \subseteq LostRooms => [Promise!Next]_(Promise!stayVars)]_allVars

(* What allocation.ts:62-63 says of the sweep: money that has arrived must *)
(* never have its room taken away.                                         *)
PaidStaysHaveRooms ==
  \A x \in BookingRoom : status[bookingOf[x]] = "CONFIRMED" => resv[x].state = "CONFIRMED"
=============================================================================
