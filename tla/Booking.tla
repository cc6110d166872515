------------------------------ MODULE Booking ------------------------------
(***************************************************************************)
(* The life of a booking: a guest holds rooms, pays an advance before the  *)
(* hold's deadline and is confirmed; or the deadline passes and the hold   *)
(* is swept; or the money arrives too late and staff find other rooms.     *)
(* One action is one database transaction of src/src/server/services, with *)
(* the provider and the clock as the environment.                          *)
(*                                                                         *)
(* Every transaction modelled here is SERIALIZABLE or locks the booking    *)
(* row FOR UPDATE before it decides, so it appears to happen at once, with *)
(* one exception (see Unseen).  A transaction that throws rolls back: it   *)
(* is a step that changes nothing, and is not written.  The desk's READ    *)
(* COMMITTED transactions, for which this is not true, are in RoomDesk.tla.*)
(*                                                                         *)
(* The database rows are functions of the booking (or of the booked room): *)
(*   status, holdExpires   Booking.status, Booking.holdExpiresAt           *)
(*   resv                  the one HELD or CONFIRMED RoomReservation a     *)
(*                         booking room may have; a RELEASED row is "NONE" *)
(*   order                 PaymentOrder.status of the online order         *)
(*   recorded              bookings with a PaymentTransaction row          *)
(*   outbox                dedupe keys of the NotificationMessage rows     *)
(* A booking is one create-hold or create-booking request: a replay of its *)
(* idempotency key finds the booking and changes nothing.                  *)
(***************************************************************************)
EXTENDS Integers

CONSTANTS
  Booking,       \* bookings that may be made
  BookingRoom,   \* the rooms they ask for
  Room,          \* physical rooms
  NoRoom,        \* not a room
  bookingOf,     \* [BookingRoom -> Booking]
  roomGroupId,   \* the group of each room and of each booking room
  acMode,        \* the booking rooms that ask for air conditioning
  supportsAc,    \* the rooms that have it
  checkIn,       \* first night of each booking
  checkOut,      \* the day its last night ends
  HoldTtl,       \* policyRevision.holdTtlMinutes, in ticks
  MaxLag,        \* how old the `now` a transaction captured may be
  MaxTime        \* bound on the clock

ASSUME BookingAssumption ==
  /\ bookingOf \in [BookingRoom -> Booking]
  /\ \A b \in Booking : \E x \in BookingRoom : bookingOf[x] = b
  /\ checkIn \in [Booking -> Nat] /\ checkOut \in [Booking -> Nat]
  /\ \A b \in Booking : checkIn[b] < checkOut[b]
  /\ NoRoom \notin Room
  /\ HoldTtl \in Nat \ {0} /\ MaxLag \in Nat /\ MaxTime \in Nat

VARIABLES
  now,           \* the database server's clock
  status,        \* BookingStatus, or "NONE" before the booking is made
  holdExpires,   \* holdExpiresAt, 0 for null
  resv,          \* the live reservation of each booking room
  order,         \* status of the online payment order
  payment,       \* what the provider captured for the order (environment)
  recorded,      \* bookings whose payment has a PaymentTransaction row
  outbox         \* <<template, booking>> notifications queued

vars == <<now, status, holdExpires, resv, order, payment, recorded, outbox>>

Status == {"NONE", "PENDING_PAYMENT", "CONFIRMED", "CANCELLED", "EXPIRED"}
OrderStatus == {"NONE", "PENDING", "PAID", "PAID_UNALLOCATED", "EXPIRED"}
Captured == {"NONE", "EXACT", "MISMATCH"}
Template == {"booking_confirmation", "payment_receipt", "booking_cancelled",
             "staff_payment_exception"}

NoReservation == [room |-> NoRoom, state |-> "NONE"]
Live(r, s) == [room |-> r, state |-> s]
Reservation == {NoReservation} \cup [room : Room, state : {"HELD", "CONFIRMED"}]

RoomsOf(b) == {x \in BookingRoom : bookingOf[x] = b}

TypeOK ==
  /\ now \in Nat
  /\ status \in [Booking -> Status]
  /\ holdExpires \in [Booking -> Nat]
  /\ resv \in [BookingRoom -> Reservation]
  /\ order \in [Booking -> OrderStatus]
  /\ payment \in [Booking -> Captured]
  /\ recorded \subseteq Booking
  /\ outbox \subseteq Template \X Booking

Init ==
  /\ now = 0
  /\ status = [b \in Booking |-> "NONE"]
  /\ holdExpires = [b \in Booking |-> 0]
  /\ resv = [x \in BookingRoom |-> NoReservation]
  /\ order = [b \in Booking |-> "NONE"]
  /\ payment = [b \in Booking |-> "NONE"]
  /\ recorded = {}
  /\ outbox = {}

-----------------------------------------------------------------------------
(* A handler reads the clock when it starts and decides with that reading, *)
(* however long it then waits for locks: at most the transaction timeout.  *)
Reading == {t \in 0..now : now - t <= MaxLag}

-----------------------------------------------------------------------------
(* allocation.ts                                                           *)

(* roomSatisfies: the right group, and air conditioning if it was asked.   *)
Satisfies(r, x) ==
  /\ roomGroupId[r] = roomGroupId[x]
  /\ x \in acMode => r \in supportsAc

(* lockRoomsForGroups: the rooms of every group the booking asks for.      *)
LockedRooms(b) ==
  {r \in Room : \E x \in RoomsOf(b) : roomGroupId[r] = roomGroupId[x]}

(* releaseLapsedHolds, what it finds: held rows on the locked rooms, past  *)
(* the deadline, of a booking still awaiting payment with no paid order.   *)
(* A held row carries its booking's own deadline, written with it.         *)
LapsedRows(R, t) ==
  {x \in BookingRoom :
     /\ resv[x].state = "HELD" /\ resv[x].room \in R
     /\ holdExpires[bookingOf[x]] <= t
     /\ status[bookingOf[x]] = "PENDING_PAYMENT"
     /\ order[bookingOf[x]] # "PAID"}

Owners(S) == {bookingOf[x] : x \in S}

(* Mutant: the state is released and the room is left behind.              *)
Released_KeepsRoom(rows, S) ==
  [x \in BookingRoom |-> IF x \in S THEN [rows[x] EXCEPT !.state = "NONE"] ELSE rows[x]]

Released(rows, S) == [x \in BookingRoom |-> IF x \in S THEN NoReservation ELSE rows[x]]

(* Open orders of expired bookings expire with them.                       *)
OrdersExpired(B) ==
  [b \in Booking |-> IF b \in B /\ order[b] = "PENDING" THEN "EXPIRED" ELSE order[b]]

(* An order opened just before the deadline, by a transaction that commits *)
(* while a SERIALIZABLE sweep is running, is not in the sweep's snapshot,  *)
(* and a row that was only locked is no conflict: the order stays open.    *)
Unseen(B) == {b \in B : order[b] = "NONE" /\ \E t \in Reading : holdExpires[b] > t}

(* Mutant: the last night is forgotten.                                    *)
Overlap_LastNightFree(b, c) == checkIn[b] < checkOut[c] - 1 /\ checkOut[b] - 1 > checkIn[c]

(* findOccupiedRoomIds: half-open overlap with any held or confirmed row,  *)
(* a held row past its deadline included.                                  *)
Overlap(b, c) == checkIn[b] < checkOut[c] /\ checkOut[b] > checkIn[c]

(* Mutant: like getAvailabilityForDates, a lapsed hold occupies nothing.   *)
FreeRooms_IgnoresLapsed(rows, b, R) ==
  {r \in R : \A x \in BookingRoom :
     rows[x].room = r /\ (rows[x].state = "CONFIRMED" \/ holdExpires[bookingOf[x]] > now)
       => ~Overlap(b, bookingOf[x])}

FreeRooms(rows, b, R) ==
  {r \in R : \A x \in BookingRoom : rows[x].room = r => ~Overlap(b, bookingOf[x])}

(* assignRooms: one free room for each booking room.  The code takes the   *)
(* first that fits, in the order of the rooms; any choice is allowed here. *)
Assignments(rows, b, R) ==
  {f \in [RoomsOf(b) -> FreeRooms(rows, b, R)] :
     /\ \A x \in RoomsOf(b) : Satisfies(f[x], x)
     /\ \A x, y \in RoomsOf(b) : f[x] = f[y] => x = y}

(* The rows a booking gets for the rooms assigned to it.                   *)
Placed(rows, b, f, s) ==
  [x \in BookingRoom |-> IF bookingOf[x] = b THEN Live(f[x], s) ELSE rows[x]]

-----------------------------------------------------------------------------
(* allocateRooms, inside the transaction that makes or moves booking b:    *)
(* sweep the lapsed holds of the locked rooms, then place b in free rooms. *)
(* own are b's own rows, released first; kind is the reservation state.    *)
AllocateRooms(b, t, kind) ==
  LET R == LockedRooms(b)
      own == RoomsOf(b)
      lapsed == LapsedRows(R, t) \ own
      rows == Released(resv, lapsed \cup own)
      dropped == Owners(lapsed)
  IN  /\ \E f \in Assignments(rows, b, R) : resv' = Placed(rows, b, f, kind)
      /\ status' = [c \in Booking |->
                      IF c = b THEN IF kind = "HELD" THEN "PENDING_PAYMENT" ELSE "CONFIRMED"
                      ELSE IF c \in dropped THEN "EXPIRED" ELSE status[c]]
      /\ \E late \in SUBSET Unseen(dropped) :
           order' = [c \in Booking |->
                       IF c = b /\ order[b] = "PAID_UNALLOCATED" THEN "PAID"
                       ELSE IF c \in late THEN "PENDING" ELSE OrdersExpired(dropped)[c]]

(* Mutant: a receipt for a booking the desk took.                          *)
NotifyConfirmed_ReceiptAlways(b, receipt) ==
  outbox' = outbox \cup {<<"booking_confirmation", b>>, <<"payment_receipt", b>>}

(* notifyBookingConfirmed, in the same transaction: the guest's mail, and  *)
(* a receipt when the advance was paid online.  Keys are unique: queueing  *)
(* a second time writes nothing.                                           *)
NotifyConfirmed(b, receipt) ==
  outbox' = outbox \cup {<<"booking_confirmation", b>>}
                   \cup (IF receipt THEN {<<"payment_receipt", b>>} ELSE {})

(* notifyPaymentException and notifyBookingCancelled.                      *)
NotifyPaymentException(b) == outbox' = outbox \cup {<<"staff_payment_exception", b>>}
NotifyBookingCancelled(b) == outbox' = outbox \cup {<<"booking_cancelled", b>>}

(* createHold: SERIALIZABLE, retried; rooms held until the deadline.       *)
CreateHold(b) ==
  /\ status[b] = "NONE"
  /\ \E t \in Reading :
       /\ AllocateRooms(b, t, "HELD")
       /\ holdExpires' = [holdExpires EXCEPT ![b] = t + HoldTtl]
  /\ UNCHANGED <<now, payment, recorded, outbox>>

(* createStaffBooking: SERIALIZABLE, confirmed at once, without a hold.    *)
CreateStaffBooking(b) ==
  /\ status[b] = "NONE"
  /\ \E t \in Reading : AllocateRooms(b, t, "CONFIRMED")
  /\ NotifyConfirmed(b, FALSE)
  /\ UNCHANGED <<now, holdExpires, payment, recorded>>

(* createPaymentOrder: under the booking's lock, for a hold still running; *)
(* an order already open is handed out again.                              *)
CreatePaymentOrder(b) ==
  /\ status[b] = "PENDING_PAYMENT"
  /\ \E t \in Reading : holdExpires[b] > t
  /\ order[b] = "NONE"
  /\ order' = [order EXCEPT ![b] = "PENDING"]
  /\ UNCHANGED <<now, status, holdExpires, resv, payment, recorded, outbox>>

(* The provider captures a payment.  It is not told the hold's deadline,   *)
(* so it may do so at any time after the order was created.                *)
Capture(b) ==
  /\ order[b] # "NONE" /\ payment[b] = "NONE"
  /\ \E c \in {"EXACT", "MISMATCH"} : payment' = [payment EXCEPT ![b] = c]
  /\ UNCHANGED <<now, status, holdExpires, resv, order, recorded, outbox>>

-----------------------------------------------------------------------------
(* settleVerifiedPayment, for a delivery of b's captured payment: by the   *)
(* webhook or by the guest's browser, at any time, any number of times.    *)

(* Mutant: the paid order of a booking cancelled since is not recognised.  *)
Undecided_PaidAgain(b) ==
  /\ payment[b] = "EXACT"
  /\ ~(order[b] = "PAID" /\ status[b] = "CONFIRMED")
  /\ order[b] # "PAID_UNALLOCATED"

(* Mutant: money for a booking no longer pending is refused.               *)
Undecided_PendingOnly(b) ==
  /\ payment[b] = "EXACT"
  /\ status[b] = "PENDING_PAYMENT"
  /\ b \notin recorded

(* What lets a delivery write: not settled before, the exact amount (any   *)
(* other is an exception and rolls back), and a providerPaymentId that has *)
(* no PaymentTransaction row yet.                                          *)
Undecided(b) ==
  /\ payment[b] = "EXACT"
  /\ ~(order[b] = "PAID" /\ status[b] = "CONFIRMED")
  /\ order[b] # "PAID_UNALLOCATED"
  /\ b \notin recorded

(* Mutant: only the deadline is looked at, not what the sweep or the desk  *)
(* did to the booking meanwhile.                                           *)
HoldLapsed_DeadlineOnly(b, t) == t >= holdExpires[b]

HoldLapsed(b, t) ==
  \/ status[b] # "PENDING_PAYMENT"
  \/ t >= holdExpires[b]
  \/ \A x \in RoomsOf(b) : resv[x].state # "HELD"

SettleConfirmed(b) ==
  /\ Undecided(b)
  /\ \E t \in Reading : ~HoldLapsed(b, t)
  /\ order' = [order EXCEPT ![b] = "PAID"]
  /\ recorded' = recorded \cup {b}
  /\ resv' = [x \in BookingRoom |->
                IF bookingOf[x] = b /\ resv[x].state = "HELD"
                  THEN Live(resv[x].room, "CONFIRMED") ELSE resv[x]]
  /\ status' = [status EXCEPT ![b] = "CONFIRMED"]
  /\ NotifyConfirmed(b, TRUE)
  /\ UNCHANGED <<now, holdExpires, payment>>

SettleUnallocated(b) ==
  /\ Undecided(b)
  /\ \E t \in Reading : HoldLapsed(b, t)
  /\ order' = [order EXCEPT ![b] = "PAID_UNALLOCATED"]
  /\ recorded' = recorded \cup {b}
  /\ NotifyPaymentException(b)
  /\ UNCHANGED <<now, status, holdExpires, resv, payment>>

-----------------------------------------------------------------------------
(* Dropping holds without payment: their held rows go, their open orders   *)
(* expire.                                                                 *)
Drop(B) ==
  /\ resv' = Released(resv, {x \in BookingRoom : bookingOf[x] \in B /\ resv[x].state = "HELD"})
  /\ order' = OrdersExpired(B)
  /\ status' = [b \in Booking |-> IF b \in B THEN "EXPIRED" ELSE status[b]]
  /\ UNCHANGED <<now, holdExpires, payment, recorded, outbox>>

(* Mutant: confirmed bookings keep their deadline and are found too.       *)
Stale_AnyStatus(t) ==
  {b \in Booking : status[b] # "NONE" /\ 0 < holdExpires[b] /\ holdExpires[b] <= t}

(* Mutant: a hold with an order is left to the payment provider.           *)
Stale_NoOrder(t) ==
  {b \in Booking :
     status[b] = "PENDING_PAYMENT" /\ holdExpires[b] <= t /\ order[b] = "NONE"}

(* expireStaleHolds, the scheduled job: locks what it found and looks      *)
(* again before it writes.                                                 *)
Stale(t) ==
  {b \in Booking :
     status[b] = "PENDING_PAYMENT" /\ holdExpires[b] <= t /\ order[b] # "PAID"}

ExpireStaleHolds ==
  \E t \in Reading : Stale(t) # {} /\ Drop(Stale(t))

(* expireStaffHold: the desk drops an unpaid hold before its deadline.     *)
ExpireStaffHold(b) ==
  /\ status[b] = "PENDING_PAYMENT"
  /\ order[b] \notin {"PAID", "PAID_UNALLOCATED"}
  /\ Drop({b})

(* allocatePaidUnallocated: staff find rooms for money that came too late. *)
AllocatePaidUnallocated(b) ==
  /\ order[b] = "PAID_UNALLOCATED"
  /\ status[b] \in {"PENDING_PAYMENT", "EXPIRED"}
  /\ \E t \in Reading : AllocateRooms(b, t, "CONFIRMED")
  /\ NotifyConfirmed(b, TRUE)
  /\ UNCHANGED <<now, holdExpires, payment, recorded>>

(* cancelManagedBooking, by the guest or, without a cut-off, by staff.     *)
CancelManagedBooking(b) ==
  /\ status[b] = "CONFIRMED"
  /\ resv' = Released(resv, {x \in RoomsOf(b) : resv[x].state = "CONFIRMED"})
  /\ status' = [status EXCEPT ![b] = "CANCELLED"]
  /\ NotifyBookingCancelled(b)
  /\ UNCHANGED <<now, holdExpires, order, payment, recorded>>

Tick ==
  /\ now < MaxTime
  /\ now' = now + 1
  /\ UNCHANGED <<status, holdExpires, resv, order, payment, recorded, outbox>>

-----------------------------------------------------------------------------
Settle(b) == SettleConfirmed(b) \/ SettleUnallocated(b)

Next ==
  \/ \E b \in Booking :
       \/ CreateHold(b) \/ CreateStaffBooking(b) \/ CreatePaymentOrder(b)
       \/ Capture(b) \/ SettleConfirmed(b) \/ SettleUnallocated(b)
       \/ ExpireStaffHold(b) \/ AllocatePaidUnallocated(b) \/ CancelManagedBooking(b)
  \/ ExpireStaleHolds
  \/ Tick

Spec == Init /\ [][Next]_vars

(* The scheduler keeps running the expiry job, the provider redelivers an  *)
(* unacknowledged webhook, and time passes.                                *)
Fairness ==
  /\ WF_vars(ExpireStaleHolds)
  /\ \A b \in Booking : WF_vars(Settle(b))
  /\ WF_vars(Tick)

FairSpec == Spec /\ Fairness

-----------------------------------------------------------------------------
(* A booking's rooms and its status never disagree.  Awaiting payment: all *)
(* its rooms are held, so settlement's count of held rows can only be none *)
(* or all.  Confirmed: all its rooms are confirmed.  In any other status   *)
(* it has no confirmed row: nobody's room is kept for a stay that is not.  *)
(* (allocation.ts, payment-settlement.ts:142-154, cancelManagedBooking)    *)
RoomsMatchStatus ==
  \A x \in BookingRoom :
    LET s == status[bookingOf[x]] IN
    /\ s = "PENDING_PAYMENT" => resv[x].state = "HELD"
    /\ s = "CONFIRMED" <=> resv[x].state = "CONFIRMED"
    /\ s \in {"NONE", "CANCELLED"} => resv[x] = NoReservation

(* No room is given to two booking rooms on one night, whoever holds it    *)
(* and however long the hold has been over (RoomReservation_no_overlap).   *)
NightsOf(b) == checkIn[b]..(checkOut[b] - 1)

NoDoubleBooking ==
  \A x, y \in BookingRoom :
    /\ x # y
    /\ resv[x].room # NoRoom
    /\ resv[x].room = resv[y].room
    => NightsOf(bookingOf[x]) \cap NightsOf(bookingOf[y]) = {}

(* Money the provider captured is recorded once and stays accounted for:   *)
(* an order with a transaction row is PAID, on a stay confirmed or since   *)
(* cancelled, or PAID_UNALLOCATED, with staff alerted and the booking not  *)
(* confirmed; and no order is in these states without the exact amount.    *)
MoneyAccounted ==
  \A b \in Booking :
    /\ b \in recorded <=> order[b] \in {"PAID", "PAID_UNALLOCATED"}
    /\ b \in recorded => payment[b] = "EXACT"
    /\ order[b] = "PAID" => status[b] \in {"CONFIRMED", "CANCELLED"}
    /\ order[b] = "PAID_UNALLOCATED" =>
         /\ status[b] \in {"PENDING_PAYMENT", "EXPIRED"}
         /\ <<"staff_payment_exception", b>> \in outbox

(* The guest is told exactly what happened: a confirmation was queued for  *)
(* every stay that was confirmed and for no other, a receipt for every     *)
(* online advance that bought a stay, a cancellation for every one lost.   *)
GuestIsTold ==
  \A b \in Booking :
    /\ <<"booking_confirmation", b>> \in outbox <=> status[b] \in {"CONFIRMED", "CANCELLED"}
    /\ <<"payment_receipt", b>> \in outbox <=> order[b] = "PAID"
    /\ <<"booking_cancelled", b>> \in outbox <=> status[b] = "CANCELLED"

(* A cancelled booking is final, a pending one is confirmed with its money *)
(* recorded, and what a confirmed one turns into is cancelled.  An expired *)
(* one is final only while nobody paid for it: for recorded money the desk *)
(* brings it back (allocatePaidUnallocated, which steps around             *)
(* canTransition), against the table below.                                *)
Lifecycle ==
  [][\A b \in Booking : status'[b] # status[b] =>
       \/ status[b] = "NONE"
       \/ status[b] = "PENDING_PAYMENT" /\ status'[b] = "EXPIRED" /\ order'[b] # "PAID"
       \/ status[b] = "PENDING_PAYMENT" /\ status'[b] = "CONFIRMED" /\ b \in recorded'
       \/ status[b] = "EXPIRED" /\ status'[b] = "CONFIRMED" /\ b \in recorded
       \/ status[b] = "CONFIRMED" /\ status'[b] = "CANCELLED"]_vars

(* A hold past its deadline does not wait for ever, paid too late or not.  *)
HoldsEnd ==
  \A b \in Booking :
    status[b] = "PENDING_PAYMENT" /\ holdExpires[b] <= now ~> status[b] # "PENDING_PAYMENT"

(* An exact payment the provider captured is recorded in the end, whatever *)
(* happened to the booking and however often the delivery was refused.     *)
MoneyArrives == \A b \in Booking : payment[b] = "EXACT" ~> b \in recorded

-----------------------------------------------------------------------------
(* The stays a guest and the desk see: confirmed bookings and their rooms. *)
StayLife ==
  [b \in Booking |-> CASE status[b] = "CONFIRMED" -> "confirmed"
                       [] status[b] = "CANCELLED" -> "cancelled"
                       [] OTHER -> "open"]

StayRoom ==
  [x \in BookingRoom |-> IF resv[x].state = "CONFIRMED" THEN resv[x].room ELSE NoRoom]

Promise == INSTANCE Stays WITH
  life <- StayLife, own <- StayRoom,
  Nights <- [b \in Booking |-> NightsOf(b)],
  Suitable <- [x \in BookingRoom |-> {r \in Room : Satisfies(r, x)}]

(* The transactions keep the promise of Stays.tla: confirmed rooms are     *)
(* suitable, exclusive and the guest's until the stay is cancelled.        *)
KeepsPromise == Promise!Spec

(* What docs/manual-launch-blockers.md:139-140 says of lapsed holds: they  *)
(* are released when the affected rooms are next locked, here or at the    *)
(* latest by the scheduled job.                                            *)
LapsedHoldsReturn ==
  \A x \in BookingRoom :
    resv[x].state = "HELD" /\ holdExpires[bookingOf[x]] <= now ~> resv[x].state # "HELD"

(* What state-machine.ts:7 and its test say of an expired booking: nothing *)
(* comes after it.  (A booking is made pending, or by the desk confirmed.) *)
Legal == {<<"PENDING_PAYMENT", "CONFIRMED">>, <<"PENDING_PAYMENT", "EXPIRED">>,
          <<"CONFIRMED", "CANCELLED">>}
LegalTransitions ==
  [][\A b \in Booking :
       status'[b] # status[b] /\ status[b] # "NONE" => <<status[b], status'[b]>> \in Legal]_vars

(* What docs/notifications.md:44 says of a payment of the wrong amount.    *)
MismatchAlerted ==
  \A b \in Booking : payment[b] = "MISMATCH" ~> <<"staff_payment_exception", b>> \in outbox
=============================================================================
