------------------------------- MODULE Stays -------------------------------
(***************************************************************************)
(* What the camp promises about rooms, with nothing of how the program     *)
(* keeps the promise: a stay is open, then confirmed, then perhaps         *)
(* cancelled.  A confirmed stay owns one suitable room for each room that  *)
(* was booked, on all its nights and exclusively, until it is cancelled.   *)
(* Holds, deadlines, payments and sweeps do not appear here: Booking.tla   *)
(* is shown to implement this module.                                      *)
(***************************************************************************)
EXTENDS Naturals

CONSTANTS
  Booking,       \* the bookings that may ever be made
  BookingRoom,   \* the rooms asked for, over all bookings
  Room,          \* the physical rooms
  NoRoom,        \* not a room
  bookingOf,     \* the booking a booking room belongs to
  Nights,        \* the nights of each booking
  Suitable       \* the rooms that satisfy each booking room

VARIABLES
  life,          \* the stay of each booking: open, confirmed or cancelled
  own            \* the room a confirmed stay owns for each booking room

stayVars == <<life, own>>

Init ==
  /\ life = [b \in Booking |-> "open"]
  /\ own = [br \in BookingRoom |-> NoRoom]

(* Two booking rooms that are never allowed to own the same room.          *)
Compete(x, y) ==
  /\ x # y
  /\ Nights[bookingOf[x]] \cap Nights[bookingOf[y]] # {}

(* A full set of rooms becomes the guest's when the stay is confirmed.     *)
Confirm(b) ==
  /\ life[b] = "open"
  /\ life' = [life EXCEPT ![b] = "confirmed"]
  /\ \A x \in BookingRoom :
       IF bookingOf[x] = b
         THEN /\ own'[x] \in Suitable[x]
              /\ \A y \in BookingRoom : Compete(x, y) => own'[x] # own'[y]
         ELSE own'[x] = own[x]
  /\ own' \in [BookingRoom -> Room \cup {NoRoom}]

(* Only a cancellation takes the rooms away, all of them and for good.     *)
Cancel(b) ==
  /\ life[b] = "confirmed"
  /\ life' = [life EXCEPT ![b] = "cancelled"]
  /\ own' = [x \in BookingRoom |-> IF bookingOf[x] = b THEN NoRoom ELSE own[x]]

(* The desk may move a confirmed stay between rooms; it never shrinks it.  *)
Move(x) ==
  /\ life[bookingOf[x]] = "confirmed"
  /\ \E r \in Suitable[x] :
       /\ \A y \in BookingRoom : Compete(x, y) => own[y] # r
       /\ own' = [own EXCEPT ![x] = r]
  /\ UNCHANGED life

Next ==
  \/ \E b \in Booking : Confirm(b) \/ Cancel(b)
  \/ \E x \in BookingRoom : Move(x)

Spec == Init /\ [][Next]_stayVars
=============================================================================
