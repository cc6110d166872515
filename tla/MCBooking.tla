----------------------------- MODULE MCBooking -----------------------------
(* Values for the constants of Booking.tla.  Two bookings compete for one  *)
(* single-bed room; the first also takes a double-bed room, of which there *)
(* are two, one with air conditioning; a third competes on another night.  *)
EXTENDS Booking, TLC

CONSTANTS b1, b2, b3, s1, d1, d2, x1, x2, x3, x4

AllBookingOf == x1 :> b1 @@ x2 :> b1 @@ x3 :> b2 @@ x4 :> b3
MCBookingRooms == {x \in DOMAIN AllBookingOf : AllBookingOf[x] \in Booking}
MCBookingOf == [x \in MCBookingRooms |-> AllBookingOf[x]]
MCGroup == s1 :> "single-bed" @@ d1 :> "double-bed" @@ d2 :> "double-bed"
           @@ x1 :> "single-bed" @@ x2 :> "double-bed"
           @@ x3 :> "single-bed" @@ x4 :> "double-bed"

AllCheckIn == b1 :> 1 @@ b2 :> 2 @@ b3 :> 2
AllCheckOut == b1 :> 3 @@ b2 :> 4 @@ b3 :> 3
MCCheckIn == [b \in Booking |-> AllCheckIn[b]]
MCCheckOut == [b \in Booking |-> AllCheckOut[b]]
=============================================================================
