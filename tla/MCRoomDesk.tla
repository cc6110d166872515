----------------------------- MODULE MCRoomDesk -----------------------------
(* Values for the constants of RoomDesk.tla: an online booking of one      *)
(* single-bed and one double-bed room, another booking of a double-bed     *)
(* room, two double-bed rooms of which one has air conditioning, and a     *)
(* block that may be put on any room.                                      *)
EXTENDS RoomDesk, TLC

CONSTANTS b1, b2, s1, d1, d2, x1, x2, x3, k1

MCBookingOf == x1 :> b1 @@ x2 :> b1 @@ x3 :> b2
MCGroup == s1 :> "single-bed" @@ d1 :> "double-bed" @@ d2 :> "double-bed"
           @@ x1 :> "single-bed" @@ x2 :> "double-bed" @@ x3 :> "double-bed"
MCCheckIn == b1 :> 1 @@ b2 :> 2
MCCheckOut == b1 :> 3 @@ b2 :> 4
MCBlockIn == k1 :> 2
MCBlockOut == k1 :> 3
=============================================================================
