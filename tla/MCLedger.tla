------------------------------ MODULE MCLedger ------------------------------
(* Ledger.tla on a single-bed and a double-bed room, with a tariff in the  *)
(* proportions of data/tariff-table.ts.                                    *)
EXTENDS Ledger, TLC

P(adults, older, younger) ==
  [adults |-> adults, children5to10 |-> older, childrenUnder5 |-> younger]
RoomWith(group, ac, guests) == [group |-> group, ac |-> ac, guests |-> guests]

SmallTariff ==
  [g \in Group |-> [ac \in BOOLEAN |-> [n \in 1..6 |->
     (IF g = "single-bed" THEN IF n = 3 THEN 22 ELSE 24 ELSE 32 - 2 * n) + (IF ac THEN 6 ELSE 0)]]]

SmallRooms == << RoomWith("single-bed", FALSE, P(2, 0, 0)),
                 RoomWith("double-bed", FALSE, P(4, 0, 0)) >>
SmallParties == {P(6, 1, 1)}

SmallCollected == {0, AdvanceDue + 10}

\* an hour before a slab begins, on the hour it begins, and after check-in
SmallHours == (0 :> 49) @@ (1 :> 48) @@ (2 :> -2)
=============================================================================
