----------------------------- MODULE MCCheckout -----------------------------
(* Checkout.tla with a room of each group, and a party for each.           *)
EXTENDS Checkout, TLC

P(adults, older, younger) ==
  [adults |-> adults, children5to10 |-> older, childrenUnder5 |-> younger]
FlatTariff == [g \in Group |-> [ac \in BOOLEAN |-> [n \in 1..6 |-> 2]]]
FewRooms == [g \in Group |-> 1]
TwoParties == {P(2, 0, 0), P(3, 1, 0)}
=============================================================================
