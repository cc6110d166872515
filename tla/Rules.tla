------------------------------- MODULE Rules --------------------------------
(***************************************************************************)
(* The pure rules of a stay: who fits in which room, what a room costs,    *)
(* how a party is spread over rooms, which arrangements are offered, and   *)
(* what a cancellation deducts (domain/booking, lib/booking).              *)
(*                                                                         *)
(* A party is a record of adults, children5to10 and childrenUnder5; a room *)
(* is a record of its group, its air-conditioning and its guests.  Stays   *)
(* are of one night: the number of nights multiplies every price.          *)
(***************************************************************************)
EXTENDS Integers, Sequences, FiniteSets, Functions, SequencesExt

CONSTANTS
  Rate,                 \* the tariff: Rate[group][ac][occupancy], per person
  AdvanceBasisPoints    \* the share of the price that is paid in advance

Group == {"single-bed", "double-bed"}
Least(group) == IF group = "single-bed" THEN 1 ELSE 4
Most(group) == IF group = "single-bed" THEN 3 ELSE 6
Guests(group) == Least(group)..Most(group)

Party == [adults : Nat, children5to10 : Nat, childrenUnder5 : Nat]
Room == [group : Group, ac : BOOLEAN, guests : Party]

(* A child pays half: rates are even, so that half a rate is whole.        *)
ASSUME TariffAssumption ==
  \A g \in Group, ac \in BOOLEAN, n \in 1..6 :
    n \in Guests(g) => Rate[g][ac][n] \in Nat /\ Rate[g][ac][n] % 2 = 0
ASSUME AdvanceAssumption == AdvanceBasisPoints \in 0..10000

-----------------------------------------------------------------------------
(* Prices.                                                                 *)
PhysicalOccupancy(party) ==
  party.adults + party.children5to10 + party.childrenUnder5
BillingHalfUnits(party) == 2 * party.adults + party.children5to10
RoomFits(room) == PhysicalOccupancy(room.guests) \in Guests(room.group)

RoundBasisPoints(amount, basisPoints) == (amount * basisPoints + 5000) \div 10000

RoomPrice(room) ==
  (Rate[room.group][room.ac][PhysicalOccupancy(room.guests)]
     * BillingHalfUnits(room.guests)) \div 2
PriceBooking(rooms) == SumFunction([i \in DOMAIN rooms |-> RoomPrice(rooms[i])])
AdvanceOf(subtotal) == RoundBasisPoints(subtotal, AdvanceBasisPoints)

-----------------------------------------------------------------------------
(* evenParts: count rooms of one group, as evenly filled as can be.        *)
PartsFit(total, count, group) ==
  total \in (count * Least(group))..(count * Most(group))
EvenParts(total, count) ==
  [i \in 1..count |-> total \div count + (IF i <= total % count THEN 1 ELSE 0)]

(* distributeGuests fills the rooms in their order, first with the adults, *)
(* then the older children, then the younger.  So the guests stand in one  *)
(* line and each room takes the next of them, up to its occupancy.         *)
InLine(from, to, first, last) ==   \* how many of first..last are in from..to
  Cardinality((from..to) \cap (first..last))
DistributeGuests(party, occupancy) ==
  [i \in DOMAIN occupancy |->
    LET before == SumFunctionOnSet(occupancy, 1..(i - 1))
        first == before + 1
        last == before + occupancy[i]
        grown == party.adults + party.children5to10
    IN [adults |-> InLine(1, party.adults, first, last),
        children5to10 |-> InLine(party.adults + 1, grown, first, last),
        childrenUnder5 |-> InLine(grown + 1, grown + party.childrenUnder5, first, last)]]

PartyOf(rooms) ==
  [adults |-> SumFunction([i \in DOMAIN rooms |-> rooms[i].guests.adults]),
   children5to10 |-> SumFunction([i \in DOMAIN rooms |-> rooms[i].guests.children5to10]),
   childrenUnder5 |-> SumFunction([i \in DOMAIN rooms |-> rooms[i].guests.childrenUnder5])]

-----------------------------------------------------------------------------
(* rebalanceRooms: the same rooms for another party.  The double-bed rooms *)
(* take as few of the guests as leaves the single-bed rooms full enough.   *)
InGroup(rooms, group) == {i \in DOMAIN rooms : rooms[i].group = group}
Splits(rooms, party) ==
  {inDoubles \in 0..PhysicalOccupancy(party) :
     /\ PartsFit(inDoubles, Cardinality(InGroup(rooms, "double-bed")), "double-bed")
     /\ PartsFit(PhysicalOccupancy(party) - inDoubles,
                 Cardinality(InGroup(rooms, "single-bed")), "single-bed")}
CanRebalance(rooms, party) == Splits(rooms, party) # {}
RebalanceRooms(rooms, party) ==
  LET inDoubles == CHOOSE n \in Splits(rooms, party) :
                     \A m \in Splits(rooms, party) : n <= m
      total == [g \in Group |-> IF g = "double-bed" THEN inDoubles
                                ELSE PhysicalOccupancy(party) - inDoubles]
      rank(i) == Cardinality({j \in InGroup(rooms, rooms[i].group) : j <= i})
      parts == [g \in Group |-> EvenParts(total[g], Cardinality(InGroup(rooms, g)))]
      seats == [i \in DOMAIN rooms |-> parts[rooms[i].group][rank(i)]]
      spread == DistributeGuests(party, seats)
  IN [i \in DOMAIN rooms |-> [rooms[i] EXCEPT !.guests = spread[i]]]

-----------------------------------------------------------------------------
(* quoteCancellationPaise: the share of the advance that is kept, by the   *)
(* hours left to check-in; the first slab that has not been passed counts. *)
Slabs == << <<24, 10000>>, <<48, 5000>>, <<7 * 24, 3000>>,
            <<15 * 24, 2000>>, <<30 * 24, 1000>> >>
(* Mutant: a slab ends before its last hour.                               *)
DeductionBasisPoints_Before(hours) ==
  LET open == {i \in DOMAIN Slabs : hours < Slabs[i][1]}
  IN IF open = {} THEN 0
     ELSE Slabs[CHOOSE i \in open : \A j \in open : i <= j][2]
DeductionBasisPoints(hours) ==
  LET open == {i \in DOMAIN Slabs : hours <= Slabs[i][1]}
  IN IF open = {} THEN 0
     ELSE Slabs[CHOOSE i \in open : \A j \in open : i <= j][2]
Refundable(hours, advancePaid) ==
  LET deduction == RoundBasisPoints(advancePaid, DeductionBasisPoints(hours))
  IN IF deduction > advancePaid THEN 0 ELSE advancePaid - deduction

(* The share of the advance that is kept in per cent, as the guest reads   *)
(* it on the page of the terms (cancellationSlabs): within so many hours.  *)
PublishedPercent(hours) ==
  CASE hours <= 24 -> 100
    [] hours > 24 /\ hours <= 48 -> 50
    [] hours > 48 /\ hours <= 7 * 24 -> 30
    [] hours > 7 * 24 /\ hours <= 15 * 24 -> 20
    [] hours > 15 * 24 /\ hours <= 30 * 24 -> 10
    [] hours > 30 * 24 -> 0

-----------------------------------------------------------------------------
(* generateServerArrangements: the room mixes offered to a party.          *)
Candidates(party, available) ==
  {a \in [doubles : 0..available["double-bed"], singles : 0..available["single-bed"],
          inDoubles : 0..PhysicalOccupancy(party)] :
     /\ a.doubles + a.singles > 0
     /\ PartsFit(a.inDoubles, a.doubles, "double-bed")
     /\ PartsFit(PhysicalOccupancy(party) - a.inDoubles, a.singles, "single-bed")}
Shapes(party, a) ==
  [i \in 1..a.doubles |->
     [group |-> "double-bed", occupancy |-> EvenParts(a.inDoubles, a.doubles)[i]]]
  \o [i \in 1..a.singles |->
     [group |-> "single-bed", occupancy |->
        EvenParts(PhysicalOccupancy(party) - a.inDoubles, a.singles)[i]]]
(* The rooms an arrangement becomes when it is chosen, before any of them  *)
(* is given air-conditioning, and their price.                             *)
RoomsOf(party, a) ==
  LET shapes == Shapes(party, a)
      spread == DistributeGuests(party, [i \in DOMAIN shapes |-> shapes[i].occupancy])
  IN [i \in DOMAIN shapes |->
        [group |-> shapes[i].group, ac |-> FALSE, guests |-> spread[i]]]
Furnish(rooms, ac) == [i \in DOMAIN rooms |-> [rooms[i] EXCEPT !.ac = ac[i]]]
Estimate(party, a) == PriceBooking(RoomsOf(party, a))

(* Guests are not put up alone, unless there is no other way.              *)
Alone(party, a) == \E i \in DOMAIN Shapes(party, a) : Shapes(party, a)[i].occupancy = 1
Pool(party, available) ==
  LET all == Candidates(party, available)
      together == {a \in all : ~Alone(party, a)}
  IN IF together # {} THEN together ELSE all

(* By the number of rooms and then the price; the loops break a tie.       *)
Rank(party, a) == <<a.doubles + a.singles, Estimate(party, a), a.doubles, a.singles, a.inDoubles>>
Less(x, y) == \E i \in DOMAIN x : x[i] < y[i] /\ \A j \in 1..(i - 1) : x[j] = y[j]
Offers(party, available) ==
  LET pool == Pool(party, available)
      place(a) == Cardinality({b \in pool : Less(Rank(party, b), Rank(party, a))})
      cheap(a) == <<Estimate(party, a), a.doubles, a.singles, a.inDoubles>>
  IN {a \in pool :
        \/ place(a) \in {0, Cardinality(pool) \div 2, Cardinality(pool) - 1}
        \/ \A b \in pool \ {a} : Less(cheap(a), cheap(b))}

(* What the offers are measured by: any number of free rooms, filled in    *)
(* any way that they are let, seats the party.                             *)
Seatable(party, available) ==
  \E doubles \in 0..available["double-bed"], singles \in 0..available["single-bed"] :
    /\ doubles + singles > 0
    /\ \E f \in [1..doubles -> Guests("double-bed")], g \in [1..singles -> Guests("single-bed")] :
         SumFunction(f) + SumFunction(g) = PhysicalOccupancy(party)
=============================================================================
