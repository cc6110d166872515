------------------------------- MODULE Ledger -------------------------------
(***************************************************************************)
(* The account of one confirmed booking: what it costs, what was paid and  *)
(* what is owed, while the guest (ManageBooking.tsx) and the desk          *)
(* (BookingActions.tsx) change guests, add air-conditioning, correct the   *)
(* contact, record money and cancel (manage-booking-service.ts,            *)
(* recordHotelCollection).  Every change locks the booking, so it is one   *)
(* step; quotes are read without the lock and used later.                  *)
(*                                                                         *)
(* Nothing tells a client that its request was handled but the answer, and *)
(* answers get lost: any request may be handled again, and late.  A signed *)
(* quote may be applied until it expires, as often as it is sent.          *)
(* Whether a room with air-conditioning is free is left to RoomDesk.tla.   *)
(***************************************************************************)
EXTENDS Rules

CONSTANTS
  FirstRooms,    \* the rooms of the booking when it is confirmed
  Collected,     \* what may have been paid with the booking
  Parties,       \* the parties a client may ask a price for
  Contacts,      \* the contact details a client may save
  FirstContact,
  Amounts,       \* the sums a guest may hand over at the desk
  HoursLeft,     \* the hours to check-in, at each time
  QuoteTtl,      \* MUTATION_QUOTE_TTL_SECONDS, in ticks
  MaxCommands, MaxTime   \* bounds: what the clients ask for, ticks

Actor == {"customer", "admin"}
AdvanceDue == AdvanceOf(PriceBooking(FirstRooms))
ZeroOrMore(n) == IF n < 0 THEN 0 ELSE n
Lesser(m, n) == IF m < n THEN m ELSE n

(* The booking was made of one or more rooms that are let as they may be.  *)
ASSUME LedgerAssumption ==
  /\ FirstRooms \in Seq(Room) /\ FirstRooms # <<>>
  /\ \A i \in DOMAIN FirstRooms : RoomFits(FirstRooms[i])
  /\ Parties \subseteq Party
  /\ Collected \subseteq 0..PriceBooking(FirstRooms)
  /\ FirstContact \in Contacts
  /\ Amounts \subseteq Nat \ {0}
  /\ QuoteTtl \in Nat /\ MaxCommands \in Nat /\ MaxTime \in Nat
  /\ HoursLeft \in [0..MaxTime -> Int]
  /\ \A s, t \in 0..MaxTime : s <= t => HoursLeft[t] <= HoursLeft[s]

VARIABLES
  status,        \* Booking.status
  rooms, party,  \* its rooms, and its guests as the booking itself counts them
  subtotal, advancePaid, outstanding,
  contact,
  refundable,    \* Cancellation.refundablePaise
  events,        \* BookingEvent rows, by type and idempotency key
  mails,         \* dedupe keys of the queued notifications
  now,
  quotes,        \* the signed quotes that were handed out
  form,          \* the contact form of each client
  hand,          \* cash the desk is about to record (0: none)
  shown,         \* the cancellation quote each client saw last
  commands,      \* how many requests the clients have made up
  booked, cash,  \* money recorded, money handed over
  amended,       \* changes of guests or air-conditioning that took effect
  forgot,        \* an amendment came after money beyond the advance
  reused         \* a new command met the record of an old one with its content

money == <<subtotal, advancePaid, outstanding, refundable>>
booking == <<status, rooms, party, money, contact>>
client == <<form, hand, shown>>
history == <<booked, cash, amended, forgot, reused>>
vars == <<booking, events, mails, now, quotes, client, commands, history>>

Type == {"GUESTS_CHANGED", "AC_UPGRADED", "CONTACT_UPDATED", "HOTEL_PAYMENT_RECORDED",
         "BOOKING_CANCELLED"}
Event == [type : Type, actor : Actor, what : Nat \cup Contacts]
Quote == [type : {"GUESTS_CHANGED", "AC_UPGRADED"}, actor : Actor, party : Parties \cup {PartyOf(FirstRooms)},
          room : DOMAIN FirstRooms, subtotal : Nat, expires : Nat, serial : 1..MaxCommands]

TypeOK ==
  /\ status \in {"CONFIRMED", "CANCELLED"}
  /\ DOMAIN rooms = DOMAIN FirstRooms
  /\ subtotal \in Nat /\ advancePaid \in Nat /\ outstanding \in Nat /\ refundable \in Nat
  /\ contact \in Contacts
  /\ events \subseteq Event
  /\ now \in 0..MaxTime
  /\ quotes \subseteq Quote
  /\ form \in [Actor -> [stage : {"editing", "sent", "saved"}, value : Contacts, took : BOOLEAN]]
  /\ hand \in Amounts \cup {0}
  /\ commands \in 0..MaxCommands
  /\ booked \in Nat /\ cash \in Nat /\ amended \in Nat
  /\ forgot \in BOOLEAN /\ reused \in SUBSET {"contact", "cash"}

(* Online the advance was captured; at the desk any part of the price may  *)
(* have been collected.                                                    *)
Blank == [stage |-> "editing", value |-> FirstContact, took |-> TRUE]
Init ==
  /\ status = "CONFIRMED" /\ rooms = FirstRooms /\ party = PartyOf(FirstRooms)
  /\ subtotal = PriceBooking(FirstRooms)
  /\ \E collected \in Collected :
       /\ advancePaid = Lesser(collected, AdvanceDue)
       /\ outstanding = subtotal - collected
       /\ booked = collected /\ cash = collected
  /\ contact = FirstContact /\ refundable = 0
  /\ events = {} /\ mails = {} /\ now = 0 /\ quotes = {}
  /\ form = [a \in Actor |-> Blank]
  /\ hand = 0
  /\ shown = [a \in Actor |-> [refund |-> -1, advance |-> 0, at |-> 0]]
  /\ commands = 0 /\ amended = 0 /\ forgot = FALSE /\ reused = {}

-----------------------------------------------------------------------------
(* assertCanMutate: a guest may change a stay until it begins.             *)
(* Mutant: the status is not looked at.                                    *)
CanMutate_Cancelled(actor) == actor = "customer" => HoursLeft[now] > 0
CanMutate(actor) ==
  /\ status = "CONFIRMED"
  /\ actor = "customer" => HoursLeft[now] > 0

(* The clients derive the idempotency key from what they send, under a     *)
(* name of their own for each command; the event that records it carries   *)
(* the key.  (So a key never comes with another request's hash.)           *)
(* Mutant: the key is the name of the command alone.                       *)
EventOf_ByType(type, actor, what) == [type |-> type, actor |-> actor, what |-> 0]
EventOf(type, actor, what) == [type |-> type, actor |-> actor, what |-> what]
(* Mutant: no replay is recognised.                                        *)
Recorded_Never(event) == FALSE
Recorded(event) == event \in events
Repeats(type, actor, what) ==   \* a new command with the content of an old one
  [type |-> type, actor |-> actor, what |-> what] \in events
Record(event) == events' = events \cup {event}
Command == commands < MaxCommands /\ commands' = commands + 1
NotifyBookingAmended(event) ==
  mails' = mails \cup {<<"booking-amended", event>>, <<"staff-booking-modified", event>>}

(* quoteGuestChange and quoteAcUpgrade                                     *)
Offer(type, actor, newParty, room, price) ==
  /\ Command
  /\ quotes' = quotes \cup
       {[type |-> type, actor |-> actor, party |-> newParty, room |-> room,
         subtotal |-> price, expires |-> now + QuoteTtl,
         serial |-> commands + 1]}
  /\ UNCHANGED <<booking, events, mails, now, client, history>>

QuoteGuestChange(actor, newParty) ==
  /\ CanMutate(actor)
  /\ CanRebalance(rooms, newParty)
  /\ Offer("GUESTS_CHANGED", actor, newParty, 1,
           PriceBooking(RebalanceRooms(rooms, newParty)))

Upgraded(room) == [rooms EXCEPT ![room].ac = TRUE]
QuoteAcUpgrade(actor, room) ==
  /\ CanMutate(actor)
  /\ ~rooms[room].ac
  /\ Offer("AC_UPGRADED", actor, party, room, PriceBooking(Upgraded(room)))

(* What applyGuestChange and applyAcUpgrade share: the quote, the replay   *)
(* of a request, the price that must still be the quoted one, the balance, *)
(* the event and the mails.                                                *)
(* Mutant: the balance of the price before the change.                     *)
Balance_OldPrice(price) == ZeroOrMore(subtotal - advancePaid)
Balance(price) == ZeroOrMore(price - advancePaid)
(* Mutant: the price is not computed again.                                *)
PriceHolds_Always(q, newRooms) == TRUE
PriceHolds(q, newRooms) == PriceBooking(newRooms) = q.subtotal
Amend(q, newRooms) ==
  LET event == EventOf(q.type, q.actor, q.serial) IN
  /\ now <= q.expires
  /\ ~Recorded(event)
  /\ CanMutate(q.actor)
  /\ PriceHolds(q, newRooms)
  /\ rooms' = newRooms
  /\ subtotal' = q.subtotal
  /\ outstanding' = Balance(q.subtotal)
  /\ Record(event)
  /\ NotifyBookingAmended(event)
  /\ amended' = amended + 1
  /\ forgot' = (forgot \/ booked > advancePaid)
  /\ UNCHANGED <<status, advancePaid, refundable, contact, now, quotes, client,
                 commands, booked, cash, reused>>

ApplyGuestChange(q) ==
  /\ q.type = "GUESTS_CHANGED"
  /\ CanRebalance(rooms, q.party)
  /\ Amend(q, RebalanceRooms(rooms, q.party))
  /\ party' = q.party

ApplyAcUpgrade(q) ==
  /\ q.type = "AC_UPGRADED"
  /\ ~rooms[q.room].ac
  /\ Amend(q, Upgraded(q.room))
  /\ UNCHANGED party

-----------------------------------------------------------------------------
(* The contact form sends what was typed, and says "saved" when the answer *)
(* comes.  While none has come, it may be sent again.  took says whether   *)
(* the booking has had the typed contact since it was sent.                *)
SubmitContact(actor, value) ==
  /\ form[actor].stage # "sent"
  /\ Command
  /\ form' = [form EXCEPT ![actor] =
                [stage |-> "sent", value |-> value, took |-> contact = value]]
  /\ reused' = IF Repeats("CONTACT_UPDATED", actor, value)
                 THEN reused \cup {"contact"} ELSE reused
  /\ UNCHANGED <<booking, events, mails, now, quotes, hand, shown, booked, cash, amended, forgot>>

UpdateManagedContact(actor) ==
  LET value == form[actor].value
      event == EventOf("CONTACT_UPDATED", actor, value)
  IN
  /\ form[actor].stage = "sent"
  /\ IF Recorded(event)
       THEN UNCHANGED <<contact, events>>
       ELSE CanMutate(actor) /\ contact' = value /\ Record(event)
  /\ \E stage \in {"sent", "saved"} :
       form' = [a \in Actor |->
                  [form[a] EXCEPT !.stage = IF a = actor THEN stage ELSE @,
                                  !.took = @ \/ form[a].value = contact']]
  /\ UNCHANGED <<status, rooms, party, money, mails, now, quotes, hand, shown, commands, history>>

ContactRefused(actor) ==
  /\ form[actor].stage = "sent"
  /\ ~Recorded(EventOf("CONTACT_UPDATED", actor, form[actor].value))
  /\ ~CanMutate(actor)
  /\ form' = [form EXCEPT ![actor] = Blank]
  /\ UNCHANGED <<booking, events, mails, now, quotes, hand, shown, commands, history>>

-----------------------------------------------------------------------------
(* The desk takes cash and records it, again if no answer came.            *)
GuestPays(amount) ==
  /\ status = "CONFIRMED" /\ outstanding > 0
  /\ hand = 0
  /\ Command
  /\ hand' = amount /\ cash' = cash + amount
  /\ reused' = IF Repeats("HOTEL_PAYMENT_RECORDED", "admin", amount)
                 THEN reused \cup {"cash"} ELSE reused
  /\ UNCHANGED <<booking, events, mails, now, quotes, form, shown, booked, amended, forgot>>

(* Mutant: more may be collected than is owed.                             *)
CanCollect_AnySum(amount) == status = "CONFIRMED"
CanCollect(amount) == status = "CONFIRMED" /\ amount <= outstanding
(* Mutant: all hotel money counts as advance.                              *)
ToAdvance_All(amount) == amount
ToAdvance(amount) == Lesser(amount, ZeroOrMore(AdvanceDue - advancePaid))

RecordHotelCollection ==
  LET event == EventOf("HOTEL_PAYMENT_RECORDED", "admin", hand) IN
  /\ hand > 0
  /\ hand' \in {hand, 0}
  /\ IF Recorded(event)
       THEN UNCHANGED <<advancePaid, outstanding, booked, events>>
       ELSE /\ CanCollect(hand)
            /\ advancePaid' = advancePaid + ToAdvance(hand)
            /\ outstanding' = outstanding - hand
            /\ booked' = booked + hand
            /\ Record(event)
  /\ UNCHANGED <<status, rooms, party, subtotal, refundable, contact, mails, now, quotes,
                 form, shown, commands, cash, amended, forgot, reused>>

(* A sum that is refused is handed back.                                   *)
CollectionRefused ==
  /\ hand > 0
  /\ ~Recorded(EventOf("HOTEL_PAYMENT_RECORDED", "admin", hand))
  /\ ~CanCollect(hand)
  /\ hand' = 0 /\ cash' = cash - hand
  /\ UNCHANGED <<booking, events, mails, now, quotes, form, shown, commands, booked, amended, forgot, reused>>

-----------------------------------------------------------------------------
(* A cancellation is quoted when its dialog opens, and computed anew when  *)
(* it is confirmed.                                                        *)
RefundNow == Refundable(HoursLeft[now], advancePaid)

QuoteCancellation(actor) ==
  /\ CanMutate(actor)
  /\ Command
  /\ shown' = [shown EXCEPT ![actor] =
       [refund |-> RefundNow, advance |-> advancePaid, at |-> now]]
  /\ UNCHANGED <<booking, events, mails, now, quotes, form, hand, history>>

CancelManagedBooking(actor) ==
  LET event == EventOf("BOOKING_CANCELLED", actor, 0) IN
  /\ shown[actor].refund >= 0
  /\ CanMutate(actor)
  /\ status' = "CANCELLED"
  /\ refundable' = RefundNow
  /\ outstanding' = 0
  /\ Record(event)
  /\ mails' = mails \cup {<<"booking-cancelled", event>>, <<"staff-booking-cancelled", event>>}
  /\ UNCHANGED <<rooms, party, subtotal, advancePaid, contact, now, quotes, client, commands, history>>

Tick ==
  /\ now < MaxTime
  /\ now' = now + 1
  /\ UNCHANGED <<booking, events, mails, quotes, client, commands, history>>

(* What the guest's page and the desk's page can begin.                    *)
Panels(actor) ==
  \/ \E p \in Parties : QuoteGuestChange(actor, p)
  \/ \E r \in DOMAIN FirstRooms : QuoteAcUpgrade(actor, r)
  \/ \E c \in Contacts : SubmitContact(actor, c)
  \/ QuoteCancellation(actor)
BookingFolio == Panels("customer")
BookingActions == Panels("admin") \/ \E m \in Amounts : GuestPays(m)

(* The commands the clients send, each under the key made from it.         *)
Requests ==
  \/ \E a \in Actor :
       UpdateManagedContact(a) \/ ContactRefused(a) \/ CancelManagedBooking(a)
  \/ \E q \in quotes : ApplyGuestChange(q) \/ ApplyAcUpgrade(q)
  \/ RecordHotelCollection \/ CollectionRefused

Next == BookingFolio \/ BookingActions \/ Requests \/ Tick

Spec == Init /\ [][Next]_vars
-----------------------------------------------------------------------------
(* What is owed.  The balance of a stay is its price less all that was     *)
(* paid, whatever was changed and collected in between.  It is never less; *)
(* it is more only where the code forgets: an amendment recomputes it from *)
(* the advance alone (manage-booking-service.ts:242, :367) and so charges  *)
(* once more what the hotel had collected beyond the advance.              *)
BalanceOwed ==
  status = "CONFIRMED" =>
    /\ outstanding >= ZeroOrMore(subtotal - booked)
    /\ ~forgot => outstanding = ZeroOrMore(subtotal - booked)

(* Money fills the advance first, and up to what was due at the booking:   *)
(* the part of it that a cancellation can give back is never more than     *)
(* was paid (recordHotelCollection, cancelManagedBooking).                 *)
AdvanceFirst ==
  /\ advancePaid = Lesser(booked, AdvanceDue)
  /\ refundable <= advancePaid

(* However quotes of the guest and of the desk overtake each other, the    *)
(* price is that of the rooms as they stand, every room holds a number of  *)
(* guests it is let to, and the rooms hold the party of the booking        *)
(* (rebalanceRooms, priceExistingBooking, the QUOTE_CHANGED checks).       *)
PriceOfRooms ==
  /\ subtotal = PriceBooking(rooms)
  /\ \A i \in DOMAIN rooms : RoomFits(rooms[i])
  /\ PartyOf(rooms) = party

(* A quote takes effect at most once, however often and however late it is *)
(* sent, and each amendment writes one mail to the guest and one to staff  *)
(* (the replay checks, the dedupe keys of notifyBookingAmended).           *)
AmendedOnce ==
  /\ amended = Cardinality({e \in events : e.type \in {"GUESTS_CHANGED", "AC_UPGRADED"}})
  /\ 2 * amended = Cardinality({m \in mails : m[2].type # "BOOKING_CANCELLED"})

(* After a cancellation no late or repeated request, of either client,     *)
(* changes the account or what will be refunded.                           *)
CancelledIsClosed ==
  [][status = "CANCELLED" => UNCHANGED booking]_vars

(* A cancellation's dialog shows the refund that the published terms       *)
(* promise at its hour, to the hour on which a slab ends; and whoever      *)
(* confirms it gets what the dialog showed, unless money came in or the    *)
(* stay came a slab closer; waiting never pays (getCancellationQuote,      *)
(* cancelManagedBooking, data/policies.ts).                                *)
QuotedAsPublished ==
  \A a \in Actor : shown[a].refund >= 0 =>
    shown[a].refund = shown[a].advance -
      RoundBasisPoints(shown[a].advance, 100 * PublishedPercent(HoursLeft[shown[a].at]))
PaidAsQuoted ==
  status = "CANCELLED" =>
    \E a \in Actor :
      LET seen == shown[a] IN
      /\ Recorded(EventOf("BOOKING_CANCELLED", a, 0))
      /\ seen.advance = advancePaid => refundable <= seen.refund
      /\ (seen.advance = advancePaid /\ seen.at = now) => refundable = seen.refund
      /\ outstanding = 0
RefundAsQuoted == QuotedAsPublished /\ PaidAsQuoted

(* A client that is told "saved", or that a collection is recorded, is     *)
(* told the truth, as long as it sends nothing it has sent before: since   *)
(* it asked, the booking had that contact, and all cash is in the account. *)
ContactTook(a) == form[a].stage = "saved" => form[a].took
CashIsBooked == hand = 0 => booked = cash
FreshCommandsCount ==
  /\ "contact" \notin reused => \A a \in Actor : ContactTook(a)
  /\ "cash" \notin reused => CashIsBooked

(* The same without the exception.  A key made from the content alone is   *)
(* the old key when the same sum is collected again, or an earlier contact *)
(* is restored: the server answers with success and does nothing.          *)
CommandsCount == (\A a \in Actor : ContactTook(a)) /\ CashIsBooked
=============================================================================
