---------------------------- MODULE LedgerProofs ----------------------------
(***************************************************************************)
(* Theorems about Ledger.tla, for any tariff, rooms, parties, sums and     *)
(* contacts, any number of commands, repeated and late, and any course of  *)
(* time.  What the sums of prices and guests rest on is in RulesProofs.    *)
(*                                                                         *)
(* A mail is only queued with the event it tells of (Mailed); a quote of a *)
(* cancellation is what the slab of its time gives (Quoted); and a command *)
(* that is not the repetition of an old one can only be on record because  *)
(* it was itself handled (Handled).                                        *)
(***************************************************************************)
EXTENDS Ledger, RulesProofs

(* The numbers and forms the proofs speak about.                           *)
Figures ==
  /\ status \in {"CONFIRMED", "CANCELLED"}
  /\ advancePaid \in Nat /\ booked \in Nat /\ cash \in Int /\ refundable \in Nat
  /\ hand \in Amounts \cup {0}
  /\ now \in 0..MaxTime
  /\ shown \in [Actor -> [refund : Int, advance : Nat, at : 0..MaxTime]]
  /\ form \in [Actor -> [stage : {"editing", "sent", "saved"}, value : Contacts, took : BOOLEAN]]

Amendment == {"GUESTS_CHANGED", "AC_UPGRADED"}
Amendments == {e \in events : e.type \in Amendment}
AmendMails == {m \in mails : m[2].type # "BOOKING_CANCELLED"}
Mailed ==
  /\ IsFiniteSet(events) /\ IsFiniteSet(mails)
  /\ \A m \in mails : m[2] \in events
  /\ amended \in Nat /\ amended = Cardinality(Amendments)
  /\ 2 * amended = Cardinality(AmendMails)

Quoted ==
  \A a \in Actor :
    /\ shown[a].at <= now
    /\ shown[a].refund >= 0 =>
         shown[a].refund = Refundable(HoursLeft[shown[a].at], shown[a].advance)

Sent(a) == EventOf("CONTACT_UPDATED", a, form[a].value)
Paid == EventOf("HOTEL_PAYMENT_RECORDED", "admin", hand)
Handled ==
  /\ "contact" \notin reused => \A a \in Actor :
       /\ form[a].stage = "sent" /\ Sent(a) \in events => form[a].took
       /\ form[a].stage = "saved" => form[a].took
  /\ "cash" \notin reused =>
       IF hand = 0 \/ Paid \in events THEN cash = booked ELSE cash = booked + hand

LedgerInv == Figures /\ Mailed /\ Quoted /\ Handled /\ AdvanceFirst /\ PaidAsQuoted
-----------------------------------------------------------------------------
(* The rules of money.                                                     *)

(* The slabs of a cancellation, read off one by one.                       *)
LEMMA DeductionBySlab ==
  ASSUME NEW h \in Int
  PROVE  DeductionBasisPoints(h) =
           IF h <= 24 THEN 10000 ELSE IF h <= 48 THEN 5000 ELSE IF h <= 168 THEN 3000
           ELSE IF h <= 360 THEN 2000 ELSE IF h <= 720 THEN 1000 ELSE 0
<1> DEFINE open == {i \in DOMAIN Slabs : h <= Slabs[i][1]}
           first == CHOOSE i \in open : \A j \in open : i <= j
<1>1. DOMAIN Slabs = 1..5
  BY DEF Slabs
<1>2. /\ Slabs[1] = <<24, 10000>> /\ Slabs[2] = <<48, 5000>> /\ Slabs[3] = <<168, 3000>>
      /\ Slabs[4] = <<360, 2000>> /\ Slabs[5] = <<720, 1000>>
  BY DEF Slabs
<1>3. open = {i \in 1..5 : h <= Slabs[i][1]}
  BY <1>1
<1>4. DeductionBasisPoints(h) = IF open = {} THEN 0 ELSE Slabs[first][2]
  BY DEF DeductionBasisPoints
<1>5. ASSUME NEW k \in open, \A j \in open : k <= j
      PROVE  DeductionBasisPoints(h) = Slabs[k][2]
  <2>1. first \in open /\ \A j \in open : first <= j
    BY <1>5
  <2>2. first = k
    <3> HIDE DEF first
    <3> QED BY <2>1, <1>5, <1>3
  <2> QED BY <2>2, <1>4
<1> HIDE DEF open, first
<1>6. CASE h <= 24
  <2>1. 1 \in open /\ \A j \in open : 1 <= j
    BY <1>6, <1>3, <1>2
  <2> QED BY <2>1, <1>5, <1>6, <1>2
<1>7. CASE h > 24 /\ h <= 48
  <2>1. 2 \in open /\ 1 \notin open
    BY <1>7, <1>3, <1>2
  <2>2. \A j \in open : 2 <= j
    BY <2>1, <1>3
  <2> QED BY <2>1, <2>2, <1>5, <1>7, <1>2
<1>8. CASE h > 48 /\ h <= 168
  <2>1. 3 \in open /\ 1 \notin open /\ 2 \notin open
    BY <1>8, <1>3, <1>2
  <2>2. \A j \in open : 3 <= j
    BY <2>1, <1>3
  <2> QED BY <2>1, <2>2, <1>5, <1>8, <1>2
<1>9. CASE h > 168 /\ h <= 360
  <2>1. 4 \in open /\ 1 \notin open /\ 2 \notin open /\ 3 \notin open
    BY <1>9, <1>3, <1>2
  <2>2. \A j \in open : 4 <= j
    BY <2>1, <1>3
  <2> QED BY <2>1, <2>2, <1>5, <1>9, <1>2
<1>10. CASE h > 360 /\ h <= 720
  <2>1. 5 \in open /\ 1 \notin open /\ 2 \notin open /\ 3 \notin open /\ 4 \notin open
    BY <1>10, <1>3, <1>2
  <2>2. \A j \in open : 5 <= j
    BY <2>1, <1>3
  <2> QED BY <2>1, <2>2, <1>5, <1>10, <1>2
<1>11. CASE h > 720
  <2>1. \A i \in 1..5 : i = 1 \/ i = 2 \/ i = 3 \/ i = 4 \/ i = 5
    OBVIOUS
  <2>2. \A i \in 1..5 : ~(h <= Slabs[i][1])
    BY <1>11, <1>2, <2>1
  <2>3. open = {}
    BY <2>2, <1>3
  <2> QED BY <2>3, <1>4, <1>11
<1> QED BY <1>6, <1>7, <1>8, <1>9, <1>10, <1>11

(* A share of an amount is a whole sum, and grows with the share.          *)
LEMMA ShareGrows ==
  ASSUME NEW amount \in Nat, NEW less \in Nat, NEW more \in Nat, less <= more
  PROVE  /\ RoundBasisPoints(amount, less) \in Nat
         /\ RoundBasisPoints(amount, less) <= RoundBasisPoints(amount, more)
<1>1. amount * less \in Nat /\ amount * more \in Nat /\ amount * less <= amount * more
  OBVIOUS
<1>2. \A m, n \in Nat : m <= n => (m + 5000) \div 10000 \in Nat
                               /\ (m + 5000) \div 10000 <= (n + 5000) \div 10000
  OBVIOUS
<1> QED BY <1>1, <1>2 DEF RoundBasisPoints

(* A refund is never more than the advance, and no later refund is more    *)
(* than an earlier one.                                                    *)
LEMMA RefundShrinks ==
  ASSUME NEW early \in Int, NEW late \in Int, late <= early, NEW advance \in Nat
  PROVE  /\ Refundable(late, advance) \in 0..advance
         /\ Refundable(late, advance) <= Refundable(early, advance)
<1>1. /\ DeductionBasisPoints(late) \in Nat /\ DeductionBasisPoints(early) \in Nat
      /\ DeductionBasisPoints(early) <= DeductionBasisPoints(late)
  BY DeductionBySlab
<1>2. /\ RoundBasisPoints(advance, DeductionBasisPoints(early)) \in Nat
      /\ RoundBasisPoints(advance, DeductionBasisPoints(late)) \in Nat
      /\ RoundBasisPoints(advance, DeductionBasisPoints(early))
           <= RoundBasisPoints(advance, DeductionBasisPoints(late))
  BY <1>1, ShareGrows
<1> QED BY <1>2 DEF Refundable

(* The refund of every hour is the one of the published terms.             *)
LEMMA RefundIsPublished ==
  ASSUME NEW h \in Int, NEW advance \in Nat
  PROVE  Refundable(h, advance) = advance - RoundBasisPoints(advance, 100 * PublishedPercent(h))
<1> DEFINE Agrees == DeductionBasisPoints(h) = 100 * PublishedPercent(h)
<1>1. Agrees
  <2>1. CASE h <= 24
    <3>1. PublishedPercent(h) = 100
      BY <2>1 DEF PublishedPercent
    <3> QED BY <2>1, <3>1, DeductionBySlab
  <2>2. CASE h > 24 /\ h <= 48
    <3>1. PublishedPercent(h) = 50
      BY <2>2 DEF PublishedPercent
    <3> QED BY <2>2, <3>1, DeductionBySlab
  <2>3. CASE h > 48 /\ h <= 168
    <3>1. PublishedPercent(h) = 30
      BY <2>3 DEF PublishedPercent
    <3> QED BY <2>3, <3>1, DeductionBySlab
  <2>4. CASE h > 168 /\ h <= 360
    <3>1. PublishedPercent(h) = 20
      BY <2>4 DEF PublishedPercent
    <3> QED BY <2>4, <3>1, DeductionBySlab
  <2>5. CASE h > 360 /\ h <= 720
    <3>1. PublishedPercent(h) = 10
      BY <2>5 DEF PublishedPercent
    <3> QED BY <2>5, <3>1, DeductionBySlab
  <2>6. CASE h > 720
    <3>1. PublishedPercent(h) = 0
      BY <2>6 DEF PublishedPercent
    <3> QED BY <2>6, <3>1, DeductionBySlab
  <2> HIDE DEF Agrees
  <2> QED BY <2>1, <2>2, <2>3, <2>4, <2>5, <2>6
<1>2. RoundBasisPoints(advance, 10000) = advance
  BY DEF RoundBasisPoints
<1>3. /\ RoundBasisPoints(advance, DeductionBasisPoints(h)) \in Nat
      /\ RoundBasisPoints(advance, DeductionBasisPoints(h)) <= advance
  <2>1. PICK share : share = DeductionBasisPoints(h)
    OBVIOUS
  <2>2. share \in Nat /\ share <= 10000
    BY <2>1, DeductionBySlab
  <2>3. 10000 \in Nat
    OBVIOUS
  <2>4. /\ RoundBasisPoints(advance, share) \in Nat
        /\ RoundBasisPoints(advance, share) <= RoundBasisPoints(advance, 10000)
    BY <2>2, <2>3, ShareGrows
  <2> QED BY <2>1, <2>4, <1>2
<1> QED BY <1>1, <1>3 DEF Refundable

(* The rooms of the booking as it was made.                                *)
LEMMA FirstRoomsFit ==
  /\ Len(FirstRooms) \in Nat /\ DOMAIN FirstRooms = 1..Len(FirstRooms)
  /\ 1 \in DOMAIN FirstRooms
  /\ \A i \in DOMAIN FirstRooms : FirstRooms[i] \in Room /\ RoomFits(FirstRooms[i])
<1>1. FirstRooms \in Seq(Room) /\ FirstRooms # <<>>
  BY LedgerAssumption DEF LedgerAssumption
<1>2. \A i \in DOMAIN FirstRooms : RoomFits(FirstRooms[i])
  BY LedgerAssumption DEF LedgerAssumption
<1> QED BY <1>1, <1>2

LEMMA FirstPrice == PriceBooking(FirstRooms) \in Nat
BY FirstRoomsFit, PriceOfFitting

LEMMA AdvanceDueType == AdvanceDue \in Nat
<1>1. PriceBooking(FirstRooms) \in Nat
  BY FirstPrice
<1>2. AdvanceBasisPoints \in Nat
  BY AdvanceAssumption DEF AdvanceAssumption
<1>3. RoundBasisPoints(PriceBooking(FirstRooms), AdvanceBasisPoints) \in Nat
  BY <1>1, <1>2, ShareGrows
<1> QED BY <1>3 DEF AdvanceDue, AdvanceOf

-----------------------------------------------------------------------------
(* A cancelled booking is closed: every command but the repetition of one  *)
(* that was handled asks for a confirmed booking.                          *)
THEOREM CancelledStaysClosed == Spec => CancelledIsClosed
<1>1. [Next]_vars => (status = "CANCELLED" => UNCHANGED booking)
  <2> SUFFICES ASSUME [Next]_vars, status = "CANCELLED" PROVE UNCHANGED booking
    OBVIOUS
  <2> USE DEF booking, money
  <2>1. ASSUME NEW a \in Actor PROVE ~CanMutate(a)
    BY DEF CanMutate
  <2>2. ASSUME NEW a \in Actor, Panels(a) PROVE UNCHANGED booking
    BY <2>2 DEF Panels, QuoteGuestChange, QuoteAcUpgrade, Offer, SubmitContact, QuoteCancellation
  <2>3. ASSUME NEW m \in Amounts, GuestPays(m) PROVE UNCHANGED booking
    BY <2>3 DEF GuestPays
  <2>4. ASSUME NEW a \in Actor, UpdateManagedContact(a) PROVE UNCHANGED booking
    BY <2>1, <2>4 DEF UpdateManagedContact
  <2>5. ASSUME NEW a \in Actor, ContactRefused(a) \/ CancelManagedBooking(a)
        PROVE  UNCHANGED booking
    BY <2>1, <2>5 DEF ContactRefused, CancelManagedBooking
  <2>6. ASSUME NEW q \in quotes PROVE ~ApplyGuestChange(q) /\ ~ApplyAcUpgrade(q)
    BY DEF ApplyGuestChange, ApplyAcUpgrade, Amend, CanMutate
  <2>7. CASE RecordHotelCollection
    <3>1. ~CanCollect(hand)
      BY DEF CanCollect
    <3> QED BY <2>7, <3>1 DEF RecordHotelCollection
  <2>8. CASE CollectionRefused \/ Tick \/ UNCHANGED vars
    BY <2>8 DEF CollectionRefused, Tick, vars
  <2> QED
    BY <2>2, <2>3, <2>4, <2>5, <2>6, <2>7, <2>8
       DEF Next, BookingFolio, BookingActions, Requests, Actor
<1> QED BY <1>1, PTL DEF Spec, CancelledIsClosed

-----------------------------------------------------------------------------
(* What a step leaves alone keeps what is said of it.                      *)

LEMMA QuotedKept == Quoted /\ UNCHANGED <<now, shown>> => Quoted'
BY DEF Quoted

LEMMA HandledKept == Handled /\ UNCHANGED <<form, reused, events, hand, booked, cash>> => Handled'
BY DEF Handled, Sent, Paid

LEMMA MailedKept == Mailed /\ UNCHANGED <<events, mails, amended>> => Mailed'
BY DEF Mailed, Amendments, AmendMails

LEMMA AdvanceKept ==
  AdvanceFirst /\ UNCHANGED <<advancePaid, booked, refundable>> => AdvanceFirst'
BY DEF AdvanceFirst

LEMMA RefundKept ==
  ASSUME PaidAsQuoted, events \subseteq events',
         UNCHANGED <<status, shown, advancePaid, refundable, outstanding>>,
         now \in Nat, now' \in {now, now + 1}, Quoted
  PROVE  PaidAsQuoted'
<1> SUFFICES ASSUME status = "CANCELLED" PROVE PaidAsQuoted'
  BY DEF PaidAsQuoted
<1>1. PICK a \in Actor :
        /\ Recorded(EventOf("BOOKING_CANCELLED", a, 0))
        /\ shown[a].advance = advancePaid => refundable <= shown[a].refund
        /\ (shown[a].advance = advancePaid /\ shown[a].at = now) => refundable = shown[a].refund
        /\ outstanding = 0
  BY DEF PaidAsQuoted
<1>2. shown[a].at = now' => shown[a].at = now
  BY DEF Quoted
<1> QED BY <1>1, <1>2 DEF PaidAsQuoted, Recorded

LEMMA OpenHasNoRefund == ASSUME status' = "CONFIRMED" PROVE PaidAsQuoted'
BY DEF PaidAsQuoted

(* An event that is no amendment changes no count.                         *)
LEMMA RecordKeepsMailed ==
  ASSUME Mailed, NEW event, event.type \notin Amendment,
         events' = events \cup {event}, UNCHANGED <<mails, amended>>
  PROVE  Mailed'
<1>1. Amendments' = Amendments /\ AmendMails' = AmendMails
  BY DEF Amendments, AmendMails
<1>2. IsFiniteSet(events')
  BY FS_AddElement DEF Mailed
<1> QED BY <1>1, <1>2 DEF Mailed

(* The steps that touch neither the record nor the money.                  *)
LEMMA OfferKeepsInv ==
  ASSUME LedgerInv, UNCHANGED <<booking, events, mails, now, client, history>>
  PROVE  LedgerInv'
<1> USE DEF LedgerInv, booking, money, client, history
<1>1. Figures'
  BY DEF Figures
<1>2. now \in Nat
  BY DEF Figures
<1> QED BY <1>1, <1>2, QuotedKept, HandledKept, MailedKept, AdvanceKept, RefundKept

LEMMA TickKeepsInv == ASSUME LedgerInv, Tick PROVE LedgerInv'
<1> USE DEF LedgerInv, booking, money, client, history, Tick
<1>1. Figures' /\ now \in Nat
  BY LedgerAssumption DEF Figures, LedgerAssumption
<1>2. Quoted'
  BY <1>1 DEF Quoted, Figures
<1> QED BY <1>1, <1>2, HandledKept, MailedKept, AdvanceKept, RefundKept

LEMMA SubmitKeepsInv ==
  ASSUME LedgerInv, NEW a \in Actor, NEW value \in Contacts, SubmitContact(a, value)
  PROVE  LedgerInv'
<1> USE DEF LedgerInv, booking, money, history
<1>1. Figures' /\ now \in Nat
  BY DEF Figures, SubmitContact
<1>2. UNCHANGED <<booking, events, mails, now, hand, shown, booked, cash, amended>>
  BY DEF SubmitContact
<1>3. Handled'
  <2>1. /\ form' = [form EXCEPT ![a] = [stage |-> "sent", value |-> value, took |-> contact = value]]
        /\ reused' = IF Repeats("CONTACT_UPDATED", a, value) THEN reused \cup {"contact"} ELSE reused
    BY DEF SubmitContact
  <2>2. ASSUME "contact" \notin reused', NEW b \in Actor
        PROVE  /\ form'[b].stage = "sent" /\ Sent(b)' \in events' => form'[b].took
               /\ form'[b].stage = "saved" => form'[b].took
    <3>1. "contact" \notin reused /\ EventOf("CONTACT_UPDATED", a, value) \notin events
      BY <2>1, <2>2 DEF Repeats, EventOf
    <3>2. CASE b = a
      BY <2>1, <3>1, <3>2, <1>2 DEF Figures, Sent
    <3>3. CASE b # a
      <4>1. form'[b] = form[b]
        BY <2>1, <3>3 DEF Figures
      <4> QED BY <4>1, <3>1, <1>2 DEF Handled, Sent
    <3> QED BY <3>2, <3>3
  <2>3. "cash" \notin reused' => "cash" \notin reused
    BY <2>1
  <2> QED BY <2>2, <2>3, <1>2 DEF Handled, Paid
<1> QED BY <1>1, <1>2, <1>3, QuotedKept, MailedKept, AdvanceKept, RefundKept

LEMMA ContactRefusedKeepsInv ==
  ASSUME LedgerInv, NEW a \in Actor, ContactRefused(a) PROVE LedgerInv'
<1> USE DEF LedgerInv, booking, money, history
<1>1. FirstContact \in Contacts
  BY LedgerAssumption DEF LedgerAssumption
<1>2. Figures' /\ now \in Nat
  BY <1>1 DEF Figures, ContactRefused, Blank
<1>3. UNCHANGED <<booking, events, mails, now, hand, shown, history>>
  BY DEF ContactRefused
<1>4. form'[a] = Blank /\ \A b \in Actor \ {a} : form'[b] = form[b]
  BY DEF ContactRefused, Figures
<1>5. Handled'
  BY <1>3, <1>4 DEF Handled, Sent, Paid, Blank
<1> QED BY <1>2, <1>3, <1>5, QuotedKept, MailedKept, AdvanceKept, RefundKept

LEMMA ContactKeepsInv ==
  ASSUME LedgerInv, NEW a \in Actor, UpdateManagedContact(a) PROVE LedgerInv'
<1> USE DEF LedgerInv, money
<1> DEFINE value == form[a].value
<1>1. UNCHANGED <<status, rooms, party, money, mails, now, hand, shown, history>>
  BY DEF UpdateManagedContact
<1>2. PICK stage \in {"sent", "saved"} :
        form' = [b \in Actor |-> [form[b] EXCEPT !.stage = IF b = a THEN stage ELSE form[b].stage,
                                                !.took = form[b].took \/ form[b].value = contact']]
  BY Zenon DEF UpdateManagedContact
<1>3. form[a].stage = "sent" /\ value \in Contacts
  BY DEF UpdateManagedContact, Figures
<1>4. ASSUME NEW b \in Actor
      PROVE  /\ form'[b] \in [stage : {"editing", "sent", "saved"}, value : Contacts, took : BOOLEAN]
             /\ form'[b].stage = IF b = a THEN stage ELSE form[b].stage
             /\ form'[b].value = form[b].value
             /\ form'[b].took <=> form[b].took \/ form[b].value = contact'
  <2> DEFINE kept == form[b].took \/ form[b].value = contact'
  <2>1. form[b] \in [stage : {"editing", "sent", "saved"}, value : Contacts, took : BOOLEAN]
    BY DEF Figures
  <2>2. form'[b] = [form[b] EXCEPT !.stage = IF b = a THEN stage ELSE form[b].stage, !.took = kept]
    BY <1>2, Zenon
  <2>3. kept \in BOOLEAN
    OBVIOUS
  <2> HIDE DEF kept
  <2>4. /\ form'[b] \in [stage : {"editing", "sent", "saved"}, value : Contacts, took : BOOLEAN]
        /\ form'[b].stage = IF b = a THEN stage ELSE form[b].stage
        /\ form'[b].value = form[b].value
        /\ form'[b].took = kept
    BY <2>1, <2>2, <2>3
  <2> QED BY <2>4 DEF kept
<1>5. Figures'
  <2>1. \A b \in Actor : form'[b] \in [stage : {"editing", "sent", "saved"}, value : Contacts, took : BOOLEAN]
    BY <1>4 DEF Figures
  <2>2. form' = [b \in Actor |-> form'[b]]
    BY <1>2
  <2>3. form' \in [Actor -> [stage : {"editing", "sent", "saved"}, value : Contacts, took : BOOLEAN]]
    BY <2>1, <2>2
  <2> QED BY <2>3, <1>1 DEF Figures, history
<1>6. now \in Nat
  BY DEF Figures
<1>7. \A b \in Actor : Sent(b)' = Sent(b)
  BY <1>4 DEF Sent
<1>8. CASE Recorded(EventOf("CONTACT_UPDATED", a, value))
  <2>1. UNCHANGED <<contact, events>>
    BY <1>8 DEF UpdateManagedContact
  <2>2. Handled'
    <3>1. ASSUME "contact" \notin reused, NEW b \in Actor
          PROVE  /\ form'[b].stage = "sent" /\ Sent(b)' \in events' => form'[b].took
                 /\ form'[b].stage = "saved" => form'[b].took
      BY <3>1, <2>1, <1>3, <1>4, <1>7, <1>8 DEF Handled, Sent, Recorded
    <3> QED BY <3>1, <2>1, <1>1 DEF Handled, Paid, history
  <2> QED BY <2>1, <2>2, <1>1, <1>5, <1>6, QuotedKept, MailedKept, AdvanceKept, RefundKept DEF history
<1>9. CASE ~Recorded(EventOf("CONTACT_UPDATED", a, value))
  <2>1. CanMutate(a) /\ contact' = value /\ events' = events \cup {Sent(a)}
    BY <1>9 DEF UpdateManagedContact, Record, Sent
  <2>2. Handled'
    <3>1. ASSUME "contact" \notin reused, NEW b \in Actor
          PROVE  /\ form'[b].stage = "sent" /\ Sent(b)' \in events' => form'[b].took
                 /\ form'[b].stage = "saved" => form'[b].took
      <4>1. CASE b = a
        BY <4>1, <2>1, <1>4
      <4>2. CASE b # a
        <5>1. Sent(b) # Sent(a)
          BY <4>2 DEF Sent, EventOf
        <5> QED BY <5>1, <4>2, <3>1, <2>1, <1>4, <1>7 DEF Handled
      <4> QED BY <4>1, <4>2
    <3>2. Paid # Sent(a)
      BY DEF Paid, Sent, EventOf
    <3>3. Paid' = Paid
      BY <1>1 DEF Paid
    <3> QED BY <3>1, <3>2, <3>3, <2>1, <1>1 DEF Handled, history
  <2>3. Mailed'
    <3>1. Sent(a).type \notin Amendment
      BY DEF Sent, EventOf, Amendment
    <3> QED BY <3>1, <2>1, <1>1, RecordKeepsMailed DEF history
  <2>4. PaidAsQuoted'
    BY <2>1, <1>1, OpenHasNoRefund DEF CanMutate
  <2> QED BY <2>2, <2>3, <2>4, <1>1, <1>5, QuotedKept, AdvanceKept DEF history
<1> QED BY <1>8, <1>9

-----------------------------------------------------------------------------
(* Cash.                                                                   *)

LEMMA PaysKeepsInv ==
  ASSUME LedgerInv, NEW amount \in Amounts, GuestPays(amount) PROVE LedgerInv'
<1> USE DEF LedgerInv, booking, money
<1>1. amount \in Nat /\ amount > 0
  BY LedgerAssumption DEF LedgerAssumption
<1>2. UNCHANGED <<booking, events, mails, now, form, shown, booked, amended>>
  BY DEF GuestPays
<1>3. status = "CONFIRMED" /\ hand = 0 /\ hand' = amount /\ cash' = cash + amount
  BY DEF GuestPays
<1>4. Figures'
  BY <1>1, <1>2, <1>3 DEF Figures
<1>5. Handled'
  <2>1. reused' = IF Repeats("HOTEL_PAYMENT_RECORDED", "admin", amount)
                    THEN reused \cup {"cash"} ELSE reused
    BY DEF GuestPays
  <2>2. "contact" \notin reused' => "contact" \notin reused
    BY <2>1
  <2>3. ASSUME "cash" \notin reused'
        PROVE  Paid' \notin events' /\ cash' = booked' + hand'
    <3>1. "cash" \notin reused /\ Paid' \notin events
      BY <2>1, <2>3, <1>3 DEF Repeats, Paid, EventOf
    <3>2. cash = booked
      BY <3>1, <1>3 DEF Handled
    <3> QED BY <3>1, <3>2, <1>2, <1>3
  <2>4. hand' # 0
    BY <1>1, <1>3
  <2> QED BY <2>2, <2>3, <2>4, <1>2 DEF Handled, Sent
<1>6. PaidAsQuoted'
  BY <1>2, <1>3, OpenHasNoRefund
<1> QED BY <1>2, <1>4, <1>5, <1>6, QuotedKept, MailedKept, AdvanceKept

LEMMA CollectionRefusedKeepsInv == ASSUME LedgerInv, CollectionRefused PROVE LedgerInv'
<1> USE DEF LedgerInv, booking, money
<1>1. UNCHANGED <<booking, events, mails, now, form, shown, booked, amended, reused>>
  BY DEF CollectionRefused
<1>2. hand > 0 /\ hand' = 0 /\ cash' = cash - hand /\ Paid \notin events
  BY DEF CollectionRefused, Recorded, Paid
<1>3. hand \in Nat
  BY LedgerAssumption DEF LedgerAssumption, Figures
<1>4. Figures' /\ now \in Nat
  BY <1>1, <1>2, <1>3 DEF Figures
<1>5. Handled'
  <2>1. "cash" \notin reused => cash' = booked'
    BY <1>1, <1>2, <1>3 DEF Handled, Figures
  <2> QED BY <2>1, <1>1, <1>2 DEF Handled, Sent
<1> QED BY <1>1, <1>4, <1>5, QuotedKept, MailedKept, AdvanceKept, RefundKept

LEMMA CollectionKeepsInv == ASSUME LedgerInv, RecordHotelCollection PROVE LedgerInv'
<1> USE DEF LedgerInv
<1>1. UNCHANGED <<status, refundable, mails, now, form, shown, cash, amended, reused>>
  BY DEF RecordHotelCollection
<1>2. hand > 0 /\ hand' \in {hand, 0} /\ hand \in Nat
  BY LedgerAssumption DEF LedgerAssumption, RecordHotelCollection, Figures
<1>3. hand' = hand => Paid' = Paid
  BY DEF Paid
<1>4. \A a \in Actor : Sent(a)' = Sent(a)
  BY <1>1 DEF Sent
<1>5. CASE Recorded(Paid)
  <2>1. UNCHANGED <<advancePaid, outstanding, booked, events>>
    BY <1>5 DEF RecordHotelCollection, Paid
  <2>2. Figures' /\ now \in Nat
    BY <1>1, <1>2, <2>1 DEF Figures
  <2>3. Handled'
    BY <1>1, <1>2, <1>3, <1>4, <1>5, <2>1 DEF Handled, Recorded
  <2> QED BY <1>1, <2>1, <2>2, <2>3, QuotedKept, MailedKept, AdvanceKept, RefundKept
<1>6. CASE ~Recorded(Paid)
  <2>1. /\ status = "CONFIRMED"
        /\ advancePaid' = advancePaid + ToAdvance(hand)
        /\ booked' = booked + hand
        /\ events' = events \cup {Paid}
    BY <1>6 DEF RecordHotelCollection, Paid, CanCollect, Record
  <2>2. /\ advancePaid' \in Nat
        /\ advancePaid' = Lesser(booked', AdvanceDue) /\ advancePaid <= advancePaid'
    BY <2>1, <1>2, AdvanceDueType DEF Figures, AdvanceFirst, ToAdvance, Lesser, ZeroOrMore
  <2>3. Figures'
    BY <1>1, <1>2, <2>1, <2>2 DEF Figures
  <2>4. AdvanceFirst'
    BY <2>2, <1>1 DEF AdvanceFirst, Figures
  <2>5. Mailed'
    <3>1. Paid.type \notin Amendment
      BY DEF Paid, EventOf, Amendment
    <3> QED BY <3>1, <2>1, <1>1, RecordKeepsMailed
  <2>6. Handled'
    <3>1. \A a \in Actor : Sent(a) # Paid
      BY DEF Sent, Paid, EventOf
    <3>2. \A a \in Actor : Sent(a)' \in events' <=> Sent(a) \in events
      BY <3>1, <2>1, <1>4
    <3>3. "cash" \notin reused => cash' = booked' /\ (hand' = 0 \/ Paid' \in events')
      BY <2>1, <1>1, <1>2, <1>3, <1>6 DEF Handled, Recorded
    <3> QED BY <3>2, <3>3, <1>1 DEF Handled
  <2>7. PaidAsQuoted'
    BY <2>1, <1>1, OpenHasNoRefund
  <2> QED BY <1>1, <2>3, <2>4, <2>5, <2>6, <2>7, QuotedKept
<1> QED BY <1>5, <1>6

-----------------------------------------------------------------------------
(* Cancellations.                                                          *)

LEMMA RefundNowType == ASSUME Figures PROVE RefundNow \in 0..advancePaid
<1>1. HoursLeft[now] \in Int /\ HoursLeft[now] <= HoursLeft[now] /\ advancePaid \in Nat
  BY LedgerAssumption DEF LedgerAssumption, Figures
<1>2. Refundable(HoursLeft[now], advancePaid) \in 0..advancePaid
  BY <1>1, RefundShrinks
<1> QED BY <1>2 DEF RefundNow

LEMMA QuoteKeepsInv ==
  ASSUME LedgerInv, NEW a \in Actor, QuoteCancellation(a) PROVE LedgerInv'
<1> USE DEF LedgerInv, booking, money, history
<1>1. UNCHANGED <<booking, events, mails, now, form, hand, history>>
  BY DEF QuoteCancellation
<1>2. /\ status = "CONFIRMED"
      /\ shown' = [shown EXCEPT ![a] = [refund |-> RefundNow, advance |-> advancePaid, at |-> now]]
  BY DEF QuoteCancellation, CanMutate
<1>3. RefundNow \in Int
  BY RefundNowType DEF Figures
<1>4. Figures'
  BY <1>1, <1>2, <1>3 DEF Figures
<1>5. Quoted'
  <2>1. ASSUME NEW b \in Actor
        PROVE  /\ shown'[b].at <= now
               /\ shown'[b].refund >= 0 =>
                    shown'[b].refund = Refundable(HoursLeft[shown'[b].at], shown'[b].advance)
    <3>1. CASE b = a
      <4>1. shown'[b] = [refund |-> RefundNow, advance |-> advancePaid, at |-> now]
        BY <3>1, <1>2 DEF Figures
      <4> QED BY <4>1 DEF RefundNow, Figures
    <3>2. CASE b # a
      <4>1. shown'[b] = shown[b]
        BY <3>2, <1>2 DEF Figures
      <4> QED BY <4>1 DEF Quoted
    <3> QED BY <3>1, <3>2
  <2> QED BY <2>1, <1>1 DEF Quoted
<1>6. PaidAsQuoted'
  BY <1>1, <1>2, OpenHasNoRefund
<1> QED BY <1>1, <1>4, <1>5, <1>6, HandledKept, MailedKept, AdvanceKept

LEMMA CancelKeepsInv ==
  ASSUME LedgerInv, NEW a \in Actor, CancelManagedBooking(a) PROVE LedgerInv'
<1> USE DEF LedgerInv, client, history
<1> DEFINE event == EventOf("BOOKING_CANCELLED", a, 0)
<1>1. UNCHANGED <<advancePaid, now, form, hand, shown, history>>
  BY DEF CancelManagedBooking
<1>2. /\ status' = "CANCELLED" /\ refundable' = RefundNow /\ outstanding' = 0
      /\ shown[a].refund >= 0
      /\ events' = events \cup {event}
      /\ mails' = mails \cup {<<"booking-cancelled", event>>, <<"staff-booking-cancelled", event>>}
  BY DEF CancelManagedBooking, Record
<1>3. RefundNow \in 0..advancePaid
  BY RefundNowType
<1>4. Figures'
  BY <1>1, <1>2, <1>3 DEF Figures
<1>5. AdvanceFirst'
  BY <1>1, <1>2, <1>3 DEF AdvanceFirst
<1>6. event.type = "BOOKING_CANCELLED"
  BY DEF EventOf
<1>7. Mailed'
  <2> HIDE DEF event
  <2>1. Amendments' = Amendments
    BY <1>2, <1>6 DEF Amendments, Amendment
  <2>2. AmendMails' = AmendMails
    BY <1>2, <1>6 DEF AmendMails
  <2>3. IsFiniteSet(events') /\ IsFiniteSet(mails')
    <3>1. mails' = (mails \cup {<<"booking-cancelled", event>>}) \cup {<<"staff-booking-cancelled", event>>}
      BY <1>2
    <3>2. IsFiniteSet(mails \cup {<<"booking-cancelled", event>>})
      BY FS_AddElement DEF Mailed
    <3>3. IsFiniteSet(mails')
      BY <3>1, <3>2, FS_AddElement
    <3>4. IsFiniteSet(events')
      BY <1>2, FS_AddElement DEF Mailed
    <3> QED BY <3>3, <3>4
  <2>4. \A m \in mails' : m[2] \in events'
    BY <1>2 DEF Mailed
  <2> QED BY <2>1, <2>2, <2>3, <2>4, <1>1 DEF Mailed
<1>8. Handled'
  <2>1. \A b \in Actor : Sent(b) # event
    BY DEF Sent, EventOf
  <2>2. Paid # event
    BY DEF Paid, EventOf
  <2> HIDE DEF event
  <2>3. Paid' = Paid /\ \A b \in Actor : Sent(b)' = Sent(b)
    BY <1>1 DEF Paid, Sent
  <2> QED BY <2>1, <2>2, <2>3, <1>1, <1>2 DEF Handled
<1>9. PaidAsQuoted'
  <2>1. /\ shown[a].at \in 0..MaxTime /\ shown[a].at <= now /\ now \in 0..MaxTime
        /\ shown[a].refund = Refundable(HoursLeft[shown[a].at], shown[a].advance)
    BY <1>2 DEF Figures, Quoted
  <2>2. /\ HoursLeft[now] \in Int /\ HoursLeft[shown[a].at] \in Int
        /\ HoursLeft[now] <= HoursLeft[shown[a].at]
    BY <2>1, LedgerAssumption DEF LedgerAssumption
  <2>3. RefundNow <= Refundable(HoursLeft[shown[a].at], advancePaid)
    BY <2>2, RefundShrinks DEF RefundNow, Figures
  <2>4. /\ shown'[a].advance = advancePaid' => refundable' <= shown'[a].refund
        /\ shown'[a].advance = advancePaid' /\ shown'[a].at = now' => refundable' = shown'[a].refund
    BY <2>1, <2>3, <1>1, <1>2 DEF RefundNow
  <2>5. event \in events'
    BY <1>2
  <2> QED BY <2>4, <2>5, <1>2 DEF PaidAsQuoted, Recorded
<1> QED BY <1>1, <1>4, <1>5, <1>7, <1>8, <1>9, QuotedKept

-----------------------------------------------------------------------------
(* Amendments: a new event, and two new mails that tell of it.             *)
LEMMA AmendKeepsInv ==
  ASSUME LedgerInv, NEW q, q.type \in Amendment, NEW newRooms, Amend(q, newRooms)
  PROVE  LedgerInv'
<1> USE DEF LedgerInv, client
<1> DEFINE event == EventOf(q.type, q.actor, q.serial)
           toGuest == <<"booking-amended", event>>
           toStaff == <<"staff-booking-modified", event>>
<1>1. UNCHANGED <<status, advancePaid, refundable, now, form, hand, shown, booked, cash, reused>>
  BY DEF Amend
<1>2. /\ status = "CONFIRMED" /\ amended' = amended + 1 /\ event \notin events
      /\ events' = events \cup {event}
      /\ mails' = mails \cup {toGuest, toStaff}
  BY DEF Amend, Recorded, Record, CanMutate, NotifyBookingAmended
<1>3. event.type = q.type
  BY DEF EventOf
<1>4. Figures'
  BY <1>1 DEF Figures
<1>5. Handled'
  <2>1. \A b \in Actor : Sent(b).type # q.type
    BY DEF Sent, EventOf, Amendment
  <2>2. Paid.type # q.type
    BY DEF Paid, EventOf, Amendment
  <2>3. Paid' = Paid /\ \A b \in Actor : Sent(b)' = Sent(b)
    BY <1>1 DEF Paid, Sent
  <2> HIDE DEF event
  <2> QED BY <2>1, <2>2, <2>3, <1>1, <1>2, <1>3 DEF Handled
<1>6. Mailed'
  <2>1. toGuest \notin mails /\ toStaff \notin mails /\ toGuest # toStaff
    <3> HIDE DEF event
    <3> QED BY <1>2 DEF Mailed
  <2>2. toGuest[2].type # "BOOKING_CANCELLED" /\ toStaff[2].type # "BOOKING_CANCELLED"
    BY <1>3 DEF Amendment
  <2> HIDE DEF event
  <2>3. Amendments' = Amendments \cup {event} /\ event \notin Amendments
    BY <1>2, <1>3 DEF Amendments
  <2>4. IsFiniteSet(Amendments)
    BY FS_Subset DEF Amendments, Mailed
  <2>5. Cardinality(Amendments') = Cardinality(Amendments) + 1
    BY <2>3, <2>4, FS_AddElement
  <2> HIDE DEF toGuest, toStaff
  <2>6. AmendMails' = (AmendMails \cup {toGuest}) \cup {toStaff}
    BY <1>2, <2>2 DEF AmendMails
  <2>7. toGuest \notin AmendMails /\ toStaff \notin AmendMails \cup {toGuest}
    BY <2>1 DEF AmendMails
  <2>8. IsFiniteSet(AmendMails)
    BY FS_Subset DEF AmendMails, Mailed
  <2>9. /\ IsFiniteSet(AmendMails \cup {toGuest})
        /\ Cardinality(AmendMails \cup {toGuest}) = Cardinality(AmendMails) + 1
    BY <2>7, <2>8, FS_AddElement
  <2>10. Cardinality(AmendMails') = Cardinality(AmendMails) + 1 + 1
    BY <2>6, <2>7, <2>9, FS_AddElement
  <2>11. IsFiniteSet(events') /\ IsFiniteSet(mails')
    <3>1. mails' = (mails \cup {toGuest}) \cup {toStaff}
      BY <1>2
    <3>2. IsFiniteSet(mails \cup {toGuest})
      BY FS_AddElement DEF Mailed
    <3>3. IsFiniteSet(mails')
      BY <3>1, <3>2, FS_AddElement
    <3>4. IsFiniteSet(events')
      BY <1>2, FS_AddElement DEF Mailed
    <3> QED BY <3>3, <3>4
  <2>12. \A m \in mails' : m[2] \in events'
    BY <1>2 DEF Mailed, toGuest, toStaff
  <2>13. Cardinality(AmendMails) \in Nat
    BY <2>8, FS_CardinalityType
  <2> QED BY <2>5, <2>10, <2>11, <2>12, <2>13, <1>2 DEF Mailed
<1>7. PaidAsQuoted'
  BY <1>1, <1>2, OpenHasNoRefund
<1> QED BY <1>1, <1>4, <1>5, <1>6, <1>7, QuotedKept, AdvanceKept

-----------------------------------------------------------------------------
LEMMA InitInv == Init => LedgerInv
<1> SUFFICES ASSUME Init PROVE LedgerInv
  OBVIOUS
<1>1. PICK collected \in Collected :
        /\ advancePaid = Lesser(collected, AdvanceDue)
        /\ booked = collected /\ cash = collected
  BY DEF Init
<1>2. /\ status = "CONFIRMED" /\ refundable = 0 /\ events = {} /\ mails = {} /\ now = 0
      /\ form = [a \in Actor |-> Blank] /\ hand = 0 /\ amended = 0 /\ reused = {}
      /\ shown = [a \in Actor |-> [refund |-> -1, advance |-> 0, at |-> 0]]
  BY DEF Init
<1>3. collected \in Nat /\ FirstContact \in Contacts /\ MaxTime \in Nat
  BY LedgerAssumption DEF LedgerAssumption
<1>4. advancePaid \in Nat
  BY <1>1, <1>3, AdvanceDueType DEF Lesser
<1>5. Figures
  <2>1. form \in [Actor -> [stage : {"editing", "sent", "saved"}, value : Contacts, took : BOOLEAN]]
    BY <1>2, <1>3 DEF Blank
  <2>2. shown \in [Actor -> [refund : Int, advance : Nat, at : 0..MaxTime]]
    BY <1>2, <1>3
  <2> QED BY <1>1, <1>2, <1>3, <1>4, <2>1, <2>2 DEF Figures
<1>6. Mailed
  <2>1. Amendments = {} /\ AmendMails = {}
    BY <1>2 DEF Amendments, AmendMails
  <2> QED BY <2>1, <1>2, FS_EmptySet DEF Mailed
<1>7. Quoted
  BY <1>2 DEF Quoted
<1>8. Handled
  BY <1>1, <1>2 DEF Handled, Blank
<1>9. AdvanceFirst
  BY <1>1, <1>2, <1>4 DEF AdvanceFirst
<1>10. PaidAsQuoted
  BY <1>2 DEF PaidAsQuoted
<1> QED BY <1>5, <1>6, <1>7, <1>8, <1>9, <1>10 DEF LedgerInv

LEMMA NextInv == LedgerInv /\ [Next]_vars => LedgerInv'
<1> SUFFICES ASSUME LedgerInv, [Next]_vars PROVE LedgerInv'
  OBVIOUS
<1>1. ASSUME NEW a \in Actor, Panels(a) PROVE LedgerInv'
  <2>1. ASSUME NEW p \in Parties, QuoteGuestChange(a, p) PROVE LedgerInv'
    BY <2>1, OfferKeepsInv DEF QuoteGuestChange, Offer
  <2>2. ASSUME NEW r \in DOMAIN FirstRooms, QuoteAcUpgrade(a, r) PROVE LedgerInv'
    BY <2>2, OfferKeepsInv DEF QuoteAcUpgrade, Offer
  <2> QED BY <1>1, <2>1, <2>2, SubmitKeepsInv, QuoteKeepsInv DEF Panels
<1>2. ASSUME NEW q \in quotes, ApplyGuestChange(q) \/ ApplyAcUpgrade(q) PROVE LedgerInv'
  <2>1. CASE ApplyGuestChange(q)
    BY <2>1, AmendKeepsInv DEF ApplyGuestChange, Amendment
  <2>2. CASE ApplyAcUpgrade(q)
    BY <2>2, AmendKeepsInv DEF ApplyAcUpgrade, Amendment
  <2> QED BY <1>2, <2>1, <2>2
<1>3. CASE UNCHANGED vars
  BY <1>3, OfferKeepsInv DEF vars
<1>4. CASE BookingFolio \/ BookingActions
  BY <1>1, <1>4, PaysKeepsInv DEF BookingFolio, BookingActions, Actor
<1>5. CASE Requests
  BY <1>2, <1>5, ContactKeepsInv, ContactRefusedKeepsInv, CancelKeepsInv, CollectionKeepsInv,
     CollectionRefusedKeepsInv DEF Requests
<1> QED BY <1>3, <1>4, <1>5, TickKeepsInv DEF Next

(* The account is always in order.                                         *)
THEOREM AccountInOrder == Spec => []LedgerInv
BY InitInv, NextInv, PTL DEF Spec

(* Money fills the advance first, whatever is collected and when; no       *)
(* cancellation gives back more.                                           *)
THEOREM AdvanceIsFilledFirst == Spec => []AdvanceFirst
<1>1. LedgerInv => AdvanceFirst
  BY DEF LedgerInv
<1> QED BY <1>1, AccountInOrder, PTL

(* A quote of an amendment, applied late or again, changes the booking and *)
(* writes its mails at most once.                                          *)
THEOREM QuotesCountOnce == Spec => []AmendedOnce
<1>1. LedgerInv => AmendedOnce
  BY DEF LedgerInv, Mailed, AmendedOnce, Amendments, Amendment, AmendMails
<1> QED BY <1>1, AccountInOrder, PTL

(* For any advance and any course of time a cancellation gives back what   *)
(* its dialog showed, or less when check-in has come closer.               *)
THEOREM CancellationPaysAsQuoted == Spec => []RefundAsQuoted
<1>1. LedgerInv => QuotedAsPublished
  <2> SUFFICES ASSUME LedgerInv, NEW a \in Actor, shown[a].refund >= 0
               PROVE  shown[a].refund = shown[a].advance -
                        RoundBasisPoints(shown[a].advance, 100 * PublishedPercent(HoursLeft[shown[a].at]))
    BY DEF QuotedAsPublished
  <2>1. shown[a].refund = Refundable(HoursLeft[shown[a].at], shown[a].advance)
    BY DEF LedgerInv, Quoted
  <2>2. HoursLeft[shown[a].at] \in Int /\ shown[a].advance \in Nat
    BY LedgerAssumption DEF LedgerInv, Figures, LedgerAssumption
  <2> QED BY <2>1, <2>2, RefundIsPublished
<1>2. LedgerInv => RefundAsQuoted
  BY <1>1 DEF LedgerInv, RefundAsQuoted
<1> QED BY <1>2, AccountInOrder, PTL

(* A client that sends nothing twice is told the truth about its contact   *)
(* and its cash.                                                           *)
THEOREM FreshCommandsTakeEffect == Spec => []FreshCommandsCount
<1>1. LedgerInv => FreshCommandsCount
  BY DEF LedgerInv, Handled, FreshCommandsCount, ContactTook, CashIsBooked
<1> QED BY <1>1, AccountInOrder, PTL
-----------------------------------------------------------------------------
(* The rooms, their price and their guests.                                *)
RoomsInv ==
  /\ DOMAIN rooms = DOMAIN FirstRooms
  /\ \A i \in DOMAIN rooms : rooms[i] \in Room
  /\ party \in Parties \cup {PartyOf(FirstRooms)}
  /\ PriceOfRooms

(* Rooms hold a party of so many guests of each age.                       *)
LEMMA PartyIsParty ==
  ASSUME NEW n \in Nat, NEW rs, DOMAIN rs = 1..n, \A i \in 1..n : rs[i] \in Room
  PROVE  PartyOf(rs) \in Party
<1> DEFINE a == [i \in DOMAIN rs |-> rs[i].guests.adults]
           b == [i \in DOMAIN rs |-> rs[i].guests.children5to10]
           c == [i \in DOMAIN rs |-> rs[i].guests.childrenUnder5]
           D == 1..n
<1>1. IsFiniteSet(D) /\ DOMAIN a = D /\ DOMAIN b = D /\ DOMAIN c = D
  BY FS_Interval
<1>2. \A i \in D : a[i] \in Nat /\ b[i] \in Nat /\ c[i] \in Nat
  BY DEF Room, Party
<1>3. PartyOf(rs) = [adults |-> SumFunction(a), children5to10 |-> SumFunction(b),
                     childrenUnder5 |-> SumFunction(c)]
  BY DEF PartyOf
<1> HIDE DEF a, b, c, D
<1>4. /\ SumFunctionOnSet(a, D) \in Nat /\ SumFunctionOnSet(b, D) \in Nat
      /\ SumFunctionOnSet(c, D) \in Nat
  BY <1>1, <1>2, SumNatural
<1> QED BY <1>1, <1>3, <1>4 DEF SumFunction, Party

LEMMA PartiesAreParties == Parties \cup {PartyOf(FirstRooms)} \subseteq Party
<1>1. PartyOf(FirstRooms) \in Party
  BY FirstRoomsFit, PartyIsParty
<1> QED BY <1>1, LedgerAssumption DEF LedgerAssumption

(* The rooms of the account, as the lemmas of RulesProofs name them.       *)
LEMMA RoomsList ==
  ASSUME RoomsInv
  PROVE  /\ Len(FirstRooms) \in Nat /\ DOMAIN rooms = 1..Len(FirstRooms)
         /\ \A i \in 1..Len(FirstRooms) : rooms[i] \in Room /\ RoomFits(rooms[i])
         /\ party \in Party
BY FirstRoomsFit, PartiesAreParties DEF RoomsInv, PriceOfRooms

(* Rooms for a change of guests fit, and have a price.                     *)
LEMMA GuestsChanged ==
  ASSUME RoomsInv, NEW p \in Party, CanRebalance(rooms, p)
  PROVE  LET new == RebalanceRooms(rooms, p) IN
         /\ DOMAIN new = DOMAIN rooms
         /\ \A i \in DOMAIN new : new[i] \in Room /\ RoomFits(new[i])
         /\ PartyOf(new) = p
         /\ PriceBooking(new) \in Nat
<1> DEFINE new == RebalanceRooms(rooms, p)
           n == Len(FirstRooms)
<1>1. /\ n \in Nat /\ DOMAIN rooms = 1..n
      /\ \A i \in 1..n : rooms[i] \in Room
  BY RoomsList
<1> HIDE DEF n
<1>2. /\ DOMAIN new = 1..n /\ PartyOf(new) = p
      /\ \A i \in 1..n : new[i] \in Room /\ RoomFits(new[i])
  BY <1>1, RebalancedFits
<1> HIDE DEF new
<1>3. PriceBooking(new) \in Nat
  BY <1>1, <1>2, PriceOfFitting
<1> QED BY <1>1, <1>2, <1>3 DEF new

(* Air-conditioning changes the price of a room and not its guests.        *)
LEMMA AcUpgraded ==
  ASSUME RoomsInv, NEW r \in DOMAIN FirstRooms
  PROVE  /\ DOMAIN Upgraded(r) = DOMAIN rooms
         /\ \A i \in DOMAIN Upgraded(r) : Upgraded(r)[i] \in Room /\ RoomFits(Upgraded(r)[i])
         /\ PartyOf(Upgraded(r)) = party
         /\ PriceBooking(Upgraded(r)) \in Nat
<1> DEFINE new == Upgraded(r)
           n == Len(FirstRooms)
<1>1. /\ n \in Nat /\ DOMAIN rooms = 1..n
      /\ \A i \in 1..n : rooms[i] \in Room /\ RoomFits(rooms[i])
  BY RoomsList
<1>2. PartyOf(rooms) = party
  BY DEF RoomsInv, PriceOfRooms
<1> HIDE DEF n
<1>3. DOMAIN new = 1..n
  BY <1>1 DEF Upgraded
<1>4. ASSUME NEW i \in 1..n
      PROVE  new[i] \in Room /\ new[i].group = rooms[i].group /\ new[i].guests = rooms[i].guests
  <2>1. rooms[i] \in Room
    BY <1>1
  <2>2. new[i] = IF i = r THEN [rooms[i] EXCEPT !.ac = TRUE] ELSE rooms[i]
    BY <1>1 DEF Upgraded
  <2> QED BY <2>1, <2>2 DEF Room
<1> HIDE DEF new
<1>5. \A i \in 1..n : RoomFits(new[i])
  BY <1>1, <1>4 DEF RoomFits
<1>6. PartyOf(new) = PartyOf(rooms)
  <2>1. /\ [i \in DOMAIN new |-> new[i].guests.adults] = [i \in DOMAIN rooms |-> rooms[i].guests.adults]
        /\ [i \in DOMAIN new |-> new[i].guests.children5to10]
             = [i \in DOMAIN rooms |-> rooms[i].guests.children5to10]
        /\ [i \in DOMAIN new |-> new[i].guests.childrenUnder5]
             = [i \in DOMAIN rooms |-> rooms[i].guests.childrenUnder5]
    BY <1>1, <1>3, <1>4
  <2> QED BY <2>1, Zenon DEF PartyOf
<1>7. PriceBooking(new) \in Nat
  BY <1>1, <1>3, <1>4, <1>5, PriceOfFitting
<1> QED BY <1>1, <1>2, <1>3, <1>4, <1>5, <1>6, <1>7 DEF new

LEMMA RoomsAtFirst == Init => RoomsInv
<1> SUFFICES ASSUME Init PROVE RoomsInv
  OBVIOUS
<1>1. rooms = FirstRooms /\ party = PartyOf(FirstRooms) /\ subtotal = PriceBooking(FirstRooms)
  BY DEF Init
<1> QED BY <1>1, FirstRoomsFit DEF RoomsInv, PriceOfRooms

(* An amendment takes effect at the price of the rooms it makes.           *)
LEMMA AmendKeepsRooms ==
  ASSUME RoomsInv, NEW q \in Quote, ApplyGuestChange(q) \/ ApplyAcUpgrade(q)
  PROVE  RoomsInv'
<1>1. CASE ApplyGuestChange(q)
  <2> DEFINE new == RebalanceRooms(rooms, q.party)
  <2>1. /\ CanRebalance(rooms, q.party) /\ party' = q.party
        /\ rooms' = new /\ subtotal' = q.subtotal /\ PriceBooking(new) = q.subtotal
    BY <1>1 DEF ApplyGuestChange, Amend, PriceHolds
  <2>2. q.party \in Parties \cup {PartyOf(FirstRooms)} /\ q.party \in Party
    BY PartiesAreParties DEF Quote
  <2>3. /\ DOMAIN new = DOMAIN rooms /\ PartyOf(new) = q.party
        /\ \A i \in DOMAIN new : new[i] \in Room /\ RoomFits(new[i])
    BY <2>1, <2>2, GuestsChanged
  <2> HIDE DEF new
  <2> QED BY <2>1, <2>2, <2>3 DEF RoomsInv, PriceOfRooms
<1>2. CASE ApplyAcUpgrade(q)
  <2> DEFINE new == Upgraded(q.room)
  <2>1. /\ party' = party /\ rooms' = new /\ subtotal' = q.subtotal
        /\ PriceBooking(new) = q.subtotal
    BY <1>2 DEF ApplyAcUpgrade, Amend, PriceHolds
  <2>2. q.room \in DOMAIN FirstRooms
    BY DEF Quote
  <2>3. /\ DOMAIN new = DOMAIN rooms /\ PartyOf(new) = party
        /\ \A i \in DOMAIN new : new[i] \in Room /\ RoomFits(new[i])
    BY <2>2, AcUpgraded
  <2> HIDE DEF new
  <2> QED BY <2>1, <2>3 DEF RoomsInv, PriceOfRooms
<1> QED BY <1>1, <1>2

(* Only an amendment touches the rooms, their guests and their price.      *)
LEMMA RoomsLeftAlone ==
  ASSUME [Next]_vars, \A q \in quotes : ~ApplyGuestChange(q) /\ ~ApplyAcUpgrade(q)
  PROVE  UNCHANGED <<rooms, party, subtotal>>
<1> USE DEF booking, money
<1>1. ASSUME NEW a \in Actor, Panels(a) PROVE UNCHANGED <<rooms, party, subtotal>>
  BY <1>1 DEF Panels, QuoteGuestChange, QuoteAcUpgrade, Offer, SubmitContact, QuoteCancellation
<1>2. ASSUME NEW m \in Amounts, GuestPays(m) PROVE UNCHANGED <<rooms, party, subtotal>>
  BY <1>2 DEF GuestPays
<1>3. ASSUME NEW a \in Actor, UpdateManagedContact(a) \/ ContactRefused(a) \/ CancelManagedBooking(a)
      PROVE  UNCHANGED <<rooms, party, subtotal>>
  BY <1>3 DEF UpdateManagedContact, ContactRefused, CancelManagedBooking
<1>4. CASE RecordHotelCollection \/ CollectionRefused \/ Tick \/ UNCHANGED vars
  BY <1>4 DEF RecordHotelCollection, CollectionRefused, Tick, vars
<1> QED BY <1>1, <1>2, <1>3, <1>4 DEF Next, BookingFolio, BookingActions, Requests, Actor

LEMMA RoomsStep == ASSUME RoomsInv, quotes \subseteq Quote, [Next]_vars PROVE RoomsInv'
<1>1. CASE \E q \in quotes : ApplyGuestChange(q) \/ ApplyAcUpgrade(q)
  BY <1>1, AmendKeepsRooms
<1>2. CASE \A q \in quotes : ~ApplyGuestChange(q) /\ ~ApplyAcUpgrade(q)
  <2>1. UNCHANGED <<rooms, party, subtotal>>
    BY <1>2, RoomsLeftAlone
  <2> QED BY <2>1 DEF RoomsInv, PriceOfRooms
<1> QED BY <1>1, <1>2

-----------------------------------------------------------------------------
(* The records: quotes and events are of their kinds.                      *)
RecordsOk ==
  /\ contact \in Contacts /\ commands \in 0..MaxCommands
  /\ events \subseteq Event /\ quotes \subseteq Quote
  /\ forgot \in BOOLEAN /\ reused \subseteq {"contact", "cash"}

LEMMA RecordsAtFirst == Init => RecordsOk
<1> SUFFICES ASSUME Init PROVE RecordsOk
  OBVIOUS
<1>1. /\ contact = FirstContact /\ commands = 0 /\ events = {} /\ quotes = {}
      /\ forgot = FALSE /\ reused = {}
  BY DEF Init
<1>2. FirstContact \in Contacts /\ MaxCommands \in Nat
  BY LedgerAssumption DEF LedgerAssumption
<1>3. 0 \in 0..MaxCommands
  BY <1>2
<1>4. events \subseteq Event /\ quotes \subseteq Quote /\ reused \subseteq {"contact", "cash"}
  BY <1>1
<1>5. contact \in Contacts /\ commands \in 0..MaxCommands /\ forgot \in BOOLEAN
  BY <1>1, <1>2, <1>3
<1> QED BY <1>4, <1>5 DEF RecordsOk

LEMMA RecordsKept ==
  ASSUME RecordsOk, UNCHANGED <<contact, commands, events, quotes, forgot, reused>>
  PROVE  RecordsOk'
BY DEF RecordsOk

LEMMA CommandCounts == ASSUME RecordsOk, Command PROVE commands' \in 1..MaxCommands
BY LedgerAssumption DEF RecordsOk, Command, LedgerAssumption

LEMMA OfferKeepsRecords ==
  ASSUME RecordsOk, Figures, NEW type \in {"GUESTS_CHANGED", "AC_UPGRADED"}, NEW a \in Actor,
         NEW p \in Parties \cup {PartyOf(FirstRooms)}, NEW r \in DOMAIN FirstRooms,
         NEW price \in Nat, Offer(type, a, p, r, price)
  PROVE  RecordsOk'
<1> DEFINE q == [type |-> type, actor |-> a, party |-> p, room |-> r, subtotal |-> price,
                 expires |-> now + QuoteTtl, serial |-> commands + 1]
<1>1. commands' \in 1..MaxCommands /\ commands' = commands + 1
  BY CommandCounts DEF Offer, Command
<1>2. now + QuoteTtl \in Nat
  BY LedgerAssumption DEF LedgerAssumption, Figures
<1>3. q \in Quote
  BY <1>1, <1>2 DEF Quote
<1>4. quotes' = quotes \cup {q} /\ UNCHANGED <<contact, events, forgot, reused>>
  BY DEF Offer, booking, history
<1> HIDE DEF q
<1>5. quotes' \subseteq Quote
  BY <1>3, <1>4 DEF RecordsOk
<1>6. commands' \in 0..MaxCommands
  BY <1>1
<1> QED BY <1>4, <1>5, <1>6 DEF RecordsOk

LEMMA EventKeepsRecords ==
  ASSUME RecordsOk, NEW type \in Type, NEW a \in Actor, NEW what \in Nat \cup Contacts,
         Record(EventOf(type, a, what)), contact' \in Contacts, forgot' \in BOOLEAN,
         UNCHANGED <<commands, quotes, reused>>
  PROVE  RecordsOk'
<1>1. EventOf(type, a, what) \in Event
  BY DEF Event, EventOf
<1>2. events' \subseteq Event
  BY <1>1 DEF Record, RecordsOk
<1> QED BY <1>2 DEF RecordsOk

LEMMA PanelsKeepRecords ==
  ASSUME RecordsOk, Figures, RoomsInv, NEW a \in Actor, Panels(a)
  PROVE  RecordsOk'
<1>1. ASSUME NEW p \in Parties, QuoteGuestChange(a, p) PROVE RecordsOk'
  <2>1. p \in Party /\ CanRebalance(rooms, p)
    BY <1>1, PartiesAreParties DEF QuoteGuestChange
  <2>2. PriceBooking(RebalanceRooms(rooms, p)) \in Nat
    BY <2>1, GuestsChanged
  <2> QED BY <1>1, <2>2, FirstRoomsFit, OfferKeepsRecords DEF QuoteGuestChange
<1>2. ASSUME NEW r \in DOMAIN FirstRooms, QuoteAcUpgrade(a, r) PROVE RecordsOk'
  <2>1. PriceBooking(Upgraded(r)) \in Nat
    BY AcUpgraded
  <2>2. party \in Parties \cup {PartyOf(FirstRooms)}
    BY DEF RoomsInv
  <2> QED BY <1>2, <2>1, <2>2, OfferKeepsRecords DEF QuoteAcUpgrade
<1>3. ASSUME NEW c \in Contacts, SubmitContact(a, c) PROVE RecordsOk'
  <2>1. commands' \in 1..MaxCommands
    BY <1>3, CommandCounts DEF SubmitContact
  <2>2. UNCHANGED <<contact, events, quotes, forgot>> /\ reused' \subseteq {"contact", "cash"}
    BY <1>3 DEF SubmitContact, booking, RecordsOk
  <2> QED BY <2>1, <2>2 DEF RecordsOk
<1>4. CASE QuoteCancellation(a)
  <2>1. commands' \in 1..MaxCommands
    BY <1>4, CommandCounts DEF QuoteCancellation
  <2>2. UNCHANGED <<contact, events, quotes, forgot, reused>>
    BY <1>4 DEF QuoteCancellation, booking, history
  <2> QED BY <2>1, <2>2 DEF RecordsOk
<1> QED BY <1>1, <1>2, <1>3, <1>4 DEF Panels

LEMMA RequestsKeepRecords ==
  ASSUME RecordsOk, Figures, Requests
  PROVE  RecordsOk'
<1>1. ASSUME NEW a \in Actor, UpdateManagedContact(a) PROVE RecordsOk'
  <2> DEFINE value == form[a].value
  <2>1. value \in Contacts /\ "CONTACT_UPDATED" \in Type
    BY DEF Figures, Type
  <2>2. UNCHANGED <<commands, quotes, reused, forgot>>
    BY <1>1 DEF UpdateManagedContact, history
  <2>3. CASE UNCHANGED <<contact, events>>
    BY <2>2, <2>3, RecordsKept
  <2>4. CASE contact' = value /\ Record(EventOf("CONTACT_UPDATED", a, value))
    <3>1. contact' \in Contacts /\ forgot' \in BOOLEAN
      BY <2>1, <2>2, <2>4 DEF RecordsOk
    <3> QED BY <3>1, <2>1, <2>2, <2>4, EventKeepsRecords
  <2> QED BY <1>1, <2>3, <2>4 DEF UpdateManagedContact
<1>2. ASSUME NEW a \in Actor, ContactRefused(a) PROVE RecordsOk'
  BY <1>2, RecordsKept DEF ContactRefused, booking, history
<1>3. ASSUME NEW a \in Actor, CancelManagedBooking(a) PROVE RecordsOk'
  <2>1. /\ Record(EventOf("BOOKING_CANCELLED", a, 0))
        /\ UNCHANGED <<commands, quotes, reused, forgot, contact>>
    BY <1>3 DEF CancelManagedBooking, history
  <2>2. contact' \in Contacts /\ forgot' \in BOOLEAN /\ "BOOKING_CANCELLED" \in Type
    BY <2>1 DEF RecordsOk, Type
  <2> QED BY <2>1, <2>2, EventKeepsRecords
<1>4. ASSUME NEW q \in quotes, ApplyGuestChange(q) \/ ApplyAcUpgrade(q) PROVE RecordsOk'
  <2>1. /\ Record(EventOf(q.type, q.actor, q.serial))
        /\ forgot' = (forgot \/ booked > advancePaid)
        /\ UNCHANGED <<commands, quotes, reused, contact>>
    BY <1>4 DEF ApplyGuestChange, ApplyAcUpgrade, Amend
  <2>2. q \in Quote
    BY DEF RecordsOk
  <2>3. q.type \in Type /\ q.actor \in Actor /\ q.serial \in Nat
    BY <2>2 DEF Quote, Type
  <2>4. contact' \in Contacts /\ forgot' \in BOOLEAN
    BY <2>1 DEF RecordsOk
  <2> QED BY <2>1, <2>3, <2>4, EventKeepsRecords
<1>5. CASE RecordHotelCollection
  <2>1. UNCHANGED <<contact, commands, quotes, forgot, reused>>
    BY <1>5 DEF RecordHotelCollection
  <2>2. CASE UNCHANGED events
    BY <2>1, <2>2, RecordsKept
  <2>3. CASE Record(EventOf("HOTEL_PAYMENT_RECORDED", "admin", hand))
    <3>1. /\ contact' \in Contacts /\ forgot' \in BOOLEAN /\ hand \in Nat
          /\ "HOTEL_PAYMENT_RECORDED" \in Type /\ "admin" \in Actor
      BY <2>1, LedgerAssumption DEF RecordsOk, Figures, LedgerAssumption, Type, Actor
    <3> QED BY <3>1, <2>1, <2>3, EventKeepsRecords
  <2> QED BY <1>5, <2>2, <2>3 DEF RecordHotelCollection
<1>6. CASE CollectionRefused
  BY <1>6, RecordsKept DEF CollectionRefused, booking
<1> QED BY <1>1, <1>2, <1>3, <1>4, <1>5, <1>6 DEF Requests

LEMMA RecordsStep == ASSUME RecordsOk, Figures, RoomsInv, [Next]_vars PROVE RecordsOk'
<1>1. ASSUME NEW m \in Amounts, GuestPays(m) PROVE RecordsOk'
  <2>1. commands' \in 1..MaxCommands
    BY <1>1, CommandCounts DEF GuestPays
  <2>2. UNCHANGED <<contact, events, quotes, forgot>> /\ reused' \subseteq {"contact", "cash"}
    BY <1>1 DEF GuestPays, booking, RecordsOk
  <2> QED BY <2>1, <2>2 DEF RecordsOk
<1>2. CASE Tick \/ UNCHANGED vars
  BY <1>2, RecordsKept DEF Tick, vars, booking, history
<1> QED
  BY <1>1, <1>2, PanelsKeepRecords, RequestsKeepRecords
     DEF Next, BookingFolio, BookingActions, Actor

-----------------------------------------------------------------------------
(* No more is in the account than was handed over; what is in hand and not *)
(* recorded comes on top of it.                                            *)
CashCovers ==
  IF hand = 0 \/ Paid \in events THEN booked <= cash ELSE booked + hand <= cash

LEMMA CashAtFirst == Init => CashCovers
<1> SUFFICES ASSUME Init PROVE CashCovers
  OBVIOUS
<1>1. PICK collected \in Collected : booked = collected /\ cash = collected
  BY DEF Init
<1>2. collected \in Nat
  BY LedgerAssumption DEF LedgerAssumption
<1> QED BY <1>1, <1>2 DEF Init, CashCovers

LEMMA CashKept ==
  ASSUME CashCovers, UNCHANGED <<hand, booked, cash>>, Paid \in events' <=> Paid \in events
  PROVE  CashCovers'
<1>1. Paid' = Paid
  BY DEF Paid
<1> QED BY <1>1 DEF CashCovers

LEMMA OtherEventsKeepCash ==
  ASSUME CashCovers, UNCHANGED <<hand, booked, cash>>,
         NEW type, type # "HOTEL_PAYMENT_RECORDED", NEW a, NEW what, Record(EventOf(type, a, what))
  PROVE  CashCovers'
<1>1. Paid # EventOf(type, a, what)
  BY DEF Paid, EventOf
<1>2. Paid \in events' <=> Paid \in events
  BY <1>1 DEF Record
<1> QED BY <1>2, CashKept

LEMMA CollectionKeepsCash == ASSUME Figures, CashCovers, RecordHotelCollection PROVE CashCovers'
<1>1. hand > 0 /\ hand' \in {hand, 0} /\ hand \in Nat /\ cash' = cash
  BY LedgerAssumption DEF LedgerAssumption, RecordHotelCollection, Figures
<1>2. hand' = hand => Paid' = Paid
  BY DEF Paid
<1>3. CASE Paid \in events
  <2>1. booked' = booked /\ events' = events
    BY <1>3 DEF RecordHotelCollection, Recorded, Paid
  <2> QED BY <1>1, <1>2, <1>3, <2>1 DEF CashCovers
<1>4. CASE Paid \notin events
  <2>1. booked' = booked + hand /\ Paid \in events'
    BY <1>4 DEF RecordHotelCollection, Recorded, Record, Paid
  <2>2. booked' <= cash'
    BY <1>1, <1>4, <2>1 DEF CashCovers
  <2> QED BY <1>1, <1>2, <2>1, <2>2 DEF CashCovers
<1> QED BY <1>3, <1>4

LEMMA CashStep == ASSUME Figures, CashCovers, [Next]_vars PROVE CashCovers'
<1>1. ASSUME NEW a \in Actor, Panels(a) PROVE CashCovers'
  <2>1. UNCHANGED <<hand, booked, cash, events>>
    BY <1>1 DEF Panels, QuoteGuestChange, QuoteAcUpgrade, Offer, SubmitContact,
                QuoteCancellation, client, history
  <2> QED BY <2>1, CashKept
<1>2. ASSUME NEW m \in Amounts, GuestPays(m) PROVE CashCovers'
  <2>1. /\ hand = 0 /\ hand' = m /\ cash' = cash + m /\ booked' = booked
        /\ m \in Nat /\ cash \in Int /\ booked \in Nat
    BY <1>2, LedgerAssumption DEF GuestPays, LedgerAssumption, Figures
  <2>2. booked <= cash
    BY <2>1 DEF CashCovers
  <2> QED BY <2>1, <2>2 DEF CashCovers
<1>3. ASSUME NEW a \in Actor, UpdateManagedContact(a) PROVE CashCovers'
  <2>1. UNCHANGED <<hand, booked, cash>>
    BY <1>3 DEF UpdateManagedContact, history
  <2>2. \/ UNCHANGED events
        \/ Record(EventOf("CONTACT_UPDATED", a, form[a].value))
    BY <1>3 DEF UpdateManagedContact
  <2> QED BY <2>1, <2>2, CashKept, OtherEventsKeepCash
<1>4. ASSUME NEW a \in Actor, CancelManagedBooking(a) PROVE CashCovers'
  <2>1. UNCHANGED <<hand, booked, cash>> /\ Record(EventOf("BOOKING_CANCELLED", a, 0))
    BY <1>4 DEF CancelManagedBooking, history, client
  <2> QED BY <2>1, OtherEventsKeepCash
<1>5. ASSUME NEW q \in quotes, ApplyGuestChange(q) \/ ApplyAcUpgrade(q) PROVE CashCovers'
  <2>1. /\ UNCHANGED <<hand, booked, cash>>
        /\ Record(EventOf(q.type, q.actor, q.serial))
        /\ q.type # "HOTEL_PAYMENT_RECORDED"
    BY <1>5 DEF ApplyGuestChange, ApplyAcUpgrade, Amend, client
  <2> QED BY <2>1, OtherEventsKeepCash
<1>6. CASE CollectionRefused
  <2>1. /\ hand > 0 /\ hand' = 0 /\ cash' = cash - hand /\ booked' = booked /\ Paid \notin events
        /\ hand \in Nat /\ cash \in Int /\ booked \in Nat
    BY <1>6, LedgerAssumption DEF CollectionRefused, Recorded, Paid, LedgerAssumption, Figures
  <2> QED BY <2>1 DEF CashCovers
<1>7. ASSUME NEW a \in Actor, ContactRefused(a) PROVE CashCovers'
  <2>1. UNCHANGED <<hand, booked, cash, events>>
    BY <1>7 DEF ContactRefused, history
  <2> QED BY <2>1, CashKept
<1>8. CASE Tick \/ UNCHANGED vars
  <2>1. UNCHANGED <<hand, booked, cash, events>>
    BY <1>8 DEF Tick, vars, client, history
  <2> QED BY <2>1, CashKept
<1> QED
  BY <1>1, <1>2, <1>3, <1>4, <1>5, <1>6, <1>7, <1>8, CollectionKeepsCash
     DEF Next, BookingFolio, BookingActions, Requests, Actor

-----------------------------------------------------------------------------
(* The balance.                                                            *)
LEMMA PriceIsNumber == ASSUME RoomsInv PROVE subtotal \in Nat
<1>1. PriceBooking(rooms) \in Nat
  BY RoomsList, PriceOfFitting
<1> QED BY <1>1 DEF RoomsInv, PriceOfRooms

BalanceInv == outstanding \in Nat /\ BalanceOwed

LEMMA BalanceAtFirst == Init => BalanceInv
<1> SUFFICES ASSUME Init PROVE BalanceInv
  OBVIOUS
<1>1. PICK collected \in Collected :
        /\ outstanding = subtotal - collected
        /\ booked = collected
  BY DEF Init
<1>2. subtotal = PriceBooking(FirstRooms)
  BY DEF Init
<1>3. collected \in Nat /\ collected <= subtotal /\ subtotal \in Nat
  BY <1>2, FirstPrice, LedgerAssumption DEF LedgerAssumption
<1> QED BY <1>1, <1>3 DEF BalanceInv, BalanceOwed, ZeroOrMore

(* What was paid beyond the advance is what an amendment forgets.          *)
LEMMA AmendKeepsBalance ==
  ASSUME LedgerInv, NEW q, q.subtotal \in Nat, NEW newRooms, Amend(q, newRooms)
  PROVE  BalanceInv'
<1>1. /\ booked \in Nat /\ advancePaid \in Nat /\ advancePaid <= booked
  BY AdvanceDueType DEF LedgerInv, Figures, AdvanceFirst, Lesser
<1>2. /\ booked' = booked /\ subtotal' = q.subtotal /\ subtotal' \in Nat
      /\ outstanding' = ZeroOrMore(q.subtotal - advancePaid)
      /\ forgot' = (forgot \/ booked > advancePaid)
  BY DEF Amend, Balance
<1>3. outstanding' \in Nat /\ outstanding' >= ZeroOrMore(subtotal' - booked')
  BY <1>1, <1>2 DEF ZeroOrMore
<1>4. ASSUME ~forgot' PROVE outstanding' = ZeroOrMore(subtotal' - booked')
  <2>1. ~(booked > advancePaid)
    BY <1>4, <1>2, Zenon
  <2>2. booked = advancePaid
    BY <2>1, <1>1
  <2> QED BY <2>2, <1>2
<1> QED BY <1>3, <1>4 DEF BalanceInv, BalanceOwed

LEMMA CollectionKeepsBalance ==
  ASSUME LedgerInv, subtotal \in Nat, BalanceInv, RecordHotelCollection
  PROVE  BalanceInv'
<1>1. /\ status' = status /\ subtotal' = subtotal /\ forgot' = forgot
      /\ booked \in Nat /\ subtotal \in Nat /\ outstanding \in Nat
  BY DEF RecordHotelCollection, LedgerInv, Figures, BalanceInv
<1>2. CASE UNCHANGED <<outstanding, booked>>
  BY <1>1, <1>2 DEF BalanceInv, BalanceOwed
<1>3. CASE CanCollect(hand) /\ outstanding' = outstanding - hand /\ booked' = booked + hand
  <2>1. hand \in Nat
    BY LedgerAssumption DEF LedgerAssumption, LedgerInv, Figures
  <2>2. hand <= outstanding /\ status = "CONFIRMED"
    BY <1>3 DEF CanCollect
  <2>3. outstanding >= ZeroOrMore(subtotal - booked)
    BY <2>2 DEF BalanceInv, BalanceOwed
  <2>4. outstanding' \in Nat /\ outstanding' >= ZeroOrMore(subtotal' - booked')
    BY <1>1, <1>3, <2>1, <2>2, <2>3 DEF ZeroOrMore
  <2>5. ASSUME ~forgot' PROVE outstanding' = ZeroOrMore(subtotal' - booked')
    <3>1. outstanding = ZeroOrMore(subtotal - booked)
      BY <1>1, <2>2, <2>5 DEF BalanceInv, BalanceOwed
    <3> QED BY <3>1, <1>1, <1>3, <2>1, <2>2 DEF ZeroOrMore
  <2> QED BY <2>4, <2>5 DEF BalanceInv, BalanceOwed
<1> QED BY <1>2, <1>3 DEF RecordHotelCollection

LEMMA BalanceStep ==
  ASSUME LedgerInv, RoomsInv, RecordsOk, BalanceInv, [Next]_vars
  PROVE  BalanceInv'
<1>1. ASSUME UNCHANGED <<status, subtotal, outstanding, booked, forgot>> PROVE BalanceInv'
  BY <1>1 DEF BalanceInv, BalanceOwed
<1>2. ASSUME NEW a \in Actor, Panels(a) PROVE BalanceInv'
  <2>1. UNCHANGED <<status, subtotal, outstanding, booked, forgot>>
    BY <1>2 DEF Panels, QuoteGuestChange, QuoteAcUpgrade, Offer, SubmitContact,
                QuoteCancellation, booking, money, history
  <2> QED BY <2>1, <1>1
<1>3. ASSUME NEW m \in Amounts, GuestPays(m) PROVE BalanceInv'
  BY <1>3, <1>1 DEF GuestPays, booking, money
<1>4. ASSUME NEW a \in Actor, UpdateManagedContact(a) \/ ContactRefused(a) PROVE BalanceInv'
  BY <1>4, <1>1 DEF UpdateManagedContact, ContactRefused, booking, money, history
<1>5. ASSUME NEW a \in Actor, CancelManagedBooking(a) PROVE BalanceInv'
  BY <1>5 DEF CancelManagedBooking, BalanceInv, BalanceOwed
<1>6. ASSUME NEW q \in quotes, ApplyGuestChange(q) \/ ApplyAcUpgrade(q) PROVE BalanceInv'
  <2>1. q.subtotal \in Nat
    BY DEF RecordsOk, Quote
  <2> QED BY <1>6, <2>1, AmendKeepsBalance DEF ApplyGuestChange, ApplyAcUpgrade
<1>7. CASE CollectionRefused \/ Tick \/ UNCHANGED vars
  BY <1>7, <1>1 DEF CollectionRefused, Tick, vars, booking, money, history
<1>8. CASE BookingFolio \/ BookingActions
  BY <1>8, <1>2, <1>3 DEF BookingFolio, BookingActions, Actor
<1>9. CASE Requests
  <2>1. subtotal \in Nat
    BY PriceIsNumber
  <2> QED BY <1>9, <2>1, <1>4, <1>5, <1>6, <1>7, CollectionKeepsBalance DEF Requests
<1> QED BY <1>7, <1>8, <1>9 DEF Next
-----------------------------------------------------------------------------

(* The inductive invariant of the whole account: its rooms and their price,*)
(* its records, its cash and its balance.                                  *)
AccountInv == LedgerInv /\ RoomsInv /\ RecordsOk /\ CashCovers /\ BalanceInv

LEMMA AccountAtFirst == Init => AccountInv
BY InitInv, RoomsAtFirst, RecordsAtFirst, CashAtFirst, BalanceAtFirst DEF AccountInv

LEMMA AccountStep == AccountInv /\ [Next]_vars => AccountInv'
<1> SUFFICES ASSUME AccountInv, [Next]_vars PROVE AccountInv'
  OBVIOUS
<1>1. LedgerInv /\ RoomsInv /\ RecordsOk /\ CashCovers /\ BalanceInv /\ Figures
  BY DEF AccountInv, LedgerInv
<1>2. LedgerInv'
  BY <1>1, NextInv
<1>3. RoomsInv'
  BY <1>1, RoomsStep DEF RecordsOk
<1>4. RecordsOk'
  BY <1>1, RecordsStep
<1>5. CashCovers'
  BY <1>1, CashStep
<1>6. BalanceInv'
  BY <1>1, BalanceStep
<1> QED BY <1>2, <1>3, <1>4, <1>5, <1>6 DEF AccountInv

(* Rooms, records, cash and balance, as well as the account, are always in *)
(* order.                                                                  *)
THEOREM BookingInOrder == Spec => []AccountInv
BY AccountAtFirst, AccountStep, PTL DEF Spec

(* However the quotes of guest and desk overtake each other, and for any   *)
(* tariff and any rooms, the price is that of the rooms as they stand;     *)
(* each of them holds a number of guests it is let to, and together they   *)
(* hold the party of the booking.                                          *)
THEOREM PriceFollowsRooms == Spec => []PriceOfRooms
<1>1. AccountInv => PriceOfRooms
  BY DEF AccountInv, RoomsInv
<1> QED BY <1>1, BookingInOrder, PTL

(* Every figure is a natural number and every record is of its kind: what  *)
(* a sum, a difference or a share of money computes stays a whole amount   *)
(* that is not negative.                                                   *)
THEOREM TypeCorrect == Spec => []TypeOK
<1>1. ASSUME AccountInv PROVE TypeOK
  <2>1. Figures /\ RecordsOk /\ amended \in Nat
    BY <1>1 DEF AccountInv, LedgerInv, Mailed
  <2>2. subtotal \in Nat /\ outstanding \in Nat /\ DOMAIN rooms = DOMAIN FirstRooms
    BY <1>1, PriceIsNumber DEF AccountInv, BalanceInv, RoomsInv
  <2>3. cash \in Nat
    <3>1. cash \in Int /\ booked \in Nat /\ hand \in Nat
      BY <2>1, LedgerAssumption DEF Figures, LedgerAssumption
    <3>2. booked <= cash \/ booked + hand <= cash
      BY <1>1 DEF AccountInv, CashCovers
    <3> QED BY <3>1, <3>2
  <2> QED BY <2>1, <2>2, <2>3 DEF TypeOK, Figures, RecordsOk
<1> QED BY <1>1, BookingInOrder, PTL

(* The balance is what is owed: price less payments, except for the hotel  *)
(* money that an amendment forgets, and then it is only too high.          *)
THEOREM BalanceIsOwed == Spec => []BalanceOwed
<1>1. AccountInv => BalanceOwed
  BY DEF AccountInv, BalanceInv
<1> QED BY <1>1, BookingInOrder, PTL
=============================================================================
