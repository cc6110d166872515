--------------------------- MODULE CheckoutProofs ---------------------------
(***************************************************************************)
(* Theorems about Checkout.tla, for any tariff, rooms and parties, any     *)
(* number of requests, visits and publications, and any course of time.    *)
(*                                                                         *)
(* That the page shows what the guest is charged needs four facts about    *)
(* the page: its quote is that of its draft (Quoted), and so is every      *)
(* quote it has asked for again (Asked); the request it waits for          *)
(* (Awaiting) and its hold (Held) are of its quote, unless an answer to a  *)
(* quote asked for again has overtaken them, and of its rooms even then.   *)
(* That these survive lost answers and late twins rests on one fact about  *)
(* the server: a hold has the terms of the quote it was made from, and no  *)
(* request is let through with the price of another tariff.                *)
(*                                                                         *)
(* That the rooms suffice rests on this: but for a new hold or another     *)
(* guest, both counted against what is free, no step uses more rooms,      *)
(* since a hold that has lapsed is never live again (LoadShrinks).         *)
(***************************************************************************)
EXTENDS Checkout, RulesProofs

(* Holds and requests are records, of whatever quotes and rooms.           *)
IsHold(h) ==
  /\ h = [quote |-> h.quote, rooms |-> h.rooms, tariff |-> h.tariff, status |-> h.status,
          expires |-> h.expires, order |-> h.order, payment |-> h.payment]
  /\ h.status \in {"PENDING_PAYMENT", "CONFIRMED", "EXPIRED"}
  /\ h.order \in {"NONE", "PENDING", "PAID", "PAID_UNALLOCATED", "EXPIRED"}
  /\ h.payment \in {"none", "authorised", "captured"}
Fits(q) == SeatsParty(q.rooms, q.party)
OfItsQuote(h) == h.rooms = h.quote.rooms /\ h.tariff = h.quote.tariff /\ Fits(h.quote)
HoldsOk ==
  /\ Len(holds) \in Nat /\ holds = [i \in 1..Len(holds) |-> holds[i]]
  /\ \A i \in 1..Len(holds) : IsHold(holds[i]) /\ OfItsQuote(holds[i])
  /\ OneHoldPerQuote

RequestOk(r) ==
  /\ r = [id |-> r.id, quote |-> r.quote, tariff |-> r.tariff, stage |-> r.stage]
  /\ r.id \in 1..sent /\ r.stage \in {"sent", "new"}
  /\ Fits(r.quote)
  /\ r.stage = "new" => r.tariff = r.quote.tariff
RequestsOk == sent \in Nat /\ \A r \in requests : RequestOk(r)

Busy == doing # "idle" => page = "pay" /\ quote # NoQuote
OnPage(q) == q.rooms = draft /\ q.party = party /\ Fits(q)
Quoted == page \in {"review", "pay"} /\ quote # NoQuote => OnPage(quote)
Asked ==
  \A q \in requotes :
    /\ q = [id |-> q.id, quote |-> q.quote] /\ q.id \in 1..sent
    /\ page = "pay" /\ quote # NoQuote
    /\ q.quote = NoQuote \/ OnPage(q.quote)
OfQuote(q) == q.rooms = draft /\ (overtaken \/ q = quote)
Awaiting == doing = "holding" => hold = 0 /\ \A r \in requests : r.id = sent => OfQuote(r.quote)
Held == page = "pay" /\ hold # 0 => quote # NoQuote /\ OfQuote(holds[hold].quote)
PageTypes ==
  /\ page \in Page /\ party \in Parties /\ doing \in Doing /\ view \in View
  /\ hold \in 0..Len(holds) /\ polls \in 0..MaxPolls /\ visits \in 0..MaxVisits
  /\ script \in Script
  /\ doing \in {"ordering", "loading", "modal", "verifying"} => hold # 0
  /\ Polling => polls < MaxPolls
PageOk == PageTypes /\ Busy /\ Quoted /\ Asked /\ Awaiting /\ Held

Clock == now \in 0..MaxTime /\ tariff \in 1..MaxTariff
CheckoutInv == Clock /\ HoldsOk /\ RequestsOk /\ PageOk

LEMMA Constants ==
  /\ MaxPolls \in Nat /\ MaxPolls > 0 /\ MaxTime \in Nat /\ MaxTariff \in Nat /\ MaxTariff > 0
  /\ MaxVisits \in Nat /\ MaxRequests \in Nat
BY CheckoutAssumption DEF CheckoutAssumption

LEMMA ListType == HoldsOk => DOMAIN holds = 1..Len(holds) /\ Len(holds) \in Nat
BY DEF HoldsOk

Remembered == overtaken \in BOOLEAN
LEMMA TypeFromInv == CheckoutInv /\ Remembered => TypeOK
BY ListType DEF CheckoutInv, Clock, HoldsOk, RequestsOk, RequestOk, PageOk, PageTypes, Asked, TypeOK, IsHold, Remembered

-----------------------------------------------------------------------------
(* What becomes of a hold leaves its terms alone.                          *)
Keeps(h, k) == IsHold(k) /\ k.quote = h.quote /\ k.rooms = h.rooms /\ k.tariff = h.tariff

LEMMA StatusKeeps ==
  ASSUME NEW h, IsHold(h), NEW s \in {"PENDING_PAYMENT", "CONFIRMED", "EXPIRED"},
         NEW o \in {"NONE", "PENDING", "PAID", "PAID_UNALLOCATED", "EXPIRED"}
  PROVE  /\ Keeps(h, [h EXCEPT !.status = s, !.order = o])
         /\ Keeps(h, [h EXCEPT !.order = o])
         /\ Keeps(h, h)
<1>1. PICK k : k = [h EXCEPT !.status = s, !.order = o]
  OBVIOUS
<1>2. k = [quote |-> h.quote, rooms |-> h.rooms, tariff |-> h.tariff, status |-> s,
           expires |-> h.expires, order |-> o, payment |-> h.payment]
  BY <1>1 DEF IsHold
<1>3. Keeps(h, k)
  BY <1>2 DEF Keeps, IsHold
<1>4. PICK m : m = [h EXCEPT !.order = o]
  OBVIOUS
<1>5. m = [quote |-> h.quote, rooms |-> h.rooms, tariff |-> h.tariff, status |-> h.status,
           expires |-> h.expires, order |-> o, payment |-> h.payment]
  BY <1>4 DEF IsHold
<1>6. Keeps(h, m)
  BY <1>5 DEF Keeps, IsHold
<1>7. Keeps(h, h)
  BY DEF Keeps
<1> QED BY <1>1, <1>3, <1>4, <1>6, <1>7

LEMMA SweptKeeps == ASSUME NEW h, IsHold(h) PROVE Keeps(h, Swept(h))
<1> DEFINE o == IF h.order = "PENDING" THEN "EXPIRED" ELSE h.order
<1>1. o \in {"NONE", "PENDING", "PAID", "PAID_UNALLOCATED", "EXPIRED"}
  BY DEF IsHold
<1>2. Swept(h) = [h EXCEPT !.status = "EXPIRED", !.order = o] \/ Swept(h) = h
  BY DEF Swept
<1> HIDE DEF o
<1>3. Keeps(h, [h EXCEPT !.status = "EXPIRED", !.order = o]) /\ Keeps(h, h)
  BY <1>1, StatusKeeps
<1> QED BY <1>2, <1>3

LEMMA SettledKeeps == ASSUME NEW h, IsHold(h) PROVE Keeps(h, Settled(h))
BY StatusKeeps DEF Settled

LEMMA OrderKeeps == ASSUME NEW h, IsHold(h) PROVE Keeps(h, NewOrder(h))
BY StatusKeeps DEF NewOrder

LEMMA PaymentKeeps ==
  ASSUME NEW h, IsHold(h), NEW p \in {"none", "authorised", "captured"}
  PROVE  Keeps(h, [h EXCEPT !.payment = p])
BY DEF Keeps, IsHold

(* A step that changes holds, and keeps their terms.                       *)
HoldsKept ==
  /\ Len(holds') = Len(holds) /\ holds' = [i \in 1..Len(holds) |-> holds'[i]]
  /\ \A i \in 1..Len(holds) : Keeps(holds[i], holds'[i])

LEMMA KeptHolds == ASSUME HoldsOk, HoldsKept PROVE HoldsOk'
<1>1. \A i \in 1..Len(holds') : IsHold(holds'[i]) /\ OfItsQuote(holds'[i])
  BY DEF HoldsOk, HoldsKept, Keeps, OfItsQuote
<1>2. OneHoldPerQuote'
  BY DEF HoldsOk, HoldsKept, Keeps, OneHoldPerQuote
<1> QED BY <1>1, <1>2 DEF HoldsOk, HoldsKept

LEMMA OneChanged ==
  ASSUME HoldsOk, NEW i \in 1..Len(holds), NEW k, Keeps(holds[i], k),
         holds' = [holds EXCEPT ![i] = k]
  PROVE  HoldsKept
<1>1. holds' = [j \in 1..Len(holds) |-> holds'[j]] /\ Len(holds) \in Nat
  BY DEF HoldsOk
<1>2. Len(holds') = Len(holds)
  BY <1>1, LenOf
<1>3. \A j \in 1..Len(holds) : Keeps(holds[j], holds'[j])
  BY StatusKeeps DEF HoldsOk
<1> QED BY <1>1, <1>2, <1>3 DEF HoldsKept

LEMMA SameHolds == ASSUME HoldsOk, UNCHANGED holds PROVE HoldsKept
<1>1. \A j \in 1..Len(holds) : Keeps(holds[j], holds'[j])
  BY StatusKeeps DEF HoldsOk
<1> QED BY <1>1 DEF HoldsOk, HoldsKept

LEMMA AllSwept ==
  ASSUME HoldsOk, holds' = [i \in DOMAIN holds |-> Swept(holds[i])]
  PROVE  HoldsKept
<1>1. holds' = [i \in 1..Len(holds) |-> Swept(holds[i])] /\ Len(holds) \in Nat
  BY ListType
<1>2. holds' = [j \in 1..Len(holds) |-> holds'[j]]
  BY <1>1
<1>3. Len(holds') = Len(holds)
  BY <1>1, <1>2, LenOf
<1>4. \A j \in 1..Len(holds) : Keeps(holds[j], holds'[j])
  BY <1>1, SweptKeeps DEF HoldsOk
<1> QED BY <1>2, <1>3, <1>4 DEF HoldsKept

-----------------------------------------------------------------------------
(* Moves of the page alone.                                                *)

LEMMA PageMove ==
  ASSUME CheckoutInv, UNCHANGED <<now, server, requests, sent>>, PageOk'
  PROVE  CheckoutInv'
<1>1. UNCHANGED <<now, tariff, holds, requests, sent>>
  BY DEF server
<1>2. HoldsOk'
  BY <1>1, SameHolds, KeptHolds DEF CheckoutInv
<1> QED BY <1>1, <1>2 DEF CheckoutInv, Clock, RequestsOk, RequestOk

LEMMA IdleAway == ASSUME Busy, page # "pay" PROVE doing = "idle"
BY DEF Busy

LEMMA MoveKeepsPage ==
  ASSUME CheckoutInv, UNCHANGED <<now, server, requests, sent>>,
         \/ ChooseArrangement
         \/ \E guests \in Parties : ChangeGuests(guests) \/ GoToOldAddress(guests)
         \/ ContinueToPay \/ Back \/ BookNow \/ Reload
  PROVE  PageOk'
<1> USE DEF CheckoutInv, PageOk
<1>1. UNCHANGED holds /\ Len(holds) \in Nat
  BY DEF server, HoldsOk
<1>2. /\ doing' = "idle"
      /\ quote' = NoQuote /\ hold' = 0 /\ requotes' = {} /\ overtaken' = FALSE
  BY IdleAway DEF ChooseArrangement, ChangeGuests, GoToOldAddress, ContinueToPay, Back, BookNow, Reload, Mount
<1>3. /\ page' \in {"arrangement", "review", "pay"} /\ party' \in Parties
      /\ visits' \in 0..MaxVisits /\ script' \in Script
  BY Constants DEF ChooseArrangement, ChangeGuests, GoToOldAddress, ContinueToPay, Back, BookNow, Reload, Mount, PageTypes, Script
<1>4. view' \in View /\ polls' \in 0..MaxPolls
  BY Constants DEF ChooseArrangement, ChangeGuests, GoToOldAddress, ContinueToPay, Back, BookNow, Reload, PageTypes, View
<1>5. PageTypes'
  BY <1>1, <1>2, <1>3, <1>4 DEF PageTypes, Page, Doing, Polling
<1> QED BY <1>2, <1>5 DEF Busy, Quoted, Asked, Awaiting, Held

LEMMA CreateQuoteKeepsPage ==
  ASSUME CheckoutInv, CreateQuote PROVE PageOk'
<1> USE DEF CheckoutInv, PageOk, CreateQuote, server, late
<1>1. doing = "idle" /\ (hold = 0 \/ page = "review") /\ requotes = {}
  BY DEF Busy, Held, Asked
<1>2. quote'.rooms = draft /\ quote'.party = party
  BY DEF Priced
<1>3. PageTypes'
  BY DEF PageTypes, Polling
<1> QED BY <1>1, <1>2, <1>3 DEF Busy, Quoted, OnPage, Asked, Awaiting, Held, Fits

LEMMA StayKeepsPage ==
  ASSUME CheckoutInv, GiveUp \/ LoadScript \/ Dismiss PROVE PageOk'
<1> USE DEF CheckoutInv, PageOk, GiveUp, LoadScript, Dismiss, server, late
<1>1. PageTypes'
  BY DEF PageTypes, Polling, Doing, Script
<1> QED BY <1>1 DEF Busy, Quoted, OnPage, Asked, Awaiting, Held, OfQuote, Fits

(* The answer to a quote asked for again.                                  *)
LEMMA AnswerQuoteKeepsPage ==
  ASSUME CheckoutInv, NEW q \in requotes, AnswerQuote(q) PROVE PageOk'
<1> USE DEF CheckoutInv, PageOk, AnswerQuote, server
<1>1. /\ page = "pay" /\ OnPage(q.quote) /\ q.quote # NoQuote /\ quote' = q.quote
      /\ requotes' \subseteq requotes
  BY DEF Asked
<1>2. PageTypes'
  BY DEF PageTypes, Polling
<1>3. Quoted' /\ Asked' /\ Busy'
  BY <1>1 DEF Busy, Quoted, OnPage, Asked, Fits
<1>4. hold # 0 => hold' # 0 /\ overtaken' /\ holds[hold].quote.rooms = draft
  BY <1>1 DEF Held, OfQuote, Overtakes
<1>5. doing = "holding" => overtaken' /\ \A r \in requests : r.id = sent => r.quote.rooms = draft
  BY DEF Awaiting, OfQuote, Overtakes
<1>6. Awaiting' /\ Held'
  BY <1>1, <1>4, <1>5 DEF Awaiting, Held, OfQuote
<1> QED BY <1>2, <1>3, <1>6

LEMMA RequoteKeepsPage ==
  ASSUME CheckoutInv, NEW q \in requotes, Requote(q) PROVE PageOk'
<1> USE DEF CheckoutInv, PageOk
<1>1. /\ page = "pay" /\ quote # NoQuote
      /\ q = [id |-> q.id, quote |-> q.quote] /\ q.id \in 1..sent
  BY DEF Asked
<1>2. PICK n : n = [q EXCEPT !.quote = Priced]
  OBVIOUS
<1>3. n = [id |-> q.id, quote |-> Priced]
  BY <1>1, <1>2
<1>4. requotes' \subseteq requotes \cup {n}
  BY <1>2 DEF Requote
<1>5. UNCHANGED <<now, tariff, taken, holds, requests, sent, page, party, draft, quote, overtaken, hold, doing, script, visits, view, polls>>
  BY DEF Requote, server
<1>6. OnPage(quote)
  BY <1>1 DEF Quoted
<1>7. OnPage(Priced)
  BY <1>6 DEF OnPage, Priced, Fits
<1>8. Asked'
  BY <1>1, <1>3, <1>4, <1>5, <1>7 DEF Asked, OnPage, Fits
<1>9. PageTypes'
  BY <1>5 DEF PageTypes, Polling
<1> QED BY <1>5, <1>8, <1>9 DEF Busy, Quoted, OnPage, Awaiting, Held, OfQuote, Fits

LEMMA OpenKeepsPage ==
  ASSUME CheckoutInv, NEW i \in DOMAIN holds, OpenConfirmation(i) PROVE PageOk'
<1> USE DEF CheckoutInv, PageOk, OpenConfirmation, Show, server
<1>1. i \in 1..Len(holds) /\ Len(holds) \in Nat
  BY ListType
<1>2. PageTypes'
  BY <1>1, Constants DEF PageTypes, Polling, View, Page
<1> QED BY <1>2 DEF Busy, Quoted, Asked, Awaiting, Held

LEMMA PollKeepsPage == ASSUME CheckoutInv, PollCheckout PROVE PageOk'
<1> USE DEF CheckoutInv, PageOk, server, browser
<1>1. UNCHANGED <<holds, requests, sent, page, party, draft, quote, late, hold, doing, script, visits>>
  BY DEF PollCheckout
<1>2. polls \in 0..MaxPolls /\ polls < MaxPolls /\ polls' \in {polls, polls + 1}
  BY DEF PollCheckout, PageTypes
<1>3. view' \in View /\ view' # "loading" /\ (view' = "pending" => polls + 1 < MaxPolls)
  BY <1>2, Constants DEF PollCheckout, Shown, View
<1>4. PageTypes'
  BY <1>1, <1>2, <1>3, Constants DEF PageTypes, Polling, late
<1> QED BY <1>1, <1>4 DEF Busy, Quoted, OnPage, Asked, Awaiting, Held, OfQuote, Fits, late

-----------------------------------------------------------------------------
(* Paying: a request, its answer, an order.                                *)

LEMMA PayKeepsInv == ASSUME CheckoutInv, Pay PROVE CheckoutInv'
<1> USE DEF CheckoutInv
<1>1. UNCHANGED <<now, tariff, holds, page, party, draft, quote, requotes, hold, script, visits, view, polls>>
  BY DEF Pay, server
<1>2. page = "pay" /\ doing = "idle" /\ quote # NoQuote /\ sent \in Nat
  BY DEF Pay, RequestsOk
<1>3. Clock' /\ HoldsOk'
  BY <1>1, SameHolds, KeptHolds DEF Clock
<1>4. CASE hold # 0
  <2>1. doing' = "ordering" /\ UNCHANGED <<requests, sent, overtaken>>
    BY <1>4 DEF Pay
  <2>2. PageTypes'
    BY <1>1, <1>2, <1>4, <2>1 DEF PageOk, PageTypes, Polling, Doing
  <2>3. PageOk'
    BY <1>1, <1>2, <2>1, <2>2 DEF PageOk, Busy, Quoted, OnPage, Asked, Awaiting, Held, OfQuote, Fits
  <2> QED BY <1>3, <2>1, <2>3 DEF RequestsOk, RequestOk
<1>5. CASE hold = 0
  <2> PICK new : new = [id |-> sent + 1, quote |-> quote, tariff |-> 0, stage |-> "sent"]
    OBVIOUS
  <2>1. /\ doing' = "holding" /\ sent' = sent + 1 /\ requests' = requests \cup {new}
        /\ overtaken' = FALSE
    BY <1>5 DEF Pay
  <2>2. Fits(quote) /\ quote.rooms = draft
    BY <1>2 DEF PageOk, Quoted, OnPage
  <2>3. RequestOk(new)'
    BY <1>1, <1>2, <2>1, <2>2 DEF RequestOk, Fits
  <2>4. \A r \in requests : RequestOk(r)' /\ r.id # sent'
    BY <1>2, <2>1 DEF RequestsOk, RequestOk, Fits
  <2>5. RequestsOk'
    BY <1>2, <2>1, <2>3, <2>4 DEF RequestsOk
  <2>6. PageTypes'
    BY <1>1, <2>1 DEF PageOk, PageTypes, Polling, Doing
  <2>7. Awaiting'
    BY <1>1, <1>5, <2>1, <2>2, <2>4 DEF Awaiting, OfQuote
  <2>8. Asked'
    <3>1. 1..sent \subseteq 1..sent'
      BY <1>2, <2>1
    <3> QED BY <1>1, <3>1 DEF PageOk, Asked, OnPage, Fits
  <2>9. Quoted' /\ Busy' /\ Held'
    BY <1>1, <1>2, <1>5, <2>1 DEF PageOk, Busy, Quoted, OnPage, Held, Fits
  <2> QED BY <1>1, <1>2, <1>3, <2>5, <2>6, <2>7, <2>8, <2>9 DEF PageOk
<1> QED BY <1>4, <1>5

LEMMA RefusalKeepsInv ==
  ASSUME CheckoutInv, NEW r \in requests, Refuse(r),
         UNCHANGED <<now, server, sent, page, party, draft, quote, overtaken, script, visits, view, polls>>,
         UNCHANGED requotes \/ AskAgain(r)
  PROVE  CheckoutInv'
<1> USE DEF CheckoutInv, server
<1>1. HoldsOk' /\ Clock'
  BY SameHolds, KeptHolds DEF Clock
<1>2. requests' \subseteq requests /\ hold' = hold
  BY DEF Refuse
<1>3. RequestsOk'
  BY <1>2 DEF RequestsOk, RequestOk, Fits
<1>4. doing' = doing \/ (doing' = "idle" /\ doing = "holding")
  BY DEF Refuse, Heard
<1>5. PageTypes'
  BY <1>2, <1>4 DEF PageOk, PageTypes, Polling, Doing
<1>6. Busy' /\ Quoted' /\ Awaiting' /\ Held'
  BY <1>2, <1>4 DEF PageOk, Busy, Quoted, OnPage, Awaiting, Held, OfQuote, Fits
<1>7. Asked'
  <2>1. CASE requotes' = requotes
    BY <2>1 DEF PageOk, Asked, OnPage, Fits
  <2>2. CASE Heard(r) /\ requotes' = requotes \cup {[id |-> r.id, quote |-> NoQuote]}
    <3>1. page = "pay" /\ quote # NoQuote /\ r.id \in 1..sent
      BY <2>2 DEF Heard, PageOk, Busy, RequestsOk, RequestOk
    <3>2. PICK n : n = [id |-> r.id, quote |-> NoQuote]
      OBVIOUS
    <3>3. n = [id |-> n.id, quote |-> n.quote] /\ n.id = r.id /\ n.quote = NoQuote
      BY <3>2
    <3> QED BY <2>2, <3>1, <3>2, <3>3 DEF PageOk, Asked, OnPage, Fits
  <2>3. requotes' = requotes \/ (Heard(r) /\ requotes' = requotes \cup {[id |-> r.id, quote |-> NoQuote]})
    BY Zenon DEF AskAgain
  <2> QED BY <2>1, <2>2, <2>3
<1> QED BY <1>1, <1>3, <1>5, <1>6, <1>7 DEF PageOk

(* An answer is a hold made from the quote of the request.                 *)
LEMMA AnswerKeepsPage ==
  ASSUME CheckoutInv, NEW r \in requests, NEW number \in 1..Len(holds'), AnswerHold(r, number),
         HoldsOk', holds'[number].quote = r.quote,
         Len(holds') >= Len(holds), \A i \in 1..Len(holds) : holds'[i].quote = holds[i].quote,
         UNCHANGED <<sent, page, party, draft, quote, late, script, visits, view, polls>>
  PROVE  PageOk'
<1> USE DEF CheckoutInv
<1>1. Len(holds) \in Nat /\ Len(holds') \in Nat
  BY DEF HoldsOk
<1>2. requests' \subseteq requests /\ UNCHANGED <<quote, requotes, overtaken>>
  BY DEF AnswerHold, late
<1>3. CASE Heard(r)
  <2>1. /\ doing' = "ordering" /\ hold' = number
        /\ doing = "holding" /\ page = "pay" /\ quote # NoQuote /\ OfQuote(r.quote)
    BY <1>3 DEF AnswerHold, Heard, PageOk, Busy, Awaiting
  <2>2. PageTypes'
    BY <1>1, <2>1 DEF PageOk, PageTypes, Polling, Doing
  <2> QED BY <1>2, <2>1, <2>2 DEF PageOk, Busy, Quoted, OnPage, Asked, Awaiting, Held, OfQuote, Fits
<1>4. CASE ~Heard(r)
  <2>1. UNCHANGED <<doing, hold>>
    BY <1>4 DEF AnswerHold
  <2>2. PageTypes'
    BY <1>1, <2>1 DEF PageOk, PageTypes, Polling
  <2>3. hold # 0 => hold \in 1..Len(holds)
    BY <1>1 DEF PageOk, PageTypes
  <2>4. Held'
    BY <1>2, <2>1, <2>3 DEF PageOk, Held, OfQuote
  <2> QED BY <1>2, <2>1, <2>2, <2>4 DEF PageOk, Busy, Quoted, OnPage, Asked, Awaiting, OfQuote, Fits
<1> QED BY <1>3, <1>4

LEMMA FewerRequests ==
  ASSUME CheckoutInv, requests' \subseteq requests, UNCHANGED sent PROVE RequestsOk'
BY DEF CheckoutInv, RequestsOk, RequestOk, Fits

LEMMA CheckHoldKeepsInv ==
  ASSUME CheckoutInv, NEW r \in requests, CheckHold(r) PROVE CheckoutInv'
<1> USE DEF CheckoutInv
<1>1. /\ UNCHANGED <<now, server, sent, page, party, draft, quote, overtaken, script, visits, view, polls>>
      /\ r.stage = "sent"
  BY DEF CheckHold
<1>2. UNCHANGED <<now, tariff, holds>>
  BY <1>1 DEF server
<1>3. HoldsOk' /\ Clock' /\ Len(holds) \in Nat
  BY <1>2, SameHolds, KeptHolds DEF Clock, HoldsOk
<1>4. CASE Refuse(r) /\ (UNCHANGED requotes \/ AskAgain(r))
  BY <1>1, <1>4, RefusalKeepsInv
<1>6. CASE UNCHANGED requotes /\ \E i \in Known(r.quote) : AnswerHold(r, i)
  <2>1. PICK i \in Known(r.quote) : AnswerHold(r, i)
    BY <1>6
  <2>2. i \in 1..Len(holds) /\ holds[i].quote = r.quote
    BY ListType DEF Known
  <2>3. PageOk'
    BY <1>1, <1>2, <1>3, <1>6, <2>1, <2>2, AnswerKeepsPage DEF late
  <2>4. RequestsOk'
    BY <1>1, <2>1, FewerRequests DEF AnswerHold
  <2> QED BY <1>3, <2>3, <2>4
<1>7. CASE /\ ~PriceChanged(r.quote)
           /\ requests' = (requests \ {r}) \cup {[r EXCEPT !.stage = "new", !.tariff = tariff]}
           /\ UNCHANGED <<hold, doing, requotes>>
  <2>1. PICK n : n = [r EXCEPT !.stage = "new", !.tariff = tariff]
    OBVIOUS
  <2>2. RequestOk(r)
    BY DEF RequestsOk
  <2>3. n = [id |-> r.id, quote |-> r.quote, tariff |-> tariff, stage |-> "new"]
    BY <2>1, <2>2 DEF RequestOk
  <2>4. r.quote.tariff = tariff
    BY <1>7 DEF PriceChanged
  <2>5. RequestOk(n)'
    BY <1>1, <2>2, <2>3, <2>4 DEF RequestOk, Fits
  <2>6. RequestsOk'
    BY <1>1, <1>7, <2>1, <2>5 DEF RequestsOk, RequestOk, Fits
  <2>7. PageTypes'
    BY <1>1, <1>2, <1>7 DEF PageOk, PageTypes, Polling
  <2>8. Awaiting'
    BY <1>1, <1>7, <2>1, <2>3 DEF PageOk, Awaiting, OfQuote
  <2> QED BY <1>1, <1>2, <1>3, <1>7, <2>6, <2>7, <2>8 DEF PageOk, Busy, Quoted, OnPage, Asked, Held, OfQuote, Fits
<1> QED BY <1>4, <1>6, <1>7 DEF CheckHold

LEMMA AppendTo ==
  ASSUME NEW n \in Nat, NEW f, f = [i \in 1..n |-> f[i]], NEW e
  PROVE  /\ Len(Append(f, e)) = n + 1
         /\ Append(f, e) = [i \in 1..(n + 1) |-> Append(f, e)[i]]
         /\ \A i \in 1..n : Append(f, e)[i] = f[i]
         /\ Append(f, e)[n + 1] = e
<1> DEFINE S == {f[i] : i \in 1..n} \cup {e}
<1>1. f \in Seq(S) /\ e \in S
  OBVIOUS
<1>2. Len(f) = n
  BY LenOf
<1> HIDE DEF S
<1>3. Append(f, e) \in Seq(S) /\ Len(Append(f, e)) = n + 1
  BY <1>1, <1>2
<1>4. (\A i \in 1..n : Append(f, e)[i] = f[i]) /\ Append(f, e)[n + 1] = e
  BY <1>1, <1>2
<1> QED BY <1>3, <1>4

LEMMA CreateHoldKeepsInv ==
  ASSUME CheckoutInv, NEW r \in requests, CreateHold(r) PROVE CheckoutInv'
<1> USE DEF CheckoutInv
<1>1. /\ UNCHANGED <<now, tariff, taken, sent, page, party, draft, quote, late, script, visits, view, polls>>
      /\ r.stage = "new"
  BY DEF CreateHold
<1>2. CASE Refuse(r) /\ UNCHANGED holds
  BY <1>1, <1>2, RefusalKeepsInv DEF server, late
<1>3. CASE (\E i \in Twin(r) : AnswerHold(r, i)) /\ UNCHANGED holds
  <2>1. PICK i \in Twin(r) : AnswerHold(r, i)
    BY <1>3
  <2>2. i \in 1..Len(holds) /\ holds[i].quote = r.quote /\ Len(holds) \in Nat
    BY ListType DEF Twin, Known
  <2>3. HoldsOk' /\ Clock'
    BY <1>1, <1>3, SameHolds, KeptHolds DEF Clock
  <2>4. PageOk'
    BY <1>1, <1>3, <2>1, <2>2, <2>3, AnswerKeepsPage
  <2>5. RequestsOk'
    BY <1>1, <2>1, FewerRequests DEF AnswerHold
  <2> QED BY <2>3, <2>4, <2>5
<1>4. CASE /\ Twin(r) = {}
           /\ holds' = Append([i \in DOMAIN holds |-> Swept(holds[i])], NewHold(r))
           /\ AnswerHold(r, Len(holds) + 1)
  <2> DEFINE n == Len(holds)
  <2>1. PICK swept : swept = [i \in DOMAIN holds |-> Swept(holds[i])]
    OBVIOUS
  <2>2. n \in Nat /\ DOMAIN holds = 1..n
    BY ListType
  <2>3. swept = [i \in 1..n |-> swept[i]] /\ \A i \in 1..n : Keeps(holds[i], swept[i])
    BY <2>1, <2>2, SweptKeeps DEF HoldsOk
  <2>4. PICK new : new = NewHold(r)
    OBVIOUS
  <2>5. /\ Len(holds') = n + 1 /\ holds' = [i \in 1..(n + 1) |-> holds'[i]]
        /\ \A i \in 1..n : Keeps(holds[i], holds'[i])
        /\ holds'[n + 1] = new
    <3>1. holds' = Append(swept, new)
      BY <1>4, <2>1, <2>4
    <3> HIDE DEF n
    <3> QED BY <3>1, <2>2, <2>3, AppendTo
  <2>6. RequestOk(r)
    BY DEF RequestsOk
  <2>7. /\ IsHold(new) /\ OfItsQuote(new) /\ new.quote = r.quote
    <3>1. r.tariff = r.quote.tariff /\ Fits(r.quote)
      BY <1>1, <2>6 DEF RequestOk
    <3> QED BY <3>1, <2>4 DEF IsHold, OfItsQuote, NewHold
  <2>8. \A i \in 1..n : holds[i].quote # r.quote
    BY <1>4, <2>2 DEF Twin, Known
  <2>9. HoldsOk'
    <3>1. \A i \in 1..n : IsHold(holds'[i]) /\ OfItsQuote(holds'[i])
      BY <2>5 DEF HoldsOk, Keeps, OfItsQuote
    <3>2. \A i \in 1..(n + 1) : i \in 1..n \/ i = n + 1
      BY <2>2
    <3>3. \A i \in 1..(n + 1) : IsHold(holds'[i]) /\ OfItsQuote(holds'[i])
      BY <3>1, <3>2, <2>5, <2>7
    <3>4. DOMAIN holds' = 1..(n + 1)
      BY <2>5
    <3>5. \A i \in 1..n : holds'[i].quote = holds[i].quote
      BY <2>5 DEF Keeps
    <3>6. OneHoldPerQuote'
      <4>1. ASSUME NEW i \in 1..(n + 1), NEW j \in 1..(n + 1), holds'[i].quote = holds'[j].quote
            PROVE  i = j
        BY <4>1, <3>2, <3>5, <2>2, <2>5, <2>7, <2>8 DEF HoldsOk, OneHoldPerQuote
      <4> QED BY <4>1, <3>4 DEF OneHoldPerQuote
    <3> QED BY <2>2, <2>5, <3>3, <3>6 DEF HoldsOk
  <2>10. PageOk'
    <3>1. \A i \in 1..Len(holds) : holds'[i].quote = holds[i].quote
      BY <2>5 DEF Keeps
    <3>2. Len(holds) + 1 \in 1..Len(holds') /\ Len(holds') >= Len(holds)
      BY <2>2, <2>5
    <3>3. holds'[Len(holds) + 1].quote = r.quote
      BY <2>5, <2>7
    <3> QED BY <1>1, <1>4, <2>9, <3>1, <3>2, <3>3, AnswerKeepsPage
  <2>11. RequestsOk'
    BY <1>1, <1>4, FewerRequests DEF AnswerHold
  <2> QED BY <1>1, <2>9, <2>10, <2>11 DEF Clock
<1> QED BY <1>2, <1>3, <1>4 DEF CreateHold

-----------------------------------------------------------------------------
(* The steps of a hold, and of the others.                                 *)

LEMMA HoldStep ==
  ASSUME CheckoutInv, HoldsKept, UNCHANGED <<tariff, requests, sent>>, Clock',
         PageTypes', UNCHANGED <<party, hold>>,
         \/ /\ UNCHANGED <<page, draft, quote, requotes, overtaken>>
            /\ doing' \in {doing, "idle", "loading", "modal", "verifying"}
            /\ (doing = "idle" => doing' = "idle")
         \/ page' = "confirm" /\ doing' = "idle" /\ requotes' = {}
  PROVE  CheckoutInv'
<1> USE DEF CheckoutInv
<1>1. HoldsOk'
  BY KeptHolds
<1>2. RequestsOk'
  BY FewerRequests
<1>3. hold # 0 => hold \in 1..Len(holds)
  BY DEF PageOk, PageTypes, HoldsOk
<1>4. hold # 0 => holds'[hold].quote = holds[hold].quote
  BY <1>3 DEF HoldsKept, Keeps
<1>5. Busy' /\ Quoted' /\ Asked' /\ Awaiting'
  BY DEF PageOk, Busy, Quoted, OnPage, Asked, Awaiting, OfQuote, Fits
<1>6. Held'
  BY <1>4 DEF PageOk, Held, OfQuote
<1> QED BY <1>1, <1>2, <1>5, <1>6 DEF PageOk

LEMMA OrderKeepsInv == ASSUME CheckoutInv, CreatePaymentOrder PROVE CheckoutInv'
<1> USE DEF CheckoutInv
<1>1. /\ UNCHANGED <<now, tariff, requests, sent, page, party, draft, quote, late, hold, script, visits, view, polls>>
      /\ doing = "ordering" /\ doing' \in {"ordering", "loading", "idle"}
  BY DEF CreatePaymentOrder
<1>2. hold \in 1..Len(holds) /\ IsHold(holds[hold])
  BY <1>1 DEF PageOk, PageTypes, HoldsOk
<1>3. HoldsKept
  <2>1. CASE UNCHANGED holds
    BY <2>1, SameHolds
  <2>2. CASE holds' = [holds EXCEPT ![hold] = NewOrder(holds[hold])]
    BY <2>2, <1>2, OrderKeeps, OneChanged
  <2> QED BY <2>1, <2>2 DEF CreatePaymentOrder
<1>4. PageTypes'
  BY <1>1, <1>3 DEF PageOk, PageTypes, Polling, Doing, HoldsKept, late
<1> QED BY <1>1, <1>3, <1>4, HoldStep DEF Clock, late

LEMMA AuthoriseKeepsInv == ASSUME CheckoutInv, Authorise PROVE CheckoutInv'
<1> USE DEF CheckoutInv
<1>1. /\ UNCHANGED <<now, tariff, requests, sent, page, party, draft, quote, late, hold, script, visits, view, polls>>
      /\ doing = "modal" /\ doing' \in {"verifying", "idle"}
      /\ holds' = [holds EXCEPT ![hold] = [holds[hold] EXCEPT !.payment = "authorised"]]
  BY DEF Authorise
<1>2. hold \in 1..Len(holds) /\ IsHold(holds[hold])
  BY <1>1 DEF PageOk, PageTypes, HoldsOk
<1>3. HoldsKept
  BY <1>1, <1>2, PaymentKeeps, OneChanged
<1>4. PageTypes'
  BY <1>1, <1>3 DEF PageOk, PageTypes, Polling, Doing, HoldsKept, late
<1> QED BY <1>1, <1>3, <1>4, HoldStep DEF Clock, late

LEMMA ServerKeepsInv ==
  ASSUME CheckoutInv,
         \/ \E i \in DOMAIN holds : Capture(i) \/ Webhook(i)
         \/ ExpireStaleHolds
  PROVE  CheckoutInv'
<1> USE DEF CheckoutInv, browser, late
<1>1. UNCHANGED <<now, tariff, requests, sent, page, party, draft, quote, late, hold, doing, script, visits, view, polls>>
  BY DEF Capture, Webhook, ExpireStaleHolds
<1>2. ASSUME NEW i \in DOMAIN holds, Capture(i) \/ Webhook(i) PROVE HoldsKept
  <2>1. i \in 1..Len(holds) /\ IsHold(holds[i])
    BY ListType DEF HoldsOk
  <2>2. CASE holds' = [holds EXCEPT ![i] = [holds[i] EXCEPT !.payment = "captured"]]
    BY <2>1, <2>2, PaymentKeeps, OneChanged
  <2>3. CASE holds' = [holds EXCEPT ![i] = Settled(holds[i])]
    BY <2>1, <2>3, SettledKeeps, OneChanged
  <2> QED BY <1>2, <2>2, <2>3 DEF Capture, Webhook
<1>3. HoldsKept
  BY <1>2, AllSwept DEF ExpireStaleHolds
<1>4. PageTypes'
  BY <1>1, <1>3 DEF PageOk, PageTypes, Polling, HoldsKept
<1> QED BY <1>1, <1>3, <1>4, HoldStep DEF Clock, late

LEMMA VerifyKeepsInv == ASSUME CheckoutInv, VerifyPayment PROVE CheckoutInv'
<1> USE DEF CheckoutInv
<1>1. /\ UNCHANGED <<now, tariff, requests, sent, party, hold, script, visits>>
      /\ doing = "verifying" /\ doing' = "idle"
      /\ holds' = IF Captured(PayingFor) THEN [holds EXCEPT ![hold] = Settled(holds[hold])] ELSE holds
  BY DEF VerifyPayment, Show, late
<1>2. \/ page' = "confirm" /\ view' = "loading" /\ polls' = 0 /\ requotes' = {} /\ overtaken' = FALSE
      \/ UNCHANGED <<page, draft, quote, requotes, overtaken, view, polls>>
  BY DEF VerifyPayment, Show, late
<1>3. hold \in 1..Len(holds) /\ IsHold(holds[hold])
  BY <1>1 DEF PageOk, PageTypes, HoldsOk
<1>4. HoldsKept
  BY <1>1, <1>3, SettledKeeps, OneChanged, SameHolds
<1>5. PageTypes'
  BY <1>1, <1>2, <1>4, Constants DEF PageOk, PageTypes, Polling, Doing, Page, View, HoldsKept
<1> QED BY <1>1, <1>2, <1>4, <1>5, HoldStep DEF Clock

LEMMA OthersKeepInv ==
  ASSUME CheckoutInv,
         \/ PublishTariff \/ Tick \/ UNCHANGED vars
         \/ \E group \in Contested : OthersTake(group) \/ OthersLeave(group)
  PROVE  CheckoutInv'
<1> USE DEF CheckoutInv, browser, server, late
<1>1. UNCHANGED <<holds, requests, sent, page, party, draft, quote, late, hold, doing, script, visits, view, polls>>
  BY DEF PublishTariff, Tick, OthersTake, OthersLeave, vars
<1>2. Clock'
  BY Constants DEF Clock, PublishTariff, Tick, OthersTake, OthersLeave, vars
<1>3. HoldsOk' /\ RequestsOk'
  BY <1>1, SameHolds, KeptHolds, FewerRequests
<1>4. PageOk'
  BY <1>1 DEF PageOk, PageTypes, Polling, Busy, Quoted, OnPage, Asked, Awaiting, Held, OfQuote, Fits
<1> QED BY <1>2, <1>3, <1>4

-----------------------------------------------------------------------------
LEMMA InitInv == Init => CheckoutInv
<1> SUFFICES ASSUME Init PROVE CheckoutInv
  OBVIOUS
<1>1. holds = <<>> /\ Len(holds) = 0
  BY DEF Init
<1>2. HoldsOk
  BY <1>1 DEF HoldsOk, OneHoldPerQuote
<1>3. RequestsOk /\ Clock
  BY Constants DEF Init, RequestsOk, Clock
<1>4. PageOk
  BY <1>1, Constants DEF Init, PageOk, PageTypes, Polling, Page, Doing, View, Script, Busy, Quoted, Asked, Awaiting, Held
<1> QED BY <1>2, <1>3, <1>4 DEF CheckoutInv

LEMMA NextInv == CheckoutInv /\ [Next]_vars => CheckoutInv'
<1> SUFFICES ASSUME CheckoutInv, [Next]_vars PROVE CheckoutInv'
  OBVIOUS
<1>1. CASE \/ ChooseArrangement
           \/ \E guests \in Parties : ChangeGuests(guests) \/ GoToOldAddress(guests)
           \/ ContinueToPay \/ Back \/ BookNow \/ Reload
  <2>1. UNCHANGED <<now, server, requests, sent>>
    BY <1>1 DEF ChooseArrangement, ChangeGuests, GoToOldAddress, ContinueToPay, Back, BookNow, Reload
  <2> QED BY <1>1, <2>1, MoveKeepsPage, PageMove
<1>2. CASE CreateQuote \/ GiveUp \/ LoadScript \/ Dismiss \/ PollCheckout
  <2>1. UNCHANGED <<now, server, requests, sent>>
    BY <1>2 DEF CreateQuote, GiveUp, LoadScript, Dismiss, PollCheckout
  <2> QED BY <1>2, <2>1, CreateQuoteKeepsPage, StayKeepsPage, PollKeepsPage, PageMove
<1>3. ASSUME NEW i \in DOMAIN holds, OpenConfirmation(i) PROVE CheckoutInv'
  BY <1>3, OpenKeepsPage, PageMove DEF OpenConfirmation
<1>7. ASSUME NEW q \in requotes, Requote(q) \/ AnswerQuote(q) PROVE CheckoutInv'
  BY <1>7, RequoteKeepsPage, AnswerQuoteKeepsPage, PageMove DEF Requote, AnswerQuote
<1>4. CASE \E r \in requests : CheckHold(r) \/ CreateHold(r)
  BY <1>4, CheckHoldKeepsInv, CreateHoldKeepsInv
<1>5. CASE \/ PublishTariff \/ Tick \/ UNCHANGED vars
           \/ \E group \in Contested : OthersTake(group) \/ OthersLeave(group)
  BY <1>5, OthersKeepInv
<1>6. CASE \/ \E i \in DOMAIN holds : Capture(i) \/ Webhook(i)
           \/ ExpireStaleHolds
  BY <1>6, ServerKeepsInv
<1> QED
  BY <1>1, <1>2, <1>3, <1>4, <1>5, <1>6, <1>7, PayKeepsInv, OrderKeepsInv, AuthoriseKeepsInv, VerifyKeepsInv
     DEF Next

(* Server and page agree, as far as the page can know.                     *)
THEOREM PageFollowsServer == Spec => []CheckoutInv
BY InitInv, NextInv, PTL DEF Spec

LEMMA RememberedStep == Remembered /\ [Next]_vars => Remembered'
<1> SUFFICES ASSUME Remembered, [Next]_vars PROVE overtaken' = overtaken \/ overtaken' \in BOOLEAN
  BY Zenon DEF Remembered
<1> USE DEF Mount, Show, late, browser
<1>1. ASSUME NEW guests \in Parties, ChangeGuests(guests) \/ GoToOldAddress(guests)
      PROVE  overtaken' \in BOOLEAN
  BY <1>1, Zenon DEF ChangeGuests, GoToOldAddress
<1>2. CASE ChooseArrangement \/ ContinueToPay \/ Back \/ BookNow \/ Reload
  BY <1>2, Zenon DEF ChooseArrangement, ContinueToPay, Back, BookNow, Reload
<1>3. CASE \/ CreateQuote \/ GiveUp \/ CreatePaymentOrder \/ LoadScript \/ Authorise
           \/ Dismiss \/ PollCheckout \/ PublishTariff \/ ExpireStaleHolds \/ Tick
           \/ UNCHANGED vars
  BY <1>3, Zenon DEF CreateQuote, GiveUp, CreatePaymentOrder, LoadScript, Authorise, Dismiss,
                     PollCheckout, PublishTariff, ExpireStaleHolds, Tick, vars
<1>4. CASE Pay
  BY <1>4, Zenon DEF Pay
<1>5. CASE VerifyPayment
  BY <1>5, Zenon DEF VerifyPayment
<1>6. ASSUME NEW r \in requests, CheckHold(r) \/ CreateHold(r) PROVE overtaken' = overtaken
  BY <1>6, Zenon DEF CheckHold, CreateHold
<1>7. ASSUME NEW q \in requotes, Requote(q) \/ AnswerQuote(q)
      PROVE  overtaken' = overtaken \/ overtaken' \in BOOLEAN
  BY <1>7, Zenon DEF Requote, AnswerQuote
<1>8. ASSUME NEW i \in DOMAIN holds, Capture(i) \/ Webhook(i) \/ OpenConfirmation(i)
      PROVE  overtaken' = overtaken \/ overtaken' \in BOOLEAN
  BY <1>8, Zenon DEF Capture, Webhook, OpenConfirmation
<1>9. ASSUME NEW g \in Contested, OthersTake(g) \/ OthersLeave(g) PROVE overtaken' = overtaken
  BY <1>9, Zenon DEF OthersTake, OthersLeave
<1> QED BY <1>1, <1>2, <1>3, <1>4, <1>5, <1>6, <1>7, <1>8, <1>9, Zenon DEF Next

LEMMA AlwaysRemembered == Spec => []Remembered
<1>1. Init => Remembered
  BY Zenon DEF Init, Remembered
<1> QED BY <1>1, RememberedStep, PTL DEF Spec

(* Every variable keeps its type; a page that polls has attempts left.     *)
THEOREM TypeCorrect == Spec => []TypeOK
BY PageFollowsServer, AlwaysRemembered, TypeFromInv, PTL

(* However requests are lost, repeated and answered late, one quote makes  *)
(* at most one booking.                                                    *)
THEOREM QuotesBookOnce == Spec => []OneHoldPerQuote
<1>1. CheckoutInv => OneHoldPerQuote
  BY DEF CheckoutInv, HoldsOk
<1> QED BY <1>1, PageFollowsServer, PTL

(* The guest is asked to pay for the rooms that the page shows, and by its *)
(* tariff unless a late answer has replaced the quote under way, whatever  *)
(* was published since.                                                    *)
THEOREM PageShowsCharge == Spec => []ShownIsCharged
<1>1. CheckoutInv => ShownIsCharged
  <2> SUFFICES ASSUME CheckoutInv, Charging
               PROVE  /\ PayingFor.rooms = quote.rooms /\ quote.rooms = draft
                      /\ PayingFor.tariff = quote.tariff \/ overtaken
    BY DEF ShownIsCharged
  <2> USE DEF CheckoutInv, PageOk
  <2>1. page = "pay" /\ quote # NoQuote /\ hold \in 1..Len(holds)
    BY DEF Charging, Busy, PageTypes, HoldsOk
  <2>2. OfQuote(holds[hold].quote) /\ quote.rooms = draft
    BY <2>1 DEF Held, Quoted, OnPage, HoldsOk
  <2>3. OfItsQuote(holds[hold])
    BY <2>1 DEF HoldsOk
  <2> QED BY <2>2, <2>3 DEF OfItsQuote, OfQuote, PayingFor
<1> QED BY <1>1, PageFollowsServer, PTL

(* The rooms of every booking take the guests it was quoted for.           *)
THEOREM BookingsSeatGuests == Spec => []HoldsSeat
<1>1. CheckoutInv => HoldsSeat
  BY ListType DEF CheckoutInv, HoldsOk, OfItsQuote, Fits, SeatsParty, HoldsSeat
<1> QED BY <1>1, PageFollowsServer, PTL

-----------------------------------------------------------------------------
(* The stock of rooms.  Every list of rooms that is passed on is finite,   *)
(* so that what it needs can be counted.                                   *)
Listed(list) == \E n \in Nat : DOMAIN list = 1..n
Stock ==
  /\ taken \in [Group -> Nat]
  /\ Listed(draft) /\ Listed(quote.rooms)
  /\ \A r \in requests : Listed(r.quote.rooms)
  /\ \A i \in 1..Len(holds) : Listed(holds[i].rooms) /\ holds[i].expires \in Nat
StockInv == CheckoutInv /\ Stock /\ RoomsSuffice

(* What a hold uses of a group, and what all of them do.                   *)
Load(h, g) == IF Live(h) THEN Needs(h.rooms, g) ELSE 0
Loads(g) == [i \in DOMAIN holds |-> Load(holds[i], g)]
Reserved(g) == SumFunctionOnSet(Loads(g), 1..Len(holds))

LEMMA NeedsType == ASSUME NEW list, Listed(list), NEW g PROVE Needs(list, g) \in Nat
<1>1. PICK n \in Nat : DOMAIN list = 1..n
  BY DEF Listed
<1>2. IsFiniteSet(1..n)
  BY FS_Interval
<1>3. {i \in DOMAIN list : list[i].group = g} \subseteq 1..n
  BY <1>1
<1>4. IsFiniteSet({i \in DOMAIN list : list[i].group = g})
  BY <1>2, <1>3, FS_Subset
<1> QED BY <1>4, FS_CardinalityType DEF Needs

LEMMA InUseIs == ASSUME HoldsOk, NEW g \in Group PROVE InUse(g) = taken[g] + Reserved(g)
<1>1. DOMAIN Loads(g) = 1..Len(holds)
  BY ListType DEF Loads
<1>2. Loads(g) = [i \in DOMAIN holds |-> IF Live(holds[i]) THEN Needs(holds[i].rooms, g) ELSE 0]
  BY DEF Loads, Load
<1> QED BY <1>1, <1>2 DEF InUse, Reserved, SumFunction

LEMMA ReservedType ==
  ASSUME HoldsOk, Stock, NEW g \in Group
  PROVE  /\ \A i \in 1..Len(holds) : Loads(g)[i] \in Nat
         /\ Reserved(g) \in Nat
<1>1. DOMAIN holds = 1..Len(holds) /\ Len(holds) \in Nat
  BY ListType
<1>2. ASSUME NEW i \in 1..Len(holds) PROVE Loads(g)[i] \in Nat
  BY <1>1, NeedsType DEF Loads, Load, Stock
<1>3. IsFiniteSet(1..Len(holds))
  BY <1>1, FS_Interval
<1>4. Reserved(g) \in Nat
  BY <1>2, <1>3, SumNatural DEF Reserved
<1> QED BY <1>2, <1>4

LEMMA AvailableType ==
  ASSUME HoldsOk, Stock
  PROVE  /\ Available \in [Group -> Int]
         /\ \A g \in Group : Available[g] = Total[g] - (taken[g] + Reserved(g))
<1>1. Total \in [Group -> Nat]
  BY CheckoutAssumption DEF CheckoutAssumption
<1>2. ASSUME NEW g \in Group
      PROVE  Total[g] - InUse(g) \in Int /\ InUse(g) = taken[g] + Reserved(g)
  <2>1. taken[g] \in Nat /\ Reserved(g) \in Nat /\ Total[g] \in Nat
    BY <1>1, ReservedType DEF Stock
  <2>2. InUse(g) = taken[g] + Reserved(g)
    BY InUseIs
  <2> QED BY <2>1, <2>2
<1> QED BY <1>2 DEF Available

-----------------------------------------------------------------------------
(* A hold that is not live stays so: a payment settles only one that is.   *)
Lasts(h, k) ==
  /\ k.rooms = h.rooms /\ k.expires = h.expires
  /\ k.status = h.status \/ k.status = "EXPIRED" \/ (k.status = "CONFIRMED" /\ Live(h))
HoldsLast == \A i \in 1..Len(holds) : Lasts(holds[i], holds'[i])

LEMMA HoldLasts ==
  ASSUME NEW h, IsHold(h)
  PROVE  /\ Lasts(h, h) /\ Lasts(h, Swept(h)) /\ Lasts(h, Settled(h)) /\ Lasts(h, NewOrder(h))
         /\ \A p \in {"none", "authorised", "captured"} : Lasts(h, [h EXCEPT !.payment = p])
<1>1. Lasts(h, h)
  BY DEF Lasts
<1>2. \A s, o : /\ [h EXCEPT !.status = s, !.order = o].rooms = h.rooms
               /\ [h EXCEPT !.status = s, !.order = o].expires = h.expires
               /\ [h EXCEPT !.status = s, !.order = o].status = s
  BY DEF IsHold
<1> DEFINE Ends(k, s) == k.rooms = h.rooms /\ k.expires = h.expires /\ k.status = s
<1>3. \A s, o : Ends([h EXCEPT !.status = s, !.order = o], s)
  BY <1>2
<1>4. \A k, s : Ends(k, s) /\ (s = "EXPIRED" \/ (s = "CONFIRMED" /\ Live(h))) => Lasts(h, k)
  BY DEF Lasts
<1>5. \A o : /\ [h EXCEPT !.order = o].rooms = h.rooms
            /\ [h EXCEPT !.order = o].expires = h.expires
            /\ [h EXCEPT !.order = o].status = h.status
  BY DEF IsHold
<1>6. \A p : /\ [h EXCEPT !.payment = p].rooms = h.rooms
            /\ [h EXCEPT !.payment = p].expires = h.expires
            /\ [h EXCEPT !.payment = p].status = h.status
  BY DEF IsHold
<1>7. Lasts(h, Swept(h))
  <2> DEFINE o == IF h.order = "PENDING" THEN "EXPIRED" ELSE h.order
  <2>1. Swept(h) = [h EXCEPT !.status = "EXPIRED", !.order = o] \/ Swept(h) = h
    BY DEF Swept
  <2> HIDE DEF o, Ends
  <2>2. Ends([h EXCEPT !.status = "EXPIRED", !.order = o], "EXPIRED")
    BY <1>3
  <2> QED BY <2>1, <2>2, <1>1, <1>4
<1>8. Lasts(h, Settled(h))
  <2>1. \/ Settled(h) = h
        \/ Settled(h) = [h EXCEPT !.status = "CONFIRMED", !.order = "PAID"] /\ Live(h)
        \/ Settled(h) = [h EXCEPT !.status = "EXPIRED", !.order = "PAID_UNALLOCATED"]
    BY DEF Settled, Live
  <2> HIDE DEF Ends
  <2>2. /\ Ends([h EXCEPT !.status = "CONFIRMED", !.order = "PAID"], "CONFIRMED")
        /\ Ends([h EXCEPT !.status = "EXPIRED", !.order = "PAID_UNALLOCATED"], "EXPIRED")
    BY <1>3
  <2> QED BY <2>1, <2>2, <1>1, <1>4
<1>9. Lasts(h, NewOrder(h))
  BY <1>5 DEF Lasts, NewOrder
<1>10. \A p : Lasts(h, [h EXCEPT !.payment = p])
  BY <1>6 DEF Lasts
<1> QED BY <1>1, <1>7, <1>8, <1>9, <1>10

LEMMA OneLasts ==
  ASSUME HoldsOk, NEW i \in 1..Len(holds), NEW k, Lasts(holds[i], k),
         holds' = [holds EXCEPT ![i] = k]
  PROVE  HoldsLast
<1>1. holds = [j \in 1..Len(holds) |-> holds[j]]
  BY DEF HoldsOk
<1>2. \A j \in 1..Len(holds) : holds'[j] = IF j = i THEN k ELSE holds[j]
  BY <1>1
<1> QED BY <1>2, HoldLasts DEF HoldsOk, HoldsLast

(* Time passes, holds lapse and are settled: no more rooms are in use.     *)
LEMMA LoadShrinks ==
  ASSUME HoldsOk, Stock, Clock, now' \in Nat, now <= now', NEW i \in 1..Len(holds),
         i \in DOMAIN holds', Lasts(holds[i], holds'[i]), NEW g \in Group
  PROVE  /\ Loads(g)[i] \in Nat /\ Loads(g)'[i] \in Nat
         /\ Loads(g)'[i] <= Loads(g)[i]
<1>1. i \in DOMAIN holds
  BY ListType
<1>2. /\ Loads(g)[i] = IF Live(holds[i]) THEN Needs(holds[i].rooms, g) ELSE 0
      /\ Loads(g)'[i] = IF Live(holds[i])' THEN Needs(holds'[i].rooms, g) ELSE 0
  BY <1>1 DEF Loads, Load
<1>3. Needs(holds[i].rooms, g) \in Nat /\ Needs(holds'[i].rooms, g) = Needs(holds[i].rooms, g)
  BY NeedsType DEF Stock, Lasts
<1>4. Live(holds[i])' => Live(holds[i])
  <2>1. holds[i].expires \in Nat /\ now \in Nat
    BY Constants DEF Stock, Clock
  <2> QED BY <2>1 DEF Live, Lasts
<1> QED BY <1>2, <1>3, <1>4

LEMMA ReservedShrinks ==
  ASSUME HoldsOk, Stock, Clock, now' \in Nat, now <= now', HoldsKept, HoldsLast, NEW g \in Group
  PROVE  Reserved(g)' <= Reserved(g)
<1>1. /\ Len(holds') = Len(holds) /\ DOMAIN holds' = 1..Len(holds) /\ Len(holds) \in Nat
  BY ListType DEF HoldsKept
<1>2. \A i \in 1..Len(holds) : /\ Loads(g)'[i] \in Int /\ Loads(g)[i] \in Int
                               /\ Loads(g)'[i] <= Loads(g)[i]
  BY <1>1, LoadShrinks DEF HoldsLast
<1>3. IsFiniteSet(1..Len(holds))
  BY <1>1, FS_Interval
<1> DEFINE before == Loads(g)
           after == Loads(g)'
           D == 1..Len(holds)
<1>4. Reserved(g) = SumFunctionOnSet(before, D) /\ Reserved(g)' = SumFunctionOnSet(after, D)
  BY <1>1 DEF Reserved
<1>5. IsFiniteSet(D) /\ \A i \in D : after[i] \in Int /\ before[i] \in Int /\ after[i] <= before[i]
  BY <1>2, <1>3
<1> HIDE DEF before, after, D
<1>6. SumFunctionOnSet(after, D) <= SumFunctionOnSet(before, D)
  BY <1>5, SumLess
<1> QED BY <1>4, <1>6

-----------------------------------------------------------------------------
(* Lists of rooms come from an arrangement, or from a list that there was. *)
LEMMA NoRooms == Listed(<<>>) /\ Listed(NoQuote.rooms)
<1>1. DOMAIN <<>> = 1..0
  OBVIOUS
<1>2. NoQuote.rooms = <<>>
  BY DEF NoQuote
<1> QED BY <1>1, <1>2 DEF Listed

LEMMA ChosenIsListed ==
  ASSUME CheckoutInv, Stock, ChooseArrangement PROVE Listed(draft')
<1>1. PICK a \in Offers(party, Available) :
        \E ac \in [DOMAIN RoomsOf(party, a) -> AcModes] : draft' = Furnish(RoomsOf(party, a), ac)
  BY DEF ChooseArrangement
<1>2. party \in Party
  BY CheckoutAssumption DEF CheckoutAssumption, CheckoutInv, PageOk, PageTypes
<1>3. Available \in [Group -> Int]
  BY AvailableType DEF CheckoutInv
<1>4. a \in Candidates(party, Available)
  BY <1>1, <1>2, <1>3, SomethingIsOffered
<1>5. \E n \in Nat : DOMAIN RoomsOf(party, a) = 1..n
  BY <1>2, <1>3, <1>4, CandidatesFit
<1>6. DOMAIN draft' = DOMAIN RoomsOf(party, a)
  BY <1>1 DEF Furnish
<1> QED BY <1>5, <1>6 DEF Listed

LEMMA DraftStep == ASSUME CheckoutInv, Stock, [Next]_vars PROVE Listed(draft')
<1>1. Listed(draft)
  BY DEF Stock
<1>2. CASE ChooseArrangement
  BY <1>2, ChosenIsListed
<1>3. CASE UNCHANGED draft
  BY <1>1, <1>3
<1>4. CASE draft' = <<>>
  BY <1>4, NoRooms
<1>5. ASSUME NEW guests \in Parties, ChangeGuests(guests) \/ GoToOldAddress(guests)
      PROVE  draft' \in {draft, <<>>}
  BY <1>5 DEF ChangeGuests, GoToOldAddress
<1>6. ASSUME \/ CreateQuote \/ ContinueToPay \/ Back \/ Pay \/ GiveUp
             \/ CreatePaymentOrder \/ Authorise \/ Dismiss \/ VerifyPayment \/ PollCheckout
             \/ BookNow \/ PublishTariff \/ ExpireStaleHolds \/ Tick \/ UNCHANGED vars
             \/ Reload \/ LoadScript
      PROVE  draft' \in {draft, <<>>}
  BY <1>6 DEF CreateQuote, ContinueToPay, Back, Pay, GiveUp, CreatePaymentOrder, Authorise,
              Dismiss, VerifyPayment, PollCheckout, BookNow, PublishTariff, ExpireStaleHolds,
              Tick, vars, browser, Reload, LoadScript
<1>7. ASSUME NEW r \in requests, CheckHold(r) \/ CreateHold(r) PROVE draft' = draft
  BY <1>7 DEF CheckHold, CreateHold
<1>8. ASSUME NEW i \in DOMAIN holds, Capture(i) \/ Webhook(i) \/ OpenConfirmation(i)
      PROVE  draft' = draft
  BY <1>8 DEF Capture, Webhook, OpenConfirmation, browser
<1>9. ASSUME NEW g \in Contested, OthersTake(g) \/ OthersLeave(g) PROVE draft' = draft
  BY <1>9 DEF OthersTake, OthersLeave, browser
<1>10. ASSUME NEW q \in requotes, Requote(q) \/ AnswerQuote(q) PROVE draft' = draft
  BY <1>10 DEF Requote, AnswerQuote
<1> QED BY <1>2, <1>3, <1>4, <1>5, <1>6, <1>7, <1>8, <1>9, <1>10 DEF Next

(* A quote is of the draft; a request carries a quote of the page.         *)
LEMMA QuoteStep ==
  ASSUME [Next]_vars
  PROVE  \/ quote' \in {quote, NoQuote, Priced}
         \/ \E q \in requotes : q.quote # NoQuote /\ quote' = q.quote
<1>1. ASSUME NEW guests \in Parties, ChangeGuests(guests) \/ GoToOldAddress(guests)
      PROVE  quote' = NoQuote
  BY <1>1 DEF ChangeGuests, GoToOldAddress, Mount
<1>2. ASSUME ChooseArrangement \/ ContinueToPay \/ Back \/ BookNow \/ Reload PROVE quote' = NoQuote
  BY <1>2 DEF ChooseArrangement, ContinueToPay, Back, BookNow, Reload, Mount
<1>3. ASSUME \/ CreateQuote \/ Pay \/ GiveUp
             \/ CreatePaymentOrder \/ Authorise \/ Dismiss \/ VerifyPayment \/ PollCheckout
             \/ PublishTariff \/ ExpireStaleHolds \/ Tick \/ UNCHANGED vars \/ LoadScript
      PROVE  quote' \in {quote, NoQuote, Priced}
  BY <1>3 DEF CreateQuote, Pay, GiveUp, CreatePaymentOrder, Authorise, Dismiss, VerifyPayment,
              PollCheckout, PublishTariff, ExpireStaleHolds, Tick, vars, browser, LoadScript, Show
<1>4. ASSUME NEW r \in requests, CheckHold(r) PROVE quote' = quote
  BY <1>4 DEF CheckHold
<1>5. ASSUME NEW r \in requests, CreateHold(r) PROVE quote' = quote
  BY <1>5 DEF CreateHold
<1>6. ASSUME NEW i \in DOMAIN holds, Capture(i) \/ Webhook(i) \/ OpenConfirmation(i)
      PROVE  quote' \in {quote, NoQuote}
  BY <1>6 DEF Capture, Webhook, OpenConfirmation, Show, browser
<1>7. ASSUME NEW g \in Contested, OthersTake(g) \/ OthersLeave(g) PROVE quote' = quote
  BY <1>7 DEF OthersTake, OthersLeave, browser
<1>8. ASSUME NEW q \in requotes, Requote(q) \/ AnswerQuote(q)
      PROVE  quote' = quote \/ (q.quote # NoQuote /\ quote' = q.quote)
  BY <1>8 DEF Requote, AnswerQuote
<1> QED BY <1>1, <1>2, <1>3, <1>4, <1>5, <1>6, <1>7, <1>8 DEF Next

LEMMA RequestsStep ==
  ASSUME CheckoutInv, [Next]_vars
  PROVE  \A s \in requests' : s.quote = quote \/ \E r \in requests : s.quote = r.quote
<1>1. CASE UNCHANGED requests
  BY <1>1
<1>2. CASE Pay
  <2>1. PICK s : s = [id |-> sent + 1, quote |-> quote, tariff |-> 0, stage |-> "sent"]
    OBVIOUS
  <2>2. requests' \subseteq requests \cup {s}
    BY <1>2, <2>1 DEF Pay
  <2> QED BY <2>1, <2>2
<1>3. ASSUME NEW r \in requests, CheckHold(r)
      PROVE  \A s \in requests' : \E t \in requests : s.quote = t.quote
  <2>1. PICK s : s = [r EXCEPT !.stage = "new", !.tariff = tariff]
    OBVIOUS
  <2>2. s.quote = r.quote
    BY <2>1 DEF CheckoutInv, RequestsOk, RequestOk
  <2>3. requests' \subseteq requests \cup {s}
    BY <1>3, <2>1 DEF CheckHold, Refuse, AnswerHold
  <2> QED BY <2>2, <2>3
<1>4. ASSUME NEW r \in requests, CreateHold(r) PROVE requests' \subseteq requests
  BY <1>4 DEF CreateHold, Refuse, AnswerHold
<1>5. ASSUME NEW guests \in Parties, ChangeGuests(guests) \/ GoToOldAddress(guests)
      PROVE  requests' = requests
  BY <1>5 DEF ChangeGuests, GoToOldAddress
<1>6. ASSUME \/ ChooseArrangement \/ CreateQuote \/ ContinueToPay \/ Back \/ GiveUp
             \/ CreatePaymentOrder \/ Authorise \/ Dismiss \/ VerifyPayment \/ PollCheckout
             \/ BookNow \/ PublishTariff \/ ExpireStaleHolds \/ Tick \/ UNCHANGED vars
             \/ Reload \/ LoadScript
      PROVE  requests' = requests
  BY <1>6 DEF ChooseArrangement, CreateQuote, ContinueToPay, Back, GiveUp, CreatePaymentOrder,
              Authorise, Dismiss, VerifyPayment, PollCheckout, BookNow, PublishTariff,
              ExpireStaleHolds, Tick, vars, Reload, LoadScript
<1>7. ASSUME NEW i \in DOMAIN holds, Capture(i) \/ Webhook(i) \/ OpenConfirmation(i)
      PROVE  requests' = requests
  BY <1>7 DEF Capture, Webhook, OpenConfirmation
<1>8. ASSUME NEW g \in Contested, OthersTake(g) \/ OthersLeave(g) PROVE requests' = requests
  BY <1>8 DEF OthersTake, OthersLeave
<1>9. ASSUME NEW q \in requotes, Requote(q) \/ AnswerQuote(q) PROVE requests' = requests
  BY <1>9 DEF Requote, AnswerQuote
<1> QED BY <1>1, <1>2, <1>3, <1>4, <1>5, <1>6, <1>7, <1>8, <1>9 DEF Next

LEMMA ListsStep ==
  ASSUME CheckoutInv, Stock, [Next]_vars
  PROVE  /\ Listed(draft') /\ Listed(quote'.rooms)
         /\ \A s \in requests' : Listed(s.quote.rooms)
<1>1. Listed(draft) /\ Listed(quote.rooms) /\ \A r \in requests : Listed(r.quote.rooms)
  BY DEF Stock
<1>2. Listed(quote'.rooms)
  <2>1. Priced.rooms = draft
    BY DEF Priced
  <2>2. \A q \in requotes : q.quote # NoQuote => q.quote.rooms = draft
    BY DEF CheckoutInv, PageOk, Asked, OnPage
  <2> QED BY <1>1, <2>1, <2>2, NoRooms, QuoteStep
<1>3. \A s \in requests' : Listed(s.quote.rooms)
  BY <1>1, RequestsStep
<1> QED BY <1>2, <1>3, DraftStep

-----------------------------------------------------------------------------
(* What may become of the holds: they last, or there is one more.          *)
NewlyHeld(r) ==
  /\ Enough(r.quote.rooms)
  /\ holds' = Append([i \in DOMAIN holds |-> Swept(holds[i])], NewHold(r))
  /\ UNCHANGED <<now, taken>>

LEMMA SameLast == ASSUME HoldsOk, UNCHANGED holds PROVE HoldsKept /\ HoldsLast
BY SameHolds, HoldLasts DEF HoldsOk, HoldsLast

LEMMA SweptLast ==
  ASSUME HoldsOk, holds' = [i \in DOMAIN holds |-> Swept(holds[i])]
  PROVE  HoldsKept /\ HoldsLast
<1>1. \A i \in 1..Len(holds) : holds'[i] = Swept(holds[i])
  BY ListType
<1> QED BY <1>1, AllSwept, HoldLasts DEF HoldsOk, HoldsLast

LEMMA ChangedLast ==
  ASSUME HoldsOk, NEW i \in 1..Len(holds),
         \/ holds' = [holds EXCEPT ![i] = NewOrder(holds[i])]
         \/ holds' = [holds EXCEPT ![i] = Settled(holds[i])]
         \/ \E p \in {"none", "authorised", "captured"} :
              holds' = [holds EXCEPT ![i] = [holds[i] EXCEPT !.payment = p]]
  PROVE  HoldsKept /\ HoldsLast
<1>1. IsHold(holds[i])
  BY DEF HoldsOk
<1>2. CASE holds' = [holds EXCEPT ![i] = NewOrder(holds[i])]
  BY <1>1, <1>2, OrderKeeps, OneChanged, HoldLasts, OneLasts
<1>3. CASE holds' = [holds EXCEPT ![i] = Settled(holds[i])]
  BY <1>1, <1>3, SettledKeeps, OneChanged, HoldLasts, OneLasts
<1>4. ASSUME NEW p \in {"none", "authorised", "captured"},
             holds' = [holds EXCEPT ![i] = [holds[i] EXCEPT !.payment = p]]
      PROVE  HoldsKept /\ HoldsLast
  BY <1>1, <1>4, PaymentKeeps, OneChanged, HoldLasts, OneLasts
<1> QED BY <1>2, <1>3, <1>4

LEMMA HoldsStep ==
  ASSUME CheckoutInv, [Next]_vars
  PROVE  \/ HoldsKept /\ HoldsLast
         \/ \E r \in requests : NewlyHeld(r)
<1> USE DEF CheckoutInv
<1>1. CASE UNCHANGED holds
  BY <1>1, SameLast
<1>2. doing \in {"ordering", "loading", "modal", "verifying"} => hold \in 1..Len(holds)
  BY DEF PageOk, PageTypes, HoldsOk
<1>3. ASSUME NEW r \in requests, CreateHold(r) PROVE UNCHANGED holds \/ NewlyHeld(r)
  BY <1>3 DEF CreateHold, NewlyHeld
<1>4. CASE CreatePaymentOrder
  <2>1. UNCHANGED holds \/ holds' = [holds EXCEPT ![hold] = NewOrder(holds[hold])]
    BY <1>4 DEF CreatePaymentOrder
  <2>2. hold \in 1..Len(holds)
    BY <1>2, <1>4 DEF CreatePaymentOrder
  <2> QED BY <2>1, <2>2, <1>1, ChangedLast
<1>5. CASE Authorise
  <2>1. holds' = [holds EXCEPT ![hold] = [holds[hold] EXCEPT !.payment = "authorised"]]
    BY <1>5 DEF Authorise
  <2>2. hold \in 1..Len(holds)
    BY <1>2, <1>5 DEF Authorise
  <2> QED BY <2>1, <2>2, ChangedLast
<1>6. CASE VerifyPayment
  <2>1. UNCHANGED holds \/ holds' = [holds EXCEPT ![hold] = Settled(holds[hold])]
    BY <1>6 DEF VerifyPayment
  <2>2. hold \in 1..Len(holds)
    BY <1>2, <1>6 DEF VerifyPayment
  <2> QED BY <2>1, <2>2, <1>1, ChangedLast
<1>7. ASSUME NEW i \in DOMAIN holds, Capture(i) \/ Webhook(i) PROVE HoldsKept /\ HoldsLast
  <2>1. i \in 1..Len(holds)
    BY ListType
  <2>2. \/ holds' = [holds EXCEPT ![i] = [holds[i] EXCEPT !.payment = "captured"]]
        \/ holds' = [holds EXCEPT ![i] = Settled(holds[i])]
    BY <1>7 DEF Capture, Webhook
  <2> QED BY <2>1, <2>2, ChangedLast
<1>8. CASE ExpireStaleHolds
  BY <1>8, SweptLast DEF ExpireStaleHolds
<1>9. ASSUME NEW i \in DOMAIN holds, OpenConfirmation(i) PROVE UNCHANGED holds
  BY <1>9 DEF OpenConfirmation, server
<1>10. ASSUME NEW guests \in Parties, ChangeGuests(guests) \/ GoToOldAddress(guests)
       PROVE  UNCHANGED holds
  BY <1>10 DEF ChangeGuests, GoToOldAddress, server
<1>11. ASSUME \/ ChooseArrangement \/ CreateQuote \/ ContinueToPay \/ Back \/ Pay \/ GiveUp
              \/ Dismiss \/ PollCheckout \/ BookNow \/ PublishTariff \/ Tick \/ UNCHANGED vars
              \/ Reload \/ LoadScript
       PROVE  UNCHANGED holds
  BY <1>11 DEF ChooseArrangement, CreateQuote, ContinueToPay, Back, Pay, GiveUp, Dismiss,
               PollCheckout, BookNow, PublishTariff, Tick, vars, server, Reload, LoadScript
<1>12. ASSUME NEW r \in requests, CheckHold(r) PROVE UNCHANGED holds
  BY <1>12 DEF CheckHold, server
<1>13. ASSUME NEW g \in Contested, OthersTake(g) \/ OthersLeave(g) PROVE UNCHANGED holds
  BY <1>13 DEF OthersTake, OthersLeave
<1>14. ASSUME NEW q \in requotes, Requote(q) \/ AnswerQuote(q) PROVE UNCHANGED holds
  BY <1>14 DEF Requote, AnswerQuote, server
<1> QED
  BY <1>1, <1>3, <1>4, <1>5, <1>6, <1>7, <1>8, <1>9, <1>10, <1>11, <1>12, <1>13, <1>14 DEF Next

LEMMA OthersStep ==
  ASSUME [Next]_vars
  PROVE  \/ UNCHANGED taken
         \/ \E g \in Contested : OthersTake(g) \/ OthersLeave(g)
<1>1. ASSUME NEW guests \in Parties, ChangeGuests(guests) \/ GoToOldAddress(guests)
      PROVE  UNCHANGED taken
  BY <1>1 DEF ChangeGuests, GoToOldAddress, server
<1>2. ASSUME \/ ChooseArrangement \/ CreateQuote \/ ContinueToPay \/ Back \/ Pay \/ GiveUp
             \/ CreatePaymentOrder \/ Authorise \/ Dismiss \/ VerifyPayment \/ PollCheckout
             \/ BookNow \/ PublishTariff \/ ExpireStaleHolds \/ Tick \/ UNCHANGED vars
             \/ Reload \/ LoadScript
      PROVE  UNCHANGED taken
  BY <1>2 DEF ChooseArrangement, CreateQuote, ContinueToPay, Back, Pay, GiveUp,
              CreatePaymentOrder, Authorise, Dismiss, VerifyPayment, PollCheckout, BookNow,
              PublishTariff, ExpireStaleHolds, Tick, vars, server, Reload, LoadScript
<1>3. ASSUME NEW r \in requests, CheckHold(r) \/ CreateHold(r) PROVE UNCHANGED taken
  BY <1>3 DEF CheckHold, CreateHold, server
<1>4. ASSUME NEW i \in DOMAIN holds, Capture(i) \/ Webhook(i) \/ OpenConfirmation(i)
      PROVE  UNCHANGED taken
  BY <1>4 DEF Capture, Webhook, OpenConfirmation, server
<1>5. ASSUME NEW q \in requotes, Requote(q) \/ AnswerQuote(q) PROVE UNCHANGED taken
  BY <1>5 DEF Requote, AnswerQuote, server
<1> QED BY <1>1, <1>2, <1>3, <1>4, <1>5 DEF Next

LEMMA TimeStep == ASSUME [Next]_vars PROVE now' \in {now, now + 1}
<1>1. ASSUME NEW guests \in Parties, ChangeGuests(guests) \/ GoToOldAddress(guests)
      PROVE  UNCHANGED now
  BY <1>1 DEF ChangeGuests, GoToOldAddress
<1>2. ASSUME \/ ChooseArrangement \/ CreateQuote \/ ContinueToPay \/ Back \/ Pay \/ GiveUp
             \/ CreatePaymentOrder \/ Authorise \/ Dismiss \/ VerifyPayment \/ PollCheckout
             \/ BookNow \/ PublishTariff \/ ExpireStaleHolds \/ UNCHANGED vars
             \/ Reload \/ LoadScript
      PROVE  UNCHANGED now
  BY <1>2 DEF ChooseArrangement, CreateQuote, ContinueToPay, Back, Pay, GiveUp,
              CreatePaymentOrder, Authorise, Dismiss, VerifyPayment, PollCheckout, BookNow,
              PublishTariff, ExpireStaleHolds, vars, Reload, LoadScript
<1>3. ASSUME NEW r \in requests, CheckHold(r) \/ CreateHold(r) PROVE UNCHANGED now
  BY <1>3 DEF CheckHold, CreateHold
<1>4. ASSUME NEW i \in DOMAIN holds, Capture(i) \/ Webhook(i) \/ OpenConfirmation(i)
      PROVE  UNCHANGED now
  BY <1>4 DEF Capture, Webhook, OpenConfirmation
<1>5. ASSUME NEW g \in Contested, OthersTake(g) \/ OthersLeave(g) PROVE UNCHANGED now
  BY <1>5 DEF OthersTake, OthersLeave
<1>6. Tick => now' = now + 1
  BY DEF Tick
<1>7. ASSUME NEW q \in requotes, Requote(q) \/ AnswerQuote(q) PROVE UNCHANGED now
  BY <1>7 DEF Requote, AnswerQuote
<1> QED BY <1>1, <1>2, <1>3, <1>4, <1>5, <1>6, <1>7 DEF Next

-----------------------------------------------------------------------------
(* A new hold comes on top of what the older ones still use.               *)
LEMMA NewHoldReserves ==
  ASSUME CheckoutInv, Stock, NEW r \in requests, NewlyHeld(r), NEW g \in Group
  PROVE  /\ Reserved(g)' <= Reserved(g) + Needs(r.quote.rooms, g)
         /\ \A i \in 1..Len(holds') : Listed(holds'[i].rooms) /\ holds'[i].expires \in Nat
<1> DEFINE n == Len(holds)
           new == NewHold(r)
           before == Loads(g)
           after == Loads(g)'
           D == 1..n
           needs == Needs(r.quote.rooms, g)
<1>1. HoldsOk /\ Clock /\ n \in Nat /\ DOMAIN holds = D /\ IsFiniteSet(D)
  BY ListType, FS_Interval DEF CheckoutInv
<1>2. PICK swept : swept = [i \in DOMAIN holds |-> Swept(holds[i])]
  OBVIOUS
<1>3. /\ Len(holds') = n + 1 /\ holds' = [i \in 1..(n + 1) |-> holds'[i]]
      /\ \A i \in D : holds'[i] = swept[i]
      /\ holds'[n + 1] = new
  <2>1. holds' = Append(swept, new)
    BY <1>2 DEF NewlyHeld
  <2>2. swept = [i \in 1..n |-> swept[i]]
    BY <1>1, <1>2
  <2> HIDE DEF n, new
  <2> QED BY <2>1, <2>2, <1>1, AppendTo
<1>4. \A i \in D : i \in DOMAIN holds' /\ Lasts(holds[i], holds'[i])
  <2>1. \A i \in D : IsHold(holds[i]) /\ holds'[i] = Swept(holds[i])
    BY <1>1, <1>2, <1>3 DEF HoldsOk
  <2>2. \A i \in D : i \in DOMAIN holds'
    BY <1>1, <1>3
  <2>3. ASSUME NEW i \in D PROVE Lasts(holds[i], holds'[i])
    <3>1. IsHold(holds[i]) /\ holds'[i] = Swept(holds[i])
      BY <2>1
    <3>2. Lasts(holds[i], Swept(holds[i]))
      BY <3>1, HoldLasts
    <3> QED BY <3>1, <3>2
  <2> QED BY <2>2, <2>3
<1>5. now \in Nat /\ now' = now
  BY <1>1, Constants DEF Clock, NewlyHeld
<1>6. needs \in Nat
  BY NeedsType DEF Stock
<1>7. new.rooms = r.quote.rooms /\ new.expires = now + HoldTtl /\ HoldTtl \in Nat
  BY CheckoutAssumption DEF NewHold, CheckoutAssumption
<1>8. after[n + 1] \in {0, needs}
  <2>1. n + 1 \in DOMAIN holds'
    BY <1>1, <1>3
  <2>2. PICK last : last = n + 1
    OBVIOUS
  <2>3. after[last] = IF Live(holds[last])' THEN Needs(holds'[last].rooms, g) ELSE 0
    BY <2>1, <2>2 DEF Loads, Load
  <2> HIDE DEF new
  <2>4. Needs(holds'[last].rooms, g) = needs
    BY <2>2, <1>3, <1>7
  <2> HIDE DEF after, needs
  <2> QED BY <2>2, <2>3, <2>4
<1>9. \A i \in D : after[i] \in Int /\ before[i] \in Int /\ after[i] <= before[i]
  BY <1>1, <1>4, <1>5, LoadShrinks
<1>10. Reserved(g) = SumFunctionOnSet(before, D)
  BY DEF Reserved
<1>11. 1..(n + 1) = D \cup {n + 1} /\ n + 1 \notin D
  BY <1>1
<1>12. Reserved(g)' = SumFunctionOnSet(after, D \cup {n + 1})
  BY <1>3, <1>11 DEF Reserved
<1>13. \A i \in 1..Len(holds') : Listed(holds'[i].rooms) /\ holds'[i].expires \in Nat
  <2>1. \A i \in D : Listed(holds[i].rooms) /\ holds[i].expires \in Nat
    BY DEF Stock
  <2>2. Listed(r.quote.rooms)
    BY DEF Stock
  <2>3. now + HoldTtl \in Nat
    BY <1>5, <1>7
  <2> HIDE DEF D
  <2>4. \A i \in D : Listed(holds'[i].rooms) /\ holds'[i].expires \in Nat
    BY <2>1, <1>4 DEF Lasts
  <2> QED BY <2>2, <2>3, <2>4, <1>3, <1>7, <1>11
<1> HIDE DEF before, after, D, needs
<1>14. /\ SumFunctionOnSet(after, D) <= SumFunctionOnSet(before, D)
       /\ SumFunctionOnSet(after, D) \in Int /\ SumFunctionOnSet(before, D) \in Int
  BY <1>1, <1>9, SumLess, SumInteger
<1>15. SumFunctionOnSet(after, D \cup {n + 1}) = after[n + 1] + SumFunctionOnSet(after, D)
  <2> DEFINE last == n + 1
  <2>1. last \notin D /\ \A i \in D \cup {last} : after[i] \in Int
    BY <1>6, <1>8, <1>9, <1>11
  <2> HIDE DEF last
  <2>2. SumFunctionOnSet(after, D \cup {last}) = after[last] + SumFunctionOnSet(after, D)
    BY <2>1, <1>1, SumAdd
  <2> QED BY <2>2 DEF last
<1> QED BY <1>6, <1>8, <1>10, <1>12, <1>13, <1>14, <1>15 DEF needs

(* The others take a room only where one is free, and leave what they took.*)
LEMMA OthersTaken ==
  ASSUME CheckoutInv, Stock, RoomsSuffice,
         NEW g \in Group, OthersTake(g) \/ OthersLeave(g)
  PROVE  /\ taken' \in [Group -> Nat]
         /\ \A k \in Group : taken'[k] + Reserved(k) <= Total[k]
<1>1. /\ taken \in [Group -> Nat] /\ Total \in [Group -> Nat]
      /\ \A k \in Group : Available[k] = Total[k] - (taken[k] + Reserved(k))
  BY AvailableType, CheckoutAssumption DEF CheckoutInv, Stock, CheckoutAssumption
<1>2. \A k \in Group : Reserved(k) \in Nat
  BY ReservedType DEF CheckoutInv
<1>3. \A k \in Group : taken[k] + Reserved(k) <= Total[k]
  BY <1>1, <1>2 DEF RoomsSuffice
<1>4. CASE OthersTake(g)
  <2>1. taken' = [taken EXCEPT ![g] = taken[g] + 1] /\ Available[g] > 0
    BY <1>4 DEF OthersTake
  <2> QED BY <2>1, <1>1, <1>2, <1>3
<1>5. CASE OthersLeave(g)
  <2>1. taken' = [taken EXCEPT ![g] = taken[g] - 1] /\ taken[g] > 0
    BY <1>5 DEF OthersLeave
  <2> QED BY <2>1, <1>1, <1>2, <1>3
<1> QED BY <1>4, <1>5

(* What is free, in this state as in the next.                             *)
Counted ==
  \A g \in Group : /\ Reserved(g) \in Nat
                   /\ Available[g] = Total[g] - (taken[g] + Reserved(g))
LEMMA StockIsCounted == HoldsOk /\ Stock => Counted
BY AvailableType, ReservedType DEF Counted

(* Each step leaves enough rooms: those that make room for themselves look *)
(* first, and the others use no more.                                      *)
LEMMA StockStep ==
  ASSUME StockInv, [Next]_vars
  PROVE  StockInv'
<1>1. CheckoutInv /\ Stock /\ RoomsSuffice /\ HoldsOk /\ Clock
  BY DEF StockInv, CheckoutInv
<1>2. CheckoutInv' /\ HoldsOk' /\ Clock'
  <2>1. CheckoutInv'
    BY <1>1, NextInv
  <2> QED BY <2>1 DEF CheckoutInv
<1>3. now' \in Nat /\ now <= now'
  BY <1>1, <1>2, TimeStep, Constants DEF Clock
<1>4. /\ Listed(draft') /\ Listed(quote'.rooms)
      /\ \A s \in requests' : Listed(s.quote.rooms)
  BY <1>1, ListsStep
<1>5. /\ taken \in [Group -> Nat] /\ Total \in [Group -> Nat]
      /\ \A g \in Group : Reserved(g) \in Nat /\ taken[g] + Reserved(g) <= Total[g]
  <2>1. /\ taken \in [Group -> Nat] /\ Total \in [Group -> Nat]
        /\ \A g \in Group : Available[g] = Total[g] - (taken[g] + Reserved(g))
    BY <1>1, AvailableType, CheckoutAssumption DEF Stock, CheckoutAssumption
  <2>2. \A g \in Group : Reserved(g) \in Nat
    BY <1>1, ReservedType
  <2>3. \A g \in Group : taken[g] + Reserved(g) <= Total[g]
    BY <1>1, <2>1, <2>2 DEF RoomsSuffice
  <2> QED BY <2>1, <2>2, <2>3
<1>6. ASSUME taken' \in [Group -> Nat],
             \A i \in 1..Len(holds') : Listed(holds'[i].rooms) /\ holds'[i].expires \in Nat,
             \A g \in Group : Reserved(g)' \in Nat => taken'[g] + Reserved(g)' <= Total[g]
      PROVE  StockInv'
  <2>1. Stock'
    BY <1>4, <1>6 DEF Stock
  <2>2. Counted'
    BY <1>2, <2>1, StockIsCounted, PTL
  <2>3. ASSUME NEW g \in Group PROVE Available'[g] >= 0
    <3>1. Available'[g] = Total[g] - (taken'[g] + Reserved(g)') /\ Reserved(g)' \in Nat
      BY <2>2 DEF Counted
    <3>2. taken'[g] + Reserved(g)' <= Total[g]
      BY <3>1, <1>6
    <3> QED BY <3>1, <3>2, <1>5, <1>6
  <2> QED BY <1>2, <2>1, <2>3 DEF StockInv, RoomsSuffice
<1>7. CASE HoldsKept /\ HoldsLast
  <2>1. \A i \in 1..Len(holds') : Listed(holds'[i].rooms) /\ holds'[i].expires \in Nat
    BY <1>1, <1>7 DEF Stock, HoldsKept, HoldsLast, Lasts
  <2>2. \A g \in Group : Reserved(g)' <= Reserved(g)
    BY <1>1, <1>3, <1>7, ReservedShrinks
  <2>3. CASE UNCHANGED taken
    BY <1>5, <1>6, <2>1, <2>2, <2>3
  <2>4. ASSUME NEW k \in Contested, OthersTake(k) \/ OthersLeave(k) PROVE StockInv'
    <3>1. k \in Group
      BY CheckoutAssumption DEF CheckoutAssumption
    <3>2. taken' \in [Group -> Nat] /\ \A g \in Group : taken'[g] + Reserved(g) <= Total[g]
      BY <1>1, <2>4, <3>1, OthersTaken
    <3> QED BY <1>5, <1>6, <2>1, <2>2, <3>2
  <2> QED BY <2>3, <2>4, OthersStep
<1>8. ASSUME NEW r \in requests, NewlyHeld(r) PROVE StockInv'
  <2>1. taken' = taken /\ Enough(r.quote.rooms)
    BY <1>8 DEF NewlyHeld
  <2>2. \A i \in 1..Len(holds') : Listed(holds'[i].rooms) /\ holds'[i].expires \in Nat
    <3>1. "single-bed" \in Group
      BY DEF Group
    <3> QED BY <3>1, <1>1, <1>8, NewHoldReserves
  <2>3. ASSUME NEW g \in Group, Reserved(g)' \in Nat PROVE taken'[g] + Reserved(g)' <= Total[g]
    <3>1. Reserved(g)' <= Reserved(g) + Needs(r.quote.rooms, g)
      BY <1>1, <1>8, NewHoldReserves
    <3>2. Needs(r.quote.rooms, g) <= Available[g] /\ Needs(r.quote.rooms, g) \in Nat
      BY <1>1, <2>1, NeedsType DEF Enough, Stock
    <3>3. Available[g] = Total[g] - (taken[g] + Reserved(g))
      BY <1>1, AvailableType
    <3> QED BY <3>1, <3>2, <3>3, <2>1, <2>3, <1>5
  <2> QED BY <1>5, <1>6, <2>1, <2>2, <2>3
<1> QED BY <1>1, <1>7, <1>8, HoldsStep

LEMMA StockAtFirst == Init => StockInv
<1> SUFFICES ASSUME Init PROVE StockInv
  OBVIOUS
<1>1. holds = <<>> /\ Len(holds) = 0 /\ requests = {} /\ draft = <<>> /\ quote = NoQuote
  BY DEF Init
<1>2. taken = [g \in Group |-> 0]
  BY DEF Init
<1>3. CheckoutInv
  BY InitInv
<1>4. Stock
  BY <1>1, <1>2, NoRooms DEF Stock
<1>5. RoomsSuffice
  <2>1. ASSUME NEW g \in Group PROVE Available[g] >= 0
    <3>1. Reserved(g) = 0
      <4>1. 1..Len(holds) = {}
        BY <1>1
      <4> QED BY <4>1, SumEmpty DEF Reserved
    <3>2. Available[g] = Total[g] - (taken[g] + Reserved(g))
      BY <1>3, <1>4, AvailableType DEF CheckoutInv
    <3>3. Total[g] \in Nat
      BY CheckoutAssumption DEF CheckoutAssumption
    <3> QED BY <3>1, <3>2, <3>3, <1>2
  <2> QED BY <2>1 DEF RoomsSuffice
<1> QED BY <1>3, <1>4, <1>5 DEF StockInv

(* The stock of rooms is always in order.                                  *)
THEOREM StockInOrder == Spec => []StockInv
<1>1. StockInv /\ [Next]_vars => StockInv'
  BY StockStep
<1> QED BY <1>1, StockAtFirst, PTL DEF Spec

(* However late payments arrive, whatever others take and leave, and with  *)
(* any number of rooms, no more of them are given out than there are.      *)
THEOREM RoomsAreEnough == Spec => []RoomsSuffice
<1>1. StockInv => RoomsSuffice
  BY DEF StockInv
<1> QED BY <1>1, StockInOrder, PTL

(* Whatever is free, something is offered to every party that can be       *)
(* seated, and all that is offered seats it, in rooms that are free; and   *)
(* the rooms of every booking take the guests it was quoted for.           *)
THEOREM GuestsAreSeated == Spec => []GuestsSeated
<1>1. StockInv => OffersFit
  <2> SUFFICES ASSUME StockInv, NEW guests \in Parties
               PROVE  /\ Offers(guests, Available) = {} <=> ~Seatable(guests, Available)
                      /\ \A a \in Offers(guests, Available) :
                           SeatsParty(RoomsOf(guests, a), guests) /\ Enough(RoomsOf(guests, a))
    BY DEF OffersFit
  <2>1. guests \in Party
    BY CheckoutAssumption DEF CheckoutAssumption
  <2>2. Available \in [Group -> Int]
    BY AvailableType DEF StockInv, CheckoutInv
  <2>3. Offers(guests, Available) \subseteq Candidates(guests, Available)
    BY <2>1, <2>2, SomethingIsOffered
  <2>4. ASSUME NEW a \in Offers(guests, Available)
        PROVE  SeatsParty(RoomsOf(guests, a), guests) /\ Enough(RoomsOf(guests, a))
    <3> DEFINE list == RoomsOf(guests, a)
    <3>1. /\ \A i \in DOMAIN list : RoomFits(list[i])
          /\ PartyOf(list) = guests
          /\ \A g \in Group : Count(list, g) <= Available[g]
      BY <2>1, <2>2, <2>3, CandidatesFit
    <3> HIDE DEF list
    <3>2. \A g \in Group : Needs(list, g) = Count(list, g)
      BY DEF Needs, Count, InGroup
    <3>3. SeatsParty(list, guests) /\ Enough(list)
      BY <3>1, <3>2 DEF SeatsParty, Enough
    <3> QED BY <3>3 DEF list
  <2>5. Offers(guests, Available) = {} <=> ~Seatable(guests, Available)
    BY <2>1, <2>2, SeatableIsOffered
  <2> QED BY <2>4, <2>5
<1>2. HoldsSeat /\ OffersFit => GuestsSeated
  BY DEF GuestsSeated
<1> QED BY <1>1, <1>2, StockInOrder, BookingsSeatGuests, PTL
=============================================================================
