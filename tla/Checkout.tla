------------------------------ MODULE Checkout ------------------------------
(***************************************************************************)
(* One guest's browser on the way from the search to the confirmation      *)
(* (BookingWizard.tsx, ConfirmationView.tsx), and the handlers it calls:   *)
(* quotes, holds, payment orders, verification and the webhook.            *)
(*                                                                         *)
(* The address bar holds the party and the page, the draft the rooms, the  *)
(* page's memory the quote and the hold; going back and forth remounts the *)
(* page and loses its memory.  A request may outlive the page's patience:  *)
(* it is then handled while the guest tries again.  So may the new quote   *)
(* the page asks for when the price has changed: pay() gives its button    *)
(* back first.  Other guests take and leave rooms, staff publish tariffs,  *)
(* time passes (Booking.tla has their side of it).                         *)
(***************************************************************************)
EXTENDS Rules

CONSTANTS
  Total,           \* the rooms of each group
  Parties,         \* the parties the guest thinks of
  QuoteTtl,        \* QUOTE_TTL_SECONDS, in ticks
  HoldTtl,         \* policyRevision.holdTtlMinutes, in ticks
  MaxPolls,        \* MAX_POLLS of the confirmation page
  MaxTime, MaxTariff, MaxRequests, MaxVisits,   \* bounds
  AcModes, Contested   \* bounds: modes the guest chooses, groups others want

ASSUME CheckoutAssumption ==
  /\ Total \in [Group -> Nat] /\ Parties \subseteq Party
  /\ QuoteTtl \in Nat \ {0} /\ HoldTtl \in Nat \ {0} /\ MaxPolls \in Nat \ {0}
  /\ MaxTime \in Nat /\ MaxTariff \in Nat \ {0}
  /\ MaxRequests \in Nat /\ MaxVisits \in Nat
  /\ AcModes \subseteq BOOLEAN /\ Contested \subseteq Group

VARIABLES
  now, tariff,     \* the clock; the tariff revision in force
  taken,           \* rooms of each group that others hold or own
  holds,           \* this guest's bookings, in the order they were made
  requests,        \* create-hold requests that are not answered yet
  sent,            \* how many of them were sent
  page, party,     \* the step and the composition in the address bar
  draft,           \* the rooms in session storage
  quote,           \* the quote on the page ("authoritative")
  requotes,        \* quotes asked for after QUOTE_CHANGED, on their way
  overtaken,       \* one of them replaced the quote that is being paid (history)
  hold,            \* checkoutHold: 0, or the number of a hold
  doing,           \* what pay() waits for
  script,          \* the script tag of the provider's window
  visits,          \* how often the pay page was entered
  view, polls      \* what the confirmation page shows, and its attempts

server == <<tariff, taken, holds>>
late == <<requotes, overtaken>>
browser == <<page, party, draft, quote, late, hold, doing, script, visits>>
vars == <<now, server, requests, sent, browser, view, polls>>

NoQuote == [rooms |-> <<>>]
Page == {"arrangement", "review", "pay", "confirm"}
Doing == {"idle", "holding", "ordering", "loading", "modal", "verifying"}
Script == {"absent", "loaded", "failed"}
View == {"loading", "pending", "reserved", "paid_unallocated", "expired", "timeout"}

-----------------------------------------------------------------------------
(* Rooms.                                                                  *)
Needs(rooms, group) == Cardinality({i \in DOMAIN rooms : rooms[i].group = group})
Live(h) == h.status = "CONFIRMED" \/ (h.status = "PENDING_PAYMENT" /\ now < h.expires)
InUse(group) ==
  taken[group] + SumFunction([i \in DOMAIN holds |->
                    IF Live(holds[i]) THEN Needs(holds[i].rooms, group) ELSE 0])
Available == [g \in Group |-> Total[g] - InUse(g)]
Enough(rooms) == \A g \in Group : Needs(rooms, g) <= Available[g]

(* validateRoomIntent                                                      *)
(* Mutant: the sum over the rooms is not compared with the party.          *)
SeatsParty_Loose(rooms, guests) == \A i \in DOMAIN rooms : RoomFits(rooms[i])
SeatsParty(rooms, guests) ==
  /\ \A i \in DOMAIN rooms : RoomFits(rooms[i])
  /\ PartyOf(rooms) = guests

(* The key of a hold request is made from the quote, and so is its hash;   *)
(* a quote's token is signed, and the same in every second.                *)
Known(q) == {i \in DOMAIN holds : holds[i].quote = q}

TypeOK ==
  /\ now \in 0..MaxTime /\ tariff \in 1..MaxTariff
  /\ \A i \in DOMAIN holds :
       /\ holds[i].status \in {"PENDING_PAYMENT", "CONFIRMED", "EXPIRED"}
       /\ holds[i].order \in {"NONE", "PENDING", "PAID", "PAID_UNALLOCATED", "EXPIRED"}
       /\ holds[i].payment \in {"none", "authorised", "captured"}
  /\ \A r \in requests : r.id \in 1..sent /\ r.stage \in {"sent", "new"}
  /\ page \in Page /\ party \in Parties /\ doing \in Doing /\ view \in View
  /\ hold \in 0..Len(holds) /\ polls \in 0..MaxPolls /\ visits \in 0..MaxVisits
  /\ script \in Script /\ overtaken \in BOOLEAN
  /\ \A q \in requotes : q.id \in 1..sent
  /\ doing \in {"ordering", "loading", "modal", "verifying"} => hold # 0

Init ==
  /\ now = 0 /\ tariff = 1
  /\ taken = [g \in Group |-> 0]
  /\ holds = <<>> /\ requests = {} /\ sent = 0
  /\ page = "arrangement" /\ party \in Parties /\ draft = <<>>
  /\ quote = NoQuote /\ hold = 0 /\ doing = "idle" /\ visits = 0
  /\ requotes = {} /\ overtaken = FALSE /\ script = "absent"
  /\ view = "loading" /\ polls = 0

-----------------------------------------------------------------------------
(* Moving through the wizard.                                              *)
Mount(p) ==
  /\ page' = p /\ quote' = NoQuote /\ hold' = 0
  /\ requotes' = {} /\ overtaken' = FALSE

(* (The bound on visits stops the guest from wandering on where no visit   *)
(* of the pay page can follow.)                                            *)
(* searchAvailability, the choice of an arrangement and of its             *)
(* air-conditioning.                                                       *)
ChooseArrangement ==
  /\ page = "arrangement" /\ visits < MaxVisits
  /\ \E a \in Offers(party, Available) :
       \E ac \in [DOMAIN RoomsOf(party, a) -> AcModes] :
         draft' = Furnish(RoomsOf(party, a), ac)
  /\ Mount("review")
  /\ UNCHANGED <<now, server, requests, sent, party, doing, script, visits, view, polls>>

(* GuestsStep empties the draft.                                           *)
ChangeGuests(guests) ==
  /\ page \in {"arrangement", "review"} /\ visits < MaxVisits
  /\ party' = guests /\ draft' = <<>>
  /\ Mount("arrangement")
  /\ UNCHANGED <<now, server, requests, sent, doing, script, visits, view, polls>>

(* The browser's own history restores an older address, and not the draft. *)
(* (Without rooms the wizard shows the arrangements.)                      *)
GoToOldAddress(guests) ==
  /\ page \in {"arrangement", "review"} /\ visits < MaxVisits
  /\ draft # <<>> /\ party # guests
  /\ party' = guests
  /\ Mount("review")
  /\ UNCHANGED <<now, server, requests, sent, draft, doing, script, visits, view, polls>>

(* createQuote, when the review or the pay page is mounted.                *)
Priced == [tariff |-> tariff, rooms |-> draft, party |-> party, issued |-> now]
CreateQuote ==
  /\ page \in {"review", "pay"} /\ quote = NoQuote
  /\ SeatsParty(draft, party) /\ Enough(draft)
  /\ quote' = Priced
  /\ UNCHANGED <<now, server, requests, sent, page, party, draft, late, hold, doing, script, visits, view, polls>>

ContinueToPay ==
  /\ page = "review" /\ quote # NoQuote
  /\ visits < MaxVisits /\ visits' = visits + 1
  /\ Mount("pay")
  /\ UNCHANGED <<now, server, requests, sent, party, draft, doing, script, view, polls>>

Back ==
  /\ page \in {"review", "pay"} /\ doing = "idle"
  /\ Mount(IF page = "pay" THEN "review" ELSE "arrangement")
  /\ UNCHANGED <<now, server, requests, sent, party, draft, doing, script, visits, view, polls>>

-----------------------------------------------------------------------------
(* A reload of the pay page loses the page's memory, the contact and the   *)
(* scripts; the guest comes back over the details.                         *)
Reload ==
  /\ page = "pay"
  /\ Mount("review")
  /\ doing' = "idle" /\ script' = "absent"
  /\ UNCHANGED <<now, server, requests, sent, party, draft, visits, view, polls>>

(* pay(): hold the rooms, unless the page has a hold; order; pay; verify.  *)
Pay ==
  /\ page = "pay" /\ doing = "idle" /\ quote # NoQuote
  /\ IF hold # 0
       THEN doing' = "ordering" /\ UNCHANGED <<requests, sent, overtaken>>
       ELSE /\ doing' = "holding" /\ overtaken' = FALSE
            /\ sent < MaxRequests /\ sent' = sent + 1
            /\ requests' = requests \cup {[id |-> sent + 1, quote |-> quote, tariff |-> 0, stage |-> "sent"]}
  /\ UNCHANGED <<now, server, page, party, draft, quote, requotes, hold, script, visits, view, polls>>

(* An answer is heard only by the pay() that still waits for it.           *)
Heard(r) == doing = "holding" /\ r.id = sent
AnswerHold(r, number) ==
  /\ requests' = requests \ {r}
  /\ IF Heard(r) THEN hold' = number /\ doing' = "ordering" ELSE UNCHANGED <<hold, doing>>
(* Mutant: a refusal leaves the page waiting.                              *)
Refuse_StillBusy(r) ==
  /\ requests' = requests \ {r}
  /\ UNCHANGED <<hold, doing>>
Refuse(r) ==
  /\ requests' = requests \ {r}
  /\ doing' = IF Heard(r) THEN "idle" ELSE doing
  /\ UNCHANGED hold

(* createHold up to its transaction: the quote must stand, and a request   *)
(* that was handled before is answered from the record.                    *)
Expired(q) == now > q.issued + QuoteTtl
(* Mutant: the tariff of the quote is not compared.                        *)
PriceChanged_Never(q) == FALSE
PriceChanged(q) == q.tariff # tariff
(* After QUOTE_CHANGED the page, idle again, asks for the current price.   *)
AskAgain(r) ==
  requotes' = IF Heard(r) THEN requotes \cup {[id |-> r.id, quote |-> NoQuote]} ELSE requotes
CheckHold(r) ==
  /\ r.stage = "sent"
  /\ \/ Expired(r.quote) /\ Refuse(r) /\ UNCHANGED requotes
     \/ ~Expired(r.quote) /\ PriceChanged(r.quote) /\ Refuse(r) /\ AskAgain(r)
     \/ /\ ~Expired(r.quote) /\ ~PriceChanged(r.quote)
        /\ IF Known(r.quote) # {}
             THEN \E i \in Known(r.quote) : AnswerHold(r, i)
             ELSE /\ requests' = (requests \ {r}) \cup
                       {[r EXCEPT !.stage = "new", !.tariff = tariff]}
                  /\ UNCHANGED <<hold, doing>>
        /\ UNCHANGED requotes
  /\ UNCHANGED <<now, server, sent, page, party, draft, quote, overtaken, script, visits, view, polls>>

(* createQuote for such a request, if it and its answer get through; and   *)
(* the answer, which replaces the quote whatever pay() is doing by then.   *)
Requote(q) ==
  /\ q.quote = NoQuote
  /\ \/ requotes' = requotes \ {q}
     \/ Enough(draft) /\ requotes' = (requotes \ {q}) \cup {[q EXCEPT !.quote = Priced]}
  /\ UNCHANGED <<now, server, requests, sent, page, party, draft, quote, overtaken, hold, doing, script, visits, view, polls>>

Overtakes == doing # "idle" \/ hold # 0
AnswerQuote(q) ==
  /\ q.quote # NoQuote
  /\ quote' = q.quote /\ requotes' = requotes \ {q}
  /\ overtaken' = (overtaken \/ Overtakes)
  /\ UNCHANGED <<now, server, requests, sent, page, party, draft, hold, doing, script, visits, view, polls>>

(* Its transaction takes the rooms, if there are enough, and writes the    *)
(* key; if the key was written meanwhile it rolls back and answers from    *)
(* the record.  The rooms come first: a request whose twin took the last   *)
(* of them is refused.                                                     *)
Swept(h) ==
  IF h.status = "PENDING_PAYMENT" /\ now >= h.expires
    THEN [h EXCEPT !.status = "EXPIRED",
                   !.order = IF @ = "PENDING" THEN "EXPIRED" ELSE @]
    ELSE h
NewHold(r) ==
  [quote |-> r.quote, rooms |-> r.quote.rooms, tariff |-> r.tariff,
   status |-> "PENDING_PAYMENT", expires |-> now + HoldTtl,
   order |-> "NONE", payment |-> "none"]
(* Mutant: the key is not unique.                                          *)
Twin_Unnoticed(r) == {}
Twin(r) == Known(r.quote)
CreateHold(r) ==
  /\ r.stage = "new"
  /\ IF ~Enough(r.quote.rooms)
       THEN Refuse(r) /\ UNCHANGED holds
     ELSE IF Twin(r) # {}
       THEN (\E i \in Twin(r) : AnswerHold(r, i)) /\ UNCHANGED holds
     ELSE /\ holds' = Append([i \in DOMAIN holds |-> Swept(holds[i])], NewHold(r))
          /\ AnswerHold(r, Len(holds) + 1)
  /\ UNCHANGED <<now, tariff, taken, sent, page, party, draft, quote, late, script, visits, view, polls>>

(* Any call may fail on its way, and what it asked for be done or not.     *)
GiveUp ==
  /\ doing \in {"holding", "ordering", "verifying"}
  /\ doing' = "idle"
  /\ UNCHANGED <<now, server, requests, sent, page, party, draft, quote, late, hold, script, visits, view, polls>>

(* createPaymentOrder: its key is the hold, so that every later call is    *)
(* answered with the first order, whatever became of the hold.             *)
PayingFor == holds[hold]
NewOrder(h) == [h EXCEPT !.order = "PENDING"]
CreatePaymentOrder ==
  /\ doing = "ordering"
  /\ \/ /\ PayingFor.order # "NONE"
        /\ doing' = "loading" /\ UNCHANGED holds
     \/ /\ PayingFor.order = "NONE" /\ Live(PayingFor)
        /\ holds' = [holds EXCEPT ![hold] = NewOrder(@)]
        /\ doing' \in {"loading", "ordering"}   \* the answer, or none
     \/ /\ PayingFor.order = "NONE" /\ ~Live(PayingFor)
        /\ doing' = "idle" /\ UNCHANGED holds
  /\ UNCHANGED <<now, tariff, taken, requests, sent, page, party, draft, quote, late, hold, script, visits, view, polls>>

(* ensureRazorpayScript: the first call adds the tag and waits for it.  A  *)
(* later one finds the tag, and if it failed waits for events that have    *)
(* been and gone; the tag stays until the page is loaded anew.             *)
LoadScript ==
  /\ doing = "loading"
  /\ \/ script \in {"absent", "loaded"} /\ script' = "loaded" /\ doing' = "modal"
     \/ script = "absent" /\ script' = "failed" /\ doing' = "idle"
  /\ UNCHANGED <<now, server, requests, sent, page, party, draft, quote, late, hold, visits, view, polls>>

(* The provider's window: the guest pays, or closes it, before or after    *)
(* paying; the provider accepts one payment for an order.                  *)
Authorise ==
  /\ doing = "modal" /\ PayingFor.payment # "captured"
  /\ holds' = [holds EXCEPT ![hold].payment = "authorised"]
  /\ doing' \in {"verifying", "idle"}
  /\ UNCHANGED <<now, tariff, taken, requests, sent, page, party, draft, quote, late, hold, script, visits, view, polls>>

Dismiss ==
  /\ doing = "modal"
  /\ doing' = "idle"
  /\ UNCHANGED <<now, server, requests, sent, page, party, draft, quote, late, hold, script, visits, view, polls>>

Capture(i) ==
  /\ holds[i].payment = "authorised"
  /\ holds' = [holds EXCEPT ![i].payment = "captured"]
  /\ UNCHANGED <<now, tariff, taken, requests, sent, browser, view, polls>>

(* settleVerifiedPayment                                                   *)
Unsettled(h) == h.order \in {"PENDING", "EXPIRED"}
(* Mutant: a payment confirms whatever became of the hold.                 *)
Settled_Late(h) ==
  IF Unsettled(h) THEN [h EXCEPT !.status = "CONFIRMED", !.order = "PAID"] ELSE h
Settled(h) ==
  IF ~Unsettled(h) THEN h
  ELSE IF h.status = "PENDING_PAYMENT" /\ now < h.expires
    THEN [h EXCEPT !.status = "CONFIRMED", !.order = "PAID"]
    ELSE [h EXCEPT !.status = "EXPIRED", !.order = "PAID_UNALLOCATED"]

Captured(h) == h.payment = "captured"   \* what the provider says of a payment
Webhook(i) ==
  /\ Captured(holds[i]) /\ Unsettled(holds[i])
  /\ holds' = [holds EXCEPT ![i] = Settled(@)]
  /\ UNCHANGED <<now, tariff, taken, requests, sent, browser, view, polls>>

(* The confirmation of hold i, in a page of its own.                       *)
Show(i) ==
  /\ page' = "confirm" /\ hold' = i /\ view' = "loading" /\ polls' = 0
  /\ quote' = NoQuote /\ requotes' = {} /\ overtaken' = FALSE

(* verifyRazorpayPayment: a confirmed stay leads to the confirmation.      *)
VerifyPayment ==
  /\ doing = "verifying"
  /\ holds' = IF Captured(PayingFor)
                THEN [holds EXCEPT ![hold] = Settled(@)] ELSE holds
  /\ IF holds'[hold].order = "PAID"
       THEN Show(hold) /\ draft' = <<>>
       ELSE UNCHANGED <<page, draft, quote, late, hold, view, polls>>
  /\ doing' = "idle"
  /\ UNCHANGED <<now, tariff, taken, requests, sent, party, script, visits>>

-----------------------------------------------------------------------------
(* The confirmation page.  The wizard leads there only after a verified    *)
(* payment; by its address it may be opened at any time, and again.        *)
Polling == page = "confirm" /\ view \in {"loading", "pending"}
OpenConfirmation(i) ==
  /\ doing = "idle" /\ ~Polling
  /\ Show(i)
  /\ UNCHANGED <<now, server, requests, sent, party, draft, doing, script, visits>>

BookNow ==
  /\ page = "confirm"
  /\ Mount("arrangement")
  /\ view' = "loading" /\ polls' = 0
  /\ UNCHANGED <<now, server, requests, sent, party, draft, doing, script, visits>>

(* Mutant: the page polls without end.                                     *)
Shown_NoLimit(h) ==
  IF h.order = "PAID_UNALLOCATED" THEN "paid_unallocated"
  ELSE IF h.status = "PENDING_PAYMENT" THEN "pending"
  ELSE IF h.status = "CONFIRMED" THEN "reserved" ELSE "expired"
Shown(h) ==
  IF h.order = "PAID_UNALLOCATED" THEN "paid_unallocated"
  ELSE IF h.status = "CONFIRMED" THEN "reserved"
  ELSE IF h.status = "EXPIRED" THEN "expired"
  ELSE IF polls + 1 >= MaxPolls THEN "timeout" ELSE "pending"
PollCheckout ==
  /\ Polling
  /\ view' = Shown(PayingFor)
  /\ polls' = IF holds[hold].status = "PENDING_PAYMENT" THEN polls + 1 ELSE polls
  /\ UNCHANGED <<now, server, requests, sent, browser>>

-----------------------------------------------------------------------------
(* The others.                                                             *)
PublishTariff ==
  /\ tariff < MaxTariff /\ tariff' = tariff + 1
  /\ UNCHANGED <<now, taken, holds, requests, sent, browser, view, polls>>
OthersTake(group) ==
  /\ Available[group] > 0
  /\ taken' = [taken EXCEPT ![group] = @ + 1]
  /\ UNCHANGED <<now, tariff, holds, requests, sent, browser, view, polls>>
OthersLeave(group) ==
  /\ taken[group] > 0
  /\ taken' = [taken EXCEPT ![group] = @ - 1]
  /\ UNCHANGED <<now, tariff, holds, requests, sent, browser, view, polls>>
ExpireStaleHolds ==
  /\ \E i \in DOMAIN holds : Swept(holds[i]) # holds[i]
  /\ holds' = [i \in DOMAIN holds |-> Swept(holds[i])]
  /\ UNCHANGED <<now, tariff, taken, requests, sent, browser, view, polls>>
Tick ==
  /\ now < MaxTime /\ now' = now + 1
  /\ UNCHANGED <<server, requests, sent, browser, view, polls>>

Next ==
  \/ ChooseArrangement \/ CreateQuote \/ ContinueToPay \/ Back
  \/ \E guests \in Parties : ChangeGuests(guests) \/ GoToOldAddress(guests)
  \/ Pay \/ GiveUp \/ Reload
  \/ \E r \in requests : CheckHold(r) \/ CreateHold(r)
  \/ \E q \in requotes : Requote(q) \/ AnswerQuote(q)
  \/ CreatePaymentOrder \/ LoadScript \/ Authorise \/ Dismiss \/ VerifyPayment
  \/ \E i \in DOMAIN holds : Capture(i) \/ Webhook(i) \/ OpenConfirmation(i)
  \/ PollCheckout \/ BookNow
  \/ PublishTariff \/ ExpireStaleHolds \/ Tick
  \/ \E group \in Contested : OthersTake(group) \/ OthersLeave(group)

(* The server answers, a script loads or fails, a started page asks;       *)
(* nobody makes the guest pay, close the provider's window or reload.      *)
Fairness ==
  /\ WF_vars(\E r \in requests : CheckHold(r) \/ CreateHold(r))
  /\ WF_vars(CreatePaymentOrder) /\ WF_vars(LoadScript) /\ WF_vars(VerifyPayment)
  /\ WF_vars(PollCheckout)
Spec == Init /\ [][Next]_vars /\ Fairness
-----------------------------------------------------------------------------
(* What the guest is asked to pay is what the page shows: the rooms of the *)
(* page always, its price unless the answer to an earlier QUOTE_CHANGED    *)
(* came late and replaced it under way; whatever staff publish and however *)
(* requests are lost, repeated and answered late (createHold's             *)
(* QUOTE_CHANGED check, the page's one hold).                              *)
Charging == doing \in {"ordering", "loading", "modal", "verifying"}
ShownIsCharged ==
  Charging =>
    /\ PayingFor.rooms = quote.rooms /\ quote.rooms = draft
    /\ PayingFor.tariff = quote.tariff \/ overtaken

(* What the page says of itself: "The price changed. Review the updated    *)
(* advance before trying again" (BookingWizard.tsx:774).  So the price     *)
(* shown is the one charged, with no exception.                            *)
ReviewedIsCharged == Charging => PayingFor.tariff = quote.tariff

(* However often a guest tries, one quote makes one booking: a request     *)
(* that is sent again, or handled beside its twin, never holds a second    *)
(* set of rooms (idempotencyRequest, the P2002 branch of createHold).      *)
OneHoldPerQuote ==
  \A i, j \in DOMAIN holds : holds[i].quote = holds[j].quote => i = j

(* Every room of a booking is let to a number of guests it takes, and the  *)
(* rooms seat exactly the guests it was quoted for, also when the address  *)
(* and the draft come from different visits.  And whatever is free, each   *)
(* offered arrangement seats the party in free rooms, and a party that the *)
(* free rooms can seat in any way is offered one                           *)
(* (generateServerArrangements, distributeGuests, validateRoomIntent).     *)
OffersFit ==
  \A guests \in Parties :
    /\ Offers(guests, Available) = {} <=> ~Seatable(guests, Available)
    /\ \A a \in Offers(guests, Available) :
         SeatsParty(RoomsOf(guests, a), guests) /\ Enough(RoomsOf(guests, a))
HoldsSeat ==
  \A i \in DOMAIN holds :
    /\ \A k \in DOMAIN holds[i].rooms : RoomFits(holds[i].rooms[k])
    /\ PartyOf(holds[i].rooms) = holds[i].quote.party
GuestsSeated == HoldsSeat /\ (page = "arrangement" => OffersFit)

(* However late a payment arrives, no more rooms are given out than there  *)
(* are (createHold's allocation, holdLapsed in settleVerifiedPayment).     *)
RoomsSuffice == \A g \in Group : Available[g] >= 0

(* Once paying has begun the page does not stay busy: it comes to the      *)
(* provider's window, to a message or to the confirmation, and that page   *)
(* comes to an answer; except where it waits for a script that failed      *)
(* before, which nothing but a reload ends.                                *)
Waiting == doing \in {"holding", "ordering", "loading", "verifying"}
Leftover == doing = "loading" /\ script = "failed"
PayEnds ==
  /\ Waiting ~> (~Waiting \/ Leftover)
  /\ Polling ~> ~Polling

(* What payments.md:12-13 says of the browser: it loads the provider's     *)
(* script "and opens the modal".  So it comes to the window or a message.  *)
WindowOpens == Waiting ~> ~Waiting
=============================================================================
