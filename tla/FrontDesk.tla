------------------------------ MODULE FrontDesk ------------------------------
(***************************************************************************)
(* Staff publish tariffs and advances (PricingForm.tsx, admin-config.ts)   *)
(* while staff take bookings at the desk (NewBookingForm.tsx,              *)
(* createQuote, createStaffBooking).  A publication reads the revision in  *)
(* force and replaces it; a quote and a booking read the tariff and the    *)
(* policy with two queries of their own.  The form sends a quote request   *)
(* for every click, and shows their answers in the order they come; its    *)
(* searches, quotes and bookings share one flag, which any answer clears.  *)
(*                                                                         *)
(* There is no clock: a quote that has expired, rooms that are taken and a *)
(* query whose time was taken before a publication (effectiveFrom is later *)
(* then, and nothing is in force) are errors a request may meet any time.  *)
(***************************************************************************)
EXTENDS Integers, FiniteSets

CONSTANTS
  Desk,        \* browsers with the new-booking form
  Publisher,   \* staff with the pricing form
  Selection,   \* dates, rooms and air-conditioning a form may show
  Details,     \* source, contact and collected sum a form may hold
  Nothing,     \* no rooms selected, no quote
  MaxRevision, MaxCalls   \* bounds

ASSUME FrontDeskAssumption ==
  /\ Nothing \notin Selection
  /\ MaxCalls \in Nat /\ MaxRevision \in Nat \ {0}

VARIABLES
  revisions,   \* TariffRevision and BookingPolicyRevision rows
  publishing,  \* the publication each pricing form waits for
  told,        \* "revision n is live"
  form,        \* the new-booking form of each desk
  calls,       \* requests for a quote or a booking under way
  sent,        \* how many there were
  bookings     \* the bookings taken at the desks

vars == <<revisions, publishing, told, form, calls, sent, bookings>>

Kind == {"tariff", "policy"}
Seed == "seed"
InForce(kind) == {r \in revisions[kind] : ~r.retired}
Newest(set) == CHOOSE r \in set : \A s \in set : s.revision <= r.revision
Idle == [kind |-> "tariff", current |-> 0]
Blank == [shown |-> Nothing, quote |-> Nothing, pending |-> FALSE, searching |-> FALSE,
          loose |-> FALSE]
None == [kind \in Kind |-> 0]
Pair == [kind \in Kind |-> Newest(InForce(kind)).revision]

Numbers == 0..MaxRevision
Revision == [revision : 1..MaxRevision, by : Publisher \cup {Seed}, retired : BOOLEAN]
Reading == [Kind -> Numbers]
Shown == Selection \cup {Nothing}
Quote == [token : 1..MaxCalls, asked : Selection, read : [Kind -> 1..MaxRevision]]
Form == [shown : Shown, quote : Quote \cup {Nothing}, pending : BOOLEAN, searching : BOOLEAN,
         loose : BOOLEAN]
Call == [id : 1..MaxCalls, desk : Desk, asked : Selection, quote : Quote \cup {Nothing},
         details : Details \cup {Nothing}, heard : BOOLEAN, read : Reading, shown : Shown,
         loose : BOOLEAN, pressed : Reading]
Booking == [quote : Quote, details : Details \cup {Nothing}, read : Reading, shown : Shown,
            loose : BOOLEAN, pressed : Reading]

TypeOK ==
  /\ revisions \in [Kind -> SUBSET Revision]
  /\ publishing \in [Publisher -> [kind : Kind, current : 0..(MaxRevision - 1)]]
  /\ told \in [Publisher -> [kind : Kind, revision : Numbers]]
  /\ form \in [Desk -> Form]
  /\ sent \in 0..MaxCalls /\ calls \subseteq Call
  /\ bookings \subseteq Booking

Init ==
  /\ revisions = [kind \in Kind |->
       {[revision |-> 1, by |-> Seed, retired |-> FALSE]}]
  /\ publishing = [p \in Publisher |-> Idle]
  /\ told = [p \in Publisher |-> [kind |-> "tariff", revision |-> 0]]
  /\ form = [d \in Desk |-> Blank]
  /\ calls = {} /\ sent = 0 /\ bookings = {}

-----------------------------------------------------------------------------
(* publishTariffRevision and publishPolicyRevision: a transaction reads    *)
(* what is in force and then replaces it.                                  *)
ReadCurrent(p, kind) ==
  /\ publishing[p] = Idle
  /\ Pair[kind] < MaxRevision
  /\ publishing' = [publishing EXCEPT ![p] = [kind |-> kind, current |-> Pair[kind]]]
  /\ UNCHANGED <<revisions, told, form, calls, sent, bookings>>

(* Revision numbers are unique, and so is a row that is not retired: of    *)
(* two that read the same, the second is rolled back.                      *)
(* Mutant: neither is.                                                     *)
Unique_Never(kind, number) == TRUE
Unique(kind, number) ==
  /\ \A r \in revisions[kind] : r.revision # number
  /\ \A r \in InForce(kind) : r.revision = number - 1
WriteRevision(p) ==
  LET own == publishing[p]
      retire(r) == [r EXCEPT !.retired = @ \/ r.revision = own.current]
      created == [revision |-> own.current + 1, by |-> p, retired |-> FALSE]
  IN
  /\ own # Idle
  /\ publishing' = [publishing EXCEPT ![p] = Idle]
  /\ IF Unique(own.kind, own.current + 1)
       THEN /\ revisions' = [revisions EXCEPT ![own.kind] = {retire(r) : r \in @} \cup {created}]
            /\ told' = [told EXCEPT ![p] = [kind |-> own.kind, revision |-> own.current + 1]]
       ELSE UNCHANGED <<revisions, told>>
  /\ UNCHANGED <<form, calls, sent, bookings>>

-----------------------------------------------------------------------------
(* The form.  A click on an arrangement or on a room's air-conditioning    *)
(* asks for its price, also while an earlier answer is awaited; nothing    *)
(* is asked when the dates or the guests are typed anew.  A search empties *)
(* the form when it is answered, and leaves it alone when it fails; other  *)
(* answers may come before.  loose says that the form may have let its     *)
(* quote and what it shows come apart (history).                           *)
Waits(d) == form[d].searching \/ \E c \in calls : c.desk = d /\ c.heard
Send(d, asked, quote, details, shown, loose, pressed) ==
  /\ sent < MaxCalls /\ sent' = sent + 1
  /\ calls' = calls \cup
       {[id |-> sent + 1, desk |-> d, asked |-> asked, quote |-> quote, details |-> details,
         heard |-> TRUE, read |-> None, shown |-> shown, loose |-> loose, pressed |-> pressed]}

Choose(d, s) ==
  /\ Send(d, s, Nothing, Nothing, s, FALSE, None)
  /\ form' = [form EXCEPT ![d].shown = s, ![d].pending = TRUE, ![d].loose = Waits(d)]
  /\ UNCHANGED <<revisions, publishing, told, bookings>>

Edit(d, s) ==
  /\ form[d].shown \notin {Nothing, s} /\ sent < MaxCalls
  /\ form' = [form EXCEPT ![d].shown = s, ![d].loose = TRUE]
  /\ UNCHANGED <<revisions, publishing, told, calls, sent, bookings>>

(* (As a bound, a second search waits for the first, and nobody searches   *)
(* or edits when no call can follow.)                                      *)
Search(d) ==
  /\ ~form[d].pending /\ ~form[d].searching /\ sent < MaxCalls
  /\ form' = [form EXCEPT ![d].pending = TRUE, ![d].searching = TRUE, ![d].loose = @ \/ Waits(d)]
  /\ UNCHANGED <<revisions, publishing, told, calls, sent, bookings>>

(* Mutant: the quote of an earlier search survives (it breaks the second   *)
(* half of BookedAsConfirmed, as the one below breaks the first).          *)
SearchAnswered_KeepsQuote(d) ==
  /\ form[d].searching
  /\ form' = [form EXCEPT ![d] = [Blank EXCEPT !.quote = form[d].quote,
                                   !.loose = \E c \in calls : c.desk = d /\ c.heard]]
  /\ UNCHANGED <<revisions, publishing, told, calls, sent, bookings>>
SearchAnswered(d) ==
  /\ form[d].searching
  /\ form' = [form EXCEPT ![d] = [Blank EXCEPT !.loose = \E c \in calls : c.desk = d /\ c.heard]]
  /\ UNCHANGED <<revisions, publishing, told, calls, sent, bookings>>

SearchFails(d) ==
  /\ form[d].searching
  /\ form' = [form EXCEPT ![d].pending = FALSE, ![d].searching = FALSE]
  /\ UNCHANGED <<revisions, publishing, told, calls, sent, bookings>>

Confirm(d, details) ==
  /\ form[d].quote # Nothing /\ ~form[d].pending
  /\ Send(d, form[d].quote.asked, form[d].quote, details, form[d].shown, form[d].loose, Pair)
  /\ form' = [form EXCEPT ![d].pending = TRUE]
  /\ UNCHANGED <<revisions, publishing, told, bookings>>

-----------------------------------------------------------------------------
(* loadCurrentBookingConfig, for a quote or a booking: two queries, which  *)
(* run in any order.                                                       *)
LoadCurrentBookingConfig(c, kind) ==
  /\ c.read[kind] = 0
  /\ calls' = (calls \ {c}) \cup {[c EXCEPT !.read[kind] = Pair[kind]]}
  /\ UNCHANGED <<revisions, publishing, told, form, sent, bookings>>
(* Mutant: the first of the two answers is enough.                         *)
Loaded_Either(c) == \E kind \in Kind : c.read[kind] # 0
Loaded(c) == \A kind \in Kind : c.read[kind] # 0

(* A request ends; whoever waits for it hears of it.  A token is of its    *)
(* second; here no two are issued in the same.                             *)
Answer(c, page) ==
  /\ calls' = calls \ {c}
  /\ form' = IF c.heard THEN [form EXCEPT ![c.desk] = page] ELSE form
  /\ UNCHANGED <<revisions, publishing, told, sent>>

CreateQuote(c) ==
  /\ c.quote = Nothing /\ Loaded(c)
  /\ Answer(c, [form[c.desk] EXCEPT !.pending = FALSE,
                  !.quote = [token |-> c.id, asked |-> c.asked, read |-> c.read]])
  /\ UNCHANGED bookings

(* createStaffBooking: the price that is read now must be the quoted one;  *)
(* a request with the token and the details of one that was handled leads  *)
(* to its booking, any other to one of its own.  The form then makes way   *)
(* for the booking's page, and hears nothing any more; a quote that nobody *)
(* hears changes nothing.                                                  *)
(* Mutant: only the tariff is compared.                                    *)
QuoteHolds_TariffOnly(c) == c.read["tariff"] = c.quote.read["tariff"]
QuoteHolds(c) == c.read = c.quote.read
Gone(c, o) == c.heard /\ o.desk = c.desk
Moot(c, o) == Gone(c, o) /\ o.quote = Nothing
Left(c, o) == [o EXCEPT !.heard = @ /\ ~Gone(c, o)]
Repeats(c, b) == b.quote = c.quote /\ b.details = c.details
CreateStaffBooking(c) ==
  /\ c.quote # Nothing /\ Loaded(c) /\ QuoteHolds(c)
  /\ bookings' =
       IF \E b \in bookings : Repeats(c, b) THEN bookings
       ELSE bookings \cup
              {[quote |-> c.quote, details |-> c.details, read |-> c.read,
                shown |-> c.shown, loose |-> c.loose, pressed |-> c.pressed]}
  /\ calls' = {Left(c, o) : o \in {o \in calls \ {c} : ~Moot(c, o)}}
  /\ form' = IF c.heard THEN [form EXCEPT ![c.desk] = Blank] ELSE form
  /\ UNCHANGED <<revisions, publishing, told, sent>>

(* An error leaves the form as it is, with the quote it had before         *)
(* (QUOTE_CHANGED among them: a booking whose quote does not hold is       *)
(* refused, and nothing else can become of it).                            *)
Error(c) ==
  /\ Answer(c, [form[c.desk] EXCEPT !.pending = FALSE,
                  !.loose = @ \/ c.quote = Nothing])
  /\ UNCHANGED bookings

(* No answer comes, and the booking may be made all the same.              *)
AnswerLost(c) ==
  /\ c.quote # Nothing /\ c.heard
  /\ calls' = (calls \ {c}) \cup {[c EXCEPT !.heard = FALSE]}
  /\ form' = [form EXCEPT ![c.desk].pending = FALSE]
  /\ UNCHANGED <<revisions, publishing, told, sent, bookings>>

PricingForm(p) == (\E kind \in Kind : ReadCurrent(p, kind)) \/ WriteRevision(p)
NewBookingForm(d) ==
  \/ \E s \in Selection : Choose(d, s) \/ Edit(d, s)
  \/ Search(d) \/ SearchAnswered(d) \/ SearchFails(d)
  \/ \E details \in Details : Confirm(d, details)

Next ==
  \/ \E p \in Publisher : PricingForm(p)
  \/ \E d \in Desk : NewBookingForm(d)
  \/ \E c \in calls :
       \/ CreateQuote(c) \/ CreateStaffBooking(c) \/ Error(c) \/ AnswerLost(c)
       \/ \E kind \in Kind : LoadCurrentBookingConfig(c, kind)

Spec == Init /\ [][Next]_vars
-----------------------------------------------------------------------------
(* Whoever publishes at the same time, exactly one tariff and one policy   *)
(* are in force, the last; and whoever is told that a revision is live     *)
(* is told the number of one of his own (the unique indexes of the         *)
(* revisions, the rolled-back transaction).                                *)
OneInForce ==
  /\ \A kind \in Kind :
       /\ \E r \in InForce(kind) :
            InForce(kind) = {r} /\ \A s \in revisions[kind] : s.revision <= r.revision
       /\ \A r, s \in revisions[kind] : r.revision = s.revision => r = s
  /\ \A p \in Publisher : told[p].revision # 0 =>
       \E r \in revisions[told[p].kind] : r.revision = told[p].revision /\ r.by = p

(* A booking is charged by a tariff and an advance that were in force      *)
(* together when its Confirm was pressed, though its quote and its own     *)
(* check each read the two apart and may have read a mixture: the two      *)
(* readings agree only if nothing was published between them.  And it is   *)
(* for what the form showed, if staff let each answer come before the next *)
(* click, no quote failed and nothing was edited after the last choice;    *)
(* nothing in the form holds them to it.                                   *)
BookedAsConfirmed ==
  \A b \in bookings :
    /\ b.read = b.pressed
    /\ b.loose \/ b.quote.asked = b.shown

(* What the form says of itself: "Check availability and pick an           *)
(* arrangement first" (NewBookingForm.tsx:199).  So Confirm books the      *)
(* arrangement that was picked, with no exception.                         *)
BooksWhatIsShown == \A b \in bookings : b.quote.asked = b.shown
=============================================================================
