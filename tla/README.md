# Verification of the Honey Dew Beach Camp booking system

This directory models the camp's booking site (Next.js, Prisma, PostgreSQL) in TLA+: its server, and
the pages whose clicks begin a change of state. TLC checks the models on small instances, and TLAPS
proves every safety property the runs check, the refinements and the rules they rest on, for every instance. Paths are relative to the
repository.

## 1. The system

| Part | State it keeps | Operations | Talks to |
|---|---|---|---|
| Booking life cycle (`services/checkout-service`, `allocation`, `payment-service`, `payment-settlement`, `availability-service`, `admin-booking-write`, `manage-booking-service`) | `Booking.status`, `holdExpiresAt`, `RoomReservation`, `PaymentOrder`, `PaymentTransaction` | create a hold, take a desk booking, open an order, settle a payment, expire, drop, allocate a late payment, cancel | locks rooms, then bookings; queues mail; is called by guests, staff, the provider's webhook and the scheduler |
| Checkout (`BookingWizard`, `ConfirmationView`, `quote-service`, the idempotency keys) | address bar, session draft, the page's quote and hold; `IdempotencyRequest` | choose, quote, hold, order, pay, verify, poll | the life cycle |
| Account of a booking (`manage-booking-service`, `ManageBooking`, `BookingActions`, `recordHotelCollection`) | `subtotal`, `advancePaid`, `outstanding`, `contact`, `refundablePaise`, `BookingEvent` | change guests, upgrade, correct the contact, record cash, cancel | pricing rules; queues mail |
| Front desk (`NewBookingForm`, `PricingForm`, `admin-config`, `booking-config-service`) | `TariffRevision`, `BookingPolicyRevision`; the forms | publish, quote, take a booking | the life cycle |
| Room desk (`admin-inventory`, `applyAcUpgrade`, `RoomsBoard`) | the room of a reservation, `RoomBlock`, `acMode` | move, block, release, upgrade | shares rooms, sweep and bookings with the life cycle |
| Notification outbox (`server/notifications`) | `NotificationOutbox`, `NotificationAttempt` | enqueue, deliver, requeue, retry | written inside booking transactions; read by scheduled runs; the mail provider |
| Refunds (`admin-refunds`, `admin-refund-online`, `refunds/refund-otp`) | `Cancellation.refundStatus`, approval codes | approve, reject, process, execute online, reconcile | provider refunds and their webhook |
| Pure rules (`domain/booking`, `lib/booking`) | none | price, slab, distribute guests, rebalance, arrange | everything above |
| Staff accounts, guest sessions, rate limiter | own tables | invite, accept, revoke; count | every request |
| Queries, DTOs, templates, vouchers, static pages | none | read and format | |

What makes it hard:

- **Concurrency.** Serverless handlers and scheduled jobs interleave freely. `createHold`,
  `createStaffBooking`, `allocatePaidUnallocated` and `settleVerifiedPayment` are SERIALIZABLE;
  the rest is READ COMMITTED with row locks, and not always the same ones.
- **Time.** A hold lasts 15 minutes. Each handler reads the clock once, before it waits for locks, and
  decides with that reading. The provider never hears of the deadline.
- **Delivery.** A payment is reported by the webhook and by the browser, late, repeated, out of order. Any
  answer to a page may be lost, and the page asks again.
- **Failure.** Delivery runs may die anywhere; refunds call the provider outside their transaction.

What makes each part correct: rooms are never shared and never lost by a stay in time; captured money is
recorded once and accounted for; the guest is charged what was shown, for rooms that seat the party;
holds end; the balance is price less payments; a quote takes effect once; a desk booking costs what was in
force; a message is delivered or put before staff; a refund is paid once and its status tells what became
of it.

The hazards found while reading are listed with their lines in `PROJECT.json` under `hazards`, with the
properties that cover them.

## 2. Modules

| Module | Role |
|---|---|
| `Stays.tla` | Abstract specification: a stay is open, confirmed, cancelled; a confirmed stay owns suitable rooms, exclusively, until it is cancelled. |
| `Booking.tla` | The life cycle, one action per database transaction. |
| `RoomDesk.tla` | EXTENDS `Booking.tla`: the desk's READ COMMITTED transactions in two steps each, with all booking transactions between. |
| `Rules.tla` | The pure rules, as operators; no state. |
| `Checkout.tla` | EXTENDS `Rules.tla`: one guest's browser and the handlers it calls. |
| `Ledger.tla` | EXTENDS `Rules.tla`: the account of one confirmed booking under its two clients. |
| `FrontDesk.tla` | Publications beside desk bookings. |
| `Outbox.tla` | The notification queue, statement by statement. |
| `Refund.tla` | The refund of one cancellation, its approval codes, the provider and its webhook. |
| `MC*.tla`, `MC*.cfg` | Constants for TLC, one module per specification. |
| `BookingProofs`, `RoomDeskProofs`, `RulesProofs`, `CheckoutProofs`, `LedgerProofs`, `FrontDeskProofs`, `OutboxProofs`, `RefundProofs` | Theorems about the specification of that name, checked by TLAPS. |

A definition whose name ends in `_Something`, just before a definition of the same name, is a plausible bug
of it (a "mutant"). `PROJECT.json` pairs each property of a passing run with one, under which TLC finds
the property violated; so each property is about something the code could get wrong.

### Booking.tla

State: `status`, `holdExpires` (Booking), `resv` (the at most one live `RoomReservation` of each
booking room; a RELEASED row is "NONE"), `order` (the online `PaymentOrder`), `recorded` (has a
`PaymentTransaction`), `outbox` (queued notifications), `payment` (what the provider captured), `now`.

| Action | Code |
|---|---|
| `CreateHold`, `CreateStaffBooking` | `createHold`, `createStaffBooking`, each with the whole of `allocateRooms`: lock, sweep lapsed holds, find free rooms, assign, write |
| `CreatePaymentOrder` | `createPaymentOrder` |
| `Capture` | the provider (environment) |
| `SettleConfirmed`, `SettleUnallocated` | the two outcomes of `settleVerifiedPayment` that write; its other outcomes change nothing or roll back |
| `ExpireStaleHolds`, `ExpireStaffHold` | the scheduled job; the desk dropping a hold |
| `AllocatePaidUnallocated` | rooms for a payment that came too late |
| `CancelManagedBooking` | cancellation |

Decisions a reader should know:

- A handler's reading of the clock is any time in `Reading`: up to `MaxLag` old (transactions wait at
  most 5 s and run at most 10 s). So a settlement may well decide with a time before the deadline
  after the deadline has passed.
- A SERIALIZABLE transaction, or one that locks the booking before it decides, is one atomic step.
  The one case in which that is too strong is modelled: an order opened just before the deadline may
  be invisible to a SERIALIZABLE sweep's snapshot and stay open on the expired booking (`Unseen`).
- `assignRooms` takes the first room that fits; the model allows any assignment that fits. Where the rooms
  of a group are alike, as `prisma/seed.ts` makes them, one succeeds whenever the other does (`FirstFitNeverStuck`).
- An allocation sweeps only the groups it locked, as the code does, so a booking can expire and keep a
  held row in another group.
- `Lifecycle` says what the code does, not what `state-machine.ts` says: its table is `Legal`, and
  `LegalTransitions` (nothing follows EXPIRED) is false, since the desk revives an expired booking for
  money that came late (finding 8).
- `STAFF_ALERT_EMAIL` is assumed to be set; without it `notifyPaymentException` returns silently.
- Amounts, contacts and collections are in `Ledger.tla`; quotes, retries and keys in `Checkout.tla`.

### RoomDesk.tla

`reassignBookingRoom` and `createRoomBlock` read the lapsed holds (`MoveBegin`, `BlockBegin`) and write
later (`DeskCommit`), or roll back (`DeskAbort`). Between the two steps any booking action may run
that needs neither the rooms of the locked group nor the locked booking (`HoldsRooms`,
`LocksRespected`); in particular a settlement, which locks no room. One desk transaction runs at a time:
two in the same group exclude each other by the room locks, and two in different groups touch
different rows. The transaction is rolled back when older than `MaxLag`. `ApplyAcUpgrade` holds all its locks
from before its reads and is one step; `ReleaseRoomBlock` is one step. `RoomsBoard` gathers what the
pages `RoomsBoard` and `RoomsPanel` can begin.

Beside the desk `KeepsPromise` is false (finding 3). `DeskKeepsPromise` says what is left of it: every step that
takes no room from a confirmed stay (`LostRooms`) is a step of `Stays.tla` or none.

### Rules.tla

A party is a record of three counts, a room a record of group, air-conditioning and guests.
`DistributeGuests` is written as what the loop computes (the guests stand in line, each room takes the
next of them) and `Offers` as a ranking instead of a sort; `RebalanceRooms`, `EvenParts`, `RoomPrice`,
`DeductionBasisPoints` and `AdvanceOf` follow the code. Stays are of one night, as the number of nights
multiplies every price. `Seatable` is the reference `Offers` is compared with: free rooms can be chosen and
filled to seat the party, in whatever way. There is no run of this module alone: what its operators must do is said in
`GuestsSeated` (`Checkout`), and in `PriceOfRooms` and `RefundAsQuoted` (`Ledger`).

### Checkout.tla

| Variable | Code |
|---|---|
| `page`, `party` | the address bar of `BookingWizard.tsx` |
| `draft` | the rooms in session storage |
| `quote`, `hold`, `doing` | the page's memory: `authoritative`, `checkoutHold`, and which call of `pay()` is awaited |
| `requests`, `sent` | create-hold requests without an answer |
| `requotes`, `overtaken` | quotes asked for after QUOTE_CHANGED and not answered; one of them replaced the quote being paid (history) |
| `script` | the tag of the provider's script: absent, loaded, failed |
| `holds` | this guest's bookings, each with its order and payment |
| `taken`, `tariff`, `now` | other guests' rooms, the tariff in force, the clock |
| `view`, `polls` | `ConfirmationView.tsx` |

`pay()` is a chain of calls (`Pay`, `CheckHold`, `CreateHold`, `CreatePaymentOrder`, `LoadScript`,
`Authorise`, `VerifyPayment`). At each the page may stop waiting (`GiveUp`) while the server goes on, and the guest may
try again; so two requests with one key can be under way, be refused apart, or find each other's record.
`CheckHold` keeps the order of the code: the quote's expiry and price come *before* the replay is looked
up, so a retry after a publication is answered with QUOTE_CHANGED although its hold exists. An order is
answered from its record whatever became of the hold. Going back and forth remounts the page and loses
its memory; `GoToOldAddress` restores an address without its draft; `Reload` loses the scripts too.

After QUOTE_CHANGED the code gives the button back, then asks for the new price and shows it whenever it
comes. So `CheckHold` only refuses and asks (`AskAgain`); `Requote` is the server's part and
`AnswerQuote` the page's, and between them the guest may have pressed Pay again, by this quote or a newer one.
`LoadScript` is `ensureRazorpayScript`: a script that failed leaves its tag, and who finds it waits
for events that have been (`Leftover`); only `Reload` leads out.

The contact details and the dates do not change, and one tab is open. Using the browser's own back button
in the middle of `pay()` is left out. The page is gone then but its chain of calls is not: it may still open the
provider's window over another page, and lead from there to the confirmation.

### Ledger.tla

State: the money fields, rooms and party of one booking, its `BookingEvent` rows by type and key
(`events`), dedupe keys of its mails, the signed `quotes` handed out, the open forms of the guest and of the
desk (`form`, `hand`, `shown`). Each command locks the booking and is one step; quotes are read without
the lock. A signed quote may be applied at any time until it expires, as often as anyone sends it. A
contact or a sum stays in its form until an answer comes and may be handled again meanwhile.

Two histories name what the code does not get right, so that the properties can say nothing else goes
wrong: `forgot`, an amendment came after the hotel had collected more than the advance (finding 6);
`reused`, a new command had the content, and so the key, of an old one (finding 5).

`RefundAsQuoted` compares a cancellation's dialog with the terms as the guest reads them
(`PublishedPercent`, from `data/policies.ts`), which the server's slabs in `domain/booking/cancellation.ts`
repeat in other terms, and then the refund with the dialog.

### FrontDesk.tla

`ReadCurrent`/`WriteRevision` are the two halves of a publication; the unique indexes are the guard
`Unique`. A request for a quote or a booking is a record in `calls` that reads the tariff and the policy
apart (`LoadCurrentBookingConfig`, in either order) and then ends in `CreateQuote`,
`CreateStaffBooking` or `Error`; its answer may be lost. The form sends a request with every click,
also while one is awaited. A search is three actions, as it may be answered or fail and its end clears the flag
`pending` that quotes and bookings rely on (`Search`, `SearchAnswered`, `SearchFails`). A booking request is
answered from the record only if its token and its details are those of one handled before (`Repeats`): a quote
asked anew has another token. There is no clock: an expired quote, taken rooms, and a query whose time lies
before a publication are errors a request may meet at any time. The history `loose` marks a form whose
quote and picture may have come apart: an arrangement was chosen or a search begun while an answer was
awaited, a quote failed, or the form was edited after the quote. All are possible in `NewBookingForm.tsx`, which
clears the quote only when a search succeeds and disables `Confirm` only while `pending` (finding 11). What is
left is not empty: a search that kept the old quote (`SearchAnswered_KeepsQuote`) would break the second
half of `BookedAsConfirmed` on a form that is not loose, as `QuoteHolds_TariffOnly` breaks the first.

### Outbox.tla

`row` is the table, `todo` what a run read and has not handled (with the attempt count as it was then),
`doing` the message it claimed. Each statement is a step; the two writes that record an attempt are one
transaction. `Crash` may strike a run between any two steps, `Send` may fail after the mail was
accepted, and a staff retry (`AdminNotificationsPage`) reads (`RetryRead`) and writes (`RetryWrite`)
apart, as the code does. The batch limit and the order of the batch are left out. `reopened` marks the
messages staff gave back: since a run keeps the attempt count it read, a retry may be followed by an
early dead letter, and by a second delivery; the properties say what holds then, and more without it.

### Refund.tla

State: `refundStatus` and `reference` (Cancellation), `code` (`RefundOtpChallenge` rows), `desk` (how far
each staff request is), `refund` and `events` (the provider), `hooks` (webhook handlers between
read and write), `byHand`, `told`. Nothing in this code locks a row, so each transaction is a read and
a write by id: `UpdateRead`/`UpdateWrite` for `updateRefundStatus`, `ExecuteRead`, `ExecuteClaim`,
`FindExistingRefund`, `CreateRazorpayRefund`, `ExecuteRecord`, `RevertRead`/`RevertWrite` for
`executeOnlineRefund`, `ReconcileRead`/`ReconcileWrite`/`HookTells` for the webhook. `RefundActions` is
what the page can begin. The issue of a code is one step; that two at once may exceed the limit of five
is not modelled.

The histories `cut` and `repeated` mark the behaviours the code does not recover from. `cut` names what has cut
the work short: `"refusal"` and `"answer"`, the provider refused the refund (`CreateRefused`) or its answer never
came (`AnswerLost`), and the claim stays, as no `catch` surrounds the call; `"death"`, a request died after
its claim; `"early event"`, an event came before the reference it is looked up by; `"mail"`, a process
died between commit and mail. `repeated` is a failure reported a second time, which may hit the next
attempt while the reference is still that of the last. `RefundSettles` and `GuestLearns` say that nothing else
goes wrong; that these do is finding 7, with a run of its own, and finding 12. A wrong code is no action: its count of attempts is written in
the transaction that its exception rolls back, so it changes nothing (`refund-otp.ts:149-155`); the limit of five wrong
attempts in `docs/payments.md:44-45` is therefore never reached.

## 3. Runs

| Run | Result | Shows |
|---|---|---|
| `booking` | passes, about 157,000 states | `RoomsMatchStatus`, `NoDoubleBooking`, `MoneyAccounted`, `GuestIsTold`, `Lifecycle`, `KeepsPromise` (implements `Stays.tla`), `HoldsEnd`, `MoneyArrives` |
| `room_desk` | passes, about 160,000 states | `RoomsApart`, `RoomsDeliver`, `OnlyLateRoomsAreLost`, `DeskKeepsPromise` |
| `checkout` | passes, about 462,000 states | `ShownIsCharged`, `OneHoldPerQuote`, `GuestsSeated`, `RoomsSuffice`, `PayEnds` |
| `ledger` | passes, about 403,000 states | `BalanceOwed`, `AdvanceFirst`, `PriceOfRooms`, `AmendedOnce`, `RefundAsQuoted`, `FreshCommandsCount`, `CancelledIsClosed` |
| `front_desk` | passes, about 2,030,000 states | `OneInForce`, `BookedAsConfirmed` |
| `outbox` | passes, about 46,000 states | `OneDelivery`, `StatusIsEarned`, `MailSettles` |
| `refund` | passes, about 23,000 states | `PaidOnce`, `StatusMatchesMoney`, `RefundSettles`, `GuestLearns` |
| `stranded_hold` | violated | finding 1 |
| `sweep_race` | violated | finding 3 |
| `code_pays_twice` | violated | finding 4 |
| `commands_lost` | violated | finding 5 |
| `refund_stuck` | violated | finding 7 |

Each passing run also checks its module's type invariant.

Five more configurations hold counterexamples that belong to findings and are no runs of `PROJECT.json`. Each
states without exception what a passing run states with one (or, for the last, what a sequential
reading shows as well); `tlc -config X.cfg M` prints the trace.

| Configuration | Module | Property it refutes | Finding |
|---|---|---|---|
| `MCExpiredRevived.cfg` | `MCBooking` | `LegalTransitions` | 8 |
| `MCReviewed.cfg` | `MCCheckout` | `ReviewedIsCharged` | 9 |
| `MCWindowOpens.cfg` | `MCCheckout` | `WindowOpens` | 10 |
| `MCUnseenStay.cfg` | `MCFrontDesk` | `BooksWhatIsShown` | 11 |
| `MCMismatch.cfg` | `MCBooking` | `MismatchAlerted` | 2 |

Bounds, and why they are enough:

- *Booking.* One booking asks for a single-bed and a double-bed room with air conditioning, one
  competes for the single-bed room on an overlapping night, one for the double-bed rooms. Sweeping
  of one group of a mixed booking, exhaustion of a group, the air-conditioned room being taken, and
  stays that touch without overlapping all occur. Ticks are relative to `HoldTtl = 1` and `MaxLag = 1`;
  with `MaxTime = 2` a hold made at 0 passes its deadline with stale readings on both sides of it, and
  its rooms can be held anew while its late payment is on the way. Runs of two bookings use 2 and 4.
- *Desk.* Two bookings, three rooms, one block that may be put on any room and remade; `HoldTtl = 2`.
- *Checkout.* A room of each group; a party for the single-bed room and one for the double-bed room. Three requests and
  `MaxTariff = 3`: a retry beside its original needs two, and a re-quote that comes while a newer price is paid
  needs three tariffs and three requests. `MaxTime = 2`: a quote (one tick) and a hold (two) that lapse. One visit of the
  pay page with air-conditioning left off: a second visit begins with a fresh quote, and the mode only changes
  the price.
- *Ledger.* A single-bed and a double-bed room, advance or more already paid or not, sums below and beyond
  the advance, one party that forces a rebalance, three commands in any order; 49 and then 48 hours to check-in, the boundary of a
  slab, and then a time after check-in.
- *Front desk.* Two publishers, one desk with two choices and two sets of details, two revisions of each kind, three
  calls: two quotes that overtake each other and a booking, or a quote and a booking sent twice; and searches
  whenever nothing is pending.
- *Outbox.* One message and two overlapping runs (messages do not interact, except through the order
  in a batch), 3 attempts instead of 5 so that first, middle and last differ, one crash and one retry.
  The bounds `MaxCrashes` and `MaxRetries` also make the fairness of `MailSettles` fair: a queue whose
  every run crashes delivers nothing.
- *Refund.* Two codes and two provider refunds: an attempt, its failure, and another attempt under a code
  requested when the first had left the window (`MaxRequests = 1`); a third attempt meets nothing new. `MaxMishaps = 2`
  crashes, failed lookups or repeated events, in any combination; refusals and lost answers are not bounded. One request of staff at a time, except
  in `code_pays_twice`: two at once is what finding 4 is about.

The theorems of section 5 have none of these bounds.

`CHECK_DEADLOCK FALSE` everywhere: time and requests are bounded, and a finished set of bookings or
messages, or a refund staff leave alone, rests. Symmetry is used in `front_desk` (publishers, choices, details) and
`code_pays_twice`, which check invariants only.

Fairness, and what in the code justifies it: the expiry job and the delivery runs are called every
five minutes (`.github/workflows/scheduled-tasks.yml`), so `WF(ExpireStaleHolds)` and `WF(StartRun)`; a
webhook that was not answered with success is delivered again by the provider, so `WF(Settle)`, which stays enabled until the payment is
recorded, and this is what makes up for `settleVerifiedPayment` not being retried; a handler that was started
goes on unless it crashes; the refund provider settles and reports what is pending; time passes. In `Checkout.tla`
the handlers answer and the confirmation page's timer fires (`WF` of `CheckHold`/`CreateHold`, `CreatePaymentOrder`,
`LoadScript`, `VerifyPayment`, `PollCheckout`); nobody makes the guest pay, close the provider's window or reload, so
`PayEnds` counts that window as an end. No fairness is assumed of guests or staff, except in `refund_stuck`: there
staff press whatever button is enabled (`PersistentSpec`), and the refund stays stuck in spite of them.

## 4. Findings

1. **Stranded holds** (`allocation.ts:92`). The sweep expires a booking but releases only its rows in the
   locked groups. The rest stays HELD on an EXPIRED booking, blocking the room for those nights, against
   `docs/manual-launch-blockers.md:139-140`. Only allocating a late payment frees it.
2. **No alert for a wrong amount** (`payment-settlement.ts:118`). The alert is rolled back by the exception
   that follows it, against `docs/notifications.md:44`.
3. **A paid stay can lose its room** (`allocation.ts:92`). At READ COMMITTED the sweep releases by id a row
   that a settlement confirmed after the sweep had read it, against the comment at `allocation.ts:60-64`.
   `OnlyLateRoomsAreLost` bounds the damage: only stays whose deadline has passed are exposed.
4. **A code can pay twice** (`admin-refund-online.ts:65`). Two confirmations with one code that read before
   either commits both claim the refund, find no refund by its receipt and create one each, against the comment at
   `admin-refund-online.ts:50-51`. Whether the second is paid then depends on the provider (a partial refund leaves room for it).
5. **Repeated commands are dropped as retries** (`booking-service.api.ts:54`). The key of a command is made
   from its content: a second collection of the same sum, or a contact that is changed back, is
   answered with success and not recorded, against the comment at `booking-service.api.ts:52-53`.
   `FreshCommandsCount` says that this is the only way to lose one.
6. **Amendments forget hotel money** (`manage-booking-service.ts:243`, `:367`). They recompute the balance
   from the advance alone, so what the hotel collected beyond it is owed once more, although the guest is
   told that the difference is "added to the hotel balance" (`ManageBooking.tsx:240`). `BalanceOwed` says that the
   balance is exact unless this happened, and never too low.
7. **A refused or unanswered refund is stuck** (`admin-refund-online.ts:91`). The claim is committed before the provider is
   called, and nothing catches an error of the call: the refund stays PROCESSING without a reference, no
   request accepts it any more, and no webhook finds it. The comment at `admin-refund-online.ts:52-53` says "a lost
   response is safe because re-execution finds the existing refund by receipt and reuses it" (so does
   `docs/payments.md:49-50`), and `razorpay-refunds.ts:55` tells staff to "Try again."
8. **An expired booking can be confirmed** (`admin-booking-write.ts:262`). `state-machine.ts:7` and its test allow
   nothing after EXPIRED, and `docs/payments.md:23-24` calls `settleVerifiedPayment` "the only place a booking becomes
   `CONFIRMED`"; `allocatePaidUnallocated` asks `canTransition` about another status and confirms the booking, and
   `createStaffBooking` makes confirmed ones. `Lifecycle` says that this needs recorded money.
9. **A late price replaces the one being paid** (`BookingWizard.tsx:770-773`). With two publications the answer to
   the first QUOTE_CHANGED may come when the guest already pays by a newer quote. The page then shows a
   price that is not the one charged, against its own "Review the updated advance before trying again" (`:774`).
   `ShownIsCharged` says that the rooms are always those shown, and the price unless this happened.
10. **A script that failed once blocks the page** (`razorpay-checkout.ts:43-53`). The next attempt waits for events of the old
   script tag that have already fired: no window, no message, and Pay and Back stay disabled, against
   `docs/payments.md:12-13`. `PayEnds` says that nothing else keeps the page busy.
11. **The desk can confirm what the form does not show** (`NewBookingForm.tsx:70`, `:49-53`). Answers of quotes arrive in any
   order, and any answer, a failed search among them, enables Confirm while another is on its way; editing the dates
   keeps the quote. The form asks no more than "Check availability and pick an arrangement first" (`:199`).
   `BookedAsConfirmed` says that a form used one click at a time books what it shows, at a price in force.
12. **The mail about a refund may be lost** (`admin-refund-online.ts:206`). It is queued after the commit that makes it true, against
   `docs/architecture.md:31-32` ("in the same transaction"). `GuestLearns` says that only a death between the two loses it
   (or that a failure reported again has undone the payment).

Smaller observations, which no property needs: `createHold` checks a quote's expiry and price before it looks for the
replay (see `Checkout.tla`); a publication between its two queries makes `loadCurrentBookingConfig` answer
BOOKING_CONFIG_MISSING for a moment (`booking-config-service.ts:12`); a pricing form published after
another's publication overwrites it without a warning; the twin of a desk booking meets the unique key as an
uncaught database error in `createStaffBooking`.

## 5. Proofs

All theorems hold for any finite or infinite sets of bookings, rooms, staff, messages and refunds, any
dates, amounts and bounds, from the `ASSUME`s of the modules alone, which TLC evaluates in the runs.
(Those of `Ledger.tla` and `Checkout.tla` say that the booking begins with rooms let to numbers they take, that parties
are parties and the stock is a number of rooms; those of `Rules.tla` that published rates are even, so that
a child's half is one too.) Two theorems have hypotheses of their own: those of `RefundProofs` about money assume `OneDesk`,
and `FirstFitNeverStuck` that a group's rooms are alike and a booking's rooms finitely many.
Each module of proofs has an inductive invariant, one lemma or step per action and under it one step per conjunct
the action can disturb. Why the invariants are stronger than the properties:

- **BookingProofs** (`IInv`). Two facts are added: `RoomsFit` (every row is on a suitable room: without
  it an allocation could not be mapped to `Stays!Confirm`) and `OrdersFollowHolds` (no order or deadline
  without a booking that was held: without it `MoneyAccounted` and `GuestIsTold` are not inductive). The
  heart is `AllocationEffect`: what a sweep followed by an assignment does to the rows, shown once and
  used by the three actions that allocate. Free rooms are free against *all* rows, lapsed ones
  included, which is why no double booking needs no assumption on clocks. Proved: `TypeOK`,
  `RoomsMatchStatus`, `NoDoubleBooking`, `MoneyAccounted`, `GuestIsTold`, the action property
  `Lifecycle`, and `ImplementsStays`: `Spec => Promise!Spec` under the mapping `StayLife`, `StayRoom`. The
  steps of the refinement only use `StayInv`, a weaker invariant that the desk keeps too.
  `FirstFitNeverStuck` is about `assignRooms`: if an assignment exists and some of the booked rooms have been
  given rooms, in any way, the others in the group are more than those, so by the pigeonhole principle
  the assignment uses a room for them that is still free.
- **RoomDeskProofs** (`DeskInv`). `RoomsMatchStatus` fails beside the desk (finding 3); what is left of it
  is that a hold which still waits has all its rows (`HoldsWhole`), that what a transaction has read as
  lapsed stays past its deadline (`DeskReads`), and that an upgraded stay never waits for payment again
  (`UpgradesFinal`). Proved: `DeskTypeOK`, `RoomsApart`, `RoomsDeliver`, `OnlyLateRoomsAreLost`; `MoneyAccounted`,
  `GuestIsTold` and `Lifecycle` with the desk running; and `DeskImplementsStays`, which is `DeskKeepsPromise`. That
  one rests on `RowsFollowStatus`: a stay may lose rows, but every row left agrees with the status
  (`RowKept` says of each step, and each row, how). A move or an upgrade of a confirmed row is then
  `Stays!Move` (`MoveStep`): the room was found free after the sweep, and the sweep freed no room of a
  confirmed stay, or a room would be newly lost. So finding 3 is the *only* way the desk breaks the promise.
- **RulesProofs** (no state). Prices and parties are sums over rooms, in an order `SumFunction` does not tell. Two
  facts make them tractable: of the subsets of a finite set with some property one is smallest (`Minimal`), an
  induction that needs no predicate to instantiate; so a sum can be taken apart at any element (`SumRemove`). On these rest
  the theorems about `RebalanceRooms` (`RebalancedFits`: the result seats exactly the party, each room let to a number it
  takes; `RefusedIfImpossible`: it refuses only where nothing else is possible either), prices
  (`PriceOfFitting`) and arrangements: candidates seat the party in free rooms (`CandidatesFit`), the ranking leaves
  something of any pool (`SomethingIsOffered`), and so a party is offered something exactly when it is `Seatable`
  (`SeatableIsOffered`).
- **CheckoutProofs** (`CheckoutInv`, `StockInv`). The page's quote is that of its draft (`Quoted`), and so is every
  re-quote on its way (`Asked`); the request it waits for has the rooms of its quote, and its tariff unless a
  re-quote overtook it (`Awaiting`), and so has the hold it pays for (`Held`); every hold has
  the terms of its quote, which no request passes with the price of another tariff. Proved: `TypeOK`,
  `ShownIsCharged`, `OneHoldPerQuote`, `GuestsSeated` (its half about offers from `RulesProofs`). `RoomsSuffice` needs
  `StockInv`: only a new hold and another guest use more rooms, both look at what is free first, and a hold
  that has lapsed is never live again, so what all holds use (`Loads`, a sum) only shrinks otherwise.
- **LedgerProofs** (`LedgerInv`, `AccountInv`). A mail is only queued with the event it tells of (`Mailed`); a
  cancellation quote is what the slab of its time gives (`Quoted`), which is the published share
  (`RefundIsPublished`); a fresh command can be on record only because
  it was itself handled (`Handled`). That waiting never pays rests on the slabs: `DeductionBySlab`,
  `ShareGrows`, `RefundShrinks`. Proved: `AdvanceFirst`, `AmendedOnce`, `RefundAsQuoted`,
  `FreshCommandsCount`, `CancelledIsClosed`. `AccountInv` adds that the booking keeps its rooms, all let to numbers they take,
  at their price (`RoomsInv`), that quotes and events are of their kinds (`RecordsOk`), and that the account never shows
  more cash than was handed over (`CashCovers`). Proved with it: `TypeOK`, `PriceOfRooms` and `BalanceOwed`.
- **FrontDeskProofs** (`IInv`). What a quote has read is no newer than what was in force when Confirm was
  pressed, and what the booking reads is no older, and numbers only grow, so equal readings are the
  pair of that moment (`Ordered`); while a form is not loose, a quote it waits for is all it waits for, and the quote it
  has is for what it shows, whatever searches are answered or fail (`Together`).
  Proved: `TypeOK`, `OneInForce`, `BookedAsConfirmed`.
- **OutboxProofs** (`IInv`). A message nobody gave back has one sender (`OneSender`), is never counted
  beyond its failures though counters go stale (`Counted`), and what will be recorded as sent was
  accepted (`OkAccepted`). Proved: `TypeOK`, `OneDelivery`, `StatusIsEarned`.
- **RefundProofs** (`IInv`). What has been paid by each status (`Money`), what a request may rely on at
  each stage (`Stages`), and that the news of a failure still on its way concerns the last refund (`News`).
  `TypeOK` for any number of staff requests at once; `PaidOnce` and `StatusMatchesMoney` while staff work
  with one at a time (`OneDesk`, without which finding 4 refutes them).

Only model-checked: liveness (`HoldsEnd`, `MoneyArrives`, `MailSettles`, `RefundSettles`, `GuestLearns`,
`PayEnds`), which needs fairness and ENABLED and is out of the prover's reach.

## 6. Not modelled

- *Staff accounts, invitations, sessions; guest sessions.* Each operation reads one row and writes it, and no other
  part's state depends on who is signed in: the models let staff and guests act at any time. The one race
  (two acceptances of one invitation) leaves the later password in force.
- *Rate limiter.* One atomic increment per request; whom it refuses changes nothing.
- *Queries, DTOs, vouchers, mail templates, static pages, logging.* Read and format.
- *Contact enquiries.* They queue one message, and the queue is `Outbox.tla`.
- *Provider adapters.* HTTP, signatures and clock skew; the calls themselves are in `Checkout.tla` and `Refund.tla`.
  The development provider settles in one call and cannot run in production.
- *First fit.* `Booking.tla` allows every assignment, so what holds there holds of first fit. In a group of which
  some rooms have air conditioning and some do not, first fit may refuse a request that another assignment
  would serve; no run shows it, as nothing in the repository promises otherwise.
- *Steps of the wizard before the arrangement* (dates, contact): they set values the models keep fixed.
- *The note that a late payment was refunded by hand* (`notePaidUnallocatedRefund`): free text that decides nothing,
  so the desk may still allocate rooms for that payment.

Database constraints are guards where the code relies on them: the unique provider payment id, the unique
idempotency key, the unique live revision. Elsewhere the invariants show that the transactions respect
them. PostgreSQL's deadlock detector and serialization failures appear as rolled-back steps.

## 7. What is left

1. `Checkout.tla` with two tabs sharing one draft.
2. Approval codes issued by two requests at once, and their limit of five.
3. An abstract specification of a refund (paid once, told of) that `Refund.tla` implements with one request at a time.
