------------------------------- MODULE Refund -------------------------------
(***************************************************************************)
(* The refund of one cancellation: review by staff, payment by hand, or    *)
(* online with an approval code (admin-refunds.ts, admin-refund-online.ts, *)
(* refund-otp.ts), beside the provider and its webhook.  Nothing here      *)
(* takes a lock: a transaction reads the cancellation, decides, and writes *)
(* it by its id, at READ COMMITTED, so the read and the write are steps of *)
(* their own; only the issue of a code is one step.                        *)
(*                                                                         *)
(* Refunds of other cancellations are independent.  Amounts are left out:  *)
(* "too much" is one more way for a request to be refused.  A request with *)
(* a wrong or foreign code changes nothing, its count of attempts included *)
(* (the exception rolls that back), so it is no action.                    *)
(***************************************************************************)
EXTENDS Integers, FiniteSets

CONSTANTS
  Desk,          \* requests of staff that may be under way at once
  Code,          \* approval codes that may be issued
  Refund,        \* refunds the provider may create
  NoCode, NoRefund,
  ByHand,        \* the reference of a payment out of band
  MaxRequests,   \* REFUND_OTP_MAX_REQUESTS_PER_WINDOW
  MaxMishaps     \* bound on crashes, failed lookups and repeated events

ASSUME RefundAssumption ==
  /\ NoCode \notin Code
  /\ NoRefund \notin Refund /\ ByHand \notin Refund /\ ByHand # NoRefund
  /\ IsFiniteSet(Code) /\ IsFiniteSet(Refund)
  /\ MaxRequests \in Nat /\ MaxMishaps \in Nat

VARIABLES
  refundStatus,  \* Cancellation.refundStatus
  reference,     \* Cancellation.providerRefundReference
  code,          \* RefundOtpChallenge rows
  desk,          \* what each request has done so far
  refund,        \* the provider's refunds, all with this cancellation's receipt
  events,        \* refund.processed and refund.failed on their way
  hooks,         \* events whose handler has read the cancellation
  byHand,        \* payments recorded by hand, counted up to 2
  told,          \* the mail refund-processed:{id} is queued
  cut,           \* what has cut the work on the refund short (history)
  repeated,      \* the failure of a refund was reported again
  mishaps

cancellation == <<refundStatus, reference>>
provider == <<refund, events>>
faults == <<cut, repeated, mishaps>>
vars == <<cancellation, code, desk, provider, hooks, byHand, told, faults>>

Status == {"PENDING_HOTEL_REVIEW", "APPROVED", "PROCESSING", "PROCESSED", "REJECTED"}
RefundState == {"none", "pending", "processed", "failed"}
Action == {"approve", "reject", "process"}
Stage == {"idle", "mailing", "checked", "claimed", "paying", "answered",
          "reverting", "telling"} \cup Action
Cause == {"refusal", "answer", "death", "early event", "mail"}
Event == [refund : Refund, state : {"processed", "failed"}]
Idle == [stage |-> "idle", code |-> NoCode, refund |-> NoRefund, seen |-> "none"]

TypeOK ==
  /\ refundStatus \in Status
  /\ reference \in Refund \cup {NoRefund, ByHand}
  /\ code \in [Code -> [state : {"none", "live", "expired", "gone"}, used : BOOLEAN]]
  /\ desk \in [Desk -> [stage : Stage, code : Code \cup {NoCode},
                        refund : Refund \cup {NoRefund}, seen : RefundState]]
  /\ refund \in [Refund -> [state : RefundState, code : Code \cup {NoCode}]]
  /\ events \subseteq Event
  /\ hooks \subseteq [event : Event, stage : {"write", "tell"}]
  /\ byHand \in 0..2
  /\ told \in BOOLEAN /\ cut \subseteq Cause /\ repeated \in BOOLEAN
  /\ mishaps \in 0..MaxMishaps

(* cancelManagedBooking leaves a refund to pay in the review queue.        *)
Init ==
  /\ refundStatus = "PENDING_HOTEL_REVIEW" /\ reference = NoRefund
  /\ code = [c \in Code |-> [state |-> "none", used |-> FALSE]]
  /\ desk = [d \in Desk |-> Idle]
  /\ refund = [r \in Refund |-> [state |-> "none", code |-> NoCode]]
  /\ events = {} /\ hooks = {}
  /\ byHand = 0 /\ told = FALSE
  /\ cut = {} /\ repeated = FALSE /\ mishaps = 0

(* A request goes on to its next stage; it ends.                           *)
GoTo(d, stage) == desk' = [desk EXCEPT ![d].stage = stage]
Done(d) == desk' = [desk EXCEPT ![d] = Idle]

Made(r) == refund[r].state # "none"

-----------------------------------------------------------------------------
(* updateRefundStatus: the status each action asks for, and the one it     *)
(* writes.                                                                 *)
Asks == [approve |-> {"PENDING_HOTEL_REVIEW"},
         reject |-> {"PENDING_HOTEL_REVIEW", "APPROVED"},
         process |-> {"APPROVED"}]
Writes == [approve |-> "APPROVED", reject |-> "REJECTED", process |-> "PROCESSED"]

UpdateRead(d, action) ==
  /\ desk[d] = Idle
  /\ refundStatus \in Asks[action]
  /\ GoTo(d, action)
  /\ UNCHANGED <<cancellation, code, provider, hooks, byHand, told, faults>>

(* "process" records what staff paid out of band, then the route notifies. *)
UpdateWrite(d) ==
  LET action == desk[d].stage IN
  /\ action \in Action
  /\ refundStatus' = Writes[action]
  /\ IF action = "process"
       THEN /\ reference' = ByHand
            /\ byHand' = IF byHand = 2 THEN 2 ELSE byHand + 1
            /\ GoTo(d, "telling")
       ELSE /\ Done(d)
            /\ UNCHANGED <<reference, byHand>>
  /\ UNCHANGED <<code, provider, hooks, told, faults>>

-----------------------------------------------------------------------------
(* requestRefundOtp: at most MaxRequests codes in a window, each mailed    *)
(* before the answer; a code that could not be mailed is deleted.          *)
RecentCodes == {c \in Code : code[c].state \in {"live", "expired"}}

RequestRefundOtp(d, c) ==
  /\ desk[d] = Idle
  /\ refundStatus = "APPROVED"
  /\ Cardinality(RecentCodes) < MaxRequests
  /\ code[c].state = "none"
  /\ code' = [code EXCEPT ![c].state = "live"]
  /\ desk' = [desk EXCEPT ![d].stage = "mailing", ![d].code = c]
  /\ UNCHANGED <<cancellation, provider, hooks, byHand, told, faults>>

MailCode(d) ==
  /\ desk[d].stage = "mailing"
  /\ code' \in {code, [code EXCEPT ![desk[d].code].state = "gone"]}
  /\ Done(d)
  /\ UNCHANGED <<cancellation, provider, hooks, byHand, told, faults>>

(* Ten minutes after its issue a code is expired, after fifteen forgotten. *)
Expire(c) ==
  /\ code[c].state \in {"live", "expired"}
  /\ code' = [code EXCEPT ![c].state = IF @ = "live" THEN "expired" ELSE "gone"]
  /\ UNCHANGED <<cancellation, desk, provider, hooks, byHand, told, faults>>

-----------------------------------------------------------------------------
(* executeOnlineRefund, first transaction: what it reads, and the claim.   *)
(* consumeRefundOtp writes the code by its id, used or not by then.        *)
Verifies(c) == code[c].state = "live" /\ ~code[c].used

ExecuteRead(d, c) ==
  /\ desk[d] = Idle
  /\ refundStatus = "APPROVED"
  /\ Verifies(c)
  /\ desk' = [desk EXCEPT ![d].stage = "checked", ![d].code = c]
  /\ UNCHANGED <<cancellation, code, provider, hooks, byHand, told, faults>>

ExecuteClaim(d) ==
  /\ desk[d].stage = "checked"
  /\ code' = [code EXCEPT ![desk[d].code].used = TRUE]
  /\ refundStatus' = "PROCESSING"
  /\ GoTo(d, "claimed")
  /\ UNCHANGED <<reference, provider, hooks, byHand, told, faults>>

(* findExistingRefundByReceipt: any refund made for this receipt, failed   *)
(* ones too; when the list cannot be had, as if there were none.           *)
FindExistingRefund(d) ==
  /\ desk[d].stage = "claimed"
  /\ \/ \E r \in Refund :
          /\ Made(r)
          /\ desk' = [desk EXCEPT ![d].stage = "answered", ![d].refund = r,
                                  ![d].seen = refund[r].state]
          /\ UNCHANGED mishaps
     \/ /\ \A r \in Refund : ~Made(r)
        /\ GoTo(d, "paying")
        /\ UNCHANGED mishaps
     \/ /\ \E r \in Refund : Made(r)
        /\ mishaps < MaxMishaps
        /\ mishaps' = mishaps + 1
        /\ GoTo(d, "paying")
  /\ UNCHANGED <<cancellation, code, provider, hooks, byHand, told, cut, repeated>>

(* The provider makes refund r and, once it is settled, sends its event.   *)
Settled(r, state) == IF state = "pending" THEN {} ELSE {[refund |-> r, state |-> state]}

Makes(r, state, c) ==
  /\ ~Made(r)
  /\ refund' = [refund EXCEPT ![r] = [state |-> state, code |-> c]]
  /\ events' = events \cup Settled(r, state)

CreateRazorpayRefund(d) ==
  /\ desk[d].stage = "paying"
  /\ \E r \in Refund, state \in RefundState \ {"none"} :
       /\ Makes(r, state, desk[d].code)
       /\ desk' = [desk EXCEPT ![d].stage = "answered", ![d].refund = r, ![d].seen = state]
  /\ UNCHANGED <<cancellation, code, hooks, byHand, told, faults>>

(* Mutant: an error of the provider gives the refund back to the queue.    *)
AfterError_Requeued == "APPROVED"

(* An error of the provider leaves the function as it is.                  *)
AfterError == refundStatus

(* The provider refuses the refund: its keys, the amount, the payment.     *)
CreateRefused(d) ==
  /\ desk[d].stage = "paying"
  /\ refundStatus' = AfterError
  /\ Done(d)
  /\ cut' = cut \cup {"refusal"}
  /\ UNCHANGED <<reference, code, provider, hooks, byHand, told, repeated, mishaps>>

(* No answer comes; the provider may have made the refund or not.          *)
AnswerLost(d) ==
  /\ desk[d].stage = "paying"
  /\ \/ \E r \in Refund, state \in RefundState \ {"none"} : Makes(r, state, desk[d].code)
     \/ UNCHANGED provider
  /\ refundStatus' = AfterError
  /\ Done(d)
  /\ cut' = cut \cup {"answer"}
  /\ UNCHANGED <<reference, code, hooks, byHand, told, repeated, mishaps>>

(* Mutant: a refund not known to have failed has been paid.                *)
MapRefundStatus_Optimist(state) == IF state = "failed" THEN "FAILED" ELSE "PROCESSED"

(* mapRefundStatus: the provider's word for a refund in ours.              *)
MapRefundStatus(state) ==
  CASE state = "processed" -> "PROCESSED"
    [] state = "failed"    -> "FAILED"
    [] OTHER               -> "PROCESSING"

(* Mutant: the answer is not looked at.                                    *)
Refused_Never(d) == FALSE

(* The provider reports the refund, new or found, as failed.               *)
Refused(d) == MapRefundStatus(desk[d].seen) = "FAILED"

(* executeOnlineRefund, last transaction: whatever the status is by now.   *)
ExecuteRecord(d) ==
  LET status == MapRefundStatus(desk[d].seen) IN
  /\ desk[d].stage = "answered" /\ ~Refused(d)
  /\ refundStatus' = status
  /\ reference' = desk[d].refund
  /\ IF status = "PROCESSED" THEN GoTo(d, "telling") ELSE Done(d)
  /\ UNCHANGED <<code, provider, hooks, byHand, told, faults>>

(* revertToApproved: no captured payment, or less than the amount, or a    *)
(* failed refund; only while the refund is being processed.                *)
RevertRead(d) ==
  /\ desk[d].stage = "claimed" \/ (desk[d].stage = "answered" /\ Refused(d))
  /\ IF refundStatus = "PROCESSING" THEN GoTo(d, "reverting") ELSE Done(d)
  /\ UNCHANGED <<cancellation, code, provider, hooks, byHand, told, faults>>

RevertWrite(d) ==
  /\ desk[d].stage = "reverting"
  /\ refundStatus' = "APPROVED"
  /\ Done(d)
  /\ UNCHANGED <<reference, code, provider, hooks, byHand, told, faults>>

(* Mutant: only the provider's refunds are announced.                      *)
NotifyRefundProcessed_Online ==
  told' = (told \/ (refundStatus = "PROCESSED" /\ reference # ByHand))

(* notifyRefundProcessed, which reads the status once more.                *)
NotifyRefundProcessed == told' = (told \/ refundStatus = "PROCESSED")

RouteTells(d) ==
  /\ desk[d].stage = "telling"
  /\ NotifyRefundProcessed
  /\ Done(d)
  /\ UNCHANGED <<cancellation, code, provider, hooks, byHand, faults>>

(* A request dies.  Before its first commit nothing has happened; after    *)
(* that nobody takes up what it had still to do, after the last the mail.  *)
CutBy(stage) ==
  CASE stage = "telling" -> {"mail"}
    [] stage \in Action \cup {"mailing", "checked"} -> {}
    [] OTHER -> {"death"}

Crash(d) ==
  /\ desk[d] # Idle
  /\ mishaps < MaxMishaps
  /\ mishaps' = mishaps + 1
  /\ cut' = cut \cup CutBy(desk[d].stage)
  /\ Done(d)
  /\ UNCHANGED <<cancellation, code, provider, hooks, byHand, told, repeated>>

-----------------------------------------------------------------------------
(* The provider settles a pending refund; it may repeat an event.          *)
Settle(r) ==
  /\ refund[r].state = "pending"
  /\ \E state \in {"processed", "failed"} :
       /\ refund' = [refund EXCEPT ![r].state = state]
       /\ events' = events \cup Settled(r, state)
  /\ UNCHANGED <<cancellation, code, desk, hooks, byHand, told, faults>>

Repeat(r) ==
  /\ refund[r].state \in {"processed", "failed"}
  /\ mishaps < MaxMishaps
  /\ mishaps' = mishaps + 1
  /\ events' = events \cup Settled(r, refund[r].state)
  /\ repeated' = (repeated \/ refund[r].state = "failed")
  /\ UNCHANGED <<cancellation, code, desk, refund, hooks, byHand, told, cut>>

(* Mutant: a failed refund is left for staff to look up.                   *)
Concerns_OnlySuccess(e) ==
  /\ reference = e.refund
  /\ e.state = "processed" /\ refundStatus # "PROCESSED"

(* reconcileRefundEvent: the event changes the refund it finds by its      *)
(* reference, unless that is processed already, or no longer processing.   *)
Concerns(e) ==
  /\ reference = e.refund
  /\ IF e.state = "processed" THEN refundStatus # "PROCESSED"
                              ELSE refundStatus = "PROCESSING"

(* A request waits for this event's refund and has not written its id yet. *)
TooEarly(e) ==
  \E d \in Desk : /\ desk[d].stage = "answered" /\ desk[d].refund = e.refund
                  /\ MapRefundStatus(desk[d].seen) = "PROCESSING"

ReconcileRead(e) ==
  /\ e \in events
  /\ events' = events \ {e}
  /\ hooks' = IF Concerns(e) THEN hooks \cup {[event |-> e, stage |-> "write"]} ELSE hooks
  /\ cut' = IF reference # e.refund /\ TooEarly(e) THEN cut \cup {"early event"} ELSE cut
  /\ UNCHANGED <<cancellation, code, desk, refund, byHand, told, repeated, mishaps>>

ReconcileWrite(h) ==
  /\ h \in hooks /\ h.stage = "write"
  /\ IF h.event.state = "processed"
       THEN /\ refundStatus' = "PROCESSED"
            /\ hooks' = (hooks \ {h}) \cup {[h EXCEPT !.stage = "tell"]}
       ELSE /\ refundStatus' = "APPROVED"
            /\ hooks' = hooks \ {h}
  /\ UNCHANGED <<reference, code, desk, provider, byHand, told, faults>>

HookTells(h) ==
  /\ h \in hooks /\ h.stage = "tell"
  /\ NotifyRefundProcessed
  /\ hooks' = hooks \ {h}
  /\ UNCHANGED <<cancellation, code, desk, provider, byHand, faults>>

(* The handler dies: the provider sends the event again, which will find   *)
(* nothing left to do if it was written, and so tell nobody.               *)
HookDies(h) ==
  /\ h \in hooks
  /\ mishaps < MaxMishaps
  /\ mishaps' = mishaps + 1
  /\ hooks' = hooks \ {h}
  /\ events' = events \cup {h.event}
  /\ cut' = IF h.stage = "tell" THEN cut \cup {"mail"} ELSE cut
  /\ UNCHANGED <<cancellation, code, desk, refund, byHand, told, repeated>>

-----------------------------------------------------------------------------
(* What a request does by itself once it has begun.                        *)
Proceed(d) ==
  \/ UpdateWrite(d) \/ MailCode(d) \/ ExecuteClaim(d) \/ FindExistingRefund(d)
  \/ CreateRazorpayRefund(d) \/ CreateRefused(d) \/ AnswerLost(d)
  \/ ExecuteRecord(d) \/ RevertRead(d) \/ RevertWrite(d) \/ RouteTells(d)

(* The buttons of a refund on the desk's page; they are disabled while one *)
(* of its requests is under way.                                           *)
RefundActions(d) ==
  \/ \E action \in Action : UpdateRead(d, action)
  \/ \E c \in Code : RequestRefundOtp(d, c) \/ ExecuteRead(d, c)

Next ==
  \/ \E d \in Desk : RefundActions(d) \/ Proceed(d) \/ Crash(d)
  \/ \E c \in Code : Expire(c)
  \/ \E r \in Refund : Settle(r) \/ Repeat(r)
  \/ \E e \in events : ReconcileRead(e)
  \/ \E h \in hooks : ReconcileWrite(h) \/ HookTells(h) \/ HookDies(h)

Spec == Init /\ [][Next]_vars

(* A request once begun goes on, the provider settles its refunds and      *)
(* delivers its events; what staff do next is up to them.                  *)
Fairness ==
  /\ \A d \in Desk : WF_vars(Proceed(d))
  /\ \A r \in Refund : WF_vars(Settle(r))
  /\ \A e \in Event : WF_vars(ReconcileRead(e))
  /\ \A h \in [event : Event, stage : {"write", "tell"}] :
       WF_vars(ReconcileWrite(h) \/ HookTells(h))

FairSpec == Spec /\ Fairness

(* Staff who do not let go of a refund: whatever a button still allows.    *)
PersistentSpec == FairSpec /\ \A d \in Desk : WF_vars(RefundActions(d))

-----------------------------------------------------------------------------
Live == {r \in Refund : refund[r].state \in {"pending", "processed"}}

(* The guest gets the money once, by hand or online, whatever is lost or   *)
(* dies, as long as staff work on a refund one at a time and no failure is *)
(* reported again: that could give back to the queue a refund under way    *)
(* (payments.md:47-49, razorpay-refunds.ts:14-17).                         *)
PaidOnce == repeated \/ Cardinality(Live) + byHand <= 1

(* The status says what has become of the money: paid means paid by the    *)
(* refund it names, and what is still open, rejected or given back to the  *)
(* queue has no payment under way; the guest's mail is never wrong.        *)
StatusMatchesMoney ==
  ~repeated =>
    /\ refundStatus = "PROCESSED" =>
         \/ reference = ByHand /\ byHand = 1
         \/ reference \in Refund /\ refund[reference].state = "processed"
    /\ refundStatus \in {"PENDING_HOTEL_REVIEW", "APPROVED", "REJECTED"} =>
         Live = {} /\ byHand = 0
    /\ told => refundStatus = "PROCESSED"

(* A refund being processed is paid or comes back to the queue, unless the *)
(* provider refused it, its answer was lost, the request died after its    *)
(* claim, or the event came before the reference it is found by.  Each of  *)
(* the four may leave the refund PROCESSING, which no request accepts.     *)
RefundSettles ==
  refundStatus = "PROCESSING" ~> (refundStatus # "PROCESSING" \/ cut \ {"mail"} # {})

(* What the code says of itself: "a lost response is safe because          *)
(* re-execution finds the existing refund" (admin-refund-online.ts:52-53), *)
(* and a refusal is one "the desk can act on" (razorpay-refunds.ts:39).    *)
(* So with staff who keep trying no refund is PROCESSING for ever.         *)
ProcessingEnds == refundStatus = "PROCESSING" ~> refundStatus # "PROCESSING"

(* A guest who was refunded hears of it, unless the process died between   *)
(* the commit and the queueing of the mail, or a repeated failure undid    *)
(* the payment.                                                            *)
GuestLearns == refundStatus = "PROCESSED" ~> (told \/ "mail" \in cut \/ repeated)

(* "A code can never pay twice" (admin-refund-online.ts:51).               *)
CodePaysOnce ==
  \A c \in Code : Cardinality({r \in Live : refund[r].code = c}) <= 1
=============================================================================
