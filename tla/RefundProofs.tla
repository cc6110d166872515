---------------------------- MODULE RefundProofs ----------------------------
(***************************************************************************)
(* Theorems about Refund.tla, for any number of codes, refunds, crashes,   *)
(* failed lookups and repeated events: TypeOK for any number of requests   *)
(* at once; and, while staff work on the refund with one request at a      *)
(* time, that the guest is paid once and the status says what became of    *)
(* the money (with two requests the run code_pays_twice shows otherwise).  *)
(*                                                                         *)
(* Neither invariant is inductive: a failed refund may only be given back  *)
(* to the queue while no other has been made since.  Each stage of a       *)
(* request says what has been paid so far (Stages), and the news of a      *)
(* failure that is still on its way concerns the last refund (News).       *)
(***************************************************************************)
EXTENDS Refund, FiniteSetTheorems, TLAPS

Open == {"PENDING_HOTEL_REVIEW", "APPROVED", "REJECTED"}

(* The payments, by the status.                                            *)
Money ==
  /\ refundStatus \in Open => Live = {} /\ byHand = 0
  /\ refundStatus = "PROCESSING" => byHand = 0 /\ \A q, r \in Live : q = r
  /\ refundStatus = "PROCESSED" =>
       \/ reference = ByHand /\ byHand = 1 /\ Live = {}
       \/ /\ reference \in Refund /\ refund[reference].state = "processed"
          /\ byHand = 0 /\ Live = {reference}
  /\ reference \in Refund => Made(reference)
  /\ told => refundStatus = "PROCESSED"

(* What a request under way may rely on.                                   *)
Answered(d) ==
  /\ desk[d].refund \in Refund /\ Made(desk[d].refund)
  /\ desk[d].seen # "none"
  /\ desk[d].seen # "pending" => refund[desk[d].refund].state = desk[d].seen
  /\ Live \subseteq {desk[d].refund}
  /\ desk[d].refund \in Live => reference # desk[d].refund
Stages ==
  \A d \in Desk :
    /\ desk[d].stage \in Action => refundStatus \in Asks[desk[d].stage]
    /\ desk[d].stage \in {"mailing", "checked"} => refundStatus = "APPROVED"
    /\ desk[d].stage \in {"claimed", "paying", "reverting"} =>
         refundStatus = "PROCESSING" /\ Live = {}
    /\ desk[d].stage = "answered" => refundStatus = "PROCESSING" /\ Answered(d)
    /\ desk[d].stage = "telling" => refundStatus = "PROCESSED"

(* Events tell the truth.  A failure that will give the refund back to the *)
(* queue is told once, and when it is, nothing else has been begun.        *)
Underway == events \cup {h.event : h \in hooks}
News ==
  /\ \A e \in events : refund[e.refund].state = e.state
  /\ \A h \in hooks :
       /\ reference = h.event.refund
       /\ refund[h.event.refund].state = h.event.state
       /\ h.event.state = "failed" => h.stage = "write" /\ h.event \notin events
  /\ \A e \in Underway : e.state = "failed" /\ e.refund = reference =>
       /\ refundStatus = "PROCESSING" /\ Live = {}
       /\ \A d \in Desk : desk[d].stage = "idle"

Sound == Money /\ Stages /\ News
IInv == TypeOK /\ (repeated \/ Sound)
OneDesk == \A a, b \in Desk : a = b

-----------------------------------------------------------------------------
(* The types, for any number of requests at once.                          *)
Challenge == [state : {"none", "live", "expired", "gone"}, used : BOOLEAN]
Request == [stage : Stage, code : Code \cup {NoCode},
            refund : Refund \cup {NoRefund}, seen : RefundState]
Payment == [state : RefundState, code : Code \cup {NoCode}]

LEMMA IdleParts ==
  Idle \in Request /\ Idle.stage = "idle" /\ Idle.refund = NoRefund /\ Idle.seen = "none"
BY DEF Idle, Request, Stage, RefundState

LEMMA Parts ==
  ASSUME TypeOK
  PROVE  /\ refundStatus \in Status
         /\ reference \in Refund \cup {NoRefund, ByHand}
         /\ code \in [Code -> Challenge] /\ desk \in [Desk -> Request]
         /\ refund \in [Refund -> Payment]
         /\ events \subseteq Event
         /\ hooks \subseteq [event : Event, stage : {"write", "tell"}]
         /\ byHand \in 0..2
         /\ told \in BOOLEAN /\ cut \subseteq Cause /\ repeated \in BOOLEAN
         /\ mishaps \in 0..MaxMishaps
BY DEF TypeOK, Challenge, Request, Payment

(* The steps of a request leave the record of it a request.                *)
LEMMA GoesOn ==
  ASSUME TypeOK, NEW d \in Desk, NEW stage \in Stage, GoTo(d, stage)
  PROVE  /\ desk' \in [Desk -> Request]
         /\ desk'[d].stage = stage /\ desk'[d].code = desk[d].code
         /\ desk'[d].refund = desk[d].refund /\ desk'[d].seen = desk[d].seen
         /\ \A e \in Desk \ {d} : desk'[e] = desk[e]
<1>1. desk \in [Desk -> Request] /\ desk' = [desk EXCEPT ![d].stage = stage]
  BY Parts DEF GoTo
<1> QED
  BY <1>1 DEF Request

LEMMA Ends ==
  ASSUME TypeOK, NEW d \in Desk, Done(d)
  PROVE  /\ desk' \in [Desk -> Request] /\ desk'[d] = Idle
         /\ \A e \in Desk \ {d} : desk'[e] = desk[e]
BY Parts, IdleParts DEF Done

LEMMA SettledType ==
  ASSUME NEW r \in Refund, NEW state \in RefundState \ {"none"}
  PROVE  /\ Settled(r, state) \subseteq Event
         /\ \A e \in Settled(r, state) : e.refund = r /\ e.state = state /\ state # "pending"
BY DEF Settled, Event, RefundState

LEMMA MakesType ==
  ASSUME TypeOK, NEW r \in Refund, NEW state \in RefundState \ {"none"},
         NEW c \in Code \cup {NoCode}, Makes(r, state, c)
  PROVE  /\ refund' \in [Refund -> Payment] /\ events' \subseteq Event
         /\ refund'[r].state = state
         /\ \A q \in Refund \ {r} : refund'[q] = refund[q]
<1>1. refund \in [Refund -> Payment] /\ events \subseteq Event
  BY Parts
<1>2. refund' = [refund EXCEPT ![r] = [state |-> state, code |-> c]]
  BY DEF Makes
<1>3. events' \subseteq Event
  BY <1>1, SettledType DEF Makes
<1> QED
  BY <1>1, <1>2, <1>3 DEF Payment

LEMMA StageMembers ==
  /\ {"idle", "mailing", "checked", "claimed", "paying", "answered", "reverting", "telling"}
        \subseteq Stage
  /\ Action \subseteq Stage
BY DEF Stage, Action

LEMMA ClaimType ==
  ASSUME TypeOK, NEW c \in Code \cup {NoCode}
  PROVE  /\ \A s \in {"live", "expired", "gone"} :
              [code EXCEPT ![c].state = s] \in [Code -> Challenge]
         /\ [code EXCEPT ![c].used = TRUE] \in [Code -> Challenge]
<1>1. code \in [Code -> Challenge]
  BY Parts
<1> QED
  BY <1>1, RefundAssumption DEF Challenge

-----------------------------------------------------------------------------
(* Each step keeps the types.                                              *)
LEMMA InitType == Init => TypeOK
<1> SUFFICES ASSUME Init PROVE TypeOK
  OBVIOUS
<1>1. code \in [Code -> Challenge] /\ refund \in [Refund -> Payment]
  BY DEF Init, Challenge, Payment, RefundState
<1>2. desk \in [Desk -> Request]
  BY IdleParts DEF Init
<1>3. /\ refundStatus \in Status /\ reference \in Refund \cup {NoRefund, ByHand}
      /\ byHand \in 0..2 /\ mishaps \in 0..MaxMishaps /\ events = {} /\ hooks = {}
      /\ told = FALSE /\ cut = {} /\ repeated = FALSE
  BY RefundAssumption DEF Init, Status
<1> QED
  BY <1>1, <1>2, <1>3 DEF TypeOK, Challenge, Request, Payment

LEMMA RefundActionsType ==
  ASSUME TypeOK, NEW d \in Desk, RefundActions(d)
  PROVE  TypeOK'
<1> USE Parts
<1>1. CASE \E action \in Action : UpdateRead(d, action)
  BY <1>1, GoesOn, StageMembers
     DEF UpdateRead, TypeOK, Request, cancellation, provider, faults
<1>2. ASSUME NEW c \in Code, RequestRefundOtp(d, c)
      PROVE  TypeOK'
  <2>1. desk' \in [Desk -> Request] /\ code' \in [Code -> Challenge]
    BY <1>2, ClaimType, StageMembers DEF RequestRefundOtp, Request
  <2> QED
    BY <1>2, <2>1 DEF RequestRefundOtp, TypeOK, Request, Challenge, cancellation, provider, faults
<1>3. ASSUME NEW c \in Code, ExecuteRead(d, c)
      PROVE  TypeOK'
  <2>1. desk' \in [Desk -> Request]
    BY <1>3, StageMembers DEF ExecuteRead, Request
  <2> QED
    BY <1>3, <2>1 DEF ExecuteRead, TypeOK, Request, cancellation, provider, faults
<1> QED
  BY <1>1, <1>2, <1>3 DEF RefundActions

Answer(d, r, state) ==
  desk' = [desk EXCEPT ![d].stage = "answered", ![d].refund = r, ![d].seen = state]

LEMMA Answers ==
  ASSUME TypeOK, NEW d \in Desk, NEW r \in Refund, NEW state \in RefundState,
         Answer(d, r, state)
  PROVE  /\ desk' \in [Desk -> Request]
         /\ desk'[d].stage = "answered" /\ desk'[d].refund = r /\ desk'[d].seen = state
         /\ \A e \in Desk \ {d} : desk'[e] = desk[e]
<1>1. desk \in [Desk -> Request]
  BY Parts
<1> QED
  BY <1>1, StageMembers DEF Request, Answer

LEMMA ProceedType ==
  ASSUME TypeOK, NEW d \in Desk, Proceed(d)
  PROVE  TypeOK'
<1> USE Parts
<1>1. CASE UpdateWrite(d)
  <2>1. refundStatus' \in Status /\ desk' \in [Desk -> Request]
    BY <1>1, GoesOn, Ends, StageMembers DEF UpdateWrite, Writes, Action, Status
  <2>2. reference' \in Refund \cup {NoRefund, ByHand} /\ byHand' \in 0..2
    BY <1>1 DEF UpdateWrite
  <2> QED
    BY <1>1, <2>1, <2>2 DEF UpdateWrite, TypeOK, Request, provider, faults
<1>2. CASE MailCode(d)
  <2>1. code' \in [Code -> Challenge] /\ desk' \in [Desk -> Request]
    <3>1. desk[d].code \in Code \cup {NoCode}
      BY DEF Request
    <3> QED
      BY <1>2, <3>1, Ends, ClaimType DEF MailCode
  <2> QED
    BY <1>2, <2>1 DEF MailCode, TypeOK, Request, Challenge, cancellation, provider, faults
<1>3. CASE ExecuteClaim(d)
  <2>1. code' \in [Code -> Challenge] /\ desk' \in [Desk -> Request]
    <3>1. desk[d].code \in Code \cup {NoCode}
      BY DEF Request
    <3> QED
      BY <1>3, <3>1, GoesOn, StageMembers, ClaimType DEF ExecuteClaim
  <2> QED
    BY <1>3, <2>1
       DEF ExecuteClaim, TypeOK, Status, Request, Challenge, cancellation, provider, faults
<1>4. CASE FindExistingRefund(d)
  <2>1. desk' \in [Desk -> Request]
    <3>1. \A r \in Refund : refund[r].state \in RefundState
      BY DEF Payment
    <3>2. CASE GoTo(d, "paying")
      BY <3>2, GoesOn, StageMembers
    <3>3. ASSUME NEW r \in Refund, Answer(d, r, refund[r].state)
          PROVE  desk' \in [Desk -> Request]
      BY <3>1, <3>3, Answers
    <3> QED
      BY <1>4, <3>2, <3>3 DEF FindExistingRefund, Answer
  <2>2. mishaps' \in 0..MaxMishaps
    <3>1. \/ mishaps' = mishaps
          \/ mishaps < MaxMishaps /\ mishaps' = mishaps + 1
      BY <1>4, Zenon DEF FindExistingRefund
    <3> QED
      BY <3>1, RefundAssumption
  <2> QED
    BY <1>4, <2>1, <2>2 DEF FindExistingRefund, TypeOK, Request, cancellation, provider
<1>5. CASE CreateRazorpayRefund(d)
  <2>1. desk' \in [Desk -> Request]
    <3>1. PICK r \in Refund, state \in RefundState : Answer(d, r, state)
      BY <1>5 DEF CreateRazorpayRefund, Answer
    <3> QED
      BY <3>1, Answers
  <2>2. refund' \in [Refund -> Payment] /\ events' \subseteq Event
    <3>1. desk[d].code \in Code \cup {NoCode}
      BY DEF Request
    <3> QED
      BY <1>5, <3>1, MakesType DEF CreateRazorpayRefund
  <2> QED
    BY <1>5, <2>1, <2>2 DEF CreateRazorpayRefund, TypeOK, Request, Payment, cancellation, faults
<1>6. CASE CreateRefused(d)
  <2>1. cut' \subseteq Cause
    BY <1>6 DEF CreateRefused, Cause
  <2> QED
    BY <1>6, <2>1, Ends DEF CreateRefused, AfterError, TypeOK, Request, Payment, provider
<1>11. CASE AnswerLost(d)
  <2>1. refund' \in [Refund -> Payment] /\ events' \subseteq Event
    <3>1. desk[d].code \in Code \cup {NoCode}
      BY DEF Request
    <3> QED
      BY <1>11, <3>1, MakesType DEF AnswerLost, provider
  <2>2. cut' \subseteq Cause
    BY <1>11 DEF AnswerLost, Cause
  <2> QED
    BY <1>11, <2>1, <2>2, Ends DEF AnswerLost, AfterError, TypeOK, Request, Payment
<1>7. CASE ExecuteRecord(d)
  <2>1. refundStatus' \in Status
    BY <1>7 DEF ExecuteRecord, Refused, MapRefundStatus, Status
  <2>2. reference' \in Refund \cup {NoRefund, ByHand}
    BY <1>7 DEF ExecuteRecord, Request
  <2>3. desk' \in [Desk -> Request]
    BY <1>7, GoesOn, Ends, StageMembers DEF ExecuteRecord
  <2> QED
    BY <1>7, <2>1, <2>2, <2>3 DEF ExecuteRecord, TypeOK, Request, provider, faults
<1>8. CASE RevertRead(d)
  BY <1>8, GoesOn, Ends, StageMembers
     DEF RevertRead, TypeOK, Request, cancellation, provider, faults
<1>9. CASE RevertWrite(d)
  BY <1>9, Ends DEF RevertWrite, TypeOK, Status, Request, provider, faults
<1>10. CASE RouteTells(d)
  BY <1>10, Ends
     DEF RouteTells, NotifyRefundProcessed, TypeOK, Request, cancellation, provider, faults
<1> QED
  BY <1>1, <1>2, <1>3, <1>4, <1>5, <1>6, <1>7, <1>8, <1>9, <1>10, <1>11 DEF Proceed

LEMMA CrashType ==
  ASSUME TypeOK, NEW d \in Desk, Crash(d)
  PROVE  TypeOK'
<1>1. mishaps' \in 0..MaxMishaps
  BY Parts, RefundAssumption DEF Crash
<1>2. cut' \subseteq Cause
  BY Parts DEF Crash, CutBy, Cause
<1> QED
  BY <1>1, <1>2, Parts, Ends DEF Crash, TypeOK, Request, cancellation, provider

LEMMA ProviderType ==
  ASSUME TypeOK, NEW r \in Refund, Settle(r) \/ Repeat(r)
  PROVE  TypeOK'
<1> USE Parts
<1>1. CASE Settle(r)
  <2>1. PICK state \in {"processed", "failed"} :
               /\ refund' = [refund EXCEPT ![r].state = state]
               /\ events' = events \cup Settled(r, state)
    BY <1>1 DEF Settle
  <2>2. state \in RefundState \ {"none"}
    BY DEF RefundState
  <2>3. refund' \in [Refund -> Payment]
    BY <2>1, <2>2 DEF Payment
  <2>4. events' \subseteq Event
    BY <2>1, <2>2, SettledType
  <2> QED
    BY <1>1, <2>3, <2>4 DEF Settle, TypeOK, Payment, cancellation, faults
<1>2. CASE Repeat(r)
  <2>1. events' \subseteq Event
    <3>1. refund[r].state \in RefundState \ {"none"}
      BY <1>2 DEF Repeat, RefundState
    <3> QED
      BY <1>2, <3>1, SettledType DEF Repeat
  <2>2. mishaps' \in 0..MaxMishaps
    BY <1>2, RefundAssumption DEF Repeat
  <2>3. repeated' \in BOOLEAN
    BY <1>2 DEF Repeat
  <2> QED
    BY <1>2, <2>1, <2>2, <2>3 DEF Repeat, TypeOK, cancellation
<1> QED
  BY <1>1, <1>2

LEMMA ReconcileReadType ==
  ASSUME TypeOK, NEW e \in events, ReconcileRead(e)
  PROVE  TypeOK'
<1>1. cut' \subseteq Cause /\ e \in Event
  <2>1. cut' = cut \/ cut' = cut \cup {"early event"}
    BY Zenon DEF ReconcileRead
  <2> QED
    BY <2>1, Parts DEF Cause
<1>2. hooks' \subseteq [event : Event, stage : {"write", "tell"}]
  <2>1. hooks' = hooks \/ hooks' = hooks \cup {[event |-> e, stage |-> "write"]}
    BY Zenon DEF ReconcileRead
  <2> QED
    BY <1>1, <2>1, Parts
<1> QED
  BY <1>1, <1>2, Parts DEF ReconcileRead, TypeOK, cancellation

LEMMA HookType ==
  ASSUME TypeOK, NEW h \in hooks
  PROVE  h \in [event : Event, stage : {"write", "tell"}] /\ h.event \in Event
<1>1. hooks \subseteq [event : Event, stage : {"write", "tell"}]
  BY Parts
<1> QED
  BY <1>1

LEMMA WebhookType ==
  ASSUME TypeOK, NEW h \in hooks, ReconcileWrite(h) \/ HookTells(h) \/ HookDies(h)
  PROVE  TypeOK'
<1> USE Parts, HookType
<1>1. CASE ReconcileWrite(h)
  <2>1. refundStatus' \in Status
    BY <1>1 DEF ReconcileWrite, Status
  <2>2. hooks' \subseteq [event : Event, stage : {"write", "tell"}]
    <3>1. [h EXCEPT !.stage = "tell"] \in [event : Event, stage : {"write", "tell"}]
      OBVIOUS
    <3> QED
      BY <1>1, <3>1 DEF ReconcileWrite
  <2> QED
    BY <1>1, <2>1, <2>2 DEF ReconcileWrite, TypeOK, provider, faults
<1>2. CASE HookTells(h)
  BY <1>2 DEF HookTells, NotifyRefundProcessed, TypeOK, cancellation, provider, faults
<1>3. CASE HookDies(h)
  <2>1. mishaps' \in 0..MaxMishaps
    BY <1>3, RefundAssumption DEF HookDies
  <2>2. cut' \subseteq Cause
    <3>1. cut' = cut \/ cut' = cut \cup {"mail"}
      BY <1>3, Zenon DEF HookDies
    <3> QED
      BY <3>1 DEF Cause
  <2> QED
    BY <1>3, <2>1, <2>2 DEF HookDies, TypeOK, cancellation
<1> QED
  BY <1>1, <1>2, <1>3

LEMMA ExpireType ==
  ASSUME TypeOK, NEW c \in Code, Expire(c)
  PROVE  TypeOK'
<1>1. code' \in [Code -> Challenge]
  <2>1. PICK s \in {"live", "expired", "gone"} : code' = [code EXCEPT ![c].state = s]
    BY DEF Expire
  <2> QED
    BY <2>1, ClaimType
<1> QED
  BY <1>1, Parts DEF Expire, TypeOK, Challenge, cancellation, provider, faults

LEMMA StepType == TypeOK /\ [Next]_vars => TypeOK'
<1> SUFFICES ASSUME TypeOK, [Next]_vars PROVE TypeOK'
  OBVIOUS
<1>1. ASSUME NEW d \in Desk, RefundActions(d) \/ Proceed(d) \/ Crash(d)
      PROVE  TypeOK'
  BY <1>1, RefundActionsType, ProceedType, CrashType
<1>2. ASSUME NEW h \in hooks, ReconcileWrite(h) \/ HookTells(h) \/ HookDies(h)
      PROVE  TypeOK'
  BY <1>2, WebhookType
<1>3. CASE UNCHANGED vars
  BY <1>3 DEF vars, TypeOK, cancellation, provider, faults
<1> QED
  BY <1>1, <1>2, <1>3, ExpireType, ProviderType, ReconcileReadType DEF Next

(* Every state is one of the declared ones, whatever the requests do       *)
(* beside each other.                                                      *)
THEOREM TypeCorrect == Spec => []TypeOK
BY InitType, StepType, PTL DEF Spec

-----------------------------------------------------------------------------
(* From here on staff work on the refund with one request at a time.       *)
LEMMA Statuses == Status = Open \cup {"PROCESSING", "PROCESSED"}
BY DEF Status, Open

LEMMA EventParts ==
  ASSUME TypeOK, NEW e \in Event
  PROVE  /\ e.refund \in Refund /\ e.state \in {"processed", "failed"}
         /\ e.refund # NoRefund /\ e.refund # ByHand
         /\ \A f \in Event : f.refund = e.refund /\ f.state = e.state => f = e
BY RefundAssumption DEF Event

LEMMA UnderwayParts ==
  ASSUME TypeOK
  PROVE  /\ Underway \subseteq Event /\ events \subseteq Underway
         /\ \A h \in hooks : h.event \in Underway /\ h.stage \in {"write", "tell"}
         /\ \A g, h \in hooks : g.event = h.event /\ g.stage = h.stage => g = h
<1>1. events \subseteq Event /\ hooks \subseteq [event : Event, stage : {"write", "tell"}]
  BY Parts
<1> QED
  BY <1>1 DEF Underway

LEMMA Truth ==
  ASSUME TypeOK, News, NEW e \in Underway
  PROVE  refund[e.refund].state = e.state
BY DEF News, Underway

LEMMA LiveParts ==
  /\ Live \subseteq Refund
  /\ \A r \in Refund : r \in Live <=> refund[r].state \in {"pending", "processed"}
BY DEF Live

(* No handler holds an event of this refund while a request is under way,  *)
(* nor while the refund is open.                                           *)
LEMMA NoHooks ==
  ASSUME TypeOK, Sound,
         \/ refundStatus \in Open
         \/ \E d \in Desk : desk[d].stage \in {"claimed", "paying", "reverting", "answered"}
  PROVE  hooks = {}
<1> SUFFICES ASSUME NEW h \in hooks PROVE FALSE
  OBVIOUS
<1>1. /\ h.event \in Underway /\ h.event \in Event /\ h.event.refund \in Refund
      /\ reference = h.event.refund /\ refund[reference].state = h.event.state
  BY UnderwayParts, EventParts DEF Sound, News
<1>2. h.event.state = "processed" => reference \in Live
  BY <1>1, LiveParts
<1>3. h.event.state = "failed" =>
        refundStatus = "PROCESSING" /\ \A d \in Desk : desk[d].stage = "idle"
  BY <1>1 DEF Sound, News
<1>4. h.event.state \in {"processed", "failed"}
  BY <1>1, EventParts
<1>5. CASE refundStatus \in Open
  BY <1>2, <1>3, <1>4, <1>5 DEF Sound, Money, Open
<1>6. ASSUME NEW d \in Desk, desk[d].stage \in {"claimed", "paying", "reverting", "answered"}
      PROVE  FALSE
  <2>1. reference \in Live
    BY <1>2, <1>3, <1>4, <1>6
  <2>2. desk[d].stage = "answered"
    BY <1>6, <2>1 DEF Sound, Stages
  <2> QED
    BY <2>1, <2>2 DEF Sound, Stages, Answered
<1> QED
  BY <1>5, <1>6

(* Nor is the failure of this refund underway.                             *)
LEMMA NoFailure ==
  ASSUME TypeOK, Sound,
         \/ refundStatus # "PROCESSING"
         \/ \E d \in Desk : desk[d].stage # "idle"
         \/ Live # {}
  PROVE  \A e \in Underway : ~(e.state = "failed" /\ e.refund = reference)
BY DEF Sound, News

(* A step that leaves the news and the refunds alone.                      *)
LEMMA QuietNews ==
  ASSUME TypeOK, Sound, UNCHANGED <<refund, events, hooks>>,
         \/ hooks = {}
         \/ reference' = reference,
         \A e \in Underway : e.state = "failed" /\ e.refund = reference' =>
           /\ refundStatus' = "PROCESSING" /\ Live = {}
           /\ \A d \in Desk : desk'[d].stage = "idle"
  PROVE  News' /\ Live' = Live /\ \A r \in Refund : Made(r)' = Made(r)
<1>1. Live' = Live /\ Underway' = Underway /\ \A r \in Refund : Made(r)' = Made(r)
  BY DEF Live, Underway, Made
<1>2. \A e \in events' : refund'[e.refund].state = e.state
  BY DEF Sound, News
<1>3. \A h \in hooks' :
        /\ reference' = h.event.refund
        /\ refund'[h.event.refund].state = h.event.state
        /\ h.event.state = "failed" => h.stage = "write" /\ h.event \notin events'
  BY DEF Sound, News
<1> QED
  BY <1>1, <1>2, <1>3 DEF News

LEMMA InitSound == Init => Sound
<1> SUFFICES ASSUME Init PROVE Sound
  OBVIOUS
<1>1. Live = {} /\ Underway = {}
  BY DEF Init, Live, Underway
<1>2. Money
  BY <1>1, RefundAssumption DEF Init, Money, Open
<1>3. Stages
  <2>1. \A d \in Desk : desk[d].stage = "idle"
    BY IdleParts DEF Init
  <2> QED
    BY <2>1 DEF Stages, Action
<1>4. News
  BY <1>1 DEF Init, News
<1> QED
  BY <1>2, <1>3, <1>4 DEF Sound

(* What one request's record says when the others do not exist.            *)
StageOf(d) ==
  /\ desk[d].stage \in Action => refundStatus \in Asks[desk[d].stage]
  /\ desk[d].stage \in {"mailing", "checked"} => refundStatus = "APPROVED"
  /\ desk[d].stage \in {"claimed", "paying", "reverting"} =>
       refundStatus = "PROCESSING" /\ Live = {}
  /\ desk[d].stage = "answered" => refundStatus = "PROCESSING" /\ Answered(d)
  /\ desk[d].stage = "telling" => refundStatus = "PROCESSED"

LEMMA Alone == ASSUME OneDesk, NEW d \in Desk PROVE Stages <=> StageOf(d)
BY DEF OneDesk, Stages, StageOf

LEMMA Asked ==
  /\ Asks["approve"] = {"PENDING_HOTEL_REVIEW"} /\ Asks["process"] = {"APPROVED"}
  /\ Asks["reject"] = {"PENDING_HOTEL_REVIEW", "APPROVED"}
  /\ Writes["approve"] = "APPROVED" /\ Writes["reject"] = "REJECTED"
  /\ Writes["process"] = "PROCESSED"
BY DEF Asks, Writes

LEMMA RefundActionsSound ==
  ASSUME TypeOK, Sound, OneDesk, NEW d \in Desk, RefundActions(d)
  PROVE  Sound'
<1>1. /\ refundStatus \in Open
      /\ UNCHANGED <<refundStatus, reference, refund, events, hooks, byHand, told>>
  BY Asked DEF RefundActions, UpdateRead, RequestRefundOtp, ExecuteRead, Action, Open,
     cancellation, provider
<1>2. /\ News' /\ Live' = Live /\ \A r \in Refund : Made(r)' = Made(r)
  BY <1>1, NoFailure, QuietNews, Zenon DEF Open
<1>3. Money'
  BY <1>1, <1>2 DEF Sound, Money
<1>4. StageOf(d)'
  <2>1. ASSUME NEW action \in Action, UpdateRead(d, action)
        PROVE  StageOf(d)'
    <3>1. desk'[d].stage = action /\ refundStatus \in Asks[action]
      BY <2>1, GoesOn, StageMembers DEF UpdateRead
    <3> QED
      BY <1>1, <3>1 DEF StageOf, Action
  <2>2. ASSUME NEW c \in Code, RequestRefundOtp(d, c) \/ ExecuteRead(d, c)
        PROVE  StageOf(d)'
    <3>1. desk'[d].stage \in {"mailing", "checked"} /\ refundStatus = "APPROVED"
      BY <2>2, Parts DEF RequestRefundOtp, ExecuteRead, Request
    <3> QED
      BY <1>1, <3>1 DEF StageOf, Action
  <2> QED
    BY <2>1, <2>2 DEF RefundActions
<1>5. Stages'
  BY <1>4 DEF OneDesk, Stages, StageOf, Answered
<1> QED
  BY <1>2, <1>3, <1>5 DEF Sound

(* A request that has ended says nothing.                                  *)
LEMMA Silent ==
  ASSUME TypeOK, NEW d \in Desk, Done(d)
  PROVE  desk'[d].stage = "idle" /\ StageOf(d)'
<1>1. desk'[d].stage = "idle"
  BY Ends, IdleParts
<1> QED
  BY <1>1 DEF StageOf, Action

LEMMA UpdateWriteSound ==
  ASSUME TypeOK, Sound, OneDesk, NEW d \in Desk, UpdateWrite(d)
  PROVE  Sound'
<1>1. /\ desk[d].stage \in Action /\ refundStatus \in Asks[desk[d].stage]
      /\ refundStatus \in Open
  BY Asked DEF UpdateWrite, Sound, Stages, Action, Open
<1>2. hooks = {} /\ \A e \in Underway : ~(e.state = "failed" /\ e.refund = reference)
  BY <1>1, NoHooks, NoFailure DEF Open
<1>3. Live = {} /\ byHand = 0 /\ ~told
  BY <1>1 DEF Sound, Money, Open
<1>4. UNCHANGED <<refund, events, hooks, told>>
  BY DEF UpdateWrite, provider
<1>5. reference' \in {reference, ByHand}
  BY DEF UpdateWrite
<1>6. /\ News' /\ Live' = Live /\ \A r \in Refund : Made(r)' = Made(r)
  <2>1. \A e \in Underway : e.refund \in Refund
    BY UnderwayParts, EventParts
  <2>2. \A e \in Underway : ~(e.state = "failed" /\ e.refund = reference')
    BY <1>2, <1>5, <2>1, RefundAssumption
  <2> QED
    BY <1>2, <1>4, <2>2, QuietNews
<1>7. CASE desk[d].stage = "process"
  <2>1. refundStatus' = "PROCESSED" /\ reference' = ByHand /\ byHand' = 1 /\ GoTo(d, "telling")
    BY <1>3, <1>7, Asked DEF UpdateWrite
  <2>2. Money'
    BY <1>3, <1>4, <1>6, <2>1, RefundAssumption DEF Money, Open
  <2>3. StageOf(d)'
    <3>1. desk'[d].stage = "telling"
      BY <2>1, GoesOn, StageMembers
    <3> QED
      BY <2>1, <3>1 DEF StageOf, Action
  <2> QED
    BY <1>6, <2>2, <2>3 DEF Sound, OneDesk, Stages, StageOf, Answered
<1>8. CASE desk[d].stage # "process"
  <2>1. refundStatus' \in Open /\ reference' = reference /\ byHand' = byHand /\ Done(d)
    BY <1>1, <1>8, Asked DEF UpdateWrite, Action, Open
  <2>2. Money'
    BY <1>3, <1>4, <1>6, <2>1 DEF Sound, Money, Open
  <2>3. StageOf(d)'
    BY <2>1, Silent
  <2> QED
    BY <1>6, <2>2, <2>3 DEF Sound, OneDesk, Stages, StageOf, Answered
<1> QED
  BY <1>7, <1>8

(* A request takes a step that touches nothing but its record.             *)
LEMMA QuietStep ==
  ASSUME TypeOK, Sound, OneDesk, NEW d \in Desk,
         desk[d].stage # "idle" \/ desk'[d].stage = "idle",
         UNCHANGED <<refundStatus, reference, refund, events, hooks, byHand, told>>,
         StageOf(d)'
  PROVE  Sound'
<1>1. \A e \in Underway : e.state = "failed" /\ e.refund = reference =>
        /\ refundStatus = "PROCESSING" /\ Live = {}
        /\ \A c \in Desk : desk'[c].stage = "idle"
  BY DEF Sound, News, OneDesk
<1>2. /\ News' /\ Live' = Live /\ \A r \in Refund : Made(r)' = Made(r)
  BY <1>1, QuietNews
<1>3. Money'
  BY <1>2 DEF Sound, Money
<1>4. Stages'
  BY DEF OneDesk, Stages, StageOf, Answered
<1> QED
  BY <1>2, <1>3, <1>4 DEF Sound

LEMMA EndsSound ==
  ASSUME TypeOK, Sound, OneDesk, NEW d \in Desk, MailCode(d) \/ Crash(d)
  PROVE  Sound'
<1>1. /\ Done(d)
      /\ UNCHANGED <<refundStatus, reference, refund, events, hooks, byHand, told>>
  BY DEF MailCode, Crash, cancellation, provider
<1> QED
  BY <1>1, Silent, QuietStep

LEMMA ExecuteClaimSound ==
  ASSUME TypeOK, Sound, OneDesk, NEW d \in Desk, ExecuteClaim(d)
  PROVE  Sound'
<1>1. /\ refundStatus = "APPROVED" /\ refundStatus' = "PROCESSING" /\ GoTo(d, "claimed")
      /\ UNCHANGED <<reference, refund, events, hooks, byHand, told>>
  BY DEF ExecuteClaim, Sound, Stages, provider
<1>2. Live = {} /\ byHand = 0 /\ ~told
  BY <1>1 DEF Sound, Money, Open
<1>3. /\ News' /\ Live' = Live /\ \A r \in Refund : Made(r)' = Made(r)
  BY <1>1, NoFailure, QuietNews
<1>4. Money'
  BY <1>1, <1>2, <1>3 DEF Sound, Money, Open
<1>5. StageOf(d)'
  <2>1. desk'[d].stage = "claimed"
    BY <1>1, GoesOn, StageMembers
  <2> QED
    BY <1>1, <1>2, <1>3, <2>1 DEF StageOf, Action
<1> QED
  BY <1>3, <1>4, <1>5 DEF Sound, OneDesk, Stages, StageOf, Answered

LEMMA FindExistingRefundSound ==
  ASSUME TypeOK, Sound, OneDesk, NEW d \in Desk, FindExistingRefund(d)
  PROVE  Sound'
<1>1. /\ desk[d].stage = "claimed" /\ refundStatus = "PROCESSING" /\ Live = {}
      /\ UNCHANGED <<refundStatus, reference, refund, events, hooks, byHand, told>>
  BY DEF FindExistingRefund, Sound, Stages, cancellation, provider
<1>2. Live' = Live /\ \A r \in Refund : Made(r)' = Made(r)
  BY <1>1 DEF Live, Made
<1>3. CASE GoTo(d, "paying")
  <2>1. desk'[d].stage = "paying"
    BY <1>3, GoesOn, StageMembers
  <2>2. StageOf(d)'
    BY <1>1, <1>2, <2>1 DEF StageOf, Action
  <2> QED
    BY <1>1, <2>2, QuietStep
<1>4. ASSUME NEW r \in Refund, Made(r), Answer(d, r, refund[r].state)
      PROVE  Sound'
  <2>1. refund[r].state \in RefundState /\ refund[r].state # "none"
    BY <1>4, Parts DEF Made, Payment
  <2>2. desk'[d].stage = "answered" /\ desk'[d].refund = r /\ desk'[d].seen = refund[r].state
    BY <1>4, <2>1, Answers
  <2>3. Answered(d)'
    BY <1>1, <1>2, <1>4, <2>1, <2>2 DEF Answered
  <2>4. StageOf(d)'
    BY <1>1, <2>2, <2>3 DEF StageOf, Action
  <2> QED
    BY <1>1, <2>4, QuietStep
<1> QED
  BY <1>3, <1>4 DEF FindExistingRefund, Answer

(* A new refund, for one request at a time, and of which nobody has heard. *)
LEMMA MakesSound ==
  ASSUME TypeOK, Sound, OneDesk, NEW d \in Desk, desk[d].stage = "paying",
         NEW r \in Refund, NEW state \in RefundState \ {"none"},
         Makes(r, state, desk[d].code),
         UNCHANGED <<refundStatus, reference, hooks, byHand, told>>
  PROVE  /\ Money' /\ News'
         /\ refundStatus' = "PROCESSING" /\ reference' # r
         /\ Live' \subseteq {r} /\ refund'[r].state = state /\ Made(r)'
<1>1. refundStatus = "PROCESSING" /\ Live = {} /\ byHand = 0 /\ ~told /\ reference # r
  BY DEF Sound, Stages, Money, Makes
<1>2. /\ refund'[r].state = state /\ \A q \in Refund \ {r} : refund'[q] = refund[q]
      /\ refund[r].state = "none"
  <2>1. desk[d].code \in Code \cup {NoCode}
    BY Parts DEF Request
  <2> QED
    BY <2>1, MakesType DEF Makes, Made
<1>3. Live' \subseteq {r}
  BY <1>1, <1>2 DEF Live
<1>4. \A q \in Refund : Made(q) => Made(q)'
  BY <1>2 DEF Made
<1>5. Money'
  BY <1>1, <1>3, <1>4 DEF Sound, Money, Open
<1>6. hooks = {} /\ \A e \in Underway : ~(e.state = "failed" /\ e.refund = reference)
  BY NoHooks, NoFailure
<1>7. events' = events \cup Settled(r, state)
  BY DEF Makes
<1>8. News'
  <2>1. \A e \in events' : refund'[e.refund].state = e.state
    <3>1. \A e \in events : e.refund \in Refund \ {r} /\ refund[e.refund].state = e.state
      BY <1>2, UnderwayParts, EventParts DEF Sound, News
    <3> QED
      BY <1>2, <1>7, <3>1, SettledType
  <2>2. hooks' = {} /\ Underway' = events' /\ events \subseteq Underway
    BY <1>6 DEF Underway
  <2>3. \A e \in Underway' : ~(e.state = "failed" /\ e.refund = reference')
    BY <1>1, <1>6, <1>7, <2>2, SettledType
  <2> QED
    BY <2>1, <2>2, <2>3 DEF News
<1> QED
  BY <1>1, <1>2, <1>3, <1>5, <1>8 DEF Made

LEMMA CreateRazorpayRefundSound ==
  ASSUME TypeOK, Sound, OneDesk, NEW d \in Desk, CreateRazorpayRefund(d)
  PROVE  Sound'
<1>1. PICK r \in Refund, state \in RefundState \ {"none"} :
             Makes(r, state, desk[d].code) /\ Answer(d, r, state)
  BY DEF CreateRazorpayRefund, Answer
<1>2. desk[d].stage = "paying" /\ UNCHANGED <<refundStatus, reference, hooks, byHand, told>>
  BY DEF CreateRazorpayRefund, cancellation
<1>3. /\ Money' /\ News' /\ refundStatus' = "PROCESSING" /\ reference' # r
      /\ Live' \subseteq {r} /\ refund'[r].state = state /\ Made(r)'
  BY <1>1, <1>2, MakesSound
<1>4. desk'[d].stage = "answered" /\ desk'[d].refund = r /\ desk'[d].seen = state
  BY <1>1, Answers
<1>5. StageOf(d)'
  BY <1>3, <1>4 DEF StageOf, Action, Answered
<1> QED
  BY <1>3, <1>5 DEF Sound, OneDesk, Stages, StageOf, Answered

LEMMA CreateRefusedSound ==
  ASSUME TypeOK, Sound, OneDesk, NEW d \in Desk, CreateRefused(d)
  PROVE  Sound'
<1>1. /\ desk[d].stage = "paying" /\ Done(d)
      /\ UNCHANGED <<refundStatus, reference, refund, events, hooks, byHand, told>>
  BY DEF CreateRefused, AfterError, provider
<1> QED
  BY <1>1, Silent, QuietStep

LEMMA AnswerLostSound ==
  ASSUME TypeOK, Sound, OneDesk, NEW d \in Desk, AnswerLost(d)
  PROVE  Sound'
<1>1. /\ desk[d].stage = "paying" /\ Done(d)
      /\ UNCHANGED <<refundStatus, reference, hooks, byHand, told>>
  BY DEF AnswerLost, AfterError
<1>2. StageOf(d)'
  BY <1>1, Silent
<1>3. CASE UNCHANGED provider
  BY <1>1, <1>2, <1>3, QuietStep DEF provider
<1>4. ASSUME NEW r \in Refund, NEW state \in RefundState \ {"none"},
             Makes(r, state, desk[d].code)
      PROVE  Sound'
  <2>1. Money' /\ News'
    BY <1>1, <1>4, MakesSound
  <2> QED
    BY <1>2, <2>1 DEF Sound, OneDesk, Stages, StageOf, Answered
<1> QED
  BY <1>3, <1>4 DEF AnswerLost

LEMMA ExecuteRecordSound ==
  ASSUME TypeOK, Sound, OneDesk, NEW d \in Desk, ExecuteRecord(d)
  PROVE  Sound'
<1>1. /\ desk[d].stage = "answered" /\ refundStatus = "PROCESSING" /\ Answered(d)
      /\ reference' = desk[d].refund /\ byHand = 0 /\ ~told
      /\ UNCHANGED <<refund, events, hooks, byHand, told>>
  BY DEF ExecuteRecord, Sound, Stages, Money, provider
<1>2. desk[d].seen \in {"pending", "processed"}
  <2>1. desk[d].seen \in RefundState
    BY Parts DEF Request
  <2> QED
    BY <1>1, <2>1 DEF Answered, ExecuteRecord, Refused, MapRefundStatus, RefundState
<1>3. hooks = {}
  BY <1>1, NoHooks
<1>4. \A e \in Underway : e.refund \in Refund /\ refund[e.refund].state = e.state
  BY Truth, UnderwayParts, EventParts DEF Sound
<1>5. CASE desk[d].seen = "processed"
  <2>1. refundStatus' = "PROCESSED" /\ GoTo(d, "telling")
    BY <1>5 DEF ExecuteRecord, MapRefundStatus
  <2>2. refund[reference'].state = "processed" /\ reference' \in Refund /\ Live = {reference'}
    BY <1>1, <1>5, LiveParts DEF Answered
  <2>3. /\ News' /\ Live' = Live /\ \A r \in Refund : Made(r)' = Made(r)
    BY <1>1, <1>3, <1>4, <2>2, QuietNews
  <2>4. Money'
    BY <1>1, <2>1, <2>2, <2>3 DEF Money, Open, Made
  <2>5. desk'[d].stage = "telling"
    BY <2>1, GoesOn, StageMembers
  <2>6. StageOf(d)'
    BY <2>1, <2>5 DEF StageOf, Action
  <2> QED
    BY <2>3, <2>4, <2>6 DEF Sound, OneDesk, Stages, StageOf, Answered
<1>6. CASE desk[d].seen = "pending"
  <2>1. refundStatus' = "PROCESSING" /\ Done(d)
    BY <1>6 DEF ExecuteRecord, MapRefundStatus
  <2>2. StageOf(d)' /\ desk'[d].stage = "idle"
    BY <2>1, Silent
  <2>3. \A e \in Underway : e.state = "failed" /\ e.refund = reference' =>
          /\ refundStatus' = "PROCESSING" /\ Live = {}
          /\ \A c \in Desk : desk'[c].stage = "idle"
    <3>1. \A e \in Underway : e.state = "failed" /\ e.refund = reference' => Live = {}
      BY <1>1, <1>4, LiveParts DEF Answered
    <3> QED
      BY <2>1, <2>2, <3>1 DEF OneDesk
  <2>4. /\ News' /\ Live' = Live /\ \A r \in Refund : Made(r)' = Made(r)
    BY <1>1, <1>3, <2>3, QuietNews
  <2>5. Money'
    BY <1>1, <2>1, <2>4 DEF Sound, Money, Open, Answered, Made
  <2> QED
    BY <2>2, <2>4, <2>5 DEF Sound, OneDesk, Stages, StageOf, Answered
<1> QED
  BY <1>2, <1>5, <1>6

LEMMA RevertReadSound ==
  ASSUME TypeOK, Sound, OneDesk, NEW d \in Desk, RevertRead(d)
  PROVE  Sound'
<1>1. /\ refundStatus = "PROCESSING" /\ GoTo(d, "reverting")
      /\ desk[d].stage # "idle"
      /\ UNCHANGED <<refundStatus, reference, refund, events, hooks, byHand, told>>
  BY DEF RevertRead, Sound, Stages, cancellation, provider
<1>2. Live = {} /\ Live' = Live
  <2>1. CASE desk[d].stage = "claimed"
    BY <1>1, <2>1 DEF Sound, Stages, Live
  <2>2. CASE desk[d].stage = "answered" /\ Refused(d)
    <3>1. desk[d].seen = "failed" /\ Answered(d)
      BY <2>2 DEF Refused, MapRefundStatus, Sound, Stages
    <3> QED
      BY <1>1, <3>1, LiveParts DEF Answered, Live
  <2> QED
    BY <2>1, <2>2 DEF RevertRead
<1>3. desk'[d].stage = "reverting"
  BY <1>1, GoesOn, StageMembers
<1>4. StageOf(d)'
  BY <1>1, <1>2, <1>3 DEF StageOf, Action
<1> QED
  BY <1>1, <1>4, QuietStep

LEMMA RevertWriteSound ==
  ASSUME TypeOK, Sound, OneDesk, NEW d \in Desk, RevertWrite(d)
  PROVE  Sound'
<1>1. /\ desk[d].stage = "reverting" /\ refundStatus' = "APPROVED" /\ Done(d)
      /\ Live = {} /\ byHand = 0 /\ ~told
      /\ UNCHANGED <<reference, refund, events, hooks, byHand, told>>
  BY DEF RevertWrite, Sound, Stages, Money, provider
<1>2. StageOf(d)'
  BY <1>1, Silent
<1>3. /\ News' /\ Live' = Live /\ \A r \in Refund : Made(r)' = Made(r)
  BY <1>1, NoHooks, NoFailure, QuietNews
<1>4. Money'
  BY <1>1, <1>3 DEF Sound, Money, Open
<1> QED
  BY <1>2, <1>3, <1>4 DEF Sound, OneDesk, Stages, StageOf, Answered

(* The mail is queued of what is paid, and nothing else changes.           *)
LEMMA RouteTellsSound ==
  ASSUME TypeOK, Sound, OneDesk, NEW d \in Desk, RouteTells(d)
  PROVE  Sound'
<1>1. /\ desk[d].stage = "telling" /\ refundStatus = "PROCESSED" /\ Done(d)
      /\ UNCHANGED <<refundStatus, reference, refund, events, hooks, byHand>>
  BY DEF RouteTells, Sound, Stages, cancellation, provider
<1>2. StageOf(d)'
  BY <1>1, Silent
<1>3. /\ News' /\ Live' = Live /\ \A r \in Refund : Made(r)' = Made(r)
  BY <1>1, NoFailure, QuietNews
<1>4. Money'
  BY <1>1, <1>3 DEF Sound, Money, Open
<1> QED
  BY <1>2, <1>3, <1>4 DEF Sound, OneDesk, Stages, StageOf, Answered

LEMMA ProceedSound ==
  ASSUME TypeOK, Sound, OneDesk, NEW d \in Desk, Proceed(d)
  PROVE  Sound'
BY UpdateWriteSound, EndsSound, ExecuteClaimSound, FindExistingRefundSound,
   CreateRazorpayRefundSound, CreateRefusedSound, AnswerLostSound, ExecuteRecordSound, RevertReadSound,
   RevertWriteSound, RouteTellsSound DEF Proceed

-----------------------------------------------------------------------------
(* The provider settles the last refund made: only then does a failure     *)
(* concern the refund of the cancellation, and nobody is at work.          *)
LEMMA SettleSound ==
  ASSUME TypeOK, Sound, OneDesk, NEW r \in Refund, Settle(r)
  PROVE  Sound'
<1>1. PICK state \in {"processed", "failed"} :
             /\ refund' = [refund EXCEPT ![r].state = state]
             /\ events' = events \cup Settled(r, state)
  BY DEF Settle
<1>2. /\ refund[r].state = "pending" /\ r \in Live /\ state \in RefundState \ {"none"}
      /\ UNCHANGED <<refundStatus, reference, desk, hooks, byHand, told>>
  BY LiveParts DEF Settle, RefundState, cancellation
<1>3. refund'[r].state = state /\ \A q \in Refund \ {r} : refund'[q] = refund[q]
  BY <1>1, Parts DEF Payment
<1>4. /\ Live' \subseteq Live /\ Live \ {r} \subseteq Live'
      /\ \A q \in Refund : Made(q)' = Made(q)
  BY <1>2, <1>3 DEF Live, Made
<1>5. refundStatus = "PROCESSING" /\ byHand = 0 /\ \A q \in Live : q = r
  <2>1. refundStatus \in Open \cup {"PROCESSING", "PROCESSED"}
    BY Parts, Statuses
  <2> QED
    BY <1>2, <2>1 DEF Sound, Money, Open
<1>6. Money'
  BY <1>2, <1>4, <1>5 DEF Sound, Money, Open
<1>7. \A d \in Desk :
        \/ desk[d].stage = "idle"
        \/ desk[d].stage = "answered" /\ Answered(d) /\ desk[d].refund = r /\ reference # r
  <2>1. \A d \in Desk : desk[d].stage \in Stage
    BY Parts DEF Request
  <2>2. \A d \in Desk : desk[d].stage \notin Action
    BY <1>5, Asked DEF Sound, Stages, Action
  <2> QED
    BY <1>2, <1>5, <2>1, <2>2 DEF Sound, Stages, Answered, Stage
<1>8. Stages'
  <2> SUFFICES ASSUME NEW d \in Desk, desk[d].stage = "answered"
               PROVE  Answered(d)'
    BY <1>2, <1>5, <1>7 DEF Stages, Action
  <2>1. Answered(d) /\ desk[d].refund = r /\ reference # r /\ desk[d].seen = "pending"
    BY <1>2, <1>7 DEF Answered
  <2> QED
    BY <1>2, <1>4, <2>1 DEF Answered
<1>9. News'
  <2>1. \A e \in Underway : e \in Event /\ e.refund \in Refund \ {r}
    BY <1>2, Truth, UnderwayParts, EventParts DEF Sound
  <2>2. \A e \in events' : refund'[e.refund].state = e.state
    BY <1>1, <1>2, <1>3, <2>1, SettledType, UnderwayParts DEF Sound, News
  <2>3. \A h \in hooks' :
          /\ reference' = h.event.refund
          /\ refund'[h.event.refund].state = h.event.state
          /\ h.event.state = "failed" => h.stage = "write" /\ h.event \notin events'
    BY <1>1, <1>2, <1>3, <2>1, SettledType, UnderwayParts DEF Sound, News
  <2>4. \A e \in Underway' : e \in Underway \/ e \in Settled(r, state)
    BY <1>1, <1>2 DEF Underway
  <2>5. \A e \in Underway : ~(e.state = "failed" /\ e.refund = reference)
    BY <1>2, NoFailure
  <2>6. \A e \in Underway' : e.state = "failed" /\ e.refund = reference' =>
          /\ refundStatus' = "PROCESSING" /\ Live' = {}
          /\ \A d \in Desk : desk'[d].stage = "idle"
    <3>1. SUFFICES ASSUME NEW e \in Settled(r, state), e.state = "failed", e.refund = reference
                   PROVE  Live' = {} /\ \A d \in Desk : desk[d].stage = "idle"
      BY <1>2, <1>5, <2>4, <2>5
    <3>2. state = "failed" /\ reference = r
      BY <1>2, <3>1, SettledType
    <3>3. r \notin Live'
      BY <1>3, <3>2 DEF Live
    <3> QED
      BY <1>4, <1>5, <1>7, <3>2, <3>3
  <2> QED
    BY <2>2, <2>3, <2>6 DEF News
<1> QED
  BY <1>6, <1>8, <1>9 DEF Sound

(* An event repeated of a refund that was paid says nothing new.           *)
LEMMA RepeatSound ==
  ASSUME TypeOK, Sound, OneDesk, NEW r \in Refund, Repeat(r), ~repeated'
  PROVE  Sound'
<1>1. /\ refund[r].state = "processed" /\ events' = events \cup Settled(r, "processed")
      /\ UNCHANGED <<refundStatus, reference, desk, refund, hooks, byHand, told>>
  BY DEF Repeat, cancellation
<1>2. "processed" \in RefundState \ {"none"}
  BY DEF RefundState
<1>3. \A e \in Settled(r, "processed") : e.refund = r /\ e.state = "processed"
  BY <1>2, SettledType
<1>4. Live' = Live /\ \A q \in Refund : Made(q)' = Made(q)
  BY <1>1 DEF Live, Made
<1>5. Money' /\ Stages'
  BY <1>1, <1>4 DEF Sound, Money, Stages, Answered
<1>6. News'
  <2>1. \A e \in events' : refund'[e.refund].state = e.state
    BY <1>1, <1>3 DEF Sound, News
  <2>2. \A h \in hooks' :
          /\ reference' = h.event.refund
          /\ refund'[h.event.refund].state = h.event.state
          /\ h.event.state = "failed" => h.stage = "write" /\ h.event \notin events'
    BY <1>1, <1>3 DEF Sound, News
  <2>3. \A e \in Underway' : e \in Underway \/ e.state = "processed"
    BY <1>1, <1>3 DEF Underway
  <2>4. \A e \in Underway' : e.state = "failed" /\ e.refund = reference' =>
          /\ refundStatus' = "PROCESSING" /\ Live' = {}
          /\ \A d \in Desk : desk'[d].stage = "idle"
    BY <1>1, <1>4, <2>3 DEF Sound, News
  <2> QED
    BY <2>1, <2>2, <2>4 DEF News
<1> QED
  BY <1>5, <1>6 DEF Sound

-----------------------------------------------------------------------------
(* The webhook.  A handler takes the event over.                           *)
LEMMA ReconcileReadSound ==
  ASSUME TypeOK, Sound, OneDesk, NEW e \in events, ReconcileRead(e)
  PROVE  Sound'
<1>1. /\ events' = events \ {e}
      /\ UNCHANGED <<refundStatus, reference, desk, refund, byHand, told>>
  BY DEF ReconcileRead, cancellation
<1>2. Live' = Live /\ \A q \in Refund : Made(q)' = Made(q)
  BY <1>1 DEF Live, Made
<1>3. Money' /\ Stages'
  BY <1>1, <1>2 DEF Sound, Money, Stages, Answered
<1>4. \A h \in hooks' : h \in hooks \/
        (h.event = e /\ h.stage = "write" /\ reference = e.refund)
  <2>1. CASE Concerns(e)
    <3>1. hooks' = hooks \cup {[event |-> e, stage |-> "write"]} /\ reference = e.refund
      BY <2>1, Zenon DEF ReconcileRead, Concerns
    <3> QED
      BY <3>1
  <2>2. CASE ~Concerns(e)
    BY <2>2, Zenon DEF ReconcileRead
  <2> QED
    BY <2>1, <2>2
<1>5. News'
  <2>1. \A f \in events' : refund'[f.refund].state = f.state
    BY <1>1 DEF Sound, News
  <2>2. \A h \in hooks' :
          /\ reference' = h.event.refund
          /\ refund'[h.event.refund].state = h.event.state
          /\ h.event.state = "failed" => h.stage = "write" /\ h.event \notin events'
    BY <1>1, <1>4 DEF Sound, News
  <2>3. Underway' \subseteq Underway
    BY <1>1, <1>4 DEF Underway
  <2>4. \A f \in Underway' : f.state = "failed" /\ f.refund = reference' =>
          /\ refundStatus' = "PROCESSING" /\ Live' = {}
          /\ \A d \in Desk : desk'[d].stage = "idle"
    BY <1>1, <1>2, <2>3 DEF Sound, News
  <2> QED
    BY <2>1, <2>2, <2>4 DEF News
<1> QED
  BY <1>3, <1>5 DEF Sound

(* It has paid.                                                            *)
LEMMA ProcessedWriteSound ==
  ASSUME TypeOK, Sound, OneDesk, NEW h \in hooks, ReconcileWrite(h),
         h.event.state = "processed"
  PROVE  Sound'
<1>1. /\ refundStatus' = "PROCESSED"
      /\ hooks' = (hooks \ {h}) \cup {[h EXCEPT !.stage = "tell"]}
      /\ UNCHANGED <<reference, desk, refund, events, byHand, told>>
  BY DEF ReconcileWrite, provider
<1>2. /\ reference = h.event.refund /\ reference \in Refund
      /\ refund[reference].state = "processed" /\ reference \in Live
  BY UnderwayParts, EventParts, LiveParts DEF Sound, News
<1>3. Live' = Live /\ \A q \in Refund : Made(q)' = Made(q)
  BY <1>1 DEF Live, Made
<1>4. Money'
  <2>1. byHand = 0 /\ Live = {reference}
    <3>1. refundStatus \in Open \cup {"PROCESSING", "PROCESSED"}
      BY Parts, Statuses
    <3> QED
      BY <1>2, <3>1 DEF Sound, Money
  <2> QED
    BY <1>1, <1>2, <1>3, <2>1 DEF Sound, Money, Open
<1>5. Stages'
  <2>1. refundStatus \notin Open
    BY <1>2 DEF Sound, Money
  <2>2. \A d \in Desk : desk[d].stage \in {"idle", "telling"}
    <3>1. \A d \in Desk : desk[d].stage \in Stage
      BY Parts DEF Request
    <3>2. \A d \in Desk : desk[d].stage \notin Action \cup {"mailing", "checked"}
      BY <2>1, Asked DEF Sound, Stages, Action, Open
    <3>3. \A d \in Desk : desk[d].stage # "answered"
      BY <1>2 DEF Sound, Stages, Answered
    <3> QED
      BY <1>2, <3>1, <3>2, <3>3 DEF Sound, Stages, Stage
  <2> QED
    BY <1>1, <2>2 DEF Stages, Action
<1>6. News'
  <2>1. h \in [event : Event, stage : {"write", "tell"}]
    BY HookType
  <2>2. \A g \in hooks' : g \in hooks \/ g.event = h.event
    BY <1>1, <2>1
  <2>3. \A g \in hooks' :
          /\ reference' = g.event.refund
          /\ refund'[g.event.refund].state = g.event.state
          /\ g.event.state = "failed" => g.stage = "write" /\ g.event \notin events'
    BY <1>1, <1>2, <2>2 DEF Sound, News
  <2>4. Underway' \subseteq Underway
    BY <1>1, <2>2 DEF Underway
  <2>5. \A f \in Underway' : ~(f.state = "failed" /\ f.refund = reference')
    BY <1>1, <1>2, <2>4, Truth DEF Sound
  <2> QED
    BY <1>1, <2>3, <2>5 DEF Sound, News
<1> QED
  BY <1>4, <1>5, <1>6 DEF Sound

(* It has failed: this was the only word of it.                            *)
LEMMA FailedWriteSound ==
  ASSUME TypeOK, Sound, OneDesk, NEW h \in hooks, ReconcileWrite(h),
         h.event.state = "failed"
  PROVE  Sound'
<1>1. /\ refundStatus' = "APPROVED" /\ hooks' = hooks \ {h} /\ h.stage = "write"
      /\ UNCHANGED <<reference, desk, refund, events, byHand, told>>
  BY DEF ReconcileWrite, provider
<1>2. /\ refundStatus = "PROCESSING" /\ Live = {} /\ byHand = 0 /\ ~told
      /\ \A d \in Desk : desk[d].stage = "idle"
      /\ reference = h.event.refund /\ h.event \notin events /\ h.event \in Event
  BY UnderwayParts DEF Sound, News, Money
<1>3. Live' = Live /\ \A q \in Refund : Made(q)' = Made(q)
  BY <1>1 DEF Live, Made
<1>4. Money'
  BY <1>1, <1>2, <1>3 DEF Sound, Money, Open
<1>5. Stages'
  BY <1>1, <1>2 DEF Stages, Action
<1>6. News'
  <2>1. \A f \in Underway' : ~(f.state = "failed" /\ f.refund = reference')
    <3>1. SUFFICES ASSUME NEW f \in Underway', f.state = "failed", f.refund = reference
                   PROVE  FALSE
      BY <1>1
    <3>2. f \in events \/ \E g \in hooks \ {h} : f = g.event
      BY <1>1 DEF Underway
    <3>3. f \in Event
      BY <3>2, UnderwayParts
    <3>4. f = h.event
      BY <1>2, <3>1, <3>3, EventParts
    <3>5. PICK g \in hooks \ {h} : g.event = h.event
      BY <1>2, <3>2, <3>4
    <3>6. g.stage = "write"
      BY <3>5 DEF Sound, News
    <3> QED
      BY <1>1, <3>5, <3>6, UnderwayParts
  <2> QED
    BY <1>1, <2>1 DEF Sound, News
<1> QED
  BY <1>4, <1>5, <1>6 DEF Sound

LEMMA HookTellsSound ==
  ASSUME TypeOK, Sound, OneDesk, NEW h \in hooks, HookTells(h)
  PROVE  Sound'
<1>1. /\ told' = (told \/ refundStatus = "PROCESSED") /\ hooks' = hooks \ {h}
      /\ UNCHANGED <<refundStatus, reference, desk, refund, events, byHand>>
  BY DEF HookTells, NotifyRefundProcessed, cancellation, provider
<1>2. Live' = Live /\ \A q \in Refund : Made(q)' = Made(q)
  BY <1>1 DEF Live, Made
<1>3. Money' /\ Stages'
  BY <1>1, <1>2 DEF Sound, Money, Stages, Answered
<1>4. Underway' \subseteq Underway
  BY <1>1 DEF Underway
<1>5. News'
  BY <1>1, <1>2, <1>4 DEF Sound, News
<1> QED
  BY <1>3, <1>5 DEF Sound

(* The handler of an event dies: it comes again.                           *)
LEMMA HookDiesSound ==
  ASSUME TypeOK, Sound, OneDesk, NEW h \in hooks, HookDies(h)
  PROVE  Sound'
<1>1. /\ hooks' = hooks \ {h} /\ events' = events \cup {h.event}
      /\ UNCHANGED <<refundStatus, reference, desk, refund, byHand, told>>
  BY DEF HookDies, cancellation
<1>2. Live' = Live /\ \A q \in Refund : Made(q)' = Made(q)
  BY <1>1 DEF Live, Made
<1>3. Money' /\ Stages'
  BY <1>1, <1>2 DEF Sound, Money, Stages, Answered
<1>4. Underway' \subseteq Underway
  BY <1>1 DEF Underway
<1>5. \A e \in events' : refund'[e.refund].state = e.state
  BY <1>1 DEF Sound, News
<1>6. \A g \in hooks' :
        /\ reference' = g.event.refund
        /\ refund'[g.event.refund].state = g.event.state
        /\ g.event.state = "failed" => g.stage = "write" /\ g.event \notin events'
  <2> SUFFICES ASSUME NEW g \in hooks', g.event.state = "failed", g.event = h.event
               PROVE  FALSE
    BY <1>1 DEF Sound, News
  <2>1. g \in hooks /\ g # h /\ g.stage = "write" /\ h.stage = "write"
    BY <1>1 DEF Sound, News
  <2> QED
    BY <2>1, UnderwayParts
<1>7. News'
  BY <1>1, <1>2, <1>4, <1>5, <1>6 DEF Sound, News
<1> QED
  BY <1>3, <1>7 DEF Sound

LEMMA ExpireSound ==
  ASSUME TypeOK, Sound, NEW c \in Code, Expire(c)
  PROVE  Sound'
BY DEF Expire, Sound, Money, Stages, Answered, News, Underway, Live, Made,
   cancellation, provider

LEMMA StutterSound == ASSUME Sound, UNCHANGED vars PROVE Sound'
BY DEF vars, cancellation, provider, faults,
   Sound, Money, Stages, Answered, News, Underway, Live, Made

-----------------------------------------------------------------------------
LEMMA StepIInv == ASSUME OneDesk PROVE IInv /\ [Next]_vars => IInv'
<1> SUFFICES ASSUME IInv, [Next]_vars PROVE IInv'
  OBVIOUS
<1>1. TypeOK /\ TypeOK'
  BY StepType DEF IInv
<1>2. repeated => repeated'
  <2>1. ASSUME NEW d \in Desk, RefundActions(d) \/ Proceed(d) \/ Crash(d)
        PROVE  repeated' = repeated
    BY <2>1 DEF RefundActions, UpdateRead, RequestRefundOtp, ExecuteRead, Proceed,
       UpdateWrite, MailCode, ExecuteClaim, FindExistingRefund, CreateRazorpayRefund,
       CreateRefused, AnswerLost, ExecuteRecord, RevertRead, RevertWrite, RouteTells, Crash, faults
  <2>2. ASSUME NEW h \in hooks, ReconcileWrite(h) \/ HookTells(h) \/ HookDies(h)
        PROVE  repeated' = repeated
    BY <2>2 DEF ReconcileWrite, HookTells, HookDies, faults
  <2> QED
    BY <2>1, <2>2 DEF Next, Expire, Settle, Repeat, ReconcileRead, faults, vars
<1>3. ASSUME ~repeated'
      PROVE  Sound'
  <2>1. Sound
    BY <1>2, <1>3 DEF IInv
  <2>2. ASSUME NEW d \in Desk, RefundActions(d) \/ Proceed(d) \/ Crash(d)
        PROVE  Sound'
    BY <1>1, <2>1, <2>2, RefundActionsSound, ProceedSound, EndsSound
  <2>3. ASSUME NEW r \in Refund, Settle(r) \/ Repeat(r)
        PROVE  Sound'
    BY <1>1, <1>3, <2>1, <2>3, SettleSound, RepeatSound
  <2>4. ASSUME NEW h \in hooks, ReconcileWrite(h) \/ HookTells(h) \/ HookDies(h)
        PROVE  Sound'
    <3>1. h.event.state \in {"processed", "failed"}
      BY <1>1, HookType, EventParts
    <3> QED
      BY <1>1, <2>1, <2>4, <3>1, ProcessedWriteSound, FailedWriteSound, HookTellsSound,
         HookDiesSound
  <2> QED
    BY <1>1, <2>1, <2>2, <2>3, <2>4, ExpireSound, ReconcileReadSound, StutterSound DEF Next
<1> QED
  BY <1>1, <1>3 DEF IInv

(* With one request of staff at a time the inductive invariant holds in    *)
(* every reachable state (admin-refund-online.ts, refund-otp.ts).          *)
THEOREM IInvHolds == ASSUME OneDesk PROVE Spec => []IInv
<1>1. Init => IInv
  BY InitType, InitSound DEF IInv
<1>2. IInv /\ [Next]_vars => IInv'
  BY StepIInv
<1> QED
  BY <1>1, <1>2, PTL DEF Spec

(* With one request at a time the guest is paid once, by hand or online,   *)
(* however many refunds fail, are lost or are made by a call that died     *)
(* (executeOnlineRefund, updateRefundStatus, reconcileRefundEvent).        *)
THEOREM GuestIsPaidOnce == ASSUME OneDesk PROVE Spec => []PaidOnce
<1>1. IInv => PaidOnce
  <2> SUFFICES ASSUME TypeOK, Money PROVE Cardinality(Live) + byHand <= 1
    BY DEF IInv, Sound, PaidOnce
  <2>1. refundStatus \in Open \cup {"PROCESSING", "PROCESSED"}
    BY Parts, Statuses
  <2>2. CASE Live = {}
    <3>1. Cardinality(Live) = 0
      BY <2>2, FS_EmptySet
    <3>2. byHand \in {0, 1}
      BY <2>1 DEF Money, Open
    <3> QED
      BY <3>1, <3>2
  <2>3. ASSUME NEW r \in Live
        PROVE  Cardinality(Live) + byHand <= 1
    <3>1. Live = {r} /\ byHand = 0
      BY <2>1, <2>3 DEF Money, Open
    <3>2. Cardinality({r}) = 1
      BY FS_Singleton
    <3> QED
      BY <3>1, <3>2
  <2> QED
    BY <2>2, <2>3
<1> QED
  BY <1>1, IInvHolds, PTL

(* And the status, the reference and the mail agree with what was paid.    *)
THEOREM StatusIsTrue == ASSUME OneDesk PROVE Spec => []StatusMatchesMoney
<1>1. IInv => StatusMatchesMoney
  BY DEF IInv, Sound, Money, Open, StatusMatchesMoney
<1> QED
  BY <1>1, IInvHolds, PTL
=============================================================================
