------------------------------- MODULE Outbox -------------------------------
(***************************************************************************)
(* The notification outbox (src/src/server/notifications/outbox.ts): a     *)
(* durable queue between the booking transactions, which only queue rows,  *)
(* and the mail provider.  Delivery runs may overlap, crash at any point   *)
(* or be slow; staff may retry a message at any time.  Nothing here is one *)
(* transaction except the two writes that record an attempt, so each       *)
(* statement is a step of its own; only a run's requeue and the read that  *)
(* follows it are written as one step, since whatever comes between them   *)
(* could as well have come before.                                         *)
(*                                                                         *)
(* Times are relative: wait is how long nextAttemptAt lies ahead, age how  *)
(* long ago the claim was (updatedAt).                                     *)
(***************************************************************************)
EXTENDS Integers, FiniteSets

CONSTANTS
  Message,       \* rows that may be queued, each under a dedupe key
  NoMessage,     \* not a message
  Worker,        \* delivery runs that may overlap
  MaxAttempts,   \* OUTBOX_MAX_ATTEMPTS
  Backoff,       \* BACKOFF_MINUTES: wait after 1, 2, ... failures, in ticks
  StuckSend,     \* STUCK_SEND_MINUTES, in ticks
  MaxCrashes,    \* bound on crashed runs
  MaxRetries     \* bound on staff retries

ASSUME OutboxAssumption ==
  /\ NoMessage \notin Message
  /\ MaxAttempts \in Nat \ {0} /\ StuckSend \in Nat
  /\ MaxCrashes \in Nat /\ MaxRetries \in Nat
  /\ Backoff \in [1..MaxAttempts -> Nat \ {0}]

VARIABLES
  row,           \* the NotificationOutbox row of each message
  todo,          \* what a run read and has not handled: message -> attempts read
  doing,         \* the message a run has claimed, its attemptNo and its stage
  retrying,      \* messages a staff retry has read and not yet written
  accepted,      \* messages the provider accepted at least once (environment)
  okays,         \* NotificationAttempt rows with ok, counted up to 2
  fails,         \* those without, since the row was queued or retried
  reopened,      \* messages a requeue or a retry gave back to the queue
  crashes, retries

vars == <<row, todo, doing, retrying, accepted, okays, fails, reopened, crashes, retries>>
history == <<accepted, okays, fails, reopened>>

Idle == [msg |-> NoMessage, no |-> 0, stage |-> "idle"]

Row == [status : {"NONE", "QUEUED", "SENDING", "SENT", "DEAD_LETTER"},
        attempts : 0..MaxAttempts, wait : Nat, age : 0..(StuckSend + 1)]
Todo == UNION {[S -> 0..(MaxAttempts - 1)] : S \in SUBSET Message}
Doing == {Idle} \cup [msg : Message, no : 1..MaxAttempts, stage : {"send", "ok", "failed"}]

TypeOK ==
  /\ row \in [Message -> Row]
  /\ todo \in [Worker -> Todo]
  /\ doing \in [Worker -> Doing]
  /\ retrying \subseteq Message /\ accepted \subseteq Message /\ reopened \subseteq Message
  /\ okays \in [Message -> 0..2] /\ fails \in [Message -> 0..(MaxAttempts + 1)]
  /\ crashes \in 0..MaxCrashes /\ retries \in 0..MaxRetries

Nothing == [m \in {} |-> 0]

Init ==
  /\ row = [m \in Message |-> [status |-> "NONE", attempts |-> 0, wait |-> 0, age |-> 0]]
  /\ todo = [w \in Worker |-> Nothing]
  /\ doing = [w \in Worker |-> Idle]
  /\ retrying = {} /\ accepted = {} /\ reopened = {}
  /\ okays = [m \in Message |-> 0]
  /\ fails = [m \in Message |-> 0]
  /\ crashes = 0 /\ retries = 0

UpTo(n, bound) == IF n > bound THEN bound ELSE n

-----------------------------------------------------------------------------
(* enqueueNotification: a second time under the same key changes nothing.  *)
EnqueueNotification(m) ==
  /\ row[m].status = "NONE"
  /\ row' = [row EXCEPT ![m].status = "QUEUED"]
  /\ UNCHANGED <<todo, doing, retrying, history, crashes, retries>>

(* Mutant: nothing is stuck before it was sent.                            *)
Stuck_Never == {m \in Message : row[m].status = "SENDING" /\ row[m].age < 0}

(* requeueStuckDeliveries: claimed longer ago than the lease.              *)
Stuck == {m \in Message : row[m].status = "SENDING" /\ row[m].age > StuckSend}

Due(rows) == {m \in Message : rows[m].status = "QUEUED" /\ rows[m].wait = 0}

(* A scheduled run: requeue what is stuck, then read what is due.          *)
StartRun(w) ==
  LET rows == [m \in Message |->
                 IF m \in Stuck THEN [row[m] EXCEPT !.status = "QUEUED", !.age = 0] ELSE row[m]]
  IN  /\ doing[w] = Idle /\ todo[w] = Nothing
      /\ Due(rows) # {}
      /\ row' = rows
      /\ todo' = [todo EXCEPT ![w] = [m \in Due(rows) |-> rows[m].attempts]]
      /\ reopened' = reopened \cup Stuck
      /\ UNCHANGED <<doing, retrying, accepted, okays, fails, crashes, retries>>

(* Mutant: the claim does not look at the status.                          *)
Claimable_Always(m) == TRUE

(* The claim is one conditional UPDATE: only of a row still queued.        *)
Claimable(m) == row[m].status = "QUEUED"

(* The next message of the run.  Its attempt number comes from what was    *)
(* read when the run started, not from the row that is claimed.            *)
Claim(w) ==
  /\ doing[w] = Idle
  /\ \E m \in DOMAIN todo[w] :
       /\ todo' = [todo EXCEPT ![w] = [n \in DOMAIN todo[w] \ {m} |-> todo[w][n]]]
       /\ \/ /\ ~Claimable(m)
             /\ UNCHANGED <<row, doing>>
          \/ /\ Claimable(m)
             /\ row' = [row EXCEPT ![m].status = "SENDING", ![m].age = 0]
             /\ doing' = [doing EXCEPT ![w] =
                            [msg |-> m, no |-> todo[w][m] + 1, stage |-> "send"]]
  /\ UNCHANGED <<retrying, history, crashes, retries>>

(* provider.send: the mail is accepted; or the call fails, and then it may *)
(* have been accepted all the same and the answer, or the write of it,     *)
(* lost: the try block covers both.                                        *)
Send(w) ==
  /\ doing[w].stage = "send"
  /\ \/ /\ doing' = [doing EXCEPT ![w].stage = "ok"]
        /\ accepted' = accepted \cup {doing[w].msg}
     \/ /\ doing' = [doing EXCEPT ![w].stage = "failed"]
        /\ accepted' \in {accepted, accepted \cup {doing[w].msg}}
  /\ UNCHANGED <<row, todo, retrying, okays, fails, reopened, crashes, retries>>

(* The attempt and the row, in one transaction; the row by its id alone.   *)
RecordSent(w) ==
  LET m == doing[w].msg IN
  /\ doing[w].stage = "ok"
  /\ row' = [row EXCEPT ![m].status = "SENT", ![m].age = 0]
  /\ okays' = [okays EXCEPT ![m] = UpTo(@ + 1, 2)]
  /\ doing' = [doing EXCEPT ![w] = Idle]
  /\ UNCHANGED <<todo, retrying, accepted, fails, reopened, crashes, retries>>

(* Mutant: one attempt more than allowed.                                  *)
AfterFailure_OneMore(r, no) ==
  IF no > MaxAttempts
    THEN [r EXCEPT !.status = "DEAD_LETTER", !.attempts = no, !.age = 0]
    ELSE [r EXCEPT !.status = "QUEUED", !.attempts = no, !.age = 0,
                   !.wait = Backoff[no]]

(* Back off and queue again; after the last attempt give up.               *)
AfterFailure(r, no) ==
  IF no >= MaxAttempts
    THEN [r EXCEPT !.status = "DEAD_LETTER", !.attempts = no, !.age = 0]
    ELSE [r EXCEPT !.status = "QUEUED", !.attempts = no, !.age = 0,
                   !.wait = Backoff[no]]

RecordFailed(w) ==
  LET m == doing[w].msg IN
  /\ doing[w].stage = "failed"
  /\ row' = [row EXCEPT ![m] = AfterFailure(@, doing[w].no)]
  /\ fails' = [fails EXCEPT ![m] = UpTo(@ + 1, MaxAttempts + 1)]
  /\ doing' = [doing EXCEPT ![w] = Idle]
  /\ UNCHANGED <<todo, retrying, accepted, okays, reopened, crashes, retries>>

(* The run dies, wherever it is: its claim stays behind in the table.      *)
Crash(w) ==
  /\ crashes < MaxCrashes
  /\ doing[w] # Idle \/ todo[w] # Nothing
  /\ crashes' = crashes + 1
  /\ doing' = [doing EXCEPT ![w] = Idle]
  /\ todo' = [todo EXCEPT ![w] = Nothing]
  /\ UNCHANGED <<row, retrying, history, retries>>

-----------------------------------------------------------------------------
(* retryNotification reads the row, then writes it whatever it is by then. *)
RetryRead(m) ==
  /\ retries < MaxRetries /\ m \notin retrying
  /\ row[m].status \in {"QUEUED", "DEAD_LETTER"}
  /\ retries' = retries + 1
  /\ retrying' = retrying \cup {m}
  /\ UNCHANGED <<row, todo, doing, history, crashes>>

RetryWrite(m) ==
  /\ m \in retrying
  /\ row' = [row EXCEPT ![m] = [status |-> "QUEUED", attempts |-> 0, wait |-> 0, age |-> 0]]
  /\ retrying' = retrying \ {m}
  /\ fails' = [fails EXCEPT ![m] = 0]
  /\ reopened' = reopened \cup {m}
  /\ UNCHANGED <<todo, doing, accepted, okays, crashes, retries>>

(* Time passes for every row that waits or is being sent.                  *)
Aged(r) ==
  [r EXCEPT !.wait = IF r.wait > 0 THEN r.wait - 1 ELSE 0,
            !.age = IF r.status = "SENDING" THEN UpTo(r.age + 1, StuckSend + 1) ELSE 0]

Tick ==
  /\ row' = [m \in Message |-> Aged(row[m])]
  /\ row' # row
  /\ UNCHANGED <<todo, doing, retrying, history, crashes, retries>>

(* The desk's list of messages has a button on those that were queued or   *)
(* given up when the list was loaded.                                      *)
AdminNotificationsPage == \E m \in Message : RetryRead(m)

Next ==
  \/ \E m \in Message : EnqueueNotification(m) \/ RetryWrite(m)
  \/ AdminNotificationsPage
  \/ \E w \in Worker : StartRun(w) \/ Claim(w) \/ Send(w)
                       \/ RecordSent(w) \/ RecordFailed(w) \/ Crash(w)
  \/ Tick

Spec == Init /\ [][Next]_vars

(* The scheduler keeps starting runs, a run that does not crash goes on,   *)
(* and time passes.                                                        *)
Fairness ==
  /\ \A w \in Worker : WF_vars(StartRun(w))
  /\ \A w \in Worker : WF_vars(Claim(w) \/ Send(w) \/ RecordSent(w) \/ RecordFailed(w))
  /\ \A m \in Message : WF_vars(RetryWrite(m))
  /\ WF_vars(Tick)

FairSpec == Spec /\ Fairness

-----------------------------------------------------------------------------
Sending(m) == {w \in Worker : doing[w].msg = m}

(* The claim does its work as long as nobody gives the message back: one   *)
(* run at a time has it, only while the row says so; it is delivered once, *)
(* and then nobody has it (outbox.ts:27-28, overlapping runs included).    *)
OneDelivery ==
  \A m \in Message \ reopened :
    /\ Cardinality(Sending(m)) <= 1
    /\ Sending(m) # {} => row[m].status = "SENDING"
    /\ okays[m] <= 1
    /\ okays[m] = 1 <=> row[m].status = "SENT"

(* The row never claims a delivery that did not happen, nor gives up       *)
(* before its counter says so, nor queues what it gave up on.  A message   *)
(* that nobody gave back has failed as often as it should before it is     *)
(* given up, although overlapping runs count from what they read at their  *)
(* start (outbox.ts:118, :132); after a staff retry it may be fewer times. *)
StatusIsEarned ==
  \A m \in Message :
    /\ row[m].status = "SENT" => m \in accepted /\ okays[m] > 0
    /\ row[m].status = "DEAD_LETTER" <=> row[m].attempts = MaxAttempts /\ row[m].status # "SENT"
    /\ row[m].status \in {"QUEUED", "SENDING"} => row[m].attempts < MaxAttempts
    /\ row[m].status = "DEAD_LETTER" /\ m \notin reopened => fails[m] >= MaxAttempts

(* A message queued is delivered or put before staff in the end, whatever  *)
(* crashes and however runs overlap.                                       *)
MailSettles ==
  \A m \in Message :
    row[m].status \in {"QUEUED", "SENDING"} ~> row[m].status \in {"SENT", "DEAD_LETTER"}
=============================================================================
