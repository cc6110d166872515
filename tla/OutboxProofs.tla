---------------------------- MODULE OutboxProofs ----------------------------
(***************************************************************************)
(* Theorems about Outbox.tla, for any number of messages, overlapping      *)
(* runs, crashes and staff retries, and any number of attempts.            *)
(*                                                                         *)
(* A message nobody gave back has one sender at most, since a claim is of  *)
(* a queued row and makes it a row that is being sent.  And it is never    *)
(* counted further than it failed: the counter a run has read at its start *)
(* may be out of date, but only by being too low (Counted).                *)
(***************************************************************************)
EXTENDS Outbox, FiniteSetTheorems, TLAPS

(* One run at a time, and only while the row says so.                      *)
OneSender ==
  \A m \in Message \ reopened :
    /\ \A v, w \in Sending(m) : v = w
    /\ Sending(m) # {} => row[m].status = "SENDING"
    /\ okays[m] <= 1
    /\ okays[m] = 1 <=> row[m].status = "SENT"

(* No counter of a message that nobody gave back is ahead of its failures. *)
Counted ==
  \A m \in Message \ reopened :
    /\ row[m].attempts <= fails[m]
    /\ \A w \in Worker :
         /\ m \in DOMAIN todo[w] => todo[w][m] <= fails[m]
         /\ doing[w].msg = m => doing[w].no <= fails[m] + 1

(* What a run will record as sent was accepted.                            *)
OkAccepted ==
  \A w \in Worker : doing[w].stage = "ok" => doing[w].msg \in accepted

IInv == TypeOK /\ OneSender /\ Counted /\ OkAccepted /\ StatusIsEarned

-----------------------------------------------------------------------------
(* The parts of the state that the proofs speak about.                     *)
LEMMA RowParts ==
  ASSUME TypeOK, NEW m \in Message
  PROVE  /\ row[m] \in Row
         /\ row[m].status \in {"NONE", "QUEUED", "SENDING", "SENT", "DEAD_LETTER"}
         /\ row[m].attempts \in 0..MaxAttempts
         /\ okays[m] \in 0..2 /\ fails[m] \in 0..(MaxAttempts + 1)
BY DEF TypeOK, Row

LEMMA RowChange ==
  ASSUME NEW r \in Row, NEW status \in {"QUEUED", "SENDING", "SENT"}
  PROVE  /\ [r EXCEPT !.status = status, !.age = 0] \in Row
         /\ [r EXCEPT !.status = status, !.age = 0].status = status
         /\ [r EXCEPT !.status = status, !.age = 0].attempts = r.attempts
<1>1. 0 \in 0..(StuckSend + 1)
  BY OutboxAssumption
<1>2. status \in {"NONE", "QUEUED", "SENDING", "SENT", "DEAD_LETTER"}
  OBVIOUS
<1> QED
  BY <1>1, <1>2 DEF Row

LEMMA IdleParts ==
  /\ Idle \in Doing /\ Idle.msg = NoMessage /\ Idle.stage = "idle" /\ Idle.msg \notin Message
BY OutboxAssumption DEF Idle, Doing

LEMMA DoingParts ==
  ASSUME TypeOK, NEW w \in Worker, doing[w].stage # "idle" \/ doing[w].msg \in Message
  PROVE  /\ doing[w] \in [msg : Message, no : 1..MaxAttempts, stage : {"send", "ok", "failed"}]
         /\ doing[w].msg \in Message /\ doing[w].no \in 1..MaxAttempts
BY IdleParts DEF TypeOK, Doing

LEMMA TodoParts ==
  ASSUME NEW t \in Todo
  PROVE  /\ DOMAIN t \in SUBSET Message
         /\ \A m \in DOMAIN t : t[m] \in 0..(MaxAttempts - 1)
         /\ \A m : [n \in DOMAIN t \ {m} |-> t[n]] \in Todo
<1>1. PICK S \in SUBSET Message : t \in [S -> 0..(MaxAttempts - 1)]
  BY DEF Todo
<1>2. ASSUME NEW m
      PROVE  [n \in DOMAIN t \ {m} |-> t[n]] \in Todo
  <2>1. [n \in DOMAIN t \ {m} |-> t[n]] \in [S \ {m} -> 0..(MaxAttempts - 1)]
    BY <1>1
  <2>2. S \ {m} \in SUBSET Message
    OBVIOUS
  <2> QED
    BY <2>1, <2>2 DEF Todo
<1> QED
  BY <1>1, <1>2

LEMMA NothingIsTodo == Nothing \in Todo /\ DOMAIN Nothing = {}
<1>1. Nothing \in [{} -> 0..(MaxAttempts - 1)] /\ DOMAIN Nothing = {}
  BY DEF Nothing
<1>2. {} \in SUBSET Message
  OBVIOUS
<1> QED
  BY <1>1, <1>2 DEF Todo

-----------------------------------------------------------------------------
LEMMA InitIInv == Init => IInv
<1> SUFFICES ASSUME Init PROVE IInv
  OBVIOUS
<1>1. /\ \A m \in Message : /\ row[m].status = "NONE" /\ row[m].attempts = 0
                            /\ okays[m] = 0 /\ fails[m] = 0
      /\ \A w \in Worker : doing[w] = Idle /\ todo[w] = Nothing
  BY DEF Init
<1>2. TypeOK
  <2>1. row \in [Message -> Row]
    <3>1. [status |-> "NONE", attempts |-> 0, wait |-> 0, age |-> 0] \in Row
      BY OutboxAssumption DEF Row
    <3> QED
      BY <3>1 DEF Init
  <2>2. todo \in [Worker -> Todo] /\ doing \in [Worker -> Doing]
    BY NothingIsTodo, IdleParts DEF Init
  <2>3. /\ okays \in [Message -> 0..2] /\ fails \in [Message -> 0..(MaxAttempts + 1)]
        /\ crashes \in 0..MaxCrashes /\ retries \in 0..MaxRetries
    BY OutboxAssumption DEF Init
  <2>4. retrying = {} /\ accepted = {} /\ reopened = {}
    BY DEF Init
  <2> QED
    BY <2>1, <2>2, <2>3, <2>4 DEF TypeOK
<1>3. OneSender
  BY <1>1, IdleParts DEF OneSender, Sending
<1>4. Counted
  BY <1>1, IdleParts, NothingIsTodo DEF Counted
<1>5. OkAccepted
  BY <1>1, IdleParts DEF OkAccepted
<1>6. StatusIsEarned
  BY <1>1, OutboxAssumption DEF StatusIsEarned
<1> QED
  BY <1>2, <1>3, <1>4, <1>5, <1>6 DEF IInv

LEMMA EnqueueIInv ==
  ASSUME IInv, NEW m \in Message, EnqueueNotification(m)
  PROVE  IInv'
<1> USE DEF IInv
<1>1. /\ row[m].status = "NONE" /\ row' = [row EXCEPT ![m].status = "QUEUED"]
      /\ UNCHANGED <<todo, doing, retrying, accepted, okays, fails, reopened, crashes, retries>>
  BY DEF EnqueueNotification, history
<1>2. /\ row' \in [Message -> Row]
      /\ row'[m].status = "QUEUED" /\ row'[m].attempts = row[m].attempts
      /\ \A n \in Message : n # m => row'[n] = row[n]
  BY <1>1, RowParts DEF TypeOK, Row
<1>3. TypeOK'
  BY <1>1, <1>2 DEF TypeOK
<1>4. \A n \in Message : Sending(n)' = Sending(n)
  BY <1>1 DEF Sending
<1>5. OneSender'
  BY <1>1, <1>2, <1>4 DEF OneSender
<1>6. Counted' /\ OkAccepted'
  BY <1>1, <1>2 DEF Counted, OkAccepted
<1>7. StatusIsEarned'
  <2>1. row[m].attempts < MaxAttempts
    BY <1>1, RowParts, OutboxAssumption DEF StatusIsEarned
  <2> QED
    BY <1>1, <1>2, <2>1 DEF StatusIsEarned
<1> QED
  BY <1>3, <1>5, <1>6, <1>7

LEMMA StartRunIInv ==
  ASSUME IInv, NEW w \in Worker, StartRun(w)
  PROVE  IInv'
<1> USE DEF IInv
<1> DEFINE rows == [m \in Message |->
                      IF m \in Stuck THEN [row[m] EXCEPT !.status = "QUEUED", !.age = 0]
                      ELSE row[m]]
           due == [m \in Due(rows) |-> rows[m].attempts]
<1>1. /\ doing[w] = Idle /\ row' = rows
      /\ todo' = [todo EXCEPT ![w] = due]
      /\ reopened' = reopened \cup Stuck
      /\ UNCHANGED <<doing, retrying, accepted, okays, fails, crashes, retries>>
  BY DEF StartRun
<1>2. Stuck \in SUBSET Message /\ \A m \in Stuck : row[m].status = "SENDING"
  BY DEF Stuck
<1>3. /\ rows \in [Message -> Row]
      /\ \A m \in Message : rows[m].attempts = row[m].attempts
      /\ \A m \in Stuck : rows[m].status = "QUEUED"
      /\ \A m \in Message \ Stuck : rows[m] = row[m]
  BY <1>2, RowParts, RowChange
<1> HIDE DEF rows
<1>4. \A m \in Message : rows[m].status = "QUEUED" => rows[m].attempts \in 0..(MaxAttempts - 1)
  <2> TAKE m \in Message
  <2>1. row[m].status \in {"QUEUED", "SENDING"} => row[m].attempts < MaxAttempts
    BY DEF StatusIsEarned
  <2> QED
    BY <1>2, <1>3, <2>1, RowParts, OutboxAssumption
<1>5. due \in Todo /\ DOMAIN due \in SUBSET Message
      /\ \A m \in DOMAIN due : due[m] = row[m].attempts
  <2>1. Due(rows) \in SUBSET Message /\ \A m \in Due(rows) : rows[m].status = "QUEUED"
    BY DEF Due
  <2>2. due \in [Due(rows) -> 0..(MaxAttempts - 1)]
    BY <1>4, <2>1
  <2> QED
    BY <1>3, <2>1, <2>2 DEF Todo
<1> HIDE DEF due
<1>6. /\ todo' \in [Worker -> Todo] /\ todo'[w] = due
      /\ \A v \in Worker : v # w => todo'[v] = todo[v]
  BY <1>1, <1>5 DEF TypeOK
<1>7. TypeOK'
  BY <1>1, <1>2, <1>3, <1>6 DEF TypeOK
<1>8. \A m \in Message : Sending(m)' = Sending(m)
  BY <1>1 DEF Sending
<1>9. OneSender'
  BY <1>1, <1>2, <1>3, <1>8 DEF OneSender
<1>10. Counted'
  <2>1. ASSUME NEW m \in Message \ reopened', NEW v \in Worker, m \in DOMAIN todo'[v]
        PROVE  todo'[v][m] <= fails[m]
    <3>1. CASE v = w
      BY <1>1, <1>5, <1>6, <2>1, <3>1 DEF Counted
    <3>2. CASE v # w
      BY <1>1, <1>6, <2>1, <3>2 DEF Counted
    <3> QED
      BY <3>1, <3>2
  <2> QED
    BY <1>1, <1>3, <2>1 DEF Counted
<1>11. OkAccepted'
  BY <1>1 DEF OkAccepted
<1>12. StatusIsEarned'
  <2>1. ASSUME NEW m \in Stuck
        PROVE  rows[m].attempts < MaxAttempts
    BY <1>2, <1>3, <2>1 DEF StatusIsEarned
  <2>2. ASSUME NEW m \in Message
        PROVE  /\ rows[m].status = "SENT" => m \in accepted /\ okays[m] > 0
               /\ rows[m].status = "DEAD_LETTER"
                    <=> rows[m].attempts = MaxAttempts /\ rows[m].status # "SENT"
               /\ rows[m].status \in {"QUEUED", "SENDING"} => rows[m].attempts < MaxAttempts
               /\ rows[m].status = "DEAD_LETTER" /\ m \notin reopened' => fails[m] >= MaxAttempts
    <3>1. CASE m \in Stuck
      <4>1. rows[m].status = "QUEUED" /\ rows[m].attempts < MaxAttempts
        BY <1>3, <2>1, <3>1
      <4> QED
        BY <1>2, <3>1, <4>1, RowParts, <1>3, OutboxAssumption
    <3>2. CASE m \notin Stuck
      BY <1>1, <1>3, <3>2 DEF StatusIsEarned
    <3> QED
      BY <3>1, <3>2
  <2> QED
    BY <1>1, <2>2 DEF StatusIsEarned
<1> QED
  BY <1>7, <1>9, <1>10, <1>11, <1>12

LEMMA ClaimIInv ==
  ASSUME IInv, NEW w \in Worker, Claim(w)
  PROVE  IInv'
<1> USE DEF IInv
<1>1. /\ doing[w] = Idle
      /\ UNCHANGED <<retrying, accepted, okays, fails, reopened, crashes, retries>>
  BY DEF Claim, history
<1>2. PICK m \in DOMAIN todo[w] :
        /\ todo' = [todo EXCEPT ![w] = [n \in DOMAIN todo[w] \ {m} |-> todo[w][n]]]
        /\ \/ UNCHANGED <<row, doing>>
           \/ /\ row[m].status = "QUEUED"
              /\ row' = [row EXCEPT ![m].status = "SENDING", ![m].age = 0]
              /\ doing' = [doing EXCEPT ![w] =
                             [msg |-> m, no |-> todo[w][m] + 1, stage |-> "send"]]
  BY DEF Claim, Claimable
<1>3. todo[w] \in Todo
  BY DEF TypeOK
<1>4. m \in Message /\ todo[w][m] \in 0..(MaxAttempts - 1)
  BY <1>2, <1>3, TodoParts
<1> DEFINE rest == [n \in DOMAIN todo[w] \ {m} |-> todo[w][n]]
<1>5. rest \in Todo /\ DOMAIN rest = DOMAIN todo[w] \ {m}
      /\ \A n \in DOMAIN rest : rest[n] = todo[w][n]
  BY <1>3, TodoParts
<1>6. todo' = [todo EXCEPT ![w] = rest]
  BY <1>2
<1> HIDE DEF rest
<1>7. /\ todo' \in [Worker -> Todo] /\ todo'[w] = rest
      /\ \A v \in Worker : v # w => todo'[v] = todo[v]
  BY <1>5, <1>6 DEF TypeOK
<1>8. \A n \in Message \ reopened : \A v \in Worker :
        n \in DOMAIN todo'[v] => todo'[v][n] <= fails[n]
  <2> TAKE n \in Message \ reopened
  <2> TAKE v \in Worker
  <2>1. n \in DOMAIN todo'[v] => n \in DOMAIN todo[v] /\ todo'[v][n] = todo[v][n]
    BY <1>5, <1>7
  <2> QED
    BY <2>1 DEF Counted
<1>9. CASE UNCHANGED <<row, doing>>
  <2>1. TypeOK'
    BY <1>1, <1>7, <1>9 DEF TypeOK
  <2>2. \A n \in Message : Sending(n)' = Sending(n)
    BY <1>9 DEF Sending
  <2>3. OneSender' /\ OkAccepted' /\ StatusIsEarned'
    BY <1>1, <1>9, <2>2 DEF OneSender, OkAccepted, StatusIsEarned
  <2>4. Counted'
    BY <1>1, <1>8, <1>9 DEF Counted
  <2> QED
    BY <2>1, <2>3, <2>4
<1>10. CASE /\ row[m].status = "QUEUED"
            /\ row' = [row EXCEPT ![m].status = "SENDING", ![m].age = 0]
            /\ doing' = [doing EXCEPT ![w] =
                           [msg |-> m, no |-> todo[w][m] + 1, stage |-> "send"]]
  <2>1. /\ row' \in [Message -> Row]
        /\ row'[m].status = "SENDING" /\ row'[m].attempts = row[m].attempts
        /\ \A n \in Message : n # m => row'[n] = row[n]
    <3> DEFINE new == [row[m] EXCEPT !.status = "SENDING", !.age = 0]
    <3>1. new \in Row /\ new.status = "SENDING" /\ new.attempts = row[m].attempts
      BY <1>4, RowParts, RowChange
    <3>2. row' = [row EXCEPT ![m] = new]
      BY <1>4, <1>10 DEF TypeOK
    <3> HIDE DEF new
    <3> QED
      BY <1>4, <3>1, <3>2 DEF TypeOK
  <2>2. /\ doing' \in [Worker -> Doing]
        /\ doing'[w].msg = m /\ doing'[w].no = todo[w][m] + 1 /\ doing'[w].stage = "send"
        /\ \A v \in Worker : v # w => doing'[v] = doing[v]
    <3>1. [msg |-> m, no |-> todo[w][m] + 1, stage |-> "send"] \in Doing
      BY <1>4, OutboxAssumption DEF Doing
    <3> QED
      BY <1>10, <3>1 DEF TypeOK
  <2>3. TypeOK'
    BY <1>1, <1>7, <2>1, <2>2 DEF TypeOK
  <2>4. /\ Sending(m)' = Sending(m) \cup {w}
        /\ \A n \in Message : n # m => Sending(n)' = Sending(n)
    BY <1>1, <1>4, <2>2, IdleParts DEF Sending
  <2>5. OneSender'
    <3>1. m \notin reopened => Sending(m) = {}
      BY <1>4, <1>10 DEF OneSender
    <3> QED
      BY <1>1, <1>4, <1>10, <2>1, <2>4, <3>1 DEF OneSender
  <2>6. Counted'
    <3>1. ASSUME NEW n \in Message \ reopened, NEW v \in Worker, doing'[v].msg = n
          PROVE  doing'[v].no <= fails[n] + 1
      <4>1. CASE v = w
        <5>1. n = m
          BY <2>2, <3>1, <4>1
        <5> QED
          BY <1>2, <1>4, <2>2, <4>1, <5>1, RowParts DEF Counted
      <4>2. CASE v # w
        BY <2>2, <3>1, <4>2 DEF Counted
      <4> QED
        BY <4>1, <4>2
    <3> QED
      BY <1>1, <1>4, <1>8, <2>1, <3>1 DEF Counted
  <2>7. OkAccepted'
    BY <1>1, <2>2 DEF OkAccepted
  <2>8. StatusIsEarned'
    BY <1>1, <1>4, <1>10, <2>1 DEF StatusIsEarned
  <2> QED
    BY <2>3, <2>5, <2>6, <2>7, <2>8
<1> QED
  BY <1>2, <1>9, <1>10

LEMMA SendIInv ==
  ASSUME IInv, NEW w \in Worker, Send(w)
  PROVE  IInv'
<1> USE DEF IInv
<1>1. /\ doing[w].stage = "send"
      /\ \E stage \in {"ok", "failed"} :
           /\ doing' = [doing EXCEPT ![w].stage = stage]
           /\ accepted' \in {accepted, accepted \cup {doing[w].msg}}
           /\ stage = "ok" => doing[w].msg \in accepted'
      /\ UNCHANGED <<row, todo, retrying, okays, fails, reopened, crashes, retries>>
  BY DEF Send
<1>2. PICK stage \in {"ok", "failed"} :
        /\ doing' = [doing EXCEPT ![w].stage = stage]
        /\ accepted' \in {accepted, accepted \cup {doing[w].msg}}
        /\ stage = "ok" => doing[w].msg \in accepted'
  BY <1>1
<1>3. /\ doing[w] \in [msg : Message, no : 1..MaxAttempts, stage : {"send", "ok", "failed"}]
      /\ doing[w].msg \in Message
  BY <1>1, DoingParts
<1>4. /\ doing' \in [Worker -> Doing] /\ doing'[w].stage = stage
      /\ \A v \in Worker : doing'[v].msg = doing[v].msg /\ doing'[v].no = doing[v].no
      /\ \A v \in Worker : v # w => doing'[v] = doing[v]
  BY <1>2, <1>3 DEF TypeOK, Doing
<1>5. TypeOK'
  BY <1>1, <1>2, <1>3, <1>4 DEF TypeOK
<1>6. \A m \in Message : Sending(m)' = Sending(m)
  BY <1>4 DEF Sending
<1>7. OneSender'
  BY <1>1, <1>6 DEF OneSender
<1>8. Counted'
  BY <1>1, <1>4 DEF Counted
<1>9. OkAccepted'
  <2>1. ASSUME NEW v \in Worker, doing'[v].stage = "ok"
        PROVE  doing'[v].msg \in accepted'
    <3>1. CASE v = w
      BY <1>2, <1>4, <2>1, <3>1
    <3>2. CASE v # w
      BY <1>2, <1>4, <2>1, <3>2 DEF OkAccepted
    <3> QED
      BY <3>1, <3>2
  <2> QED
    BY <2>1 DEF OkAccepted
<1>10. StatusIsEarned'
  BY <1>1, <1>2 DEF StatusIsEarned
<1> QED
  BY <1>5, <1>7, <1>8, <1>9, <1>10

(* A run that records its attempt has nothing in hand any more.            *)
LEMMA LaysDown ==
  ASSUME TypeOK, NEW w \in Worker, doing' = [doing EXCEPT ![w] = Idle]
  PROVE  /\ doing' \in [Worker -> Doing] /\ doing'[w] = Idle
         /\ \A v \in Worker : v # w => doing'[v] = doing[v]
         /\ \A m \in Message : Sending(m)' = Sending(m) \ {w}
BY IdleParts DEF TypeOK, Sending

LEMMA RecordSentIInv ==
  ASSUME IInv, NEW w \in Worker, RecordSent(w)
  PROVE  IInv'
<1> USE DEF IInv
<1> DEFINE m == doing[w].msg
<1>1. /\ doing[w].stage = "ok" /\ row' = [row EXCEPT ![m].status = "SENT", ![m].age = 0]
      /\ okays' = [okays EXCEPT ![m] = UpTo(@ + 1, 2)]
      /\ doing' = [doing EXCEPT ![w] = Idle]
      /\ UNCHANGED <<todo, retrying, accepted, fails, reopened, crashes, retries>>
  BY DEF RecordSent
<1>2. PICK msg \in Message : msg = m
  BY <1>1, DoingParts
<1> HIDE DEF m
<1>3. /\ row' \in [Message -> Row]
      /\ row'[msg].status = "SENT" /\ row'[msg].attempts = row[msg].attempts
      /\ \A n \in Message : n # msg => row'[n] = row[n]
  <2> DEFINE new == [row[msg] EXCEPT !.status = "SENT", !.age = 0]
  <2>1. new \in Row /\ new.status = "SENT" /\ new.attempts = row[msg].attempts
    BY RowParts, RowChange
  <2>2. row' = [row EXCEPT ![msg] = new]
    BY <1>1, <1>2 DEF TypeOK
  <2> HIDE DEF new
  <2> QED
    BY <2>1, <2>2 DEF TypeOK
<1>4. /\ okays' \in [Message -> 0..2] /\ okays'[msg] = UpTo(okays[msg] + 1, 2)
      /\ okays'[msg] > 0
      /\ \A n \in Message : n # msg => okays'[n] = okays[n]
  BY <1>1, <1>2, RowParts DEF TypeOK, UpTo
<1>5. /\ doing' \in [Worker -> Doing] /\ doing'[w] = Idle
      /\ \A v \in Worker : v # w => doing'[v] = doing[v]
      /\ \A n \in Message : Sending(n)' = Sending(n) \ {w}
  BY <1>1, LaysDown
<1>6. TypeOK'
  BY <1>1, <1>3, <1>4, <1>5 DEF TypeOK
<1>7. w \in Sending(msg) /\ \A n \in Message : n # msg => Sending(n)' = Sending(n)
  BY <1>2, <1>5 DEF Sending, m
<1>8. OneSender'
  <2>1. ASSUME NEW n \in Message \ reopened
        PROVE  /\ \A u, v \in Sending(n)' : u = v
               /\ Sending(n)' # {} => row'[n].status = "SENDING"
               /\ okays'[n] <= 1
               /\ okays'[n] = 1 <=> row'[n].status = "SENT"
    <3>1. CASE n = msg
      <4>1. Sending(n)' = {}
        BY <1>5, <1>7, <3>1 DEF OneSender
      <4>2. row[msg].status = "SENDING" /\ okays[msg] = 0
        BY <1>7, <3>1, RowParts DEF OneSender
      <4>3. okays'[msg] = 1
        BY <1>4, <4>2 DEF UpTo
      <4> QED
        BY <1>3, <3>1, <4>1, <4>3
    <3>2. CASE n # msg
      BY <1>3, <1>4, <1>7, <3>2 DEF OneSender
    <3> QED
      BY <3>1, <3>2
  <2> QED
    BY <1>1, <2>1 DEF OneSender
<1>9. Counted'
  <2>1. \A n \in Message : row'[n].attempts = row[n].attempts
    BY <1>3
  <2>2. \A n \in Message : \A v \in Worker : doing'[v].msg = n => doing'[v] = doing[v]
    BY <1>5, IdleParts
  <2> QED
    BY <1>1, <2>1, <2>2 DEF Counted
<1>10. OkAccepted'
  BY <1>1, <1>5, IdleParts DEF OkAccepted
<1>11. StatusIsEarned'
  <2>1. msg \in accepted
    BY <1>1, <1>2 DEF OkAccepted, m
  <2>2. ASSUME NEW n \in Message
        PROVE  /\ row'[n].status = "SENT" => n \in accepted /\ okays'[n] > 0
               /\ row'[n].status = "DEAD_LETTER"
                    <=> row'[n].attempts = MaxAttempts /\ row'[n].status # "SENT"
               /\ row'[n].status \in {"QUEUED", "SENDING"} => row'[n].attempts < MaxAttempts
               /\ row'[n].status = "DEAD_LETTER" /\ n \notin reopened => fails[n] >= MaxAttempts
    <3>1. CASE n = msg
      BY <1>3, <1>4, <2>1, <3>1
    <3>2. CASE n # msg
      BY <1>3, <1>4, <3>2 DEF StatusIsEarned
    <3> QED
      BY <3>1, <3>2
  <2> QED
    BY <1>1, <2>2 DEF StatusIsEarned
<1> QED
  BY <1>6, <1>8, <1>9, <1>10, <1>11

LEMMA RecordFailedIInv ==
  ASSUME IInv, NEW w \in Worker, RecordFailed(w)
  PROVE  IInv'
<1> USE DEF IInv
<1>1. PICK m \in Message, no \in 1..MaxAttempts : doing[w].msg = m /\ doing[w].no = no
  BY DoingParts DEF RecordFailed
<1>2. /\ row' = [row EXCEPT ![m] = AfterFailure(row[m], no)]
      /\ fails' = [fails EXCEPT ![m] = UpTo(@ + 1, MaxAttempts + 1)]
      /\ doing' = [doing EXCEPT ![w] = Idle]
      /\ UNCHANGED <<todo, retrying, accepted, okays, reopened, crashes, retries>>
  BY <1>1 DEF RecordFailed, TypeOK
<1>3. /\ AfterFailure(row[m], no) \in Row
      /\ AfterFailure(row[m], no).attempts = no
      /\ AfterFailure(row[m], no).status = IF no >= MaxAttempts THEN "DEAD_LETTER" ELSE "QUEUED"
  <2>1. row[m] \in Row /\ 0 \in 0..(StuckSend + 1) /\ Backoff[no] \in Nat /\ no \in 0..MaxAttempts
    BY RowParts, OutboxAssumption
  <2> QED
    BY <2>1 DEF AfterFailure, Row
<1>4. /\ row' \in [Message -> Row]
      /\ row'[m].attempts = no
      /\ row'[m].status = IF no >= MaxAttempts THEN "DEAD_LETTER" ELSE "QUEUED"
      /\ \A n \in Message : n # m => row'[n] = row[n]
  BY <1>2, <1>3 DEF TypeOK
<1>5. /\ fails' \in [Message -> 0..(MaxAttempts + 1)]
      /\ fails[m] <= fails'[m]
      /\ fails[m] + 1 <= fails'[m] \/ fails'[m] = MaxAttempts + 1
      /\ \A n \in Message : n # m => fails'[n] = fails[n]
  BY <1>2, RowParts, OutboxAssumption DEF TypeOK, UpTo
<1>6. /\ doing' \in [Worker -> Doing] /\ doing'[w] = Idle
      /\ \A v \in Worker : v # w => doing'[v] = doing[v]
      /\ \A n \in Message : Sending(n)' = Sending(n) \ {w}
  BY <1>2, LaysDown
<1>7. TypeOK'
  BY <1>2, <1>4, <1>5, <1>6 DEF TypeOK
<1>8. w \in Sending(m) /\ \A n \in Message : n # m => Sending(n)' = Sending(n)
  BY <1>1, <1>6 DEF Sending
<1>9. OneSender'
  <2>1. ASSUME NEW n \in Message \ reopened
        PROVE  /\ \A u, v \in Sending(n)' : u = v
               /\ Sending(n)' # {} => row'[n].status = "SENDING"
               /\ okays[n] <= 1
               /\ okays[n] = 1 <=> row'[n].status = "SENT"
    <3>1. CASE n = m
      <4>1. Sending(n)' = {}
        BY <1>6, <1>8, <3>1 DEF OneSender
      <4>2. row[m].status = "SENDING" /\ okays[m] # 1 /\ okays[m] <= 1
        BY <1>8, <3>1 DEF OneSender
      <4> QED
        BY <1>4, <3>1, <4>1, <4>2
    <3>2. CASE n # m
      BY <1>4, <1>8, <3>2 DEF OneSender
    <3> QED
      BY <3>1, <3>2
  <2> QED
    BY <1>2, <2>1 DEF OneSender
<1>10. m \notin reopened => no <= fails'[m]
  <2>1. m \notin reopened => no <= fails[m] + 1
    BY <1>1 DEF Counted
  <2> QED
    BY <1>5, <1>7, <2>1, RowParts, OutboxAssumption DEF TypeOK
<1>11. Counted'
  <2>1. ASSUME NEW n \in Message \ reopened
        PROVE  /\ row'[n].attempts <= fails'[n]
               /\ \A v \in Worker :
                    /\ n \in DOMAIN todo[v] => todo[v][n] <= fails'[n]
                    /\ doing'[v].msg = n => doing'[v].no <= fails'[n] + 1
    <3>1. fails[n] \in Int /\ fails'[n] \in Int /\ fails[n] <= fails'[n]
      BY <1>5, <1>7, RowParts DEF TypeOK
    <3>2. row'[n].attempts <= fails'[n]
      BY <1>4, <1>5, <1>10 DEF Counted
    <3>3. ASSUME NEW v \in Worker, n \in DOMAIN todo[v]
          PROVE  todo[v][n] <= fails'[n]
      <4>1. todo[v][n] <= fails[n] /\ todo[v][n] \in Int
        BY <3>3, TodoParts DEF Counted, TypeOK
      <4> QED
        BY <3>1, <4>1
    <3>4. ASSUME NEW v \in Worker, doing'[v].msg = n
          PROVE  doing'[v].no <= fails'[n] + 1
      <4>1. v # w /\ doing'[v] = doing[v]
        BY <1>6, <3>4, IdleParts
      <4>2. doing[v].no <= fails[n] + 1 /\ doing[v].no \in Int
        BY <3>4, <4>1, DoingParts DEF Counted
      <4> QED
        BY <3>1, <4>1, <4>2
    <3> QED
      BY <3>2, <3>3, <3>4
  <2> QED
    BY <1>2, <2>1 DEF Counted
<1>12. OkAccepted'
  BY <1>2, <1>6, IdleParts DEF OkAccepted
<1>13. StatusIsEarned'
  <2>1. /\ row'[m].status \in {"DEAD_LETTER", "QUEUED"}
        /\ row'[m].status = "DEAD_LETTER" <=> no = MaxAttempts
        /\ row'[m].status = "QUEUED" => no < MaxAttempts
    BY <1>1, <1>4, OutboxAssumption
  <2>2. row'[m].status = "DEAD_LETTER" /\ m \notin reopened => fails'[m] >= MaxAttempts
    BY <1>10, <2>1
  <2>3. \A n \in Message : n # m => row'[n] = row[n] /\ fails'[n] = fails[n]
    BY <1>4, <1>5
  <2> QED
    BY <1>2, <1>4, <2>1, <2>2, <2>3 DEF StatusIsEarned
<1> QED
  BY <1>7, <1>9, <1>11, <1>12, <1>13

LEMMA CrashIInv ==
  ASSUME IInv, NEW w \in Worker, Crash(w)
  PROVE  IInv'
<1> USE DEF IInv
<1>1. /\ crashes < MaxCrashes /\ crashes' = crashes + 1
      /\ doing' = [doing EXCEPT ![w] = Idle] /\ todo' = [todo EXCEPT ![w] = Nothing]
      /\ UNCHANGED <<row, retrying, accepted, okays, fails, reopened, retries>>
  BY DEF Crash, history
<1>2. /\ doing' \in [Worker -> Doing] /\ doing'[w] = Idle
      /\ \A v \in Worker : v # w => doing'[v] = doing[v]
      /\ \A n \in Message : Sending(n)' = Sending(n) \ {w}
  BY <1>1, LaysDown
<1>3. /\ todo' \in [Worker -> Todo] /\ todo'[w] = Nothing
      /\ \A v \in Worker : v # w => todo'[v] = todo[v]
  BY <1>1, NothingIsTodo DEF TypeOK
<1>4. TypeOK'
  BY <1>1, <1>2, <1>3, OutboxAssumption DEF TypeOK
<1>5. OneSender'
  BY <1>1, <1>2 DEF OneSender
<1>6. Counted'
  BY <1>1, <1>2, <1>3, IdleParts, NothingIsTodo DEF Counted
<1>7. OkAccepted'
  BY <1>1, <1>2, IdleParts DEF OkAccepted
<1>8. StatusIsEarned'
  BY <1>1 DEF StatusIsEarned
<1> QED
  BY <1>4, <1>5, <1>6, <1>7, <1>8

LEMMA RetryReadIInv ==
  ASSUME IInv, NEW m \in Message, RetryRead(m)
  PROVE  IInv'
<1> USE DEF IInv
<1>1. /\ retries < MaxRetries /\ retries' = retries + 1 /\ retrying' = retrying \cup {m}
      /\ UNCHANGED <<row, todo, doing, accepted, okays, fails, reopened, crashes>>
  BY DEF RetryRead, history
<1>2. TypeOK'
  BY <1>1, OutboxAssumption DEF TypeOK
<1>3. OneSender' /\ Counted' /\ OkAccepted' /\ StatusIsEarned'
  BY <1>1 DEF OneSender, Sending, Counted, OkAccepted, StatusIsEarned
<1> QED
  BY <1>2, <1>3

LEMMA RetryWriteIInv ==
  ASSUME IInv, NEW m \in Message, RetryWrite(m)
  PROVE  IInv'
<1> USE DEF IInv
<1> DEFINE new == [status |-> "QUEUED", attempts |-> 0, wait |-> 0, age |-> 0]
<1>1. /\ row' = [row EXCEPT ![m] = new]
      /\ retrying' = retrying \ {m} /\ fails' = [fails EXCEPT ![m] = 0]
      /\ reopened' = reopened \cup {m}
      /\ UNCHANGED <<todo, doing, accepted, okays, crashes, retries>>
  BY DEF RetryWrite
<1>2. new \in Row /\ new.status = "QUEUED" /\ new.attempts = 0
  BY OutboxAssumption DEF Row
<1> HIDE DEF new
<1>3. /\ row' \in [Message -> Row] /\ row'[m] = new
      /\ \A n \in Message : n # m => row'[n] = row[n]
      /\ fails' \in [Message -> 0..(MaxAttempts + 1)]
      /\ \A n \in Message : n # m => fails'[n] = fails[n]
  BY <1>1, <1>2, OutboxAssumption DEF TypeOK
<1>4. TypeOK'
  BY <1>1, <1>3 DEF TypeOK
<1>5. \A n \in Message : Sending(n)' = Sending(n)
  BY <1>1 DEF Sending
<1>6. OneSender'
  BY <1>1, <1>3, <1>5 DEF OneSender
<1>7. Counted' /\ OkAccepted'
  BY <1>1, <1>3 DEF Counted, OkAccepted
<1>8. StatusIsEarned'
  BY <1>1, <1>2, <1>3, OutboxAssumption DEF StatusIsEarned
<1> QED
  BY <1>4, <1>6, <1>7, <1>8

LEMMA TickIInv ==
  ASSUME IInv, Tick
  PROVE  IInv'
<1> USE DEF IInv
<1>1. /\ row' = [m \in Message |-> Aged(row[m])]
      /\ UNCHANGED <<todo, doing, retrying, accepted, okays, fails, reopened, crashes, retries>>
  BY DEF Tick, history
<1>2. \A m \in Message :
        /\ Aged(row[m]) \in Row
        /\ Aged(row[m]).status = row[m].status
        /\ Aged(row[m]).attempts = row[m].attempts
  <2> TAKE m \in Message
  <2> DEFINE wait == IF row[m].wait > 0 THEN row[m].wait - 1 ELSE 0
             age == IF row[m].status = "SENDING" THEN UpTo(row[m].age + 1, StuckSend + 1) ELSE 0
  <2>1. row[m] \in Row /\ wait \in Nat /\ age \in 0..(StuckSend + 1)
    BY RowParts, OutboxAssumption DEF UpTo, Row
  <2>2. Aged(row[m]) = [row[m] EXCEPT !.wait = wait, !.age = age]
    BY DEF Aged
  <2> HIDE DEF wait, age
  <2> QED
    BY <2>1, <2>2 DEF Row
<1>3. row' \in [Message -> Row]
  BY <1>1, <1>2
<1>4. \A m \in Message : row'[m].status = row[m].status /\ row'[m].attempts = row[m].attempts
  BY <1>1, <1>2
<1>5. TypeOK'
  BY <1>1, <1>3 DEF TypeOK
<1>6. \A n \in Message : Sending(n)' = Sending(n)
  BY <1>1 DEF Sending
<1>7. OneSender'
  BY <1>1, <1>4, <1>6 DEF OneSender
<1>8. Counted' /\ OkAccepted'
  BY <1>1, <1>4 DEF Counted, OkAccepted
<1>9. StatusIsEarned'
  BY <1>1, <1>4 DEF StatusIsEarned
<1> QED
  BY <1>5, <1>7, <1>8, <1>9

-----------------------------------------------------------------------------
LEMMA NextIInv == IInv /\ [Next]_vars => IInv'
<1> SUFFICES ASSUME IInv, [Next]_vars PROVE IInv'
  OBVIOUS
<1>1. CASE UNCHANGED vars
  BY <1>1 DEF IInv, vars, history, TypeOK, OneSender, Sending, Counted, OkAccepted, StatusIsEarned
<1>2. ASSUME NEW m \in Message, EnqueueNotification(m) \/ RetryRead(m) \/ RetryWrite(m)
      PROVE  IInv'
  BY <1>2, EnqueueIInv, RetryReadIInv, RetryWriteIInv
<1>3. ASSUME NEW w \in Worker, StartRun(w) \/ Claim(w) \/ Crash(w)
      PROVE  IInv'
  BY <1>3, StartRunIInv, ClaimIInv, CrashIInv
<1>4. ASSUME NEW w \in Worker, Send(w) \/ RecordSent(w) \/ RecordFailed(w)
      PROVE  IInv'
  BY <1>4, SendIInv, RecordSentIInv, RecordFailedIInv
<1>5. CASE Tick
  BY <1>5, TickIInv
<1> QED
  BY <1>1, <1>2, <1>3, <1>4, <1>5 DEF Next, AdminNotificationsPage

(* The inductive invariant holds in every reachable state of the queue,    *)
(* whatever runs die and whatever staff retry (outbox.ts).                 *)
THEOREM IInvHolds == Spec => []IInv
<1>1. Init => IInv
  BY InitIInv
<1>2. IInv /\ [Next]_vars => IInv'
  BY NextIInv
<1> QED
  BY <1>1, <1>2, PTL DEF Spec

(* Every row, reading and claim has its type; no attempt number exceeds    *)
(* the last that is allowed.                                               *)
THEOREM TypeCorrect == Spec => []TypeOK
<1>1. IInv => TypeOK
  BY DEF IInv
<1> QED
  BY <1>1, IInvHolds, PTL

(* However many runs overlap, crash or fail, a message that was not given  *)
(* back is sent by one of them at a time and delivered at most once.       *)
THEOREM DeliveredOnce == Spec => []OneDelivery
<1>1. IInv => OneDelivery
  <2> SUFFICES ASSUME IInv, NEW m \in Message \ reopened
               PROVE  /\ Cardinality(Sending(m)) <= 1
                      /\ Sending(m) # {} => row[m].status = "SENDING"
                      /\ okays[m] <= 1
                      /\ okays[m] = 1 <=> row[m].status = "SENT"
    BY DEF OneDelivery
  <2>1. \A v, w \in Sending(m) : v = w
    BY DEF IInv, OneSender
  <2>2. CASE Sending(m) = {}
    BY <2>2, FS_EmptySet DEF IInv, OneSender
  <2>3. CASE Sending(m) # {}
    <3>1. PICK w : Sending(m) = {w}
      BY <2>1, <2>3
    <3>2. Cardinality(Sending(m)) = 1
      BY <3>1, FS_Singleton
    <3> QED
      BY <3>2 DEF IInv, OneSender
  <2> QED
    BY <2>2, <2>3
<1> QED
  BY <1>1, IInvHolds, PTL

(* A row says SENT or DEAD_LETTER only when that is what happened.         *)
THEOREM StatusEarned == Spec => []StatusIsEarned
<1>1. IInv => StatusIsEarned
  BY DEF IInv
<1> QED
  BY <1>1, IInvHolds, PTL
=============================================================================
