--------------------------- MODULE FrontDeskProofs ---------------------------
(***************************************************************************)
(* Theorems about FrontDesk.tla, for any number of desks, publishers,      *)
(* revisions and calls.  That a booking is charged what was in force when  *)
(* Confirm was pressed rests on an order in time: what a quote has read    *)
(* is no newer than what was in force at the press, and what the booking   *)
(* reads is no older, since revision numbers only grow (Ordered).  That it *)
(* is for what the form showed rests on what may be under way while the    *)
(* form keeps its quote and what it shows together (Together).             *)
(***************************************************************************)
EXTENDS FrontDesk, TLAPS

(* Readings are never ahead of what is in force, and those of a booking    *)
(* lie on either side of the press.                                        *)
NoLater(read, other) == \A kind \in Kind : read[kind] <= other[kind]
Ordered ==
  /\ \A d \in Desk : form[d].quote # Nothing => NoLater(form[d].quote.read, Pair)
  /\ \A c \in calls :
       /\ NoLater(c.read, Pair)
       /\ c.quote # Nothing =>
            /\ NoLater(c.quote.read, c.pressed) /\ NoLater(c.pressed, Pair)
            /\ \A kind \in Kind : c.read[kind] = 0 \/ c.pressed[kind] <= c.read[kind]

(* While a form is not loose, a quote it waits for is all it waits for, no *)
(* search beside it, and is one for what it shows; without one, its quote  *)
(* is.                                                                     *)
HeardBy(d) == {c \in calls : c.desk = d /\ c.heard}
Together ==
  /\ \A d \in Desk : ~form[d].loose =>
       /\ \A c \in HeardBy(d) : c.quote = Nothing =>
            form[d].pending /\ ~form[d].searching /\ c.asked = form[d].shown /\ HeardBy(d) = {c}
       /\ (\A c \in HeardBy(d) : c.quote # Nothing) /\ form[d].quote # Nothing
            => form[d].quote.asked = form[d].shown
  /\ \A c \in calls : c.quote # Nothing => c.loose \/ c.quote.asked = c.shown

IInv == TypeOK /\ OneInForce /\ Ordered /\ Together /\ BookedAsConfirmed

-----------------------------------------------------------------------------
(* What is in force is a single row, and Pair names it.                    *)
LEMMA PairFacts ==
  ASSUME TypeOK, OneInForce, NEW kind \in Kind
  PROVE  /\ Pair[kind] \in 1..MaxRevision
         /\ \E r \in revisions[kind] :
              /\ InForce(kind) = {r} /\ r.revision = Pair[kind]
              /\ \A s \in revisions[kind] : s.revision <= r.revision
<1>1. PICK r \in InForce(kind) :
        InForce(kind) = {r} /\ \A s \in revisions[kind] : s.revision <= r.revision
  BY DEF OneInForce
<1>2. r \in revisions[kind] /\ r.revision \in 1..MaxRevision
  BY DEF TypeOK, InForce, Revision
<1>3. Newest({r}) = r
  <2>1. r \in {r} /\ \A s \in {r} : s.revision <= r.revision
    BY <1>2
  <2>2. \A q \in {r} : q = r
    OBVIOUS
  <2> QED
    BY <2>1, <2>2 DEF Newest
<1>4. Pair[kind] = r.revision
  BY <1>1, <1>3 DEF Pair
<1> QED
  BY <1>1, <1>2, <1>4

LEMMA PairType ==
  ASSUME TypeOK, OneInForce
  PROVE  /\ Pair \in [Kind -> 1..MaxRevision] /\ Pair \in Reading
         /\ NoLater(Pair, Pair)
<1>1. \A kind \in Kind : Pair[kind] \in 1..MaxRevision
  BY PairFacts
<1>2. Pair = [kind \in Kind |-> Newest(InForce(kind)).revision]
  BY DEF Pair
<1>3. Pair \in [Kind -> 1..MaxRevision]
  BY <1>1, <1>2
<1> QED
  BY <1>3, FrontDeskAssumption DEF Reading, Numbers, NoLater

-----------------------------------------------------------------------------
(* A publication that is not rolled back retires what was in force and is  *)
(* one higher; any other step leaves the revisions alone.                  *)
LEMMA Publication ==
  ASSUME TypeOK, OneInForce, NEW p \in Publisher, WriteRevision(p)
  PROVE  OneInForce' /\ NoLater(Pair, Pair') /\ Pair' \in Reading /\ revisions' \in [Kind -> SUBSET Revision]
         /\ told' \in [Publisher -> [kind : Kind, revision : Numbers]]
<1>1. PICK k \in Kind, m \in 0..(MaxRevision - 1) :
        publishing[p].kind = k /\ publishing[p].current = m
  BY DEF TypeOK
<1> DEFINE n == m + 1
           over(r) == r.retired \/ r.revision = m
           retire(r) == [r EXCEPT !.retired = over(r)]
           created == [revision |-> n, by |-> p, retired |-> FALSE]
<1>number. n \in 1..MaxRevision
  BY <1>1, FrontDeskAssumption
<1>2. CASE ~Unique(k, n)
  <2>1. revisions' = revisions /\ told' = told
    BY <1>1, <1>2 DEF WriteRevision
  <2>2. Pair' = Pair
    BY <2>1 DEF Pair, InForce
  <2> QED
    BY <2>1, <2>2, PairType DEF OneInForce, InForce, TypeOK
<1>3. CASE Unique(k, n)
  <2>1. /\ revisions' = [revisions EXCEPT ![k] = {retire(r) : r \in @} \cup {created}]
        /\ told' = [told EXCEPT ![p] = [kind |-> k, revision |-> n]]
    BY <1>1, <1>3 DEF WriteRevision
  <2>2. created \in Revision
    BY <1>number DEF Revision
  <2>3. \A r \in revisions[k] :
          /\ r \in Revision /\ retire(r) \in Revision
          /\ retire(r).revision = r.revision /\ retire(r).by = r.by
          /\ retire(r).retired = over(r)
    <3> TAKE r \in revisions[k]
    <3>1. r \in Revision
      BY <1>number DEF TypeOK
    <3>2. over(r) \in BOOLEAN
      OBVIOUS
    <3> HIDE DEF over
    <3> QED
      BY <3>1, <3>2 DEF Revision
  <2>4. revisions'[k] = {retire(r) : r \in revisions[k]} \cup {created}
    BY <1>number, <2>1 DEF TypeOK
  <2>5. \A j \in Kind : j # k => revisions'[j] = revisions[j]
    BY <2>1 DEF TypeOK
  <2>6. revisions' \in [Kind -> SUBSET Revision]
    <3> HIDE DEF retire, over, created, n
    <3> QED
      BY <2>1, <2>2, <2>3, <2>4, <2>5 DEF TypeOK
  <2>7. PICK last \in revisions[k] :
          /\ InForce(k) = {last} /\ last.revision = Pair[k]
          /\ \A s \in revisions[k] : s.revision <= last.revision
    BY <1>number, PairFacts
  <2>8. last.revision = m /\ Pair[k] = n - 1
    BY <1>1, <1>number, <1>3, <2>3, <2>7 DEF Unique, Revision
  <2> HIDE DEF retire, over, created, n
  <2>9. \A r \in revisions[k] : retire(r).retired
    <3> TAKE r \in revisions[k]
    <3>1. over(r)
      BY <2>7, <2>8 DEF InForce, over
    <3> QED
      BY <2>3, <3>1 DEF over
  <2>10. created.revision = n /\ created.by = p /\ ~created.retired
    BY DEF created
  <2>11. InForce(k)' = {created}
    BY <2>4, <2>9, <2>10 DEF InForce
  <2>below. \A r \in revisions[k] : retire(r).revision \in Int /\ retire(r).revision < n
    <3>1. \A r \in revisions[k] : r.revision \in 1..MaxRevision
      BY <2>3 DEF Revision
    <3>2. n \in Int /\ n = m + 1 /\ m \in Int
      BY <1>1, <1>number DEF n
    <3> QED
      BY <2>3, <2>7, <2>8, <3>1, <3>2
  <2>12. \A s \in revisions'[k] : s.revision <= n
    BY <1>number, <2>4, <2>10, <2>below
  <2>13. \A r, s \in revisions'[k] : r.revision = s.revision => r = s
    <3>1. \A r \in revisions[k] : retire(r).revision # n
      BY <1>number, <2>below
    <3>2. \A r, s \in revisions[k] : retire(r).revision = retire(s).revision => r = s
      BY <1>number, <2>3 DEF OneInForce
    <3> QED
      BY <2>4, <2>10, <3>1, <3>2
  <2>14. \A kind \in Kind :
           /\ \E r \in InForce(kind)' :
                InForce(kind)' = {r} /\ \A s \in revisions'[kind] : s.revision <= r.revision
           /\ \A r, s \in revisions'[kind] : r.revision = s.revision => r = s
    <3> TAKE kind \in Kind
    <3>1. CASE kind = k
      BY <3>1, <2>10, <2>11, <2>12, <2>13
    <3>2. CASE kind # k
      BY <3>2, <2>5 DEF OneInForce, InForce
    <3> QED
      BY <3>1, <3>2
  <2>15. ASSUME NEW q \in Publisher, told'[q].revision # 0
         PROVE  \E r \in revisions'[told'[q].kind] : r.revision = told'[q].revision /\ r.by = q
    <3>1. CASE q = p
      <4>1. told'[q].kind = k /\ told'[q].revision = n
        BY <3>1, <2>1 DEF TypeOK
      <4> QED
        BY <3>1, <4>1, <2>4, <2>10
    <3>2. CASE q # p
      <4>1. told'[q] = told[q] /\ told[q].kind \in Kind
        BY <3>2, <2>1 DEF TypeOK
      <4>2. PICK r \in revisions[told[q].kind] : r.revision = told[q].revision /\ r.by = q
        BY <4>1, <2>15 DEF OneInForce
      <4>3. CASE told[q].kind = k
        BY <4>1, <4>2, <4>3, <2>3, <2>4
      <4>4. CASE told[q].kind # k
        BY <4>1, <4>2, <4>4, <2>5
      <4> QED
        BY <4>3, <4>4
    <3> QED
      BY <3>1, <3>2
  <2>16. OneInForce'
    BY <2>14, <2>15 DEF OneInForce
  <2>17. NoLater(Pair, Pair') /\ Pair' \in Reading
    <3>1. Pair'[k] = n
      <4>1. Newest({created}) = created
        <5>1. created \in {created} /\ \A s \in {created} : s.revision <= created.revision
          BY <1>number, <2>10
        <5>2. \A q \in {created} : q = created
          OBVIOUS
        <5> QED
          BY <5>1, <5>2 DEF Newest
      <4> QED
        BY <1>number, <4>1, <2>10, <2>11 DEF Pair
    <3>2. \A j \in Kind : j # k => Pair'[j] = Pair[j]
      BY <2>5 DEF Pair, InForce
    <3> QED
      <4>1. Pair' = [j \in Kind |-> Pair'[j]]
        BY DEF Pair
      <4>2. Pair' \in Reading
        BY <1>number, <3>1, <3>2, <4>1, PairType, FrontDeskAssumption DEF Reading, Numbers
      <4> QED
        BY <1>number, <2>8, <3>1, <3>2, <4>2, PairType DEF NoLater
  <2>18. told' \in [Publisher -> [kind : Kind, revision : Numbers]]
    BY <1>number, <2>1, FrontDeskAssumption DEF TypeOK, Numbers
  <2> QED
    BY <2>6, <2>16, <2>17, <2>18
<1> QED
  BY <1>2, <1>3

-----------------------------------------------------------------------------
(* A step that leaves the revisions alone keeps Pair and OneInForce.       *)
LEMMA NoPublication ==
  ASSUME OneInForce, UNCHANGED <<revisions, told>>
  PROVE  OneInForce' /\ Pair' = Pair
BY DEF OneInForce, Pair, InForce

(* A call, and the parts of it the proofs speak about.                     *)
LEMMA CallParts ==
  ASSUME TypeOK, NEW c \in calls
  PROVE  /\ c \in Call /\ c.desk \in Desk /\ c.heard \in BOOLEAN
         /\ c.read \in Reading /\ c.pressed \in Reading
         /\ c.asked \in Selection /\ c.shown \in Shown /\ c.loose \in BOOLEAN
         /\ c.quote \in Quote \cup {Nothing} /\ c.details \in Details \cup {Nothing}
         /\ c.id \in 1..MaxCalls
         /\ [c EXCEPT !.heard = FALSE] \in Call
         /\ [c EXCEPT !.heard = FALSE].quote = c.quote
         /\ ~[c EXCEPT !.heard = FALSE].heard
BY DEF TypeOK, Call

LEMMA FormParts ==
  ASSUME TypeOK, NEW d \in Desk
  PROVE  /\ form[d] \in Form /\ form[d].shown \in Shown
         /\ form[d].quote \in Quote \cup {Nothing}
         /\ form[d].pending \in BOOLEAN /\ form[d].searching \in BOOLEAN /\ form[d].loose \in BOOLEAN
BY DEF TypeOK, Form

-----------------------------------------------------------------------------
LEMMA InitIInv == Init => IInv
<1> SUFFICES ASSUME Init PROVE IInv
  OBVIOUS
<1>1. TypeOK
  <2>1. revisions \in [Kind -> SUBSET Revision]
    <3>1. [revision |-> 1, by |-> Seed, retired |-> FALSE] \in Revision
      BY FrontDeskAssumption DEF Revision
    <3> QED
      BY <3>1 DEF Init
  <2>2. publishing \in [Publisher -> [kind : Kind, current : 0..(MaxRevision - 1)]]
    BY FrontDeskAssumption DEF Init, Idle, Kind
  <2>3. told \in [Publisher -> [kind : Kind, revision : Numbers]]
    BY FrontDeskAssumption DEF Init, Kind, Numbers
  <2>4. form \in [Desk -> Form]
    BY DEF Init, Blank, Form, Shown
  <2>5. sent = 0 /\ calls = {} /\ bookings = {}
    BY DEF Init
  <2> QED
    BY <2>1, <2>2, <2>3, <2>4, <2>5, FrontDeskAssumption DEF TypeOK
<1>2. OneInForce
  <2> DEFINE seed == [revision |-> 1, by |-> Seed, retired |-> FALSE]
  <2>1. seed.revision = 1 /\ ~seed.retired
    OBVIOUS
  <2>2. \A kind \in Kind : revisions[kind] = {seed}
    BY DEF Init
  <2>3. \A p \in Publisher : told[p].revision = 0
    BY DEF Init
  <2> HIDE DEF seed
  <2>4. \A kind \in Kind : InForce(kind) = {seed}
    BY <2>1, <2>2 DEF InForce
  <2> QED
    BY <2>1, <2>2, <2>3, <2>4 DEF OneInForce
<1>3. \A d \in Desk : form[d].quote = Nothing
  BY DEF Init, Blank
<1>4. calls = {} /\ bookings = {}
  BY DEF Init
<1>5. Ordered
  BY <1>3, <1>4 DEF Ordered
<1>6. Together
  BY <1>3, <1>4 DEF Together, HeardBy
<1>7. BookedAsConfirmed
  BY <1>4 DEF BookedAsConfirmed
<1> QED
  BY <1>1, <1>2, <1>5, <1>6, <1>7 DEF IInv

-----------------------------------------------------------------------------
(* One lemma for each action.                                              *)
LEMMA ReadCurrentIInv ==
  ASSUME IInv, NEW p \in Publisher, NEW kind \in Kind, ReadCurrent(p, kind)
  PROVE  IInv'
<1> USE DEF IInv, ReadCurrent
<1>1. OneInForce' /\ Pair' = Pair
  BY NoPublication
<1>2. Pair[kind] \in 0..(MaxRevision - 1)
  BY PairType, FrontDeskAssumption
<1>3. TypeOK'
  BY <1>2 DEF TypeOK
<1>4. Ordered' /\ Together' /\ BookedAsConfirmed'
  BY <1>1 DEF Ordered, Together, HeardBy, BookedAsConfirmed
<1> QED
  BY <1>1, <1>3, <1>4

LEMMA LaterStill ==
  ASSUME NEW read \in Reading, NEW this \in Reading, NEW next \in Reading,
         NoLater(read, this), NoLater(this, next)
  PROVE  NoLater(read, next)
BY FrontDeskAssumption DEF Reading, Numbers, NoLater

LEMMA QuoteReads ==
  ASSUME NEW q \in Quote
  PROVE  q.read \in Reading /\ q.asked \in Selection
BY FrontDeskAssumption DEF Quote, Reading, Numbers

LEMMA WriteRevisionIInv ==
  ASSUME IInv, NEW p \in Publisher, WriteRevision(p)
  PROVE  IInv'
<1> USE DEF IInv
<1>1. /\ OneInForce' /\ NoLater(Pair, Pair')
      /\ revisions' \in [Kind -> SUBSET Revision]
      /\ told' \in [Publisher -> [kind : Kind, revision : Numbers]]
  BY Publication
<1>2. UNCHANGED <<form, calls, sent, bookings>>
  BY DEF WriteRevision
<1>3. publishing' \in [Publisher -> [kind : Kind, current : 0..(MaxRevision - 1)]]
  <2>1. Idle \in [kind : Kind, current : 0..(MaxRevision - 1)]
    BY FrontDeskAssumption DEF Idle, Kind
  <2> QED
    BY <2>1 DEF WriteRevision, TypeOK
<1>4. TypeOK'
  BY <1>1, <1>2, <1>3 DEF TypeOK
<1>5. Pair \in Reading /\ Pair' \in Reading
  BY PairType, Publication
<1>6. Ordered'
  <2>1. ASSUME NEW d \in Desk, form[d].quote # Nothing
        PROVE  NoLater(form[d].quote.read, Pair')
    <3>1. form[d].quote.read \in Reading
      BY <2>1, FormParts, QuoteReads
    <3> QED
      BY <1>1, <1>5, <2>1, <3>1, LaterStill DEF Ordered
  <2>2. ASSUME NEW c \in calls
        PROVE  NoLater(c.read, Pair') /\ (c.quote # Nothing => NoLater(c.pressed, Pair'))
    BY <1>1, <1>5, <2>2, CallParts, LaterStill DEF Ordered
  <2> QED
    BY <1>2, <2>1, <2>2 DEF Ordered
<1>7. Together' /\ BookedAsConfirmed'
  BY <1>2 DEF Together, HeardBy, BookedAsConfirmed
<1> QED
  BY <1>1, <1>4, <1>6, <1>7

LEMMA ChooseIInv ==
  ASSUME IInv, NEW d \in Desk, NEW s \in Selection, Choose(d, s)
  PROVE  IInv'
<1> USE DEF IInv
<1> DEFINE new == [id |-> sent + 1, desk |-> d, asked |-> s, quote |-> Nothing,
                   details |-> Nothing, heard |-> TRUE, read |-> None, shown |-> s, loose |-> FALSE,
                   pressed |-> None]
<1>1. /\ calls' = calls \cup {new} /\ sent < MaxCalls /\ sent' = sent + 1
      /\ form' = [form EXCEPT ![d].shown = s, ![d].pending = TRUE, ![d].loose = Waits(d)]
      /\ UNCHANGED <<revisions, publishing, told, bookings>>
  BY DEF Choose, Send
<1>2. OneInForce' /\ Pair' = Pair
  BY <1>1, NoPublication
<1>3. None \in Reading /\ \A kind \in Kind : None[kind] = 0
  BY FrontDeskAssumption DEF None, Reading, Numbers
<1>4. new \in Call
  BY <1>1, <1>3, FrontDeskAssumption DEF Call, TypeOK, Shown
<1>5. /\ new.quote = Nothing /\ new.desk = d /\ new.heard /\ new.asked = s
      /\ new.read = None
  OBVIOUS
<1> HIDE DEF new
<1>6. /\ form' \in [Desk -> Form]
      /\ form'[d].shown = s /\ form'[d].pending /\ form'[d].searching = form[d].searching
      /\ form'[d].loose = Waits(d)
      /\ form'[d].quote = form[d].quote
      /\ \A e \in Desk : e # d => form'[e] = form[e]
  <2>1. Waits(d) \in BOOLEAN
    BY DEF Waits
  <2>2. s \in Shown /\ form[d] \in Form
    BY FormParts DEF Shown
  <2> QED
    BY <1>1, <2>1, <2>2 DEF TypeOK, Form
<1>7. TypeOK'
  BY <1>1, <1>4, <1>6, FrontDeskAssumption DEF TypeOK
<1>8. Ordered'
  <2>1. ASSUME NEW e \in Desk, form'[e].quote # Nothing
        PROVE  NoLater(form'[e].quote.read, Pair)
    BY <1>6, <2>1 DEF Ordered
  <2>2. NoLater(None, Pair)
    BY <1>3, PairType DEF NoLater
  <2> QED
    BY <1>1, <1>2, <1>5, <2>1, <2>2 DEF Ordered
<1>9. Together'
  <2>1. /\ \A e \in Desk : e # d => HeardBy(e)' = HeardBy(e)
        /\ HeardBy(d)' = HeardBy(d) \cup {new}
    BY <1>1, <1>5 DEF HeardBy
  <2>2. ~Waits(d) => HeardBy(d) = {} /\ ~form[d].searching
    BY DEF Waits, HeardBy
  <2>3. ASSUME NEW e \in Desk, ~form'[e].loose
        PROVE  /\ \A c \in HeardBy(e)' : c.quote = Nothing =>
                    form'[e].pending /\ ~form'[e].searching /\ c.asked = form'[e].shown /\ HeardBy(e)' = {c}
               /\ (\A c \in HeardBy(e)' : c.quote # Nothing) /\ form'[e].quote # Nothing
                    => form'[e].quote.asked = form'[e].shown
    <3>1. CASE e = d
      <4>1. HeardBy(d)' = {new} /\ ~form'[d].searching
        BY <1>6, <2>1, <2>2, <2>3, <3>1
      <4> QED
        BY <1>5, <1>6, <3>1, <4>1
    <3>2. CASE e # d
      BY <1>6, <2>1, <2>3, <3>2 DEF Together
    <3> QED
      BY <3>1, <3>2
  <2> QED
    BY <1>1, <1>5, <2>3 DEF Together
<1>10. BookedAsConfirmed'
  BY <1>1 DEF BookedAsConfirmed
<1> QED
  BY <1>2, <1>7, <1>8, <1>9, <1>10

(* Edits and searches change the form and nothing else.                    *)
LEMMA FormIInv ==
  ASSUME IInv, NEW d \in Desk, NEW new \in Form, form' = [form EXCEPT ![d] = new],
         UNCHANGED <<revisions, publishing, told, calls, sent, bookings>>,
         new.quote \in {form[d].quote, Nothing},
         \/ new.loose
         \/ /\ \A c \in HeardBy(d) : c.quote # Nothing
            /\ \/ new.quote = Nothing
               \/ /\ new.quote = form[d].quote /\ new.shown = form[d].shown
                  /\ ~form[d].loose
  PROVE  IInv'
<1> USE DEF IInv
<1>1. OneInForce' /\ Pair' = Pair
  BY NoPublication
<1>2. /\ form' \in [Desk -> Form] /\ form'[d] = new
      /\ \A e \in Desk : e # d => form'[e] = form[e]
  BY DEF TypeOK
<1>3. TypeOK'
  BY <1>2 DEF TypeOK
<1>4. Ordered'
  BY <1>1, <1>2 DEF Ordered
<1>5. \A e \in Desk : HeardBy(e)' = HeardBy(e)
  BY DEF HeardBy
<1>6. Together'
  <2>1. ASSUME NEW e \in Desk, ~form'[e].loose
        PROVE  /\ \A c \in HeardBy(e)' : c.quote = Nothing =>
                    form'[e].pending /\ ~form'[e].searching /\ c.asked = form'[e].shown /\ HeardBy(e)' = {c}
               /\ (\A c \in HeardBy(e)' : c.quote # Nothing) /\ form'[e].quote # Nothing
                    => form'[e].quote.asked = form'[e].shown
    <3>1. CASE e = d
      <4>1. ~new.loose /\ \A c \in HeardBy(d)' : c.quote # Nothing
        BY <1>2, <1>5, <2>1, <3>1
      <4>2. new.quote # Nothing => new.quote.asked = new.shown
        BY <4>1, <1>5 DEF Together
      <4> QED
        BY <1>2, <3>1, <4>1, <4>2
    <3>2. CASE e # d
      BY <1>2, <1>5, <2>1, <3>2 DEF Together
    <3> QED
      BY <3>1, <3>2
  <2> QED
    BY <2>1 DEF Together
<1>7. BookedAsConfirmed'
  BY DEF BookedAsConfirmed
<1> QED
  BY <1>1, <1>3, <1>4, <1>6, <1>7

LEMMA EditIInv ==
  ASSUME IInv, NEW d \in Desk, NEW s \in Selection, Edit(d, s)
  PROVE  IInv'
<1> DEFINE new == [form[d] EXCEPT !.shown = s, !.loose = TRUE]
<1>1. form[d] \in Form /\ form \in [Desk -> Form]
  BY FormParts DEF IInv, TypeOK
<1>2. new \in Form /\ new.quote = form[d].quote /\ new.loose
  BY <1>1 DEF Form, Shown
<1>3. form' = [form EXCEPT ![d] = new]
  BY <1>1 DEF Edit, Form
<1> HIDE DEF new
<1>4. UNCHANGED <<revisions, publishing, told, calls, sent, bookings>>
  BY DEF Edit
<1> QED
  BY <1>2, <1>3, <1>4, FormIInv

LEMMA SearchIInv ==
  ASSUME IInv, NEW d \in Desk, Search(d) \/ SearchAnswered(d) \/ SearchFails(d)
  PROVE  IInv'
<1>1. form[d] \in Form /\ form \in [Desk -> Form]
  BY FormParts DEF IInv, TypeOK
<1>2. UNCHANGED <<revisions, publishing, told, calls, sent, bookings>>
  BY DEF Search, SearchAnswered, SearchFails
<1>3. CASE Search(d)
  <2> DEFINE apart == form[d].loose \/ Waits(d)
             new == [form[d] EXCEPT !.pending = TRUE, !.searching = TRUE, !.loose = apart]
  <2>1. form' = [form EXCEPT ![d] = new]
    BY <1>1, <1>3 DEF Search, Form
  <2>2. apart \in BOOLEAN
    OBVIOUS
  <2>3. apart \/ (HeardBy(d) = {} /\ ~form[d].loose)
    BY DEF Waits, HeardBy
  <2> HIDE DEF apart
  <2>4. /\ new \in Form /\ new.quote = form[d].quote /\ new.shown = form[d].shown
        /\ new.loose = apart
    BY <1>1, <2>2 DEF Form
  <2> HIDE DEF new
  <2> QED
    BY <1>2, <2>1, <2>3, <2>4, FormIInv
<1>4. CASE SearchAnswered(d)
  <2> DEFINE apart == \E c \in calls : c.desk = d /\ c.heard
             new == [Blank EXCEPT !.loose = apart]
  <2>1. form' = [form EXCEPT ![d] = new]
    BY <1>4 DEF SearchAnswered
  <2>2. apart \in BOOLEAN
    OBVIOUS
  <2>3. apart \/ HeardBy(d) = {}
    BY DEF HeardBy
  <2> HIDE DEF apart
  <2>4. new \in Form /\ new.quote = Nothing /\ new.loose = apart
    BY <2>2 DEF Form, Shown, Blank
  <2> HIDE DEF new
  <2> QED
    BY <1>2, <2>1, <2>3, <2>4, FormIInv
<1>5. CASE SearchFails(d)
  <2> DEFINE new == [form[d] EXCEPT !.pending = FALSE, !.searching = FALSE]
  <2>1. form' = [form EXCEPT ![d] = new] /\ form[d].searching
    BY <1>1, <1>5 DEF SearchFails, Form
  <2>2. /\ new \in Form /\ new.quote = form[d].quote /\ new.shown = form[d].shown
        /\ new.loose = form[d].loose
    BY <1>1 DEF Form
  <2>3. ~form[d].loose => \A c \in HeardBy(d) : c.quote # Nothing
    BY <2>1 DEF IInv, Together
  <2> HIDE DEF new
  <2> QED
    BY <1>2, <2>1, <2>2, <2>3, FormIInv
<1> QED
  BY <1>3, <1>4, <1>5

LEMMA ConfirmIInv ==
  ASSUME IInv, NEW d \in Desk, NEW details \in Details, Confirm(d, details)
  PROVE  IInv'
<1> USE DEF IInv
<1> DEFINE old == form[d]
           new == [id |-> sent + 1, desk |-> d, asked |-> old.quote.asked, quote |-> old.quote,
                   details |-> details, heard |-> TRUE, read |-> None, shown |-> old.shown, loose |-> old.loose,
                   pressed |-> Pair]
<1>1. /\ calls' = calls \cup {new} /\ sent < MaxCalls /\ sent' = sent + 1
      /\ form' = [form EXCEPT ![d].pending = TRUE]
      /\ old.quote # Nothing /\ ~old.pending
      /\ UNCHANGED <<revisions, publishing, told, bookings>>
  BY DEF Confirm, Send
<1>2. OneInForce' /\ Pair' = Pair
  BY <1>1, NoPublication
<1>3. None \in Reading /\ \A kind \in Kind : None[kind] = 0
  BY FrontDeskAssumption DEF None, Reading, Numbers
<1>4. /\ form[d] \in Form /\ form[d].quote \in Quote
      /\ form[d].quote.asked \in Selection /\ form[d].quote.read \in Reading
  BY <1>1, FormParts, QuoteReads
<1>5. new \in Call
  BY <1>1, <1>3, <1>4, FormParts, PairType, FrontDeskAssumption DEF Call, TypeOK
<1>6. /\ new.quote = form[d].quote /\ new.desk = d /\ new.heard /\ new.read = None
      /\ new.pressed = Pair /\ new.loose = form[d].loose /\ new.shown = form[d].shown
  BY Zenon
<1>7. form[d].quote # Nothing /\ ~form[d].pending
  BY <1>1
<1> HIDE DEF new, old
<1>8. /\ form' \in [Desk -> Form]
      /\ \A e \in Desk :
           /\ form'[e].loose = form[e].loose
           /\ form'[e].quote = form[e].quote
           /\ form'[e].shown = form[e].shown
           /\ e # d => form'[e] = form[e]
  BY <1>1 DEF TypeOK, Form
<1>9. TypeOK'
  BY <1>1, <1>5, <1>8, FrontDeskAssumption DEF TypeOK
<1>10. Ordered'
  <2>1. NoLater(None, Pair)
    BY <1>3, PairType DEF NoLater
  <2>2. NoLater(Pair, Pair) /\ NoLater(form[d].quote.read, Pair)
    BY <1>7, PairType DEF Ordered
  <2>3. \A e \in Desk : form'[e].quote # Nothing => NoLater(form'[e].quote.read, Pair)
    BY <1>8 DEF Ordered
  <2> QED
    BY <1>1, <1>2, <1>3, <1>6, <2>1, <2>2, <2>3 DEF Ordered
<1>11. Together'
  <2>1. /\ \A e \in Desk : e # d => HeardBy(e)' = HeardBy(e)
        /\ HeardBy(d)' = HeardBy(d) \cup {new}
    BY <1>1, <1>6 DEF HeardBy
  <2>2. ~form[d].loose => /\ \A c \in HeardBy(d) : c.quote # Nothing
                          /\ form[d].quote.asked = form[d].shown
    BY <1>7 DEF Together
  <2>3. ASSUME NEW e \in Desk, ~form'[e].loose
        PROVE  /\ \A c \in HeardBy(e)' : c.quote = Nothing =>
                    form'[e].pending /\ ~form'[e].searching /\ c.asked = form'[e].shown /\ HeardBy(e)' = {c}
               /\ (\A c \in HeardBy(e)' : c.quote # Nothing) /\ form'[e].quote # Nothing
                    => form'[e].quote.asked = form'[e].shown
    <3>1. CASE e = d
      <4>1. \A c \in HeardBy(d)' : c.quote # Nothing
        BY <1>6, <1>7, <1>8, <2>1, <2>2, <2>3, <3>1
      <4>2. form'[d].quote.asked = form'[d].shown
        BY <1>8, <2>2, <2>3, <3>1
      <4> QED
        BY <3>1, <4>1, <4>2
    <3>2. CASE e # d
      <4>1. HeardBy(e)' = HeardBy(e) /\ form'[e] = form[e]
        BY <1>8, <2>1, <3>2
      <4> QED
        BY <2>3, <4>1 DEF Together
    <3> QED
      BY <3>1, <3>2
  <2>4. new.loose \/ new.quote.asked = new.shown
    BY <1>6, <2>2
  <2> QED
    BY <1>1, <2>3, <2>4 DEF Together
<1>12. BookedAsConfirmed'
  BY <1>1 DEF BookedAsConfirmed
<1> QED
  BY <1>2, <1>9, <1>10, <1>11, <1>12

LEMMA LoadIInv ==
  ASSUME IInv, NEW c \in calls, NEW kind \in Kind, LoadCurrentBookingConfig(c, kind)
  PROVE  IInv'
<1> USE DEF IInv
<1> DEFINE new == [c EXCEPT !.read[kind] = Pair[kind]]
<1>1. /\ c.read[kind] = 0 /\ calls' = (calls \ {c}) \cup {new}
      /\ UNCHANGED <<revisions, publishing, told, form, sent, bookings>>
  BY DEF LoadCurrentBookingConfig
<1>2. OneInForce' /\ Pair' = Pair
  BY <1>1, NoPublication
<1>3. Pair \in Reading /\ c.read \in Reading /\ c \in Call
  BY PairType, CallParts
<1>4. /\ new \in Call
      /\ new.read \in Reading /\ new.read[kind] = Pair[kind]
      /\ \A k \in Kind : k # kind => new.read[k] = c.read[k]
      /\ new.quote = c.quote /\ new.desk = c.desk /\ new.heard = c.heard
      /\ new.pressed = c.pressed /\ new.loose = c.loose /\ new.shown = c.shown
      /\ new.asked = c.asked
  BY <1>3 DEF Call, Reading
<1> HIDE DEF new
<1>5. TypeOK'
  BY <1>1, <1>4 DEF TypeOK
<1>6. Ordered'
  <2>1. NoLater(new.read, Pair)
    <3>1. NoLater(c.read, Pair) /\ NoLater(Pair, Pair)
      BY PairType DEF Ordered
    <3> QED
      BY <1>4, <3>1 DEF NoLater
  <2>2. new.quote # Nothing =>
          /\ NoLater(new.quote.read, new.pressed) /\ NoLater(new.pressed, Pair)
          /\ \A k \in Kind : new.read[k] = 0 \/ new.pressed[k] <= new.read[k]
    BY <1>4 DEF Ordered, NoLater
  <2> QED
    BY <1>1, <1>2, <2>1, <2>2 DEF Ordered
<1>7. Together'
  <2>1. \A d \in Desk :
          /\ c \notin HeardBy(d) => HeardBy(d)' = HeardBy(d)
          /\ c \in HeardBy(d) => HeardBy(d)' = (HeardBy(d) \ {c}) \cup {new}
    BY <1>1, <1>4 DEF HeardBy
  <2>2. ASSUME NEW e \in Desk, ~form[e].loose
        PROVE  /\ \A o \in HeardBy(e)' : o.quote = Nothing =>
                    form[e].pending /\ ~form[e].searching /\ o.asked = form[e].shown /\ HeardBy(e)' = {o}
               /\ (\A o \in HeardBy(e)' : o.quote # Nothing) /\ form[e].quote # Nothing
                    => form[e].quote.asked = form[e].shown
    <3>1. /\ \A o \in HeardBy(e) : o.quote = Nothing =>
               form[e].pending /\ ~form[e].searching /\ o.asked = form[e].shown /\ HeardBy(e) = {o}
          /\ (\A o \in HeardBy(e) : o.quote # Nothing) /\ form[e].quote # Nothing
               => form[e].quote.asked = form[e].shown
      BY <2>2 DEF Together
    <3>2. CASE c \notin HeardBy(e)
      <4>1. HeardBy(e)' = HeardBy(e)
        BY <2>1, <3>2
      <4> QED
        BY <3>1, <4>1
    <3>3. CASE c \in HeardBy(e)
      <4>1. HeardBy(e)' = (HeardBy(e) \ {c}) \cup {new}
        BY <2>1, <3>3
      <4> QED
        BY <1>4, <3>1, <3>3, <4>1
    <3> QED
      BY <3>2, <3>3
  <2> QED
    BY <1>1, <1>4, <2>2 DEF Together
<1>8. BookedAsConfirmed'
  BY <1>1 DEF BookedAsConfirmed
<1> QED
  BY <1>2, <1>5, <1>6, <1>7, <1>8

-----------------------------------------------------------------------------
(* Calls that end.                                                         *)
LEMMA AnswerTypeOK ==
  ASSUME TypeOK, NEW c \in calls, NEW page \in Form, Answer(c, page)
  PROVE  /\ form' \in [Desk -> Form]
         /\ form'[c.desk] = IF c.heard THEN page ELSE form[c.desk]
         /\ \A e \in Desk : e # c.desk => form'[e] = form[e]
         /\ calls' = calls \ {c}
         /\ UNCHANGED <<revisions, publishing, told, sent>>
         /\ \A e \in Desk : HeardBy(e)' = HeardBy(e) \ {c}
BY DEF Answer, TypeOK, Call, HeardBy

LEMMA AnswerIInv ==
  ASSUME IInv, NEW c \in calls, NEW page \in Form, Answer(c, page), UNCHANGED bookings,
         page.quote # Nothing => NoLater(page.quote.read, Pair),
         c.heard /\ ~page.loose => ~form[c.desk].loose /\ page.shown = form[c.desk].shown,
         c.quote = Nothing \/ page.quote = form[c.desk].quote,
         c.heard /\ c.quote = Nothing /\ ~page.loose => page.quote.asked = c.asked
  PROVE  IInv'
<1> USE DEF IInv
<1>1. /\ form' \in [Desk -> Form]
      /\ form'[c.desk] = IF c.heard THEN page ELSE form[c.desk]
      /\ \A e \in Desk : e # c.desk => form'[e] = form[e]
      /\ calls' = calls \ {c}
      /\ UNCHANGED <<revisions, publishing, told, sent>>
      /\ \A e \in Desk : HeardBy(e)' = HeardBy(e) \ {c}
  BY AnswerTypeOK
<1>2. OneInForce' /\ Pair' = Pair
  BY <1>1, NoPublication
<1>3. TypeOK'
  BY <1>1 DEF TypeOK
<1>4. Ordered'
  <2>1. ASSUME NEW e \in Desk, form'[e].quote # Nothing
        PROVE  NoLater(form'[e].quote.read, Pair)
    <3>1. form'[e] = page \/ form'[e] = form[e]
      BY <1>1
    <3> QED
      BY <2>1, <3>1 DEF Ordered
  <2> QED
    BY <1>1, <1>2, <2>1 DEF Ordered
<1>5. Together'
  <2>1. ASSUME NEW e \in Desk, ~form'[e].loose
        PROVE  /\ \A o \in HeardBy(e)' : o.quote = Nothing =>
                    form'[e].pending /\ ~form'[e].searching /\ o.asked = form'[e].shown /\ HeardBy(e)' = {o}
               /\ (\A o \in HeardBy(e)' : o.quote # Nothing) /\ form'[e].quote # Nothing
                    => form'[e].quote.asked = form'[e].shown
    <3>1. CASE ~(e = c.desk /\ c.heard)
      <4>1. form'[e] = form[e] /\ HeardBy(e)' = HeardBy(e)
        BY <1>1, <3>1 DEF HeardBy
      <4> QED
        BY <2>1, <4>1 DEF Together
    <3>2. CASE e = c.desk /\ c.heard
      <4>1. /\ form'[e] = page /\ HeardBy(e)' = HeardBy(e) \ {c} /\ c \in HeardBy(e)
            /\ ~form[e].loose /\ page.shown = form[e].shown
        BY <1>1, <2>1, <3>2 DEF HeardBy
      <4>2. CASE c.quote = Nothing
        <5>1. HeardBy(e) = {c} /\ c.asked = form[e].shown
          BY <4>1, <4>2 DEF Together
        <5> QED
          BY <2>1, <3>2, <4>1, <4>2, <5>1
      <4>3. CASE c.quote # Nothing
        <5>1. \A o \in HeardBy(e) : o.quote # Nothing
          BY <4>1, <4>3 DEF Together
        <5> QED
          BY <3>2, <4>1, <4>3, <5>1 DEF Together
      <4> QED
        BY <4>2, <4>3
    <3> QED
      BY <3>1, <3>2
  <2> QED
    BY <1>1, <2>1 DEF Together
<1>6. BookedAsConfirmed'
  BY DEF BookedAsConfirmed
<1> QED
  BY <1>2, <1>3, <1>4, <1>5, <1>6

LEMMA CreateQuoteIInv ==
  ASSUME IInv, NEW c \in calls, CreateQuote(c)
  PROVE  IInv'
<1> DEFINE answer == [token |-> c.id, asked |-> c.asked, read |-> c.read]
           page == [form[c.desk] EXCEPT !.pending = FALSE, !.quote = answer]
<1>1. TypeOK /\ c.desk \in Desk /\ c \in Call /\ c.read \in Reading /\ c.asked \in Selection
      /\ c.id \in 1..MaxCalls
  BY CallParts DEF IInv
<1>2. answer \in Quote /\ answer.asked = c.asked /\ answer.read = c.read
  <2>1. \A kind \in Kind : c.read[kind] \in 1..MaxRevision
    BY <1>1, FrontDeskAssumption DEF CreateQuote, Loaded, Reading, Numbers
  <2> QED
    BY <1>1, <2>1 DEF Quote, Reading
<1>3. form[c.desk] \in Form
  BY <1>1, FormParts
<1> HIDE DEF answer
<1>4. /\ page \in Form /\ page.quote = answer
      /\ page.loose = form[c.desk].loose /\ page.shown = form[c.desk].shown
  BY <1>2, <1>3 DEF Form
<1>5. c.quote = Nothing /\ Answer(c, page) /\ UNCHANGED bookings
  BY DEF CreateQuote, answer
<1> HIDE DEF page
<1>6. NoLater(c.read, Pair)
  BY DEF IInv, Ordered
<1> QED
  BY <1>2, <1>4, <1>5, <1>6, AnswerIInv

LEMMA ErrorIInv ==
  ASSUME IInv, NEW c \in calls, Error(c)
  PROVE  IInv'
<1> DEFINE apart == form[c.desk].loose \/ c.quote = Nothing
           page == [form[c.desk] EXCEPT !.pending = FALSE, !.loose = apart]
<1>1. TypeOK /\ c.desk \in Desk
  BY CallParts DEF IInv
<1>2. form[c.desk] \in Form /\ apart \in BOOLEAN
  BY <1>1, FormParts
<1>3. apart \/ (~form[c.desk].loose /\ c.quote # Nothing)
  OBVIOUS
<1>4. Answer(c, page) /\ UNCHANGED bookings
  BY DEF Error
<1> HIDE DEF apart
<1>5. /\ page \in Form /\ page.quote = form[c.desk].quote
      /\ page.loose = apart /\ page.shown = form[c.desk].shown
  BY <1>2 DEF Form
<1> HIDE DEF page
<1>6. page.quote # Nothing => NoLater(page.quote.read, Pair)
  BY <1>1, <1>5 DEF IInv, Ordered
<1> QED
  BY <1>3, <1>4, <1>5, <1>6, AnswerIInv

LEMMA AnswerLostIInv ==
  ASSUME IInv, NEW c \in calls, AnswerLost(c)
  PROVE  IInv'
<1> USE DEF IInv
<1> DEFINE new == [c EXCEPT !.heard = FALSE]
<1>1. /\ c.quote # Nothing /\ c.heard /\ calls' = (calls \ {c}) \cup {new}
      /\ form' = [form EXCEPT ![c.desk].pending = FALSE]
      /\ UNCHANGED <<revisions, publishing, told, sent, bookings>>
  BY DEF AnswerLost
<1>2. OneInForce' /\ Pair' = Pair
  BY <1>1, NoPublication
<1>3. c \in Call /\ c.desk \in Desk
  BY CallParts
<1>4. /\ new \in Call /\ ~new.heard
      /\ new.quote = c.quote /\ new.read = c.read /\ new.pressed = c.pressed
      /\ new.loose = c.loose /\ new.shown = c.shown
  BY <1>3 DEF Call
<1> HIDE DEF new
<1>5. /\ form' \in [Desk -> Form]
      /\ \A e \in Desk :
           /\ form'[e].loose = form[e].loose
           /\ form'[e].quote = form[e].quote
           /\ form'[e].shown = form[e].shown
           /\ e # c.desk => form'[e] = form[e]
  BY <1>1, <1>3 DEF TypeOK, Form
<1>6. TypeOK'
  BY <1>1, <1>4, <1>5 DEF TypeOK
<1>7. Ordered'
  <2>1. \A e \in Desk : form'[e].quote # Nothing => NoLater(form'[e].quote.read, Pair)
    BY <1>5 DEF Ordered
  <2> QED
    BY <1>1, <1>2, <1>4, <2>1 DEF Ordered
<1>8. Together'
  <2>1. \A e \in Desk : HeardBy(e)' = HeardBy(e) \ {c}
    BY <1>1, <1>4 DEF HeardBy
  <2>2. ASSUME NEW e \in Desk, ~form'[e].loose
        PROVE  /\ \A o \in HeardBy(e)' : o.quote = Nothing =>
                    form'[e].pending /\ ~form'[e].searching /\ o.asked = form'[e].shown /\ HeardBy(e)' = {o}
               /\ (\A o \in HeardBy(e)' : o.quote # Nothing) /\ form'[e].quote # Nothing
                    => form'[e].quote.asked = form'[e].shown
    <3>1. CASE e # c.desk
      <4>1. form'[e] = form[e] /\ HeardBy(e)' = HeardBy(e)
        BY <1>5, <2>1, <3>1 DEF HeardBy
      <4> QED
        BY <2>2, <4>1 DEF Together
    <3>2. CASE e = c.desk
      <4>1. c \in HeardBy(e) /\ ~form[e].loose
        BY <1>1, <1>5, <2>2, <3>2 DEF HeardBy
      <4>2. \A o \in HeardBy(e) : o.quote # Nothing
        BY <1>1, <4>1 DEF Together
      <4>3. form[e].quote # Nothing => form[e].quote.asked = form[e].shown
        BY <4>1, <4>2 DEF Together
      <4> QED
        BY <1>5, <2>1, <4>2, <4>3
    <3> QED
      BY <3>1, <3>2
  <2>3. \A o \in calls' : o.quote # Nothing => o.loose \/ o.quote.asked = o.shown
    BY <1>1, <1>4 DEF Together
  <2> QED
    BY <2>2, <2>3 DEF Together
<1>9. BookedAsConfirmed'
  BY <1>1 DEF BookedAsConfirmed
<1> QED
  BY <1>2, <1>6, <1>7, <1>8, <1>9

LEMMA CreateStaffBookingIInv ==
  ASSUME IInv, NEW c \in calls, CreateStaffBooking(c)
  PROVE  IInv'
<1> USE DEF IInv
<1> DEFINE still(o) == o.heard /\ ~(c.heard /\ o.desk = c.desk)
           quiet(o) == Left(c, o)
           kept == {o \in calls \ {c} : ~Moot(c, o)}
           new == [quote |-> c.quote, details |-> c.details, read |-> c.read,
                   shown |-> c.shown, loose |-> c.loose, pressed |-> c.pressed]
<1>1. /\ calls' = {quiet(o) : o \in kept}
      /\ form' = IF c.heard THEN [form EXCEPT ![c.desk] = Blank] ELSE form
      /\ c.quote # Nothing /\ c.read = c.quote.read /\ \A kind \in Kind : c.read[kind] # 0
      /\ bookings' \in {bookings, bookings \cup {new}}
      /\ UNCHANGED <<revisions, publishing, told, sent>>
  BY DEF CreateStaffBooking, Loaded, QuoteHolds
<1>kept. kept \subseteq calls \ {c} /\ \A o \in (calls \ {c}) \ kept : c.heard /\ o.desk = c.desk
  BY DEF Moot, Gone
<1>2. OneInForce' /\ Pair' = Pair
  BY <1>1, NoPublication
<1>3. /\ c \in Call /\ c.desk \in Desk /\ c.read \in Reading /\ c.pressed \in Reading
      /\ c.quote \in Quote /\ c.details \in Details \cup {Nothing}
  BY <1>1, CallParts
<1>4. \A o \in calls :
        /\ quiet(o) \in Call /\ quiet(o).heard = still(o) /\ quiet(o).desk = o.desk
        /\ quiet(o).quote = o.quote /\ quiet(o).read = o.read /\ quiet(o).pressed = o.pressed
        /\ quiet(o).loose = o.loose /\ quiet(o).shown = o.shown /\ quiet(o).asked = o.asked
  <2> TAKE o \in calls
  <2>1. o \in Call
    BY CallParts
  <2>2. still(o) \in BOOLEAN
    BY Zenon
  <2>3. Left(c, o) = [o EXCEPT !.heard = still(o)]
    BY DEF Left, Gone
  <2> HIDE DEF still
  <2> QED
    BY <2>1, <2>2, <2>3 DEF Call
<1>5. \A o \in calls : ~still(o) \/ (o.heard /\ quiet(o) = o)
  <2> TAKE o \in calls
  <2>1. o \in Call
    BY CallParts
  <2>2. still(o) = o.heard \/ ~still(o)
    BY <2>1 DEF Call
  <2>3. CASE still(o) = o.heard
    <3>0. Left(c, o) = [o EXCEPT !.heard = still(o)]
      BY DEF Left, Gone
    <3> HIDE DEF still
    <3>1. quiet(o) = o
      BY <3>0, <2>1, <2>3 DEF Call
    <3> QED
      BY <2>3, <3>1
  <2> QED
    BY <2>2, <2>3
<1>6. new \in Booking /\ new.read = c.read /\ new.pressed = c.pressed /\ new.loose = c.loose
      /\ new.shown = c.shown /\ new.quote = c.quote
  BY <1>3, CallParts DEF Booking
<1> HIDE DEF quiet, new, kept
<1>7. /\ form' \in [Desk -> Form]
      /\ form'[c.desk] = IF c.heard THEN Blank ELSE form[c.desk]
      /\ \A e \in Desk : e # c.desk => form'[e] = form[e]
      /\ Blank.quote = Nothing
  <2>1. Blank \in Form
    BY DEF Blank, Form, Shown
  <2> QED
    BY <1>1, <1>3, <2>1 DEF TypeOK, Blank
<1>8. TypeOK'
  BY <1>1, <1>kept, <1>4, <1>6, <1>7 DEF TypeOK
<1>9. Ordered'
  <2>1. ASSUME NEW e \in Desk, form'[e].quote # Nothing
        PROVE  NoLater(form'[e].quote.read, Pair)
    <3>1. form'[e] = Blank \/ form'[e] = form[e]
      BY <1>7
    <3> QED
      BY <1>7, <2>1, <3>1 DEF Ordered
  <2> QED
    BY <1>1, <1>2, <1>kept, <1>4, <2>1 DEF Ordered
<1>10. Together'
  <2>1. \A e \in Desk :
          HeardBy(e)' = IF e = c.desk /\ c.heard THEN {} ELSE HeardBy(e) \ {c}
    <3> TAKE e \in Desk
    <3>1. ASSUME NEW o \in calls, quiet(o).desk = e, quiet(o).heard
          PROVE  quiet(o) = o /\ o \in HeardBy(e) /\ ~(e = c.desk /\ c.heard)
      BY <1>4, <1>5, <3>1 DEF HeardBy
    <3>2. ASSUME NEW o \in HeardBy(e), ~(e = c.desk /\ c.heard)
          PROVE  quiet(o) = o
      BY <1>5, <3>2 DEF HeardBy
    <3>3. \A o \in HeardBy(e) : o \in calls /\ o.desk = e /\ o.heard
      BY DEF HeardBy
    <3>4. \A x : x \in HeardBy(e)' <=> \E o \in kept : x = quiet(o) /\ x.desk = e /\ x.heard
      BY <1>1 DEF HeardBy
    <3>5. CASE e = c.desk /\ c.heard
      BY <3>1, <3>4, <3>5, <1>kept
    <3>6. CASE ~(e = c.desk /\ c.heard)
      <4>1. \A x \in HeardBy(e)' : x \in HeardBy(e) \ {c}
        <5> TAKE x \in HeardBy(e)'
        <5>1. PICK o \in kept : x = quiet(o) /\ x.desk = e /\ x.heard
          BY <3>4
        <5>2. o \in calls /\ o # c
          BY <1>kept
        <5> QED
          BY <3>1, <5>1, <5>2
      <4>2. \A x \in HeardBy(e) \ {c} : x \in HeardBy(e)'
        <5> TAKE x \in HeardBy(e) \ {c}
        <5>1. x \in kept /\ quiet(x) = x /\ x.desk = e /\ x.heard
          BY <1>kept, <3>2, <3>3, <3>6
        <5> QED
          BY <3>4, <5>1
      <4> QED
        BY <4>1, <4>2, <3>6
    <3> QED
      BY <3>5, <3>6
  <2>2. ASSUME NEW e \in Desk, ~form'[e].loose
        PROVE  /\ \A o \in HeardBy(e)' : o.quote = Nothing =>
                    form'[e].pending /\ ~form'[e].searching /\ o.asked = form'[e].shown /\ HeardBy(e)' = {o}
               /\ (\A o \in HeardBy(e)' : o.quote # Nothing) /\ form'[e].quote # Nothing
                    => form'[e].quote.asked = form'[e].shown
    <3>1. CASE e = c.desk /\ c.heard
      BY <1>7, <2>1, <3>1
    <3>2. CASE ~(e = c.desk /\ c.heard)
      <4>1. form'[e] = form[e] /\ HeardBy(e)' = HeardBy(e)
        BY <1>7, <2>1, <3>2 DEF HeardBy
      <4> QED
        BY <2>2, <4>1 DEF Together
    <3> QED
      BY <3>1, <3>2
  <2>3. \A o \in calls' : o.quote # Nothing => o.loose \/ o.quote.asked = o.shown
    BY <1>1, <1>kept, <1>4 DEF Together
  <2> QED
    BY <2>2, <2>3 DEF Together
<1>11. BookedAsConfirmed'
  <2>1. new.read = new.pressed
    <3>1. \A kind \in Kind : c.read[kind] <= c.pressed[kind] /\ c.pressed[kind] <= c.read[kind]
      BY <1>1 DEF Ordered, NoLater
    <3> QED
      BY <1>3, <1>6, <3>1, FrontDeskAssumption DEF Reading, Numbers
  <2>2. new.loose \/ new.quote.asked = new.shown
    BY <1>1, <1>6 DEF Together
  <2> QED
    BY <1>1, <2>1, <2>2 DEF BookedAsConfirmed
<1> QED
  BY <1>2, <1>8, <1>9, <1>10, <1>11

-----------------------------------------------------------------------------
LEMMA NextIInv == IInv /\ [Next]_vars => IInv'
<1> SUFFICES ASSUME IInv, [Next]_vars PROVE IInv'
  OBVIOUS
<1>1. CASE UNCHANGED vars
  <2>1. OneInForce' /\ Pair' = Pair
    BY <1>1, NoPublication DEF IInv, vars
  <2> QED
    BY <1>1, <2>1 DEF IInv, vars, TypeOK, Ordered, Together, HeardBy, BookedAsConfirmed
<1>2. ASSUME NEW p \in Publisher, PricingForm(p) PROVE IInv'
  BY <1>2, ReadCurrentIInv, WriteRevisionIInv DEF PricingForm
<1>3. ASSUME NEW d \in Desk, NewBookingForm(d) PROVE IInv'
  BY <1>3, ChooseIInv, EditIInv, SearchIInv, ConfirmIInv DEF NewBookingForm
<1>4. ASSUME NEW c \in calls,
             \/ CreateQuote(c) \/ CreateStaffBooking(c) \/ Error(c) \/ AnswerLost(c)
             \/ \E kind \in Kind : LoadCurrentBookingConfig(c, kind)
      PROVE  IInv'
  BY <1>4, CreateQuoteIInv, CreateStaffBookingIInv, ErrorIInv, AnswerLostIInv, LoadIInv
<1> QED
  BY <1>1, <1>2, <1>3, <1>4 DEF Next

(* The inductive invariant holds in every reachable state of the forms, the*)
(* calls and the publications (NewBookingForm.tsx, admin-config.ts).       *)
THEOREM IInvHolds == Spec => []IInv
<1>1. Init => IInv
  BY InitIInv
<1>2. IInv /\ [Next]_vars => IInv'
  BY NextIInv
<1> QED
  BY <1>1, <1>2, PTL DEF Spec

(* Every form, call, revision and booking has its type, a quote never with *)
(* a revision that does not exist.                                         *)
THEOREM TypeCorrect == Spec => []TypeOK
<1>1. IInv => TypeOK
  BY DEF IInv
<1> QED
  BY <1>1, IInvHolds, PTL

(* However many publish at once, one tariff and one policy are in force.   *)
THEOREM OneRevisionInForce == Spec => []OneInForce
<1>1. IInv => OneInForce
  BY DEF IInv
<1> QED
  BY <1>1, IInvHolds, PTL

(* No booking is charged by a mixture of revisions, or by others than      *)
(* those in force when Confirm was pressed; and a form that is not loose   *)
(* books what it shows.                                                    *)
THEOREM BookingsAreAsConfirmed == Spec => []BookedAsConfirmed
<1>1. IInv => BookedAsConfirmed
  BY DEF IInv
<1> QED
  BY <1>1, IInvHolds, PTL
=============================================================================
