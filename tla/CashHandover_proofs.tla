------------------------- MODULE CashHandover_proofs -------------------------
(***************************************************************************)
(* TLAPS proofs about CashHandover, for any orders, couriers and amounts,  *)
(* any number of handovers, of submissions and of decisions at once, and   *)
(* every operation of the office: nothing is assumed but the ASSUMEs of    *)
(* CashHandover.                                                           *)
(***************************************************************************)
EXTENDS CashHandover, Sums

\* What a handover can be: its total is the dues of a set of orders or an
\* amount that somebody entered.
Total == {SumDue(S) : S \in SUBSET Order} \cup Amount
Row == [courier : Courier, orders : SUBSET Order, toReturn : Total,
        actual : Total \cup {Nobody},
        status : HandoverStatus \cup {"deleted"},
        source : {"courier_app", "manual"}]
Submission == [courier : Courier, orders : SUBSET Order,
               actual : Amount \cup {Nobody}]

\* What no decision changes of a handover.
SameDeed(row, h) ==
    /\ row.courier = h.courier /\ row.orders = h.orders
    /\ row.toReturn = h.toReturn /\ row.source = h.source

\* A decision under way holds a handover as it was: its status and its amount
\* may have been changed since, by another decision.
ReadOK(r) == r.id \in Ids /\ r.row \in Row /\ SameDeed(r.row, handovers[r.id])

RowsOK ==
    /\ deliveredBy \in [Order -> Courier \cup {Nobody}]
    /\ handovers \in Seq(Row)
    /\ phone \in [Phone -> Submission \cup {Nobody}]
    /\ desk = [d \in Desk |-> desk[d]]
    /\ \A d \in Desk : desk[d] # Nobody => ReadOK(desk[d])

\* The orders of a courier's handovers and submissions stay those he delivered,
\* but for the ones that were reopened.
Delivered(c, S) == \A o \in S \ reopened : deliveredBy[o] = c
HisOrders ==
    /\ \A i \in Ids : Delivered(handovers[i].courier, handovers[i].orders)
    /\ \A p \in Phone : phone[p] # Nobody
                            => Delivered(phone[p].courier, phone[p].orders)

\* The advisory lock: a courier has one submission at a time.
OnePhone ==
    \A p, q \in Phone :
        phone[p] # Nobody /\ phone[q] # Nobody /\ p # q
            => phone[p].courier # phone[q].courier

\* The handovers that were live ever since they were submitted.
Steady == {i \in Ids : handovers[i].status \in Live /\ i \notin revived}

\* What a submission took for eligible is in none of them yet.
StillEligible ==
    \A p \in Phone : phone[p] # Nobody =>
        \A i \in Steady : handovers[i].courier = phone[p].courier
                            => handovers[i].orders \cap phone[p].orders = {}

\* No two of them share an order of one courier.
Apart ==
    \A i, j \in Steady :
        i # j /\ handovers[i].courier = handovers[j].courier
            => handovers[i].orders \cap handovers[j].orders = {}

\* What is written down is what there was to bring: a submission's total is the
\* dues of its orders, and a manual entry has none.
Booked(h) ==
    /\ h.source = "courier_app" => h.toReturn = SumDue(h.orders)
    /\ h.source = "manual" => h.orders = {}
AllBooked == \A i \in Ids : Booked(handovers[i])

IInv ==
    /\ RowsOK /\ HisOrders /\ OnePhone
    /\ StillEligible /\ Apart /\ AllBooked

\* A decision writes one handover, the courier, the orders, the total and the
\* source of which stay; if it was not live, it is remembered as revived.
Rewrites(k, row) ==
    /\ handovers' = [handovers EXCEPT ![k] = row]
    /\ SameDeed(row, handovers[k])
    /\ revived \subseteq revived'
    /\ row.status \in Live /\ k \notin revived' => handovers[k].status \in Live
    /\ UNCHANGED <<phone, deliveredBy, reopened>>
    /\ \A d \in Desk : desk'[d] # Nobody => desk'[d] = desk[d]
    /\ desk' = [d \in Desk |-> desk'[d]]

\* The invariant keeps the cash of an order from being claimed twice.
LEMMA ApartIsOneLive == IInv => OneLiveHandover
<1> SUFFICES ASSUME IInv, NEW i \in Ids, NEW j \in Others(i, Live),
                    NEW o \in handovers[i].orders \cap handovers[j].orders,
                    {i, j} \cap revived = {}
             PROVE  /\ o \in reopened
                    /\ handovers[i].courier # handovers[j].courier
  BY DEF OneLiveHandover
<1>1. j \in Ids /\ i # j /\ i \in Steady /\ j \in Steady
  BY DEF Others, Steady
<1>2. handovers[i].courier # handovers[j].courier
  BY <1>1 DEF IInv, Apart
<1>3. ASSUME o \notin reopened PROVE FALSE
  <2>1. deliveredBy[o] = handovers[i].courier
    BY <1>3 DEF IInv, HisOrders, Delivered
  <2>2. deliveredBy[o] = handovers[j].courier
    BY <1>1, <1>3 DEF IInv, HisOrders, Delivered
  <2>3. QED
    BY <1>2, <2>1, <2>2
<1>4. QED
  BY <1>2, <1>3

------------------------------------------------------------------------------
\* What a decision writes keeps the invariant, whatever else was written since
\* it read.
LEMMA Rewritten ==
    ASSUME IInv, NEW k \in Ids, NEW row \in Row, Rewrites(k, row)
    PROVE  IInv'
<1>1. handovers \in Seq(Row) /\ handovers' \in Seq(Row) /\ Ids' = Ids
  BY DEF IInv, RowsOK, Ids, Rewrites
<1>2. \A i \in Ids : handovers'[i] = IF i = k THEN row ELSE handovers[i]
  BY <1>1 DEF Ids, Rewrites
<1>3. \A i \in Ids : SameDeed(handovers'[i], handovers[i])
  BY <1>2 DEF Rewrites, SameDeed
<1>4. \A i \in Ids : i \in Steady' => i \in Steady
  BY <1>1, <1>2 DEF Steady, Rewrites
<1>5. Steady' \subseteq Ids
  BY <1>1 DEF Steady
<1>6. RowsOK'
  <2>1. ASSUME NEW d \in Desk, desk'[d] # Nobody PROVE ReadOK(desk[d])'
    <3>1. desk'[d] = desk[d] /\ ReadOK(desk[d])
      BY <2>1 DEF Rewrites, IInv, RowsOK
    <3>2. QED
      BY <1>1, <1>3, <3>1 DEF ReadOK, SameDeed
  <2>2. QED
    BY <1>1, <2>1 DEF IInv, RowsOK, Rewrites
<1>7. HisOrders'
  BY <1>1, <1>3 DEF IInv, HisOrders, Delivered, SameDeed, Rewrites
<1>8. OnePhone'
  BY DEF IInv, OnePhone, Rewrites
<1>9. StillEligible'
  BY <1>3, <1>4, <1>5 DEF IInv, StillEligible, SameDeed, Rewrites
<1>10. Apart'
  BY <1>3, <1>4, <1>5 DEF IInv, Apart, SameDeed
<1>11. AllBooked'
  BY <1>1, <1>3 DEF IInv, AllBooked, Booked, SameDeed
<1>12. QED
  BY <1>6, <1>7, <1>8, <1>9, <1>10, <1>11 DEF IInv

\* A handover comes in, with orders of its courier that no steady one of his
\* has, and no submission of his that stays under way.
LEMMA Inserted ==
    ASSUME IInv, NEW h \in Row, handovers' = Append(handovers, h),
           UNCHANGED <<desk, deliveredBy, past>>,
           phone' \in [Phone -> Submission \cup {Nobody}],
           \A p \in Phone : phone'[p] # Nobody => phone'[p] = phone[p],
           Delivered(h.courier, h.orders), Booked(h),
           \A i \in Steady : handovers[i].courier = h.courier
                                => handovers[i].orders \cap h.orders = {},
           \A p \in Phone : phone'[p] # Nobody /\ phone'[p].courier = h.courier
                                => phone'[p].orders \cap h.orders = {}
    PROVE  IInv'
<1> DEFINE new == Len(handovers) + 1
<1>1. /\ handovers' \in Seq(Row) /\ Ids' = Ids \cup {new} /\ new \notin Ids
      /\ \A i \in Ids : handovers'[i] = handovers[i]
      /\ handovers'[new] = h
  BY DEF IInv, RowsOK, Ids
<1> HIDE DEF new
<1>2. \A i \in Steady' : i = new \/ i \in Steady
  BY <1>1 DEF Steady, past
<1>3. Steady \subseteq Ids
  BY DEF Steady
<1>4. RowsOK'
  <2>1. ASSUME NEW d \in Desk, desk'[d] # Nobody PROVE ReadOK(desk[d])'
    <3>1. desk'[d] = desk[d] /\ ReadOK(desk[d])
      BY <2>1 DEF IInv, RowsOK
    <3>2. QED
      BY <1>1, <3>1 DEF ReadOK, SameDeed
  <2>2. QED
    BY <1>1, <2>1 DEF IInv, RowsOK
<1>5. HisOrders'
  <2>1. \A i \in Ids : Delivered(handovers[i].courier, handovers[i].orders)
    BY DEF IInv, HisOrders
  <2>2. ASSUME NEW i \in Ids'
        PROVE  Delivered(handovers[i].courier, handovers[i].orders)'
    <3>1. CASE i \in Ids
      BY <1>1, <2>1, <3>1 DEF Delivered, past
    <3>2. CASE i = new
      BY <1>1, <3>2 DEF Delivered, past
    <3>3. QED
      BY <1>1, <3>1, <3>2
  <2>3. ASSUME NEW p \in Phone, phone'[p] # Nobody
        PROVE  Delivered(phone[p].courier, phone[p].orders)'
    BY <2>3 DEF IInv, HisOrders, Delivered, past
  <2>4. QED
    BY <2>2, <2>3 DEF HisOrders
<1>6. OnePhone'
  BY DEF IInv, OnePhone
<1>7. StillEligible'
  <2> SUFFICES ASSUME NEW p \in Phone, NEW i \in Steady', phone'[p] # Nobody,
                      handovers'[i].courier = phone'[p].courier
               PROVE  handovers'[i].orders \cap phone'[p].orders = {}
    BY DEF StillEligible
  <2>1. CASE i \in Steady
    BY <1>1, <1>3, <2>1 DEF IInv, StillEligible
  <2>2. CASE i = new
    BY <1>1, <2>2
  <2>3. QED
    BY <1>2, <2>1, <2>2
<1>8. Apart'
  <2> SUFFICES ASSUME NEW i \in Steady', NEW j \in Steady', i # j,
                      handovers'[i].courier = handovers'[j].courier
               PROVE  handovers'[i].orders \cap handovers'[j].orders = {}
    BY DEF Apart
  <2>1. CASE i \in Steady /\ j \in Steady
    BY <1>1, <1>3, <2>1 DEF IInv, Apart
  <2>2. CASE i = new /\ j \in Steady
    BY <1>1, <1>3, <2>2
  <2>3. CASE j = new /\ i \in Steady
    BY <1>1, <1>3, <2>3
  <2>4. QED
    BY <1>2, <2>1, <2>2, <2>3
<1>9. AllBooked'
  BY <1>1 DEF IInv, AllBooked
<1>10. QED
  BY <1>4, <1>5, <1>6, <1>7, <1>8, <1>9 DEF IInv

------------------------------------------------------------------------------
\* A submission begins: the courier's lock is free, and its orders are in no
\* live handover.
LEMMA SubmitStep ==
    ASSUME IInv, NEW p \in Phone, NEW c \in Courier,
           NEW amount \in Amount \cup {Nobody}, SubmitHandover(p, c, amount)
    PROVE  IInv'
<1> DEFINE s == [courier |-> c, orders |-> FindEligibleHandoverOrders(c),
                 actual |-> amount]
<1>1. /\ phone' = [phone EXCEPT ![p] = s]
      /\ UNCHANGED <<handovers, desk, deliveredBy, reopened, revived>>
      /\ \A q \in Phone : phone[q] # Nobody => phone[q].courier # c
  BY DEF SubmitHandover, LockCourierForHandover, past
<1>2. s \in Submission
  BY DEF Submission, FindEligibleHandoverOrders, DeliveredOf
<1>3. /\ \A i \in Ids : handovers[i].status \in Live
                          => handovers[i].orders \cap s.orders = {}
      /\ \A o \in s.orders : deliveredBy[o] = c
      /\ s.courier = c
  BY DEF FindEligibleHandoverOrders, LinkedIn, Live, DeliveredOf
<1>4. /\ phone' \in [Phone -> Submission \cup {Nobody}]
      /\ \A q \in Phone : phone'[q] = IF q = p THEN s ELSE phone[q]
  BY <1>1, <1>2 DEF IInv, RowsOK
<1> HIDE DEF s
<1>5. Ids' = Ids /\ Steady' = Steady
  BY <1>1 DEF Ids, Steady
<1>6. RowsOK'
  BY <1>1, <1>4, <1>5 DEF IInv, RowsOK, ReadOK
<1>7. Apart' /\ AllBooked'
  BY <1>1, <1>5 DEF IInv, Apart, AllBooked
<1>8. OnePhone'
  BY <1>1, <1>3, <1>4 DEF IInv, OnePhone
<1>9. StillEligible'
  BY <1>1, <1>3, <1>4, <1>5 DEF IInv, StillEligible, Steady
<1>10. HisOrders'
  BY <1>1, <1>3, <1>4, <1>5 DEF IInv, HisOrders, Delivered
<1>11. QED
  BY <1>6, <1>7, <1>8, <1>9, <1>10 DEF IInv

\* It commits what it found,
LEMMA CommitStep ==
    ASSUME IInv, NEW p \in Phone, SubmitCommit(p) PROVE IInv'
<1> DEFINE h == [courier |-> phone[p].courier, orders |-> phone[p].orders,
                 toReturn |-> SumDue(phone[p].orders),
                 actual |-> phone[p].actual,
                 status |-> "pending", source |-> "courier_app"]
<1>1. /\ phone[p] # Nobody /\ UNCHANGED <<desk, deliveredBy, past>>
      /\ handovers' = Append(handovers, h)
      /\ phone' = [phone EXCEPT ![p] = Nobody]
  BY DEF SubmitCommit, Insert, Hang
<1>2. phone[p] \in Submission
  BY <1>1 DEF IInv, RowsOK
<1>3. h \in Row /\ Booked(h)
  BY <1>2 DEF Submission, Row, Total, HandoverStatus, Booked
<1>4. /\ phone' \in [Phone -> Submission \cup {Nobody}]
      /\ \A q \in Phone : phone'[q] = IF q = p THEN Nobody ELSE phone[q]
  BY <1>1 DEF IInv, RowsOK
<1>5. \A q \in Phone : phone'[q] # Nobody
                         => q # p /\ phone'[q].courier # h.courier
  BY <1>1, <1>4 DEF IInv, OnePhone
<1>6. /\ Delivered(h.courier, h.orders)
      /\ \A i \in Steady : handovers[i].courier = h.courier
                             => handovers[i].orders \cap h.orders = {}
  BY <1>1 DEF IInv, StillEligible, HisOrders
<1> HIDE DEF h
<1>7. QED
  BY <1>1, <1>3, <1>4, <1>5, <1>6, Inserted

\* or ends with nothing.
LEMMA AbortStep ==
    ASSUME IInv, NEW p \in Phone, SubmitAbort(p) PROVE IInv'
<1>1. /\ phone' = [phone EXCEPT ![p] = Nobody]
      /\ UNCHANGED <<handovers, desk, deliveredBy, reopened, revived>>
  BY DEF SubmitAbort, Hang, past
<1>2. /\ phone' \in [Phone -> Submission \cup {Nobody}]
      /\ \A q \in Phone : phone'[q] = IF q = p THEN Nobody ELSE phone[q]
      /\ Ids' = Ids /\ Steady' = Steady
  BY <1>1 DEF IInv, RowsOK, Ids, Steady
<1>3. RowsOK' /\ OnePhone' /\ StillEligible' /\ Apart' /\ AllBooked'
  BY <1>1, <1>2
  DEF IInv, RowsOK, ReadOK, OnePhone, StillEligible, Apart, AllBooked
<1>4. HisOrders'
  BY <1>1, <1>2 DEF IInv, HisOrders, Delivered
<1>5. QED
  BY <1>3, <1>4 DEF IInv

\* The owner's entry has no orders.
LEMMA ManualStep ==
    ASSUME IInv, NEW c \in Courier, NEW amount \in Amount,
           CreateManual(c, amount)
    PROVE  IInv'
<1> DEFINE h == [courier |-> c, orders |-> {}, toReturn |-> amount,
                 actual |-> Nobody, status |-> "pending", source |-> "manual"]
<1>1. /\ handovers' = Append(handovers, h)
      /\ UNCHANGED <<phone, desk, deliveredBy, past>>
  BY DEF CreateManual, Insert
<1>2. h \in Row /\ h.orders = {} /\ Booked(h)
  BY DEF Row, Total, HandoverStatus, Booked
<1>3. phone' \in [Phone -> Submission \cup {Nobody}]
  BY <1>1 DEF IInv, RowsOK
<1> HIDE DEF h
<1>4. QED
  BY <1>1, <1>2, <1>3, Inserted DEF Delivered

\* An order is delivered, or taken back.
LEMMA OrderStep ==
    ASSUME IInv, NEW o \in Order,
           Reopen(o) \/ \E c \in Courier : Deliver(o, c)
    PROVE  IInv'
<1>1. /\ UNCHANGED <<handovers, phone, desk, revived>>
      /\ reopened \subseteq reopened'
      /\ deliveredBy' \in [Order -> Courier \cup {Nobody}]
      /\ \A x \in Order \ reopened' :
            deliveredBy[x] # Nobody => deliveredBy'[x] = deliveredBy[x]
  BY DEF Reopen, Deliver, past, IInv, RowsOK
<1>2. Ids' = Ids /\ Steady' = Steady
  BY <1>1 DEF Ids, Steady
<1>3. RowsOK' /\ OnePhone' /\ StillEligible' /\ Apart' /\ AllBooked'
  BY <1>1, <1>2
  DEF IInv, RowsOK, ReadOK, OnePhone, StillEligible, Apart, AllBooked
<1>4. ASSUME NEW c \in Courier, NEW S \in SUBSET Order, Delivered(c, S)
      PROVE  Delivered(c, S)'
  BY <1>1, <1>4, NobodyIsNull DEF Delivered
<1>5. HisOrders'
  <2>1. \A i \in Ids : handovers[i].courier \in Courier
                       /\ handovers[i].orders \in SUBSET Order
    <3>1. \A i \in Ids : handovers[i] \in Row
      BY DEF IInv, RowsOK, Ids
    <3>2. QED
      BY <3>1 DEF Row
  <2>2. \A p \in Phone : phone[p] # Nobody =>
                            /\ phone[p].courier \in Courier
                            /\ phone[p].orders \in SUBSET Order
    BY DEF IInv, RowsOK, Submission
  <2>3. \A i \in Ids :
            Delivered(handovers[i].courier, handovers[i].orders)'
    BY <1>1, <1>4, <2>1 DEF IInv, HisOrders, Delivered
  <2>4. QED
    BY <1>1, <1>2, <2>1, <2>2, NobodyIsNull DEF IInv, HisOrders, Delivered
<1>6. QED
  BY <1>3, <1>5 DEF IInv

------------------------------------------------------------------------------
\* The decisions.  What was accepted of a handover is one of its amounts.
LEMMA AcceptedTyped == \A h \in Row : Accepted(h) \in Total
BY DEF Row, Accepted

\* What a decision that is carried out writes.
LEMMA Decided ==
    ASSUME IInv, NEW d \in Desk, Decide(d), ~Forget(d),
           \A i \in Ids : ~Read(d, i)
    PROVE  \E k \in Ids, row \in Row : Rewrites(k, row)
<1> DEFINE k == desk[d].id
           seen == desk[d].row
           now == handovers[k]
           Written == \E j \in Ids, row \in Row : Rewrites(j, row)
<1>1. desk[d] # Nobody
  BY DEF Decide, ConfirmHandover, ConfirmTransaction, RejectHandover,
         UpdateHandover, EditHandover, DeleteHandover, Saw
<1>2. /\ k \in Ids /\ seen \in Row /\ now \in Row /\ SameDeed(seen, now)
      /\ SameDeed(now, now)
  BY <1>1 DEF IInv, RowsOK, ReadOK, Ids, SameDeed
\* One's row with another status and another amount.
<1>3. ASSUME NEW old \in Row, SameDeed(old, now),
             NEW to \in HandoverStatus \cup {"deleted"},
             NEW a \in Total \cup {Nobody},
             Write(d, [old EXCEPT !.actual = a, !.status = to])
      PROVE  Written
  <2> DEFINE row == [old EXCEPT !.actual = a, !.status = to]
  <2>1. row \in Row /\ SameDeed(row, now) /\ row.status = to
    BY <1>3 DEF Row, SameDeed
  <2>2. Write(d, row)
    BY <1>3
  <2> HIDE DEF row
  <2>3. /\ handovers' = [handovers EXCEPT ![k] = row]
        /\ revived' = revived \cup {j \in {k} :
                handovers[j].status \notin Live /\ row.status \in Live}
        /\ desk' = [desk EXCEPT ![d] = Nobody]
        /\ UNCHANGED <<deliveredBy, phone, reopened>>
    BY <2>2 DEF Write, Done
  <2>4. /\ \A e \in Desk : desk'[e] # Nobody => desk'[e] = desk[e]
        /\ desk' = [e \in Desk |-> desk'[e]]
    BY <2>3 DEF IInv, RowsOK
  <2> HIDE DEF k
  <2>5. row.status \in Live /\ k \notin revived'
            => handovers[k].status \in Live
    BY <2>3
  <2>6. Rewrites(k, row)
    BY <2>1, <2>3, <2>4, <2>5 DEF Rewrites
  <2>7. QED
    BY <1>2, <2>1, <2>6
<1> HIDE DEF Written
<1>4. ASSUME NEW amount \in Amount, ConfirmHandover(d, amount) PROVE Written
  <2> DEFINE to == IF amount = seen.toReturn THEN "confirmed" ELSE "disputed"
  <2>1. Write(d, [seen EXCEPT !.actual = amount, !.status = to])
    BY <1>4 DEF ConfirmHandover, Save
  <2>2. /\ to \in HandoverStatus \cup {"deleted"}
        /\ amount \in Total \cup {Nobody}
    BY DEF HandoverStatus, Total
  <2> HIDE DEF to, seen, now
  <2>3. QED
    BY <1>2, <1>3, <2>1, <2>2
<1>5. ASSUME ConfirmTransaction(d) PROVE Written
  <2>1. Write(d, [seen EXCEPT !.actual = Accepted(seen),
                              !.status = "confirmed"])
    BY <1>5 DEF ConfirmTransaction, Save
  <2>2. /\ "confirmed" \in HandoverStatus
        /\ Accepted(seen) \in Total \cup {Nobody}
    BY <1>2, AcceptedTyped DEF HandoverStatus
  <2> HIDE DEF seen, now
  <2>3. QED
    BY <1>2, <1>3, <2>1, <2>2
\* Only the status.
<1>6. ASSUME NEW old \in Row, SameDeed(old, now),
             NEW to \in HandoverStatus \cup {"deleted"},
             Write(d, [old EXCEPT !.status = to])
      PROVE  Written
  <2>1. [old EXCEPT !.status = to]
            = [old EXCEPT !.actual = old.actual, !.status = to]
    BY <1>6 DEF Row
  <2>2. old.actual \in Total \cup {Nobody}
    BY <1>6 DEF Row
  <2>3. QED
    BY <1>3, <1>6, <2>1, <2>2
<1>7. ASSUME RejectHandover(d) PROVE Written
  <2>1. Write(d, [seen EXCEPT !.status = "rejected"])
    BY <1>7 DEF RejectHandover, Save
  <2>2. "rejected" \in HandoverStatus
    BY DEF HandoverStatus
  <2> HIDE DEF seen, now
  <2>3. QED
    BY <1>2, <1>6, <2>1, <2>2
<1>8. ASSUME DeleteHandover(d) PROVE Written
  <2>1. Write(d, [now EXCEPT !.status = "deleted"])
    BY <1>8 DEF DeleteHandover
  <2> HIDE DEF seen, now
  <2>2. QED
    BY <1>2, <1>6, <2>1
<1>9. ASSUME NEW to \in HandoverStatus \cup {Nobody},
             NEW amount \in Amount \cup {Nobody}, Change(d, to, amount)
      PROVE  Written
  <2> DEFINE t == IF to = Nobody THEN now.status ELSE to
             a == IF amount = Nobody THEN now.actual ELSE amount
  <2>1. Write(d, [now EXCEPT !.status = t, !.actual = a])
    BY <1>9 DEF Change
  <2>2. t \in HandoverStatus \cup {"deleted"} /\ a \in Total \cup {Nobody}
    BY <1>2 DEF Row, Total
  <2>3. [now EXCEPT !.status = t, !.actual = a]
            = [now EXCEPT !.actual = a, !.status = t]
    BY <1>2 DEF Row
  <2> HIDE DEF t, a, seen, now
  <2>4. QED
    BY <1>2, <1>3, <2>1, <2>2, <2>3
<1>10. ASSUME NEW to \in HandoverStatus \cup {Nobody},
              NEW amount \in Amount \cup {Nobody},
              UpdateHandover(d, to, amount)
       PROVE  Written
  BY <1>9, <1>10 DEF UpdateHandover
<1>11. ASSUME NEW to \in {"confirmed", "rejected", Nobody},
              NEW amount \in Amount \cup {Nobody}, EditHandover(d, to, amount)
       PROVE  Written
  <2> DEFINE t == IF to = seen.status THEN Nobody ELSE to
             a == IF amount = seen.actual THEN Nobody ELSE amount
  <2>1. Change(d, t, a)
    BY <1>11 DEF EditHandover
  <2>2. t \in HandoverStatus \cup {Nobody} /\ a \in Amount \cup {Nobody}
    BY DEF HandoverStatus
  <2> HIDE DEF t, a
  <2>3. QED
    BY <1>9, <2>1, <2>2
<1>12. Written
  BY <1>4, <1>5, <1>7, <1>8, <1>10, <1>11 DEF Decide
<1>13. QED
  BY <1>12 DEF Written

\* A decision reads the handover, is forgotten, or writes.
LEMMA DecideStep ==
    ASSUME IInv, NEW d \in Desk, Decide(d) PROVE IInv'
<1>1. ASSUME UNCHANGED <<handovers, phone, deliveredBy, reopened, revived>>,
             NEW r, r # Nobody => ReadOK(r),
             desk' = [desk EXCEPT ![d] = r]
      PROVE  IInv'
  <2>1. Ids' = Ids /\ Steady' = Steady
    BY <1>1 DEF Ids, Steady
  <2>2. RowsOK'
    <3>1. \A e \in Desk : desk'[e] = IF e = d THEN r ELSE desk[e]
      BY <1>1 DEF IInv, RowsOK
    <3>2. desk' = [e \in Desk |-> desk'[e]]
      BY <1>1 DEF IInv, RowsOK
    <3>3. QED
      BY <1>1, <2>1, <3>1, <3>2 DEF IInv, RowsOK, ReadOK
  <2>3. OnePhone' /\ StillEligible' /\ Apart' /\ AllBooked' /\ HisOrders'
    BY <1>1, <2>1
    DEF IInv, OnePhone, StillEligible, Apart, AllBooked, HisOrders, Delivered
  <2>4. QED
    BY <2>2, <2>3 DEF IInv
<1>2. ASSUME NEW i \in Ids, Read(d, i) PROVE IInv'
  <2> DEFINE r == [id |-> i, row |-> handovers[i]]
  <2>1. /\ UNCHANGED <<handovers, phone, deliveredBy, reopened, revived>>
        /\ desk' = [desk EXCEPT ![d] = r]
    BY <1>2 DEF Read, past
  <2>2. ReadOK(r)
    BY DEF ReadOK, SameDeed, IInv, RowsOK, Ids
  <2> HIDE DEF r
  <2>3. QED
    BY <1>1, <2>1, <2>2
<1>3. ASSUME Forget(d) PROVE IInv'
  <2>1. /\ UNCHANGED <<handovers, phone, deliveredBy, reopened, revived>>
        /\ desk' = [desk EXCEPT ![d] = Nobody]
    BY <1>3 DEF Forget, Done
  <2>2. QED
    BY <1>1, <2>1
<1>4. ASSUME ~Forget(d), \A i \in Ids : ~Read(d, i) PROVE IInv'
  BY <1>4, Decided, Rewritten
<1>5. QED
  BY <1>2, <1>3, <1>4

------------------------------------------------------------------------------
\* Nothing is handed over at the start, and every step keeps the invariant.
LEMMA Invariance == (Init => IInv) /\ (IInv /\ [Next]_vars => IInv')
<1>1. ASSUME Init PROVE IInv
  BY <1>1 DEF Init, IInv, RowsOK, HisOrders, OnePhone, StillEligible, Apart,
              AllBooked, Steady, Ids, Delivered
<1>2. ASSUME IInv, [Next]_vars PROVE IInv'
  <2>1. ASSUME UNCHANGED vars PROVE IInv'
    <3>1. /\ UNCHANGED <<handovers, phone, desk>>
          /\ UNCHANGED <<deliveredBy, reopened, revived>>
          /\ Ids' = Ids /\ Steady' = Steady
      BY <2>1 DEF vars, past, Ids, Steady
    <3>2. QED
      BY <1>2, <3>1
      DEF IInv, RowsOK, ReadOK, HisOrders, Delivered, OnePhone, StillEligible,
          Apart, AllBooked
  <2>2. ASSUME NEW o \in Order,
               Reopen(o) \/ \E c \in Courier : Deliver(o, c)
        PROVE  IInv'
    BY <1>2, <2>2, OrderStep
  <2>3. ASSUME NEW p \in Phone, NEW c \in Courier,
               NEW amount \in Amount \cup {Nobody},
               SubmitHandover(p, c, amount)
        PROVE  IInv'
    BY <1>2, <2>3, SubmitStep
  <2>4. ASSUME NEW p \in Phone, SubmitCommit(p) \/ SubmitAbort(p)
        PROVE  IInv'
    BY <1>2, <2>4, CommitStep, AbortStep
  <2>5. ASSUME NEW c \in Courier, NEW amount \in Amount,
               CreateManual(c, amount)
        PROVE  IInv'
    BY <1>2, <2>5, ManualStep
  <2>6. ASSUME NEW d \in Desk, Decide(d) PROVE IInv'
    BY <1>2, <2>6, DecideStep
  <2>7. QED
    BY <1>2, <2>1, <2>2, <2>3, <2>4, <2>5, <2>6 DEF Next
<1>3. QED
  BY <1>1, <1>2

\* However many decisions read a handover before one of them is written, and
\* whatever the office corrects, updates, deletes or reopens, the cash of an
\* order is claimed by two live handovers only where one of them was brought
\* back, or where the order was reopened and delivered by somebody else.
THEOREM OneLiveHandoverEach == Spec => []OneLiveHandover
BY Invariance, ApartIsOneLive, PTL DEF Spec

------------------------------------------------------------------------------
(* The debt.                                                               *)

\* The dues of a set of orders, as a sum.
LEMMA DueIsSum ==
    ASSUME NEW S \in SUBSET Order
    PROVE  SumDue(S) = SumFunctionOnSet(Due, S) /\ SumDue(S) \in Nat
<1> DEFINE f == [o \in S |-> Due[o]]
<1>1. IsFiniteSet(S)
  BY OrdersAreFinite, FS_Subset
<1>2. \A o \in S : f[o] \in Nat /\ Due[o] = f[o]
  BY DueIsNat
<1>3. SumDue(S) = SumFunctionOnSet(f, S)
  BY FoldIsSum DEF SumDue, SumOf
<1> HIDE DEF f
<1>4. \A o \in S : f[o] \in Int /\ Due[o] = f[o]
  BY <1>2
<1>5. SumFunctionOnSet(Due, S) = SumFunctionOnSet(f, S)
  BY <1>1, <1>4, SumSame
<1>6. SumFunctionOnSet(f, S) \in Nat
  BY <1>1, <1>2, SumNat
<1>7. QED
  BY <1>3, <1>5, <1>6

\* What is due for two sets of orders without a common one adds up.
LEMMA DueUnion ==
    ASSUME NEW S \in SUBSET Order, NEW T \in SUBSET Order, S \cap T = {}
    PROVE  SumDue(S \cup T) = SumDue(S) + SumDue(T)
<1>1. IsFiniteSet(S) /\ IsFiniteSet(T)
  BY OrdersAreFinite, FS_Subset
<1>2. \A o \in S \cup T : Due[o] \in Int
  BY DueIsNat
<1>3. SumFunctionOnSet(Due, S \cup T)
        = SumFunctionOnSet(Due, S) + SumFunctionOnSet(Due, T)
  BY <1>1, <1>2, SumUnion
<1>4. S \cup T \in SUBSET Order
  OBVIOUS
<1>5. QED
  BY <1>3, <1>4, DueIsSum

\* Taking disjoint sets of orders out of D, and the residues in, is taking out
\* what was accepted for them.
LEMMA DebtSum ==
    ASSUME NEW D \in SUBSET Order, NEW I, IsFiniteSet(I),
           NEW L, NEW R, NEW A,
           \A i \in I : /\ L[i] \subseteq D /\ R[i] \in Int /\ A[i] \in Int
                        /\ R[i] = SumDue(L[i]) - A[i],
           \A i, j \in I : i # j => L[i] \cap L[j] = {}
    PROVE  SumDue(D \ UNION {L[i] : i \in I}) + SumFunctionOnSet(R, I)
                = SumDue(D) - SumFunctionOnSet(A, I)
<1> DEFINE Out(T) == D \ UNION {L[i] : i \in T}
           P == {T \in SUBSET I :
                    SumDue(Out(T)) + SumFunctionOnSet(R, T)
                        = SumDue(D) - SumFunctionOnSet(A, T)}
<1>1. {} \in P
  <2>1. Out({}) = D
    OBVIOUS
  <2>2. SumDue(D) \in Nat
    BY DueIsSum
  <2> HIDE DEF Out
  <2>3. QED
    BY <2>1, <2>2, SumEmpty
<1>2. ASSUME NEW T \in SUBSET I, NEW x \in I \ T, T \in P
      PROVE  T \cup {x} \in P
  <2> DEFINE U == T \cup {x}
  <2>1. U \in SUBSET I /\ U \ {x} = T /\ x \in U
    OBVIOUS
  <2>2. IsFiniteSet(U)
    BY FS_Subset
  <2>3. /\ Out(U) \cup L[x] = Out(T) /\ Out(U) \cap L[x] = {}
        /\ Out(U) \in SUBSET Order /\ L[x] \in SUBSET Order
        /\ Out(T) \in SUBSET Order
    OBVIOUS
  <2>4. \A i \in U : R[i] \in Int /\ A[i] \in Int
    OBVIOUS
  <2>5. R[x] = SumDue(L[x]) - A[x] /\ R[x] \in Int /\ A[x] \in Int
    OBVIOUS
  <2>6. SumDue(Out(T)) + SumFunctionOnSet(R, T)
            = SumDue(D) - SumFunctionOnSet(A, T)
    BY <1>2
  <2> HIDE DEF Out, P, U
  <2>7. SumDue(Out(T)) = SumDue(Out(U)) + SumDue(L[x])
    BY <2>3, DueUnion
  <2>8. /\ SumFunctionOnSet(R, U) = R[x] + SumFunctionOnSet(R, T)
        /\ SumFunctionOnSet(R, U) \in Int
    BY <2>1, <2>2, <2>4, SumTakeOut
  <2>9. /\ SumFunctionOnSet(A, U) = A[x] + SumFunctionOnSet(A, T)
        /\ SumFunctionOnSet(A, U) \in Int
    BY <2>1, <2>2, <2>4, SumTakeOut
  <2>10. /\ SumFunctionOnSet(R, T) \in Int /\ SumFunctionOnSet(A, T) \in Int
    <3>1. IsFiniteSet(T) /\ \A i \in T : R[i] \in Int /\ A[i] \in Int
      BY FS_Subset
    <3>2. QED
      BY <3>1, SumTakeOut
  <2>11. /\ SumDue(Out(U)) \in Nat /\ SumDue(L[x]) \in Nat /\ SumDue(D) \in Nat
    BY <2>3, DueIsSum
  <2>12. SumDue(Out(U)) + SumFunctionOnSet(R, U)
            = SumDue(D) - SumFunctionOnSet(A, U)
    BY <2>5, <2>6, <2>7, <2>8, <2>9, <2>10, <2>11
  <2>13. QED
    BY <2>1, <2>12 DEF P, U
<1>3. I \in P
  <2> HIDE DEF P
  <2>1. QED
    BY <1>1, <1>2, FiniteSetInduction
<1>4. QED
  BY <1>3

\* The dues of the confirmed handovers of a courier whose accounts nobody went
\* back on are in his deliveries, and counted once, so what is left of the debt
\* is the balance.
LEMMA BalanceHolds == IInv => DebtIsBalance
<1> SUFFICES ASSUME IInv, NEW c \in Courier, Plain(c)
             PROVE  SignedDebt(c) = SumDue(DeliveredOf(c))
                        - SumOf(Of(c, {"confirmed"}),
                                LAMBDA i : Accepted(handovers[i]))
  BY DEF DebtIsBalance
<1> DEFINE D == DeliveredOf(c)
           I == Of(c, {"confirmed"})
           L == [i \in I |-> handovers[i].orders]
           R == [i \in I |-> Residue(handovers[i])]
           A == [i \in I |-> Accepted(handovers[i])]
<1>1. handovers \in Seq(Row) /\ AllBooked /\ HisOrders /\ Apart
  BY DEF IInv, RowsOK
<1>2. IsFiniteSet(I)
  <2>1. IsFiniteSet(Ids) /\ I \subseteq Ids
    BY <1>1, FS_Interval DEF Ids, Of
  <2>2. QED
    BY <2>1, FS_Subset
<1>3. ASSUME NEW h \in Row, Booked(h),
             h.source = "manual" => Accepted(h) = h.toReturn
      PROVE  /\ Accepted(h) \in Int /\ Residue(h) \in Int
             /\ Residue(h) = SumDue(h.orders) - Accepted(h)
  <2>1. \A x \in Total : x \in Nat
    BY DueIsSum, DueIsNat DEF Total
  <2>2. /\ h.toReturn \in Nat /\ Accepted(h) \in Nat
        /\ h.source \in {"courier_app", "manual"}
    BY <2>1, AcceptedTyped DEF Row
  <2>3. CASE h.source = "courier_app"
    BY <1>3, <2>2, <2>3 DEF Booked, Residue
  <2>4. CASE h.source = "manual"
    <3>1. h.toReturn = Accepted(h) /\ SumDue(h.orders) = 0
      <4>1. h.orders = {}
        BY <1>3, <2>4 DEF Booked
      <4>2. SumDue({}) = SumFunctionOnSet(Due, {})
        BY DueIsSum
      <4>3. QED
        BY <1>3, <2>4, <4>1, <4>2, SumEmpty
    <3>2. Residue(h) = h.toReturn - Accepted(h) - Accepted(h)
      BY <2>4 DEF Residue
    <3>3. QED
      BY <2>2, <3>1, <3>2
  <2>5. QED
    BY <2>2, <2>3, <2>4
<1>4. ASSUME NEW i \in I
      PROVE  /\ i \in Steady /\ handovers[i] \in Row
             /\ handovers[i].courier = c
             /\ handovers[i].orders \subseteq D /\ Booked(handovers[i])
             /\ handovers[i].source = "manual"
                    => Accepted(handovers[i]) = handovers[i].toReturn
  <2>1. /\ i \in Ids /\ handovers[i] \in Row /\ handovers[i].courier = c
        /\ handovers[i].status \in Live /\ i \notin revived
        /\ handovers[i].orders \cap reopened = {}
        /\ handovers[i].source = "manual"
                => Accepted(handovers[i]) = handovers[i].toReturn
    BY <1>1 DEF Of, Ids, Plain, Live
  <2>2. handovers[i].orders \subseteq D
    BY <1>1, <2>1 DEF HisOrders, Delivered, DeliveredOf, Row
  <2>3. QED
    BY <1>1, <2>1, <2>2 DEF Steady, AllBooked
<1>5. ASSUME NEW i \in I
      PROVE  /\ L[i] \subseteq D /\ R[i] \in Int /\ A[i] \in Int
             /\ R[i] = SumDue(L[i]) - A[i]
  BY <1>3, <1>4
<1>6. \A i, j \in I : i # j => L[i] \cap L[j] = {}
  BY <1>1, <1>4 DEF Apart
<1>7. D \ LinkedIn({"confirmed"}) = D \ UNION {L[i] : i \in I}
  <2>1. ASSUME NEW o \in D, o \in LinkedIn({"confirmed"})
        PROVE  \E i \in I : o \in L[i]
    <3>1. PICK i \in Ids : /\ handovers[i].status \in {"confirmed"}
                           /\ o \in handovers[i].orders
      BY <2>1 DEF LinkedIn
    <3>2. o \notin reopened /\ deliveredBy[o] = c
      BY DEF Plain, DeliveredOf
    <3>3. handovers[i].courier = c
      BY <1>1, <3>1, <3>2 DEF HisOrders, Delivered
    <3>4. i \in I
      BY <3>1, <3>3 DEF Of
    <3>5. QED
      BY <3>1, <3>4
  <2>2. ASSUME NEW i \in I, NEW o \in L[i] PROVE o \in LinkedIn({"confirmed"})
    BY DEF LinkedIn, Of
  <2>3. QED
    BY <2>1, <2>2
<1>8. D \in SUBSET Order
  BY DEF DeliveredOf
<1>9. /\ SumOf(I, LAMBDA i : Residue(handovers[i])) = SumFunctionOnSet(R, I)
      /\ SumOf(I, LAMBDA i : Accepted(handovers[i])) = SumFunctionOnSet(A, I)
  <2>1. FoldFunction(+, 0, R) = SumFunctionOnSet(R, I)
    BY FoldIsSum
  <2>2. FoldFunction(+, 0, A) = SumFunctionOnSet(A, I)
    BY FoldIsSum
  <2>3. QED
    BY <2>1, <2>2 DEF SumOf
<1>10. SumDue(D \ UNION {L[i] : i \in I}) + SumFunctionOnSet(R, I)
        = SumDue(D) - SumFunctionOnSet(A, I)
  <2> HIDE DEF D, I, L, R, A
  <2>1. QED
    BY <1>2, <1>5, <1>6, <1>8, DebtSum
<1>11. SignedDebt(c) = SumDue(D \ LinkedIn({"confirmed"}))
                        + SumOf(I, LAMBDA i : Residue(handovers[i]))
  BY DEF SignedDebt, OrderDebt
<1>12. QED
  BY <1>7, <1>9, <1>10, <1>11

\* Whatever decisions cross each other and whatever the office does, the debt a
\* courier is shown is what he was due to bring less what was accepted from
\* him, as long as nobody brought back one of his confirmed handovers, reopened
\* an order of his, or took another amount than a manual entry says.
THEOREM DebtIsTheBalance == Spec => []DebtIsBalance
BY Invariance, BalanceHolds, PTL DEF Spec
==============================================================================
