---------------------------- MODULE PaymentsProofs ----------------------------
(***************************************************************************)
(* Theorems about payment orders, for any payables, people, orders, files  *)
(* and transactions: what is handed to the bank was approved by two        *)
(* persons and stays as they approved it; what counts as executed has a    *)
(* debit of its own as proof; a credit is used only for an order that came *)
(* back; only a request that was overtaken sends an order for a payable    *)
(* that no longer stands; and no payable is ever paid beyond its amount.   *)
(*                                                                         *)
(* The rows are typed last: that the rest of a payable is an amount at all *)
(* needs the bound on the sum of its bookings, and no theorem about the    *)
(* people, the files and the proofs depends on it.                         *)
(***************************************************************************)
EXTENDS Payments, Sums, FiniteSetTheorems, TLAPS

Early == {"absent", "draft", "approved", "cancelled"}
Late  == OrderStatus \ Early

\* A row has its columns; only status and file are restricted.
RowOK(r) ==
  r \in [status: OrderStatus, item: {r.item}, fields: {r.fields},
         approvals: {r.approvals}, batch: Batch \cup {NoBatch}, tx: {r.tx}]

\* Approvals for the fields as they stand are of different persons.
ApprovalsOK(r) ==
  /\ \A a \in r.approvals : a.user \in User \ PlatformAdmin
  /\ \A a, c \in r.approvals :
       a.fields = r.fields /\ c.fields = r.fields /\ a.user # c.user
         => Person[a.user] # Person[c.user]

TwoPersons(r) ==
  \E a, c \in r.approvals :
    /\ a.fields = r.fields /\ c.fields = r.fields
    /\ Person[a.user] # Person[c.user]

\* Orders in a file are past their approval, and the others are in no file.
OrdersOK ==
  /\ order = [o \in Order |-> order[o]]
  /\ \A o \in Order :
       /\ RowOK(order[o]) /\ ApprovalsOK(order[o])
       /\ order[o].status \in Late => TwoPersons(order[o])
       /\ order[o].status \in Early => order[o].batch = NoBatch

\* What a request has read: approved orders, which it alone holds, or orders of a
\* file.
RequestsOK ==
  /\ request \in [Batch -> Request]
  /\ \A b \in Batch, o \in Order : request[b].seen[o] # "unread" =>
       \/ /\ request[b].call = "export"
          /\ order[o].status = "approved" /\ TwoPersons(order[o])
          /\ \A c \in Batch : c # b /\ request[c].call = "export" =>
               request[c].seen[o] = "unread"
       \/ /\ request[b].call # "export"
          /\ order[o].batch # NoBatch

IInv == OrdersOK /\ RequestsOK

-----------------------------------------------------------------------------
(* What a step does to one order.                                          *)

Same(o) == order'[o] = order[o]

\* It is handed over, and only its status and its transaction change.
AfterHandOver(o) ==
  /\ order[o].status \in Late /\ order'[o].status \in Late
  /\ RowOK(order'[o])
  /\ order'[o].fields = order[o].fields
  /\ order'[o].approvals = order[o].approvals
  /\ order'[o].batch = order[o].batch

\* It is not yet in a file and no file is being made of it.
BeforeHandOver(o) ==
  /\ order[o].status \in {"absent", "draft", "approved"}
  /\ order[o].status = "absent" \/ ~Locked(o)
  /\ order'[o].status \in {"draft", "approved", "cancelled"}
  /\ RowOK(order'[o]) /\ ApprovalsOK(order'[o]) /\ order'[o].batch = NoBatch

\* A step that reads nothing for a request, or ends one.
Orderly ==
  /\ request' \in [Batch -> Request]
  /\ \A b \in Batch : request'[b] \in {request[b], Idle}
  /\ order' = [o \in Order |-> order'[o]]
  /\ \A o \in Order : Same(o) \/ AfterHandOver(o) \/ BeforeHandOver(o)

LEMMA StatusSets ==
  /\ Early \cup Late = OrderStatus /\ Early \cap Late = {}
  /\ HandedOver \subseteq Late /\ Executed \subseteq Late
  /\ Active \subseteq OrderStatus
  /\ {"rejected", "returned"} \subseteq Late
  /\ Late = Counted \cup {"rejected", "returned"}
BY DEF Early, Late, OrderStatus, HandedOver, Executed, Active, Counted

LEMMA IdleType == Idle \in Request /\ \A o \in Order : Idle.seen[o] = "unread"
BY DEF Idle, Request, StatusCall

LEMMA OrderlyKeeps == IInv /\ Orderly => IInv'
<1> SUFFICES ASSUME IInv, Orderly PROVE IInv'
  OBVIOUS
<1>1. OrdersOK'
  <2> SUFFICES ASSUME NEW o \in Order
               PROVE  /\ RowOK(order'[o]) /\ ApprovalsOK(order'[o])
                      /\ order'[o].status \in Late => TwoPersons(order'[o])
                      /\ order'[o].status \in Early => order'[o].batch = NoBatch
    BY DEF OrdersOK, Orderly, RowOK, ApprovalsOK, TwoPersons
  <2>1. CASE Same(o)
    BY <2>1 DEF Same, IInv, OrdersOK
  <2>2. CASE AfterHandOver(o)
    <3>1. ApprovalsOK(order'[o]) /\ TwoPersons(order'[o])
      BY <2>2 DEF AfterHandOver, IInv, OrdersOK, ApprovalsOK, TwoPersons
    <3> QED BY <2>2, <3>1, StatusSets DEF AfterHandOver
  <2>3. CASE BeforeHandOver(o)
    BY <2>3, StatusSets DEF BeforeHandOver, Early
  <2> QED BY <2>1, <2>2, <2>3 DEF Orderly
<1>2. RequestsOK'
  <2>1. \A b \in Batch, o \in Order : request'[b].seen[o] # "unread" => request'[b] = request[b]
    BY IdleType DEF Orderly
  <2>2. \A b, c \in Batch, o \in Order :
          request'[c].call = "export" /\ request[c].call = "export"
            /\ request[c].seen[o] = "unread" => request'[c].seen[o] = "unread"
    BY IdleType DEF Orderly
  <2>3. \A c \in Batch : request'[c].call = "export" => request[c].call = "export"
    BY DEF Orderly, Idle
  <2> SUFFICES ASSUME NEW b \in Batch, NEW o \in Order, request[b].seen[o] # "unread",
                      request'[b] = request[b]
               PROVE  \/ /\ request[b].call = "export"
                         /\ order'[o].status = "approved" /\ TwoPersons(order'[o])
                      \/ /\ request[b].call # "export"
                         /\ order'[o].batch # NoBatch
    BY <2>1, <2>2, <2>3 DEF IInv, RequestsOK, Orderly, TwoPersons
  <2>4. CASE Same(o)
    BY <2>4 DEF Same, IInv, RequestsOK
  <2>5. CASE AfterHandOver(o)
    <3>1. order[o].status # "approved"
      BY <2>5 DEF AfterHandOver, Late, Early
    <3> QED BY <2>5, <3>1 DEF AfterHandOver, IInv, RequestsOK
  <2>6. CASE BeforeHandOver(o)
    <3>1. order[o].batch = NoBatch
      BY <2>6 DEF BeforeHandOver, Early, IInv, OrdersOK
    <3>2. request[b].call = "export" /\ order[o].status = "approved"
      BY <3>1 DEF IInv, RequestsOK
    <3>3. Locked(o)
      BY <3>2 DEF Locked, OrdersIn
    <3> QED BY <2>6, <3>2, <3>3 DEF BeforeHandOver
  <2> QED BY <2>4, <2>5, <2>6 DEF Orderly
<1> QED BY <1>1, <1>2 DEF IInv

-----------------------------------------------------------------------------
(* The steps that change orders or end requests.                           *)

LEMMA RequestIdle ==
  ASSUME IInv, NEW b \in Batch, request' = [request EXCEPT ![b] = Idle]
  PROVE  request' \in [Batch -> Request] /\ \A c \in Batch : request'[c] \in {request[c], Idle}
BY IdleType DEF IInv, RequestsOK

\* One order changes before it is in a file.
LEMMA EarlyChange ==
  ASSUME IInv, NEW o \in Order, NEW r, order' = [order EXCEPT ![o] = r],
         UNCHANGED request,
         order[o].status \in {"absent", "draft", "approved"},
         order[o].status = "absent" \/ ~Locked(o),
         r.status \in {"draft", "approved", "cancelled"},
         RowOK(r), ApprovalsOK(r), r.batch = NoBatch
  PROVE  Orderly
<1>1. \A p \in Order : order'[p] = IF p = o THEN r ELSE order[p]
  BY DEF IInv, OrdersOK
<1>2. order' = [p \in Order |-> order'[p]]
  BY DEF IInv, OrdersOK
<1> QED BY <1>1, <1>2 DEF IInv, RequestsOK, Orderly, Same, BeforeHandOver

\* The status of an order that is handed over.
LEMMA StatusChange ==
  ASSUME NEW r, RowOK(r), NEW s \in OrderStatus
  PROVE  LET new == [r EXCEPT !.status = s] IN
         /\ RowOK(new) /\ new.status = s /\ new.fields = r.fields
         /\ new.approvals = r.approvals /\ new.batch = r.batch
BY DEF RowOK

LEMMA NewOrderOrderly ==
  ASSUME IInv, NEW o \in Order, NEW i \in Item, order_from_invoice(o, i)
  PROVE  Orderly
<1> DEFINE r == [NoRow EXCEPT !.status = "draft", !.item = i, !.fields.amount = remaining(i)]
<1>1. r.status = "draft" /\ r.approvals = {} /\ r.batch = NoBatch
  BY DEF NoRow
<1>2. RowOK(r)
  BY DEF RowOK, NoRow, OrderStatus, Active
<1>3. ApprovalsOK(r)
  BY <1>1 DEF ApprovalsOK
<1>4. order' = [order EXCEPT ![o] = r] /\ UNCHANGED request /\ order[o].status = "absent"
  BY DEF order_from_invoice, Status
<1> HIDE DEF r
<1> QED BY <1>1, <1>2, <1>3, <1>4, EarlyChange

LEMMA ChangeOrderly ==
  ASSUME IInv, NEW o \in Order, NEW amount, NEW payee, change_order(o, amount, payee)
  PROVE  Orderly
<1> DEFINE new == [amount |-> amount, payee |-> payee]
           r == invalidate([order[o] EXCEPT !.fields = new])
<1>1. order[o].status \in {"draft", "approved"} /\ ~Locked(o) /\ UNCHANGED request
  BY DEF change_order, Changeable, Status
<1>2. RowOK(order[o]) /\ order[o].batch = NoBatch
  BY <1>1 DEF IInv, OrdersOK, Early
<1>3. order' = [order EXCEPT ![o] = r]
  BY DEF change_order, IInv, OrdersOK
<1>4. r.approvals = {} /\ r.batch = NoBatch /\ r.status = "draft"
  BY <1>1, <1>2 DEF invalidate, RowOK
<1>5. RowOK(r)
  BY <1>1, <1>2 DEF invalidate, RowOK, OrderStatus, Active
<1>6. ApprovalsOK(r)
  BY <1>4 DEF ApprovalsOK
<1> HIDE DEF r
<1> QED BY <1>1, <1>3, <1>4, <1>5, <1>6, EarlyChange

\* An approval adds itself, and may make the order approved.
LEMMA ApproveRow ==
  ASSUME IInv, NEW o \in Order, NEW u \in User, approve(u, o)
  PROVE  \E s \in {order[o].status, "approved"} :
           order' = [order EXCEPT ![o] =
                       [order[o] EXCEPT !.approvals = @ \cup {[user |-> u, fields |-> order[o].fields]},
                                        !.status = s]]
<1> DEFINE a == [user |-> u, fields |-> order[o].fields]
<1>1. order' = [order EXCEPT
         ![o].approvals = @ \cup {a},
         ![o].status = IF Cardinality(Approvers(o) \cup {u}) >= 2 THEN "approved" ELSE @]
  BY DEF approve
<1>2. PICK s : s = IF Cardinality(Approvers(o) \cup {u}) >= 2 THEN "approved" ELSE order[o].status
  OBVIOUS
<1>3. order[o] = [status |-> order[o].status, item |-> order[o].item,
                  fields |-> order[o].fields, approvals |-> order[o].approvals,
                  batch |-> order[o].batch, tx |-> order[o].tx]
  BY DEF IInv, OrdersOK, RowOK
<1>4. order = [p \in Order |-> order[p]]
  BY DEF IInv, OrdersOK
<1>5. order' = [order EXCEPT ![o] =
                  [order[o] EXCEPT !.approvals = @ \cup {a}, !.status = s]]
  BY <1>1, <1>2, <1>3, <1>4
<1> QED BY <1>2, <1>5

LEMMA ApproveOrderly ==
  ASSUME IInv, NEW o \in Order, NEW u \in User, approve(u, o)
  PROVE  Orderly
<1> DEFINE a == [user |-> u, fields |-> order[o].fields]
<1>1. PICK s \in {order[o].status, "approved"} :
        order' = [order EXCEPT ![o] =
                    [order[o] EXCEPT !.approvals = @ \cup {a}, !.status = s]]
  BY ApproveRow
<1> DEFINE r == [order[o] EXCEPT !.approvals = @ \cup {a}, !.status = s]
<1>2. /\ order[o].status \in {"draft", "approved"} /\ ~Locked(o) /\ UNCHANGED request
      /\ u \notin PlatformAdmin /\ DifferentPerson(u, o)
  BY DEF approve, Changeable, Status, MayApprove
<1>3. RowOK(order[o]) /\ ApprovalsOK(order[o]) /\ order[o].batch = NoBatch
  BY <1>2 DEF IInv, OrdersOK, Early
<1>4. /\ r.approvals = order[o].approvals \cup {a} /\ r.batch = NoBatch
      /\ r.status = s /\ r.fields = order[o].fields
  BY <1>3 DEF RowOK
<1>5. RowOK(r)
  BY <1>1, <1>2, <1>3 DEF RowOK, OrderStatus, Active
<1>6. \A c \in order[o].approvals : c.fields = order[o].fields => Person[u] # Person[c.user]
  BY <1>2 DEF DifferentPerson, Approvers, valid_approvals
<1>7. ApprovalsOK(r)
  BY <1>2, <1>3, <1>4, <1>6 DEF ApprovalsOK
<1> HIDE DEF r
<1>8. r.status \in {"draft", "approved"}
  BY <1>1, <1>2, <1>4
<1>9. order' = [order EXCEPT ![o] = r]
  BY <1>1 DEF r
<1> QED BY <1>2, <1>4, <1>5, <1>7, <1>8, <1>9, EarlyChange

LEMMA CancelOrderly ==
  ASSUME IInv, NEW o \in Order, cancel_order(o)
  PROVE  Orderly
<1> DEFINE r == [order[o] EXCEPT !.status = "cancelled", !.approvals = {}]
<1>1. order[o].status \in {"draft", "approved"} /\ ~Locked(o) /\ UNCHANGED request
  BY DEF cancel_order, Changeable, Status
<1>2. RowOK(order[o]) /\ order[o].batch = NoBatch
  BY <1>1 DEF IInv, OrdersOK, Early
<1>3. order' = [order EXCEPT ![o] = r]
  BY DEF cancel_order, IInv, OrdersOK
<1>4. r.approvals = {} /\ r.batch = NoBatch /\ r.status = "cancelled"
  BY <1>2 DEF RowOK
<1>5. RowOK(r)
  BY <1>2 DEF RowOK, OrderStatus, Active
<1>6. ApprovalsOK(r)
  BY <1>4 DEF ApprovalsOK
<1> HIDE DEF r
<1> QED BY <1>1, <1>3, <1>4, <1>5, <1>6, EarlyChange

\* Several orders change from one handed over status to another.
LEMMA LateChange ==
  ASSUME IInv,
         UNCHANGED request \/ \E b \in Batch : request' = [request EXCEPT ![b] = Idle],
         order' = [o \in Order |-> order'[o]],
         \A o \in Order : Same(o) \/ AfterHandOver(o)
  PROVE  Orderly
BY RequestIdle DEF Orderly, IInv, RequestsOK

\* What a request writes over what it has read.
LEMMA WriteOrderly ==
  ASSUME IInv, NEW b \in Batch, request[b].call \notin {"export", "idle"},
         request' = [request EXCEPT ![b] = Idle],
         NEW f, \A s \in OrderStatus : f[s] = s \/ f[s] \in Late,
         order' = Write(request[b].seen, f)
  PROVE  Orderly
<1>1. ASSUME NEW o \in Order, ~Same(o) PROVE AfterHandOver(o)
  <2> DEFINE s == request[b].seen[o]
  <2>1. s # "unread" /\ f[s] # s /\ order'[o] = [order[o] EXCEPT !.status = f[s]]
    BY <1>1 DEF Write, Same
  <2>2. s \in OrderStatus
    BY <2>1 DEF IInv, RequestsOK, Request
  <2>3. order[o].batch # NoBatch
    BY <2>1 DEF IInv, RequestsOK
  <2>4. RowOK(order[o]) /\ order[o].status \in Late
    BY <2>3, StatusSets DEF IInv, OrdersOK, RowOK
  <2>5. f[s] \in Late /\ f[s] \in OrderStatus
    BY <2>1, <2>2, StatusSets
  <2> HIDE DEF s
  <2> QED BY <2>1, <2>4, <2>5, StatusChange DEF AfterHandOver
<1>2. order' = [o \in Order |-> order'[o]]
  BY DEF Write
<1> QED BY <1>1, <1>2, LateChange

LEMMA AnswerOrderly ==
  ASSUME IInv, NEW b \in Batch,
         \/ submit_batch_commit(b) \/ record_acceptance(b) \/ record_rejection(b)
  PROVE  Orderly
<1>1. CASE submit_batch_commit(b)
  <2>1. \A s \in OrderStatus : AfterSubmit[s] = s \/ AfterSubmit[s] \in Late
    BY StatusSets DEF AfterSubmit, HandedOver
  <2> QED BY <1>1, <2>1, WriteOrderly DEF submit_batch_commit
<1>2. CASE record_acceptance(b)
  <2> DEFINE f == [s \in OrderStatus |-> IF Acceptable(s) THEN request[b].call ELSE s]
  <2>1. \A s \in OrderStatus : f[s] = s \/ f[s] \in Late
    BY <1>2, StatusSets DEF record_acceptance, HandedOver
  <2>2. /\ order' = Write(request[b].seen, f)
        /\ request' = [request EXCEPT ![b] = Idle]
        /\ request[b].call \notin {"export", "idle"}
    BY <1>2 DEF record_acceptance
  <2> HIDE DEF f
  <2> QED BY <2>1, <2>2, WriteOrderly
<1>3. CASE record_rejection(b)
  <2> DEFINE f == [s \in OrderStatus |-> "rejected"]
  <2>1. \A s \in OrderStatus : f[s] = s \/ f[s] \in Late
    BY StatusSets
  <2>2. /\ order' = Write(request[b].seen, f)
        /\ request' = [request EXCEPT ![b] = Idle]
        /\ request[b].call \notin {"export", "idle"}
    BY <1>3 DEF record_rejection
  <2> HIDE DEF f
  <2> QED BY <2>1, <2>2, WriteOrderly
<1> QED BY <1>1, <1>2, <1>3

\* The order an execution or a return names is in a file.
LEMMA NamedIsLate ==
  ASSUME IInv, NEW b \in Batch, NEW o \in OrdersIn(b), request[b].call # "export"
  PROVE  o \in Order /\ RowOK(order[o]) /\ order[o].status \in Late
<1>1. o \in Order /\ order[o].batch # NoBatch
  BY DEF OrdersIn, IInv, RequestsOK
<1> QED BY <1>1, StatusSets DEF IInv, OrdersOK, RowOK

\* An execution gives its order a transaction that proves it and was not used before.
LEMMA ExecutionRow ==
  ASSUME IInv, NEW b \in Batch, record_execution(b)
  PROVE  \E o \in OrdersIn(b), s \in Executed :
           LET t == request[b].tx IN
           /\ request[b].seen[o] \in HandedOver
           /\ order' = [order EXCEPT ![o] = [order[o] EXCEPT !.tx = t, !.status = s]]
           /\ Proves(t, o) /\ Unbooked(t)
           /\ Settles(t, [NoPlan EXCEPT ![order[o].item] = -TxAmount[t]], o)
           /\ s = "executed" <=> -TxAmount[t] = Amount(o)
<1> DEFINE t == request[b].tx
<1>1. PICK o \in OrdersIn(b) :
        /\ request[b].seen[o] \in HandedOver
        /\ order' = [order EXCEPT ![o].tx = t,
                       ![o].status = IF -TxAmount[t] = Amount(o)
                                     THEN "executed" ELSE "partially_executed"]
        /\ Proves(t, o) /\ Unbooked(t)
        /\ Settles(t, [NoPlan EXCEPT ![order[o].item] = -TxAmount[t]], o)
  BY DEF record_execution
<1> DEFINE s == IF -TxAmount[t] = Amount(o) THEN "executed" ELSE "partially_executed"
<1>2. s \in Executed /\ (s = "executed" <=> -TxAmount[t] = Amount(o))
  BY DEF Executed
<1> HIDE DEF s
<1>3. order' = [order EXCEPT ![o] = [order[o] EXCEPT !.tx = t, !.status = s]]
  BY <1>1 DEF s, IInv, OrdersOK, OrdersIn
<1> QED BY <1>1, <1>2, <1>3

LEMMA ExecutionOrderly ==
  ASSUME IInv, NEW b \in Batch, record_execution(b)
  PROVE  Orderly
<1>1. PICK o \in OrdersIn(b), s \in Executed :
        order' = [order EXCEPT ![o] = [order[o] EXCEPT !.tx = request[b].tx, !.status = s]]
  BY ExecutionRow
<1>2. o \in Order /\ RowOK(order[o]) /\ order[o].status \in Late
  BY NamedIsLate DEF record_execution
<1> DEFINE r == [order[o] EXCEPT !.tx = request[b].tx, !.status = s]
<1>3. s \in Late /\ s \in OrderStatus
  BY StatusSets
<1>4. /\ RowOK(r) /\ r.status = s /\ r.fields = order[o].fields
      /\ r.approvals = order[o].approvals /\ r.batch = order[o].batch
  <2> DEFINE t == request[b].tx
             q == order[o]
  <2>1. RowOK(q)
    BY <1>2
  <2>2. r = [q EXCEPT !.tx = t, !.status = s]
    OBVIOUS
  <2> HIDE DEF t, q, r
  <2>3. /\ RowOK(r) /\ r.status = s /\ r.fields = q.fields
        /\ r.approvals = q.approvals /\ r.batch = q.batch
    BY <2>1, <2>2, <1>3 DEF RowOK
  <2> QED BY <2>3 DEF q
<1>order. order = [p \in Order |-> order[p]]
  BY DEF IInv, OrdersOK
<1>5. order' = [order EXCEPT ![o] = r]
  BY <1>1
<1> HIDE DEF r
<1>6. \A p \in Order : order'[p] = IF p = o THEN r ELSE order[p]
  BY <1>5 DEF IInv, OrdersOK
<1>7. order' = [p \in Order |-> order'[p]]
  BY <1>5 DEF IInv, OrdersOK
<1>8. \A p \in Order : Same(p) \/ AfterHandOver(p)
  BY <1>2, <1>3, <1>4, <1>6 DEF Same, AfterHandOver
<1> QED BY <1>7, <1>8, LateChange DEF record_execution

\* The status of one handed over order changes, with or without a request.
LEMMA OneStatusOrderly ==
  ASSUME IInv, NEW o \in Order, NEW s \in Late, SetStatus(o, s),
         order[o].status \in Late,
         UNCHANGED request \/ \E b \in Batch : request' = [request EXCEPT ![b] = Idle]
  PROVE  Orderly
<1> DEFINE r == [order[o] EXCEPT !.status = s]
<1>1. RowOK(order[o]) /\ s \in OrderStatus
  BY StatusSets DEF IInv, OrdersOK
<1>2. /\ RowOK(r) /\ r.status = s /\ r.fields = order[o].fields
      /\ r.approvals = order[o].approvals /\ r.batch = order[o].batch
  BY <1>1, StatusChange
<1>3. order' = [order EXCEPT ![o] = r]
  BY DEF SetStatus, IInv, OrdersOK
<1> HIDE DEF r
<1>4. \A p \in Order : order'[p] = IF p = o THEN r ELSE order[p]
  BY <1>3 DEF IInv, OrdersOK
<1>5. order' = [p \in Order |-> order'[p]]
  BY <1>3 DEF IInv, OrdersOK
<1>6. \A p \in Order : Same(p) \/ AfterHandOver(p)
  BY <1>2, <1>4 DEF Same, AfterHandOver
<1> QED BY <1>5, <1>6, LateChange

LEMMA ReturnOrderly ==
  ASSUME IInv, NEW b \in Batch, record_return(b)
  PROVE  Orderly
<1>1. PICK o \in OrdersIn(b) : SetStatus(o, "returned")
  BY DEF record_return
<1>2. o \in Order /\ order[o].status \in Late
  BY NamedIsLate DEF record_return
<1> QED BY <1>1, <1>2, OneStatusOrderly, StatusSets DEF record_return

LEMMA ReportOrderly ==
  ASSUME IInv, NEW o \in Order, NEW answer \in {"accepted_by_bank", "rejected"},
         import_report(o, answer)
  PROVE  Orderly
<1>1. /\ order[o].status \in Late /\ answer \in Late
      /\ SetStatus(o, answer) /\ UNCHANGED request
  BY StatusSets DEF import_report, HandedOver, Status
<1> QED BY <1>1, OneStatusOrderly

\* The invoice of a waiting order is reversed.
LEMMA ReversalOrderly ==
  ASSUME IInv, NEW i \in Item, reverse_invoice(i)
  PROVE  Orderly
<1> DEFINE os == WaitingOrders(i)
<1>1. /\ \A o \in os : ~Locked(o) /\ order[o].status \in {"draft", "approved"}
      /\ order' = [o \in Order |->
           IF o \in os THEN [order[o] EXCEPT !.status = "cancelled", !.approvals = {}] ELSE order[o]]
      /\ UNCHANGED request
  BY DEF reverse_invoice, WaitingOrders, NoneAtTheBank, Status, Active
<1> HIDE DEF os
<1>2. ASSUME NEW o \in Order, o \in os PROVE BeforeHandOver(o)
  <2> DEFINE r == [order[o] EXCEPT !.status = "cancelled", !.approvals = {}]
  <2>1. RowOK(order[o]) /\ order[o].batch = NoBatch
    BY <1>1, <1>2 DEF IInv, OrdersOK, Early
  <2>2. RowOK(r)
    BY <2>1 DEF RowOK, OrderStatus, Active
  <2>3. r.status = "cancelled" /\ r.approvals = {} /\ r.batch = NoBatch
    BY <2>1 DEF RowOK
  <2>4. ApprovalsOK(r)
    BY <2>3 DEF ApprovalsOK
  <2>5. order'[o] = r
    BY <1>1, <1>2
  <2> HIDE DEF r
  <2> QED BY <1>1, <1>2, <2>2, <2>3, <2>4, <2>5 DEF BeforeHandOver
<1>3. \A o \in Order : o \notin os => Same(o)
  BY <1>1 DEF Same
<1>4. order' = [o \in Order |-> order'[o]]
  BY <1>1
<1> QED BY <1>1, <1>2, <1>3, <1>4 DEF Orderly, IInv, RequestsOK

-----------------------------------------------------------------------------
(* The steps that read orders for a request.                               *)

\* Two approvals of different accounts are approvals of different persons.
LEMMA ReleasableByTwo ==
  ASSUME IInv, NEW o \in Order, Cardinality(Approvers(o)) >= 2
  PROVE  TwoPersons(order[o])
<1>1. Approvers(o) # {}
  BY FS_EmptySet
<1>2. PICK a \in valid_approvals(o) : TRUE
  BY <1>1 DEF Approvers
<1>3. Approvers(o) # {a.user}
  BY FS_Singleton
<1>4. PICK c \in valid_approvals(o) : c.user # a.user
  BY <1>2, <1>3 DEF Approvers
<1> QED BY <1>2, <1>4 DEF IInv, OrdersOK, ApprovalsOK, TwoPersons, valid_approvals

LEMMA ReadType ==
  ASSUME IInv, NEW os
  PROVE  /\ Read(os) \in [Order -> OrderStatus \cup {"unread"}]
         /\ \A o \in Order : Read(os)[o] # "unread" => o \in os
BY DEF Read, Status, IInv, OrdersOK, RowOK

LEMMA ExportStart ==
  ASSUME IInv, NEW b \in Batch, NEW os \in SUBSET Order, create_batch_start(b, os)
  PROVE  IInv'
<1> DEFINE q == [call |-> "export", seen |-> Read(os), tx |-> NoTx]
<1>1. request' = [request EXCEPT ![b] = q] /\ UNCHANGED order
  BY DEF create_batch_start
<1>2. q \in Request
  BY ReadType DEF Request
<1>3. q.call = "export" /\ \A o \in Order : q.seen[o] # "unread" => o \in os
  BY ReadType
<1>4. \A o \in os : order[o].status = "approved" /\ TwoPersons(order[o]) /\ ~Locked(o)
  BY ReleasableByTwo DEF create_batch_start, Releasable, Status
<1> HIDE DEF q
<1>5. OrdersOK'
  BY <1>1 DEF IInv, OrdersOK, RowOK, ApprovalsOK, TwoPersons
<1>6. request' \in [Batch -> Request] /\ \A c \in Batch : request'[c] = IF c = b THEN q ELSE request[c]
  BY <1>1, <1>2 DEF IInv, RequestsOK
<1>7. ASSUME NEW o \in os, NEW c \in Batch, c # b, request[c].call = "export"
      PROVE  request[c].seen[o] = "unread"
  BY <1>4, <1>7 DEF Locked, OrdersIn
<1>8. ASSUME NEW o \in Order, NEW c \in Batch, c # b, request[c].seen[o] # "unread"
      PROVE  o \in os => request[c].call # "export"
  BY <1>7, <1>8
<1>9. RequestsOK'
  <2> SUFFICES ASSUME NEW c \in Batch, NEW o \in Order, request'[c].seen[o] # "unread"
               PROVE  \/ /\ request'[c].call = "export"
                         /\ order[o].status = "approved" /\ TwoPersons(order[o])
                         /\ \A d \in Batch : d # c /\ request'[d].call = "export" =>
                              request'[d].seen[o] = "unread"
                      \/ request'[c].call # "export" /\ order[o].batch # NoBatch
    BY <1>1, <1>6 DEF RequestsOK, TwoPersons
  <2>1. CASE c = b
    BY <1>3, <1>4, <1>6, <1>7, <2>1
  <2>2. CASE c # b
    BY <1>3, <1>6, <1>8, <2>2 DEF IInv, RequestsOK
  <2> QED BY <2>1, <2>2
<1> QED BY <1>5, <1>9 DEF IInv

\* The orders of a file are read to submit it or to record an answer.
LEMMA AnswerStart ==
  ASSUME IInv, NEW b \in Batch, NEW os \in SUBSET OrdersOf(b),
         NEW call \in {"submit"} \cup StatusCall, NEW t \in Tx \cup {NoTx},
         request' = [request EXCEPT ![b] = [call |-> call, seen |-> Read(os), tx |-> t]],
         UNCHANGED order
  PROVE  IInv'
<1> DEFINE q == [call |-> call, seen |-> Read(os), tx |-> t]
<1>2. q \in Request
  BY ReadType DEF Request
<1>3. q.call # "export" /\ \A o \in Order : q.seen[o] # "unread" => o \in os
  BY ReadType DEF StatusCall
<1>4. \A o \in os : order[o].batch # NoBatch
  BY PaymentsAssumption DEF OrdersOf
<1> HIDE DEF q
<1>5. OrdersOK'
  BY DEF IInv, OrdersOK, RowOK, ApprovalsOK, TwoPersons
<1>6. request' \in [Batch -> Request] /\ \A c \in Batch : request'[c] = IF c = b THEN q ELSE request[c]
  BY <1>2 DEF IInv, RequestsOK, q
<1>9. RequestsOK'
  <2> SUFFICES ASSUME NEW c \in Batch, NEW o \in Order, request'[c].seen[o] # "unread"
               PROVE  \/ /\ request'[c].call = "export"
                         /\ order[o].status = "approved" /\ TwoPersons(order[o])
                         /\ \A d \in Batch : d # c /\ request'[d].call = "export" =>
                              request'[d].seen[o] = "unread"
                      \/ request'[c].call # "export" /\ order[o].batch # NoBatch
    BY <1>6 DEF RequestsOK, TwoPersons
  <2>1. CASE c = b
    BY <1>3, <1>4, <1>6, <2>1
  <2>2. CASE c # b
    BY <1>3, <1>6, <2>2 DEF IInv, RequestsOK
  <2> QED BY <2>1, <2>2
<1> QED BY <1>5, <1>9 DEF IInv

\* The file is written: its orders leave the hands of their approvers.
LEMMA ExportCommit ==
  ASSUME IInv, NEW b \in Batch, create_batch_commit(b)
  PROVE  /\ IInv'
         /\ \A o \in Order : order[o].status \in Late \cup {"cancelled"} => Same(o)
<1> DEFINE os == OrdersIn(b)
<1>1. /\ order' = [o \in Order |->
           IF o \in os THEN [order[o] EXCEPT !.status = "exported", !.batch = b] ELSE order[o]]
      /\ request' = [request EXCEPT ![b] = Idle]
      /\ request[b].call = "export"
  BY DEF create_batch_commit
<1>2. \A o \in os : /\ o \in Order /\ order[o].status = "approved" /\ TwoPersons(order[o])
                    /\ \A c \in Batch : c # b => request[c].seen[o] = "unread"
  <2> SUFFICES ASSUME NEW o \in os
               PROVE  /\ o \in Order /\ order[o].status = "approved" /\ TwoPersons(order[o])
                      /\ \A c \in Batch : c # b => request[c].seen[o] = "unread"
    OBVIOUS
  <2>1. o \in Order /\ request[b].seen[o] # "unread"
    BY DEF OrdersIn
  <2>2. /\ order[o].status = "approved" /\ TwoPersons(order[o])
        /\ \A c \in Batch : c # b /\ request[c].call = "export" => request[c].seen[o] = "unread"
    BY <1>1, <2>1 DEF IInv, RequestsOK
  <2>3. order[o].batch = NoBatch
    BY <2>1, <2>2 DEF IInv, OrdersOK, Early
  <2> QED BY <2>1, <2>2, <2>3 DEF IInv, RequestsOK
<1> HIDE DEF os
<1>3. ASSUME NEW o \in os
      PROVE  /\ RowOK(order'[o]) /\ ApprovalsOK(order'[o]) /\ TwoPersons(order'[o])
             /\ order'[o].status \in Late
  <2> DEFINE r == [order[o] EXCEPT !.status = "exported", !.batch = b]
  <2>1. RowOK(order[o]) /\ ApprovalsOK(order[o])
    BY <1>2 DEF IInv, OrdersOK
  <2>2. RowOK(r)
    BY <2>1, StatusSets DEF RowOK, HandedOver
  <2>3. r.status = "exported" /\ r.fields = order[o].fields /\ r.approvals = order[o].approvals
    BY <2>1 DEF RowOK
  <2>4. order'[o] = r
    BY <1>1, <1>2
  <2> HIDE DEF r
  <2> QED BY <1>2, <2>1, <2>2, <2>3, <2>4, StatusSets DEF ApprovalsOK, TwoPersons, HandedOver
<1>4. \A o \in Order : o \notin os => order'[o] = order[o]
  BY <1>1
<1>5. OrdersOK'
  <2> SUFFICES ASSUME NEW o \in Order
               PROVE  /\ RowOK(order'[o]) /\ ApprovalsOK(order'[o])
                      /\ order'[o].status \in Late => TwoPersons(order'[o])
                      /\ order'[o].status \in Early => order'[o].batch = NoBatch
    BY <1>1 DEF OrdersOK, RowOK, ApprovalsOK, TwoPersons
  <2>1. CASE o \in os
    BY <1>3, <2>1, StatusSets
  <2>2. CASE o \notin os
    BY <1>4, <2>2 DEF IInv, OrdersOK
  <2> QED BY <2>1, <2>2
<1>6. request' \in [Batch -> Request] /\ \A c \in Batch : request'[c] = IF c = b THEN Idle ELSE request[c]
  BY <1>1, IdleType DEF IInv, RequestsOK
<1>7. RequestsOK'
  <2> SUFFICES ASSUME NEW c \in Batch, NEW o \in Order, request'[c].seen[o] # "unread"
               PROVE  \/ /\ request'[c].call = "export"
                         /\ order'[o].status = "approved" /\ TwoPersons(order'[o])
                         /\ \A d \in Batch : d # c /\ request'[d].call = "export" =>
                              request'[d].seen[o] = "unread"
                      \/ request'[c].call # "export" /\ order'[o].batch # NoBatch
    BY <1>6 DEF RequestsOK, TwoPersons
  <2>1. c # b /\ request'[c] = request[c]
    BY <1>6, IdleType
  <2>2. order'[o] = order[o]
    BY <1>2, <1>4, <2>1
  <2> QED BY <1>6, <2>1, <2>2, IdleType DEF IInv, RequestsOK
<1>8. \A o \in Order : order[o].status \in Late \cup {"cancelled"} => Same(o)
  BY <1>2, <1>4 DEF Same, Late, Early
<1> QED BY <1>5, <1>7, <1>8 DEF IInv

-----------------------------------------------------------------------------
(* The theorems.                                                           *)

\* What is handed over or cancelled keeps its fields, approvals and file.
Frozen ==
  \A o \in Order : Status(o) \in OrderStatus \ {"absent", "draft", "approved"} =>
    /\ order'[o].fields = order[o].fields
    /\ order'[o].approvals = order[o].approvals
    /\ order'[o].batch = order[o].batch
    /\ order'[o].status \notin {"draft", "approved"}

LEMMA OrderlyFreezes == Orderly => Frozen
BY DEF Orderly, Frozen, Same, AfterHandOver, BeforeHandOver, Status, Late, Early

LEMMA SameFreezes == UNCHANGED order => Frozen
BY DEF Frozen, Status

LEMMA SafeInit == Init => IInv
<1> SUFFICES ASSUME Init PROVE IInv
  OBVIOUS
<1>1. RowOK(NoRow) /\ NoRow.status = "absent" /\ NoRow.approvals = {} /\ NoRow.batch = NoBatch
  BY DEF RowOK, NoRow, OrderStatus
<1>2. OrdersOK
  BY <1>1 DEF Init, OrdersOK, ApprovalsOK, Late, Early
<1>3. RequestsOK
  BY IdleType DEF Init, RequestsOK
<1> QED BY <1>2, <1>3 DEF IInv

LEMMA SafeNext == IInv /\ [Next]_vars => IInv' /\ Frozen
<1> SUFFICES ASSUME IInv, [Next]_vars PROVE IInv' /\ Frozen
  OBVIOUS
<1>orderly. ASSUME Orderly PROVE IInv' /\ Frozen
  BY <1>orderly, OrderlyKeeps, OrderlyFreezes
<1>same. ASSUME UNCHANGED order,
                UNCHANGED request \/ \E b \in Batch : request' = [request EXCEPT ![b] = Idle]
         PROVE  IInv' /\ Frozen
  <2>1. order' = [o \in Order |-> order'[o]]
    BY <1>same DEF IInv, OrdersOK
  <2>2. Orderly
    BY <1>same, <2>1, LateChange DEF Same
  <2> QED BY <2>2, <1>orderly
<1>1. CASE UNCHANGED vars
  BY <1>1, <1>same DEF vars
<1>2. ASSUME NEW o \in Order, NEW i \in Item, order_from_invoice(o, i) PROVE IInv' /\ Frozen
  BY <1>2, <1>orderly, NewOrderOrderly
<1>3. ASSUME NEW o \in Order, NEW amount, NEW payee, change_order(o, amount, payee)
      PROVE  IInv' /\ Frozen
  BY <1>3, <1>orderly, ChangeOrderly
<1>4. ASSUME NEW o \in Order, NEW u \in User, approve(u, o) PROVE IInv' /\ Frozen
  BY <1>4, <1>orderly, ApproveOrderly
<1>5. ASSUME NEW o \in Order, cancel_order(o) PROVE IInv' /\ Frozen
  BY <1>5, <1>orderly, CancelOrderly
<1>6. ASSUME NEW b \in Batch, NEW os \in SUBSET Order, create_batch_start(b, os)
      PROVE  IInv' /\ Frozen
  BY <1>6, ExportStart, SameFreezes DEF create_batch_start
<1>7. ASSUME NEW b \in Batch, create_batch_commit(b) PROVE IInv' /\ Frozen
  <2>1. IInv' /\ \A o \in Order : order[o].status \in Late \cup {"cancelled"} => Same(o)
    BY <1>7, ExportCommit
  <2>2. Frozen
    BY <2>1 DEF Frozen, Same, Status, Late, Early
  <2> QED BY <2>1, <2>2
<1>8. ASSUME NEW b \in Batch, download_batch_file(b) \/ abort(b) PROVE IInv' /\ Frozen
  BY <1>8, <1>same DEF download_batch_file, abort
<1>9. ASSUME NEW b \in Batch, submit_batch_start(b) PROVE IInv' /\ Frozen
  BY <1>9, AnswerStart, SameFreezes DEF submit_batch_start
<1>10. ASSUME NEW b \in Batch, NEW call \in StatusCall, NEW t \in Tx \cup {NoTx},
              NEW os \in SUBSET OrdersOf(b), bank_status_start(b, call, os, t)
       PROVE  IInv' /\ Frozen
  BY <1>10, AnswerStart, SameFreezes DEF bank_status_start
<1>11. ASSUME NEW b \in Batch,
              submit_batch_commit(b) \/ record_acceptance(b) \/ record_rejection(b)
       PROVE  IInv' /\ Frozen
  BY <1>11, <1>orderly, AnswerOrderly
<1>12. ASSUME NEW b \in Batch, record_execution(b) PROVE IInv' /\ Frozen
  BY <1>12, <1>orderly, ExecutionOrderly
<1>13. ASSUME NEW b \in Batch, record_return(b) PROVE IInv' /\ Frozen
  BY <1>13, <1>orderly, ReturnOrderly
<1>14. ASSUME NEW o \in Order, NEW answer \in {"accepted_by_bank", "rejected"},
              import_report(o, answer)
       PROVE  IInv' /\ Frozen
  BY <1>14, <1>orderly, ReportOrderly
<1>15. ASSUME NEW t \in Tx, NEW plan \in Plan, book_payment(t, plan)
       PROVE  IInv' /\ Frozen
  BY <1>15, <1>same DEF book_payment
<1>16. ASSUME NEW t \in Tx, reverse_payment(t) PROVE IInv' /\ Frozen
  BY <1>16, <1>same DEF reverse_payment
<1>17. ASSUME NEW i \in Item, reverse_invoice(i) PROVE IInv' /\ Frozen
  BY <1>17, <1>orderly, ReversalOrderly
<1> QED
  BY <1>1, <1>2, <1>3, <1>4, <1>5, <1>6, <1>7, <1>8, <1>9, <1>10, <1>11, <1>12,
     <1>13, <1>14, <1>15, <1>16, <1>17 DEF Next

LEMMA SafeAlways == Spec => []IInv
BY SafeInit, SafeNext, PTL DEF Spec

\* D35, D36: what the bank was given was approved by two persons who are no
\* platform administrators, for exactly the amount and the IBAN it was given;
\* `approve', `invalidate' and the locks of `create_batch' in every order.
THEOREM HandedOverByTwoPersons == Spec => []TwoPersonsApproved
<1>1. IInv => TwoPersonsApproved
  <2> SUFFICES ASSUME IInv, NEW o \in Order, order[o].status \in Late
               PROVE  \E a, c \in order[o].approvals :
                        /\ a.fields = order[o].fields /\ c.fields = order[o].fields
                        /\ Person[a.user] # Person[c.user]
                        /\ {a.user, c.user} \cap PlatformAdmin = {}
    BY StatusSets DEF TwoPersonsApproved, Status
  <2>1. TwoPersons(order[o]) /\ ApprovalsOK(order[o])
    BY DEF IInv, OrdersOK
  <2>2. PICK a, c \in order[o].approvals :
          /\ a.fields = order[o].fields /\ c.fields = order[o].fields
          /\ Person[a.user] # Person[c.user]
    BY <2>1 DEF TwoPersons
  <2>3. a.user \notin PlatformAdmin /\ c.user \notin PlatformAdmin
    BY <2>1, <2>2 DEF ApprovalsOK
  <2> QED BY <2>2, <2>3
<1> QED BY <1>1, SafeAlways, PTL

\* No answer of the bank, however late or often, changes what was handed over
\* or makes it changeable again.
THEOREM HandedOverIsFrozen == Spec => FrozenAfterHandOver
<1>1. IInv /\ [Next]_vars =>
        [\A o \in Order : Status(o) \in OrderStatus \ {"absent", "draft", "approved"} =>
           /\ order'[o].fields = order[o].fields
           /\ order'[o].approvals = order[o].approvals
           /\ order'[o].batch = order[o].batch
           /\ Status(o)' \notin {"draft", "approved"}]_vars
  BY SafeNext DEF Frozen, Status
<1> QED BY <1>1, SafeAlways, PTL DEF Spec, FrozenAfterHandOver

-----------------------------------------------------------------------------
(* Execution by proof, and orders for payables that stand.                 *)

PostingOK(t) ==
  posting[t] \in [state: {"new", "live", "reversed", "return"}, plan: {posting[t].plan},
                  owner: {posting[t].owner}]

PostingsOK == posting = [t \in Tx |-> posting[t]] /\ \A t \in Tx : PostingOK(t)

Proven(o) ==
  /\ order[o].tx # NoTx
  /\ Proves(order[o].tx, o)
  /\ order[o].status = "executed" <=> -TxAmount[order[o].tx] = Amount(o)

\* A transaction an order names is used, and by that order only.
ProofsStand ==
  /\ \A o \in Order : order[o].tx # NoTx =>
       order[o].tx \in Tx /\ posting[order[o].tx].state # "new"
  /\ \A o, p \in Order : order[o].tx # NoTx /\ order[o].tx = order[p].tx => o = p
  /\ \A o \in Order : order[o].status \in Executed => Proven(o)

\* What was not yet sent for a reversed payable is worth nothing, so no file takes it.
NothingForTheVoided ==
  /\ \A o \in Order : order[o].status \in {"draft", "approved"} /\ order[o].item \in voided =>
       Amount(o) = 0
  /\ \A b \in Batch, o \in Order :
       request[b].call = "export" /\ request[b].seen[o] # "unread" => order[o].item \notin voided

\* An execution is given its transaction.
ProofGiven == \A b \in Batch : request[b].call = "executed" => request[b].tx # NoTx

Standing == PostingsOK /\ ProofsStand /\ NothingForTheVoided /\ ProofGiven

\* A step leaves payable and transaction, executes nothing and values nothing anew that
\* belongs to a reversed payable.
Kept(o) ==
  /\ order'[o].item = order[o].item /\ order'[o].tx = order[o].tx
  /\ order'[o].status \in Executed =>
       order'[o].status = order[o].status /\ order'[o].fields = order[o].fields
  /\ order'[o].status \in {"draft", "approved"} =>
       /\ order[o].status \in {"draft", "approved"}
       /\ order'[o].fields.amount = order[o].fields.amount \/ order[o].item \notin voided

\* It is a new order: for its rest, which is nothing if its payable is reversed.
Fresh(o) ==
  /\ order'[o].tx = NoTx /\ order'[o].status = "draft"
  /\ order'[o].item \in voided => order'[o].fields.amount = 0
  /\ \A b \in Batch : request[b].call = "export" => request[b].seen[o] = "unread"

\* A step brings no order back on its way.
Tame(o) ==
  /\ order'[o].status \in Active => order[o].status \in Active
  /\ order'[o].status \in HandedOver => order[o].status \in HandedOver

\* No booking is forgotten.
PostingsKept ==
  PostingsOK' /\ \A t \in Tx : posting[t].state # "new" => posting'[t].state # "new"

LEMMA PostingsUnchanged == PostingsOK /\ UNCHANGED posting => PostingsKept
BY DEF PostingsOK, PostingOK, PostingsKept

LEMMA ProofsKept ==
  ASSUME Standing, PostingsKept, \A o \in Order : Kept(o) \/ Fresh(o)
  PROVE  ProofsStand'
<1>1. \A o \in Order : order'[o].tx # NoTx =>
        order'[o].tx \in Tx /\ posting'[order'[o].tx].state # "new"
  BY DEF Kept, Fresh, Standing, ProofsStand, PostingsKept
<1>2. \A o, p \in Order : order'[o].tx # NoTx /\ order'[o].tx = order'[p].tx => o = p
  BY DEF Kept, Fresh, Standing, ProofsStand
<1>3. ASSUME NEW o \in Order, order'[o].status \in Executed PROVE Proven(o)'
  <2>1. /\ order'[o].status = order[o].status /\ order'[o].fields = order[o].fields
        /\ order'[o].tx = order[o].tx
    BY <1>3 DEF Kept, Fresh, Executed
  <2>2. Proven(o)
    BY <1>3, <2>1 DEF Standing, ProofsStand
  <2>3. Amount(o)' = Amount(o)
    BY <2>1 DEF Amount
  <2> QED BY <2>1, <2>2, <2>3 DEF Proven, Proves
<1> QED BY <1>1, <1>2, <1>3 DEF ProofsStand

LEMMA KeptKeeps ==
  ASSUME IInv, Standing, PostingsKept, UNCHANGED voided,
         \A b \in Batch : request'[b] \in {request[b], Idle},
         \A o \in Order : Kept(o) \/ Fresh(o)
  PROVE  Standing'
<1>1. ASSUME NEW o \in Order, order'[o].status \in {"draft", "approved"}, order'[o].item \in voided
      PROVE  Amount(o)' = 0
  BY <1>1 DEF Kept, Fresh, Standing, NothingForTheVoided, Amount
<1>2. ASSUME NEW b \in Batch, NEW o \in Order,
             request'[b].call = "export", request'[b].seen[o] # "unread"
      PROVE  order'[o].item \notin voided
  BY <1>2, IdleType DEF Kept, Fresh, Standing, NothingForTheVoided
<1>3. NothingForTheVoided' /\ ProofGiven'
  BY <1>1, <1>2 DEF NothingForTheVoided, Standing, ProofGiven, Idle
<1> QED BY <1>3, ProofsKept DEF Standing, PostingsKept

Properly == \A o \in Order : Proper(o)

LEMMA TameKeepsProper ==
  ASSUME Properly, UNCHANGED voided, \A o \in Order : Tame(o) /\ order'[o].item = order[o].item
  PROVE  Properly'
BY DEF Properly, Proper, Tame, Status

\* The usual step: bookings stand, requests end, every order is kept and tame.
LEMMA UsualStep ==
  ASSUME IInv, Standing, PostingsKept, UNCHANGED voided,
         UNCHANGED request \/ \E b \in Batch : request' = [request EXCEPT ![b] = Idle],
         \A o \in Order : Kept(o) /\ Tame(o)
  PROVE  Standing' /\ (Properly => Properly')
<1>1. \A b \in Batch : request'[b] \in {request[b], Idle}
  BY RequestIdle
<1>2. \A o \in Order : order'[o].item = order[o].item
  BY DEF Kept
<1> QED BY <1>1, <1>2, KeptKeeps, TameKeepsProper

\* An order that a step leaves alone.
LEMMA SameIsUsual ==
  ASSUME NEW o \in Order, Same(o) PROVE Kept(o) /\ Tame(o)
BY DEF Same, Kept, Tame

\* One order changes, is not handed over and not executed.
LEMMA OneUsual ==
  ASSUME IInv, Standing, NEW o \in Order, NEW r, order' = [order EXCEPT ![o] = r],
         UNCHANGED <<posting, voided, request>>,
         r.item = order[o].item, r.tx = order[o].tx,
         order[o].status \in {"draft", "approved"},
         r.status \in {"draft", "approved", "cancelled"},
         r.fields.amount = order[o].fields.amount \/ order[o].item \notin voided
  PROVE  Standing' /\ (Properly => Properly')
<1>1. \A p \in Order : order'[p] = IF p = o THEN r ELSE order[p]
  BY DEF IInv, OrdersOK
<1>2. \A p \in Order : p # o => Kept(p) /\ Tame(p)
  BY <1>1, SameIsUsual DEF Same
<1>3. Kept(o) /\ Tame(o)
  BY <1>1 DEF Kept, Tame, Executed, Active, HandedOver
<1> QED BY <1>2, <1>3, UsualStep, PostingsUnchanged DEF Standing

LEMMA ChangeStands ==
  ASSUME IInv, Standing, NEW o \in Order, NEW amount, NEW payee, change_order(o, amount, payee)
  PROVE  Standing' /\ (Properly => Properly')
<1> DEFINE new == [amount |-> amount, payee |-> payee]
           r == invalidate([order[o] EXCEPT !.fields = new])
<1>1. /\ order[o].status \in {"draft", "approved"} /\ UNCHANGED <<posting, voided, request>>
      /\ amount # order[o].fields.amount => amount \in 1..remaining(order[o].item)
  BY DEF change_order, Changeable, Status
<1>2. RowOK(order[o])
  BY DEF IInv, OrdersOK
<1>3. order' = [order EXCEPT ![o] = r]
  BY DEF change_order, IInv, OrdersOK
<1>4. r.item = order[o].item /\ r.tx = order[o].tx /\ r.status = "draft" /\ r.fields = new
  BY <1>1, <1>2 DEF invalidate, RowOK
<1>5. amount = order[o].fields.amount \/ order[o].item \notin voided
  BY <1>1 DEF remaining
<1>6. r.fields.amount = amount
  BY <1>4
<1> HIDE DEF r
<1> QED BY <1>1, <1>3, <1>4, <1>5, <1>6, OneUsual

LEMMA CancelStands ==
  ASSUME IInv, Standing, NEW o \in Order, cancel_order(o)
  PROVE  Standing' /\ (Properly => Properly')
<1> DEFINE r == [order[o] EXCEPT !.status = "cancelled", !.approvals = {}]
<1>1. order[o].status \in {"draft", "approved"} /\ UNCHANGED <<posting, voided, request>>
  BY DEF cancel_order, Changeable, Status
<1>2. RowOK(order[o])
  BY DEF IInv, OrdersOK
<1>3. order' = [order EXCEPT ![o] = r]
  BY DEF cancel_order, IInv, OrdersOK
<1>4. /\ r.item = order[o].item /\ r.tx = order[o].tx /\ r.status = "cancelled"
      /\ r.fields = order[o].fields
  BY <1>2 DEF RowOK
<1> HIDE DEF r
<1> QED BY <1>1, <1>3, <1>4, OneUsual

LEMMA ApproveStands ==
  ASSUME IInv, Standing, NEW o \in Order, NEW u \in User, approve(u, o)
  PROVE  Standing' /\ (Properly => Properly')
<1> DEFINE a == [user |-> u, fields |-> order[o].fields]
<1>1. PICK s \in {order[o].status, "approved"} :
        order' = [order EXCEPT ![o] =
                    [order[o] EXCEPT !.approvals = @ \cup {a}, !.status = s]]
  BY ApproveRow
<1> DEFINE r == [order[o] EXCEPT !.approvals = @ \cup {a}, !.status = s]
<1>2. order[o].status \in {"draft", "approved"} /\ UNCHANGED <<posting, voided, request>>
  BY DEF approve, Changeable, Status
<1>3. RowOK(order[o])
  BY DEF IInv, OrdersOK
<1>4. r.item = order[o].item /\ r.tx = order[o].tx /\ r.status = s /\ r.fields = order[o].fields
  BY <1>3 DEF RowOK
<1>5. order' = [order EXCEPT ![o] = r]
  BY <1>1
<1> HIDE DEF r
<1> QED BY <1>1, <1>2, <1>4, <1>5, OneUsual

LEMMA NewOrderStands ==
  ASSUME IInv, Standing, NEW o \in Order, NEW i \in Item, order_from_invoice(o, i)
  PROVE  Standing' /\ (Properly => Properly')
<1> DEFINE r == [NoRow EXCEPT !.status = "draft", !.item = i, !.fields.amount = remaining(i)]
<1>1. /\ r.status = "draft" /\ r.item = i /\ r.tx = NoTx
      /\ r.fields.amount = remaining(i)
  BY DEF NoRow
<1>2. /\ order' = [order EXCEPT ![o] = r] /\ UNCHANGED <<posting, voided, request>>
      /\ order[o].status = "absent" /\ NoOpenOrder(i)
  BY DEF order_from_invoice, Status
<1> HIDE DEF r
<1>3. \A p \in Order : order'[p] = IF p = o THEN r ELSE order[p]
  BY <1>2 DEF IInv, OrdersOK
<1>4. i \in voided => remaining(i) = 0
  BY DEF remaining
<1>5. Fresh(o)
  <2>1. \A b \in Batch : request[b].call = "export" => request[b].seen[o] = "unread"
    BY <1>2 DEF IInv, RequestsOK
  <2> QED BY <1>1, <1>3, <1>4, <2>1 DEF Fresh
<1>6. \A p \in Order : p # o => Kept(p) /\ Tame(p)
  BY <1>3, SameIsUsual DEF Same
<1>7. Standing'
  BY <1>2, <1>5, <1>6, KeptKeeps, PostingsUnchanged DEF Standing
<1>8. Properly => Properly'
  <2> SUFFICES ASSUME Properly, NEW p \in Order PROVE Proper(p)'
    BY DEF Properly
  <2>1. \A q \in Order : q # o /\ order'[q].item = i => order'[q].status \notin Active
    BY <1>2, <1>3 DEF NoOpenOrder, Status
  <2>2. CASE p = o
    BY <1>1, <1>3, <2>1, <2>2 DEF Proper, Status, HandedOver
  <2>3. CASE p # o
    BY <1>1, <1>2, <1>3, <2>1, <2>3 DEF Properly, Proper, Status
  <2> QED BY <2>2, <2>3
<1> QED BY <1>7, <1>8

-----------------------------------------------------------------------------
(* Files and answers.                                                      *)

LEMMA ExportStartStands ==
  ASSUME IInv, Standing, NEW b \in Batch, NEW os \in SUBSET Order, create_batch_start(b, os)
  PROVE  Standing' /\ (Properly => Properly')
<1> DEFINE q == [call |-> "export", seen |-> Read(os), tx |-> NoTx]
<1>1. /\ request' = [request EXCEPT ![b] = q] /\ UNCHANGED <<order, posting, voided>>
      /\ \A o \in os : order[o].status = "approved" /\ Amount(o) > 0
  BY DEF create_batch_start, Releasable, ValidFile, Status
<1>2. q.call = "export" /\ \A o \in Order : q.seen[o] # "unread" => o \in os
  BY ReadType
<1> HIDE DEF q
<1>3. \A c \in Batch : request'[c] = IF c = b THEN q ELSE request[c]
  BY <1>1 DEF IInv, RequestsOK
<1>4. \A o \in os : order[o].item \notin voided
  BY <1>1 DEF Standing, NothingForTheVoided
<1>5. NothingForTheVoided'
  BY <1>1, <1>2, <1>3, <1>4 DEF Standing, NothingForTheVoided, Amount
<1>6. ProofGiven' /\ PostingsOK' /\ ProofsStand'
  BY <1>1, <1>2, <1>3, PostingsUnchanged DEF Standing, ProofGiven, ProofsStand, Proven, Proves, Amount, PostingsKept
<1>7. Properly => Properly'
  BY <1>1 DEF Properly, Proper, Status
<1> QED BY <1>5, <1>6, <1>7 DEF Standing

LEMMA AnswerStartStands ==
  ASSUME IInv, Standing, NEW b \in Batch, NEW q, q.call # "export",
         q.call = "executed" => q.tx # NoTx,
         request' = [request EXCEPT ![b] = q], UNCHANGED <<order, posting, voided>>
  PROVE  Standing' /\ (Properly => Properly')
<1>1. \A c \in Batch : request'[c] = IF c = b THEN q ELSE request[c]
  BY DEF IInv, RequestsOK
<1>2. NothingForTheVoided'
  BY <1>1 DEF Standing, NothingForTheVoided, Amount
<1>3. ProofGiven' /\ PostingsOK' /\ ProofsStand'
  BY <1>1, PostingsUnchanged DEF Standing, ProofGiven, ProofsStand, Proven, Proves, Amount, PostingsKept
<1>4. Properly => Properly'
  BY DEF Properly, Proper, Status
<1> QED BY <1>2, <1>3, <1>4 DEF Standing

LEMMA ExportCommitStands ==
  ASSUME IInv, Standing, NEW b \in Batch, create_batch_commit(b)
  PROVE  Standing' /\ (Properly => Properly')
<1> DEFINE os == OrdersIn(b)
<1>1. /\ order' = [o \in Order |->
           IF o \in os THEN [order[o] EXCEPT !.status = "exported", !.batch = b] ELSE order[o]]
      /\ request' = [request EXCEPT ![b] = Idle] /\ UNCHANGED <<posting, voided>>
      /\ request[b].call = "export"
  BY DEF create_batch_commit
<1>2. \A o \in os : o \in Order /\ order[o].status = "approved" /\ order[o].item \notin voided
  BY <1>1 DEF OrdersIn, IInv, RequestsOK, Standing, NothingForTheVoided
<1> HIDE DEF os
<1>3. ASSUME NEW o \in os
      PROVE  order'[o].status = "exported" /\ order'[o].item = order[o].item
             /\ order'[o].tx = order[o].tx
  <2>1. RowOK(order[o])
    BY <1>2 DEF IInv, OrdersOK
  <2>2. order'[o] = [order[o] EXCEPT !.status = "exported", !.batch = b]
    BY <1>1, <1>2
  <2> QED BY <2>1, <2>2 DEF RowOK
<1>4. \A o \in Order : o \notin os => Same(o)
  BY <1>1 DEF Same
<1>5. \A o \in Order : Kept(o)
  BY <1>3, <1>4, SameIsUsual DEF Kept, Executed
<1>6. Standing'
  BY <1>1, <1>5, RequestIdle, KeptKeeps, PostingsUnchanged DEF Standing
<1>7. Properly => Properly'
  <2> SUFFICES ASSUME Properly, NEW o \in Order PROVE Proper(o)'
    BY DEF Properly
  <2>1. \A p \in Order : order'[p].item = order[p].item
    BY <1>5 DEF Kept
  <2>2. \A p \in Order : order'[p].status \in Active => order[p].status \in Active
    BY <1>2, <1>3, <1>4 DEF Same, Active
  <2>3. order'[o].status \in HandedOver => order[o].status \in HandedOver \/ order[o].item \notin voided
    BY <1>2, <1>3, <1>4 DEF Same
  <2>4. voided' = voided
    BY <1>1
  <2>5. Proper(o)
    BY DEF Properly
  <2>6. order[o].status \in HandedOver => order[o].status \in Active
    BY DEF Active
  <2> QED BY <2>1, <2>2, <2>3, <2>4, <2>5, <2>6 DEF Proper, Status
<1> QED BY <1>6, <1>7

LEMMA StatusOnly ==
  ASSUME NEW r, RowOK(r), NEW s
  PROVE  LET new == [r EXCEPT !.status = s] IN
         new.status = s /\ new.item = r.item /\ new.tx = r.tx /\ new.fields = r.fields
BY DEF RowOK

\* A request writes its answer: where it had read the order as it is, no order comes back.
LEMMA WriteStands ==
  ASSUME IInv, Standing, NEW b \in Batch, request' = [request EXCEPT ![b] = Idle],
         UNCHANGED <<posting, voided>>,
         NEW f, \A s \in OrderStatus : f[s] = s \/ /\ f[s] \in Late \ Executed
                                                   /\ f[s] \in Active => s \in HandedOver,
         order' = Write(request[b].seen, f)
  PROVE  Standing' /\ (Properly => Properly' \/ \E o \in Order : StaleCommit(o))
<1>1. ASSUME NEW o \in Order, ~Same(o)
      PROVE  /\ o \in OrdersIn(b)
             /\ order'[o].status \in Late \ Executed
             /\ order'[o].status \in Active => request[b].seen[o] \in HandedOver
             /\ order'[o].item = order[o].item /\ order'[o].tx = order[o].tx
  <2> DEFINE s == request[b].seen[o]
  <2>1. s # "unread" /\ f[s] # s /\ order'[o] = [order[o] EXCEPT !.status = f[s]]
    BY <1>1 DEF Write, Same
  <2>2. s \in OrderStatus
    BY <2>1 DEF IInv, RequestsOK, Request
  <2>3. RowOK(order[o])
    BY DEF IInv, OrdersOK
  <2>4. o \in OrdersIn(b)
    BY <2>1 DEF OrdersIn
  <2> HIDE DEF s
  <2>5. order'[o].status = f[s] /\ order'[o].item = order[o].item /\ order'[o].tx = order[o].tx
    BY <2>1, <2>3, StatusOnly
  <2> QED BY <2>1, <2>2, <2>4, <2>5 DEF s
<1>2. \A o \in Order : Kept(o)
  <2> SUFFICES ASSUME NEW o \in Order PROVE Kept(o)
    OBVIOUS
  <2>1. CASE Same(o)
    BY <2>1, SameIsUsual
  <2>2. CASE ~Same(o)
    BY <1>1, <2>2 DEF Kept, Late, Early
  <2> QED BY <2>1, <2>2
<1>3. Standing'
  BY <1>2, RequestIdle, KeptKeeps, PostingsUnchanged DEF Standing
<1>4. ASSUME NEW o \in OrdersIn(b), request[b].seen[o] # order[o].status PROVE StaleCommit(o)
  <2>1. request'[b] = Idle
    BY DEF IInv, RequestsOK
  <2> QED BY <1>4, <2>1 DEF StaleCommit, Status
<1>5. ASSUME \A o \in OrdersIn(b) : request[b].seen[o] = order[o].status, Properly
      PROVE  Properly'
  <2>1. \A o \in Order : Tame(o)
    <3> SUFFICES ASSUME NEW o \in Order PROVE Tame(o)
      OBVIOUS
    <3>1. CASE Same(o)
      BY <3>1, SameIsUsual
    <3>2. CASE ~Same(o)
      BY <1>1, <1>5, <3>2 DEF Tame, Active
    <3> QED BY <3>1, <3>2
  <2>2. \A o \in Order : order'[o].item = order[o].item
    BY <1>2 DEF Kept
  <2> QED BY <1>5, <2>1, <2>2, TameKeepsProper
<1>6. OrdersIn(b) \subseteq Order
  BY DEF OrdersIn
<1> QED BY <1>3, <1>4, <1>5, <1>6

LEMMA AnswerStands ==
  ASSUME IInv, Standing, NEW b \in Batch,
         \/ submit_batch_commit(b) \/ record_acceptance(b) \/ record_rejection(b)
  PROVE  Standing' /\ (Properly => Properly' \/ \E o \in Order : StaleCommit(o))
<1> DEFINE Fine(f) == \A s \in OrderStatus :
                        f[s] = s \/ /\ f[s] \in Late \ Executed
                                    /\ f[s] \in Active => s \in HandedOver
<1>1. CASE submit_batch_commit(b)
  <2>1. Fine(AfterSubmit)
    BY StatusSets DEF AfterSubmit, HandedOver, Executed
  <2> QED BY <1>1, <2>1, WriteStands DEF submit_batch_commit
<1>2. CASE record_acceptance(b)
  <2> DEFINE f == [s \in OrderStatus |-> IF Acceptable(s) THEN request[b].call ELSE s]
  <2>1. Fine(f)
    BY <1>2, StatusSets DEF record_acceptance, HandedOver, Executed, Acceptable
  <2>2. /\ order' = Write(request[b].seen, f)
        /\ request' = [request EXCEPT ![b] = Idle] /\ UNCHANGED <<posting, voided>>
    BY <1>2 DEF record_acceptance
  <2> HIDE DEF f
  <2> QED BY <2>1, <2>2, WriteStands
<1>3. CASE record_rejection(b)
  <2> DEFINE f == [s \in OrderStatus |-> "rejected"]
  <2>1. Fine(f)
    BY StatusSets DEF Executed, Active, HandedOver
  <2>2. /\ order' = Write(request[b].seen, f)
        /\ request' = [request EXCEPT ![b] = Idle] /\ UNCHANGED <<posting, voided>>
    BY <1>3 DEF record_rejection
  <2> HIDE DEF f
  <2> QED BY <2>1, <2>2, WriteStands
<1> QED BY <1>1, <1>2, <1>3

\* The status of one handed over order changes.
LEMMA OneStatusStands ==
  ASSUME IInv, Standing, PostingsKept, UNCHANGED voided,
         UNCHANGED request \/ \E b \in Batch : request' = [request EXCEPT ![b] = Idle],
         NEW o \in Order, NEW s \in Late \ Executed, SetStatus(o, s),
         s \in Active => order[o].status \in HandedOver
  PROVE  Standing' /\ (Properly => Properly')
<1> DEFINE r == [order[o] EXCEPT !.status = s]
<1>1. RowOK(order[o])
  BY DEF IInv, OrdersOK
<1>2. r.status = s /\ r.item = order[o].item /\ r.tx = order[o].tx
  BY <1>1, StatusOnly
<1>3. order' = [order EXCEPT ![o] = r]
  BY DEF SetStatus, IInv, OrdersOK
<1> HIDE DEF r
<1>4. \A p \in Order : order'[p] = IF p = o THEN r ELSE order[p]
  BY <1>3 DEF IInv, OrdersOK
<1>5. \A p \in Order : p # o => Kept(p) /\ Tame(p)
  BY <1>4, SameIsUsual DEF Same
<1>6. Kept(o) /\ Tame(o)
  BY <1>2, <1>4 DEF Kept, Tame, Late, Early, Active
<1> QED BY <1>5, <1>6, UsualStep

LEMMA ReportStands ==
  ASSUME IInv, Standing, NEW o \in Order, NEW answer \in {"accepted_by_bank", "rejected"},
         import_report(o, answer)
  PROVE  Standing' /\ (Properly => Properly')
<1>1. /\ answer \in Late \ Executed /\ SetStatus(o, answer)
      /\ UNCHANGED <<posting, voided, request>>
      /\ answer \in Active => order[o].status \in HandedOver
  BY StatusSets DEF import_report, HandedOver, Executed, Status
<1> QED BY <1>1, OneStatusStands, PostingsUnchanged DEF Standing

\* A transaction is booked, or what it was booked to is reversed.
LEMMA RowKept ==
  ASSUME Standing, NEW t \in Tx, NEW r, posting' = [posting EXCEPT ![t] = r],
         r.state # "new",
         r \in [state: {"new", "live", "reversed", "return"}, plan: {r.plan}, owner: {r.owner}]
  PROVE  PostingsKept
<1>1. \A u \in Tx : posting'[u] = IF u = t THEN r ELSE posting[u]
  BY DEF Standing, PostingsOK
<1>2. posting' = [u \in Tx |-> posting'[u]]
  BY DEF Standing, PostingsOK
<1>3. \A u \in Tx : PostingOK(u)'
  BY <1>1 DEF Standing, PostingsOK, PostingOK
<1> QED BY <1>1, <1>2, <1>3 DEF PostingsKept, PostingsOK

LEMMA BookedKept ==
  ASSUME Standing, NEW t \in Tx, NEW plan, NEW o, Settles(t, plan, o)
  PROVE  PostingsKept
<1> DEFINE r == [state |-> "live", plan |-> plan, owner |-> o]
<1>1. posting' = [posting EXCEPT ![t] = r] /\ r.state = "live"
  BY DEF Settles
<1>2. r \in [state: {"new", "live", "reversed", "return"}, plan: {r.plan}, owner: {r.owner}]
  OBVIOUS
<1> HIDE DEF r
<1> QED BY <1>1, <1>2, RowKept

LEMMA NotPayingRow ==
  ASSUME NEW s \in {"new", "reversed", "return"}
  PROVE  /\ NotPaying(s).state = s /\ NotPaying(s).plan = NoPlan
         /\ NotPaying(s) \in [state: {"new", "live", "reversed", "return"},
                              plan: {NotPaying(s).plan}, owner: {NotPaying(s).owner}]
BY DEF NotPaying

LEMMA ReversePaymentStands ==
  ASSUME IInv, Standing, NEW t \in Tx, reverse_payment(t)
  PROVE  Standing' /\ (Properly => Properly')
<1>1. posting' = [posting EXCEPT ![t] = NotPaying("reversed")] /\ UNCHANGED <<order, voided, request>>
  BY DEF reverse_payment
<1>2. PostingsKept
  BY <1>1, NotPayingRow, RowKept
<1>3. \A o \in Order : Kept(o) /\ Tame(o)
  BY <1>1, SameIsUsual DEF Same
<1> QED BY <1>1, <1>2, <1>3, UsualStep

LEMMA BookStands ==
  ASSUME IInv, Standing, NEW t \in Tx, NEW plan \in Plan, book_payment(t, plan)
  PROVE  Standing' /\ (Properly => Properly')
<1>1. PostingsKept /\ UNCHANGED <<order, voided, request>>
  BY BookedKept DEF book_payment
<1>2. \A o \in Order : Kept(o) /\ Tame(o)
  BY <1>1, SameIsUsual DEF Same
<1> QED BY <1>1, <1>2, UsualStep

\* A return: the posting of the execution is reversed, the credit is used.
LEMMA ReturnStands ==
  ASSUME IInv, Standing, NEW b \in Batch, record_return(b)
  PROVE  Standing' /\ (Properly => Properly')
<1>1. PICK o \in OrdersIn(b) :
        /\ SetStatus(o, "returned")
        /\ posting' = [u \in Tx |->
             IF u = order[o].tx THEN NotPaying("reversed")
             ELSE IF u = request[b].tx THEN NotPaying("return") ELSE posting[u]]
  BY DEF record_return
<1>2. ASSUME NEW u \in Tx
      PROVE  PostingOK(u)' /\ (posting[u].state # "new" => posting'[u].state # "new")
  <2>1. posting'[u] \in {posting[u], NotPaying("reversed"), NotPaying("return")}
    BY <1>1
  <2> QED BY <2>1, NotPayingRow DEF Standing, PostingsOK, PostingOK
<1>3. posting' = [u \in Tx |-> posting'[u]]
  BY <1>1
<1>4. PostingsKept
  BY <1>2, <1>3 DEF PostingsKept, PostingsOK
<1>5. o \in Order /\ "returned" \in Late \ Executed /\ "returned" \notin Active
  BY StatusSets DEF OrdersIn, Executed, Active, HandedOver
<1>6. request' = [request EXCEPT ![b] = Idle] /\ UNCHANGED voided
  BY DEF record_return
<1> QED BY <1>1, <1>4, <1>5, <1>6, OneStatusStands

\* An invoice is reversed: no order for it was at the bank, and none waits any more.
LEMMA ReversalStands ==
  ASSUME IInv, Standing, NEW i \in Item, reverse_invoice(i)
  PROVE  Standing' /\ (Properly => Properly')
<1> DEFINE os == WaitingOrders(i)
<1>1. /\ \A o \in os : ~Locked(o) /\ order[o].status \in {"draft", "approved"}
      /\ order' = [o \in Order |->
           IF o \in os THEN [order[o] EXCEPT !.status = "cancelled", !.approvals = {}] ELSE order[o]]
      /\ UNCHANGED <<posting, request>> /\ voided' = voided \cup {i}
  BY DEF reverse_invoice, WaitingOrders, NoneAtTheBank, Status, Active
<1>2. \A o \in Order : order[o].item = i /\ order[o].status \in Active => o \in os
  BY DEF WaitingOrders, Status
<1>0. os \subseteq Order
  BY DEF WaitingOrders
<1>v. voided' = voided \cup {i}
  BY <1>1
<1> HIDE DEF os
<1>3. ASSUME NEW o \in os
      PROVE  /\ order'[o].status = "cancelled"
             /\ order'[o].item = order[o].item /\ order'[o].tx = order[o].tx
  <2>1. RowOK(order[o])
    BY <1>0 DEF IInv, OrdersOK
  <2>2. order'[o] = [order[o] EXCEPT !.status = "cancelled", !.approvals = {}]
    BY <1>0, <1>1
  <2> QED BY <2>1, <2>2 DEF RowOK
<1>4. \A o \in Order : o \notin os => Same(o)
  BY <1>1 DEF Same
<1>5. \A o \in Order : Kept(o) /\ Tame(o)
  BY <1>3, <1>4, SameIsUsual DEF Kept, Tame, Executed, Active, HandedOver
<1>6. \A o \in Order : order'[o].item = i => order'[o].status \notin Active
  BY <1>2, <1>3, <1>4 DEF Same, Active, HandedOver
<1>7. NothingForTheVoided'
  <2>1. ASSUME NEW o \in Order, order'[o].status \in {"draft", "approved"},
               order'[o].item \in voided'
        PROVE  Amount(o)' = 0
    <3>1. order'[o].item # i
      BY <1>6, <2>1 DEF Active
    <3>2. order'[o].item \in voided
      BY <1>v, <2>1, <3>1
    <3>3. /\ order[o].status \in {"draft", "approved"} /\ order[o].item \in voided
          /\ order'[o].fields.amount = order[o].fields.amount
      <4>1. Kept(o)
        BY <1>5
      <4> QED BY <2>1, <3>2, <4>1 DEF Kept
    <3>4. Amount(o) = 0
      BY <3>3 DEF Standing, NothingForTheVoided
    <3> QED BY <3>3, <3>4 DEF Amount
  <2>2. ASSUME NEW b \in Batch, NEW o \in Order,
               request'[b].call = "export", request'[b].seen[o] # "unread"
        PROVE  order'[o].item \notin voided'
    <3>1. request[b].call = "export" /\ request[b].seen[o] # "unread"
      BY <1>1, <2>2
    <3>2. Locked(o) /\ order[o].status = "approved" /\ order[o].item \notin voided
      BY <3>1 DEF Locked, OrdersIn, IInv, RequestsOK, Standing, NothingForTheVoided
    <3>3. order[o].item # i
      BY <1>1, <1>2, <3>2 DEF Active
    <3> QED BY <1>1, <1>5, <3>2, <3>3 DEF Kept
  <2> QED BY <2>1, <2>2 DEF NothingForTheVoided
<1>8. Standing'
  <2>1. PostingsKept
    BY <1>1, PostingsUnchanged DEF Standing
  <2>2. ProofsStand'
    BY <1>5, <2>1, ProofsKept
  <2>3. ProofGiven'
    BY <1>1 DEF Standing, ProofGiven
  <2> QED BY <1>7, <2>1, <2>2, <2>3 DEF Standing, PostingsKept
<1>9. Properly => Properly'
  <2> SUFFICES ASSUME Properly, NEW o \in Order PROVE Proper(o)'
    BY DEF Properly
  <2>1. Proper(o)
    BY DEF Properly
  <2>2. \A p \in Order : Tame(p) /\ order'[p].item = order[p].item
    BY <1>5 DEF Kept
  <2>3. order'[o].status \in Active => order'[o].item # i
    BY <1>6
  <2>4. SUFFICES ASSUME order'[o].status \in Active, order'[o].item \in Item
                 PROVE  /\ order'[o].status \in HandedOver => order'[o].item \notin voided'
                        /\ \A p \in Order \ {o} : order'[p].item = order'[o].item =>
                             order'[p].status \notin Active
    BY DEF Proper, Status
  <2>5. order[o].status \in Active /\ order[o].item \in Item
    BY <2>2, <2>4 DEF Tame
  <2>6. order'[o].status \in HandedOver => order'[o].item \notin voided'
    BY <1>v, <2>1, <2>2, <2>3, <2>4, <2>5 DEF Proper, Tame, Status
  <2>7. \A p \in Order \ {o} : order'[p].item = order'[o].item => order'[p].status \notin Active
    <3> SUFFICES ASSUME NEW p \in Order \ {o}, order'[p].item = order'[o].item
                 PROVE  order'[p].status \notin Active
      OBVIOUS
    <3>1. order[p].item = order[o].item
      BY <2>2
    <3>2. order[p].status \notin Active
      BY <2>1, <2>5, <3>1 DEF Proper, Status
    <3> QED BY <2>2, <3>2 DEF Tame
  <2> QED BY <2>6, <2>7
<1> QED BY <1>8, <1>9

\* An execution: its transaction was new, so that no other order names it.
LEMMA ExecutionStands ==
  ASSUME IInv, Standing, NEW b \in Batch, record_execution(b)
  PROVE  Standing' /\ (Properly => Properly')
<1> DEFINE t == request[b].tx
<1>1. PICK o \in OrdersIn(b), s \in Executed :
        /\ order' = [order EXCEPT ![o] = [order[o] EXCEPT !.tx = t, !.status = s]]
        /\ Proves(t, o) /\ Unbooked(t)
        /\ Settles(t, [NoPlan EXCEPT ![order[o].item] = -TxAmount[t]], o)
        /\ s = "executed" <=> -TxAmount[t] = Amount(o)
  BY ExecutionRow
<1>2. /\ request' = [request EXCEPT ![b] = Idle] /\ UNCHANGED voided
      /\ request[b].call = "executed"
  BY DEF record_execution
<1>3. t \in Tx
  BY <1>2 DEF IInv, RequestsOK, Request, Standing, ProofGiven
<1>4. o \in Order
  BY DEF OrdersIn
<1>5. RowOK(order[o])
  BY <1>4 DEF IInv, OrdersOK
<1> HIDE DEF t
<1> DEFINE r == [order[o] EXCEPT !.tx = t, !.status = s]
<1>6. r.tx = t /\ r.status = s /\ r.item = order[o].item /\ r.fields = order[o].fields
  BY <1>5 DEF RowOK
<1>7. order' = [order EXCEPT ![o] = r]
  BY <1>1
<1> HIDE DEF r
<1>8. \A p \in Order : order'[p] = IF p = o THEN r ELSE order[p]
  BY <1>7 DEF IInv, OrdersOK
<1>9. PostingsKept
  BY <1>1, <1>3, BookedKept
<1>10. posting'[t].state # "new"
  BY <1>1, <1>3 DEF Settles, Standing, PostingsOK
<1>11. \A p \in Order : order[p].tx # t
  BY <1>1, <1>3, PaymentsAssumption DEF Unbooked, Standing, ProofsStand
<1>12. Proven(o)'
  <2>1. Amount(o)' = Amount(o)
    BY <1>4, <1>6, <1>8 DEF Amount
  <2>2. order'[o].tx = t /\ order'[o].status = s /\ t # NoTx
    BY <1>3, <1>4, <1>6, <1>8, PaymentsAssumption
  <2> QED BY <1>1, <2>1, <2>2 DEF Proven, Proves
<1>13. ASSUME NEW p \in Order, p # o, order'[p].status \in Executed PROVE Proven(p)'
  <2>1. order'[p] = order[p]
    BY <1>8, <1>13
  <2>2. Proven(p)
    BY <1>13, <2>1 DEF Standing, ProofsStand
  <2> QED BY <2>1, <2>2 DEF Proven, Proves, Amount
<1>14. ProofsStand'
  <2>1. \A p \in Order : order'[p].tx # NoTx =>
          order'[p].tx \in Tx /\ posting'[order'[p].tx].state # "new"
    BY <1>3, <1>6, <1>8, <1>9, <1>10 DEF Standing, ProofsStand, PostingsKept
  <2>2. \A p, q \in Order : order'[p].tx # NoTx /\ order'[p].tx = order'[q].tx => p = q
    BY <1>6, <1>8, <1>11 DEF Standing, ProofsStand
  <2> QED BY <1>12, <1>13, <2>1, <2>2 DEF ProofsStand
<1>15. \A p \in Order : order'[p].item = order[p].item
  BY <1>6, <1>8
<1>16. s \notin Active
  BY DEF Executed, Active, HandedOver
<1>17. NothingForTheVoided'
  <2>1. ASSUME NEW p \in Order, order'[p].status \in {"draft", "approved"}, order'[p].item \in voided
        PROVE  Amount(p)' = 0
    <3>1. order'[p] = order[p]
      BY <1>6, <1>8, <1>16, <2>1 DEF Active
    <3> QED BY <2>1, <3>1 DEF Standing, NothingForTheVoided, Amount
  <2>2. ASSUME NEW c \in Batch, NEW p \in Order,
               request'[c].call = "export", request'[c].seen[p] # "unread"
        PROVE  order'[p].item \notin voided
    <3>1. request'[c] = request[c]
      BY <1>2, <2>2, RequestIdle, IdleType
    <3> QED BY <1>15, <2>2, <3>1 DEF Standing, NothingForTheVoided
  <2> QED BY <1>2, <2>1, <2>2 DEF NothingForTheVoided
<1>18. ProofGiven'
  BY <1>2, RequestIdle DEF Standing, ProofGiven, Idle
<1>19. \A p \in Order : Tame(p)
  BY <1>6, <1>8, <1>16 DEF Tame, Active
<1> QED BY <1>2, <1>9, <1>14, <1>15, <1>17, <1>18, <1>19, TameKeepsProper DEF Standing, PostingsKept

LEMMA StandingInit == Init => Standing
<1> SUFFICES ASSUME Init PROVE Standing
  OBVIOUS
<1>1. \A o \in Order : order[o].status = "absent" /\ order[o].tx = NoTx
  BY DEF Init, NoRow
<1>2. PostingsOK
  BY NotPayingRow DEF Init, PostingsOK, PostingOK
<1>3. ProofsStand
  BY <1>1 DEF ProofsStand, Executed
<1>4. \A b \in Batch : request[b].call = "idle"
  BY DEF Init, Idle
<1>5. NothingForTheVoided /\ ProofGiven
  BY <1>1, <1>4 DEF NothingForTheVoided, ProofGiven
<1> QED BY <1>2, <1>3, <1>5 DEF Standing

LEMMA StandingNext ==
  ASSUME IInv, Standing, [Next]_vars
  PROVE  Standing' /\ (Properly => Properly' \/ \E o \in Order : StaleCommit(o))
<1> DEFINE Goal == Standing' /\ (Properly => Properly' \/ \E o \in Order : StaleCommit(o))
<1>same. ASSUME UNCHANGED <<order, posting, voided>>,
                UNCHANGED request \/ \E b \in Batch : request' = [request EXCEPT ![b] = Idle]
         PROVE  Goal
  <2>1. \A o \in Order : Kept(o) /\ Tame(o)
    BY <1>same, SameIsUsual DEF Same
  <2> QED BY <1>same, <2>1, UsualStep, PostingsUnchanged DEF Standing
<1>1. CASE UNCHANGED vars
  BY <1>1, <1>same DEF vars
<1>2. ASSUME NEW o \in Order, NEW i \in Item, order_from_invoice(o, i) PROVE Goal
  BY <1>2, NewOrderStands
<1>3. ASSUME NEW o \in Order, NEW amount, NEW payee, change_order(o, amount, payee) PROVE Goal
  BY <1>3, ChangeStands
<1>4. ASSUME NEW o \in Order, NEW u \in User, approve(u, o) PROVE Goal
  BY <1>4, ApproveStands
<1>5. ASSUME NEW o \in Order, cancel_order(o) PROVE Goal
  BY <1>5, CancelStands
<1>6. ASSUME NEW b \in Batch, NEW os \in SUBSET Order, create_batch_start(b, os) PROVE Goal
  BY <1>6, ExportStartStands
<1>7. ASSUME NEW b \in Batch, create_batch_commit(b) PROVE Goal
  BY <1>7, ExportCommitStands
<1>8. ASSUME NEW b \in Batch, download_batch_file(b) \/ abort(b) PROVE Goal
  BY <1>8, <1>same DEF download_batch_file, abort
<1>9. ASSUME NEW b \in Batch, submit_batch_start(b) PROVE Goal
  BY <1>9, AnswerStartStands DEF submit_batch_start
<1>10. ASSUME NEW b \in Batch, NEW call \in StatusCall, NEW t \in Tx \cup {NoTx},
              NEW os \in SUBSET OrdersOf(b), bank_status_start(b, call, os, t)
       PROVE  Goal
  <2> DEFINE q == [call |-> call, seen |-> Read(os), tx |-> t]
  <2>1. /\ q.call # "export"
        /\ q.call = "executed" => q.tx # NoTx
        /\ request' = [request EXCEPT ![b] = q] /\ UNCHANGED <<order, posting, voided>>
    BY <1>10, PaymentsAssumption DEF bank_status_start, StatusCall, Debits
  <2> HIDE DEF q
  <2> QED BY <2>1, AnswerStartStands
<1>11. ASSUME NEW b \in Batch,
              submit_batch_commit(b) \/ record_acceptance(b) \/ record_rejection(b)
       PROVE  Goal
  BY <1>11, AnswerStands
<1>12. ASSUME NEW b \in Batch, record_execution(b) PROVE Goal
  BY <1>12, ExecutionStands
<1>13. ASSUME NEW b \in Batch, record_return(b) PROVE Goal
  BY <1>13, ReturnStands
<1>14. ASSUME NEW o \in Order, NEW answer \in {"accepted_by_bank", "rejected"},
              import_report(o, answer)
       PROVE  Goal
  BY <1>14, ReportStands
<1>15. ASSUME NEW t \in Tx, NEW plan \in Plan, book_payment(t, plan) PROVE Goal
  BY <1>15, BookStands
<1>16. ASSUME NEW t \in Tx, reverse_payment(t) PROVE Goal
  BY <1>16, ReversePaymentStands
<1>17. ASSUME NEW i \in Item, reverse_invoice(i) PROVE Goal
  BY <1>17, ReversalStands
<1> QED
  BY <1>1, <1>2, <1>3, <1>4, <1>5, <1>6, <1>7, <1>8, <1>9, <1>10, <1>11, <1>12,
     <1>13, <1>14, <1>15, <1>16, <1>17 DEF Next

LEMMA StandingAlways == Spec => []Standing
<1>1. IInv /\ Standing /\ [Next]_vars => Standing'
  BY StandingNext
<1> QED BY <1>1, StandingInit, SafeAlways, PTL DEF Spec

\* D06, D37: whatever the bank answers, how often and how late, an order counts as
\* executed only by a debit that proves it and that no other order uses
\* (`record_execution', and every step that writes a status after it).
THEOREM ExecutedOnlyByProof == Spec => []ExecutedByProof
<1>1. Standing => ExecutedByProof
  BY DEF Standing, ProofsStand, Proven, ExecutedByProof, Status
<1> QED BY <1>1, StandingAlways, PTL

\* Only the commit of a request that had read an order before a status report
\* rejected it brings an order back on its way to the bank, for a payable that was
\* reversed or that another order pays (`submit_batch', `bank_status').
THEOREM OnlyStaleCommitsBreak == Spec => OrdersStayProper
<1>1. IInv /\ Standing /\ [Next]_vars =>
        [(\A o \in Order : Proper(o)) =>
           (\A o \in Order : Proper(o))' \/ \E o \in Order : StaleCommit(o)]_vars
  BY StandingNext DEF Properly
<1> QED BY <1>1, SafeAlways, StandingAlways, PTL DEF Spec, OrdersStayProper

-----------------------------------------------------------------------------
(* Return credits: each closes one return.                                 *)

Back == {"returned", "rejected"}

CreditsOf(n) == {t \in Tx : posting[t].state = "return" /\ TxAmount[t] = n}
ReturnsOf(n) == {o \in Order : order[o].tx # NoTx /\ -TxAmount[order[o].tx] = n
                             /\ Status(o) \in Back}

\* An order that was executed is in the hands of one request, which knows its status.
Traced ==
  /\ \A b \in Batch, o \in Order : request[b].seen[o] # "unread" /\ request[b].call # "export" =>
       order[o].batch = b
  /\ \A o \in Order : order[o].tx # NoTx => order[o].status \in Executed \cup Back
  /\ \A b \in Batch, o \in Order : order[o].tx # NoTx /\ request[b].seen[o] # "unread" =>
       request[b].seen[o] = order[o].status
  /\ \A b \in Batch, o \in Order : request[b].seen[o] \in Executed => order[o].tx # NoTx

Matched == \A n \in Int : Cardinality(CreditsOf(n)) <= Cardinality(ReturnsOf(n))

\* A step leaves the transaction of an order; where it has one, its status too, or it is
\* sent back by the one request that had read it.
Settled(o) ==
  /\ order'[o].tx = order[o].tx
  /\ order[o].tx # NoTx =>
       \/ order'[o].status = order[o].status
       \/ order'[o].status \in Back /\ \A c \in Batch : request'[c].seen[o] = "unread"
  /\ order'[o].batch = order[o].batch \/ order[o].batch = NoBatch

LEMMA SameIsSettled ==
  ASSUME NEW o \in Order, Same(o) PROVE Settled(o)
BY DEF Same, Settled

\* No other request has read an order of a request on a file.
LEMMA Alone ==
  ASSUME IInv, Traced, NEW b \in Batch, request[b].call # "export", NEW o \in OrdersIn(b),
         request' = [request EXCEPT ![b] = Idle]
  PROVE  \A c \in Batch : request'[c].seen[o] = "unread"
<1>1. o \in Order /\ order[o].batch = b /\ b # NoBatch
  BY PaymentsAssumption DEF OrdersIn, Traced
<1>2. order[o].status # "approved"
  BY <1>1 DEF IInv, OrdersOK, Early
<1>3. \A c \in Batch : request'[c] = IF c = b THEN Idle ELSE request[c]
  BY DEF IInv, RequestsOK
<1>4. \A c \in Batch : c # b => request[c].seen[o] = "unread"
  BY <1>1, <1>2 DEF Traced, IInv, RequestsOK
<1> QED BY <1>1, <1>3, <1>4, IdleType

LEMMA SettledTraces ==
  ASSUME Traced, \A b \in Batch : request'[b] \in {request[b], Idle},
         \A o \in Order : Settled(o)
  PROVE  Traced'
<1>0. \A b \in Batch, o \in Order : request'[b].seen[o] # "unread" => request'[b] = request[b]
  BY IdleType
<1>1. \A b \in Batch, o \in Order : request'[b].seen[o] # "unread" /\ request'[b].call # "export" =>
        order'[o].batch = b
  BY <1>0, PaymentsAssumption DEF Traced, Settled
<1>2. \A o \in Order : order'[o].tx # NoTx => order'[o].status \in Executed \cup Back
  BY DEF Traced, Settled
<1>3. \A b \in Batch, o \in Order : order'[o].tx # NoTx /\ request'[b].seen[o] # "unread" =>
        request'[b].seen[o] = order'[o].status
  BY <1>0 DEF Traced, Settled
<1>4. "unread" \notin Executed
  BY DEF Executed
<1>5. \A b \in Batch, o \in Order : request'[b].seen[o] \in Executed => order'[o].tx # NoTx
  BY <1>0, <1>4 DEF Traced, Settled
<1> QED BY <1>1, <1>2, <1>3, <1>5 DEF Traced

LEMMA FiniteCounts ==
  \A n : IsFiniteSet(CreditsOf(n)) /\ IsFiniteSet(ReturnsOf(n))
<1> SUFFICES ASSUME NEW n PROVE IsFiniteSet(CreditsOf(n)) /\ IsFiniteSet(ReturnsOf(n))
  OBVIOUS
<1>1. CreditsOf(n) \subseteq Tx /\ ReturnsOf(n) \subseteq Order
  BY DEF CreditsOf, ReturnsOf
<1> QED BY <1>1, FS_Subset, PaymentsAssumption

\* Where no credit is used and no return forgotten.
LEMMA CountsMatch ==
  ASSUME NEW n \in Int, Cardinality(CreditsOf(n)) <= Cardinality(ReturnsOf(n)),
         CreditsOf(n)' \subseteq CreditsOf(n), ReturnsOf(n) \subseteq ReturnsOf(n)',
         IsFiniteSet(ReturnsOf(n)')
  PROVE  Cardinality(CreditsOf(n)') <= Cardinality(ReturnsOf(n)')
<1>1. /\ IsFiniteSet(CreditsOf(n)) /\ IsFiniteSet(ReturnsOf(n)) /\ IsFiniteSet(CreditsOf(n)')
  BY FiniteCounts, FS_Subset
<1>2. /\ Cardinality(CreditsOf(n)') <= Cardinality(CreditsOf(n))
      /\ Cardinality(ReturnsOf(n)) <= Cardinality(ReturnsOf(n)')
  BY <1>1, FS_Subset
<1>3. /\ Cardinality(CreditsOf(n)') \in Nat /\ Cardinality(CreditsOf(n)) \in Nat
      /\ Cardinality(ReturnsOf(n)) \in Nat /\ Cardinality(ReturnsOf(n)') \in Nat
  BY <1>1, FS_CardinalityType
<1> QED BY <1>2, <1>3

LEMMA SettledMatches ==
  ASSUME Matched, \A o \in Order : order[o].tx # NoTx => Settled(o),
         \A t \in Tx : posting'[t].state = "return" => posting[t].state = "return"
  PROVE  Matched'
<1> SUFFICES ASSUME NEW n \in Int
             PROVE  Cardinality(CreditsOf(n)') <= Cardinality(ReturnsOf(n)')
  BY DEF Matched
<1>1. CreditsOf(n)' \subseteq CreditsOf(n)
  BY DEF CreditsOf
<1>2. ReturnsOf(n) \subseteq ReturnsOf(n)'
  BY DEF ReturnsOf, Status, Settled
<1>3. IsFiniteSet(ReturnsOf(n)')
  <2>1. ReturnsOf(n)' \subseteq Order
    BY DEF ReturnsOf
  <2> QED BY <2>1, FS_Subset, PaymentsAssumption
<1> QED BY <1>1, <1>2, <1>3, CountsMatch DEF Matched

LEMMA SettledStep ==
  ASSUME Traced, Matched,
         UNCHANGED request \/ \E b \in Batch : request' = [request EXCEPT ![b] = Idle],
         IInv, \A o \in Order : Settled(o),
         \A t \in Tx : posting'[t].state = "return" => posting[t].state = "return"
  PROVE  Traced' /\ Matched'
<1>1. \A b \in Batch : request'[b] \in {request[b], Idle}
  BY RequestIdle
<1> QED BY <1>1, SettledTraces, SettledMatches

\* A request reads orders as they are.
LEMMA ReadTraces ==
  ASSUME IInv, Standing, Traced, Matched, NEW b \in Batch, NEW os \in SUBSET Order, NEW q,
         q.seen = Read(os), q.call = "export" \/ os \subseteq OrdersOf(b),
         request' = [request EXCEPT ![b] = q], UNCHANGED <<order, posting>>
  PROVE  Traced' /\ Matched'
<1>1. \A c \in Batch : request'[c] = IF c = b THEN q ELSE request[c]
  BY DEF IInv, RequestsOK
<1>2. \A o \in Order : q.seen[o] = IF o \in os THEN order[o].status ELSE "unread"
  BY DEF Read, Status
<1>3. \A o \in Order : q.seen[o] # "unread" /\ q.call # "export" => order[o].batch = b
  BY <1>2 DEF OrdersOf
<1>4. \A o \in Order : q.seen[o] \in Executed => order[o].tx # NoTx
  <2>1. "unread" \notin Executed
    BY DEF Executed
  <2> QED BY <1>2, <2>1 DEF Standing, ProofsStand, Proven
<1>5. Traced'
  <2>1. \A c \in Batch, o \in Order : request'[c].seen[o] # "unread" /\ request'[c].call # "export" =>
          order'[o].batch = c
    BY <1>1, <1>3 DEF Traced
  <2>2. \A c \in Batch, o \in Order : order'[o].tx # NoTx /\ request'[c].seen[o] # "unread" =>
          request'[c].seen[o] = order'[o].status
    BY <1>1, <1>2 DEF Traced
  <2>3. \A c \in Batch, o \in Order : request'[c].seen[o] \in Executed => order'[o].tx # NoTx
    BY <1>1, <1>4 DEF Traced
  <2> QED BY <2>1, <2>2, <2>3 DEF Traced
<1>6. Matched'
  BY SameIsSettled, SettledMatches DEF Same
<1> QED BY <1>5, <1>6

\* One order that was never executed is written, or a new one.
LEMMA OneSettled ==
  ASSUME IInv, Traced, Matched, NEW o \in Order, NEW r, order' = [order EXCEPT ![o] = r],
         UNCHANGED <<posting, request>>, order[o].status \notin Executed \cup Back,
         r.tx = NoTx \/ r.tx = order[o].tx,
         r.batch = order[o].batch \/ order[o].batch = NoBatch
  PROVE  Traced' /\ Matched'
<1>1. \A p \in Order : order'[p] = IF p = o THEN r ELSE order[p]
  BY DEF IInv, OrdersOK
<1>2. order[o].tx = NoTx
  BY DEF Traced
<1>3. \A p \in Order : p # o => Settled(p)
  BY <1>1, SameIsSettled DEF Same
<1>4. Settled(o)
  BY <1>1, <1>2 DEF Settled
<1> QED BY <1>3, <1>4, SettledStep

LEMMA PreparationTraces ==
  ASSUME IInv, Standing, Traced, Matched, NEW o \in Order,
         \/ \E i \in Item : order_from_invoice(o, i)
         \/ \E amount, payee : change_order(o, amount, payee)
         \/ \E u \in User : approve(u, o)
         \/ cancel_order(o)
  PROVE  Traced' /\ Matched'
<1>0. RowOK(order[o])
  BY DEF IInv, OrdersOK
<1>s. \A s \in {"absent", "draft", "approved"} : s \notin Executed \cup Back /\ s \in Early
  BY DEF Executed, Back, Early
<1>b. order[o].status \in {"absent", "draft", "approved"} => order[o].batch = NoBatch
  BY <1>s DEF IInv, OrdersOK
<1>1. ASSUME NEW i \in Item, order_from_invoice(o, i) PROVE Traced' /\ Matched'
  <2> DEFINE r == [NoRow EXCEPT !.status = "draft", !.item = i, !.fields.amount = remaining(i)]
  <2>1. r.tx = NoTx
    BY DEF NoRow
  <2>2. /\ order' = [order EXCEPT ![o] = r] /\ UNCHANGED <<posting, request>>
        /\ order[o].status = "absent"
    BY <1>1 DEF order_from_invoice, Status
  <2> HIDE DEF r
  <2> QED BY <1>s, <1>b, <2>1, <2>2, OneSettled
<1>2. ASSUME NEW amount, NEW payee, change_order(o, amount, payee) PROVE Traced' /\ Matched'
  <2> DEFINE r == invalidate([order[o] EXCEPT !.fields = [amount |-> amount, payee |-> payee]])
  <2>1. r.tx = order[o].tx
    BY <1>0 DEF invalidate, RowOK
  <2>2. order' = [order EXCEPT ![o] = r]
    BY <1>2 DEF change_order, IInv, OrdersOK
  <2>3. UNCHANGED <<posting, request>> /\ order[o].status \in {"draft", "approved"}
    BY <1>2 DEF change_order, Changeable, Status
  <2> HIDE DEF r
  <2> QED BY <1>s, <1>b, <2>1, <2>2, <2>3, OneSettled
<1>3. ASSUME NEW u \in User, approve(u, o) PROVE Traced' /\ Matched'
  <2> DEFINE a == [user |-> u, fields |-> order[o].fields]
  <2>1. PICK s \in {order[o].status, "approved"} :
          order' = [order EXCEPT ![o] =
                      [order[o] EXCEPT !.approvals = @ \cup {a}, !.status = s]]
    BY <1>3, ApproveRow
  <2> DEFINE r == [order[o] EXCEPT !.approvals = @ \cup {a}, !.status = s]
  <2>2. r.tx = order[o].tx
    BY <1>0 DEF RowOK
  <2>3. UNCHANGED <<posting, request>> /\ order[o].status \in {"draft", "approved"}
    BY <1>3 DEF approve, Changeable, Status
  <2>4. order' = [order EXCEPT ![o] = r]
    BY <2>1
  <2> HIDE DEF r
  <2> QED BY <1>s, <1>b, <2>2, <2>3, <2>4, OneSettled
<1>4. CASE cancel_order(o)
  <2> DEFINE r == [order[o] EXCEPT !.status = "cancelled", !.approvals = {}]
  <2>1. r.tx = order[o].tx
    BY <1>0 DEF RowOK
  <2>2. order' = [order EXCEPT ![o] = r]
    BY <1>4 DEF cancel_order, IInv, OrdersOK
  <2>3. UNCHANGED <<posting, request>> /\ order[o].status \in {"draft", "approved"}
    BY <1>4 DEF cancel_order, Changeable, Status
  <2> HIDE DEF r
  <2> QED BY <1>s, <1>b, <2>1, <2>2, <2>3, OneSettled
<1> QED BY <1>1, <1>2, <1>3, <1>4

LEMMA ExportCommitTraces ==
  ASSUME IInv, Traced, Matched, NEW b \in Batch, create_batch_commit(b)
  PROVE  Traced' /\ Matched'
<1> DEFINE os == OrdersIn(b)
<1>1. /\ order' = [o \in Order |->
           IF o \in os THEN [order[o] EXCEPT !.status = "exported", !.batch = b] ELSE order[o]]
      /\ request' = [request EXCEPT ![b] = Idle] /\ UNCHANGED posting
      /\ request[b].call = "export"
  BY DEF create_batch_commit
<1>2. \A o \in os : o \in Order /\ order[o].status = "approved"
  BY <1>1 DEF OrdersIn, IInv, RequestsOK
<1> HIDE DEF os
<1>3. ASSUME NEW o \in os PROVE Settled(o)
  <2>1. RowOK(order[o]) /\ order[o].batch = NoBatch
    BY <1>2 DEF IInv, OrdersOK, Early
  <2>2. order[o].tx = NoTx
    BY <1>2 DEF Traced, Executed, Back
  <2>3. order'[o] = [order[o] EXCEPT !.status = "exported", !.batch = b]
    BY <1>1, <1>2
  <2>4. order'[o].tx = order[o].tx
    BY <2>1, <2>3 DEF RowOK
  <2> QED BY <2>1, <2>2, <2>4 DEF Settled
<1>4. \A o \in Order : o \notin os => Settled(o)
  BY <1>1, SameIsSettled DEF Same
<1> QED BY <1>1, <1>3, <1>4, SettledStep

LEMMA ReversalTraces ==
  ASSUME IInv, Traced, Matched, NEW i \in Item, reverse_invoice(i)
  PROVE  Traced' /\ Matched'
<1> DEFINE os == WaitingOrders(i)
<1>1. /\ order' = [o \in Order |->
           IF o \in os THEN [order[o] EXCEPT !.status = "cancelled", !.approvals = {}] ELSE order[o]]
      /\ UNCHANGED <<posting, request>>
  BY DEF reverse_invoice
<1>2. \A o \in os : o \in Order /\ order[o].status \in Active
  BY DEF WaitingOrders, Status
<1> HIDE DEF os
<1>3. ASSUME NEW o \in os PROVE Settled(o)
  <2>1. RowOK(order[o])
    BY <1>2 DEF IInv, OrdersOK
  <2>2. order[o].tx = NoTx
    BY <1>2 DEF Traced, Executed, Back, Active, HandedOver
  <2>3. order'[o] = [order[o] EXCEPT !.status = "cancelled", !.approvals = {}]
    BY <1>1, <1>2
  <2>4. order'[o].tx = order[o].tx /\ order'[o].batch = order[o].batch
    BY <2>1, <2>3 DEF RowOK
  <2> QED BY <2>2, <2>4 DEF Settled
<1>4. \A o \in Order : o \notin os => Settled(o)
  BY <1>1, SameIsSettled DEF Same
<1> QED BY <1>1, <1>3, <1>4, SettledStep

\* A request writes its answer: what was executed it leaves, or sends back.
LEMMA WriteTraces ==
  ASSUME IInv, Traced, Matched, NEW b \in Batch, request[b].call # "export",
         request' = [request EXCEPT ![b] = Idle], UNCHANGED posting,
         NEW f, \A s \in Executed \cup Back : f[s] = s \/ f[s] \in Back,
         order' = Write(request[b].seen, f)
  PROVE  Traced' /\ Matched'
<1>1. ASSUME NEW o \in Order PROVE Settled(o)
  <2>1. CASE Same(o)
    BY <2>1, SameIsSettled
  <2>2. CASE ~Same(o)
    <3> DEFINE s == request[b].seen[o]
    <3>1. s # "unread" /\ f[s] # s /\ order'[o] = [order[o] EXCEPT !.status = f[s]]
      BY <2>2 DEF Write, Same
    <3>2. RowOK(order[o])
      BY DEF IInv, OrdersOK
    <3>3. \A c \in Batch : request'[c].seen[o] = "unread"
      BY <3>1, Alone DEF OrdersIn
    <3>4. order[o].tx # NoTx => s = order[o].status /\ s \in Executed \cup Back
      BY <3>1 DEF Traced
    <3> HIDE DEF s
    <3>5. /\ order'[o].status = f[s] /\ order'[o].tx = order[o].tx
          /\ order'[o].batch = order[o].batch
      BY <3>1, <3>2 DEF RowOK
    <3> QED BY <3>1, <3>3, <3>4, <3>5 DEF Settled
  <2> QED BY <2>1, <2>2
<1> QED BY <1>1, SettledStep

LEMMA AnswerTraces ==
  ASSUME IInv, Traced, Matched, NEW b \in Batch,
         submit_batch_commit(b) \/ record_acceptance(b) \/ record_rejection(b)
  PROVE  Traced' /\ Matched'
<1> DEFINE Fine(f) == \A s \in Executed \cup Back : f[s] = s \/ f[s] \in Back
<1>s. \A s \in Executed \cup Back : s \in OrderStatus /\ s # "exported" /\ ~Acceptable(s)
  BY DEF Executed, Back, OrderStatus, Acceptable
<1>1. CASE submit_batch_commit(b)
  <2>1. Fine(AfterSubmit)
    BY <1>s DEF AfterSubmit
  <2>2. /\ order' = Write(request[b].seen, AfterSubmit) /\ request[b].call # "export"
        /\ request' = [request EXCEPT ![b] = Idle] /\ UNCHANGED posting
    BY <1>1 DEF submit_batch_commit
  <2> QED BY <2>1, <2>2, WriteTraces
<1>2. CASE record_acceptance(b)
  <2> DEFINE f == [s \in OrderStatus |-> IF Acceptable(s) THEN request[b].call ELSE s]
  <2>1. Fine(f)
    BY <1>s
  <2>2. /\ order' = Write(request[b].seen, f) /\ request[b].call # "export"
        /\ request' = [request EXCEPT ![b] = Idle] /\ UNCHANGED posting
    BY <1>2 DEF record_acceptance
  <2> HIDE DEF f
  <2> QED BY <2>1, <2>2, WriteTraces
<1>3. CASE record_rejection(b)
  <2> DEFINE f == [s \in OrderStatus |-> "rejected"]
  <2>1. Fine(f)
    BY <1>s DEF Back
  <2>2. /\ order' = Write(request[b].seen, f) /\ request[b].call # "export"
        /\ request' = [request EXCEPT ![b] = Idle] /\ UNCHANGED posting
    BY <1>3 DEF record_rejection
  <2> HIDE DEF f
  <2> QED BY <2>1, <2>2, WriteTraces
<1> QED BY <1>1, <1>2, <1>3

LEMMA ReportTraces ==
  ASSUME IInv, Traced, Matched, NEW o \in Order, NEW answer, import_report(o, answer)
  PROVE  Traced' /\ Matched'
<1> DEFINE r == [order[o] EXCEPT !.status = answer]
<1>1. RowOK(order[o])
  BY DEF IInv, OrdersOK
<1>2. r.tx = order[o].tx /\ r.batch = order[o].batch
  BY <1>1 DEF RowOK
<1>3. order' = [order EXCEPT ![o] = r] /\ UNCHANGED <<posting, request>>
  BY DEF import_report, SetStatus, IInv, OrdersOK
<1>4. order[o].status \notin Executed \cup Back
  BY DEF import_report, Status, Executed, Back, HandedOver
<1> HIDE DEF r
<1> QED BY <1>2, <1>3, <1>4, OneSettled

\* Bookings and their reversals use no credit.
LEMMA BookingTraces ==
  ASSUME IInv, Standing, Traced, Matched, NEW t \in Tx,
         reverse_payment(t) \/ \E plan \in Plan : book_payment(t, plan)
  PROVE  Traced' /\ Matched'
<1>1. UNCHANGED <<order, request>>
  BY DEF reverse_payment, book_payment
<1>2. \A u \in Tx : u # t => posting'[u] = posting[u]
  BY DEF reverse_payment, book_payment, Settles, Standing, PostingsOK
<1>3. posting'[t].state # "return"
  <2>1. CASE reverse_payment(t)
    BY <2>1, NotPayingRow DEF reverse_payment, Standing, PostingsOK
  <2>2. CASE ~reverse_payment(t)
    <3>1. PICK plan \in Plan : book_payment(t, plan)
      BY <2>2
    <3> QED BY <3>1 DEF book_payment, Settles, Standing, PostingsOK
  <2> QED BY <2>1, <2>2
<1>4. \A o \in Order : Settled(o)
  BY <1>1, SameIsSettled DEF Same
<1> QED BY <1>1, <1>2, <1>3, <1>4, SettledStep

LEMMA ExecutionTraces ==
  ASSUME IInv, Standing, Traced, Matched, NEW b \in Batch, record_execution(b)
  PROVE  Traced' /\ Matched'
<1> DEFINE t == request[b].tx
<1>1. PICK o \in OrdersIn(b), s \in Executed :
        /\ request[b].seen[o] \in HandedOver
        /\ order' = [order EXCEPT ![o] = [order[o] EXCEPT !.tx = t, !.status = s]]
        /\ Settles(t, [NoPlan EXCEPT ![order[o].item] = -TxAmount[t]], o)
  BY ExecutionRow
<1>2. request' = [request EXCEPT ![b] = Idle] /\ request[b].call # "export"
  BY DEF record_execution
<1>3. o \in Order /\ order[o].tx = NoTx
  <2>1. o \in Order /\ request[b].seen[o] # "unread"
    BY DEF OrdersIn
  <2>2. request[b].seen[o] \notin Executed \cup Back
    BY <1>1 DEF HandedOver, Executed, Back
  <2> QED BY <2>1, <2>2 DEF Traced
<1>4. \A c \in Batch : request'[c].seen[o] = "unread"
  BY <1>2, Alone
<1>5. \A u \in Tx : posting'[u].state = "return" => posting[u].state = "return"
  <2>1. \A u \in Tx : posting'[u] = IF u = t
          THEN [state |-> "live", plan |-> [NoPlan EXCEPT ![order[o].item] = -TxAmount[t]], owner |-> o]
          ELSE posting[u]
    BY <1>1 DEF Settles, Standing, PostingsOK
  <2> QED BY <2>1
<1> HIDE DEF t
<1> DEFINE r == [order[o] EXCEPT !.tx = t, !.status = s]
<1>6. r.tx = t /\ r.status = s /\ r.batch = order[o].batch
  <2>1. RowOK(order[o])
    BY <1>3 DEF IInv, OrdersOK
  <2> QED BY <2>1 DEF RowOK
<1>7. order' = [order EXCEPT ![o] = r]
  BY <1>1
<1> HIDE DEF r
<1>8. \A p \in Order : order'[p] = IF p = o THEN r ELSE order[p]
  BY <1>7 DEF IInv, OrdersOK
<1>9. \A p \in Order : p # o => Settled(p)
  BY <1>8, SameIsSettled DEF Same
<1>10. Matched'
  BY <1>3, <1>5, <1>9, SettledMatches
<1>11. Traced'
  <2>0. \A c \in Batch : \A p \in Order : request'[c].seen[p] # "unread" =>
          p # o /\ request'[c] = request[c]
    BY <1>2, <1>4, RequestIdle, IdleType
  <2>1. \A c \in Batch, p \in Order : request'[c].seen[p] # "unread" /\ request'[c].call # "export" =>
          order'[p].batch = c
    BY <1>8, <2>0 DEF Traced
  <2>2. \A p \in Order : order'[p].tx # NoTx => order'[p].status \in Executed \cup Back
    BY <1>6, <1>8 DEF Traced
  <2>3. \A c \in Batch, p \in Order : order'[p].tx # NoTx /\ request'[c].seen[p] # "unread" =>
          request'[c].seen[p] = order'[p].status
    BY <1>8, <2>0 DEF Traced
  <2>4. "unread" \notin Executed
    BY DEF Executed
  <2>5. \A c \in Batch, p \in Order : request'[c].seen[p] \in Executed => order'[p].tx # NoTx
    BY <1>8, <2>0, <2>4 DEF Traced
  <2> QED BY <2>1, <2>2, <2>3, <2>5 DEF Traced
<1> QED BY <1>10, <1>11

\* A return: one order more is returned, and at most one credit of its amount more is used.
LEMMA ReturnTraces ==
  ASSUME IInv, Standing, Traced, Matched, NEW b \in Batch, record_return(b)
  PROVE  Traced' /\ Matched'
<1> DEFINE t == request[b].tx
<1>1. PICK o \in OrdersIn(b) :
        /\ request[b].seen[o] \in Executed
        /\ SetStatus(o, "returned")
        /\ t # NoTx => IsReturnCredit(t, o)
        /\ posting' = [u \in Tx |->
             IF u = order[o].tx THEN NotPaying("reversed")
             ELSE IF u = t THEN NotPaying("return") ELSE posting[u]]
  BY DEF record_return
<1>2. request' = [request EXCEPT ![b] = Idle] /\ request[b].call # "export"
  BY DEF record_return
<1>3. o \in Order /\ order[o].tx # NoTx /\ order[o].status \in Executed /\ order[o].tx \in Tx
  <2>1. o \in Order /\ request[b].seen[o] # "unread"
    BY DEF OrdersIn
  <2> QED BY <1>1, <2>1 DEF Traced, Standing, ProofsStand
<1>4. \A c \in Batch : request'[c].seen[o] = "unread"
  BY <1>2, Alone
<1> DEFINE r == [order[o] EXCEPT !.status = "returned"]
<1>5. r.status = "returned" /\ r.tx = order[o].tx /\ r.batch = order[o].batch
  <2>1. RowOK(order[o])
    BY <1>3 DEF IInv, OrdersOK
  <2> QED BY <2>1 DEF RowOK
<1>6. order' = [order EXCEPT ![o] = r]
  BY <1>1 DEF SetStatus, IInv, OrdersOK
<1> HIDE DEF r
<1>7. \A p \in Order : order'[p] = IF p = o THEN r ELSE order[p]
  BY <1>6 DEF IInv, OrdersOK
<1>8. \A p \in Order : Settled(p)
  <2>1. \A p \in Order : p # o => Settled(p)
    BY <1>7, SameIsSettled DEF Same
  <2>2. Settled(o)
    BY <1>3, <1>4, <1>5, <1>7 DEF Settled, Back
  <2> QED BY <2>1, <2>2
<1>9. Traced'
  BY <1>2, <1>8, RequestIdle, SettledTraces
<1>10. \A u \in Tx : posting'[u].state = "return" => posting[u].state = "return" \/ u = t
  <2> SUFFICES ASSUME NEW u \in Tx, posting'[u].state = "return", u # t
               PROVE  posting[u].state = "return"
    OBVIOUS
  <2>1. PostingOK(u)
    BY DEF Standing, PostingsOK
  <2>2. CASE u = order[o].tx
    BY <1>1, <2>2, NotPayingRow
  <2>3. CASE u # order[o].tx
    BY <1>1, <2>3
  <2> QED BY <2>2, <2>3
<1>11. t \in Tx => TxAmount[t] = -TxAmount[order[o].tx]
  BY <1>1, PaymentsAssumption DEF IsReturnCredit
<1> HIDE DEF t
<1>12. ASSUME NEW n \in Int PROVE Cardinality(CreditsOf(n)') <= Cardinality(ReturnsOf(n)')
  <2>0. IsFiniteSet(ReturnsOf(n)') /\ IsFiniteSet(CreditsOf(n)')
    <3>1. ReturnsOf(n)' \subseteq Order /\ CreditsOf(n)' \subseteq Tx
      BY DEF ReturnsOf, CreditsOf
    <3> QED BY <3>1, FS_Subset, PaymentsAssumption
  <2>1. Cardinality(CreditsOf(n)) <= Cardinality(ReturnsOf(n))
    BY DEF Matched
  <2>2. CASE -TxAmount[order[o].tx] = n
    <3>1. CreditsOf(n)' \subseteq CreditsOf(n) \cup {t}
      BY <1>10 DEF CreditsOf
    <3>2. ReturnsOf(n)' = ReturnsOf(n) \cup {o}
      BY <1>3, <1>5, <1>7, <2>2 DEF ReturnsOf, Status, Back
    <3>3. o \notin ReturnsOf(n)
      BY <1>3 DEF ReturnsOf, Status, Executed, Back
    <3>4. IsFiniteSet(CreditsOf(n)) /\ IsFiniteSet(ReturnsOf(n))
      BY FiniteCounts
    <3>5. Cardinality(ReturnsOf(n)') = Cardinality(ReturnsOf(n)) + 1
      BY <3>2, <3>3, <3>4, FS_AddElement
    <3>6. Cardinality(CreditsOf(n)') <= Cardinality(CreditsOf(n)) + 1
      <4>1. IsFiniteSet(CreditsOf(n) \cup {t})
        BY <3>4, FS_AddElement
      <4>2. Cardinality(CreditsOf(n)') <= Cardinality(CreditsOf(n) \cup {t})
        BY <3>1, <4>1, FS_Subset
      <4>3. Cardinality(CreditsOf(n) \cup {t})
              \in {Cardinality(CreditsOf(n)), Cardinality(CreditsOf(n)) + 1}
        BY <3>4, FS_AddElement
      <4>4. Cardinality(CreditsOf(n)) \in Nat /\ Cardinality(CreditsOf(n)') \in Nat
        BY <2>0, <3>4, FS_CardinalityType
      <4> QED BY <4>2, <4>3, <4>4
    <3>7. /\ Cardinality(CreditsOf(n)') \in Nat /\ Cardinality(CreditsOf(n)) \in Nat
          /\ Cardinality(ReturnsOf(n)) \in Nat
      BY <2>0, <3>4, FS_CardinalityType
    <3> QED BY <2>1, <3>5, <3>6, <3>7
  <2>3. CASE -TxAmount[order[o].tx] # n
    <3>1. CreditsOf(n)' \subseteq CreditsOf(n)
      BY <1>10, <1>11, <2>3 DEF CreditsOf
    <3>2. ReturnsOf(n) \subseteq ReturnsOf(n)'
      BY <1>8 DEF ReturnsOf, Status, Settled
    <3> QED BY <2>0, <2>1, <3>1, <3>2, CountsMatch
  <2> QED BY <2>2, <2>3
<1> QED BY <1>9, <1>12 DEF Matched

LEMMA TracedInit == Init => Traced /\ Matched
<1> SUFFICES ASSUME Init PROVE Traced /\ Matched
  OBVIOUS
<1>1. \A o \in Order : order[o].tx = NoTx
  BY DEF Init, NoRow
<1>2. \A b \in Batch, o \in Order : request[b].seen[o] = "unread"
  BY IdleType DEF Init
<1>3. Traced
  BY <1>1, <1>2 DEF Traced, Executed
<1>4. \A n \in Int : CreditsOf(n) = {} /\ ReturnsOf(n) = {}
  BY <1>1, NotPayingRow DEF Init, CreditsOf, ReturnsOf
<1>5. Matched
  BY <1>4, FS_EmptySet DEF Matched
<1> QED BY <1>3, <1>5

LEMMA TracedNext ==
  ASSUME IInv, Standing, Traced, Matched, [Next]_vars
  PROVE  Traced' /\ Matched'
<1> DEFINE Goal == Traced' /\ Matched'
<1>same. ASSUME UNCHANGED <<order, posting>>,
                UNCHANGED request \/ \E b \in Batch : request' = [request EXCEPT ![b] = Idle]
         PROVE  Goal
  <2>1. \A o \in Order : Settled(o)
    BY <1>same, SameIsSettled DEF Same
  <2> QED BY <1>same, <2>1, SettledStep
<1>1. CASE UNCHANGED vars
  BY <1>1, <1>same DEF vars
<1>2. ASSUME NEW o \in Order,
             \/ \E i \in Item : order_from_invoice(o, i)
             \/ \E amount, payee : change_order(o, amount, payee)
             \/ \E u \in User : approve(u, o)
             \/ cancel_order(o)
      PROVE  Goal
  BY <1>2, PreparationTraces
<1>3. ASSUME NEW b \in Batch, NEW os \in SUBSET Order, create_batch_start(b, os) PROVE Goal
  <2> DEFINE q == [call |-> "export", seen |-> Read(os), tx |-> NoTx]
  <2>1. /\ q.call = "export" /\ q.seen = Read(os)
        /\ request' = [request EXCEPT ![b] = q] /\ UNCHANGED <<order, posting>>
    BY <1>3 DEF create_batch_start
  <2> HIDE DEF q
  <2> QED BY <2>1, ReadTraces
<1>4. ASSUME NEW b \in Batch, create_batch_commit(b) PROVE Goal
  BY <1>4, ExportCommitTraces
<1>5. ASSUME NEW b \in Batch, download_batch_file(b) \/ abort(b) PROVE Goal
  BY <1>5, <1>same DEF download_batch_file, abort
<1>6. ASSUME NEW b \in Batch, submit_batch_start(b) PROVE Goal
  <2> DEFINE q == [call |-> "submit", seen |-> Read(OrdersOf(b)), tx |-> NoTx]
  <2>1. /\ q.seen = Read(OrdersOf(b)) /\ OrdersOf(b) \in SUBSET Order
        /\ request' = [request EXCEPT ![b] = q] /\ UNCHANGED <<order, posting>>
    BY <1>6 DEF submit_batch_start, OrdersOf
  <2> HIDE DEF q
  <2> QED BY <2>1, ReadTraces
<1>7. ASSUME NEW b \in Batch, NEW call \in StatusCall, NEW t \in Tx \cup {NoTx},
             NEW os \in SUBSET OrdersOf(b), bank_status_start(b, call, os, t)
      PROVE  Goal
  <2> DEFINE q == [call |-> call, seen |-> Read(os), tx |-> t]
  <2>1. /\ q.seen = Read(os) /\ os \in SUBSET Order
        /\ request' = [request EXCEPT ![b] = q] /\ UNCHANGED <<order, posting>>
    BY <1>7 DEF bank_status_start, OrdersOf
  <2> HIDE DEF q
  <2> QED BY <2>1, ReadTraces
<1>8. ASSUME NEW b \in Batch,
             submit_batch_commit(b) \/ record_acceptance(b) \/ record_rejection(b)
      PROVE  Goal
  BY <1>8, AnswerTraces
<1>9. ASSUME NEW b \in Batch, record_execution(b) PROVE Goal
  BY <1>9, ExecutionTraces
<1>10. ASSUME NEW b \in Batch, record_return(b) PROVE Goal
  BY <1>10, ReturnTraces
<1>11. ASSUME NEW o \in Order, NEW answer \in {"accepted_by_bank", "rejected"},
              import_report(o, answer)
       PROVE  Goal
  BY <1>11, ReportTraces
<1>12. ASSUME NEW t \in Tx,
              reverse_payment(t) \/ \E plan \in Plan : book_payment(t, plan)
       PROVE  Goal
  BY <1>12, BookingTraces
<1>13. ASSUME NEW i \in Item, reverse_invoice(i) PROVE Goal
  BY <1>13, ReversalTraces
<1> QED
  BY <1>1, <1>2, <1>3, <1>4, <1>5, <1>6, <1>7, <1>8, <1>9, <1>10, <1>11, <1>12, <1>13 DEF Next

LEMMA TracedAlways == Spec => [](Traced /\ Matched)
<1>1. IInv /\ Standing /\ (Traced /\ Matched) /\ [Next]_vars => (Traced /\ Matched)'
  BY TracedNext
<1> QED BY <1>1, TracedInit, SafeAlways, StandingAlways, PTL DEF Spec

\* D38: however often a return is reported, a credit of the bank is used up only by an order
\* that came back with its amount (`record_return', and every status written after it).
THEOREM CreditsCloseReturns == Spec => []CreditsMatchReturns
<1>1. Traced /\ Matched => CreditsMatchReturns
  <2> SUFFICES ASSUME Matched, NEW n \in 1..MaxAmount
               PROVE  Cardinality({t \in Tx : posting[t].state = "return" /\ TxAmount[t] = n})
                        <= Cardinality({o \in Order : order[o].tx # NoTx
                                          /\ -TxAmount[order[o].tx] = n
                                          /\ Status(o) \in {"returned", "rejected"}})
    BY DEF CreditsMatchReturns
  <2>1. n \in Int
    OBVIOUS
  <2> QED BY <2>1 DEF Matched, CreditsOf, ReturnsOf, Back
<1> QED BY <1>1, TracedAlways, PTL
-----------------------------------------------------------------------------
(* Types, and what is paid on a payable.                                   *)

\* Only identifiers nobody has used yet name no payable.
ItemsNamed == \A o \in Order : order[o].status # "absent" => order[o].item \in Item

OrdersTyped == order \in [Order -> OrderRow] /\ ItemsNamed

\* The part of a transaction in what is paid on a payable.
Part(i) ==
  [t \in Tx |-> IF Live(t) THEN posting[t].plan[i] ELSE 0]

BooksOK == posting \in [Tx -> Posting] /\ voided \subseteq Item /\ PaidWithinPayable

LEMMA MaxAmountBounds ==
  MaxAmount \in Nat /\ \A i \in Item : Gross[i] \in Nat /\ Gross[i] <= MaxAmount
<1> DEFINE G == {Gross[i] : i \in Item}
           S == {0} \cup G
<1>1. \A i \in Item : Gross[i] \in Nat /\ Gross[i] \in S
  BY PaymentsAssumption
<1>2. S \in SUBSET Nat /\ S # {}
  BY <1>1
<1>3. IsFiniteSet(S)
  <2>1. IsFiniteSet(Item)
    BY PaymentsAssumption
  <2>2. IsFiniteSet(G)
    <3> DEFINE f == [i \in Item |-> Gross[i]]
    <3>1. f \in Surjection(Item, G)
      BY DEF Surjection
    <3> QED BY <2>1, <3>1, FS_Surjection DEF ExistsSurjection
  <2>3. IsFiniteSet({0})
    BY FS_Singleton
  <2> HIDE DEF G
  <2> QED BY <2>2, <2>3, FS_Union
<1>4. MaxAmount = Max(S)
  BY DEF MaxAmount
<1> HIDE DEF S
<1>5. PICK m \in S : \A n \in S : n <= m
  BY <1>2, <1>3, LargestNatural
<1>6. \A n \in S : m >= n
  BY <1>2, <1>5
<1>7. Max(S) \in S /\ \A n \in S : Max(S) >= n
  BY <1>6 DEF Max
<1> QED BY <1>1, <1>2, <1>4, <1>7

LEMMA PartType ==
  ASSUME posting \in [Tx -> Posting], NEW i \in Item
  PROVE  \A t \in Tx : Part(i)[t] \in Nat
BY MaxAmountBounds DEF Part, Posting, Plan

\* What is paid on a payable, added up over all transactions; the same after a step.
LEMMA SettledIsSum ==
  ASSUME NEW i
  PROVE  /\ settled(i) = SumFunctionOnSet(Part(i), Tx)
         /\ settled(i)' = SumFunctionOnSet(Part(i)', Tx)
BY DEF settled, Part, SumFunction

LEMMA SettledNat ==
  ASSUME posting \in [Tx -> Posting], NEW i \in Item PROVE settled(i) \in Nat
BY SettledIsSum, PartType, SumCovers, PaymentsAssumption

\* The rest of a payable is an amount: never negative, never above the largest.
LEMMA RestIsAmount ==
  ASSUME BooksOK, NEW i \in Item
  PROVE  remaining(i) \in 0..MaxAmount
<1>1. settled(i) \in Nat /\ Gross[i] \in Nat /\ Gross[i] <= MaxAmount /\ MaxAmount \in Nat
  BY SettledNat, MaxAmountBounds DEF BooksOK
<1> QED BY <1>1 DEF remaining, BooksOK, PaidWithinPayable

\* A plan takes from no payable more than its rest.
LEMMA PlanWithinRests ==
  ASSUME BooksOK, NEW plan \in Plan, NEW t, NEW o, Settles(t, plan, o), NEW i \in Item
  PROVE  plan[i] \in Nat /\ plan[i] <= remaining(i) /\ remaining(i) \in Nat
<1>1. plan[i] \in 0..MaxAmount /\ remaining(i) \in 0..MaxAmount /\ MaxAmount \in Nat
  BY RestIsAmount, MaxAmountBounds DEF Plan
<1>2. plan[i] > 0 => plan[i] <= remaining(i)
  BY DEF Settles
<1> QED BY <1>1, <1>2

\* A booking of a transaction that settles nothing yet, within the rests of its payables.
LEMMA SettlesWithinPayable ==
  ASSUME BooksOK, UNCHANGED voided, NEW t \in Tx, NEW plan \in Plan,
         NEW o \in Order \cup {NoOrder},
         posting[t].state # "live", Settles(t, plan, o)
  PROVE  BooksOK'
<1> DEFINE r == [state |-> "live", plan |-> plan, owner |-> o]
<1>1. posting' = [posting EXCEPT ![t] = r]
  BY DEF Settles
<1>2. r \in Posting /\ r.state = "live" /\ r.plan = plan
  BY DEF Posting
<1> HIDE DEF r
<1>3. posting' \in [Tx -> Posting] /\ \A u \in Tx : posting'[u] = IF u = t THEN r ELSE posting[u]
  BY <1>1, <1>2 DEF BooksOK
<1>4. ASSUME NEW j \in Item
      PROVE  settled(j)' = settled(j) + plan[j]
  <2> DEFINE f == Part(j)
             g == Part(j)'
  <2>1. settled(j) = SumFunctionOnSet(f, Tx) /\ settled(j)' = SumFunctionOnSet(g, Tx)
    BY SettledIsSum
  <2>2. \A u \in Tx : f[u] \in Int
    BY PartType DEF BooksOK
  <2>3. \A u \in Tx : u # t => f[u] = g[u]
    BY <1>3 DEF Part, Live
  <2>4. f[t] = 0 /\ g[t] = plan[j]
    BY <1>2, <1>3 DEF Part, Live
  <2>5. plan[j] \in Int
    BY PlanWithinRests
  <2> HIDE DEF f, g
  <2>6. \A u \in Tx : g[u] \in Int
    BY <2>2, <2>3, <2>4, <2>5
  <2>7. \A u \in Tx : f[u] \in Int /\ g[u] \in Int
    BY <2>2, <2>6
  <2>8. \A u \in Tx \ {t} : f[u] = g[u]
    BY <2>3
  <2>9. SumFunctionOnSet(g, Tx) = SumFunctionOnSet(f, Tx) + (g[t] - f[t])
    BY <2>7, <2>8, SumChange, PaymentsAssumption
  <2>10. SumFunctionOnSet(f, Tx) \in Int
    BY <2>2, SumInt, PaymentsAssumption
  <2> QED BY <2>1, <2>4, <2>5, <2>9, <2>10
<1>5. ASSUME NEW j \in Item
      PROVE  settled(j)' <= IF j \in voided THEN 0 ELSE Gross[j]
  <2>1. settled(j) \in Nat /\ settled(j) <= (IF j \in voided THEN 0 ELSE Gross[j])
    BY SettledNat DEF BooksOK, PaidWithinPayable
  <2>2. Gross[j] \in Nat /\ plan[j] \in Nat
    BY MaxAmountBounds, PlanWithinRests
  <2>3. plan[j] <= IF j \in voided THEN 0 ELSE Gross[j] - settled(j)
    BY PlanWithinRests DEF remaining
  <2> QED BY <1>4, <2>1, <2>2, <2>3
<1> QED BY <1>3, <1>5 DEF BooksOK, PaidWithinPayable

\* Bookings that only leave force never pay more.
LEMMA LessWithinPayable ==
  ASSUME BooksOK, voided' \subseteq Item,
         \A i \in voided' : i \in voided \/ settled(i) = 0,
         posting' \in [Tx -> Posting],
         \A t \in Tx : posting'[t] = posting[t] \/ posting'[t].state # "live"
  PROVE  BooksOK'
<1> SUFFICES ASSUME NEW i \in Item
             PROVE  settled(i)' <= IF i \in voided' THEN 0 ELSE Gross[i]
  BY DEF BooksOK, PaidWithinPayable
<1> DEFINE f == Part(i)
           g == Part(i)'
<1>1. settled(i) = SumFunctionOnSet(f, Tx)
  BY SettledIsSum
<1>2. settled(i)' = SumFunctionOnSet(g, Tx)
  BY SettledIsSum
<1>3. \A t \in Tx : f[t] \in Nat
  BY PartType DEF BooksOK
<1>4. \A t \in Tx : g[t] = f[t] \/ g[t] = 0
  BY DEF Part, Live
<1> HIDE DEF f, g
<1>5. SumFunctionOnSet(g, Tx) <= SumFunctionOnSet(f, Tx)
  <2>1. \A t \in Tx : g[t] \in Int /\ f[t] \in Int /\ g[t] <= f[t]
    BY <1>3, <1>4
  <2> QED BY <2>1, SumAtMost, PaymentsAssumption
<1>6. settled(i)' \in Nat /\ settled(i) \in Nat
  <2>1. \A t \in Tx : g[t] \in Nat
    BY <1>3, <1>4
  <2> QED BY <1>1, <1>2, <1>3, <2>1, SumCovers, PaymentsAssumption
<1>7. settled(i) <= (IF i \in voided THEN 0 ELSE Gross[i])
  BY DEF BooksOK, PaidWithinPayable
<1>8. Gross[i] \in Nat
  BY MaxAmountBounds
<1> QED BY <1>1, <1>2, <1>5, <1>6, <1>7, <1>8

LEMMA BooksUnchanged == BooksOK /\ UNCHANGED <<posting, voided>> => BooksOK'
BY DEF BooksOK, PaidWithinPayable, settled, Live

FilesTyped == file \in [Batch -> {"none", "generated", "downloaded", "submitted"}]

Typed == OrdersTyped /\ BooksOK /\ FilesTyped

\* One order gets a new row.
LEMMA OneTyped ==
  ASSUME OrdersTyped, NEW o \in Order, NEW r \in OrderRow, r.item \in Item,
         order' = [order EXCEPT ![o] = r]
  PROVE  OrdersTyped'
BY DEF OrdersTyped, ItemsNamed

\* Several orders somebody has used get new rows for their payables.
LEMMA ManyTyped ==
  ASSUME OrdersTyped, order' = [o \in Order |-> order'[o]],
         \A o \in Order :
           \/ order'[o] = order[o]
           \/ /\ order[o].status # "absent"
              /\ order'[o] \in OrderRow /\ order'[o].item = order[o].item
  PROVE  OrdersTyped'
BY DEF OrdersTyped, ItemsNamed

LEMMA StatusTyped ==
  ASSUME NEW r \in OrderRow, NEW s \in OrderStatus
  PROVE  /\ [r EXCEPT !.status = s] \in OrderRow
         /\ [r EXCEPT !.status = s].item = r.item
         /\ [r EXCEPT !.status = s, !.approvals = {}] \in OrderRow
         /\ [r EXCEPT !.status = s, !.approvals = {}].item = r.item
BY DEF OrderRow

LEMMA NoRowTyped == NoRow \in OrderRow /\ NoRow.status = "absent"
<1>1. [amount |-> 0, payee |-> FirstPayee] \in Snapshot
  BY MaxAmountBounds, PaymentsAssumption DEF Snapshot
<1> QED BY <1>1 DEF NoRow, OrderRow, OrderStatus

LEMMA NewOrderTyped ==
  ASSUME OrdersTyped, BooksOK, NEW o \in Order, NEW i \in Item, order_from_invoice(o, i)
  PROVE  OrdersTyped'
<1> DEFINE n == NoRow
           x == remaining(i)
           r == [n EXCEPT !.status = "draft", !.item = i, !.fields.amount = x]
<1>1. n \in OrderRow
  BY NoRowTyped
<1>2. x \in 0..MaxAmount
  BY RestIsAmount
<1>3. order' = [order EXCEPT ![o] = r]
  BY DEF order_from_invoice
<1> HIDE DEF n, x
<1>4. r \in OrderRow /\ r.item = i
  BY <1>1, <1>2 DEF OrderRow, OrderStatus, Active, Snapshot
<1> HIDE DEF r
<1> QED BY <1>3, <1>4, OneTyped

LEMMA ChangeTyped ==
  ASSUME OrdersTyped, NEW o \in Order, NEW amount \in 0..MaxAmount, NEW payee \in Payee,
         change_order(o, amount, payee)
  PROVE  OrdersTyped'
<1> DEFINE new == [amount |-> amount, payee |-> payee]
           r == invalidate([order[o] EXCEPT !.fields = new])
<1>1. new \in Snapshot
  BY DEF Snapshot
<1>2. order[o] \in OrderRow /\ order[o].status # "absent" /\ order[o].item \in Item
  BY DEF change_order, Changeable, Status, OrdersTyped, ItemsNamed
<1>3. order' = [order EXCEPT ![o] = r]
  BY DEF change_order, OrdersTyped
<1> HIDE DEF new
<1>4. r \in OrderRow /\ r.item = order[o].item
  BY <1>1, <1>2 DEF invalidate, OrderRow, OrderStatus, Active
<1> HIDE DEF r
<1> QED BY <1>2, <1>3, <1>4, OneTyped

LEMMA ApproveTyped ==
  ASSUME IInv, OrdersTyped, NEW o \in Order, NEW u \in User, approve(u, o)
  PROVE  OrdersTyped'
<1> DEFINE a == [user |-> u, fields |-> order[o].fields]
<1>1. PICK s \in {order[o].status, "approved"} :
        order' = [order EXCEPT ![o] =
                    [order[o] EXCEPT !.approvals = @ \cup {a}, !.status = s]]
  BY ApproveRow
<1> DEFINE r == [order[o] EXCEPT !.approvals = @ \cup {a}, !.status = s]
<1>2. order[o] \in OrderRow /\ order[o].status # "absent" /\ order[o].item \in Item
  BY DEF approve, Changeable, Status, OrdersTyped, ItemsNamed
<1>3. a \in [user: User, fields: Snapshot] /\ s \in OrderStatus
  BY <1>2 DEF OrderRow, OrderStatus, Active
<1>4. order' = [order EXCEPT ![o] = r]
  BY <1>1
<1> HIDE DEF a
<1>5. r \in OrderRow /\ r.item = order[o].item
  BY <1>2, <1>3 DEF OrderRow
<1> HIDE DEF r
<1> QED BY <1>2, <1>4, <1>5, OneTyped

LEMMA CancelTyped ==
  ASSUME OrdersTyped, NEW o \in Order, cancel_order(o)
  PROVE  OrdersTyped'
<1> DEFINE r == [order[o] EXCEPT !.status = "cancelled", !.approvals = {}]
<1>1. order[o] \in OrderRow /\ order[o].status # "absent" /\ order[o].item \in Item
  BY DEF cancel_order, Changeable, Status, OrdersTyped, ItemsNamed
<1>2. order' = [order EXCEPT ![o] = r]
  BY DEF cancel_order, OrdersTyped
<1>3. r \in OrderRow /\ r.item = order[o].item
  BY <1>1, StatusTyped DEF OrderStatus
<1> HIDE DEF r
<1> QED BY <1>1, <1>2, <1>3, OneTyped

\* What a request has read is an order somebody has used.
LEMMA SeenIsUsed ==
  ASSUME IInv, NEW b \in Batch, NEW o \in Order, request[b].seen[o] # "unread"
  PROVE  order[o].status # "absent" /\ request[b].seen[o] \in OrderStatus
<1>1. request[b].seen[o] \in OrderStatus
  BY DEF IInv, RequestsOK, Request
<1>2. CASE order[o].batch # NoBatch
  BY <1>1, <1>2 DEF IInv, OrdersOK, Early
<1>3. CASE order[o].batch = NoBatch
  BY <1>1, <1>3 DEF IInv, RequestsOK
<1> QED BY <1>2, <1>3

LEMMA ExportCommitTyped ==
  ASSUME IInv, OrdersTyped, NEW b \in Batch, create_batch_commit(b)
  PROVE  OrdersTyped'
<1>1. order' = [o \in Order |->
        IF o \in OrdersIn(b) THEN [order[o] EXCEPT !.status = "exported", !.batch = b]
        ELSE order[o]]
  BY DEF create_batch_commit
<1>2. ASSUME NEW o \in Order
      PROVE  \/ order'[o] = order[o]
             \/ /\ order[o].status # "absent"
                /\ order'[o] \in OrderRow /\ order'[o].item = order[o].item
  <2>1. CASE o \notin OrdersIn(b)
    BY <1>1, <2>1
  <2>2. CASE o \in OrdersIn(b)
    <3>1. order[o] \in OrderRow /\ order[o].status # "absent"
      BY <2>2, SeenIsUsed DEF OrdersIn, OrdersTyped
    <3>2. order'[o] = [order[o] EXCEPT !.status = "exported", !.batch = b]
      BY <1>1, <2>2
    <3> QED BY <3>1, <3>2 DEF OrderRow, OrderStatus, Active, HandedOver
  <2> QED BY <2>1, <2>2
<1>3. order' = [o \in Order |-> order'[o]]
  BY <1>1
<1> QED BY <1>2, <1>3, ManyTyped

\* What a request writes over what it has read.
LEMMA WriteTyped ==
  ASSUME IInv, OrdersTyped, NEW b \in Batch, NEW f, \A s \in OrderStatus : f[s] \in OrderStatus,
         order' = Write(request[b].seen, f)
  PROVE  OrdersTyped'
<1>1. ASSUME NEW o \in Order
      PROVE  \/ order'[o] = order[o]
             \/ /\ order[o].status # "absent"
                /\ order'[o] \in OrderRow /\ order'[o].item = order[o].item
  <2> SUFFICES ASSUME order'[o] # order[o]
               PROVE  /\ order[o].status # "absent"
                      /\ order'[o] \in OrderRow /\ order'[o].item = order[o].item
    OBVIOUS
  <2> DEFINE s == request[b].seen[o]
  <2>1. s # "unread" /\ order'[o] = [order[o] EXCEPT !.status = f[s]]
    BY DEF Write
  <2>2. order[o].status # "absent" /\ s \in OrderStatus /\ order[o] \in OrderRow
    BY <2>1, SeenIsUsed DEF OrdersTyped
  <2> HIDE DEF s
  <2>3. f[s] \in OrderStatus
    BY <2>2
  <2>4. /\ [order[o] EXCEPT !.status = f[s]] \in OrderRow
        /\ [order[o] EXCEPT !.status = f[s]].item = order[o].item
    BY <2>2, <2>3, StatusTyped
  <2> QED BY <2>1, <2>2, <2>4
<1>2. order' = [o \in Order |-> order'[o]]
  BY DEF Write
<1> QED BY <1>1, <1>2, ManyTyped

LEMMA AnswerTyped ==
  ASSUME IInv, OrdersTyped, NEW b \in Batch,
         submit_batch_commit(b) \/ record_acceptance(b) \/ record_rejection(b)
  PROVE  OrdersTyped'
<1>1. CASE submit_batch_commit(b)
  <2>1. \A s \in OrderStatus : AfterSubmit[s] \in OrderStatus
    BY DEF AfterSubmit, OrderStatus, Active, HandedOver
  <2> QED BY <1>1, <2>1, WriteTyped DEF submit_batch_commit
<1>2. CASE record_acceptance(b)
  <2> DEFINE f == [s \in OrderStatus |-> IF Acceptable(s) THEN request[b].call ELSE s]
  <2>1. \A s \in OrderStatus : f[s] \in OrderStatus
    BY <1>2 DEF record_acceptance, OrderStatus, Active, HandedOver
  <2>2. order' = Write(request[b].seen, f)
    BY <1>2 DEF record_acceptance
  <2> HIDE DEF f
  <2> QED BY <2>1, <2>2, WriteTyped
<1>3. CASE record_rejection(b)
  <2> DEFINE f == [s \in OrderStatus |-> "rejected"]
  <2>1. \A s \in OrderStatus : f[s] \in OrderStatus
    BY DEF OrderStatus
  <2>2. order' = Write(request[b].seen, f)
    BY <1>3 DEF record_rejection
  <2> HIDE DEF f
  <2> QED BY <2>1, <2>2, WriteTyped
<1> QED BY <1>1, <1>2, <1>3

\* An order's debit is a plan on its payable.
LEMMA ProvenPlan ==
  ASSUME OrdersTyped, NEW o \in Order, order[o].status # "absent", NEW t \in Tx, Proves(t, o)
  PROVE  [NoPlan EXCEPT ![order[o].item] = -TxAmount[t]] \in Plan
<1>1. Amount(o) \in 0..MaxAmount /\ MaxAmount \in Nat
  BY MaxAmountBounds DEF OrdersTyped, Amount, OrderRow, Snapshot
<1>2. TxAmount[t] \in Int
  BY PaymentsAssumption
<1>3. -TxAmount[t] \in 0..MaxAmount
  BY <1>1, <1>2 DEF Proves
<1>4. order[o].item \in Item
  BY DEF OrdersTyped, ItemsNamed
<1>5. NoPlan \in [Item -> 0..MaxAmount]
  BY <1>1 DEF NoPlan
<1> QED BY <1>3, <1>4, <1>5 DEF Plan

\* B08, D37: an execution books its debit within the rest of the payable.
LEMMA ExecutionTyped ==
  ASSUME IInv, Standing, OrdersTyped, BooksOK, NEW b \in Batch, record_execution(b)
  PROVE  OrdersTyped' /\ BooksOK'
<1> DEFINE t == request[b].tx
<1>1. PICK o \in OrdersIn(b), s \in Executed :
        /\ order' = [order EXCEPT ![o] = [order[o] EXCEPT !.tx = t, !.status = s]]
        /\ Proves(t, o) /\ Unbooked(t)
        /\ Settles(t, [NoPlan EXCEPT ![order[o].item] = -TxAmount[t]], o)
  BY ExecutionRow
<1>2. t \in Tx /\ voided' = voided
  BY DEF record_execution, IInv, RequestsOK, Request, Standing, ProofGiven
<1>3. o \in Order /\ order[o].status # "absent"
  BY SeenIsUsed DEF OrdersIn
<1>4. order[o] \in OrderRow /\ order[o].item \in Item
  BY <1>3 DEF OrdersTyped, ItemsNamed
<1> HIDE DEF t
<1>5. OrdersTyped'
  <2> DEFINE r == [order[o] EXCEPT !.tx = t, !.status = s]
  <2>1. s \in OrderStatus
    BY DEF OrderStatus
  <2>2. r \in OrderRow /\ r.item = order[o].item
    BY <1>2, <1>4, <2>1 DEF OrderRow
  <2>3. order' = [order EXCEPT ![o] = r]
    BY <1>1
  <2> HIDE DEF r
  <2> QED BY <1>3, <1>4, <2>2, <2>3, OneTyped
<1> DEFINE plan == [NoPlan EXCEPT ![order[o].item] = -TxAmount[t]]
<1>6. plan \in Plan
  BY <1>1, <1>2, <1>3, ProvenPlan
<1>7. posting[t].state # "live" /\ Settles(t, plan, o)
  BY <1>1 DEF Unbooked
<1> HIDE DEF plan
<1>8. BooksOK'
  BY <1>2, <1>3, <1>6, <1>7, SettlesWithinPayable
<1> QED BY <1>5, <1>8

LEMMA NotPayingTyped ==
  ASSUME NEW s \in {"new", "reversed", "return"}
  PROVE  NotPaying(s) \in Posting /\ NotPaying(s).state # "live"
BY MaxAmountBounds DEF NotPaying, NoPlan, Plan, Posting

LEMMA ReturnTyped ==
  ASSUME IInv, OrdersTyped, BooksOK, NEW b \in Batch, record_return(b)
  PROVE  OrdersTyped' /\ BooksOK'
<1>1. PICK o \in OrdersIn(b) :
        /\ SetStatus(o, "returned")
        /\ posting' = [u \in Tx |->
             IF u = order[o].tx THEN NotPaying("reversed")
             ELSE IF u = request[b].tx THEN NotPaying("return") ELSE posting[u]]
  BY DEF record_return
<1>2. o \in Order /\ order[o].status # "absent" /\ voided' = voided
  BY SeenIsUsed DEF OrdersIn, record_return
<1>3. OrdersTyped'
  <2> DEFINE r == [order[o] EXCEPT !.status = "returned"]
  <2>1. order[o] \in OrderRow /\ order[o].item \in Item
    BY <1>2 DEF OrdersTyped, ItemsNamed
  <2>2. r \in OrderRow /\ r.item = order[o].item
    BY <2>1, StatusTyped DEF OrderStatus
  <2>3. order' = [order EXCEPT ![o] = r]
    BY <1>1, <1>2 DEF SetStatus, OrdersTyped
  <2> HIDE DEF r
  <2> QED BY <1>2, <2>1, <2>2, <2>3, OneTyped
<1>4. \A u \in Tx : /\ posting'[u] \in Posting
                    /\ posting'[u] = posting[u] \/ posting'[u].state # "live"
  <2> SUFFICES ASSUME NEW u \in Tx
               PROVE  /\ posting'[u] \in Posting
                      /\ posting'[u] = posting[u] \/ posting'[u].state # "live"
    OBVIOUS
  <2>1. posting[u] \in Posting
    BY DEF BooksOK
  <2>2. posting'[u] \in {posting[u], NotPaying("reversed"), NotPaying("return")}
    BY <1>1
  <2> QED BY <2>1, <2>2, NotPayingTyped
<1>5. posting' \in [Tx -> Posting]
  BY <1>1, <1>4
<1>6. BooksOK'
  BY <1>2, <1>4, <1>5, LessWithinPayable DEF BooksOK
<1> QED BY <1>3, <1>6

LEMMA ReportTyped ==
  ASSUME OrdersTyped, NEW o \in Order, NEW answer \in {"accepted_by_bank", "rejected"},
         import_report(o, answer)
  PROVE  OrdersTyped'
<1> DEFINE r == [order[o] EXCEPT !.status = answer]
<1>1. order[o] \in OrderRow /\ order[o].item \in Item /\ answer \in OrderStatus
  BY DEF import_report, Status, HandedOver, OrdersTyped, ItemsNamed, OrderStatus, Active
<1>2. r \in OrderRow /\ r.item = order[o].item
  BY <1>1, StatusTyped
<1>3. order' = [order EXCEPT ![o] = r]
  BY DEF import_report, SetStatus, OrdersTyped
<1> HIDE DEF r
<1> QED BY <1>1, <1>2, <1>3, OneTyped

LEMMA BookTyped ==
  ASSUME BooksOK, NEW t \in Tx, NEW plan \in Plan, book_payment(t, plan)
  PROVE  BooksOK'
BY SettlesWithinPayable DEF book_payment

LEMMA ReversePaymentTyped ==
  ASSUME BooksOK, NEW t \in Tx, reverse_payment(t)
  PROVE  BooksOK'
<1>1. posting' = [posting EXCEPT ![t] = NotPaying("reversed")] /\ voided' = voided
  BY DEF reverse_payment
<1>2. /\ posting' \in [Tx -> Posting]
      /\ \A u \in Tx : posting'[u] = posting[u] \/ posting'[u].state # "live"
  BY <1>1, NotPayingTyped DEF BooksOK
<1> QED BY <1>1, <1>2, LessWithinPayable DEF BooksOK

\* The reversal of an invoice closes its payable only when nothing is paid on it.
LEMMA ReversalTyped ==
  ASSUME OrdersTyped, BooksOK, NEW i \in Item, reverse_invoice(i)
  PROVE  OrdersTyped' /\ BooksOK'
<1>1. /\ order' = [o \in Order |->
           IF o \in WaitingOrders(i)
           THEN [order[o] EXCEPT !.status = "cancelled", !.approvals = {}] ELSE order[o]]
      /\ voided' = voided \cup {i} /\ settled(i) = 0 /\ posting' = posting
  BY DEF reverse_invoice
<1>2. ASSUME NEW o \in Order
      PROVE  \/ order'[o] = order[o]
             \/ /\ order[o].status # "absent"
                /\ order'[o] \in OrderRow /\ order'[o].item = order[o].item
  <2>1. CASE o \notin WaitingOrders(i)
    BY <1>1, <2>1
  <2>2. CASE o \in WaitingOrders(i)
    <3>1. order[o] \in OrderRow /\ order[o].status # "absent"
      BY <2>2 DEF WaitingOrders, Status, Active, HandedOver, OrdersTyped
    <3>2. order'[o] = [order[o] EXCEPT !.status = "cancelled", !.approvals = {}]
      BY <1>1, <2>2
    <3>3. "cancelled" \in OrderStatus
      BY DEF OrderStatus
    <3> QED BY <3>1, <3>2, <3>3, StatusTyped
  <2> QED BY <2>1, <2>2
<1>3. order' = [o \in Order |-> order'[o]]
  BY <1>1
<1>4. OrdersTyped'
  BY <1>2, <1>3, ManyTyped
<1>5. BooksOK'
  BY <1>1, LessWithinPayable DEF BooksOK
<1> QED BY <1>4, <1>5

LEMMA TypedInit == Init => Typed
<1> SUFFICES ASSUME Init PROVE Typed
  OBVIOUS
<1>0. MaxAmount \in Nat
  BY MaxAmountBounds
<1>1. OrdersTyped
  BY NoRowTyped DEF Init, OrdersTyped, ItemsNamed
<1>2. posting \in [Tx -> Posting] /\ \A t \in Tx : posting[t].state # "live"
  BY NotPayingTyped DEF Init
<1>3. ASSUME NEW i \in Item PROVE settled(i) = 0
  <2>1. \A t \in Tx : Part(i)[t] = 0
    BY <1>2 DEF Part, Live
  <2> QED BY <2>1, SettledIsSum, SumZero, PaymentsAssumption
<1>4. BooksOK
  BY <1>2, <1>3, MaxAmountBounds DEF Init, BooksOK, PaidWithinPayable
<1>5. FilesTyped
  BY DEF Init, FilesTyped
<1> QED BY <1>1, <1>4, <1>5 DEF Typed

LEMMA TypedNext ==
  ASSUME IInv, Standing, Typed, [Next]_vars
  PROVE  Typed'
<1> USE DEF Typed
<1>orders. UNCHANGED order => OrdersTyped'
  BY DEF OrdersTyped, ItemsNamed
<1>files. UNCHANGED file => FilesTyped'
  BY DEF FilesTyped
<1>1. CASE UNCHANGED vars
  BY <1>1, <1>orders, <1>files, BooksUnchanged DEF vars
<1>2. ASSUME NEW o \in Order, NEW i \in Item, order_from_invoice(o, i) PROVE Typed'
  BY <1>2, <1>files, NewOrderTyped, BooksUnchanged DEF order_from_invoice
<1>3. ASSUME NEW o \in Order, NEW amount \in 0..MaxAmount, NEW payee \in Payee,
             change_order(o, amount, payee)
      PROVE  Typed'
  BY <1>3, <1>files, ChangeTyped, BooksUnchanged DEF change_order
<1>4. ASSUME NEW o \in Order, NEW u \in User, approve(u, o) PROVE Typed'
  BY <1>4, <1>files, ApproveTyped, BooksUnchanged DEF approve
<1>5. ASSUME NEW o \in Order, cancel_order(o) PROVE Typed'
  BY <1>5, <1>files, CancelTyped, BooksUnchanged DEF cancel_order
<1>6. ASSUME NEW b \in Batch, NEW os \in SUBSET Order, create_batch_start(b, os) PROVE Typed'
  BY <1>6, <1>orders, <1>files, BooksUnchanged DEF create_batch_start
<1>7. ASSUME NEW b \in Batch, create_batch_commit(b) PROVE Typed'
  <2>1. FilesTyped'
    BY <1>7 DEF create_batch_commit, FilesTyped
  <2> QED BY <1>7, <2>1, ExportCommitTyped, BooksUnchanged DEF create_batch_commit
<1>8. ASSUME NEW b \in Batch, download_batch_file(b) \/ submit_batch_start(b) \/ abort(b)
      PROVE  Typed'
  <2>1. FilesTyped'
    BY <1>8, <1>files DEF download_batch_file, submit_batch_start, abort, FilesTyped
  <2> QED BY <1>8, <2>1, <1>orders, BooksUnchanged
       DEF download_batch_file, submit_batch_start, abort
<1>9. ASSUME NEW b \in Batch, NEW call \in StatusCall, NEW t \in Tx \cup {NoTx},
             NEW os \in SUBSET OrdersOf(b), bank_status_start(b, call, os, t)
      PROVE  Typed'
  BY <1>9, <1>orders, <1>files, BooksUnchanged DEF bank_status_start
<1>10. ASSUME NEW b \in Batch,
              submit_batch_commit(b) \/ record_acceptance(b) \/ record_rejection(b)
       PROVE  Typed'
  <2>1. FilesTyped' /\ UNCHANGED <<posting, voided>>
    BY <1>10, <1>files DEF submit_batch_commit, record_acceptance, record_rejection, FilesTyped
  <2> QED BY <1>10, <2>1, AnswerTyped, BooksUnchanged
<1>11. ASSUME NEW b \in Batch, record_execution(b) PROVE Typed'
  BY <1>11, <1>files, ExecutionTyped DEF record_execution
<1>12. ASSUME NEW b \in Batch, record_return(b) PROVE Typed'
  BY <1>12, <1>files, ReturnTyped DEF record_return
<1>13. ASSUME NEW o \in Order, NEW answer \in {"accepted_by_bank", "rejected"},
              import_report(o, answer)
       PROVE  Typed'
  BY <1>13, <1>files, ReportTyped, BooksUnchanged DEF import_report
<1>14. ASSUME NEW t \in Tx, NEW plan \in Plan, book_payment(t, plan) PROVE Typed'
  BY <1>14, <1>orders, <1>files, BookTyped DEF book_payment
<1>15. ASSUME NEW t \in Tx, reverse_payment(t) PROVE Typed'
  BY <1>15, <1>orders, <1>files, ReversePaymentTyped DEF reverse_payment
<1>16. ASSUME NEW i \in Item, reverse_invoice(i) PROVE Typed'
  BY <1>16, <1>files, ReversalTyped DEF reverse_invoice
<1> QED
  BY <1>1, <1>2, <1>3, <1>4, <1>5, <1>6, <1>7, <1>8, <1>9, <1>10, <1>11, <1>12,
     <1>13, <1>14, <1>15, <1>16 DEF Next

LEMMA TypedAlways == Spec => []Typed
<1>1. IInv /\ Standing /\ Typed /\ [Next]_vars => Typed'
  BY TypedNext
<1> QED BY <1>1, TypedInit, SafeAlways, StandingAlways, PTL DEF Spec

\* Every reachable table of orders, bookings and files is well typed: among other
\* things no order and no booking ever has a negative amount, or one above the
\* largest payable, and every order in use names its payable.
THEOREM TypeCorrect == Spec => []TypeOK
<1>1. IInv /\ Typed => TypeOK
  BY DEF Typed, OrdersTyped, BooksOK, FilesTyped, IInv, RequestsOK, TypeOK
<1> QED BY <1>1, SafeAlways, TypedAlways, PTL

\* B08, D37: the postings in force on a payable never exceed it, and none is left on
\* a reversed one, through partial executions, manual bookings, returns, stale
\* answers of the bank and second orders for the rest.
THEOREM PaidStaysWithinPayable == Spec => []PaidWithinPayable
<1>1. Typed => PaidWithinPayable
  BY DEF Typed, BooksOK
<1> QED BY <1>1, TypedAlways, PTL
-----------------------------------------------------------------------------
(* The bookings implement OpenItems.                                       *)

\* Both modules sum alike.
LEMMA ItemsSum == \A f : Items!SumFunction(f) = SumFunction(f)
BY Zenon DEF SumFunction, SumFunctionOnSet, FoldFunctionOnSet, MapThenFoldSet,
   Items!SumFunction, Items!SumFunctionOnSet, Items!FoldFunctionOnSet, Items!MapThenFoldSet

\* The mapped functions are functions, before and after a step.
LEMMA MappedFunctions ==
  /\ DocumentState = [p \in Document |-> DocumentState[p]]
  /\ DocumentState' = [p \in Document |-> DocumentState'[p]]
  /\ Booked = [p \in Document |-> Booked[p]] /\ Booked' = [p \in Document |-> Booked'[p]]
  BY DEF DocumentState, Booked

\* How a payable and a transaction are mapped.
LEMMA MappedDocuments ==
  /\ \A i \in Item : i \in Document /\ i \notin Tx
  /\ \A i \in Item : /\ DocumentState[i] = IF i \in voided THEN "taken back" ELSE "in force"
                     /\ DocumentState'[i] = IF i \in voided' THEN "taken back" ELSE "in force"
                     /\ Booked[i] = NoPlan /\ Booked'[i] = NoPlan
  /\ \A t \in Tx : /\ t \in Document /\ t \notin Item
                   /\ DocumentState[t] = IF Live(t) THEN "in force"
                        ELSE IF posting[t].state = "reversed" THEN "taken back" ELSE "new"
                   /\ Booked[t] = IF Live(t) THEN posting[t].plan ELSE NoPlan
<1>1. Item \cap Tx = {}
  BY PaymentsAssumption
<1> QED BY <1>1 DEF Document, DocumentState, Booked

LEMMA MappedAfter ==
  \A t \in Tx : /\ DocumentState'[t] = IF posting'[t].state = "live" THEN "in force"
                     ELSE IF posting'[t].state = "reversed" THEN "taken back" ELSE "new"
                /\ Booked'[t] = IF posting'[t].state = "live" THEN posting'[t].plan ELSE NoPlan
<1>1. Item \cap Tx = {}
  BY PaymentsAssumption
<1> QED BY <1>1 DEF Document, DocumentState, Booked, Live

LEMMA SameRowMapped ==
  ASSUME NEW t \in Tx, posting'[t] = posting[t]
  PROVE  DocumentState'[t] = DocumentState[t] /\ Booked'[t] = Booked[t]
<1>1. /\ DocumentState[t] = IF posting[t].state = "live" THEN "in force"
           ELSE IF posting[t].state = "reversed" THEN "taken back" ELSE "new"
      /\ Booked[t] = IF posting[t].state = "live" THEN posting[t].plan ELSE NoPlan
  BY MappedDocuments DEF Live
<1> QED BY <1>1, MappedAfter

LEMMA RestIsRemaining ==
  ASSUME BooksOK, NEW i \in Item
  PROVE  Items!rest(i) = remaining(i)
<1> DEFINE f == [p \in Document |-> Booked[p][i]]
<1>1. IsFiniteSet(Document) /\ Tx \subseteq Document /\ IsFiniteSet(Tx)
  BY PaymentsAssumption, FS_Union DEF Document
<1>2. ASSUME NEW p \in Tx PROVE f[p] = Part(i)[p] /\ f[p] \in Int
  <2>1. f[p] = IF Live(p) THEN posting[p].plan[i] ELSE 0
    BY <1>1, MappedDocuments DEF NoPlan
  <2>2. f[p] = Part(i)[p]
    BY <2>1 DEF Part
  <2> QED BY <2>2, PartType DEF BooksOK
<1>3. \A p \in Document \ Tx : f[p] = 0
  BY MappedDocuments DEF Document, NoPlan
<1>4. Items!paid(i) = SumFunction(f)
  BY ItemsSum DEF Items!paid
<1>5. SumFunction(f) = SumFunctionOnSet(f, Document)
  BY DEF SumFunction
<1> HIDE DEF f
<1>6. SumFunctionOnSet(f, Document) = SumFunctionOnSet(f, Tx)
  <2>1. \A p \in Document : f[p] \in Int
    BY <1>2, <1>3
  <2> QED BY <1>1, <1>3, <2>1, SumOverPart
<1>7. SumFunctionOnSet(f, Tx) = SumFunctionOnSet(Part(i), Tx)
  BY <1>1, <1>2, SumSame
<1>8. Items!paid(i) = settled(i)
  BY <1>4, <1>5, <1>6, <1>7, SettledIsSum
<1>9. Items!InForce([j \in Item |-> j][i]) <=> i \notin voided
  BY MappedDocuments DEF Items!InForce
<1> QED BY <1>8, <1>9 DEF Items!rest, remaining

LEMMA ItemsInit == Init => Items!Init
<1> SUFFICES ASSUME Init PROVE Items!Init
  OBVIOUS
<1>1. Gross \in [Item -> Nat]
  BY PaymentsAssumption
<1>2. \A t \in Tx : posting[t].state = "new"
  BY NotPayingRow DEF Init
<1>3. Booked = [p \in Document |-> NoPlan]
  BY <1>2 DEF Booked, Live
<1>4. DocumentState \in [Document -> {"new", "in force"}]
  BY <1>2 DEF Init, DocumentState, Document, Live
<1> QED BY <1>1, <1>3, <1>4 DEF Items!Init, Items!Nothing, NoPlan

LEMMA SameBooks == UNCHANGED <<posting, voided>> => UNCHANGED Items!vars
BY DEF Items!vars, DocumentState, Booked, Live

\* A booking takes from the rests of the payables of its plan, all at once.
LEMMA BookingPosts ==
  ASSUME BooksOK, UNCHANGED voided, NEW t \in Tx, NEW plan \in Plan, NEW o,
         posting[t].state \in {"new", "reversed"}, Settles(t, plan, o)
  PROVE  Items!Post(t)
<1> DEFINE r == [state |-> "live", plan |-> plan, owner |-> o]
<1>1. posting' = [posting EXCEPT ![t] = r]
  BY DEF Settles
<1>2. r.state = "live" /\ r.plan = plan
  OBVIOUS
<1> HIDE DEF r
<1>3. \A u \in Tx : posting'[u] = IF u = t THEN r ELSE posting[u]
  BY <1>1 DEF BooksOK
<1>4. /\ DocumentState[t] \in {"new", "taken back"} /\ DocumentState'[t] = "in force"
      /\ Booked'[t] = plan
  BY <1>2, <1>3, MappedDocuments, MappedAfter DEF Live
<1>5. \A p \in Document \ {t} : DocumentState'[p] = DocumentState[p] /\ Booked'[p] = Booked[p]
  <2>1. ASSUME NEW u \in Tx, u # t
        PROVE  DocumentState'[u] = DocumentState[u] /\ Booked'[u] = Booked[u]
    BY <1>3, <2>1, SameRowMapped
  <2> QED BY <2>1, MappedDocuments DEF Document
<1>6. DocumentState' = [DocumentState EXCEPT ![t] = "in force"]
  BY <1>4, <1>5, MappedFunctions
<1>7. Booked' = [Booked EXCEPT ![t] = Booked'[t]]
  BY <1>5, MappedFunctions
<1>8. \A i \in Item : ~Items!Raises(t, i)
  BY MappedDocuments DEF Items!Raises
<1>9. Gross \in [Item -> Nat]
  BY PaymentsAssumption
<1>10. Gross = [i \in Item |-> IF Items!Raises(t, i) THEN Gross[i] ELSE Gross[i]]
  BY <1>9
<1>11. ASSUME NEW i \in Item PROVE Gross[i] \in Nat /\ Booked'[t][i] \in 0..Items!rest(i)
  <2>1. plan[i] \in Nat /\ plan[i] <= remaining(i) /\ remaining(i) \in Nat
    BY PlanWithinRests
  <2>2. plan[i] \in 0..remaining(i)
    BY <2>1
  <2> QED BY <1>4, <1>9, <2>2, RestIsRemaining
<1> QED
  BY <1>4, <1>6, <1>7, <1>8, <1>10, <1>11 DEF Items!Post, Items!MayComeIntoForce

\* A booking that leaves force gives back all it had taken.
LEMMA LeavingTakesBack ==
  ASSUME BooksOK, UNCHANGED voided, NEW t \in Tx, Live(t),
         posting'[t] = NotPaying("reversed"),
         \A u \in Tx \ {t} : \/ posting'[u] = posting[u]
                             \/ posting[u].state = "new" /\ posting'[u] = NotPaying("return")
  PROVE  Items!TakeBack(t)
<1>1. /\ DocumentState[t] = "in force" /\ DocumentState'[t] = "taken back"
      /\ Booked'[t] = NoPlan
  BY MappedDocuments, MappedAfter, NotPayingRow
<1>2. ASSUME NEW u \in Tx \ {t}
      PROVE  DocumentState'[u] = DocumentState[u] /\ Booked'[u] = Booked[u]
  <2>1. CASE posting'[u] = posting[u]
    BY <2>1, SameRowMapped
  <2>2. CASE posting[u].state = "new" /\ posting'[u] = NotPaying("return")
    BY <2>2, NotPayingRow, MappedDocuments, MappedAfter DEF Live
  <2> QED BY <2>1, <2>2
<1>3. \A p \in Document \ {t} : DocumentState'[p] = DocumentState[p] /\ Booked'[p] = Booked[p]
  BY <1>2, MappedDocuments DEF Document
<1>4. DocumentState' = [DocumentState EXCEPT ![t] = "taken back"]
  BY <1>1, <1>3, MappedFunctions
<1>5. Booked' = [Booked EXCEPT ![t] = Items!Nothing]
  BY <1>1, <1>3, MappedFunctions DEF Items!Nothing, NoPlan
<1>6. \A i \in Item : ~Items!Raises(t, i)
  BY MappedDocuments DEF Items!Raises
<1> QED BY <1>1, <1>4, <1>5, <1>6 DEF Items!TakeBack, Items!InForce

LEMMA ExecutionPosts ==
  ASSUME IInv, Standing, OrdersTyped, BooksOK, NEW b \in Batch, record_execution(b)
  PROVE  \E t \in Tx : Items!Post(t)
<1> DEFINE t == request[b].tx
<1>1. PICK o \in OrdersIn(b), s \in Executed :
        /\ order' = [order EXCEPT ![o] = [order[o] EXCEPT !.tx = t, !.status = s]]
        /\ Proves(t, o) /\ Unbooked(t)
        /\ Settles(t, [NoPlan EXCEPT ![order[o].item] = -TxAmount[t]], o)
  BY ExecutionRow
<1>2. t \in Tx /\ voided' = voided
  BY DEF record_execution, IInv, RequestsOK, Request, Standing, ProofGiven
<1>3. o \in Order /\ order[o].status # "absent"
  BY SeenIsUsed DEF OrdersIn
<1> HIDE DEF t
<1>4. [NoPlan EXCEPT ![order[o].item] = -TxAmount[t]] \in Plan
  BY <1>1, <1>2, <1>3, ProvenPlan
<1>5. posting[t].state \in {"new", "reversed"}
  BY <1>1 DEF Unbooked
<1> QED BY <1>1, <1>2, <1>4, <1>5, BookingPosts

LEMMA ReturnTakesBack ==
  ASSUME IInv, Standing, Traced, BooksOK, NEW b \in Batch, record_return(b)
  PROVE  \E t \in Tx : Items!TakeBack(t)
<1>1. PICK o \in OrdersIn(b) :
        /\ request[b].seen[o] \in Executed
        /\ Live(order[o].tx)
        /\ request[b].tx # NoTx => IsReturnCredit(request[b].tx, o)
        /\ posting' = [u \in Tx |->
             IF u = order[o].tx THEN NotPaying("reversed")
             ELSE IF u = request[b].tx THEN NotPaying("return") ELSE posting[u]]
  BY DEF record_return
<1>2. order[o].tx \in Tx
  BY <1>1 DEF OrdersIn, Traced, Standing, ProofsStand
<1>3. posting'[order[o].tx] = NotPaying("reversed")
  BY <1>1, <1>2
<1>4. ASSUME NEW u \in Tx \ {order[o].tx}
      PROVE  \/ posting'[u] = posting[u]
             \/ posting[u].state = "new" /\ posting'[u] = NotPaying("return")
  BY <1>1, PaymentsAssumption DEF IsReturnCredit, Unbooked
<1>5. voided' = voided
  BY DEF record_return
<1> QED BY <1>1, <1>2, <1>3, <1>4, <1>5, LeavingTakesBack

LEMMA ReversalOfPaymentTakesBack ==
  ASSUME BooksOK, NEW t \in Tx, reverse_payment(t)
  PROVE  Items!TakeBack(t)
<1>1. posting' = [posting EXCEPT ![t] = NotPaying("reversed")] /\ voided' = voided /\ Live(t)
  BY DEF reverse_payment
<1>2. posting'[t] = NotPaying("reversed") /\ \A u \in Tx \ {t} : posting'[u] = posting[u]
  BY <1>1 DEF BooksOK
<1> QED BY <1>1, <1>2, LeavingTakesBack

\* An invoice is reversed only while nothing in force pays its payable.
LEMMA ReversalTakesBack ==
  ASSUME BooksOK, NEW i \in Item, reverse_invoice(i)
  PROVE  Items!TakeBack(i)
<1>1. i \notin voided /\ settled(i) = 0 /\ voided' = voided \cup {i} /\ posting' = posting
  BY DEF reverse_invoice
<1>2. ASSUME NEW t \in Tx PROVE Booked[t][i] = 0
  <2>1. /\ settled(i) = SumFunctionOnSet(Part(i), Tx)
        /\ \A u \in Tx : Part(i)[u] \in Nat
    BY SettledIsSum, PartType DEF BooksOK
  <2>2. Part(i)[t] <= 0
    BY <1>1, <2>1, SumCovers, PaymentsAssumption
  <2>3. Part(i)[t] = 0
    BY <2>1, <2>2
  <2> QED BY <2>3, MappedDocuments DEF Part, NoPlan
<1>3. \A q \in Document : Booked[q][i] = 0
  <2>1. ASSUME NEW q \in Item PROVE Booked[q][i] = 0
    BY <2>1, MappedDocuments DEF NoPlan
  <2> QED BY <1>2, <2>1 DEF Document
<1>4. \A j \in Item : Items!Raises(i, j) => j = i
  BY DEF Items!Raises
<1>5. /\ DocumentState[i] = "in force" /\ DocumentState'[i] = "taken back"
      /\ Booked[i] = NoPlan
  BY <1>1, MappedDocuments
<1>6. \A p \in Document \ {i} : DocumentState'[p] = DocumentState[p]
  BY <1>1, MappedDocuments, MappedAfter DEF Document, Live
<1>7. DocumentState' = [DocumentState EXCEPT ![i] = "taken back"]
  BY <1>5, <1>6, MappedFunctions
<1>8. Booked' = Booked
  BY <1>1 DEF Booked, Live
<1>9. Booked' = [Booked EXCEPT ![i] = Items!Nothing]
  BY <1>5, <1>8, MappedFunctions DEF Items!Nothing, NoPlan
<1> QED BY <1>3, <1>4, <1>5, <1>7, <1>9 DEF Items!TakeBack, Items!InForce

LEMMA ItemsNext ==
  ASSUME IInv, Standing, Traced, Typed, [Next]_vars
  PROVE  [Items!Next]_Items!vars
<1> USE DEF Typed
<1>0. Tx \subseteq Document /\ Item \subseteq Document
  BY DEF Document
<1>1. CASE UNCHANGED <<posting, voided>>
  BY <1>1, SameBooks
<1>2. ASSUME NEW b \in Batch, record_execution(b) PROVE [Items!Next]_Items!vars
  BY <1>0, <1>2, ExecutionPosts DEF Items!Next
<1>3. ASSUME NEW b \in Batch, record_return(b) PROVE [Items!Next]_Items!vars
  BY <1>0, <1>3, ReturnTakesBack DEF Items!Next
<1>4. ASSUME NEW t \in Tx, NEW plan \in Plan, book_payment(t, plan)
      PROVE  [Items!Next]_Items!vars
  <2>1. Items!Post(t)
    BY <1>4, BookingPosts DEF book_payment
  <2> QED BY <1>0, <2>1 DEF Items!Next
<1>5. ASSUME NEW t \in Tx, reverse_payment(t) PROVE [Items!Next]_Items!vars
  BY <1>0, <1>5, ReversalOfPaymentTakesBack DEF Items!Next
<1>6. ASSUME NEW i \in Item, reverse_invoice(i) PROVE [Items!Next]_Items!vars
  BY <1>0, <1>6, ReversalTakesBack DEF Items!Next
<1>7. \/ UNCHANGED <<posting, voided>>
      \/ \E b \in Batch : record_execution(b) \/ record_return(b)
      \/ \E t \in Tx, plan \in Plan : book_payment(t, plan)
      \/ \E t \in Tx : reverse_payment(t)
      \/ \E i \in Item : reverse_invoice(i)
  BY DEF Next, vars, order_from_invoice, change_order, approve, cancel_order,
     create_batch_start, create_batch_commit, download_batch_file, submit_batch_start,
     submit_batch_commit, abort, bank_status_start, record_acceptance, record_rejection,
     import_report
<1> QED BY <1>1, <1>2, <1>3, <1>4, <1>5, <1>6, <1>7

\* B08, D37, D38: what the bank side books on payables implements OpenItems, as the
\* ledger does: an execution, or a booking by hand with all the payables it settles,
\* is one posting that takes from each no more than its rest; a return or a reversal
\* takes the whole posting back; an invoice is taken back only while nothing in force
\* pays it.
THEOREM ImplementsOpenItems == Spec => KeepsItems
<1>1. IInv /\ Standing /\ Traced /\ Typed /\ [Next]_vars => [Items!Next]_Items!vars
  BY ItemsNext
<1>2. Spec => []Traced
  BY TracedAlways, PTL
<1> QED
  BY <1>1, <1>2, ItemsInit, SafeAlways, StandingAlways, TypedAlways, PTL
  DEF Spec, KeepsItems, Items!Spec
=============================================================================
