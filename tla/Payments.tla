------------------------------ MODULE Payments ------------------------------
(***************************************************************************)
(* Payment orders of one bank account (mhvp.banking.payments and the       *)
(* payment part of mhvp.banking.routers): orders from posted invoices, the *)
(* check by two persons, payment files, the answers of the bank, execution *)
(* and return against bank transactions, and the reversal of an invoice    *)
(* while orders for it exist.                                              *)
(*                                                                         *)
(* A request is one transaction.  Most of them lock the orders they work   *)
(* on and are one step.  Two kinds are not: generating a file locks its    *)
(* orders but reads the others of the day for the bank limit without a     *)
(* lock; submitting a file and recording an answer of the bank lock the    *)
(* file and read its orders without a lock, so a status report (pain.002)  *)
(* may commit between their reading and their writing.  Each is a step     *)
(* that starts the request and one that commits or aborts it.              *)
(*                                                                         *)
(* The ledger enters through what module Ledger shows of it: the rest of a *)
(* payable is its amount less the live postings that settle it.            *)
(* Invoices carry no cash discount here; gate G2 is open.                  *)
(***************************************************************************)
EXTENDS Integers, FiniteSets, FiniteSetsExt, Functions

CONSTANTS
  Item,          \* payables, each of one posted invoice
  Gross,         \* amount of each payable
  Order,         \* identifiers of payment orders
  User,          \* accounts of people with the right to approve
  Person,        \* the person behind each account (same e-mail or contact)
  PlatformAdmin, \* accounts of platform administrators
  Payee,         \* confirmed IBANs of the payee
  FirstPayee,    \* the IBAN on the invoice
  Batch,         \* identifiers of payment files
  Tx,            \* imported bank transactions of the account
  TxAmount,      \* their amount, negative for a debit
  TxRef,         \* their end to end reference: an order or NoOrder
  DailyLimit,    \* limit agreed with the bank for the execution date
  NoItem, NoOrder, NoBatch, NoTx

ASSUME PaymentsAssumption ==
  /\ Gross \in [Item -> Nat \ {0}]
  /\ Person \in [User -> User]
  /\ PlatformAdmin \subseteq User
  /\ FirstPayee \in Payee
  /\ IsFiniteSet(Item) /\ IsFiniteSet(Order) /\ IsFiniteSet(Tx)
  /\ TxAmount \in [Tx -> Int]
  /\ TxRef \in [Tx -> Order \cup {NoOrder}]
  /\ DailyLimit \in Nat
  /\ Item \cap Tx = {}
  /\ NoItem \notin Item /\ NoOrder \notin Order
  /\ NoBatch \notin Batch /\ NoTx \notin Tx

VARIABLES
  order,    \* the payment_order rows with their valid approvals
  posting,  \* what each bank transaction is booked to
  voided,   \* payables whose invoice posting was reversed
  file,     \* state of each payment file
  request   \* the request in flight on each file

vars == <<order, posting, voided, file, request>>

HandedOver == {"exported", "submitted", "accepted_by_bank"}
Active     == {"draft", "approved"} \cup HandedOver
Executed   == {"executed", "partially_executed"}
OrderStatus == {"absent"} \cup Active \cup Executed \cup {"rejected", "returned", "cancelled"}

MaxAmount == Max({0} \cup {Gross[i] : i \in Item})
Snapshot == [amount: 0..MaxAmount, payee: Payee]

OrderRow ==
  [status: OrderStatus, item: Item \cup {NoItem},
   fields: Snapshot,
   approvals: SUBSET [user: User, fields: Snapshot], \* not invalidated
   batch: Batch \cup {NoBatch}, tx: Tx \cup {NoTx}]

NoRow ==
  [status |-> "absent", item |-> NoItem,
   fields |-> [amount |-> 0, payee |-> FirstPayee],
   approvals |-> {}, batch |-> NoBatch, tx |-> NoTx]

\* What a posting settles of each payable.
Plan == [Item -> 0..MaxAmount]

NoPlan == [i \in Item |-> 0]

\* A transaction is new, booked, booked and reversed, or closes a return.
\* `owner' is the order whose execution it was booked for, if any.
Posting ==
  [state: {"new", "live", "reversed", "return"}, plan: Plan, owner: Order \cup {NoOrder}]

\* One that pays nothing: not booked yet, reversed, or a return.
NotPaying(state) == [state |-> state, plan |-> NoPlan, owner |-> NoOrder]

StatusCall == {"submitted", "accepted_by_bank", "rejected", "executed", "returned"}

\* The orders of a request with the status it read; `tx' is the given proof.
Request ==
  [call: {"idle", "export", "submit"} \cup StatusCall,
   seen: [Order -> OrderStatus \cup {"unread"}], tx: Tx \cup {NoTx}]

Idle == [call |-> "idle", seen |-> [o \in Order |-> "unread"], tx |-> NoTx]

TypeOK ==
  /\ order \in [Order -> OrderRow]
  /\ posting \in [Tx -> Posting]
  /\ voided \subseteq Item
  /\ file \in [Batch -> {"none", "generated", "downloaded", "submitted"}]
  /\ request \in [Batch -> Request]

Init ==
  /\ order = [o \in Order |-> NoRow]
  /\ posting = [t \in Tx |-> NotPaying("new")]
  /\ voided = {}
  /\ file = [b \in Batch |-> "none"]
  /\ request = [b \in Batch |-> Idle]

-----------------------------------------------------------------------------
Status(o) == order[o].status

Live(t) == posting[t].state = "live"

settled(i) == SumFunction([t \in Tx |-> IF Live(t) THEN posting[t].plan[i] ELSE 0])

\* A reversed invoice posting closes its payable in full.
WholeItem(i) == IF i \in voided THEN 0 ELSE Gross[i]          \* mutant of remaining
SumOfBoth(i) == IF i \in voided THEN 0 ELSE Gross[i] + settled(i)  \* mutant of remaining
remaining(i) == IF i \in voided THEN 0 ELSE Gross[i] - settled(i)

OrdersIn(b) == {o \in Order : request[b].seen[o] # "unread"}

\* Rows locked by a file generation in flight; others wait for them.
Locked(o) == \E b \in Batch : request[b].call = "export" /\ o \in OrdersIn(b)

valid_approvals(o) == {a \in order[o].approvals : a.fields = order[o].fields}

Approvers(o) == {a.user : a \in valid_approvals(o)}

\* The orders as a request reads them.
Read(os) == [o \in Order |-> IF o \in os THEN Status(o) ELSE "unread"]

SetStatus(o, s) == order' = [order EXCEPT ![o].status = s]

-----------------------------------------------------------------------------
(* Orders until they are approved.                                         *)

NoOpenOrder(i) == \A o \in Order : order[o].item = i => Status(o) \notin Active

\* Creation locks the payable; the amount is its rest, which may be zero.
order_from_invoice(o, i) ==
  /\ Status(o) = "absent"
  /\ NoOpenOrder(i)
  /\ order' = [order EXCEPT ![o] =
       [NoRow EXCEPT !.status = "draft", !.item = i, !.fields.amount = remaining(i)]]
  /\ UNCHANGED <<posting, voided, file, request>>

\* A change of a payment relevant field voids the approvals.
invalidate(row) ==
  [row EXCEPT !.approvals = {},
              !.status = IF @ = "approved" THEN "draft" ELSE @]

ChangeableUntilSubmitted(s) == s \in {"draft", "approved", "exported"} \* mutant
Changeable(s) == s \in {"draft", "approved"}

change_order(o, amount, payee) ==
  LET new == [amount |-> amount, payee |-> payee] IN
  /\ Changeable(Status(o)) /\ ~Locked(o)
  /\ amount # order[o].fields.amount => amount \in 1..remaining(order[o].item)
  /\ new # order[o].fields
  /\ order' = [order EXCEPT ![o] = invalidate([@ EXCEPT !.fields = new])]
  /\ UNCHANGED <<posting, voided, file, request>>

AnyAccount(u) == TRUE                                         \* mutant of MayApprove
MayApprove(u) == u \notin PlatformAdmin

\* Four eyes need two persons, not two accounts.
DifferentPerson(u, o) == \A v \in Approvers(o) : Person[u] # Person[v]

approve(u, o) ==
  /\ Changeable(Status(o)) /\ ~Locked(o)
  /\ MayApprove(u)
  /\ u \notin Approvers(o)  \* a repeated click changes nothing
  /\ DifferentPerson(u, o)
  /\ order' = [order EXCEPT
       ![o].approvals = @ \cup {[user |-> u, fields |-> order[o].fields]},
       ![o].status = IF Cardinality(Approvers(o) \cup {u}) >= 2 THEN "approved" ELSE @]
  /\ UNCHANGED <<posting, voided, file, request>>

cancel_order(o) ==
  /\ Changeable(Status(o)) /\ ~Locked(o)
  /\ order' = [order EXCEPT ![o] = [@ EXCEPT !.status = "cancelled", !.approvals = {}]]
  /\ UNCHANGED <<posting, voided, file, request>>

-----------------------------------------------------------------------------
(* Payment files.                                                          *)

Amount(o) == order[o].fields.amount

Counted == HandedOver \cup Executed
DayTotal(os) == MapThenSumSet(Amount, os)
AlreadyOut == {o \in Order : Status(o) \in Counted}

WithinLimit(os) == DayTotal(os \cup AlreadyOut) <= DailyLimit

Releasable(o) == Status(o) = "approved" /\ Cardinality(Approvers(o)) >= 2

\* validate_pain001: the file is refused when an amount is not positive.
AnyAmount(os) == TRUE                                         \* mutant
ValidFile(os) == \A o \in os : Amount(o) > 0

create_batch_start(b, os) ==
  /\ file[b] = "none" /\ request[b] = Idle /\ os # {}
  /\ \A o \in os : Releasable(o) /\ ~Locked(o)
  /\ WithinLimit(os)
  /\ ValidFile(os)
  /\ request' = [request EXCEPT ![b] =
       [call |-> "export", seen |-> Read(os), tx |-> NoTx]]
  /\ UNCHANGED <<order, posting, voided, file>>

create_batch_commit(b) ==
  LET os == OrdersIn(b) IN
  /\ request[b].call = "export"
  /\ order' = [o \in Order |->
       IF o \in os THEN [order[o] EXCEPT !.status = "exported", !.batch = b] ELSE order[o]]
  /\ file' = [file EXCEPT ![b] = "generated"]
  /\ request' = [request EXCEPT ![b] = Idle]
  /\ UNCHANGED <<posting, voided>>

OrdersOf(b) == {o \in Order : order[o].batch = b}

\* The file may be handed out any number of times, whatever became of it.
download_batch_file(b) ==
  /\ file[b] = "generated" /\ request[b] = Idle
  /\ file' = [file EXCEPT ![b] = "downloaded"]
  /\ UNCHANGED <<order, posting, voided, request>>

\* What an ORM session writes: only the attributes it changed.
Write(seen, new) ==
  [o \in Order |->
     IF seen[o] # "unread" /\ new[seen[o]] # seen[o]
     THEN [order[o] EXCEPT !.status = new[seen[o]]] ELSE order[o]]

submit_batch_start(b) ==
  /\ file[b] = "downloaded" /\ request[b] = Idle
  /\ request' = [request EXCEPT ![b] =
       [call |-> "submit", seen |-> Read(OrdersOf(b)), tx |-> NoTx]]
  /\ UNCHANGED <<order, posting, voided, file>>

AfterSubmit == [s \in OrderStatus |-> IF s = "exported" THEN "submitted" ELSE s]

submit_batch_commit(b) ==
  /\ request[b].call = "submit"
  /\ order' = Write(request[b].seen, AfterSubmit)
  /\ file' = [file EXCEPT ![b] = "submitted"]
  /\ request' = [request EXCEPT ![b] = Idle]
  /\ UNCHANGED <<posting, voided>>

\* A refused check, a lost connection or a crash rolls a request back.
abort(b) ==
  /\ request[b] # Idle
  /\ request' = [request EXCEPT ![b] = Idle]
  /\ UNCHANGED <<order, posting, voided, file>>

-----------------------------------------------------------------------------
(* Answers of the bank.                                                    *)

Debits  == {t \in Tx : TxAmount[t] < 0}
Credits == {t \in Tx : TxAmount[t] > 0}

\* A person records an answer for some orders of a file.  Execution and return
\* name one order each: a second one could not use the same transaction.  A
\* transaction of the wrong sign is refused and leaves nothing behind.
bank_status_start(b, call, os, t) ==
  /\ file[b] # "none" /\ request[b] = Idle
  /\ os \subseteq OrdersOf(b) /\ os # {}
  /\ call \in {"executed", "returned"} => Cardinality(os) = 1
  /\ call = "executed" => t \in Debits
  /\ call = "returned" => t \in Credits \cup {NoTx}
  /\ call \notin {"executed", "returned"} => t = NoTx
  /\ request' = [request EXCEPT ![b] = [call |-> call, seen |-> Read(os), tx |-> t]]
  /\ UNCHANGED <<order, posting, voided, file>>

AcceptableAsRejectable(s) == s \notin Executed                 \* mutant of Acceptable
Acceptable(s) == s \in {"exported", "submitted"}

record_acceptance(b) ==
  LET r == request[b]
      new == [s \in OrderStatus |-> IF Acceptable(s) THEN r.call ELSE s]
  IN
  /\ r.call \in {"submitted", "accepted_by_bank"}
  /\ order' = Write(r.seen, new)
  /\ request' = [request EXCEPT ![b] = Idle]
  /\ UNCHANGED <<posting, voided, file>>

Rejectable(s) == s \notin Executed

record_rejection(b) ==
  LET r == request[b]
      new == [s \in OrderStatus |-> "rejected"]
  IN
  /\ r.call = "rejected"
  /\ \A o \in OrdersIn(b) : Rejectable(r.seen[o])
  /\ order' = Write(r.seen, new)
  /\ request' = [request EXCEPT ![b] = Idle]
  /\ UNCHANGED <<posting, voided, file>>

\* The debit proves the order: this account, not more than the order, no
\* other reference.
Proves(t, o) ==
  /\ TxAmount[t] < 0
  /\ -TxAmount[t] <= Amount(o)
  /\ TxRef[t] \in {NoOrder, o}

AnyTransaction(t) == posting[t].state # "return"              \* mutant
Unbooked(t) == posting[t].state = "new"

\* A posting through book_payment settles no payable above its rest.
Settles(t, plan, o) ==
  /\ \A i \in Item : plan[i] > 0 => plan[i] <= remaining(i)
  /\ posting' = [posting EXCEPT ![t] = [state |-> "live", plan |-> plan, owner |-> o]]

record_execution(b) ==
  LET r == request[b]  t == r.tx IN
  /\ r.call = "executed"
  /\ \E o \in OrdersIn(b) :
       /\ r.seen[o] \in HandedOver  \* a repeated confirmation has no effect
       /\ Proves(t, o)
       /\ Unbooked(t)
       /\ Settles(t, [NoPlan EXCEPT ![order[o].item] = -TxAmount[t]], o)
       /\ order' = [order EXCEPT ![o].tx = t,
            ![o].status = IF -TxAmount[t] = Amount(o) THEN "executed" ELSE "partially_executed"]
  /\ request' = [request EXCEPT ![b] = Idle]
  /\ UNCHANGED <<voided, file>>

IsReturnCredit(t, o) == TxAmount[t] > 0 /\ Unbooked(t) /\ TxAmount[t] = -TxAmount[order[o].tx]

\* A return reverses the posting of the execution, if it is still in force.
record_return(b) ==
  LET r == request[b]  t == r.tx IN
  /\ r.call = "returned"
  /\ \E o \in OrdersIn(b) :
       /\ r.seen[o] \in Executed
       /\ Live(order[o].tx) /\ posting[order[o].tx].owner = o
       /\ t # NoTx => IsReturnCredit(t, o)
       /\ posting' = [u \in Tx |->
            IF u = order[o].tx THEN NotPaying("reversed")
            ELSE IF u = t THEN NotPaying("return") ELSE posting[u]]
       /\ SetStatus(o, "returned")
  /\ request' = [request EXCEPT ![b] = Idle]
  /\ UNCHANGED <<voided, file>>

\* A status report (pain.002, camt.054): locks the order, touches its status.
import_report(o, answer) ==
  /\ ~Locked(o)
  /\ \/ answer = "accepted_by_bank" /\ Status(o) \in {"exported", "submitted"}
     \/ answer = "rejected" /\ Status(o) \in HandedOver
  /\ SetStatus(o, answer)
  /\ UNCHANGED <<posting, voided, file, request>>

-----------------------------------------------------------------------------
(* Bookings and reversals outside the payment run.                         *)

\* What a transaction can pay; a credit pays nothing.
Paying(t) == IF TxAmount[t] < 0 THEN -TxAmount[t] ELSE 0

\* A person books a transaction to any number of payables, what is left of it to
\* another account; one whose posting was reversed is bookable again.  No order
\* is looked at.
book_payment(t, plan) ==
  /\ posting[t].state \in {"new", "reversed"}
  /\ SumFunction(plan) <= Paying(t)
  /\ Settles(t, plan, NoOrder)
  /\ UNCHANGED <<order, voided, file, request>>

\* Reversal of a payment posting in the journal; the order is not touched.
reverse_payment(t) ==
  /\ Live(t)
  /\ posting' = [posting EXCEPT ![t] = NotPaying("reversed")]
  /\ UNCHANGED <<order, voided, file, request>>

\* Reversal of an invoice posting: not while payments are settled on it, nor
\* while an order for it is at the bank; other orders are cancelled.
WaitingOrders(i) == {o \in Order : order[o].item = i /\ Status(o) \in Active}

NoneAtTheBank(os) == \A o \in os : Status(o) \notin HandedOver

reverse_invoice(i) ==
  LET os == WaitingOrders(i) IN
  /\ i \notin voided /\ settled(i) = 0
  /\ \A o \in os : ~Locked(o)
  /\ NoneAtTheBank(os)
  /\ voided' = voided \cup {i}
  /\ order' = [o \in Order |->
       IF o \in os THEN [order[o] EXCEPT !.status = "cancelled", !.approvals = {}] ELSE order[o]]
  /\ UNCHANGED <<posting, file, request>>

Next ==
  \/ \E o \in Order, i \in Item : order_from_invoice(o, i)
  \/ \E o \in Order, amount \in 0..MaxAmount, payee \in Payee : change_order(o, amount, payee)
  \/ \E o \in Order, u \in User : approve(u, o)
  \/ \E o \in Order : cancel_order(o)
  \/ \E b \in Batch, os \in SUBSET Order : create_batch_start(b, os)
  \/ \E b \in Batch :
       create_batch_commit(b) \/ download_batch_file(b)
       \/ submit_batch_start(b) \/ submit_batch_commit(b) \/ abort(b)
  \/ \E b \in Batch, call \in StatusCall, t \in Tx \cup {NoTx} :
       \E os \in SUBSET OrdersOf(b) : bank_status_start(b, call, os, t)
  \/ \E b \in Batch :
       record_acceptance(b) \/ record_rejection(b) \/ record_execution(b) \/ record_return(b)
  \/ \E o \in Order, answer \in {"accepted_by_bank", "rejected"} : import_report(o, answer)
  \/ \E t \in Tx, plan \in Plan : book_payment(t, plan)
  \/ \E t \in Tx : reverse_payment(t)
  \/ \E i \in Item : reverse_invoice(i)

Spec == Init /\ [][Next]_vars
-----------------------------------------------------------------------------
(* Properties.                                                             *)

\* D35, D36: an order that went to the bank carries the approvals of two
\* different persons, none a platform administrator, for exactly the amount and
\* the IBAN it was sent with, whatever changes, approvals and cancellations
\* came before and whatever the bank answered since.
TwoPersonsApproved ==
  \A o \in Order : Status(o) \in Counted \cup {"rejected", "returned"} =>
    \E a, c \in order[o].approvals :
      /\ a.fields = order[o].fields /\ c.fields = order[o].fields
      /\ Person[a.user] # Person[c.user]
      /\ {a.user, c.user} \cap PlatformAdmin = {}

\* D06, D37: an order counts as executed only by a debit that belongs to it
\* alone, covers the stated part of it and was used for its payable; no report
\* and no repeated answer of the bank executes it a second time.
ExecutedByProof ==
  \A o \in Order : Status(o) \in Executed =>
    LET t == order[o].tx IN
    /\ t # NoTx
    /\ Proves(t, o)
    /\ Status(o) = "executed" <=> -TxAmount[t] = Amount(o)
    /\ posting[t].state # "new"
    /\ \A p \in Order \ {o} : order[p].tx # t

\* B08, D37: the live postings on a payable never exceed it, through partial
\* executions, bookings of one debit to several payables, returns, reversals and
\* second orders for the rest; and none is in force on a reversed payable.
PaidWithinPayable ==
  \A i \in Item : settled(i) <= IF i \in voided THEN 0 ELSE Gross[i]

\* D38: a return credit closes one return and nothing else: as many credits are
\* used as there are returned orders at most, of the same amounts.
CreditsMatchReturns ==
  \A n \in 1..MaxAmount :
    Cardinality({t \in Tx : posting[t].state = "return" /\ TxAmount[t] = n})
      <= Cardinality({o \in Order : order[o].tx # NoTx /\ -TxAmount[order[o].tx] = n
                                    /\ Status(o) \in {"returned", "rejected"}})

\* The commit of a request that read an order of its file before a status report
\* rejected it, and writes over that rejection.
StaleCommit(o) ==
  \E b \in Batch :
    /\ o \in OrdersIn(b)
    /\ request[b].seen[o] # Status(o)
    /\ request'[b] = Idle

\* An order is on its way to the bank only for a payable that stands, and alone;
\* no step breaks this except the commit that overwrites a rejection.
Proper(o) ==
  Status(o) \in Active /\ order[o].item \in Item =>
    /\ Status(o) \in HandedOver => order[o].item \notin voided
    /\ \A p \in Order \ {o} : order[p].item = order[o].item => Status(p) \notin Active

OrdersStayProper ==
  [][(\A o \in Order : Proper(o)) =>
       (\A o \in Order : Proper(o))' \/ \E o \in Order : StaleCommit(o)]_vars

\* After the hand-over the fields and the approvals of an order are frozen and it
\* never becomes changeable again, whatever the bank answers and however often.
FrozenAfterHandOver ==
  [][\A o \in Order : Status(o) \in OrderStatus \ {"absent", "draft", "approved"} =>
       /\ order'[o].fields = order[o].fields
       /\ order'[o].approvals = order[o].approvals
       /\ order'[o].batch = order[o].batch
       /\ Status(o)' \notin {"draft", "approved"}]_vars

(***************************************************************************)
(* The bookings of the transactions add up to module OpenItems, as the     *)
(* entries of Ledger do.  A payable names its own posting as well, which   *)
(* is in force from the start; a credit that closes a return posts nothing.*)
(***************************************************************************)
Document == Item \cup Tx

DocumentState ==
  [p \in Document |->
     IF p \in Item THEN IF p \in voided THEN "taken back" ELSE "in force"
     ELSE IF Live(p) THEN "in force"
     ELSE IF posting[p].state = "reversed" THEN "taken back" ELSE "new"]

Booked ==
  [p \in Document |-> IF p \in Tx /\ Live(p) THEN posting[p].plan ELSE NoPlan]

Items == INSTANCE OpenItems WITH
           Posting <- Document, RaisedBy <- [i \in Item |-> i],
           state <- DocumentState, amount <- Gross, book <- Booked

\* B08, D37, D38: executions, returns, bookings by hand and reversals keep the
\* promise on open items.  A transaction pays any number of payables at once, from
\* each no more than its rest, and gives all of it back at once; a payable is
\* taken back only while nothing in force pays it.
KeepsItems == Items!Spec
=============================================================================
