----------------------------- MODULE MCPayments -----------------------------
(***************************************************************************)
(* Small instances of Payments for TLC.                                    *)
(***************************************************************************)
EXTENDS Payments, TLC

CONSTANTS i1, i2, o1, o2, anna, bert, admin, p1, b1, b2, t1, t2, t3

\* Every account has a person of its own; the theorems hold for shared ones too.
MCPerson == [u \in User |-> u]

\* Payables of 2.  A debit for a part of one and a credit that returns it.
MCGross == [i \in Item |-> 2]
MCTxAmount == [t \in Tx |-> IF t = t1 THEN -1 ELSE 1]
MCTxRef == [t \in Tx |-> NoOrder]

\* Two debits that each pay a payable in full, or parts of both, and a return.
BookingsTxAmount == [t \in Tx |-> IF t = t3 THEN 2 ELSE -2]

\* The names of orders and files mean nothing.
MCSymmetry == Permutations(Order) \cup Permutations(Batch)

\* Nor do those of payables and transactions that are alike.
BookingsSymmetry == Permutations(Item) \cup Permutations(Debits)
=============================================================================
