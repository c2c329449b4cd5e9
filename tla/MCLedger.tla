------------------------------ MODULE MCLedger ------------------------------
(***************************************************************************)
(* Small ledgers for TLC: a debtor and a creditor account, entries that    *)
(* raise items on one or both of them, and entries that settle items on    *)
(* one or both, with a choice of days and plans, across a change of fiscal *)
(* year.                                                                   *)
(***************************************************************************)
EXTENDS Ledger, TLC

CONSTANTS e1, e2, e3, tenant, supplier

MCFiscalYear == [d \in Day |-> IF d = 1 THEN 2025 ELSE 2026]

NoPlan == [x \in Item |-> 0]

\* A document that moves the tenant by t and the supplier by s.
Doc(kind, day, t, s) ==
  [kind |-> kind, day |-> day, move |-> tenant :> t @@ supplier :> s, plan |-> NoPlan]

Settling(doc, plan) == [doc EXCEPT !.plan = plan @@ NoPlan]

\* An invoice that raises a receivable and a payable, or a reclassified credit,
\* which raises the payable only.  A payment of two receivables, one on both
\* accounts at once, one with the movement on the wrong account.  A payment that
\* competes for the receivable, an entry that raises a receivable and settles the
\* payable, and an opening balance.
MixedInput ==
  (e1 :> {Doc("item", 1, 2, -1), Doc("credit_reclass", 1, 2, -1)}) @@
  (e2 :> {Settling(Doc("payment", 2, -2, 0), <<e1, tenant>> :> 1 @@ <<e3, tenant>> :> 1),
          Settling(Doc("payment", 1, -2, 1), <<e1, tenant>> :> 2 @@ <<e1, supplier>> :> 1),
          Settling(Doc("payment", 1, 0, 2), <<e1, tenant>> :> 1)}) @@
  (e3 :> {Settling(Doc("payment", 2, -2, 0), <<e1, tenant>> :> 2),
          Settling(Doc("item", 2, 1, 1), <<e1, supplier>> :> 1),
          Doc("opening_balance", 1, 1, 0)})

\* The names of people mean nothing.
People == Permutations(User)
=============================================================================
