------------------------------ MODULE OpenItems ------------------------------
(***************************************************************************)
(* What the books promise about open items (rules B03, B08), without dates *)
(* and settlement rows.  A posting comes into force as a whole: it raises  *)
(* any number of items and pays parts of the rests of others at once.  It  *)
(* is taken back as a whole, and only while nothing in force pays what it  *)
(* raised: its items have no rest any more and what it paid is due again.  *)
(* The general ledger (Ledger) and the bookings of bank transactions       *)
(* (Payments) implement this.                                              *)
(***************************************************************************)
EXTENDS Integers, Functions

CONSTANTS
  Item,     \* what can be paid
  Posting,  \* what raises items and pays them
  RaisedBy  \* the posting of each item

VARIABLES
  state,   \* of each posting
  amount,  \* the amount of each item, 0 while it was not raised
  book     \* book[p][i]: what posting p pays of item i

vars == <<state, amount, book>>

Nothing == [i \in Item |-> 0]

InForce(p) == state[p] = "in force"

paid(i) == SumFunction([p \in Posting |-> book[p][i]])

rest(i) == IF InForce(RaisedBy[i]) THEN amount[i] - paid(i) ELSE 0

\* Some items may be there from before; nothing is paid yet.
Init ==
  /\ state \in [Posting -> {"new", "in force"}]
  /\ amount \in [Item -> Nat]
  /\ book = [p \in Posting |-> Nothing]

-----------------------------------------------------------------------------
Raises(p, i) == RaisedBy[i] = p

\* What raised an item comes into force once.  What raised nothing may be
\* booked again after it was taken back.
MayComeIntoForce(p) ==
  \/ state[p] = "new"
  \/ state[p] = "taken back" /\ \A i \in Item : ~Raises(p, i)

\* No item is paid beyond its rest, and none by the posting that raises it.
Post(p) ==
  /\ MayComeIntoForce(p)
  /\ state' = [state EXCEPT ![p] = "in force"]
  /\ amount' = [i \in Item |-> IF Raises(p, i) THEN amount'[i] ELSE amount[i]]
  /\ book' = [book EXCEPT ![p] = book'[p]]
  /\ \A i \in Item : amount'[i] \in Nat /\ book'[p][i] \in 0..rest(i)

TakeBack(p) ==
  /\ InForce(p)
  /\ \A i \in Item : Raises(p, i) => \A q \in Posting : book[q][i] = 0
  /\ state' = [state EXCEPT ![p] = "taken back"]
  /\ book' = [book EXCEPT ![p] = Nothing]
  /\ UNCHANGED amount

Next == \E p \in Posting : Post(p) \/ TakeBack(p)

Spec == Init /\ [][Next]_vars
=============================================================================
