------------------------------- MODULE Ledger -------------------------------
(***************************************************************************)
(* The general ledger of one legal entity (mhvp.accounting.services):      *)
(* drafts, posting with gapless numbers, reversal, open items with dated   *)
(* settlements, and the period lock.                                       *)
(*                                                                         *)
(* A request is one database transaction.  It holds the row lock of the    *)
(* entry it works on, of the number counter and of the open items it       *)
(* settles until it commits, so the model makes each request one step,     *)
(* with one exception: posting an existing draft reads ledger.locked_until *)
(* without a lock, so a period lock may commit between that read           *)
(* (PostStart) and the commit of the posting (PostCommit).                 *)
(*                                                                         *)
(* Abstractions.  A journal entry moves every personal account (debtor or  *)
(* creditor) by `move' = debit - credit, added over its lines; its other   *)
(* lines are impersonal and balance it.  It creates at most one open item  *)
(* per account, so an item is named by its entry and its account, and by   *)
(* uq_journal_entry_reverses it has at most one reversal, which shares its *)
(* identifier.  The rows of open_item_settlement enter through what the    *)
(* code reads of them: the sum per item of the rows dated on or before a   *)
(* day.                                                                    *)
(***************************************************************************)
EXTENDS Integers, FiniteSets, Functions

CONSTANTS
  Entry,       \* identifiers of journal entries (one per draft ever written)
  Account,     \* personal accounts of the ledger
  Debtor,      \* the debtor accounts among them; the others are creditors
  User,        \* people with accounting permissions (no platform administrators)
  NoUser,      \* the SQL NULL of created_by and approved_by
  LastDay,     \* bound: booking dates are 1..LastDay
  FiscalYear,  \* the fiscal year of each day
  Input        \* bound: the contents a user may enter under each identifier

Day  == 1..LastDay
Year == {FiscalYear[d] : d \in Day}

\* <<e, a>> is the open item entry e creates on account a.
Item == Entry \X Account

\* OPEN_ITEM_KINDS without opening balances are one kind here, "item";
\* debtor and creditor payments and transfers are "payment".
Kind == {"item", "opening_balance", "credit_reclass", "payment"}

\* What a person enters: the movement of each account, and the part of each
\* open item the entry is to settle.
Content ==
  [kind: Kind, day: Day, move: [Account -> Int], plan: [Item -> Nat]]

ASSUME LedgerAssumption ==
  /\ LastDay \in Nat \ {0}
  /\ IsFiniteSet(Entry)
  /\ IsFiniteSet(Account)
  /\ Debtor \subseteq Account
  /\ NoUser \notin User
  /\ FiscalYear \in [Day -> Nat]
  /\ Input \in [Entry -> SUBSET Content]

VARIABLES
  entry,       \* the row of each journal entry, with its reversal
  settled,     \* settled[i][d]: net settlements of item i dated until day d
  counter,     \* journal_number_counter.last_number per fiscal year
  lockedUntil, \* ledger.locked_until (0: never locked)
  inFlight     \* entries whose posting has read lockedUntil, not committed

vars == <<entry, settled, counter, lockedUntil, inFlight>>

Maybe == User \cup {NoUser}

EntryRow ==
  [status: {"absent", "draft", "posted"},
   kind: Kind, day: Day, move: [Account -> Int], plan: [Item -> Nat],
   createdBy: Maybe, approvedBy: Maybe,
   number: Nat,            \* 0 while the entry has none
   reversalDay: 0..LastDay, \* 0 while the entry is not reversed
   reversalNumber: Nat]

NoRow ==
  [status |-> "absent", kind |-> "payment", day |-> 1,
   move |-> [a \in Account |-> 0], plan |-> [i \in Item |-> 0],
   createdBy |-> NoUser, approvedBy |-> NoUser,
   number |-> 0, reversalDay |-> 0, reversalNumber |-> 0]

TypeOK ==
  /\ entry \in [Entry -> EntryRow]
  /\ settled \in [Item -> [Day -> Int]]
  /\ counter \in [Year -> Nat]
  /\ lockedUntil \in 0..LastDay
  /\ inFlight \subseteq Entry

Init ==
  /\ entry = [e \in Entry |-> NoRow]
  /\ settled = [i \in Item |-> [d \in Day |-> 0]]
  /\ counter = [y \in Year |-> 0]
  /\ lockedUntil = 0
  /\ inFlight = {}

-----------------------------------------------------------------------------
(* What the rows say.                                                      *)

IsDraft(e)    == entry[e].status = "draft"
IsPosted(e)   == entry[e].status = "posted"
IsReversed(e) == entry[e].reversalDay # 0
IsLive(e)     == IsPosted(e) /\ ~IsReversed(e)

\* What an entry can settle on an account: the credit on a debtor, the debit
\* on a creditor.
Movable(r, a) == IF a \in Debtor THEN -r.move[a] ELSE r.move[a]

CreatesItem(r, a) ==
  /\ Movable(r, a) < 0
  /\ r.kind \in IF a \in Debtor THEN {"item", "opening_balance"} ELSE Kind \ {"payment"}

\* The amount of an open item: 0 while there is none.
ItemAmount(i) ==
  IF IsPosted(i[1]) /\ CreatesItem(entry[i[1]], i[2])
  THEN -Movable(entry[i[1]], i[2])
  ELSE 0

ItemsOf(e) == {i \in Item : i[1] = e}

remaining(i) == ItemAmount(i) - settled[i][LastDay]

AnyRest(e, i)    == ItemAmount(i) > 0           \* mutant of ItemCovers
ItemCovers(e, i) == ItemAmount(i) > 0 /\ entry[e].plan[i] <= remaining(i)

\* What a plan settles on one account.
PlannedOn(r, a) == SumFunction([x \in Entry |-> r.plan[<<x, a>>]])

\* Mutant of AccountMovesEnough: all accounts of the entry taken together.
EntryMovesEnough(e, a) ==
  SumFunction(entry[e].plan) <= SumFunction([b \in Account |-> Movable(entry[e], b)])
AccountMovesEnough(e, a) == PlannedOn(entry[e], a) <= Movable(entry[e], a)

\* Every planned amount fits its item, and on every account the plan names the
\* planned amounts together fit the movement.
PlanFits(e) ==
  /\ \A i \in Item : entry[e].plan[i] > 0 => ItemCovers(e, i)
  /\ \A a \in Account : PlannedOn(entry[e], a) > 0 => AccountMovesEnough(e, a)

\* New settlement rows of one date, `amount' per item.
Settle(amount, day) ==
  settled' = [i \in Item |-> [d \in Day |->
                IF d >= day THEN settled[i][d] + amount[i] ELSE settled[i][d]]]

\* The counter row of a year is locked by the postings in flight in it.
CounterFree(y) == \A f \in inFlight : FiscalYear[entry[f].day] # y

-----------------------------------------------------------------------------
(* Drafts.                                                                 *)

WriteDraft(e, c, row) ==
  entry' = [entry EXCEPT ![e] =
              [row EXCEPT !.kind = c.kind, !.day = c.day, !.move = c.move, !.plan = c.plan]]

CreateDraft(u, e, c) ==
  /\ entry[e].status = "absent"
  /\ WriteDraft(e, c, [NoRow EXCEPT !.status = "draft", !.createdBy = u])
  /\ UNCHANGED <<settled, counter, lockedUntil, inFlight>>

\* A change, by anybody, voids the check of the second person but keeps
\* created_by; updated_by is written and read by no rule.
UpdateDraft(e, c) ==
  /\ IsDraft(e) /\ e \notin inFlight
  /\ WriteDraft(e, c, [entry[e] EXCEPT !.approvedBy = NoUser])
  /\ UNCHANGED <<settled, counter, lockedUntil, inFlight>>

DeleteDraft(e) ==
  /\ IsDraft(e) /\ e \notin inFlight
  /\ entry' = [entry EXCEPT ![e] = NoRow]
  /\ UNCHANGED <<settled, counter, lockedUntil, inFlight>>

AnyPerson(u, e)    == TRUE                      \* mutant of SecondPerson
SecondPerson(u, e) == entry[e].createdBy # u

ApproveDraft(u, e) ==
  /\ IsDraft(e) /\ e \notin inFlight
  /\ SecondPerson(u, e)
  /\ entry' = [entry EXCEPT ![e].approvedBy = u]
  /\ UNCHANGED <<settled, counter, lockedUntil, inFlight>>

-----------------------------------------------------------------------------
(* Posting.                                                                *)

PeriodOpenOnLockDay(day) == day >= lockedUntil  \* mutant
PeriodOpen(day) == day > lockedUntil

\* The guards of `post' and of the period lock trigger; from here the posting
\* holds the entry row and the counter row of its fiscal year.
PostStart(e) ==
  /\ IsDraft(e) /\ e \notin inFlight
  /\ PeriodOpen(entry[e].day)
  /\ entry[e].kind = "opening_balance" => entry[e].approvedBy # NoUser
  /\ CounterFree(FiscalYear[entry[e].day])
  /\ inFlight' = inFlight \cup {e}
  /\ UNCHANGED <<entry, settled, counter, lockedUntil>>

NextNumber(y) == counter[y] + 1

PostCommit(e) ==
  LET y == FiscalYear[entry[e].day] IN
  /\ e \in inFlight
  /\ PlanFits(e)
  /\ entry' = [entry EXCEPT ![e].status = "posted", ![e].number = NextNumber(y)]
  /\ counter' = [counter EXCEPT ![y] = NextNumber(y)]
  /\ Settle(entry[e].plan, entry[e].day)
  /\ inFlight' = inFlight \ {e}
  /\ UNCHANGED lockedUntil

\* Mutant: numbers from a sequence, which a rollback does not return.
PostAbortKeepingNumber(e) ==
  /\ e \in inFlight
  /\ inFlight' = inFlight \ {e}
  /\ counter' = [counter EXCEPT ![FiscalYear[entry[e].day]] = NextNumber(FiscalYear[entry[e].day])]
  /\ UNCHANGED <<entry, settled, lockedUntil>>

\* A refused plan, a deadlock victim or a crash: the transaction rolls back.
PostAbort(e) ==
  /\ e \in inFlight
  /\ inFlight' = inFlight \ {e}
  /\ UNCHANGED <<entry, settled, counter, lockedUntil>>

-----------------------------------------------------------------------------
(* Reversal and period lock.                                               *)

\* Mutant of Undo: the settlements of the entry stay.
UndoItemsOnly(e) == [i \in Item |-> IF i \in ItemsOf(e) THEN ItemAmount(i) ELSE 0]

\* Settlement rows of a reversal: the items of the entry are closed in full,
\* what the entry had settled is undone.
Undo(e) ==
  [i \in Item |-> (IF i \in ItemsOf(e) THEN ItemAmount(i) ELSE 0) - entry[e].plan[i]]

AnySettlement(e) == TRUE                        \* mutant of NothingSettled
NothingSettled(e) == \A i \in ItemsOf(e) : remaining(i) = ItemAmount(i)

\* The reversal row is inserted before the period is read again (its foreign
\* key locks the ledger row), so no period lock slips in between.
Reverse(e, day) ==
  LET y == FiscalYear[day] IN
  /\ IsLive(e)
  /\ PeriodOpen(day)
  /\ day >= entry[e].day
  /\ NothingSettled(e)
  /\ CounterFree(y)
  /\ entry' = [entry EXCEPT ![e].reversalDay = day,
                            ![e].reversalNumber = NextNumber(y)]
  /\ counter' = [counter EXCEPT ![y] = NextNumber(y)]
  /\ Settle(Undo(e), day)
  /\ UNCHANGED <<lockedUntil, inFlight>>

FirstOpenDay(until) == until + 1                \* mutant of LockDay
LockDay(until) == until                         \* the lock day itself is locked

\* The lock takes the ledger row FOR UPDATE.  It waits for a posting in flight
\* only if that posting inserted the counter row of its year (foreign key).
LockPeriod(until) ==
  /\ until >= lockedUntil
  /\ \A f \in inFlight : counter[FiscalYear[entry[f].day]] > 0
  /\ lockedUntil' = LockDay(until)
  /\ UNCHANGED <<entry, settled, counter, inFlight>>

Next ==
  \/ \E u \in User, e \in Entry : \E c \in Input[e] : CreateDraft(u, e, c)
  \/ \E e \in Entry : \E c \in Input[e] : UpdateDraft(e, c)
  \/ \E u \in User, e \in Entry : ApproveDraft(u, e)
  \/ \E e \in Entry : DeleteDraft(e) \/ PostStart(e) \/ PostCommit(e) \/ PostAbort(e)
  \/ \E e \in Entry, day \in Day : Reverse(e, day)
  \/ \E until \in Day : LockPeriod(until)

Spec == Init /\ [][Next]_vars
-----------------------------------------------------------------------------
(* Properties.                                                             *)

\* B07, B08: whatever is posted and reversed in whatever order, the
\* settlements of an item never exceed its amount and never fall below zero
\* (`_apply_open_items' and `reverse' each check only their own items, the sum
\* is not stored anywhere).
SettledWithinItem ==
  \A i \in Item : settled[i][LastDay] \in 0..ItemAmount(i)

\* What entry p contributes to the settlement of item i: its plan while it is
\* posted and not reversed; its own reversal closes the items it created.
Paid(i) ==
  [p \in Entry |-> IF IsLive(p) THEN entry[p].plan[i]
                  ELSE IF p = i[1] /\ IsReversed(p) THEN ItemAmount(i) ELSE 0]

\* B08: the rows of open_item_settlement that reversals leave behind cancel
\* exactly; each item is settled by the live postings and nothing else.
SettlementsExplained ==
  \A i \in Item : settled[i][LastDay] = SumFunction(Paid(i))

\* B03: a reversed entry leaves no trace.  Its items are closed for good and no
\* posting that is still in force settles one, although `reverse' looks at the
\* sums of their settlements only.
ReversedIsNeutral ==
  \A e \in Entry : IsReversed(e) =>
    \A i \in ItemsOf(e) :
      /\ remaining(i) = 0
      /\ \A p \in Entry : IsLive(p) => entry[p].plan[i] = 0

\* The numbered documents: entries and their reversals.
Document == Entry \X {"entry", "reversal"}

Numbered(v) == IF v[2] = "entry" THEN IsPosted(v[1]) ELSE IsReversed(v[1])

NumberOf(v) ==
  IF v[2] = "entry" THEN entry[v[1]].number ELSE entry[v[1]].reversalNumber

YearOf(v) ==
  FiscalYear[IF v[2] = "entry" THEN entry[v[1]].day ELSE entry[v[1]].reversalDay]

Register(y) == {v \in Document : Numbered(v) /\ YearOf(v) = y}

\* B04: the numbers of a fiscal year are 1..counter, each used once, through
\* rollbacks, reversals into another year and concurrent postings.
GaplessRegister ==
  \A y \in Year :
    /\ {NumberOf(v) : v \in Register(y)} = 1..counter[y]
    /\ \A v, w \in Register(y) : NumberOf(v) = NumberOf(w) => v = w

\* General ledger and sub-ledger totals of a personal account: what its posted
\* entries and their reversals moved on each side.
Pos(n) == IF n > 0 THEN n ELSE 0

SideTotal(a, sign) ==
  SumFunction([e \in Entry |->
      (IF IsPosted(e)   THEN Pos(sign * entry[e].move[a])  ELSE 0)
    + (IF IsReversed(e) THEN Pos(-sign * entry[e].move[a]) ELSE 0)])

ItemTotal(a) == SumFunction([e \in Entry |-> ItemAmount(<<e, a>>)])

SettledTotal(a) == SumFunction([e \in Entry |-> settled[<<e, a>>][LastDay]])

\* B09, `subledger_findings': per account the open items never exceed the
\* postings on their side, the settlements never exceed the other side.
SubledgerWithinLedger ==
  \A a \in Account : LET s == IF a \in Debtor THEN 1 ELSE -1 IN
    /\ ItemTotal(a) <= SideTotal(a, s)
    /\ SettledTotal(a) <= SideTotal(a, -s)

\* Opening balances: the checking person is never the one who created the
\* draft, whatever edits, checks and deletions came between.
OpeningBalanceChecked ==
  \A e \in Entry : IsPosted(e) /\ entry[e].kind = "opening_balance" =>
    entry[e].approvedBy \notin {NoUser, entry[e].createdBy}

\* B03, B07: the open items of a locked period are frozen.  The only step that
\* may still change them is the commit of a posting that was already past its
\* period check when the lock was set.
LockedPeriodFrozen ==
  [][\A i \in Item, d \in Day :
       d <= lockedUntil /\ settled'[i][d] # settled[i][d] =>
         \E e \in inFlight : IsPosted(e)' /\ d >= entry[e].day]_vars

\* B03: a posted row never changes, except that its reversal is set once.
PostedImmutable ==
  [][\A e \in Entry : IsPosted(e) =>
       LET new == entry'[e]  old == entry[e] IN
       \/ new = old
       \/ /\ ~IsReversed(e)
          /\ new = [old EXCEPT !.reversalDay = new.reversalDay,
                               !.reversalNumber = new.reversalNumber]]_vars

(***************************************************************************)
(* The rows add up to module OpenItems: an entry raises the items it       *)
(* creates on its accounts and pays the parts it settles, and both end     *)
(* with its reversal.                                                      *)
(***************************************************************************)
Standing ==
  [p \in Entry |-> IF ~IsPosted(p) THEN "new"
                  ELSE IF IsReversed(p) THEN "taken back" ELSE "in force"]

Raised == [i \in Item |-> ItemAmount(i)]

Booked ==
  [p \in Entry |-> IF IsLive(p) THEN entry[p].plan ELSE [i \in Item |-> 0]]

Items == INSTANCE OpenItems WITH
           Posting <- Entry, RaisedBy <- [i \in Item |-> i[1]],
           state <- Standing, amount <- Raised, book <- Booked

\* B03, B08: posting and reversal, which write dated settlement rows and read
\* sums of them, keep the promise on open items.  Whatever a posting raises and
\* settles in one go, it takes from each item no more than its rest; a reversal
\* takes it back as a whole, and only while nothing in force pays what it raised.
KeepsItems == Items!Spec

-----------------------------------------------------------------------------
(* A statement of the documentation the code does not keep.                *)

\* Migration 0444: "journal_entry: no posting on or before
\* ledger.locked_until (period lock in the database)".
NoPostingInLockedPeriod ==
  [][\A e \in Entry : ~IsPosted(e) /\ IsPosted(e)' => entry[e].day > lockedUntil]_vars
=============================================================================
