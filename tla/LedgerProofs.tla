---------------------------- MODULE LedgerProofs ----------------------------
(***************************************************************************)
(* Proofs about module Ledger, for any set of entries, accounts, people    *)
(* and days.                                                               *)
(***************************************************************************)
EXTENDS Ledger, Sums, TLAPS

-----------------------------------------------------------------------------
(* Typing.                                                                 *)

\* The row of an identifier nobody has used yet is a row.
LEMMA NoRowType == NoRow \in EntryRow
  BY LedgerAssumption DEF NoRow, EntryRow, Kind, Day, Maybe

\* Items are pairs of an entry and an account, finitely many.
LEMMA ItemPairs ==
  /\ \A i \in Item : i[1] \in Entry /\ i[2] \in Account /\ i = <<i[1], i[2]>>
  /\ \A e \in Entry, a \in Account : <<e, a>> \in Item
  /\ IsFiniteSet(Item)
<1>1. IsFiniteSet(Item)
  BY LedgerAssumption, FS_Product DEF Item
<1> QED BY <1>1 DEF Item

\* The amount of an open item is a natural number (CHECK amount > 0 or none).
LEMMA ItemAmountType ==
  ASSUME TypeOK, NEW i \in Item
  PROVE  ItemAmount(i) \in Nat
<1>1. entry[i[1]].move[i[2]] \in Int
  BY ItemPairs DEF TypeOK, EntryRow
<1> QED BY <1>1 DEF ItemAmount, CreatesItem, Movable

\* Settling or undoing by an integer amount keeps the dated sums integers.
LEMMA SettleType ==
  ASSUME TypeOK, NEW amount \in [Item -> Int], NEW day \in Day, Settle(amount, day)
  PROVE  settled' \in [Item -> [Day -> Int]]
  BY DEF TypeOK, Settle

LEMMA UndoType ==
  ASSUME TypeOK, NEW e \in Entry
  PROVE  Undo(e) \in [Item -> Int]
  BY ItemAmountType DEF TypeOK, EntryRow, Undo

\* A written draft is a row, whatever row it is written over.
LEMMA WriteDraftType ==
  ASSUME TypeOK, NEW e \in Entry, NEW c \in Input[e], NEW row \in EntryRow,
         WriteDraft(e, c, row)
  PROVE  entry' \in [Entry -> EntryRow]
<1>1. c \in Content
  BY LedgerAssumption
<1>2. [row EXCEPT !.kind = c.kind, !.day = c.day, !.move = c.move, !.plan = c.plan] \in EntryRow
  BY <1>1 DEF Content, EntryRow
<1> QED
  BY <1>2 DEF TypeOK, WriteDraft

LEMMA TypeInit == Init => TypeOK
  BY NoRowType, LedgerAssumption DEF Init, TypeOK, Day, Year

\* UpdateDraft writes on the row with the check taken back.
LEMMA UncheckedRow ==
  ASSUME NEW r \in EntryRow
  PROVE  /\ [r EXCEPT !.approvedBy = NoUser] \in EntryRow
         /\ [r EXCEPT !.approvedBy = NoUser].status = r.status
         /\ [r EXCEPT !.approvedBy = NoUser].reversalDay = r.reversalDay
         /\ [r EXCEPT !.approvedBy = NoUser].approvedBy = NoUser
  BY DEF EntryRow, Maybe

LEMMA TypeNext == TypeOK /\ [Next]_vars => TypeOK'
<1> SUFFICES ASSUME TypeOK, [Next]_vars PROVE TypeOK'
  OBVIOUS
<1>1. ASSUME NEW u \in User, NEW e \in Entry, NEW c \in Input[e], CreateDraft(u, e, c)
      PROVE  TypeOK'
  <2>1. [NoRow EXCEPT !.status = "draft", !.createdBy = u] \in EntryRow
    BY NoRowType DEF EntryRow, Maybe
  <2> QED
    BY <1>1, <2>1, WriteDraftType DEF CreateDraft, TypeOK
<1>2. ASSUME NEW e \in Entry, NEW c \in Input[e], UpdateDraft(e, c)
      PROVE  TypeOK'
  <2>1. entry[e] \in EntryRow
    BY DEF TypeOK
  <2>2. [entry[e] EXCEPT !.approvedBy = NoUser] \in EntryRow
    BY <2>1, UncheckedRow
  <2> QED
    BY <1>2, <2>2, WriteDraftType DEF UpdateDraft, TypeOK
<1>3. ASSUME NEW u \in User, NEW e \in Entry, ApproveDraft(u, e)
      PROVE  TypeOK'
  <2>1. entry[e] \in EntryRow
    BY DEF TypeOK
  <2>2. [entry[e] EXCEPT !.approvedBy = u] \in EntryRow
    BY <2>1 DEF EntryRow, Maybe
  <2>3. entry' = [entry EXCEPT ![e] = [entry[e] EXCEPT !.approvedBy = u]]
    BY <1>3 DEF ApproveDraft
  <2> QED
    BY <1>3, <2>2, <2>3 DEF ApproveDraft, TypeOK
<1>4. ASSUME NEW e \in Entry, DeleteDraft(e)
      PROVE  TypeOK'
  BY <1>4, NoRowType DEF DeleteDraft, TypeOK
<1>5. ASSUME NEW e \in Entry, PostStart(e)
      PROVE  TypeOK'
  BY <1>5 DEF PostStart, TypeOK
<1>6. ASSUME NEW e \in Entry, PostCommit(e)
      PROVE  TypeOK'
  <2>1. entry[e].plan \in [Item -> Int] /\ entry[e].day \in Day
    BY DEF TypeOK, EntryRow
  <2>2. FiscalYear[entry[e].day] \in Year
    BY <2>1 DEF Year
  <2>3. NextNumber(FiscalYear[entry[e].day]) \in Nat
    BY <2>2 DEF NextNumber, TypeOK
  <2>4. settled' \in [Item -> [Day -> Int]]
    BY <1>6, <2>1, SettleType DEF PostCommit
  <2>5. entry' \in [Entry -> EntryRow]
    <3> DEFINE n == NextNumber(FiscalYear[entry[e].day])
               row == [entry[e] EXCEPT !.status = "posted", !.number = n]
    <3>1. entry[e] \in EntryRow
      BY DEF TypeOK
    <3>2. row \in EntryRow
      BY <3>1, <2>3 DEF EntryRow
    <3>3. entry' = [entry EXCEPT ![e] = row]
      BY <1>6 DEF PostCommit
    <3> QED
      BY <3>2, <3>3 DEF TypeOK
  <2>6. counter' \in [Year -> Nat]
    BY <1>6, <2>3 DEF PostCommit, TypeOK
  <2> QED
    BY <1>6, <2>4, <2>5, <2>6 DEF PostCommit, TypeOK
<1>7. ASSUME NEW e \in Entry, PostAbort(e)
      PROVE  TypeOK'
  BY <1>7 DEF PostAbort, TypeOK
<1>8. ASSUME NEW e \in Entry, NEW day \in Day, Reverse(e, day)
      PROVE  TypeOK'
  <2>2. FiscalYear[day] \in Year
    BY DEF Year
  <2>3. NextNumber(FiscalYear[day]) \in Nat
    BY <2>2 DEF NextNumber, TypeOK
  <2>4. settled' \in [Item -> [Day -> Int]]
    BY <1>8, UndoType, SettleType DEF Reverse
  <2>5. day \in 0..LastDay
    BY LedgerAssumption DEF Day
  <2>6. entry' \in [Entry -> EntryRow]
    <3> DEFINE n == NextNumber(FiscalYear[day])
               row == [entry[e] EXCEPT !.reversalDay = day, !.reversalNumber = n]
    <3>1. entry[e] \in EntryRow
      BY DEF TypeOK
    <3>2. row \in EntryRow
      BY <3>1, <2>3, <2>5 DEF EntryRow
    <3>3. entry' = [entry EXCEPT ![e] = row]
      BY <1>8 DEF Reverse
    <3> QED
      BY <3>2, <3>3 DEF TypeOK
  <2>7. counter' \in [Year -> Nat]
    BY <1>8, <2>3 DEF Reverse, TypeOK
  <2> QED
    BY <1>8, <2>4, <2>6, <2>7 DEF Reverse, TypeOK
<1>9. ASSUME NEW until \in Day, LockPeriod(until)
      PROVE  TypeOK'
  BY <1>9, LedgerAssumption DEF LockPeriod, LockDay, TypeOK, Day
<1>10. CASE UNCHANGED vars
  BY <1>10 DEF vars, TypeOK
<1> QED
  BY <1>1, <1>2, <1>3, <1>4, <1>5, <1>6, <1>7, <1>8, <1>9, <1>10 DEF Next

\* Every reachable ledger is well typed: among other things a settled amount,
\* a number and a lock day are always integers of the range the database
\* columns allow, whatever was posted, reversed or rolled back before.
THEOREM TypeCorrect == Spec => []TypeOK
  BY TypeInit, TypeNext, PTL DEF Spec

-----------------------------------------------------------------------------
(* The inductive invariant.                                                *)

\* Only a draft is being posted, and only a posted row is reversed.
RowsInOrder ==
  /\ \A e \in inFlight : IsDraft(e)
  /\ \A e \in Entry : IsReversed(e) => IsPosted(e)

\* The check of an opening balance is by another person while it stands, and it
\* stands from the moment the posting starts.
ChecksStand ==
  \A e \in Entry :
    /\ entry[e].approvedBy # NoUser => entry[e].approvedBy # entry[e].createdBy
    /\ entry[e].kind = "opening_balance" /\ (e \in inFlight \/ IsPosted(e)) =>
         entry[e].approvedBy # NoUser

IInv == TypeOK /\ RowsInOrder /\ ChecksStand /\ GaplessRegister

-----------------------------------------------------------------------------
(* Steps on one row.                                                       *)

\* What a step does to the row of one entry and to the drafts in flight.
OnlyRow(e) == \A x \in Entry \ {e} : entry'[x] = entry[x]

\* Writing a draft leaves the other rows alone and the row itself a draft.
LEMMA WriteDraftRow ==
  ASSUME TypeOK, NEW e \in Entry, NEW c \in Input[e], NEW row \in EntryRow,
         row.status = "draft", WriteDraft(e, c, row)
  PROVE  /\ OnlyRow(e)
         /\ entry'[e].status = "draft"
         /\ entry'[e].reversalDay = row.reversalDay
         /\ entry'[e].createdBy = row.createdBy
         /\ entry'[e].approvedBy = row.approvedBy
  BY DEF WriteDraft, OnlyRow, TypeOK, EntryRow

\* A step that numbers nothing and keeps the counters keeps the register.
LEMMA RegisterKept ==
  ASSUME GaplessRegister, counter' = counter,
         \A v \in Document : Numbered(v)' <=> Numbered(v),
         \A v \in Document : Numbered(v) =>
           NumberOf(v)' = NumberOf(v) /\ YearOf(v)' = YearOf(v)
  PROVE  GaplessRegister'
<1>1. ASSUME NEW y \in Year PROVE Register(y)' = Register(y)
  BY DEF Register
<1>2. ASSUME NEW y \in Year, NEW v \in Register(y)
      PROVE  NumberOf(v)' = NumberOf(v)
  BY <1>2 DEF Register
<1> QED
  BY <1>1, <1>2 DEF GaplessRegister

\* Next number: a step that numbers one document with the next number of its
\* year and raises the counter keeps the register gapless and unambiguous.
LEMMA RegisterExtended ==
  ASSUME TypeOK, GaplessRegister, NEW d \in Document, NEW y \in Year,
         ~Numbered(d), Numbered(d)', YearOf(d)' = y, NumberOf(d)' = NextNumber(y),
         counter' = [counter EXCEPT ![y] = NextNumber(y)],
         \A v \in Document \ {d} : Numbered(v)' <=> Numbered(v),
         \A v \in Document \ {d} : Numbered(v) =>
           NumberOf(v)' = NumberOf(v) /\ YearOf(v)' = YearOf(v)
  PROVE  GaplessRegister'
<1> SUFFICES ASSUME NEW z \in Year
             PROVE  /\ {NumberOf(v)' : v \in Register(z)'} = 1..counter'[z]
                    /\ \A v, w \in Register(z)' : NumberOf(v)' = NumberOf(w)' => v = w
  BY DEF GaplessRegister
<1>1. counter[z] \in Nat
  BY DEF TypeOK
<1>2. /\ {NumberOf(v) : v \in Register(z)} = 1..counter[z]
      /\ \A v, w \in Register(z) : NumberOf(v) = NumberOf(w) => v = w
  BY DEF GaplessRegister
<1>3. \A v \in Register(z) : v # d /\ NumberOf(v)' = NumberOf(v)
  BY DEF Register
<1>4. CASE z # y
  <2>1. Register(z)' = Register(z)
    BY <1>4 DEF Register
  <2>2. counter'[z] = counter[z]
    BY <1>4 DEF TypeOK
  <2> QED
    BY <1>2, <1>3, <2>1, <2>2
<1>5. CASE z = y
  <2>1. Register(z)' = Register(z) \cup {d}
    BY <1>5 DEF Register
  <2>2. counter'[z] = counter[z] + 1 /\ NumberOf(d)' = counter[z] + 1
    BY <1>5 DEF TypeOK, NextNumber
  <2>3. {NumberOf(v)' : v \in Register(z)'} = {NumberOf(v) : v \in Register(z)} \cup {counter[z] + 1}
    BY <1>3, <2>1, <2>2
  <2>4. \A v \in Register(z) : NumberOf(v)' # counter[z] + 1
    <3> SUFFICES ASSUME NEW v \in Register(z) PROVE NumberOf(v)' # counter[z] + 1
      OBVIOUS
    <3>1. NumberOf(v) \in 1..counter[z]
      BY <1>2
    <3> QED
      BY <1>1, <1>3, <3>1
  <2>5. 1..counter'[z] = (1..counter[z]) \cup {counter[z] + 1}
    BY <1>1, <2>2
  <2>6. \A v, w \in Register(z)' : NumberOf(v)' = NumberOf(w)' => v = w
    BY <1>2, <1>3, <2>1, <2>2, <2>4
  <2> QED
    BY <1>2, <2>3, <2>5, <2>6
<1> QED
  BY <1>4, <1>5

\* Work on a draft is invisible to the register.
LEMMA DraftKeepsRegister ==
  ASSUME GaplessRegister, NEW e \in Entry, OnlyRow(e), counter' = counter,
         ~IsPosted(e), ~IsReversed(e), ~IsPosted(e)', ~IsReversed(e)'
  PROVE  GaplessRegister'
<1>1. \A v \in Document : v[1] \in Entry
  BY DEF Document
<1>2. \A v \in Document : v[1] = e => ~Numbered(v) /\ ~Numbered(v)'
  BY DEF Numbered
<1>3. \A v \in Document : v[1] # e =>
        /\ Numbered(v)' <=> Numbered(v)
        /\ NumberOf(v)' = NumberOf(v) /\ YearOf(v)' = YearOf(v)
  BY <1>1 DEF OnlyRow, Numbered, NumberOf, YearOf, IsPosted, IsReversed
<1> QED
  BY <1>2, <1>3, RegisterKept

LEMMA SameRowsKeepRegister ==
  ASSUME GaplessRegister, UNCHANGED <<entry, counter>>
  PROVE  GaplessRegister'
  BY DEF GaplessRegister, Register, Numbered, NumberOf, YearOf, IsPosted, IsReversed

-----------------------------------------------------------------------------
(* Safety.                                                                 *)

LEMMA SafeInit == Init => IInv
<1> SUFFICES ASSUME Init PROVE IInv
  OBVIOUS
<1>1. \A e \in Entry : ~IsPosted(e) /\ ~IsReversed(e)
  BY DEF Init, NoRow, IsPosted, IsReversed
<1>2. RowsInOrder /\ ChecksStand
  BY <1>1 DEF Init, NoRow, RowsInOrder, ChecksStand
<1>3. \A v \in Document : ~Numbered(v)
  BY <1>1 DEF Document, Numbered
<1>4. GaplessRegister
  BY <1>3 DEF GaplessRegister, Register, Init
<1> QED
  BY <1>2, <1>4, TypeInit DEF IInv

LEMMA SafeNext == IInv /\ [Next]_vars => IInv'
<1> SUFFICES ASSUME IInv, [Next]_vars PROVE IInv'
  OBVIOUS
<1> USE DEF IInv
<1>0. TypeOK'
  BY TypeNext
<1>1. ASSUME NEW u \in User, NEW e \in Entry, NEW c \in Input[e], CreateDraft(u, e, c)
      PROVE  IInv'
  <2> DEFINE row == [NoRow EXCEPT !.status = "draft", !.createdBy = u]
  <2>1. /\ row \in EntryRow /\ row.status = "draft" /\ row.reversalDay = 0
        /\ row.approvedBy = NoUser
    BY NoRowType DEF EntryRow, Maybe, NoRow
  <2>2. /\ OnlyRow(e) /\ entry'[e].status = "draft"
        /\ entry'[e].reversalDay = 0 /\ entry'[e].approvedBy = NoUser
    <3>1. WriteDraft(e, c, row)
      BY <1>1 DEF CreateDraft
    <3> HIDE DEF row
    <3> QED
      BY <2>1, <3>1, WriteDraftRow
  <2>3. ~IsPosted(e) /\ ~IsReversed(e) /\ e \notin inFlight
    BY <1>1 DEF CreateDraft, IsPosted, IsDraft, RowsInOrder
  <2>4. ~IsPosted(e)' /\ ~IsReversed(e)'
    BY <2>2 DEF IsPosted, IsReversed
  <2>5. UNCHANGED <<counter, inFlight>>
    BY <1>1 DEF CreateDraft
  <2>6. RowsInOrder'
    BY <2>2, <2>3, <2>4, <2>5 DEF RowsInOrder, OnlyRow, IsDraft, IsPosted, IsReversed, TypeOK
  <2>7. ChecksStand'
    BY <2>2, <2>3, <2>4, <2>5 DEF ChecksStand, OnlyRow, IsPosted
  <2> QED
    BY <1>0, <2>2, <2>3, <2>4, <2>5, <2>6, <2>7, DraftKeepsRegister
<1>2. ASSUME NEW e \in Entry, NEW c \in Input[e], UpdateDraft(e, c)
      PROVE  IInv'
  <2> DEFINE row == [entry[e] EXCEPT !.approvedBy = NoUser]
  <2>1. /\ row \in EntryRow /\ row.status = "draft"
        /\ row.reversalDay = entry[e].reversalDay /\ row.approvedBy = NoUser
    <3>1. entry[e] \in EntryRow /\ entry[e].status = "draft"
      BY <1>2 DEF UpdateDraft, IsDraft, TypeOK
    <3> QED BY <3>1, UncheckedRow
  <2>2. /\ OnlyRow(e) /\ entry'[e].status = "draft"
        /\ entry'[e].reversalDay = entry[e].reversalDay /\ entry'[e].approvedBy = NoUser
    <3>1. WriteDraft(e, c, row)
      BY <1>2 DEF UpdateDraft
    <3> HIDE DEF row
    <3> QED
      BY <2>1, <3>1, WriteDraftRow
  <2>3. ~IsPosted(e) /\ ~IsReversed(e) /\ e \notin inFlight
    BY <1>2 DEF UpdateDraft, IsPosted, IsDraft, RowsInOrder
  <2>4. ~IsPosted(e)' /\ ~IsReversed(e)'
    BY <2>2, <2>3 DEF IsPosted, IsReversed
  <2>5. UNCHANGED <<counter, inFlight>>
    BY <1>2 DEF UpdateDraft
  <2>6. RowsInOrder'
    BY <2>2, <2>3, <2>4, <2>5 DEF RowsInOrder, OnlyRow, IsDraft, IsPosted, IsReversed, TypeOK
  <2>7. ChecksStand'
    BY <2>2, <2>3, <2>4, <2>5 DEF ChecksStand, OnlyRow, IsPosted
  <2> QED
    BY <1>0, <2>2, <2>3, <2>4, <2>5, <2>6, <2>7, DraftKeepsRegister
<1>3. ASSUME NEW u \in User, NEW e \in Entry, ApproveDraft(u, e)
      PROVE  IInv'
  <2>1. /\ OnlyRow(e) /\ entry'[e].status = "draft"
        /\ entry'[e].reversalDay = entry[e].reversalDay
        /\ entry'[e].approvedBy = u /\ entry'[e].createdBy = entry[e].createdBy
    BY <1>3 DEF ApproveDraft, IsDraft, OnlyRow, TypeOK, EntryRow
  <2>2. ~IsPosted(e) /\ ~IsReversed(e) /\ e \notin inFlight /\ u # entry[e].createdBy
    BY <1>3 DEF ApproveDraft, SecondPerson, IsPosted, IsDraft, RowsInOrder
  <2>3. ~IsPosted(e)' /\ ~IsReversed(e)'
    BY <2>1, <2>2 DEF IsPosted, IsReversed
  <2>4. UNCHANGED <<counter, inFlight>>
    BY <1>3 DEF ApproveDraft
  <2>5. RowsInOrder'
    BY <2>1, <2>2, <2>3, <2>4 DEF RowsInOrder, OnlyRow, IsDraft, IsPosted, IsReversed, TypeOK
  <2>6. ChecksStand'
    BY <2>1, <2>2, <2>3, <2>4 DEF ChecksStand, OnlyRow, IsPosted
  <2> QED
    BY <1>0, <2>1, <2>2, <2>3, <2>4, <2>5, <2>6, DraftKeepsRegister
<1>4. ASSUME NEW e \in Entry, DeleteDraft(e)
      PROVE  IInv'
  <2>1. OnlyRow(e) /\ entry'[e] = NoRow
    BY <1>4 DEF DeleteDraft, OnlyRow, TypeOK
  <2>2. ~IsPosted(e) /\ ~IsReversed(e) /\ e \notin inFlight
    BY <1>4 DEF DeleteDraft, IsPosted, IsDraft, RowsInOrder
  <2>3. ~IsPosted(e)' /\ ~IsReversed(e)' /\ entry'[e].approvedBy = NoUser
    BY <2>1 DEF IsPosted, IsReversed, NoRow
  <2>4. UNCHANGED <<counter, inFlight>>
    BY <1>4 DEF DeleteDraft
  <2>5. RowsInOrder'
    BY <2>1, <2>2, <2>3, <2>4 DEF RowsInOrder, OnlyRow, IsDraft, IsPosted, IsReversed, TypeOK
  <2>6. ChecksStand'
    BY <2>1, <2>2, <2>3, <2>4 DEF ChecksStand, OnlyRow, IsPosted
  <2> QED
    BY <1>0, <2>1, <2>2, <2>3, <2>4, <2>5, <2>6, DraftKeepsRegister
<1>5. ASSUME NEW e \in Entry, PostStart(e)
      PROVE  IInv'
  <2>1. RowsInOrder'
    BY <1>5 DEF PostStart, RowsInOrder, IsDraft, IsPosted, IsReversed
  <2>2. ChecksStand'
    BY <1>5 DEF PostStart, ChecksStand, IsPosted
  <2> QED
    BY <1>0, <1>5, <2>1, <2>2, SameRowsKeepRegister DEF PostStart
<1>6. ASSUME NEW e \in Entry, PostCommit(e)
      PROVE  IInv'
  <2> DEFINE y == FiscalYear[entry[e].day]
             d == <<e, "entry">>
  <2>1. y \in Year
    BY DEF TypeOK, EntryRow, Year
  <2>2. /\ OnlyRow(e) /\ entry'[e].status = "posted" /\ entry'[e].number = NextNumber(y)
        /\ entry'[e].day = entry[e].day /\ entry'[e].kind = entry[e].kind
        /\ entry'[e].reversalDay = entry[e].reversalDay
        /\ entry'[e].approvedBy = entry[e].approvedBy
        /\ entry'[e].createdBy = entry[e].createdBy
        /\ entry'[e].reversalNumber = entry[e].reversalNumber
    BY <1>6 DEF PostCommit, OnlyRow, TypeOK, EntryRow
  <2>3. e \in inFlight /\ ~IsPosted(e) /\ ~IsReversed(e)
    BY <1>6 DEF PostCommit, RowsInOrder, IsDraft, IsPosted
  <2>4. inFlight' = inFlight \ {e} /\ counter' = [counter EXCEPT ![y] = NextNumber(y)]
    BY <1>6 DEF PostCommit
  <2>5. RowsInOrder'
    BY <2>2, <2>3, <2>4 DEF RowsInOrder, OnlyRow, IsDraft, IsPosted, IsReversed, TypeOK
  <2>6. ChecksStand'
    BY <2>2, <2>3, <2>4 DEF ChecksStand, OnlyRow, IsPosted
  <2>7. GaplessRegister'
    <3>1. /\ d \in Document /\ ~Numbered(d) /\ Numbered(d)'
          /\ YearOf(d)' = y /\ NumberOf(d)' = NextNumber(y)
      BY <2>2, <2>3 DEF Document, Numbered, YearOf, NumberOf, IsPosted
    <3>2. ASSUME NEW v \in Document \ {d}
          PROVE  /\ Numbered(v)' <=> Numbered(v)
                 /\ Numbered(v) => NumberOf(v)' = NumberOf(v) /\ YearOf(v)' = YearOf(v)
      <4>1. CASE v[1] # e
        BY <2>2, <4>1 DEF OnlyRow, Document, Numbered, NumberOf, YearOf, IsPosted, IsReversed
      <4>2. CASE v[1] = e
        <5>1. v[2] = "reversal"
          BY <4>2 DEF Document
        <5> QED
          BY <2>2, <2>3, <4>2, <5>1 DEF Numbered, IsReversed
      <4> QED
        BY <4>1, <4>2
    <3> HIDE DEF y, d
    <3> QED
      BY <2>1, <2>4, <3>1, <3>2, RegisterExtended
  <2> QED
    BY <1>0, <2>5, <2>6, <2>7
<1>7. ASSUME NEW e \in Entry, PostAbort(e)
      PROVE  IInv'
  <2>1. RowsInOrder'
    BY <1>7 DEF PostAbort, RowsInOrder, IsDraft, IsPosted, IsReversed
  <2>2. ChecksStand'
    BY <1>7 DEF PostAbort, ChecksStand, IsPosted
  <2> QED
    BY <1>0, <1>7, <2>1, <2>2, SameRowsKeepRegister DEF PostAbort
<1>8. ASSUME NEW e \in Entry, NEW day \in Day, Reverse(e, day)
      PROVE  IInv'
  <2> DEFINE y == FiscalYear[day]
             d == <<e, "reversal">>
  <2>1. y \in Year /\ day # 0
    BY LedgerAssumption DEF Year, Day
  <2>2. /\ OnlyRow(e) /\ entry'[e].status = entry[e].status
        /\ entry'[e].number = entry[e].number
        /\ entry'[e].day = entry[e].day /\ entry'[e].kind = entry[e].kind
        /\ entry'[e].reversalDay = day /\ entry'[e].reversalNumber = NextNumber(y)
        /\ entry'[e].approvedBy = entry[e].approvedBy
        /\ entry'[e].createdBy = entry[e].createdBy
    BY <1>8 DEF Reverse, OnlyRow, TypeOK, EntryRow
  <2>3. IsPosted(e) /\ ~IsReversed(e) /\ e \notin inFlight
    BY <1>8 DEF Reverse, IsLive, RowsInOrder, IsDraft, IsPosted
  <2>4. inFlight' = inFlight /\ counter' = [counter EXCEPT ![y] = NextNumber(y)]
    BY <1>8 DEF Reverse
  <2>5. RowsInOrder'
    BY <2>2, <2>3, <2>4 DEF RowsInOrder, OnlyRow, IsDraft, IsPosted, IsReversed, TypeOK
  <2>6. ChecksStand'
    BY <2>2, <2>3, <2>4 DEF ChecksStand, OnlyRow, IsPosted
  <2>7. GaplessRegister'
    <3>1. /\ d \in Document /\ ~Numbered(d) /\ Numbered(d)'
          /\ YearOf(d)' = y /\ NumberOf(d)' = NextNumber(y)
      BY <2>1, <2>2, <2>3 DEF Document, Numbered, YearOf, NumberOf, IsReversed
    <3>2. ASSUME NEW v \in Document \ {d}
          PROVE  /\ Numbered(v)' <=> Numbered(v)
                 /\ Numbered(v) => NumberOf(v)' = NumberOf(v) /\ YearOf(v)' = YearOf(v)
      <4>1. CASE v[1] # e
        BY <2>2, <4>1 DEF OnlyRow, Document, Numbered, NumberOf, YearOf, IsPosted, IsReversed
      <4>2. CASE v[1] = e
        <5>1. v[2] = "entry"
          BY <4>2 DEF Document
        <5> QED
          BY <2>2, <4>2, <5>1 DEF Numbered, NumberOf, YearOf, IsPosted
      <4> QED
        BY <4>1, <4>2
    <3> HIDE DEF y, d
    <3> QED
      BY <2>1, <2>4, <3>1, <3>2, RegisterExtended
  <2> QED
    BY <1>0, <2>5, <2>6, <2>7
<1>9. ASSUME NEW until \in Day, LockPeriod(until)
      PROVE  IInv'
  <2>1. RowsInOrder' /\ ChecksStand'
    BY <1>9 DEF LockPeriod, RowsInOrder, ChecksStand, IsDraft, IsPosted, IsReversed
  <2> QED
    BY <1>0, <1>9, <2>1, SameRowsKeepRegister DEF LockPeriod
<1>10. CASE UNCHANGED vars
  <2>1. RowsInOrder' /\ ChecksStand'
    BY <1>10 DEF vars, RowsInOrder, ChecksStand, IsDraft, IsPosted, IsReversed
  <2> QED
    BY <1>0, <1>10, <2>1, SameRowsKeepRegister DEF vars
<1> QED
  BY <1>1, <1>2, <1>3, <1>4, <1>5, <1>6, <1>7, <1>8, <1>9, <1>10 DEF Next

LEMMA SafeAlways == Spec => []IInv
  BY SafeInit, SafeNext, PTL DEF Spec

\* B04: the numbers of every fiscal year are 1..counter without a gap and
\* without a duplicate, however postings, rollbacks and reversals into other
\* years interleave.
THEOREM RegisterIsGapless == Spec => []GaplessRegister
<1>1. IInv => GaplessRegister
  BY DEF IInv
<1> QED
  BY <1>1, SafeAlways, PTL

\* An opening balance is never posted without the check of a person other than
\* the one who created the draft.
THEOREM OpeningBalancesAreChecked == Spec => []OpeningBalanceChecked
<1>1. IInv => OpeningBalanceChecked
  BY DEF IInv, ChecksStand, OpeningBalanceChecked
<1> QED
  BY <1>1, SafeAlways, PTL

-----------------------------------------------------------------------------
(* Settlements.                                                            *)

\* What the commit of a posting has checked stays true of a posted entry: it
\* settles items other entries raised, and on every account within its movement.
PlanStands(p) ==
  /\ \A i \in Item : entry[p].plan[i] > 0 => ItemAmount(i) > 0 /\ i[1] # p
  /\ \A a \in Account : PlannedOn(entry[p], a) > 0 =>
       PlannedOn(entry[p], a) <= Movable(entry[p], a)

PlansStand == \A p \in Entry : IsPosted(p) => PlanStands(p)

SInv == PlansStand /\ SettlementsExplained /\ SettledWithinItem /\ ReversedIsNeutral

LEMMA RowFields ==
  ASSUME TypeOK, NEW e \in Entry
  PROVE  /\ entry[e] \in EntryRow
         /\ entry[e].plan \in [Item -> Nat] /\ entry[e].move \in [Account -> Int]
         /\ entry[e].day \in Day /\ entry[e].reversalDay \in 0..LastDay
  BY DEF TypeOK, EntryRow

LEMMA SettledType ==
  ASSUME TypeOK, NEW i \in Item
  PROVE  settled[i][LastDay] \in Int
  BY LedgerAssumption DEF TypeOK, Day

LEMMA PaidType ==
  ASSUME TypeOK, NEW i \in Item
  PROVE  /\ DOMAIN Paid(i) = Entry
         /\ \A p \in Entry : Paid(i)[p] \in Nat
  BY ItemAmountType, RowFields DEF Paid

LEMMA ItemAmountTypeAfter ==
  ASSUME TypeOK', NEW i \in Item
  PROVE  ItemAmount(i)' \in Nat
<1>1. entry'[i[1]].move[i[2]] \in Int
  BY ItemPairs DEF TypeOK, EntryRow
<1> QED BY <1>1 DEF ItemAmount, CreatesItem, Movable

LEMMA PaidTypeAfter ==
  ASSUME TypeOK', NEW i \in Item
  PROVE  /\ DOMAIN Paid(i)' = Entry
         /\ \A p \in Entry : Paid(i)'[p] \in Nat
<1>1. ItemAmount(i)' \in Nat
  BY ItemAmountTypeAfter
<1>2. \A p \in Entry : entry'[p].plan[i] \in Nat
  BY DEF TypeOK, EntryRow
<1> QED
  BY <1>1, <1>2 DEF Paid

\* The part of one entry in the settlement of an item is at most the whole.
LEMMA PaidAtMostSettled ==
  ASSUME TypeOK, SettlementsExplained, NEW i \in Item, NEW p \in Entry
  PROVE  Paid(i)[p] <= settled[i][LastDay]
  BY LedgerAssumption, PaidType, SumCovers DEF SettlementsExplained, SumFunction

\* A settlement of one date changes the total by its amount.
LEMMA SettleTotal ==
  ASSUME TypeOK, NEW amount \in [Item -> Int], NEW day \in Day, Settle(amount, day),
         NEW i \in Item
  PROVE  settled'[i][LastDay] = settled[i][LastDay] + amount[i]
<1>1. LastDay \in Day /\ LastDay >= day
  BY LedgerAssumption DEF Day
<1> QED BY <1>1 DEF Settle

\* Only the part of one entry in the settlement of an item changes.
LEMMA PaidChange ==
  ASSUME TypeOK, TypeOK', NEW i \in Item, NEW e \in Entry,
         \A p \in Entry \ {e} : Paid(i)'[p] = Paid(i)[p]
  PROVE  SumFunction(Paid(i))' = SumFunction(Paid(i)) + (Paid(i)'[e] - Paid(i)[e])
<1> DEFINE f == Paid(i)
           g == Paid(i)'
<1>1. IsFiniteSet(Entry)
  BY LedgerAssumption
<1>2. DOMAIN f = Entry /\ \A p \in Entry : f[p] \in Int
  BY PaidType
<1>3. DOMAIN g = Entry /\ \A p \in Entry : g[p] \in Int
  BY PaidTypeAfter
<1>4. \A p \in Entry \ {e} : f[p] = g[p]
  OBVIOUS
<1>5. SumFunction(Paid(i))' = SumFunctionOnSet(g, Entry)
  BY <1>3 DEF SumFunction
<1>6. SumFunction(Paid(i)) = SumFunctionOnSet(f, Entry)
  BY <1>2 DEF SumFunction
<1> HIDE DEF f, g
<1>7. SumFunctionOnSet(g, Entry) = SumFunctionOnSet(f, Entry) + (g[e] - f[e])
  BY <1>1, <1>2, <1>3, <1>4, SumChange
<1> QED
  BY <1>5, <1>6, <1>7 DEF f, g

LEMMA SettlementsInit == Init => SInv
<1> SUFFICES ASSUME Init PROVE SInv
  OBVIOUS
<1>1. /\ \A e \in Entry : ~IsPosted(e) /\ ~IsReversed(e)
      /\ \A i \in Item : ItemAmount(i) = 0
  BY ItemPairs DEF Init, NoRow, IsPosted, IsReversed, ItemAmount
<1>2. \A i \in Item : settled[i][LastDay] = 0
  BY LedgerAssumption DEF Init, Day
<1>3. ASSUME NEW i \in Item PROVE SumFunction(Paid(i)) = 0
  <2>1. DOMAIN Paid(i) = Entry /\ \A p \in Entry : Paid(i)[p] = 0
    BY <1>1 DEF Paid, IsLive
  <2> QED BY <2>1, SumZero, LedgerAssumption DEF SumFunction
<1> QED
  BY <1>1, <1>2, <1>3 DEF SInv, PlansStand, SettlementsExplained, SettledWithinItem,
     ReversedIsNeutral

\* What other rows say stays when only one row changes.
LEMMA OtherRows ==
  ASSUME NEW e \in Entry, OnlyRow(e), NEW x \in Entry, x # e
  PROVE  /\ entry'[x] = entry[x]
         /\ IsPosted(x)' <=> IsPosted(x)
         /\ IsReversed(x)' <=> IsReversed(x)
         /\ IsLive(x)' <=> IsLive(x)
         /\ \A i \in ItemsOf(x) : ItemAmount(i)' = ItemAmount(i)
         /\ \A i \in Item : Paid(i)'[x] = Paid(i)[x]
<1>1. entry'[x] = entry[x]
  BY DEF OnlyRow
<1>2. /\ IsPosted(x)' <=> IsPosted(x)
      /\ IsReversed(x)' <=> IsReversed(x)
      /\ IsLive(x)' <=> IsLive(x)
  BY <1>1 DEF IsPosted, IsReversed, IsLive
<1>3. \A i \in ItemsOf(x) : ItemAmount(i)' = ItemAmount(i)
  BY <1>1 DEF ItemsOf, ItemAmount, IsPosted
<1>4. \A i \in Item : Paid(i)'[x] = Paid(i)[x]
  BY <1>1, <1>2, <1>3 DEF Paid, ItemsOf
<1> QED BY <1>1, <1>2, <1>3, <1>4

\* Work on drafts, and a period lock, leave posted rows and settlements alone.
Quiet ==
  /\ settled' = settled
  /\ \A x \in Entry : IsPosted(x) => entry'[x] = entry[x]
  /\ \A x \in Entry : IsPosted(x)' => IsPosted(x)

\* What posted rows say stays in a quiet step.
LEMMA QuietRows ==
  ASSUME RowsInOrder, RowsInOrder', Quiet
  PROVE  /\ \A x \in Entry : IsPosted(x)' <=> IsPosted(x)
         /\ \A x \in Entry : IsReversed(x)' <=> IsReversed(x)
         /\ \A x \in Entry : IsLive(x)' <=> IsLive(x)
         /\ \A i \in Item : ItemAmount(i)' = ItemAmount(i)
         /\ \A x \in Entry : IsLive(x) => entry'[x] = entry[x]
<1>1. \A x \in Entry : IsPosted(x)' <=> IsPosted(x)
  BY DEF Quiet, IsPosted
<1>2. \A x \in Entry : IsReversed(x)' <=> IsReversed(x)
  BY <1>1 DEF Quiet, RowsInOrder, IsReversed
<1>3. \A x \in Entry : IsLive(x)' <=> IsLive(x)
  BY <1>1, <1>2 DEF IsLive
<1>4. \A i \in Item : ItemAmount(i)' = ItemAmount(i)
  BY <1>1, ItemPairs DEF Quiet, ItemAmount, IsPosted
<1>5. \A p \in Entry : IsLive(p) => entry'[p] = entry[p]
  BY DEF Quiet, IsLive
<1> QED BY <1>1, <1>2, <1>3, <1>4, <1>5

LEMMA QuietStep ==
  ASSUME RowsInOrder, RowsInOrder', SInv, Quiet
  PROVE  SInv'
<1> USE DEF Quiet
<1>1. \A x \in Entry : IsPosted(x)' <=> IsPosted(x)
  BY QuietRows
<1>2. \A x \in Entry : IsReversed(x)' <=> IsReversed(x)
  BY QuietRows
<1>3. \A x \in Entry : IsLive(x)' <=> IsLive(x)
  BY QuietRows
<1>4. \A i \in Item : ItemAmount(i)' = ItemAmount(i)
  BY QuietRows
<1>5. \A p \in Entry : IsLive(p) => entry'[p] = entry[p]
  BY QuietRows
<1>6. \A i \in Item : Paid(i)' = Paid(i)
  <2> SUFFICES ASSUME NEW i \in Item PROVE Paid(i)' = Paid(i)
    OBVIOUS
  <2>1. \A p \in Entry :
          (IF IsLive(p)' THEN entry'[p].plan[i]
           ELSE IF p = i[1] /\ IsReversed(p)' THEN ItemAmount(i)' ELSE 0)
          = (IF IsLive(p) THEN entry[p].plan[i]
             ELSE IF p = i[1] /\ IsReversed(p) THEN ItemAmount(i) ELSE 0)
    BY <1>2, <1>3, <1>4, <1>5
  <2> QED BY <2>1 DEF Paid
<1>8. PlansStand'
  <2> SUFFICES ASSUME NEW p \in Entry, IsPosted(p) PROVE PlanStands(p)'
    BY <1>1 DEF PlansStand
  <2>1. entry'[p] = entry[p] /\ PlanStands(p)
    BY DEF SInv, PlansStand
  <2> QED
    BY <1>4, <2>1 DEF PlanStands
<1>9. SettlementsExplained'
  BY <1>6 DEF SInv, SettlementsExplained
<1>10. SettledWithinItem'
  BY <1>4 DEF SInv, SettledWithinItem
<1>11. ReversedIsNeutral'
  BY <1>2, <1>3, <1>4, <1>5 DEF SInv, ReversedIsNeutral, ItemsOf, remaining
<1> QED
  BY <1>8, <1>9, <1>10, <1>11 DEF SInv

\* A posting makes a draft a posted row with the same plan.
LEMMA PostCommitRow ==
  ASSUME IInv, NEW e \in Entry, PostCommit(e)
  PROVE  /\ ~IsPosted(e) /\ ~IsReversed(e) /\ ~IsLive(e)
         /\ \A i \in ItemsOf(e) : ItemAmount(i) = 0
         /\ OnlyRow(e) /\ IsPosted(e)' /\ ~IsReversed(e)' /\ IsLive(e)'
         /\ entry'[e].plan = entry[e].plan /\ entry'[e].move = entry[e].move
         /\ entry[e].plan \in [Item -> Nat] /\ PlanFits(e)
<1> USE DEF IInv
<1>1. /\ ~IsPosted(e) /\ ~IsReversed(e) /\ ~IsLive(e)
      /\ \A i \in ItemsOf(e) : ItemAmount(i) = 0
  BY DEF PostCommit, RowsInOrder, IsDraft, IsPosted, IsLive, ItemAmount, ItemsOf
<1>2. /\ OnlyRow(e) /\ IsPosted(e)' /\ ~IsReversed(e)'
      /\ entry'[e].plan = entry[e].plan /\ entry'[e].move = entry[e].move
  BY <1>1 DEF PostCommit, OnlyRow, TypeOK, EntryRow, IsPosted, IsReversed
<1>3. IsLive(e)'
  BY <1>2 DEF IsLive
<1>4. entry[e].plan \in [Item -> Nat] /\ PlanFits(e)
  BY RowFields DEF PostCommit
<1> QED BY <1>1, <1>2, <1>3, <1>4

\* The plan of a posting keeps away from its own items and takes from the others
\* no more than their rest.
LEMMA PlanTakesRests ==
  ASSUME IInv, SInv, NEW e \in Entry, PostCommit(e), NEW i \in Item
  PROVE  /\ i[1] = e => entry[e].plan[i] = 0
         /\ entry[e].plan[i] <= remaining(i) /\ remaining(i) \in Nat
<1> USE DEF IInv
<1>1. entry[e].plan[i] \in Nat /\ PlanFits(e)
  BY PostCommitRow
<1>2. i[1] = e => ItemAmount(i) = 0
  BY PostCommitRow DEF ItemsOf
<1>3. settled[i][LastDay] \in 0..ItemAmount(i) /\ ItemAmount(i) \in Nat
  BY ItemAmountType DEF SInv, SettledWithinItem
<1>4. remaining(i) \in Nat
  BY <1>3 DEF remaining
<1> QED BY <1>1, <1>2, <1>4 DEF PlanFits, ItemCovers

\* B07, B08: a posting settles each planned item by the planned amount, which
\* its rest covers.
LEMMA PostCommitSettles ==
  ASSUME IInv, TypeOK', SInv, NEW e \in Entry, PostCommit(e)
  PROVE  SInv'
<1> USE DEF IInv
<1> DEFINE plan == entry[e].plan
<1>1. /\ ~IsPosted(e) /\ ~IsReversed(e) /\ ~IsLive(e)
      /\ \A i \in ItemsOf(e) : ItemAmount(i) = 0
  BY PostCommitRow
<1>2. /\ OnlyRow(e) /\ IsPosted(e)' /\ ~IsReversed(e)' /\ IsLive(e)'
      /\ entry'[e].plan = plan /\ entry'[e].move = entry[e].move
  BY PostCommitRow
<1>3. plan \in [Item -> Nat] /\ PlanFits(e)
  BY PostCommitRow
<1>4. \A i \in Item : i[1] # e => ItemAmount(i)' = ItemAmount(i)
  BY <1>2, OtherRows, ItemPairs DEF ItemsOf
<1>5. \A i \in Item : /\ i[1] = e => plan[i] = 0
                      /\ plan[i] <= remaining(i) /\ remaining(i) \in Nat
  BY PlanTakesRests
<1>6. ASSUME NEW i \in Item
      PROVE  settled'[i][LastDay] = settled[i][LastDay] + plan[i]
  <2>1. plan \in [Item -> Int]
    BY <1>3
  <2>2. Settle(plan, entry[e].day) /\ entry[e].day \in Day
    BY RowFields DEF PostCommit
  <2> HIDE DEF plan
  <2> QED BY <2>1, <2>2, SettleTotal
<1>7. ASSUME NEW i \in Item
      PROVE  SumFunction(Paid(i))' = SumFunction(Paid(i)) + plan[i]
  <2>1. \A p \in Entry \ {e} : Paid(i)'[p] = Paid(i)[p]
    BY <1>2, OtherRows
  <2>2. Paid(i)[e] = 0
    BY <1>1 DEF Paid
  <2>3. Paid(i)'[e] = plan[i]
    BY <1>2 DEF Paid
  <2> HIDE DEF plan
  <2>4. SumFunction(Paid(i))' = SumFunction(Paid(i)) + (Paid(i)'[e] - Paid(i)[e])
    BY <2>1, PaidChange
  <2> QED BY <1>3, <2>2, <2>3, <2>4
<1>8. SettlementsExplained'
  BY <1>6, <1>7 DEF SInv, SettlementsExplained
<1>9. SettledWithinItem'
  <2> SUFFICES ASSUME NEW i \in Item
               PROVE  settled'[i][LastDay] \in 0..ItemAmount(i)'
    BY DEF SettledWithinItem
  <2>1. settled[i][LastDay] \in 0..ItemAmount(i) /\ ItemAmount(i) \in Nat
    BY ItemAmountType DEF SInv, SettledWithinItem
  <2>2. CASE i[1] = e
    <3>1. ItemAmount(i)' \in Nat /\ ItemAmount(i) = 0
      BY <1>1, <2>2, ItemAmountTypeAfter DEF ItemsOf
    <3> QED BY <1>5, <1>6, <2>1, <2>2, <3>1
  <2>3. CASE i[1] # e
    <3>1. plan[i] \in Nat /\ plan[i] <= ItemAmount(i) - settled[i][LastDay]
      BY <1>3, <1>5 DEF remaining
    <3> QED BY <1>4, <1>6, <2>1, <2>3, <3>1
  <2> QED BY <2>2, <2>3
<1>10. ReversedIsNeutral'
  <2> SUFFICES ASSUME NEW x \in Entry, IsReversed(x)', NEW i \in ItemsOf(x)
               PROVE  /\ remaining(i)' = 0
                      /\ \A p \in Entry : IsLive(p)' => entry'[p].plan[i] = 0
    BY DEF ReversedIsNeutral, ItemsOf
  <2>1. x # e /\ IsReversed(x)
    BY <1>2, OtherRows
  <2>2. /\ i \in Item /\ i[1] # e /\ remaining(i) = 0
        /\ \A p \in Entry : IsLive(p) => entry[p].plan[i] = 0
    BY <2>1 DEF ItemsOf, SInv, ReversedIsNeutral
  <2>3. plan[i] = 0 /\ ItemAmount(i)' = ItemAmount(i)
    BY <1>3, <1>4, <1>5, <2>2
  <2>4. remaining(i)' = 0
    BY <1>6, <2>2, <2>3, SettledType DEF remaining
  <2>5. ASSUME NEW p \in Entry, IsLive(p)' PROVE entry'[p].plan[i] = 0
    <3>1. CASE p = e
      BY <1>2, <2>3, <3>1
    <3>2. CASE p # e
      BY <1>2, <2>2, <2>5, <3>2, OtherRows
    <3> QED BY <3>1, <3>2
  <2> QED BY <2>4, <2>5
<1>11. PlansStand'
  <2> SUFFICES ASSUME NEW p \in Entry, IsPosted(p)' PROVE PlanStands(p)'
    BY DEF PlansStand
  <2>1. CASE p = e
    <3>1. \A a \in Account : /\ PlannedOn(entry'[e], a) = PlannedOn(entry[e], a)
                             /\ Movable(entry'[e], a) = Movable(entry[e], a)
      BY <1>2 DEF PlannedOn, Movable
    <3>2. \A i \in Item : plan[i] > 0 => i[1] # e /\ ItemAmount(i)' > 0
      BY <1>3, <1>4, <1>5 DEF PlanFits, ItemCovers
    <3>3. \A a \in Account : PlannedOn(entry[e], a) > 0 =>
            PlannedOn(entry[e], a) <= Movable(entry[e], a)
      BY <1>3 DEF PlanFits, AccountMovesEnough
    <3> QED BY <1>2, <2>1, <3>1, <3>2, <3>3 DEF PlanStands
  <2>2. CASE p # e
    <3>1. entry'[p] = entry[p] /\ PlanStands(p)
      BY <1>2, <2>2, OtherRows DEF SInv, PlansStand
    <3>2. \A i \in Item : ItemAmount(i) > 0 => ItemAmount(i)' > 0
      BY <1>1, <1>4 DEF ItemsOf
    <3> QED BY <3>1, <3>2 DEF PlanStands
  <2> QED BY <2>1, <2>2
<1> QED
  BY <1>8, <1>9, <1>10, <1>11 DEF SInv

\* A reversal changes the reversal of one row in force, whose items nothing settles.
LEMMA ReverseRow ==
  ASSUME IInv, SInv, NEW e \in Entry, NEW day \in Day, Reverse(e, day)
  PROVE  /\ IsPosted(e) /\ ~IsReversed(e) /\ IsLive(e)
         /\ OnlyRow(e) /\ IsPosted(e)' /\ IsReversed(e)' /\ ~IsLive(e)'
         /\ entry'[e].plan = entry[e].plan /\ entry'[e].move = entry[e].move
         /\ \A i \in Item : ItemAmount(i)' = ItemAmount(i)
         /\ \A i \in ItemsOf(e) : settled[i][LastDay] = 0
         /\ \A i \in ItemsOf(e), p \in Entry : IsLive(p) => entry[p].plan[i] = 0
<1> USE DEF IInv
<1> DEFINE plan == entry[e].plan
<1>1. IsPosted(e) /\ ~IsReversed(e) /\ IsLive(e)
  BY DEF Reverse, IsLive
<1>2. /\ OnlyRow(e) /\ IsPosted(e)' /\ IsReversed(e)'
      /\ entry'[e].plan = plan
      /\ entry'[e].move = entry[e].move /\ entry'[e].kind = entry[e].kind
  <2>1. /\ \A x \in Entry \ {e} : entry'[x] = entry[x]
        /\ entry'[e] = [entry[e] EXCEPT !.reversalDay = day,
                                       !.reversalNumber = NextNumber(FiscalYear[day])]
    BY DEF Reverse, TypeOK
  <2>2. entry[e] \in EntryRow /\ day # 0
    BY LedgerAssumption DEF TypeOK, Day
  <2>3. /\ entry'[e].status = entry[e].status /\ entry'[e].reversalDay = day
        /\ entry'[e].plan = plan
        /\ entry'[e].move = entry[e].move /\ entry'[e].kind = entry[e].kind
    BY <2>1, <2>2 DEF EntryRow
  <2> QED
    BY <1>1, <2>1, <2>2, <2>3 DEF OnlyRow, IsPosted, IsReversed
<1>3. ~IsLive(e)'
  BY <1>2 DEF IsLive
<1>4. \A i \in ItemsOf(e) : ItemAmount(i)' = ItemAmount(i)
  BY <1>1, <1>2 DEF ItemsOf, ItemAmount, CreatesItem, Movable
<1>5. \A i \in Item : ItemAmount(i)' = ItemAmount(i)
  BY <1>2, <1>4, OtherRows, ItemPairs DEF ItemsOf
<1>6. ASSUME NEW i \in ItemsOf(e)
      PROVE  i \in Item /\ settled[i][LastDay] = 0
  <2>1. i \in Item /\ remaining(i) = ItemAmount(i)
    BY DEF ItemsOf, Reverse, NothingSettled
  <2> QED BY <2>1, ItemAmountType, SettledType DEF remaining
<1>7. ASSUME NEW i \in ItemsOf(e), NEW p \in Entry, IsLive(p)
      PROVE  entry[p].plan[i] = 0
  <2>1. Paid(i)[p] = entry[p].plan[i] /\ entry[p].plan[i] \in Nat
    BY <1>6, <1>7, RowFields DEF Paid
  <2>2. Paid(i)[p] <= 0
    BY <1>6, PaidAtMostSettled DEF SInv
  <2> QED BY <2>1, <2>2
<1> QED BY <1>1, <1>2, <1>3, <1>5, <1>6, <1>7

\* B03, B08: a reversal closes the items of the entry, which nothing in force
\* settles, and takes back what the entry had settled.
LEMMA ReverseUnsettles ==
  ASSUME IInv, TypeOK', SInv, NEW e \in Entry, NEW day \in Day, Reverse(e, day)
  PROVE  SInv'
<1> USE DEF IInv
<1> DEFINE plan == entry[e].plan
<1>1. IsPosted(e) /\ ~IsReversed(e) /\ IsLive(e)
  BY ReverseRow
<1>2. /\ OnlyRow(e) /\ IsPosted(e)' /\ IsReversed(e)' /\ ~IsLive(e)'
      /\ entry'[e].plan = plan /\ entry'[e].move = entry[e].move
  BY ReverseRow
<1>3. \A i \in Item : /\ ItemAmount(i)' = ItemAmount(i) /\ ItemAmount(i) \in Nat
                      /\ settled[i][LastDay] \in Int
  BY ReverseRow, ItemAmountType, SettledType
<1>4. \A i \in Item : i[1] = e => settled[i][LastDay] = 0
  BY ReverseRow DEF ItemsOf
<1>5. plan \in [Item -> Nat] /\ \A i \in Item : i[1] = e => plan[i] = 0
  BY <1>1, RowFields DEF SInv, PlansStand, PlanStands
<1>6. ASSUME NEW i \in Item
      PROVE  /\ i[1] = e => settled'[i][LastDay] = ItemAmount(i)
             /\ i[1] # e => settled'[i][LastDay] = settled[i][LastDay] - plan[i]
  <2>1. Undo(e) \in [Item -> Int] /\ Settle(Undo(e), day)
    BY UndoType DEF Reverse
  <2>2. settled'[i][LastDay] = settled[i][LastDay] + Undo(e)[i]
    BY <2>1, SettleTotal
  <2>3. Undo(e)[i] = (IF i[1] = e THEN ItemAmount(i) ELSE 0) - plan[i]
    BY DEF Undo, ItemsOf
  <2> HIDE DEF plan
  <2> QED BY <1>3, <1>4, <1>5, <2>2, <2>3
<1>7. ASSUME NEW i \in Item
      PROVE  SumFunction(Paid(i))' = SumFunction(Paid(i))
               + ((IF i[1] = e THEN ItemAmount(i) ELSE 0) - plan[i])
  <2>1. \A p \in Entry \ {e} : Paid(i)'[p] = Paid(i)[p]
    BY <1>2, OtherRows
  <2>2. Paid(i)[e] = plan[i]
    BY <1>1 DEF Paid
  <2>3. Paid(i)'[e] = IF i[1] = e THEN ItemAmount(i) ELSE 0
    BY <1>2, <1>3 DEF Paid
  <2> HIDE DEF plan
  <2>4. SumFunction(Paid(i))' = SumFunction(Paid(i)) + (Paid(i)'[e] - Paid(i)[e])
    BY <2>1, PaidChange
  <2> QED BY <2>2, <2>3, <2>4
<1>8. SettlementsExplained'
  <2> SUFFICES ASSUME NEW i \in Item
               PROVE  settled'[i][LastDay] = SumFunction(Paid(i))'
    BY DEF SettlementsExplained
  <2>1. settled[i][LastDay] = SumFunction(Paid(i)) /\ settled[i][LastDay] \in Int
    BY <1>3 DEF SInv, SettlementsExplained
  <2> HIDE DEF plan
  <2>2. CASE i[1] = e
    BY <1>3, <1>4, <1>5, <1>6, <1>7, <2>1, <2>2
  <2>3. CASE i[1] # e
    BY <1>5, <1>6, <1>7, <2>1, <2>3
  <2> QED BY <2>2, <2>3
<1>9. ASSUME NEW i \in Item PROVE plan[i] <= settled[i][LastDay]
  <2>1. Paid(i)[e] = plan[i]
    BY <1>1 DEF Paid
  <2> QED BY <2>1, PaidAtMostSettled DEF SInv
<1>10. SettledWithinItem'
  <2> SUFFICES ASSUME NEW i \in Item
               PROVE  settled'[i][LastDay] \in 0..ItemAmount(i)
    BY <1>3 DEF SettledWithinItem
  <2>1. settled[i][LastDay] \in 0..ItemAmount(i) /\ ItemAmount(i) \in Nat
    BY <1>3 DEF SInv, SettledWithinItem
  <2>2. plan[i] \in Nat
    BY <1>5
  <2> HIDE DEF plan
  <2> QED BY <1>6, <1>9, <2>1, <2>2
<1>11. ReversedIsNeutral'
  <2> SUFFICES ASSUME NEW x \in Entry, IsReversed(x)', NEW i \in ItemsOf(x)
               PROVE  /\ remaining(i)' = 0
                      /\ \A p \in Entry : IsLive(p)' => entry'[p].plan[i] = 0
    BY DEF ReversedIsNeutral, ItemsOf
  <2>0. i \in Item /\ i[1] = x
    BY DEF ItemsOf
  <2>1. \A p \in Entry : IsLive(p)' => IsLive(p) /\ entry'[p] = entry[p]
    BY <1>2, OtherRows
  <2>2. CASE x = e
    <3>1. remaining(i)' = 0
      BY <1>3, <1>6, <2>0, <2>2 DEF remaining
    <3> QED BY <2>1, <2>2, <3>1, ReverseRow
  <2>3. CASE x # e
    <3>1. IsReversed(x)
      BY <1>2, <2>3, OtherRows
    <3>2. remaining(i) = 0 /\ \A p \in Entry : IsLive(p) => entry[p].plan[i] = 0
      BY <3>1 DEF SInv, ReversedIsNeutral
    <3>3. plan[i] = 0
      BY <1>1, <3>2
    <3> HIDE DEF plan
    <3>4. remaining(i)' = 0
      BY <1>3, <1>6, <2>0, <2>3, <3>2, <3>3 DEF remaining
    <3> QED BY <2>1, <3>2, <3>4
  <2> QED BY <2>2, <2>3
<1>12. PlansStand'
  <2> SUFFICES ASSUME NEW p \in Entry, IsPosted(p)' PROVE PlanStands(p)'
    BY DEF PlansStand
  <2>1. /\ IsPosted(p) /\ PlanStands(p)
        /\ entry'[p].plan = entry[p].plan /\ entry'[p].move = entry[p].move
    <3>1. IsPosted(p) /\ entry'[p].plan = entry[p].plan /\ entry'[p].move = entry[p].move
      BY <1>1, <1>2, OtherRows
    <3> QED BY <3>1 DEF SInv, PlansStand
  <2>2. \A a \in Account : /\ Movable(entry'[p], a) = Movable(entry[p], a)
                           /\ PlannedOn(entry'[p], a) = PlannedOn(entry[p], a)
    BY <2>1 DEF Movable, PlannedOn
  <2> QED
    BY <1>3, <2>1, <2>2 DEF PlanStands
<1> QED
  BY <1>8, <1>10, <1>11, <1>12 DEF SInv

\* A step is quiet, or the commit of a posting, or a reversal.
LEMMA StepKinds ==
  ASSUME IInv, [Next]_vars
  PROVE  \/ Quiet
         \/ \E e \in Entry : PostCommit(e)
         \/ \E e \in Entry, day \in Day : Reverse(e, day)
<1> DEFINE Goal == \/ Quiet
                   \/ \E e \in Entry : PostCommit(e)
                   \/ \E e \in Entry, day \in Day : Reverse(e, day)
<1> SUFFICES Goal
  OBVIOUS
<1>1. TypeOK
  BY DEF IInv
<1>2. ASSUME NEW e \in Entry, ~IsPosted(e), OnlyRow(e), ~IsPosted(e)', settled' = settled
      PROVE  Goal
  BY <1>2, OtherRows DEF Quiet
<1>3. ASSUME UNCHANGED <<entry, settled>> PROVE Goal
  BY <1>3 DEF Quiet, IsPosted
<1> HIDE DEF Goal
<1>4. ASSUME NEW u \in User, NEW e \in Entry, NEW c \in Input[e], CreateDraft(u, e, c)
      PROVE  Goal
  <2> DEFINE row == [NoRow EXCEPT !.status = "draft", !.createdBy = u]
  <2>1. row \in EntryRow /\ row.status = "draft"
    BY NoRowType DEF EntryRow, Maybe, NoRow
  <2>2. WriteDraft(e, c, row)
    BY <1>4 DEF CreateDraft
  <2> HIDE DEF row
  <2>3. OnlyRow(e) /\ entry'[e].status = "draft"
    BY <1>1, <2>1, <2>2, WriteDraftRow
  <2> QED
    BY <1>2, <1>4, <2>3 DEF CreateDraft, IsPosted
<1>5. ASSUME NEW e \in Entry, NEW c \in Input[e], UpdateDraft(e, c)
      PROVE  Goal
  <2> DEFINE row == [entry[e] EXCEPT !.approvedBy = NoUser]
  <2>1. row \in EntryRow /\ row.status = "draft"
    <3>1. entry[e] \in EntryRow /\ entry[e].status = "draft"
      BY <1>1, <1>5 DEF UpdateDraft, IsDraft, TypeOK
    <3> QED BY <3>1, UncheckedRow
  <2>2. WriteDraft(e, c, row)
    BY <1>5 DEF UpdateDraft
  <2> HIDE DEF row
  <2>3. OnlyRow(e) /\ entry'[e].status = "draft"
    BY <1>1, <2>1, <2>2, WriteDraftRow
  <2> QED
    BY <1>2, <1>5, <2>3 DEF UpdateDraft, IsPosted, IsDraft
<1>6. ASSUME NEW u \in User, NEW e \in Entry, ApproveDraft(u, e)
      PROVE  Goal
  <2>1. OnlyRow(e) /\ entry'[e].status = "draft"
    BY <1>1, <1>6 DEF ApproveDraft, IsDraft, OnlyRow, TypeOK, EntryRow
  <2> QED
    BY <1>2, <1>6, <2>1 DEF ApproveDraft, IsPosted, IsDraft
<1>7. ASSUME NEW e \in Entry, DeleteDraft(e)
      PROVE  Goal
  <2>1. OnlyRow(e) /\ entry'[e].status = "absent"
    BY <1>1, <1>7 DEF DeleteDraft, OnlyRow, TypeOK, NoRow
  <2> QED
    BY <1>2, <1>7, <2>1 DEF DeleteDraft, IsPosted, IsDraft
<1>8. ASSUME NEW e \in Entry, PostStart(e) \/ PostAbort(e)
      PROVE  Goal
  BY <1>3, <1>8 DEF PostStart, PostAbort
<1>9. ASSUME NEW e \in Entry, PostCommit(e)
      PROVE  Goal
  BY <1>9 DEF Goal
<1>10. ASSUME NEW e \in Entry, NEW day \in Day, Reverse(e, day)
       PROVE  Goal
  BY <1>10 DEF Goal
<1>11. ASSUME NEW until \in Day, LockPeriod(until)
       PROVE  Goal
  BY <1>3, <1>11 DEF LockPeriod
<1>12. CASE UNCHANGED vars
  BY <1>3, <1>12 DEF vars
<1> QED
  BY <1>4, <1>5, <1>6, <1>7, <1>8, <1>9, <1>10, <1>11, <1>12 DEF Next

LEMMA SettlementsNext == IInv /\ IInv' /\ SInv /\ [Next]_vars => SInv'
<1> SUFFICES ASSUME IInv, IInv', SInv, [Next]_vars PROVE SInv'
  OBVIOUS
<1>1. TypeOK' /\ RowsInOrder /\ RowsInOrder'
  BY DEF IInv
<1>2. CASE Quiet
  BY <1>1, <1>2, QuietStep
<1>3. ASSUME NEW e \in Entry, PostCommit(e) PROVE SInv'
  BY <1>1, <1>3, PostCommitSettles
<1>4. ASSUME NEW e \in Entry, NEW day \in Day, Reverse(e, day) PROVE SInv'
  BY <1>1, <1>4, ReverseUnsettles
<1> QED BY <1>2, <1>3, <1>4, StepKinds

LEMMA SettlementsAlways == Spec => [](IInv /\ SInv)
<1>1. Init => IInv /\ SInv
  BY SafeInit, SettlementsInit
<1>2. IInv /\ SInv /\ [Next]_vars => (IInv /\ SInv)'
  BY SafeNext, SettlementsNext
<1> QED
  BY <1>1, <1>2, PTL DEF Spec

\* B07, B08: whatever is posted and reversed in whatever order, the settlements
\* of an item never exceed its amount and never fall below zero.
THEOREM SettlementsStayWithinItems == Spec => []SettledWithinItem
<1>1. IInv /\ SInv => SettledWithinItem
  BY DEF SInv
<1> QED
  BY <1>1, SettlementsAlways, PTL

\* B08: each item is settled by the postings in force, and by its own reversal,
\* and by nothing else: what other reversals leave behind cancels.
THEOREM SettlementsAreExplained == Spec => []SettlementsExplained
<1>1. IInv /\ SInv => SettlementsExplained
  BY DEF SInv
<1> QED
  BY <1>1, SettlementsAlways, PTL

\* B03: a reversed entry leaves no open item and no settlement in force.
THEOREM ReversalsAreNeutral == Spec => []ReversedIsNeutral
<1>1. IInv /\ SInv => ReversedIsNeutral
  BY DEF SInv
<1> QED
  BY <1>1, SettlementsAlways, PTL

-----------------------------------------------------------------------------
(* The ledger implements OpenItems.                                        *)

NoPlan == [i \in Item |-> 0]

\* Both modules sum alike.
LEMMA ItemsSum == \A f : Items!SumFunction(f) = SumFunction(f)
BY Zenon DEF SumFunction, SumFunctionOnSet, FoldFunctionOnSet, MapThenFoldSet,
   Items!SumFunction, Items!SumFunctionOnSet, Items!FoldFunctionOnSet, Items!MapThenFoldSet

LEMMA RaiserOf == \A i \in Item : \A p : Items!Raises(p, i) <=> i[1] = p
  BY DEF Items!Raises

\* The rest of an item is what the sum of its settlement rows leaves of it.
LEMMA RestIsRemaining ==
  ASSUME TypeOK, SInv, NEW i \in Item
  PROVE  Items!rest(i) = remaining(i)
<1>1. /\ settled[i][LastDay] \in 0..ItemAmount(i) /\ ItemAmount(i) \in Nat
      /\ settled[i][LastDay] = SumFunction(Paid(i))
  BY ItemAmountType DEF SInv, SettledWithinItem, SettlementsExplained
<1>2. Standing[i[1]] = IF ~IsPosted(i[1]) THEN "new"
                    ELSE IF IsReversed(i[1]) THEN "taken back" ELSE "in force"
  BY ItemPairs DEF Standing
<1>3. CASE IsLive(i[1])
  <2>1. \A p \in Entry :
          (IF IsLive(p) THEN entry[p].plan[i]
           ELSE IF p = i[1] /\ IsReversed(p) THEN ItemAmount(i) ELSE 0) = Booked[p][i]
    BY <1>3 DEF IsLive, Booked
  <2>2. Paid(i) = [p \in Entry |-> Booked[p][i]]
    BY <2>1 DEF Paid
  <2>3. Items!InForce(i[1])
    BY <1>2, <1>3 DEF Items!InForce, IsLive
  <2> QED
    BY <1>1, <2>2, <2>3, ItemsSum DEF Items!rest, Items!paid, remaining, Raised
<1>4. CASE ~IsLive(i[1])
  <2>1. ~Items!InForce(i[1])
    BY <1>2, <1>4 DEF Items!InForce, IsLive
  <2>2. remaining(i) = 0
    <3>1. CASE IsPosted(i[1])
      BY <1>4, <3>1, ItemPairs DEF IsLive, SInv, ReversedIsNeutral, ItemsOf
    <3>2. CASE ~IsPosted(i[1])
      BY <1>1, <3>2 DEF ItemAmount, remaining
    <3> QED BY <3>1, <3>2
  <2> QED BY <2>1, <2>2 DEF Items!rest
<1> QED BY <1>3, <1>4

LEMMA ItemsInit == Init => Items!Init
<1> SUFFICES ASSUME Init PROVE Items!Init
  OBVIOUS
<1>1. /\ \A e \in Entry : ~IsPosted(e) /\ ~IsReversed(e)
      /\ \A i \in Item : ItemAmount(i) = 0
  BY ItemPairs DEF Init, NoRow, IsPosted, IsReversed, ItemAmount
<1> QED
  BY <1>1 DEF Items!Init, Items!Nothing, Standing, Raised, Booked, IsLive

\* Rows that say the same are mapped to the same.
LEMMA SameItems ==
  ASSUME \A i \in Item : ItemAmount(i)' = ItemAmount(i),
         \A x \in Entry : /\ IsPosted(x)' <=> IsPosted(x)
                          /\ IsReversed(x)' <=> IsReversed(x)
                          /\ IsLive(x)' <=> IsLive(x)
                          /\ IsLive(x) => entry'[x].plan = entry[x].plan
  PROVE  UNCHANGED Items!vars
<1>1. Raised' = Raised
  BY DEF Raised
<1>2. \A p \in Entry : (IF ~IsPosted(p)' THEN "new"
                        ELSE IF IsReversed(p)' THEN "taken back" ELSE "in force")
                      = (IF ~IsPosted(p) THEN "new"
                         ELSE IF IsReversed(p) THEN "taken back" ELSE "in force")
  OBVIOUS
<1>3. Standing' = Standing
  BY <1>2 DEF Standing
<1>4. \A p \in Entry : (IF IsLive(p)' THEN entry'[p].plan ELSE [i \in Item |-> 0])
                      = (IF IsLive(p) THEN entry[p].plan ELSE [i \in Item |-> 0])
  OBVIOUS
<1>5. Booked' = Booked
  BY <1>4 DEF Booked
<1> QED BY <1>1, <1>3, <1>5 DEF Items!vars

\* The mapped functions are functions, before and after a step.
LEMMA MappedFunctions ==
  /\ Standing = [p \in Entry |-> Standing[p]] /\ Standing' = [p \in Entry |-> Standing'[p]]
  /\ Raised = [i \in Item |-> Raised[i]] /\ Raised' = [i \in Item |-> Raised'[i]]
  /\ Booked = [p \in Entry |-> Booked[p]] /\ Booked' = [p \in Entry |-> Booked'[p]]
  BY DEF Standing, Raised, Booked

\* The mapping of the rows a step on one entry leaves alone.
LEMMA OtherRowsMapped ==
  ASSUME NEW e \in Entry, OnlyRow(e)
  PROVE  /\ \A x \in Entry \ {e} : Standing'[x] = Standing[x] /\ Booked'[x] = Booked[x]
         /\ \A i \in Item : i[1] # e => Raised'[i] = Raised[i]
<1>1. \A x \in Entry \ {e} : Standing'[x] = Standing[x]
  BY OtherRows DEF Standing
<1>2. \A x \in Entry \ {e} : Booked'[x] = Booked[x]
  BY OtherRows DEF Booked
<1>3. \A i \in Item : i[1] # e => Raised'[i] = Raised[i]
  BY OtherRows, ItemPairs DEF Raised, ItemsOf
<1> QED BY <1>1, <1>2, <1>3

\* The commit of a posting raises all its items and pays all it settles at once.
LEMMA PostCommitPosts ==
  ASSUME IInv, TypeOK', SInv, NEW e \in Entry, PostCommit(e)
  PROVE  Items!Post(e)
<1>1. TypeOK
  BY DEF IInv
<1>2. /\ ~IsPosted(e) /\ OnlyRow(e) /\ IsPosted(e)' /\ ~IsReversed(e)' /\ IsLive(e)'
      /\ entry'[e].plan = entry[e].plan /\ entry[e].plan \in [Item -> Nat]
  BY PostCommitRow
<1>3. Standing[e] = "new" /\ Standing'[e] = "in force" /\ Booked'[e] = entry[e].plan
  BY <1>2 DEF Standing, Booked
<1>4. /\ \A x \in Entry \ {e} : Standing'[x] = Standing[x] /\ Booked'[x] = Booked[x]
      /\ \A i \in Item : i[1] # e => Raised'[i] = Raised[i]
  BY <1>2, OtherRowsMapped
<1>5. Standing' = [Standing EXCEPT ![e] = "in force"]
  BY <1>3, <1>4, MappedFunctions
<1>6. Booked' = [Booked EXCEPT ![e] = Booked'[e]]
  BY <1>4, MappedFunctions
<1>7. Raised' = [i \in Item |-> IF Items!Raises(e, i) THEN Raised'[i] ELSE Raised[i]]
  <2>1. \A i \in Item : Raised'[i] = IF Items!Raises(e, i) THEN Raised'[i] ELSE Raised[i]
    BY <1>4, RaiserOf
  <2> QED BY <2>1, MappedFunctions
<1>8. ASSUME NEW i \in Item
      PROVE  Raised'[i] \in Nat /\ Booked'[e][i] \in 0..Items!rest(i)
  <2>1. Items!rest(i) = remaining(i)
    BY <1>1, RestIsRemaining
  <2>2. /\ Booked'[e][i] \in Nat /\ Booked'[e][i] <= remaining(i)
        /\ remaining(i) \in Nat
    BY <1>2, <1>3, PlanTakesRests
  <2>3. Raised'[i] = ItemAmount(i)' /\ ItemAmount(i)' \in Nat
    BY ItemAmountTypeAfter DEF Raised
  <2>4. Booked'[e][i] \in 0..remaining(i)
    BY <2>2
  <2> QED BY <2>1, <2>3, <2>4
<1> QED
  BY <1>3, <1>5, <1>6, <1>7, <1>8 DEF Items!Post, Items!MayComeIntoForce

\* A reversal takes a posting back whose items nothing pays.
LEMMA ReverseTakesBack ==
  ASSUME IInv, SInv, NEW e \in Entry, NEW day \in Day, Reverse(e, day)
  PROVE  Items!TakeBack(e)
<1>1. /\ IsPosted(e) /\ ~IsReversed(e) /\ OnlyRow(e)
      /\ IsPosted(e)' /\ IsReversed(e)' /\ ~IsLive(e)'
      /\ \A i \in Item : ItemAmount(i)' = ItemAmount(i)
      /\ \A i \in ItemsOf(e), p \in Entry : IsLive(p) => entry[p].plan[i] = 0
  BY ReverseRow
<1>2. Standing[e] = "in force" /\ Standing'[e] = "taken back" /\ Booked'[e] = NoPlan
  BY <1>1 DEF Standing, Booked, NoPlan
<1>3. \A x \in Entry \ {e} : Standing'[x] = Standing[x] /\ Booked'[x] = Booked[x]
  BY <1>1, OtherRowsMapped
<1>4. Raised' = Raised
  BY <1>1 DEF Raised
<1>5. ASSUME NEW i \in Item, Items!Raises(e, i), NEW q \in Entry
      PROVE  Booked[q][i] = 0
  <2>1. i \in ItemsOf(e)
    BY <1>5, RaiserOf DEF ItemsOf
  <2> QED BY <1>1, <2>1 DEF Booked
<1>6. Standing' = [Standing EXCEPT ![e] = "taken back"]
  BY <1>2, <1>3, MappedFunctions
<1>7. Booked' = [Booked EXCEPT ![e] = Items!Nothing]
  BY <1>2, <1>3, MappedFunctions DEF Items!Nothing, NoPlan
<1> QED
  BY <1>2, <1>4, <1>5, <1>6, <1>7 DEF Items!TakeBack, Items!InForce

LEMMA ItemsNext == IInv /\ SInv /\ IInv' /\ [Next]_vars => [Items!Next]_Items!vars
<1> SUFFICES ASSUME IInv, SInv, IInv', [Next]_vars PROVE [Items!Next]_Items!vars
  OBVIOUS
<1>1. TypeOK' /\ RowsInOrder /\ RowsInOrder'
  BY DEF IInv
<1>2. CASE Quiet
  BY <1>1, <1>2, QuietRows, SameItems
<1>3. ASSUME NEW e \in Entry, PostCommit(e) PROVE [Items!Next]_Items!vars
  BY <1>1, <1>3, PostCommitPosts DEF Items!Next
<1>4. ASSUME NEW e \in Entry, NEW day \in Day, Reverse(e, day)
      PROVE  [Items!Next]_Items!vars
  BY <1>4, ReverseTakesBack DEF Items!Next
<1> QED BY <1>2, <1>3, <1>4, StepKinds

\* B03, B08: the ledger implements OpenItems.  Every posting is one step of it,
\* with all the items it raises on its accounts and all it settles, every reversal
\* is one that takes a posting back, and nothing else is seen by it.
THEOREM ImplementsOpenItems == Spec => KeepsItems
<1>1. IInv /\ SInv /\ IInv' /\ [Next]_vars => [Items!Next]_Items!vars
  BY ItemsNext
<1> QED
  BY <1>1, ItemsInit, SettlementsAlways, PTL DEF Spec, KeepsItems, Items!Spec

-----------------------------------------------------------------------------
(* General ledger and sub-ledger.                                          *)

\* One summand of SideTotal.
SideTerm(a, sign, e) ==
    (IF IsPosted(e)   THEN Pos(sign * entry[e].move[a])  ELSE 0)
  + (IF IsReversed(e) THEN Pos(-sign * entry[e].move[a]) ELSE 0)

\* What each entry (column) settles of the items of an account (rows).
PaidOn(a) == [e \in Entry |-> Paid(<<e, a>>)]

SettledBy(a, p) == [e \in Entry |-> PaidOn(a)[e][p]]

Side(a) == IF a \in Debtor THEN 1 ELSE -1

LEMMA PosType == \A n \in Int : Pos(n) \in Nat /\ n <= Pos(n)
  BY DEF Pos

LEMMA SideTermType ==
  ASSUME TypeOK, NEW a \in Account, NEW sign \in Int, NEW e \in Entry
  PROVE  SideTerm(a, sign, e) \in Nat
<1>1. sign * entry[e].move[a] \in Int /\ -sign * entry[e].move[a] \in Int
  BY RowFields
<1>2. Pos(sign * entry[e].move[a]) \in Nat /\ Pos(-sign * entry[e].move[a]) \in Nat
  BY <1>1, PosType
<1> QED BY <1>2 DEF SideTerm

LEMMA SideTotalIsSum ==
  ASSUME NEW a, NEW sign
  PROVE  SideTotal(a, sign) =
           SumFunctionOnSet([e \in Entry |-> SideTerm(a, sign, e)], Entry)
  BY Zenon DEF SideTotal, SideTerm, SumFunction

\* A row moves on the side of an account what it cannot settle there.
LEMMA SideTermIs ==
  ASSUME TypeOK, NEW a \in Account, NEW e \in Entry
  PROVE  LET n == Movable(entry[e], a) IN
         /\ n \in Int
         /\ SideTerm(a, Side(a), e) = (IF IsPosted(e)   THEN Pos(-n) ELSE 0)
                                    + (IF IsReversed(e) THEN Pos(n)  ELSE 0)
         /\ SideTerm(a, -Side(a), e) = (IF IsPosted(e)   THEN Pos(n)  ELSE 0)
                                     + (IF IsReversed(e) THEN Pos(-n) ELSE 0)
<1> DEFINE n == Movable(entry[e], a)
           m == entry[e].move[a]
<1>1. m \in Int
  BY RowFields
<1>2. /\ n \in Int
      /\ Side(a) * m = -n /\ -(Side(a) * m) = n
      /\ (-Side(a)) * m = n /\ -((-Side(a)) * m) = -n
  <2>1. CASE a \in Debtor
    <3>1. Side(a) = 1 /\ n = -m
      BY <2>1 DEF Side, Movable
    <3> HIDE DEF n, m
    <3> QED BY <1>1, <3>1
  <2>2. CASE a \notin Debtor
    <3>1. Side(a) = -1 /\ n = m
      BY <2>2 DEF Side, Movable
    <3> HIDE DEF n, m
    <3> QED BY <1>1, <3>1
  <2> QED BY <2>1, <2>2
<1>3. SideTerm(a, Side(a), e) = (IF IsPosted(e)   THEN Pos(Side(a) * m) ELSE 0)
                              + (IF IsReversed(e) THEN Pos(-(Side(a) * m)) ELSE 0)
  BY Zenon DEF SideTerm
<1>4. SideTerm(a, -Side(a), e) = (IF IsPosted(e)   THEN Pos((-Side(a)) * m) ELSE 0)
                               + (IF IsReversed(e) THEN Pos(-((-Side(a)) * m)) ELSE 0)
  BY Zenon DEF SideTerm
<1> HIDE DEF n, m
<1>5. /\ SideTerm(a, Side(a), e) = (IF IsPosted(e)   THEN Pos(-n) ELSE 0)
                                 + (IF IsReversed(e) THEN Pos(n)  ELSE 0)
      /\ SideTerm(a, -Side(a), e) = (IF IsPosted(e)   THEN Pos(n)  ELSE 0)
                                  + (IF IsReversed(e) THEN Pos(-n) ELSE 0)
  BY <1>2, <1>3, <1>4, Zenon
<1> QED BY <1>2, <1>5 DEF n

\* An item is at most the movement that created it.
LEMMA ItemWithinSide ==
  ASSUME TypeOK, NEW a \in Account, NEW e \in Entry
  PROVE  /\ ItemAmount(<<e, a>>) <= SideTerm(a, Side(a), e)
         /\ IsReversed(e) => ItemAmount(<<e, a>>) <= SideTerm(a, -Side(a), e)
<1> DEFINE n == Movable(entry[e], a)
<1>1. n \in Int
  BY SideTermIs
<1>2. ItemAmount(<<e, a>>) <= Pos(-n) /\ (~IsPosted(e) => ItemAmount(<<e, a>>) = 0)
  BY <1>1 DEF ItemAmount, CreatesItem, Pos
<1>3. ItemAmount(<<e, a>>) \in Nat
  BY ItemPairs, ItemAmountType
<1>4. Pos(n) \in Nat /\ Pos(-n) \in Nat
  BY <1>1, PosType
<1>5. SideTerm(a, Side(a), e) = (IF IsPosted(e) THEN Pos(-n) ELSE 0)
                              + (IF IsReversed(e) THEN Pos(n) ELSE 0)
  BY SideTermIs
<1>6. SideTerm(a, -Side(a), e) = (IF IsPosted(e) THEN Pos(n) ELSE 0)
                               + (IF IsReversed(e) THEN Pos(-n) ELSE 0)
  BY SideTermIs
<1> HIDE DEF n
<1> QED BY <1>2, <1>3, <1>4, <1>5, <1>6

\* What an entry can settle on an account is at most what it moved there.
LEMMA MovableWithinSide ==
  ASSUME TypeOK, NEW a \in Account, NEW e \in Entry, IsLive(e)
  PROVE  Movable(entry[e], a) \in Int /\ Movable(entry[e], a) <= SideTerm(a, -Side(a), e)
<1> DEFINE n == Movable(entry[e], a)
<1>1. n \in Int /\ IsPosted(e) /\ ~IsReversed(e)
  BY SideTermIs DEF IsLive
<1>2. SideTerm(a, -Side(a), e) = Pos(n) + 0
  BY <1>1, SideTermIs
<1> HIDE DEF n
<1> QED BY <1>1, <1>2, PosType DEF n

\* Everything one entry settles on an account is at most what it moved there.
LEMMA PaidWithinSide ==
  ASSUME TypeOK, PlansStand, NEW a \in Account, NEW p \in Entry
  PROVE  SumFunctionOnSet(SettledBy(a, p), Entry) <= SideTerm(a, -Side(a), p)
<1> DEFINE col == SettledBy(a, p)
           term == SideTerm(a, -Side(a), p)
<1> SUFFICES SumFunctionOnSet(col, Entry) <= term
  OBVIOUS
<1>1. IsFiniteSet(Entry) /\ \A x \in Entry : <<x, a>> \in Item
  BY LedgerAssumption, ItemPairs
<1>2. term \in Nat
  BY SideTermType DEF Side
<1>3. \A x \in Entry : col[x] = IF IsLive(p) THEN entry[p].plan[<<x, a>>]
                                ELSE IF p = x /\ IsReversed(p) THEN ItemAmount(<<x, a>>) ELSE 0
  BY DEF SettledBy, PaidOn, Paid
<1>4. ASSUME \A x \in Entry : col[x] = 0
      PROVE  SumFunctionOnSet(col, Entry) <= term
  <2> HIDE DEF col, term
  <2> QED BY <1>1, <1>2, <1>4, SumZero
<1>5. CASE IsLive(p)
  <2> DEFINE planned == [x \in Entry |-> entry[p].plan[<<x, a>>]]
  <2>1. col = planned
    BY <1>5 DEF SettledBy, PaidOn, Paid
  <2>2. \A x \in Entry : planned[x] \in Int
    BY <1>1, RowFields
  <2>3. SumFunctionOnSet(planned, Entry) = PlannedOn(entry[p], a)
    BY Zenon DEF PlannedOn, SumFunction
  <2>4. PlannedOn(entry[p], a) \in Int
    <3> HIDE DEF planned
    <3> QED BY <1>1, <2>2, <2>3, SumInt
  <2>5. CASE PlannedOn(entry[p], a) > 0
    <3>1. PlannedOn(entry[p], a) <= Movable(entry[p], a)
      BY <1>5, <2>5 DEF PlansStand, PlanStands, IsLive
    <3>2. Movable(entry[p], a) \in Int /\ Movable(entry[p], a) <= term
      BY <1>5, MovableWithinSide
    <3> HIDE DEF col, term, planned
    <3> QED BY <1>2, <2>1, <2>3, <2>4, <3>1, <3>2
  <2>6. CASE ~(PlannedOn(entry[p], a) > 0)
    <3> HIDE DEF col, term, planned
    <3> QED BY <1>2, <2>1, <2>3, <2>4, <2>6
  <2> QED BY <2>5, <2>6
<1>6. CASE ~IsLive(p) /\ IsReversed(p)
  <2>1. col[p] = ItemAmount(<<p, a>>) /\ \A x \in Entry \ {p} : col[x] = 0
    BY <1>3, <1>6
  <2>2. col[p] \in Int
    BY <1>1, <2>1, ItemAmountType
  <2>3. col[p] <= term
    BY <1>6, <2>1, ItemWithinSide
  <2> HIDE DEF col, term
  <2>4. SumFunctionOnSet(col, Entry) = col[p]
    BY <1>1, <2>1, <2>2, SumOfOne
  <2> QED BY <2>3, <2>4
<1>7. CASE ~IsLive(p) /\ ~IsReversed(p)
  BY <1>3, <1>4, <1>7
<1> QED BY <1>5, <1>6, <1>7

\* The settlements of an account, added item by item, are the parts of the
\* entries, added entry by entry.
LEMMA SettledTotalByEntry ==
  ASSUME TypeOK, SettlementsExplained, NEW a \in Account
  PROVE  SettledTotal(a) =
           SumFunctionOnSet([p \in Entry |-> SumFunctionOnSet(SettledBy(a, p), Entry)], Entry)
<1> DEFINE m == PaidOn(a)
           f == [e \in Entry |-> settled[<<e, a>>][LastDay]]
           g == [e \in Entry |-> SumFunctionOnSet(m[e], Entry)]
<1>1. IsFiniteSet(Entry) /\ \A e \in Entry : <<e, a>> \in Item
  BY LedgerAssumption, ItemPairs
<1>2. \A e \in Entry : m[e] = Paid(<<e, a>>)
  BY DEF PaidOn
<1>3. \A e, p \in Entry : m[e][p] \in Int
  <2> SUFFICES ASSUME NEW e \in Entry, NEW p \in Entry PROVE m[e][p] \in Int
    OBVIOUS
  <2>1. Paid(<<e, a>>)[p] \in Nat
    BY <1>1, PaidType
  <2> QED BY <1>2, <2>1
<1>4. SettledTotal(a) = SumFunctionOnSet(f, Entry)
  BY DEF SettledTotal, SumFunction
<1>5. ASSUME NEW e \in Entry PROVE f[e] = g[e]
  <2>1. <<e, a>> \in Item /\ DOMAIN Paid(<<e, a>>) = Entry
    BY <1>1, PaidType
  <2>2. settled[<<e, a>>][LastDay] = SumFunctionOnSet(Paid(<<e, a>>), Entry)
    BY <2>1 DEF SettlementsExplained, SumFunction
  <2> QED BY <1>2, <2>2
<1>6. SumFunctionOnSet(f, Entry) = SumFunctionOnSet(g, Entry)
  <2> HIDE DEF f, g
  <2> QED BY <1>1, <1>5, SumSame
<1>7. SumFunctionOnSet(g, Entry) =
        SumFunctionOnSet([p \in Entry |->
          SumFunctionOnSet([e \in Entry |-> m[e][p]], Entry)], Entry)
  <2> HIDE DEF m
  <2> QED BY <1>1, <1>3, SumByRowsOrColumns
<1> QED BY <1>4, <1>6, <1>7 DEF SettledBy

LEMMA SubledgerFollows == TypeOK /\ SInv => SubledgerWithinLedger
<1> SUFFICES ASSUME TypeOK, SInv, NEW a \in Account
             PROVE  /\ ItemTotal(a) <= SideTotal(a, Side(a))
                    /\ SettledTotal(a) <= SideTotal(a, -Side(a))
  BY DEF SubledgerWithinLedger, Side
<1>0. /\ IsFiniteSet(Entry) /\ Side(a) \in Int /\ -Side(a) \in Int
      /\ \A e \in Entry : <<e, a>> \in Item
  <2>1. Side(a) \in Int
    BY DEF Side
  <2> QED BY <2>1, LedgerAssumption, ItemPairs
<1>1. ItemTotal(a) <= SideTotal(a, Side(a))
  <2> DEFINE f == [e \in Entry |-> ItemAmount(<<e, a>>)]
             g == [e \in Entry |-> SideTerm(a, Side(a), e)]
  <2>1. \A e \in Entry : f[e] \in Int /\ g[e] \in Int /\ f[e] <= g[e]
    <3> SUFFICES ASSUME NEW e \in Entry
                 PROVE  f[e] \in Int /\ g[e] \in Int /\ f[e] <= g[e]
      OBVIOUS
    <3>1. SideTerm(a, Side(a), e) \in Nat
      BY <1>0, SideTermType
    <3> QED BY <1>0, <3>1, ItemAmountType, ItemWithinSide
  <2>2. ItemTotal(a) = SumFunctionOnSet(f, Entry)
    BY DEF ItemTotal, SumFunction
  <2>3. SideTotal(a, Side(a)) = SumFunctionOnSet(g, Entry)
    BY SideTotalIsSum
  <2> HIDE DEF f, g
  <2> QED BY <1>0, <2>1, <2>2, <2>3, SumAtMost
<1>2. SettledTotal(a) <= SideTotal(a, -Side(a))
  <2> DEFINE f == [p \in Entry |-> SumFunctionOnSet(SettledBy(a, p), Entry)]
             g == [e \in Entry |-> SideTerm(a, -Side(a), e)]
  <2>1. \A p \in Entry : f[p] \in Int /\ g[p] \in Int /\ f[p] <= g[p]
    <3> SUFFICES ASSUME NEW p \in Entry
                 PROVE  f[p] \in Int /\ g[p] \in Int /\ f[p] <= g[p]
      OBVIOUS
    <3>1. SideTerm(a, -Side(a), p) \in Nat
      BY <1>0, SideTermType
    <3>2. f[p] = SumFunctionOnSet(SettledBy(a, p), Entry)
      OBVIOUS
    <3>3. \A x \in Entry : SettledBy(a, p)[x] \in Int
      <4> SUFFICES ASSUME NEW x \in Entry PROVE SettledBy(a, p)[x] \in Int
        OBVIOUS
      <4>1. Paid(<<x, a>>)[p] \in Nat
        BY <1>0, PaidType
      <4> QED BY <4>1 DEF SettledBy, PaidOn
    <3>4. f[p] \in Int
      BY <1>0, <3>2, <3>3, SumInt
    <3>5. f[p] <= SideTerm(a, -Side(a), p)
      BY <3>2, PaidWithinSide DEF SInv
    <3> HIDE DEF f
    <3> QED BY <3>1, <3>4, <3>5
  <2>2. SettledTotal(a) = SumFunctionOnSet(f, Entry)
    BY SettledTotalByEntry DEF SInv
  <2>3. SideTotal(a, -Side(a)) = SumFunctionOnSet(g, Entry)
    BY SideTotalIsSum
  <2> HIDE DEF f, g
  <2> QED BY <1>0, <2>1, <2>2, <2>3, SumAtMost
<1> QED BY <1>1, <1>2

\* B09, `subledger_findings': per personal account the open items never exceed
\* the postings on their side, nor the settlements those on the other side.
THEOREM SubledgerStaysWithinLedger == Spec => []SubledgerWithinLedger
<1>1. IInv /\ SInv => SubledgerWithinLedger
  BY SubledgerFollows DEF IInv
<1> QED
  BY <1>1, SettlementsAlways, PTL

-----------------------------------------------------------------------------
(* What a step may never do.                                               *)

\* The only step that touches a posted row is its reversal.
LEMMA OnlyReverseTouchesPosted ==
  ASSUME IInv, [Next]_vars, NEW x \in Entry, IsPosted(x), entry'[x] # entry[x]
  PROVE  \E day \in Day : Reverse(x, day)
<1> USE DEF IInv
<1>1. ~IsDraft(x) /\ entry[x].status # "absent" /\ x \notin inFlight
  BY DEF IsPosted, IsDraft, RowsInOrder
<1>2. ASSUME NEW u \in User, NEW e \in Entry, NEW c \in Input[e], CreateDraft(u, e, c)
      PROVE  FALSE
  BY <1>1, <1>2 DEF CreateDraft, WriteDraft, TypeOK
<1>10. ASSUME NEW e \in Entry, NEW c \in Input[e], UpdateDraft(e, c)
       PROVE  FALSE
  BY <1>1, <1>10 DEF UpdateDraft, WriteDraft, TypeOK
<1>3. ASSUME NEW u \in User, NEW e \in Entry, ApproveDraft(u, e) PROVE FALSE
  BY <1>1, <1>3 DEF ApproveDraft, TypeOK
<1>4. ASSUME NEW e \in Entry, DeleteDraft(e) PROVE FALSE
  BY <1>1, <1>4 DEF DeleteDraft, TypeOK
<1>5. ASSUME NEW e \in Entry, PostStart(e) \/ PostAbort(e) PROVE FALSE
  BY <1>5 DEF PostStart, PostAbort
<1>6. ASSUME NEW e \in Entry, PostCommit(e) PROVE FALSE
  BY <1>1, <1>6 DEF PostCommit, TypeOK
<1>7. ASSUME NEW e \in Entry, NEW day \in Day, Reverse(e, day) PROVE e = x
  BY <1>7 DEF Reverse, TypeOK
<1>8. ASSUME NEW until \in Day, LockPeriod(until) PROVE FALSE
  BY <1>8 DEF LockPeriod
<1>9. ~UNCHANGED vars
  BY DEF vars
<1> QED
  BY <1>2, <1>3, <1>4, <1>5, <1>6, <1>7, <1>8, <1>9, <1>10 DEF Next

\* B03: a posted row never changes, except that its reversal is set once.
THEOREM PostedRowsAreImmutable == Spec => PostedImmutable
<1>1. ASSUME IInv, [Next]_vars
      PROVE  \A e \in Entry : IsPosted(e) =>
               \/ entry'[e] = entry[e]
               \/ /\ ~IsReversed(e)
                  /\ entry'[e] = [entry[e] EXCEPT !.reversalDay = entry'[e].reversalDay,
                                                  !.reversalNumber = entry'[e].reversalNumber]
  <2> SUFFICES ASSUME NEW e \in Entry, IsPosted(e), entry'[e] # entry[e]
               PROVE  /\ ~IsReversed(e)
                      /\ entry'[e] = [entry[e] EXCEPT !.reversalDay = entry'[e].reversalDay,
                                                      !.reversalNumber = entry'[e].reversalNumber]
    OBVIOUS
  <2>1. PICK day \in Day : Reverse(e, day)
    BY <1>1, OnlyReverseTouchesPosted
  <2>2. entry[e] \in EntryRow
    BY <1>1 DEF IInv, TypeOK
  <2>3. entry'[e] = [entry[e] EXCEPT !.reversalDay = day,
                                     !.reversalNumber = NextNumber(FiscalYear[day])]
    BY <1>1, <2>1 DEF Reverse, IInv, TypeOK
  <2>4. entry'[e].reversalDay = day /\ entry'[e].reversalNumber = NextNumber(FiscalYear[day])
    BY <2>2, <2>3 DEF EntryRow
  <2> QED
    BY <2>1, <2>3, <2>4 DEF Reverse, IsLive
<1>2. IInv /\ [Next]_vars =>
        [\A e \in Entry : IsPosted(e) =>
           LET new == entry'[e]  old == entry[e] IN
           \/ new = old
           \/ /\ ~IsReversed(e)
              /\ new = [old EXCEPT !.reversalDay = new.reversalDay,
                                   !.reversalNumber = new.reversalNumber]]_vars
  BY <1>1
<1> QED
  BY <1>2, SafeAlways, PTL DEF Spec, PostedImmutable

\* B03, B07: only a posting that had passed its period check before the lock was
\* set can still change the open items of a locked period.
THEOREM LockedPeriodsAreFrozen == Spec => LockedPeriodFrozen
<1>1. ASSUME IInv, [Next]_vars, NEW i \in Item, NEW d \in Day,
             d <= lockedUntil, settled'[i][d] # settled[i][d]
      PROVE  \E e \in inFlight : IsPosted(e)' /\ d >= entry[e].day
  <2> USE DEF IInv
  <2>1. ASSUME NEW e \in Entry, PostCommit(e)
        PROVE  e \in inFlight /\ IsPosted(e)' /\ d >= entry[e].day
    <3>1. e \in inFlight /\ entry'[e].status = "posted"
      BY <1>1, <2>1 DEF PostCommit, TypeOK, EntryRow
    <3>2. Settle(entry[e].plan, entry[e].day)
      BY <2>1 DEF PostCommit
    <3> QED
      BY <1>1, <3>1, <3>2 DEF Settle, IsPosted, TypeOK
  <2>2. ASSUME NEW e \in Entry, NEW day \in Day, Reverse(e, day)
        PROVE  FALSE
    <3>1. day > lockedUntil /\ Settle(Undo(e), day)
      BY <2>2 DEF Reverse, PeriodOpen
    <3> QED
      BY <1>1, <3>1 DEF Settle, TypeOK, Day
  <2>3. ASSUME UNCHANGED settled PROVE FALSE
    BY <1>1, <2>3
  <2> QED
    BY <1>1, <2>1, <2>2, <2>3 DEF Next, vars, CreateDraft, UpdateDraft, ApproveDraft,
       DeleteDraft, PostStart, PostAbort, LockPeriod
<1>2. IInv /\ [Next]_vars =>
        [\A i \in Item, d \in Day :
           d <= lockedUntil /\ settled'[i][d] # settled[i][d] =>
             \E e \in inFlight : IsPosted(e)' /\ d >= entry[e].day]_vars
  BY <1>1
<1> QED
  BY <1>2, SafeAlways, PTL DEF Spec, LockedPeriodFrozen
=============================================================================
