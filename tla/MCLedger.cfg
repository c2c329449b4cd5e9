SPECIFICATION Spec
CONSTANTS
  e1 = e1
  e2 = e2
  e3 = e3
  tenant = tenant
  supplier = supplier
  NoUser = NoUser
  Entry = {e1, e2, e3}
  Account = {tenant, supplier}
  Debtor = {tenant}
  User = {u1, u2}
  LastDay = 2
  FiscalYear <- MCFiscalYear
  Input <- MixedInput
INVARIANTS
  TypeOK
  SettledWithinItem
  SettlementsExplained
  ReversedIsNeutral
  GaplessRegister
  SubledgerWithinLedger
  OpeningBalanceChecked
PROPERTIES
  LockedPeriodFrozen
  KeepsItems
SYMMETRY People
