SPECIFICATION Spec
CONSTANTS
  e1 = e1
  e2 = e2
  e3 = e3
  tenant = tenant
  supplier = supplier
  NoUser = NoUser
  Entry = {e1, e2, e3}
  Account = {tenant, supplier}
  Debtor = {tenant}
  User = {u1}
  LastDay = 2
  FiscalYear <- MCFiscalYear
  Input <- MixedInput
PROPERTIES
  NoPostingInLockedPeriod
