SPECIFICATION Spec
CONSTANTS
  i1 = i1
  i2 = i2
  o1 = o1
  o2 = o2
  anna = anna
  bert = bert
  admin = admin
  p1 = p1
  b1 = b1
  b2 = b2
  t1 = t1
  t2 = t2
  t3 = t3
  NoItem = NoItem
  NoOrder = NoOrder
  NoBatch = NoBatch
  NoTx = NoTx
  Item = {i1, i2}
  Gross <- MCGross
  Order = {o1}
  User = {anna, bert}
  Person <- MCPerson
  PlatformAdmin = {}
  Payee = {p1}
  FirstPayee = p1
  Batch = {b1}
  Tx = {t1, t2, t3}
  TxAmount <- BookingsTxAmount
  TxRef <- MCTxRef
  DailyLimit = 2
INVARIANTS PaidWithinPayable
SYMMETRY BookingsSymmetry
CHECK_DEADLOCK FALSE
