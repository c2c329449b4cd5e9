SPECIFICATION Spec
CONSTANTS
  i1 = i1
  i2 = i2
  o1 = o1
  o2 = o2
  anna = anna
  bert = bert
  admin = admin
  p1 = p1
  b1 = b1
  b2 = b2
  t1 = t1
  t2 = t2
  t3 = t3
  NoItem = NoItem
  NoOrder = NoOrder
  NoBatch = NoBatch
  NoTx = NoTx
  Item = {i1}
  Gross <- MCGross
  Order = {o1, o2}
  User = {anna, bert, admin}
  Person <- MCPerson
  PlatformAdmin = {admin}
  Payee = {p1}
  FirstPayee = p1
  Batch = {b1, b2}
  Tx = {t1, t2}
  TxAmount <- MCTxAmount
  TxRef <- MCTxRef
  DailyLimit = 2
INVARIANTS TypeOK CreditsMatchReturns TwoPersonsApproved 
PROPERTIES OrdersStayProper FrozenAfterHandOver
SYMMETRY MCSymmetry
CHECK_DEADLOCK FALSE
