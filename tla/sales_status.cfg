SPECIFICATION Spec
CONSTANTS
  Txns = {t1, t2}
  Lines = {a, b}
  OrderQtys = {1}
  AskQtys = {0, 1}
  Kinds = {"issue_some"}
  AllowRepeats = FALSE
  OrderRow = OrderRow
  NoTxn = NoTxn
  NoRow = NoRow
INVARIANT StatusReflectsFulfilment
CHECK_DEADLOCK FALSE
