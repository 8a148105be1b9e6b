SPECIFICATION Spec
CONSTANTS
  Txns = {t1, t2}
  Lines = {a}
  OrderQtys = {1}
  AskQtys = {0, 1}
  Kinds = {"issue_all", "update"}
  AllowRepeats = FALSE
  OrderRow = OrderRow
  NoTxn = NoTxn
  NoRow = NoRow
PROPERTY InvoicedLinesStay
CHECK_DEADLOCK FALSE
