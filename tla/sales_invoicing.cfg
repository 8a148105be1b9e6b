SPECIFICATION FairSpec
CONSTANTS
  Txns = {t1, t2}
  Lines = {a, b}
  OrderQtys = {1, 2}
  AskQtys = {0, 1, 2}
  Kinds = {"issue_all", "issue_some", "update", "cancel"}
  AllowRepeats = FALSE
  OrderRow = OrderRow
  NoTxn = NoTxn
  NoRow = NoRow
INVARIANTS
  TypeOK
  NotOverInvoiced
  InvoicedIsBilled
  NumbersWithoutGap
PROPERTIES
  RefinesLedger
  EveryRequestEnds
CHECK_DEADLOCK FALSE
