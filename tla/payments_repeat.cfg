SPECIFICATION Spec
CONSTANTS
  Txns = {t1, t2}
  Invoices = {i1, i2}
  Bills = {b1}
  Totals = {1, 2}
  Amounts = {1, 2}
  MaxAllocs = 2
  AllowRepeats = TRUE
  NoTxn = NoTxn
INVARIANTS
  InvoicesWithinTotal
CHECK_DEADLOCK FALSE
