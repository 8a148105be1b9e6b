SPECIFICATION FairSpec
CONSTANTS
  Txns = {t1, t2}
  Quants = {a, b}
  Opening = {0, 2}
  Qtys = {2}
  Counts = {1}
  Kinds = {"receive", "issue", "restock", "vendor_return", "transfer", "count", "approve"}
  Methods = {"average", "fifo"}
  MaxLines = 1
  Earlier = Earlier
  NoTxn = NoTxn
INVARIANTS
  TypeOK
  NegativeOnlyByReturn
  TransfersConserve
PROPERTIES
  BalanceFollowsMoves
  EveryRequestEnds
CHECK_DEADLOCK FALSE
