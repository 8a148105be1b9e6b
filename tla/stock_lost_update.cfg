SPECIFICATION Spec
CONSTANTS
  Txns = {t1, t2}
  Quants = {a, b}
  Opening = {0, 2}
  Qtys = {2}
  Counts = {1}
  Kinds = {"receive", "restock"}
  Methods = {"average", "fifo"}
  MaxLines = 1
  Earlier = Earlier
  NoTxn = NoTxn
INVARIANT OnHandIsMoves
CHECK_DEADLOCK FALSE
