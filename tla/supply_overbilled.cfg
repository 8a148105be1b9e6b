SPECIFICATION Spec
CONSTANTS
  bolt = bolt
  labour = labour
  w1 = w1
  w2 = w2
  Products = {bolt}
  Services = {labour}
  Warehouses = {w1, w2}
  ReorderPoint <- TheReorderPoint
  CostPrice <- TheCostPrice
  Qtys = {1, 2}
  Costs = {900}
  Invoiced <- TheInvoiced
  Sheets <- TheSheets
  Scale = 100
  Txns = {t1, t2}
  Baskets <- TheBaskets
  BillPrices = {300, 1050}
  Returns <- TheReturns
  MaxOrders = 1
  Threshold = 3000
  VatPercent = 15
  Cent = 100
  Openings <- TheOpenings
  Idle = Idle
  None = None
INVARIANT
  BilledHasArrived
SYMMETRY RequestsAreAlike
CHECK_DEADLOCK FALSE
