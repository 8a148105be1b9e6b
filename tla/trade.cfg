SPECIFICATION Spec
CONSTANTS
  c1 = c1
  c2 = c2
  v1 = v1
  r1 = r1
  bolt = bolt
  nut = nut
  standard = standard
  zero = zero
  None = None
  Customers = {c1, c2}
  Vendors = {v1}
  Reps = {r1}
  Partner <- ThePartner
  VendorDays <- TheVendorDays
  Dates = {32, 70}
  Offers <- TheOffers
  Returned <- TheReturned
  TaxPercent <- TheTax
  Rates = {None, 750}
  BillSubtotals = {1003}
  VatPercent = 1500
  Receipts <- TheReceipts
  MaxQuotations = 1
  MaxDocuments = 3
  MaxMixed = 2
  MaxInvoices = 2
  MaxBills = 2
  MaxPayments = 1
  MonthLength = 31
  ListLimit = 2
  Ranges <- TheRanges
INVARIANTS
  SubledgersAgree
  ReportsAgree
  CommissionsOffset
CHECK_DEADLOCK FALSE
