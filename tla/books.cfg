SPECIFICATION Spec
CONSTANTS
  Txns = {t1, t2}
  Accounts = {assets, cash, plant, payable, shares, sales, wear, spare}
  assets = assets
  cash = cash
  plant = plant
  payable = payable
  shares = shares
  sales = sales
  wear = wear
  spare = spare
  x1 = x1
  x2 = x2
  n1 = n1
  Centres = {x1, x2}
  Names = {n1}
  MaxLevel = 4
  Template <- TheTemplate
  News <- TheNews
  Updates <- TheUpdates
  Nil = Nil
  Unset = Unset
  Entries = {1, 2, 3}
  Dates = {1, 2}
  Today = 2
  Shapes <- TheShapes
  Openings <- TheOpenings
  Ranges <- TheRanges
  CogsRoot = spare
  FixedAssetRoot = plant
  DepreciationRoot = wear
  CapitalRoot = shares
  Inception = 0
SYMMETRY Requests
INVARIANTS
  ChartSound
  ReversalsCancel
  StatementsAgree
PROPERTIES
  PostedStays
  ClosedIsClosed
CHECK_DEADLOCK FALSE
