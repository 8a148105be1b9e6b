SPECIFICATION FairSpec
CONSTANTS
  Docs = {d1, d2, d3}
  Workers = {w1}
  MaxRetries = 1
  MaxCrashes = 1
  Genesis = Genesis
  NoDoc = NoDoc
INVARIANTS
  TypeOK
  ChainIsTotalOrder
  AcceptedIsKnown
PROPERTIES
  RefinesHashChain
  PendingIsReported
CHECK_DEADLOCK FALSE
