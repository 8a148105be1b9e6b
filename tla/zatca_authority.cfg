SPECIFICATION Spec
CONSTANTS
  Docs = {d1, d2}
  Workers = {w1}
  MaxRetries = 0
  MaxCrashes = 0
  Genesis = Genesis
  NoDoc = NoDoc
INVARIANT AuthoritySeesOneChain
CHECK_DEADLOCK FALSE
