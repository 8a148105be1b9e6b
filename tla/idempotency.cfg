SPECIFICATION FairSpec
CONSTANTS
  Reqs = {r1, r2, r3}
  Keys = {k1}
  Bodies = {b1, b2}
  Targets = {d1}
  NoReq = NoReq
  NoKey = NoKey
  Refused = Refused
INVARIANTS
  TypeOK
  AnswersAreTrue
  NeverFoundInProgress
PROPERTIES
  RefinesExactlyOnce
  EveryRequestAnswered
CHECK_DEADLOCK FALSE
