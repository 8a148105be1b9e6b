SPECIFICATION Spec
CONSTANTS
  Reqs = {r1, r2}
  Keys = {k1}
  Bodies = {b1}
  Targets = {d1, d2}
  NoReq = NoReq
  NoKey = NoKey
  Refused = Refused
INVARIANT ReplayIsForSameTarget
CHECK_DEADLOCK FALSE
