SPECIFICATION Spec
CONSTANTS
  Txns = {t1, t2, t3}
  Assets = {a1, a2}
  a1 = a1
  a2 = a2
  k1 = k1
  k2 = k2
  Cats = {k1, k2}
  Names = {n1}
  Months = {1, 2}
  Offers <- TheOffers
  Proceeds = {0, 3}
  Registers <- TheRegisters
  Nil = Nil
INVARIANTS
  LedgerFollowsRegister
  RegisterSound
SYMMETRY RequestsAlike
CHECK_DEADLOCK FALSE
