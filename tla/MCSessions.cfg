CONSTANTS
  Procs = {p1, p2}
  TokenIds = {t1, t2, t3}
  TTL = 2
  MaxPassword = 2
SYMMETRY Symmetry
SPECIFICATION Spec
INVARIANT ExchangedOnce OpenedWithThePassword ClosedWithinTTL
CHECK_DEADLOCK FALSE
