CONSTANTS
  Procs = {p1, p2}
  AllocIds = {a1, a2}
  Horizon = 2
  Free = Free
  Clerks = {c1, c2}
  Sites = {s1, s2}
  MaxRate = 2
  Costs = {3}
SYMMETRY Symmetry
SPECIFICATION MCSpec
INVARIANT CheckedNoOverlap DailyHasRate SharesFillTheMonth
PROPERTY TransferKeepsHistory FrozenRate
CHECK_DEADLOCK FALSE
