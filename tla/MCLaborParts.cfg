CONSTANTS
  Procs = {p1}
  AllocIds = {a1}
  Horizon = 2
  Free = Free
  Clerks = {c1}
  Sites = {s1, s2}
  MaxRate = 1
  Costs = {3}
SPECIFICATION MCSpec
INVARIANT PartsMakeTheMonth
CHECK_DEADLOCK FALSE
