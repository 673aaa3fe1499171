CONSTANTS
  Procs = {p1, p2}
  ItemIds = {i1, i2}
  OrderIds = {o1, o2}
  MaxQty = 2
  Prices = {0, 1}
  LiveStatuses = {"OPEN"}
  Threshold = 1
  Ops <- AllOps
  Free = Free
SYMMETRY Symmetry
SPECIFICATION MCSpec
INVARIANT CheckedWithinRequested RequestKeepsARow FulfilledMeansNothingToBuy ApprovalCoversTotal
PROPERTY BoughtLineIsFrozen ImplementsLedger
CHECK_DEADLOCK FALSE
