CONSTANTS
  Procs = {p1, p2}
  NoteIds = {r1, r2}
  Papers = {k1, k2}
  OrderIds = {o1}
  InvoiceIds = {v1, v2}
  s1 = s1
  s2 = s2
  Suppliers = {s1, s2}
  None = None
  MaxTotal = 3
  Workloads <- Loads
SYMMETRY Symmetry
SPECIFICATION NotesSpec
INVARIANT NotesTypeOK OneDebtPerNote DebtIsOfTheNote CancelledAtSource
PROPERTY ReconciledClosesOrder
CHECK_DEADLOCK FALSE
