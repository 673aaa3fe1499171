CONSTANTS
    Procs = {p1, p2}
    AccountIds = {a1, a2}
    PaymentIds = {m1, m2}
    NoAccount = NoAccount
    Inexact <- Tenths
    Workloads <- Loads
SYMMETRY Symmetry
SPECIFICATION Spec
INVARIANT StatusTellsPayments ApprovedAsItStands
PROPERTY PaidIsNotCancelled CancelSettlesOrder
CHECK_DEADLOCK FALSE
