------------------------------ MODULE Payables ------------------------------
(***************************************************************************)
(* What is owed for one purchase order: its invoice, the accounts payable  *)
(* that the invoice or the finance team opened, and their payments.        *)
(*                                                                         *)
(* No lock covers a handler.  Each reads, decides, and writes later; the   *)
(* status of an account is recomputed from its payments in statements of   *)
(* their own, after the payment was written.                               *)
(***************************************************************************)
EXTENDS Naturals, FiniteSets, Functions, Sums

CONSTANTS
    Procs,          \* concurrent HTTP requests
    AccountIds,     \* ids that accounts may get
    PaymentIds,     \* ids that payments may get
    NoAccount,      \* the account of a payment that does not exist
    Inexact,        \* sets of amounts: see Shortfalls
    Workloads       \* what the users may do: see Init

ASSUME ProcsAssumption == IsFiniteSet(Procs)
ASSUME IdsAssumption == IsFiniteSet(AccountIds) /\ IsFiniteSet(PaymentIds)
ASSUME NoAccountAssumption == NoAccount \notin AccountIds

OrderStatus == {"ACTIVE", "CANCELLED"}
InvoiceStatus == {"RECEIVED", "VALIDATED", "CANCELLED"}
AccountStatus == {"OPEN", "PARTIAL", "PAID", "CANCELLED"}
PaymentStatus == {"PENDING", "PROCESSING", "PAID", "REFUNDED"}

(* Amounts are positive (CreateAccountPayableDto, CreatePaymentDto).       *)
ASSUME WorkloadAssumption ==
    Workloads \subseteq [calls: Nat, ops: SUBSET STRING, accounts: Nat, payments: Nat,
                         amounts: SUBSET (Nat \ {0}), dates: SUBSET Nat,
                         statuses: SUBSET PaymentStatus]

VARIABLES
    order,          \* status of the order: cancelled or not
    invoice,        \* the invoice of the order
    accounts,       \* AccountPayable
    payments,       \* Payment
    pc, call,
    stale,          \* history: accounts whose payments changed and that no undisturbed
                    \* recalculation has followed (it may be lost with the process)
    workload        \* how many calls come at once, how many rows, which values

vars == <<order, invoice, accounts, payments, pc, call, stale, workload>>

(* The amount and the due date, and for which of them the payment was      *)
(* approved (history: the code keeps only that it was).                    *)
Terms == [amount: Nat, due: Nat]
Unapproved == [amount |-> 0, due |-> 0]

Accounts == [origin: {"none", "INVOICE", "MANUAL"}, status: AccountStatus,
             terms: Terms, approved: Terms, removed: BOOLEAN]
Payments == [account: AccountIds \cup {NoAccount}, amount: Nat,
             status: PaymentStatus, removed: BOOLEAN]

NewAccount(origin, terms) ==
    [origin |-> origin, status |-> "OPEN", terms |-> terms,
     approved |-> Unapproved, removed |-> FALSE]
NewPayment(a, amount, status) ==
    [account |-> a, amount |-> amount, status |-> status, removed |-> FALSE]
AbsentAccount == NewAccount("none", Unapproved)
AbsentPayment == NewPayment(NoAccount, 0, "PENDING")
NoCall == [op |-> "none"]
-----------------------------------------------------------------------------
Opened == {a \in AccountIds : accounts[a].origin # "none"}
Made == {m \in PaymentIds : payments[m].account # NoAccount}
Existing == {a \in Opened : ~accounts[a].removed}

(* The accounts of the invoice, which is the invoice of the order.         *)
OfInvoice == {a \in Existing : accounts[a].origin = "INVOICE"}

(* The payments that count: PAID and not deleted.                          *)
PaidOf(a) ==
    {m \in Made : payments[m].account = a /\ payments[m].status = "PAID" /\ ~payments[m].removed}

PaidSum(a) == SumOver([m \in PaymentIds |-> payments[m].amount], PaidOf(a))

AmountsPaid(a) == {payments[m].amount : m \in PaidOf(a)}

(* The sum of amounts is exact.  The code adds them as doubles: where they *)
(* add up to just the total, what it gets may be less, for some amounts    *)
(* (0.10 + 0.70 < 0.80, so {1, 7} in units of ten cents) and, for three or *)
(* more, some orders of the rows.  It is never off by a cent.              *)
Shortfalls(a) == IF AmountsPaid(a) \in Inexact THEN BOOLEAN ELSE {FALSE}

(* Mutant: an account paid in full is still partial.                       *)
StatusForBeyond(sum, total, short) ==
    IF sum = 0 THEN "OPEN" ELSE IF sum > total THEN "PAID" ELSE "PARTIAL"

StatusFor(sum, total, short) ==
    IF sum = 0 THEN "OPEN"
    ELSE IF sum > total \/ (sum = total /\ ~short) THEN "PAID" ELSE "PARTIAL"

Ledger == <<order, invoice, accounts, payments>>

At(p, step, op) == pc[p] = step /\ call[p].op = op

Begin(p, c, step) ==
    /\ c.op \in workload.ops
    /\ pc[p] = "idle"
    /\ Cardinality({q \in Procs : pc[q] # "idle"}) < workload.calls
    /\ call' = [call EXCEPT ![p] = c]
    /\ pc' = [pc EXCEPT ![p] = step]
    /\ UNCHANGED <<Ledger, stale>>

Goto(p, c, step) == call' = [call EXCEPT ![p] = c] /\ pc' = [pc EXCEPT ![p] = step]
Finish(p) == Goto(p, NoCall, "idle")

(* A refusal, an error of the database, or the end of the process.         *)
Abort(p) == pc[p] # "idle" /\ Finish(p) /\ UNCHANGED <<Ledger, stale>>

FreshTerms == [amount: workload.amounts, due: workload.dates]

(* What a PATCH may carry: any fields of a row.  They replace those that   *)
(* were there.                                                             *)
Patches(rows) == UNION {{Restrict(row, fields) : fields \in SUBSET DOMAIN row} : row \in rows}
Patched(old, sent) == [f \in DOMAIN old |-> IF f \in DOMAIN sent THEN sent[f] ELSE old[f]]
-----------------------------------------------------------------------------
(* POST /account-payables, for the invoice: the invoice exists and has no  *)
(* account yet, whatever its status.  Or by hand, for nothing but itself.  *)
BeginCreateAccount(p) ==
    \E origin \in {"INVOICE", "MANUAL"}, terms \in FreshTerms :
        /\ origin = "INVOICE" => ~invoice.removed /\ OfInvoice = {}
        /\ Begin(p, [op |-> "createAccount", origin |-> origin, terms |-> terms], "write")

(* Bound: ids are used once, and as many as the workload has.              *)
FreshAccounts ==
    {a \in AccountIds \ Opened : Cardinality(Opened) < workload.accounts}

CommitCreateAccount(p) ==
    /\ At(p, "write", "createAccount")
    /\ \E a \in FreshAccounts :
        accounts' = [accounts EXCEPT ![a] = NewAccount(call[p].origin, call[p].terms)]
    /\ Finish(p)
    /\ UNCHANGED <<order, invoice, payments, stale>>

(* PATCH /invoices/:id/status, from RECEIVED only.  A validation opens the *)
(* account of the invoice in the same transaction.                         *)
BeginUpdateInvoice(p) ==
    /\ ~invoice.removed /\ invoice.status = "RECEIVED"
    /\ \E status \in {"VALIDATED", "CANCELLED"}, terms \in FreshTerms :
        Begin(p, [op |-> "updateInvoice", status |-> status, terms |-> terms], "write")

CommitUpdateInvoice(p) ==
    /\ At(p, "write", "updateInvoice")
    /\ invoice' = [invoice EXCEPT !.status = call[p].status]
    /\ \/ /\ call[p].status = "VALIDATED"
          /\ \E a \in FreshAccounts :
              accounts' = [accounts EXCEPT ![a] = NewAccount("INVOICE", call[p].terms)]
       \/ call[p].status # "VALIDATED" /\ UNCHANGED accounts
    /\ Finish(p)
    /\ UNCHANGED <<order, payments, stale>>

(* DELETE /invoices/:id; its accounts stay.                                *)
BeginRemoveInvoice(p) == ~invoice.removed /\ Begin(p, [op |-> "removeInvoice"], "write")
CommitRemoveInvoice(p) ==
    /\ At(p, "write", "removeInvoice")
    /\ invoice' = [invoice EXCEPT !.removed = TRUE]
    /\ Finish(p)
    /\ UNCHANGED <<order, accounts, payments, stale>>

(* The restore of the trash, of an invoice.                                *)
BeginRestoreInvoice(p) == invoice.removed /\ Begin(p, [op |-> "restoreInvoice"], "write")
CommitRestoreInvoice(p) ==
    /\ At(p, "write", "restoreInvoice")
    /\ invoice' = [invoice EXCEPT !.removed = FALSE]
    /\ Finish(p)
    /\ UNCHANGED <<order, accounts, payments, stale>>
-----------------------------------------------------------------------------
OnAccount(op, a) == [op |-> op, account |-> a]

(* Mutant: a new due date leaves the approval.                             *)
ApprovalLapsesWithAmount(old, new) == new.amount # old.amount

(* mudouOQueFoiLiberado.                                                   *)
ApprovalLapses(old, new) == new.amount # old.amount \/ new.due # old.due

(* PATCH /account-payables/:id of an open account.                         *)
BeginUpdateAccount(p) ==
    \E a \in Existing, sent \in Patches(FreshTerms) :
        /\ accounts[a].status = "OPEN"
        /\ Begin(p, [op |-> "updateAccount", account |-> a, read |-> accounts[a], sent |-> sent], "write")

CommitUpdateAccount(p) ==
    LET c == call[p]  a == c.account IN
    /\ At(p, "write", "updateAccount")
    /\ accounts' = [accounts EXCEPT
          ![a].terms = Patched(@, c.sent),
          ![a].approved = IF ApprovalLapses(c.read.terms, Patched(c.read.terms, c.sent))
                          THEN Unapproved ELSE @]
    /\ stale' = IF accounts[a].status = c.read.status THEN stale ELSE stale \cup {a}
    /\ Finish(p)
    /\ UNCHANGED <<order, invoice, payments>>

(* Mutant: an account paid in part may be cancelled.                       *)
BeginCancelAccountUnpaid(p) ==
    \E a \in Existing :
        /\ accounts[a].status \in {"OPEN", "PARTIAL"}
        /\ Begin(p, OnAccount("cancelAccount", a), "write")

(* PATCH /account-payables/:id/status: from OPEN to CANCELLED.             *)
BeginCancelAccount(p) ==
    \E a \in Existing :
        /\ accounts[a].status = "OPEN"
        /\ Begin(p, OnAccount("cancelAccount", a), "write")

CommitCancelAccount(p) ==
    /\ At(p, "write", "cancelAccount")
    /\ accounts' = [accounts EXCEPT ![call[p].account].status = "CANCELLED"]
    /\ Finish(p)
    /\ UNCHANGED <<order, invoice, payments, stale>>

(* DELETE /account-payables/:id, and the restore of the trash.  Neither    *)
(* recalculates.                                                           *)
BeginRemoveAccount(p) ==
    \E a \in Existing : Begin(p, OnAccount("removeAccount", a), "write")
BeginRestoreAccount(p) ==
    \E a \in Opened \ Existing : Begin(p, OnAccount("restoreAccount", a), "write")
CommitTrashAccount(p) ==
    /\ pc[p] = "write" /\ call[p].op \in {"removeAccount", "restoreAccount"}
    /\ accounts' = [accounts EXCEPT ![call[p].account].removed = (call[p].op = "removeAccount")]
    /\ Finish(p)
    /\ UNCHANGED <<order, invoice, payments, stale>>

(* POST /account-payables/approve-payment: all the accounts or none; those *)
(* that were approved keep their approval.                                 *)
BeginApprove(p) ==
    \E ids \in SUBSET Existing :
        /\ ids # {}
        /\ \A a \in ids : accounts[a].status \in {"OPEN", "PARTIAL"}
        /\ Begin(p, [op |-> "approve",
                     accounts |-> {a \in ids : accounts[a].approved = Unapproved}], "write")

CommitApprove(p) ==
    /\ At(p, "write", "approve")
    /\ accounts' = [a \in AccountIds |->
          IF a \in call[p].accounts THEN [accounts[a] EXCEPT !.approved = accounts[a].terms]
                                    ELSE accounts[a]]
    /\ Finish(p)
    /\ UNCHANGED <<order, invoice, payments, stale>>

(* DELETE /account-payables/:id/approve-payment.                           *)
BeginRevoke(p) ==
    \E a \in Existing :
        /\ accounts[a].status \in {"OPEN", "PARTIAL"}
        /\ Begin(p, OnAccount("revoke", a), "write")
CommitRevoke(p) ==
    /\ At(p, "write", "revoke")
    /\ accounts' = [accounts EXCEPT ![call[p].account].approved = Unapproved]
    /\ Finish(p)
    /\ UNCHANGED <<order, invoice, payments, stale>>
-----------------------------------------------------------------------------
(* Every write of a payment goes on to recalculateStatus of its account.   *)
WritePayment(p, m, row) ==
    /\ payments' = [payments EXCEPT ![m] = row]
    /\ stale' = stale \cup {row.account}
    /\ Goto(p, [op |-> "recalculate", account |-> row.account], "read")
    /\ UNCHANGED <<order, invoice, accounts>>

(* POST /payments, on an account that is not cancelled.                    *)
BeginCreatePayment(p) ==
    \E a \in Existing, amount \in workload.amounts, status \in workload.statuses :
        /\ accounts[a].status # "CANCELLED"
        /\ Begin(p, [op |-> "createPayment", row |-> NewPayment(a, amount, status)], "write")

CommitCreatePayment(p) ==
    /\ At(p, "write", "createPayment")
    /\ Cardinality(Made) < workload.payments
    /\ \E m \in PaymentIds \ Made : WritePayment(p, m, call[p].row)

(* PATCH and DELETE /payments/:id.  Neither looks at the account.          *)
Kept == {m \in Made : ~payments[m].removed}

BeginUpdatePayment(p) ==
    \E m \in Kept, sent \in Patches([amount: workload.amounts, status: workload.statuses]) :
        Begin(p, [op |-> "updatePayment", payment |-> m, sent |-> sent], "write")

CommitUpdatePayment(p) ==
    /\ At(p, "write", "updatePayment")
    /\ WritePayment(p, call[p].payment, Patched(payments[call[p].payment], call[p].sent))

BeginRemovePayment(p) ==
    \E m \in Kept : Begin(p, [op |-> "removePayment", payment |-> m], "write")
CommitRemovePayment(p) ==
    LET m == call[p].payment IN
    /\ At(p, "write", "removePayment")
    /\ WritePayment(p, m, [payments[m] EXCEPT !.removed = TRUE])

(* The restore of the trash, of a payment: nothing is recalculated.        *)
BeginRestorePayment(p) ==
    \E m \in Made \ Kept : Begin(p, [op |-> "restorePayment", payment |-> m], "write")
CommitRestorePayment(p) ==
    LET m == call[p].payment IN
    /\ At(p, "write", "restorePayment")
    /\ payments' = [payments EXCEPT ![m].removed = FALSE]
    /\ stale' = stale \cup {payments[m].account}
    /\ Finish(p)
    /\ UNCHANGED <<order, invoice, accounts>>

(* recalculateStatus: findFirst reads the account, and then its payments.  *)
RecalculateRead(p) ==
    LET a == call[p].account  row == accounts[a] IN
    /\ At(p, "read", "recalculate")
    /\ \/ (row.removed \/ row.status = "CANCELLED") /\ Finish(p)
       \/ /\ ~row.removed /\ row.status # "CANCELLED"
          /\ Goto(p, [op |-> "recalculate", account |-> a, was |-> row.status,
                      total |-> row.terms.amount], "sum")
    /\ UNCHANGED <<Ledger, stale>>

Basis(a, total) == [sum |-> PaidSum(a), amounts |-> AmountsPaid(a), total |-> total]
Total(a) == accounts[a].terms.amount

RecalculateSum(p) ==
    LET c == call[p]  a == c.account IN
    /\ At(p, "sum", "recalculate")
    /\ \E short \in Shortfalls(a) :
        LET status == StatusFor(PaidSum(a), c.total, short) IN
        \/ /\ status = c.was /\ Finish(p)
           /\ stale' = IF accounts[a].status = c.was /\ Total(a) = c.total THEN stale \ {a} ELSE stale
        \/ /\ status # c.was /\ UNCHANGED stale
           /\ Goto(p, [op |-> "recalculate", account |-> a, status |-> status,
                       basis |-> Basis(a, c.total)], "store")
    /\ UNCHANGED Ledger

(* Then it writes what it found, without a condition.                      *)
RecalculateStore(p) ==
    LET a == call[p].account IN
    /\ At(p, "store", "recalculate")
    /\ accounts' = [accounts EXCEPT ![a].status = call[p].status]
    /\ stale' = IF Basis(a, Total(a)) = call[p].basis THEN stale \ {a} ELSE stale \cup {a}
    /\ Finish(p)
    /\ UNCHANGED <<order, invoice, payments>>
-----------------------------------------------------------------------------
(* Mutant: only the accounts are looked at.                                *)
UnpaidByStatus == \A a \in OfInvoice : accounts[a].status \notin {"PAID", "PARTIAL"}

(* The first transaction of cancel: nothing was paid or is being paid.  A  *)
(* deleted payment counts too.                                             *)
Unpaid ==
    /\ \A a \in OfInvoice : accounts[a].status \notin {"PAID", "PARTIAL"}
    /\ \A m \in Made : payments[m].account \in OfInvoice => payments[m].status = "REFUNDED"

(* POST /purchase-orders/:id/cancel.                                       *)
BeginCancelOrder(p) ==
    /\ order = "ACTIVE" /\ Unpaid
    /\ Begin(p, [op |-> "cancelOrder"], "collect")

(* The second transaction first reads what it will cancel.                 *)
CollectCancelOrder(p) ==
    /\ At(p, "collect", "cancelOrder")
    /\ Goto(p, [op |-> "cancelOrder",
                accounts |-> {a \in OfInvoice : accounts[a].status = "OPEN"},
                invoice |-> ~invoice.removed /\ invoice.status # "CANCELLED"], "write")
    /\ UNCHANGED <<Ledger, stale>>

CommitCancelOrder(p) ==
    /\ At(p, "write", "cancelOrder")
    /\ order' = "CANCELLED"
    /\ accounts' = [a \in AccountIds |->
          IF a \in call[p].accounts THEN [accounts[a] EXCEPT !.status = "CANCELLED"]
                                    ELSE accounts[a]]
    /\ invoice' = IF call[p].invoice THEN [invoice EXCEPT !.status = "CANCELLED"] ELSE invoice
    /\ Finish(p)
    /\ UNCHANGED <<payments, stale>>
-----------------------------------------------------------------------------
Init ==
    /\ order = "ACTIVE"
    /\ invoice = [status |-> "RECEIVED", removed |-> FALSE]
    /\ accounts = [a \in AccountIds |-> AbsentAccount]
    /\ payments = [m \in PaymentIds |-> AbsentPayment]
    /\ pc = [p \in Procs |-> "idle"]
    /\ call = [p \in Procs |-> NoCall]
    /\ stale = {}
    /\ workload \in Workloads

Step(p) ==
    \/ BeginCreateAccount(p) \/ CommitCreateAccount(p)
    \/ BeginUpdateInvoice(p) \/ CommitUpdateInvoice(p)
    \/ BeginRemoveInvoice(p) \/ CommitRemoveInvoice(p)
    \/ BeginRestoreInvoice(p) \/ CommitRestoreInvoice(p)
    \/ BeginUpdateAccount(p) \/ CommitUpdateAccount(p)
    \/ BeginCancelAccount(p) \/ CommitCancelAccount(p)
    \/ BeginRemoveAccount(p) \/ BeginRestoreAccount(p) \/ CommitTrashAccount(p)
    \/ BeginApprove(p) \/ CommitApprove(p)
    \/ BeginRevoke(p) \/ CommitRevoke(p)
    \/ BeginCreatePayment(p) \/ CommitCreatePayment(p)
    \/ BeginUpdatePayment(p) \/ CommitUpdatePayment(p)
    \/ BeginRemovePayment(p) \/ CommitRemovePayment(p)
    \/ BeginRestorePayment(p) \/ CommitRestorePayment(p)
    \/ RecalculateRead(p) \/ RecalculateSum(p) \/ RecalculateStore(p)
    \/ BeginCancelOrder(p) \/ CollectCancelOrder(p) \/ CommitCancelOrder(p)
    \/ Abort(p)

Next == UNCHANGED workload /\ \E p \in Procs : Step(p)

Spec == Init /\ [][Next]_vars
-----------------------------------------------------------------------------
(* Rows keep the shape of the schema: an account is open, partial, paid or *)
(* cancelled, and only accounts that exist await a recalculation.          *)
TypeOK ==
    /\ order \in OrderStatus
    /\ invoice \in [status: InvoiceStatus, removed: BOOLEAN]
    /\ accounts \in [AccountIds -> Accounts]
    /\ payments \in [PaymentIds -> Payments]
    /\ pc \in [Procs -> {"idle", "write", "read", "sum", "store", "collect"}]
    /\ stale \subseteq Opened

(* The status of an account says what its payments add up to, also when    *)
(* two calls pay at once: open exactly if nothing is paid, paid exactly if *)
(* they reach the amount, but partial where doubles that add up to it fall *)
(* short.  Not while its last recalculation is under way, was overtaken,   *)
(* left out (the trash) or lost with its process: then the status is       *)
(* another, until a later payment is written (recalculateStatus).          *)
StatusTellsPayments ==
    \A a \in Existing \ stale : accounts[a].status # "CANCELLED" =>
        /\ accounts[a].status = "OPEN" <=> PaidOf(a) = {}
        /\ accounts[a].status = "PAID" => PaidSum(a) >= Total(a)
        /\ PaidSum(a) > Total(a) => accounts[a].status = "PAID"
        /\ PaidOf(a) # {} /\ PaidSum(a) = Total(a) =>
              \/ accounts[a].status = "PAID"
              \/ accounts[a].status = "PARTIAL" /\ AmountsPaid(a) \in Inexact

(* The properties below are about one call at a time: what a sequence of   *)
(* complete or interrupted calls does.                                     *)
Alone == workload.calls = 1

Cancelled(a) == accounts[a].status = "CANCELLED"

(* No account with money paid is cancelled, by hand or with its order      *)
(* (updateStatus and cancel both rely on the recomputed status).           *)
PaidIsNotCancelled ==
    [][Alone => \A a \in AccountIds : ~Cancelled(a) /\ Cancelled(a)' => a \in stale \/ PaidOf(a) = {}]_vars

(* When an order is cancelled, every account of its invoice is, and no     *)
(* payment of them was made or is under way (the cascade of cancel).       *)
CancelSettlesOrder ==
    [][Alone /\ order # order' =>
        /\ \A a \in OfInvoice : Cancelled(a)'
        /\ \A m \in Kept : payments[m].account \in OfInvoice => payments[m].status = "REFUNDED"
        /\ invoice'.removed \/ invoice'.status = "CANCELLED"]_vars

(* An account is approved for the amount and the date that it has now      *)
(* (mudouOQueFoiLiberado).                                                 *)
ApprovedAsItStands ==
    Alone => \A a \in AccountIds : accounts[a].approved \in {Unapproved, accounts[a].terms}
=============================================================================
